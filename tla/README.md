# Verification of catplay

TLA+ models of the parts of catplay that carry protocol state, the TLC runs that
check them on small instances, and TLAPS proofs of the properties that matter
most for every value of the parameters. `PROJECT.json` lists the runs, the lines
of source behind every definition, the hazards the properties are aimed at, one
mutant per property, the findings and the theorems.

## 1. The system

catplay speaks both sides of CarPlay: it is an accessory towards an iPhone and a
controller (an iPhone) towards a car, and can sit between the two as a proxy.

| Component | Source | State it keeps | Operations | Talks to |
|---|---|---|---|---|
| iAP2 link layer | `core/catplay_iap2_link/src/link_layer.rs`, `negotiate.rs`, `packet.rs` | status, own and peer sequence numbers, retransmit map, out-of-order buffer, negotiation, pending acknowledgement, session queues | `read`, `reconcile`/`next_transmit`, `downgrade`, `close`, `sleep` | the peer's link layer, through a transport that loses frames; its owner through events |
| modular sequence numbers | `core/catplay_iap2_link/src/mod_seq.rs` | none | wrapping add, subtract, half-range order | link layer |
| iAP2 client | `async/catplay_iap2_client/src/tokio/async_client.rs` | transmit permits, wake-ups | polls the link on every event and deadline | link layer, transport |
| modes | `carplay/catplay_carplay/src/modes/` | per resource: user and owner, constraints, borrow count; app states | take, untake, borrow, unborrow, app states; /info and ModesChanged conversions | receiver, transmitter, proxy |
| car-to-phone proxy | `c2a/catplay_c2a/src/proxy_rpc/` | the phone's handle, forwarded commands, the modes arbiter, the queue of exchanges with the car, screen set-up | `reconcile`, `flush_modes`, `dispatch_tx_op`, `dispatch_car_command` | the car (RTSP tasks), phone sessions (`TxAdapterOp` channel) |
| AirPlay receiver | `carplay/catplay_carplay/src/carplay_rx/` | RTSP session, streams, session lock | SETUP, RECORD, command, TEARDOWN, drop | phone, sink of the application |
| AirPlay transmitter | `carplay/catplay_carplay/src/carplay_tx/` | one `StreamState` per stream type, teardown tasks, the teardown queue, scheduled callbacks | `setup_audio`, `setup_screen`, `drain_teardown_queue`, dropping a guard | the receiver of a car, through the RTSP queue |
| event channel | `carplay/catplay_carplay/src/rtsp_frame/rtsp_queue.rs`, `events/`, `async/catplay_tokio/src/tcp/` | requests to send, the slots of responses expected, requests being served, responses that wait for their turn | `queue`, `feed`, `close`, a future dropped or timed out; `on_msg`, `sleep`, `pop`, `respond` | callers of `send_command`, the peer's handler of commands |
| audio ring | `carplay/catplay_ring` | read and write heads, samples with their mirror, bitmap of gaps | `write`, `write_default`, `advance_timeline`, `write_commit`, `iter_segments`, `read` | two threads |
| iAP2 file transfer | `core/catplay_iap2_link/src/files/` | ids reserved, outgoing and incoming sessions, payloads queued | `reserve`, `send_file`, `enqueue_rx`, `dequeue_tx` | the file session of the peer, over the link layer |
| media, pairing, plist, lingo, USB, Bluetooth | others | | formats, ciphers, signal processing, device I/O | |

What is hard about them:

* the link runs over transports that lose frames, with `u8` sequence numbers that
  wrap, retransmission and acknowledgement deadlines, EAK recovery, a negotiation
  whose frames are lost like any others, and a fallback to iAP1;
* the modes are changed by two sides under constraints that survive borrowing;
  a request has several parts, of which one may be rejected and several may name the
  same resource;
* the proxy interleaves the car's commands, the phone's answers and ModesChanged,
  connections that come and go, and exchanges with the car that are still queued
  when the modes they describe are already stale;
* the event channel matches responses to requests by position only, while commands
  finish in any order, callers time out and the connection is cut;
* the transmitter's streams are taken down by guards that other threads drop at any
  time, while the background task sets the next stream up;
* the ring is read and written by two threads, and nothing stops the writer from
  overwriting what the reader has in hand;
* file transfers reuse their ids while payloads of the last transfer are under way.

What makes each correct: messages are delivered once and in order and nothing
unacknowledged is forgotten (link); constraints are honoured, an accepted request
leaves what it asked for and a rejected one has no effect (modes); the car's view agrees with the proxy's once it is
told everything, and hears of the screen before the stream moves (proxy); a
response belongs to its request and every caller is answered or told (event
channel); a stream lives as long as its guard and no longer (transmitter); every
instant of the timeline is heard once and as it was written (ring); a file arrives
whole or is reported as failed (file transfer).

## 2. Modules

| Module | Models | Remarks |
|---|---|---|
| `ModSeq` | `mod_seq.rs` | `SeqMod` is the modulus (256 in the code), any even number here |
| `LinkLayer` | two `LinkLayer` structs and their transports | `link[e]` is the struct, `chan[e]` the frames on their way to `e` |
| `LinkLayerProofs` | theorems about `LinkLayer` | |
| `Modes` | `resource_manager.rs`, `change_modes.rs`, `modes_changed_ext.rs`, `state.rs`, parts of `transaction.rs` | operators only, shared by the two modules below |
| `ResourceController` | one `ResourceController` from its `/info` message on | both sides make requests |
| `ResourceControllerProofs` | theorems about `ResourceController` | |
| `CarManager` | `car_manager.rs`, `modes_arbiter.rs`, `car_to_iphone_command_task.rs`, the session lock and connections of `carplay_rx` | composes the proxy with the car and the phone |
| `CommandService` | what the event channel promises | the abstract specification |
| `EventChannel` | `rtsp_queue.rs` (FIFO), `events_client.rs`, `events_server.rs`, `command_queue.rs`, the loop of `TcpHelperTask` | implements `CommandService` |
| `GapBitmap` | `bitmap.rs` | words of `WordBits` bits (64 in the code) |
| `RingBuffer` | `ring_buffer.rs`, `ring_storage.rs` | extends `GapBitmap` |
| `FileTransfer` | `files/session.rs`, `outgoing.rs`, `incoming.rs`, `events.rs` | assumes of the link what `LinkLayer` checks, `InOrderDelivery` |
| `TransmitterStreams` | `transmitter_proxy.rs`, `transmitter_impl.rs`, `stream_state.rs`, `teardown_task.rs`, `teardown_guard.rs`, and SETUP and TEARDOWN of `receiver.rs` | composes the transmitter with its application and the receiver |
| `ProofBasics` | nothing | lemmas of several proofs: induction over the naturals, sequences taken apart and put together |
| `CarManagerProofs`, `EventChannelProofs`, `FileTransferProofs`, `RingBufferProofs`, `TransmitterStreamsProofs` | theorems about the modules they are named after | |
| `MC…` | instances for TLC | constants only |

**LinkLayer.** A method with `&mut self` is an operator from struct to struct, with
the name of the method. The actions are the owner's calls: `Read` is `read()` of one frame;
the `Transmit…` and `Retransmit` actions are `reconcile` with a budget of one
frame, one action per case of `next_transmit()`, and their guards spell out the
priority of the cases; `Enqueue`, `EnqueueLingo`, `Downgrade`
and `Close` are requests of the owner. Time is abstract: a deadline that is
pending may have passed at any step, so every order of timeouts is covered.
`Lose` is the transport. `SendEak` and `SendReset` are what a peer of another
make may send (this code reads both and sends neither). The payloads of a
session are numbered, a session packet keeps its length, and one control session
stands for the CSM, file and EA sessions. `skipped`, `taken`, `lingo_sent` are
counters for the properties and the bounds. A frame of `iAP1` is one opaque
token.

**Modes / ResourceController.** A resource is its state (`ControllerHas`,
`AccessoryBorrowed`, …), three constraints and a borrow count, as in the code.
A `ChangeModes` is a list of app states and a list of resources, either of which
may name the same thing again; `Absent` is `None`, and malformed requests
(fields missing or too many) are inputs too. `processing` is the loop of
`process_request`: the copy `next` after each part, in the order of the code, until a
part meets one that is rejected; `process_request` stores the copy that came through
the whole loop. Where the code looks for a resource in a request it takes the first
one (`find_resource`, hence `first_named`), but building a controller from `/info`
each one replaces the one before (`from_change_modes`, hence `last_named`).

**CarManager.** `Reconcile(completed, takes_op, cmd)` is one whole pass of
`reconcile()`: RECORD once, a finished screen SETUP, the front proxy task if it
has finished, one `TxAdapterOp`, one car command, `flush_modes`, the initial
attempt to take the screen, `flush_modes` again. Its parameters say which of its
inputs the sleep before it found ready. A queued task of the car is one or two
RTSP exchanges, taken up one by one by `CarAnswers`. `CarFails` is a failed
exchange or a lost car. Phones are connections: `Accept`, `Setup` (which tells
the manager before it tries the session lock, as `respond_setup_initial` does),
`PhoneModes`, `PhoneAnswers`, `PhoneSilent` (the 10 s timeout) and `Drop`. A
ModesChanged is handled whatever became of the SETUP, since `handle_command` asks for
no state. A SETUP that got the lock may still fail at a later step and leaves the
connection in `InitialSetup`; with `Repeating` its phone tries once more, and is
refused by the lock its own connection holds. `repeated` records such phones.
`Exit` is the end of `worker()` and the drop of the manager. The alternative
screen, the overlay's drawing, audio set-up and `/info` patching are left out:
they do not change the modes, the queue or the connections.

**EventChannel.** One module from the callers' futures to the handler of the
commands. `queue`, `PollReady`, `GiveUp` are the caller's side of `RtspQueue`, each
under one of its locks; `ClientReconcile`, `ClientWake`, `Flush`, `Receive`,
`ClientEnd` are the branches of one `TcpHelperTask` loop, and the `Server…` and
`Sleep…` actions those of the other. `EventsServer::sleep` is several actions,
because it is polled again and again inside one `select!`; `armed` says whether its
branch is still selected, which it is no longer once it has returned `None`.
`inflight` and `ready` are the `FuturesUnordered` and its wake-up order. A connection
is a sequence of frames each way; its end may overtake them. The queue with CSeq that
the RTSP sessions use has no positions to keep and is left out.

`CommandService` says what this machinery is for: commands reach the handler at
most once and in the order they were issued, and a caller gets the answer given to
its own command or learns it has to do without. `EventChannel` implements it
(`ImplementsService`) with `handed` mapped to the commands popped from the drain,
`given` to the answers of the handler and the server's own refusals, and `got` to
the result of the caller's future.

**RingBuffer.** The producer's calls are three steps (store the samples; sync the
mirror and clear the gap bits; move the head), the consumer's are the snapshot of
`iter_segments`, one segment at a time, the copy of a slice and the commit at
`drop`. A sample is the logical time it was written for, so a sample heard at the
wrong time is seen to be wrong; `timeline` is what the producer put where. The bits
change atomically per call: the code's words are plain and shared, and a torn word
is not modelled.

**FileTransfer.** Both ends run the code; the end named `Foreign` also does what
another implementation may (`AskPause`, `Resume`, `AskStop`, `StraySetup`, as the
test of the session does), since this code never pauses or cancels by itself. A file is a
number and its units are pairs of file and offset.

**TransmitterStreams.** The background task of `AirPlayTransmitterProxy` is `pc`:
reconcile, poll the teardowns once, take the callback that the last sleep found, run
it, sleep. The
callback's awaits are the phases of `cb`: the drain of the teardown queue, the wait
for a teardown of its own slot, SETUP. `RunTask` is the poll of a `TeardownTask`,
possible only where the code polls it (`Polled`): in the sleep, in a callback that
waits for it, and in the one poll of `drain_teardown_queue` in `reconcile` (`Poll`),
which gets as far as the first task that has to wait. `Close` is the end of the
session, with which the transmitter, its streams and their tasks are dropped. The application's calls and
dropped guards, the receiver, timeouts and the loss of the connection interleave
with all of it. Streams are numbered so that a guard and the stream it was given
for can be compared.

## 3. Runs

| Run | What it shows |
|---|---|
| `link_data` | Negotiation and data in both directions with two losses and EAK: in-order, exactly-once delivery (`InOrderDelivery`), nothing released before it is delivered (`ReleasedIsDelivered`), the retransmit map is exactly the unacknowledged range across wrap-around (`RetransmitMapCovers`), the peer's window holds (`WindowRespected`), the data phase knows its peer (`NegotiatedKnowsPeer`, `AcksFollowSyn`). |
| `link_setup` | Detection, a counter offer, an oversized message, iAP1, a reset and a close, under fairness: set-up ends (`NegotiationEnds`), whatever is unacknowledged is resolved (`UnackedResolved`), and iAP1 and iAP2 never meet in a session (`OneProtocolPerSession`). |
| `resources` | All sequences of requests of both sides: `BorrowsCounted`, `ConstraintsHonoured`, and that `/info` carries the modes (`InfoRoundTrip`). With requests of up to three parts for one resource, and of app states and resources together: an accepted one leaves each resource and app state as its last part for it asked, a refused one changes nothing (`RequestsAnswered`). |
| `car_modes` | Two phones one after the other, two commands of the car, failures: `IdleCarInSync`, `ScreenAfterModes`, `InflightMatchesProxies`. |
| `car_progress` | One phone, which may repeat a SETUP that failed, under fairness: held-back modes are applied (`PendingModesApplied`), and the car converges (`CarConverges`). |
| `event_channel` | Four requests, two at a time, one to an unknown url, a caller that gives up, a server that is cancelled, a main loop that drops its drain: the client's slots line up with the answers to come (`SlotsAligned`), no caller is left behind by `close()` (`NobodyForgotten`), no wake-up is lost (`SendNotified`), the end of the connection settles every call (`EndSettlesCalls`), and the channel implements `CommandService` (`ImplementsService`). |
| `ring_buffer` | All interleavings of producer and consumer over two laps: what is heard is the timeline (`TimelineHeard`), the bitmap is exactly its gaps (`GapsAreTimeline`), and the search over words and across the end of the ring agrees with its definition (`GapSearchExact`). |
| `file_transfer` | Two files, empty or of two chunks, reused ids, a pause, a cancellation or a failure, a stray Setup: no chunk of another transfer gets in (`FileIntact`), Success means a whole file (`SuccessMeansWhole`), no slot outlives its sender (`SlotHasSender`), every transfer ends (`TransferEnds`). |
| `tx_streams` | Four calls on an audio and a screen stream, rival callers, a timeout, a failure, a lost connection, under fairness: a stream lives as long as its guard, until the session ends (`GuardKeepsStream`), who holds no guard meets no conflict (`NoSpuriousConflict`), and what is given up is taken down (`SessionSettles`). |
| `link_lost_final_ack`, `car_second_connection`, `event_stall` | The three findings of section 6; TLC refutes what the source says. |

**Bounds.** *Link:* `SeqMod = 8` with first sequence numbers 5 and 6, so that both
directions wrap within the first packets, and windows of 1 and 2, below half the
range as in practice; three messages one way and one the other, so that one is
lost, one overtakes it in the buffer and one waits for the window; transports of
two frames; two losses, enough to lose a packet and its retransmission; one
retransmission each, so that the limit is met; three rounds of negotiation (two in
`link_setup`, where the host refuses the accessory's payload, so that the limit is
met as well). *Modes:* two resources in every state, every priority, the
constraints that differ in effect, two nested borrows, `/info` messages of every owner
and one that names a resource twice; of requests with several parts, every list of
three out of a Take, an Untake, a Borrow and an Unborrow of the screen, so that each
part meets what two others left, and pairs of app states and of resources with a part
that is rejected first, last or not at all.
*Proxy:* a car that takes and releases the screen and asks for the UI, a phone
that announces a screen of either side, two commands, one ModesChanged per
connection: enough for a request to be in flight while a ModesChanged waits
behind it, and for a screen to be lost while its SETUP is queued. The
connections of `car_modes` do not overlap and are taken up to renaming;
`car_second_connection` is about those that do, and `car_progress` is about one that may
repeat its SETUP. *Event channel:* four requests with two in flight, so that one waits
in `pending` while two finish in either order and one is refused at once; the caller
of the first may give up, which is the slot all later answers depend on. *Ring:* four
slots in two words of two bits, times up to 8 (two laps); writes that meet the end
of the ring, an `advance_timeline` longer than the ring, reads shorter and longer
than the ring, so that overflow and underflow occur and a gap runs across the end.
*Files:* two ids of one end and one of the other, chunks of two units; sizes 0 and 3
give a single final chunk and a short last one; one reservation held at a time.
*Streams:* an audio slot with a rival caller and a screen slot without; four calls
let a slot be set up, given up, and set up again twice. The instances have between 7 thousand
(`resources`) and 4 million (`car_modes`, up to renaming the phones) states. Deadlock is
checked where the system never has to stop (`resources`) and nowhere else: the others
may stop with all messages sent, at an error, or after the last command.

**Fairness.** *Link:* weak fairness of each endpoint's transmission and of reading.
`AsyncClient` reconciles after each event and each deadline that `sleep()` names,
and reads whatever the transport delivers; nothing is assumed of losses beyond
their bound, of EAK, resets, close or enqueueing. *Proxy:* `worker()` reconciles
after every event, so a pass that takes an op, a pass that takes a finished task
and a first pass are weakly fair; the car and the phone answer or their 10 s
timeouts fire; a connection that was asked to close is dropped. Nothing is
assumed of the car's commands, the phone's ModesChanged or new connections.
*Event channel:* both `TcpHelperTask`s are spawned on the runtime, which polls what
is ready; callers poll their futures, and the main loop pops commands. Nothing is
assumed of callers who give up, of answers or of cancellation. *Files:* the owner of
the link dequeues while `has_tx_pending()` and hands on what it receives; a peer
that paused resumes. *Streams:* weak fairness of the background task and of the
receiver's answers, and strong fairness of a teardown
task, which is polled only while the loop sleeps, in its reconcile, or while a callback
waits for that slot,
so that it is ready again and again rather than all the time. The application never
has to do anything.
The arbiter applies held-back modes only while nothing is in flight, so a car
that always has a request in flight would starve them: `PendingModesApplied`
holds because the commands of an instance are bounded.

## 4. Proofs

The theorems hold for every value of the constants that the named assumptions
admit (`SeqModAssumption`, `LspAssumption`, `LinkAssumption`, `RequestAssumption`,
`CarAssumption`, `EventAssumption`, `BitmapAssumption`, `RingAssumption`,
`FileAssumption`, `StreamsAssumption`); TLC evaluates these in every run. Seven theorems
have a hypothesis besides, named below. Each theorem rests on one inductive
invariant of its module, kept action by action.

The library states induction with an operator as parameter, which the provers
cannot instantiate; `ProofBasics` proves `SetInduction` instead, where the
statement is the set of the numbers it holds for, and the other proofs use that.

**`ResourceControllerProofs`**: every set of `/info` messages and requests.

* `ResourcesTypeCorrect`, `BorrowsAlwaysCounted`, `ConstraintsAlwaysHonoured`,
  `RequestsAlwaysAnswered`, `InfoCarriesModes`: `TypeOK`, `BorrowsCounted`,
  `ConstraintsHonoured`, `RequestsAnswered`, `InfoRoundTrip`.

The inductive invariant is `TypeOK /\ BorrowsCounted`. `BorrowsCounted` is needed
for types as well: an Unborrow subtracts one, and only a borrowed resource has a
count to subtract from. The argument about a single resource is made once per
operation (`GoodManager`), and requests follow by induction over the loop through
their parts, of any number (`Run`, `AcceptedRuns`). What a request must not take is
not decided part by part: a borrow may be given back and the resource taken in one
request. `Kept` says what the parts so far have left of what the other side held at
the start, and each part keeps it (`KeptStep`); at the end it is `Honours`. Likewise
`GrantedSoFar` says of one resource or app state that it is as the last part for it so
far asked, or untouched, and at the end of the loop this is `Granted`. `InfoRoundTrip` needs
`SpeechNamed` in addition: an accessory that speaks has a speech mode, from which an
`/info` message says that it speaks.

**`LinkLayerProofs`**: every even modulus, every set of payloads with their windows,
every limit and every bound.

* `TypeCorrect`, `AcksAfterSyn`, `DataPhaseKnowsPeer`, `NeverBothProtocols`: `TypeOK`,
  `AcksFollowSyn`, `NegotiatedKnowsPeer`, `OneProtocolPerSession`.

`NegotiatedKnowsPeer` is not inductive: the host leaves the negotiation on any ACK
that arrives, and nothing in its own state says it has read a SYN by then.
`AcksFollowSyn` supplies this from the channels: as long as the host has not
read a SYN nothing on its way to the host acknowledges anything, so the ACK that
ends the negotiation finds both numbers known. `HandshakeInv` adds to it per
endpoint that the data phase, and an accessory about to send its final ACK, know
both numbers. `OneProtocolPerSession` relates the two ends, and it is the frames
between them that carry the argument: `ProtocolInv` says that whoever has read an
iAP1 frame, and whoever such a frame comes from, is downgraded or in error and has
handed no message to its owner, that nothing is handed over before the data phase,
and that no iAP1 frame is ever kept for retransmission.

* `DeliveredInOrder`, `ReleasedOnlyDelivered`, `MapCovers`, `WindowKept`: `InOrderDelivery`,
  `ReleasedIsDelivered`, `RetransmitMapCovers`, `WindowRespected`, with two hypotheses.
  `OfferAccepted`: both ends take the accessory's offer, as `SimpleLSPNegotiator`, the
  only negotiator of the code, does (`negotiate.rs:23`). `WindowsFit`: the offered window
  is below half the range of the sequence numbers, and so is the number of times a SYN
  may be sent. For the code's `u8` numbers this is the range `LSPPayload::clamp` states
  (`max_outgoing` up to 127, `max_retransmissions` up to 30, `lsp_payload.rs:179-186`),
  and every payload the code offers lies in it (5 and 30); a peer's offer is not clamped.

The invariant, `OrderInv`, never speaks of numbers, only of their *age*: how far back of
the sender's next number a number is. What wraps in the code does not wrap in ages,
and each comparison of `read()` comes out as one of ages, as long as these are less
than half the range apart (`AgeOrder`). One direction of the link, `Way`, is a sender,
a receiver, the frames between them and the acknowledgements on their way back, and
the age of a number fixes the message it carries (`FrameFrom`). The invariant of a way
orders the ages: the receiver is ahead of the acknowledgements, these come in order
and are ahead of the window (`Bounds`, `Acks`); the sender keeps every age in between
(`Kept`); the buffer holds what the receiver will come to (`Buffer`); what the owner was
handed ends where the receiver is (`Owner`); and no frame in flight is half the range
older than the receiver or than a frame before it (`Flight`). The last part is why a
duplicate is never mistaken for a frame to come: retransmission puts any kept frame
behind newer ones, but everything kept is within the window. A way is kept by each of
the few things a step can do to it: a sender takes a number, sends, repeats or is
acknowledged; a receiver delivers, buffers, acknowledges or learns the sender's number
(`WayAdvances` to `WayNegotiates`); each handler is a combination of these on both ways.

The negotiation takes numbers too, and the window does not count them: each SYN the host
reads makes it take a number for another SYN+ACK. `Repeats` bounds these by the times the
accessory repeats its SYN, which ends when the SYN is acknowledged. `HostInv`,
`AccessoryInv` and `Ends` tie the phases together: the accessory is negotiated first,
and no message has a number before. `Taken` counts the messages only from there on. TLC checked
`OrderInv` and its parts on the constants of `link_data` before it was proved.

**`EventChannelProofs`**: every number of requests and cuts, every limit of commands in
flight.

* `EventTypesCorrect`, `NobodyEverForgotten`, `SendAlwaysNotified`, `SlotsAlwaysAligned`:
  `TypeOK`, `NobodyForgotten`, `SendNotified`, `SlotsAligned`;
* `ChannelImplementsService`: `ImplementsService`, the refinement of `CommandService`, step by
  step.

`EventInv` follows a request on its whole way. Every queue on the way, from
`pending_send` to the handler and back to the slots, holds a run of consecutive
requests, or the answers to one, and each run begins where the next one on the way
ends (`CallsInv`, `RequestsInv`, `ResponsesInv`). `CommandsInv` says what the command
queue keeps of that while commands complete in any order and the drain is
dropped half way: those not yet started come in order and after all that have, and
what a drain has popped is older than what it has left. That a response belongs
to the oldest slot, and hence that each step maps to one of the service, follows
from where the runs begin.

**`TransmitterStreamsProofs`**: all sets of streams and callers.

* `StreamsTypeCorrect`, `NeverSpuriousConflict`: `TypeOK`, `NoSpuriousConflict`;
* `GuardsKeepStreams`: `GuardKeepsStream`, under the hypothesis `Rivals \subseteq Audio`;
* `NoStreamLeaks`: a stream that is up has a guard, or an entry in the teardown queue.

`TransmitterInv` numbers the calls: callbacks run in the order of the calls
(`QueueInv`), nobody has scheduled a callback for a caller's slot since its own
(`CallersInv`), and a stream has an owner, a guard or an entry, with no entry left
for the slot of a call that runs (`StreamsInv`). The hypothesis of
`GuardsKeepStreams` is the one that section 6 explains: a second component asking
for a screen that is up replaces it under the guard of the first. In the run of
section 3 it holds. The property is about a session that has not ended: its end drops
the streams, whoever holds their guards.

**`FileTransferProofs`**: all ids, file sizes and chunk sizes.

* `TransfersConsistent`: the invariant `FilesInv` itself;
* `FileTypesCorrect`, `FilesArriveIntact`, `SlotsHaveSenders`, `SuccessIsEarned`: `TypeOK`,
  `FileIntact`, `SlotHasSender`, `SuccessMeansWhole`.

Nothing can be said of the sender's session and the receiver's slot alone, as
payloads of an old transfer and of the next one under the same id may be under way
at once in both directions. `FilesInv` says for each id which of four views the
two ends and the payloads between them make up: no transfer, a Setup under way, a
transfer whose chunks under way continue the file from what the receiver has to
what the sender has sent, or one the receiver has ended, with the payload under
way that says so. For an end that pauses what it sends `PausesOwn` adds that a
paused session is not finished and that nothing under way starts it again.

**`RingBufferProofs`**: all capacities, word widths and sizes of calls.

* `BitmapFollowsTimeline`: `GapsAreTimeline`;
* `GapSearchCorrect`: `GapSearchExact`;
* `RingTypesCorrect`: `TypeOK`;
* `ConsumerHearsTimeline`: `TimelineHeard`, under the hypothesis `WritesFit`: no write is
  longer than the capacity.

`GapsInv` ties the bitmap to the timeline of what the producer put or lost.
The search lemmas show that the search within a word, over words and over the
end of the ring returns the first whole run of gaps, for any word width.
`TimelineHeard` needs to know what the consumer's snapshot may still rely on while
the producer writes over it: `RingInv` says that the ring holds the last lap of
the timeline, `IterInv` that the parts of a read cover what was asked for (lost
instants a lap behind the snapshot, readable ones before it, late ones not), and
`SliceInv` that a slice in the consumer's hand has no gap in it, except where slots
are being reused. `WritesFit` excludes the case that section 6 shows
(`ring_buffer.rs:627`); the other three theorems hold without it. For `TypeOK` the
invariant `TypedInv` adds the bounds of an iteration: how far the consumer is, plus
the parts of the read still to come, stays on the timeline.

**`CarManagerProofs`**: every set of modes, commands, phones and bounds.

* `CarTyped`, `IdleCarKnowsModes`, `StreamFollowsModes`: `TypeOK`, `IdleCarInSync`,
  `ScreenAfterModes`.

What the car knows lags behind the manager by the exchanges still queued. `CarInv`
says where these lead: there is a view of the car that the queued exchanges reach in
order from what it knows now, each set-up or teardown of the screen after the modes
that call for it (`Plan`), and that view is what the manager has last told it
(`PlanInv`); between two passes of `reconcile()` the manager has told all it knows
(`FlushInv`). At most one SETUP is queued, and only while one is pending. With an
empty queue this gives `IdleCarInSync`, and the first step of the plan `ScreenAfterModes`.

A repeated SETUP changes nothing of this, and the three theorems hold with it.

* `InflightIsProxied`: `InflightMatchesProxies`, with two hypotheses. `Overlapping = FALSE`:
  a phone connects after the connection before it is gone. `"Unreadable" \notin
  PhoneResponses`: every answer of the phone can be read. Section 6 says what the code
  does without either; `car_modes` meets both.

A request and its task leave the two queues together, and `Paired` is kept by each handler:
the requests in flight lie in order under the tasks that carry one (`Pairs`), and a task
that got no answer, which leaves its request behind, has its phone closed. A phone
that repeats its SETUP leaves its requests behind as well, and both are `Unpaired`
until they disconnect. What remains is the next phone. Its `IphoneConnected` drops the tasks but not the requests in flight,
so it must never find a phone there, and that is decided by ops still on their way: a
phone that is gone is told to the manager only by an op in the same queue. `TurnsInv`
reads the manager's phone as position 0 of this queue: between two positions at which a
phone connects one disconnects, unless the second is a repeated SETUP (`TakeTurns`), and as long as no connection has a session
every phone in the queue is disconnected further back (`AllEnd`), so the next may connect.
TLC checked the parts of `PairInv` on the instance of `car_modes` before it was proved.

Only model-checked:

* the liveness properties, which are out of the prover's reach;
* negotiations in which an end counters the offer: the four delivery theorems exclude
  them, and `link_setup` checks of them only that they end.

## 5. Not modelled

Most of the repository's lines are no protocol state: tables of message formats
(lingo, CSM), bindings (libyuv), plist and packet coders, pairing and ciphers. They
are functions of bytes, which TLC could only restate. Clock synchronisation, RTP,
video and audio need real time and floating point, out of TLC's reach. USB, Bluetooth
and TCP are device I/O; their loss and back pressure are the environment of
`LinkLayer`, `EventChannel` and `TransmitterStreams`.

Of the components that are modelled in part: the CSeq mode of the RTSP queue; the
bootstrap of a transmitter session, `/feedback`, its commands and `shutdown()`; the
receiver's requests other than SETUP, TEARDOWN and ModesChanged; the alternative
screen and audio of the proxy; `readable_slice()` with a manual `read_commit()` of
the ring.

## 6. Findings and observations

Refuted by a run:

1. `link_lost_final_ack`: the host takes *every* ACK for the final one, payload or
   not. If the accessory's final ACK is lost, its first message ends the
   negotiation and is dropped, and later acknowledged.
2. `car_second_connection`: a connection that is refused the session lock has
   already replaced the active phone in the manager.
3. `event_stall`: a command that completes before an earlier one makes
   `EventsServer::sleep` return `None`, which disables its branch of the `select!`:
   nothing polls the commands still in flight, and when they finish the answers to
   both stay in the server until the peer sends another frame. `AnswerDelivered`
   fails although both tasks are polled fairly.

Seen while modelling, without a run of their own:

* link: a SYN that is retransmitted makes the host offer again with a new sequence
  number while the first SYN+ACK is outstanding (`link_layer.rs:718`); after a counter
  offer of the host the two ends may disagree on which payload is whose; EAK recovery
  retransmits on every reconcile, whatever the deadline; `LSPPayload::clamp()` and
  `LinkLayer::close()` have no caller; a window of 128 or more would make the
  half-range order ambiguous, and no path bounds it;
* modes: resources merged from a ModesChanged are borrowed with a borrow count of 0;
  an owner's Untake ejects a borrower whose unborrow constraint is Never, and the owner
  may Take the resource in the same request (`ConstraintsHonoured` exempts it as
  `reclaimed`);
* proxy: after the car's Untake the car is told that the controller has the screen,
  and gets no stream (`modes_changed_ext.rs:35`, `car_manager.rs:296`); an answer
  without a readable ChangeModesResponse leaves its request in flight, and later
  ModesChanged wait behind it (`car_manager.rs:242`); a phone that repeats its SETUP
  drops the tasks that wait for its answers but not the arbiter's requests in flight
  (`car_manager.rs:436`), so that later answers are paired with older requests and
  ModesChanged may wait for good (`InflightMatchesProxies` and `PendingModesApplied`
  exempt such a phone);
* ring: a `write()` of more than the capacity stores its last samples from the old
  head on, so they are heard rotated unless the surplus is a multiple of the capacity;
  with `WriteSizes = {6}` `TimelineHeard` fails;
* file transfer: a peer's Setup under an id of this end frees a reservation that is
  still held, and with two reservations the second `send_file` under that id panics;
  `file_id` 255 makes the transmitter's `get_mut(255).unwrap()` panic;
  `FileTransferTransmitter::cancel` is not reachable through `FileSession`, and a
  Success already under way would finish the next transfer under that id;
* transmitter: a guard carries only its stream's type. Two `setup_screen` calls give
  the first guard power over the second stream (with `Rivals = {"screen"}`
  `GuardKeepsStream` fails), since a screen that is up is replaced and not refused as
  audio is; a SETUP that times out, or whose answer is rejected, after the receiver
  has accepted it leaves the stream open there, and later SETUPs of that type are
  refused (`SessionSettles` exempts these slots).

## 7. Plan

Theorems: `OrderInv` of `LinkLayer` for negotiations with counter offers, where the two ends
may disagree on which payload is whose.

Models: the link as two reliable FIFO queues, an abstract specification that
`LinkLayer` implements; the transmitter's bootstrap and `shutdown()`; the receiver's
remaining requests.
