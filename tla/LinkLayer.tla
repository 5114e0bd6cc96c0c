----------------------------- MODULE LinkLayer ------------------------------
(***************************************************************************)
(* The iAP2 link layer (core/catplay_iap2_link/src/link_layer.rs): two     *)
(* instances of LinkLayer, the host (iPhone role, `server`) and the        *)
(* accessory, joined by two lossy FIFO transports.                         *)
(*                                                                         *)
(* link[e] is the LinkLayer struct of endpoint e.  Methods that take       *)
(* `&mut self` are operators from a struct to a struct; the actions are    *)
(* the calls the session owner makes: read() of a received frame,          *)
(* reconcile(1) (one frame to the transport, which is how AsyncClient      *)
(* drives the link), and the enqueue/downgrade/close requests.             *)
(*                                                                         *)
(* Time is abstract: a pending deadline may have elapsed at any step.      *)
(***************************************************************************)
EXTENDS ModSeq, Sequences, FiniteSets

CONSTANTS
    Lsp,                   \* link synchronization payloads that may be offered
    max_outgoing,          \* LSPPayload::max_outgoing, per payload
    max_len,               \* LSPPayload::max_len
    max_retransmissions,   \* LSPPayload::max_retransmissions
    has_control,           \* does the payload list a Control session?
    Negotiating_Lsp,       \* LSPPayload::negotiating()
    StartLsp,              \* lsp_negotiator.start() of each endpoint
    Accepts,               \* offers lsp_negotiator.counter() answers with None
    StartSeq,              \* first own_seq of each endpoint
    MaxRounds,             \* negotiation rounds before giving up (10)
    EakPeers,              \* endpoints whose implementation answers a gap with EAK
    MsgLen,                \* bound: sizes of the CSM packets each owner sends
    MaxLingo,              \* bound: iAP1 frames the owner of each endpoint sends
    MaxInFlight,           \* bound: frames a transport holds
    MaxLosses,             \* bound: frames the transports lose
    MaxResets,             \* bound: RST packets a host implementation sends
    Closers                \* endpoints whose owner may close the link

Host == "host"
Accessory == "accessory"
Endpoint == {Host, Accessory}

Peer(e) == IF e = Host THEN Accessory ELSE Host

ASSUME LspAssumption ==
    /\ max_outgoing \in [Lsp -> Nat]
    /\ max_len \in [Lsp -> Nat]
    /\ max_retransmissions \in [Lsp -> Nat]
    /\ has_control \in [Lsp -> BOOLEAN]
    /\ Negotiating_Lsp \in Lsp
    /\ StartLsp \in [Endpoint -> Lsp]
    /\ Accepts \in [Endpoint -> SUBSET Lsp]

ASSUME LinkAssumption ==
    /\ StartSeq \in [Endpoint -> SeqNum]
    /\ MaxRounds \in Nat
    /\ EakPeers \subseteq Endpoint
    /\ MsgLen \in [Endpoint -> Seq(Nat)]
    /\ MaxLingo \in [Endpoint -> Nat]
    /\ MaxInFlight \in Nat
    /\ MaxLosses \in Nat
    /\ MaxResets \in Nat
    /\ Closers \subseteq Endpoint

VARIABLES
    link,     \* link[e]: the LinkLayer of endpoint e
    chan,     \* chan[e]: frames on their way to endpoint e
    losses,   \* frames lost so far
    resets    \* RST packets sent so far

vars == <<link, chan, losses, resets>>
-----------------------------------------------------------------------------
(* Frames and state. *)

\* Option<ModSeq8> that is None, and a packet without a session payload.
NoSeq == -1
NoMsg == 0

DataStatus == {"Writable", "Unwritable", "Recovery"}

LinkError ==
    {"Reset", "RetransmissionsExceeded", "LinkNegotiationRoundsExceeded", "Eof",
     "RecvMaxLenViolation", "TransmitMaxLenViolation", "RemoteAttemptedUpgrade",
     "AttemptedUpgrade", "RemoteAttemptedDowngrade", "AttemptedDowngrade"}

LinkStatus == {"Detecting", "Negotiating", "Downgrade"} \cup DataStatus \cup LinkError

Control == {"SYN", "SYNACK", "ACK", "EAK", "RST"}

\* PacketOrDetect.  An ACK carries a session payload iff msg # NoMsg (the msg-th
\* message of the sender's owner, len long), SYN and SYNACK carry an LSP, EAK the
\* first missing sequence number (the code never looks at the others).  len is
\* Packet::size of a session packet; the others are small.
Frame == [ctl : Control \cup {"DETECT", "LEGACY"},
          seq : SeqNum, ack : SeqNum, msg : Nat, len : Nat, lsp : Lsp, psn : SeqNum]

Bare(ctl) == [ctl |-> ctl, seq |-> 0, ack |-> 0, msg |-> NoMsg,
              len |-> 0, lsp |-> Negotiating_Lsp, psn |-> 0]

new_syn(seq, lsp) == [Bare("SYN") EXCEPT !.seq = seq, !.lsp = lsp]

new_syn_ack(seq, ack, lsp) ==
    [Bare("SYNACK") EXCEPT !.seq = seq, !.ack = ack, !.lsp = lsp]

new_ack(seq, ack, msg, len) ==
    [Bare("ACK") EXCEPT !.seq = seq, !.ack = ack, !.msg = msg, !.len = len]

new_eak(seq, ack, psn) ==
    [Bare("EAK") EXCEPT !.seq = seq, !.ack = ack, !.psn = psn]

\* Mutant: a SYN+ACK does not count as an acknowledgement.
is_any_ack_BareOnly(p) == p.ctl \in {"ACK", "EAK"}

is_any_ack(p) == p.ctl \in {"ACK", "SYNACK", "EAK"}

is_ackable(p) == p.ctl \in {"SYN", "SYNACK"} \/ (p.ctl = "ACK" /\ p.msg # NoMsg)

\* A slot of retransmit_map; retries is retry_count.
NoEntry == [p |-> Bare("RST"), retries |-> 0]
Entry == [p : Frame, retries : Nat]

LinkState ==
    [status : LinkStatus,
     own_seq : SeqNum,
     peer_seq : SeqNum \cup {NoSeq},
     peer_ack : SeqNum \cup {NoSeq},
     local_lsp : Lsp,
     peer_lsp : Lsp,
     \* Negotiation: its variant, the pending flag and NegotiationData
     phase : {"Start", "Offering", "Accepting", "Accepted"},
     pending : BOOLEAN,
     rounds : Nat,
     offer : Lsp,
     accepted_peer_lsp : SUBSET Lsp,
     retransmit_map : [SeqNum -> Entry],
     out_of_order : [SeqNum -> Nat],
     missing_psn : SeqNum \cup {NoSeq},
     syn_transmitted : BOOLEAN,
     detect_transmitted : BOOLEAN,
     \* PendingAck: unacked packets, force, needs_detect_acknowledge
     unacked : BOOLEAN,
     force : BOOLEAN,
     detect_ack : BOOLEAN,
     \* PayloadSession csm (the sizes of the waiting packets) and lingo (how many
     \* wait); taken and lingo_sent count what left csm and what entered lingo
     csm : Seq(Nat), taken : Nat, lingo : Nat, lingo_sent : Nat,
     \* what the session owner was handed: ReadCsm and ReadLegacy events
     delivered : Seq(Nat), legacy_rx : Nat,
     \* history: the last message swallowed by the end of the negotiation
     skipped : Nat]

\* Mutant: the accessory presumes the host's first sequence number.
NewLink_PresumesPeer(e) ==
    [status |-> "Detecting", own_seq |-> StartSeq[e],
     peer_seq |-> IF e = Accessory THEN SeqSub(StartSeq[Host], 1) ELSE NoSeq,
     peer_ack |-> NoSeq,
     local_lsp |-> Negotiating_Lsp, peer_lsp |-> Negotiating_Lsp,
     phase |-> "Start", pending |-> FALSE, rounds |-> 0,
     offer |-> StartLsp[e], accepted_peer_lsp |-> {},
     retransmit_map |-> [s \in SeqNum |-> NoEntry],
     out_of_order |-> [s \in SeqNum |-> NoMsg],
     missing_psn |-> NoSeq,
     syn_transmitted |-> FALSE, detect_transmitted |-> FALSE,
     unacked |-> FALSE, force |-> FALSE, detect_ack |-> FALSE,
     csm |-> << >>, taken |-> 0, lingo |-> 0, lingo_sent |-> 0,
     delivered |-> << >>, legacy_rx |-> 0, skipped |-> 0]

NewLink(e) ==
    [status |-> "Detecting", own_seq |-> StartSeq[e],
     peer_seq |-> NoSeq, peer_ack |-> NoSeq,
     local_lsp |-> Negotiating_Lsp, peer_lsp |-> Negotiating_Lsp,
     phase |-> "Start", pending |-> FALSE, rounds |-> 0,
     offer |-> StartLsp[e], accepted_peer_lsp |-> {},
     retransmit_map |-> [s \in SeqNum |-> NoEntry],
     out_of_order |-> [s \in SeqNum |-> NoMsg],
     missing_psn |-> NoSeq,
     syn_transmitted |-> FALSE, detect_transmitted |-> FALSE,
     unacked |-> FALSE, force |-> FALSE, detect_ack |-> FALSE,
     csm |-> << >>, taken |-> 0, lingo |-> 0, lingo_sent |-> 0,
     delivered |-> << >>, legacy_rx |-> 0, skipped |-> 0]

is_error(l) == l.status \in LinkError
is_downgrade(l) == l.status = "Downgrade"
InData(l) == l.status \in DataStatus

enter_error_state(l, err) == [l EXCEPT !.status = err]
-----------------------------------------------------------------------------
(* Window and status. *)

\* Mutant: one packet more than the peer's window.
is_window_writable_OneMore(l) ==
    \/ l.peer_ack = NoSeq
    \/ SeqSub(l.own_seq, l.peer_ack) <= max_outgoing[l.peer_lsp] + 1

is_window_writable(l) ==
    \/ l.peer_ack = NoSeq
    \/ SeqSub(l.own_seq, l.peer_ack) <= max_outgoing[l.peer_lsp]

refresh_data_status(l) ==
    IF ~InData(l) THEN l
    ELSE [l EXCEPT !.status = IF l.missing_psn # NoSeq THEN "Recovery"
                              ELSE IF is_window_writable(l) THEN "Writable"
                              ELSE "Unwritable"]

\* Mutant: acknowledged sequence numbers are compared without wrapping.
update_peer_ack_NoWrap(l, ack) ==
    IF l.peer_ack # NoSeq /\ ~SeqGT(ack, l.peer_ack) THEN l
    ELSE refresh_data_status(
           [l EXCEPT !.peer_ack = ack,
                     !.missing_psn = NoSeq,
                     !.retransmit_map =
                         [s \in SeqNum |-> IF s > ack THEN @[s] ELSE NoEntry]])

\* The part of read() that handles the acknowledgement number of a packet.
update_peer_ack(l, ack) ==
    IF l.peer_ack # NoSeq /\ ~SeqGT(ack, l.peer_ack) THEN l
    ELSE refresh_data_status(
           [l EXCEPT !.peer_ack = ack,
                     !.missing_psn = NoSeq,
                     !.retransmit_map =
                         [s \in SeqNum |-> IF SeqGT(s, ack) THEN @[s] ELSE NoEntry]])

\* begin_recovery and the refresh after it.
begin_recovery(l, psn) == refresh_data_status([l EXCEPT !.missing_psn = psn])

\* Mutant: the sequence number does not wrap.
take_own_seq_NoWrap(l) == [l EXCEPT !.own_seq = @ + 1]

take_own_seq(l) == [l EXCEPT !.own_seq = SeqAdd(@, 1)]

prepare_ackable(l, p) ==
    [l EXCEPT !.retransmit_map[p.seq] = [p |-> p, retries |-> 0]]

reset_pending_ack(l) ==
    [l EXCEPT !.unacked = FALSE, !.force = FALSE, !.detect_ack = FALSE]
-----------------------------------------------------------------------------
(* Negotiation. *)

\* counter_offer: {} (acceptable) or the one LSP to counter with.
counter_offer(e, lsp) ==
    IF has_control[lsp] /\ lsp \in Accepts[e] THEN {} ELSE {StartLsp[e]}

transition_offering(l) == [l EXCEPT !.phase = "Offering", !.pending = TRUE]

\* Answer an unacceptable LSP, unless the rounds are used up.
make_counter_offer(l, counter) ==
    IF l.rounds + 1 >= MaxRounds
    THEN enter_error_state([l EXCEPT !.rounds = @ + 1], "LinkNegotiationRoundsExceeded")
    ELSE transition_offering([l EXCEPT !.rounds = @ + 1, !.offer = counter])

verify_neg_seq_ack(l, p) ==
    /\ l.peer_seq # NoSeq
    /\ p.seq = SeqAdd(l.peer_seq, 1)
    /\ p.ack = SeqSub(l.own_seq, 1)

on_recv_neg_accessory(l, p) ==
    IF p.ctl # "SYNACK" \/ (l.peer_seq # NoSeq /\ ~verify_neg_seq_ack(l, p)) THEN l
    ELSE LET counter == counter_offer(Accessory, p.lsp)
             l1 == [l EXCEPT !.peer_seq = p.seq]
         IN  IF counter # {}
             THEN make_counter_offer(l1, StartLsp[Accessory])
             ELSE [l1 EXCEPT !.accepted_peer_lsp = {p.lsp}, !.peer_lsp = p.lsp,
                             !.local_lsp = l.offer,
                             !.phase = "Accepting", !.pending = TRUE]

\* The host takes any ACK for the accessory's final one, payload or not.
on_recv_neg_host(l, p) ==
    IF p.ctl \notin {"SYN", "ACK", "SYNACK"} THEN l
    ELSE LET l1 == [l EXCEPT !.peer_seq = IF is_ackable(p) THEN p.seq ELSE @]
         IN  IF p.ctl = "ACK"
             THEN [l1 EXCEPT !.local_lsp = l.offer,
                             !.peer_lsp = IF l.accepted_peer_lsp = {} THEN l.offer
                                          ELSE CHOOSE lsp \in l.accepted_peer_lsp : TRUE,
                             !.phase = "Accepted", !.pending = FALSE,
                             !.status = "Writable", !.skipped = p.msg]
             ELSE IF counter_offer(Host, p.lsp) # {}
             THEN make_counter_offer(l1, StartLsp[Host])
             ELSE transition_offering(
                    [l1 EXCEPT !.accepted_peer_lsp = {p.lsp}, !.offer = p.lsp,
                               !.peer_lsp = p.lsp])

on_recv_neg(e, l, p) ==
    IF e = Host THEN on_recv_neg_host(l, p) ELSE on_recv_neg_accessory(l, p)
-----------------------------------------------------------------------------
(* Receiving. *)

\* How many buffered packets follow sequence number seq without a gap.
BufferedRun(l, seq) ==
    Cardinality({s \in SeqNum \ {seq} :
                   \A i \in 1..SeqSub(s, seq) : l.out_of_order[SeqAdd(seq, i)] # NoMsg})

\* An in-order packet: hand it and every buffered packet that follows it to the
\* owner (process_ack_payload of each) and move peer_seq to the last of them.
process_in_order(l, p) ==
    LET n == BufferedRun(l, p.seq)
    IN  [l EXCEPT
           !.delivered = @ \o [i \in 1..(n + 1) |->
                                 IF i = 1 THEN p.msg
                                 ELSE l.out_of_order[SeqAdd(p.seq, i - 1)]],
           !.out_of_order = [s \in SeqNum |->
                               IF SeqSub(s, p.seq) \in 1..n THEN NoMsg ELSE @[s]],
           !.peer_seq = SeqAdd(p.seq, n),
           !.unacked = TRUE]

\* Mutant: a duplicate is processed like a packet in order.
process_data_Duplicates(l, p) ==
    IF l.peer_seq = NoSeq \/ p.ctl # "ACK" \/ p.msg = NoMsg THEN l
    ELSE LET order == SeqCmp(p.seq, SeqAdd(l.peer_seq, 1))
         IN  IF order \in {"eq", "lt"} THEN process_in_order(l, p)
             ELSE IF order = "gt" THEN [l EXCEPT !.out_of_order[p.seq] = p.msg]
             ELSE l

\* Mutant: a buffered packet counts as received, so it is acknowledged.
process_data_AckBuffered(l, p) ==
    IF l.peer_seq = NoSeq \/ p.ctl # "ACK" \/ p.msg = NoMsg THEN l
    ELSE LET order == SeqCmp(p.seq, SeqAdd(l.peer_seq, 1))
         IN  IF order = "eq" THEN process_in_order(l, p)
             ELSE IF order = "gt"
             THEN [l EXCEPT !.out_of_order[p.seq] = p.msg, !.peer_seq = p.seq, !.force = TRUE]
             ELSE IF order = "lt" THEN [l EXCEPT !.force = TRUE]
             ELSE l

\* read() of a session packet once the link is negotiated.
process_data(l, p) ==
    IF l.peer_seq = NoSeq \/ p.ctl # "ACK" \/ p.msg = NoMsg THEN l
    ELSE LET order == SeqCmp(p.seq, SeqAdd(l.peer_seq, 1))
         IN  IF order = "eq" THEN process_in_order(l, p)
             ELSE IF order = "gt" THEN [l EXCEPT !.out_of_order[p.seq] = p.msg]
             ELSE IF order = "lt" THEN [l EXCEPT !.force = TRUE]
             ELSE l

read_detect(e, l) ==
    IF is_downgrade(l) THEN enter_error_state(l, "RemoteAttemptedUpgrade")
    ELSE IF e = Host THEN [l EXCEPT !.detect_ack = TRUE]
    ELSE IF l.status = "Detecting" THEN [l EXCEPT !.status = "Negotiating"]
    ELSE l

\* Mutant: downgrade() is refused only by an error.
can_downgrade_Always(l) == ~is_error(l)

\* downgrade() succeeds only before the first DETECT.
can_downgrade(l) == l.status \in {"Detecting", "Downgrade"} /\ ~l.detect_transmitted

read_legacy(e, l) ==
    IF is_downgrade(l) \/ (e = Host /\ can_downgrade(l))
    THEN [l EXCEPT !.status = "Downgrade", !.legacy_rx = @ + 1]
    ELSE enter_error_state(l, "RemoteAttemptedDowngrade")

read_packet(e, l, p) ==
    IF is_downgrade(l) THEN enter_error_state(l, "RemoteAttemptedUpgrade")
    ELSE IF p.len > max_len[l.local_lsp]
    THEN enter_error_state(l, "RecvMaxLenViolation")
    ELSE IF e = Accessory /\ p.ctl = "RST" THEN enter_error_state(l, "Reset")
    ELSE LET l1 == IF e = Host /\ l.status = "Detecting"
                   THEN [l EXCEPT !.status = "Negotiating"] ELSE l
             l2 == IF is_any_ack(p) THEN update_peer_ack(l1, p.ack) ELSE l1
             l3 == IF p.ctl = "EAK" /\ l2.peer_ack # NoSeq
                   THEN begin_recovery(l2, p.psn) ELSE l2
         IN  IF l2.status = "Negotiating" THEN on_recv_neg(e, l2, p)
             ELSE IF InData(l2) THEN process_data(l3, p)
             ELSE l2

read(e, l, p) ==
    IF is_error(l) THEN l
    ELSE IF p.ctl = "DETECT" THEN read_detect(e, l)
    ELSE IF p.ctl = "LEGACY" THEN read_legacy(e, l)
    ELSE read_packet(e, l, p)
-----------------------------------------------------------------------------
(* Transmitting: next_transmit() picks one frame by priority. *)

Update(e, l) == link' = [link EXCEPT ![e] = l]

\* The transport takes a frame only while it has room (AsyncClient.pending_tx).
HasPermit(e) == Len(chan[Peer(e)]) < MaxInFlight

\* next_transmit() returned frame p and left the struct as l.
Send(e, l, p) ==
    /\ Update(e, refresh_data_status(l))
    /\ chan' = [chan EXCEPT ![Peer(e)] = Append(@, p)]
    /\ UNCHANGED <<losses, resets>>

\* next_transmit() returned None after changing the struct to l.
Quit(e, l) ==
    /\ Update(e, l)
    /\ UNCHANGED <<chan, losses, resets>>

HasPayload(l) == l.csm # << >>

dequeue_tx(l) == [l EXCEPT !.csm = Tail(@), !.taken = @ + 1]

\* iAP1 frames come first, whatever the status.
TransmitLegacy(e) ==
    LET l == link[e]
        l1 == [l EXCEPT !.lingo = @ - 1]
    IN  /\ HasPermit(e) /\ ~is_error(l) /\ l.lingo > 0
        /\ IF is_downgrade(l) THEN Send(e, l1, Bare("LEGACY"))
           ELSE Quit(e, enter_error_state(l1, "AttemptedDowngrade"))

\* A session message scheduled on an iAP1 link is an error.
RefuseUpgrade(e) ==
    LET l == link[e]
    IN  /\ HasPermit(e) /\ is_downgrade(l) /\ l.lingo = 0 /\ HasPayload(l)
        /\ Quit(e, enter_error_state(dequeue_tx(l), "AttemptedUpgrade"))

\* Every case below is reached only with no iAP1 frame scheduled.
MayTransmit(e) == HasPermit(e) /\ link[e].lingo = 0

AcknowledgeDetect ==
    LET l == link[Host]
    IN  /\ MayTransmit(Host) /\ l.status = "Detecting" /\ l.detect_ack
        /\ Send(Host, [l EXCEPT !.detect_ack = FALSE], Bare("DETECT"))

\* Mutant: DETECT is sent once.
TransmitDetect_Once ==
    LET l == link[Accessory]
    IN  /\ MayTransmit(Accessory) /\ l.status = "Detecting" /\ ~l.detect_transmitted
        /\ Send(Accessory, [l EXCEPT !.detect_transmitted = TRUE], Bare("DETECT"))

\* The first DETECT, or a retransmission after DETECT_RETRANSMIT.
TransmitDetect ==
    LET l == link[Accessory]
    IN  /\ MayTransmit(Accessory) /\ l.status = "Detecting"
        /\ Send(Accessory, [l EXCEPT !.detect_transmitted = TRUE], Bare("DETECT"))

\* take_pending_negotiation_transmit
HasPendingTx(l) == l.pending /\ l.phase \in {"Offering", "Accepting"} /\ l.peer_seq # NoSeq

TransmitSynAck(e) ==
    LET l == link[e]
        p == new_syn_ack(l.own_seq, l.peer_seq, l.offer)
    IN  /\ MayTransmit(e) /\ l.status = "Negotiating"
        /\ HasPendingTx(l) /\ l.phase = "Offering"
        /\ Send(e, [prepare_ackable(take_own_seq(l), p) EXCEPT
                      !.phase = "Start", !.pending = FALSE], p)

\* Sent once and never retransmitted: it is not ackable.
TransmitFinalAck(e) ==
    LET l == link[e]
    IN  /\ MayTransmit(e) /\ l.status = "Negotiating"
        /\ HasPendingTx(l) /\ l.phase = "Accepting"
        /\ Send(e, [l EXCEPT !.phase = "Accepted", !.pending = FALSE, !.status = "Writable"],
                new_ack(SeqSub(l.own_seq, 1), l.peer_seq, NoMsg, 0))

TransmitSyn ==
    LET l == link[Accessory]
        p == new_syn(l.own_seq, l.offer)
    IN  /\ MayTransmit(Accessory) /\ l.status = "Negotiating"
        /\ ~HasPendingTx(l) /\ ~l.syn_transmitted
        /\ Send(Accessory, [prepare_ackable(take_own_seq(l), p) EXCEPT
                              !.syn_transmitted = TRUE], p)

\* next_retransmit_seq: in recovery only the missing packet, else any packet
\* whose deadline may have passed.
RetransmitSeqs(l) ==
    LET held == {s \in SeqNum : l.retransmit_map[s] # NoEntry}
    IN  IF l.missing_psn # NoSeq THEN held \cap {l.missing_psn} ELSE held

\* Mutant: a retransmission is not counted.
retransmit_one_Uncounted(e, s) ==
    LET l == link[e]
        entry == l.retransmit_map[s]
        p == IF entry.p.ctl = "SYN" THEN entry.p ELSE [entry.p EXCEPT !.ack = l.peer_seq]
    IN  IF entry.retries >= max_retransmissions[l.local_lsp]
        THEN Quit(e, enter_error_state(l, "RetransmissionsExceeded"))
        ELSE /\ entry.p.ctl = "SYN" \/ l.peer_seq # NoSeq
             /\ Send(e, [l EXCEPT !.retransmit_map[s].p = p], p)

\* retransmit_one: all but a plain SYN carry a fresh acknowledgement.
retransmit_one(e, s) ==
    LET l == link[e]
        entry == l.retransmit_map[s]
        p == IF entry.p.ctl = "SYN" THEN entry.p ELSE [entry.p EXCEPT !.ack = l.peer_seq]
    IN  IF entry.retries >= max_retransmissions[l.local_lsp]
        THEN Quit(e, enter_error_state(l, "RetransmissionsExceeded"))
        ELSE /\ entry.p.ctl = "SYN" \/ l.peer_seq # NoSeq
             /\ Send(e, [l EXCEPT !.retransmit_map[s] =
                              [p |-> p, retries |-> entry.retries + 1]], p)

Retransmit(e, s) ==
    LET l == link[e]
    IN  /\ MayTransmit(e)
        /\ \/ l.status = "Negotiating" /\ ~HasPendingTx(l) /\ (e = Host \/ l.syn_transmitted)
           \/ InData(l)
        /\ s \in RetransmitSeqs(l)
        /\ retransmit_one(e, s)

\* A payload or an empty ACK is considered when no retransmission is due.
NothingForced(l) == l.missing_psn = NoSeq \/ RetransmitSeqs(l) = {}

TransmitPayload(e) ==
    LET l == link[e]
        msg == l.taken + 1
        p == new_ack(l.own_seq, l.peer_seq, msg, Head(l.csm))
        l1 == take_own_seq(dequeue_tx(l))
    IN  /\ MayTransmit(e) /\ l.status = "Writable" /\ NothingForced(l)
        /\ is_window_writable(l) /\ HasPayload(l)
        /\ IF l.peer_seq = NoSeq THEN Quit(e, dequeue_tx(l))
           ELSE IF p.len > max_len[l.peer_lsp]
           THEN Quit(e, enter_error_state(l1, "TransmitMaxLenViolation"))
           ELSE Send(e, reset_pending_ack(prepare_ackable(l1, p)), p)

\* The acknowledgement deadline elapsed, the ack budget is used up, or a
\* duplicate forces one; only when no payload carries the acknowledgement.
TransmitEmptyAck(e) ==
    LET l == link[e]
    IN  /\ MayTransmit(e) /\ InData(l) /\ NothingForced(l)
        /\ ~(l.status = "Writable" /\ is_window_writable(l) /\ HasPayload(l))
        /\ l.unacked \/ l.force
        /\ l.peer_seq # NoSeq
        /\ Send(e, reset_pending_ack(l),
                new_ack(SeqSub(l.own_seq, 1), l.peer_seq, NoMsg, 0))
-----------------------------------------------------------------------------
(* Requests of the session owner, the transports, and other implementations. *)

Enqueue(e) ==
    LET l == link[e]
        msg == l.taken + Len(l.csm) + 1
    IN  /\ msg <= Len(MsgLen[e])
        /\ Quit(e, [l EXCEPT !.csm = Append(@, MsgLen[e][msg])])

EnqueueLingo(e) ==
    /\ link[e].lingo_sent < MaxLingo[e]
    /\ Quit(e, [link[e] EXCEPT !.lingo = @ + 1, !.lingo_sent = @ + 1])

\* The accessory's owner asks for iAP1; a refusal changes nothing.
Downgrade ==
    /\ can_downgrade(link[Accessory])
    /\ MaxLingo[Accessory] > 0
    /\ Quit(Accessory, [link[Accessory] EXCEPT !.status = "Downgrade"])

Close(e) ==
    /\ e \in Closers /\ link[e].status # "Eof"
    /\ Quit(e, enter_error_state(link[e], "Eof"))

Read(e) ==
    /\ chan[e] # << >>
    /\ Update(e, read(e, link[e], Head(chan[e])))
    /\ chan' = [chan EXCEPT ![e] = Tail(@)]
    /\ UNCHANGED <<losses, resets>>

\* The transport to e loses a frame.
Lose(e) ==
    /\ chan[e] # << >> /\ losses < MaxLosses
    /\ chan' = [chan EXCEPT ![e] = Tail(@)]
    /\ losses' = losses + 1
    /\ UNCHANGED <<link, resets>>

\* An implementation that reports gaps does so while it buffers packets.
SendEak(e) ==
    LET l == link[e]
    IN  /\ e \in EakPeers /\ HasPermit(e) /\ InData(l) /\ l.peer_seq # NoSeq
        /\ \E s \in SeqNum : l.out_of_order[s] # NoMsg
        /\ chan' = [chan EXCEPT ![Peer(e)] =
                       Append(@, new_eak(l.own_seq, l.peer_seq, SeqAdd(l.peer_seq, 1)))]
        /\ UNCHANGED <<link, losses, resets>>

\* A host implementation may reset the link.
SendReset ==
    /\ resets < MaxResets /\ HasPermit(Host)
    /\ resets' = resets + 1
    /\ chan' = [chan EXCEPT ![Accessory] = Append(@, Bare("RST"))]
    /\ UNCHANGED <<link, losses>>
-----------------------------------------------------------------------------
Init ==
    /\ link = [e \in Endpoint |-> NewLink(e)]
    /\ chan = [e \in Endpoint |-> << >>]
    /\ losses = 0
    /\ resets = 0

Transmit(e) ==
    \/ TransmitLegacy(e)
    \/ RefuseUpgrade(e)
    \/ TransmitSynAck(e)
    \/ TransmitFinalAck(e)
    \/ \E s \in SeqNum : Retransmit(e, s)
    \/ TransmitPayload(e)
    \/ TransmitEmptyAck(e)

Next ==
    \/ AcknowledgeDetect
    \/ TransmitDetect
    \/ TransmitSyn
    \/ Downgrade
    \/ SendReset
    \/ \E e \in Endpoint : \/ Transmit(e)
                           \/ Enqueue(e)
                           \/ EnqueueLingo(e)
                           \/ Close(e)
                           \/ Read(e)
                           \/ Lose(e)
                           \/ SendEak(e)

Spec == Init /\ [][Next]_vars

\* The owner polls the link after every event and every deadline (AsyncClient
\* reconciles on each wake-up; sleep() names the next deadline), and the
\* transport keeps delivering what it does not lose.
Fairness ==
    /\ WF_vars(AcknowledgeDetect)
    /\ WF_vars(TransmitDetect)
    /\ WF_vars(TransmitSyn)
    /\ \A e \in Endpoint : WF_vars(Transmit(e)) /\ WF_vars(Read(e))

FairSpec == Spec /\ Fairness
-----------------------------------------------------------------------------
TypeOK ==
    /\ link \in [Endpoint -> LinkState]
    /\ chan \in [Endpoint -> Seq(Frame)]
    /\ losses \in 0..MaxLosses
    /\ resets \in 0..MaxResets

Held(l) == {s \in SeqNum : l.retransmit_map[s] # NoEntry}

\* The owner of e receives the peer's messages in order, each once, without a
\* gap from the first one delivered: retransmission, duplicates, the
\* out-of-order buffer and sequence numbers that wrap never show (read()).
InOrderDelivery ==
    \A e \in Endpoint :
        LET l == link[e]
        IN  l.delivered = [i \in 1..Len(l.delivered) |-> l.skipped + i]

\* A message the sender no longer keeps for retransmission has reached the
\* peer's owner (retain() in read() against the acknowledgements the peer
\* sends).  Left out are the message that ended the negotiation at the host,
\* and with it the ones sent before it: the host counts them all as old.
ReleasedIsDelivered ==
    \A e \in Endpoint :
        LET l == link[e]
            r == link[Peer(e)]
        IN  ~is_error(l) /\ ~is_downgrade(l) =>
              \A m \in 1..l.taken :
                 \/ m <= r.skipped + Len(r.delivered)
                 \/ \E s \in Held(l) : l.retransmit_map[s].p.msg = m

\* retransmit_map holds exactly the sequence numbers sent and not yet
\* acknowledged, across wrap-around (prepare_ackable, retain() in read()).
RetransmitMapCovers ==
    \A e \in Endpoint :
        LET l == link[e]
            acked == IF l.peer_ack = NoSeq THEN SeqSub(StartSeq[e], 1) ELSE l.peer_ack
        IN  ~is_error(l) =>
              Held(l) = {s \in SeqNum : SeqSub(s, acked) \in 1..(SeqSub(l.own_seq, acked) - 1)}

\* With both ends negotiated, neither has more messages outstanding than the
\* other allows (is_window_writable against LSPPayload::max_outgoing).
WindowRespected ==
    \A e \in Endpoint :
        LET l == link[e]
            r == link[Peer(e)]
        IN  InData(l) /\ InData(r) =>
              Cardinality({s \in Held(l) : l.retransmit_map[s].p.ctl = "ACK"})
                <= max_outgoing[r.local_lsp]

\* An endpoint in the data phase knows the peer's sequence number and the
\* peer's acknowledgement (the `?` and the "without known peer_seq" exits of
\* next_transmit and read are never taken).
NegotiatedKnowsPeer ==
    \A e \in Endpoint :
        InData(link[e]) => link[e].peer_seq # NoSeq /\ link[e].peer_ack # NoSeq

\* Nothing is acknowledged before the host has read a SYN: neither a frame with
\* an acknowledgement on its way to the host, nor a SYN+ACK on its way to the
\* accessory, nor an accessory that knows the host's sequence number
\* (take_pending_negotiation_transmit, advance_peer_seq_from_ackable).
AcksFollowSyn ==
    \/ link[Host].peer_seq # NoSeq
    \/ /\ link[Accessory].peer_seq = NoSeq
       /\ \A i \in DOMAIN chan[Host] : ~is_any_ack(chan[Host][i])
       /\ \A i \in DOMAIN chan[Accessory] : chan[Accessory][i].ctl # "SYNACK"

\* iAP1 and iAP2 payloads never reach owners in the same session
\* (the Remote/Attempted Upgrade/Downgrade errors of read and next_transmit).
OneProtocolPerSession ==
    \A e, f \in Endpoint : ~(link[e].legacy_rx > 0 /\ link[f].delivered # << >>)

\* Detection and negotiation end: both ends reach the data phase, or an end
\* stops with an error or as iAP1 (retransmissions of DETECT, SYN, SYN+ACK).
NegotiationEnds ==
    <>(\/ \A e \in Endpoint : InData(link[e])
       \/ \E e \in Endpoint : is_error(link[e]) \/ is_downgrade(link[e]))

\* Every packet kept for retransmission is acknowledged in the end, or the link
\* reports an error (retransmit_one against max_retransmissions).
UnackedResolved ==
    \A e \in Endpoint :
        (Held(link[e]) # {}) ~> (Held(link[e]) = {} \/ is_error(link[e]))

\* "We are a host, always expect SYN+ACK containing a LSP payload or an empty
\* ACK" (on_recv_neg_host): the packet that ends the host's negotiation carries
\* no session payload, so no message is swallowed there (and acknowledged later).
FinalAckIsEmpty == link[Host].skipped = NoMsg
=============================================================================
