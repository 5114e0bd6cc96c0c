-------------------------- MODULE LinkLayerProofs ---------------------------
(* Proofs about LinkLayer. *)
EXTENDS LinkLayer, ProofBasics, FunctionTheorems, FiniteSetTheorems, TLAPS

\* Sequence arithmetic stays within the width of the number.
LEMMA SeqArithmetic ==
    ASSUME NEW a \in Int, NEW b \in Int
    PROVE  SeqAdd(a, b) \in SeqNum /\ SeqSub(a, b) \in SeqNum
BY SeqModAssumption DEF SeqAdd, SeqSub, SeqNum

\* The frame constructors build frames.
LEMMA FrameTypes ==
    ASSUME NEW s \in SeqNum, NEW a \in SeqNum, NEW m \in Nat, NEW n \in Nat,
           NEW lsp \in Lsp, NEW c \in Control \cup {"DETECT", "LEGACY"}
    PROVE  /\ Bare(c) \in Frame
           /\ new_syn(s, lsp) \in Frame
           /\ new_syn_ack(s, a, lsp) \in Frame
           /\ new_ack(s, a, m, n) \in Frame
           /\ new_eak(s, a, s) \in Frame
<1>1. 0 \in SeqNum
  BY SeqModAssumption DEF SeqNum
<1> QED
  BY <1>1, LspAssumption DEF Frame, Bare, new_syn, new_syn_ack, new_ack, new_eak, Control, NoMsg

\* The constructors set the control byte and the payload the caller asks for.
LEMMA FrameFields ==
    ASSUME NEW p \in Frame
    PROVE  /\ p.seq \in SeqNum /\ p.ack \in SeqNum /\ p.psn \in SeqNum
           /\ p.msg \in Nat /\ p.len \in Nat /\ p.lsp \in Lsp
BY DEF Frame

\* Setting a flag or a peer's number leaves the rest of a LinkLayer as it was.
LEMMA FlagTypes ==
    ASSUME NEW l \in LinkState
    PROVE  /\ LET m == [l EXCEPT !.detect_ack = FALSE]
              IN  /\ m \in LinkState /\ m.status = l.status /\ m.delivered = l.delivered
                  /\ m.legacy_rx = l.legacy_rx /\ m.retransmit_map = l.retransmit_map
                  /\ m.peer_seq = l.peer_seq /\ m.peer_ack = l.peer_ack /\ m.phase = l.phase
           /\ LET m == [l EXCEPT !.detect_transmitted = TRUE]
              IN  /\ m \in LinkState /\ m.status = l.status /\ m.delivered = l.delivered
                  /\ m.legacy_rx = l.legacy_rx /\ m.retransmit_map = l.retransmit_map
                  /\ m.peer_seq = l.peer_seq /\ m.peer_ack = l.peer_ack /\ m.phase = l.phase
           /\ LET m == [l EXCEPT !.syn_transmitted = TRUE]
              IN  /\ m \in LinkState /\ m.status = l.status /\ m.delivered = l.delivered
                  /\ m.legacy_rx = l.legacy_rx /\ m.retransmit_map = l.retransmit_map
                  /\ m.peer_seq = l.peer_seq /\ m.peer_ack = l.peer_ack /\ m.phase = l.phase
<1>1. LET m == [l EXCEPT !.detect_ack = FALSE]
      IN  /\ m \in LinkState /\ m.status = l.status /\ m.delivered = l.delivered
          /\ m.legacy_rx = l.legacy_rx /\ m.retransmit_map = l.retransmit_map
          /\ m.peer_seq = l.peer_seq /\ m.peer_ack = l.peer_ack /\ m.phase = l.phase
  BY DEF LinkState
<1>2. LET m == [l EXCEPT !.detect_transmitted = TRUE]
      IN  /\ m \in LinkState /\ m.status = l.status /\ m.delivered = l.delivered
          /\ m.legacy_rx = l.legacy_rx /\ m.retransmit_map = l.retransmit_map
          /\ m.peer_seq = l.peer_seq /\ m.peer_ack = l.peer_ack /\ m.phase = l.phase
  BY DEF LinkState
<1>3. LET m == [l EXCEPT !.syn_transmitted = TRUE]
      IN  /\ m \in LinkState /\ m.status = l.status /\ m.delivered = l.delivered
          /\ m.legacy_rx = l.legacy_rx /\ m.retransmit_map = l.retransmit_map
          /\ m.peer_seq = l.peer_seq /\ m.peer_ack = l.peer_ack /\ m.phase = l.phase
  BY DEF LinkState
<1> QED
  BY ONLY <1>1, <1>2, <1>3

\* A LinkLayer that learns the peer's number.
LEMMA PeerSeqType ==
    ASSUME NEW l \in LinkState, NEW s \in SeqNum \cup {NoSeq}
    PROVE  [l EXCEPT !.peer_seq = s] \in LinkState
BY DEF LinkState

\* An empty retransmission slot is well-formed.
LEMMA NoEntryType == NoEntry \in Entry
<1>1. 0 \in SeqNum
  BY SeqModAssumption DEF SeqNum
<1> QED
  BY <1>1, LspAssumption DEF NoEntry, Entry, Bare, Frame, Control, NoMsg

\* enter_error_state() leaves a well-formed LinkLayer.
LEMMA ErrorType ==
    ASSUME NEW l \in LinkState, NEW err \in LinkError
    PROVE  enter_error_state(l, err) \in LinkState
BY DEF enter_error_state, LinkState, LinkStatus

\* refresh_data_status() leaves a well-formed LinkLayer.
LEMMA RefreshType ==
    ASSUME NEW l \in LinkState
    PROVE  refresh_data_status(l) \in LinkState
<1>1. ASSUME NEW st \in DataStatus
      PROVE  [l EXCEPT !.status = st] \in LinkState
  BY DEF LinkState, LinkStatus
<1>2. [l EXCEPT !.status = "Recovery"] \in LinkState
  BY <1>1 DEF DataStatus
<1>3. [l EXCEPT !.status = "Writable"] \in LinkState
  BY <1>1 DEF DataStatus
<1>4. [l EXCEPT !.status = "Unwritable"] \in LinkState
  BY <1>1 DEF DataStatus
<1> QED
  BY <1>2, <1>3, <1>4 DEF refresh_data_status

\* Taking a new acknowledgement leaves a well-formed LinkLayer.
LEMMA UpdatePeerAckType ==
    ASSUME NEW l \in LinkState, NEW ack \in SeqNum
    PROVE  update_peer_ack(l, ack) \in LinkState
<1> DEFINE l1 == [l EXCEPT !.peer_ack = ack,
                           !.missing_psn = NoSeq,
                           !.retransmit_map =
                               [s \in SeqNum |-> IF SeqGT(s, ack) THEN @[s] ELSE NoEntry]]
<1>1. [s \in SeqNum |-> IF SeqGT(s, ack) THEN l.retransmit_map[s] ELSE NoEntry]
        \in [SeqNum -> Entry]
  BY NoEntryType DEF LinkState
<1>2. l1 \in LinkState
  BY <1>1 DEF LinkState
<1> QED
  BY <1>2, RefreshType DEF update_peer_ack

\* Entering recovery leaves a well-formed LinkLayer.
LEMMA BeginRecoveryType ==
    ASSUME NEW l \in LinkState, NEW psn \in SeqNum
    PROVE  begin_recovery(l, psn) \in LinkState
<1>1. [l EXCEPT !.missing_psn = psn] \in LinkState
  BY DEF LinkState
<1> QED
  BY <1>1, RefreshType DEF begin_recovery

\* take_own_seq() wraps within the width of a sequence number.
LEMMA TakeOwnSeqType ==
    ASSUME NEW l \in LinkState
    PROVE  take_own_seq(l) \in LinkState
<1>1. SeqAdd(l.own_seq, 1) \in SeqNum
  BY SeqArithmetic DEF LinkState, SeqNum
<1> QED
  BY <1>1 DEF take_own_seq, LinkState

\* prepare_ackable() files a frame under its sequence number.
LEMMA PrepareAckableType ==
    ASSUME NEW l \in LinkState, NEW p \in Frame
    PROVE  prepare_ackable(l, p) \in LinkState
<1>1. [p |-> p, retries |-> 0] \in Entry
  BY DEF Entry
<1> QED
  BY <1>1, FrameFields DEF prepare_ackable, LinkState

\* PendingAck::reset() leaves a well-formed LinkLayer.
LEMMA ResetPendingAckType ==
    ASSUME NEW l \in LinkState
    PROVE  reset_pending_ack(l) \in LinkState
BY DEF reset_pending_ack, LinkState

\* A counter-offer, and the end of the rounds, leave a well-formed LinkLayer.
LEMMA CounterOfferType ==
    ASSUME NEW l \in LinkState, NEW lsp \in Lsp
    PROVE  make_counter_offer(l, lsp) \in LinkState
<1>1. l.rounds + 1 \in Nat
  BY DEF LinkState
<1>2. [l EXCEPT !.rounds = @ + 1] \in LinkState
  BY <1>1 DEF LinkState
<1>3. [l EXCEPT !.rounds = @ + 1, !.offer = lsp] \in LinkState
  BY <1>1 DEF LinkState
<1>4. transition_offering([l EXCEPT !.rounds = @ + 1, !.offer = lsp]) \in LinkState
  BY <1>3 DEF LinkState, transition_offering
<1>5. "LinkNegotiationRoundsExceeded" \in LinkError
  BY DEF LinkError
<1> QED
  BY <1>2, <1>4, <1>5, ErrorType DEF make_counter_offer

\* on_recv_neg_accessory() leaves a well-formed LinkLayer.
LEMMA NegAccessoryType ==
    ASSUME NEW l \in LinkState, NEW p \in Frame
    PROVE  on_recv_neg_accessory(l, p) \in LinkState
<1> DEFINE l1 == [l EXCEPT !.peer_seq = p.seq]
<1>1. l1 \in LinkState
  BY FrameFields DEF LinkState
<1>2. StartLsp[Accessory] \in Lsp
  BY LspAssumption DEF Endpoint
<1>3. make_counter_offer(l1, StartLsp[Accessory]) \in LinkState
  BY <1>1, <1>2, CounterOfferType
<1>4. p.lsp \in Lsp /\ {p.lsp} \in SUBSET Lsp /\ l.offer \in Lsp
  BY FrameFields DEF LinkState
<1>5. [l1 EXCEPT !.accepted_peer_lsp = {p.lsp}, !.peer_lsp = p.lsp,
                 !.local_lsp = l.offer,
                 !.phase = "Accepting", !.pending = TRUE] \in LinkState
  BY <1>1, <1>4 DEF LinkState
<1> QED
  BY <1>3, <1>5 DEF on_recv_neg_accessory

\* on_recv_neg_host() leaves a well-formed LinkLayer.
LEMMA NegHostType ==
    ASSUME NEW l \in LinkState, NEW p \in Frame
    PROVE  on_recv_neg_host(l, p) \in LinkState
<1> DEFINE l1 == [l EXCEPT !.peer_seq = IF is_ackable(p) THEN p.seq ELSE @]
           their == IF l.accepted_peer_lsp = {} THEN l.offer
                    ELSE CHOOSE lsp \in l.accepted_peer_lsp : TRUE
<1>1. l1 \in LinkState
  <2>1. (IF is_ackable(p) THEN p.seq ELSE l.peer_seq) \in SeqNum \cup {NoSeq}
    BY FrameFields DEF LinkState
  <2> QED
    BY <2>1, PeerSeqType
<1> HIDE DEF l1, their
<1>2. StartLsp[Host] \in Lsp
  BY LspAssumption DEF Endpoint
<1>3. make_counter_offer(l1, StartLsp[Host]) \in LinkState
  BY <1>1, <1>2, CounterOfferType
<1>4. p.lsp \in Lsp /\ {p.lsp} \in SUBSET Lsp /\ l.offer \in Lsp
  BY FrameFields DEF LinkState
<1>5. their \in Lsp
  <2>1. l.accepted_peer_lsp \in SUBSET Lsp
    BY DEF LinkState
  <2> QED
    BY <1>4, <2>1 DEF their
<1>6. [l1 EXCEPT !.local_lsp = l.offer, !.peer_lsp = their,
                 !.phase = "Accepted", !.pending = FALSE,
                 !.status = "Writable", !.skipped = p.msg] \in LinkState
  <2>1. p.msg \in Nat /\ "Writable" \in LinkStatus
    BY FrameFields DEF LinkStatus, DataStatus
  <2> PICK m \in LinkState, a \in Lsp, b \in Lsp, n \in Nat :
         m = l1 /\ a = l.offer /\ b = their /\ n = p.msg
    BY <1>1, <1>4, <1>5, <2>1
  <2>2. [m EXCEPT !.local_lsp = a, !.peer_lsp = b] \in LinkState
    BY ONLY m \in LinkState, a \in Lsp, b \in Lsp DEF LinkState
  <2> PICK m2 \in LinkState : m2 = [m EXCEPT !.local_lsp = a, !.peer_lsp = b]
    BY ONLY <2>2
  <2>3. [m2 EXCEPT !.phase = "Accepted", !.pending = FALSE] \in LinkState
    BY ONLY m2 \in LinkState DEF LinkState
  <2> PICK m3 \in LinkState : m3 = [m2 EXCEPT !.phase = "Accepted", !.pending = FALSE]
    BY ONLY <2>3
  <2>4. [m3 EXCEPT !.status = "Writable", !.skipped = n] \in LinkState
    BY ONLY m3 \in LinkState, n \in Nat, <2>1 DEF LinkState
  <2> QED
    BY <2>4
<1>7. transition_offering([l1 EXCEPT !.accepted_peer_lsp = {p.lsp}, !.offer = p.lsp,
                                     !.peer_lsp = p.lsp]) \in LinkState
  <2>1. [l1 EXCEPT !.accepted_peer_lsp = {p.lsp}, !.offer = p.lsp,
                   !.peer_lsp = p.lsp] \in LinkState
    <3> PICK m \in LinkState, a \in SUBSET Lsp, b \in Lsp : m = l1 /\ a = {p.lsp} /\ b = p.lsp
      BY <1>1, <1>4
    <3>1. [m EXCEPT !.accepted_peer_lsp = a, !.offer = b, !.peer_lsp = b] \in LinkState
      BY ONLY m \in LinkState, a \in SUBSET Lsp, b \in Lsp DEF LinkState
    <3> QED
      BY <3>1
  <2> PICK m \in LinkState : m = [l1 EXCEPT !.accepted_peer_lsp = {p.lsp}, !.offer = p.lsp,
                                            !.peer_lsp = p.lsp]
    BY ONLY <2>1
  <2>2. transition_offering(m) \in LinkState
    BY ONLY m \in LinkState DEF transition_offering, LinkState
  <2> QED
    BY <2>2
<1> QED
  BY <1>3, <1>6, <1>7 DEF on_recv_neg_host, l1, their

\* The buffered run is finite, so its length is a natural number.
LEMMA BufferedRunType ==
    ASSUME NEW l \in LinkState, NEW seq \in SeqNum
    PROVE  BufferedRun(l, seq) \in Nat
<1> DEFINE run == {s \in SeqNum \ {seq} :
                     \A i \in 1..SeqSub(s, seq) : l.out_of_order[SeqAdd(seq, i)] # NoMsg}
<1>1. IsFiniteSet(SeqNum)
  BY SeqModAssumption, FS_Interval DEF SeqNum
<1>2. run \subseteq SeqNum
  OBVIOUS
<1>3. IsFiniteSet(run)
  BY <1>1, <1>2, FS_Subset
<1> QED
  BY <1>3, FS_CardinalityType DEF BufferedRun

\* Handing over an in-order packet and the buffered run keeps the types.
LEMMA InOrderType ==
    ASSUME NEW l \in LinkState, NEW p \in Frame
    PROVE  process_in_order(l, p) \in LinkState
<1> DEFINE n == BufferedRun(l, p.seq)
           msgs == [i \in 1..(n + 1) |-> IF i = 1 THEN p.msg
                                          ELSE l.out_of_order[SeqAdd(p.seq, i - 1)]]
           rest == [s \in SeqNum |-> IF SeqSub(s, p.seq) \in 1..n THEN NoMsg
                                      ELSE l.out_of_order[s]]
<1>1. n \in Nat /\ p.seq \in SeqNum /\ p.msg \in Nat
  BY BufferedRunType, FrameFields
<1> HIDE DEF n
<1>2. l.out_of_order \in [SeqNum -> Nat] /\ l.delivered \in Seq(Nat)
  BY DEF LinkState
<1>3. ASSUME NEW i \in 1..(n + 1)
      PROVE  SeqAdd(p.seq, i - 1) \in SeqNum
  <2>1. p.seq \in Int /\ i - 1 \in Int
    BY <1>1, SeqModAssumption DEF SeqNum
  <2> QED
    BY <2>1, SeqArithmetic
<1>4. msgs \in Seq(Nat)
  <2>1. msgs \in [1..(n + 1) -> Nat]
    BY <1>1, <1>2, <1>3
  <2> QED
    BY <1>1, <2>1
<1>5. l.delivered \o msgs \in Seq(Nat)
  BY <1>2, <1>4
<1>6. rest \in [SeqNum -> Nat]
  BY <1>2 DEF NoMsg
<1>7. SeqAdd(p.seq, n) \in SeqNum
  <2>1. p.seq \in Int /\ n \in Int
    BY <1>1, SeqModAssumption DEF SeqNum
  <2> QED
    BY <2>1, SeqArithmetic
<1> HIDE DEF msgs, rest
<1>8. [l EXCEPT !.delivered = l.delivered \o msgs, !.out_of_order = rest,
                !.peer_seq = SeqAdd(p.seq, n), !.unacked = TRUE] \in LinkState
  BY <1>5, <1>6, <1>7 DEF LinkState
<1> QED
  BY <1>8 DEF process_in_order, msgs, rest, n

\* process_data keeps the types in each of its three orders.
LEMMA ProcessDataType ==
    ASSUME NEW l \in LinkState, NEW p \in Frame
    PROVE  process_data(l, p) \in LinkState
<1>1. process_in_order(l, p) \in LinkState
  BY InOrderType
<1>2. [l EXCEPT !.out_of_order[p.seq] = p.msg] \in LinkState
  <2>1. [l.out_of_order EXCEPT ![p.seq] = p.msg] \in [SeqNum -> Nat]
    BY FrameFields DEF LinkState
  <2> QED
    BY <2>1 DEF LinkState
<1>3. [l EXCEPT !.force = TRUE] \in LinkState
  BY DEF LinkState
<1> QED
  BY <1>1, <1>2, <1>3 DEF process_data

\* read() of a DETECT keeps the types.
LEMMA ReadDetectType ==
    ASSUME NEW l \in LinkState, NEW e \in Endpoint
    PROVE  read_detect(e, l) \in LinkState
<1>1. "RemoteAttemptedUpgrade" \in LinkError /\ "Negotiating" \in LinkStatus
  BY DEF LinkError, LinkStatus
<1>2. [l EXCEPT !.detect_ack = TRUE] \in LinkState
  BY DEF LinkState
<1>3. [l EXCEPT !.status = "Negotiating"] \in LinkState
  BY <1>1 DEF LinkState
<1> QED
  BY <1>1, <1>2, <1>3, ErrorType DEF read_detect

\* read() of an iAP1 frame keeps the types.
LEMMA ReadLegacyType ==
    ASSUME NEW l \in LinkState, NEW e \in Endpoint
    PROVE  read_legacy(e, l) \in LinkState
<1>1. "RemoteAttemptedDowngrade" \in LinkError /\ "Downgrade" \in LinkStatus
  BY DEF LinkError, LinkStatus
<1>2. l.legacy_rx + 1 \in Nat
  BY DEF LinkState
<1>3. [l EXCEPT !.status = "Downgrade", !.legacy_rx = @ + 1] \in LinkState
  BY <1>1, <1>2 DEF LinkState
<1> QED
  BY <1>1, <1>3, ErrorType DEF read_legacy

\* read() of an iAP2 packet keeps the types.
LEMMA ReadPacketType ==
    ASSUME NEW l \in LinkState, NEW p \in Frame, NEW e \in Endpoint
    PROVE  read_packet(e, l, p) \in LinkState
<1> DEFINE l1 == IF e = Host /\ l.status = "Detecting"
                 THEN [l EXCEPT !.status = "Negotiating"] ELSE l
           l2 == IF is_any_ack(p) THEN update_peer_ack(l1, p.ack) ELSE l1
           l3 == IF p.ctl = "EAK" /\ l2.peer_ack # NoSeq
                 THEN begin_recovery(l2, p.psn) ELSE l2
<1>1. /\ {"RemoteAttemptedUpgrade", "RecvMaxLenViolation", "Reset"} \subseteq LinkError
      /\ "Negotiating" \in LinkStatus
  BY DEF LinkError, LinkStatus
<1>2. l1 \in LinkState
  <2>1. [l EXCEPT !.status = "Negotiating"] \in LinkState
    BY <1>1 DEF LinkState
  <2> QED
    BY <2>1
<1> HIDE DEF l1
<1>3. l2 \in LinkState
  BY <1>2, FrameFields, UpdatePeerAckType
<1> HIDE DEF l2
<1>4. l3 \in LinkState
  BY <1>3, FrameFields, BeginRecoveryType
<1> HIDE DEF l3
<1>5. on_recv_neg(e, l2, p) \in LinkState
  BY <1>3, NegHostType, NegAccessoryType DEF on_recv_neg
<1>6. process_data(l3, p) \in LinkState
  BY <1>4, ProcessDataType
<1>7. /\ enter_error_state(l, "RemoteAttemptedUpgrade") \in LinkState
      /\ enter_error_state(l, "RecvMaxLenViolation") \in LinkState
      /\ enter_error_state(l, "Reset") \in LinkState
  BY <1>1, ErrorType
<1> QED
  BY <1>3, <1>5, <1>6, <1>7 DEF read_packet, l1, l2, l3

\* read() leaves a well-formed LinkLayer, whatever frame arrives.
LEMMA ReadType ==
    ASSUME NEW l \in LinkState, NEW p \in Frame, NEW e \in Endpoint
    PROVE  read(e, l, p) \in LinkState
BY ReadDetectType, ReadLegacyType, ReadPacketType DEF read

\* A transmission of a well-formed frame keeps TypeOK.
LEMMA SendType ==
    ASSUME TypeOK, NEW e \in Endpoint, NEW l \in LinkState, NEW p \in Frame, Send(e, l, p)
    PROVE  TypeOK'
<1>1. refresh_data_status(l) \in LinkState
  BY RefreshType
<1>2. link' \in [Endpoint -> LinkState]
  BY <1>1 DEF TypeOK, Send, Update
<1>3. Peer(e) \in Endpoint
  BY DEF Peer, Endpoint
<1>4. Append(chan[Peer(e)], p) \in Seq(Frame)
  BY <1>3 DEF TypeOK
<1>5. chan' \in [Endpoint -> Seq(Frame)]
  BY <1>3, <1>4 DEF TypeOK, Send
<1> QED
  BY <1>2, <1>5 DEF TypeOK, Send

\* A step that transmits nothing keeps TypeOK.
LEMMA QuitType ==
    ASSUME TypeOK, NEW e \in Endpoint, NEW l \in LinkState, Quit(e, l)
    PROVE  TypeOK'
BY DEF TypeOK, Quit, Update

\* dequeue_tx() of a non-empty queue keeps the types.
LEMMA DequeueType ==
    ASSUME NEW l \in LinkState, HasPayload(l)
    PROVE  dequeue_tx(l) \in LinkState /\ Head(l.csm) \in Nat
<1>1. l.csm \in Seq(Nat) /\ l.csm # << >> /\ l.taken \in Nat
  BY DEF LinkState, HasPayload
<1>2. Head(l.csm) \in Nat /\ Tail(l.csm) \in Seq(Nat) /\ l.taken + 1 \in Nat
  BY <1>1
<1>3. dequeue_tx(l) \in LinkState
  BY <1>2 DEF LinkState, dequeue_tx
<1> QED
  BY <1>2, <1>3

\* Sending a SYN or SYN+ACK: the packet is kept for retransmission.
LEMMA AckableSendType ==
    ASSUME NEW l \in LinkState, NEW p \in Frame
    PROVE  prepare_ackable(take_own_seq(l), p) \in LinkState
BY TakeOwnSeqType, PrepareAckableType

\* The iAP1 branches of next_transmit() keep TypeOK.
LEMMA LegacyTransmitType ==
    ASSUME TypeOK, NEW e \in Endpoint, TransmitLegacy(e) \/ RefuseUpgrade(e)
    PROVE  TypeOK'
<1> DEFINE l == link[e]
           l1 == [l EXCEPT !.lingo = @ - 1]
<1>0. l \in LinkState
  BY DEF TypeOK
<1> HIDE DEF l
<1>1. "AttemptedDowngrade" \in LinkError /\ "AttemptedUpgrade" \in LinkError
  BY DEF LinkError
<1>2. CASE TransmitLegacy(e)
  <2>1. l.lingo > 0
    BY <1>2 DEF TransmitLegacy, l
  <2>2. l.lingo - 1 \in Nat
    BY <1>0, <2>1 DEF LinkState
  <2>3. l1 \in LinkState
    BY <1>0, <2>2 DEF LinkState
  <2>4. Bare("LEGACY") \in Frame
    BY FrameTypes, SeqModAssumption, LspAssumption DEF SeqNum
  <2> HIDE DEF l1
  <2>5. enter_error_state(l1, "AttemptedDowngrade") \in LinkState
    BY <1>1, <2>3, ErrorType
  <2>6. Send(e, l1, Bare("LEGACY")) \/ Quit(e, enter_error_state(l1, "AttemptedDowngrade"))
    BY <1>2 DEF TransmitLegacy, l, l1
  <2> QED
    BY <2>3, <2>4, <2>5, <2>6, SendType, QuitType
<1>3. CASE RefuseUpgrade(e)
  <2>1. enter_error_state(dequeue_tx(l), "AttemptedUpgrade") \in LinkState
    BY <1>0, <1>1, <1>3, DequeueType, ErrorType DEF RefuseUpgrade, l
  <2> QED
    BY <1>3, <2>1, QuitType DEF RefuseUpgrade, l
<1> QED
  BY <1>2, <1>3

\* The DETECT branches of next_transmit() keep TypeOK.
LEMMA DetectTransmitType ==
    ASSUME TypeOK, AcknowledgeDetect \/ TransmitDetect
    PROVE  TypeOK'
<1>1. Bare("DETECT") \in Frame
  BY FrameTypes, SeqModAssumption, LspAssumption DEF SeqNum
<1>2. link[Host] \in LinkState /\ link[Accessory] \in LinkState
  BY DEF TypeOK, Endpoint
<1>3. [link[Host] EXCEPT !.detect_ack = FALSE] \in LinkState
  BY <1>2 DEF LinkState
<1>4. [link[Accessory] EXCEPT !.detect_transmitted = TRUE] \in LinkState
  BY <1>2 DEF LinkState
<1>5. Host \in Endpoint /\ Accessory \in Endpoint
  BY DEF Endpoint
<1>6. CASE AcknowledgeDetect
  BY <1>1, <1>3, <1>5, <1>6, SendType DEF AcknowledgeDetect
<1>7. CASE TransmitDetect
  BY <1>1, <1>4, <1>5, <1>7, SendType DEF TransmitDetect
<1> QED
  BY <1>6, <1>7

\* take_pending_negotiation_transmit() keeps TypeOK.
LEMMA NegotiationTransmitType ==
    ASSUME TypeOK, NEW e \in Endpoint, TransmitSynAck(e) \/ TransmitFinalAck(e)
    PROVE  TypeOK'
<1> DEFINE l == link[e]
           p == new_syn_ack(l.own_seq, l.peer_seq, l.offer)
           q == new_ack(SeqSub(l.own_seq, 1), l.peer_seq, NoMsg, 0)
<1>0. l \in LinkState
  BY DEF TypeOK
<1>1. HasPendingTx(l)
  BY DEF TransmitSynAck, TransmitFinalAck
<1> HIDE DEF l
<1>2. l.own_seq \in SeqNum /\ l.peer_seq \in SeqNum /\ l.offer \in Lsp /\ l.own_seq \in Int
  BY <1>0, <1>1, SeqModAssumption DEF LinkState, HasPendingTx, SeqNum
<1>3. SeqSub(l.own_seq, 1) \in SeqNum
  BY <1>2, SeqArithmetic
<1>4. p \in Frame
  BY <1>2, FrameTypes
<1>5. q \in Frame
  BY <1>2, <1>3, FrameTypes, LspAssumption DEF NoMsg
<1> HIDE DEF p, q
<1>6. [prepare_ackable(take_own_seq(l), p) EXCEPT !.phase = "Start", !.pending = FALSE]
        \in LinkState
  <2>1. prepare_ackable(take_own_seq(l), p) \in LinkState
    BY <1>0, <1>4, AckableSendType
  <2> QED
    BY <2>1 DEF LinkState
<1>7. [l EXCEPT !.phase = "Accepted", !.pending = FALSE, !.status = "Writable"] \in LinkState
  <2>1. "Writable" \in LinkStatus
    BY DEF LinkStatus, DataStatus
  <2> QED
    BY <1>0, <2>1 DEF LinkState
<1>8. CASE TransmitSynAck(e)
  BY <1>4, <1>6, <1>8, SendType DEF TransmitSynAck, l, p
<1>9. CASE TransmitFinalAck(e)
  BY <1>5, <1>7, <1>9, SendType DEF TransmitFinalAck, l, q
<1> QED
  BY <1>8, <1>9

\* The first SYN keeps TypeOK.
LEMMA SynType ==
    ASSUME TypeOK, TransmitSyn
    PROVE  TypeOK'
<1> DEFINE l == link[Accessory]
           p == new_syn(l.own_seq, l.offer)
<1>0. l \in LinkState /\ Accessory \in Endpoint
  BY DEF TypeOK, Endpoint
<1> HIDE DEF l
<1>1. p \in Frame
  <2>1. l.own_seq \in SeqNum /\ l.offer \in Lsp
    BY <1>0 DEF LinkState
  <2> QED
    BY <2>1, FrameTypes
<1> HIDE DEF p
<1>2. prepare_ackable(take_own_seq(l), p) \in LinkState
  BY <1>0, <1>1, AckableSendType
<1>3. [prepare_ackable(take_own_seq(l), p) EXCEPT !.syn_transmitted = TRUE] \in LinkState
  BY <1>2 DEF LinkState
<1> QED
  BY <1>0, <1>1, <1>3, SendType DEF TransmitSyn, l, p

\* A retransmission, or the end of the retries, keeps TypeOK.
LEMMA RetransmitType ==
    ASSUME TypeOK, NEW e \in Endpoint, NEW s \in SeqNum, Retransmit(e, s)
    PROVE  TypeOK'
<1> DEFINE l == link[e]
           entry == l.retransmit_map[s]
           p == IF entry.p.ctl = "SYN" THEN entry.p ELSE [entry.p EXCEPT !.ack = l.peer_seq]
<1>0. l \in LinkState
  BY DEF TypeOK
<1>1. retransmit_one(e, s)
  BY DEF Retransmit
<1> HIDE DEF l
<1>2. l.retransmit_map \in [SeqNum -> Entry] /\ l.peer_seq \in SeqNum \cup {NoSeq}
  BY <1>0 DEF LinkState
<1>3. entry \in Entry
  BY <1>2
<1> HIDE DEF entry
<1>4. CASE entry.retries >= max_retransmissions[l.local_lsp]
  <2>1. "RetransmissionsExceeded" \in LinkError
    BY DEF LinkError
  <2>2. enter_error_state(l, "RetransmissionsExceeded") \in LinkState
    BY <1>0, <2>1, ErrorType
  <2> QED
    BY <1>1, <1>4, <2>2, QuitType DEF retransmit_one, l, entry
<1>5. CASE ~(entry.retries >= max_retransmissions[l.local_lsp])
  <2>1. entry.p.ctl = "SYN" \/ l.peer_seq # NoSeq
    BY <1>1, <1>5 DEF retransmit_one, l, entry
  <2>2. p \in Frame
    BY <1>2, <1>3, <2>1 DEF Entry, Frame
  <2> HIDE DEF p
  <2>3. [p |-> p, retries |-> entry.retries + 1] \in Entry
    BY <1>3, <2>2 DEF Entry
  <2>4. [l.retransmit_map EXCEPT ![s] = [p |-> p, retries |-> entry.retries + 1]]
          \in [SeqNum -> Entry]
    BY <1>2, <2>3
  <2>5. [l EXCEPT !.retransmit_map[s] = [p |-> p, retries |-> entry.retries + 1]] \in LinkState
    BY <1>0, <2>4 DEF LinkState
  <2>6. Send(e, [l EXCEPT !.retransmit_map[s] = [p |-> p, retries |-> entry.retries + 1]], p)
    BY <1>1, <1>5 DEF retransmit_one, l, entry, p
  <2> QED
    BY <2>2, <2>5, <2>6, SendType
<1> QED
  BY <1>4, <1>5

\* The payload branch of next_transmit() keeps TypeOK.
LEMMA PayloadType ==
    ASSUME TypeOK, NEW e \in Endpoint, TransmitPayload(e)
    PROVE  TypeOK'
<1> DEFINE l == link[e]
           msg == l.taken + 1
           p == new_ack(l.own_seq, l.peer_seq, msg, Head(l.csm))
           l1 == take_own_seq(dequeue_tx(l))
<1>0. l \in LinkState
  BY DEF TypeOK
<1>1. HasPayload(l)
  BY DEF TransmitPayload
<1> HIDE DEF l
<1>2. dequeue_tx(l) \in LinkState /\ Head(l.csm) \in Nat
  BY <1>0, <1>1, DequeueType
<1>3. l1 \in LinkState
  BY <1>2, TakeOwnSeqType
<1>4. "TransmitMaxLenViolation" \in LinkError
  BY DEF LinkError
<1>5. enter_error_state(l1, "TransmitMaxLenViolation") \in LinkState
  BY <1>3, <1>4, ErrorType
<1>6. ASSUME l.peer_seq # NoSeq
      PROVE  p \in Frame
  <2>1. l.own_seq \in SeqNum /\ l.peer_seq \in SeqNum /\ msg \in Nat
    BY <1>0, <1>6 DEF LinkState
  <2> QED
    BY <1>2, <2>1, FrameTypes, LspAssumption
<1>7. ASSUME l.peer_seq # NoSeq
      PROVE  reset_pending_ack(prepare_ackable(l1, p)) \in LinkState
  <2>1. p \in Frame
    BY <1>6, <1>7
  <2> QED
    BY <1>3, <2>1, PrepareAckableType, ResetPendingAckType
<1> HIDE DEF p, l1
<1>8. \/ Quit(e, dequeue_tx(l))
      \/ Quit(e, enter_error_state(l1, "TransmitMaxLenViolation"))
      \/ l.peer_seq # NoSeq /\ Send(e, reset_pending_ack(prepare_ackable(l1, p)), p)
  BY DEF TransmitPayload, l, l1, p
<1> QED
  BY <1>2, <1>5, <1>6, <1>7, <1>8, SendType, QuitType

\* The empty-ACK branch of next_transmit() keeps TypeOK.
LEMMA EmptyAckType ==
    ASSUME TypeOK, NEW e \in Endpoint, TransmitEmptyAck(e)
    PROVE  TypeOK'
<1> DEFINE l == link[e]
           p == new_ack(SeqSub(l.own_seq, 1), l.peer_seq, NoMsg, 0)
<1>0. l \in LinkState
  BY DEF TypeOK
<1>1. l.peer_seq # NoSeq
  BY DEF TransmitEmptyAck
<1> HIDE DEF l
<1>2. l.own_seq \in Int /\ l.peer_seq \in SeqNum
  BY <1>0, <1>1, SeqModAssumption DEF LinkState, SeqNum
<1>3. SeqSub(l.own_seq, 1) \in SeqNum
  BY <1>2, SeqArithmetic
<1>4. p \in Frame
  BY <1>2, <1>3, FrameTypes, LspAssumption DEF NoMsg
<1>5. reset_pending_ack(l) \in LinkState
  BY <1>0, ResetPendingAckType
<1> QED
  BY <1>4, <1>5, SendType DEF TransmitEmptyAck, l

\* The requests of the session owner keep TypeOK.
LEMMA OwnerType ==
    ASSUME TypeOK, NEW e \in Endpoint,
           Enqueue(e) \/ EnqueueLingo(e) \/ Close(e) \/ Downgrade
    PROVE  TypeOK'
<1>0. link[e] \in LinkState
  BY DEF TypeOK
<1>1. CASE Enqueue(e)
  <2> DEFINE l == link[e]
             msg == l.taken + Len(l.csm) + 1
  <2>1. l.taken \in Nat /\ l.csm \in Seq(Nat) /\ MsgLen[e] \in Seq(Nat)
    BY <1>0, LinkAssumption DEF LinkState
  <2>2. msg \in 1..Len(MsgLen[e])
    BY <1>1, <2>1 DEF Enqueue
  <2>3. MsgLen[e][msg] \in Nat
    BY <2>1, <2>2
  <2> HIDE DEF msg
  <2>4. Append(l.csm, MsgLen[e][msg]) \in Seq(Nat)
    BY <2>1, <2>3
  <2>5. [l EXCEPT !.csm = Append(@, MsgLen[e][msg])] \in LinkState
    <3>1. \A c \in Seq(Nat) : [l EXCEPT !.csm = c] \in LinkState
      BY <1>0 DEF LinkState
    <3> QED
      BY <2>4, <3>1
  <2> QED
    BY <1>1, <2>5, QuitType DEF Enqueue, msg
<1>2. CASE EnqueueLingo(e)
  <2>1. link[e].lingo + 1 \in Nat /\ link[e].lingo_sent + 1 \in Nat
    <3>1. link[e].lingo \in Nat /\ link[e].lingo_sent \in Nat
      BY ONLY <1>0 DEF LinkState
    <3> QED
      BY ONLY <3>1
  <2>2. [link[e] EXCEPT !.lingo = @ + 1, !.lingo_sent = @ + 1] \in LinkState
    BY <1>0, <2>1 DEF LinkState
  <2> QED
    BY <1>2, <2>2, QuitType DEF EnqueueLingo
<1>3. CASE Close(e)
  <2>1. enter_error_state(link[e], "Eof") \in LinkState
    BY <1>0, ErrorType DEF LinkError
  <2> QED
    BY <1>3, <2>1, QuitType DEF Close
<1>4. CASE Downgrade
  <2>1. Accessory \in Endpoint /\ link[Accessory] \in LinkState /\ "Downgrade" \in LinkStatus
    BY DEF TypeOK, Endpoint, LinkStatus
  <2>2. [link[Accessory] EXCEPT !.status = "Downgrade"] \in LinkState
    BY <2>1 DEF LinkState
  <2> QED
    BY <1>4, <2>1, <2>2, QuitType DEF Downgrade
<1> QED
  BY <1>1, <1>2, <1>3, <1>4

\* Reading or losing a frame keeps TypeOK.
LEMMA DeliveryType ==
    ASSUME TypeOK, NEW e \in Endpoint, Read(e) \/ Lose(e)
    PROVE  TypeOK'
<1>1. chan[e] \in Seq(Frame) /\ chan[e] # << >> /\ link[e] \in LinkState
  BY DEF TypeOK, Read, Lose
<1>2. Head(chan[e]) \in Frame /\ Tail(chan[e]) \in Seq(Frame)
  BY <1>1
<1>3. chan' \in [Endpoint -> Seq(Frame)]
  BY <1>2 DEF TypeOK, Read, Lose
<1>4. CASE Read(e)
  <2>1. read(e, link[e], Head(chan[e])) \in LinkState
    BY <1>1, <1>2, ReadType
  <2> QED
    BY <1>3, <1>4, <2>1 DEF TypeOK, Read, Update
<1>5. CASE Lose(e)
  BY <1>3, <1>5, LinkAssumption DEF TypeOK, Lose
<1> QED
  BY <1>4, <1>5

\* The EAK that another implementation sends is a frame.
LEMMA EakFrame ==
    ASSUME TypeOK, NEW e \in Endpoint, SendEak(e)
    PROVE  new_eak(link[e].own_seq, link[e].peer_seq, SeqAdd(link[e].peer_seq, 1)) \in Frame
<1> DEFINE l == link[e]
<1>1. l \in LinkState /\ l.peer_seq # NoSeq
  BY DEF TypeOK, SendEak
<1> HIDE DEF l
<1>2. l.own_seq \in SeqNum /\ l.peer_seq \in SeqNum /\ l.peer_seq \in Int
  BY <1>1, SeqModAssumption DEF LinkState, SeqNum
<1>3. SeqAdd(l.peer_seq, 1) \in SeqNum
  BY <1>2, SeqArithmetic
<1>4. new_eak(l.own_seq, l.peer_seq, SeqAdd(l.peer_seq, 1)) \in Frame
  BY <1>2, <1>3, SeqModAssumption, LspAssumption DEF Frame, new_eak, Bare, Control, NoMsg, SeqNum
<1> QED
  BY <1>4 DEF l

\* So is its RST.
LEMMA ResetFrame == Bare("RST") \in Frame
BY SeqModAssumption, LspAssumption DEF Frame, Bare, Control, NoMsg, SeqNum

\* An EAK or RST of another implementation keeps TypeOK.
LEMMA ExternalType ==
    ASSUME TypeOK, NEW e \in Endpoint, SendEak(e) \/ SendReset
    PROVE  TypeOK'
<1> DEFINE q == new_eak(link[e].own_seq, link[e].peer_seq, SeqAdd(link[e].peer_seq, 1))
<1>1. CASE SendEak(e)
  <2>1. q \in Frame
    BY <1>1, EakFrame
  <2>2. chan' = [chan EXCEPT ![Peer(e)] = Append(@, q)] /\ UNCHANGED <<link, losses, resets>>
    BY <1>1 DEF SendEak
  <2> HIDE DEF q
  <2>3. Peer(e) \in Endpoint
    BY DEF Peer, Endpoint
  <2>4. Append(chan[Peer(e)], q) \in Seq(Frame)
    BY <2>1, <2>3 DEF TypeOK
  <2> QED
    BY <2>2, <2>3, <2>4 DEF TypeOK
<1>2. CASE SendReset
  <2>2. Accessory \in Endpoint
    BY DEF Endpoint
  <2>3. Append(chan[Accessory], Bare("RST")) \in Seq(Frame)
    BY <2>2, ResetFrame DEF TypeOK
  <2>4. chan' \in [Endpoint -> Seq(Frame)]
    BY <1>2, <2>3 DEF TypeOK, SendReset
  <2> QED
    BY <1>2, <2>4, LinkAssumption DEF TypeOK, SendReset
<1> QED
  BY <1>1, <1>2

\* Two fresh LinkLayers are well-formed.
LEMMA InitType == Init => TypeOK
<1>1. ASSUME NEW e \in Endpoint
      PROVE  NewLink(e) \in LinkState
  <2>1. [s \in SeqNum |-> NoEntry] \in [SeqNum -> Entry]
    BY NoEntryType
  <2>2. [s \in SeqNum |-> NoMsg] \in [SeqNum -> Nat]
    BY DEF NoMsg
  <2>3. "Detecting" \in LinkStatus
    BY DEF LinkStatus
  <2>4. StartSeq[e] \in SeqNum /\ StartLsp[e] \in Lsp /\ Negotiating_Lsp \in Lsp
    BY LspAssumption, LinkAssumption
  <2>5. << >> \in Seq(Nat)
    OBVIOUS
  <2> QED
    BY <2>1, <2>2, <2>3, <2>4, <2>5 DEF NewLink, LinkState
<1> QED
  BY <1>1, LinkAssumption DEF Init, TypeOK

\* Every action leaves two well-formed LinkLayers and well-formed frames.
LEMMA NextType ==
    ASSUME TypeOK, [Next]_vars
    PROVE  TypeOK'
<1>1. CASE AcknowledgeDetect \/ TransmitDetect
  BY <1>1, DetectTransmitType
<1>2. CASE TransmitSyn
  BY <1>2, SynType
<1>3. CASE Downgrade \/ SendReset
  BY <1>3, OwnerType, ExternalType DEF Endpoint
<1>4. ASSUME NEW e \in Endpoint, Transmit(e)
      PROVE  TypeOK'
  BY <1>4, LegacyTransmitType, NegotiationTransmitType, RetransmitType, PayloadType,
     EmptyAckType DEF Transmit
<1>5. ASSUME NEW e \in Endpoint,
             Enqueue(e) \/ EnqueueLingo(e) \/ Close(e) \/ Read(e) \/ Lose(e) \/ SendEak(e)
      PROVE  TypeOK'
  BY <1>5, OwnerType, DeliveryType, ExternalType
<1>6. CASE UNCHANGED vars
  BY <1>6 DEF TypeOK, vars
<1> QED
  BY <1>1, <1>2, <1>3, <1>4, <1>5, <1>6 DEF Next

\* Every reachable state is well formed, for every number width, window,
\* set of LSPs and loss budget: sequence numbers stay within the width (no
\* arithmetic of read() or next_transmit() leaves it) and no frame is sent
\* before the peer's sequence number it acknowledges is known.
THEOREM TypeCorrect == Spec => []TypeOK
<1>1. Init => TypeOK
  BY InitType
<1>2. TypeOK /\ [Next]_vars => TypeOK'
  BY NextType
<1> QED
  BY <1>1, <1>2, PTL DEF Spec
-----------------------------------------------------------------------------
(* A negotiated link knows its peer.  NegotiatedKnowsPeer is not inductive:    *)
(* the host enters the data phase on any ACK, so it needs to know that no      *)
(* frame with an acknowledgement reaches a host that has not read a SYN.       *)

Knows(l) == l.peer_seq # NoSeq /\ l.peer_ack # NoSeq

EndInv(e, l) ==
    /\ InData(l) => Knows(l)
    /\ l.phase = "Accepting" => e = Accessory /\ Knows(l)

HandshakeInv == AcksFollowSyn /\ \A e \in Endpoint : EndInv(e, link[e])

\* The data-phase statuses are disjoint from the others.
LEMMA StatusSets ==
    /\ \A st \in LinkError : st \notin DataStatus
    /\ "Negotiating" \notin DataStatus /\ "Downgrade" \notin DataStatus
    /\ "Detecting" \notin DataStatus /\ "Writable" \in DataStatus
BY DEF LinkError, DataStatus

\* What refresh_data_status leaves alone.
LEMMA RefreshKeeps ==
    ASSUME NEW l \in LinkState
    PROVE  LET r == refresh_data_status(l)
           IN  /\ r.peer_seq = l.peer_seq /\ r.peer_ack = l.peer_ack /\ r.phase = l.phase
               /\ InData(r) <=> InData(l)
               /\ ~InData(l) => r.status = l.status
<1>1. CASE ~InData(l)
  BY <1>1 DEF refresh_data_status
<1>2. CASE InData(l)
  <2>1. PICK st \in DataStatus : refresh_data_status(l) = [l EXCEPT !.status = st]
    BY <1>2 DEF refresh_data_status, DataStatus
  <2> QED
    BY <1>2, <2>1 DEF LinkState, InData
<1> QED
  BY <1>1, <1>2

\* next_transmit() sends: the frame acknowledges something only if the peer's
\* sequence number is known.
LEMMA SendHandshake ==
    ASSUME TypeOK, HandshakeInv, NEW e \in Endpoint, NEW l \in LinkState, NEW p \in Frame,
           l.peer_seq = link[e].peer_seq, EndInv(e, l),
           is_any_ack(p) => l.peer_seq # NoSeq,
           Send(e, l, p)
    PROVE  HandshakeInv'
<1> DEFINE r == refresh_data_status(l)
<1>1. /\ r.peer_seq = l.peer_seq /\ r.peer_ack = l.peer_ack /\ r.phase = l.phase
      /\ InData(r) <=> InData(l)
  BY RefreshKeeps
<1> HIDE DEF r
<1>2. EndInv(e, r)
  BY <1>1 DEF EndInv, Knows
<1>3. link' = [link EXCEPT ![e] = r]
  BY DEF Send, Update, r
<1>4. \A f \in Endpoint : link'[f].peer_seq = link[f].peer_seq /\ EndInv(f, link'[f])
  BY <1>1, <1>2, <1>3 DEF TypeOK, HandshakeInv
<1>5. /\ Peer(e) \in Endpoint /\ Host \in Endpoint /\ Accessory \in Endpoint
      /\ Peer(Host) = Accessory /\ Peer(Accessory) = Host
  BY DEF Peer, Endpoint, Host, Accessory
<1>6. ASSUME NEW f \in Endpoint, NEW i \in DOMAIN chan'[f]
      PROVE  \/ i \in DOMAIN chan[f] /\ chan'[f][i] = chan[f][i]
             \/ f = Peer(e) /\ chan'[f][i] = p
  <2>1. chan'[f] = IF f = Peer(e) THEN Append(chan[f], p) ELSE chan[f]
    BY <1>5 DEF Send, TypeOK
  <2>2. chan[f] \in Seq(Frame)
    BY DEF TypeOK
  <2> QED
    BY <1>6, <2>1, <2>2
<1>7. AcksFollowSyn'
  <2>1. SUFFICES ASSUME link'[Host].peer_seq = NoSeq
                 PROVE  /\ link'[Accessory].peer_seq = NoSeq
                        /\ \A i \in DOMAIN chan'[Host] : ~is_any_ack(chan'[Host][i])
                        /\ \A i \in DOMAIN chan'[Accessory] :
                              chan'[Accessory][i].ctl # "SYNACK"
    BY DEF AcksFollowSyn
  <2>2. /\ link[Host].peer_seq = NoSeq /\ link[Accessory].peer_seq = NoSeq
        /\ \A i \in DOMAIN chan[Host] : ~is_any_ack(chan[Host][i])
        /\ \A i \in DOMAIN chan[Accessory] : chan[Accessory][i].ctl # "SYNACK"
    BY <1>4, <1>5, <2>1 DEF HandshakeInv, AcksFollowSyn
  <2>3. l.peer_seq = NoSeq
    BY <2>2 DEF Endpoint
  <2>4. ~is_any_ack(p) /\ p.ctl # "SYNACK"
    BY <2>3 DEF is_any_ack
  <2> QED
    BY <1>4, <1>5, <1>6, <2>2, <2>4
<1> QED
  BY <1>4, <1>7 DEF HandshakeInv

\* A step that transmits nothing keeps HandshakeInv.
LEMMA QuitHandshake ==
    ASSUME TypeOK, HandshakeInv, NEW e \in Endpoint, NEW l \in LinkState,
           l.peer_seq = link[e].peer_seq, EndInv(e, l), Quit(e, l)
    PROVE  HandshakeInv'
<1>1. link' = [link EXCEPT ![e] = l] /\ chan' = chan
  BY DEF Quit, Update
<1>2. \A f \in Endpoint : link'[f].peer_seq = link[f].peer_seq /\ EndInv(f, link'[f])
  BY <1>1 DEF TypeOK, HandshakeInv
<1>3. AcksFollowSyn'
  BY <1>1, <1>2 DEF HandshakeInv, AcksFollowSyn, Endpoint
<1> QED
  BY <1>2, <1>3 DEF HandshakeInv

\* An error ends the data phase and changes nothing else.
LEMMA ErrorKeeps ==
    ASSUME NEW e \in Endpoint, NEW l \in LinkState, NEW err \in LinkError, EndInv(e, l)
    PROVE  /\ EndInv(e, enter_error_state(l, err))
           /\ enter_error_state(l, err).peer_seq = l.peer_seq
<1>1. /\ enter_error_state(l, err).status = err
      /\ enter_error_state(l, err).peer_seq = l.peer_seq
      /\ enter_error_state(l, err).peer_ack = l.peer_ack
      /\ enter_error_state(l, err).phase = l.phase
  BY DEF LinkState, enter_error_state
<1>2. err \notin DataStatus
  BY StatusSets
<1> QED
  BY <1>1, <1>2 DEF EndInv, Knows, InData

\* A new acknowledgement changes neither peer_seq nor the phase.
LEMMA PeerAckKeeps ==
    ASSUME NEW l \in LinkState, NEW ack \in SeqNum
    PROVE  LET r == update_peer_ack(l, ack)
           IN  /\ r.peer_seq = l.peer_seq /\ r.peer_ack # NoSeq /\ r.phase = l.phase
               /\ InData(r) <=> InData(l)
               /\ ~InData(l) => r.status = l.status
<1> DEFINE l1 == [l EXCEPT !.peer_ack = ack,
                           !.missing_psn = NoSeq,
                           !.retransmit_map =
                               [s \in SeqNum |-> IF SeqGT(s, ack) THEN @[s] ELSE NoEntry]]
<1>1. CASE l.peer_ack # NoSeq /\ ~SeqGT(ack, l.peer_ack)
  BY <1>1 DEF update_peer_ack
<1>2. CASE ~(l.peer_ack # NoSeq /\ ~SeqGT(ack, l.peer_ack))
  <2>1. [s \in SeqNum |-> IF SeqGT(s, ack) THEN l.retransmit_map[s] ELSE NoEntry]
          \in [SeqNum -> Entry]
    BY NoEntryType DEF LinkState
  <2>2. l1 \in LinkState
    BY <2>1 DEF LinkState
  <2>3. l1.peer_seq = l.peer_seq /\ l1.peer_ack = ack /\ l1.phase = l.phase /\ l1.status = l.status
    BY DEF LinkState
  <2>4. update_peer_ack(l, ack) = refresh_data_status(l1)
    BY <1>2 DEF update_peer_ack
  <2>5. ack # NoSeq
    BY SeqModAssumption DEF SeqNum, NoSeq
  <2> HIDE DEF l1
  <2> QED
    BY <2>2, <2>3, <2>4, <2>5, RefreshKeeps DEF InData
<1> QED
  BY <1>1, <1>2

\* Recovery changes neither peer_seq nor the phase.
LEMMA RecoveryKeeps ==
    ASSUME NEW l \in LinkState, NEW psn \in SeqNum
    PROVE  LET r == begin_recovery(l, psn)
           IN  /\ r.peer_seq = l.peer_seq /\ r.peer_ack = l.peer_ack /\ r.phase = l.phase
               /\ InData(r) <=> InData(l)
<1> DEFINE l1 == [l EXCEPT !.missing_psn = psn]
<1>1. l1 \in LinkState
  BY DEF LinkState
<1>2. /\ l1.peer_seq = l.peer_seq /\ l1.peer_ack = l.peer_ack
      /\ l1.phase = l.phase /\ l1.status = l.status
  BY DEF LinkState
<1> HIDE DEF l1
<1> QED
  BY <1>1, <1>2, RefreshKeeps DEF begin_recovery, l1, InData

\* A session packet moves peer_seq, but never forgets it.
LEMMA DataKeeps ==
    ASSUME NEW l \in LinkState, NEW p \in Frame
    PROVE  LET r == process_data(l, p)
           IN  /\ r.peer_seq = NoSeq <=> l.peer_seq = NoSeq
               /\ r.peer_ack = l.peer_ack /\ r.phase = l.phase /\ r.status = l.status
<1>1. ASSUME l.peer_seq # NoSeq
      PROVE  LET r == process_in_order(l, p)
             IN  /\ r.peer_seq # NoSeq
                 /\ r.peer_ack = l.peer_ack /\ r.phase = l.phase /\ r.status = l.status
  <2>1. BufferedRun(l, p.seq) \in Int /\ p.seq \in Int
    BY BufferedRunType, FrameFields, SeqModAssumption DEF SeqNum
  <2>2. SeqAdd(p.seq, BufferedRun(l, p.seq)) \in SeqNum
    BY <2>1, SeqArithmetic
  <2>3. SeqAdd(p.seq, BufferedRun(l, p.seq)) # NoSeq
    BY <2>2, SeqModAssumption DEF SeqNum, NoSeq
  <2> QED
    BY <2>3 DEF LinkState, process_in_order
<1>2. LET r == [l EXCEPT !.out_of_order[p.seq] = p.msg]
      IN  /\ r.peer_seq = l.peer_seq
          /\ r.peer_ack = l.peer_ack /\ r.phase = l.phase /\ r.status = l.status
  BY DEF LinkState
<1>3. LET r == [l EXCEPT !.force = TRUE]
      IN  /\ r.peer_seq = l.peer_seq
          /\ r.peer_ack = l.peer_ack /\ r.phase = l.phase /\ r.status = l.status
  BY DEF LinkState
<1> QED
  BY <1>1, <1>2, <1>3 DEF process_data

\* The accessory learns the host's sequence number from a SYN+ACK only.
LEMMA NegAccessoryHandshake ==
    ASSUME NEW l \in LinkState, NEW p \in Frame, EndInv(Accessory, l), ~InData(l),
           is_any_ack(p) => l.peer_ack # NoSeq
    PROVE  LET r == on_recv_neg_accessory(l, p)
           IN  /\ EndInv(Accessory, r)
               /\ l.peer_seq # NoSeq => r.peer_seq # NoSeq
               /\ r.peer_seq # NoSeq => l.peer_seq # NoSeq \/ p.ctl = "SYNACK"
<1> DEFINE r == on_recv_neg_accessory(l, p)
           l1 == [l EXCEPT !.peer_seq = p.seq]
<1>1. CASE p.ctl # "SYNACK" \/ (l.peer_seq # NoSeq /\ ~verify_neg_seq_ack(l, p))
  BY <1>1 DEF on_recv_neg_accessory
<1>2. CASE ~(p.ctl # "SYNACK" \/ (l.peer_seq # NoSeq /\ ~verify_neg_seq_ack(l, p)))
  <2>1. p.ctl = "SYNACK" /\ l.peer_ack # NoSeq /\ p.seq # NoSeq
    BY <1>2, FrameFields, SeqModAssumption DEF is_any_ack, SeqNum, NoSeq
  <2>2. l1 \in LinkState
    BY FrameFields DEF LinkState
  <2>3. l1.peer_seq = p.seq /\ l1.peer_ack = l.peer_ack /\ l1.phase = l.phase /\ l1.status = l.status
    BY DEF LinkState
  <2> HIDE DEF l1
  <2>4. LET m == make_counter_offer(l1, StartLsp[Accessory])
        IN  ~InData(m) /\ m.peer_seq = p.seq /\ m.peer_ack = l.peer_ack
    BY <2>2, <2>3, StatusSets
    DEF LinkState, make_counter_offer, enter_error_state, transition_offering, InData, LinkError
  <2>5. LET m == [l1 EXCEPT !.accepted_peer_lsp = {p.lsp}, !.peer_lsp = p.lsp,
                            !.local_lsp = l.offer,
                            !.phase = "Accepting", !.pending = TRUE]
        IN  ~InData(m) /\ m.peer_seq = p.seq /\ m.peer_ack = l.peer_ack
    BY <2>2, <2>3 DEF LinkState, InData
  <2>6. ~InData(r) /\ r.peer_seq = p.seq /\ r.peer_ack = l.peer_ack
    BY <1>2, <2>4, <2>5 DEF on_recv_neg_accessory, l1
  <2> QED
    BY <2>1, <2>6 DEF EndInv, Knows
<1> QED
  BY <1>1, <1>2

\* The host enters the data phase on an ACK, which no accessory sends before
\* the host read its SYN.
LEMMA NegHostHandshake ==
    ASSUME NEW l \in LinkState, NEW p \in Frame, EndInv(Host, l), ~InData(l),
           is_any_ack(p) => l.peer_seq # NoSeq /\ l.peer_ack # NoSeq
    PROVE  LET r == on_recv_neg_host(l, p)
           IN  EndInv(Host, r) /\ (l.peer_seq # NoSeq => r.peer_seq # NoSeq)
<1> DEFINE r == on_recv_neg_host(l, p)
           next == IF is_ackable(p) THEN p.seq ELSE l.peer_seq
           l1 == [l EXCEPT !.peer_seq = IF is_ackable(p) THEN p.seq ELSE @]
<1>0. Host # Accessory /\ l.phase # "Accepting"
  BY DEF EndInv, Host, Accessory
<1>1. next \in SeqNum \cup {NoSeq} /\ (l.peer_seq # NoSeq => next # NoSeq)
  <2>1. p.seq \in SeqNum /\ p.seq # NoSeq
    BY FrameFields, SeqModAssumption DEF SeqNum, NoSeq
  <2>2. l.peer_seq \in SeqNum \cup {NoSeq}
    BY DEF LinkState
  <2> QED
    BY <2>1, <2>2
<1> HIDE DEF next
<1>2. l1 = [l EXCEPT !.peer_seq = next]
  BY DEF next
<1>3. /\ l1 \in LinkState
      /\ l1.peer_seq = next /\ l1.peer_ack = l.peer_ack /\ l1.phase = l.phase /\ l1.status = l.status
  <2> HIDE DEF l1
  <2>1. l1 \in LinkState
    BY <1>1, <1>2 DEF LinkState
  <2> QED
    BY <1>2, <2>1 DEF LinkState
<1> HIDE DEF l1
<1>4. CASE p.ctl \notin {"SYN", "ACK", "SYNACK"}
  BY <1>4 DEF on_recv_neg_host
<1>5. CASE p.ctl = "ACK"
  <2>1. r.peer_seq = next /\ r.peer_ack = l.peer_ack /\ r.phase = "Accepted"
    BY <1>3, <1>5 DEF on_recv_neg_host, l1, LinkState
  <2>2. l.peer_seq # NoSeq /\ l.peer_ack # NoSeq
    BY <1>5 DEF is_any_ack
  <2> QED
    BY <1>1, <2>1, <2>2 DEF EndInv, Knows
<1>6. CASE p.ctl \in {"SYN", "SYNACK"}
  <2>1. LET m == make_counter_offer(l1, StartLsp[Host])
        IN  ~InData(m) /\ m.peer_seq = next /\ m.phase # "Accepting"
    BY <1>0, <1>3, StatusSets
    DEF LinkState, make_counter_offer, enter_error_state, transition_offering, InData, LinkError
  <2>2. LET m == transition_offering(
                   [l1 EXCEPT !.accepted_peer_lsp = {p.lsp}, !.offer = p.lsp,
                              !.peer_lsp = p.lsp])
        IN  ~InData(m) /\ m.peer_seq = next /\ m.phase # "Accepting"
    BY <1>3 DEF LinkState, InData, transition_offering
  <2>3. ~InData(r) /\ r.peer_seq = next /\ r.phase # "Accepting"
    BY <1>6, <2>1, <2>2 DEF on_recv_neg_host, l1
  <2> QED
    BY <1>1, <2>3 DEF EndInv
<1> QED
  BY <1>4, <1>5, <1>6

\* read() of a packet keeps EndInv and never forgets the peer.
LEMMA ReadPacketHandshake ==
    ASSUME NEW e \in Endpoint, NEW l \in LinkState, NEW p \in Frame, EndInv(e, l),
           e = Host /\ is_any_ack(p) => l.peer_seq # NoSeq
    PROVE  LET r == read_packet(e, l, p)
           IN  /\ EndInv(e, r)
               /\ l.peer_seq # NoSeq => r.peer_seq # NoSeq
               /\ e = Accessory /\ r.peer_seq # NoSeq => l.peer_seq # NoSeq \/ p.ctl = "SYNACK"
<1> DEFINE r == read_packet(e, l, p)
           l1 == IF e = Host /\ l.status = "Detecting"
                 THEN [l EXCEPT !.status = "Negotiating"] ELSE l
           l2 == IF is_any_ack(p) THEN update_peer_ack(l1, p.ack) ELSE l1
           l3 == IF p.ctl = "EAK" /\ l2.peer_ack # NoSeq
                 THEN begin_recovery(l2, p.psn) ELSE l2
           Good(m) == /\ EndInv(e, m)
                      /\ l.peer_seq # NoSeq => m.peer_seq # NoSeq
                      /\ e = Accessory /\ m.peer_seq # NoSeq
                           => l.peer_seq # NoSeq \/ p.ctl = "SYNACK"
<1>1. p.ack \in SeqNum /\ p.psn \in SeqNum
  BY FrameFields
<1>2. /\ l1 \in LinkState
      /\ l1.peer_seq = l.peer_seq /\ l1.peer_ack = l.peer_ack /\ l1.phase = l.phase
      /\ InData(l1) <=> InData(l)
  <2>1. "Negotiating" \in LinkStatus
    BY DEF LinkStatus
  <2>2. CASE e = Host /\ l.status = "Detecting"
    <3>1. l1 = [l EXCEPT !.status = "Negotiating"]
      BY <2>2
    <3> HIDE DEF l1
    <3> QED
      BY <2>1, <2>2, <3>1, StatusSets DEF LinkState, InData
  <2>3. CASE ~(e = Host /\ l.status = "Detecting")
    BY <2>3
  <2> QED
    BY <2>2, <2>3
<1> HIDE DEF l1
<1>3. /\ l2 \in LinkState
      /\ l2.peer_seq = l.peer_seq /\ l2.phase = l.phase
      /\ is_any_ack(p) => l2.peer_ack # NoSeq
      /\ l.peer_ack # NoSeq => l2.peer_ack # NoSeq
      /\ InData(l2) <=> InData(l)
  BY <1>1, <1>2, PeerAckKeeps, UpdatePeerAckType
<1> HIDE DEF l2
<1>4. /\ l3 \in LinkState
      /\ l3.peer_seq = l.peer_seq /\ l3.peer_ack = l2.peer_ack /\ l3.phase = l.phase
      /\ InData(l3) <=> InData(l)
  BY <1>1, <1>3, RecoveryKeeps, BeginRecoveryType
<1> HIDE DEF l3
<1>5. EndInv(e, l2) /\ EndInv(e, l3)
  BY <1>3, <1>4 DEF EndInv, Knows
<1>6. ASSUME NEW err \in LinkError
      PROVE  Good(enter_error_state(l, err))
  BY ErrorKeeps
<1>7. ASSUME l2.status = "Negotiating"
      PROVE  Good(on_recv_neg(e, l2, p))
  <2>1. ~InData(l2)
    BY <1>7, StatusSets DEF InData
  <2>2. CASE e = Host
    BY <1>3, <1>5, <2>1, <2>2, NegHostHandshake DEF on_recv_neg, Host, Accessory
  <2>3. CASE e = Accessory
    BY <1>3, <1>5, <2>1, <2>3, NegAccessoryHandshake DEF on_recv_neg, Host, Accessory
  <2> QED
    BY <2>2, <2>3 DEF Endpoint
<1>8. Good(process_data(l3, p))
  BY <1>4, <1>5, DataKeeps DEF EndInv, Knows, InData
<1>9. Good(l2)
  BY <1>3, <1>5
<1>10. /\ "RemoteAttemptedUpgrade" \in LinkError
       /\ "RecvMaxLenViolation" \in LinkError
       /\ "Reset" \in LinkError
  BY DEF LinkError
<1> HIDE DEF Good
<1>11. Good(r)
  BY <1>6, <1>7, <1>8, <1>9, <1>10 DEF read_packet, l1, l2, l3
<1> QED
  BY <1>11 DEF Good

\* read() keeps EndInv and never forgets the peer.
LEMMA ReadHandshake ==
    ASSUME NEW e \in Endpoint, NEW l \in LinkState, NEW p \in Frame, EndInv(e, l),
           e = Host /\ is_any_ack(p) => l.peer_seq # NoSeq
    PROVE  LET r == read(e, l, p)
           IN  /\ EndInv(e, r)
               /\ l.peer_seq # NoSeq => r.peer_seq # NoSeq
               /\ e = Accessory /\ r.peer_seq # NoSeq => l.peer_seq # NoSeq \/ p.ctl = "SYNACK"
<1>1. "RemoteAttemptedUpgrade" \in LinkError /\ "RemoteAttemptedDowngrade" \in LinkError
  BY DEF LinkError
<1>2. EndInv(e, read_detect(e, l)) /\ read_detect(e, l).peer_seq = l.peer_seq
  <2>1. LET m == [l EXCEPT !.detect_ack = TRUE]
        IN  EndInv(e, m) /\ m.peer_seq = l.peer_seq
    BY DEF LinkState, EndInv, Knows, InData
  <2>2. LET m == [l EXCEPT !.status = "Negotiating"]
        IN  EndInv(e, m) /\ m.peer_seq = l.peer_seq
    BY StatusSets DEF LinkState, EndInv, Knows, InData
  <2> QED
    BY <1>1, <2>1, <2>2, ErrorKeeps DEF read_detect
<1>3. EndInv(e, read_legacy(e, l)) /\ read_legacy(e, l).peer_seq = l.peer_seq
  <2>1. LET m == [l EXCEPT !.status = "Downgrade", !.legacy_rx = @ + 1]
        IN  EndInv(e, m) /\ m.peer_seq = l.peer_seq
    BY StatusSets DEF LinkState, EndInv, Knows, InData
  <2> QED
    BY <1>1, <2>1, ErrorKeeps DEF read_legacy
<1> QED
  BY <1>2, <1>3, ReadPacketHandshake DEF read

\* Reading or losing a frame keeps HandshakeInv.
LEMMA DeliveryHandshake ==
    ASSUME TypeOK, HandshakeInv, NEW e \in Endpoint, Read(e) \/ Lose(e)
    PROVE  HandshakeInv'
<1> DEFINE p == Head(chan[e])
<1>1. chan[e] \in Seq(Frame) /\ chan[e] # << >> /\ link[e] \in LinkState
  BY DEF TypeOK, Read, Lose
<1>2. p \in Frame /\ 1 \in DOMAIN chan[e] /\ p = chan[e][1]
  BY <1>1
<1> HIDE DEF p
<1>3. Host \in Endpoint /\ Accessory \in Endpoint /\ Host # Accessory
  BY DEF Endpoint, Host, Accessory
<1>4. ASSUME NEW f \in Endpoint, NEW i \in DOMAIN chan'[f]
      PROVE  \E j \in DOMAIN chan[f] : chan'[f][i] = chan[f][j]
  <2>1. chan'[f] = IF f = e THEN Tail(chan[f]) ELSE chan[f]
    BY DEF TypeOK, Read, Lose
  <2>2. CASE f = e
    <3>1. i \in 1..(Len(chan[e]) - 1) /\ chan'[f][i] = chan[e][i + 1]
      BY <1>1, <1>4, <2>1, <2>2
    <3>2. i + 1 \in DOMAIN chan[e]
      BY <1>1, <3>1
    <3> QED
      BY <2>2, <3>1, <3>2
  <2>3. CASE f # e
    BY <1>4, <2>1, <2>3
  <2> QED
    BY <2>2, <2>3
<1>5. CASE Lose(e)
  <2>1. link' = link
    BY <1>5 DEF Lose
  <2> QED
    BY <1>3, <1>4, <2>1 DEF HandshakeInv, AcksFollowSyn
<1>6. CASE Read(e)
  <2> DEFINE r == read(e, link[e], p)
  <2>1. e = Host /\ is_any_ack(p) => link[e].peer_seq # NoSeq
    BY <1>2 DEF HandshakeInv, AcksFollowSyn
  <2>2. EndInv(e, link[e])
    BY DEF HandshakeInv
  <2>3. /\ EndInv(e, r)
        /\ link[e].peer_seq # NoSeq => r.peer_seq # NoSeq
        /\ e = Accessory /\ r.peer_seq # NoSeq => link[e].peer_seq # NoSeq \/ p.ctl = "SYNACK"
    BY <1>1, <1>2, <2>1, <2>2, ReadHandshake
  <2> HIDE DEF r
  <2>4. link' = [link EXCEPT ![e] = r]
    BY <1>6 DEF Read, Update, r, p
  <2>5. \A f \in Endpoint : EndInv(f, link'[f])
    BY <2>3, <2>4 DEF TypeOK, HandshakeInv
  <2>6. \A f \in Endpoint : link[f].peer_seq # NoSeq => link'[f].peer_seq # NoSeq
    BY <2>3, <2>4 DEF TypeOK
  <2>7. ASSUME link'[Host].peer_seq = NoSeq
        PROVE  AcksFollowSyn'
    <3>1. /\ link[Host].peer_seq = NoSeq /\ link[Accessory].peer_seq = NoSeq
          /\ \A i \in DOMAIN chan[Host] : ~is_any_ack(chan[Host][i])
          /\ \A i \in DOMAIN chan[Accessory] : chan[Accessory][i].ctl # "SYNACK"
      BY <1>3, <2>6, <2>7 DEF HandshakeInv, AcksFollowSyn
    <3>2. link'[Accessory].peer_seq = NoSeq
      BY <1>2, <1>3, <2>3, <2>4, <3>1 DEF TypeOK
    <3> QED
      BY <1>3, <1>4, <3>1, <3>2 DEF AcksFollowSyn
  <2> QED
    BY <2>5, <2>7 DEF HandshakeInv, AcksFollowSyn
<1> QED
  BY <1>5, <1>6

\* Preparing an ackable packet leaves the handshake state alone.
LEMMA PreparedKeeps ==
    ASSUME NEW l \in LinkState, NEW p \in Frame
    PROVE  LET r == prepare_ackable(take_own_seq(l), p)
           IN  /\ r.peer_seq = l.peer_seq /\ r.peer_ack = l.peer_ack
               /\ r.phase = l.phase /\ r.status = l.status
BY DEF LinkState, prepare_ackable, take_own_seq

\* dequeue_tx() leaves the handshake state alone.
LEMMA DequeueKeeps ==
    ASSUME NEW l \in LinkState
    PROVE  LET r == dequeue_tx(l)
           IN  /\ r.peer_seq = l.peer_seq /\ r.peer_ack = l.peer_ack
               /\ r.phase = l.phase /\ r.status = l.status
BY DEF LinkState, dequeue_tx

\* The iAP1 branches of next_transmit() keep HandshakeInv.
LEMMA LegacyTransmitHandshake ==
    ASSUME TypeOK, HandshakeInv, NEW e \in Endpoint, TransmitLegacy(e) \/ RefuseUpgrade(e)
    PROVE  HandshakeInv'
<1> DEFINE l == link[e]
           l1 == [l EXCEPT !.lingo = @ - 1]
<1>0. l \in LinkState /\ EndInv(e, l)
  BY DEF TypeOK, HandshakeInv
<1>1. "AttemptedDowngrade" \in LinkError /\ "AttemptedUpgrade" \in LinkError
  BY DEF LinkError
<1>2. CASE TransmitLegacy(e)
  <2>1. l.lingo > 0 /\ l.lingo \in Nat
    BY <1>0, <1>2 DEF TransmitLegacy, LinkState
  <2> HIDE DEF l
  <2>2. l.lingo - 1 \in Nat
    BY <2>1
  <2>3. l1 \in LinkState /\ EndInv(e, l1) /\ l1.peer_seq = l.peer_seq
    BY <1>0, <2>2 DEF LinkState, EndInv, Knows, InData
  <2>4. Bare("LEGACY") \in Frame /\ ~is_any_ack(Bare("LEGACY"))
    BY SeqModAssumption, LspAssumption DEF Frame, Bare, Control, NoMsg, SeqNum, is_any_ack
  <2> HIDE DEF l1
  <2>5. LET m == enter_error_state(l1, "AttemptedDowngrade")
        IN  m \in LinkState /\ EndInv(e, m) /\ m.peer_seq = l.peer_seq
    BY <1>1, <2>3, ErrorType, ErrorKeeps
  <2>6. Send(e, l1, Bare("LEGACY")) \/ Quit(e, enter_error_state(l1, "AttemptedDowngrade"))
    BY <1>2 DEF TransmitLegacy, l, l1
  <2> QED
    BY <2>3, <2>4, <2>5, <2>6, SendHandshake, QuitHandshake DEF l
<1>3. CASE RefuseUpgrade(e)
  <2>1. dequeue_tx(l) \in LinkState
    BY <1>0, <1>3, DequeueType DEF RefuseUpgrade
  <2>2. EndInv(e, dequeue_tx(l)) /\ dequeue_tx(l).peer_seq = l.peer_seq
    BY <1>0, DequeueKeeps DEF EndInv, Knows, InData
  <2>3. LET m == enter_error_state(dequeue_tx(l), "AttemptedUpgrade")
        IN  m \in LinkState /\ EndInv(e, m) /\ m.peer_seq = l.peer_seq
    BY <1>1, <2>1, <2>2, ErrorType, ErrorKeeps
  <2> QED
    BY <1>3, <2>3, QuitHandshake DEF RefuseUpgrade
<1> QED
  BY <1>2, <1>3

\* The DETECT branches of next_transmit() keep HandshakeInv.
LEMMA DetectTransmitHandshake ==
    ASSUME TypeOK, HandshakeInv, AcknowledgeDetect \/ TransmitDetect
    PROVE  HandshakeInv'
<1>1. Bare("DETECT") \in Frame /\ ~is_any_ack(Bare("DETECT"))
  BY SeqModAssumption, LspAssumption DEF Frame, Bare, Control, NoMsg, SeqNum, is_any_ack
<1>2. /\ Host \in Endpoint /\ Accessory \in Endpoint
      /\ link[Host] \in LinkState /\ link[Accessory] \in LinkState
      /\ EndInv(Host, link[Host]) /\ EndInv(Accessory, link[Accessory])
  BY DEF TypeOK, HandshakeInv, Endpoint
<1>3. ASSUME NEW e \in Endpoint, NEW l \in LinkState, EndInv(e, l)
      PROVE  LET m == [l EXCEPT !.detect_ack = FALSE]
             IN  m \in LinkState /\ EndInv(e, m) /\ m.peer_seq = l.peer_seq
  BY ONLY <1>3, FlagTypes DEF EndInv, Knows, InData
<1>4. ASSUME NEW e \in Endpoint, NEW l \in LinkState, EndInv(e, l)
      PROVE  LET m == [l EXCEPT !.detect_transmitted = TRUE]
             IN  m \in LinkState /\ EndInv(e, m) /\ m.peer_seq = l.peer_seq
  BY ONLY <1>4, FlagTypes DEF EndInv, Knows, InData
<1>5. CASE AcknowledgeDetect
  BY <1>1, <1>2, <1>3, <1>5, SendHandshake DEF AcknowledgeDetect
<1>6. CASE TransmitDetect
  BY <1>1, <1>2, <1>4, <1>6, SendHandshake DEF TransmitDetect
<1> QED
  BY <1>5, <1>6

\* SYN+ACK and final ACK are sent only with peer_seq known, so HandshakeInv
\* is kept.
LEMMA NegotiationTransmitHandshake ==
    ASSUME TypeOK, HandshakeInv, NEW e \in Endpoint, TransmitSynAck(e) \/ TransmitFinalAck(e)
    PROVE  HandshakeInv'
<1> DEFINE l == link[e]
           p == new_syn_ack(l.own_seq, l.peer_seq, l.offer)
           q == new_ack(SeqSub(l.own_seq, 1), l.peer_seq, NoMsg, 0)
           l1 == prepare_ackable(take_own_seq(l), p)
<1>0. l \in LinkState /\ EndInv(e, l)
  BY DEF TypeOK, HandshakeInv
<1>1. HasPendingTx(l)
  BY DEF TransmitSynAck, TransmitFinalAck
<1>2. CASE TransmitSynAck(e)
  <2>0. l.status = "Negotiating"
    BY <1>2 DEF TransmitSynAck
  <2> HIDE DEF l
  <2>1. l.own_seq \in SeqNum /\ l.peer_seq \in SeqNum /\ l.offer \in Lsp /\ l.peer_seq # NoSeq
    BY <1>0, <1>1 DEF LinkState, HasPendingTx
  <2>2. p \in Frame
    BY <2>1, FrameTypes
  <2> HIDE DEF p
  <2>3. l1 \in LinkState /\ l1.peer_seq = l.peer_seq /\ l1.status = "Negotiating"
    BY <1>0, <2>0, <2>2, AckableSendType, PreparedKeeps
  <2> HIDE DEF l1
  <2>4. LET m == [l1 EXCEPT !.phase = "Start", !.pending = FALSE]
        IN  m \in LinkState /\ EndInv(e, m) /\ m.peer_seq = l.peer_seq
    BY <2>3, StatusSets DEF LinkState, EndInv, InData
  <2>5. Send(e, [l1 EXCEPT !.phase = "Start", !.pending = FALSE], p)
    BY <1>2 DEF TransmitSynAck, l, l1, p
  <2> QED
    BY <2>1, <2>2, <2>4, <2>5, SendHandshake DEF l
<1>3. CASE TransmitFinalAck(e)
  <2>0. l.phase = "Accepting"
    BY <1>3 DEF TransmitFinalAck
  <2> HIDE DEF l
  <2>1. l.own_seq \in Int /\ l.peer_seq \in SeqNum /\ Knows(l)
    BY <1>0, <1>1, <2>0, SeqModAssumption DEF LinkState, HasPendingTx, SeqNum, EndInv
  <2>2. q \in Frame
    <3>1. SeqSub(l.own_seq, 1) \in SeqNum
      BY <2>1, SeqArithmetic
    <3> QED
      BY <2>1, <3>1, FrameTypes, LspAssumption DEF NoMsg
  <2> HIDE DEF q
  <2>3. LET m == [l EXCEPT !.phase = "Accepted", !.pending = FALSE, !.status = "Writable"]
        IN  m \in LinkState /\ EndInv(e, m) /\ m.peer_seq = l.peer_seq
    <3>1. "Writable" \in LinkStatus
      BY DEF LinkStatus, DataStatus
    <3> QED
      BY <1>0, <2>1, <3>1 DEF LinkState, EndInv, Knows
  <2>4. Send(e, [l EXCEPT !.phase = "Accepted", !.pending = FALSE, !.status = "Writable"], q)
    BY <1>3 DEF TransmitFinalAck, l, q
  <2> QED
    BY <2>1, <2>2, <2>3, <2>4, SendHandshake DEF l, Knows
<1> QED
  BY <1>2, <1>3

\* The first SYN acknowledges nothing, so HandshakeInv is kept.
LEMMA SynHandshake ==
    ASSUME TypeOK, HandshakeInv, TransmitSyn
    PROVE  HandshakeInv'
<1> DEFINE l == link[Accessory]
           p == new_syn(l.own_seq, l.offer)
           l1 == prepare_ackable(take_own_seq(l), p)
<1>0. l \in LinkState /\ Accessory \in Endpoint /\ EndInv(Accessory, l)
  BY DEF TypeOK, HandshakeInv, Endpoint
<1> HIDE DEF l
<1>1. p \in Frame /\ ~is_any_ack(p)
  <2>1. l.own_seq \in SeqNum /\ l.offer \in Lsp
    BY <1>0 DEF LinkState
  <2> QED
    BY <2>1, FrameTypes DEF is_any_ack, new_syn, Bare
<1> HIDE DEF p
<1>2. /\ l1 \in LinkState
      /\ l1.peer_seq = l.peer_seq /\ l1.peer_ack = l.peer_ack
      /\ l1.phase = l.phase /\ l1.status = l.status
  BY <1>0, <1>1, AckableSendType, PreparedKeeps
<1> HIDE DEF l1
<1>3. LET m == [l1 EXCEPT !.syn_transmitted = TRUE]
      IN  m \in LinkState /\ EndInv(Accessory, m) /\ m.peer_seq = l.peer_seq
  BY ONLY <1>0, <1>2, FlagTypes DEF EndInv, Knows, InData
<1>4. Send(Accessory, [l1 EXCEPT !.syn_transmitted = TRUE], p)
  BY DEF TransmitSyn, l, l1, p
<1> QED
  BY <1>0, <1>1, <1>3, <1>4, SendHandshake DEF l

\* Only a SYN is retransmitted without peer_seq, so HandshakeInv is kept.
LEMMA RetransmitHandshake ==
    ASSUME TypeOK, HandshakeInv, NEW e \in Endpoint, NEW s \in SeqNum, Retransmit(e, s)
    PROVE  HandshakeInv'
<1> DEFINE l == link[e]
           entry == l.retransmit_map[s]
           p == IF entry.p.ctl = "SYN" THEN entry.p ELSE [entry.p EXCEPT !.ack = l.peer_seq]
           new == [p |-> p, retries |-> entry.retries + 1]
<1>0. l \in LinkState /\ EndInv(e, l)
  BY DEF TypeOK, HandshakeInv
<1>1. retransmit_one(e, s)
  BY DEF Retransmit
<1> HIDE DEF l
<1>2. l.retransmit_map \in [SeqNum -> Entry] /\ l.peer_seq \in SeqNum \cup {NoSeq}
  BY <1>0 DEF LinkState
<1>3. entry \in Entry
  BY <1>2
<1> HIDE DEF entry
<1>4. CASE entry.retries >= max_retransmissions[l.local_lsp]
  <2>1. "RetransmissionsExceeded" \in LinkError
    BY DEF LinkError
  <2>2. LET m == enter_error_state(l, "RetransmissionsExceeded")
        IN  m \in LinkState /\ EndInv(e, m) /\ m.peer_seq = l.peer_seq
    BY <1>0, <2>1, ErrorType, ErrorKeeps
  <2>3. Quit(e, enter_error_state(l, "RetransmissionsExceeded"))
    BY <1>1, <1>4 DEF retransmit_one, l, entry
  <2> QED
    BY <2>2, <2>3, QuitHandshake DEF l
<1>5. CASE ~(entry.retries >= max_retransmissions[l.local_lsp])
  <2>1. entry.p.ctl = "SYN" \/ l.peer_seq # NoSeq
    BY <1>1, <1>5 DEF retransmit_one, l, entry
  <2>2. p \in Frame
    BY <1>2, <1>3, <2>1 DEF Entry, Frame
  <2>3. is_any_ack(p) => l.peer_seq # NoSeq
    BY <2>1 DEF is_any_ack
  <2> HIDE DEF p
  <2>4. new \in Entry
    BY <1>3, <2>2 DEF Entry
  <2> HIDE DEF new
  <2>5. [l.retransmit_map EXCEPT ![s] = new] \in [SeqNum -> Entry]
    BY <1>2, <2>4
  <2>6. LET m == [l EXCEPT !.retransmit_map[s] = new]
        IN  m \in LinkState /\ EndInv(e, m) /\ m.peer_seq = l.peer_seq
    BY <1>0, <2>5 DEF LinkState, EndInv, Knows, InData
  <2>7. Send(e, [l EXCEPT !.retransmit_map[s] = new], p)
    BY <1>1, <1>5 DEF retransmit_one, l, entry, p, new
  <2> QED
    BY <2>2, <2>3, <2>6, <2>7, SendHandshake DEF l
<1> QED
  BY <1>4, <1>5

\* PendingAck::reset() leaves the handshake state alone.
LEMMA ResetKeeps ==
    ASSUME NEW l \in LinkState
    PROVE  LET r == reset_pending_ack(l)
           IN  /\ r.peer_seq = l.peer_seq /\ r.peer_ack = l.peer_ack
               /\ r.phase = l.phase /\ r.status = l.status
BY DEF LinkState, reset_pending_ack

\* A payload is sent in the data phase only, so HandshakeInv is kept.
LEMMA PayloadHandshake ==
    ASSUME TypeOK, HandshakeInv, NEW e \in Endpoint, TransmitPayload(e)
    PROVE  HandshakeInv'
<1> DEFINE l == link[e]
           d == dequeue_tx(l)
           p == new_ack(l.own_seq, l.peer_seq, l.taken + 1, Head(l.csm))
           l1 == prepare_ackable(take_own_seq(d), p)
<1>0. l \in LinkState /\ EndInv(e, l) /\ HasPayload(l)
  BY DEF TypeOK, HandshakeInv, TransmitPayload
<1>1. InData(l)
  BY StatusSets DEF TransmitPayload, InData
<1> HIDE DEF l
<1>2. Knows(l)
  BY <1>0, <1>1 DEF EndInv
<1>3. d \in LinkState /\ Head(l.csm) \in Nat
  BY <1>0, DequeueType
<1>4. /\ d.peer_seq = l.peer_seq /\ d.peer_ack = l.peer_ack
      /\ d.phase = l.phase /\ d.status = l.status
  BY <1>0, DequeueKeeps
<1>5. p \in Frame
  <2>1. l.own_seq \in SeqNum /\ l.peer_seq \in SeqNum /\ l.taken + 1 \in Nat
    BY <1>0, <1>2 DEF LinkState, Knows
  <2> QED
    BY <1>3, <2>1, FrameTypes, LspAssumption
<1> HIDE DEF d, p
<1>6. LET m == enter_error_state(take_own_seq(d), "TransmitMaxLenViolation")
      IN  m \in LinkState /\ EndInv(e, m) /\ m.peer_seq = l.peer_seq
  <2>1. "TransmitMaxLenViolation" \in LinkError
    BY DEF LinkError
  <2>2. take_own_seq(d) \in LinkState
    BY <1>3, TakeOwnSeqType
  <2>3. /\ take_own_seq(d).peer_seq = l.peer_seq /\ take_own_seq(d).peer_ack = l.peer_ack
        /\ take_own_seq(d).phase = l.phase /\ take_own_seq(d).status = l.status
    BY <1>3, <1>4 DEF LinkState, take_own_seq
  <2>4. EndInv(e, take_own_seq(d))
    BY <1>0, <2>3 DEF EndInv, Knows, InData
  <2> QED
    BY <2>1, <2>2, <2>3, <2>4, ErrorType, ErrorKeeps
<1>7. /\ l1 \in LinkState /\ l1.peer_seq = l.peer_seq /\ l1.peer_ack = l.peer_ack
      /\ l1.phase = l.phase /\ l1.status = l.status
  BY <1>3, <1>4, <1>5, AckableSendType, PreparedKeeps
<1> HIDE DEF l1
<1>8. LET m == reset_pending_ack(l1)
      IN  m \in LinkState /\ EndInv(e, m) /\ m.peer_seq = l.peer_seq
  BY <1>0, <1>7, ResetPendingAckType, ResetKeeps DEF EndInv, Knows, InData
<1>9. \/ Quit(e, enter_error_state(take_own_seq(d), "TransmitMaxLenViolation"))
      \/ Send(e, reset_pending_ack(l1), p)
  BY <1>2 DEF TransmitPayload, Knows, l, l1, d, p
<1> QED
  BY <1>2, <1>5, <1>6, <1>8, <1>9, SendHandshake, QuitHandshake DEF l, Knows

\* An empty ACK is sent in the data phase only, so HandshakeInv is kept.
LEMMA EmptyAckHandshake ==
    ASSUME TypeOK, HandshakeInv, NEW e \in Endpoint, TransmitEmptyAck(e)
    PROVE  HandshakeInv'
<1> DEFINE l == link[e]
           p == new_ack(SeqSub(l.own_seq, 1), l.peer_seq, NoMsg, 0)
<1>0. l \in LinkState /\ EndInv(e, l) /\ l.peer_seq # NoSeq
  BY DEF TypeOK, HandshakeInv, TransmitEmptyAck
<1> HIDE DEF l
<1>1. p \in Frame
  <2>1. l.own_seq \in Int /\ l.peer_seq \in SeqNum
    BY <1>0, SeqModAssumption DEF LinkState, SeqNum
  <2>2. SeqSub(l.own_seq, 1) \in SeqNum
    BY <2>1, SeqArithmetic
  <2> QED
    BY <2>1, <2>2, FrameTypes, LspAssumption DEF NoMsg
<1> HIDE DEF p
<1>2. LET m == reset_pending_ack(l)
      IN  m \in LinkState /\ EndInv(e, m) /\ m.peer_seq = l.peer_seq
  BY <1>0, ResetPendingAckType, ResetKeeps DEF EndInv, Knows, InData
<1>3. Send(e, reset_pending_ack(l), p)
  BY DEF TransmitEmptyAck, l, p
<1> QED
  BY <1>0, <1>1, <1>2, <1>3, SendHandshake DEF l

\* The requests of the session owner keep HandshakeInv.
LEMMA OwnerHandshake ==
    ASSUME TypeOK, HandshakeInv, NEW e \in Endpoint,
           Enqueue(e) \/ EnqueueLingo(e) \/ Close(e) \/ Downgrade
    PROVE  HandshakeInv'
<1>0. TypeOK'
  BY OwnerType
<1>1. ASSUME NEW f \in Endpoint, NEW m, Quit(f, m)
      PROVE  m \in LinkState
  BY <1>0, <1>1 DEF TypeOK, Quit, Update
<1>2. ASSUME NEW f \in Endpoint
      PROVE  link[f] \in LinkState /\ EndInv(f, link[f])
  BY DEF TypeOK, HandshakeInv
<1>3. CASE Enqueue(e)
  <2>1. PICK n : Quit(e, [link[e] EXCEPT !.csm = n])
    BY <1>3 DEF Enqueue
  <2>2. [link[e] EXCEPT !.csm = n] \in LinkState
    BY <1>1, <2>1
  <2>3. ASSUME NEW l \in LinkState, EndInv(e, l)
        PROVE  LET m == [l EXCEPT !.csm = n]
               IN  EndInv(e, m) /\ m.peer_seq = l.peer_seq
    BY <2>3 DEF LinkState, EndInv, Knows, InData
  <2> QED
    BY <1>2, <2>1, <2>2, <2>3, QuitHandshake
<1>4. CASE EnqueueLingo(e)
  <2>1. PICK n, k : Quit(e, [link[e] EXCEPT !.lingo = n, !.lingo_sent = k])
    BY <1>4 DEF EnqueueLingo
  <2>2. [link[e] EXCEPT !.lingo = n, !.lingo_sent = k] \in LinkState
    BY <1>1, <2>1
  <2>3. ASSUME NEW l \in LinkState, EndInv(e, l)
        PROVE  LET m == [l EXCEPT !.lingo = n, !.lingo_sent = k]
               IN  EndInv(e, m) /\ m.peer_seq = l.peer_seq
    BY <2>3 DEF LinkState, EndInv, Knows, InData
  <2> QED
    BY <1>2, <2>1, <2>2, <2>3, QuitHandshake
<1>5. CASE Close(e)
  <2>1. "Eof" \in LinkError
    BY DEF LinkError
  <2>2. LET m == enter_error_state(link[e], "Eof")
        IN  m \in LinkState /\ EndInv(e, m) /\ m.peer_seq = link[e].peer_seq
    BY <1>2, <2>1, ErrorType, ErrorKeeps
  <2> QED
    BY <1>5, <2>2, QuitHandshake DEF Close
<1>6. CASE Downgrade
  <2>1. Accessory \in Endpoint /\ "Downgrade" \in LinkStatus
    BY DEF Endpoint, LinkStatus
  <2>2. ASSUME NEW l \in LinkState, EndInv(Accessory, l)
        PROVE  LET m == [l EXCEPT !.status = "Downgrade"]
               IN  m \in LinkState /\ EndInv(Accessory, m) /\ m.peer_seq = l.peer_seq
    BY <2>1, <2>2, StatusSets DEF LinkState, EndInv, Knows, InData
  <2> QED
    BY <1>2, <1>6, <2>1, <2>2, QuitHandshake DEF Downgrade
<1> QED
  BY <1>3, <1>4, <1>5, <1>6

\* An EAK is sent in the data phase only and a RST acknowledges nothing, so
\* HandshakeInv is kept.
LEMMA ExternalHandshake ==
    ASSUME TypeOK, HandshakeInv, NEW e \in Endpoint, SendEak(e) \/ SendReset
    PROVE  HandshakeInv'
<1>1. PICK f \in Endpoint, q \in Frame :
        /\ chan' = [chan EXCEPT ![f] = Append(@, q)]
        /\ q.ctl = "RST" \/ (q.ctl = "EAK" /\ link[Peer(f)].peer_seq # NoSeq)
  <2>1. CASE SendEak(e)
    <3> DEFINE eak == new_eak(link[e].own_seq, link[e].peer_seq, SeqAdd(link[e].peer_seq, 1))
    <3>0. eak \in Frame
      BY <2>1, EakFrame
    <3>1. Peer(e) \in Endpoint /\ Peer(Peer(e)) = e
      BY DEF Peer, Endpoint, Host, Accessory
    <3>2. eak.ctl = "EAK"
      BY DEF new_eak, Bare
    <3> HIDE DEF eak
    <3>3. chan' = [chan EXCEPT ![Peer(e)] = Append(@, eak)] /\ link[e].peer_seq # NoSeq
      BY <2>1 DEF SendEak, eak
    <3> QED
      BY <3>0, <3>1, <3>2, <3>3
  <2>2. CASE SendReset
    <3>1. Accessory \in Endpoint /\ Bare("RST").ctl = "RST"
      BY DEF Endpoint, Bare
    <3> QED
      BY <2>2, <3>1, ResetFrame DEF SendReset
  <2> QED
    BY <2>1, <2>2
<1>2. link' = link
  BY DEF SendEak, SendReset
<1>3. ASSUME NEW g \in Endpoint, NEW i \in DOMAIN chan'[g]
      PROVE  \/ i \in DOMAIN chan[g] /\ chan'[g][i] = chan[g][i]
             \/ g = f /\ chan'[g][i] = q
  <2>1. chan'[g] = IF g = f THEN Append(chan[g], q) ELSE chan[g]
    BY <1>1 DEF TypeOK
  <2>2. chan[g] \in Seq(Frame)
    BY DEF TypeOK
  <2>3. CASE g = f
    <3>1. /\ Len(chan'[g]) = Len(chan[g]) + 1 /\ i \in 1..(Len(chan[g]) + 1)
          /\ chan'[g][i] = IF i = Len(chan[g]) + 1 THEN q ELSE chan[g][i]
      BY <1>3, <2>1, <2>2, <2>3
    <3> QED
      BY <2>2, <2>3, <3>1
  <2>4. CASE g # f
    BY <1>3, <2>1, <2>4
  <2> QED
    BY <2>3, <2>4
<1>4. ASSUME link[Host].peer_seq = NoSeq
      PROVE  AcksFollowSyn'
  <2>1. /\ link[Accessory].peer_seq = NoSeq
        /\ \A i \in DOMAIN chan[Host] : ~is_any_ack(chan[Host][i])
        /\ \A i \in DOMAIN chan[Accessory] : chan[Accessory][i].ctl # "SYNACK"
    BY <1>4 DEF HandshakeInv, AcksFollowSyn
  <2>2. q.ctl = "RST"
    BY <1>1, <1>4, <2>1 DEF Peer, Endpoint
  <2>3. ~is_any_ack(q) /\ q.ctl # "SYNACK"
    BY <2>2 DEF is_any_ack
  <2>4. Host \in Endpoint /\ Accessory \in Endpoint
    BY DEF Endpoint
  <2> QED
    BY <1>2, <1>3, <2>1, <2>3, <2>4 DEF AcksFollowSyn
<1> QED
  BY <1>2, <1>4 DEF HandshakeInv, AcksFollowSyn

\* Every action keeps HandshakeInv.
LEMMA NextHandshake ==
    ASSUME TypeOK, HandshakeInv, [Next]_vars
    PROVE  HandshakeInv'
<1>1. CASE AcknowledgeDetect \/ TransmitDetect
  BY <1>1, DetectTransmitHandshake
<1>2. CASE TransmitSyn
  BY <1>2, SynHandshake
<1>3. CASE Downgrade \/ SendReset
  BY <1>3, OwnerHandshake, ExternalHandshake DEF Endpoint
<1>4. ASSUME NEW e \in Endpoint, Transmit(e)
      PROVE  HandshakeInv'
  BY <1>4, LegacyTransmitHandshake, NegotiationTransmitHandshake, RetransmitHandshake,
     PayloadHandshake, EmptyAckHandshake DEF Transmit
<1>5. ASSUME NEW e \in Endpoint,
             Enqueue(e) \/ EnqueueLingo(e) \/ Close(e) \/ Read(e) \/ Lose(e) \/ SendEak(e)
      PROVE  HandshakeInv'
  BY <1>5, OwnerHandshake, DeliveryHandshake, ExternalHandshake
<1>6. CASE UNCHANGED vars
  BY <1>6 DEF HandshakeInv, AcksFollowSyn, vars
<1> QED
  BY <1>1, <1>2, <1>3, <1>4, <1>5, <1>6 DEF Next

\* A fresh pair of links satisfies HandshakeInv.
LEMMA InitHandshake == Init => HandshakeInv
<1> SUFFICES ASSUME Init PROVE HandshakeInv
  OBVIOUS
<1>1. ASSUME NEW e \in Endpoint
      PROVE  /\ link[e].peer_seq = NoSeq /\ link[e].status = "Detecting"
             /\ link[e].phase = "Start" /\ chan[e] = << >>
  BY DEF Init, NewLink
<1>2. Host \in Endpoint /\ Accessory \in Endpoint
  BY DEF Endpoint
<1>3. AcksFollowSyn
  BY <1>1, <1>2 DEF AcksFollowSyn
<1> QED
  BY <1>1, <1>3, StatusSets DEF HandshakeInv, EndInv, InData

\* Handshake order, for every width, window, LSP set, message sequence and
\* number of lost frames: nothing is acknowledged before the host read a SYN.
THEOREM AcksAfterSyn == Spec => []AcksFollowSyn
<1>1. Init => TypeOK /\ HandshakeInv
  BY InitType, InitHandshake
<1>2. TypeOK /\ HandshakeInv /\ [Next]_vars => TypeOK' /\ HandshakeInv'
  BY NextType, NextHandshake
<1>3. HandshakeInv => AcksFollowSyn
  BY DEF HandshakeInv
<1> QED
  BY <1>1, <1>2, <1>3, PTL DEF Spec

\* An endpoint in the data phase knows the peer's sequence number and the
\* peer's acknowledgement: the `?` on peer_seq in next_transmit() and the
\* "without known peer_seq" exit of read() are dead code.
THEOREM DataPhaseKnowsPeer == Spec => []NegotiatedKnowsPeer
<1>1. Init => TypeOK /\ HandshakeInv
  BY InitType, InitHandshake
<1>2. TypeOK /\ HandshakeInv /\ [Next]_vars => TypeOK' /\ HandshakeInv'
  BY NextType, NextHandshake
<1>3. HandshakeInv => NegotiatedKnowsPeer
  BY DEF HandshakeInv, NegotiatedKnowsPeer, EndInv, Knows
<1> QED
  BY <1>1, <1>2, <1>3, PTL DEF Spec

-----------------------------------------------------------------------------
(* One protocol per session.  A frame of iAP1 is sent and read on links that *)
(* were downgraded before the data phase began, and neither they nor their   *)
(* errors ever get there.                                                    *)

\* A link that speaks, or spoke, iAP1, and has handed no message to its owner.
Iap1(l) == (is_downgrade(l) \/ is_error(l)) /\ l.delivered = << >>

\* Before the data phase no message has been handed over.
Early(l) == l.status \in {"Detecting", "Negotiating", "Downgrade"} => l.delivered = << >>

\* A frame of iAP1 is on its way.
LegacyOn(frames) == \E i \in DOMAIN frames : frames[i].ctl = "LEGACY"

\* No frame of iAP1 is kept for retransmission.
Plain(l) == \A s \in SeqNum : l.retransmit_map[s].p.ctl # "LEGACY"

\* Who reads iAP1 speaks it, and so does whoever sent it.
ProtocolInv ==
    \A e \in Endpoint :
      /\ Early(link[e]) /\ Plain(link[e])
      /\ link[e].legacy_rx > 0 => Iap1(link[e])
      /\ link[e].legacy_rx > 0 \/ LegacyOn(chan[e]) => Iap1(link[Peer(e)])

\* A step of one link stays early, keeps to iAP1 and reads no frame of it.
Goes(l, m) ==
    /\ Early(m)
    /\ Iap1(l) => Iap1(m)
    /\ Plain(l) => Plain(m)
    /\ m.legacy_rx = l.legacy_rx

\* The statuses before the data phase are no errors and no statuses of it.
LEMMA EarlyStatuses ==
    \A st \in {"Detecting", "Negotiating", "Downgrade"} : st \notin LinkError /\ st \notin DataStatus
BY DEF LinkError, DataStatus

\* One link steps and frames of iAP1 come from links that speak it.
LEMMA LinkGoes ==
    ASSUME TypeOK, ProtocolInv, NEW e \in Endpoint, NEW m,
           link' = [link EXCEPT ![e] = m],
           Early(m), Plain(m), Iap1(link[e]) => Iap1(m),
           m.legacy_rx = link[e].legacy_rx \/ (LegacyOn(chan[e]) /\ Iap1(m)),
           \A f \in Endpoint : LegacyOn(chan'[f]) => LegacyOn(chan[f]) \/ (f = Peer(e) /\ Iap1(m))
    PROVE  ProtocolInv'
<1>1. \A f \in Endpoint : Peer(f) \in Endpoint /\ Peer(Peer(f)) = f /\ Peer(f) # f
  BY DEF Peer, Endpoint, Host, Accessory
<1>2. \A f \in Endpoint : link'[f] = IF f = e THEN m ELSE link[f]
  BY DEF TypeOK
<1>3. ASSUME NEW f \in Endpoint
      PROVE  /\ Early(link'[f]) /\ Plain(link'[f])
             /\ Iap1(link[f]) => Iap1(link'[f])
             /\ link'[f].legacy_rx = link[f].legacy_rx
                \/ (f = e /\ LegacyOn(chan[f]) /\ Iap1(link'[f]))
  BY <1>2 DEF ProtocolInv
<1>4. ASSUME NEW f \in Endpoint, link'[f].legacy_rx > 0
      PROVE  Iap1(link'[f]) /\ Iap1(link'[Peer(f)])
  <2>1. CASE link'[f].legacy_rx = link[f].legacy_rx
    <3>1. Iap1(link[f]) /\ Iap1(link[Peer(f)])
      BY <1>4, <2>1 DEF ProtocolInv
    <3> QED
      BY <1>1, <1>3, <3>1
  <2>2. CASE link'[f].legacy_rx # link[f].legacy_rx
    <3>1. LegacyOn(chan[f]) /\ Iap1(link'[f])
      BY <1>3, <2>2
    <3>2. Iap1(link[Peer(f)])
      BY <3>1 DEF ProtocolInv
    <3> QED
      BY <1>1, <1>3, <3>1, <3>2
  <2> QED
    BY <2>1, <2>2
<1>5. ASSUME NEW f \in Endpoint, LegacyOn(chan'[f])
      PROVE  Iap1(link'[Peer(f)])
  <2>1. CASE LegacyOn(chan[f])
    <3>1. Iap1(link[Peer(f)])
      BY <2>1 DEF ProtocolInv
    <3> QED
      BY <1>1, <1>3, <3>1
  <2>2. CASE f = Peer(e) /\ Iap1(m)
    BY <1>1, <1>2, <2>2
  <2> QED
    BY <1>5, <2>1, <2>2
<1> QED
  BY <1>3, <1>4, <1>5 DEF ProtocolInv

\* refresh_data_status() changes neither protocol nor what was handed over.
LEMMA RefreshGoes ==
    ASSUME NEW l \in LinkState, Early(l)
    PROVE  Goes(l, refresh_data_status(l)) /\ (Iap1(l) => Iap1(refresh_data_status(l)))
<1> DEFINE r == refresh_data_status(l)
<1>1. CASE ~InData(l)
  BY <1>1 DEF refresh_data_status, Goes
<1>2. CASE InData(l)
  <2>1. PICK st \in DataStatus : r = [l EXCEPT !.status = st]
    BY <1>2 DEF refresh_data_status, DataStatus
  <2>2. /\ r.status \in DataStatus /\ r.delivered = l.delivered /\ r.legacy_rx = l.legacy_rx
        /\ r.retransmit_map = l.retransmit_map
    BY <2>1 DEF LinkState
  <2>3. ~Iap1(l)
    BY <1>2, EarlyStatuses, StatusSets DEF Iap1, is_downgrade, is_error, InData
  <2>4. Early(r)
    BY <2>2, EarlyStatuses DEF Early
  <2> QED
    BY <2>2, <2>3, <2>4 DEF Goes, Plain
<1> QED
  BY <1>1, <1>2

\* next_transmit() sends: a frame of iAP1 only from a link that speaks it.
LEMMA SendGoes ==
    ASSUME TypeOK, ProtocolInv, NEW e \in Endpoint, NEW l \in LinkState, Goes(link[e], l),
           NEW p, p.ctl = "LEGACY" => Iap1(l), Send(e, l, p)
    PROVE  ProtocolInv'
<1> PICK r : r = refresh_data_status(l)
  OBVIOUS
<1>1. Early(r) /\ Plain(r) /\ (Iap1(l) => Iap1(r)) /\ r.legacy_rx = l.legacy_rx
  BY RefreshGoes DEF Goes, ProtocolInv
<1>2. link' = [link EXCEPT ![e] = r]
  BY DEF Send, Update
<1>3. Iap1(link[e]) => Iap1(r)
  BY <1>1 DEF Goes
<1>4. ASSUME NEW f \in Endpoint, LegacyOn(chan'[f])
      PROVE  LegacyOn(chan[f]) \/ (f = Peer(e) /\ Iap1(r))
  <2>1. Peer(e) \in Endpoint
    BY DEF Peer, Endpoint
  <2>2. chan'[f] = IF f = Peer(e) THEN Append(chan[f], p) ELSE chan[f]
    BY <2>1 DEF Send, TypeOK
  <2>3. chan[f] \in Seq(Frame)
    BY DEF TypeOK
  <2>4. PICK i \in DOMAIN chan'[f] : chan'[f][i].ctl = "LEGACY"
    BY <1>4 DEF LegacyOn
  <2>5. (i \in DOMAIN chan[f] /\ chan'[f][i] = chan[f][i]) \/ (f = Peer(e) /\ chan'[f][i] = p)
    BY <2>2, <2>3
  <2> QED
    BY <1>1, <2>4, <2>5 DEF LegacyOn
<1> QED
  BY <1>1, <1>2, <1>3, <1>4, LinkGoes DEF Goes

\* A step that transmits nothing.
LEMMA QuitGoes ==
    ASSUME TypeOK, ProtocolInv, NEW e \in Endpoint, NEW l, Goes(link[e], l), Quit(e, l)
    PROVE  ProtocolInv'
<1>1. link' = [link EXCEPT ![e] = l] /\ chan' = chan
  BY DEF Quit, Update
<1> QED
  BY <1>1, LinkGoes DEF Goes, ProtocolInv

\* A step that leaves the status, what was handed over and what was read of iAP1.
LEMMA AlikeGoes ==
    ASSUME NEW l, NEW m, Early(l),
           m.status = l.status, m.delivered = l.delivered, m.legacy_rx = l.legacy_rx,
           m.retransmit_map = l.retransmit_map \/ (Plain(l) => Plain(m))
    PROVE  Goes(l, m)
BY DEF Goes, Early, Iap1, Plain, is_downgrade, is_error

\* An error hands over nothing.
LEMMA ErrorGoes ==
    ASSUME NEW l \in LinkState, NEW m \in LinkState, NEW err \in LinkError,
           m.delivered = l.delivered, m.legacy_rx = l.legacy_rx, m.retransmit_map = l.retransmit_map
    PROVE  Goes(l, enter_error_state(m, err))
<1>1. LET r == enter_error_state(m, err)
      IN  /\ r.status = err /\ r.delivered = l.delivered /\ r.legacy_rx = l.legacy_rx
          /\ r.retransmit_map = l.retransmit_map
  BY DEF LinkState, enter_error_state
<1> QED
  BY <1>1, EarlyStatuses DEF Goes, Early, Iap1, Plain, is_error

\* A new acknowledgement, and recovery, hand over nothing.
LEMMA AckGoes ==
    ASSUME NEW l \in LinkState, NEW ack \in SeqNum, Early(l)
    PROVE  Goes(l, update_peer_ack(l, ack)) /\ update_peer_ack(l, ack).delivered = l.delivered
<1> DEFINE l1 == [l EXCEPT !.peer_ack = ack,
                           !.missing_psn = NoSeq,
                           !.retransmit_map =
                               [s \in SeqNum |-> IF SeqGT(s, ack) THEN @[s] ELSE NoEntry]]
<1>1. CASE l.peer_ack # NoSeq /\ ~SeqGT(ack, l.peer_ack)
  BY <1>1 DEF update_peer_ack, Goes
<1>2. CASE ~(l.peer_ack # NoSeq /\ ~SeqGT(ack, l.peer_ack))
  <2>1. [s \in SeqNum |-> IF SeqGT(s, ack) THEN l.retransmit_map[s] ELSE NoEntry]
          \in [SeqNum -> Entry]
    BY NoEntryType DEF LinkState
  <2>2. l1 \in LinkState
    BY <2>1 DEF LinkState
  <2>3. l1.status = l.status /\ l1.delivered = l.delivered /\ l1.legacy_rx = l.legacy_rx
    BY DEF LinkState
  <2>4. update_peer_ack(l, ack) = refresh_data_status(l1)
    BY <1>2 DEF update_peer_ack
  <2> HIDE DEF l1
  <2>5. Goes(l, l1)
    <3>1. Plain(l) => Plain(l1)
      <4>1. NoEntry.p.ctl # "LEGACY"
        BY DEF NoEntry, Bare
      <4>2. \A s \in SeqNum : l1.retransmit_map[s] \in {l.retransmit_map[s], NoEntry}
        BY DEF l1, LinkState
      <4> QED
        BY <4>1, <4>2 DEF Plain
    <3> QED
      BY <2>3, <3>1, AlikeGoes
  <2>6. Goes(l1, refresh_data_status(l1)) /\ refresh_data_status(l1).delivered = l1.delivered
    <3>1. Goes(l1, refresh_data_status(l1))
      BY <2>2, <2>5, RefreshGoes DEF Goes
    <3>2. refresh_data_status(l1).delivered = l1.delivered
      BY <2>2 DEF refresh_data_status, LinkState
    <3> QED
      BY <3>1, <3>2
  <2> QED
    BY <2>3, <2>4, <2>5, <2>6 DEF Goes
<1> QED
  BY <1>1, <1>2

\* The peer's sequence number changes alone.
LEMMA PeerSeqGoes ==
    ASSUME NEW l \in LinkState, NEW seq \in SeqNum \cup {NoSeq}
    PROVE  LET m == [l EXCEPT !.peer_seq = seq]
           IN  /\ m \in LinkState /\ m.delivered = l.delivered
               /\ m.legacy_rx = l.legacy_rx /\ m.retransmit_map = l.retransmit_map
BY DEF LinkState

\* What the negotiation changes hands over nothing and is no iAP1.
LEMMA NegGoes ==
    ASSUME NEW e \in Endpoint, NEW l \in LinkState, NEW p \in Frame
    PROVE  LET r == on_recv_neg(e, l, p)
           IN  r.delivered = l.delivered /\ r.legacy_rx = l.legacy_rx /\ r.retransmit_map = l.retransmit_map
<1>2. ASSUME NEW m \in LinkState, NEW c
      PROVE  LET r == make_counter_offer(m, c)
             IN  r.delivered = m.delivered /\ r.legacy_rx = m.legacy_rx /\ r.retransmit_map = m.retransmit_map
  BY DEF LinkState, make_counter_offer, enter_error_state, transition_offering
<1>3. CASE e = Host
  <2>1. (IF is_ackable(p) THEN p.seq ELSE l.peer_seq) \in SeqNum \cup {NoSeq}
    BY FrameFields DEF LinkState
  <2> DEFINE l1 == [l EXCEPT !.peer_seq = IF is_ackable(p) THEN p.seq ELSE @]
  <2>2. /\ l1 \in LinkState /\ l1.delivered = l.delivered
        /\ l1.legacy_rx = l.legacy_rx /\ l1.retransmit_map = l.retransmit_map
    <3>1. l1 = [l EXCEPT !.peer_seq = IF is_ackable(p) THEN p.seq ELSE l.peer_seq]
      OBVIOUS
    <3> HIDE DEF l1
    <3> QED
      BY ONLY <2>1, <3>1, l \in LinkState, PeerSeqGoes
  <2> HIDE DEF l1
  <2>3. \A a, b, c : LET r == [l1 EXCEPT !.local_lsp = a, !.peer_lsp = b, !.phase = "Accepted",
                                         !.pending = FALSE, !.status = "Writable", !.skipped = c]
                     IN  r.delivered = l1.delivered /\ r.legacy_rx = l1.legacy_rx /\ r.retransmit_map = l1.retransmit_map
    BY <2>2 DEF LinkState
  <2>4. \A a : LET r == transition_offering([l1 EXCEPT !.accepted_peer_lsp = {a}, !.offer = a,
                                                       !.peer_lsp = a])
               IN  r.delivered = l1.delivered /\ r.legacy_rx = l1.legacy_rx /\ r.retransmit_map = l1.retransmit_map
    BY <2>2 DEF LinkState, transition_offering
  <2>5. CASE p.ctl \notin {"SYN", "ACK", "SYNACK"}
    BY <1>3, <2>5 DEF on_recv_neg, on_recv_neg_host
  <2>6. CASE p.ctl = "ACK"
    <3>1. on_recv_neg(e, l, p) =
            [l1 EXCEPT !.local_lsp = l.offer,
                       !.peer_lsp = IF l.accepted_peer_lsp = {} THEN l.offer
                                    ELSE CHOOSE lsp \in l.accepted_peer_lsp : TRUE,
                       !.phase = "Accepted", !.pending = FALSE,
                       !.status = "Writable", !.skipped = p.msg]
      BY <1>3, <2>6 DEF on_recv_neg, on_recv_neg_host, l1
    <3> QED
      BY <2>2, <2>3, <3>1
  <2>7. CASE p.ctl \in {"SYN", "SYNACK"} /\ counter_offer(Host, p.lsp) # {}
    <3>1. on_recv_neg(e, l, p) = make_counter_offer(l1, StartLsp[Host])
      BY <1>3, <2>7 DEF on_recv_neg, on_recv_neg_host, l1
    <3> QED
      BY <1>2, <2>2, <3>1
  <2>8. CASE p.ctl \in {"SYN", "SYNACK"} /\ counter_offer(Host, p.lsp) = {}
    <3>1. on_recv_neg(e, l, p) =
            transition_offering([l1 EXCEPT !.accepted_peer_lsp = {p.lsp}, !.offer = p.lsp,
                                           !.peer_lsp = p.lsp])
      BY <1>3, <2>8 DEF on_recv_neg, on_recv_neg_host, l1
    <3> QED
      BY <2>2, <2>4, <3>1
  <2> QED
    BY <2>5, <2>6, <2>7, <2>8
<1>4. CASE e # Host
  <2>1. p.seq \in SeqNum \cup {NoSeq}
    BY FrameFields
  <2> DEFINE l1 == [l EXCEPT !.peer_seq = p.seq]
  <2>2. /\ l1 \in LinkState /\ l1.delivered = l.delivered
        /\ l1.legacy_rx = l.legacy_rx /\ l1.retransmit_map = l.retransmit_map
    <3>1. l1 = [l EXCEPT !.peer_seq = p.seq]
      OBVIOUS
    <3> HIDE DEF l1
    <3> QED
      BY ONLY <2>1, <3>1, l \in LinkState, PeerSeqGoes
  <2> HIDE DEF l1
  <2>3. \A a, b : LET r == [l1 EXCEPT !.accepted_peer_lsp = {a}, !.peer_lsp = a, !.local_lsp = b,
                                      !.phase = "Accepting", !.pending = TRUE]
                  IN  r.delivered = l1.delivered /\ r.legacy_rx = l1.legacy_rx /\ r.retransmit_map = l1.retransmit_map
    BY <2>2 DEF LinkState
  <2>4. on_recv_neg(e, l, p) = on_recv_neg_accessory(l, p)
    BY <1>4 DEF on_recv_neg
  <2>5. CASE p.ctl # "SYNACK" \/ (l.peer_seq # NoSeq /\ ~verify_neg_seq_ack(l, p))
    BY <2>4, <2>5 DEF on_recv_neg_accessory
  <2>6. CASE ~(p.ctl # "SYNACK" \/ (l.peer_seq # NoSeq /\ ~verify_neg_seq_ack(l, p)))
             /\ counter_offer(Accessory, p.lsp) # {}
    <3>1. on_recv_neg(e, l, p) = make_counter_offer(l1, StartLsp[Accessory])
      BY <2>4, <2>6 DEF on_recv_neg_accessory, l1
    <3> QED
      BY <1>2, <2>2, <3>1
  <2>7. CASE ~(p.ctl # "SYNACK" \/ (l.peer_seq # NoSeq /\ ~verify_neg_seq_ack(l, p)))
             /\ counter_offer(Accessory, p.lsp) = {}
    <3>1. on_recv_neg(e, l, p) =
            [l1 EXCEPT !.accepted_peer_lsp = {p.lsp}, !.peer_lsp = p.lsp, !.local_lsp = l.offer,
                       !.phase = "Accepting", !.pending = TRUE]
      BY <2>4, <2>7 DEF on_recv_neg_accessory, l1
    <3> QED
      BY <2>2, <2>3, <3>1
  <2> QED
    BY <2>5, <2>6, <2>7
<1> QED
  BY <1>3, <1>4

\* A session packet in the data phase is no iAP1 and leaves the status.
LEMMA DataGoes ==
    ASSUME NEW l \in LinkState, NEW p \in Frame, InData(l)
    PROVE  Goes(l, process_data(l, p))
<1> DEFINE r == process_data(l, p)
<1>1. r.status = l.status /\ r.legacy_rx = l.legacy_rx /\ r.retransmit_map = l.retransmit_map
  <2>1. LET m == process_in_order(l, p)
        IN  m.status = l.status /\ m.legacy_rx = l.legacy_rx /\ m.retransmit_map = l.retransmit_map
    BY DEF LinkState, process_in_order
  <2>2. LET m == [l EXCEPT !.out_of_order[p.seq] = p.msg]
        IN  m.status = l.status /\ m.legacy_rx = l.legacy_rx /\ m.retransmit_map = l.retransmit_map
    BY DEF LinkState
  <2>3. LET m == [l EXCEPT !.force = TRUE]
        IN  m.status = l.status /\ m.legacy_rx = l.legacy_rx /\ m.retransmit_map = l.retransmit_map
    BY DEF LinkState
  <2> QED
    BY <2>1, <2>2, <2>3 DEF process_data
<1>2. ~Iap1(l)
  BY EarlyStatuses, StatusSets DEF Iap1, is_downgrade, is_error, InData
<1>3. Early(r)
  BY <1>1, EarlyStatuses DEF Early, InData
<1> QED
  BY <1>1, <1>2, <1>3 DEF Goes, Plain

\* read() of a packet never begins iAP1.
LEMMA ReadPacketGoes ==
    ASSUME NEW e \in Endpoint, NEW l \in LinkState, NEW p \in Frame, Early(l), ~is_error(l)
    PROVE  Goes(l, read_packet(e, l, p))
<1> DEFINE l1 == IF e = Host /\ l.status = "Detecting"
                 THEN [l EXCEPT !.status = "Negotiating"] ELSE l
           l2 == IF is_any_ack(p) THEN update_peer_ack(l1, p.ack) ELSE l1
           l3 == IF p.ctl = "EAK" /\ l2.peer_ack # NoSeq
                 THEN begin_recovery(l2, p.psn) ELSE l2
<1>1. p.ack \in SeqNum /\ p.psn \in SeqNum
  BY FrameFields
<1>2. /\ "RemoteAttemptedUpgrade" \in LinkError
      /\ "RecvMaxLenViolation" \in LinkError
      /\ "Reset" \in LinkError
  BY DEF LinkError
<1>3. \A err \in LinkError : Goes(l, enter_error_state(l, err))
  BY ErrorGoes
<1>4. CASE is_downgrade(l)
  BY <1>2, <1>3, <1>4 DEF read_packet
<1>5. CASE ~is_downgrade(l)
  <2>1. ~Iap1(l)
    BY <1>5 DEF Iap1
  <2>2. l1 \in LinkState /\ Goes(l, l1) /\ l1.delivered = l.delivered
    <3>1. CASE e = Host /\ l.status = "Detecting"
      <4>1. l1 = [l EXCEPT !.status = "Negotiating"] /\ "Negotiating" \in LinkStatus
        BY <3>1 DEF LinkStatus
      <4> HIDE DEF l1
      <4>2. /\ l1 \in LinkState /\ l1.status = "Negotiating" /\ l1.delivered = l.delivered
            /\ l1.legacy_rx = l.legacy_rx /\ l1.retransmit_map = l.retransmit_map
        BY <4>1 DEF LinkState
      <4>3. l.delivered = << >>
        BY <3>1 DEF Early
      <4> QED
        BY <2>1, <4>2, <4>3 DEF Goes, Early, Plain
    <3>2. CASE ~(e = Host /\ l.status = "Detecting")
      BY <3>2 DEF Goes
    <3> QED
      BY <3>1, <3>2
  <2> HIDE DEF l1
  <2>3. l2 \in LinkState /\ Goes(l, l2) /\ l2.delivered = l.delivered
    <3>1. CASE is_any_ack(p)
      <4>1. update_peer_ack(l1, p.ack) \in LinkState
        BY <1>1, <2>2, UpdatePeerAckType
      <4>2. /\ Goes(l1, update_peer_ack(l1, p.ack))
            /\ update_peer_ack(l1, p.ack).delivered = l1.delivered
        BY <1>1, <2>2, AckGoes DEF Goes
      <4> QED
        BY <2>1, <2>2, <3>1, <4>1, <4>2 DEF Goes
    <3>2. CASE ~is_any_ack(p)
      BY <2>2, <3>2
    <3> QED
      BY <3>1, <3>2
  <2> HIDE DEF l2
  <2>4. /\ l3 \in LinkState /\ l3.legacy_rx = l.legacy_rx /\ l3.retransmit_map = l2.retransmit_map
        /\ InData(l2) => InData(l3)
    <3>1. CASE p.ctl = "EAK" /\ l2.peer_ack # NoSeq
      <4> DEFINE l4 == [l2 EXCEPT !.missing_psn = p.psn]
      <4>1. l4 \in LinkState /\ l4.status = l2.status /\ l4.legacy_rx = l2.legacy_rx
            /\ l4.retransmit_map = l2.retransmit_map
        BY <1>1, <2>3 DEF LinkState
      <4>2. begin_recovery(l2, p.psn) = refresh_data_status(l4)
        BY DEF begin_recovery
      <4> HIDE DEF l4
      <4>3. /\ refresh_data_status(l4).legacy_rx = l4.legacy_rx
            /\ refresh_data_status(l4).retransmit_map = l4.retransmit_map
            /\ refresh_data_status(l4) \in LinkState
        <5>1. /\ refresh_data_status(l4).legacy_rx = l4.legacy_rx
              /\ refresh_data_status(l4).retransmit_map = l4.retransmit_map
          BY <4>1 DEF refresh_data_status, LinkState
        <5>2. refresh_data_status(l4) \in LinkState
          BY <4>1, RefreshType
        <5> QED
          BY <5>1, <5>2
      <4>4. InData(l4) <=> InData(refresh_data_status(l4))
        BY <4>1, RefreshKeeps
      <4> QED
        BY <2>3, <3>1, <4>1, <4>2, <4>3, <4>4 DEF Goes, InData
    <3>2. CASE ~(p.ctl = "EAK" /\ l2.peer_ack # NoSeq)
      BY <2>3, <3>2 DEF Goes
    <3> QED
      BY <3>1, <3>2
  <2> HIDE DEF l3
  <2>5. ASSUME l2.status = "Negotiating"
        PROVE  Goes(l, on_recv_neg(e, l2, p))
    <3>1. l2.delivered = << >>
      BY <2>3, <2>5 DEF Goes, Early
    <3>2. on_recv_neg(e, l2, p).delivered = << >> /\ on_recv_neg(e, l2, p).legacy_rx = l.legacy_rx
          /\ on_recv_neg(e, l2, p).retransmit_map = l2.retransmit_map
      BY <2>3, <3>1, NegGoes DEF Goes
    <3> QED
      BY <2>1, <2>3, <3>2 DEF Goes, Early, Plain
  <2>6. ASSUME InData(l2)
        PROVE  Goes(l, process_data(l3, p))
    <3>1. Goes(l3, process_data(l3, p))
      BY <2>4, <2>6, DataGoes
    <3> QED
      BY <2>1, <2>3, <2>4, <3>1 DEF Goes, Plain
  <2> QED
    BY <1>2, <1>3, <2>3, <2>5, <2>6 DEF read_packet, l1, l2, l3
<1> QED
  BY <1>4, <1>5

\* read() of a frame of iAP1 counts it on a link that speaks it, or is an error.
LEMMA ReadGoes ==
    ASSUME NEW e \in Endpoint, NEW l \in LinkState, NEW p \in Frame, Early(l)
    PROVE  LET r == read(e, l, p)
           IN  /\ Early(r) /\ (Iap1(l) => Iap1(r)) /\ (Plain(l) => Plain(r))
               /\ r.legacy_rx = l.legacy_rx \/ (p.ctl = "LEGACY" /\ Iap1(r))
<1>1. "RemoteAttemptedUpgrade" \in LinkError /\ "RemoteAttemptedDowngrade" \in LinkError
  BY DEF LinkError
<1>2. \A err \in LinkError : Goes(l, enter_error_state(l, err))
  BY ErrorGoes
<1>3. CASE is_error(l)
  BY <1>3 DEF read
<1>4. CASE ~is_error(l) /\ p.ctl = "DETECT"
  <2>1. read(e, l, p) = read_detect(e, l)
    BY <1>4 DEF read
  <2>2. CASE is_downgrade(l)
    BY <1>1, <1>2, <2>1, <2>2 DEF read_detect, Goes
  <2>3. CASE ~is_downgrade(l) /\ e = Host
    <3>1. LET m == [l EXCEPT !.detect_ack = TRUE]
          IN  m.status = l.status /\ m.delivered = l.delivered /\ m.legacy_rx = l.legacy_rx
              /\ m.retransmit_map = l.retransmit_map
      BY DEF LinkState
    <3>2. Goes(l, [l EXCEPT !.detect_ack = TRUE])
      BY <3>1, AlikeGoes
    <3> QED
      BY <2>1, <2>3, <3>2 DEF read_detect, Goes
  <2>4. CASE ~is_downgrade(l) /\ e # Host /\ l.status = "Detecting"
    <3> DEFINE m == [l EXCEPT !.status = "Negotiating"]
    <3>1. m.status = "Negotiating" /\ m.delivered = l.delivered /\ m.legacy_rx = l.legacy_rx
              /\ m.retransmit_map = l.retransmit_map
      BY DEF LinkState
    <3>2. read(e, l, p) = m
      BY <2>1, <2>4 DEF read_detect
    <3> HIDE DEF m
    <3>3. l.delivered = << >> /\ ~Iap1(l)
      BY <1>4, <2>4 DEF Early, Iap1
    <3> QED
      BY <3>1, <3>2, <3>3 DEF Early, Plain
  <2>5. CASE ~is_downgrade(l) /\ e # Host /\ l.status # "Detecting"
    BY <2>1, <2>5 DEF read_detect
  <2> QED
    BY <2>2, <2>3, <2>4, <2>5
<1>5. CASE ~is_error(l) /\ p.ctl = "LEGACY"
  <2>1. read(e, l, p) = read_legacy(e, l)
    BY <1>5 DEF read
  <2> DEFINE m == [l EXCEPT !.status = "Downgrade", !.legacy_rx = @ + 1]
  <2>2. m.status = "Downgrade" /\ m.delivered = l.delivered /\ m.retransmit_map = l.retransmit_map
    BY DEF LinkState
  <2>3. CASE is_downgrade(l) \/ (e = Host /\ can_downgrade(l))
    <3>1. l.delivered = << >>
      BY <2>3 DEF Early, is_downgrade, can_downgrade
    <3>2. read(e, l, p) = m
      BY <2>1, <2>3 DEF read_legacy
    <3> HIDE DEF m
    <3> QED
      BY <1>5, <2>2, <3>1, <3>2 DEF Early, Iap1, Plain, is_downgrade
  <2>4. CASE ~(is_downgrade(l) \/ (e = Host /\ can_downgrade(l)))
    <3>1. read(e, l, p) = enter_error_state(l, "RemoteAttemptedDowngrade")
      BY <2>1, <2>4 DEF read_legacy
    <3> QED
      BY <1>1, <1>2, <3>1 DEF Goes
  <2> QED
    BY <2>3, <2>4
<1>6. CASE ~is_error(l) /\ p.ctl \notin {"DETECT", "LEGACY"}
  <2>1. Goes(l, read_packet(e, l, p)) /\ read(e, l, p) = read_packet(e, l, p)
    BY <1>6, ReadPacketGoes DEF read
  <2> QED
    BY <2>1 DEF Goes
<1> QED
  BY <1>3, <1>4, <1>5, <1>6

\* Keeping a sent packet that is no iAP1 leaves all but what is kept.
LEMMA PreparedGoes ==
    ASSUME NEW l \in LinkState, NEW p \in Frame, p.ctl # "LEGACY"
    PROVE  LET m == prepare_ackable(take_own_seq(l), p)
           IN  /\ m \in LinkState /\ m.status = l.status /\ m.delivered = l.delivered
               /\ m.legacy_rx = l.legacy_rx
               /\ Plain(l) => Plain(m)
<1> PICK m : m = prepare_ackable(take_own_seq(l), p)
  OBVIOUS
<1>1. m \in LinkState
  BY AckableSendType
<1>2. /\ m.status = l.status /\ m.delivered = l.delivered /\ m.legacy_rx = l.legacy_rx
      /\ m.retransmit_map = [l.retransmit_map EXCEPT ![p.seq] = [p |-> p, retries |-> 0]]
  BY DEF LinkState, prepare_ackable, take_own_seq
<1>3. ASSUME NEW s \in SeqNum
      PROVE  m.retransmit_map[s].p \in {p, l.retransmit_map[s].p}
  BY <1>2 DEF LinkState
<1>4. Plain(l) => Plain(m)
  BY <1>3 DEF Plain
<1> QED
  BY <1>1, <1>2, <1>4

\* What is kept for retransmission changes alone.
LEMMA MapGoes ==
    ASSUME NEW l \in LinkState, NEW map \in [SeqNum -> Entry]
    PROVE  LET m == [l EXCEPT !.retransmit_map = map]
           IN  /\ m \in LinkState /\ m.status = l.status /\ m.delivered = l.delivered
               /\ m.legacy_rx = l.legacy_rx /\ m.retransmit_map = map
BY DEF LinkState

\* Sending an acknowledgement changes the pending one alone.
LEMMA PendingAckGoes ==
    ASSUME NEW l \in LinkState
    PROVE  LET m == reset_pending_ack(l)
           IN  /\ m.status = l.status /\ m.delivered = l.delivered
               /\ m.legacy_rx = l.legacy_rx /\ m.retransmit_map = l.retransmit_map
BY DEF LinkState, reset_pending_ack

\* A retransmission leaves all but its entry, or is an error.
LEMMA RetransmitGoes ==
    ASSUME TypeOK, ProtocolInv, NEW e \in Endpoint, NEW s \in SeqNum, Retransmit(e, s)
    PROVE  ProtocolInv'
<1> PICK l \in LinkState : l = link[e]
  BY DEF TypeOK
<1>0. Early(l) /\ Plain(l)
  BY DEF ProtocolInv
<1> PICK entry \in Entry : entry = l.retransmit_map[s]
  BY DEF LinkState
<1> PICK p : p = IF entry.p.ctl = "SYN" THEN entry.p ELSE [entry.p EXCEPT !.ack = l.peer_seq]
  OBVIOUS
<1> PICK new : new = [p |-> p, retries |-> entry.retries + 1]
  OBVIOUS
<1>1. retransmit_one(e, s)
  BY DEF Retransmit
<1>2. CASE entry.retries >= max_retransmissions[l.local_lsp]
  <2>1. "RetransmissionsExceeded" \in LinkError
    BY DEF LinkError
  <2>2. Goes(l, enter_error_state(l, "RetransmissionsExceeded"))
    BY <2>1, ErrorGoes
  <2>3. Quit(e, enter_error_state(l, "RetransmissionsExceeded"))
    BY <1>1, <1>2 DEF retransmit_one
  <2> QED
    BY <2>2, <2>3, QuitGoes
<1>3. CASE ~(entry.retries >= max_retransmissions[l.local_lsp])
  <2>1. entry.p.ctl = "SYN" \/ l.peer_seq # NoSeq
    BY <1>1, <1>3 DEF retransmit_one
  <2>2. p \in Frame /\ p.ctl = entry.p.ctl
    <3>1. entry.p \in Frame /\ (l.peer_seq # NoSeq => l.peer_seq \in SeqNum)
      BY DEF Entry, LinkState
    <3> QED
      BY <2>1, <3>1 DEF Frame
  <2>3. new \in Entry /\ p.ctl # "LEGACY"
    <3>1. entry.retries + 1 \in Nat
      BY DEF Entry
    <3> QED
      BY <1>0, <2>2, <3>1 DEF Entry, Plain
  <2> PICK m : m = [l EXCEPT !.retransmit_map[s] = new]
    OBVIOUS
  <2>4. [l.retransmit_map EXCEPT ![s] = new] \in [SeqNum -> Entry]
    BY <2>3 DEF LinkState
  <2>5. /\ m \in LinkState /\ m.status = l.status /\ m.delivered = l.delivered
        /\ m.legacy_rx = l.legacy_rx
        /\ m.retransmit_map = [l.retransmit_map EXCEPT ![s] = new]
    <3>1. m = [l EXCEPT !.retransmit_map = [l.retransmit_map EXCEPT ![s] = new]]
      OBVIOUS
    <3> QED
      BY ONLY <2>4, <3>1, l \in LinkState, MapGoes
  <2>6. \A t \in SeqNum : m.retransmit_map[t].p \in {p, l.retransmit_map[t].p}
    <3>1. new.p = p
      OBVIOUS
    <3>2. l.retransmit_map \in [SeqNum -> Entry]
      BY DEF LinkState
    <3> QED
      BY ONLY <2>5, <3>1, <3>2
  <2>7. Plain(m)
    BY <1>0, <2>3, <2>6 DEF Plain
  <2>8. Goes(l, m)
    <3>1. Early(l)
      BY <1>0
    <3> QED
      BY ONLY <2>5, <2>7, <3>1, AlikeGoes
  <2>9. Send(e, m, p)
    BY <1>1, <1>3 DEF retransmit_one
  <2> QED
    BY <2>3, <2>5, <2>8, <2>9, SendGoes
<1> QED
  BY <1>2, <1>3

\* A session packet is sent and kept, dropped without a known peer, or too long.
LEMMA PayloadGoes ==
    ASSUME TypeOK, ProtocolInv, NEW e \in Endpoint, TransmitPayload(e)
    PROVE  ProtocolInv'
<1> PICK l \in LinkState : l = link[e]
  BY DEF TypeOK
<1>0. Early(l) /\ HasPayload(l)
  BY DEF ProtocolInv, TransmitPayload
<1> PICK p : p = new_ack(l.own_seq, l.peer_seq, l.taken + 1, Head(l.csm))
  OBVIOUS
<1> PICK d : d = dequeue_tx(l)
  OBVIOUS
<1>1. /\ d \in LinkState /\ d.status = l.status /\ d.delivered = l.delivered
      /\ d.legacy_rx = l.legacy_rx /\ d.retransmit_map = l.retransmit_map
  <2>1. d \in LinkState
    BY <1>0, DequeueType
  <2> QED
    BY <2>1 DEF LinkState, dequeue_tx
<1>2. Goes(l, d)
  BY <1>0, <1>1, AlikeGoes
<1>3. CASE l.peer_seq = NoSeq
  <2>1. Quit(e, d)
    BY <1>3 DEF TransmitPayload
  <2> QED
    BY <1>2, <2>1, QuitGoes
<1>4. CASE l.peer_seq # NoSeq /\ p.len > max_len[l.peer_lsp]
  <2>1. Quit(e, enter_error_state(take_own_seq(d), "TransmitMaxLenViolation"))
    BY <1>4 DEF TransmitPayload
  <2>2. "TransmitMaxLenViolation" \in LinkError
    BY DEF LinkError
  <2>3. take_own_seq(d) \in LinkState
    BY <1>1, TakeOwnSeqType
  <2>4. LET m == take_own_seq(d)
        IN  /\ m.delivered = l.delivered /\ m.legacy_rx = l.legacy_rx
            /\ m.retransmit_map = l.retransmit_map
    BY <1>1 DEF take_own_seq, LinkState
  <2>5. Goes(l, enter_error_state(take_own_seq(d), "TransmitMaxLenViolation"))
    BY <2>2, <2>3, <2>4, ErrorGoes
  <2> QED
    BY <2>1, <2>5, QuitGoes
<1>5. CASE l.peer_seq # NoSeq /\ ~(p.len > max_len[l.peer_lsp])
  <2>1. p \in Frame /\ p.ctl # "LEGACY"
    <3>1. /\ l.own_seq \in SeqNum /\ l.peer_seq \in SeqNum
          /\ l.taken + 1 \in Nat /\ l.offer \in Lsp
      BY ONLY <1>5, l \in LinkState DEF LinkState
    <3>2. Head(l.csm) \in Nat
      BY <1>0, DequeueType
    <3>3. p \in Frame
      BY <3>1, <3>2, FrameTypes DEF Control
    <3> QED
      BY <3>3 DEF new_ack, Bare
  <2> PICK m : m = prepare_ackable(take_own_seq(d), p)
    OBVIOUS
  <2>2. /\ m \in LinkState /\ m.status = l.status /\ m.delivered = l.delivered
        /\ m.legacy_rx = l.legacy_rx
        /\ Plain(d) => Plain(m)
    BY <1>1, <2>1, PreparedGoes
  <2>3. Plain(l) => Plain(m)
    BY <1>1, <2>2 DEF Plain
  <2> PICK r : r = reset_pending_ack(m)
    OBVIOUS
  <2>4. /\ r \in LinkState /\ r.status = m.status /\ r.delivered = m.delivered
        /\ r.legacy_rx = m.legacy_rx /\ r.retransmit_map = m.retransmit_map
    <3>1. r \in LinkState
      BY <2>2, ResetPendingAckType
    <3>2. /\ r.status = m.status /\ r.delivered = m.delivered
          /\ r.legacy_rx = m.legacy_rx /\ r.retransmit_map = m.retransmit_map
      BY ONLY <2>2, r = reset_pending_ack(m), PendingAckGoes
    <3> QED
      BY <3>1, <3>2
  <2>5. Plain(l) => Plain(r)
    BY ONLY <2>3, <2>4 DEF Plain
  <2>6. Goes(l, r)
    BY <1>0, <2>2, <2>4, <2>5, AlikeGoes
  <2>7. Send(e, r, p)
    BY <1>5 DEF TransmitPayload
  <2> QED
    BY <2>1, <2>4, <2>6, <2>7, SendGoes
<1> QED
  BY <1>3, <1>4, <1>5

\* Reading or losing a frame keeps the protocols apart.
LEMMA DeliveryGoes ==
    ASSUME TypeOK, ProtocolInv, NEW e \in Endpoint, Read(e) \/ Lose(e)
    PROVE  ProtocolInv'
<1> PICK p : p = Head(chan[e])
  OBVIOUS
<1>1. chan[e] \in Seq(Frame) /\ chan[e] # << >> /\ link[e] \in LinkState /\ Early(link[e])
  BY DEF TypeOK, Read, Lose, ProtocolInv
<1>2. p \in Frame /\ 1 \in DOMAIN chan[e] /\ p = chan[e][1]
  BY <1>1
<1>3. ASSUME NEW f \in Endpoint, LegacyOn(chan'[f])
      PROVE  LegacyOn(chan[f])
  <2>1. chan'[f] = IF f = e THEN Tail(chan[f]) ELSE chan[f]
    BY DEF TypeOK, Read, Lose
  <2>2. PICK i \in DOMAIN chan'[f] : chan'[f][i].ctl = "LEGACY"
    BY <1>3 DEF LegacyOn
  <2>3. CASE f = e
    <3>1. i \in 1..(Len(chan[e]) - 1) /\ chan'[f][i] = chan[e][i + 1]
      BY <1>1, <2>1, <2>2, <2>3
    <3>2. i + 1 \in DOMAIN chan[e]
      BY <1>1, <3>1
    <3> QED
      BY <2>2, <2>3, <3>1, <3>2 DEF LegacyOn
  <2>4. CASE f # e
    BY <1>3, <2>1, <2>4
  <2> QED
    BY <2>3, <2>4
<1>4. CASE Lose(e)
  <2>1. link' = link
    BY <1>4 DEF Lose
  <2> QED
    BY <1>3, <2>1 DEF ProtocolInv
<1>5. CASE Read(e)
  <2> PICK r : r = read(e, link[e], p)
    OBVIOUS
  <2>1. /\ Early(r) /\ (Iap1(link[e]) => Iap1(r)) /\ Plain(r)
        /\ r.legacy_rx = link[e].legacy_rx \/ (p.ctl = "LEGACY" /\ Iap1(r))
    BY <1>1, <1>2, ReadGoes DEF ProtocolInv
  <2>2. link' = [link EXCEPT ![e] = r]
    BY <1>5 DEF Read, Update
  <2>3. p.ctl = "LEGACY" => LegacyOn(chan[e])
    BY <1>2 DEF LegacyOn
  <2> QED
    BY <1>3, <2>1, <2>2, <2>3, LinkGoes
<1> QED
  BY <1>4, <1>5

\* Frames are sent on links that go on as they are, or become negotiated ones.
LEMMA TransmitGoes ==
    ASSUME TypeOK, ProtocolInv, NEW e \in Endpoint, Transmit(e)
    PROVE  ProtocolInv'
<1> PICK l \in LinkState : l = link[e]
  BY DEF TypeOK
<1>0. Early(l)
  BY DEF ProtocolInv
<1>1. CASE TransmitLegacy(e)
  <2> DEFINE l1 == [l EXCEPT !.lingo = @ - 1]
  <2>1. l.lingo > 0 /\ l.lingo \in Nat
    BY <1>1 DEF TransmitLegacy, LinkState
  <2>2. l.lingo - 1 \in Nat
    BY <2>1
  <2>3. /\ l1 \in LinkState /\ l1.status = l.status /\ l1.delivered = l.delivered
        /\ l1.legacy_rx = l.legacy_rx /\ l1.retransmit_map = l.retransmit_map
    BY ONLY <2>2, l \in LinkState DEF LinkState
  <2>4. \/ Send(e, l1, Bare("LEGACY")) /\ is_downgrade(l)
        \/ Quit(e, enter_error_state(l1, "AttemptedDowngrade"))
    BY <1>1 DEF TransmitLegacy
  <2> HIDE DEF l1
  <2>5. Goes(l, l1)
    BY <1>0, <2>3, AlikeGoes
  <2>6. is_downgrade(l) => Iap1(l1)
    BY <1>0, <2>3 DEF Iap1, Early, is_downgrade
  <2>7. Goes(l, enter_error_state(l1, "AttemptedDowngrade"))
    <3>1. "AttemptedDowngrade" \in LinkError
      BY DEF LinkError
    <3> QED
      BY <2>3, <3>1, ErrorGoes
  <2>8. CASE Send(e, l1, Bare("LEGACY")) /\ is_downgrade(l)
    BY <2>3, <2>5, <2>6, <2>8, SendGoes
  <2>9. CASE Quit(e, enter_error_state(l1, "AttemptedDowngrade"))
    BY <2>7, <2>9, QuitGoes
  <2> QED
    BY <2>4, <2>8, <2>9
<1>2. CASE RefuseUpgrade(e)
  <2>1. dequeue_tx(l) \in LinkState
    BY <1>2, DequeueType DEF RefuseUpgrade
  <2>2. /\ dequeue_tx(l).delivered = l.delivered /\ dequeue_tx(l).legacy_rx = l.legacy_rx
        /\ dequeue_tx(l).retransmit_map = l.retransmit_map
    BY DEF LinkState, dequeue_tx
  <2>3. "AttemptedUpgrade" \in LinkError
    BY DEF LinkError
  <2>4. Goes(l, enter_error_state(dequeue_tx(l), "AttemptedUpgrade"))
    BY <2>1, <2>2, <2>3, ErrorGoes
  <2>5. Quit(e, enter_error_state(dequeue_tx(l), "AttemptedUpgrade"))
    BY <1>2 DEF RefuseUpgrade
  <2> QED
    BY <2>4, <2>5, QuitGoes
<1>3. CASE TransmitSynAck(e)
  <2> PICK p : p = new_syn_ack(l.own_seq, l.peer_seq, l.offer)
    OBVIOUS
  <2>0. p \in Frame /\ p.ctl # "LEGACY"
    <3>1. l.own_seq \in SeqNum /\ l.peer_seq \in SeqNum /\ l.offer \in Lsp
      BY <1>3 DEF TransmitSynAck, HasPendingTx, LinkState
    <3> QED
      BY <3>1, FrameTypes DEF new_syn_ack, Bare
  <2> PICK l1 : l1 = prepare_ackable(take_own_seq(l), p)
    OBVIOUS
  <2>1. /\ l1 \in LinkState /\ l1.status = l.status /\ l1.delivered = l.delivered
        /\ l1.legacy_rx = l.legacy_rx
        /\ Plain(l) => Plain(l1)
    BY <2>0, PreparedGoes
  <2> PICK m : m = [l1 EXCEPT !.phase = "Start", !.pending = FALSE]
    OBVIOUS
  <2>2. /\ m \in LinkState /\ m.status = l.status /\ m.delivered = l.delivered
        /\ m.legacy_rx = l.legacy_rx /\ m.retransmit_map = l1.retransmit_map
    <3>0. l1 \in LinkState
      BY <2>1
    <3>1. m \in LinkState
      BY ONLY <3>0, m = [l1 EXCEPT !.phase = "Start", !.pending = FALSE] DEF LinkState
    <3>2. /\ m.status = l1.status /\ m.delivered = l1.delivered
          /\ m.legacy_rx = l1.legacy_rx /\ m.retransmit_map = l1.retransmit_map
      BY ONLY <2>1, m = [l1 EXCEPT !.phase = "Start", !.pending = FALSE] DEF LinkState
    <3> QED
      BY <2>1, <3>1, <3>2
  <2>3. Plain(l) => Plain(m)
    BY <2>1, <2>2 DEF Plain
  <2>4. Goes(l, m)
    BY <1>0, <2>2, <2>3, AlikeGoes
  <2>5. Send(e, m, p)
    BY <1>3 DEF TransmitSynAck
  <2> QED
    BY <2>0, <2>2, <2>4, <2>5, SendGoes
<1>4. CASE TransmitFinalAck(e)
  <2> DEFINE m == [l EXCEPT !.phase = "Accepted", !.pending = FALSE, !.status = "Writable"]
  <2>1. l.status = "Negotiating" /\ Send(e, m, new_ack(SeqSub(l.own_seq, 1), l.peer_seq, NoMsg, 0))
    BY <1>4 DEF TransmitFinalAck
  <2>2. l.delivered = << >> /\ ~Iap1(l)
    <3>1. l.delivered = << >>
      BY <1>0, <2>1 DEF Early
    <3> QED
      BY <2>1, <3>1, EarlyStatuses DEF Iap1, is_downgrade, is_error
  <2>3. /\ m \in LinkState /\ m.delivered = l.delivered /\ m.legacy_rx = l.legacy_rx
        /\ m.retransmit_map = l.retransmit_map
    <3>1. "Writable" \in LinkStatus
      BY DEF LinkStatus, DataStatus
    <3> QED
      BY ONLY <3>1, l \in LinkState DEF LinkState
  <2>4. new_ack(SeqSub(l.own_seq, 1), l.peer_seq, NoMsg, 0).ctl # "LEGACY"
    BY DEF new_ack, Bare
  <2> HIDE DEF m
  <2>5. Goes(l, m)
    BY <2>2, <2>3 DEF Goes, Early, Plain
  <2> QED
    BY <2>1, <2>3, <2>4, <2>5, SendGoes
<1>5. ASSUME NEW s \in SeqNum, Retransmit(e, s)
      PROVE  ProtocolInv'
  BY <1>5, RetransmitGoes
<1>6. CASE TransmitPayload(e)
  BY <1>6, PayloadGoes
<1>7. CASE TransmitEmptyAck(e)
  <2>1. Send(e, reset_pending_ack(l), new_ack(SeqSub(l.own_seq, 1), l.peer_seq, NoMsg, 0))
    BY <1>7 DEF TransmitEmptyAck
  <2>2. new_ack(SeqSub(l.own_seq, 1), l.peer_seq, NoMsg, 0).ctl # "LEGACY"
    BY DEF new_ack, Bare
  <2>3. LET m == reset_pending_ack(l)
        IN  /\ m.status = l.status /\ m.delivered = l.delivered
            /\ m.legacy_rx = l.legacy_rx /\ m.retransmit_map = l.retransmit_map
    BY PendingAckGoes
  <2>4. Goes(l, reset_pending_ack(l))
    BY <1>0, <2>3, AlikeGoes
  <2>5. reset_pending_ack(l) \in LinkState
    BY ResetPendingAckType
  <2> QED
    BY <2>1, <2>2, <2>4, <2>5, SendGoes
<1> QED
  BY <1>1, <1>2, <1>3, <1>4, <1>5, <1>6, <1>7 DEF Transmit


\* Detection and the SYN: both ends still negotiate.
LEMMA BeginGoes ==
    ASSUME TypeOK, ProtocolInv, AcknowledgeDetect \/ TransmitDetect \/ TransmitSyn
    PROVE  ProtocolInv'
<1>0. Host \in Endpoint /\ Accessory \in Endpoint
  BY DEF Endpoint
<1>1. /\ link[Host] \in LinkState /\ link[Accessory] \in LinkState
      /\ Early(link[Host]) /\ Early(link[Accessory])
  BY <1>0 DEF TypeOK, ProtocolInv
<1>2. Bare("DETECT").ctl # "LEGACY"
  BY DEF Bare
<1>3. CASE AcknowledgeDetect
  <2> PICK l \in LinkState : l = link[Host]
    BY <1>1
  <2> PICK m : m = [l EXCEPT !.detect_ack = FALSE]
    OBVIOUS
  <2>1. /\ m \in LinkState /\ m.status = l.status /\ m.delivered = l.delivered
        /\ m.legacy_rx = l.legacy_rx /\ m.retransmit_map = l.retransmit_map
    BY FlagTypes
  <2>2. Goes(l, m)
    BY <1>1, <2>1, AlikeGoes
  <2>3. Send(Host, m, Bare("DETECT"))
    BY <1>3 DEF AcknowledgeDetect
  <2> QED
    BY <1>0, <1>2, <2>1, <2>2, <2>3, SendGoes
<1>4. CASE TransmitDetect
  <2> PICK l \in LinkState : l = link[Accessory]
    BY <1>1
  <2> PICK m : m = [l EXCEPT !.detect_transmitted = TRUE]
    OBVIOUS
  <2>1. /\ m \in LinkState /\ m.status = l.status /\ m.delivered = l.delivered
        /\ m.legacy_rx = l.legacy_rx /\ m.retransmit_map = l.retransmit_map
    BY FlagTypes
  <2>2. Goes(l, m)
    BY <1>1, <2>1, AlikeGoes
  <2>3. Send(Accessory, m, Bare("DETECT"))
    BY <1>4 DEF TransmitDetect
  <2> QED
    BY <1>0, <1>2, <2>1, <2>2, <2>3, SendGoes
<1>5. CASE TransmitSyn
  <2> PICK l \in LinkState : l = link[Accessory]
    BY <1>1
  <2> PICK p : p = new_syn(l.own_seq, l.offer)
    OBVIOUS
  <2>0. p \in Frame /\ p.ctl # "LEGACY"
    <3>1. l.own_seq \in SeqNum /\ l.offer \in Lsp
      BY DEF LinkState
    <3>2. p \in Frame
      BY <3>1, FrameTypes DEF Control
    <3> QED
      BY <3>2 DEF new_syn, Bare
  <2> PICK l1 : l1 = prepare_ackable(take_own_seq(l), p)
    OBVIOUS
  <2>1. /\ l1 \in LinkState /\ l1.status = l.status /\ l1.delivered = l.delivered
        /\ l1.legacy_rx = l.legacy_rx
        /\ Plain(l) => Plain(l1)
    BY <2>0, PreparedGoes
  <2> PICK m : m = [l1 EXCEPT !.syn_transmitted = TRUE]
    OBVIOUS
  <2>2. /\ m \in LinkState /\ m.status = l.status /\ m.delivered = l.delivered
        /\ m.legacy_rx = l.legacy_rx /\ m.retransmit_map = l1.retransmit_map
    <3>0. l1 \in LinkState
      BY <2>1
    <3>1. m \in LinkState
      BY ONLY <3>0, m = [l1 EXCEPT !.syn_transmitted = TRUE] DEF LinkState
    <3>2. /\ m.status = l1.status /\ m.delivered = l1.delivered
          /\ m.legacy_rx = l1.legacy_rx /\ m.retransmit_map = l1.retransmit_map
      BY ONLY <2>1, m = [l1 EXCEPT !.syn_transmitted = TRUE] DEF LinkState
    <3> QED
      BY <2>1, <3>1, <3>2
  <2>3. Plain(l) => Plain(m)
    BY <2>1, <2>2 DEF Plain
  <2>4. Goes(l, m)
    BY <1>1, <2>2, <2>3, AlikeGoes
  <2>5. Send(Accessory, m, p)
    BY <1>5 DEF TransmitSyn
  <2> QED
    BY <1>0, <2>0, <2>2, <2>4, <2>5, SendGoes
<1> QED
  BY <1>3, <1>4, <1>5

\* What the owner schedules or closes; a downgrade comes before the data phase.
LEMMA OwnerGoes ==
    ASSUME TypeOK, ProtocolInv, NEW e \in Endpoint,
           Enqueue(e) \/ EnqueueLingo(e) \/ Close(e) \/ (e = Accessory /\ Downgrade)
    PROVE  ProtocolInv'
<1> PICK l \in LinkState : l = link[e]
  BY DEF TypeOK
<1>0. Early(l)
  BY DEF ProtocolInv
<1>1. CASE Enqueue(e)
  <2> PICK m : m = [l EXCEPT !.csm = Append(@, MsgLen[e][l.taken + Len(l.csm) + 1])]
    OBVIOUS
  <2>1. /\ m.status = l.status /\ m.delivered = l.delivered
        /\ m.legacy_rx = l.legacy_rx /\ m.retransmit_map = l.retransmit_map
    BY DEF LinkState
  <2>2. Goes(l, m)
    BY <1>0, <2>1, AlikeGoes
  <2>3. Quit(e, m)
    BY <1>1 DEF Enqueue
  <2> QED
    BY <2>2, <2>3, QuitGoes
<1>2. CASE EnqueueLingo(e)
  <2> PICK m : m = [l EXCEPT !.lingo = @ + 1, !.lingo_sent = @ + 1]
    OBVIOUS
  <2>1. /\ m.status = l.status /\ m.delivered = l.delivered
        /\ m.legacy_rx = l.legacy_rx /\ m.retransmit_map = l.retransmit_map
    BY DEF LinkState
  <2>2. Goes(l, m)
    BY <1>0, <2>1, AlikeGoes
  <2>3. Quit(e, m)
    BY <1>2 DEF EnqueueLingo
  <2> QED
    BY <2>2, <2>3, QuitGoes
<1>3. CASE Close(e)
  <2>1. Goes(l, enter_error_state(l, "Eof"))
    <3>1. "Eof" \in LinkError
      BY DEF LinkError
    <3> QED
      BY <3>1, ErrorGoes
  <2>2. Quit(e, enter_error_state(l, "Eof"))
    BY <1>3 DEF Close
  <2> QED
    BY <2>1, <2>2, QuitGoes
<1>4. CASE e = Accessory /\ Downgrade
  <2> PICK m : m = [l EXCEPT !.status = "Downgrade"]
    OBVIOUS
  <2>1. /\ m.status = "Downgrade" /\ m.delivered = l.delivered
        /\ m.legacy_rx = l.legacy_rx /\ m.retransmit_map = l.retransmit_map
    BY DEF LinkState
  <2>2. l.delivered = << >>
    BY <1>0, <1>4 DEF Downgrade, can_downgrade, Early
  <2>3. Goes(l, m)
    BY <2>1, <2>2 DEF Goes, Early, Iap1, Plain, is_downgrade
  <2>4. Quit(e, m)
    BY <1>4 DEF Downgrade
  <2> QED
    BY <2>3, <2>4, QuitGoes
<1> QED
  BY <1>1, <1>2, <1>3, <1>4

\* An EAK and a RST are no frames of iAP1.
LEMMA ExternalGoes ==
    ASSUME TypeOK, ProtocolInv, NEW e \in Endpoint, SendEak(e) \/ SendReset
    PROVE  ProtocolInv'
<1>1. PICK g \in Endpoint, q \in Frame : q.ctl # "LEGACY" /\ chan' = [chan EXCEPT ![g] = Append(@, q)]
  <2>1. CASE SendEak(e)
    <3> DEFINE eak == new_eak(link[e].own_seq, link[e].peer_seq, SeqAdd(link[e].peer_seq, 1))
    <3>1. eak.ctl # "LEGACY"
      BY DEF new_eak, Bare
    <3>2. Peer(e) \in Endpoint
      BY DEF Peer, Endpoint
    <3>3. chan' = [chan EXCEPT ![Peer(e)] = Append(@, eak)]
      BY <2>1 DEF SendEak
    <3>4. eak \in Frame
      BY <2>1, EakFrame
    <3> HIDE DEF eak
    <3> QED
      BY <3>1, <3>2, <3>3, <3>4
  <2>2. CASE SendReset
    <3>1. Accessory \in Endpoint /\ Bare("RST").ctl # "LEGACY"
      BY DEF Endpoint, Bare
    <3> QED
      BY <2>2, <3>1, ResetFrame DEF SendReset
  <2> QED
    BY <2>1, <2>2
<1>2. link' = link
  BY DEF SendEak, SendReset
<1>3. ASSUME NEW f \in Endpoint, LegacyOn(chan'[f])
      PROVE  LegacyOn(chan[f])
  <2>1. chan'[f] = IF f = g THEN Append(chan[f], q) ELSE chan[f]
    BY <1>1 DEF TypeOK
  <2>2. chan[f] \in Seq(Frame)
    BY DEF TypeOK
  <2>3. PICK i \in DOMAIN chan'[f] : chan'[f][i].ctl = "LEGACY"
    BY <1>3 DEF LegacyOn
  <2>4. (i \in DOMAIN chan[f] /\ chan'[f][i] = chan[f][i]) \/ chan'[f][i] = q
    BY <2>1, <2>2
  <2> QED
    BY <1>1, <2>3, <2>4 DEF LegacyOn
<1> QED
  BY <1>2, <1>3 DEF ProtocolInv

\* Every action keeps the protocols apart.
LEMMA NextGoes ==
    ASSUME TypeOK, ProtocolInv, [Next]_vars
    PROVE  ProtocolInv'
<1>0. Host \in Endpoint /\ Accessory \in Endpoint
  BY DEF Endpoint
<1>1. CASE AcknowledgeDetect \/ TransmitDetect \/ TransmitSyn
  BY <1>1, BeginGoes
<1>2. CASE Downgrade
  BY <1>0, <1>2, OwnerGoes
<1>3. CASE SendReset
  BY <1>0, <1>3, ExternalGoes
<1>4. ASSUME NEW e \in Endpoint, Transmit(e)
      PROVE  ProtocolInv'
  BY <1>4, TransmitGoes
<1>5. ASSUME NEW e \in Endpoint, Enqueue(e) \/ EnqueueLingo(e) \/ Close(e)
      PROVE  ProtocolInv'
  BY <1>5, OwnerGoes
<1>6. ASSUME NEW e \in Endpoint, Read(e) \/ Lose(e)
      PROVE  ProtocolInv'
  BY <1>6, DeliveryGoes
<1>7. ASSUME NEW e \in Endpoint, SendEak(e)
      PROVE  ProtocolInv'
  BY <1>7, ExternalGoes
<1>8. CASE UNCHANGED vars
  BY <1>8 DEF vars, ProtocolInv
<1> QED
  BY <1>1, <1>2, <1>3, <1>4, <1>5, <1>6, <1>7, <1>8 DEF Next

\* A fresh pair of links speaks no protocol yet.
LEMMA InitGoes == Init => ProtocolInv
<1> SUFFICES ASSUME Init PROVE ProtocolInv
  OBVIOUS
<1>1. ASSUME NEW e \in Endpoint
      PROVE  /\ Early(link[e]) /\ Plain(link[e])
             /\ link[e].legacy_rx = 0 /\ ~LegacyOn(chan[e])
  <2>1. link[e] = NewLink(e) /\ chan[e] = << >>
    BY DEF Init
  <2>2. link[e].legacy_rx = 0 /\ Early(link[e])
    BY <2>1 DEF NewLink, Early
  <2>3. \A s \in SeqNum : link[e].retransmit_map[s] = NoEntry
    BY <2>1 DEF NewLink
  <2>4. Plain(link[e])
    BY <2>3 DEF Plain, NoEntry, Bare
  <2>5. ~LegacyOn(chan[e])
    BY <2>1 DEF LegacyOn
  <2> QED
    BY <2>2, <2>4, <2>5
<1> QED
  BY <1>1 DEF ProtocolInv

\* One protocol per session, for every width, window, message sequence and
\* number of lost frames: no owner is handed an iAP1 payload in a session in
\* which one, itself or its peer, is handed a message of iAP2 (the Upgrade and
\* Downgrade errors of read() and next_transmit()).
THEOREM NeverBothProtocols == Spec => []OneProtocolPerSession
<1>1. Init => TypeOK /\ ProtocolInv
  BY InitType, InitGoes
<1>2. TypeOK /\ ProtocolInv /\ [Next]_vars => TypeOK' /\ ProtocolInv'
  BY NextType, NextGoes
<1>3. ProtocolInv => OneProtocolPerSession
  <2> SUFFICES ASSUME ProtocolInv, NEW e \in Endpoint, NEW f \in Endpoint,
                      link[e].legacy_rx > 0
               PROVE  link[f].delivered = << >>
    BY DEF OneProtocolPerSession
  <2>1. link[e].delivered = << >> /\ link[Peer(e)].delivered = << >>
    BY DEF ProtocolInv, Iap1
  <2>2. f = e \/ f = Peer(e)
    BY DEF Endpoint, Peer
  <2> QED
    BY <2>1, <2>2
<1> QED
  BY <1>1, <1>2, <1>3, PTL DEF Spec
-----------------------------------------------------------------------------
(* Ages: how far back of the next sequence number a number is.               *)

\* The distance of s from the number l sends next.
Age(l, s) == SeqSub(l.own_seq, s)

\* Half of the range.
LEMMA HalfRange == HALF \in Nat \ {0} /\ SeqMod = 2 * HALF
BY SeqModAssumption DEF HALF

\* Sums and differences of sequence numbers, without remainders.
LEMMA SeqCases ==
    ASSUME NEW a \in SeqNum, NEW b \in SeqNum
    PROVE  /\ SeqAdd(a, b) = IF a + b < SeqMod THEN a + b ELSE a + b - SeqMod
           /\ SeqSub(a, b) = IF b <= a THEN a - b ELSE a - b + SeqMod
           /\ SeqAdd(a, b) \in SeqNum /\ SeqSub(a, b) \in SeqNum
BY SeqModAssumption DEF SeqAdd, SeqSub, SeqNum

\* Differences of two numbers, from their ages.
LEMMA AgeCompare ==
    ASSUME NEW o \in SeqNum, NEW s \in SeqNum, NEW t \in SeqNum
    PROVE  /\ SeqSub(s, t) = IF SeqSub(o, s) <= SeqSub(o, t) THEN SeqSub(o, t) - SeqSub(o, s)
                             ELSE SeqSub(o, t) - SeqSub(o, s) + SeqMod
           /\ SeqSub(o, s) = SeqSub(o, t) => s = t
<1> DEFINE d == SeqSub(o, s)
           f == SeqSub(o, t)
<1>1. /\ SeqMod \in Nat /\ o \in 0..(SeqMod - 1) /\ s \in 0..(SeqMod - 1) /\ t \in 0..(SeqMod - 1)
      /\ d = IF s <= o THEN o - s ELSE o - s + SeqMod
      /\ f = IF t <= o THEN o - t ELSE o - t + SeqMod
      /\ SeqSub(s, t) = IF t <= s THEN s - t ELSE s - t + SeqMod
  BY SeqModAssumption, SeqCases DEF SeqNum
<1> HIDE DEF d, f
<1>2. SeqSub(s, t) = IF d <= f THEN f - d ELSE f - d + SeqMod
  BY ONLY <1>1
<1>3. d = f => s = t
  BY ONLY <1>1
<1> QED
  BY <1>2, <1>3 DEF d, f

\* A number is as old as its predecessor's age allows, and every age is some number's.
LEMMA AgeSteps ==
    ASSUME NEW o \in SeqNum, NEW s \in SeqNum, NEW n \in SeqNum
    PROVE  /\ n <= SeqSub(o, s) => SeqSub(o, SeqAdd(s, n)) = SeqSub(o, s) - n
           /\ SeqSub(o, SeqSub(o, n)) = n
           /\ SeqSub(o, o) = 0
<1> DEFINE d == SeqSub(o, s)
           t == SeqAdd(s, n)
           u == SeqSub(o, n)
<1>1. /\ SeqMod \in Nat /\ o \in 0..(SeqMod - 1) /\ s \in 0..(SeqMod - 1) /\ n \in 0..(SeqMod - 1)
      /\ d = IF s <= o THEN o - s ELSE o - s + SeqMod
      /\ t = IF s + n < SeqMod THEN s + n ELSE s + n - SeqMod
      /\ u = IF n <= o THEN o - n ELSE o - n + SeqMod
      /\ t \in SeqNum /\ u \in SeqNum
  BY SeqModAssumption, SeqCases DEF SeqNum
<1>2. /\ SeqSub(o, t) = IF t <= o THEN o - t ELSE o - t + SeqMod
      /\ SeqSub(o, u) = IF u <= o THEN o - u ELSE o - u + SeqMod
      /\ SeqSub(o, o) = IF o <= o THEN o - o ELSE o - o + SeqMod
  BY <1>1, SeqCases
<1> HIDE DEF d, t, u
<1>3. n <= d => SeqSub(o, t) = d - n
  BY ONLY <1>1, <1>2
<1>4. SeqSub(o, u) = n /\ SeqSub(o, o) = 0
  BY ONLY <1>1, <1>2
<1> QED
  BY <1>3, <1>4 DEF d, t, u

\* The number n after s is n younger.
LEMMA AgeBack ==
    ASSUME NEW o \in SeqNum, NEW s \in SeqNum, NEW n \in SeqNum, n <= SeqSub(o, s)
    PROVE  SeqSub(o, SeqAdd(s, n)) = SeqSub(o, s) - n
BY AgeSteps

\* When the next number is taken, every other number is one older.
LEMMA AgeNext ==
    ASSUME NEW o \in SeqNum, NEW s \in SeqNum
    PROVE  /\ SeqAdd(o, 1) \in SeqNum
           /\ SeqSub(SeqAdd(o, 1), s) = IF SeqSub(o, s) = SeqMod - 1 THEN 0 ELSE SeqSub(o, s) + 1
<1> DEFINE p == SeqAdd(o, 1)
           d == SeqSub(o, s)
<1>0. 1 \in SeqNum
  BY SeqModAssumption DEF SeqNum
<1>1. /\ SeqMod \in Nat /\ o \in 0..(SeqMod - 1) /\ s \in 0..(SeqMod - 1)
      /\ d = IF s <= o THEN o - s ELSE o - s + SeqMod
      /\ p = IF o + 1 < SeqMod THEN o + 1 ELSE o + 1 - SeqMod
      /\ p \in SeqNum
  BY <1>0, SeqModAssumption, SeqCases DEF SeqNum
<1>2. SeqSub(p, s) = IF s <= p THEN p - s ELSE p - s + SeqMod
  BY <1>1, SeqCases
<1> HIDE DEF p, d
<1>3. SeqSub(p, s) = IF d = SeqMod - 1 THEN 0 ELSE d + 1
  BY ONLY <1>1, <1>2
<1> QED
  BY <1>1, <1>3 DEF p, d

\* The comparison of read(): of two numbers whose ages are less than half the range
\* apart, the younger one is the greater.
LEMMA AgeOrder ==
    ASSUME NEW o \in SeqNum, NEW s \in SeqNum, NEW t \in SeqNum,
           SeqSub(o, s) < SeqSub(o, t) + HALF, SeqSub(o, t) < SeqSub(o, s) + HALF
    PROVE  SeqCmp(s, t) = IF SeqSub(o, s) = SeqSub(o, t) THEN "eq"
                          ELSE IF SeqSub(o, s) < SeqSub(o, t) THEN "gt" ELSE "lt"
<1> DEFINE d == SeqSub(o, s)
           f == SeqSub(o, t)
           g == SeqSub(s, t)
<1>1. /\ d \in Nat /\ f \in Nat /\ HALF \in Nat \ {0} /\ SeqMod = 2 * HALF
      /\ d < f + HALF /\ f < d + HALF
      /\ g = IF d <= f THEN f - d ELSE f - d + SeqMod
  BY HalfRange, SeqCases, AgeCompare DEF SeqNum
<1>2. SeqCmp(s, t) = IF g = 0 THEN "eq" ELSE IF g = HALF THEN "none" ELSE IF g < HALF THEN "gt" ELSE "lt"
  BY DEF SeqCmp
<1> HIDE DEF d, f, g
<1>3. SeqCmp(s, t) = IF d = f THEN "eq" ELSE IF d < f THEN "gt" ELSE "lt"
  BY ONLY <1>1, <1>2
<1> QED
  BY <1>3 DEF d, f
-----------------------------------------------------------------------------
(* The inductive invariant of the data phase.  A way is one direction of the   *)
(* link: l sends, r receives, c holds the frames on their way to r and d the   *)
(* acknowledgements on their way back.  Numbers are told apart by their ages   *)
(* with respect to l, so nothing below depends on where a number wraps.        *)

\* What the accessory offers, and the host takes.
Offer == StartLsp[Accessory]

\* Neither end counters the accessory's offer (SimpleLSPNegotiator::counter).
OfferAccepted == \A e \in Endpoint : has_control[Offer] /\ Offer \in Accepts[e]

\* The window and the repetitions of a SYN fit into half the range of the
\* sequence numbers (LSPPayload::clamp).
WindowsFit ==
    /\ max_outgoing[Offer] < HALF
    /\ max_retransmissions[Negotiating_Lsp] + 1 < HALF

\* The number before the first one, and what was acknowledged and received last.
Before(e) == SeqSub(StartSeq[e], 1)
Acked(e, l) == IF l.peer_ack = NoSeq THEN Before(e) ELSE l.peer_ack
Got(e, r) == IF r.peer_seq = NoSeq THEN Before(e) ELSE r.peer_seq

\* How many messages have a sequence number.
Taken(l) == IF l.phase = "Accepted" THEN l.taken ELSE 0

\* A frame e sent, or keeps: the message of an ackable ACK follows from its age.
FrameFrom(e, l, p) ==
    /\ p.ctl \in {"ACK", "EAK"} => l.phase = "Accepted"
    /\ p.ctl = "SYN" => e = Accessory /\ p.seq = StartSeq[e]
    /\ p.ctl = "SYNACK" => e = Host
    /\ p.ctl \in {"SYN", "SYNACK"} => p.lsp = Offer /\ Taken(l) < Age(l, p.seq)
    /\ p.ctl = "ACK" /\ p.msg # NoMsg =>
         Age(l, p.seq) <= Taken(l) /\ p.msg = Taken(l) + 1 - Age(l, p.seq)
    /\ is_ackable(p) =>
         /\ 1 <= Age(l, p.seq)
         /\ l.phase # "Accepted" => Age(l, p.seq) <= Age(l, StartSeq[e])

\* The receiver is ahead of the acknowledgements, and they are ahead of the window.
Bounds(e, l, r) ==
    /\ 1 <= Age(l, Got(e, r))
    /\ Age(l, Got(e, r)) <= Age(l, Acked(e, l))
    /\ Age(l, Acked(e, l)) <= HALF
    /\ Taken(l) > 0 => Age(l, Acked(e, l)) <= max_outgoing[Offer] + 1

\* No frame in flight is half the range behind the receiver, or behind a frame
\* before it.
Flight(e, l, r, c) ==
    /\ \A i \in DOMAIN c :
         /\ FrameFrom(e, l, c[i])
         /\ is_ackable(c[i]) => Age(l, c[i].seq) <= Age(l, Got(e, r)) + HALF - 2
    /\ \A i, j \in DOMAIN c :
         i < j /\ is_ackable(c[i]) /\ is_ackable(c[j]) =>
           Age(l, c[j].seq) <= Age(l, c[i].seq) + HALF - 2

\* The sender keeps exactly what is not acknowledged.
Kept(e, l) ==
    /\ \A s \in Held(l) :
         /\ l.retransmit_map[s].p.seq = s
         /\ is_ackable(l.retransmit_map[s].p)
         /\ FrameFrom(e, l, l.retransmit_map[s].p)
    /\ ~is_error(l) =>
         \A s \in SeqNum : s \in Held(l) <=> Age(l, s) \in 1..(Age(l, Acked(e, l)) - 1)

\* The out-of-order buffer holds messages that the receiver will come to.
Buffer(e, l, r, c) ==
    \A s \in SeqNum : r.out_of_order[s] # NoMsg =>
       /\ 1 <= Age(l, s) /\ Age(l, s) + 2 <= Age(l, Got(e, r)) /\ Age(l, s) <= Taken(l)
       /\ r.out_of_order[s] = Taken(l) + 1 - Age(l, s)
       /\ \A i \in DOMAIN c : is_ackable(c[i]) => Age(l, c[i].seq) <= Age(l, s) + HALF - 2

\* The owner was handed the messages up to the last number received, or that
\* number is one of the negotiation.
Owner(e, l, r) ==
    /\ r.delivered = [i \in 1..Len(r.delivered) |-> r.skipped + i]
    /\ \/ r.skipped + Len(r.delivered) = Taken(l) + 1 - Age(l, Got(e, r))
       \/ Age(l, Got(e, r)) - 1 > Taken(l) /\ r.skipped = 0 /\ r.delivered = << >>

\* Acknowledgements arrive in order, and none is ahead of the receiver.
Acks(e, l, r, d) ==
    /\ \A i \in DOMAIN d : is_any_ack(d[i]) =>
         /\ Age(l, Got(e, r)) <= Age(l, d[i].ack)
         /\ Age(l, d[i].ack) <= Age(l, Acked(e, l))
    /\ \A i, j \in DOMAIN d :
         i < j /\ is_any_ack(d[i]) /\ is_any_ack(d[j]) => Age(l, d[j].ack) <= Age(l, d[i].ack)

\* One direction of the link.
Way(e, l, r, c, d) ==
    /\ Bounds(e, l, r) /\ Flight(e, l, r, c) /\ Kept(e, l) /\ Buffer(e, l, r, c)
    /\ Owner(e, l, r) /\ Acks(e, l, r, d)

\* How many SYNs are on their way, and whether the accessory still repeats its own.
Syns(c) == Cardinality({i \in 1..Len(c) : c[i].ctl = "SYN"})
SynHeld(a) == a.retransmit_map[StartSeq[Accessory]].p.ctl = "SYN"

\* Messages are exchanged only once the offer is accepted.
Ends(l) ==
    /\ InData(l) => l.phase = "Accepted"
    /\ l.phase = "Accepted" => /\ InData(l) \/ is_error(l)
                               /\ l.local_lsp = Offer /\ l.peer_lsp = Offer
    /\ l.phase # "Accepted" =>
         /\ ~is_error(l) => l.taken = 0
         /\ l.skipped = 0 /\ l.delivered = << >>
         /\ \A s \in SeqNum : l.out_of_order[s] = NoMsg

\* The host takes the offer of the first SYN; until it is negotiated, its frames
\* acknowledge nothing but that SYN.
HostInv(h, ca) ==
    /\ h.phase \in {"Start", "Offering", "Accepted"}
    /\ h.peer_seq # NoSeq => h.offer = Offer /\ h.accepted_peer_lsp = {Offer}
    /\ h.phase = "Offering" => h.peer_seq # NoSeq
    /\ h.phase # "Accepted" =>
         /\ h.peer_seq \in {NoSeq, StartSeq[Accessory]}
         /\ \A i \in DOMAIN ca : is_any_ack(ca[i]) => ca[i].ack = StartSeq[Accessory]

\* The accessory has sent one number, its SYN, until it is negotiated, and it is
\* negotiated before the host.
AccessoryInv(a, h) ==
    /\ a.phase \in {"Start", "Accepting", "Accepted"}
    /\ a.offer = Offer
    /\ a.peer_seq # NoSeq => a.syn_transmitted
    /\ a.phase # "Start" => a.peer_seq # NoSeq /\ (~is_error(a) => ~SynHeld(a))
    /\ a.phase = "Accepting" => a.local_lsp = Offer /\ a.peer_lsp = Offer
    /\ a.phase = "Start" => a.local_lsp = Negotiating_Lsp
    /\ a.phase # "Accepted" =>
         /\ h.phase # "Accepted"
         /\ Age(a, StartSeq[Accessory]) = IF a.syn_transmitted THEN 1 ELSE 0

\* The host answers a SYN at most once, so the repetitions of the SYN bound how
\* many numbers the negotiation takes.
Repeats(a, h, ch) ==
    LET retries == a.retransmit_map[StartSeq[Accessory]].retries
    IN  /\ SynHeld(a) => retries <= max_retransmissions[Negotiating_Lsp]
        /\ h.phase # "Accepted" =>
             Age(h, StartSeq[Host]) + (IF h.phase = "Offering" THEN 1 ELSE 0) + Syns(ch)
               <= IF SynHeld(a) THEN 1 + retries
                  ELSE IF a.syn_transmitted THEN 1 + max_retransmissions[Negotiating_Lsp]
                  ELSE 0

\* The invariant.
OrderInv ==
    /\ \A e \in Endpoint :
         /\ Way(e, link[e], link[Peer(e)], chan[Peer(e)], chan[e])
         /\ Ends(link[e])
    /\ HostInv(link[Host], chan[Accessory])
    /\ AccessoryInv(link[Accessory], link[Host])
    /\ Repeats(link[Accessory], link[Host], chan[Host])
-----------------------------------------------------------------------------
(* One way of the link, step by step.                                        *)

\* What the numbers of a way are.
LEMMA AgeTypes ==
    ASSUME NEW e \in Endpoint, NEW l \in LinkState, NEW r \in LinkState
    PROVE  /\ \A s \in SeqNum : Age(l, s) \in Nat /\ Age(l, s) < SeqMod
           /\ StartSeq[e] \in SeqNum /\ Before(e) \in SeqNum
           /\ Acked(e, l) \in SeqNum /\ Got(e, r) \in SeqNum
           /\ l.own_seq \in SeqNum /\ Taken(l) \in Nat
<1>1. l.own_seq \in SeqNum /\ l.peer_ack \in SeqNum \cup {NoSeq} /\ l.taken \in Nat
      /\ r.peer_seq \in SeqNum \cup {NoSeq}
  BY DEF LinkState
<1>2. StartSeq[e] \in SeqNum /\ 1 \in SeqNum
  BY LinkAssumption, SeqModAssumption DEF SeqNum
<1>3. Before(e) \in SeqNum
  BY <1>2, SeqCases DEF Before
<1>4. \A s \in SeqNum : Age(l, s) \in Nat /\ Age(l, s) < SeqMod
  <2>1. ASSUME NEW s \in SeqNum
        PROVE  Age(l, s) \in SeqNum
    BY <1>1, SeqCases DEF Age
  <2> QED
    BY <2>1, SeqModAssumption DEF SeqNum
<1> QED
  BY <1>1, <1>2, <1>3, <1>4 DEF Acked, Got, Taken

\* The same sender, as far as its way is concerned; what is over, stays over.
SenderSame(l, l2) ==
    /\ l2.own_seq = l.own_seq /\ l2.peer_ack = l.peer_ack
    /\ l2.retransmit_map = l.retransmit_map
    /\ Taken(l2) = Taken(l)
    /\ l.phase = "Accepted" => l2.phase = "Accepted"
    /\ is_error(l) => is_error(l2)

\* The same receiver.
ReceiverSame(r, r2) ==
    /\ r2.peer_seq = r.peer_seq /\ r2.out_of_order = r.out_of_order
    /\ r2.delivered = r.delivered /\ r2.skipped = r.skipped

\* c2 is c, or c without its first frame.
Cut(c2, c) ==
    \E k \in {0, 1} : \A i \in DOMAIN c2 : /\ i \in Nat /\ i + k \in DOMAIN c
                                           /\ c2[i] = c[i + k]

\* A transport after a frame left it, and after a frame entered it.
LEMMA Transports ==
    ASSUME NEW c \in Seq(Frame)
    PROVE  /\ Cut(c, c)
           /\ \A i \in DOMAIN c : c[i] \in Frame /\ i \in Nat
           /\ c # << >> => /\ Head(c) = c[1] /\ 1 \in DOMAIN c
                           /\ Tail(c) \in Seq(Frame) /\ Cut(Tail(c), c)
                           /\ \A i \in DOMAIN Tail(c) : /\ i + 1 \in DOMAIN c /\ 1 < i + 1
                                                        /\ Tail(c)[i] = c[i + 1]
           /\ \A p \in Frame :
                /\ Append(c, p) \in Seq(Frame)
                /\ \A i \in DOMAIN Append(c, p) :
                      \/ i \in DOMAIN c /\ Append(c, p)[i] = c[i] /\ i < Len(c) + 1
                      \/ i = Len(c) + 1 /\ Append(c, p)[i] = p
<1>1. DOMAIN c = 1..Len(c) /\ Len(c) \in Nat
  BY LenProperties
<1>2. \A i \in DOMAIN c : c[i] \in Frame /\ i \in Nat
  BY <1>1, ElementOfSeq
<1>3. Cut(c, c)
  <2>1. \A i \in DOMAIN c : i \in Nat /\ i + 0 \in DOMAIN c /\ c[i] = c[i + 0]
    BY <1>1
  <2> QED
    BY <2>1 DEF Cut
<1>4. ASSUME c # << >>
      PROVE  /\ Head(c) = c[1] /\ 1 \in DOMAIN c
             /\ Tail(c) \in Seq(Frame) /\ Cut(Tail(c), c)
             /\ \A i \in DOMAIN Tail(c) : i + 1 \in DOMAIN c /\ 1 < i + 1 /\ Tail(c)[i] = c[i + 1]
  <2>1. /\ Head(c) = c[1] /\ 1 \in 1..Len(c)
        /\ Tail(c) \in Seq(Frame) /\ Shifted(Tail(c), c)
    BY <1>4, TailSeq
  <2>2. DOMAIN Tail(c) = 1..Len(Tail(c)) /\ Len(Tail(c)) \in Nat
    BY <2>1, LenProperties
  <2>3. \A i \in DOMAIN Tail(c) :
           i \in Nat /\ i + 1 \in DOMAIN c /\ 1 < i + 1 /\ Tail(c)[i] = c[i + 1]
    BY <1>1, <2>1, <2>2 DEF Shifted
  <2>4. Cut(Tail(c), c)
    BY <2>3 DEF Cut
  <2> QED
    BY <1>1, <2>1, <2>3, <2>4
<1>5. ASSUME NEW p \in Frame
      PROVE  /\ Append(c, p) \in Seq(Frame)
             /\ \A i \in DOMAIN Append(c, p) :
                   \/ i \in DOMAIN c /\ Append(c, p)[i] = c[i] /\ i < Len(c) + 1
                   \/ i = Len(c) + 1 /\ Append(c, p)[i] = p
  <2>1. Append(c, p) \in Seq(Frame) /\ Appended(Append(c, p), c, p)
    BY AppendSeq
  <2>2. DOMAIN Append(c, p) = 1..Len(Append(c, p))
    BY <2>1, LenProperties
  <2> QED
    BY <1>1, <2>1, <2>2 DEF Appended
<1> QED
  BY <1>2, <1>3, <1>4, <1>5

\* Lost frames, and changes that do not concern the way, leave it as it is.
LEMMA WayStays ==
    ASSUME NEW e \in Endpoint, NEW l, NEW r, NEW c, NEW d, NEW l2, NEW r2, NEW c2, NEW d2,
           Way(e, l, r, c, d), SenderSame(l, l2), ReceiverSame(r, r2), Cut(c2, c), Cut(d2, d)
    PROVE  Way(e, l2, r2, c2, d2)
<1>1. /\ \A s : Age(l2, s) = Age(l, s)
      /\ Acked(e, l2) = Acked(e, l) /\ Got(e, r2) = Got(e, r) /\ Held(l2) = Held(l)
      /\ Taken(l2) = Taken(l)
  BY DEF SenderSame, ReceiverSame, Age, Acked, Got, Held
<1>2. ASSUME NEW p, FrameFrom(e, l, p)
      PROVE  FrameFrom(e, l2, p)
  BY <1>1, <1>2 DEF FrameFrom, SenderSame
<1>3. Bounds(e, l2, r2)
  BY <1>1 DEF Way, Bounds
<1>4. Flight(e, l2, r2, c2)
  <2>1. PICK k \in {0, 1} : \A i \in DOMAIN c2 : i \in Nat /\ i + k \in DOMAIN c /\ c2[i] = c[i + k]
    BY DEF Cut
  <2>2. \A i \in DOMAIN c2, j \in DOMAIN c2 : i < j => i + k < j + k
    BY <2>1
  <2>3. Flight(e, l, r, c)
    BY DEF Way
  <2> QED
    BY <1>1, <1>2, <2>1, <2>2, <2>3 DEF Flight
<1>5. Kept(e, l2)
  BY <1>1, <1>2 DEF Way, Kept, SenderSame
<1>6. Buffer(e, l2, r2, c2)
  <2>1. Buffer(e, l, r, c) /\ r2.out_of_order = r.out_of_order
    BY DEF Way, ReceiverSame
  <2>2. \A i \in DOMAIN c2 : \E k \in DOMAIN c : c2[i] = c[k]
    BY DEF Cut
  <2> QED
    BY <1>1, <2>1, <2>2 DEF Buffer
<1>7. Owner(e, l2, r2)
  BY <1>1 DEF Way, Owner, ReceiverSame
<1>8. Acks(e, l2, r2, d2)
  <2>1. PICK k \in {0, 1} : \A i \in DOMAIN d2 : i \in Nat /\ i + k \in DOMAIN d /\ d2[i] = d[i + k]
    BY DEF Cut
  <2>2. \A i \in DOMAIN d2, j \in DOMAIN d2 : i < j => i + k < j + k
    BY <2>1
  <2>3. Acks(e, l, r, d)
    BY DEF Way
  <2> QED
    BY <1>1, <2>1, <2>2, <2>3 DEF Acks
<1> QED
  BY <1>3, <1>4, <1>5, <1>6, <1>7, <1>8 DEF Way

\* The sender puts a frame on its way.
LEMMA WaySends ==
    ASSUME WindowsFit, NEW e \in Endpoint, NEW l \in LinkState, NEW r \in LinkState,
           NEW c \in Seq(Frame), NEW d, NEW p \in Frame, Way(e, l, r, c, d),
           FrameFrom(e, l, p), is_ackable(p) => Age(l, p.seq) < HALF
    PROVE  Way(e, l, r, Append(c, p), d)
<1> DEFINE c2 == Append(c, p)
<1>1. /\ \A i \in DOMAIN c : c[i] \in Frame /\ i \in Nat
      /\ \A i \in DOMAIN c2 : \/ i \in DOMAIN c /\ c2[i] = c[i] /\ i < Len(c) + 1
                              \/ i = Len(c) + 1 /\ c2[i] = p
  BY Transports
<1>2. /\ \A s \in SeqNum : Age(l, s) \in Nat
      /\ Got(e, r) \in SeqNum /\ HALF \in Nat
      /\ \A q \in Frame : q.seq \in SeqNum
  BY AgeTypes, HalfRange, FrameFields
<1> HIDE DEF c2
<1>3. Flight(e, l, r, c) /\ 1 <= Age(l, Got(e, r)) /\ Buffer(e, l, r, c)
  BY DEF Way, Bounds
<1>4. \A i \in DOMAIN c : is_ackable(c[i]) => 1 <= Age(l, c[i].seq)
  BY <1>3 DEF Flight, FrameFrom
<1>5. \A i \in DOMAIN c2 :
         /\ FrameFrom(e, l, c2[i])
         /\ is_ackable(c2[i]) => Age(l, c2[i].seq) <= Age(l, Got(e, r)) + HALF - 2
  <2>1. is_ackable(p) => Age(l, p.seq) <= Age(l, Got(e, r)) + HALF - 2
    BY <1>2, <1>3
  <2> QED
    BY <1>1, <1>3, <2>1 DEF Flight
<1>6. ASSUME NEW i \in DOMAIN c2, NEW j \in DOMAIN c2, i < j, is_ackable(c2[i]), is_ackable(c2[j])
      PROVE  Age(l, c2[j].seq) <= Age(l, c2[i].seq) + HALF - 2
  <2>1. CASE j \in DOMAIN c /\ c2[j] = c[j]
    <3>1. i \in DOMAIN c /\ c2[i] = c[i]
      <4>1. j < Len(c) + 1 /\ j \in Nat /\ DOMAIN c = 1..Len(c) /\ Len(c) \in Nat
        BY <2>1, <1>1, LenProperties
      <4> QED
        BY <1>1, <1>6, <4>1
    <3> QED
      BY <1>3, <1>6, <2>1, <3>1 DEF Flight
  <2>2. CASE j = Len(c) + 1 /\ c2[j] = p
    <3>1. i \in DOMAIN c /\ c2[i] = c[i]
      BY <1>1, <1>6, <2>2
    <3>2. 1 <= Age(l, c[i].seq) /\ Age(l, c[i].seq) \in Nat
      BY <1>1, <1>2, <1>4, <1>6, <3>1
    <3>3. Age(l, p.seq) < HALF /\ Age(l, p.seq) \in Nat
      BY <1>2, <1>6, <2>2
    <3> QED
      BY <1>2, <2>2, <3>1, <3>2, <3>3
  <2> QED
    BY <1>1, <2>1, <2>2
<1>7. Flight(e, l, r, c2)
  BY <1>5, <1>6 DEF Flight
<1>8. Buffer(e, l, r, c2)
  <2>1. SUFFICES ASSUME NEW s \in SeqNum, r.out_of_order[s] # NoMsg,
                        NEW i \in DOMAIN c2, is_ackable(c2[i])
                 PROVE  Age(l, c2[i].seq) <= Age(l, s) + HALF - 2
    BY <1>3 DEF Buffer
  <2>2. CASE c2[i] = p
    <3>1. Age(l, p.seq) < HALF /\ 1 <= Age(l, s)
      BY <1>3, <2>1, <2>2 DEF Buffer
    <3> QED
      BY <1>2, <2>2, <3>1
  <2>3. CASE i \in DOMAIN c /\ c2[i] = c[i]
    BY <1>3, <2>1, <2>3 DEF Buffer
  <2> QED
    BY <1>1, <2>2, <2>3
<1> QED
  BY <1>7, <1>8 DEF Way, c2

\* The receiver acknowledges what it got last.
LEMMA WayAcknowledges ==
    ASSUME NEW e \in Endpoint, NEW l \in LinkState, NEW r \in LinkState,
           NEW c, NEW d \in Seq(Frame), NEW p \in Frame, Way(e, l, r, c, d),
           is_any_ack(p) => p.ack = Got(e, r)
    PROVE  Way(e, l, r, c, Append(d, p))
<1> DEFINE d2 == Append(d, p)
<1>1. /\ \A i \in DOMAIN d : i \in Nat /\ d[i] \in Frame
      /\ \A i \in DOMAIN d2 : \/ i \in DOMAIN d /\ d2[i] = d[i] /\ i < Len(d) + 1
                              \/ i = Len(d) + 1 /\ d2[i] = p
      /\ DOMAIN d = 1..Len(d) /\ Len(d) \in Nat
  BY Transports, LenProperties
<1>2. /\ \A s \in SeqNum : Age(l, s) \in Nat
      /\ Got(e, r) \in SeqNum /\ Acked(e, l) \in SeqNum
  BY AgeTypes
<1> HIDE DEF d2
<1>3. Acks(e, l, r, d) /\ Age(l, Got(e, r)) <= Age(l, Acked(e, l))
  BY DEF Way, Bounds
<1>4. \A i \in DOMAIN d2 : is_any_ack(d2[i]) =>
         /\ Age(l, Got(e, r)) <= Age(l, d2[i].ack)
         /\ Age(l, d2[i].ack) <= Age(l, Acked(e, l))
  BY <1>1, <1>2, <1>3 DEF Acks
<1>5. ASSUME NEW i \in DOMAIN d2, NEW j \in DOMAIN d2, i < j, is_any_ack(d2[i]), is_any_ack(d2[j])
      PROVE  Age(l, d2[j].ack) <= Age(l, d2[i].ack)
  <2>1. i \in DOMAIN d /\ d2[i] = d[i]
    BY <1>1, <1>5
  <2>2. CASE j \in DOMAIN d /\ d2[j] = d[j]
    BY <1>3, <1>5, <2>1, <2>2 DEF Acks
  <2>3. CASE d2[j] = p
    BY <1>3, <1>5, <2>1, <2>3 DEF Acks
  <2> QED
    BY <1>1, <2>2, <2>3
<1>6. Acks(e, l, r, d2)
  BY <1>4, <1>5 DEF Acks
<1> QED
  BY <1>6 DEF Way, d2

\* The sender takes the next number, for the frame p it keeps, or to fail.
LEMMA WayAdvances ==
    ASSUME WindowsFit, NEW e \in Endpoint, NEW l \in LinkState, NEW r \in LinkState,
           NEW c \in Seq(Frame), NEW d \in Seq(Frame), NEW l2 \in LinkState, NEW p \in Frame,
           Way(e, l, r, c, d), ~is_error(l),
           l2.own_seq = SeqAdd(l.own_seq, 1), l2.peer_ack = l.peer_ack,
           l2.phase = "Accepted" <=> l.phase = "Accepted",
           l.phase = "Accepted" => l2.taken = l.taken + 1,
           l.phase # "Accepted" => Age(l, StartSeq[e]) < HALF,
           Age(l, Acked(e, l)) < HALF,
           l.phase = "Accepted" => Age(l, Acked(e, l)) <= max_outgoing[Offer],
           \/ is_error(l2) /\ l2.retransmit_map = l.retransmit_map
           \/ /\ l2.retransmit_map = [l.retransmit_map EXCEPT ![l.own_seq] = [p |-> p, retries |-> 0]]
              /\ p.seq = l.own_seq /\ is_ackable(p) /\ FrameFrom(e, l2, p)
    PROVE  Way(e, l2, r, c, d)
<1> DEFINE G == Age(l, Got(e, r))
           P == Age(l, Acked(e, l))
           T == Taken(l)
           T2 == Taken(l2)
<1>1. /\ \A s \in SeqNum : Age(l, s) \in Nat /\ Age(l, s) < SeqMod
      /\ \A s \in SeqNum : Age(l2, s) \in Nat /\ Age(l2, s) < SeqMod
      /\ Got(e, r) \in SeqNum /\ Acked(e, l) \in SeqNum /\ StartSeq[e] \in SeqNum
      /\ G \in Nat /\ P \in Nat /\ T \in Nat /\ T2 \in Nat
      /\ \A q \in Frame : q.seq \in SeqNum /\ q.ack \in SeqNum
  BY AgeTypes, FrameFields
<1>2. \A s \in SeqNum : Age(l2, s) = IF Age(l, s) = SeqMod - 1 THEN 0 ELSE Age(l, s) + 1
  <2>1. l.own_seq \in SeqNum /\ l2.own_seq = SeqAdd(l.own_seq, 1)
    BY DEF LinkState
  <2> QED
    BY ONLY <2>1, AgeNext DEF Age
<1>3. HALF \in Nat \ {0} /\ HALF >= 2 /\ SeqMod = 2 * HALF
  <2>1. max_retransmissions[Negotiating_Lsp] \in Nat
    BY LspAssumption
  <2> QED
    BY <2>1, HalfRange DEF WindowsFit
<1>4. Acked(e, l2) = Acked(e, l)
  BY DEF Acked
<1>5. /\ l.phase = "Accepted" => T2 = T + 1
      /\ l.phase # "Accepted" => T2 = 0 /\ T = 0
  BY DEF Taken
<1>6. 1 <= G /\ G <= P /\ P < HALF /\ (l.phase = "Accepted" => P <= max_outgoing[Offer])
  BY DEF Way, Bounds
<1>0. G \in Nat /\ P \in Nat /\ T \in Nat /\ T2 \in Nat
  BY <1>1
<1>7. Age(l2, Got(e, r)) = G + 1 /\ Age(l2, Acked(e, l2)) = P + 1
  <2>1. G # SeqMod - 1 /\ P # SeqMod - 1
    BY ONLY <1>1, <1>3, <1>6
  <2> QED
    BY ONLY <1>1, <1>2, <1>4, <2>1
<1> HIDE DEF G, P, T, T2
<1>8. Bounds(e, l2, r)
  <2>1. max_outgoing[Offer] \in Nat
    BY LspAssumption DEF Offer, Endpoint
  <2>2. /\ 1 <= G + 1 /\ G + 1 <= P + 1 /\ P + 1 <= HALF
        /\ T2 > 0 => P + 1 <= max_outgoing[Offer] + 1
    <3>1. 1 <= G + 1 /\ G + 1 <= P + 1 /\ P + 1 <= HALF
      BY ONLY <1>0, <1>3, <1>6
    <3>2. T2 > 0 => P <= max_outgoing[Offer]
      BY ONLY <1>0, <1>5, <1>6
    <3>3. T2 > 0 => P + 1 <= max_outgoing[Offer] + 1
      BY ONLY <1>0, <2>1, <3>2
    <3> QED
      BY <3>1, <3>3
  <2> QED
    BY <1>7, <2>2 DEF Bounds, T2
<1>9. ASSUME NEW q \in Frame, FrameFrom(e, l, q), is_ackable(q) => Age(l, q.seq) < SeqMod - 1
      PROVE  FrameFrom(e, l2, q) /\ (is_ackable(q) => Age(l2, q.seq) = Age(l, q.seq) + 1)
  <2>1. is_ackable(q) => Age(l2, q.seq) = Age(l, q.seq) + 1 /\ Age(l, q.seq) \in Nat
    BY <1>1, <1>2, <1>9
  <2>2. l.phase # "Accepted" => Age(l2, StartSeq[e]) = Age(l, StartSeq[e]) + 1
                                /\ Age(l, StartSeq[e]) \in Nat
    BY <1>1, <1>2, <1>3
  <2>3. (q.ctl \in {"SYN", "SYNACK"} \/ (q.ctl = "ACK" /\ q.msg # NoMsg)) <=> is_ackable(q)
    BY DEF is_ackable
  <2>4. q.ctl \in {"SYN", "SYNACK"} => q.lsp = Offer /\ T2 < Age(l2, q.seq)
    BY <1>1, <1>5, <1>9, <2>1, <2>3 DEF FrameFrom, T
  <2>5. q.ctl = "ACK" /\ q.msg # NoMsg =>
          l.phase = "Accepted" /\ Age(l2, q.seq) <= T2 /\ q.msg = T2 + 1 - Age(l2, q.seq)
    <3>1. q.ctl = "ACK" /\ q.msg # NoMsg =>
            l.phase = "Accepted" /\ Age(l, q.seq) <= T /\ q.msg = T + 1 - Age(l, q.seq)
      BY <1>9 DEF FrameFrom, T
    <3> QED
      <4>1. T \in Nat /\ T2 \in Nat
        BY <1>1
      <4> QED
        BY ONLY <1>5, <2>1, <2>3, <3>1, <4>1
  <2>6. is_ackable(q) =>
          /\ 1 <= Age(l2, q.seq)
          /\ l2.phase # "Accepted" => Age(l2, q.seq) <= Age(l2, StartSeq[e])
    BY <1>9, <2>1, <2>2 DEF FrameFrom
  <2>7. /\ q.ctl \in {"ACK", "EAK"} => l2.phase = "Accepted"
        /\ q.ctl = "SYN" => e = Accessory /\ q.seq = StartSeq[e]
        /\ q.ctl = "SYNACK" => e = Host
    BY <1>9 DEF FrameFrom
  <2> QED
    BY <2>1, <2>4, <2>5, <2>6, <2>7 DEF FrameFrom, T2
<1>10. Flight(e, l2, r, c)
  <2>1. Flight(e, l, r, c) /\ \A i \in DOMAIN c : c[i] \in Frame
    BY Transports DEF Way
  <2>2. \A i \in DOMAIN c : is_ackable(c[i]) => Age(l, c[i].seq) < SeqMod - 1
    <3>1. ASSUME NEW i \in DOMAIN c, is_ackable(c[i])
          PROVE  Age(l, c[i].seq) < SeqMod - 1
      <4> DEFINE b == Age(l, c[i].seq)
      <4>1. b \in Nat /\ b <= G + HALF - 2
        BY <1>1, <2>1, <3>1 DEF Flight, G
      <4> HIDE DEF b
      <4>2. b < SeqMod - 1
        BY ONLY <1>0, <1>3, <1>6, <4>1
      <4> QED
        BY <4>2 DEF b
    <3> QED
      BY <3>1
  <2>3. \A i \in DOMAIN c :
           /\ FrameFrom(e, l2, c[i])
           /\ is_ackable(c[i]) => /\ Age(l2, c[i].seq) = Age(l, c[i].seq) + 1
                                  /\ Age(l, c[i].seq) \in Nat
    BY <1>1, <1>9, <2>1, <2>2 DEF Flight
  <2>4. \A i \in DOMAIN c :
           is_ackable(c[i]) => Age(l2, c[i].seq) <= Age(l2, Got(e, r)) + HALF - 2
    BY <1>1, <1>3, <1>7, <2>1, <2>3 DEF Flight, G
  <2>5. \A i, j \in DOMAIN c :
          i < j /\ is_ackable(c[i]) /\ is_ackable(c[j]) =>
            Age(l2, c[j].seq) <= Age(l2, c[i].seq) + HALF - 2
    BY <1>3, <2>1, <2>3 DEF Flight
  <2> QED
    BY <2>3, <2>4, <2>5 DEF Flight
<1>11. Kept(e, l2)
  <2>1. /\ \A s \in Held(l) : /\ l.retransmit_map[s].p.seq = s
                              /\ is_ackable(l.retransmit_map[s].p)
                              /\ FrameFrom(e, l, l.retransmit_map[s].p)
                              /\ l.retransmit_map[s].p \in Frame
        /\ \A s \in SeqNum : s \in Held(l) <=> 1 <= Age(l, s) /\ Age(l, s) < P
    <3>1. \A s \in SeqNum : l.retransmit_map[s].p \in Frame
      BY DEF LinkState, Entry
    <3>2. \A s \in SeqNum : s \in Held(l) <=> 1 <= Age(l, s) /\ Age(l, s) < P
      <4>1. \A s \in SeqNum : s \in Held(l) <=> Age(l, s) \in 1..(P - 1)
        BY DEF Way, Kept, P
      <4> QED
        BY ONLY <1>1, <4>1
    <3>3. Held(l) \subseteq SeqNum
      BY DEF Held
    <3> QED
      BY <3>1, <3>2, <3>3 DEF Way, Kept
  <2>2. \A s \in Held(l) : FrameFrom(e, l2, l.retransmit_map[s].p)
    <3>1. ASSUME NEW s \in Held(l)
          PROVE  Age(l, s) < SeqMod - 1
      BY <1>1, <1>3, <1>6, <2>1 DEF Held
    <3> QED
      BY <1>9, <2>1, <3>1
  <2>3. CASE is_error(l2) /\ l2.retransmit_map = l.retransmit_map
    <3>1. Held(l2) = Held(l)
      BY <2>3 DEF Held
    <3> QED
      BY <2>1, <2>2, <2>3, <3>1 DEF Kept
  <2>4. CASE /\ l2.retransmit_map = [l.retransmit_map EXCEPT ![l.own_seq] = [p |-> p, retries |-> 0]]
             /\ p.seq = l.own_seq /\ is_ackable(p) /\ FrameFrom(e, l2, p)
    <3>1. l.own_seq \in SeqNum /\ l.retransmit_map \in [SeqNum -> Entry]
      BY DEF LinkState
    <3>2. [p |-> p, retries |-> 0] # NoEntry
      BY <2>4 DEF NoEntry, Bare, is_ackable
    <3>3. /\ l2.retransmit_map[l.own_seq] = [p |-> p, retries |-> 0]
          /\ \A s \in SeqNum \ {l.own_seq} : l2.retransmit_map[s] = l.retransmit_map[s]
      BY <2>4, <3>1
    <3>4. Held(l2) = Held(l) \cup {l.own_seq}
      BY <3>1, <3>2, <3>3 DEF Held
    <3>5. \A s \in Held(l2) : /\ l2.retransmit_map[s].p.seq = s
                              /\ is_ackable(l2.retransmit_map[s].p)
                              /\ FrameFrom(e, l2, l2.retransmit_map[s].p)
      <4>1. ASSUME NEW s \in Held(l2)
            PROVE  /\ l2.retransmit_map[s].p.seq = s
                   /\ is_ackable(l2.retransmit_map[s].p)
                   /\ FrameFrom(e, l2, l2.retransmit_map[s].p)
        <5>1. CASE s = l.own_seq
          BY <2>4, <3>3, <5>1
        <5>2. CASE s # l.own_seq
          <6>1. s \in Held(l) /\ l2.retransmit_map[s] = l.retransmit_map[s]
            BY <3>3, <3>4, <5>2 DEF Held
          <6> QED
            BY <2>1, <2>2, <6>1
        <5> QED
          BY <5>1, <5>2
      <4> QED
        BY <4>1
    <3>6. Age(l, l.own_seq) = 0 /\ \A s \in SeqNum : Age(l, s) = 0 => s = l.own_seq
      BY <3>1, AgeSteps, AgeCompare DEF Age
    <3>7. \A s \in SeqNum : s \in Held(l2) <=> Age(l2, s) \in 1..((P + 1) - 1)
      <4>1. ASSUME NEW s \in SeqNum
            PROVE  s \in Held(l2) <=> Age(l2, s) \in 1..((P + 1) - 1)
        <5>1. s \in Held(l2) <=> s = l.own_seq \/ (1 <= Age(l, s) /\ Age(l, s) < P)
          BY <2>1, <3>4
        <5>2. s = l.own_seq <=> Age(l, s) = 0
          BY <3>6
        <5>3. Age(l2, s) \in 1..((P + 1) - 1) <=> Age(l, s) < P
          <6> DEFINE x == Age(l, s)
                     y == Age(l2, s)
          <6>1. x \in Nat /\ y = IF x = SeqMod - 1 THEN 0 ELSE x + 1
            BY <1>1, <1>2, <4>1
          <6> HIDE DEF x, y
          <6>2. y \in 1..((P + 1) - 1) <=> x < P
            BY ONLY <1>0, <1>3, <1>6, <6>1
          <6> QED
            BY <6>2 DEF x, y
        <5> QED
          BY <1>1, <1>6, <5>1, <5>2, <5>3
      <4> QED
        BY <4>1
    <3> QED
      BY <1>7, <3>5, <3>7 DEF Kept
  <2> QED
    BY <2>3, <2>4
<1>12. Buffer(e, l2, r, c)
  <2>1. SUFFICES ASSUME NEW s \in SeqNum, r.out_of_order[s] # NoMsg
                 PROVE  /\ 1 <= Age(l2, s) /\ Age(l2, s) + 2 <= G + 1 /\ Age(l2, s) <= T2
                        /\ r.out_of_order[s] = T2 + 1 - Age(l2, s)
                        /\ \A i \in DOMAIN c : is_ackable(c[i]) =>
                             Age(l2, c[i].seq) <= Age(l2, s) + HALF - 2
    BY <1>7 DEF Buffer, T2
  <2>2. /\ 1 <= Age(l, s) /\ Age(l, s) + 2 <= G /\ Age(l, s) <= T
        /\ r.out_of_order[s] = T + 1 - Age(l, s)
    BY <2>1 DEF Way, Buffer, G, T
  <2>6. \A i \in DOMAIN c : is_ackable(c[i]) => Age(l, c[i].seq) <= Age(l, s) + HALF - 2
    BY <2>1 DEF Way, Buffer
  <2>7. Age(l, s) \in Nat /\ Age(l, s) # SeqMod - 1 /\ Age(l, s) < HALF
    <3>1. Age(l, s) \in Nat
      BY <1>1, <2>1
    <3> QED
      BY ONLY <1>0, <1>3, <1>6, <2>2, <3>1
  <2>3. Age(l2, s) = Age(l, s) + 1
    BY ONLY <1>2, <2>1, <2>7
  <2>4. l.phase = "Accepted"
    BY ONLY <1>0, <1>5, <2>2, <2>7
  <2>5. \A i \in DOMAIN c : is_ackable(c[i]) =>
          /\ Age(l2, c[i].seq) = Age(l, c[i].seq) + 1
          /\ Age(l, c[i].seq) \in Nat
    <3>1. \A i \in DOMAIN c : c[i].seq \in SeqNum
      BY <1>1, Transports
    <3>2. \A i \in DOMAIN c : is_ackable(c[i]) => Age(l, c[i].seq) < SeqMod - 1
      <4>1. \A i \in DOMAIN c : Age(l, c[i].seq) \in Nat
        BY <1>1, <3>1
      <4> QED
        BY ONLY <1>3, <2>6, <2>7, <4>1
    <3> QED
      BY ONLY <1>1, <1>2, <3>1, <3>2
  <2>8. /\ 1 <= Age(l2, s) /\ Age(l2, s) + 2 <= G + 1 /\ Age(l2, s) <= T2
        /\ r.out_of_order[s] = T2 + 1 - Age(l2, s)
    BY ONLY <1>0, <1>5, <2>2, <2>3, <2>4, <2>7
  <2>9. \A i \in DOMAIN c : is_ackable(c[i]) => Age(l2, c[i].seq) <= Age(l2, s) + HALF - 2
    BY ONLY <1>3, <2>3, <2>5, <2>6, <2>7
  <2> QED
    BY <2>8, <2>9
<1>13. Owner(e, l2, r)
  <2>1. /\ r.delivered = [i \in 1..Len(r.delivered) |-> r.skipped + i]
        /\ \/ r.skipped + Len(r.delivered) = T + 1 - G
           \/ G - 1 > T /\ r.skipped = 0 /\ r.delivered = << >>
    BY DEF Way, Owner, G, T
  <2>2. r.skipped \in Nat /\ r.delivered \in Seq(Nat) /\ Len(r.delivered) \in Nat
    BY LenProperties DEF LinkState
  <2>3. \/ r.skipped + Len(r.delivered) = T2 + 1 - (G + 1)
        \/ (G + 1) - 1 > T2 /\ r.skipped = 0 /\ r.delivered = << >>
    <3>1. CASE l.phase = "Accepted"
      BY <1>1, <1>5, <2>1, <2>2, <3>1
    <3>2. CASE l.phase # "Accepted" /\ r.skipped + Len(r.delivered) = T + 1 - G
      <4>1. r.skipped = 0 /\ Len(r.delivered) = 0 /\ T2 = 0
        BY <1>1, <1>5, <1>6, <2>2, <3>2
      <4>2. r.delivered = << >>
        BY <2>2, <4>1, EmptySeq
      <4> QED
        BY <1>1, <1>6, <4>1, <4>2
    <3>3. CASE l.phase # "Accepted" /\ G - 1 > T /\ r.skipped = 0 /\ r.delivered = << >>
      BY <1>1, <1>5, <3>3
    <3> QED
      BY <2>1, <3>1, <3>2, <3>3
  <2> QED
    BY <1>7, <2>1, <2>3 DEF Owner, T2
<1>14. Acks(e, l2, r, d)
  <2>1. Acks(e, l, r, d) /\ \A i \in DOMAIN d : d[i] \in Frame
    BY Transports DEF Way
  <2>2. \A i \in DOMAIN d : is_any_ack(d[i]) =>
          /\ Age(l, d[i].ack) \in Nat /\ Age(l2, d[i].ack) = Age(l, d[i].ack) + 1
          /\ G <= Age(l, d[i].ack) /\ Age(l, d[i].ack) <= P
    <3>1. \A i \in DOMAIN d : is_any_ack(d[i]) =>
            /\ G <= Age(l, d[i].ack) /\ Age(l, d[i].ack) <= P
            /\ d[i].ack \in SeqNum
      BY <1>1, <2>1 DEF Acks, G, P
    <3> QED
      BY <1>1, <1>2, <1>3, <1>6, <3>1
  <2>3. \A i \in DOMAIN d : is_any_ack(d[i]) =>
          /\ Age(l2, Got(e, r)) <= Age(l2, d[i].ack)
          /\ Age(l2, d[i].ack) <= Age(l2, Acked(e, l2))
    BY <1>1, <1>7, <2>2
  <2>4. \A i, j \in DOMAIN d :
          i < j /\ is_any_ack(d[i]) /\ is_any_ack(d[j]) => Age(l2, d[j].ack) <= Age(l2, d[i].ack)
    BY <2>1, <2>2 DEF Acks
  <2> QED
    BY <2>3, <2>4 DEF Acks
<1> QED
  BY <1>8, <1>10, <1>11, <1>12, <1>13, <1>14 DEF Way

\* Packet q is filed under number s, after n repetitions.
Filed(m, s, q, n) == [m EXCEPT ![s] = [p |-> q, retries |-> n]]

\* The sender repeats a frame it keeps, with a new acknowledgement.
LEMMA WayRepeats ==
    ASSUME NEW e \in Endpoint, NEW l \in LinkState, NEW r \in LinkState,
           NEW c, NEW d, NEW l2, NEW s \in Held(l), NEW q \in Frame, NEW n \in Nat,
           Way(e, l, r, c, d), ~is_error(l),
           q.ctl = l.retransmit_map[s].p.ctl, q.seq = l.retransmit_map[s].p.seq,
           q.msg = l.retransmit_map[s].p.msg, q.lsp = l.retransmit_map[s].p.lsp,
           l2.own_seq = l.own_seq, l2.peer_ack = l.peer_ack,
           l2.phase = l.phase, l2.taken = l.taken,
           l2.retransmit_map = Filed(l.retransmit_map, s, q, n)
    PROVE  /\ Way(e, l2, r, c, d)
           /\ FrameFrom(e, l2, q) /\ is_ackable(q) /\ Age(l2, q.seq) < HALF
<1>1. /\ \A t : Age(l2, t) = Age(l, t)
      /\ Acked(e, l2) = Acked(e, l) /\ Taken(l2) = Taken(l)
  BY DEF Age, Acked, Taken
<1>2. /\ \A t : Age(l, t) = Age(l, t)
      /\ \A p : FrameFrom(e, l, p) => FrameFrom(e, l2, p)
  BY <1>1 DEF FrameFrom
<1>3. s \in SeqNum /\ l.retransmit_map \in [SeqNum -> Entry]
  BY DEF Held, LinkState
<1>4. /\ l.retransmit_map[s].p.seq = s
      /\ is_ackable(l.retransmit_map[s].p)
      /\ FrameFrom(e, l, l.retransmit_map[s].p)
  BY DEF Way, Kept
<1>5. FrameFrom(e, l, q) /\ is_ackable(q) /\ q.seq = s
  BY <1>4 DEF FrameFrom, is_ackable
<1>6. [p |-> q, retries |-> n] # NoEntry
  BY <1>5 DEF NoEntry, Bare, is_ackable
<1>7. /\ l2.retransmit_map[s] = [p |-> q, retries |-> n]
      /\ \A t \in SeqNum \ {s} : l2.retransmit_map[t] = l.retransmit_map[t]
      /\ Held(l2) = Held(l)
  <2>1. /\ l2.retransmit_map[s] = [p |-> q, retries |-> n]
        /\ \A t \in SeqNum \ {s} : l2.retransmit_map[t] = l.retransmit_map[t]
    BY <1>3 DEF Filed
  <2> QED
    BY <1>6, <2>1 DEF Held
<1>8. Kept(e, l2)
  <2>1. ASSUME NEW t \in Held(l2)
        PROVE  /\ l2.retransmit_map[t].p.seq = t
               /\ is_ackable(l2.retransmit_map[t].p)
               /\ FrameFrom(e, l2, l2.retransmit_map[t].p)
    <3>1. CASE t = s
      BY <1>2, <1>5, <1>7, <3>1
    <3>2. CASE t # s
      <4>1. t \in Held(l) /\ l2.retransmit_map[t] = l.retransmit_map[t]
        BY <1>7, <3>2 DEF Held
      <4> QED
        BY <1>2, <4>1 DEF Way, Kept
    <3> QED
      BY <3>1, <3>2
  <2>2. \A t \in SeqNum : t \in Held(l2) <=> Age(l2, t) \in 1..(Age(l2, Acked(e, l2)) - 1)
    BY <1>1, <1>7 DEF Way, Kept
  <2> QED
    BY <2>1, <2>2 DEF Kept
<1>9. Bounds(e, l2, r)
  BY <1>1 DEF Way, Bounds
<1>10. Flight(e, l2, r, c)
  BY <1>1, <1>2 DEF Way, Flight
<1>11. Buffer(e, l2, r, c)
  BY <1>1 DEF Way, Buffer
<1>12. Owner(e, l2, r)
  BY <1>1 DEF Way, Owner
<1>13. Acks(e, l2, r, d)
  BY <1>1 DEF Way, Acks
<1>14. Age(l, s) < HALF
  <2>1. /\ Age(l, s) \in 1..(Age(l, Acked(e, l)) - 1) /\ Age(l, Acked(e, l)) <= HALF
    BY <1>3 DEF Way, Kept, Bounds
  <2>2. Age(l, Acked(e, l)) \in Nat /\ HALF \in Nat
    BY AgeTypes, HalfRange
  <2> QED
    BY ONLY <2>1, <2>2
<1> QED
  BY <1>1, <1>2, <1>5, <1>8, <1>9, <1>10, <1>11, <1>12, <1>13, <1>14 DEF Way

\* What an acknowledgement changes in a LinkLayer.
Filtered(m, ack) == [s \in SeqNum |-> IF SeqGT(s, ack) THEN m[s] ELSE NoEntry]

\* The fields of the negotiation.
NegotiationSame(l, l2) ==
    /\ l2.phase = l.phase /\ l2.offer = l.offer
    /\ l2.accepted_peer_lsp = l.accepted_peer_lsp
    /\ l2.local_lsp = l.local_lsp /\ l2.peer_lsp = l.peer_lsp
    /\ l2.syn_transmitted = l.syn_transmitted

\* Only the status differs.
StatusDiffers(l, l2) ==
    /\ l2.own_seq = l.own_seq /\ l2.peer_ack = l.peer_ack /\ l2.taken = l.taken
    /\ l2.retransmit_map = l.retransmit_map
    /\ ReceiverSame(l, l2) /\ NegotiationSame(l, l2)

\* Another status.
LEMMA StatusOnly ==
    ASSUME NEW l \in LinkState, NEW st
    PROVE  StatusDiffers(l, [l EXCEPT !.status = st]) /\ [l EXCEPT !.status = st].status = st
BY DEF LinkState, StatusDiffers, ReceiverSame, NegotiationSame

\* refresh_data_status() changes the status, and stays in the data phase.
LEMMA RefreshOnly ==
    ASSUME NEW l \in LinkState
    PROVE  /\ StatusDiffers(l, refresh_data_status(l))
           /\ InData(refresh_data_status(l)) <=> InData(l)
           /\ ~InData(l) => refresh_data_status(l) = l
<1>1. CASE ~InData(l)
  BY <1>1 DEF refresh_data_status, StatusDiffers, ReceiverSame, NegotiationSame
<1>2. CASE InData(l)
  <2>1. PICK st \in DataStatus : refresh_data_status(l) = [l EXCEPT !.status = st]
    BY <1>2 DEF refresh_data_status, DataStatus
  <2> QED
    BY <1>2, <2>1, StatusOnly DEF InData
<1> QED
  BY <1>1, <1>2

\* An error status is no status of the data phase.
LEMMA ErrorData ==
    ASSUME NEW l
    PROVE  /\ InData(l) => ~is_error(l) /\ ~is_downgrade(l)
           /\ is_downgrade(l) => ~is_error(l)
           /\ l.status \in {"Negotiating", "Detecting"} => ~InData(l) /\ ~is_error(l)
BY DEF InData, is_error, is_downgrade, DataStatus, LinkError

\* update_peer_ack() of a LinkLayer.
LEMMA PeerAckOnly ==
    ASSUME NEW l \in LinkState, NEW ack \in SeqNum
    PROVE  LET u == update_peer_ack(l, ack)
           IN  /\ u \in LinkState
               /\ u.own_seq = l.own_seq /\ u.taken = l.taken
               /\ ReceiverSame(l, u) /\ NegotiationSame(l, u)
               /\ InData(u) <=> InData(l)
               /\ ~InData(l) => u.status = l.status
               /\ is_error(u) <=> is_error(l)
               /\ IF l.peer_ack # NoSeq /\ ~SeqGT(ack, l.peer_ack)
                  THEN u = l
                  ELSE u.peer_ack = ack /\ u.retransmit_map = Filtered(l.retransmit_map, ack)
<1> DEFINE u == update_peer_ack(l, ack)
           l1 == [l EXCEPT !.peer_ack = ack,
                           !.missing_psn = NoSeq,
                           !.retransmit_map =
                               [s \in SeqNum |-> IF SeqGT(s, ack) THEN @[s] ELSE NoEntry]]
<1>1. u \in LinkState
  BY UpdatePeerAckType
<1>2. CASE l.peer_ack # NoSeq /\ ~SeqGT(ack, l.peer_ack)
  <2>1. u = l
    BY <1>2 DEF update_peer_ack
  <2> QED
    BY <1>1, <1>2, <2>1 DEF ReceiverSame, NegotiationSame
<1>3. CASE ~(l.peer_ack # NoSeq /\ ~SeqGT(ack, l.peer_ack))
  <2>1. [s \in SeqNum |-> IF SeqGT(s, ack) THEN l.retransmit_map[s] ELSE NoEntry]
          \in [SeqNum -> Entry]
    BY NoEntryType DEF LinkState
  <2>2. l1 \in LinkState
    BY <2>1 DEF LinkState
  <2>3. /\ l1.own_seq = l.own_seq /\ l1.taken = l.taken /\ l1.status = l.status
        /\ ReceiverSame(l, l1) /\ NegotiationSame(l, l1)
        /\ l1.peer_ack = ack /\ l1.retransmit_map = Filtered(l.retransmit_map, ack)
    BY DEF LinkState, ReceiverSame, NegotiationSame, Filtered
  <2>4. u = refresh_data_status(l1)
    BY <1>3 DEF update_peer_ack
  <2> HIDE DEF l1, u
  <2>5. /\ StatusDiffers(l1, u) /\ (InData(u) <=> InData(l1)) /\ (~InData(l1) => u = l1)
    BY <2>2, <2>4, RefreshOnly
  <2>6. InData(l1) <=> InData(l)
    BY <2>3 DEF InData
  <2>7. is_error(u) <=> is_error(l)
    BY <2>3, <2>5, <2>6, ErrorData DEF is_error
  <2> QED
    BY <1>1, <1>3, <2>3, <2>5, <2>6, <2>7 DEF StatusDiffers, ReceiverSame, NegotiationSame, u
<1> QED
  BY <1>2, <1>3

\* The sender reads an acknowledgement: whether it is a new one or not, it is the
\* last one then, and what it covers is not kept.
LEMMA WayAcked ==
    ASSUME NEW e \in Endpoint, NEW l \in LinkState, NEW r \in LinkState,
           NEW c, NEW d \in Seq(Frame), Way(e, l, r, c, d), ~is_error(l), d # << >>,
           is_any_ack(Head(d))
    PROVE  LET u == update_peer_ack(l, Head(d).ack)
           IN  /\ Way(e, u, r, c, Tail(d))
               /\ u.peer_ack = Head(d).ack
               /\ Age(l, Head(d).ack) \in 1..HALF
<1> DEFINE p == Head(d)
           ack == p.ack
           u == update_peer_ack(l, ack)
           d2 == Tail(d)
           P == Age(l, Acked(e, l))
           A == Age(l, ack)
<1>1. /\ p = d[1] /\ 1 \in DOMAIN d /\ p \in Frame
      /\ \A i \in DOMAIN d2 : i + 1 \in DOMAIN d /\ 1 < i + 1 /\ d2[i] = d[i + 1]
  BY Transports
<1>2. /\ ack \in SeqNum /\ Acked(e, l) \in SeqNum /\ Got(e, r) \in SeqNum /\ l.own_seq \in SeqNum
      /\ \A s \in SeqNum : Age(l, s) \in Nat /\ Age(l, s) < SeqMod
      /\ P \in Nat /\ A \in Nat /\ Age(l, Got(e, r)) \in Nat
  BY <1>1, AgeTypes, FrameFields
<1>3. /\ u \in LinkState /\ u.own_seq = l.own_seq /\ u.taken = l.taken /\ u.phase = l.phase
      /\ is_error(u) <=> is_error(l)
      /\ IF l.peer_ack # NoSeq /\ ~SeqGT(ack, l.peer_ack)
         THEN u = l
         ELSE u.peer_ack = ack /\ u.retransmit_map = Filtered(l.retransmit_map, ack)
  <2>1. ack \in SeqNum /\ l \in LinkState
    BY <1>2
  <2> HIDE DEF ack
  <2> QED
    BY ONLY <2>1, PeerAckOnly DEF NegotiationSame
<1>4. HALF \in Nat \ {0} /\ SeqMod = 2 * HALF
  BY HalfRange
<1>5. /\ 1 <= Age(l, Got(e, r)) /\ Age(l, Got(e, r)) <= A /\ A <= P /\ P <= HALF
      /\ Taken(l) > 0 => P <= max_outgoing[Offer] + 1
  BY <1>1 DEF Way, Bounds, Acks
<1>6. /\ \A s : Age(u, s) = Age(l, s)
      /\ Taken(u) = Taken(l)
      /\ \A q : FrameFrom(e, l, q) => FrameFrom(e, u, q)
  BY <1>3 DEF Age, Taken, FrameFrom
<1> HIDE DEF p, u, d2, P, A
<1>7. u.peer_ack = ack /\ Acked(e, u) = ack
  <2>1. ack # NoSeq
    BY <1>2, SeqModAssumption DEF SeqNum, NoSeq
  <2>2. u.peer_ack = ack
    <3>1. CASE ~(l.peer_ack # NoSeq /\ ~SeqGT(ack, l.peer_ack))
      BY <1>3, <3>1
    <3>2. CASE l.peer_ack # NoSeq /\ ~SeqGT(ack, l.peer_ack)
      <4>1. u = l /\ Acked(e, l) = l.peer_ack /\ l.peer_ack \in SeqNum
        BY <1>2, <1>3, <3>2 DEF Acked
      <4>2. A < P + HALF /\ P < A + HALF
        BY ONLY <1>2, <1>4, <1>5
      <4>3. SeqCmp(ack, l.peer_ack) = IF A = P THEN "eq" ELSE IF A < P THEN "gt" ELSE "lt"
        BY <1>2, <4>1, <4>2, AgeOrder DEF Age, A, P
      <4>4. A = P
        BY <1>2, <1>5, <3>2, <4>3 DEF SeqGT
      <4>5. ack = l.peer_ack
        BY <1>2, <4>1, <4>4, AgeCompare DEF Age, A, P
      <4> QED
        BY <4>1, <4>5
    <3> QED
      BY <3>1, <3>2
  <2> QED
    BY <2>1, <2>2 DEF Acked
<1>8. Bounds(e, u, r)
  <2>1. max_outgoing[Offer] \in Nat
    BY LspAssumption DEF Offer, Endpoint
  <2>2. /\ 1 <= Age(l, Got(e, r)) /\ Age(l, Got(e, r)) <= A /\ A <= HALF
        /\ Taken(l) > 0 => A <= max_outgoing[Offer] + 1
    BY ONLY <1>2, <1>4, <1>5, <2>1
  <2> QED
    BY <1>6, <1>7, <2>2 DEF Bounds, A
<1>9. \A s \in Held(l) : s \in SeqNum /\ Age(l, s) \in 1..(P - 1)
  BY DEF Held, Way, Kept, P
<1>10. Held(u) = {s \in Held(l) : Age(l, s) < A} /\ \A s \in Held(u) : u.retransmit_map[s] = l.retransmit_map[s]
  <2>1. CASE u = l /\ A = P
    BY <1>2, <1>9, <2>1
  <2>2. CASE u.retransmit_map = Filtered(l.retransmit_map, ack)
    <3>1. ASSUME NEW s \in Held(l)
          PROVE  SeqGT(s, ack) <=> Age(l, s) < A
      <4>1. s \in SeqNum /\ Age(l, s) \in Nat /\ Age(l, s) < P /\ 1 <= Age(l, s)
        BY <1>2, <1>9
      <4>2. Age(l, s) < A + HALF /\ A < Age(l, s) + HALF
        BY ONLY <1>2, <1>4, <1>5, <4>1
      <4>3. SeqCmp(s, ack) = IF Age(l, s) = A THEN "eq" ELSE IF Age(l, s) < A THEN "gt" ELSE "lt"
        BY <1>2, <4>1, <4>2, AgeOrder DEF Age, A
      <4> QED
        BY <1>2, <4>1, <4>3 DEF SeqGT
    <3>2. \A s \in SeqNum : u.retransmit_map[s] = IF SeqGT(s, ack) THEN l.retransmit_map[s] ELSE NoEntry
      BY <2>2 DEF Filtered
    <3> QED
      BY <3>1, <3>2 DEF Held
  <2>3. u = l => A = P
    BY <1>7 DEF Acked, A, P
  <2> QED
    BY <1>3, <2>1, <2>2, <2>3
<1>11. Kept(e, u)
  <2>1. \A s \in Held(u) : /\ u.retransmit_map[s].p.seq = s
                           /\ is_ackable(u.retransmit_map[s].p)
                           /\ FrameFrom(e, u, u.retransmit_map[s].p)
    BY <1>6, <1>10 DEF Way, Kept
  <2>2. ASSUME NEW s \in SeqNum
        PROVE  s \in Held(u) <=> Age(u, s) \in 1..(Age(u, Acked(e, u)) - 1)
    <3>1. s \in Held(l) <=> Age(l, s) \in 1..(P - 1)
      BY DEF Way, Kept, P
    <3>2. s \in Held(u) <=> s \in Held(l) /\ Age(l, s) < A
      BY <1>10
    <3>3. Age(u, s) = Age(l, s) /\ Age(u, Acked(e, u)) = A /\ Age(l, s) \in Nat
      BY <1>2, <1>6, <1>7 DEF A
    <3>4. A \in Nat /\ P \in Nat /\ A <= P
      BY <1>2, <1>5
    <3> QED
      BY ONLY <3>1, <3>2, <3>3, <3>4
  <2> QED
    BY <2>1, <2>2 DEF Kept
<1>12. Flight(e, u, r, c)
  BY <1>6 DEF Way, Flight
<1>13. Buffer(e, u, r, c)
  BY <1>6 DEF Way, Buffer
<1>14. Owner(e, u, r)
  BY <1>6 DEF Way, Owner
<1>15. Acks(e, u, r, d2)
  <2>1. \A i \in DOMAIN d2 : is_any_ack(d2[i]) =>
          Age(l, Got(e, r)) <= Age(l, d2[i].ack) /\ Age(l, d2[i].ack) <= A
    BY <1>1 DEF Way, Acks, A
  <2>2. \A i, j \in DOMAIN d2 :
          i < j /\ is_any_ack(d2[i]) /\ is_any_ack(d2[j]) => Age(l, d2[j].ack) <= Age(l, d2[i].ack)
    <3>1. ASSUME NEW i \in DOMAIN d2, NEW j \in DOMAIN d2, i < j
          PROVE  i + 1 < j + 1
      BY <3>1, <1>1, Transports, LenProperties DEF d2
    <3> QED
      BY <1>1, <3>1 DEF Way, Acks
  <2> QED
    BY <1>6, <1>7, <2>1, <2>2 DEF Acks, A
<1>16. A \in 1..HALF
  BY ONLY <1>2, <1>4, <1>5
<1> QED
  BY <1>7, <1>8, <1>11, <1>12, <1>13, <1>14, <1>15, <1>16 DEF Way, u, d2, p, A

\* A set that the numbers from 1 to n enumerate.
LEMMA Enumerated ==
    ASSUME NEW S, NEW n \in Nat, NEW f \in [1..n -> S],
           \A i, j \in 1..n : f[i] = f[j] => i = j,
           \A s \in S : \E i \in 1..n : f[i] = s
    PROVE  IsFiniteSet(S) /\ Cardinality(S) = n
<1>1. f \in Bijection(1..n, S)
  BY Fun_IsBij
<1>2. ExistsBijection(1..n, S)
  BY <1>1 DEF ExistsBijection
<1>3. IsFiniteSet(1..n) /\ Cardinality(1..n) = n
  <2>1. 1 \in Int /\ n \in Int
    OBVIOUS
  <2>2. IsFiniteSet(1..n) /\ Cardinality(1..n) = IF 1 > n THEN 0 ELSE n - 1 + 1
    BY <2>1, FS_Interval
  <2> QED
    BY <2>2
<1> QED
  BY <1>2, <1>3, FS_Bijection

\* The buffered packets that follow q, up to the first gap, which is at b at the latest.
LEMMA RunLength ==
    ASSUME NEW r \in LinkState, NEW q \in SeqNum, NEW b \in SeqNum \ {0},
           r.out_of_order[SeqAdd(q, b)] = NoMsg
    PROVE  LET n == BufferedRun(r, q)
           IN  /\ n \in 0..(b - 1)
               /\ \A i \in 1..n : r.out_of_order[SeqAdd(q, i)] # NoMsg
               /\ r.out_of_order[SeqAdd(q, n + 1)] = NoMsg
<1> DEFINE Free(i) == r.out_of_order[SeqAdd(q, i)] = NoMsg
           T == {i \in 1..b : Free(i)}
           F == {s \in SeqNum \ {q} :
                   \A i \in 1..SeqSub(s, q) : r.out_of_order[SeqAdd(q, i)] # NoMsg}
<1>1. b \in Nat /\ 1 <= b /\ b < SeqMod /\ SeqMod \in Nat /\ SeqNum \subseteq Nat
      /\ \A i \in 0..b : i \in SeqNum
  BY SeqModAssumption DEF SeqNum
<1>2. PICK k \in T : \A i \in T : k <= i
  <2>1. b \in T /\ T \in SUBSET Nat
    BY <1>1
  <2> HIDE DEF T
  <2> QED
    BY <2>1, LeastNatural
<1>3. k \in 1..b /\ Free(k) /\ \A i \in 1..(k - 1) : ~Free(i)
  BY <1>1, <1>2
<1> HIDE DEF T
<1>4. \A i \in 1..b : SeqAdd(q, i) \in SeqNum /\ SeqSub(SeqAdd(q, i), q) = i
  <2>1. ASSUME NEW i \in 1..b
        PROVE  SeqAdd(q, i) \in SeqNum /\ SeqSub(SeqAdd(q, i), q) = i
    <3>1. i \in SeqNum
      BY <1>1
    <3>2. PICK t \in SeqNum : t = SeqAdd(q, i)
      BY <3>1, SeqCases
    <3>3. /\ t = IF q + i < SeqMod THEN q + i ELSE q + i - SeqMod
          /\ SeqSub(t, q) = IF q <= t THEN t - q ELSE t - q + SeqMod
      BY <3>1, <3>2, SeqCases
    <3>4. SeqSub(t, q) = i
      BY ONLY <1>1, <2>1, <3>1, <3>3, q \in SeqNum
    <3> QED
      BY <3>2, <3>4
  <2> QED
    BY <2>1
<1>5. \A s \in SeqNum : /\ SeqSub(s, q) \in Nat /\ SeqAdd(q, SeqSub(s, q)) = s
                        /\ (s # q => 1 <= SeqSub(s, q))
  <2>1. ASSUME NEW s \in SeqNum
        PROVE  /\ SeqSub(s, q) \in Nat /\ SeqAdd(q, SeqSub(s, q)) = s
               /\ (s # q => 1 <= SeqSub(s, q))
    <3>1. PICK t \in SeqNum : t = SeqSub(s, q)
      BY SeqCases
    <3>2. /\ t = IF q <= s THEN s - q ELSE s - q + SeqMod
          /\ SeqAdd(q, t) = IF q + t < SeqMod THEN q + t ELSE q + t - SeqMod
      BY <3>1, SeqCases
    <3>3. s \in 0..(SeqMod - 1) /\ q \in 0..(SeqMod - 1)
      BY DEF SeqNum
    <3>4. t \in Nat /\ SeqAdd(q, t) = s /\ (s # q => 1 <= t)
      BY ONLY <1>1, <3>2, <3>3
    <3> QED
      BY <3>1, <3>4
  <2> QED
    BY <2>1
<1>6. \A s \in SeqNum : s \in F <=> SeqSub(s, q) \in 1..(k - 1)
  <2>1. ASSUME NEW s \in SeqNum
        PROVE  s \in F <=> SeqSub(s, q) \in 1..(k - 1)
    <3>1. s \in F <=> s # q /\ \A i \in 1..SeqSub(s, q) : ~Free(i)
      OBVIOUS
    <3>2. SeqSub(q, q) = 0
      BY AgeSteps, <1>1
    <3>3. SeqSub(s, q) \in Nat /\ (s # q <=> 1 <= SeqSub(s, q))
      BY <1>5, <3>2
    <3>4. k \in Nat /\ 1 <= k
      BY <1>1, <1>3
    <3> HIDE DEF F
    <3>5. ASSUME SeqSub(s, q) \in 1..(k - 1)
          PROVE  \A i \in 1..SeqSub(s, q) : ~Free(i)
      BY <1>3, <3>3, <3>4, <3>5
    <3>6. ASSUME ~(SeqSub(s, q) < k)
          PROVE  \E i \in 1..SeqSub(s, q) : Free(i)
      BY <1>3, <3>3, <3>4, <3>6
    <3> HIDE DEF Free
    <3> QED
      BY <3>1, <3>3, <3>4, <3>5, <3>6
  <2> QED
    BY <2>1
<1>7. Cardinality(F) = k - 1
  <2> DEFINE f == [i \in 1..(k - 1) |-> SeqAdd(q, i)]
  <2>1. k - 1 \in Nat /\ \A i \in 1..(k - 1) : i \in 1..b
    BY <1>1, <1>3
  <2>2. ASSUME NEW i \in 1..(k - 1)
        PROVE  SeqAdd(q, i) \in F
    BY <1>4, <1>6, <2>1
  <2>3. F \subseteq SeqNum
    OBVIOUS
  <2> HIDE DEF F
  <2>4. f \in [1..(k - 1) -> F]
    BY <2>2
  <2>5. \A i, j \in 1..(k - 1) : f[i] = f[j] => i = j
    <3>1. ASSUME NEW i \in 1..(k - 1), NEW j \in 1..(k - 1), f[i] = f[j]
          PROVE  i = j
      <4>1. SeqAdd(q, i) = SeqAdd(q, j)
        BY <3>1
      <4> QED
        BY <1>4, <2>1, <4>1
    <3> QED
      BY <3>1
  <2>6. \A s \in F : \E i \in 1..(k - 1) : f[i] = s
    <3>1. ASSUME NEW s \in F
          PROVE  \E i \in 1..(k - 1) : f[i] = s
      <4>1. s \in SeqNum /\ SeqSub(s, q) \in 1..(k - 1)
        BY <1>6, <2>3
      <4>2. f[SeqSub(s, q)] = s
        BY <1>5, <4>1
      <4> QED
        BY <4>1, <4>2
    <3> QED
      BY <3>1
  <2> HIDE DEF f
  <2> QED
    BY <2>1, <2>4, <2>5, <2>6, Enumerated
<1>8. BufferedRun(r, q) = k - 1
  BY <1>7 DEF BufferedRun
<1>9. k - 1 \in 0..(b - 1) /\ (k - 1) + 1 = k
  BY <1>1, <1>3
<1> QED
  BY <1>3, <1>8, <1>9

\* What process_in_order() hands over, and what it leaves in the buffer.
HandedOver(r, p, n) ==
    [i \in 1..(n + 1) |-> IF i = 1 THEN p.msg ELSE r.out_of_order[SeqAdd(p.seq, i - 1)]]
LeftOver(r, p, n) ==
    [s \in SeqNum |-> IF SeqSub(s, p.seq) \in 1..n THEN NoMsg ELSE r.out_of_order[s]]

\* What process_in_order() changes.
LEMMA InOrderFields ==
    ASSUME NEW r \in LinkState, NEW p \in Frame
    PROVE  LET u == process_in_order(r, p)
               n == BufferedRun(r, p.seq)
           IN  /\ u.peer_seq = SeqAdd(p.seq, n) /\ u.skipped = r.skipped
               /\ u.delivered = r.delivered \o HandedOver(r, p, n)
               /\ u.out_of_order = LeftOver(r, p, n)
               /\ u.own_seq = r.own_seq /\ u.peer_ack = r.peer_ack /\ u.taken = r.taken
               /\ u.retransmit_map = r.retransmit_map /\ u.status = r.status
               /\ NegotiationSame(r, u)
BY DEF process_in_order, HandedOver, LeftOver, NegotiationSame, LinkState

\* The receiver reads the next message: the owner is handed that one and the
\* buffered ones behind it, and what stays buffered is behind a gap again.
LEMMA WayDelivers ==
    ASSUME WindowsFit, NEW e \in Endpoint, NEW l \in LinkState, NEW r \in LinkState,
           NEW c \in Seq(Frame), NEW d \in Seq(Frame), Way(e, l, r, c, d), c # << >>,
           Head(c).ctl = "ACK", Head(c).msg # NoMsg,
           Age(l, Head(c).seq) = Age(l, Got(e, r)) - 1
    PROVE  Way(e, l, process_in_order(r, Head(c)), Tail(c), d)
<1> DEFINE p == Head(c)
           q == p.seq
           b == Age(l, q)
           G == Age(l, Got(e, r))
           T == Taken(l)
           n == BufferedRun(r, q)
           u == process_in_order(r, p)
           c2 == Tail(c)
           K == Len(r.delivered)
           msgs == HandedOver(r, p, n)
<1>1. /\ p = c[1] /\ 1 \in DOMAIN c /\ p \in Frame /\ c2 \in Seq(Frame) /\ Cut(c2, c)
      /\ \A i \in DOMAIN c2 : i + 1 \in DOMAIN c /\ 1 < i + 1 /\ c2[i] = c[i + 1]
      /\ \A i \in DOMAIN c : c[i] \in Frame
  BY Transports
<1>2. /\ q \in SeqNum /\ p.msg \in Nat /\ Got(e, r) \in SeqNum /\ l.own_seq \in SeqNum
      /\ \A s \in SeqNum : Age(l, s) \in Nat /\ Age(l, s) < SeqMod
      /\ T \in Nat /\ G \in Nat /\ b \in Nat /\ b < SeqMod /\ HALF \in Nat
  BY <1>1, AgeTypes, FrameFields, HalfRange
<1>3. /\ r.out_of_order \in [SeqNum -> Nat] /\ r.delivered \in Seq(Nat) /\ K \in Nat
      /\ r.skipped \in Nat
  BY LenProperties DEF LinkState
<1>4. /\ is_ackable(p) /\ 1 <= b /\ b <= T /\ p.msg = T + 1 - b
  BY <1>1 DEF Way, Flight, FrameFrom, is_ackable
<1>5. b = G - 1
  OBVIOUS
<1>16. G <= Age(l, Acked(e, l))
  BY DEF Way, Bounds
<1>6. /\ u \in LinkState
      /\ u.peer_seq = SeqAdd(q, n) /\ u.skipped = r.skipped /\ u.delivered = r.delivered \o msgs
      /\ u.out_of_order = LeftOver(r, p, n)
  BY <1>1, InOrderType, InOrderFields
<1> HIDE DEF p, q, b, G, T, n, u, c2, K, msgs
<1>0. T \in Nat /\ G \in Nat /\ b \in Nat /\ K \in Nat /\ r.skipped \in Nat /\ p.msg \in Nat
  BY <1>2, <1>3
<1>7. \A i \in 0..b : i \in SeqNum /\ SeqAdd(q, i) \in SeqNum /\ Age(l, SeqAdd(q, i)) = b - i
  <2>1. ASSUME NEW i \in 0..b
        PROVE  i \in SeqNum /\ SeqAdd(q, i) \in SeqNum /\ Age(l, SeqAdd(q, i)) = b - i
    <3>1. i \in SeqNum /\ i <= b
      BY <1>2, <2>1, SeqModAssumption DEF SeqNum
    <3>2. q \in SeqNum /\ l.own_seq \in SeqNum
      BY <1>2
    <3>4. i <= SeqSub(l.own_seq, q)
      BY <3>1 DEF Age, b
    <3>3. SeqSub(l.own_seq, SeqAdd(q, i)) = SeqSub(l.own_seq, q) - i
      BY ONLY <3>1, <3>2, <3>4, AgeBack
    <3> QED
      BY <3>1, <3>2, <3>3, SeqCases DEF Age, b
  <2> QED
    BY <2>1
<1>8. /\ n \in 0..(b - 1)
      /\ \A i \in 1..n : r.out_of_order[SeqAdd(q, i)] # NoMsg
      /\ r.out_of_order[SeqAdd(q, n + 1)] = NoMsg
  <2>1. b \in SeqNum \ {0} /\ b \in 0..b
    BY <1>2, <1>4, SeqModAssumption DEF SeqNum
  <2>2. SeqAdd(q, b) \in SeqNum /\ Age(l, SeqAdd(q, b)) = 0
    BY <1>7, <2>1
  <2>3. r.out_of_order[SeqAdd(q, b)] = NoMsg
    BY <2>2 DEF Way, Buffer
  <2> QED
    BY <1>2, <2>1, <2>3, RunLength DEF n
<1>9. n \in Nat /\ n < b
  BY <1>2, <1>4, <1>8
<1>10. Got(e, u) = SeqAdd(q, n) /\ Age(l, Got(e, u)) = b - n
  <2>1. n \in 0..b
    BY <1>2, <1>9
  <2>2. SeqAdd(q, n) # NoSeq
    BY <1>7, <2>1, SeqModAssumption DEF SeqNum, NoSeq
  <2> QED
    BY <1>6, <1>7, <2>1, <2>2 DEF Got
<1>11. Bounds(e, l, u)
  <2>1. 1 <= b - n /\ b - n <= Age(l, Acked(e, l))
    <3>1. Age(l, Acked(e, l)) \in Nat
      BY AgeTypes
    <3> QED
      BY ONLY <1>0, <1>5, <1>9, <1>16, <3>1
  <2> QED
    BY <1>10, <2>1 DEF Way, Bounds
<1>12. Flight(e, l, u, c2)
  <2>1. \A i \in DOMAIN c2 : is_ackable(c2[i]) =>
          Age(l, c2[i].seq) \in Nat /\ Age(l, c2[i].seq) <= (b - n) + HALF - 2
    <3>1. \A i \in DOMAIN c2 : Age(l, c2[i].seq) \in Nat
      BY <1>1, <1>2, FrameFields
    <3>2. CASE n = 0
      <4>1. \A i \in DOMAIN c2 : is_ackable(c2[i]) => Age(l, c2[i].seq) <= b + HALF - 2
        BY <1>1, <1>4 DEF Way, Flight, b, q
      <4> QED
        BY <1>2, <3>1, <3>2, <4>1
    <3>3. CASE n # 0
      <4>1. n \in 1..n /\ n \in 0..b
        BY <1>2, <1>9, <3>3
      <4>2. SeqAdd(q, n) \in SeqNum /\ r.out_of_order[SeqAdd(q, n)] # NoMsg
            /\ Age(l, SeqAdd(q, n)) = b - n
        BY <1>7, <1>8, <4>1
      <4>3. \A i \in DOMAIN c : is_ackable(c[i]) => Age(l, c[i].seq) <= (b - n) + HALF - 2
        BY <4>2 DEF Way, Buffer
      <4> QED
        BY <1>1, <3>1, <4>3
    <3> QED
      BY <3>2, <3>3
  <2>2. \A i, j \in DOMAIN c2 :
          i < j /\ is_ackable(c2[i]) /\ is_ackable(c2[j]) =>
            Age(l, c2[j].seq) <= Age(l, c2[i].seq) + HALF - 2
    <3>1. \A i \in DOMAIN c2 : i \in Nat
      BY <1>1, Transports
    <3>2. ASSUME NEW i \in DOMAIN c2, NEW j \in DOMAIN c2, i < j
          PROVE  i + 1 < j + 1
      BY <3>1, <3>2
    <3> QED
      BY <1>1, <3>2 DEF Way, Flight
  <2>3. \A i \in DOMAIN c2 : FrameFrom(e, l, c2[i])
    BY <1>1 DEF Way, Flight
  <2> QED
    BY <1>10, <2>1, <2>2, <2>3 DEF Flight
<1>13. Buffer(e, l, u, c2)
  <2>1. SUFFICES ASSUME NEW s \in SeqNum, u.out_of_order[s] # NoMsg
                 PROVE  /\ 1 <= Age(l, s) /\ Age(l, s) + 2 <= b - n /\ Age(l, s) <= T
                        /\ u.out_of_order[s] = T + 1 - Age(l, s)
                        /\ \A i \in DOMAIN c2 : is_ackable(c2[i]) =>
                             Age(l, c2[i].seq) <= Age(l, s) + HALF - 2
    BY <1>10 DEF Buffer, T
  <2>2. SeqSub(s, q) \notin 1..n /\ u.out_of_order[s] = r.out_of_order[s] /\ r.out_of_order[s] # NoMsg
    BY <1>6, <2>1 DEF LeftOver, q
  <2>3. /\ 1 <= Age(l, s) /\ Age(l, s) + 2 <= G /\ Age(l, s) <= T
        /\ r.out_of_order[s] = T + 1 - Age(l, s)
    BY <2>1, <2>2 DEF Way, Buffer, G, T
  <2>4. \A i \in DOMAIN c2 : is_ackable(c2[i]) => Age(l, c2[i].seq) <= Age(l, s) + HALF - 2
    BY <1>1, <2>1, <2>2 DEF Way, Buffer
  <2>5. Age(l, s) \in Nat /\ Age(l, s) < b
    <3>1. Age(l, s) \in Nat
      BY <1>2, <2>1
    <3> QED
      BY ONLY <1>2, <1>5, <2>3, <3>1
  <2>6. SeqSub(s, q) = b - Age(l, s)
    BY <1>2, <2>1, <2>5, AgeCompare DEF Age, b
  <2>7. n < b - Age(l, s)
    BY ONLY <1>2, <1>9, <2>2, <2>5, <2>6
  <2>8. Age(l, s) # b - (n + 1)
    <3>1. CASE Age(l, s) = b - (n + 1)
      <4>1. n + 1 \in 0..b
        BY <1>2, <1>9
      <4>2. SeqAdd(q, n + 1) \in SeqNum /\ Age(l, SeqAdd(q, n + 1)) = b - (n + 1)
        BY <1>7, <4>1
      <4>3. s = SeqAdd(q, n + 1)
        BY <1>2, <2>1, <3>1, <4>2, AgeCompare DEF Age
      <4> QED
        BY <1>8, <2>2, <4>3
    <3> QED
      BY <3>1
  <2>9. Age(l, s) + 2 <= b - n
    BY ONLY <1>2, <1>9, <2>5, <2>7, <2>8
  <2> QED
    BY <2>2, <2>3, <2>4, <2>9
<1>14. Owner(e, l, u)
  <2>1. r.delivered = [i \in 1..K |-> r.skipped + i] /\ r.skipped + K = T + 1 - G
    <3>1. ~(G - 1 > T)
      BY <1>2, <1>4, <1>5
    <3> QED
      BY <3>1 DEF Way, Owner, G, T, K
  <2>9. r.skipped + K = T + 1 - G
    BY <2>1
  <2>2. msgs \in Seq(Nat) /\ Len(msgs) = n + 1
    <3>1. n + 1 \in Nat
      BY <1>9
    <3>2. \A i \in 1..(n + 1) : i # 1 => i - 1 \in 0..b
      BY <1>2, <1>9
    <3>3. msgs \in [1..(n + 1) -> Nat]
      BY <1>2, <1>3, <1>7, <3>2 DEF msgs, HandedOver, q
    <3> QED
      BY <3>1, <3>3, FunctionSeq
  <2>3. \A i \in 1..(n + 1) : msgs[i] = r.skipped + (K + i)
    <3>1. ASSUME NEW i \in 1..(n + 1)
          PROVE  msgs[i] = r.skipped + (K + i)
      <4>1. CASE i = 1
        <5>1. msgs[i] = p.msg
          BY <4>1, <3>1 DEF msgs, HandedOver
        <5> QED
          BY ONLY <1>0, <1>4, <1>5, <2>9, <4>1, <5>1
      <4>2. CASE i # 1
        <5>1. i - 1 \in 1..n /\ i - 1 \in 0..b /\ i \in Nat
          BY <1>2, <1>9, <3>1, <4>2
        <5>2. msgs[i] = r.out_of_order[SeqAdd(q, i - 1)]
          BY <3>1, <4>2 DEF msgs, HandedOver, q
        <5>3. /\ SeqAdd(q, i - 1) \in SeqNum
              /\ Age(l, SeqAdd(q, i - 1)) = b - (i - 1)
              /\ r.out_of_order[SeqAdd(q, i - 1)] # NoMsg
          BY <1>7, <1>8, <5>1
        <5>4. msgs[i] = T + 1 - (b - (i - 1))
          BY <5>2, <5>3 DEF Way, Buffer, T
        <5> QED
          BY ONLY <1>0, <1>5, <2>9, <5>1, <5>4
      <4> QED
        BY <4>1, <4>2
    <3> QED
      BY <3>1
  <2>4. u.delivered \in Seq(Nat) /\ Joined(u.delivered, r.delivered, msgs)
    BY <1>3, <1>6, <2>2, JoinSeq
  <2>5. /\ Len(u.delivered) = K + (n + 1)
        /\ \A i \in 1..K : u.delivered[i] = r.skipped + i
        /\ \A i \in 1..(n + 1) : u.delivered[K + i] = r.skipped + (K + i)
        /\ \A k \in 1..Len(u.delivered) : k \in 1..K \/ \E i \in 1..(n + 1) : k = K + i
    BY <2>1, <2>2, <2>3, <2>4 DEF Joined, K
  <2>6. \A i \in 1..Len(u.delivered) : u.delivered[i] = r.skipped + i
    BY ONLY <2>5
  <2>7. u.delivered = [i \in 1..Len(u.delivered) |-> u.skipped + i]
    <3>1. DOMAIN u.delivered = 1..Len(u.delivered) /\ u.delivered = [i \in DOMAIN u.delivered |-> u.delivered[i]]
      BY <2>4, LenProperties
    <3> QED
      BY <1>6, <2>6, <3>1
  <2>8. u.skipped + Len(u.delivered) = T + 1 - (b - n)
    <3>1. u.skipped = r.skipped
      BY <1>6
    <3>2. Len(u.delivered) = K + (n + 1)
      BY <2>5
    <3> QED
      BY ONLY <1>0, <1>5, <1>9, <2>9, <3>1, <3>2
  <2> QED
    BY <1>10, <2>7, <2>8 DEF Owner, T
<1>15. Acks(e, l, u, d)
  <2>1. Age(l, Got(e, u)) <= G /\ Age(l, Got(e, u)) \in Nat
    BY <1>2, <1>5, <1>9, <1>10
  <2>2. \A i \in DOMAIN d : is_any_ack(d[i]) =>
          /\ Age(l, Got(e, u)) <= Age(l, d[i].ack)
          /\ Age(l, d[i].ack) <= Age(l, Acked(e, l))
    <3>1. ASSUME NEW i \in DOMAIN d, is_any_ack(d[i])
          PROVE  Age(l, Got(e, u)) <= Age(l, d[i].ack)
      <4>1. G <= Age(l, d[i].ack)
        BY <3>1 DEF Way, Acks, G
      <4>2. Age(l, d[i].ack) \in Nat
        <5>1. d[i] \in Frame
          BY <3>1, Transports
        <5> QED
          BY <1>2, <5>1, FrameFields
      <4> QED
        BY ONLY <1>2, <2>1, <4>1, <4>2
    <3> QED
      BY <3>1 DEF Way, Acks
  <2> QED
    BY <2>2 DEF Way, Acks
<1> QED
  BY <1>11, <1>12, <1>13, <1>14, <1>15 DEF Way, u, c2, p

\* process_data() of a message behind a gap.
Buffered(r, p) == [r EXCEPT !.out_of_order[p.seq] = p.msg]

\* The receiver reads a message behind a gap, and buffers it.
LEMMA WayBuffers ==
    ASSUME NEW e \in Endpoint, NEW l \in LinkState, NEW r \in LinkState,
           NEW c \in Seq(Frame), NEW d \in Seq(Frame), Way(e, l, r, c, d), c # << >>,
           Head(c).ctl = "ACK", Head(c).msg # NoMsg,
           Age(l, Head(c).seq) + 2 <= Age(l, Got(e, r))
    PROVE  Way(e, l, Buffered(r, Head(c)), Tail(c), d)
<1> DEFINE p == Head(c)
           u == Buffered(r, p)
           c2 == Tail(c)
<1>1. /\ p = c[1] /\ 1 \in DOMAIN c /\ p \in Frame /\ Cut(c2, c) /\ Cut(d, d)
      /\ \A i \in DOMAIN c2 : i + 1 \in DOMAIN c /\ 1 < i + 1 /\ c2[i] = c[i + 1]
  BY Transports
<1>2. p.seq \in SeqNum
  BY <1>1, FrameFields
<1>3. /\ u.peer_seq = r.peer_seq /\ u.delivered = r.delivered /\ u.skipped = r.skipped
      /\ u.out_of_order[p.seq] = p.msg
      /\ \A s \in SeqNum \ {p.seq} : u.out_of_order[s] = r.out_of_order[s]
  BY <1>2 DEF LinkState, Buffered
<1>4. Way(e, l, r, c2, d)
  BY <1>1, WayStays DEF SenderSame, ReceiverSame
<1>5. /\ is_ackable(p) /\ 1 <= Age(l, p.seq) /\ Age(l, p.seq) <= Taken(l)
      /\ p.msg = Taken(l) + 1 - Age(l, p.seq)
  BY <1>1 DEF Way, Flight, FrameFrom, is_ackable
<1> HIDE DEF u, p, c2
<1>6. Got(e, u) = Got(e, r)
  BY <1>3 DEF Got
<1>7. Age(l, p.seq) + 2 <= Age(l, Got(e, r))
  BY DEF p
<1>8. \A i \in DOMAIN c2 : is_ackable(c2[i]) => Age(l, c2[i].seq) <= Age(l, p.seq) + HALF - 2
  BY <1>1, <1>5 DEF Way, Flight
<1>9. Buffer(e, l, u, c2)
  <2>1. ASSUME NEW s \in SeqNum, u.out_of_order[s] # NoMsg
        PROVE  /\ 1 <= Age(l, s) /\ Age(l, s) + 2 <= Age(l, Got(e, r)) /\ Age(l, s) <= Taken(l)
               /\ u.out_of_order[s] = Taken(l) + 1 - Age(l, s)
               /\ \A i \in DOMAIN c2 : is_ackable(c2[i]) =>
                    Age(l, c2[i].seq) <= Age(l, s) + HALF - 2
    <3>1. CASE s = p.seq
      BY <1>3, <1>5, <1>7, <1>8, <3>1
    <3>2. CASE s # p.seq
      BY <1>3, <1>4, <2>1, <3>2 DEF Way, Buffer
    <3> QED
      BY <3>1, <3>2
  <2> QED
    BY <1>6, <2>1 DEF Buffer
<1>10. Bounds(e, l, u) /\ Flight(e, l, u, c2) /\ Kept(e, l) /\ Owner(e, l, u) /\ Acks(e, l, u, d)
  BY <1>3, <1>4, <1>6 DEF Way, Bounds, Flight, Owner, Acks
<1> QED
  BY <1>9, <1>10 DEF Way, u, p, c2

\* The receiver reads a frame in the data phase.
LEMMA WayReceives ==
    ASSUME WindowsFit, NEW e \in Endpoint, NEW l \in LinkState, NEW r \in LinkState,
           NEW c \in Seq(Frame), NEW d \in Seq(Frame), Way(e, l, r, c, d), c # << >>
    PROVE  Way(e, l, process_data(r, Head(c)), Tail(c), d)
<1> DEFINE p == Head(c)
           G == Age(l, Got(e, r))
           b == Age(l, p.seq)
<1>1. /\ p = c[1] /\ 1 \in DOMAIN c /\ p \in Frame /\ Cut(Tail(c), c) /\ Cut(d, d)
  BY Transports
<1>2. ASSUME NEW r2, ReceiverSame(r, r2)
      PROVE  Way(e, l, r2, Tail(c), d)
  BY <1>1, <1>2, WayStays DEF SenderSame
<1>3. CASE r.peer_seq = NoSeq \/ p.ctl # "ACK" \/ p.msg = NoMsg
  <2>1. process_data(r, p) = r
    BY <1>3 DEF process_data
  <2> QED
    BY <1>2, <2>1 DEF ReceiverSame
<1>4. CASE r.peer_seq # NoSeq /\ p.ctl = "ACK" /\ p.msg # NoMsg
  <2> DEFINE next == SeqAdd(r.peer_seq, 1)
  <2>1. /\ p.seq \in SeqNum /\ l.own_seq \in SeqNum /\ r.peer_seq \in SeqNum /\ Got(e, r) = r.peer_seq
        /\ G \in Nat /\ b \in Nat /\ 1 \in SeqNum /\ HALF \in Nat
    <3>1. Got(e, r) = r.peer_seq /\ Got(e, r) \in SeqNum
      BY <1>4, AgeTypes DEF Got
    <3>2. 1 \in SeqNum /\ p.seq \in SeqNum
      BY <1>1, FrameFields, SeqModAssumption DEF SeqNum
    <3> QED
      BY <3>1, <3>2, AgeTypes, HalfRange
  <2>2. 1 <= G /\ G <= HALF
    <3>1. 1 <= G /\ G <= Age(l, Acked(e, l)) /\ Age(l, Acked(e, l)) <= HALF
      BY DEF Way, Bounds
    <3>2. Age(l, Acked(e, l)) \in Nat
      BY AgeTypes
    <3> QED
      BY ONLY <2>1, <3>1, <3>2
  <2>3. 1 <= b /\ b <= G + HALF - 2
    BY <1>1, <1>4 DEF Way, Flight, FrameFrom, is_ackable
  <2>4. next \in SeqNum /\ SeqSub(l.own_seq, next) = G - 1
    <3>1. 1 <= SeqSub(l.own_seq, r.peer_seq) /\ G = SeqSub(l.own_seq, r.peer_seq)
      BY <2>1, <2>2 DEF Age
    <3>2. next \in SeqNum
      BY <2>1, SeqCases
    <3>3. SeqSub(l.own_seq, next) = SeqSub(l.own_seq, r.peer_seq) - 1
      BY ONLY <2>1, <3>1, AgeBack
    <3> QED
      BY <3>1, <3>2, <3>3
  <2> HIDE DEF next
  <2>5. b = SeqSub(l.own_seq, p.seq)
    BY DEF Age
  <2> HIDE DEF G, b, p
  <2>6. SeqCmp(p.seq, next) = IF b = G - 1 THEN "eq" ELSE IF b < G - 1 THEN "gt" ELSE "lt"
    <3>1. b < (G - 1) + HALF /\ G - 1 < b + HALF
      BY ONLY <2>1, <2>2, <2>3
    <3> QED
      BY ONLY <2>1, <2>4, <2>5, <3>1, AgeOrder
  <2>7. CASE b = G - 1
    <3>1. process_data(r, p) = process_in_order(r, p)
      BY <1>4, <2>6, <2>7 DEF process_data, next
    <3> QED
      BY <1>4, <2>7, <3>1, WayDelivers DEF p, b, G
  <2>8. CASE b < G - 1
    <3>0. SeqCmp(p.seq, next) = "gt"
      BY ONLY <2>1, <2>6, <2>8
    <3>1. process_data(r, p) = Buffered(r, p)
      BY <1>4, <3>0, Zenon DEF process_data, next, Buffered
    <3>2. b + 2 <= G
      BY ONLY <2>1, <2>8
    <3> QED
      BY <1>4, <3>1, <3>2, WayBuffers DEF p, b, G
  <2>9. CASE ~(b = G - 1) /\ ~(b < G - 1)
    <3>1. process_data(r, p) = [r EXCEPT !.force = TRUE]
      BY <1>4, <2>6, <2>9 DEF process_data, next
    <3>2. ReceiverSame(r, [r EXCEPT !.force = TRUE])
      BY DEF LinkState, ReceiverSame
    <3> QED
      BY <1>2, <3>1, <3>2 DEF p
  <2> QED
    BY <2>7, <2>8, <2>9
<1> QED
  BY <1>3, <1>4

\* The receiver learns the sender's number in the negotiation, from a frame of it
\* or from the message that ends it.
LEMMA WayNegotiates ==
    ASSUME NEW e \in Endpoint, NEW l \in LinkState, NEW r \in LinkState,
           NEW c \in Seq(Frame), NEW d \in Seq(Frame), NEW r2, Way(e, l, r, c, d), c # << >>,
           is_ackable(Head(c)), Age(l, Head(c).seq) <= Age(l, Got(e, r)),
           Head(c).ctl # "ACK" => Taken(l) = 0,
           r.delivered = << >>, \A s \in SeqNum : r.out_of_order[s] = NoMsg,
           r2.peer_seq = Head(c).seq, r2.out_of_order = r.out_of_order, r2.delivered = << >>,
           r2.skipped = IF Head(c).ctl = "ACK" THEN Head(c).msg ELSE 0
    PROVE  Way(e, l, r2, Tail(c), d)
<1> DEFINE p == Head(c)
           c2 == Tail(c)
           b == Age(l, p.seq)
           G == Age(l, Got(e, r))
           T == Taken(l)
<1>1. /\ p = c[1] /\ 1 \in DOMAIN c /\ p \in Frame /\ Cut(c2, c) /\ Cut(d, d)
      /\ \A i \in DOMAIN c2 : i + 1 \in DOMAIN c /\ 1 < i + 1 /\ c2[i] = c[i + 1]
      /\ \A i \in DOMAIN d : d[i] \in Frame
  BY Transports
<1>2. Way(e, l, r, c2, d)
  BY <1>1, WayStays DEF SenderSame, ReceiverSame
<1>3. /\ p.seq \in SeqNum /\ Got(e, r) \in SeqNum /\ Acked(e, l) \in SeqNum
      /\ b \in Nat /\ G \in Nat /\ T \in Nat /\ HALF \in Nat
      /\ \A s \in SeqNum : Age(l, s) \in Nat
      /\ \A q \in Frame : q.ack \in SeqNum
  BY <1>1, AgeTypes, FrameFields, HalfRange
<1>4. Got(e, r2) = p.seq
  BY <1>3, SeqModAssumption DEF Got, SeqNum, NoSeq
<1>5. /\ FrameFrom(e, l, p) /\ is_ackable(p) /\ 1 <= b /\ b <= G
  BY <1>1 DEF Way, Flight, FrameFrom
<1> HIDE DEF p, c2, b, G, T
<1>6. Bounds(e, l, r2)
  <2>1. G <= Age(l, Acked(e, l)) /\ Age(l, Acked(e, l)) \in Nat
    BY <1>3 DEF Way, Bounds, G
  <2>2. 1 <= b /\ b <= Age(l, Acked(e, l))
    BY ONLY <1>3, <1>5, <2>1
  <2> QED
    BY <1>4, <2>2 DEF Way, Bounds, b
<1>7. Flight(e, l, r2, c2)
  <2>1. \A i \in DOMAIN c2 : is_ackable(c2[i]) => Age(l, c2[i].seq) <= b + HALF - 2
    BY <1>1, <1>5 DEF Way, Flight, b
  <2> QED
    BY <1>2, <1>4, <2>1 DEF Way, Flight, b
<1>8. Buffer(e, l, r2, c2)
  BY DEF Buffer
<1>9. Owner(e, l, r2)
  <2>1. Len(r2.delivered) = 0 /\ r2.delivered = [i \in 1..Len(r2.delivered) |-> r2.skipped + i]
    OBVIOUS
  <2>2. \/ r2.skipped + Len(r2.delivered) = T + 1 - b
        \/ b - 1 > T /\ r2.skipped = 0 /\ r2.delivered = << >>
    <3>1. CASE p.ctl = "ACK"
      <4>1. p.msg = T + 1 - b /\ r2.skipped = p.msg
        BY <1>5, <3>1 DEF FrameFrom, is_ackable, b, T, p
      <4> QED
        BY <1>3, <2>1, <4>1
    <3>2. CASE p.ctl # "ACK"
      <4>1. T = 0 /\ r2.skipped = 0
        BY <3>2 DEF p, T
      <4> QED
        BY <1>3, <1>5, <2>1, <4>1
    <3> QED
      BY <3>1, <3>2
  <2> QED
    BY <1>4, <2>1, <2>2 DEF Owner, b, T
<1>10. Acks(e, l, r2, d)
  <2>1. \A i \in DOMAIN d : is_any_ack(d[i]) => G <= Age(l, d[i].ack) /\ Age(l, d[i].ack) \in Nat
    BY <1>1, <1>3 DEF Way, Acks, G
  <2>2. \A i \in DOMAIN d : is_any_ack(d[i]) => b <= Age(l, d[i].ack)
    BY ONLY <1>3, <1>5, <2>1
  <2> QED
    BY <1>4, <2>2 DEF Way, Acks, b
<1>11. Kept(e, l)
  BY DEF Way
<1> QED
  BY <1>6, <1>7, <1>8, <1>9, <1>10, <1>11 DEF Way, c2
-----------------------------------------------------------------------------
(* The steps of the link.                                                    *)

\* The state of the link: where its two ways come together.
Setup ==
    /\ HostInv(link[Host], chan[Accessory])
    /\ AccessoryInv(link[Accessory], link[Host])
    /\ Repeats(link[Accessory], link[Host], chan[Host])

\* The two ends are each other's peers.
LEMMA TwoEnds ==
    /\ Host \in Endpoint /\ Accessory \in Endpoint /\ Host # Accessory
    /\ Peer(Host) = Accessory /\ Peer(Accessory) = Host
    /\ \A e \in Endpoint : Peer(e) \in Endpoint /\ Peer(e) # e /\ Peer(Peer(e)) = e
    /\ \A e, f \in Endpoint : f = e \/ f = Peer(e)
BY DEF Endpoint, Host, Accessory, Peer

\* Both ways, seen from one end.
LEMMA BothWays ==
    ASSUME OrderInv, TypeOK, NEW e \in Endpoint
    PROVE  /\ Way(e, link[e], link[Peer(e)], chan[Peer(e)], chan[e])
           /\ Way(Peer(e), link[Peer(e)], link[e], chan[e], chan[Peer(e)])
           /\ Ends(link[e]) /\ Ends(link[Peer(e)]) /\ Setup
           /\ link[e] \in LinkState /\ link[Peer(e)] \in LinkState
           /\ chan[e] \in Seq(Frame) /\ chan[Peer(e)] \in Seq(Frame)
           /\ Peer(e) \in Endpoint /\ Peer(e) # e
<1>1. Peer(e) \in Endpoint /\ Peer(e) # e /\ Peer(Peer(e)) = e
  BY TwoEnds
<1> QED
  BY <1>1 DEF OrderInv, Setup, TypeOK

\* The invariant, from what a step of one end did to its two ways and to the setup.
LEMMA Assemble ==
    ASSUME TypeOK, OrderInv, NEW e \in Endpoint, NEW l2,
           link' = [link EXCEPT ![e] = l2],
           Way(e, l2, link[Peer(e)], chan'[Peer(e)], chan'[e]),
           Way(Peer(e), link[Peer(e)], l2, chan'[e], chan'[Peer(e)]),
           Ends(l2), Setup'
    PROVE  OrderInv'
<1>1. link'[e] = l2 /\ link'[Peer(e)] = link[Peer(e)] /\ Peer(Peer(e)) = e
  BY TwoEnds DEF TypeOK
<1>2. Ends(link[Peer(e)])
  BY BothWays
<1>3. \A f \in Endpoint : /\ Way(f, link'[f], link'[Peer(f)], chan'[Peer(f)], chan'[f])
                          /\ Ends(link'[f])
  <2>1. ASSUME NEW f \in Endpoint
        PROVE  /\ Way(f, link'[f], link'[Peer(f)], chan'[Peer(f)], chan'[f])
               /\ Ends(link'[f])
    <3>1. CASE f = e
      BY <1>1, <3>1
    <3>2. CASE f = Peer(e)
      BY <1>1, <1>2, <3>2
    <3> QED
      BY <3>1, <3>2, TwoEnds
  <2> QED
    BY <2>1
<1> QED
  BY <1>3 DEF OrderInv, Setup

\* Counting the SYNs on their way.
LEMMA SynsCount ==
    ASSUME NEW c \in Seq(Frame)
    PROVE  /\ Syns(c) \in Nat
           /\ c # << >> => Syns(c) = Syns(Tail(c)) + (IF Head(c).ctl = "SYN" THEN 1 ELSE 0)
           /\ \A p \in Frame : Syns(Append(c, p)) = Syns(c) + (IF p.ctl = "SYN" THEN 1 ELSE 0)
<1> DEFINE At(b, n) == {i \in 1..n : b[i].ctl = "SYN"}
<1>1. \A b : \A n \in Nat : IsFiniteSet(At(b, n)) /\ Cardinality(At(b, n)) \in Nat
  <2>1. ASSUME NEW b, NEW n \in Nat
        PROVE  IsFiniteSet(At(b, n)) /\ Cardinality(At(b, n)) \in Nat
    <3>1. IsFiniteSet(1..n)
      <4>1. 1 \in Int /\ n \in Int
        OBVIOUS
      <4> QED
        BY <4>1, FS_Interval
    <3>2. At(b, n) \in SUBSET (1..n)
      OBVIOUS
    <3> HIDE DEF At
    <3>3. IsFiniteSet(At(b, n))
      BY <3>1, <3>2, FS_Subset
    <3> QED
      BY <3>3, FS_CardinalityType
  <2> QED
    BY <2>1
<1>2. Len(c) \in Nat /\ Syns(c) = Cardinality(At(c, Len(c)))
  BY LenProperties DEF Syns
<1>3. ASSUME NEW p \in Frame
      PROVE  Syns(Append(c, p)) = Syns(c) + (IF p.ctl = "SYN" THEN 1 ELSE 0)
  <2> DEFINE c2 == Append(c, p)
             n == Len(c)
  <2>1. Appended(c2, c, p) /\ c2 \in Seq(Frame)
    BY AppendSeq
  <2>2. Syns(c2) = Cardinality(At(c2, n + 1)) /\ n \in Nat
    BY <1>2, <2>1 DEF Appended, Syns
  <2> HIDE DEF c2, n
  <2>3. /\ c2[n + 1] = p /\ \A i \in 1..n : c2[i] = c[i]
    BY <2>1 DEF Appended, n
  <2>4. n + 1 \notin At(c, n)
    BY <2>2
  <2>5. CASE p.ctl = "SYN"
    <3>1. At(c2, n + 1) = At(c, n) \cup {n + 1}
      BY <2>2, <2>3, <2>5
    <3> HIDE DEF At
    <3>2. Cardinality(At(c2, n + 1)) = Cardinality(At(c, n)) + 1
      BY <1>1, <2>2, <2>4, <3>1, FS_AddElement
    <3> QED
      BY <1>2, <2>2, <2>5, <3>2 DEF c2, n
  <2>6. CASE p.ctl # "SYN"
    <3>1. At(c2, n + 1) = At(c, n)
      BY <2>2, <2>3, <2>6
    <3> HIDE DEF At
    <3> QED
      BY <1>1, <1>2, <2>2, <2>6, <3>1 DEF c2, n
  <2> QED
    BY <2>5, <2>6
<1>4. ASSUME c # << >>
      PROVE  Syns(c) = Syns(Tail(c)) + (IF Head(c).ctl = "SYN" THEN 1 ELSE 0)
  <2> DEFINE c2 == Tail(c)
             m == Len(c2)
             U == {i \in 2..(m + 1) : c[i].ctl = "SYN"}
  <2>1. Shifted(c2, c) /\ c2 \in Seq(Frame) /\ Head(c) = c[1]
    BY <1>4, TailSeq
  <2>2. /\ Syns(c2) = Cardinality(At(c2, m)) /\ m \in Nat /\ Len(c) = m + 1
        /\ \A i \in 1..m : c2[i] = c[i + 1]
    BY <1>2, <2>1, LenProperties DEF Shifted, Syns
  <2> HIDE DEF c2, m
  <2>3. Cardinality(U) = Cardinality(At(c2, m)) /\ IsFiniteSet(U)
    <3> DEFINE f == [i \in At(c2, m) |-> i + 1]
    <3>1. \A i \in At(c2, m) : i \in Nat /\ i + 1 \in U
      BY <2>2
    <3>2. \A j \in U : j - 1 \in At(c2, m) /\ (j - 1) + 1 = j
      <4>1. \A j \in U : j - 1 \in 1..m /\ (j - 1) + 1 = j
        BY <2>2
      <4> QED
        BY <2>2, <4>1
    <3> HIDE DEF At, U
    <3>3. f \in [At(c2, m) -> U]
      BY <3>1
    <3>4. \A i, j \in At(c2, m) : f[i] = f[j] => i = j
      BY <3>1
    <3>5. \A j \in U : \E i \in At(c2, m) : f[i] = j
      BY <3>2
    <3> HIDE DEF f
    <3>6. f \in Bijection(At(c2, m), U)
      BY <3>3, <3>4, <3>5, Fun_IsBij
    <3>7. ExistsBijection(At(c2, m), U)
      BY <3>6 DEF ExistsBijection
    <3> QED
      BY <1>1, <2>2, <3>7, FS_Bijection
  <2>4. 1 \notin U
    BY <2>2
  <2>5. CASE c[1].ctl = "SYN"
    <3>1. At(c, m + 1) = U \cup {1}
      BY <2>2, <2>5
    <3> HIDE DEF At, U
    <3>2. Cardinality(At(c, m + 1)) = Cardinality(U) + 1
      BY <2>3, <2>4, <3>1, FS_AddElement
    <3> QED
      BY <1>2, <2>1, <2>2, <2>3, <2>5, <3>2 DEF c2
  <2>6. CASE c[1].ctl # "SYN"
    <3>1. At(c, m + 1) = U
      BY <2>2, <2>6
    <3> HIDE DEF At, U
    <3> QED
      BY <1>1, <1>2, <2>1, <2>2, <2>3, <2>6, <3>1 DEF c2
  <2> QED
    BY <2>5, <2>6
<1>5. Syns(c) \in Nat
  BY <1>1, <1>2
<1> QED
  BY <1>3, <1>4, <1>5

\* The host's share of the setup does not change.
HostSame(h, h2) ==
    /\ h2.phase = h.phase /\ h2.offer = h.offer
    /\ h2.accepted_peer_lsp = h.accepted_peer_lsp
    /\ h2.peer_seq = NoSeq <=> h.peer_seq = NoSeq
    /\ h.phase # "Accepted" => h2.peer_seq = h.peer_seq /\ h2.own_seq = h.own_seq

\* Neither does the accessory's, but its SYN may be acknowledged.
AccessorySame(a, a2) ==
    /\ NegotiationSame(a, a2)
    /\ a2.peer_seq = NoSeq <=> a.peer_seq = NoSeq
    /\ is_error(a) => is_error(a2)
    /\ a.phase # "Accepted" => a2.own_seq = a.own_seq
    /\ SynHeld(a2) => /\ SynHeld(a)
                      /\ a2.retransmit_map[StartSeq[Accessory]].retries =
                           a.retransmit_map[StartSeq[Accessory]].retries

\* The numbers that Repeats adds up.
LEMMA RepeatsTypes ==
    ASSUME NEW a \in LinkState, NEW h \in LinkState, NEW ch \in Seq(Frame)
    PROVE  /\ Syns(ch) \in Nat
           /\ a.retransmit_map[StartSeq[Accessory]].retries \in Nat
           /\ Age(h, StartSeq[Host]) \in Nat /\ Age(a, StartSeq[Accessory]) \in Nat
           /\ max_retransmissions[Negotiating_Lsp] \in Nat
<1>1. Host \in Endpoint /\ Accessory \in Endpoint
  BY TwoEnds
<1>2. StartSeq[Accessory] \in SeqNum /\ StartSeq[Host] \in SeqNum
  BY <1>1, LinkAssumption
<1>3. a.retransmit_map[StartSeq[Accessory]] \in Entry
  BY <1>2 DEF LinkState
<1>4. a.retransmit_map[StartSeq[Accessory]].retries \in Nat
  BY <1>3 DEF Entry
<1> QED
  BY <1>1, <1>2, <1>4, AgeTypes, SynsCount, LspAssumption

\* A SYN that is kept was sent.
LEMMA SynSent ==
    ASSUME NEW a \in LinkState, NEW h, AccessoryInv(a, h), Kept(Accessory, a), SynHeld(a)
    PROVE  a.syn_transmitted /\ StartSeq[Accessory] \in Held(a)
<1> DEFINE s == StartSeq[Accessory]
<1>1. s \in SeqNum
  BY LinkAssumption, TwoEnds
<1>2. s \in Held(a)
  BY <1>1 DEF SynHeld, Held, NoEntry, Bare
<1>3. 1 <= Age(a, s)
  BY <1>2 DEF Kept, FrameFrom
<1> QED
  BY <1>2, <1>3 DEF AccessoryInv

\* The setup, when the host goes on.
LEMMA HostGoes ==
    ASSUME NEW a \in LinkState, NEW h \in LinkState, NEW h2, NEW ca, NEW ca2,
           NEW ch \in Seq(Frame), NEW ch2 \in Seq(Frame),
           HostInv(h, ca), AccessoryInv(a, h), Repeats(a, h, ch),
           HostSame(h, h2), Syns(ch2) <= Syns(ch),
           h.phase # "Accepted" =>
             \A i \in DOMAIN ca2 : is_any_ack(ca2[i]) => ca2[i].ack = StartSeq[Accessory]
    PROVE  HostInv(h2, ca2) /\ AccessoryInv(a, h2) /\ Repeats(a, h2, ch2)
<1>1. HostInv(h2, ca2)
  BY DEF HostInv, HostSame
<1>2. AccessoryInv(a, h2)
  BY DEF AccessoryInv, HostSame
<1>3. Repeats(a, h2, ch2)
  <2>1. /\ Syns(ch) \in Nat /\ Syns(ch2) \in Nat
        /\ Age(h, StartSeq[Host]) \in Nat
        /\ a.retransmit_map[StartSeq[Accessory]].retries \in Nat
        /\ max_retransmissions[Negotiating_Lsp] \in Nat
    BY RepeatsTypes
  <2>2. h.phase # "Accepted" => Age(h2, StartSeq[Host]) = Age(h, StartSeq[Host])
    BY DEF HostSame, Age
  <2>3. h2.phase = h.phase
    BY DEF HostSame
  <2>4. CASE h.phase = "Accepted"
    BY <2>3, <2>4 DEF Repeats
  <2>5. CASE h.phase # "Accepted"
    <3> DEFINE x == Age(h, StartSeq[Host])
               y == IF h.phase = "Offering" THEN 1 ELSE 0
               m == a.retransmit_map[StartSeq[Accessory]].retries
               bound == IF SynHeld(a) THEN 1 + m
                        ELSE IF a.syn_transmitted THEN 1 + max_retransmissions[Negotiating_Lsp]
                        ELSE 0
    <3>1. x \in Nat /\ y \in Nat /\ bound \in Nat /\ x + y + Syns(ch) <= bound
      BY <2>1, <2>5 DEF Repeats
    <3> HIDE DEF x, y, bound
    <3>2. x + y + Syns(ch2) <= bound
      BY ONLY <2>1, <3>1, Syns(ch2) <= Syns(ch)
    <3> QED
      BY <2>2, <2>3, <2>5, <3>2 DEF Repeats, x, y, bound
  <2> QED
    BY <2>4, <2>5
<1> QED
  BY <1>1, <1>2, <1>3

\* The setup, when the accessory goes on.
LEMMA AccessoryGoes ==
    ASSUME NEW a \in LinkState, NEW h \in LinkState, NEW a2 \in LinkState, NEW ca, NEW ca2,
           NEW ch \in Seq(Frame), NEW ch2 \in Seq(Frame),
           HostInv(h, ca), AccessoryInv(a, h), Repeats(a, h, ch), Kept(Accessory, a),
           AccessorySame(a, a2), Syns(ch2) <= Syns(ch), Cut(ca2, ca)
    PROVE  HostInv(h, ca2) /\ AccessoryInv(a2, h) /\ Repeats(a2, h, ch2)
<1>1. HostInv(h, ca2)
  <2>1. \A i \in DOMAIN ca2 : \E k \in DOMAIN ca : ca2[i] = ca[k]
    BY DEF Cut
  <2> QED
    BY <2>1 DEF HostInv
<1>2. AccessoryInv(a2, h)
  BY DEF AccessoryInv, AccessorySame, NegotiationSame, Age
<1>3. Repeats(a2, h, ch2)
  <2>1. /\ Syns(ch) \in Nat /\ Syns(ch2) \in Nat
        /\ Age(h, StartSeq[Host]) \in Nat
        /\ a.retransmit_map[StartSeq[Accessory]].retries \in Nat
        /\ a2.retransmit_map[StartSeq[Accessory]].retries \in Nat
        /\ max_retransmissions[Negotiating_Lsp] \in Nat
    BY RepeatsTypes
  <2>2. SynHeld(a) => a.syn_transmitted
    BY SynSent
  <2>3. /\ a2.syn_transmitted = a.syn_transmitted
        /\ SynHeld(a2) => /\ SynHeld(a)
                          /\ a2.retransmit_map[StartSeq[Accessory]].retries =
                               a.retransmit_map[StartSeq[Accessory]].retries
    BY DEF AccessorySame, NegotiationSame
  <2> DEFINE x == Age(h, StartSeq[Host])
             y == IF h.phase = "Offering" THEN 1 ELSE 0
             max == max_retransmissions[Negotiating_Lsp]
             m == a.retransmit_map[StartSeq[Accessory]].retries
             m2 == a2.retransmit_map[StartSeq[Accessory]].retries
             z == Syns(ch)
             z2 == Syns(ch2)
  <2>4. x \in Nat /\ y \in Nat /\ max \in Nat /\ m \in Nat /\ m2 \in Nat /\ z \in Nat /\ z2 \in Nat
        /\ z2 <= z
    BY <2>1
  <2>5. /\ SynHeld(a) => m <= max
        /\ h.phase # "Accepted" =>
             x + y + z <= IF SynHeld(a) THEN 1 + m ELSE IF a.syn_transmitted THEN 1 + max ELSE 0
        /\ SynHeld(a2) => SynHeld(a) /\ m2 = m
    BY <2>3 DEF Repeats
  <2> HIDE DEF x, y, max, m, m2, z, z2
  <2>6. /\ SynHeld(a2) => m2 <= max
        /\ h.phase # "Accepted" =>
             x + y + z2 <= IF SynHeld(a2) THEN 1 + m2 ELSE IF a2.syn_transmitted THEN 1 + max ELSE 0
    BY ONLY <2>2, <2>3, <2>4, <2>5
  <2> QED
    BY <2>6 DEF Repeats, x, y, max, m, m2, z, z2
<1> QED
  BY <1>1, <1>2, <1>3

\* c2 is c, or what is left when its first frame is read or lost.
Off(c2, c) == c2 = c \/ (c # << >> /\ c2 = Tail(c))

\* A transport that at most lost its first frame.
LEMMA OffCut ==
    ASSUME NEW c \in Seq(Frame), NEW c2, Off(c2, c)
    PROVE  Cut(c2, c) /\ c2 \in Seq(Frame) /\ Syns(c2) <= Syns(c)
<1>1. CASE c2 = c
  BY <1>1, Transports, SynsCount
<1>2. CASE c # << >> /\ c2 = Tail(c)
  <2>1. Tail(c) \in Seq(Frame) /\ Cut(Tail(c), c)
    BY <1>2, Transports
  <2>2. /\ Syns(Tail(c)) \in Nat
        /\ Syns(c) = Syns(Tail(c)) + (IF Head(c).ctl = "SYN" THEN 1 ELSE 0)
    BY <1>2, <2>1, SynsCount
  <2> QED
    BY <1>2, <2>1, <2>2
<1> QED
  BY <1>1, <1>2 DEF Off

\* A step of one end, put together: its ways, and a share of the setup that stays.
\* A frame it sends is no SYN, and acknowledges what it got last.
LEMMA StepOf ==
    ASSUME TypeOK, TypeOK', OrderInv, NEW e \in Endpoint, NEW l2, NEW p \in Frame,
           link' = [link EXCEPT ![e] = l2],
           Way(e, l2, link[Peer(e)], chan'[Peer(e)], chan'[e]),
           Way(Peer(e), link[Peer(e)], l2, chan'[e], chan'[Peer(e)]),
           Ends(l2),
           e = Host => HostSame(link[Host], l2),
           e = Accessory => AccessorySame(link[Accessory], l2),
           Off(chan'[e], chan[e]),
           \/ Off(chan'[Peer(e)], chan[Peer(e)])
           \/ /\ chan'[Peer(e)] = Append(chan[Peer(e)], p) /\ p.ctl # "SYN"
              /\ is_any_ack(p) => p.ack = link[e].peer_seq /\ link[e].peer_seq # NoSeq
    PROVE  OrderInv'
<1> DEFINE h == link[Host]
           a == link[Accessory]
<1>1. /\ a \in LinkState /\ h \in LinkState /\ chan[Host] \in Seq(Frame) /\ chan[Accessory] \in Seq(Frame)
      /\ chan'[Host] \in Seq(Frame) /\ chan'[Accessory] \in Seq(Frame)
      /\ l2 \in LinkState /\ link'[e] = l2 /\ link'[Peer(e)] = link[Peer(e)]
  BY TwoEnds DEF TypeOK
<1>2. HostInv(h, chan[Accessory]) /\ AccessoryInv(a, h) /\ Repeats(a, h, chan[Host])
  BY DEF OrderInv
<1>3. Setup'
  <2>1. CASE e = Host
    <3>1. link'[Host] = l2 /\ link'[Accessory] = a /\ Peer(e) = Accessory
      BY <1>1, <2>1, TwoEnds
    <3>2. Syns(chan'[Host]) <= Syns(chan[Host])
      BY <1>1, <2>1, OffCut
    <3>3. ASSUME h.phase # "Accepted", NEW i \in DOMAIN chan'[Accessory], is_any_ack(chan'[Accessory][i])
          PROVE  chan'[Accessory][i].ack = StartSeq[Accessory]
      <4>1. \A k \in DOMAIN chan[Accessory] :
               is_any_ack(chan[Accessory][k]) => chan[Accessory][k].ack = StartSeq[Accessory]
        BY <1>2, <3>3 DEF HostInv
      <4>2. CASE Off(chan'[Accessory], chan[Accessory])
        <5>0. Cut(chan'[Accessory], chan[Accessory])
          BY <1>1, <4>2, OffCut
        <5>1. \A j \in DOMAIN chan'[Accessory] :
                 \E k \in DOMAIN chan[Accessory] : chan'[Accessory][j] = chan[Accessory][k]
          BY <5>0 DEF Cut
        <5> QED
          BY <3>3, <4>1, <5>1
      <4>3. CASE /\ chan'[Accessory] = Append(chan[Accessory], p)
                 /\ is_any_ack(p) => p.ack = h.peer_seq /\ h.peer_seq # NoSeq
        <5>1. chan'[Accessory][i] = p \/ \E k \in DOMAIN chan[Accessory] : chan'[Accessory][i] = chan[Accessory][k]
          BY <1>1, <3>3, <4>3, Transports
        <5>2. is_any_ack(p) => p.ack = StartSeq[Accessory]
          BY <1>2, <3>3, <4>3 DEF HostInv
        <5> QED
          BY <3>3, <4>1, <5>1, <5>2
      <4> QED
        BY <2>1, <3>1, <4>2, <4>3
    <3>4. HostSame(h, l2)
      BY <2>1
    <3> HIDE DEF h, a
    <3>5. h.phase # "Accepted" =>
             \A i \in DOMAIN chan'[Accessory] :
               is_any_ack(chan'[Accessory][i]) => chan'[Accessory][i].ack = StartSeq[Accessory]
      BY <3>3
    <3>6. HostInv(l2, chan'[Accessory]) /\ AccessoryInv(a, l2) /\ Repeats(a, l2, chan'[Host])
      BY ONLY <1>1, <1>2, <3>2, <3>5, <3>4, HostGoes
    <3> QED
      BY <3>1, <3>6 DEF Setup
  <2>2. CASE e = Accessory
    <3>1. link'[Accessory] = l2 /\ link'[Host] = h /\ Peer(e) = Host
      BY <1>1, <2>2, TwoEnds
    <3>2. Syns(chan'[Host]) <= Syns(chan[Host])
      <4>1. CASE Off(chan'[Host], chan[Host])
        BY <1>1, <4>1, OffCut
      <4>2. CASE chan'[Host] = Append(chan[Host], p) /\ p.ctl # "SYN"
        BY <1>1, <4>2, SynsCount
      <4> QED
        BY <3>1, <4>1, <4>2
    <3>3. Cut(chan'[Accessory], chan[Accessory])
      BY <1>1, <2>2, OffCut
    <3>4. AccessorySame(a, l2) /\ Kept(Accessory, a)
      BY <2>2, TwoEnds DEF OrderInv, Way
    <3> HIDE DEF h, a
    <3>5. HostInv(h, chan'[Accessory]) /\ AccessoryInv(l2, h) /\ Repeats(l2, h, chan'[Host])
      BY <1>1, <1>2, <3>2, <3>3, <3>4, AccessoryGoes
    <3> QED
      BY <3>1, <3>5 DEF Setup
  <2> QED
    BY <2>1, <2>2 DEF Endpoint
<1> QED
  BY <1>3, Assemble

\* A step that neither way notices: what is over stays over, and no message moves.
Quiet(l, l2) ==
    /\ l2.own_seq = l.own_seq /\ l2.peer_ack = l.peer_ack
    /\ l2.retransmit_map = l.retransmit_map
    /\ ReceiverSame(l, l2) /\ NegotiationSame(l, l2)
    /\ is_error(l) => is_error(l2)
    /\ ~is_error(l2) \/ l.phase = "Accepted" => l2.taken = l.taken
    /\ InData(l2) => InData(l)
    /\ InData(l) => InData(l2) \/ is_error(l2)

\* What a quiet step keeps.
LEMMA QuietKeeps ==
    ASSUME NEW l, NEW l2, Quiet(l, l2)
    PROVE  /\ SenderSame(l, l2) /\ ReceiverSame(l, l2)
           /\ HostSame(l, l2) /\ AccessorySame(l, l2)
           /\ Ends(l) => Ends(l2)
<1>1. SenderSame(l, l2)
  BY DEF Quiet, SenderSame, NegotiationSame, Taken
<1>2. ReceiverSame(l, l2) /\ HostSame(l, l2) /\ AccessorySame(l, l2)
  BY DEF Quiet, ReceiverSame, NegotiationSame, HostSame, AccessorySame, SynHeld
<1>3. Ends(l) => Ends(l2)
  BY DEF Quiet, ReceiverSame, NegotiationSame, Ends
<1> QED
  BY <1>1, <1>2, <1>3

\* A step that neither way notices, and a frame that acknowledges at most.
LEMMA QuietStep ==
    ASSUME WindowsFit, TypeOK, TypeOK', OrderInv, NEW e \in Endpoint, NEW l2, NEW p \in Frame,
           link' = [link EXCEPT ![e] = l2], Quiet(link[e], l2),
           Off(chan'[e], chan[e]),
           \/ Off(chan'[Peer(e)], chan[Peer(e)])
           \/ /\ chan'[Peer(e)] = Append(chan[Peer(e)], p)
              /\ FrameFrom(e, l2, p) /\ ~is_ackable(p)
              /\ is_any_ack(p) => p.ack = link[e].peer_seq /\ link[e].peer_seq # NoSeq
    PROVE  OrderInv'
<1> DEFINE l == link[e]
           r == link[Peer(e)]
           c == chan[Peer(e)]
           d == chan[e]
<1>1. /\ Way(e, l, r, c, d) /\ Way(Peer(e), r, l, d, c) /\ Ends(l)
      /\ l \in LinkState /\ r \in LinkState /\ c \in Seq(Frame) /\ d \in Seq(Frame)
      /\ l2 \in LinkState /\ Peer(e) \in Endpoint
      /\ chan'[e] \in Seq(Frame) /\ chan'[Peer(e)] \in Seq(Frame)
  BY BothWays DEF TypeOK
<1>2. /\ SenderSame(l, l2) /\ ReceiverSame(l, l2) /\ Ends(l2)
      /\ HostSame(l, l2) /\ AccessorySame(l, l2)
  BY <1>1, QuietKeeps
<1>3. SenderSame(r, r) /\ ReceiverSame(r, r)
  BY DEF SenderSame, ReceiverSame
<1>4. Cut(chan'[e], d)
  BY <1>1, OffCut
<1>5. CASE Off(chan'[Peer(e)], c)
  <2>1. Cut(chan'[Peer(e)], c)
    BY <1>1, <1>5, OffCut
  <2> HIDE DEF l, r, c, d
  <2>2. /\ Way(e, l2, r, chan'[Peer(e)], chan'[e])
        /\ Way(Peer(e), r, l2, chan'[e], chan'[Peer(e)])
    BY <1>1, <1>2, <1>3, <1>4, <2>1, WayStays
  <2> QED
    BY <1>2, <1>5, <2>2, StepOf DEF l, r, c, d
<1>6. CASE /\ chan'[Peer(e)] = Append(c, p)
           /\ FrameFrom(e, l2, p) /\ ~is_ackable(p)
           /\ is_any_ack(p) => p.ack = l.peer_seq /\ l.peer_seq # NoSeq
  <2>1. Cut(c, c)
    BY <1>1, Transports
  <2> HIDE DEF l, r, c, d
  <2>2. /\ Way(e, l2, r, c, chan'[e])
        /\ Way(Peer(e), r, l2, chan'[e], c)
    BY <1>1, <1>2, <1>3, <1>4, <2>1, WayStays
  <2>3. Way(e, l2, r, Append(c, p), chan'[e])
    BY <1>1, <1>6, <2>2, WaySends
  <2>4. is_any_ack(p) => p.ack = Got(Peer(e), l2)
    BY <1>2, <1>6 DEF ReceiverSame, Got
  <2>5. Way(Peer(e), r, l2, chan'[e], Append(c, p))
    BY <1>1, <2>2, <2>4, WayAcknowledges
  <2>6. p.ctl # "SYN"
    BY <1>6 DEF is_ackable
  <2> QED
    BY <1>2, <1>6, <2>3, <2>5, <2>6, StepOf DEF l, r, c, d
<1> QED
  BY <1>5, <1>6

\* Only flags and queues differ.
FlagsDiffer(l, l1) == StatusDiffers(l, l1) /\ l1.status = l.status

\* What next_transmit() and the owner's requests change beside the status.
LEMMA FlagForms ==
    ASSUME NEW l \in LinkState
    PROVE  /\ FlagsDiffer(l, l)
           /\ FlagsDiffer(l, [l EXCEPT !.lingo = @ - 1])
           /\ FlagsDiffer(l, [l EXCEPT !.detect_ack = FALSE])
           /\ FlagsDiffer(l, [l EXCEPT !.detect_ack = TRUE])
           /\ FlagsDiffer(l, [l EXCEPT !.detect_transmitted = TRUE])
           /\ FlagsDiffer(l, reset_pending_ack(l))
           /\ \A q : FlagsDiffer(l, [l EXCEPT !.csm = q])
           /\ FlagsDiffer(l, [l EXCEPT !.lingo = @ + 1, !.lingo_sent = @ + 1])
<1>1. /\ FlagsDiffer(l, l)
      /\ FlagsDiffer(l, [l EXCEPT !.lingo = @ - 1])
  BY DEF LinkState, FlagsDiffer, StatusDiffers, ReceiverSame, NegotiationSame
<1>2. /\ FlagsDiffer(l, [l EXCEPT !.detect_ack = FALSE])
      /\ FlagsDiffer(l, [l EXCEPT !.detect_ack = TRUE])
  BY DEF LinkState, FlagsDiffer, StatusDiffers, ReceiverSame, NegotiationSame
<1>3. FlagsDiffer(l, [l EXCEPT !.detect_transmitted = TRUE])
  BY DEF LinkState, FlagsDiffer, StatusDiffers, ReceiverSame, NegotiationSame
<1>4. FlagsDiffer(l, reset_pending_ack(l))
  BY DEF LinkState, FlagsDiffer, StatusDiffers, ReceiverSame, NegotiationSame, reset_pending_ack
<1>5. \A q : FlagsDiffer(l, [l EXCEPT !.csm = q])
  BY DEF LinkState, FlagsDiffer, StatusDiffers, ReceiverSame, NegotiationSame
<1>6. FlagsDiffer(l, [l EXCEPT !.lingo = @ + 1, !.lingo_sent = @ + 1])
  BY DEF LinkState, FlagsDiffer, StatusDiffers, ReceiverSame, NegotiationSame
<1> QED
  BY <1>1, <1>2, <1>3, <1>4, <1>5, <1>6

\* Such changes are quiet, with and without a new status.
LEMMA FlagsQuiet ==
    ASSUME NEW l, NEW l1 \in LinkState, FlagsDiffer(l, l1)
    PROVE  /\ Quiet(l, l1)
           /\ Quiet(l, refresh_data_status(l1))
           /\ \A err \in LinkError : Quiet(l, enter_error_state(l1, err))
           /\ \A st \in {"Detecting", "Negotiating", "Downgrade"} :
                ~InData(l) /\ ~is_error(l) => Quiet(l, [l1 EXCEPT !.status = st])
<1>1. InData(l1) <=> InData(l)
  BY DEF FlagsDiffer, InData
<1>2. is_error(l1) <=> is_error(l)
  BY DEF FlagsDiffer, is_error
<1>3. Quiet(l, l1)
  BY <1>1, <1>2 DEF FlagsDiffer, StatusDiffers, Quiet
<1>4. Quiet(l, refresh_data_status(l1))
  <2> DEFINE u == refresh_data_status(l1)
  <2>1. StatusDiffers(l1, u) /\ (InData(u) <=> InData(l1)) /\ (~InData(l1) => u = l1)
    BY RefreshOnly
  <2> HIDE DEF u
  <2>2. StatusDiffers(l, u)
    BY <2>1 DEF FlagsDiffer, StatusDiffers, ReceiverSame, NegotiationSame
  <2>3. is_error(l) => is_error(u)
    BY <1>1, <1>2, <2>1, ErrorData
  <2> QED
    BY <1>1, <2>1, <2>2, <2>3 DEF StatusDiffers, Quiet, u
<1>5. ASSUME NEW err \in LinkError
      PROVE  Quiet(l, enter_error_state(l1, err))
  <2> DEFINE u == enter_error_state(l1, err)
  <2>1. StatusDiffers(l1, u) /\ u.status = err
    BY StatusOnly DEF enter_error_state
  <2> HIDE DEF u
  <2>2. StatusDiffers(l, u)
    BY <2>1 DEF FlagsDiffer, StatusDiffers, ReceiverSame, NegotiationSame
  <2>3. is_error(u)
    BY <2>1 DEF is_error
  <2> QED
    BY <2>2, <2>3, ErrorData DEF StatusDiffers, Quiet, u
<1>6. ASSUME NEW st \in {"Detecting", "Negotiating", "Downgrade"}, ~InData(l), ~is_error(l)
      PROVE  Quiet(l, [l1 EXCEPT !.status = st])
  <2> DEFINE u == [l1 EXCEPT !.status = st]
  <2>1. StatusDiffers(l1, u) /\ u.status = st
    BY StatusOnly
  <2> HIDE DEF u
  <2>2. StatusDiffers(l, u)
    BY <2>1 DEF FlagsDiffer, StatusDiffers, ReceiverSame, NegotiationSame
  <2>3. ~InData(u)
    BY <2>1, StatusSets DEF InData
  <2> QED
    BY <1>6, <2>2, <2>3 DEF StatusDiffers, Quiet, u
<1> QED
  BY <1>3, <1>4, <1>5, <1>6

\* Changes of one end that send nothing.
LEMMA QuietQuit ==
    ASSUME WindowsFit, TypeOK, TypeOK', OrderInv, NEW e \in Endpoint, NEW l2,
           Quit(e, l2), Quiet(link[e], l2)
    PROVE  OrderInv'
<1>1. link' = [link EXCEPT ![e] = l2] /\ chan' = chan
  BY DEF Quit, Update
<1>2. Off(chan'[e], chan[e]) /\ Off(chan'[Peer(e)], chan[Peer(e)])
  BY <1>1 DEF Off
<1> QED
  BY <1>1, <1>2, ResetFrame, QuietStep

\* A frame that acknowledges at most, from one end.
LEMMA QuietSend ==
    ASSUME WindowsFit, TypeOK, TypeOK', OrderInv, NEW e \in Endpoint, NEW l1 \in LinkState,
           NEW p \in Frame, Send(e, l1, p), FlagsDiffer(link[e], l1),
           p.ctl \notin {"SYN", "SYNACK"}, p.msg = NoMsg,
           p.ctl \in {"ACK", "EAK"} => /\ InData(link[e]) /\ link[e].peer_seq # NoSeq
                                       /\ p.ack = link[e].peer_seq
    PROVE  OrderInv'
<1> DEFINE l2 == refresh_data_status(l1)
<1>1. link' = [link EXCEPT ![e] = l2] /\ chan' = [chan EXCEPT ![Peer(e)] = Append(@, p)]
  BY DEF Send, Update
<1>2. Quiet(link[e], l2)
  BY FlagsQuiet
<1> HIDE DEF l2
<1>3. chan'[e] = chan[e] /\ chan'[Peer(e)] = Append(chan[Peer(e)], p)
  BY <1>1, TwoEnds DEF TypeOK
<1>4. FrameFrom(e, l2, p)
  <2>1. InData(link[e]) => link[e].phase = "Accepted"
    BY BothWays DEF Ends
  <2>2. l2.phase = link[e].phase
    BY <1>2 DEF Quiet, NegotiationSame
  <2> QED
    BY <2>1, <2>2 DEF FrameFrom, is_ackable
<1>5. ~is_ackable(p)
  BY DEF is_ackable
<1>6. is_any_ack(p) => p.ack = link[e].peer_seq /\ link[e].peer_seq # NoSeq
  BY DEF is_any_ack
<1> QED
  BY <1>1, <1>2, <1>3, <1>4, <1>5, <1>6, QuietStep DEF Off

\* The iAP1 branches of next_transmit() keep OrderInv.
LEMMA LegacyTransmitOrder ==
    ASSUME WindowsFit, TypeOK, TypeOK', OrderInv, NEW e \in Endpoint,
           TransmitLegacy(e) \/ RefuseUpgrade(e)
    PROVE  OrderInv'
<1> DEFINE l == link[e]
           l1 == [l EXCEPT !.lingo = @ - 1]
<1>0. l \in LinkState /\ Ends(l)
  BY BothWays
<1>1. "AttemptedDowngrade" \in LinkError /\ "AttemptedUpgrade" \in LinkError
  BY DEF LinkError
<1>2. CASE TransmitLegacy(e)
  <2>1. l.lingo > 0 /\ (Send(e, l1, Bare("LEGACY")) \/ Quit(e, enter_error_state(l1, "AttemptedDowngrade")))
    BY <1>2 DEF TransmitLegacy
  <2>2. FlagsDiffer(l, l1)
    BY <1>0, FlagForms
  <2> HIDE DEF l
  <2>3. l1 \in LinkState
    <3>1. l.lingo - 1 \in Nat
      BY <1>0, <2>1 DEF LinkState
    <3> QED
      BY <1>0, <3>1 DEF LinkState
  <2> USE DEF l
  <2>4. Bare("LEGACY") \in Frame /\ Bare("LEGACY").ctl = "LEGACY" /\ Bare("LEGACY").msg = NoMsg
    BY FrameTypes, SeqModAssumption, LspAssumption DEF SeqNum, Bare
  <2> HIDE DEF l1
  <2>5. CASE Send(e, l1, Bare("LEGACY"))
    BY <2>2, <2>3, <2>4, <2>5, QuietSend
  <2>6. CASE Quit(e, enter_error_state(l1, "AttemptedDowngrade"))
    BY <1>1, <2>2, <2>3, <2>6, FlagsQuiet, QuietQuit
  <2> QED
    BY <2>1, <2>5, <2>6
<1>3. CASE RefuseUpgrade(e)
  <2> DEFINE m == enter_error_state(dequeue_tx(l), "AttemptedUpgrade")
  <2>1. is_downgrade(l) /\ Quit(e, m)
    BY <1>3 DEF RefuseUpgrade
  <2>2. ~InData(l) /\ ~is_error(l) /\ l.phase # "Accepted"
    BY <1>0, <2>1, ErrorData DEF Ends
  <2>3. /\ m.own_seq = l.own_seq /\ m.peer_ack = l.peer_ack
        /\ m.retransmit_map = l.retransmit_map
        /\ ReceiverSame(l, m) /\ NegotiationSame(l, m)
        /\ m.status = "AttemptedUpgrade"
    BY <1>0 DEF LinkState, enter_error_state, dequeue_tx, ReceiverSame, NegotiationSame
  <2> HIDE DEF m, l
  <2>4. is_error(m) /\ ~InData(m)
    BY <1>1, <2>3, ErrorData DEF is_error
  <2>5. Quiet(l, m)
    BY <2>2, <2>3, <2>4 DEF Quiet
  <2> QED
    BY <2>1, <2>5, QuietQuit DEF l
<1> QED
  BY <1>2, <1>3

\* The DETECT branches of next_transmit() keep OrderInv.
LEMMA DetectTransmitOrder ==
    ASSUME WindowsFit, TypeOK, TypeOK', OrderInv, AcknowledgeDetect \/ TransmitDetect
    PROVE  OrderInv'
<1>1. Bare("DETECT") \in Frame /\ Bare("DETECT").ctl = "DETECT" /\ Bare("DETECT").msg = NoMsg
  BY FrameTypes, SeqModAssumption, LspAssumption DEF SeqNum, Bare
<1>2. link[Host] \in LinkState /\ link[Accessory] \in LinkState /\ Host \in Endpoint /\ Accessory \in Endpoint
  BY TwoEnds DEF TypeOK
<1>3. CASE AcknowledgeDetect
  <2>1. [link[Host] EXCEPT !.detect_ack = FALSE] \in LinkState
    BY <1>2 DEF LinkState
  <2>2. FlagsDiffer(link[Host], [link[Host] EXCEPT !.detect_ack = FALSE])
    BY <1>2, FlagForms
  <2> QED
    BY <1>1, <1>2, <1>3, <2>1, <2>2, QuietSend DEF AcknowledgeDetect
<1>4. CASE TransmitDetect
  <2>1. [link[Accessory] EXCEPT !.detect_transmitted = TRUE] \in LinkState
    BY <1>2 DEF LinkState
  <2>2. FlagsDiffer(link[Accessory], [link[Accessory] EXCEPT !.detect_transmitted = TRUE])
    BY <1>2, FlagForms
  <2> QED
    BY <1>1, <1>2, <1>4, <2>1, <2>2, QuietSend DEF TransmitDetect
<1> QED
  BY <1>3, <1>4

\* The fields of an empty ACK and of an EAK.
LEMMA AckFields ==
    ASSUME NEW s, NEW k, NEW m, NEW n, NEW q
    PROVE  /\ new_ack(s, k, m, n).ctl = "ACK" /\ new_ack(s, k, m, n).ack = k
           /\ new_ack(s, k, m, n).seq = s
           /\ new_ack(s, k, m, n).msg = m /\ new_ack(s, k, m, n).len = n
           /\ new_eak(s, k, q).ctl = "EAK" /\ new_eak(s, k, q).ack = k
           /\ new_eak(s, k, q).msg = NoMsg
           /\ new_syn(s, q).ctl = "SYN" /\ new_syn(s, q).seq = s /\ new_syn(s, q).lsp = q
           /\ new_syn_ack(s, k, q).ctl = "SYNACK" /\ new_syn_ack(s, k, q).ack = k
           /\ new_syn_ack(s, k, q).seq = s /\ new_syn_ack(s, k, q).lsp = q
BY DEF new_ack, new_eak, new_syn, new_syn_ack, Bare

\* An empty ACK keeps OrderInv.
LEMMA EmptyAckOrder ==
    ASSUME WindowsFit, TypeOK, TypeOK', OrderInv, NEW e \in Endpoint, TransmitEmptyAck(e)
    PROVE  OrderInv'
<1> DEFINE l == link[e]
           p == new_ack(SeqSub(l.own_seq, 1), l.peer_seq, NoMsg, 0)
<1>0. l \in LinkState
  BY DEF TypeOK
<1>1. InData(l) /\ l.peer_seq # NoSeq /\ Send(e, reset_pending_ack(l), p)
  BY DEF TransmitEmptyAck
<1>2. l.own_seq \in SeqNum /\ l.peer_seq \in SeqNum /\ l.own_seq \in Int
  BY <1>0, <1>1, SeqModAssumption DEF LinkState, SeqNum
<1>3. SeqSub(l.own_seq, 1) \in SeqNum
  BY <1>2, SeqArithmetic
<1>4. p \in Frame
  BY <1>2, <1>3, FrameTypes, LspAssumption DEF NoMsg
<1>5. reset_pending_ack(l) \in LinkState /\ FlagsDiffer(l, reset_pending_ack(l))
  BY <1>0, ResetPendingAckType, FlagForms
<1>6. p.ctl = "ACK" /\ p.ack = l.peer_seq /\ p.msg = NoMsg
  BY AckFields
<1> HIDE DEF p
<1> QED
  BY <1>1, <1>4, <1>5, <1>6, QuietSend

\* The requests of the owner keep OrderInv.
LEMMA OwnerOrder ==
    ASSUME WindowsFit, TypeOK, TypeOK', OrderInv, NEW e \in Endpoint,
           Enqueue(e) \/ EnqueueLingo(e) \/ Close(e) \/ Downgrade
    PROVE  OrderInv'
<1>1. link[e] \in LinkState /\ TypeOK
  BY DEF TypeOK
<1>2. CASE Enqueue(e)
  <2>1. PICK q : Quit(e, [link[e] EXCEPT !.csm = q])
    BY <1>2 DEF Enqueue
  <2>2. FlagsDiffer(link[e], [link[e] EXCEPT !.csm = q])
    BY <1>1, FlagForms
  <2>3. [link[e] EXCEPT !.csm = q] \in LinkState
    <3>1. link'[e] = [link[e] EXCEPT !.csm = q]
      BY <2>1 DEF Quit, Update, TypeOK
    <3> QED
      BY <3>1 DEF TypeOK
  <2> QED
    BY <2>1, <2>2, <2>3, FlagsQuiet, QuietQuit
<1>3. CASE EnqueueLingo(e)
  <2> DEFINE m == [link[e] EXCEPT !.lingo = @ + 1, !.lingo_sent = @ + 1]
  <2>1. Quit(e, m)
    BY <1>3 DEF EnqueueLingo
  <2>2. FlagsDiffer(link[e], m)
    BY <1>1, FlagForms
  <2> HIDE DEF m
  <2>3. m \in LinkState
    <3>1. link'[e] = m
      BY <2>1 DEF Quit, Update, TypeOK
    <3> QED
      BY <3>1 DEF TypeOK
  <2> QED
    BY <2>1, <2>2, <2>3, FlagsQuiet, QuietQuit
<1>4. CASE Close(e)
  <2>1. "Eof" \in LinkError
    BY DEF LinkError
  <2>2. FlagsDiffer(link[e], link[e])
    BY <1>1, FlagForms
  <2>3. Quiet(link[e], enter_error_state(link[e], "Eof"))
    BY <1>1, <2>1, <2>2, FlagsQuiet
  <2> QED
    BY <1>4, <2>3, QuietQuit DEF Close
<1>5. CASE Downgrade
  <2> DEFINE a == link[Accessory]
  <2>1. Accessory \in Endpoint /\ a \in LinkState
    BY TwoEnds DEF TypeOK
  <2>2. a.status \in {"Detecting", "Downgrade"} /\ Quit(Accessory, [a EXCEPT !.status = "Downgrade"])
    BY <1>5 DEF Downgrade, can_downgrade
  <2>3. ~InData(a) /\ ~is_error(a)
    BY <2>2, ErrorData, StatusSets DEF is_downgrade, InData
  <2>4. FlagsDiffer(a, a)
    BY <2>1, FlagForms
  <2>5. Quiet(a, [a EXCEPT !.status = "Downgrade"])
    BY <2>1, <2>3, <2>4, FlagsQuiet
  <2> QED
    BY <2>1, <2>2, <2>5, QuietQuit
<1> QED
  BY <1>2, <1>3, <1>4, <1>5

\* A lost frame keeps OrderInv.
LEMMA LossOrder ==
    ASSUME WindowsFit, TypeOK, TypeOK', OrderInv, NEW e \in Endpoint, Lose(e)
    PROVE  OrderInv'
<1>1. /\ chan[e] # << >> /\ chan' = [chan EXCEPT ![e] = Tail(@)] /\ link' = link
  BY DEF Lose
<1>2. /\ chan'[e] = Tail(chan[e]) /\ chan'[Peer(e)] = chan[Peer(e)]
      /\ link' = [link EXCEPT ![e] = link[e]] /\ link[e] \in LinkState
  BY <1>1, TwoEnds DEF TypeOK
<1>3. Quiet(link[e], link[e])
  BY <1>2, FlagForms, FlagsQuiet
<1> QED
  BY <1>1, <1>2, <1>3, ResetFrame, QuietStep DEF Off

\* An EAK or RST of another implementation keeps OrderInv.
LEMMA ExternalOrder ==
    ASSUME WindowsFit, TypeOK, TypeOK', OrderInv, NEW e \in Endpoint, SendEak(e) \/ SendReset
    PROVE  OrderInv'
<1>1. ASSUME NEW f \in Endpoint, NEW q \in Frame, link' = link,
             chan' = [chan EXCEPT ![Peer(f)] = Append(@, q)],
             q.ctl = "RST" \/ (q.ctl = "EAK" /\ InData(link[f]) /\ link[f].peer_seq # NoSeq
                               /\ q.ack = link[f].peer_seq)
      PROVE  OrderInv'
  <2>1. /\ chan'[f] = chan[f] /\ chan'[Peer(f)] = Append(chan[Peer(f)], q)
        /\ link' = [link EXCEPT ![f] = link[f]] /\ link[f] \in LinkState
    BY <1>1, TwoEnds DEF TypeOK
  <2>2. Quiet(link[f], link[f])
    BY <2>1, FlagForms, FlagsQuiet
  <2>3. InData(link[f]) => link[f].phase = "Accepted"
    BY BothWays DEF Ends
  <2>4. FrameFrom(f, link[f], q) /\ ~is_ackable(q)
    BY <1>1, <2>3 DEF FrameFrom, is_ackable
  <2>5. is_any_ack(q) => q.ack = link[f].peer_seq /\ link[f].peer_seq # NoSeq
    BY <1>1 DEF is_any_ack
  <2> QED
    BY <1>1, <2>1, <2>2, <2>4, <2>5, QuietStep DEF Off
<1>2. CASE SendEak(e)
  <2> DEFINE q == new_eak(link[e].own_seq, link[e].peer_seq, SeqAdd(link[e].peer_seq, 1))
  <2>1. q \in Frame
    BY <1>2, EakFrame
  <2>2. /\ chan' = [chan EXCEPT ![Peer(e)] = Append(@, q)] /\ link' = link
        /\ InData(link[e]) /\ link[e].peer_seq # NoSeq
    BY <1>2 DEF SendEak
  <2>3. q.ctl = "EAK" /\ q.ack = link[e].peer_seq
    BY AckFields
  <2> HIDE DEF q
  <2> QED
    BY <1>1, <2>1, <2>2, <2>3
<1>3. CASE SendReset
  <2>1. Bare("RST").ctl = "RST"
    BY DEF Bare
  <2>2. /\ chan' = [chan EXCEPT ![Peer(Host)] = Append(@, Bare("RST"))] /\ link' = link
        /\ Host \in Endpoint
    BY <1>3, TwoEnds DEF SendReset
  <2> QED
    BY <1>1, <2>1, <2>2, ResetFrame
<1> QED
  BY <1>2, <1>3

\* Before the offer is accepted, no more is unacknowledged than was sent.
LEMMA EarlyWindow ==
    ASSUME NEW e \in Endpoint, NEW l \in LinkState, NEW r \in LinkState, NEW c, NEW d,
           Way(e, l, r, c, d), ~is_error(l), l.phase # "Accepted"
    PROVE  Age(l, Acked(e, l)) <= Age(l, StartSeq[e]) + 1
<1> DEFINE P == Age(l, Acked(e, l))
           s == SeqSub(l.own_seq, P - 1)
<1>1. /\ P \in Nat /\ P < SeqMod /\ l.own_seq \in SeqNum /\ StartSeq[e] \in SeqNum
      /\ Age(l, StartSeq[e]) \in Nat /\ SeqMod \in Nat
  BY AgeTypes, SeqModAssumption
<1>2. CASE P <= 1
  BY <1>1, <1>2
<1>3. CASE ~(P <= 1)
  <2> HIDE DEF P
  <2>1. P - 1 \in SeqNum /\ P - 1 \in 1..(P - 1)
    BY <1>1, <1>3 DEF SeqNum
  <2>2. s \in SeqNum /\ Age(l, s) = P - 1
    BY <1>1, <2>1, SeqCases, AgeSteps DEF Age
  <2> HIDE DEF s
  <2>3. s \in Held(l)
    BY <2>1, <2>2 DEF Way, Kept, P
  <2>4. Age(l, s) <= Age(l, StartSeq[e])
    BY <2>3 DEF Way, Kept, FrameFrom
  <2>5. P <= Age(l, StartSeq[e]) + 1
    BY ONLY <1>1, <2>2, <2>4
  <2> QED
    BY <2>5 DEF P
<1> QED
  BY <1>2, <1>3

\* The next number is one old once it is taken, and the others are one older.
LEMMA NextNumber ==
    ASSUME NEW l \in LinkState, NEW l2, l2.own_seq = SeqAdd(l.own_seq, 1)
    PROVE  /\ Age(l2, l.own_seq) = 1
           /\ \A s \in SeqNum : Age(l, s) < HALF => Age(l2, s) = Age(l, s) + 1
<1>1. l.own_seq \in SeqNum
  BY DEF LinkState
<1>2. \A s \in SeqNum : Age(l2, s) = IF Age(l, s) = SeqMod - 1 THEN 0 ELSE Age(l, s) + 1
  BY ONLY <1>1, AgeNext, l2.own_seq = SeqAdd(l.own_seq, 1) DEF Age
<1>3. \A s \in SeqNum : Age(l, s) \in Nat
  <2>1. \A s \in SeqNum : Age(l, s) \in SeqNum
    BY <1>1, SeqCases DEF Age
  <2> QED
    BY <2>1, SeqModAssumption DEF SeqNum
<1>4. Age(l, l.own_seq) = 0
  <2>1. 0 \in SeqNum
    BY SeqModAssumption DEF SeqNum
  <2> QED
    BY <1>1, <2>1, AgeSteps DEF Age
<1>5. HALF \in Nat \ {0} /\ SeqMod = 2 * HALF
  BY HalfRange
<1>6. ASSUME NEW s \in SeqNum, Age(l, s) < HALF
      PROVE  Age(l2, s) = Age(l, s) + 1
  <2> DEFINE n == Age(l, s)
  <2>1. n \in Nat /\ n < HALF
    BY <1>3, <1>6
  <2> HIDE DEF n
  <2>2. n # SeqMod - 1
    BY ONLY <1>5, <2>1
  <2> QED
    BY <1>2, <2>2 DEF n
<1>7. Age(l2, l.own_seq) = 1
  BY <1>1, <1>4, <1>5, <1>6
<1> QED
  BY <1>6, <1>7

\* The SYN+ACK of the host keeps OrderInv.
LEMMA SynAckOrder ==
    ASSUME WindowsFit, TypeOK, TypeOK', OrderInv, NEW e \in Endpoint, TransmitSynAck(e)
    PROVE  OrderInv'
<1> DEFINE l == link[e]
           r == link[Peer(e)]
           c == chan[Peer(e)]
           d == chan[e]
           p == new_syn_ack(l.own_seq, l.peer_seq, l.offer)
           l1 == [prepare_ackable(take_own_seq(l), p) EXCEPT !.phase = "Start", !.pending = FALSE]
           l2 == refresh_data_status(l1)
<1>1. /\ Way(e, l, r, c, d) /\ Way(Peer(e), r, l, d, c) /\ Ends(l)
      /\ l \in LinkState /\ r \in LinkState /\ c \in Seq(Frame) /\ d \in Seq(Frame)
      /\ Peer(e) \in Endpoint /\ Peer(e) # e
      /\ HostInv(link[Host], chan[Accessory]) /\ AccessoryInv(link[Accessory], link[Host])
      /\ Repeats(link[Accessory], link[Host], chan[Host])
  BY BothWays DEF Setup
<1>2. /\ l.status = "Negotiating" /\ l.phase = "Offering" /\ l.peer_seq # NoSeq
      /\ Send(e, l1, p)
  BY DEF TransmitSynAck, HasPendingTx
<1>3. e = Host /\ Peer(e) = Accessory
  <2>1. e # Accessory
    BY <1>1, <1>2 DEF AccessoryInv
  <2> QED
    BY <2>1, TwoEnds
<1>4. p \in Frame /\ p.ctl = "SYNACK" /\ p.seq = l.own_seq /\ p.ack = l.peer_seq /\ p.lsp = l.offer
  <2>1. l.own_seq \in SeqNum /\ l.peer_seq \in SeqNum /\ l.offer \in Lsp
    BY <1>1, <1>2 DEF LinkState
  <2>2. p \in Frame
    BY <2>1, FrameTypes
  <2>3. p.ctl = "SYNACK" /\ p.seq = l.own_seq /\ p.ack = l.peer_seq /\ p.lsp = l.offer
    BY DEF new_syn_ack, Bare
  <2> QED
    BY <2>2, <2>3
<1> HIDE DEF p
<1>5. link' = [link EXCEPT ![e] = l2] /\ chan' = [chan EXCEPT ![Peer(e)] = Append(@, p)]
  BY <1>2 DEF Send, Update
<1>6. /\ l1.own_seq = SeqAdd(l.own_seq, 1) /\ l1.peer_ack = l.peer_ack /\ l1.phase = "Start"
      /\ l1.retransmit_map = [l.retransmit_map EXCEPT ![l.own_seq] = [p |-> p, retries |-> 0]]
      /\ l1.offer = l.offer /\ l1.accepted_peer_lsp = l.accepted_peer_lsp /\ l1.taken = l.taken
      /\ l1.status = l.status /\ ReceiverSame(l, l1) /\ l1 \in LinkState
  <2>1. prepare_ackable(take_own_seq(l), p) \in LinkState
    BY <1>1, <1>4, AckableSendType
  <2>2. l1 \in LinkState
    BY <2>1 DEF LinkState
  <2>3. /\ l1.own_seq = SeqAdd(l.own_seq, 1) /\ l1.peer_ack = l.peer_ack /\ l1.phase = "Start"
        /\ l1.offer = l.offer /\ l1.accepted_peer_lsp = l.accepted_peer_lsp /\ l1.taken = l.taken
        /\ l1.status = l.status /\ ReceiverSame(l, l1)
    BY <1>1 DEF LinkState, prepare_ackable, take_own_seq, ReceiverSame
  <2>4. l1.retransmit_map = [l.retransmit_map EXCEPT ![l.own_seq] = [p |-> p, retries |-> 0]]
    BY <1>1, <1>4 DEF LinkState, prepare_ackable, take_own_seq
  <2> QED
    BY <2>2, <2>3, <2>4
<1>7. ~InData(l) /\ ~is_error(l) /\ l.phase # "Accepted"
  BY <1>2, ErrorData
<1> HIDE DEF l1, l, r, c, d
<1>8. l2 = l1
  <2>1. ~InData(l1)
    BY <1>2, <1>6, ErrorData
  <2> QED
    BY <1>6, <2>1, RefreshOnly
<1> HIDE DEF l2
<1>9. /\ chan'[e] = d /\ chan'[Peer(e)] = Append(c, p) /\ link'[e] = l1 /\ link'[Peer(e)] = r
  BY <1>1, <1>5, <1>8 DEF TypeOK, l, r, c, d
<1> DEFINE A == Age(l, StartSeq[e])
           P == Age(l, Acked(e, l))
           max == max_retransmissions[Negotiating_Lsp]
<1>10. /\ A \in Nat /\ P \in Nat /\ max \in Nat /\ HALF \in Nat /\ StartSeq[e] \in SeqNum
       /\ l.own_seq \in SeqNum
  BY <1>1, AgeTypes, LspAssumption, HalfRange
<1>11. A <= max /\ A + 1 < HALF
  <2> DEFINE n == r.retransmit_map[StartSeq[Accessory]].retries
  <2>1. /\ Syns(d) \in Nat /\ n \in Nat /\ Accessory \in Endpoint /\ Host \in Endpoint
    BY <1>1, RepeatsTypes, TwoEnds
  <2>2. /\ SynHeld(r) => n <= max
        /\ A + 1 + Syns(d) <= IF SynHeld(r) THEN 1 + n ELSE IF r.syn_transmitted THEN 1 + max ELSE 0
    BY <1>1, <1>2, <1>3 DEF Repeats, l, r, d
  <2>3. max + 1 < HALF
    BY DEF WindowsFit
  <2> HIDE DEF n, A, max
  <2> QED
    BY ONLY <1>10, <2>1, <2>2, <2>3
<1>12. P <= A + 1
  BY <1>1, <1>7, EarlyWindow
<1>13. A < HALF /\ P < HALF
  BY ONLY <1>10, <1>11, <1>12
<1>14. Age(l1, l.own_seq) = 1 /\ Age(l1, StartSeq[e]) = A + 1
  BY <1>1, <1>6, <1>10, <1>13, NextNumber
<1>15. l.offer = Offer /\ l.taken = 0
  BY <1>1, <1>2, <1>3, <1>7 DEF HostInv, Ends, l
<1>16. is_ackable(p) /\ FrameFrom(e, l1, p)
  <2>1. Taken(l1) = 0
    BY <1>6 DEF Taken
  <2>2. 1 <= A + 1
    BY <1>10
  <2> QED
    BY <1>3, <1>4, <1>14, <1>15, <2>1, <2>2 DEF is_ackable, FrameFrom
<1>17. Way(e, l1, r, c, d)
  BY <1>1, <1>4, <1>6, <1>7, <1>13, <1>16, WayAdvances
<1>18. Way(e, l1, r, Append(c, p), d)
  <2>1. 1 < HALF
    BY ONLY <1>10, <1>11
  <2> QED
    BY <1>1, <1>4, <1>6, <1>14, <1>16, <1>17, <2>1, WaySends
<1>19. Way(Peer(e), r, l1, d, Append(c, p))
  <2>1. SenderSame(r, r) /\ Cut(c, c) /\ Cut(d, d)
    BY <1>1, Transports DEF SenderSame
  <2>2. Way(Peer(e), r, l1, d, c)
    BY <1>1, <1>6, <2>1, WayStays
  <2>3. p.ack = Got(Peer(e), l1)
    BY <1>2, <1>4, <1>6 DEF Got, ReceiverSame, l
  <2> QED
    BY <1>1, <1>4, <1>6, <2>2, <2>3, WayAcknowledges
<1>20. Ends(l1)
  BY <1>1, <1>6, <1>7, <1>15 DEF Ends, InData, is_error, ReceiverSame
<1>21. Setup'
  <2>1. HostInv(l1, Append(c, p))
    <3>1. l.peer_seq = StartSeq[Accessory]
      BY <1>1, <1>2, <1>3, <1>7 DEF HostInv, l
    <3>2. \A i \in DOMAIN Append(c, p) : Append(c, p)[i] = p \/ \E k \in DOMAIN c : Append(c, p)[i] = c[k]
      BY <1>1, <1>4, Transports
    <3>3. HostInv(l, c)
      BY <1>1, <1>3 DEF l, c
    <3> QED
      BY <1>4, <1>6, <1>7, <3>1, <3>2, <3>3 DEF HostInv, ReceiverSame
  <2>2. AccessoryInv(r, l1)
    BY <1>1, <1>3, <1>6 DEF AccessoryInv, r, l
  <2>3. Repeats(r, l1, d)
    <3>1. Repeats(r, l, d)
      BY <1>1, <1>3 DEF l, r, d
    <3>2. Syns(d) \in Nat
      BY <1>1, SynsCount
    <3>3. (A + 1) + 0 + Syns(d) = A + 1 + Syns(d)
      BY ONLY <1>10, <3>2
    <3> QED
      BY <1>2, <1>3, <1>6, <1>14, <3>1, <3>3 DEF Repeats, l
  <2> QED
    BY <1>3, <1>9, <2>1, <2>2, <2>3 DEF Setup
<1> QED
  <2>1. link' = [link EXCEPT ![e] = l1]
    BY <1>5, <1>8
  <2> QED
    BY <1>9, <1>18, <1>19, <1>20, <1>21, <2>1, Assemble DEF r

\* The final ACK of the accessory keeps OrderInv.
LEMMA FinalAckOrder ==
    ASSUME WindowsFit, TypeOK, TypeOK', OrderInv, NEW e \in Endpoint, TransmitFinalAck(e)
    PROVE  OrderInv'
<1> DEFINE l == link[e]
           r == link[Peer(e)]
           c == chan[Peer(e)]
           d == chan[e]
           p == new_ack(SeqSub(l.own_seq, 1), l.peer_seq, NoMsg, 0)
           l1 == [l EXCEPT !.phase = "Accepted", !.pending = FALSE, !.status = "Writable"]
           l2 == refresh_data_status(l1)
<1>1. /\ Way(e, l, r, c, d) /\ Way(Peer(e), r, l, d, c) /\ Ends(l)
      /\ l \in LinkState /\ r \in LinkState /\ c \in Seq(Frame) /\ d \in Seq(Frame)
      /\ Peer(e) \in Endpoint /\ Peer(e) # e
      /\ HostInv(link[Host], chan[Accessory]) /\ AccessoryInv(link[Accessory], link[Host])
      /\ Repeats(link[Accessory], link[Host], chan[Host])
  BY BothWays DEF Setup
<1>2. /\ l.status = "Negotiating" /\ l.phase = "Accepting" /\ l.peer_seq # NoSeq
      /\ Send(e, l1, p)
  BY DEF TransmitFinalAck, HasPendingTx
<1>3. e = Accessory /\ Peer(e) = Host
  <2>1. e # Host
    BY <1>1, <1>2 DEF HostInv
  <2> QED
    BY <2>1, TwoEnds
<1>4. p \in Frame /\ p.ctl = "ACK" /\ p.ack = l.peer_seq /\ p.msg = NoMsg
  <2>1. l.own_seq \in SeqNum /\ l.peer_seq \in SeqNum /\ l.own_seq \in Int
    BY <1>1, <1>2, SeqModAssumption DEF LinkState, SeqNum
  <2>2. SeqSub(l.own_seq, 1) \in SeqNum
    BY <2>1, SeqArithmetic
  <2>3. p \in Frame
    BY <2>1, <2>2, FrameTypes, LspAssumption DEF NoMsg
  <2>4. p.ctl = "ACK" /\ p.ack = l.peer_seq /\ p.msg = NoMsg
    BY DEF new_ack, Bare
  <2> QED
    BY <2>3, <2>4
<1> HIDE DEF p
<1>5. link' = [link EXCEPT ![e] = l2] /\ chan' = [chan EXCEPT ![Peer(e)] = Append(@, p)]
  BY <1>2 DEF Send, Update
<1>6. /\ l1.own_seq = l.own_seq /\ l1.peer_ack = l.peer_ack /\ l1.phase = "Accepted"
      /\ l1.retransmit_map = l.retransmit_map /\ l1.taken = l.taken
      /\ l1.offer = l.offer /\ l1.local_lsp = l.local_lsp /\ l1.peer_lsp = l.peer_lsp
      /\ l1.syn_transmitted = l.syn_transmitted /\ l1.status = "Writable"
      /\ ReceiverSame(l, l1) /\ l1 \in LinkState
  <2>1. "Writable" \in LinkStatus
    BY DEF LinkStatus, DataStatus
  <2> HIDE DEF l
  <2>2. l1 \in LinkState
    BY <1>1, <2>1 DEF LinkState
  <2>3. /\ l1.own_seq = l.own_seq /\ l1.peer_ack = l.peer_ack /\ l1.phase = "Accepted"
        /\ l1.retransmit_map = l.retransmit_map /\ l1.taken = l.taken
        /\ l1.offer = l.offer /\ l1.local_lsp = l.local_lsp /\ l1.peer_lsp = l.peer_lsp
        /\ l1.syn_transmitted = l.syn_transmitted /\ l1.status = "Writable"
    BY <1>1 DEF LinkState
  <2>4. ReceiverSame(l, l1)
    BY <1>1 DEF LinkState, ReceiverSame
  <2> QED
    BY <2>2, <2>3, <2>4
<1>7. ~InData(l) /\ ~is_error(l) /\ InData(l1) /\ l.taken = 0
  <2>1. ~InData(l) /\ ~is_error(l)
    BY <1>2, ErrorData
  <2>2. InData(l1)
    BY <1>6, StatusSets DEF InData
  <2> QED
    BY <1>1, <1>2, <2>1, <2>2 DEF Ends
<1> HIDE DEF l1, l, r, c, d
<1>8. StatusDiffers(l1, l2) /\ InData(l2)
  BY <1>6, <1>7, RefreshOnly
<1> HIDE DEF l2
<1>9. /\ chan'[e] = d /\ chan'[Peer(e)] = Append(c, p) /\ link'[e] = l2 /\ link'[Peer(e)] = r
      /\ l2 \in LinkState
  BY <1>1, <1>5 DEF TypeOK, l, r, c, d
<1>10. /\ l2.own_seq = l.own_seq /\ l2.peer_ack = l.peer_ack /\ l2.phase = "Accepted"
       /\ l2.retransmit_map = l.retransmit_map /\ l2.taken = l.taken
       /\ l2.offer = l.offer /\ l2.local_lsp = l.local_lsp /\ l2.peer_lsp = l.peer_lsp
       /\ l2.syn_transmitted = l.syn_transmitted /\ ReceiverSame(l, l2)
  BY <1>6, <1>8 DEF StatusDiffers, ReceiverSame, NegotiationSame
<1>11. SenderSame(l, l2)
  BY <1>2, <1>7, <1>10 DEF SenderSame, Taken
<1>12. Cut(c, c) /\ Cut(d, d) /\ SenderSame(r, r) /\ ReceiverSame(r, r)
  BY <1>1, Transports DEF SenderSame, ReceiverSame
<1>13. Way(e, l2, r, c, d) /\ Way(Peer(e), r, l2, d, c)
  BY <1>1, <1>10, <1>11, <1>12, WayStays
<1>14. Way(e, l2, r, Append(c, p), d)
  <2>1. FrameFrom(e, l2, p) /\ ~is_ackable(p)
    BY <1>4, <1>10 DEF FrameFrom, is_ackable
  <2> QED
    BY <1>1, <1>4, <1>9, <1>13, <2>1, WaySends
<1>15. Way(Peer(e), r, l2, d, Append(c, p))
  <2>1. p.ack = Got(Peer(e), l2)
    BY <1>2, <1>4, <1>10 DEF Got, ReceiverSame
  <2> QED
    BY <1>1, <1>4, <1>9, <1>13, <2>1, WayAcknowledges
<1>16. AccessoryInv(l, r) /\ l.local_lsp = Offer /\ l.peer_lsp = Offer
  BY <1>1, <1>2, <1>3 DEF AccessoryInv, l, r
<1>17. Ends(l2)
  BY <1>8, <1>10, <1>16 DEF Ends
<1>18. Setup'
  <2>1. AccessoryInv(l2, r)
    BY <1>2, <1>7, <1>10, <1>16 DEF AccessoryInv, ReceiverSame, SynHeld
  <2>2. HostInv(r, d) /\ Repeats(l, r, c)
    BY <1>1, <1>3 DEF l, r, d, c
  <2>3. Syns(Append(c, p)) = Syns(c)
    <3>1. Syns(Append(c, p)) = Syns(c) + 0 /\ Syns(c) \in Nat
      BY <1>1, <1>4, SynsCount
    <3> QED
      BY <3>1
  <2>4. Repeats(l2, r, Append(c, p))
    BY <1>10, <2>2, <2>3 DEF Repeats, SynHeld
  <2> QED
    BY <1>3, <1>9, <2>1, <2>2, <2>4 DEF Setup
<1> QED
  BY <1>5, <1>9, <1>14, <1>15, <1>17, <1>18, Assemble DEF r

\* The SYN of the accessory keeps OrderInv.
LEMMA SynOrder ==
    ASSUME WindowsFit, TypeOK, TypeOK', OrderInv, TransmitSyn
    PROVE  OrderInv'
<1> DEFINE e == Accessory
           l == link[e]
           r == link[Host]
           c == chan[Host]
           d == chan[e]
           p == new_syn(l.own_seq, l.offer)
           l1 == [prepare_ackable(take_own_seq(l), p) EXCEPT !.syn_transmitted = TRUE]
           l2 == refresh_data_status(l1)
<1>1. /\ Way(e, l, r, c, d) /\ Way(Host, r, l, d, c) /\ Ends(l)
      /\ l \in LinkState /\ r \in LinkState /\ c \in Seq(Frame) /\ d \in Seq(Frame)
      /\ HostInv(r, d) /\ AccessoryInv(l, r) /\ Repeats(l, r, c)
      /\ e \in Endpoint /\ Peer(e) = Host /\ Host # e /\ Host \in Endpoint
  <2>1. e \in Endpoint /\ Peer(e) = Host /\ Host # e /\ Host \in Endpoint
    BY TwoEnds
  <2> QED
    BY <2>1, BothWays DEF Setup
<1> HIDE DEF e
<1>2. /\ l.status = "Negotiating" /\ ~HasPendingTx(l) /\ ~l.syn_transmitted /\ Send(e, l1, p)
  BY DEF TransmitSyn, e
<1>3. l.peer_seq = NoSeq /\ l.phase = "Start" /\ l.offer = Offer /\ Age(l, StartSeq[e]) = 0
  BY <1>1, <1>2 DEF AccessoryInv, e
<1>4. l.own_seq = StartSeq[e] /\ StartSeq[e] \in SeqNum /\ l.own_seq \in SeqNum
  <2>1. l.own_seq \in SeqNum /\ StartSeq[e] \in SeqNum
    BY <1>1, AgeTypes
  <2>2. 0 \in SeqNum
    BY SeqModAssumption DEF SeqNum
  <2>3. SeqSub(l.own_seq, l.own_seq) = 0
    BY <2>1, <2>2, AgeSteps
  <2>4. SeqSub(l.own_seq, StartSeq[e]) = 0
    BY <1>3 DEF Age
  <2> QED
    BY <2>1, <2>3, <2>4, AgeCompare
<1>5. p \in Frame /\ p.ctl = "SYN" /\ p.seq = l.own_seq /\ p.lsp = l.offer
  <2>1. l.own_seq \in SeqNum /\ l.offer \in Lsp
    BY <1>1 DEF LinkState
  <2>2. p \in Frame
    BY <2>1, FrameTypes, SeqModAssumption DEF SeqNum
  <2>3. p.ctl = "SYN" /\ p.seq = l.own_seq /\ p.lsp = l.offer
    BY DEF new_syn, Bare
  <2> QED
    BY <2>2, <2>3
<1> HIDE DEF p
<1>6. link' = [link EXCEPT ![e] = l2] /\ chan' = [chan EXCEPT ![Host] = Append(@, p)]
  BY <1>1, <1>2 DEF Send, Update
<1>7. /\ l1.own_seq = SeqAdd(l.own_seq, 1) /\ l1.peer_ack = l.peer_ack /\ l1.phase = l.phase
      /\ l1.retransmit_map = [l.retransmit_map EXCEPT ![l.own_seq] = [p |-> p, retries |-> 0]]
      /\ l1.offer = l.offer /\ l1.local_lsp = l.local_lsp /\ l1.taken = l.taken
      /\ l1.status = l.status /\ ReceiverSame(l, l1) /\ l1 \in LinkState
      /\ l1.syn_transmitted
  <2>1. prepare_ackable(take_own_seq(l), p) \in LinkState
    BY <1>1, <1>5, AckableSendType
  <2>2. l1 \in LinkState
    BY <2>1 DEF LinkState
  <2>3. /\ l1.own_seq = SeqAdd(l.own_seq, 1) /\ l1.peer_ack = l.peer_ack /\ l1.phase = l.phase
        /\ l1.offer = l.offer /\ l1.local_lsp = l.local_lsp /\ l1.taken = l.taken
        /\ l1.status = l.status /\ ReceiverSame(l, l1) /\ l1.syn_transmitted
    BY <1>1 DEF LinkState, prepare_ackable, take_own_seq, ReceiverSame
  <2>4. l1.retransmit_map = [l.retransmit_map EXCEPT ![l.own_seq] = [p |-> p, retries |-> 0]]
    BY <1>1, <1>5 DEF LinkState, prepare_ackable, take_own_seq
  <2> QED
    BY <2>2, <2>3, <2>4
<1>8. ~InData(l) /\ ~is_error(l) /\ l.phase # "Accepted"
  BY <1>2, <1>3, ErrorData
<1> HIDE DEF l1, l, r, c, d
<1>9. l2 = l1
  <2>1. ~InData(l1)
    BY <1>2, <1>7, ErrorData
  <2> QED
    BY <1>7, <2>1, RefreshOnly
<1> HIDE DEF l2
<1>10. /\ chan'[e] = d /\ chan'[Host] = Append(c, p) /\ link'[e] = l1 /\ link'[Host] = r
  BY <1>1, <1>6, <1>9 DEF TypeOK, l, r, c, d
<1>11. HALF \in Nat /\ 1 < HALF
  <2>1. max_retransmissions[Negotiating_Lsp] \in Nat
    BY LspAssumption
  <2> QED
    BY <2>1, HalfRange DEF WindowsFit
<1>12. Age(l, StartSeq[e]) < HALF /\ Age(l, Acked(e, l)) < HALF
  <2>1. Age(l, Acked(e, l)) <= 0 + 1 /\ Age(l, Acked(e, l)) \in Nat
    BY <1>1, <1>3, <1>8, EarlyWindow, AgeTypes
  <2> QED
    BY <1>3, <1>11, <2>1
<1>13. Age(l1, l.own_seq) = 1 /\ Age(l1, StartSeq[e]) = 1
  BY <1>1, <1>4, <1>7, NextNumber
<1>14. is_ackable(p) /\ FrameFrom(e, l1, p)
  <2>1. Taken(l1) = 0
    BY <1>3, <1>7 DEF Taken
  <2> QED
    BY <1>3, <1>4, <1>5, <1>13, <2>1 DEF is_ackable, FrameFrom, e
<1>15. Way(e, l1, r, c, d)
  BY <1>1, <1>5, <1>7, <1>8, <1>12, <1>14, WayAdvances
<1>16. Way(e, l1, r, Append(c, p), d)
  BY <1>1, <1>5, <1>7, <1>11, <1>13, <1>14, <1>15, WaySends
<1>17. Way(Host, r, l1, d, Append(c, p))
  <2>1. SenderSame(r, r) /\ Cut(c, c) /\ Cut(d, d)
    BY <1>1, Transports DEF SenderSame
  <2>2. Way(Host, r, l1, d, c)
    BY <1>1, <1>7, <2>1, WayStays
  <2>3. ~is_any_ack(p)
    BY <1>5 DEF is_any_ack
  <2> QED
    BY <1>1, <1>5, <1>7, <2>2, <2>3, WayAcknowledges
<1>18. Ends(l1)
  BY <1>1, <1>7, <1>8 DEF Ends, InData, is_error, ReceiverSame
<1>19. Setup'
  <2>1. AccessoryInv(l1, r)
    BY <1>1, <1>3, <1>7, <1>13 DEF AccessoryInv, ReceiverSame, e
  <2>2. ~SynHeld(l)
    BY <1>1, <1>2, SynSent DEF Way, e
  <2>3. SynHeld(l1) /\ l1.retransmit_map[StartSeq[Accessory]].retries = 0
    <3>0. l.retransmit_map \in [SeqNum -> Entry]
      BY <1>1 DEF LinkState
    <3>1. l1.retransmit_map[StartSeq[e]] = [p |-> p, retries |-> 0]
      BY ONLY <1>4, <1>7, <3>0
    <3> QED
      BY <1>5, <3>1 DEF SynHeld, e
  <2>4. Repeats(l1, r, Append(c, p))
    <3> DEFINE x == Age(r, StartSeq[Host])
               y == IF r.phase = "Offering" THEN 1 ELSE 0
    <3>1. x \in Nat /\ y \in Nat /\ Syns(c) \in Nat /\ max_retransmissions[Negotiating_Lsp] \in Nat
          /\ Syns(Append(c, p)) = Syns(c) + 1
      BY <1>1, <1>5, SynsCount, RepeatsTypes
    <3>2. r.phase # "Accepted" => x + y + Syns(c) <= 0
      BY <1>1, <1>2, <2>2 DEF Repeats
    <3> HIDE DEF x, y
    <3>3. r.phase # "Accepted" => x + y + Syns(Append(c, p)) <= 1 + 0
      BY ONLY <3>1, <3>2
    <3> QED
      BY <2>3, <3>1, <3>3 DEF Repeats, x, y
  <2> QED
    BY <1>1, <1>10, <2>1, <2>4 DEF Setup, e
<1> QED
  <2>1. link' = [link EXCEPT ![e] = l1] /\ link[Peer(e)] = r
    BY <1>1, <1>6, <1>9 DEF r
  <2> QED
    BY <1>1, <1>10, <1>16, <1>17, <1>18, <1>19, <2>1, Assemble

\* A retransmission keeps OrderInv: the number is the one the packet had, and the
\* SYN is counted.
LEMMA RetransmitOrder ==
    ASSUME WindowsFit, TypeOK, TypeOK', OrderInv,
           NEW e \in Endpoint, NEW s \in SeqNum, Retransmit(e, s)
    PROVE  OrderInv'
<1> DEFINE l == link[e]
           r == link[Peer(e)]
           c == chan[Peer(e)]
           d == chan[e]
           entry == l.retransmit_map[s]
           p == IF entry.p.ctl = "SYN" THEN entry.p ELSE [entry.p EXCEPT !.ack = l.peer_seq]
           n == entry.retries + 1
           l1 == [l EXCEPT !.retransmit_map[s] = [p |-> p, retries |-> n]]
           l2 == refresh_data_status(l1)
<1>1. /\ Way(e, l, r, c, d) /\ Way(Peer(e), r, l, d, c) /\ Ends(l)
      /\ l \in LinkState /\ r \in LinkState /\ c \in Seq(Frame) /\ d \in Seq(Frame)
      /\ Peer(e) \in Endpoint /\ Peer(e) # e
  BY BothWays
<1>2. /\ ~is_error(l) /\ s \in Held(l)
      /\ \/ /\ entry.retries >= max_retransmissions[l.local_lsp]
            /\ Quit(e, enter_error_state(l, "RetransmissionsExceeded"))
         \/ /\ entry.retries < max_retransmissions[l.local_lsp]
            /\ entry.p.ctl = "SYN" \/ l.peer_seq # NoSeq
            /\ Send(e, l1, p)
  <2>1. (l.status = "Negotiating" \/ InData(l)) /\ s \in RetransmitSeqs(l) /\ retransmit_one(e, s)
    BY DEF Retransmit
  <2>2. s \in Held(l)
    BY <2>1 DEF RetransmitSeqs, Held
  <2>3. /\ entry.retries \in Nat /\ max_retransmissions[l.local_lsp] \in Nat
    BY <1>1, LspAssumption DEF LinkState, Entry
  <2>4. CASE entry.retries >= max_retransmissions[l.local_lsp]
    BY <2>1, <2>2, <2>4, ErrorData DEF retransmit_one
  <2>5. CASE ~(entry.retries >= max_retransmissions[l.local_lsp])
    <3>1. entry.retries < max_retransmissions[l.local_lsp]
      BY <2>3, <2>5
    <3> QED
      BY <2>1, <2>2, <2>5, <3>1, ErrorData DEF retransmit_one
  <2> QED
    BY <2>4, <2>5
<1>3. CASE Quit(e, enter_error_state(l, "RetransmissionsExceeded"))
  <2>1. "RetransmissionsExceeded" \in LinkError
    BY DEF LinkError
  <2>2. Quiet(l, enter_error_state(l, "RetransmissionsExceeded"))
    BY <1>1, <2>1, FlagForms, FlagsQuiet
  <2> QED
    BY <1>3, <2>2, QuietQuit
<1>4. CASE /\ entry.retries < max_retransmissions[l.local_lsp]
           /\ entry.p.ctl = "SYN" \/ l.peer_seq # NoSeq
           /\ Send(e, l1, p)
  <2>1. entry \in Entry /\ entry.p \in Frame /\ entry.retries \in Nat
    BY <1>1 DEF LinkState, Entry
  <2>2. /\ p \in Frame /\ p.ctl = entry.p.ctl /\ p.seq = entry.p.seq /\ p.msg = entry.p.msg
        /\ p.lsp = entry.p.lsp /\ (p.ctl # "SYN" => p.ack = l.peer_seq /\ l.peer_seq # NoSeq)
    <3>1. CASE entry.p.ctl = "SYN"
      BY <2>1, <3>1
    <3>2. CASE entry.p.ctl # "SYN"
      <4>1. l.peer_seq \in SeqNum /\ l.peer_seq # NoSeq
        BY <1>1, <1>4, <3>2 DEF LinkState
      <4> QED
        BY <2>1, <3>2, <4>1 DEF Frame
    <3> QED
      BY <3>1, <3>2
  <2> HIDE DEF p
  <2>3. link' = [link EXCEPT ![e] = l2] /\ chan' = [chan EXCEPT ![Peer(e)] = Append(@, p)]
    BY <1>4 DEF Send, Update
  <2>4. /\ FlagsDiffer([l EXCEPT !.retransmit_map = l1.retransmit_map], l1)
        /\ l1.retransmit_map = [l.retransmit_map EXCEPT ![s] = [p |-> p, retries |-> n]]
        /\ l1 \in LinkState
    <3> HIDE DEF l
    <3>1. l1.retransmit_map = [l.retransmit_map EXCEPT ![s] = [p |-> p, retries |-> n]]
      BY <1>1 DEF LinkState
    <3>2. l1 = [l EXCEPT !.retransmit_map = l1.retransmit_map]
      BY <1>1, <3>1 DEF LinkState
    <3>3. [p |-> p, retries |-> n] \in Entry
      BY <2>1, <2>2 DEF Entry
    <3>4. l1.retransmit_map \in [SeqNum -> Entry]
      BY <1>1, <3>1, <3>3 DEF LinkState
    <3>5. l1 \in LinkState
      BY <1>1, <3>2, <3>4 DEF LinkState
    <3> QED
      BY <3>1, <3>2, <3>5, FlagForms
  <2> HIDE DEF l, r, c, d
  <2>5. /\ l1.own_seq = l.own_seq /\ l1.peer_ack = l.peer_ack /\ l1.taken = l.taken
        /\ l1.status = l.status /\ ReceiverSame(l, l1) /\ NegotiationSame(l, l1)
    BY <1>1 DEF LinkState, ReceiverSame, NegotiationSame
  <2> HIDE DEF l1
  <2>6. StatusDiffers(l1, l2) /\ (InData(l2) <=> InData(l1)) /\ (~InData(l1) => l2 = l1)
    BY <2>4, RefreshOnly
  <2> HIDE DEF l2
  <2>7. /\ chan'[e] = d /\ chan'[Peer(e)] = Append(c, p) /\ link'[e] = l2 /\ link'[Peer(e)] = r
        /\ l2 \in LinkState
    BY <1>1, <2>3 DEF TypeOK, l, r, c, d
  <2>8. /\ l2.own_seq = l.own_seq /\ l2.peer_ack = l.peer_ack /\ l2.taken = l.taken
        /\ l2.retransmit_map = [l.retransmit_map EXCEPT ![s] = [p |-> p, retries |-> n]]
        /\ ReceiverSame(l, l2) /\ NegotiationSame(l, l2)
    BY <2>4, <2>5, <2>6 DEF StatusDiffers, ReceiverSame, NegotiationSame
  <2>9. (InData(l2) <=> InData(l)) /\ ~is_error(l2)
    <3>1. InData(l1) <=> InData(l)
      BY <2>5 DEF InData
    <3>2. ~is_error(l1)
      BY <1>2, <2>5 DEF is_error
    <3> QED
      BY <2>6, <3>1, <3>2, ErrorData
  <2>10. /\ Way(e, l2, r, c, d)
         /\ FrameFrom(e, l2, p) /\ is_ackable(p) /\ Age(l2, p.seq) < HALF
    <3>0. p \in Frame /\ n \in Nat
      BY <2>1, <2>2
    <3>1. l2.phase = l.phase
      BY <2>8 DEF NegotiationSame
    <3>2. /\ p.ctl = l.retransmit_map[s].p.ctl /\ p.seq = l.retransmit_map[s].p.seq
          /\ p.msg = l.retransmit_map[s].p.msg /\ p.lsp = l.retransmit_map[s].p.lsp
      BY <2>2
    <3>3. /\ Way(e, l, r, c, d) /\ l \in LinkState /\ r \in LinkState
          /\ ~is_error(l) /\ s \in Held(l)
      BY <1>1, <1>2
    <3>4. /\ l2.own_seq = l.own_seq /\ l2.peer_ack = l.peer_ack /\ l2.taken = l.taken
          /\ l2.retransmit_map = Filed(l.retransmit_map, s, p, n)
      BY <2>8 DEF Filed
    <3> HIDE DEF n, entry
    <3> QED
      BY ONLY <3>0, <3>1, <3>2, <3>3, <3>4, e \in Endpoint, WayRepeats
  <2>11. Way(e, l2, r, Append(c, p), d)
    BY <1>1, <2>2, <2>7, <2>10, WaySends
  <2>12. is_any_ack(p) => p.ack = l.peer_seq /\ l.peer_seq # NoSeq
    BY <2>2 DEF is_any_ack
  <2>13. Way(Peer(e), r, l2, d, Append(c, p))
    <3>1. SenderSame(r, r) /\ Cut(c, c) /\ Cut(d, d)
      BY <1>1, Transports DEF SenderSame
    <3>2. Way(Peer(e), r, l2, d, c)
      BY <1>1, <2>8, <3>1, WayStays
    <3>3. is_any_ack(p) => p.ack = Got(Peer(e), l2)
      BY <2>8, <2>12 DEF Got, ReceiverSame
    <3> QED
      BY <1>1, <2>2, <2>7, <3>2, <3>3, WayAcknowledges
  <2>14. Ends(l2)
    BY <1>1, <1>2, <2>8, <2>9 DEF Ends, ReceiverSame, NegotiationSame
  <2>15. CASE p.ctl # "SYN"
    <3>1. e = Host => HostSame(link[Host], l2)
      BY <2>8 DEF HostSame, ReceiverSame, NegotiationSame, l
    <3>2. e = Accessory => AccessorySame(link[Accessory], l2)
      <4>1. SUFFICES ASSUME e = Accessory
                     PROVE  SynHeld(l2) => /\ SynHeld(l)
                                           /\ l2.retransmit_map[StartSeq[Accessory]].retries =
                                                l.retransmit_map[StartSeq[Accessory]].retries
        BY <1>2, <2>8 DEF AccessorySame, ReceiverSame, NegotiationSame, l
      <4>2. l.retransmit_map \in [SeqNum -> Entry] /\ StartSeq[Accessory] \in SeqNum
        BY <1>1, LinkAssumption, TwoEnds DEF LinkState
      <4>3. l2.retransmit_map[StartSeq[Accessory]] =
              IF StartSeq[Accessory] = s THEN [p |-> p, retries |-> n]
              ELSE l.retransmit_map[StartSeq[Accessory]]
        BY ONLY <2>8, <4>2
      <4> QED
        BY <2>15, <4>3 DEF SynHeld
    <3>3. Off(chan'[e], chan[e])
      BY <2>7 DEF Off, d
    <3> QED
      BY <2>2, <2>3, <2>7, <2>11, <2>12, <2>13, <2>14, <2>15, <3>1, <3>2, <3>3, StepOf DEF l, r, c
  <2>16. CASE p.ctl = "SYN"
    <3>1. e = Accessory /\ Peer(e) = Host /\ s = StartSeq[Accessory]
      <4>1. e = Accessory /\ entry.p.seq = StartSeq[Accessory]
        BY <2>2, <2>10, <2>16 DEF FrameFrom
      <4>2. entry.p.seq = s
        BY <1>1, <1>2 DEF Way, Kept
      <4> QED
        BY <4>1, <4>2, TwoEnds
    <3>2. HostInv(r, d) /\ AccessoryInv(l, r) /\ Repeats(l, r, c)
      BY <3>1 DEF OrderInv, r, d, l, c
    <3>3. SynHeld(l) /\ l.retransmit_map[StartSeq[Accessory]].retries = entry.retries
      BY <2>2, <2>16, <3>1 DEF SynHeld
    <3>4. l2.retransmit_map[StartSeq[Accessory]] = [p |-> p, retries |-> n]
      <4>1. l.retransmit_map \in [SeqNum -> Entry]
        BY <1>1 DEF LinkState
      <4> QED
        BY ONLY <2>8, <3>1, <4>1, s \in SeqNum
    <3>5. SynHeld(l2) /\ l2.retransmit_map[StartSeq[Accessory]].retries = n
      BY <2>16, <3>4 DEF SynHeld
    <3>6. l.phase = "Start" /\ entry.retries < max_retransmissions[Negotiating_Lsp]
      <4>1. l.phase = "Start"
        BY <1>2, <3>2, <3>3 DEF AccessoryInv
      <4>2. l.local_lsp = Negotiating_Lsp
        BY <3>2, <4>1 DEF AccessoryInv
      <4> QED
        BY <1>4, <4>1, <4>2
    <3>7. AccessoryInv(l2, r)
      BY <2>8, <3>2, <3>6 DEF AccessoryInv, ReceiverSame, NegotiationSame, Age
    <3>8. Repeats(l2, r, Append(c, p))
      <4> DEFINE x == Age(r, StartSeq[Host])
                 y == IF r.phase = "Offering" THEN 1 ELSE 0
                 max == max_retransmissions[Negotiating_Lsp]
      <4>1. x \in Nat /\ y \in Nat /\ Syns(c) \in Nat /\ max \in Nat /\ Syns(Append(c, p)) = Syns(c) + 1
            /\ entry.retries \in Nat
        BY <1>1, <2>1, <2>2, <2>16, SynsCount, RepeatsTypes
      <4>2. r.phase # "Accepted" => x + y + Syns(c) <= 1 + entry.retries
        BY <3>2, <3>3 DEF Repeats
      <4>3. entry.retries < max
        BY <3>6
      <4> HIDE DEF x, y, max, entry
      <4>4. /\ n <= max
            /\ r.phase # "Accepted" => x + y + Syns(Append(c, p)) <= 1 + n
        BY ONLY <4>1, <4>2, <4>3
      <4> HIDE DEF n
      <4> QED
        BY <3>5, <4>4 DEF Repeats, x, y, max
    <3>9. Setup'
      BY <2>7, <3>1, <3>2, <3>7, <3>8 DEF Setup
    <3> QED
      BY <2>3, <2>7, <2>11, <2>13, <2>14, <3>9, Assemble DEF r
  <2> QED
    BY <2>15, <2>16
<1> QED
  BY <1>2, <1>3, <1>4

\* A payload keeps OrderInv: it takes the next number and the next message, within
\* the window.
LEMMA PayloadOrder ==
    ASSUME WindowsFit, TypeOK, TypeOK', OrderInv, HandshakeInv,
           NEW e \in Endpoint, TransmitPayload(e)
    PROVE  OrderInv'
<1> DEFINE l == link[e]
           r == link[Peer(e)]
           c == chan[Peer(e)]
           d == chan[e]
           p == new_ack(l.own_seq, l.peer_seq, l.taken + 1, Head(l.csm))
           l1 == take_own_seq(dequeue_tx(l))
           bad == enter_error_state(l1, "TransmitMaxLenViolation")
           l3 == reset_pending_ack(prepare_ackable(l1, p))
           good == refresh_data_status(l3)
<1>1. /\ Way(e, l, r, c, d) /\ Way(Peer(e), r, l, d, c) /\ Ends(l)
      /\ l \in LinkState /\ r \in LinkState /\ c \in Seq(Frame) /\ d \in Seq(Frame)
      /\ Peer(e) \in Endpoint /\ Peer(e) # e
  BY BothWays
<1>2. /\ InData(l) /\ is_window_writable(l) /\ HasPayload(l)
  BY DEF TransmitPayload, InData, DataStatus
<1>3. l.peer_seq # NoSeq /\ l.peer_ack # NoSeq /\ ~is_error(l) /\ l.phase = "Accepted" /\ l.peer_lsp = Offer
  BY <1>1, <1>2, ErrorData DEF HandshakeInv, EndInv, Knows, Ends
<1>4. Quit(e, bad) \/ Send(e, l3, p)
  BY <1>3 DEF TransmitPayload
<1>5. /\ p \in Frame /\ p.ctl = "ACK" /\ p.seq = l.own_seq /\ p.ack = l.peer_seq
      /\ p.msg = l.taken + 1 /\ l.taken \in Nat
  <2> DEFINE m == Head(l.csm)
  <2>1. l.own_seq \in SeqNum /\ l.peer_seq \in SeqNum /\ l.taken \in Nat
    BY <1>1, <1>3 DEF LinkState
  <2>2. m \in Nat
    BY <1>1, <1>2, DequeueType
  <2> HIDE DEF m
  <2>3. new_ack(l.own_seq, l.peer_seq, l.taken + 1, m) \in Frame
    <3>1. l.taken + 1 \in Nat
      BY <2>1
    <3> QED
      BY <2>1, <2>2, <3>1, FrameTypes, LspAssumption
  <2>4. p.ctl = "ACK" /\ p.seq = l.own_seq /\ p.ack = l.peer_seq /\ p.msg = l.taken + 1
    BY AckFields
  <2> QED
    BY <2>1, <2>3, <2>4 DEF m
<1> HIDE DEF p
<1>6. /\ l1.own_seq = SeqAdd(l.own_seq, 1) /\ l1.peer_ack = l.peer_ack /\ l1.taken = l.taken + 1
      /\ l1.retransmit_map = l.retransmit_map /\ l1.status = l.status
      /\ ReceiverSame(l, l1) /\ NegotiationSame(l, l1) /\ l1 \in LinkState
  <2>1. l1 \in LinkState
    BY <1>1, <1>2, DequeueType, TakeOwnSeqType
  <2> HIDE DEF l
  <2>2. /\ l1.own_seq = SeqAdd(l.own_seq, 1) /\ l1.peer_ack = l.peer_ack /\ l1.taken = l.taken + 1
        /\ l1.retransmit_map = l.retransmit_map /\ l1.status = l.status
    BY <1>1 DEF LinkState, take_own_seq, dequeue_tx
  <2>3. ReceiverSame(l, l1) /\ NegotiationSame(l, l1)
    BY <1>1 DEF LinkState, take_own_seq, dequeue_tx, ReceiverSame, NegotiationSame
  <2> QED
    BY <2>1, <2>2, <2>3
<1> HIDE DEF l1
<1> DEFINE P == Age(l, Acked(e, l))
           max == max_outgoing[Offer]
<1>7. P <= max /\ P < HALF
  <2>1. SeqSub(l.own_seq, l.peer_ack) <= max_outgoing[l.peer_lsp]
    BY <1>2, <1>3 DEF is_window_writable
  <2>2. P <= max
    BY <1>3, <2>1 DEF Age, Acked
  <2>3. P \in Nat /\ max \in Nat /\ HALF \in Nat /\ max < HALF
    BY <1>1, AgeTypes, LspAssumption, HalfRange, TwoEnds DEF WindowsFit, Offer
  <2> HIDE DEF P, max
  <2> QED
    BY ONLY <2>2, <2>3
<1> HIDE DEF P, max
<1>8. Age(l1, l.own_seq) = 1
  BY <1>1, <1>6, NextNumber
<1>9. HALF \in Nat /\ 1 < HALF /\ l.own_seq \in SeqNum
  <2>1. max_retransmissions[Negotiating_Lsp] \in Nat
    BY LspAssumption
  <2>2. HALF \in Nat /\ 1 < HALF
    BY <2>1, HalfRange DEF WindowsFit
  <2>3. l.own_seq \in SeqNum
    BY <1>1, AgeTypes
  <2> QED
    BY <2>2, <2>3
<1>10. CASE Quit(e, bad)
  <2>1. StatusDiffers(l1, bad) /\ bad.status = "TransmitMaxLenViolation" /\ is_error(bad)
    <3>1. "TransmitMaxLenViolation" \in LinkError
      BY DEF LinkError
    <3> QED
      BY <1>6, <3>1, StatusOnly DEF enter_error_state, is_error
  <2> HIDE DEF l, r, c, d, bad
  <2>2. /\ chan'[e] = d /\ chan'[Peer(e)] = c /\ link'[e] = bad /\ link'[Peer(e)] = r
        /\ link' = [link EXCEPT ![e] = bad] /\ bad \in LinkState
    BY <1>1, <1>10 DEF TypeOK, Quit, Update, l, r, c, d
  <2>3. /\ bad.own_seq = SeqAdd(l.own_seq, 1) /\ bad.peer_ack = l.peer_ack
        /\ bad.taken = l.taken + 1 /\ bad.phase = "Accepted"
        /\ bad.retransmit_map = l.retransmit_map
        /\ ReceiverSame(l, bad) /\ NegotiationSame(l, bad)
    BY <1>3, <1>6, <2>1 DEF StatusDiffers, ReceiverSame, NegotiationSame
  <2>4. Way(e, bad, r, c, d)
    BY <1>1, <1>3, <1>5, <1>7, <2>1, <2>2, <2>3, WayAdvances DEF P, max
  <2>5. Way(Peer(e), r, bad, d, c)
    <3>1. SenderSame(r, r) /\ Cut(c, c) /\ Cut(d, d)
      BY <1>1, Transports DEF SenderSame
    <3> QED
      BY <1>1, <2>3, <3>1, WayStays
  <2>6. Ends(bad)
    <3>1. ~InData(bad)
      BY <2>1, ErrorData
    <3> QED
      BY <1>1, <1>3, <2>1, <2>3, <3>1 DEF Ends, NegotiationSame
  <2>7. HostSame(l, bad) /\ AccessorySame(l, bad)
    BY <1>3, <2>1, <2>3 DEF HostSame, AccessorySame, ReceiverSame, NegotiationSame, SynHeld
  <2>8. Off(chan'[e], chan[e]) /\ Off(chan'[Peer(e)], chan[Peer(e)])
    BY <2>2 DEF Off, c, d
  <2> QED
    BY <1>5, <2>2, <2>4, <2>5, <2>6, <2>7, <2>8, StepOf DEF r, l
<1>11. CASE Send(e, l3, p)
  <2>1. /\ l3.own_seq = l1.own_seq /\ l3.peer_ack = l1.peer_ack /\ l3.taken = l1.taken
        /\ l3.status = l1.status /\ ReceiverSame(l1, l3) /\ NegotiationSame(l1, l3)
        /\ l3.retransmit_map = [l1.retransmit_map EXCEPT ![l.own_seq] = [p |-> p, retries |-> 0]]
        /\ l3 \in LinkState
    <3> DEFINE l4 == prepare_ackable(l1, p)
    <3>1. l4 \in LinkState
      BY <1>5, <1>6, PrepareAckableType
    <3>2. /\ l4.own_seq = l1.own_seq /\ l4.peer_ack = l1.peer_ack /\ l4.taken = l1.taken
          /\ l4.status = l1.status /\ ReceiverSame(l1, l4) /\ NegotiationSame(l1, l4)
      BY <1>6 DEF LinkState, prepare_ackable, ReceiverSame, NegotiationSame
    <3>3. l4.retransmit_map = [l1.retransmit_map EXCEPT ![l.own_seq] = [p |-> p, retries |-> 0]]
      BY <1>5, <1>6 DEF LinkState, prepare_ackable
    <3> HIDE DEF l4
    <3>4. FlagsDiffer(l4, reset_pending_ack(l4)) /\ reset_pending_ack(l4) \in LinkState
      BY <3>1, FlagForms, ResetPendingAckType
    <3>5. l3 = reset_pending_ack(l4)
      BY DEF l4
    <3> HIDE DEF l3
    <3> QED
      BY <3>2, <3>3, <3>4, <3>5 DEF FlagsDiffer, StatusDiffers, ReceiverSame, NegotiationSame
  <2>2. link' = [link EXCEPT ![e] = good] /\ chan' = [chan EXCEPT ![Peer(e)] = Append(@, p)]
    BY <1>11 DEF Send, Update
  <2> HIDE DEF l3
  <2>3. StatusDiffers(l3, good) /\ (InData(good) <=> InData(l3))
    BY <2>1, RefreshOnly
  <2> HIDE DEF good, l, r, c, d
  <2>4. /\ chan'[e] = d /\ chan'[Peer(e)] = Append(c, p) /\ link'[e] = good /\ link'[Peer(e)] = r
        /\ good \in LinkState
    BY <1>1, <2>2 DEF TypeOK, l, r, c, d
  <2>5. InData(good) /\ ~is_error(good)
    BY <1>2, <1>6, <2>1, <2>3, ErrorData DEF InData
  <2>6. /\ good.own_seq = SeqAdd(l.own_seq, 1) /\ good.peer_ack = l.peer_ack
        /\ good.taken = l.taken + 1 /\ good.phase = "Accepted"
        /\ good.retransmit_map = [l.retransmit_map EXCEPT ![l.own_seq] = [p |-> p, retries |-> 0]]
        /\ ReceiverSame(l, good) /\ NegotiationSame(l, good)
    BY <1>3, <1>6, <2>1, <2>3 DEF StatusDiffers, ReceiverSame, NegotiationSame
  <2>7. Age(good, l.own_seq) = 1
    BY <1>1, <2>6, NextNumber
  <2>8. is_ackable(p) /\ FrameFrom(e, good, p)
    <3>1. Taken(good) = l.taken + 1
      BY <2>6 DEF Taken
    <3>2. p.msg # NoMsg /\ 1 <= l.taken + 1 /\ p.msg = (l.taken + 1) + 1 - 1
      BY <1>5 DEF NoMsg
    <3> QED
      BY <1>5, <2>6, <2>7, <3>1, <3>2 DEF is_ackable, FrameFrom
  <2>9. Way(e, good, r, c, d)
    BY <1>1, <1>3, <1>5, <1>7, <2>4, <2>6, <2>8, WayAdvances DEF P, max
  <2>10. Way(e, good, r, Append(c, p), d)
    BY <1>1, <1>5, <1>9, <2>4, <2>7, <2>8, <2>9, WaySends
  <2>11. Way(Peer(e), r, good, d, Append(c, p))
    <3>1. SenderSame(r, r) /\ Cut(c, c) /\ Cut(d, d)
      BY <1>1, Transports DEF SenderSame
    <3>2. Way(Peer(e), r, good, d, c)
      BY <1>1, <2>6, <3>1, WayStays
    <3>3. p.ack = Got(Peer(e), good)
      BY <1>3, <1>5, <2>6 DEF Got, ReceiverSame
    <3> QED
      BY <1>1, <1>5, <2>4, <3>2, <3>3, WayAcknowledges
  <2>12. Ends(good)
    BY <1>1, <1>3, <2>5, <2>6 DEF Ends, NegotiationSame
  <2>13. HostSame(l, good)
    BY <1>3, <2>6 DEF HostSame, ReceiverSame, NegotiationSame
  <2>14. AccessorySame(l, good)
    <3>1. l.retransmit_map \in [SeqNum -> Entry] /\ StartSeq[Accessory] \in SeqNum
      BY <1>1, LinkAssumption, TwoEnds DEF LinkState
    <3>2. good.retransmit_map[StartSeq[Accessory]] =
            IF StartSeq[Accessory] = l.own_seq THEN [p |-> p, retries |-> 0]
            ELSE l.retransmit_map[StartSeq[Accessory]]
      BY ONLY <2>6, <3>1
    <3>3. SynHeld(good) => good.retransmit_map[StartSeq[Accessory]] = l.retransmit_map[StartSeq[Accessory]]
      BY <1>5, <3>2 DEF SynHeld
    <3> QED
      BY <1>3, <2>6, <3>3 DEF AccessorySame, ReceiverSame, NegotiationSame, SynHeld
  <2>15. is_any_ack(p) => p.ack = l.peer_seq /\ l.peer_seq # NoSeq
    BY <1>3, <1>5
  <2>16. Off(chan'[e], chan[e])
    BY <2>4 DEF Off, d
  <2> QED
    BY <1>5, <2>2, <2>4, <2>10, <2>11, <2>12, <2>13, <2>14, <2>15, <2>16, StepOf DEF r, l, c
<1> QED
  BY <1>4, <1>10, <1>11

\* What an acknowledgement leaves alone.
Acknowledged(l, u) ==
    /\ u.own_seq = l.own_seq /\ u.taken = l.taken
    /\ ReceiverSame(l, u) /\ NegotiationSame(l, u)
    /\ SynHeld(u) => /\ SynHeld(l)
                     /\ u.retransmit_map[StartSeq[Accessory]].retries =
                          l.retransmit_map[StartSeq[Accessory]].retries

\* read() of a frame, up to its acknowledgement number.
LEMMA AckRead ==
    ASSUME NEW e \in Endpoint, NEW l \in LinkState, NEW r \in LinkState,
           NEW c \in Seq(Frame), NEW d \in Seq(Frame), Way(e, l, r, c, d), d # << >>,
           ~is_error(l), NEW l1 \in LinkState, StatusDiffers(l, l1), ~is_error(l1), NEW u,
           u = IF is_any_ack(Head(d)) THEN update_peer_ack(l1, Head(d).ack) ELSE l1
    PROVE  /\ Way(e, u, r, c, Tail(d)) /\ u \in LinkState /\ ~is_error(u)
           /\ Acknowledged(l, u)
           /\ InData(u) <=> InData(l1)
           /\ ~InData(l1) => u.status = l1.status
           /\ is_any_ack(Head(d)) => u.peer_ack = Head(d).ack
<1> DEFINE p == Head(d)
<1>1. /\ SenderSame(l, l1) /\ Acknowledged(l, l1)
  BY DEF StatusDiffers, SenderSame, NegotiationSame, Taken, Acknowledged, SynHeld
<1>2. /\ Cut(c, c) /\ Cut(d, d) /\ Cut(Tail(d), d) /\ p \in Frame
      /\ ReceiverSame(r, r)
  BY Transports DEF ReceiverSame
<1>3. Way(e, l1, r, c, d)
  BY <1>1, <1>2, WayStays
<1>4. CASE ~is_any_ack(p)
  <2>1. u = l1
    BY <1>4
  <2>2. Way(e, l1, r, c, Tail(d))
    BY <1>1, <1>2, WayStays
  <2> QED
    BY <1>1, <1>4, <2>1, <2>2
<1>5. CASE is_any_ack(p)
  <2>1. u = update_peer_ack(l1, p.ack) /\ p.ack \in SeqNum
    BY <1>2, <1>5, FrameFields
  <2>2. Way(e, u, r, c, Tail(d)) /\ u.peer_ack = p.ack
    BY <1>3, <1>5, <2>1, WayAcked
  <2> HIDE DEF p
  <2>3. /\ u \in LinkState
        /\ u.own_seq = l1.own_seq /\ u.taken = l1.taken
        /\ ReceiverSame(l1, u) /\ NegotiationSame(l1, u)
        /\ InData(u) <=> InData(l1)
        /\ ~InData(l1) => u.status = l1.status
        /\ is_error(u) <=> is_error(l1)
        /\ u = l1 \/ u.retransmit_map = Filtered(l1.retransmit_map, p.ack)
    <3>1. LET v == update_peer_ack(l1, p.ack)
          IN  /\ v \in LinkState
              /\ v.own_seq = l1.own_seq /\ v.taken = l1.taken
              /\ ReceiverSame(l1, v) /\ NegotiationSame(l1, v)
              /\ InData(v) <=> InData(l1)
              /\ ~InData(l1) => v.status = l1.status
              /\ is_error(v) <=> is_error(l1)
              /\ v = l1 \/ v.retransmit_map = Filtered(l1.retransmit_map, p.ack)
      BY <2>1, PeerAckOnly
    <3> QED
      BY <2>1, <3>1
  <2>4. SynHeld(u) => u.retransmit_map[StartSeq[Accessory]] = l1.retransmit_map[StartSeq[Accessory]]
    <3>1. CASE u = l1
      BY <3>1
    <3>2. CASE u.retransmit_map = Filtered(l1.retransmit_map, p.ack)
      <4>1. StartSeq[Accessory] \in SeqNum
        BY LinkAssumption, TwoEnds
      <4>2. \/ u.retransmit_map[StartSeq[Accessory]] = l1.retransmit_map[StartSeq[Accessory]]
            \/ u.retransmit_map[StartSeq[Accessory]] = NoEntry
        BY <3>2, <4>1 DEF Filtered
      <4> QED
        BY <4>2 DEF SynHeld, NoEntry, Bare
    <3> QED
      BY <2>3, <3>1, <3>2
  <2>5. Acknowledged(l, u)
    BY <1>1, <2>3, <2>4 DEF Acknowledged, ReceiverSame, NegotiationSame, SynHeld
  <2> QED
    BY <2>2, <2>3, <2>5 DEF p
<1> QED
  BY <1>4, <1>5

\* A read that leaves the struct as it was, in all that matters.
LEMMA QuietRead ==
    ASSUME WindowsFit, TypeOK, TypeOK', OrderInv, NEW e \in Endpoint, Read(e),
           Quiet(link[e], read(e, link[e], Head(chan[e])))
    PROVE  OrderInv'
<1> DEFINE l2 == read(e, link[e], Head(chan[e]))
<1>1. /\ link' = [link EXCEPT ![e] = l2] /\ chan[e] # << >> /\ chan' = [chan EXCEPT ![e] = Tail(@)]
  BY DEF Read, Update
<1> HIDE DEF l2
<1>2. chan'[e] = Tail(chan[e]) /\ chan'[Peer(e)] = chan[Peer(e)]
  BY <1>1, TwoEnds DEF TypeOK
<1>3. Quiet(link[e], l2)
  BY DEF l2
<1> QED
  BY <1>1, <1>2, <1>3, ResetFrame, QuietStep DEF Off

\* read() of a DETECT or an iAP1 frame keeps OrderInv, and so do its errors.
LEMMA PlainRead ==
    ASSUME NEW e \in Endpoint, NEW l \in LinkState, NEW p \in Frame,
           \/ is_error(l)
           \/ p.ctl \in {"DETECT", "LEGACY"}
           \/ is_downgrade(l)
           \/ p.len > max_len[l.local_lsp]
           \/ e = Accessory /\ p.ctl = "RST"
    PROVE  Quiet(l, read(e, l, p))
<1>1. /\ "RemoteAttemptedUpgrade" \in LinkError /\ "RemoteAttemptedDowngrade" \in LinkError
      /\ "RecvMaxLenViolation" \in LinkError /\ "Reset" \in LinkError
  BY DEF LinkError
<1>2. /\ Quiet(l, l) /\ FlagsDiffer(l, l)
      /\ \A err \in LinkError : Quiet(l, enter_error_state(l, err))
  BY FlagForms, FlagsQuiet
<1>3. CASE is_error(l)
  BY <1>2, <1>3 DEF read
<1>4. CASE ~is_error(l) /\ p.ctl = "DETECT"
  <2>1. read(e, l, p) = read_detect(e, l)
    BY <1>4 DEF read
  <2>2. CASE is_downgrade(l)
    BY <1>1, <1>2, <2>1, <2>2 DEF read_detect
  <2>3. CASE ~is_downgrade(l) /\ e = Host
    <3>1. read_detect(e, l) = [l EXCEPT !.detect_ack = TRUE]
      BY <2>3 DEF read_detect
    <3>2. [l EXCEPT !.detect_ack = TRUE] \in LinkState
      BY DEF LinkState
    <3> QED
      BY <2>1, <3>1, <3>2, FlagForms, FlagsQuiet
  <2>4. CASE ~is_downgrade(l) /\ e # Host /\ l.status = "Detecting"
    <3>1. read_detect(e, l) = [l EXCEPT !.status = "Negotiating"]
      BY <2>4 DEF read_detect
    <3>2. ~InData(l)
      BY <2>4, ErrorData
    <3> QED
      BY <1>2, <1>4, <2>1, <3>1, <3>2, FlagsQuiet
  <2>5. CASE ~is_downgrade(l) /\ e # Host /\ l.status # "Detecting"
    BY <1>2, <2>1, <2>5 DEF read_detect
  <2> QED
    BY <2>2, <2>3, <2>4, <2>5
<1>5. CASE ~is_error(l) /\ p.ctl = "LEGACY"
  <2>1. read(e, l, p) = read_legacy(e, l)
    BY <1>5 DEF read
  <2>2. CASE is_downgrade(l) \/ (e = Host /\ can_downgrade(l))
    <3> DEFINE m == [l EXCEPT !.status = "Downgrade", !.legacy_rx = @ + 1]
    <3>1. read_legacy(e, l) = m
      BY <2>2 DEF read_legacy
    <3>2. ~InData(l)
      BY <2>2, ErrorData DEF can_downgrade, is_downgrade
    <3>3. StatusDiffers(l, m) /\ m.status = "Downgrade"
      BY DEF LinkState, StatusDiffers, ReceiverSame, NegotiationSame
    <3> HIDE DEF m
    <3>4. ~InData(m)
      BY <3>3, StatusSets DEF InData
    <3>5. Quiet(l, m)
      BY <1>5, <3>2, <3>3, <3>4 DEF Quiet, StatusDiffers
    <3> QED
      BY <2>1, <3>1, <3>5
  <2>3. CASE ~(is_downgrade(l) \/ (e = Host /\ can_downgrade(l)))
    BY <1>1, <1>2, <2>1, <2>3 DEF read_legacy
  <2> QED
    BY <2>2, <2>3
<1>6. CASE ~is_error(l) /\ p.ctl \notin {"DETECT", "LEGACY"}
  <2>1. read(e, l, p) = read_packet(e, l, p)
    BY <1>6 DEF read
  <2>2. CASE is_downgrade(l)
    BY <1>1, <1>2, <2>1, <2>2 DEF read_packet
  <2>3. CASE ~is_downgrade(l) /\ p.len > max_len[l.local_lsp]
    BY <1>1, <1>2, <2>1, <2>3 DEF read_packet
  <2>4. CASE /\ ~is_downgrade(l) /\ ~(p.len > max_len[l.local_lsp])
             /\ e = Accessory /\ p.ctl = "RST"
    BY <1>1, <1>2, <2>1, <2>4 DEF read_packet
  <2> QED
    BY <1>6, <2>2, <2>3, <2>4
<1> QED
  BY <1>3, <1>4, <1>5, <1>6

\* read() of a frame, put together from what its acknowledgement did and what
\* the rest of it did.
LEMMA ReadStep ==
    ASSUME WindowsFit, TypeOK, TypeOK', OrderInv, NEW e \in Endpoint, Read(e),
           NEW u, NEW l2, l2 = read(e, link[e], Head(chan[e])),
           Way(e, u, link[Peer(e)], chan[Peer(e)], Tail(chan[e])), SenderSame(u, l2),
           Way(Peer(e), link[Peer(e)], l2, Tail(chan[e]), chan[Peer(e)]),
           Ends(l2),
           \/ /\ e = Host => HostSame(link[e], l2)
              /\ e = Accessory => AccessorySame(link[e], l2)
           \/ Setup'
    PROVE  OrderInv'
<1>1. /\ link' = [link EXCEPT ![e] = l2] /\ chan[e] # << >> /\ chan' = [chan EXCEPT ![e] = Tail(@)]
  BY DEF Read, Update
<1>2. chan'[e] = Tail(chan[e]) /\ chan'[Peer(e)] = chan[Peer(e)]
  BY <1>1, TwoEnds DEF TypeOK
<1>3. /\ chan[e] \in Seq(Frame) /\ chan[Peer(e)] \in Seq(Frame)
  BY BothWays
<1>4. Cut(Tail(chan[e]), Tail(chan[e])) /\ Cut(chan[Peer(e)], chan[Peer(e)])
  BY <1>1, <1>3, Transports
<1>5. ReceiverSame(link[Peer(e)], link[Peer(e)])
  BY DEF ReceiverSame
<1>6. Way(e, l2, link[Peer(e)], chan'[Peer(e)], chan'[e])
  BY <1>2, <1>4, <1>5, WayStays
<1>7. Way(Peer(e), link[Peer(e)], l2, chan'[e], chan'[Peer(e)])
  BY <1>2
<1>8. Off(chan'[e], chan[e]) /\ Off(chan'[Peer(e)], chan[Peer(e)])
  BY <1>1, <1>2 DEF Off
<1>9. CASE Setup'
  BY <1>1, <1>6, <1>7, <1>9, Assemble
<1>10. CASE /\ e = Host => HostSame(link[e], l2)
            /\ e = Accessory => AccessorySame(link[e], l2)
  BY <1>1, <1>6, <1>7, <1>8, <1>10, ResetFrame, StepOf
<1> QED
  BY <1>9, <1>10

\* What an acknowledgement alone does.
LEMMA AckedKeeps ==
    ASSUME NEW l, NEW u, Acknowledged(l, u), ~is_error(l), InData(u) <=> InData(l), ~is_error(u)
    PROVE  /\ HostSame(l, u) /\ AccessorySame(l, u) /\ ReceiverSame(l, u)
           /\ Ends(l) => Ends(u)
           /\ Taken(u) = Taken(l)
<1>1. HostSame(l, u) /\ AccessorySame(l, u) /\ ReceiverSame(l, u)
  BY DEF Acknowledged, HostSame, AccessorySame, ReceiverSame, NegotiationSame
<1>2. Ends(l) => Ends(u)
  BY DEF Acknowledged, Ends, ReceiverSame, NegotiationSame
<1>3. Taken(u) = Taken(l)
  BY DEF Acknowledged, NegotiationSame, Taken
<1> QED
  BY <1>1, <1>2, <1>3

\* A frame that is read for its acknowledgement only keeps OrderInv.
LEMMA AckOnlyRead ==
    ASSUME WindowsFit, TypeOK, TypeOK', OrderInv, NEW e \in Endpoint, Read(e),
           ~is_error(link[e]), NEW u, u = read(e, link[e], Head(chan[e])),
           Acknowledged(link[e], u), ~is_error(u), InData(u) <=> InData(link[e]),
           Way(e, u, link[Peer(e)], chan[Peer(e)], Tail(chan[e]))
    PROVE  OrderInv'
<1> DEFINE l == link[e]
           r == link[Peer(e)]
           c == chan[Peer(e)]
           d == chan[e]
<1>1. /\ Way(Peer(e), r, l, d, c) /\ Ends(l)
      /\ c \in Seq(Frame) /\ d \in Seq(Frame) /\ Peer(e) \in Endpoint /\ d # << >>
  BY BothWays DEF Read
<1>2. Cut(Tail(d), d) /\ Cut(c, c) /\ SenderSame(r, r) /\ SenderSame(u, u)
  BY <1>1, Transports DEF SenderSame
<1>3. HostSame(l, u) /\ AccessorySame(l, u) /\ ReceiverSame(l, u) /\ Ends(u)
  BY <1>1, AckedKeeps
<1>4. Way(Peer(e), r, u, Tail(d), c)
  BY <1>1, <1>2, <1>3, WayStays
<1> QED
  BY <1>2, <1>3, <1>4, ReadStep

\* A frame read in the data phase keeps OrderInv.
LEMMA DataRead ==
    ASSUME WindowsFit, TypeOK, TypeOK', OrderInv, NEW e \in Endpoint, Read(e),
           ~is_error(link[e]), InData(link[e]), NEW u \in LinkState,
           Acknowledged(link[e], u), ~is_error(u), InData(u),
           Way(e, u, link[Peer(e)], chan[Peer(e)], Tail(chan[e])),
           NEW l3 \in LinkState, l3 = u \/ \E psn \in SeqNum : l3 = begin_recovery(u, psn),
           read(e, link[e], Head(chan[e])) = process_data(l3, Head(chan[e]))
    PROVE  OrderInv'
<1> DEFINE l == link[e]
           r == link[Peer(e)]
           c == chan[Peer(e)]
           d == chan[e]
           p == Head(d)
           l4 == process_data(l3, p)
<1>1. /\ Way(Peer(e), r, l, d, c) /\ Ends(l)
      /\ l \in LinkState /\ r \in LinkState
      /\ c \in Seq(Frame) /\ d \in Seq(Frame) /\ Peer(e) \in Endpoint /\ d # << >>
  BY BothWays DEF Read
<1>2. Cut(d, d) /\ Cut(c, c) /\ SenderSame(r, r) /\ p \in Frame
  BY <1>1, Transports DEF SenderSame
<1>3. /\ l3.own_seq = u.own_seq /\ l3.peer_ack = u.peer_ack /\ l3.taken = u.taken
      /\ l3.retransmit_map = u.retransmit_map
      /\ ReceiverSame(u, l3) /\ NegotiationSame(u, l3) /\ InData(l3)
  <2>1. CASE l3 = u
    BY <2>1 DEF ReceiverSame, NegotiationSame
  <2>2. CASE \E psn \in SeqNum : l3 = begin_recovery(u, psn)
    <3>1. PICK psn \in SeqNum : l3 = begin_recovery(u, psn)
      BY <2>2
    <3> DEFINE v == [u EXCEPT !.missing_psn = psn]
    <3>2. v \in LinkState /\ StatusDiffers(u, v) /\ v.status = u.status
      BY DEF LinkState, StatusDiffers, ReceiverSame, NegotiationSame
    <3>3. l3 = refresh_data_status(v)
      BY <3>1 DEF begin_recovery
    <3> HIDE DEF v
    <3>4. StatusDiffers(v, l3) /\ (InData(l3) <=> InData(v))
      BY <3>2, <3>3, RefreshOnly
    <3>5. InData(v)
      BY <3>2 DEF InData
    <3> QED
      BY <3>2, <3>4, <3>5 DEF StatusDiffers, ReceiverSame, NegotiationSame
  <2> QED
    BY <2>1, <2>2
<1>4. /\ l4.own_seq = l3.own_seq /\ l4.peer_ack = l3.peer_ack /\ l4.taken = l3.taken
      /\ l4.retransmit_map = l3.retransmit_map /\ l4.status = l3.status
      /\ NegotiationSame(l3, l4)
  <2> DEFINE n == BufferedRun(l3, p.seq)
             o == process_in_order(l3, p)
  <2>1. \/ l4 = l3 \/ l4 = o
        \/ l4 = [l3 EXCEPT !.out_of_order[p.seq] = p.msg] \/ l4 = [l3 EXCEPT !.force = TRUE]
    BY DEF process_data
  <2> HIDE DEF l4
  <2>2. CASE l4 = l3
    BY <2>2 DEF NegotiationSame
  <2>3. CASE l4 = o
    BY <2>3 DEF LinkState, process_in_order, NegotiationSame
  <2>4. CASE l4 = [l3 EXCEPT !.out_of_order[p.seq] = p.msg]
    BY <2>4 DEF LinkState, NegotiationSame
  <2>5. CASE l4 = [l3 EXCEPT !.force = TRUE]
    BY <2>5 DEF LinkState, NegotiationSame
  <2> QED
    BY <2>1, <2>2, <2>3, <2>4, <2>5
<1>5. /\ l4.peer_seq = NoSeq <=> l3.peer_seq = NoSeq
  BY <1>2, DataKeeps
<1>6. Way(Peer(e), r, l4, Tail(d), c)
  <2>1. ReceiverSame(l, l3)
    BY <1>3 DEF Acknowledged, ReceiverSame
  <2>2. Way(Peer(e), r, l3, d, c)
    BY <1>1, <1>2, <2>1, WayStays
  <2> QED
    BY <1>1, <2>2, WayReceives
<1>7. l4 = read(e, l, p)
  OBVIOUS
<1> HIDE DEF l4
<1>8. InData(l4) /\ l.phase = "Accepted"
  BY <1>1, <1>3, <1>4 DEF InData, Ends
<1>9. SenderSame(u, l4)
  BY <1>3, <1>4 DEF SenderSame, NegotiationSame, Taken
<1>10. Ends(l4)
  BY <1>1, <1>3, <1>4, <1>8 DEF Ends, NegotiationSame, Acknowledged
<1>11. HostSame(l, l4)
  BY <1>3, <1>4, <1>5, <1>8 DEF HostSame, NegotiationSame, ReceiverSame, Acknowledged
<1>12. AccessorySame(l, l4)
  BY <1>3, <1>4, <1>5, <1>8 DEF AccessorySame, NegotiationSame, ReceiverSame, Acknowledged, SynHeld
<1> QED
  BY <1>6, <1>7, <1>9, <1>10, <1>11, <1>12, ReadStep

\* A SYN read by the host keeps OrderInv: the first one, or one it knows.
LEMMA SynRead ==
    ASSUME WindowsFit, OfferAccepted, TypeOK, TypeOK', OrderInv, HandshakeInv, Read(Host),
           ~is_error(link[Host]), ~InData(link[Host]), NEW u \in LinkState,
           Acknowledged(link[Host], u), u.status = "Negotiating",
           Way(Host, u, link[Accessory], chan[Accessory], Tail(chan[Host])),
           Head(chan[Host]).ctl = "SYN",
           read(Host, link[Host], Head(chan[Host])) = on_recv_neg_host(u, Head(chan[Host]))
    PROVE  OrderInv'
<1> DEFINE l == link[Host]
           a == link[Accessory]
           c == chan[Accessory]
           d == chan[Host]
           p == Head(d)
           l1 == [u EXCEPT !.peer_seq = p.seq]
           l2 == transition_offering([l1 EXCEPT !.accepted_peer_lsp = {p.lsp}, !.offer = p.lsp,
                                                !.peer_lsp = p.lsp])
<1>1. /\ Way(Accessory, a, l, d, c) /\ Ends(l) /\ HostInv(l, c) /\ AccessoryInv(a, l) /\ Repeats(a, l, d)
      /\ l \in LinkState /\ a \in LinkState
      /\ c \in Seq(Frame) /\ d \in Seq(Frame) /\ d # << >>
      /\ Host \in Endpoint /\ Accessory \in Endpoint /\ Peer(Host) = Accessory
  <2>1. Host \in Endpoint /\ Accessory \in Endpoint /\ Peer(Host) = Accessory
    BY TwoEnds
  <2> QED
    BY <2>1, BothWays DEF Read, Setup
<1>2. Cut(Tail(d), d) /\ Cut(c, c) /\ SenderSame(a, a) /\ p \in Frame /\ p = d[1] /\ 1 \in DOMAIN d
      /\ Tail(d) \in Seq(Frame)
  BY <1>1, Transports DEF SenderSame
<1>3. l.phase # "Accepted" /\ u.phase = l.phase
  BY <1>1 DEF Ends, Acknowledged, NegotiationSame
<1>4. FrameFrom(Accessory, a, p)
  BY <1>1, <1>2 DEF Way, Flight
<1>5. p.seq = StartSeq[Accessory] /\ p.lsp = Offer /\ is_ackable(p)
      /\ 1 <= Age(a, p.seq) /\ Taken(a) < Age(a, p.seq)
  BY <1>4 DEF FrameFrom, is_ackable
<1>6. read(Host, l, p) = l2
  <2>1. counter_offer(Host, p.lsp) = {}
    BY <1>1, <1>5 DEF counter_offer, OfferAccepted
  <2>2. p.ctl \in {"SYN", "ACK", "SYNACK"} /\ p.ctl # "ACK"
    OBVIOUS
  <2> QED
    BY <1>5, <2>1, <2>2 DEF on_recv_neg_host
<1>7. /\ l2.own_seq = u.own_seq /\ l2.peer_ack = u.peer_ack /\ l2.taken = u.taken
      /\ l2.retransmit_map = u.retransmit_map /\ l2.status = u.status
      /\ l2.out_of_order = u.out_of_order /\ l2.delivered = u.delivered /\ l2.skipped = u.skipped
      /\ l2.peer_seq = StartSeq[Accessory] /\ l2.phase = "Offering"
      /\ l2.offer = Offer /\ l2.accepted_peer_lsp = {Offer}
  <2> HIDE DEF p
  <2>1. /\ l2.own_seq = u.own_seq /\ l2.peer_ack = u.peer_ack /\ l2.taken = u.taken
        /\ l2.retransmit_map = u.retransmit_map /\ l2.status = u.status
    BY DEF LinkState, transition_offering
  <2>2. /\ l2.out_of_order = u.out_of_order /\ l2.delivered = u.delivered /\ l2.skipped = u.skipped
        /\ l2.peer_seq = p.seq /\ l2.phase = "Offering"
        /\ l2.offer = p.lsp /\ l2.accepted_peer_lsp = {p.lsp}
    BY DEF LinkState, transition_offering
  <2> QED
    BY <1>5, <2>1, <2>2
<1> HIDE DEF l2
<1>8. /\ l2.own_seq = l.own_seq /\ l2.out_of_order = l.out_of_order /\ l2.delivered = l.delivered
      /\ l2.skipped = l.skipped /\ l2.taken = l.taken
  BY <1>7 DEF Acknowledged, ReceiverSame
<1>9. SenderSame(u, l2)
  <2>1. is_error(u) => is_error(l2)
    BY <1>7 DEF is_error
  <2> QED
    BY <1>3, <1>7, <2>1 DEF SenderSame, Taken
<1>10. /\ l.delivered = << >> /\ l.skipped = 0 /\ l.taken = 0
       /\ \A s \in SeqNum : l.out_of_order[s] = NoMsg
  BY <1>1, <1>3 DEF Ends
<1>11. Ends(l2)
  <2>1. ~InData(l2)
    BY <1>7, ErrorData
  <2> QED
    BY <1>7, <1>8, <1>10, <2>1 DEF Ends
<1>12. Way(Accessory, a, l2, Tail(d), c)
  <2>1. CASE l.peer_seq = NoSeq
    <3>1. a.peer_seq = NoSeq
      BY <2>1 DEF HandshakeInv, AcksFollowSyn
    <3>2. a.phase = "Start"
      BY <1>1, <3>1 DEF AccessoryInv
    <3>3. Age(a, p.seq) \in {0, 1} /\ Taken(a) = 0
      BY <1>1, <1>5, <3>2 DEF AccessoryInv, Taken
    <3>4. 1 <= Age(a, Got(Accessory, l)) /\ Age(a, Got(Accessory, l)) \in Nat
      <4>1. Got(Accessory, l) \in SeqNum
        BY <1>1, AgeTypes
      <4> QED
        BY <1>1, <4>1, AgeTypes DEF Way, Bounds
    <3>5. Age(a, p.seq) <= Age(a, Got(Accessory, l))
      BY <3>3, <3>4
    <3>6. l2.peer_seq = p.seq /\ l2.out_of_order = l.out_of_order /\ l2.delivered = << >>
          /\ l2.skipped = IF p.ctl = "ACK" THEN p.msg ELSE 0
      BY <1>5, <1>7, <1>8, <1>10
    <3> QED
      BY <1>1, <1>5, <1>10, <3>3, <3>5, <3>6, WayNegotiates
  <2>2. CASE l.peer_seq # NoSeq
    <3>1. l.peer_seq = StartSeq[Accessory]
      BY <1>1, <1>3, <2>2 DEF HostInv
    <3>2. ReceiverSame(l, l2)
      BY <1>7, <1>8, <3>1 DEF ReceiverSame
    <3> QED
      BY <1>1, <1>2, <3>2, WayStays
  <2> QED
    BY <2>1, <2>2
<1>13. Setup'
  <2>1. link'[Host] = l2 /\ link'[Accessory] = a /\ chan'[Host] = Tail(d) /\ chan'[Accessory] = c
    BY <1>1, <1>6, TwoEnds DEF Read, Update, TypeOK
  <2>2. HostInv(l2, c)
    <3>1. StartSeq[Accessory] # NoSeq
      <4>1. StartSeq[Accessory] \in SeqNum
        BY <1>1, LinkAssumption
      <4> QED
        BY <4>1, SeqModAssumption DEF SeqNum, NoSeq
    <3> QED
      BY <1>1, <1>3, <1>7, <3>1 DEF HostInv
  <2>3. AccessoryInv(a, l2)
    BY <1>1, <1>7 DEF AccessoryInv
  <2>4. Repeats(a, l2, Tail(d))
    <3> DEFINE x == Age(l, StartSeq[Host])
               y == IF l.phase = "Offering" THEN 1 ELSE 0
               m == a.retransmit_map[StartSeq[Accessory]].retries
               bound == IF SynHeld(a) THEN 1 + m
                        ELSE IF a.syn_transmitted THEN 1 + max_retransmissions[Negotiating_Lsp]
                        ELSE 0
    <3>0. x \in Nat /\ y \in Nat /\ bound \in Nat
      <4>1. x \in Nat /\ m \in Nat /\ max_retransmissions[Negotiating_Lsp] \in Nat
        BY <1>1, RepeatsTypes
      <4> HIDE DEF m
      <4>2. bound \in Nat
        BY ONLY <4>1
      <4> QED
        BY ONLY <4>1, <4>2
    <3>1. /\ x \in Nat /\ y \in Nat /\ bound \in Nat /\ x + y + Syns(d) <= bound
          /\ Syns(Tail(d)) \in Nat /\ Syns(d) \in Nat /\ Syns(d) = Syns(Tail(d)) + 1
      <4>1. Syns(d) \in Nat /\ Syns(Tail(d)) \in Nat
        BY <1>1, <1>2, SynsCount
      <4>2. Syns(d) = Syns(Tail(d)) + 1
        BY <1>1, SynsCount
      <4>3. x + y + Syns(d) <= bound
        BY <1>1, <1>3 DEF Repeats
      <4> QED
        BY <3>0, <4>1, <4>2, <4>3
    <3>2. Age(l2, StartSeq[Host]) = x
      BY <1>8 DEF Age
    <3> HIDE DEF x, y, bound
    <3>3. x + 1 + Syns(Tail(d)) <= bound
      BY ONLY <3>1
    <3> QED
      BY <1>1, <1>7, <3>2, <3>3 DEF Repeats, bound
  <2> QED
    BY <2>1, <2>2, <2>3, <2>4 DEF Setup
<1> QED
  BY <1>1, <1>6, <1>9, <1>11, <1>12, <1>13, ReadStep

\* The ACK that ends the host's negotiation keeps OrderInv, whatever it carries.
LEMMA FinalAckRead ==
    ASSUME WindowsFit, TypeOK, TypeOK', OrderInv, HandshakeInv, Read(Host),
           ~is_error(link[Host]), ~InData(link[Host]), NEW u \in LinkState,
           Acknowledged(link[Host], u), u.status = "Negotiating",
           Way(Host, u, link[Accessory], chan[Accessory], Tail(chan[Host])),
           Head(chan[Host]).ctl = "ACK",
           read(Host, link[Host], Head(chan[Host])) = on_recv_neg_host(u, Head(chan[Host]))
    PROVE  OrderInv'
<1> DEFINE l == link[Host]
           a == link[Accessory]
           c == chan[Accessory]
           d == chan[Host]
           p == Head(d)
           seq == IF is_ackable(p) THEN p.seq ELSE u.peer_seq
           peer == IF u.accepted_peer_lsp = {} THEN u.offer
                   ELSE CHOOSE lsp \in u.accepted_peer_lsp : TRUE
           l1 == [u EXCEPT !.peer_seq = IF is_ackable(p) THEN p.seq ELSE @]
           l2 == [l1 EXCEPT !.local_lsp = u.offer, !.peer_lsp = peer,
                            !.phase = "Accepted", !.pending = FALSE,
                            !.status = "Writable", !.skipped = p.msg]
<1>1. /\ Way(Accessory, a, l, d, c) /\ Ends(l) /\ HostInv(l, c) /\ AccessoryInv(a, l) /\ Repeats(a, l, d)
      /\ l \in LinkState /\ a \in LinkState
      /\ c \in Seq(Frame) /\ d \in Seq(Frame) /\ d # << >>
      /\ Host \in Endpoint /\ Accessory \in Endpoint /\ Peer(Host) = Accessory
  <2>1. Host \in Endpoint /\ Accessory \in Endpoint /\ Peer(Host) = Accessory
    BY TwoEnds
  <2> QED
    BY <2>1, BothWays DEF Read, Setup
<1>2. Cut(Tail(d), d) /\ Cut(c, c) /\ SenderSame(a, a) /\ p \in Frame /\ p = d[1] /\ 1 \in DOMAIN d
      /\ Tail(d) \in Seq(Frame)
  BY <1>1, Transports DEF SenderSame
<1>3. l.phase # "Accepted" /\ u.phase = l.phase
  BY <1>1 DEF Ends, Acknowledged, NegotiationSame
<1>4. FrameFrom(Accessory, a, p) /\ a.phase = "Accepted"
  <2>1. FrameFrom(Accessory, a, p)
    BY <1>1, <1>2 DEF Way, Flight
  <2> QED
    BY <2>1 DEF FrameFrom
<1>5. l.peer_seq # NoSeq /\ l.offer = Offer /\ l.accepted_peer_lsp = {Offer}
  <2>1. l.peer_seq # NoSeq
    BY <1>2 DEF HandshakeInv, AcksFollowSyn, is_any_ack
  <2> QED
    BY <1>1, <2>1 DEF HostInv
<1>6. read(Host, l, p) = l2
  BY DEF on_recv_neg_host
<1>7. u.offer = Offer /\ peer = Offer
  BY <1>5 DEF Acknowledged, NegotiationSame
<1>8. /\ l2.own_seq = u.own_seq /\ l2.peer_ack = u.peer_ack /\ l2.taken = u.taken
      /\ l2.retransmit_map = u.retransmit_map /\ l2.status = "Writable"
      /\ l2.out_of_order = u.out_of_order /\ l2.delivered = u.delivered /\ l2.skipped = p.msg
      /\ l2.peer_seq = seq /\ l2.phase = "Accepted"
      /\ l2.offer = u.offer /\ l2.accepted_peer_lsp = u.accepted_peer_lsp
      /\ l2.local_lsp = u.offer /\ l2.peer_lsp = peer
  <2> HIDE DEF p, peer
  <2>1. l1.peer_seq = seq /\ DOMAIN l1 = DOMAIN u
    BY DEF LinkState
  <2>2. /\ l2.own_seq = u.own_seq /\ l2.peer_ack = u.peer_ack /\ l2.taken = u.taken
        /\ l2.retransmit_map = u.retransmit_map /\ l2.status = "Writable"
        /\ l2.out_of_order = u.out_of_order /\ l2.delivered = u.delivered /\ l2.skipped = p.msg
    BY DEF LinkState
  <2>3. /\ l2.peer_seq = seq /\ l2.phase = "Accepted"
        /\ l2.offer = u.offer /\ l2.accepted_peer_lsp = u.accepted_peer_lsp
        /\ l2.local_lsp = u.offer /\ l2.peer_lsp = peer
    BY DEF LinkState
  <2> QED
    BY <2>2, <2>3
<1> HIDE DEF l2, peer
<1>9. /\ l2.own_seq = l.own_seq /\ l2.out_of_order = l.out_of_order /\ l2.delivered = l.delivered
      /\ l2.taken = l.taken /\ u.peer_seq = l.peer_seq
  BY <1>8 DEF Acknowledged, ReceiverSame
<1>10. /\ l.delivered = << >> /\ l.skipped = 0 /\ l.taken = 0
       /\ \A s \in SeqNum : l.out_of_order[s] = NoMsg
  BY <1>1, <1>3 DEF Ends
<1>11. InData(l2) /\ ~is_error(u)
  <2>1. InData(l2)
    BY <1>8, StatusSets DEF InData
  <2> QED
    BY <2>1, ErrorData
<1>12. SenderSame(u, l2)
  BY <1>3, <1>8, <1>9, <1>10, <1>11 DEF SenderSame, Taken
<1>13. Ends(l2)
  BY <1>7, <1>8, <1>11 DEF Ends
<1>14. Way(Accessory, a, l2, Tail(d), c)
  <2>1. CASE is_ackable(p)
    <3> DEFINE x == Age(a, p.seq)
               G == Age(a, Got(Accessory, l))
               T == Taken(a)
               len == Len(l.delivered)
    <3>1. x <= T
      BY <1>4, <2>1 DEF FrameFrom, is_ackable
    <3>2. /\ x \in Nat /\ T \in Nat /\ G \in Nat
      BY <1>1, <1>2, AgeTypes, FrameFields
    <3>3. \/ 0 = T + 1 - G
          \/ G - 1 > T
      <4>1. Owner(Accessory, a, l) /\ Len(l.delivered) = 0
        BY <1>1, <1>10 DEF Way
      <4> QED
        BY <1>10, <4>1 DEF Owner
    <3> HIDE DEF x, G, T
    <3>4. x <= G
      BY ONLY <3>1, <3>2, <3>3
    <3>5. /\ l2.peer_seq = p.seq /\ l2.out_of_order = l.out_of_order /\ l2.delivered = << >>
          /\ l2.skipped = IF p.ctl = "ACK" THEN p.msg ELSE 0
      BY <1>8, <1>9, <1>10, <2>1
    <3> QED
      BY <1>1, <1>10, <2>1, <3>4, <3>5, WayNegotiates DEF x, G
  <2>2. CASE ~is_ackable(p)
    <3>1. p.msg = 0
      BY <2>2 DEF is_ackable, NoMsg
    <3>2. ReceiverSame(l, l2)
      BY <1>8, <1>9, <1>10, <2>2, <3>1 DEF ReceiverSame
    <3> QED
      BY <1>1, <1>2, <3>2, WayStays
  <2> QED
    BY <2>1, <2>2
<1>15. Setup'
  <2>1. link'[Host] = l2 /\ link'[Accessory] = a /\ chan'[Host] = Tail(d) /\ chan'[Accessory] = c
    BY <1>1, <1>6, TwoEnds DEF Read, Update, TypeOK
  <2>2. HostInv(l2, c)
    BY <1>5, <1>7, <1>8 DEF HostInv, Acknowledged, NegotiationSame
  <2>3. AccessoryInv(a, l2)
    BY <1>1, <1>4 DEF AccessoryInv
  <2>4. Repeats(a, l2, Tail(d))
    BY <1>1, <1>8 DEF Repeats
  <2> QED
    BY <2>1, <2>2, <2>3, <2>4 DEF Setup
<1> QED
  BY <1>1, <1>6, <1>12, <1>13, <1>14, <1>15, ReadStep

\* The number after the one before.
LEMMA NextOfPrevious ==
    ASSUME NEW s \in SeqNum
    PROVE  SeqAdd(SeqSub(s, 1), 1) = s
<1>1. SeqMod \in Nat /\ 1 < SeqMod /\ s \in 0..(SeqMod - 1) /\ 1 \in SeqNum
  BY SeqModAssumption DEF SeqNum
<1> DEFINE t == SeqSub(s, 1)
<1>2. t \in SeqNum /\ t = IF 1 <= s THEN s - 1 ELSE s - 1 + SeqMod
  BY <1>1, SeqCases
<1>3. SeqAdd(t, 1) = IF t + 1 < SeqMod THEN t + 1 ELSE t + 1 - SeqMod
  BY <1>1, <1>2, SeqCases
<1> HIDE DEF t
<1>4. SeqAdd(t, 1) = s
  BY ONLY <1>1, <1>2, <1>3
<1> QED
  BY <1>4 DEF t

\* The SYN+ACK that the accessory accepts keeps OrderInv.
LEMMA SynAckRead ==
    ASSUME WindowsFit, OfferAccepted, TypeOK, TypeOK', OrderInv, Read(Accessory),
           ~is_error(link[Accessory]), ~InData(link[Accessory]), NEW u \in LinkState,
           Acknowledged(link[Accessory], u), u.status = "Negotiating",
           u.peer_ack = Head(chan[Accessory]).ack,
           Way(Accessory, u, link[Host], chan[Host], Tail(chan[Accessory])),
           Head(chan[Accessory]).ctl = "SYNACK",
           u.peer_seq = NoSeq \/ verify_neg_seq_ack(u, Head(chan[Accessory])),
           read(Accessory, link[Accessory], Head(chan[Accessory]))
             = on_recv_neg_accessory(u, Head(chan[Accessory]))
    PROVE  OrderInv'
<1> DEFINE l == link[Accessory]
           h == link[Host]
           c == chan[Host]
           d == chan[Accessory]
           p == Head(d)
           first == StartSeq[Accessory]
           l2 == [[u EXCEPT !.peer_seq = p.seq] EXCEPT
                    !.accepted_peer_lsp = {p.lsp}, !.peer_lsp = p.lsp,
                    !.local_lsp = u.offer, !.phase = "Accepting", !.pending = TRUE]
<1>1. /\ Way(Accessory, l, h, c, d) /\ Way(Host, h, l, d, c) /\ Ends(l)
      /\ HostInv(h, d) /\ AccessoryInv(l, h) /\ Repeats(l, h, c)
      /\ l \in LinkState /\ h \in LinkState
      /\ c \in Seq(Frame) /\ d \in Seq(Frame) /\ d # << >>
      /\ Host \in Endpoint /\ Accessory \in Endpoint /\ Peer(Accessory) = Host
  <2>1. Host \in Endpoint /\ Accessory \in Endpoint /\ Peer(Accessory) = Host
    BY TwoEnds
  <2> QED
    BY <2>1, BothWays DEF Read, Setup
<1>2. Cut(Tail(d), d) /\ Cut(c, c) /\ p \in Frame /\ p = d[1] /\ 1 \in DOMAIN d
      /\ \A i \in DOMAIN Tail(d) : i + 1 \in DOMAIN d /\ Tail(d)[i] = d[i + 1]
  BY <1>1, Transports
<1>3. l.phase # "Accepted" /\ u.phase = l.phase /\ h.phase # "Accepted"
  <2>1. l.phase # "Accepted"
    BY <1>1 DEF Ends
  <2> QED
    BY <1>1, <2>1 DEF AccessoryInv, Acknowledged, NegotiationSame
<1>4. FrameFrom(Host, h, p) /\ is_ackable(p) /\ is_any_ack(p)
  BY <1>1, <1>2 DEF Way, Flight, is_ackable, is_any_ack
<1>5. /\ p.lsp = Offer /\ 1 <= Age(h, p.seq) /\ Age(h, p.seq) <= Age(h, StartSeq[Host])
      /\ p.ack = first /\ first \in SeqNum /\ p.seq \in SeqNum
  <2>1. p.ack = first
    BY <1>1, <1>2, <1>3, <1>4 DEF HostInv
  <2>2. first \in SeqNum /\ p.seq \in SeqNum
    BY <1>1, <1>2, LinkAssumption, FrameFields
  <2> QED
    BY <1>3, <1>4, <2>1, <2>2 DEF FrameFrom
<1>6. l.syn_transmitted
  <2>1. /\ 1 <= Age(l, Got(Accessory, h)) /\ Age(l, Got(Accessory, h)) <= Age(l, p.ack)
        /\ Age(l, Got(Accessory, h)) \in Nat /\ Age(l, p.ack) \in Nat
    <3>1. Got(Accessory, h) \in SeqNum
      BY <1>1, AgeTypes
    <3> QED
      BY <1>1, <1>2, <1>4, <1>5, <3>1, AgeTypes DEF Way, Bounds, Acks
  <2>2. Age(l, first) # 0
    BY <1>5, <2>1
  <2> QED
    BY <1>1, <1>3, <2>2 DEF AccessoryInv
<1>7. ~SynHeld(u)
  <2>1. Acked(Accessory, u) = first
    BY <1>5, SeqModAssumption DEF Acked, SeqNum, NoSeq
  <2>2. Age(u, first) \in Nat
    BY <1>1, <1>5, AgeTypes
  <2>3. ~is_error(u)
    BY ErrorData
  <2>4. first \notin Held(u)
    BY <1>5, <2>1, <2>2, <2>3 DEF Way, Kept
  <2>5. u.retransmit_map[first] = NoEntry
    BY <1>5, <2>4 DEF Held
  <2> QED
    BY <2>5 DEF SynHeld, NoEntry, Bare
<1>8. read(Accessory, l, p) = l2
  <2>1. counter_offer(Accessory, p.lsp) = {}
    BY <1>1, <1>5 DEF counter_offer, OfferAccepted
  <2> QED
    BY <2>1 DEF on_recv_neg_accessory
<1>9. /\ l2.own_seq = u.own_seq /\ l2.peer_ack = u.peer_ack /\ l2.taken = u.taken
      /\ l2.retransmit_map = u.retransmit_map /\ l2.status = u.status
      /\ l2.out_of_order = u.out_of_order /\ l2.delivered = u.delivered /\ l2.skipped = u.skipped
      /\ l2.peer_seq = p.seq /\ l2.phase = "Accepting"
      /\ l2.offer = u.offer /\ l2.local_lsp = u.offer /\ l2.peer_lsp = p.lsp
      /\ l2.syn_transmitted = u.syn_transmitted
  <2> HIDE DEF p
  <2>1. /\ l2.own_seq = u.own_seq /\ l2.peer_ack = u.peer_ack /\ l2.taken = u.taken
        /\ l2.retransmit_map = u.retransmit_map /\ l2.status = u.status
        /\ l2.out_of_order = u.out_of_order /\ l2.delivered = u.delivered /\ l2.skipped = u.skipped
    BY DEF LinkState
  <2>2. /\ l2.peer_seq = p.seq /\ l2.phase = "Accepting"
        /\ l2.offer = u.offer /\ l2.local_lsp = u.offer /\ l2.peer_lsp = p.lsp
        /\ l2.syn_transmitted = u.syn_transmitted
    BY DEF LinkState
  <2> QED
    BY <2>1, <2>2
<1> HIDE DEF l2
<1>10. /\ l2.own_seq = l.own_seq /\ l2.out_of_order = l.out_of_order /\ l2.delivered = l.delivered
       /\ l2.skipped = l.skipped /\ l2.taken = l.taken /\ l2.offer = l.offer
       /\ l2.syn_transmitted = l.syn_transmitted /\ u.peer_seq = l.peer_seq
  BY <1>9 DEF Acknowledged, ReceiverSame, NegotiationSame
<1>11. /\ l.delivered = << >> /\ l.skipped = 0 /\ l.taken = 0
       /\ \A s \in SeqNum : l.out_of_order[s] = NoMsg
  BY <1>1, <1>3 DEF Ends
<1>12. SenderSame(u, l2)
  <2>1. is_error(u) => is_error(l2)
    BY <1>9 DEF is_error
  <2> QED
    BY <1>3, <1>9, <2>1 DEF SenderSame, Taken
<1>13. Ends(l2)
  <2>1. ~InData(l2)
    BY <1>9, ErrorData
  <2> QED
    BY <1>9, <1>10, <1>11, <2>1 DEF Ends
<1>14. Way(Host, h, l2, Tail(d), c)
  <2> DEFINE g == Got(Host, l)
  <2>0. 1 \in SeqNum
    BY SeqModAssumption DEF SeqNum
  <2>1. g \in SeqNum /\ h.own_seq \in SeqNum /\ 1 \in SeqNum /\ StartSeq[Host] \in SeqNum
    BY <1>1, <2>0, AgeTypes
  <2>2. 1 <= Age(h, g) /\ Age(h, g) \in Nat
    BY <1>1, <2>1, AgeTypes DEF Way, Bounds
  <2>3. Age(h, SeqAdd(g, 1)) = Age(h, g) - 1
    BY <2>1, <2>2, AgeBack DEF Age
  <2>4. Age(h, p.seq) <= Age(h, g) - 1
    <3>1. CASE l.peer_seq = NoSeq
      <4>1. g = SeqSub(StartSeq[Host], 1)
        BY <3>1 DEF Got, Before
      <4>2. SeqAdd(g, 1) = StartSeq[Host]
        BY <2>1, <4>1, NextOfPrevious
      <4> QED
        BY <1>5, <2>3, <4>2
    <3>2. CASE l.peer_seq # NoSeq
      <4>1. g = l.peer_seq /\ p.seq = SeqAdd(g, 1)
        BY <1>10, <3>2 DEF Got, verify_neg_seq_ack
      <4> QED
        BY <2>2, <2>3, <4>1
    <3> QED
      BY <3>1, <3>2
  <2>5. Age(h, p.seq) \in Nat
    BY <1>1, <1>5, AgeTypes
  <2> HIDE DEF g
  <2>6. Age(h, p.seq) <= Age(h, g)
    BY ONLY <2>2, <2>4, <2>5
  <2>7. /\ l2.peer_seq = p.seq /\ l2.out_of_order = l.out_of_order /\ l2.delivered = << >>
        /\ l2.skipped = IF p.ctl = "ACK" THEN p.msg ELSE 0
    BY <1>9, <1>10, <1>11
  <2>8. Taken(h) = 0
    BY <1>3 DEF Taken
  <2> QED
    BY <1>1, <1>4, <1>11, <2>6, <2>7, <2>8, WayNegotiates DEF g
<1>15. Setup'
  <2>1. link'[Accessory] = l2 /\ link'[Host] = h /\ chan'[Accessory] = Tail(d) /\ chan'[Host] = c
    BY <1>1, <1>8, TwoEnds DEF Read, Update, TypeOK
  <2>2. HostInv(h, Tail(d))
    BY <1>1, <1>2 DEF HostInv
  <2>3. ~SynHeld(l2)
    BY <1>7, <1>9 DEF SynHeld
  <2>4. AccessoryInv(l2, h)
    <3>1. l2.peer_seq # NoSeq
      BY <1>5, <1>9, SeqModAssumption DEF SeqNum, NoSeq
    <3>2. Age(l2, first) = Age(l, first)
      BY <1>10 DEF Age
    <3>3. l2.offer = Offer /\ l2.local_lsp = Offer /\ l2.peer_lsp = Offer
      BY <1>1, <1>5, <1>9, <1>10 DEF AccessoryInv
    <3> QED
      BY <1>1, <1>3, <1>6, <1>9, <1>10, <2>3, <3>1, <3>2, <3>3 DEF AccessoryInv
  <2>5. Repeats(l2, h, c)
    <3> DEFINE x == Age(h, StartSeq[Host]) + (IF h.phase = "Offering" THEN 1 ELSE 0) + Syns(c)
               m == l.retransmit_map[StartSeq[Accessory]].retries
               M == max_retransmissions[Negotiating_Lsp]
    <3>0. /\ SynHeld(l) => m <= M
          /\ x <= IF SynHeld(l) THEN 1 + m ELSE 1 + M
      BY <1>1, <1>3, <1>6 DEF Repeats
    <3>1. /\ SynHeld(l) => m <= M
          /\ x <= IF SynHeld(l) THEN 1 + m ELSE 1 + M
          /\ x \in Nat /\ m \in Nat /\ M \in Nat
      <4>1. /\ Syns(c) \in Nat /\ m \in Nat /\ M \in Nat /\ Age(h, StartSeq[Host]) \in Nat
        BY <1>1, RepeatsTypes
      <4>2. x \in Nat
        BY ONLY <4>1
      <4> QED
        BY <3>0, <4>1, <4>2
    <3> HIDE DEF x, m, M
    <3>2. x <= 1 + M
      BY ONLY <3>1
    <3> QED
      BY <1>6, <1>10, <2>3, <3>2 DEF Repeats, x, M
  <2> QED
    BY <2>1, <2>2, <2>4, <2>5 DEF Setup
<1> QED
  BY <1>1, <1>8, <1>12, <1>13, <1>14, <1>15, ReadStep

\* A detecting end starts to negotiate.
LEMMA NegotiatingStatus ==
    ASSUME NEW l \in LinkState
    PROVE  LET l1 == [l EXCEPT !.status = "Negotiating"]
           IN  l1 \in LinkState /\ StatusDiffers(l, l1) /\ l1.status = "Negotiating"
<1>1. "Negotiating" \in LinkStatus
  BY DEF LinkStatus
<1>2. [l EXCEPT !.status = "Negotiating"] \in LinkState
  BY <1>1 DEF LinkState
<1> QED
  BY <1>2, StatusOnly

\* read() of any frame keeps OrderInv.
LEMMA ReadOrder ==
    ASSUME WindowsFit, OfferAccepted, TypeOK, TypeOK', OrderInv, HandshakeInv,
           NEW e \in Endpoint, Read(e)
    PROVE  OrderInv'
<1> DEFINE l == link[e]
           r == link[Peer(e)]
           c == chan[Peer(e)]
           d == chan[e]
           p == Head(d)
           l1 == IF e = Host /\ l.status = "Detecting" THEN [l EXCEPT !.status = "Negotiating"] ELSE l
           u == IF is_any_ack(p) THEN update_peer_ack(l1, p.ack) ELSE l1
           l3 == IF p.ctl = "EAK" /\ u.peer_ack # NoSeq THEN begin_recovery(u, p.psn) ELSE u
           plain == \/ is_error(l)
                    \/ p.ctl \in {"DETECT", "LEGACY"}
                    \/ is_downgrade(l)
                    \/ p.len > max_len[l.local_lsp]
                    \/ e = Accessory /\ p.ctl = "RST"
<1>1. /\ Way(e, l, r, c, d) /\ Way(Peer(e), r, l, d, c)
      /\ l \in LinkState /\ r \in LinkState /\ c \in Seq(Frame) /\ d \in Seq(Frame)
      /\ d # << >> /\ Peer(e) \in Endpoint
  BY BothWays DEF Read
<1>2. p \in Frame /\ p = d[1] /\ 1 \in DOMAIN d
  BY <1>1, Transports
<1>3. CASE plain
  BY <1>1, <1>2, <1>3, PlainRead, QuietRead
<1>4. CASE ~plain
  <2>1. read(e, l, p) = IF u.status = "Negotiating" THEN on_recv_neg(e, u, p)
                        ELSE IF InData(u) THEN process_data(l3, p) ELSE u
    BY <1>4 DEF read, read_packet
  <2>2. /\ l1 \in LinkState /\ StatusDiffers(l, l1) /\ ~is_error(l1) /\ ~is_error(l)
        /\ InData(l1) <=> InData(l)
    <3>1. CASE e = Host /\ l.status = "Detecting"
      <4>1. l1 = [l EXCEPT !.status = "Negotiating"]
        BY <3>1
      <4>3. l1 \in LinkState /\ StatusDiffers(l, l1) /\ l1.status = "Negotiating"
        BY <1>1, <4>1, NegotiatingStatus
      <4> QED
        BY <1>4, <3>1, <4>3, ErrorData
    <3>2. CASE ~(e = Host /\ l.status = "Detecting")
      BY <1>1, <1>4, <3>2 DEF StatusDiffers, ReceiverSame, NegotiationSame
    <3> QED
      BY <3>1, <3>2
  <2> HIDE DEF l1
  <2>3. /\ Way(e, u, r, c, Tail(d)) /\ u \in LinkState /\ ~is_error(u)
        /\ Acknowledged(l, u)
        /\ InData(u) <=> InData(l)
        /\ is_any_ack(p) => u.peer_ack = p.ack
    BY <1>1, <2>2, AckRead
  <2> HIDE DEF u
  <2>4. CASE read(e, l, p) = u
    BY <2>2, <2>3, <2>4, AckOnlyRead
  <2>5. CASE read(e, l, p) # u /\ u.status # "Negotiating"
    <3>1. InData(u) /\ read(e, l, p) = process_data(l3, p)
      BY <2>1, <2>5
    <3>2. l3 \in LinkState /\ (l3 = u \/ \E psn \in SeqNum : l3 = begin_recovery(u, psn))
      <4>1. p.psn \in SeqNum
        BY <1>2, FrameFields
      <4> QED
        BY <2>3, <4>1, BeginRecoveryType
    <3> HIDE DEF l3
    <3> QED
      BY <2>2, <2>3, <3>1, <3>2, DataRead
  <2>6. CASE read(e, l, p) # u /\ u.status = "Negotiating" /\ e = Host
    <3>1. read(e, l, p) = on_recv_neg_host(u, p)
      BY <2>1, <2>6 DEF on_recv_neg
    <3>2. p.ctl \in {"SYN", "ACK", "SYNACK"}
      BY <2>6, <3>1 DEF on_recv_neg_host
    <3>3. ~InData(l) /\ Peer(e) = Accessory
      BY <2>3, <2>6, ErrorData, TwoEnds
    <3>4. p.ctl # "SYNACK"
      <4>1. FrameFrom(Accessory, r, p)
        BY <1>1, <1>2, <3>3 DEF Way, Flight
      <4> QED
        BY <4>1, TwoEnds DEF FrameFrom
    <3>5. CASE p.ctl = "SYN"
      BY <2>2, <2>3, <2>6, <3>1, <3>3, <3>5, SynRead
    <3>6. CASE p.ctl = "ACK"
      BY <2>2, <2>3, <2>6, <3>1, <3>3, <3>6, FinalAckRead
    <3> QED
      BY <3>2, <3>4, <3>5, <3>6
  <2>7. CASE read(e, l, p) # u /\ u.status = "Negotiating" /\ e = Accessory
    <3>1. read(e, l, p) = on_recv_neg_accessory(u, p)
      BY <2>1, <2>7, TwoEnds DEF on_recv_neg
    <3>2. p.ctl = "SYNACK" /\ (u.peer_seq = NoSeq \/ verify_neg_seq_ack(u, p))
      BY <2>7, <3>1 DEF on_recv_neg_accessory
    <3>3. ~InData(l) /\ Peer(e) = Host
      BY <2>3, <2>7, ErrorData, TwoEnds
    <3>4. u.peer_ack = p.ack
      BY <2>3, <3>2 DEF is_any_ack
    <3> QED
      BY <2>2, <2>3, <2>7, <3>1, <3>2, <3>3, <3>4, SynAckRead
  <2> QED
    BY <2>4, <2>5, <2>6, <2>7 DEF Endpoint
<1> QED
  BY <1>3, <1>4
-----------------------------------------------------------------------------
(* What the runs check.                                                      *)

\* The link starts in OrderInv.
LEMMA InitOrder ==
    ASSUME WindowsFit, Init
    PROVE  OrderInv
<1>1. \A e \in Endpoint : link[e] = NewLink(e) /\ chan[e] = << >>
  BY DEF Init
<1>2. HALF \in Nat \ {0} /\ SeqMod = 2 * HALF /\ 1 < HALF
  <2>1. max_retransmissions[Negotiating_Lsp] \in Nat
    BY LspAssumption
  <2> QED
    BY <2>1, HalfRange DEF WindowsFit
<1>3. 0 \in SeqNum /\ 1 \in SeqNum
  BY SeqModAssumption DEF SeqNum
<1>4. ASSUME NEW e \in Endpoint
      PROVE  /\ Way(e, NewLink(e), NewLink(Peer(e)), << >>, << >>)
             /\ Ends(NewLink(e))
             /\ Age(NewLink(e), StartSeq[e]) = 0
  <2> DEFINE l == NewLink(e)
             r == NewLink(Peer(e))
  <2>1. /\ l.own_seq = StartSeq[e] /\ l.peer_seq = NoSeq /\ l.peer_ack = NoSeq
        /\ l.phase = "Start" /\ l.status = "Detecting" /\ l.skipped = 0
        /\ l.delivered = << >> /\ l.taken = 0
        /\ \A s \in SeqNum : l.out_of_order[s] = NoMsg /\ l.retransmit_map[s] = NoEntry
    BY DEF NewLink
  <2>2. /\ r.peer_seq = NoSeq /\ r.skipped = 0 /\ r.delivered = << >>
        /\ \A s \in SeqNum : r.out_of_order[s] = NoMsg
    BY DEF NewLink
  <2> HIDE DEF l, r
  <2>3. Acked(e, l) = Before(e) /\ Got(e, r) = Before(e) /\ Taken(l) = 0 /\ Held(l) = {}
    BY <2>1, <2>2 DEF Acked, Got, Taken, Held
  <2>4. Age(l, Before(e)) = 1 /\ Age(l, StartSeq[e]) = 0
    <3>1. StartSeq[e] \in SeqNum
      BY LinkAssumption
    <3> QED
      BY <1>3, <2>1, <3>1, AgeSteps DEF Age, Before
  <2>5. Bounds(e, l, r)
    BY <1>2, <2>3, <2>4 DEF Bounds
  <2>6. Flight(e, l, r, << >>) /\ Buffer(e, l, r, << >>) /\ Acks(e, l, r, << >>)
    BY <2>2 DEF Flight, Buffer, Acks
  <2>7. Kept(e, l)
    <3>1. \A s \in SeqNum : ~(Age(l, s) \in 1..(Age(l, Acked(e, l)) - 1))
      BY <2>3, <2>4
    <3> QED
      BY <2>3, <3>1 DEF Kept
  <2>8. Owner(e, l, r)
    BY <2>2, <2>3, <2>4 DEF Owner
  <2>9. Ends(l)
    BY <2>1, ErrorData DEF Ends
  <2> QED
    BY <2>4, <2>5, <2>6, <2>7, <2>8, <2>9 DEF Way, l, r
<1>5. HostInv(NewLink(Host), << >>)
  BY DEF HostInv, NewLink
<1>6. AccessoryInv(NewLink(Accessory), NewLink(Host))
  <2>1. Age(NewLink(Accessory), StartSeq[Accessory]) = 0
    BY <1>4, TwoEnds
  <2>2. /\ NewLink(Accessory).phase = "Start" /\ NewLink(Accessory).offer = Offer
        /\ NewLink(Accessory).peer_seq = NoSeq /\ NewLink(Accessory).local_lsp = Negotiating_Lsp
        /\ NewLink(Accessory).syn_transmitted = FALSE /\ NewLink(Host).phase = "Start"
    BY DEF NewLink, Offer
  <2> QED
    BY <2>1, <2>2 DEF AccessoryInv
<1>7. Repeats(NewLink(Accessory), NewLink(Host), << >>)
  <2>1. Age(NewLink(Host), StartSeq[Host]) = 0
    BY <1>4, TwoEnds
  <2>2. StartSeq[Accessory] \in SeqNum
    BY LinkAssumption, TwoEnds
  <2>3. /\ NewLink(Host).phase = "Start" /\ NewLink(Accessory).syn_transmitted = FALSE
        /\ NewLink(Accessory).retransmit_map[StartSeq[Accessory]] = NoEntry
    BY <2>2 DEF NewLink
  <2>4. ~SynHeld(NewLink(Accessory))
    BY <2>3 DEF SynHeld, NoEntry, Bare
  <2>5. Syns(<< >>) = 0
    <3>1. {i \in 1..Len(<< >>) : << >>[i].ctl = "SYN"} = {}
      OBVIOUS
    <3> QED
      BY <3>1, FS_EmptySet DEF Syns
  <2> QED
    BY <2>1, <2>3, <2>4, <2>5 DEF Repeats
<1> QED
  BY <1>1, <1>4, <1>5, <1>6, <1>7, TwoEnds DEF OrderInv

\* Every step of the link keeps OrderInv.
LEMMA NextOrder ==
    ASSUME WindowsFit, OfferAccepted, TypeOK, TypeOK', OrderInv, HandshakeInv, [Next]_vars
    PROVE  OrderInv'
<1>1. CASE UNCHANGED vars
  <2>1. link' = link /\ chan' = chan
    BY <1>1 DEF vars
  <2> QED
    BY <2>1 DEF OrderInv
<1>2. CASE AcknowledgeDetect \/ TransmitDetect
  BY <1>2, DetectTransmitOrder
<1>3. CASE TransmitSyn
  BY <1>3, SynOrder
<1>4. CASE Downgrade
  BY <1>4, TwoEnds, OwnerOrder
<1>5. CASE SendReset
  BY <1>5, TwoEnds, ExternalOrder
<1>6. ASSUME NEW e \in Endpoint, Transmit(e)
      PROVE  OrderInv'
  <2>1. CASE TransmitLegacy(e) \/ RefuseUpgrade(e)
    BY <2>1, LegacyTransmitOrder
  <2>2. CASE TransmitSynAck(e)
    BY <2>2, SynAckOrder
  <2>3. CASE TransmitFinalAck(e)
    BY <2>3, FinalAckOrder
  <2>4. CASE \E s \in SeqNum : Retransmit(e, s)
    BY <2>4, RetransmitOrder
  <2>5. CASE TransmitPayload(e)
    BY <2>5, PayloadOrder
  <2>6. CASE TransmitEmptyAck(e)
    BY <2>6, EmptyAckOrder
  <2> QED
    BY <1>6, <2>1, <2>2, <2>3, <2>4, <2>5, <2>6 DEF Transmit
<1>7. ASSUME NEW e \in Endpoint, Enqueue(e) \/ EnqueueLingo(e) \/ Close(e)
      PROVE  OrderInv'
  BY <1>7, OwnerOrder
<1>8. ASSUME NEW e \in Endpoint, Read(e)
      PROVE  OrderInv'
  BY <1>8, ReadOrder
<1>9. ASSUME NEW e \in Endpoint, Lose(e)
      PROVE  OrderInv'
  BY <1>9, LossOrder
<1>10. ASSUME NEW e \in Endpoint, SendEak(e)
       PROVE  OrderInv'
  BY <1>10, ExternalOrder
<1> QED
  BY <1>1, <1>2, <1>3, <1>4, <1>5, <1>6, <1>7, <1>8, <1>9, <1>10 DEF Next

\* The invariant of the data phase.
LEMMA Ordered ==
    ASSUME OfferAccepted, WindowsFit
    PROVE  Spec => [](TypeOK /\ HandshakeInv /\ OrderInv)
<1>1. Init => TypeOK /\ HandshakeInv /\ OrderInv
  BY InitType, InitHandshake, InitOrder
<1>2. TypeOK /\ HandshakeInv /\ OrderInv /\ [Next]_vars
        => (TypeOK /\ HandshakeInv /\ OrderInv)'
  <2> SUFFICES ASSUME TypeOK, HandshakeInv, OrderInv, [Next]_vars
               PROVE  (TypeOK /\ HandshakeInv /\ OrderInv)'
    OBVIOUS
  <2>1. TypeOK'
    BY NextType
  <2>2. HandshakeInv'
    BY NextHandshake
  <2>3. OrderInv'
    BY <2>1, NextOrder
  <2> QED
    BY <2>1, <2>2, <2>3
<1> QED
  BY <1>1, <1>2, PTL DEF Spec

\* The owner of an end receives the other owner's messages in order, each once, from
\* the first one delivered on, wherever the sequence numbers wrap (read()).
THEOREM DeliveredInOrder ==
    ASSUME OfferAccepted, WindowsFit
    PROVE  Spec => []InOrderDelivery
<1>1. OrderInv => InOrderDelivery
  <2> SUFFICES ASSUME OrderInv, NEW e \in Endpoint
               PROVE  link[e].delivered = [i \in 1..Len(link[e].delivered) |-> link[e].skipped + i]
    BY DEF InOrderDelivery
  <2>1. Peer(e) \in Endpoint /\ Peer(Peer(e)) = e
    BY TwoEnds
  <2>2. Way(Peer(e), link[Peer(e)], link[e], chan[e], chan[Peer(e)])
    BY <2>1 DEF OrderInv
  <2> QED
    BY <2>2 DEF Way, Owner
<1> QED
  BY <1>1, Ordered, PTL

\* retransmit_map holds exactly what was sent and not acknowledged, across
\* wrap-around (prepare_ackable, retain() in read()).
THEOREM MapCovers ==
    ASSUME OfferAccepted, WindowsFit
    PROVE  Spec => []RetransmitMapCovers
<1>1. TypeOK /\ OrderInv => RetransmitMapCovers
  <2> SUFFICES ASSUME TypeOK, OrderInv, NEW e \in Endpoint, ~is_error(link[e])
               PROVE  Held(link[e]) =
                        {s \in SeqNum : SeqSub(s, Acked(e, link[e]))
                                          \in 1..(SeqSub(link[e].own_seq, Acked(e, link[e])) - 1)}
    BY DEF RetransmitMapCovers, Acked, Before
  <2> DEFINE l == link[e]
             k == Acked(e, l)
             P == Age(l, k)
  <2>1. /\ Kept(e, l) /\ Bounds(e, l, link[Peer(e)]) /\ l \in LinkState
    BY BothWays DEF Way
  <2>2. k \in SeqNum /\ l.own_seq \in SeqNum /\ P \in Nat /\ P < SeqMod
        /\ \A s \in SeqNum : Age(l, s) \in Nat /\ Age(l, s) < SeqMod
    BY <2>1, AgeTypes
  <2>3. SeqMod \in Nat
    BY SeqModAssumption
  <2>4. ASSUME NEW s \in SeqNum
        PROVE  s \in Held(l) <=> SeqSub(s, k) \in 1..(P - 1)
    <3>1. s \in Held(l) <=> Age(l, s) \in 1..(P - 1)
      BY <2>1, <2>4 DEF Kept
    <3>2. SeqSub(s, k) = IF Age(l, s) <= P THEN P - Age(l, s) ELSE P - Age(l, s) + SeqMod
      BY <2>2, <2>4, AgeCompare DEF Age
    <3>3. Age(l, s) \in Nat /\ Age(l, s) < SeqMod
      BY <2>2, <2>4
    <3> DEFINE b == Age(l, s)
               g == SeqSub(s, k)
    <3>4. b \in Nat /\ b < SeqMod /\ P \in Nat /\ P < SeqMod /\ SeqMod \in Nat
          /\ g = IF b <= P THEN P - b ELSE P - b + SeqMod
      BY <2>2, <2>3, <3>2, <3>3
    <3> HIDE DEF b, g, P
    <3>5. b \in 1..(P - 1) <=> g \in 1..(P - 1)
      BY ONLY <3>4
    <3> QED
      BY <3>1, <3>5 DEF b, g
  <2>5. Held(l) \subseteq SeqNum
    BY DEF Held
  <2> QED
    BY <2>4, <2>5 DEF Age
<1> QED
  BY <1>1, Ordered, PTL

\* The message that age b stands for is kept, as long as it is not acknowledged.
LEMMA KeptMessage ==
    ASSUME NEW e \in Endpoint, NEW l \in LinkState, Kept(e, l), ~is_error(l),
           NEW b \in 1..(Age(l, Acked(e, l)) - 1), b <= Taken(l)
    PROVE  \E s \in Held(l) : l.retransmit_map[s].p.msg = Taken(l) + 1 - b
<1> DEFINE s == SeqSub(l.own_seq, b)
<1>1. /\ Age(l, Acked(e, l)) \in Nat /\ Age(l, Acked(e, l)) < SeqMod
      /\ l.own_seq \in SeqNum /\ Taken(l) \in Nat /\ SeqMod \in Nat
  BY AgeTypes, SeqModAssumption
<1>2. b \in SeqNum /\ b \in Nat
  BY <1>1 DEF SeqNum
<1>3. s \in SeqNum /\ Age(l, s) = b
  BY <1>1, <1>2, SeqCases, AgeSteps DEF Age
<1> HIDE DEF s
<1>4. s \in Held(l)
  BY <1>3 DEF Kept
<1> DEFINE p == l.retransmit_map[s].p
<1>5. p.seq = s /\ is_ackable(p) /\ FrameFrom(e, l, p)
  BY <1>4 DEF Kept
<1> HIDE DEF p
<1>6. ~(Taken(l) < Age(l, p.seq))
  BY <1>1, <1>2, <1>3, <1>5
<1>7. p.ctl = "ACK" /\ p.msg # NoMsg
  BY <1>5, <1>6 DEF FrameFrom, is_ackable
<1>8. p.msg = Taken(l) + 1 - b
  BY <1>3, <1>5, <1>7 DEF FrameFrom
<1> QED
  BY <1>4, <1>8 DEF p

\* A message the sender no longer keeps has reached the peer's owner, unless it ended
\* the negotiation at the host: no acknowledgement releases a message that is lost
\* (retain() in read() against the acknowledgements the peer sends).
THEOREM ReleasedOnlyDelivered ==
    ASSUME OfferAccepted, WindowsFit
    PROVE  Spec => []ReleasedIsDelivered
<1>1. TypeOK /\ OrderInv => ReleasedIsDelivered
  <2> SUFFICES ASSUME TypeOK, OrderInv, NEW e \in Endpoint, ~is_error(link[e]),
                      NEW m \in 1..link[e].taken
               PROVE  \/ m <= link[Peer(e)].skipped + Len(link[Peer(e)].delivered)
                      \/ \E s \in Held(link[e]) : link[e].retransmit_map[s].p.msg = m
    BY DEF ReleasedIsDelivered
  <2> DEFINE l == link[e]
             r == link[Peer(e)]
             P == Age(l, Acked(e, l))
             G == Age(l, Got(e, r))
             T == Taken(l)
             n == r.skipped + Len(r.delivered)
             b == T + 1 - m
  <2>1. /\ Kept(e, l) /\ Bounds(e, l, r) /\ Owner(e, l, r) /\ Ends(l)
        /\ l \in LinkState /\ r \in LinkState
    BY BothWays DEF Way
  <2>2. /\ P \in Nat /\ G \in Nat /\ T \in Nat
    BY <2>1, AgeTypes
  <2>3. T = l.taken /\ m \in 1..T
    <3>1. l.phase = "Accepted"
      <4>1. l.taken # 0
        OBVIOUS
      <4> QED
        BY <2>1, <4>1 DEF Ends
    <3>2. T = l.taken
      BY <3>1 DEF Taken
    <3> QED
      BY <3>2
  <2>4. G <= P /\ (n = T + 1 - G \/ G - 1 > T)
    BY <2>1 DEF Bounds, Owner
  <2> HIDE DEF P, G, T, n
  <2>5. b \in Nat /\ b <= T /\ 1 <= b /\ T + 1 - b = m
    BY ONLY <2>2, <2>3
  <2> HIDE DEF b, l, r
  <2>6. CASE b \in 1..(P - 1)
    <3>1. \E s \in Held(l) : l.retransmit_map[s].p.msg = T + 1 - b
      BY <2>1, <2>5, <2>6, KeptMessage DEF P, T, l
    <3> QED
      BY <2>5, <3>1 DEF l
  <2>7. CASE b \notin 1..(P - 1)
    <3>1. m <= n
      BY ONLY <2>2, <2>3, <2>4, <2>5, <2>7
    <3> QED
      BY <3>1 DEF n, r
  <2> QED
    BY <2>6, <2>7
<1> QED
  BY <1>1, Ordered, PTL

\* With both ends negotiated, neither has more messages outstanding than the other
\* allows (is_window_writable against LSPPayload::max_outgoing): their ages are
\* different, and none is older than the window.
THEOREM WindowKept ==
    ASSUME OfferAccepted, WindowsFit
    PROVE  Spec => []WindowRespected
<1>1. TypeOK /\ OrderInv => WindowRespected
  <2> SUFFICES ASSUME TypeOK, OrderInv, NEW e \in Endpoint, InData(link[e]), InData(link[Peer(e)])
               PROVE  Cardinality({s \in Held(link[e]) : link[e].retransmit_map[s].p.ctl = "ACK"})
                        <= max_outgoing[link[Peer(e)].local_lsp]
    BY DEF WindowRespected
  <2> DEFINE l == link[e]
             r == link[Peer(e)]
             P == Age(l, Acked(e, l))
             W == max_outgoing[Offer]
             S == {s \in Held(l) : l.retransmit_map[s].p.ctl = "ACK"}
             f == [s \in S |-> Age(l, s)]
  <2>1. /\ Kept(e, l) /\ Bounds(e, l, r) /\ Ends(r) /\ l \in LinkState /\ r \in LinkState
    BY BothWays DEF Way
  <2>2. r.local_lsp = Offer /\ ~is_error(l)
    BY <2>1, ErrorData DEF Ends
  <2>3. W \in Nat
    BY LspAssumption, TwoEnds DEF Offer
  <2>4. ASSUME NEW s \in S
        PROVE  s \in SeqNum /\ Age(l, s) \in 1..W
    <3>1. s \in SeqNum /\ s \in Held(l)
      BY DEF Held
    <3> DEFINE p == l.retransmit_map[s].p
    <3>2. p.seq = s /\ is_ackable(p) /\ FrameFrom(e, l, p) /\ p.ctl = "ACK"
      BY <2>1, <3>1 DEF Kept
    <3> HIDE DEF p
    <3>3. Age(l, s) <= Taken(l)
      BY <3>2 DEF FrameFrom, is_ackable
    <3>4. Age(l, s) \in 1..(P - 1)
      BY <2>1, <2>2, <3>1 DEF Kept
    <3>5. Taken(l) > 0 => P <= W + 1
      BY <2>1 DEF Bounds
    <3>6. P \in Nat /\ Age(l, s) \in Nat /\ Taken(l) \in Nat
      BY <2>1, <3>1, AgeTypes
    <3> DEFINE b == Age(l, s)
               T == Taken(l)
    <3> HIDE DEF P, W, b, T
    <3>7. b \in 1..W
      <4>1. b <= T /\ b \in 1..(P - 1) /\ (T > 0 => P <= W + 1)
            /\ P \in Nat /\ b \in Nat /\ T \in Nat /\ W \in Nat
        BY <2>3, <3>3, <3>4, <3>5, <3>6 DEF b, T
      <4> QED
        BY ONLY <4>1
    <3> QED
      BY <3>1, <3>7 DEF b
  <2>5. \A s, t \in S : Age(l, s) = Age(l, t) => s = t
    <3>1. l.own_seq \in SeqNum
      BY <2>1, AgeTypes
    <3> QED
      BY <2>4, <3>1, AgeCompare DEF Age
  <2>6. f \in Injection(S, 1..W)
    <3>1. f \in [S -> 1..W]
      BY <2>4
    <3>2. \A s, t \in S : f[s] = f[t] => s = t
      BY <2>5
    <3> QED
      BY <3>1, <3>2, Fun_IsInj
  <2>7. IsFiniteSet(1..W) /\ Cardinality(1..W) = W
    <3>1. 1 \in Int /\ W \in Int
      BY <2>3
    <3>2. IsFiniteSet(1..W) /\ Cardinality(1..W) = IF 1 > W THEN 0 ELSE W - 1 + 1
      BY <3>1, FS_Interval
    <3> QED
      BY <2>3, <3>2
  <2>8. Cardinality(S) <= W
    <3> HIDE DEF S, f, W
    <3> QED
      BY <2>6, <2>7, FS_Injection
  <2> QED
    BY <2>2, <2>8
<1> QED
  BY <1>1, Ordered, PTL
=============================================================================
