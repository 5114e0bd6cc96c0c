----------------------------- MODULE FileTransfer ---------------------------
(***************************************************************************)
(* The file transfer session of an iAP2 link                               *)
(* (catplay_iap2_link/src/files): two FileSessions, each with its          *)
(* transmitter, its receiver and its queue_tx, over a link that delivers   *)
(* in order and without loss (LinkLayer, InOrderDelivery).                 *)
(*                                                                         *)
(* A file is its number in the order of the send_file calls; a payload     *)
(* carries some of its units.  The end that runs another implementation    *)
(* may also pause and resume transfers, cancel or fail what it receives,   *)
(* and open a transfer under an id of this end, as the test of the session *)
(* does.                                                                   *)
(***************************************************************************)
EXTENDS Integers, Sequences, FiniteSetsExt

CONSTANTS
    Foreign,                \* the end that runs another implementation
    ClientIds, ServerIds,   \* ids each end may reserve (0..126 and 128..254)
    Sizes,                  \* bound: sizes of files, in units
    chunk_size,             \* units the link takes in one packet
    MaxFiles,               \* bound: calls of send_file
    MaxHeld,                \* bound: reservations held at a time
    MaxAsks,                \* bound: pauses, cancellations and failures asked for
    MaxStrays               \* bound: Setups under an id of the other end

ASSUME FileAssumption ==
    /\ Foreign \in {"client", "server"}
    /\ ClientIds \cup ServerIds \subseteq Nat /\ ClientIds \cap ServerIds = {}
    /\ Sizes \subseteq Nat /\ chunk_size \in Nat \ {0}
    /\ {MaxFiles, MaxHeld, MaxAsks, MaxStrays} \subseteq Nat

VARIABLES
    taken_ids,   \* per end
    outgoing,    \* per end and id: the transmitter's session
    incoming,    \* per end and id: the receiver's slot
    queue_tx,    \* per end
    wire,        \* per end: what the link still brings to it
    held,        \* per end: the ids its application has reserved, oldest first
    panicked,    \* send_file found a session under the id: "duplicate send_file"
    paused,      \* the ids the other implementation has paused
    asks, strays,
    files,       \* history: who sent which file under which id, and how it ended
    heard        \* history, per end and id: what its application got since the Setup

link == <<queue_tx, wire>>
vars == <<taken_ids, outgoing, incoming, queue_tx, wire, held, panicked, paused,
          asks, strays, files, heard>>

End == {"client", "server"}
Id == ClientIds \cup ServerIds
Other(e) == IF e = "client" THEN "server" ELSE "client"
TxIds(e) == IF e = "server" THEN ServerIds ELSE ClientIds
RxIds(e) == TxIds(Other(e))

\* Mutants: a failed transfer keeps its id; one whose last chunk is out gives it back.
Finals_NoFailure == {"Success", "Cancelled"}
Finals_Waiting == {"Success", "Failure", "Cancelled", "WaitingForSuccess"}

\* should_reclaim_id
Finals == {"Success", "Failure", "Cancelled"}

NoSession == [file |-> 0, progress |-> 0, state |-> "None"]
NoSlot == "None"
NothingHeard == [file |-> 0, data |-> <<>>, final |-> FALSE]

Size(f) == files[f].size
Units(f, from, n) == [i \in 1..n |-> <<f, from + i>>]

\* A FileTransferPayload.
Payload(id, op) == [file_id |-> id, op |-> op, file |-> 0, data |-> <<>>]

Init ==
    /\ taken_ids = [e \in End |-> {}]
    /\ outgoing = [e \in End |-> [i \in TxIds(e) |-> NoSession]]
    /\ incoming = [e \in End |-> [i \in RxIds(e) |-> NoSlot]]
    /\ queue_tx = [e \in End |-> <<>>]
    /\ wire = [e \in End |-> <<>>]
    /\ held = [e \in End |-> <<>>]
    /\ panicked = FALSE
    /\ paused = {}
    /\ asks = 0 /\ strays = 0
    /\ files = <<>>
    /\ heard = [e \in End |-> [i \in RxIds(e) |-> NothingHeard]]
-----------------------------------------------------------------------------
(* The application. *)

\* reserve: the lowest free id of the end's range.
reserve(e) ==
    LET free == TxIds(e) \ taken_ids[e]
    IN  /\ free # {} /\ Len(held["client"]) + Len(held["server"]) < MaxHeld
        /\ taken_ids' = [taken_ids EXCEPT ![e] = @ \cup {Min(free)}]
        /\ held' = [held EXCEPT ![e] = Append(@, Min(free))]
        /\ UNCHANGED <<outgoing, incoming, link, panicked, paused, asks, strays, files, heard>>

Without(s, k) == SubSeq(s, 1, k - 1) \o SubSeq(s, k + 1, Len(s))

cancel_reserved(e) ==
    \E k \in 1..Len(held[e]) :
      /\ taken_ids' = [taken_ids EXCEPT ![e] = @ \ {held[e][k]}]
      /\ held' = [held EXCEPT ![e] = Without(@, k)]
      /\ UNCHANGED <<outgoing, incoming, link, panicked, paused, asks, strays, files, heard>>

\* send_file: setup() makes the session and goes from PendingSetup to Pause; the Setup
\* waits in queue_tx.
send_file(e) ==
    \E k \in 1..Len(held[e]), size \in Sizes :
      LET id == held[e][k]
          f == Len(files) + 1
      IN  /\ Len(files) < MaxFiles
          /\ held' = [held EXCEPT ![e] = Without(@, k)]
          /\ IF outgoing[e][id] # NoSession
             THEN /\ panicked' = TRUE
                  /\ UNCHANGED <<outgoing, queue_tx, files>>
             ELSE /\ outgoing' = [outgoing EXCEPT ![e][id] =
                                    [file |-> f, progress |-> 0, state |-> "Pause"]]
                  /\ queue_tx' = [queue_tx EXCEPT ![e] =
                                    Append(@, [Payload(id, "Setup") EXCEPT !.file = f])]
                  /\ files' = Append(files, [by |-> e, id |-> id, size |-> size, fate |-> "open"])
                  /\ UNCHANGED panicked
          /\ UNCHANGED <<taken_ids, incoming, wire, paused, asks, strays, heard>>
-----------------------------------------------------------------------------
(* Towards the link. *)

\* Mutant: the end comes one unit early.
get_chunk_EofEarly(f, offset) ==
    LET take == Min({Size(f) - offset, chunk_size})
    IN  <<Units(f, offset, take), offset + take + 1 >= Size(f)>>

\* The units and whether the source ends with them.
get_chunk(f, offset) ==
    LET take == Min({Size(f) - offset, chunk_size})
    IN  <<Units(f, offset, take), offset + take >= Size(f)>>

\* poll_send of a session that is Sending.
poll_send(e, id) ==
    LET s == outgoing[e][id]
        chunk == get_chunk(s.file, s.progress)
        progress == s.progress + Len(chunk[1])
        is_last == chunk[2] \/ (Size(s.file) > 0 /\ progress >= Size(s.file))
        op == IF s.progress = 0 THEN IF is_last THEN "FirstAndOnlyData" ELSE "FirstData"
              ELSE IF is_last THEN "LastData" ELSE "Data"
    IN  /\ outgoing' = [outgoing EXCEPT ![e][id].progress = progress,
                          ![e][id].state = IF is_last THEN "WaitingForSuccess" ELSE @]
        /\ wire' = [wire EXCEPT ![Other(e)] = Append(@, [Payload(id, op) EXCEPT !.data = chunk[1]])]

Sending(e) == {i \in TxIds(e) : outgoing[e][i].state = "Sending"}

\* dequeue_tx: answers and Setups first, then a chunk of the lowest id that is sending.
dequeue_tx(e) ==
    /\ \/ /\ queue_tx[e] # <<>>
          /\ queue_tx' = [queue_tx EXCEPT ![e] = Tail(@)]
          /\ wire' = [wire EXCEPT ![Other(e)] = Append(@, Head(queue_tx[e]))]
          /\ UNCHANGED outgoing
       \/ /\ queue_tx[e] = <<>> /\ Sending(e) # {}
          /\ poll_send(e, Min(Sending(e)))
          /\ UNCHANGED queue_tx
    /\ UNCHANGED <<taken_ids, incoming, held, panicked, paused, asks, strays, files, heard>>
-----------------------------------------------------------------------------
(* From the link: enqueue_rx.  The ranges are disjoint, so a payload is for the      *)
(* receiver or for the transmitter.                                                  *)

IsData(op) == op \in {"FirstData", "Data", "FirstAndOnlyData", "LastData"}
is_final_chunk(op) == op \in {"FirstAndOnlyData", "LastData"}

\* FileTransferReceiver::feed: the new slot, the answer and what the application hears.
RxSame(e, m) == [slot |-> incoming[e][m.file_id], reply |-> <<>>, app |-> heard[e][m.file_id]]

rx_Setup(e, m) ==
    IF incoming[e][m.file_id] # NoSlot THEN RxSame(e, m)
    ELSE [slot |-> "Sending", reply |-> <<Payload(m.file_id, "Start")>>,
          app |-> [NothingHeard EXCEPT !.file = m.file]]

\* Mutant: data needs no slot.
rx_Data_NoSlot(e, m) ==
    LET app == [heard[e][m.file_id] EXCEPT !.data = @ \o m.data, !.final = is_final_chunk(m.op)]
    IN  IF is_final_chunk(m.op)
        THEN [slot |-> NoSlot, reply |-> <<Payload(m.file_id, "Success")>>, app |-> app]
        ELSE [slot |-> "Sending", reply |-> <<>>, app |-> app]

rx_Data(e, m) ==
    LET app == [heard[e][m.file_id] EXCEPT !.data = @ \o m.data, !.final = is_final_chunk(m.op)]
    IN  IF incoming[e][m.file_id] = NoSlot THEN RxSame(e, m)
        ELSE IF is_final_chunk(m.op)
        THEN [slot |-> NoSlot, reply |-> <<Payload(m.file_id, "Success")>>, app |-> app]
        ELSE [slot |-> "Sending", reply |-> <<>>, app |-> app]

rx_Turn(e, m, from, to) ==
    IF incoming[e][m.file_id] = from THEN [RxSame(e, m) EXCEPT !.slot = to] ELSE RxSame(e, m)

rx_feed(e, m) ==
    CASE m.op = "Setup" -> rx_Setup(e, m)
      [] IsData(m.op) -> rx_Data(e, m)
      [] m.op = "Start" -> rx_Turn(e, m, "Pause", "Sending")
      [] m.op = "Pause" -> rx_Turn(e, m, "Sending", "Pause")
      [] m.op = "Cancel" -> [RxSame(e, m) EXCEPT !.slot = NoSlot]
      [] OTHER -> RxSame(e, m)

\* Mutant: a Start is only for the receiver.
feed_event_DropsStart(op, state) ==
    CASE op = "Pause" /\ state = "Sending" -> "Pause"
      [] op = "Success" -> "Success"
      [] op = "Failure" -> "Failure"
      [] op = "Cancel" -> "Cancelled"
      [] OTHER -> state

feed_event(op, state) ==
    CASE op = "Start" /\ state = "Pause" -> "Sending"
      [] op = "Pause" /\ state = "Sending" -> "Pause"
      [] op = "Success" -> "Success"
      [] op = "Failure" -> "Failure"
      [] op = "Cancel" -> "Cancelled"
      [] OTHER -> state

\* FileTransferTransmitter::feed with reconcile: a finished session frees its id; a
\* Setup under an id without a session is refused, and the id is free again.
tx_feed(e, m) ==
    LET id == m.file_id
        s == outgoing[e][id]
        state == feed_event(m.op, s.state)
    IN  IF s = NoSession
        THEN /\ taken_ids' = [taken_ids EXCEPT ![e] = IF m.op = "Setup" THEN @ \ {id} ELSE @]
             /\ queue_tx' = [queue_tx EXCEPT ![e] =
                               IF m.op = "Setup" THEN Append(@, Payload(id, "Cancel")) ELSE @]
             /\ UNCHANGED <<outgoing, files>>
        ELSE IF state \in Finals
        THEN /\ taken_ids' = [taken_ids EXCEPT ![e] = @ \ {id}]
             /\ outgoing' = [outgoing EXCEPT ![e][id] = NoSession]
             /\ files' = [files EXCEPT ![s.file].fate = state]
             /\ UNCHANGED queue_tx
        ELSE /\ outgoing' = [outgoing EXCEPT ![e][id].state = state]
             /\ UNCHANGED <<taken_ids, queue_tx, files>>

enqueue_rx(e) ==
    LET m == Head(wire[e])
        r == rx_feed(e, m)
    IN  /\ wire[e] # <<>>
        /\ wire' = [wire EXCEPT ![e] = Tail(@)]
        /\ \/ /\ m.file_id \in RxIds(e)
              /\ incoming' = [incoming EXCEPT ![e][m.file_id] = r.slot]
              /\ queue_tx' = [queue_tx EXCEPT ![e] = @ \o r.reply]
              /\ heard' = [heard EXCEPT ![e][m.file_id] = r.app]
              /\ paused' = IF e = Foreign /\ r.slot = NoSlot THEN paused \ {m.file_id} ELSE paused
              /\ UNCHANGED <<taken_ids, outgoing, files>>
           \/ /\ m.file_id \in TxIds(e)
              /\ tx_feed(e, m)
              /\ UNCHANGED <<incoming, heard, paused>>
        /\ UNCHANGED <<held, panicked, asks, strays>>
-----------------------------------------------------------------------------
(* What the other implementation may add. *)

Say(m) == queue_tx' = [queue_tx EXCEPT ![Foreign] = Append(@, m)]

\* It pauses a transfer it receives or one it sends, and resumes it some time later.
AskPause ==
    \E id \in Id \ paused :
      /\ asks < MaxAsks
      /\ \/ id \in RxIds(Foreign) /\ incoming[Foreign][id] # NoSlot /\ UNCHANGED outgoing
         \/ /\ id \in Sending(Foreign)
            /\ outgoing' = [outgoing EXCEPT ![Foreign][id].state = "Pause"]
      /\ Say(Payload(id, "Pause"))
      /\ paused' = paused \cup {id}
      /\ asks' = asks + 1
      /\ UNCHANGED <<taken_ids, incoming, wire, held, panicked, strays, files, heard>>

Resume ==
    \E id \in paused :
      /\ Say(Payload(id, "Start"))
      /\ paused' = paused \ {id}
      /\ outgoing' = IF id \in TxIds(Foreign)
                     THEN [outgoing EXCEPT ![Foreign][id].state = "Sending"] ELSE outgoing
      /\ UNCHANGED <<taken_ids, incoming, wire, held, panicked, asks, strays, files, heard>>

\* It gives up a transfer it receives.
AskStop ==
    \E id \in RxIds(Foreign), op \in {"Cancel", "Failure"} :
      /\ incoming[Foreign][id] # NoSlot /\ asks < MaxAsks
      /\ Say(Payload(id, op))
      /\ incoming' = [incoming EXCEPT ![Foreign][id] = NoSlot]
      /\ paused' = paused \ {id}
      /\ asks' = asks + 1
      /\ UNCHANGED <<taken_ids, outgoing, wire, held, panicked, strays, files, heard>>

\* It opens a transfer under an id of this end.
StraySetup ==
    \E id \in RxIds(Foreign) :
      /\ strays < MaxStrays
      /\ Say(Payload(id, "Setup"))
      /\ strays' = strays + 1
      /\ UNCHANGED <<taken_ids, outgoing, incoming, wire, held, panicked, paused, asks, files, heard>>
-----------------------------------------------------------------------------
Next ==
    /\ ~panicked
    /\ \/ \E e \in End : \/ reserve(e) \/ cancel_reserved(e) \/ send_file(e)
                       \/ dequeue_tx(e) \/ enqueue_rx(e)
       \/ AskPause \/ Resume \/ AskStop \/ StraySetup

Spec == Init /\ [][Next]_vars

\* The link takes what waits and delivers it (reconcile asks both sessions as long as
\* the window is open), and nobody pauses a transfer for ever.
Fairness ==
    /\ \A e \in End : WF_vars(~panicked /\ dequeue_tx(e)) /\ WF_vars(~panicked /\ enqueue_rx(e))
    /\ WF_vars(~panicked /\ Resume)

FairSpec == Spec /\ Fairness
-----------------------------------------------------------------------------
(* Properties. *)

Msg == [file_id : Id, file : 0..MaxFiles, data : Seq((1..MaxFiles) \X Nat),
        op : {"Setup", "Start", "Pause", "Cancel", "Success", "Failure",
              "FirstData", "Data", "FirstAndOnlyData", "LastData"}]

\* Types of both ends: slots, queues and the ids an end may use.
TypeOK ==
    /\ \A e \in End :
         /\ taken_ids[e] \subseteq TxIds(e)
         /\ outgoing[e] \in [TxIds(e) ->
              [file : 0..MaxFiles, progress : Nat,
               state : {"None", "Pause", "Sending", "WaitingForSuccess"}]]
         /\ incoming[e] \in [RxIds(e) -> {NoSlot, "Sending", "Pause"}]
         /\ queue_tx[e] \in Seq(Msg) /\ wire[e] \in Seq(Msg)
         /\ held[e] \in Seq(TxIds(e))
    /\ panicked \in BOOLEAN /\ paused \subseteq Id /\ asks \in 0..MaxAsks /\ strays \in 0..MaxStrays
    /\ \A f \in 1..Len(files) : files[f].fate \in {"open"} \cup Finals

\* What an application has got since the Setup is the beginning of that one file, and
\* with the final chunk all of it: no chunk of an earlier transfer under the same id,
\* of another id or of the other end gets in.
FileIntact ==
    \A e \in End : \A id \in RxIds(e) :
      LET h == heard[e][id]
      IN  h.file # 0 =>
            /\ Len(h.data) <= Size(h.file)
            /\ h.data = Units(h.file, 0, Len(h.data))
            /\ h.final => Len(h.data) = Size(h.file)

\* A slot of a receiver always has its live session at the sender, on the same file: a
\* slot without one would refuse every later transfer under that id.
SlotHasSender ==
    \A e \in End : \A id \in RxIds(e) :
      incoming[e][id] # NoSlot =>
        /\ outgoing[Other(e)][id] # NoSession
        /\ heard[e][id].file = outgoing[Other(e)][id].file

\* The sender hears Success only of a file that the other application got whole.
SuccessMeansWhole ==
    [][\A f \in 1..Len(files) :
         files'[f].fate = "Success" /\ files[f].fate = "open" =>
           LET h == heard[Other(files[f].by)][files[f].id]
           IN  h.file = f /\ h.final]_vars

\* A file that is sent ends: it arrives, or the receiver cancels or fails it; or
\* send_file panicked ("duplicate send_file"), which ends the session.
TransferEnds ==
    \A f \in 1..MaxFiles :
      (f \in DOMAIN files) ~> (panicked \/ (f \in DOMAIN files /\ files[f].fate # "open"))
=============================================================================
