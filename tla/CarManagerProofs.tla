--------------------------- MODULE CarManagerProofs ---------------------------
(***************************************************************************)
(* Proofs about CarManager, for any number of connections, any requests    *)
(* and any bounds.                                                         *)
(***************************************************************************)
EXTENDS CarManager, ProofBasics

(* The modes. *)

\* ResourceManager::new has its type.
LEMMA NewManagerTyped ==
    ASSUME NEW s \in ResourceState, NEW t \in ResourceConstraint, NEW b \in ResourceConstraint
    PROVE  NewManager(s, t, b) \in Manager
  BY DEF NewManager, Manager, ResourceConstraint



\* What a Borrow of the accessory leaves.
LEMMA BorrowTyped ==
    ASSUME NEW m \in Manager, NEW r \in Resource, borrow_accepted(m, r, "Accessory")
    PROVE  borrow_by(m, r, "Accessory") \in Manager
  <1> PICK st \in ResourceState : st = actor_borrowed("Accessory")
    BY DEF actor_borrowed, other_entity, from_pair, ResourceState
  <1>1. r.unborrow_constraint \in ResourceConstraint
    BY DEF borrow_accepted, borrow_request_fields, Resource
  <1> PICK u \in ResourceConstraint : u = r.unborrow_constraint
    BY <1>1
  <1>2. CASE m.state = st
    <2>1. borrow_by(m, r, "Accessory") = [m EXCEPT !.borrows_count = @ + 1]
      BY <1>2 DEF borrow_by
    <2> QED
      BY <2>1 DEF Manager
  <1>3. CASE m.state # st
    <2>1. borrow_by(m, r, "Accessory") =
            [m EXCEPT !.unborrow_constraint = u, !.state = st, !.borrows_count = 1]
      BY <1>3 DEF borrow_by
    <2>2. [m EXCEPT !.unborrow_constraint = u, !.state = st, !.borrows_count = 1] \in Manager
      BY ONLY m \in Manager, st \in ResourceState, u \in ResourceConstraint DEF Manager
    <2> QED
      BY <2>1, <2>2
  <1> QED
    BY <1>2, <1>3

\* What an Unborrow of the accessory leaves.
LEMMA UnborrowTyped ==
    ASSUME NEW m \in Manager
    PROVE  unborrow_by(m, "Accessory") \in Manager
  <1> PICK st \in ResourceState : st = actor_has(other_entity("Accessory"))
    BY DEF actor_has, other_entity, from_pair, ResourceState
  <1> PICK k \in Nat : k = IF m.borrows_count = 0 THEN 0 ELSE m.borrows_count - 1
    BY DEF Manager
  <1>1. \/ unborrow_by(m, "Accessory") = m
        \/ unborrow_by(m, "Accessory") = [m EXCEPT !.borrows_count = k]
        \/ unborrow_by(m, "Accessory") =
             [m EXCEPT !.borrows_count = 0, !.state = st, !.unborrow_constraint = "Anytime"]
    BY DEF unborrow_by
  <1>2. [m EXCEPT !.borrows_count = k] \in Manager
    BY DEF Manager
  <1>3. [m EXCEPT !.borrows_count = 0, !.state = st, !.unborrow_constraint = "Anytime"] \in Manager
    BY DEF Manager, ResourceConstraint
  <1> QED
    BY <1>1, <1>2, <1>3

\* What an accepted request of the accessory leaves of a resource.
LEMMA OutcomeTyped ==
    ASSUME NEW m \in Manager, NEW r \in Resource, accepts(m, r, "Accessory")
    PROVE  outcome(m, r, "Accessory") \in Manager
  <1>2. CASE r.type = "Take"
    <2>1. take_accepted(m, r, "Accessory") /\ outcome(m, r, "Accessory") = take_by(m, r, "Accessory")
      BY <1>2 DEF accepts, outcome
    <2>2. r.take_constraint \in ResourceConstraint /\ r.borrow_constraint \in ResourceConstraint
      BY <2>1 DEF take_accepted, take_request_fields, Resource
    <2>3. actor_has("Accessory") \in ResourceState
      BY DEF actor_has, from_pair, ResourceState
    <2> QED
      BY <2>1, <2>2, <2>3, NewManagerTyped DEF take_by
  <1>3. CASE r.type = "Untake"
    <2>1. outcome(m, r, "Accessory") = untake_by(m, "Accessory")
      BY <1>3 DEF outcome
    <2>2. unclaimed \in Manager
      BY NewManagerTyped DEF unclaimed, ResourceState, ResourceConstraint
    <2> QED
      BY <2>1, <2>2 DEF untake_by
  <1>4. CASE r.type = "Borrow"
    BY <1>4, BorrowTyped DEF accepts, outcome
  <1>5. CASE r.type = "Unborrow"
    BY <1>5, UnborrowTyped DEF outcome
  <1> QED
    BY <1>2, <1>3, <1>4, <1>5 DEF Resource

\* What an accepted part of a request leaves of the controller.
LEMMA PartTyped ==
    ASSUME NEW c \in Controller, NEW part \in AppState \cup Resource, part_accepted(c, part)
    PROVE  process_part(c, part) \in Controller
  <1>1. /\ c.screen \in Manager /\ c.main_audio \in Manager /\ c.phone_call \in EntityEnum
        /\ c.speech \in SpeechState /\ c.turn_by_turn \in EntityEnum
    BY DEF Controller
  <1>2. CASE part \in Resource
    <2>1. part.id \in {"screen", "main_audio"} /\ part.id \in ResourceID
      BY <1>2 DEF Resource, ResourceID
    <2> PICK n : n = outcome(c[part.id], part, "Accessory")
      OBVIOUS
    <2>2. accepts(c[part.id], part, "Accessory") /\ process_part(c, part) = [c EXCEPT ![part.id] = n]
      BY <2>1 DEF part_accepted, process_part
    <2>3. c[part.id] \in Manager
      BY <1>1, <2>1
    <2>4. n \in Manager
      BY <1>2, <2>2, <2>3, OutcomeTyped
    <2> QED
      BY <2>1, <2>2, <2>4 DEF Controller
  <1>3. CASE part \in AppState
    <2>1. part.id \notin ResourceID
      BY <1>3 DEF AppState, AppStateEnum, ResourceID
    <2>2. app_state_accepted(c, part) /\ process_part(c, part) = process_app_state(c, part)
      BY <2>1 DEF part_accepted, process_part
    <2>3. \A now \in EntityEnum : switched(now, part.state) \in EntityEnum
      BY DEF switched, EntityEnum
    <2>4. CASE part.id = "Speech"
      <3>1. part.speech_mode \in SpeechMode
        BY <1>3, <2>2, <2>4 DEF app_state_accepted, AppState
      <3>2. speech_of(part.speech_mode) \in SpeechState
        BY <3>1 DEF speech_of, SpeechState, EntityEnum
      <3>3. process_part(c, part) = [c EXCEPT !.speech = speech_of(part.speech_mode)]
        BY <2>2, <2>4 DEF process_app_state
      <3> QED
        BY <3>2, <3>3 DEF Controller
    <2>5. CASE part.id = "PhoneCall"
      <3>1. process_part(c, part) = [c EXCEPT !.phone_call = switched(@, part.state)]
        BY <2>2, <2>5 DEF process_app_state
      <3> QED
        BY <1>1, <2>3, <3>1 DEF Controller
    <2>6. CASE part.id = "TurnByTurn"
      <3>1. process_part(c, part) = [c EXCEPT !.turn_by_turn = switched(@, part.state)]
        BY <2>2, <2>6 DEF process_app_state
      <3> QED
        BY <1>1, <2>3, <3>1 DEF Controller
    <2> QED
      BY <2>2, <2>4, <2>5, <2>6 DEF app_state_accepted
  <1> QED
    BY <1>2, <1>3

\* One turn of the loop through the parts p of a request.
LoopStep(c, p, f, i) ==
    IF i = 0 THEN <<c>>
    ELSE IF f[i - 1] = << >> \/ ~part_accepted(f[i - 1][1], p[i]) THEN << >>
         ELSE <<process_part(f[i - 1][1], p[i])>>

\* The loop, turn by turn.
LEMMA LoopExists ==
    ASSUME NEW c, NEW p, NEW n \in Nat
    PROVE  \E f : f = [i \in 0..n |-> LoopStep(c, p, f, i)]
  <1> DEFINE S == {k \in Nat : \E f : f = [i \in 0..k |-> LoopStep(c, p, f, i)]}
  <1>1. 0 \in S
    <2> DEFINE f == [i \in 0..0 |-> <<c>>]
    <2>1. f = [i \in 0..0 |-> LoopStep(c, p, f, i)]
      BY DEF LoopStep
    <2> HIDE DEF f
    <2> QED
      BY <2>1
  <1>2. ASSUME NEW k \in Nat, k \in S
        PROVE  k + 1 \in S
    <2> PICK f : f = [i \in 0..k |-> LoopStep(c, p, f, i)]
      BY <1>2
    <2> DEFINE g == [i \in 0..(k + 1) |-> IF i <= k THEN f[i] ELSE LoopStep(c, p, f, i)]
    <2>1. ASSUME NEW i \in 0..(k + 1)
          PROVE  g[i] = LoopStep(c, p, g, i)
      <3>1. i # 0 => g[i - 1] = f[i - 1]
        OBVIOUS
      <3>2. g[i] = LoopStep(c, p, f, i)
        OBVIOUS
      <3> HIDE DEF g
      <3> QED
        BY <3>1, <3>2 DEF LoopStep
    <2>2. g = [i \in 0..(k + 1) |-> LoopStep(c, p, g, i)]
      <3>1. g = [i \in 0..(k + 1) |-> g[i]]
        OBVIOUS
      <3> HIDE DEF g
      <3> QED
        BY <2>1, <3>1
    <2> HIDE DEF g
    <2> QED
      BY <2>2
  <1>3. \A k \in Nat : k \in S
    <2> HIDE DEF S
    <2> QED
      BY <1>1, <1>2, SetInduction
  <1> QED
    BY <1>3

\* A request of the car, accepted or not, leaves the controller its type.
LEMMA RequestTyped ==
    ASSUME NEW c \in Controller, NEW req \in ChangeModes
    PROVE  process_request(c, req) \in Controller
  <1> PICK p : p = parts(req)
    OBVIOUS
  <1>1. Len(p) \in Nat /\ \A i \in 1..Len(p) : p[i] \in AppState \cup Resource
    <2> DEFINE E == AppState \cup Resource
    <2>1. PICK s \in Seq(AppState) : s = req.app_states
      BY DEF ChangeModes
    <2>2. PICK t \in Seq(Resource) : t = req.resources
      BY DEF ChangeModes
    <2>3. /\ \A i \in 1..Len(s) : s[i] \in AppState
          /\ \A i \in 1..Len(t) : t[i] \in Resource
          /\ DOMAIN s = 1..Len(s) /\ DOMAIN t = 1..Len(t) /\ Len(s) \in Nat /\ Len(t) \in Nat
      BY LenProperties, ElementOfSeq
    <2>4. s \in Seq(E) /\ t \in Seq(E)
      BY <2>3, SeqDef
    <2>5. p = s \o t
      BY <2>1, <2>2 DEF parts
    <2> HIDE DEF E
    <2>6. p \in Seq(E)
      BY <2>4, <2>5, ConcatProperties
    <2>7. Len(p) \in Nat /\ \A i \in 1..Len(p) : p[i] \in E
      BY <2>6, LenProperties, ElementOfSeq
    <2> QED
      BY <2>7 DEF E
  <1> PICK n \in Nat : n = Len(p)
    BY <1>1
  <1> PICK f : f = processing(c, req)
    OBVIOUS
  <1>2. f = [i \in 0..n |-> LoopStep(c, p, f, i)]
    <2>1. f = CHOOSE h : h = [i \in 0..n |->
                                IF i = 0 THEN <<c>>
                                ELSE IF h[i - 1] = << >> \/ ~part_accepted(h[i - 1][1], p[i])
                                     THEN << >>
                                     ELSE <<process_part(h[i - 1][1], p[i])>>]
      BY DEF processing
    <2>2. f = CHOOSE h : h = [i \in 0..n |-> LoopStep(c, p, h, i)]
      BY <2>1 DEF LoopStep
    <2>3. \E h : h = [i \in 0..n |-> LoopStep(c, p, h, i)]
      BY ONLY n \in Nat, LoopExists
    <2> QED
      BY <2>2, <2>3
  <1>3. f[0] = <<c>> /\ \A i \in 1..n : f[i] = LoopStep(c, p, f, i)
    BY <1>2 DEF LoopStep
  <1> DEFINE S == {i \in Nat : i <= n => f[i] = << >> \/ \E d \in Controller : f[i] = <<d>>}
  <1>4. \A i \in Nat : i \in S
    <2>1. 0 \in S
      BY <1>3
    <2>2. ASSUME NEW i \in Nat, i \in S
          PROVE  i + 1 \in S
      <3> SUFFICES ASSUME i + 1 <= n, f[i + 1] # << >>
                   PROVE  \E d \in Controller : f[i + 1] = <<d>>
        OBVIOUS
      <3>1. i + 1 \in 1..n /\ i + 1 # 0 /\ (i + 1) - 1 = i /\ i <= n
        OBVIOUS
      <3>2. f[i + 1] = LoopStep(c, p, f, i + 1)
        BY <1>3, <3>1
      <3>3. /\ f[i] # << >> /\ part_accepted(f[i][1], p[i + 1])
            /\ f[i + 1] = <<process_part(f[i][1], p[i + 1])>>
        BY <3>1, <3>2 DEF LoopStep
      <3>4. PICK d \in Controller : f[i] = <<d>>
        BY <2>2, <3>1, <3>3
      <3>5. part_accepted(d, p[i + 1]) /\ f[i + 1] = <<process_part(d, p[i + 1])>>
        BY <3>3, <3>4
      <3>6. p[i + 1] \in AppState \cup Resource
        BY <1>1, <3>1
      <3>7. process_part(d, p[i + 1]) \in Controller
        BY <3>5, <3>6, PartTyped
      <3> QED
        BY <3>5, <3>7
    <2> HIDE DEF S
    <2> QED
      BY <2>1, <2>2, SetInduction
  <1>5. f[n] = << >> \/ \E d \in Controller : f[n] = <<d>>
    BY <1>4
  <1>6. process_request(c, req) = IF f[n] # << >> THEN f[n][1] ELSE c
    BY DEF process_request, request_accepted
  <1>7. CASE f[n] = << >>
    BY <1>6, <1>7
  <1>8. CASE \E d \in Controller : f[n] = <<d>>
    <2> PICK d \in Controller : f[n] = <<d>>
      BY <1>8
    <2> QED
      BY <1>6
  <1> QED
    BY <1>5, <1>7, <1>8

\* The first and the last of a list with an id are of the list.
LEMMA NamedTyped ==
    ASSUME NEW S, NEW list \in Seq(S), NEW id
    PROVE  /\ first_named(list, id) = << >> \/ \E e \in S : first_named(list, id) = <<e>>
           /\ last_named(list, id) = << >> \/ \E e \in S : last_named(list, id) = <<e>>
  <1> PICK T : T = named(list, id)
    OBVIOUS
  <1>1. DOMAIN list = 1..Len(list) /\ Len(list) \in Nat
    BY LenProperties
  <1>2. T \subseteq 1..Len(list) /\ \A i \in T : list[i] \in S
    BY <1>1, ElementOfSeq DEF named
  <1>3. T \in SUBSET Nat /\ \A j \in T : j <= Len(list)
    BY <1>1, <1>2
  <1>4. CASE T = {}
    BY <1>4 DEF first_named, last_named
  <1>5. CASE T # {}
    <2>1. PICK i : i = CHOOSE n \in T : \A j \in T : n <= j
      OBVIOUS
    <2>2. i \in T
      BY <1>3, <1>5, <2>1, LeastNatural
    <2>3. PICK k : k = CHOOSE n \in T : \A j \in T : j <= n
      OBVIOUS
    <2>4. k \in T
      BY <1>1, <1>3, <1>5, <2>3, GreatestNatural
    <2>5. first_named(list, id) = <<list[i]>> /\ last_named(list, id) = <<list[k]>>
      BY <1>5, <2>1, <2>3 DEF first_named, last_named
    <2> QED
      BY <1>2, <2>2, <2>4, <2>5
  <1> QED
    BY <1>4, <1>5

\* What the phone announces arrives as the states it had, or unclaimed ones as its own.
PeerModes == [screen : EntityEnum \X EntityEnum, main_audio : EntityEnum \X EntityEnum,
              phone_call : EntityEnum, speech : SpeechState, turn_by_turn : EntityEnum]

\* The announcement has its type.
LEMMA SerializeTyped ==
    ASSUME NEW s \in AirPlayModeState
    PROVE  serialize(s) \in PeerModes
  <1>1. \A x \in ResourceState : to_pair(x) \in EntityEnum \X EntityEnum
    BY DEF to_pair, entity, owner, EntityEnum
  <1>2. s.screen \in ResourceState /\ s.main_audio \in ResourceState
    BY DEF AirPlayModeState
  <1> PICK a \in EntityEnum \X EntityEnum, b \in EntityEnum \X EntityEnum :
         a = to_pair(s.screen) /\ b = to_pair(s.main_audio)
    BY <1>1, <1>2
  <1>3. serialize(s) = [s EXCEPT !.screen = a, !.main_audio = b]
    BY DEF serialize
  <1> QED
    BY <1>3 DEF AirPlayModeState, PeerModes

\* The state of a controller has its type.
LEMMA StateTyped ==
    ASSUME NEW c \in Controller
    PROVE  serialize_to_state(c) \in AirPlayModeState
  BY DEF serialize_to_state, Controller, Manager, AirPlayModeState

\* None or one accepted request.
Accepted == {<< >>} \cup {<<req>> : req \in ChangeModes}

\* A constraint comes from the request or is the default.
LEMMA FindConstraintTyped ==
    ASSUME NEW accepted \in Accepted, NEW id \in {"screen", "main_audio"}, NEW type,
           NEW field \in {"take_constraint", "borrow_constraint", "unborrow_constraint"},
           NEW default \in ResourceConstraint
    PROVE  find_constraint(accepted, id, type, field, default) \in ResourceConstraint
  <1> PICK found : found = IF accepted = << >> THEN << >>
                           ELSE first_named(accepted[1].resources, id)
    OBVIOUS
  <1>1. find_constraint(accepted, id, type, field, default) =
          IF found # << >> /\ found[1].type = type /\ found[1][field] # Absent
          THEN found[1][field] ELSE default
    BY DEF find_constraint
  <1>2. found = << >> \/ \E r \in Resource : found = <<r>>
    <2>1. CASE accepted = << >>
      BY <2>1
    <2>2. CASE accepted # << >>
      <3> PICK req \in ChangeModes : accepted = <<req>>
        BY <2>2 DEF Accepted
      <3>1. req.resources \in Seq(Resource) /\ accepted[1] = req
        BY DEF ChangeModes
      <3> QED
        BY <2>2, <3>1, NamedTyped
    <2> QED
      BY <2>1, <2>2
  <1>3. \A r \in Resource : r[field] \in ResourceConstraint \cup {Absent}
    BY DEF Resource
  <1>4. CASE found # << >> /\ found[1][field] # Absent
    <2> PICK r \in Resource : found = <<r>>
      BY <1>2, <1>4
    <2>1. found[1] = r /\ r[field] \in ResourceConstraint
      BY <1>3, <1>4
    <2> QED
      BY <1>1, <2>1
  <1>5. CASE ~(found # << >> /\ found[1][field] # Absent)
    BY <1>1, <1>5
  <1> QED
    BY <1>4, <1>5

\* The proxy's copy of a resource of the phone has its type.
LEMMA MergedResourceTyped ==
    ASSUME NEW old \in Manager, NEW state \in ResourceState, NEW accepted \in Accepted,
           NEW id \in {"screen", "main_audio"}
    PROVE  merge_peer_resource(old, state, id, accepted) \in Manager
  <1>0. "Anytime" \in ResourceConstraint
    BY DEF ResourceConstraint
  <1>1. old.take_constraint \in ResourceConstraint /\ old.borrow_constraint \in ResourceConstraint
        /\ old.unborrow_constraint \in ResourceConstraint
    BY DEF Manager
  <1>2. NewManager(state, "Anytime", "Anytime") \in Manager
    BY <1>0, NewManagerTyped
  <1>3. CASE state = "AccessoryBorrowed"
    <2> PICK d \in ResourceConstraint :
           d = IF old.state = "AccessoryBorrowed" THEN old.unborrow_constraint ELSE "Anytime"
      BY <1>0, <1>1
    <2> PICK u \in ResourceConstraint : u = find_constraint(accepted, id, "Borrow", "unborrow_constraint", d)
      BY FindConstraintTyped
    <2> PICK n \in Manager : n = NewManager(state, "Anytime", "Anytime")
      BY <1>2
    <2>1. merge_peer_resource(old, state, id, accepted) = [n EXCEPT !.unborrow_constraint = u]
      BY <1>3 DEF merge_peer_resource
    <2> QED
      BY <2>1 DEF Manager
  <1>4. CASE state # "AccessoryBorrowed" /\ owner(state) = "Controller"
    BY <1>2, <1>4 DEF merge_peer_resource
  <1>5. CASE state # "AccessoryBorrowed" /\ owner(state) # "Controller"
    <2> PICK d \in ResourceConstraint, e \in ResourceConstraint :
           /\ d = (IF owner(old.state) = "Accessory" THEN old.take_constraint ELSE "Anytime")
           /\ e = (IF owner(old.state) = "Accessory" THEN old.borrow_constraint ELSE "Anytime")
      BY <1>0, <1>1
    <2> PICK t \in ResourceConstraint, b \in ResourceConstraint :
           /\ t = find_constraint(accepted, id, "Take", "take_constraint", d)
           /\ b = find_constraint(accepted, id, "Take", "borrow_constraint", e)
      BY FindConstraintTyped
    <2>1. merge_peer_resource(old, state, id, accepted) = NewManager(state, t, b)
      BY <1>5 DEF merge_peer_resource
    <2> QED
      BY <2>1, NewManagerTyped
  <1> QED
    BY <1>3, <1>4, <1>5

\* So have the merged modes.
LEMMA MergedTyped ==
    ASSUME NEW m, m.modes \in Controller, NEW modes \in PeerModes, NEW accepted \in Accepted
    PROVE  merged(m, modes, accepted) \in Controller
  <1>1. \A e, o \in EntityEnum : from_pair(e, o) \in ResourceState
    BY DEF from_pair, ResourceState
  <1>2. /\ modes.screen \in EntityEnum \X EntityEnum /\ modes.main_audio \in EntityEnum \X EntityEnum
        /\ modes.phone_call \in EntityEnum /\ modes.speech \in SpeechState
        /\ modes.turn_by_turn \in EntityEnum
    BY DEF PeerModes
  <1> PICK s \in ResourceState, a \in ResourceState :
         s = from_pair(modes.screen[1], modes.screen[2])
         /\ a = from_pair(modes.main_audio[1], modes.main_audio[2])
    BY <1>1, <1>2
  <1>3. feed(modes).screen = s /\ feed(modes).main_audio = a
    <2>1. feed(modes) = [modes EXCEPT !.screen = s, !.main_audio = a]
      BY DEF feed
    <2> QED
      BY <2>1 DEF PeerModes
  <1>4. m.modes.screen \in Manager /\ m.modes.main_audio \in Manager
    BY DEF Controller
  <1> PICK x \in Manager, y \in Manager :
         x = merge_peer_resource(m.modes.screen, s, "screen", accepted)
         /\ y = merge_peer_resource(m.modes.main_audio, a, "main_audio", accepted)
    BY <1>4, MergedResourceTyped
  <1>5. merged(m, modes, accepted) =
          [screen |-> x, main_audio |-> y, phone_call |-> modes.phone_call,
           speech |-> modes.speech, turn_by_turn |-> modes.turn_by_turn]
    BY <1>3 DEF merged
  <1> QED
    BY <1>2, <1>5 DEF Controller

-----------------------------------------------------------------------------
(* The manager's record. *)

\* What the arbiter's work on announced modes leaves alone; new modes are marked dirty.
Merging(m, n) ==
    /\ n \in Mgr
    /\ n.peer = m.peer /\ n.proxies = m.proxies /\ n.inflight = m.inflight
    /\ n.tx = m.tx /\ n.has_car_peer = m.has_car_peer /\ n.setup = m.setup
    /\ n.had_record = m.had_record /\ n.error = m.error /\ n.exited = m.exited
    /\ n.dirty \/ (n.modes = m.modes /\ n.dirty = m.dirty)

\* Announced modes are merged with the accepted request that they answer.
LEMMA ApplyNextMerges ==
    ASSUME NEW m \in Mgr, NEW modes \in PeerModes
    PROVE  Merging(m, apply_next(m, modes))
  <1>1. m.modes \in Controller /\ m.accepted \in Seq(ChangeModes)
    BY DEF Mgr
  <1>2. CASE m.accepted = << >>
    <2> PICK v \in Controller : v = merged(m, modes, << >>)
      BY <1>1, MergedTyped DEF Accepted
    <2>1. apply_next(m, modes) = [m EXCEPT !.modes = v, !.dirty = TRUE]
      BY <1>2 DEF apply_next, apply_peer_modes
    <2> PICK n : n = [m EXCEPT !.modes = v, !.dirty = TRUE]
      OBVIOUS
    <2>2. Merging(m, n)
      BY ONLY n = [m EXCEPT !.modes = v, !.dirty = TRUE], m \in Mgr, v \in Controller DEF Mgr, Merging
    <2> QED
      BY <2>1, <2>2
  <1>3. CASE m.accepted # << >>
    <2> PICK req \in ChangeModes, rest \in Seq(ChangeModes) : req = Head(m.accepted) /\ rest = Tail(m.accepted)
      BY <1>1, <1>3, TailSeq
    <2> PICK m1 : m1 = [m EXCEPT !.accepted = rest]
      OBVIOUS
    <2>1. /\ m1 \in Mgr /\ m1.modes = m.modes
          /\ m1.peer = m.peer /\ m1.proxies = m.proxies /\ m1.inflight = m.inflight
          /\ m1.tx = m.tx /\ m1.has_car_peer = m.has_car_peer /\ m1.setup = m.setup
          /\ m1.had_record = m.had_record /\ m1.error = m.error /\ m1.exited = m.exited
      BY DEF Mgr
    <2> PICK v \in Controller : v = merged(m1, modes, <<req>>)
      BY <1>1, <2>1, MergedTyped DEF Accepted
    <2>2. apply_next(m, modes) = [m1 EXCEPT !.modes = v, !.dirty = TRUE]
      BY <1>3 DEF apply_next, apply_peer_modes
    <2> PICK n : n = [m1 EXCEPT !.modes = v, !.dirty = TRUE]
      OBVIOUS
    <2>3. Merging(m1, n)
      BY ONLY n = [m1 EXCEPT !.modes = v, !.dirty = TRUE], <2>1, v \in Controller DEF Mgr, Merging
    <2>4. n.dirty /\ Merging(m, n)
      BY ONLY n = [m1 EXCEPT !.modes = v, !.dirty = TRUE], <2>1, <2>3 DEF Merging, Mgr
    <2> QED
      BY <2>2, <2>4
  <1> QED
    BY <1>2, <1>3

\* Merging goes on.
LEMMA MergingGoesOn ==
    ASSUME NEW a, NEW b, NEW c, Merging(a, b), Merging(b, c)
    PROVE  Merging(a, c)
  BY DEF Merging

\* One step of the drain of what was held back.
DrainStep(m, f, i) ==
    IF i = 0 THEN [m EXCEPT !.pending = << >>] ELSE apply_next(f[i - 1], m.pending[i])

\* The drain, step by step.
LEMMA DrainExists ==
    ASSUME NEW m, NEW n \in Nat
    PROVE  \E f : f = [i \in 0..n |-> DrainStep(m, f, i)]
  <1> DEFINE S == {k \in Nat : \E f : f = [i \in 0..k |-> DrainStep(m, f, i)]}
  <1>1. 0 \in S
    <2> DEFINE f == [i \in 0..0 |-> [m EXCEPT !.pending = << >>]]
    <2>1. f = [i \in 0..0 |-> DrainStep(m, f, i)]
      BY DEF DrainStep
    <2> HIDE DEF f
    <2> QED
      BY <2>1
  <1>2. ASSUME NEW k \in Nat, k \in S
        PROVE  k + 1 \in S
    <2> PICK f : f = [i \in 0..k |-> DrainStep(m, f, i)]
      BY <1>2
    <2> DEFINE g == [i \in 0..(k + 1) |-> IF i <= k THEN f[i] ELSE DrainStep(m, f, i)]
    <2>1. ASSUME NEW i \in 0..(k + 1)
          PROVE  g[i] = DrainStep(m, g, i)
      <3>1. i # 0 => g[i - 1] = f[i - 1]
        OBVIOUS
      <3>2. g[i] = DrainStep(m, f, i)
        OBVIOUS
      <3> HIDE DEF g
      <3> QED
        BY <3>1, <3>2 DEF DrainStep
    <2>2. g = [i \in 0..(k + 1) |-> DrainStep(m, g, i)]
      <3>1. g = [i \in 0..(k + 1) |-> g[i]]
        OBVIOUS
      <3> HIDE DEF g
      <3> QED
        BY <2>1, <3>1
    <2> HIDE DEF g
    <2> QED
      BY <2>2
  <1>3. \A k \in Nat : k \in S
    <2> HIDE DEF S
    <2> QED
      BY <1>1, <1>2, SetInduction
  <1> QED
    BY <1>3

\* The drain merges what was held back.
LEMMA DrainMerges ==
    ASSUME NEW m \in Mgr
    PROVE  Merging(m, drain_pending_if_idle(m))
  <1>1. m.pending \in Seq(PeerModes)
    BY DEF Mgr, PeerModes
  <1> PICK n \in Nat : n = Len(m.pending)
    BY <1>1, LenProperties
  <1>2. CASE m.inflight # << >> \/ m.pending = << >>
    BY <1>2 DEF drain_pending_if_idle, Merging
  <1>3. CASE ~(m.inflight # << >> \/ m.pending = << >>)
    <2> DEFINE f == CHOOSE h : h = [i \in 0..n |-> IF i = 0 THEN [m EXCEPT !.pending = << >>]
                                                   ELSE apply_next(h[i - 1], m.pending[i])]
    <2>1. drain_pending_if_idle(m) = f[n]
      BY <1>3 DEF drain_pending_if_idle
    <2>2. f = [i \in 0..n |-> IF i = 0 THEN [m EXCEPT !.pending = << >>]
                              ELSE apply_next(f[i - 1], m.pending[i])]
      <3>1. \E h : h = [i \in 0..n |-> IF i = 0 THEN [m EXCEPT !.pending = << >>]
                                       ELSE apply_next(h[i - 1], m.pending[i])]
        BY DrainExists DEF DrainStep
      <3> QED
        BY <3>1
    <2> HIDE DEF f
    <2> DEFINE S == {i \in Nat : i <= n => Merging(m, f[i])}
    <2>3. 0 \in S
      <3>1. f[0] = [m EXCEPT !.pending = << >>]
        BY <2>2
      <3> PICK m1 : m1 = [m EXCEPT !.pending = << >>]
        OBVIOUS
      <3>2. << >> \in Seq(PeerModes)
        OBVIOUS
      <3>3. Merging(m, m1)
        BY ONLY m1 = [m EXCEPT !.pending = << >>], m \in Mgr, <3>2 DEF Mgr, Merging, PeerModes
      <3> QED
        BY <3>1, <3>3
    <2>4. ASSUME NEW i \in Nat, i \in S
          PROVE  i + 1 \in S
      <3> SUFFICES ASSUME i + 1 <= n
                   PROVE  Merging(m, f[i + 1])
        OBVIOUS
      <3>1. i + 1 \in 0..n /\ i + 1 # 0 /\ i + 1 - 1 = i /\ i <= n /\ i + 1 \in 1..n
        OBVIOUS
      <3>2. f[i + 1] = apply_next(f[i], m.pending[i + 1])
        <4> PICK j \in 0..n : j = i + 1
          BY <3>1
        <4>1. f[j] = IF j = 0 THEN [m EXCEPT !.pending = << >>] ELSE apply_next(f[j - 1], m.pending[j])
          BY <2>2
        <4>2. j # 0 /\ j - 1 = i
          BY <3>1
        <4> QED
          BY <4>1, <4>2
      <3>3. Merging(m, f[i])
        BY <2>4, <3>1
      <3>4. f[i] \in Mgr
        BY <3>3 DEF Merging
      <3>5. m.pending[i + 1] \in PeerModes
        BY <1>1, <3>1, ElementOfSeq
      <3>6. Merging(f[i], f[i + 1])
        BY <3>2, <3>4, <3>5, ApplyNextMerges
      <3> QED
        BY <3>3, <3>6, MergingGoesOn
    <2>5. \A i \in Nat : i \in S
      <3> HIDE DEF S
      <3> QED
        BY <2>3, <2>4, SetInduction
    <2> QED
      BY <2>1, <2>5
  <1> QED
    BY <1>2, <1>3

\* Modes of the phone are merged, or held back behind a request.
LEMMA PeerModesChangedMerges ==
    ASSUME NEW m \in Mgr, NEW modes \in PeerModes
    PROVE  Merging(m, on_peer_modes_changed(m, modes))
  <1> PICK m1 : m1 = [m EXCEPT !.dirty = TRUE]
    OBVIOUS
  <1>1. Merging(m, m1)
    BY DEF Mgr, Merging
  <1>2. CASE m.inflight # << >>
    <2>1. m1.pending \in Seq(PeerModes)
      BY DEF Mgr, PeerModes
    <2> PICK p \in Seq(PeerModes) : p = Append(m1.pending, modes)
      BY <2>1, AppendSeq
    <2>2. on_peer_modes_changed(m, modes) = [m1 EXCEPT !.pending = p]
      BY <1>2 DEF on_peer_modes_changed
    <2>3. m1 \in Mgr
      BY <1>1 DEF Merging
    <2> PICK m2 : m2 = [m1 EXCEPT !.pending = p]
      OBVIOUS
    <2>4. Merging(m1, m2)
      BY ONLY <2>3, p \in Seq(PeerModes), m2 = [m1 EXCEPT !.pending = p] DEF Mgr, Merging, PeerModes
    <2> QED
      BY <1>1, <2>2, <2>4, MergingGoesOn
  <1>3. CASE m.inflight = << >>
    <2>1. on_peer_modes_changed(m, modes) = apply_next(m1, modes)
      BY <1>3 DEF on_peer_modes_changed
    <2>2. m1 \in Mgr
      BY <1>1 DEF Merging
    <2> QED
      BY <1>1, <2>1, <2>2, ApplyNextMerges, MergingGoesOn
  <1> QED
    BY <1>2, <1>3

\* Commands are proxied to a phone only.
Proxied(m) == m.peer = NoConn => m.proxies = << >>

\* What the handlers of ops, commands and answers leave alone; new modes are marked dirty.
Handles(m, n) ==
    /\ n \in Mgr /\ Proxied(n)
    /\ n.tx = m.tx /\ n.has_car_peer = m.has_car_peer /\ n.setup = m.setup
    /\ n.had_record = m.had_record /\ n.exited = m.exited
    /\ n.dirty \/ (n.modes = m.modes /\ n.dirty = m.dirty)

\* Handling goes on.
LEMMA HandlesGoesOn ==
    ASSUME NEW a, NEW b, NEW c, Handles(a, b), Handles(b, c)
    PROVE  Handles(a, c)
  BY DEF Handles

\* Merging is handling.
LEMMA MergingHandles ==
    ASSUME NEW m \in Mgr, Proxied(m), NEW n, Merging(m, n)
    PROVE  Handles(m, n)
  BY DEF Merging, Handles, Proxied

\* The phone answered a request.
LEMMA ChangeModesEndHandles ==
    ASSUME NEW m \in Mgr, Proxied(m), NEW ok \in BOOLEAN
    PROVE  Handles(m, on_peer_change_modes_end(m, ok))
  <1>1. m.inflight \in Seq(ChangeModes) /\ m.accepted \in Seq(ChangeModes)
    BY DEF Mgr
  <1>2. CASE m.inflight = << >>
    BY <1>2 DEF on_peer_change_modes_end, Handles
  <1>3. CASE m.inflight # << >>
    <2>1. Head(m.inflight) \in ChangeModes /\ Tail(m.inflight) \in Seq(ChangeModes)
      BY <1>1, <1>3, TailSeq
    <2>2. Append(m.accepted, Head(m.inflight)) \in Seq(ChangeModes)
      BY <1>1, <2>1, AppendSeq
    <2> PICK i \in Seq(ChangeModes), a \in Seq(ChangeModes) :
           i = Tail(m.inflight) /\ a = IF ok THEN Append(m.accepted, Head(m.inflight)) ELSE m.accepted
      BY <1>1, <2>1, <2>2
    <2> PICK m1 : m1 = [m EXCEPT !.inflight = i, !.accepted = a]
      OBVIOUS
    <2>3. Handles(m, m1) /\ m1 \in Mgr /\ Proxied(m1)
      BY DEF Mgr, Handles, Proxied
    <2>4. on_peer_change_modes_end(m, ok) = drain_pending_if_idle(m1)
      BY <1>3 DEF on_peer_change_modes_end
    <2>5. Handles(m1, drain_pending_if_idle(m1))
      BY <2>3, DrainMerges, MergingHandles
    <2> QED
      BY <2>3, <2>4, <2>5, HandlesGoesOn
  <1> QED
    BY <1>2, <1>3

\* A finished proxy task is handled.
LEMMA TakeCompletedHandles ==
    ASSUME NEW m \in Mgr, Proxied(m), m.proxies # << >>
    PROVE  Handles(m, take_completed(m))
  <1>1. m.proxies \in Seq(Task)
    BY DEF Mgr
  <1> PICK p \in Seq(Task) : p = Tail(m.proxies)
    BY <1>1, TailSeq
  <1> PICK m1 : m1 = [m EXCEPT !.proxies = p]
    OBVIOUS
  <1>2. m.peer # NoConn
    BY DEF Proxied
  <1>3. Handles(m, m1) /\ m1 \in Mgr /\ Proxied(m1)
    BY <1>2 DEF Mgr, Handles, Proxied
  <1> PICK ok \in BOOLEAN : ok = (Head(m.proxies).resp = "Accepted")
    OBVIOUS
  <1>4. take_completed(m) = m1 \/ take_completed(m) = on_peer_change_modes_end(m1, ok)
    BY DEF take_completed
  <1>5. Handles(m, on_peer_change_modes_end(m1, ok))
    <2>1. Handles(m1, on_peer_change_modes_end(m1, ok))
      BY <1>3, ChangeModesEndHandles
    <2> QED
      BY <1>3, <2>1, HandlesGoesOn
  <1> QED
    BY <1>3, <1>4, <1>5

\* The modes without a phone have their type.
LEMMA ResetTyped ==
    ASSUME NEW c \in Controller
    PROVE  [screen |-> controller_owned,
            main_audio |-> NewManager("AccessoryHas", "Anytime", "Anytime"),
            phone_call |-> "None",
            speech |-> IF c.speech.entity = "Controller" THEN NoSpeech ELSE c.speech,
            turn_by_turn |-> "None"] \in Controller
  <1>1. controller_owned \in Manager /\ NewManager("AccessoryHas", "Anytime", "Anytime") \in Manager
    BY NewManagerTyped DEF controller_owned, ResourceState, ResourceConstraint
  <1>2. "None" \in EntityEnum /\ NoSpeech \in SpeechState
    BY DEF EntityEnum, NoSpeech, SpeechState, SpeechMode
  <1>3. c.speech \in SpeechState
    BY DEF Controller
  <1> QED
    BY <1>1, <1>2, <1>3 DEF Controller

\* The phone is gone.
LEMMA DisconnectHandles ==
    ASSUME NEW m \in Mgr, Proxied(m)
    PROVE  Handles(m, on_peer_disconnect(m))
  <1>1. CASE m.peer = NoConn
    BY <1>1 DEF on_peer_disconnect, Handles
  <1>2. CASE m.peer # NoConn
    <2>1. m.modes \in Controller /\ m.error \in BOOLEAN
      BY DEF Mgr
    <2> PICK er \in BOOLEAN : er = (m.error \/ m.proxies # << >>)
      OBVIOUS
    <2> PICK v \in Controller :
           v = [screen |-> controller_owned,
                main_audio |-> NewManager("AccessoryHas", "Anytime", "Anytime"),
                phone_call |-> "None",
                speech |-> IF m.modes.speech.entity = "Controller" THEN NoSpeech ELSE m.modes.speech,
                turn_by_turn |-> "None"]
      BY <2>1, ResetTyped
    <2> PICK m1 : m1 = [m EXCEPT !.peer = NoConn, !.proxies = << >>, !.error = er]
      OBVIOUS
    <2> PICK m2 : m2 = [m1 EXCEPT !.inflight = << >>, !.accepted = << >>, !.pending = << >>]
      OBVIOUS
    <2> PICK m3 : m3 = [m2 EXCEPT !.modes = v, !.dirty = TRUE]
      OBVIOUS
    <2>2. m1 \in Mgr /\ m1.modes = m.modes /\ Handles(m, m1)
      <3>1. << >> \in Seq(Task) /\ NoConn \in Conn \cup {NoConn}
        OBVIOUS
      <3> QED
        BY ONLY <3>1, m \in Mgr, er \in BOOLEAN,
                m1 = [m EXCEPT !.peer = NoConn, !.proxies = << >>, !.error = er]
           DEF Mgr, Handles, Proxied
    <2>3. m2 \in Mgr /\ m2.modes = m.modes /\ Handles(m1, m2) /\ m2.peer = NoConn /\ Proxied(m2)
      <3>1. << >> \in Seq(ChangeModes) /\ << >> \in Seq(PeerModes)
        OBVIOUS
      <3>2. m1.peer = NoConn /\ m1.proxies = << >>
        BY DEF Mgr
      <3> QED
        BY ONLY <2>2, <3>1, <3>2, m2 = [m1 EXCEPT !.inflight = << >>, !.accepted = << >>, !.pending = << >>]
           DEF Mgr, Handles, Proxied, PeerModes
    <2>4. Handles(m2, m3)
      BY ONLY <2>3, v \in Controller, m3 = [m2 EXCEPT !.modes = v, !.dirty = TRUE]
         DEF Mgr, Handles, Proxied
    <2>5. on_peer_disconnect(m) = m3
      <3>1. on_peer_disconnect(m) = reset_modes(m2)
        BY <1>2 DEF on_peer_disconnect, modes_on_peer_disconnect
      <3> QED
        BY <2>3, <3>1 DEF reset_modes
    <2> QED
      BY <2>2, <2>4, <2>3, <2>5, HandlesGoesOn
  <1> QED
    BY <1>1, <1>2

\* An op of the phone is handled.
LEMMA TxOpHandles ==
    ASSUME NEW m \in Mgr, Proxied(m), NEW op \in Op
    PROVE  Handles(m, dispatch_tx_op(m, op))
  <1>1. /\ op.kind \in {"IphoneConnected", "IphoneDisconnected", "Modes"} /\ op.conn \in Conn
        /\ op.modes \in AirPlayModeState
    BY DEF Op
  <1>2. CASE op.kind = "IphoneConnected"
    <2> PICK c \in Conn : c = op.conn
      BY <1>1
    <2> PICK n : n = [m EXCEPT !.peer = c, !.proxies = << >>]
      OBVIOUS
    <2>1. Handles(m, n)
      <3>1. << >> \in Seq(Task)
        OBVIOUS
      <3> QED
        BY ONLY <3>1, m \in Mgr, c \in Conn, n = [m EXCEPT !.peer = c, !.proxies = << >>]
           DEF Mgr, Handles, Proxied
    <2> QED
      BY <1>2, <2>1 DEF dispatch_tx_op
  <1>3. CASE op.kind = "IphoneDisconnected"
    BY <1>3, DisconnectHandles DEF dispatch_tx_op
  <1>4. CASE op.kind = "Modes"
    <2> PICK p \in PeerModes : p = serialize(op.modes)
      BY <1>1, SerializeTyped
    <2>1. Merging(m, on_peer_modes_changed(m, p))
      BY PeerModesChangedMerges
    <2> QED
      BY <1>4, <2>1, MergingHandles DEF dispatch_tx_op
  <1> QED
    BY <1>1, <1>2, <1>3, <1>4

\* The screen is taken from nobody who forbids it, or not at all.
LEMMA StealHandles ==
    ASSUME NEW m \in Mgr, Proxied(m), NEW priority \in ResourceTransferPriority
    PROVE  Handles(m, try_steal_screen(m, priority))
  <1>1. m.modes \in Controller
    BY DEF Mgr
  <1> PICK r : r = take("screen", priority, "Anytime", "Anytime")
    OBVIOUS
  <1>2. r.take_constraint = "Anytime" /\ r.borrow_constraint = "Anytime"
    BY DEF take, untake
  <1> PICK s \in Manager : s = take_by(m.modes.screen, r, "Controller")
    <2>1. actor_has("Controller") \in ResourceState /\ "Anytime" \in ResourceConstraint
      BY DEF actor_has, from_pair, ResourceState, ResourceConstraint
    <2> QED
      BY <1>2, <2>1, NewManagerTyped DEF take_by
  <1> PICK v : v = [m.modes EXCEPT !.screen = s]
    OBVIOUS
  <1>3. v \in Controller
    BY <1>1 DEF Controller
  <1>4. try_steal_screen(m, priority) = m
        \/ try_steal_screen(m, priority) = [m EXCEPT !.modes = v, !.dirty = TRUE]
    <2>1. [m EXCEPT !.modes.screen = s, !.dirty = TRUE] = [m EXCEPT !.modes = v, !.dirty = TRUE]
      BY <1>1 DEF Mgr
    <2> QED
      BY <2>1 DEF try_steal_screen
  <1> PICK n : n = [m EXCEPT !.modes = v, !.dirty = TRUE]
    OBVIOUS
  <1>5. Handles(m, n)
    BY ONLY <1>3, m \in Mgr, Proxied(m), n = [m EXCEPT !.modes = v, !.dirty = TRUE]
       DEF Mgr, Handles, Proxied
  <1>6. Handles(m, m)
    BY DEF Handles
  <1> QED
    BY <1>4, <1>5, <1>6

\* A command of the car is handled.
LEMMA CarCommandHandles ==
    ASSUME NEW m \in Mgr, Proxied(m), NEW cmd \in Command
    PROVE  Handles(m, dispatch_car_command(m, cmd))
  <1>1. cmd.ui \in BOOLEAN /\ cmd.req \in ChangeModes
    BY DEF Command
  <1>2. m.commands \in Nat
    BY DEF Mgr
  <1> PICK k \in Nat : k = m.commands + 1
    BY <1>2
  <1> PICK m1 : m1 = [m EXCEPT !.commands = k]
    OBVIOUS
  <1>3. m1 \in Mgr /\ Proxied(m1) /\ Handles(m, m1) /\ m1.peer = m.peer
    BY ONLY m \in Mgr, Proxied(m), k \in Nat, m1 = [m EXCEPT !.commands = k] DEF Mgr, Handles, Proxied
  <1>4. CASE m.peer # NoConn
    <2>1. m1.inflight \in Seq(ChangeModes) /\ m1.proxies \in Seq(Task)
      BY <1>3 DEF Mgr
    <2>2. [cmd |-> cmd, resp |-> "Waiting"] \in Task
      BY DEF Task
    <2> PICK t \in Task : t = [cmd |-> cmd, resp |-> "Waiting"]
      BY <2>2
    <2> PICK p \in Seq(Task) : p = Append(m1.proxies, t)
      BY <2>1, AppendSeq
    <2> PICK i \in Seq(ChangeModes) : i = IF cmd.ui THEN m1.inflight ELSE Append(m1.inflight, cmd.req)
      <3> PICK a \in Seq(ChangeModes) : a = Append(m1.inflight, cmd.req)
        BY <1>1, <2>1, AppendSeq
      <3>2. CASE cmd.ui
        BY <2>1, <3>2
      <3>3. CASE ~cmd.ui
        BY ONLY <3>3, a \in Seq(ChangeModes), a = Append(m1.inflight, cmd.req)
      <3> QED
        BY <3>2, <3>3
    <2> PICK n : n = [m1 EXCEPT !.inflight = i, !.proxies = p]
      OBVIOUS
    <2>3. Handles(m1, n)
      BY ONLY <1>3, <1>4, i \in Seq(ChangeModes), p \in Seq(Task),
              n = [m1 EXCEPT !.inflight = i, !.proxies = p]
         DEF Mgr, Handles, Proxied
    <2>4. dispatch_car_command(m, cmd) = n
      BY <1>3, <1>4 DEF dispatch_car_command, on_car_command_connected
    <2> QED
      BY <1>3, <2>3, <2>4, HandlesGoesOn
  <1>5. CASE m.peer = NoConn
    <2>1. dispatch_car_command(m, cmd) = on_car_command_unconnected(m1, cmd)
      BY <1>3, <1>5 DEF dispatch_car_command
    <2>2. CASE cmd.ui
      <3> PICK m2 : m2 = try_steal_screen(m1, "UserInitiated")
        OBVIOUS
      <3>1. Handles(m1, m2)
        BY <1>3, StealHandles DEF ResourceTransferPriority
      <3> PICK n : n = [m2 EXCEPT !.dirty = TRUE]
        OBVIOUS
      <3>2. m2 \in Mgr /\ Proxied(m2)
        BY <3>1 DEF Handles
      <3>3. Handles(m2, n)
        BY ONLY <3>2, n = [m2 EXCEPT !.dirty = TRUE] DEF Mgr, Handles, Proxied
      <3>4. dispatch_car_command(m, cmd) = n
        BY <2>1, <2>2 DEF on_car_command_unconnected
      <3> QED
        BY <1>3, <3>1, <3>3, <3>4, HandlesGoesOn
    <2>3. CASE ~cmd.ui
      <3>1. m1.modes \in Controller
        BY <1>3 DEF Mgr
      <3> PICK v \in Controller : v = process_request(m1.modes, cmd.req)
        BY <1>1, <3>1, RequestTyped
      <3> PICK n : n = [m1 EXCEPT !.dirty = TRUE, !.modes = v]
        OBVIOUS
      <3>2. Handles(m1, n)
        BY ONLY <1>3, v \in Controller, n = [m1 EXCEPT !.dirty = TRUE, !.modes = v]
           DEF Mgr, Handles, Proxied
      <3>3. dispatch_car_command(m, cmd) = n
        BY <2>1, <2>3 DEF on_car_command_unconnected
      <3> QED
        BY <1>3, <3>2, <3>3, HandlesGoesOn
    <2> QED
      BY <2>2, <2>3
  <1> QED
    BY <1>4, <1>5

\* A command or none, an op or none.
OptCommand == {<< >>} \cup {<<cmd>> : cmd \in Command}
OptOp == {<< >>} \cup {<<op>> : op \in Op}

\* The channels are handled.
LEMMA ChannelsHandle ==
    ASSUME NEW m \in Mgr, Proxied(m), NEW op \in OptOp, NEW cmd \in OptCommand
    PROVE  Handles(m, reconcile_channels(m, op, cmd))
  <1> PICK m1 : m1 = IF op = << >> THEN m ELSE dispatch_tx_op(m, op[1])
    OBVIOUS
  <1>0. Handles(m, m)
    BY DEF Handles
  <1>1. Handles(m, m1)
    <2>1. CASE op = << >>
      BY <1>0, <2>1
    <2>2. CASE op # << >>
      <3> PICK o \in Op : op = <<o>>
        BY <2>2 DEF OptOp
      <3> QED
        BY <2>2, TxOpHandles
    <2> QED
      BY <2>1, <2>2
  <1>2. m1 \in Mgr /\ Proxied(m1)
    BY <1>1 DEF Handles
  <1>3. CASE cmd = << >>
    BY <1>1, <1>3 DEF reconcile_channels
  <1>4. CASE cmd # << >>
    <2> PICK k \in Command : cmd = <<k>>
      BY <1>4 DEF OptCommand
    <2>1. Handles(m1, dispatch_car_command(m1, k))
      BY <1>2, CarCommandHandles
    <2>2. reconcile_channels(m, op, cmd) = dispatch_car_command(m1, k)
      BY <1>4 DEF reconcile_channels
    <2> QED
      BY <1>1, <2>1, <2>2, HandlesGoesOn
  <1> QED
    BY <1>3, <1>4

\* The first try at the screen.
LEMMA InitialScreenHandles ==
    ASSUME NEW m \in Mgr, Proxied(m)
    PROVE  Handles(m, steal_initial_screen(m))
  <1> PICK m1 : m1 = [m EXCEPT !.steal_attempted = TRUE]
    OBVIOUS
  <1>1. m1 \in Mgr /\ Proxied(m1) /\ Handles(m, m1)
    BY ONLY m \in Mgr, Proxied(m), m1 = [m EXCEPT !.steal_attempted = TRUE] DEF Mgr, Handles, Proxied
  <1>2. Handles(m1, try_steal_screen(m1, "NiceToHave"))
    BY <1>1, StealHandles DEF ResourceTransferPriority
  <1>3. Handles(m, m)
    BY DEF Handles
  <1>4. steal_initial_screen(m) = m \/ steal_initial_screen(m) = try_steal_screen(m1, "NiceToHave")
    BY DEF steal_initial_screen
  <1> QED
    BY <1>1, <1>2, <1>3, <1>4, HandlesGoesOn

-----------------------------------------------------------------------------
(* What the car will know. *)

CarView == [modes : AirPlayModeState, screen : BOOLEAN]

\* What the car knows after an exchange.
After(c, x) ==
    [modes |-> IF x.kind = "Modes" THEN x.modes ELSE c.modes,
     screen |-> CASE x.kind = "Setup" -> TRUE
                  [] x.kind = "Teardown" -> FALSE
                  [] OTHER -> c.screen]

\* The stream comes when the car knows that the proxy has the screen, and goes when it
\* knows that it has not.
InOrder(c, x) ==
    /\ x.kind = "Setup" => entity(c.modes.screen) = "Controller"
    /\ x.kind = "Teardown" => entity(c.modes.screen) # "Controller"

\* The queued exchanges, in order, lead the car from c to e.
Steps(f, tx) == \A i \in 1..Len(tx) : f[i] = After(f[i - 1], tx[i]) /\ InOrder(f[i - 1], tx[i])
Plan(tx, c, e) == \E f : f[0] = c /\ f[Len(tx)] = e /\ Steps(f, tx)

\* With nothing queued the car knows what it will know.
LEMMA PlanEmpty ==
    ASSUME NEW tx, tx = << >>, NEW c, NEW e
    PROVE  Plan(tx, c, e) <=> e = c
  <1>1. Len(tx) = 0
    OBVIOUS
  <1>2. Plan(tx, c, e) => e = c
    BY <1>1 DEF Plan
  <1>3. ASSUME e = c
        PROVE  Plan(tx, c, e)
    <2> DEFINE f == [i \in {0} |-> c]
    <2>1. f[0] = c /\ f[Len(tx)] = e /\ Steps(f, tx)
      BY <1>1, <1>3 DEF Steps
    <2> QED
      BY <2>1 DEF Plan
  <1> QED
    BY <1>2, <1>3

\* The first exchange done.
LEMMA PlanHead ==
    ASSUME NEW tx \in Seq(Exchange), tx # << >>, NEW c, NEW e, Plan(tx, c, e)
    PROVE  Plan(Tail(tx), After(c, Head(tx)), e) /\ InOrder(c, Head(tx))
  <1> PICK f : f[0] = c /\ f[Len(tx)] = e /\ Steps(f, tx)
    BY DEF Plan
  <1> PICK t \in Seq(Exchange) : t = Tail(tx)
    BY TailSeq
  <1>1. Head(tx) = tx[1] /\ 1 \in 1..Len(tx) /\ Shifted(t, tx)
    BY TailSeq
  <1> PICK n \in Nat : n = Len(t) /\ Len(tx) = n + 1
    <2> PICK k \in Nat \ {0} : k = Len(tx) /\ Len(t) = k - 1
      BY <1>1 DEF Shifted
    <2>1. k - 1 \in Nat /\ k = (k - 1) + 1
      BY ONLY k \in Nat \ {0}
    <2> QED
      BY <2>1
  <1>2. f[1] = After(c, tx[1]) /\ InOrder(c, tx[1])
    BY <1>1 DEF Steps
  <1> DEFINE g == [i \in 0..n |-> f[i + 1]]
  <1>3. g[0] = f[1] /\ g[n] = e
    OBVIOUS
  <1>4. ASSUME NEW i \in 1..n
        PROVE  g[i] = After(g[i - 1], t[i]) /\ InOrder(g[i - 1], t[i])
    <2> PICK j \in 1..(n + 1) : j = i + 1
      OBVIOUS
    <2>1. t[i] = tx[j]
      BY <1>1 DEF Shifted
    <2>2. f[j] = After(f[j - 1], tx[j]) /\ InOrder(f[j - 1], tx[j])
      BY DEF Steps
    <2>3. g[i] = f[j] /\ g[i - 1] = f[j - 1]
      OBVIOUS
    <2> HIDE DEF g
    <2> QED
      BY <2>1, <2>2, <2>3
  <1>5. Steps(g, t)
    <2> HIDE DEF g
    <2> QED
      BY <1>4 DEF Steps
  <1> HIDE DEF g
  <1>6. Plan(t, After(c, tx[1]), e)
    BY <1>2, <1>3, <1>5 DEF Plan
  <1> QED
    BY <1>1, <1>2, <1>6

\* One more exchange queued.
LEMMA PlanAppend ==
    ASSUME NEW tx \in Seq(Exchange), NEW c, NEW e, Plan(tx, c, e),
           NEW x \in Exchange, InOrder(e, x)
    PROVE  Append(tx, x) \in Seq(Exchange) /\ Plan(Append(tx, x), c, After(e, x))
  <1> PICK f : f[0] = c /\ f[Len(tx)] = e /\ Steps(f, tx)
    BY DEF Plan
  <1> PICK t \in Seq(Exchange) : t = Append(tx, x)
    BY AppendSeq
  <1>1. Appended(t, tx, x)
    BY AppendSeq
  <1> PICK n \in Nat : n = Len(tx) /\ Len(t) = n + 1
    BY <1>1 DEF Appended
  <1> DEFINE g == [i \in 0..(n + 1) |-> IF i <= n THEN f[i] ELSE After(e, x)]
  <1>2. g[0] = c /\ g[n + 1] = After(e, x)
    OBVIOUS
  <1>3. ASSUME NEW i \in 1..(n + 1)
        PROVE  g[i] = After(g[i - 1], t[i]) /\ InOrder(g[i - 1], t[i])
    <2>1. CASE i \in 1..n
      <3>1. g[i] = f[i] /\ g[i - 1] = f[i - 1]
        BY <2>1
      <3>2. f[i] = After(f[i - 1], tx[i]) /\ InOrder(f[i - 1], tx[i])
        BY <2>1 DEF Steps
      <3>3. t[i] = tx[i]
        BY <1>1, <2>1 DEF Appended
      <3> HIDE DEF g
      <3> QED
        BY <3>1, <3>2, <3>3
    <2>2. CASE i = n + 1
      <3>1. g[i] = After(e, x) /\ g[i - 1] = e
        BY <2>2
      <3>2. t[i] = x
        BY <1>1, <2>2 DEF Appended
      <3> HIDE DEF g
      <3> QED
        BY <3>1, <3>2
    <2> QED
      BY <2>1, <2>2
  <1> HIDE DEF g
  <1>4. Steps(g, t)
    BY <1>3 DEF Steps
  <1>5. Plan(t, c, After(e, x))
    BY <1>2, <1>4 DEF Plan
  <1> QED
    BY <1>5

\* At most one SETUP is queued, and only while it is pending.
NoSetup(tx) == \A i \in 1..Len(tx) : tx[i].kind # "Setup"
OneSetup(tx) == \A i, j \in 1..Len(tx) : tx[i].kind = "Setup" /\ tx[j].kind = "Setup" => i = j
SetupInv(m) == OneSetup(m.tx) /\ (m.setup # "Pending" => NoSetup(m.tx))

\* Queueing another exchange.
LEMMA SetupAppend ==
    ASSUME NEW tx \in Seq(Exchange), NEW x \in Exchange, OneSetup(tx),
           x.kind = "Setup" => NoSetup(tx)
    PROVE  /\ OneSetup(Append(tx, x))
           /\ x.kind # "Setup" /\ NoSetup(tx) => NoSetup(Append(tx, x))
  <1> PICK t : t = Append(tx, x)
    OBVIOUS
  <1>1. Appended(t, tx, x)
    BY AppendSeq
  <1> PICK n \in Nat : n = Len(tx) /\ Len(t) = n + 1
    BY <1>1 DEF Appended
  <1>2. \A i \in 1..n : t[i] = tx[i]
    BY <1>1 DEF Appended
  <1>3. t[n + 1] = x
    BY <1>1 DEF Appended
  <1>4. \A i \in 1..(n + 1) : i \in 1..n \/ i = n + 1
    OBVIOUS
  <1>5. OneSetup(t)
    BY <1>2, <1>3, <1>4 DEF OneSetup, NoSetup
  <1>6. x.kind # "Setup" /\ NoSetup(tx) => NoSetup(t)
    BY <1>2, <1>3, <1>4 DEF NoSetup
  <1> QED
    BY <1>5, <1>6

\* The first exchange done.
LEMMA SetupTail ==
    ASSUME NEW tx \in Seq(Exchange), tx # << >>, OneSetup(tx)
    PROVE  /\ OneSetup(Tail(tx))
           /\ Head(tx).kind = "Setup" \/ NoSetup(tx) => NoSetup(Tail(tx))
           /\ Head(tx).kind = "Setup" => ~NoSetup(tx)
  <1> PICK t : t = Tail(tx)
    OBVIOUS
  <1>1. Head(tx) = tx[1] /\ 1 \in 1..Len(tx) /\ Shifted(t, tx)
    BY TailSeq
  <1> PICK n \in Nat : n = Len(t) /\ Len(tx) = n + 1
    <2> PICK k \in Nat \ {0} : k = Len(tx) /\ Len(t) = k - 1
      BY <1>1 DEF Shifted
    <2>1. k - 1 \in Nat /\ k = (k - 1) + 1
      BY ONLY k \in Nat \ {0}
    <2> QED
      BY <2>1
  <1>2. \A i \in 1..n : i + 1 \in 1..(n + 1) /\ i + 1 # 1 /\ t[i] = tx[i + 1]
    BY <1>1 DEF Shifted
  <1>3. OneSetup(t)
    <2> SUFFICES ASSUME NEW i \in 1..n, NEW j \in 1..n, t[i].kind = "Setup", t[j].kind = "Setup"
                 PROVE  i = j
      BY DEF OneSetup
    <2>1. tx[i + 1].kind = "Setup" /\ tx[j + 1].kind = "Setup"
      BY <1>2
    <2>2. i + 1 = j + 1
      BY <1>2, <2>1 DEF OneSetup
    <2> QED
      BY <2>2
  <1>4. tx[1].kind = "Setup" \/ NoSetup(tx) => NoSetup(t)
    <2> SUFFICES ASSUME tx[1].kind = "Setup" \/ NoSetup(tx), NEW i \in 1..n
                 PROVE  t[i].kind # "Setup"
      BY DEF NoSetup
    <2> QED
      BY <1>1, <1>2 DEF NoSetup, OneSetup
  <1> QED
    BY <1>1, <1>3, <1>4 DEF NoSetup

-----------------------------------------------------------------------------
(* Telling the car. *)

\* Two more elements behind a sequence.
LEMMA TwoMore ==
    ASSUME NEW S, NEW s \in Seq(S), NEW a \in S, NEW b \in S
    PROVE  s \o <<a, b>> = Append(Append(s, a), b)
  <1>1. <<a>> \in Seq(S) /\ <<b>> \in Seq(S) /\ <<a>> \o <<b>> = <<a, b>>
    <2>1. <<a>> \in Seq(S) /\ Append(<<a>>, b) = <<a>> \o <<b>>
      BY AppendIsConcat
    <2>2. <<b>> \in Seq(S) /\ <<a, b>> \in Seq(S)
      OBVIOUS
    <2> PICK u \in Seq(S) : u = <<a>> /\ Len(u) = 1 /\ u[1] = a
      BY <2>1
    <2> PICK v \in Seq(S) : v = <<a, b>> /\ Len(v) = 2 /\ v[1] = a /\ v[2] = b
      BY <2>2
    <2> PICK w \in Seq(S) : w = Append(u, b) /\ Appended(w, u, b)
      BY AppendSeq
    <2>3. Len(w) = 2 /\ w[1] = a /\ w[2] = b
      BY DEF Appended
    <2>4. w = v
      <3>1. \A i \in 1..2 : i = 1 \/ i = 2
        OBVIOUS
      <3>2. \A i \in 1..Len(w) : w[i] = v[i]
        BY <2>3, <3>1
      <3> QED
        BY <2>3, <3>2, SeqEqual
    <2> QED
      BY <2>1, <2>2, <2>4
  <1>2. Append(s, a) \in Seq(S) /\ Append(s, a) = s \o <<a>>
    BY AppendSeq, AppendIsConcat
  <1>3. Append(Append(s, a), b) = Append(s, a) \o <<b>>
    BY <1>2, AppendIsConcat
  <1>4. (s \o <<a>>) \o <<b>> = s \o (<<a>> \o <<b>>)
    BY <1>1, ConcatAssociative
  <1> QED
    BY <1>1, <1>2, <1>3, <1>4

\* An exchange keeps the type of what the car knows.
LEMMA AfterTyped ==
    ASSUME NEW c \in CarView, NEW x \in Exchange
    PROVE  After(c, x) \in CarView
  <1>1. c.modes \in AirPlayModeState /\ c.screen \in BOOLEAN /\ x.modes \in AirPlayModeState
    BY DEF CarView, Exchange
  <1>2. (IF x.kind = "Modes" THEN x.modes ELSE c.modes) \in AirPlayModeState
    BY <1>1
  <1>3. (CASE x.kind = "Setup" -> TRUE [] x.kind = "Teardown" -> FALSE [] OTHER -> c.screen) \in BOOLEAN
    <2>1. CASE x.kind = "Setup"
      BY <2>1
    <2>2. CASE x.kind = "Teardown"
      BY <2>2
    <2>3. CASE x.kind # "Setup" /\ x.kind # "Teardown"
      BY <1>1, <2>3
    <2> QED
      BY <2>1, <2>2, <2>3
  <1> QED
    BY <1>2, <1>3 DEF After, CarView

\* An exchange about the modes of the manager.
LEMMA ExchTyped ==
    ASSUME NEW m \in Mgr, NEW kind \in {"Record", "Modes", "Setup", "Teardown"}
    PROVE  /\ Exch(kind, m) \in Exchange /\ Exch(kind, m).kind = kind
           /\ Exch(kind, m).modes = State(m)
           /\ State(m) \in AirPlayModeState /\ State(m).screen = m.modes.screen.state
           /\ has_screen(m) \in BOOLEAN
  <1>1. m.modes \in Controller
    BY DEF Mgr
  <1>2. State(m) \in AirPlayModeState
    BY <1>1, StateTyped DEF State
  <1>3. State(m).screen = m.modes.screen.state
    BY DEF State, serialize_to_state
  <1>4. has_screen(m) \in BOOLEAN
    BY DEF has_screen
  <1> QED
    BY <1>2, <1>3, <1>4 DEF Exch, Exchange

\* e is what the car has to know: the modes, unless they are marked dirty, and the stream.
InSync(m, e) ==
    /\ ~m.dirty => e.modes = State(m)
    /\ e.screen <=> (m.has_car_peer \/ m.setup # "None")

\* Whatever is queued leads the car there.
Told(m, c) ==
    /\ m \in Mgr /\ Proxied(m) /\ SetupInv(m)
    /\ \E e \in CarView : Plan(m.tx, c, e) /\ InSync(m, e)

\* Handlers change the modes, and mark them dirty.
LEMMA HandlesTold ==
    ASSUME NEW m, NEW c, Told(m, c), NEW n, Handles(m, n)
    PROVE  Told(n, c)
  <1> PICK e \in CarView : Plan(m.tx, c, e) /\ InSync(m, e)
    BY DEF Told
  <1>1. n.tx = m.tx /\ n.has_car_peer = m.has_car_peer /\ n.setup = m.setup /\ n \in Mgr /\ Proxied(n)
    BY DEF Handles
  <1>2. SetupInv(n)
    BY <1>1 DEF Told, SetupInv
  <1>3. n.dirty \/ (n.modes = m.modes /\ n.dirty = m.dirty)
    BY DEF Handles
  <1>4. InSync(n, e)
    BY <1>1, <1>3 DEF InSync, State
  <1> QED
    BY <1>1, <1>2, <1>4 DEF Told

\* One more exchange that is not a SETUP.
LEMMA TellMore ==
    ASSUME NEW m \in Mgr, NEW c, NEW e \in CarView, Plan(m.tx, c, e), SetupInv(m),
           NEW kind \in {"Record", "Modes", "Teardown"}, InOrder(e, Exch(kind, m)),
           NEW t, t = Append(m.tx, Exch(kind, m))
    PROVE  /\ t \in Seq(Exchange)
           /\ After(e, Exch(kind, m)) \in CarView /\ Plan(t, c, After(e, Exch(kind, m)))
           /\ OneSetup(t) /\ (m.setup # "Pending" => NoSetup(t))
  <1> PICK x \in Exchange : x = Exch(kind, m) /\ x.kind = kind
    BY ExchTyped
  <1>1. m.tx \in Seq(Exchange)
    BY DEF Mgr
  <1> PICK tx \in Seq(Exchange) : tx = m.tx
    BY <1>1
  <1>2. t \in Seq(Exchange) /\ Plan(t, c, After(e, x)) /\ After(e, x) \in CarView
    BY PlanAppend, AfterTyped
  <1>3. OneSetup(t) /\ (NoSetup(tx) => NoSetup(t))
    BY SetupAppend DEF SetupInv
  <1> QED
    BY <1>2, <1>3 DEF SetupInv

\* What else the handlers of the exchanges leave alone.
Keeps(m, n) ==
    /\ n.exited = m.exited /\ n.error = m.error
    /\ n.peer = m.peer /\ n.proxies = m.proxies /\ n.inflight = m.inflight

\* RECORD is queued once.
LEMMA RecordTold ==
    ASSUME NEW m, NEW c, Told(m, c)
    PROVE  Told(record(m), c) /\ record(m).had_record /\ Keeps(m, record(m))
  <1>0. m \in Mgr /\ Proxied(m) /\ SetupInv(m)
    BY DEF Told
  <1>1. CASE m.had_record
    BY <1>1 DEF record, Keeps
  <1>2. CASE ~m.had_record
    <2> PICK e \in CarView : Plan(m.tx, c, e) /\ InSync(m, e)
      BY DEF Told
    <2> PICK x \in Exchange : x = Exch("Record", m) /\ x.kind = "Record"
      BY <1>0, ExchTyped
    <2>1. InOrder(e, x) /\ After(e, x) = e
      BY DEF InOrder, After, CarView
    <2> PICK t : t = Append(m.tx, x)
      OBVIOUS
    <2>2. t \in Seq(Exchange) /\ Plan(t, c, e) /\ OneSetup(t) /\ (m.setup # "Pending" => NoSetup(t))
      <3>1. Plan(m.tx, c, e)
        OBVIOUS
      <3>2. m.tx \in Seq(Exchange)
        BY <1>0 DEF Mgr
      <3>3. t \in Seq(Exchange) /\ Plan(t, c, After(e, x))
        BY ONLY <2>1, <3>1, <3>2, x \in Exchange, t = Append(m.tx, x), PlanAppend
      <3>4. OneSetup(m.tx) /\ (m.setup # "Pending" => NoSetup(m.tx))
        BY <1>0 DEF SetupInv
      <3>5. OneSetup(t) /\ (NoSetup(m.tx) => NoSetup(t))
        BY ONLY <3>2, <3>4, x \in Exchange, x.kind = "Record", t = Append(m.tx, x), SetupAppend
      <3> QED
        BY <2>1, <3>3, <3>4, <3>5
    <2> PICK n : n = [m EXCEPT !.had_record = TRUE, !.tx = t]
      OBVIOUS
    <2>3. /\ n \in Mgr /\ n.tx = t /\ n.setup = m.setup /\ n.modes = m.modes /\ n.dirty = m.dirty
          /\ n.has_car_peer = m.has_car_peer /\ n.had_record /\ Keeps(m, n)
      BY ONLY <1>0, <2>2, n = [m EXCEPT !.had_record = TRUE, !.tx = t] DEF Mgr, Keeps
    <2>4. Proxied(n) /\ SetupInv(n) /\ InSync(n, e)
      BY <1>0, <2>2, <2>3 DEF Keeps, Proxied, SetupInv, InSync, State
    <2>5. record(m) = n
      BY <1>2 DEF record
    <2> QED
      BY <2>2, <2>3, <2>4, <2>5 DEF Told
  <1> QED
    BY <1>1, <1>2

\* The stream that came is taken.
LEMMA TakeScreenTold ==
    ASSUME NEW m, NEW c, Told(m, c)
    PROVE  /\ Told(take_screen(m), c) /\ Keeps(m, take_screen(m))
           /\ take_screen(m).had_record = m.had_record
  <1>0. m \in Mgr /\ Proxied(m) /\ SetupInv(m)
    BY DEF Told
  <1>1. CASE m.setup # "Ready"
    BY <1>1 DEF take_screen, Keeps
  <1>2. CASE m.setup = "Ready"
    <2> PICK e \in CarView : Plan(m.tx, c, e) /\ InSync(m, e)
      BY DEF Told
    <2> PICK n : n = [m EXCEPT !.setup = "None", !.has_car_peer = TRUE]
      OBVIOUS
    <2>1. /\ n \in Mgr /\ n.tx = m.tx /\ n.setup = "None" /\ n.modes = m.modes /\ n.dirty = m.dirty
          /\ n.has_car_peer = TRUE /\ n.had_record = m.had_record /\ Keeps(m, n)
      BY ONLY <1>0, n = [m EXCEPT !.setup = "None", !.has_car_peer = TRUE] DEF Mgr, Keeps
    <2>2. Proxied(n) /\ SetupInv(n)
      BY <1>0, <1>2, <2>1 DEF Keeps, Proxied, SetupInv
    <2>3. InSync(n, e)
      BY <1>2, <2>1 DEF InSync, State
    <2>4. take_screen(m) = n
      BY <1>2 DEF take_screen
    <2> QED
      BY <2>1, <2>2, <2>3, <2>4 DEF Told
  <1> QED
    BY <1>1, <1>2

\* Modes marked dirty are queued.
LEMMA FlushDirtyTold ==
    ASSUME NEW m, NEW c, Told(m, c)
    PROVE  /\ Told(flush_dirty(m), c) /\ Keeps(m, flush_dirty(m)) /\ ~flush_dirty(m).dirty
           /\ flush_dirty(m).had_record = m.had_record
  <1>0. m \in Mgr /\ Proxied(m) /\ SetupInv(m)
    BY DEF Told
  <1>1. CASE ~m.dirty
    BY <1>1 DEF flush_dirty, Keeps
  <1>2. CASE m.dirty
    <2> PICK e \in CarView : Plan(m.tx, c, e) /\ InSync(m, e)
      BY DEF Told
    <2>1. InOrder(e, Exch("Modes", m))
      BY <1>0, ExchTyped DEF InOrder
    <2> PICK f : f = After(e, Exch("Modes", m))
      OBVIOUS
    <2>2. f.modes = State(m) /\ f.screen = e.screen
      BY <1>0, ExchTyped DEF After
    <2> PICK t : t = Append(m.tx, Exch("Modes", m))
      OBVIOUS
    <2>3. /\ t \in Seq(Exchange) /\ Plan(t, c, f) /\ f \in CarView
          /\ OneSetup(t) /\ (m.setup # "Pending" => NoSetup(t))
      BY <1>0, <2>1, TellMore
    <2> PICK n : n = [m EXCEPT !.dirty = FALSE, !.tx = t]
      OBVIOUS
    <2>4. /\ n \in Mgr /\ n.tx = t /\ n.setup = m.setup /\ n.modes = m.modes /\ ~n.dirty
          /\ n.has_car_peer = m.has_car_peer /\ n.had_record = m.had_record /\ Keeps(m, n)
      BY ONLY <1>0, <2>3, n = [m EXCEPT !.dirty = FALSE, !.tx = t] DEF Mgr, Keeps
    <2>5. Proxied(n) /\ SetupInv(n)
      BY <1>0, <2>3, <2>4 DEF Keeps, Proxied, SetupInv
    <2>6. InSync(n, f)
      BY <2>2, <2>4 DEF InSync, State
    <2>7. flush_dirty(m) = n
      BY <1>2 DEF flush_dirty
    <2> QED
      BY <2>3, <2>4, <2>5, <2>6, <2>7 DEF Told
  <1> QED
    BY <1>1, <1>2

\* The modes have been queued, and the stream they call for has been asked for.
Flushed(m) == ~m.dirty /\ (m.setup = "None" => has_screen(m) = m.has_car_peer)

\* The stream is asked for when the car will know who has the screen.
LEMMA SetupTold ==
    ASSUME NEW m, NEW c, Told(m, c), ~m.dirty, m.setup = "None", has_screen(m), ~m.has_car_peer,
           NEW n, n = [m EXCEPT !.setup = "Pending",
                                !.tx = @ \o <<Exch("Modes", m), Exch("Setup", m)>>]
    PROVE  Told(n, c) /\ Keeps(m, n) /\ Flushed(n) /\ n.had_record = m.had_record
  <1>0. m \in Mgr /\ Proxied(m) /\ SetupInv(m)
    BY DEF Told
  <1> PICK e \in CarView : Plan(m.tx, c, e) /\ InSync(m, e)
    BY DEF Told
  <1> PICK a \in Exchange : a = Exch("Modes", m) /\ a.kind = "Modes" /\ a.modes = State(m)
    BY <1>0, ExchTyped
  <1> PICK b \in Exchange : b = Exch("Setup", m) /\ b.kind = "Setup" /\ b.modes = State(m)
    BY <1>0, ExchTyped
  <1>1. InOrder(e, a)
    BY DEF InOrder
  <1> PICK s : s = Append(m.tx, a)
    OBVIOUS
  <1> PICK f : f = After(e, a)
    OBVIOUS
  <1>2. s \in Seq(Exchange) /\ Plan(s, c, f) /\ f \in CarView /\ OneSetup(s) /\ NoSetup(s)
    BY <1>0, <1>1, TellMore
  <1>3. f.modes = State(m) /\ f.screen = e.screen
    BY DEF After
  <1>4. InOrder(f, b)
    <2>1. entity(f.modes.screen) = "Controller"
      BY <1>0, <1>3, ExchTyped DEF has_screen
    <2> QED
      BY <2>1 DEF InOrder
  <1> PICK t : t = Append(s, b)
    OBVIOUS
  <1> PICK g : g = After(f, b)
    OBVIOUS
  <1>5. t \in Seq(Exchange) /\ Plan(t, c, g) /\ g \in CarView
    BY <1>2, <1>4, PlanAppend, AfterTyped
  <1>6. OneSetup(t)
    BY <1>2, SetupAppend
  <1>7. g.modes = State(m) /\ g.screen = TRUE
    BY <1>3 DEF After
  <1>8. t = m.tx \o <<a, b>>
    <2>1. m.tx \in Seq(Exchange)
      BY <1>0 DEF Mgr
    <2> QED
      BY ONLY <2>1, TwoMore, a \in Exchange, b \in Exchange, s = Append(m.tx, a), t = Append(s, b)
  <1>9. n = [m EXCEPT !.setup = "Pending", !.tx = t]
    BY <1>8
  <1>10. /\ n \in Mgr /\ n.tx = t /\ n.setup = "Pending" /\ n.modes = m.modes /\ ~n.dirty
         /\ n.has_car_peer = m.has_car_peer /\ n.had_record = m.had_record /\ Keeps(m, n)
    BY ONLY <1>0, <1>5, <1>9, ~m.dirty DEF Mgr, Keeps
  <1>11. Proxied(n) /\ SetupInv(n)
    BY <1>0, <1>6, <1>10 DEF Keeps, Proxied, SetupInv
  <1>12. InSync(n, g)
    BY <1>7, <1>10 DEF InSync, State
  <1> QED
    BY <1>5, <1>10, <1>11, <1>12 DEF Told, Flushed

\* The stream is given up when the car will know that the screen is lost.
LEMMA TeardownTold ==
    ASSUME NEW m, NEW c, Told(m, c), ~m.dirty, m.setup = "None", ~has_screen(m), m.has_car_peer,
           NEW n, n = [m EXCEPT !.has_car_peer = FALSE,
                                !.tx = @ \o <<Exch("Teardown", m), Exch("Modes", m)>>]
    PROVE  Told(n, c) /\ Keeps(m, n) /\ Flushed(n) /\ n.had_record = m.had_record
  <1>0. m \in Mgr /\ Proxied(m) /\ SetupInv(m)
    BY DEF Told
  <1> PICK e \in CarView : Plan(m.tx, c, e) /\ InSync(m, e)
    BY DEF Told
  <1> PICK a \in Exchange : a = Exch("Teardown", m) /\ a.kind = "Teardown" /\ a.modes = State(m)
    BY <1>0, ExchTyped
  <1> PICK b \in Exchange : b = Exch("Modes", m) /\ b.kind = "Modes" /\ b.modes = State(m)
    BY <1>0, ExchTyped
  <1>1. InOrder(e, a)
    <2>1. e.modes = State(m)
      BY DEF InSync
    <2>2. entity(e.modes.screen) # "Controller"
      BY <1>0, <2>1, ExchTyped DEF has_screen
    <2> QED
      BY <2>2 DEF InOrder
  <1> PICK s : s = Append(m.tx, a)
    OBVIOUS
  <1> PICK f : f = After(e, a)
    OBVIOUS
  <1>2. s \in Seq(Exchange) /\ Plan(s, c, f) /\ f \in CarView /\ OneSetup(s) /\ NoSetup(s)
    BY <1>0, <1>1, TellMore
  <1>3. f.screen = FALSE
    BY DEF After
  <1>4. InOrder(f, b)
    BY DEF InOrder
  <1> PICK t : t = Append(s, b)
    OBVIOUS
  <1> PICK g : g = After(f, b)
    OBVIOUS
  <1>5. t \in Seq(Exchange) /\ Plan(t, c, g) /\ g \in CarView
    BY <1>2, <1>4, PlanAppend, AfterTyped
  <1>6. OneSetup(t) /\ NoSetup(t)
    BY <1>2, SetupAppend
  <1>7. g.modes = State(m) /\ g.screen = FALSE
    BY <1>3 DEF After
  <1>8. t = m.tx \o <<a, b>>
    <2>1. m.tx \in Seq(Exchange)
      BY <1>0 DEF Mgr
    <2> QED
      BY ONLY <2>1, TwoMore, a \in Exchange, b \in Exchange, s = Append(m.tx, a), t = Append(s, b)
  <1>9. n = [m EXCEPT !.has_car_peer = FALSE, !.tx = t]
    BY <1>8
  <1>10. /\ n \in Mgr /\ n.tx = t /\ n.setup = m.setup /\ n.modes = m.modes /\ ~n.dirty
         /\ ~n.has_car_peer /\ n.had_record = m.had_record /\ Keeps(m, n)
    BY ONLY <1>0, <1>5, <1>9, ~m.dirty DEF Mgr, Keeps
  <1>11. Proxied(n) /\ SetupInv(n)
    BY <1>0, <1>6, <1>10 DEF Keeps, Proxied, SetupInv
  <1>12. InSync(n, g)
    BY <1>7, <1>10 DEF InSync, State
  <1>13. Flushed(n)
    <2>1. has_screen(n) = has_screen(m) /\ has_screen(n) \in BOOLEAN /\ n.has_car_peer \in BOOLEAN
      BY <1>10 DEF has_screen, Mgr
    <2> QED
      BY <1>10, <2>1 DEF Flushed
  <1> QED
    BY <1>5, <1>10, <1>11, <1>12, <1>13 DEF Told

\* Everything is flushed: the modes first, the screen after them.
LEMMA FlushTold ==
    ASSUME NEW m, NEW c, Told(m, c)
    PROVE  /\ Told(flush_modes(m), c) /\ Keeps(m, flush_modes(m)) /\ Flushed(flush_modes(m))
           /\ flush_modes(m).had_record = m.had_record
  <1> PICK m1 : m1 = flush_dirty(m)
    OBVIOUS
  <1>1. Told(m1, c) /\ Keeps(m, m1) /\ ~m1.dirty /\ m1.had_record = m.had_record
    BY FlushDirtyTold
  <1> PICK n : n = flush_screen(m1)
    OBVIOUS
  <1>2. m1 \in Mgr /\ has_screen(m1) \in BOOLEAN /\ m1.has_car_peer \in BOOLEAN
    BY <1>1 DEF Told, Mgr, has_screen
  <1>3. Told(n, c) /\ Keeps(m1, n) /\ Flushed(n) /\ n.had_record = m1.had_record
    <2>1. CASE m1.setup # "None" \/ has_screen(m1) = m1.has_car_peer
      BY <1>1, <2>1 DEF flush_screen, Keeps, Flushed
    <2>2. CASE m1.setup = "None" /\ has_screen(m1) # m1.has_car_peer /\ has_screen(m1)
      <3>1. n = [m1 EXCEPT !.setup = "Pending",
                           !.tx = @ \o <<Exch("Modes", m1), Exch("Setup", m1)>>]
        BY <2>2 DEF flush_screen
      <3>2. ~m1.has_car_peer
        BY <1>2, <2>2
      <3> QED
        BY <1>1, <2>2, <3>1, <3>2, SetupTold
    <2>3. CASE m1.setup = "None" /\ has_screen(m1) # m1.has_car_peer /\ ~has_screen(m1)
      <3>1. n = [m1 EXCEPT !.has_car_peer = FALSE,
                           !.tx = @ \o <<Exch("Teardown", m1), Exch("Modes", m1)>>]
        BY <2>3 DEF flush_screen
      <3>2. m1.has_car_peer
        BY <1>2, <2>3
      <3> QED
        BY <1>1, <2>3, <3>1, <3>2, TeardownTold
    <2> QED
      BY <2>1, <2>2, <2>3
  <1>4. flush_modes(m) = n
    BY DEF flush_modes
  <1> QED
    BY <1>1, <1>3, <1>4 DEF Keeps

\* A pass of reconcile().
LEMMA ReconcileTold ==
    ASSUME NEW m, NEW c, Told(m, c), NEW completed \in BOOLEAN,
           completed => m.proxies # << >>,
           NEW op \in OptOp, NEW cmd \in OptCommand, NEW n,
           n = flush_modes(steal_initial_screen(flush_modes(
                 reconcile_channels(reconcile_tasks(m, completed), op, cmd))))
    PROVE  Told(n, c) /\ Flushed(n) /\ n.exited = m.exited
  <1> PICK m1 : m1 = record(m)
    OBVIOUS
  <1>1. Told(m1, c) /\ Keeps(m, m1)
    BY RecordTold
  <1> PICK m2 : m2 = take_screen(m1)
    OBVIOUS
  <1>2. Told(m2, c) /\ Keeps(m1, m2)
    BY <1>1, TakeScreenTold
  <1> PICK m3 : m3 = reconcile_tasks(m, completed)
    OBVIOUS
  <1>3. Told(m3, c) /\ m3.exited = m.exited
    <2>1. m3 = IF completed THEN take_completed(m2) ELSE m2
      BY DEF reconcile_tasks
    <2>2. CASE completed
      <3>1. m2 \in Mgr /\ Proxied(m2) /\ m2.proxies # << >>
        BY <1>1, <1>2, <2>2 DEF Told, Keeps
      <3>2. Handles(m2, take_completed(m2))
        BY <3>1, TakeCompletedHandles
      <3> QED
        BY <1>1, <1>2, <2>1, <2>2, <3>2, HandlesTold DEF Handles, Keeps
    <2>3. CASE ~completed
      BY <1>1, <1>2, <2>1, <2>3 DEF Keeps
    <2> QED
      BY <2>2, <2>3
  <1> PICK m4 : m4 = reconcile_channels(m3, op, cmd)
    OBVIOUS
  <1>4. Told(m4, c) /\ m4.exited = m.exited
    <2>1. Handles(m3, m4)
      BY <1>3, ChannelsHandle DEF Told
    <2> QED
      BY <1>3, <2>1, HandlesTold DEF Handles
  <1> PICK m5 : m5 = flush_modes(m4)
    OBVIOUS
  <1>5. Told(m5, c) /\ m5.exited = m.exited
    BY <1>4, FlushTold DEF Keeps
  <1> PICK m6 : m6 = steal_initial_screen(m5)
    OBVIOUS
  <1>6. Told(m6, c) /\ m6.exited = m.exited
    <2>1. Handles(m5, m6)
      BY <1>5, InitialScreenHandles DEF Told
    <2> QED
      BY <1>5, <2>1, HandlesTold DEF Handles
  <1>7. n = flush_modes(m6)
    OBVIOUS
  <1> QED
    BY <1>6, <1>7, FlushTold DEF Keeps

-----------------------------------------------------------------------------
(* The invariant. *)

\* Types, and no proxied command without a phone.
TypeInv == TypeOK /\ Proxied(mgr)

\* What is queued leads the car to what the manager knows, as long as there is no error.
PlanInv ==
    /\ SetupInv(mgr)
    /\ \E e \in CarView : Plan(mgr.tx, car, e) /\ (~mgr.error /\ ~mgr.exited => InSync(mgr, e))

\* Between two passes nothing waits to be flushed.
FlushInv == mgr.had_record /\ ~mgr.error /\ ~mgr.exited => Flushed(mgr)

\* The inductive invariant.
CarInv == TypeInv /\ PlanInv /\ FlushInv

\* The modes of /info have their type.
LEMMA InfoTyped ==
    ASSUME NEW info \in InfoModes
    PROVE  from_change_modes(info) \in Controller
  <1> PICK req \in ChangeModes : req = info.modes
    BY DEF InfoModes
  <1>1. \A perm \in PermanentEntity : from_permanent_entity(perm) \in Manager
    <2> SUFFICES ASSUME NEW perm \in PermanentEntity
                 PROVE  from_permanent_entity(perm) \in Manager
      OBVIOUS
    <2>1. perm.take_constraint \in ResourceConstraint /\ perm.borrow_constraint \in ResourceConstraint
      BY DEF PermanentEntity
    <2>2. NewManager("AccessoryHas", perm.take_constraint, perm.borrow_constraint) \in Manager
      BY <2>1, NewManagerTyped DEF ResourceState
    <2>3. controller_owned \in Manager
      BY NewManagerTyped DEF controller_owned, ResourceState, ResourceConstraint
    <2> QED
      BY <2>2, <2>3 DEF from_permanent_entity
  <1>2. ASSUME NEW m \in Manager, NEW r \in Resource
        PROVE  apply_initial_transaction(m, <<r>>) \in Manager
    <2>1. CASE r.type = "Take"
      <3> PICK t \in ResourceConstraint :
             t = IF r.take_constraint = Absent THEN "Anytime" ELSE r.take_constraint
        BY DEF Resource, ResourceConstraint
      <3> PICK b \in ResourceConstraint :
             b = IF r.borrow_constraint = Absent THEN "Anytime" ELSE r.borrow_constraint
        BY DEF Resource, ResourceConstraint
      <3>1. apply_initial_transaction(m, <<r>>) = NewManager("AccessoryHas", t, b)
        BY <2>1 DEF apply_initial_transaction
      <3> QED
        BY <3>1, NewManagerTyped DEF ResourceState
    <2>2. CASE r.type # "Take" /\ r.type = "Borrow" /\ owner(m.state) # "Accessory"
      <3> PICK u \in ResourceConstraint :
             u = IF r.unborrow_constraint = Absent THEN "Anytime" ELSE r.unborrow_constraint
        BY DEF Resource, ResourceConstraint
      <3> PICK n : n = [m EXCEPT !.state = "AccessoryBorrowed", !.borrows_count = 1,
                                 !.unborrow_constraint = u]
        OBVIOUS
      <3>1. n \in Manager
        BY ONLY m \in Manager, u \in ResourceConstraint,
                n = [m EXCEPT !.state = "AccessoryBorrowed", !.borrows_count = 1,
                              !.unborrow_constraint = u]
           DEF Manager, ResourceState
      <3>2. apply_initial_transaction(m, <<r>>) = n
        BY <2>2 DEF apply_initial_transaction
      <3> QED
        BY <3>1, <3>2
    <2>3. CASE r.type # "Take" /\ ~(r.type = "Borrow" /\ owner(m.state) # "Accessory")
      BY <2>3 DEF apply_initial_transaction
    <2> QED
      BY <2>1, <2>2, <2>3
  <1>4. ASSUME NEW perm \in PermanentEntity, NEW id
        PROVE  initial_resource(perm, req, id) \in Manager
    <2>1. req.resources \in Seq(Resource)
      BY DEF ChangeModes
    <2> PICK m \in Manager : m = from_permanent_entity(perm)
      BY <1>1
    <2> PICK last : last = last_named(req.resources, id)
      OBVIOUS
    <2>2. initial_resource(perm, req, id) = apply_initial_transaction(m, last)
      BY DEF initial_resource
    <2>3. CASE last = << >>
      BY <2>2, <2>3 DEF apply_initial_transaction
    <2>4. CASE \E r \in Resource : last = <<r>>
      BY <1>2, <2>2, <2>4
    <2> QED
      BY <2>1, <2>3, <2>4, NamedTyped
  <1> PICK s \in Manager : s = initial_resource(info.screen_perm, req, "screen")
    BY <1>4 DEF InfoModes
  <1> PICK a \in Manager : a = initial_resource(info.main_audio_perm, req, "main_audio")
    BY <1>4 DEF InfoModes
  <1> PICK p \in EntityEnum : p = initial_switch(req, "PhoneCall")
    BY DEF initial_switch, EntityEnum
  <1> PICK t \in EntityEnum : t = initial_switch(req, "TurnByTurn")
    BY DEF initial_switch, EntityEnum
  <1> PICK sp \in SpeechState : sp = initial_speech(req)
    <2> PICK last : last = last_named(req.app_states, "Speech")
      OBVIOUS
    <2>1. NoSpeech \in SpeechState
      BY DEF NoSpeech, SpeechState, EntityEnum, SpeechMode
    <2>2. req.app_states \in Seq(AppState)
      BY DEF ChangeModes
    <2>3. last = << >> \/ \E e \in AppState : last = <<e>>
      BY <2>2, NamedTyped
    <2>4. \A sm \in SpeechMode : speech_of(sm) \in SpeechState
      BY DEF speech_of, SpeechState, EntityEnum
    <2>5. initial_speech(req) = IF last = << >> \/ last[1].speech_mode = Absent THEN NoSpeech
                                ELSE speech_of(last[1].speech_mode)
      BY DEF initial_speech
    <2>6. last # << >> /\ last[1].speech_mode # Absent => last[1].speech_mode \in SpeechMode
      BY <2>3 DEF AppState
    <2> QED
      BY <2>1, <2>4, <2>5, <2>6
  <1>3. from_change_modes(info) =
          [screen |-> s, main_audio |-> a, phone_call |-> p, speech |-> sp, turn_by_turn |-> t]
    BY DEF from_change_modes
  <1> QED
    BY <1>3 DEF Controller

\* The manager starts with the modes of /info, and the car knows them.
LEMMA CarInvInit == Init => CarInv
  <1> SUFFICES ASSUME Init
               PROVE  CarInv
    OBVIOUS
  <1> PICK modes \in Controller : modes = from_change_modes(Info)
    BY CarAssumption, InfoTyped
  <1> PICK state \in AirPlayModeState : state = serialize_to_state(modes)
    BY StateTyped
  <1>1. mgr = [peer |-> NoConn, proxies |-> << >>, modes |-> modes, dirty |-> TRUE,
               inflight |-> << >>, accepted |-> << >>, pending |-> << >>, tx |-> << >>,
               has_car_peer |-> FALSE, setup |-> "None", had_record |-> FALSE,
               steal_attempted |-> FALSE, error |-> FALSE, exited |-> FALSE, commands |-> 0]
    BY DEF Init
  <1>2. car = [modes |-> state, screen |-> FALSE]
    BY DEF Init
  <1>3. mgr \in Mgr
    <2>1. << >> \in Seq(Task) /\ << >> \in Seq(ChangeModes) /\ << >> \in Seq(PeerModes)
          /\ << >> \in Seq(Exchange)
      OBVIOUS
    <2> QED
      BY <1>1, <2>1 DEF Mgr, PeerModes
  <1>4. car \in CarView
    BY <1>2 DEF CarView
  <1>5. TypeOK
    <2>1. ops \in Seq(Op)
      <3>1. ops = << >>
        BY DEF Init
      <3> QED
        BY <3>1
    <2>2. lock \in Conn \cup {NoConn} /\ closing \subseteq Conn
      BY DEF Init
    <2>3. conn \in [Conn -> {"Closed", "Open", "Active", "Rejected", "Dropped"}] /\ sent \in [Conn -> Nat]
      BY DEF Init
    <2>4. repeated \subseteq Conn
      BY DEF Init
    <2> QED
      BY <1>3, <1>4, <2>1, <2>2, <2>3, <2>4 DEF TypeOK, CarView
  <1>6. mgr.tx = << >> /\ mgr.dirty /\ mgr.setup = "None" /\ ~mgr.has_car_peer /\ ~mgr.had_record
        /\ mgr.proxies = << >>
    BY <1>1
  <1>7. Proxied(mgr)
    BY <1>6 DEF Proxied
  <1>8. SetupInv(mgr)
    BY <1>6 DEF SetupInv, OneSetup, NoSetup
  <1>9. Plan(mgr.tx, car, car)
    BY <1>6, PlanEmpty
  <1>10. InSync(mgr, car)
    BY <1>2, <1>6 DEF InSync
  <1>11. FlushInv
    BY <1>6 DEF FlushInv
  <1> QED
    BY <1>4, <1>5, <1>7, <1>8, <1>9, <1>10, <1>11 DEF CarInv, TypeInv, PlanInv

\* A command of the car, or none.
LEMMA CarCommandTyped ==
    ASSUME NEW cmd \in CarCommands \cup {NoCommand}
    PROVE  cmd \in OptCommand
  <1>2. NoChange \in ChangeModes
    <2>1. << >> \in Seq(AppState) /\ << >> \in Seq(Resource)
      OBVIOUS
    <2> QED
      BY <2>1 DEF NoChange, ChangeModes
  <1>3. RequestUI \in Command
    BY <1>2 DEF RequestUI, Command
  <1>4. ASSUME NEW req \in CarRequests
        PROVE  CommandOf(req) \in Command
    <2>1. req \in ChangeModes
      BY CarAssumption
    <2> QED
      BY <2>1 DEF CommandOf, Command
  <1>5. CASE cmd = << >>
    BY <1>5 DEF OptCommand
  <1>6. CASE cmd = <<RequestUI>>
    BY <1>3, <1>6 DEF OptCommand
  <1>7. CASE \E req \in CarRequests : cmd = <<CommandOf(req)>>
    BY <1>4, <1>7 DEF OptCommand
  <1> QED
    BY <1>5, <1>6, <1>7 DEF CarCommands, NoCommand

\* A pass keeps the invariant.
LEMMA CarInvReconcile ==
    ASSUME CarInv, NEW completed \in BOOLEAN, NEW takes_op \in BOOLEAN,
           NEW cmd \in CarCommands \cup {NoCommand}, Reconcile(completed, takes_op, cmd)
    PROVE  CarInv'
  <1>1. ~mgr.exited /\ ~mgr.error /\ (completed => mgr.proxies # << >>) /\ (takes_op => ops # << >>)
    BY DEF Reconcile
  <1>2. Told(mgr, car)
    BY <1>1 DEF CarInv, TypeInv, TypeOK, PlanInv, Told
  <1>3. ops \in Seq(Op)
    BY DEF CarInv, TypeInv, TypeOK
  <1> PICK op \in OptOp : op = IF takes_op THEN <<Head(ops)>> ELSE << >>
    <2>1. takes_op => Head(ops) \in Op
      BY <1>1, <1>3, TailSeq
    <2>2. CASE takes_op
      BY <2>1, <2>2 DEF OptOp
    <2>3. CASE ~takes_op
      BY <2>3 DEF OptOp
    <2> QED
      BY <2>2, <2>3
  <1>4. cmd \in OptCommand
    BY CarCommandTyped
  <1>5. mgr' = flush_modes(steal_initial_screen(flush_modes(
                 reconcile_channels(reconcile_tasks(mgr, completed), op, cmd))))
    BY DEF Reconcile
  <1>6. Told(mgr', car) /\ Flushed(mgr') /\ mgr'.exited = mgr.exited
    BY <1>1, <1>2, <1>4, <1>5, ReconcileTold
  <1>7. ops' \in Seq(Op)
    <2>1. ops' = IF takes_op THEN Tail(ops) ELSE ops
      BY DEF Reconcile
    <2>2. takes_op => Tail(ops) \in Seq(Op)
      BY <1>1, <1>3, TailSeq
    <2>3. CASE takes_op
      BY <2>1, <2>2, <2>3
    <2>4. CASE ~takes_op
      BY <1>3, <2>1, <2>4
    <2> QED
      BY <2>3, <2>4
  <1>8. UNCHANGED <<conn, lock, closing, car, sent, repeated>>
    BY DEF Reconcile
  <1>9. mgr' \in Mgr
    BY <1>6 DEF Told
  <1>10. TypeOK'
    BY <1>7, <1>8, <1>9 DEF CarInv, TypeInv, TypeOK
  <1>11. Proxied(mgr') /\ SetupInv(mgr') /\ \E e \in CarView : Plan(mgr'.tx, car', e) /\ InSync(mgr', e)
    BY <1>6, <1>8 DEF Told
  <1>12. TypeInv' /\ PlanInv' /\ FlushInv'
    BY <1>6, <1>10, <1>11 DEF TypeInv, PlanInv, FlushInv
  <1> QED
    BY <1>12 DEF CarInv

\* Without a queue nothing is told any more.
LEMMA PlanInvSilent ==
    ASSUME car \in CarView, NEW m, m.tx = << >>, m.error \/ m.exited
    PROVE  /\ SetupInv(m)
           /\ \E e \in CarView : Plan(m.tx, car, e) /\ (~m.error /\ ~m.exited => InSync(m, e))
  <1>1. SetupInv(m)
    BY DEF SetupInv, OneSetup, NoSetup
  <1>2. Plan(m.tx, car, car)
    BY PlanEmpty
  <1> QED
    BY <1>1, <1>2

\* An error ends the manager: the invariant holds on.
LEMMA CarInvExit ==
    ASSUME CarInv, Exit
    PROVE  CarInv'
  <1>0. mgr \in Mgr /\ car \in CarView /\ Proxied(mgr)
    BY DEF CarInv, TypeInv, TypeOK, CarView
  <1> PICK n : n = [mgr EXCEPT !.exited = TRUE, !.tx = << >>]
    OBVIOUS
  <1>1. mgr' = n
    BY DEF Exit
  <1>2. << >> \in Seq(Exchange)
    OBVIOUS
  <1>3. n \in Mgr /\ n.tx = << >> /\ n.exited /\ n.peer = mgr.peer /\ n.proxies = mgr.proxies
    BY ONLY <1>0, <1>2, n = [mgr EXCEPT !.exited = TRUE, !.tx = << >>] DEF Mgr
  <1>4. mgr.peer \in Conn \cup {NoConn}
    BY <1>0 DEF Mgr
  <1>5. closing' \subseteq Conn
    BY <1>4 DEF Exit, CarInv, TypeInv, TypeOK
  <1>6. ops' \in Seq(Op)
    <2>1. ops' = << >>
      BY DEF Exit
    <2> QED
      BY <2>1
  <1>7. UNCHANGED <<conn, lock, car, sent, repeated>>
    BY DEF Exit
  <1>8. TypeOK'
    BY <1>1, <1>3, <1>5, <1>6, <1>7 DEF CarInv, TypeInv, TypeOK
  <1>9. Proxied(n)
    BY <1>0, <1>3 DEF Proxied
  <1>10. /\ SetupInv(n)
         /\ \E e \in CarView : Plan(n.tx, car, e) /\ (~n.error /\ ~n.exited => InSync(n, e))
    BY <1>0, <1>3, PlanInvSilent
  <1>11. TypeInv' /\ PlanInv' /\ FlushInv'
    BY <1>1, <1>3, <1>7, <1>8, <1>9, <1>10 DEF TypeInv, PlanInv, FlushInv
  <1> QED
    BY <1>11 DEF CarInv

\* The car fails.
LEMMA CarInvFails ==
    ASSUME CarInv, CarFails
    PROVE  CarInv'
  <1>0. mgr \in Mgr /\ car \in CarView /\ Proxied(mgr)
    BY DEF CarInv, TypeInv, TypeOK, CarView
  <1> PICK n : n = [mgr EXCEPT !.error = TRUE, !.tx = << >>]
    OBVIOUS
  <1>1. mgr' = n
    BY DEF CarFails
  <1>2. << >> \in Seq(Exchange)
    OBVIOUS
  <1>3. n \in Mgr /\ n.tx = << >> /\ n.error /\ n.peer = mgr.peer /\ n.proxies = mgr.proxies
    BY ONLY <1>0, <1>2, n = [mgr EXCEPT !.error = TRUE, !.tx = << >>] DEF Mgr
  <1>4. UNCHANGED <<ops, conn, lock, closing, car, sent, repeated>>
    BY DEF CarFails
  <1>5. TypeOK'
    BY <1>1, <1>3, <1>4 DEF CarInv, TypeInv, TypeOK
  <1>6. Proxied(n)
    BY <1>0, <1>3 DEF Proxied
  <1>7. /\ SetupInv(n)
        /\ \E e \in CarView : Plan(n.tx, car, e) /\ (~n.error /\ ~n.exited => InSync(n, e))
    BY <1>0, <1>3, PlanInvSilent
  <1>8. TypeInv' /\ PlanInv' /\ FlushInv'
    BY <1>1, <1>3, <1>4, <1>5, <1>6, <1>7 DEF TypeInv, PlanInv, FlushInv
  <1> QED
    BY <1>8 DEF CarInv

\* The car answers the first exchange.
LEMMA CarInvAnswers ==
    ASSUME CarInv, CarAnswers
    PROVE  CarInv'
  <1>0. mgr \in Mgr /\ car \in CarView /\ Proxied(mgr) /\ SetupInv(mgr)
    BY DEF CarInv, TypeInv, TypeOK, CarView, PlanInv
  <1>1. mgr.tx \in Seq(Exchange) /\ mgr.tx # << >> /\ mgr.setup \in {"None", "Pending", "Ready"}
    BY <1>0 DEF CarAnswers, Mgr
  <1> PICK x \in Exchange, t \in Seq(Exchange) : x = Head(mgr.tx) /\ t = Tail(mgr.tx)
    BY <1>1, TailSeq
  <1> PICK s \in {"None", "Pending", "Ready"} : s = IF x.kind = "Setup" THEN "Ready" ELSE mgr.setup
    BY <1>1
  <1> PICK n : n = [mgr EXCEPT !.tx = t, !.setup = s]
    OBVIOUS
  <1>2. mgr' = n /\ car' = After(car, x)
    <2>1. mgr' = [mgr EXCEPT !.tx = t, !.setup = IF x.kind = "Setup" THEN "Ready" ELSE @]
      BY DEF CarAnswers
    <2>2. mgr' = n
      BY <2>1
    <2> QED
      BY <2>2 DEF CarAnswers, After
  <1>3. /\ n \in Mgr /\ n.tx = t /\ n.setup = s /\ n.modes = mgr.modes /\ n.dirty = mgr.dirty
        /\ n.has_car_peer = mgr.has_car_peer /\ n.had_record = mgr.had_record /\ Keeps(mgr, n)
    BY ONLY <1>0, n = [mgr EXCEPT !.tx = t, !.setup = s], t \in Seq(Exchange),
            s \in {"None", "Pending", "Ready"}
       DEF Mgr, Keeps
  <1>4. car' \in CarView
    BY <1>0, <1>2, AfterTyped
  <1>5. UNCHANGED <<ops, conn, lock, closing, sent, repeated>>
    BY DEF CarAnswers
  <1>6. TypeOK' /\ Proxied(n)
    BY <1>0, <1>2, <1>3, <1>4, <1>5 DEF CarInv, TypeInv, TypeOK, CarView, Proxied, Keeps
  <1>7. /\ OneSetup(t) /\ (x.kind = "Setup" \/ NoSetup(mgr.tx) => NoSetup(t))
        /\ (x.kind = "Setup" => ~NoSetup(mgr.tx))
    BY <1>0, <1>1, SetupTail DEF SetupInv
  <1>8. SetupInv(n) /\ (s # "None" <=> mgr.setup # "None")
    BY <1>0, <1>3, <1>7 DEF SetupInv
  <1> PICK e \in CarView : Plan(mgr.tx, car, e) /\ (~mgr.error /\ ~mgr.exited => InSync(mgr, e))
    BY DEF CarInv, PlanInv
  <1>9. Plan(t, After(car, x), e)
    BY <1>1, PlanHead
  <1>10. ~n.error /\ ~n.exited => InSync(n, e)
    BY <1>3, <1>8 DEF InSync, State, Keeps
  <1>11. FlushInv'
    <2>1. has_screen(n) = has_screen(mgr)
      BY <1>3 DEF has_screen
    <2> QED
      BY <1>2, <1>3, <1>8, <2>1 DEF CarInv, FlushInv, Flushed, Keeps
  <1>12. TypeInv' /\ PlanInv'
    BY <1>2, <1>3, <1>6, <1>8, <1>9, <1>10 DEF TypeInv, PlanInv
  <1> QED
    BY <1>11, <1>12 DEF CarInv

\* Whatever concerns the phone only.
LEMMA CarInvPhone ==
    ASSUME CarInv, TypeOK', UNCHANGED car, Proxied(mgr'),
           /\ mgr'.tx = mgr.tx /\ mgr'.setup = mgr.setup /\ mgr'.modes = mgr.modes
           /\ mgr'.dirty = mgr.dirty /\ mgr'.has_car_peer = mgr.has_car_peer
           /\ mgr'.had_record = mgr.had_record /\ mgr'.error = mgr.error
           /\ mgr'.exited = mgr.exited
    PROVE  CarInv'
  <1>1. PlanInv'
    BY DEF CarInv, PlanInv, SetupInv, InSync, State
  <1>2. FlushInv'
    BY DEF CarInv, FlushInv, Flushed, has_screen
  <1> QED
    BY <1>1, <1>2 DEF CarInv, TypeInv

\* An op on its way.
LEMMA SendOpTyped ==
    ASSUME TypeOK, NEW kind \in {"IphoneConnected", "IphoneDisconnected", "Modes"}, NEW c \in Conn,
           NEW modes \in AirPlayModeState, SendOp(kind, c, modes)
    PROVE  ops' \in Seq(Op)
  <1> PICK op \in Op : op = [kind |-> kind, conn |-> c, modes |-> modes]
    BY DEF Op
  <1>1. ops \in Seq(Op)
    BY DEF TypeOK
  <1>2. Append(ops, op) \in Seq(Op)
    BY <1>1, AppendSeq
  <1>3. ops' = IF mgr.exited THEN ops ELSE Append(ops, op)
    BY DEF SendOp
  <1>4. CASE mgr.exited
    BY <1>1, <1>3, <1>4
  <1>5. CASE ~mgr.exited
    BY <1>2, <1>3, <1>5
  <1> QED
    BY <1>4, <1>5

\* The connections of the phone keep the invariant.
LEMMA CarInvConnections ==
    ASSUME CarInv, NEW c \in Conn,
           \/ Accept(c) \/ Setup(c) \/ Drop(c)
           \/ \E state \in PhoneStates : PhoneModes(c, state)
    PROVE  CarInv'
  <1>0. TypeOK /\ Proxied(mgr)
    BY DEF CarInv, TypeInv
  <1>1. UNCHANGED <<mgr, car>>
    BY DEF Accept, Setup, Drop, PhoneModes
  <1>2. car.modes \in AirPlayModeState
    BY <1>0 DEF TypeOK
  <1>3. TypeOK'
    <2>1. CASE Accept(c)
      BY <1>0, <2>1 DEF Accept, TypeOK
    <2>2. CASE Setup(c)
      <3>1. ops' \in Seq(Op)
        BY <1>0, <1>2, <2>2, SendOpTyped DEF Setup
      <3>2. conn' \in [Conn -> {"Closed", "Open", "Active", "Rejected", "Dropped"}]
        BY <1>0, <2>2 DEF Setup, TypeOK
      <3>3. lock' \in Conn \cup {NoConn}
        BY <1>0, <2>2 DEF Setup, TypeOK
      <3> QED
        BY <1>0, <2>2, <3>1, <3>2, <3>3 DEF Setup, TypeOK
    <2>3. CASE Drop(c)
      <3>1. ops' \in Seq(Op)
        BY <1>0, <1>2, <2>3, SendOpTyped DEF Drop
      <3>2. conn' \in [Conn -> {"Closed", "Open", "Active", "Rejected", "Dropped"}]
        BY <1>0, <2>3 DEF Drop, TypeOK
      <3>3. lock' \in Conn \cup {NoConn}
        BY <1>0, <2>3 DEF Drop, TypeOK
      <3> QED
        BY <1>0, <2>3, <3>1, <3>2, <3>3 DEF Drop, TypeOK
    <2>4. CASE \E state \in PhoneStates : PhoneModes(c, state)
      <3> PICK state \in PhoneStates : PhoneModes(c, state)
        BY <2>4
      <3>1. state \in AirPlayModeState
        BY CarAssumption
      <3>2. ops' \in Seq(Op)
        BY <1>0, <3>1, SendOpTyped DEF PhoneModes
      <3>3. sent' \in [Conn -> Nat]
        BY <1>0 DEF PhoneModes, TypeOK
      <3> QED
        BY <1>0, <3>2, <3>3 DEF PhoneModes, TypeOK
    <2> QED
      BY <2>1, <2>2, <2>3, <2>4
  <1>4. Proxied(mgr')
    BY <1>0, <1>1
  <1> QED
    BY <1>1, <1>3, <1>4, CarInvPhone

\* A task that is resolved.
LEMMA ResolvedTyped ==
    ASSUME NEW m \in Mgr, NEW i \in DOMAIN m.proxies,
           NEW resp \in {"Accepted", "Rejected", "Unreadable", "NoResponse"},
           NEW n, n = [m EXCEPT !.proxies[i].resp = resp]
    PROVE  /\ n \in Mgr /\ m.proxies # << >> /\ n.peer = m.peer
           /\ n.tx = m.tx /\ n.setup = m.setup /\ n.modes = m.modes
           /\ n.dirty = m.dirty /\ n.has_car_peer = m.has_car_peer
           /\ n.had_record = m.had_record /\ n.error = m.error /\ n.exited = m.exited
  <1>1. m.proxies \in Seq(Task)
    BY DEF Mgr
  <1> PICK k \in Nat : k = Len(m.proxies) /\ DOMAIN m.proxies = 1..k
    BY <1>1, LenProperties
  <1>2. m.proxies \in [1..k -> Task]
    BY <1>1, LenProperties
  <1> PICK ps \in [1..k -> Task] : ps = m.proxies
    BY <1>2
  <1>3. ps[i] \in Task /\ i \in 1..k
    OBVIOUS
  <1> PICK tk \in Task : tk = [ps[i] EXCEPT !.resp = resp]
    <2> PICK old \in Task : old = ps[i]
      BY <1>3
    <2>1. [old EXCEPT !.resp = resp] \in Task
      BY ONLY old \in Task, resp \in {"Accepted", "Rejected", "Unreadable", "NoResponse"} DEF Task
    <2> QED
      BY <2>1
  <1> PICK p \in Seq(Task) : p = [ps EXCEPT ![i] = tk]
    <2>1. [ps EXCEPT ![i] = tk] \in [1..k -> Task]
      OBVIOUS
    <2> QED
      BY <2>1, FunctionSeq
  <1>4. n = [m EXCEPT !.proxies = p]
    OBVIOUS
  <1>5. m.proxies # << >>
    <2>1. k # 0
      BY <1>3
    <2> QED
      BY <1>1, <2>1, EmptySeq
  <1> QED
    BY ONLY <1>4, <1>5, m \in Mgr, p \in Seq(Task) DEF Mgr

\* The tasks that wait for the phone keep the invariant.
LEMMA CarInvResolves ==
    ASSUME CarInv, PhoneResolves
    PROVE  CarInv'
  <1>0. TypeOK /\ Proxied(mgr) /\ mgr \in Mgr
    BY DEF CarInv, TypeInv, TypeOK
  <1> PICK i \in DOMAIN mgr.proxies :
         (\E resp \in PhoneResponses : PhoneAnswers(i, resp)) \/ PhoneSilent(i)
    BY DEF PhoneResolves
  <1> PICK resp \in {"Accepted", "Rejected", "Unreadable", "NoResponse"} :
         mgr' = [mgr EXCEPT !.proxies[i].resp = resp]
    <2>1. ASSUME NEW resp \in PhoneResponses, PhoneAnswers(i, resp)
          PROVE  /\ resp \in {"Accepted", "Rejected", "Unreadable", "NoResponse"}
                 /\ mgr' = [mgr EXCEPT !.proxies[i].resp = resp]
      BY <2>1, CarAssumption DEF PhoneAnswers
    <2>2. PhoneSilent(i) => mgr' = [mgr EXCEPT !.proxies[i].resp = "NoResponse"]
      BY DEF PhoneSilent
    <2> QED
      BY <2>1, <2>2
  <1> PICK n : n = [mgr EXCEPT !.proxies[i].resp = resp]
    OBVIOUS
  <1>1. /\ n \in Mgr /\ mgr.proxies # << >> /\ n.peer = mgr.peer
        /\ n.tx = mgr.tx /\ n.setup = mgr.setup /\ n.modes = mgr.modes
        /\ n.dirty = mgr.dirty /\ n.has_car_peer = mgr.has_car_peer
        /\ n.had_record = mgr.had_record /\ n.error = mgr.error /\ n.exited = mgr.exited
    BY <1>0, ResolvedTyped
  <1>2. mgr.peer \in Conn
    BY <1>0, <1>1 DEF Proxied, Mgr
  <1>3. closing' \subseteq Conn /\ UNCHANGED <<ops, conn, lock, car, sent, repeated>>
    BY <1>0, <1>2 DEF PhoneAnswers, PhoneSilent, TypeOK
  <1>4. TypeOK'
    BY <1>0, <1>1, <1>3 DEF TypeOK
  <1>5. Proxied(n)
    BY <1>1, <1>2, CarAssumption DEF Proxied
  <1>6. mgr' = n
    OBVIOUS
  <1> QED
    BY <1>1, <1>3, <1>4, <1>5, <1>6, CarInvPhone

\* Every step keeps the invariant.
LEMMA CarInvNext == CarInv /\ [Next]_vars => CarInv'
  <1> SUFFICES ASSUME CarInv, [Next]_vars
               PROVE  CarInv'
    OBVIOUS
  <1>1. ASSUME NEW completed \in BOOLEAN, NEW takes_op \in BOOLEAN,
               NEW cmd \in CarCommands \cup {NoCommand}, Reconcile(completed, takes_op, cmd)
        PROVE  CarInv'
    BY <1>1, CarInvReconcile
  <1>2. CASE Exit
    BY <1>2, CarInvExit
  <1>3. CASE CarAnswers
    BY <1>3, CarInvAnswers
  <1>4. CASE CarFails
    BY <1>4, CarInvFails
  <1>5. CASE PhoneResolves
    BY <1>5, CarInvResolves
  <1>6. ASSUME NEW c \in Conn,
               \/ Accept(c) \/ Setup(c) \/ Drop(c)
               \/ \E state \in PhoneStates : PhoneModes(c, state)
        PROVE  CarInv'
    BY <1>6, CarInvConnections
  <1>7. CASE UNCHANGED vars
    BY <1>7 DEF CarInv, TypeInv, TypeOK, PlanInv, FlushInv, vars
  <1> QED
    BY <1>1, <1>2, <1>3, <1>4, <1>5, <1>6, <1>7 DEF Next

\* The invariant holds.
LEMMA CarInvariant == Spec => []CarInv
  <1> QED
    BY CarInvInit, CarInvNext, PTL DEF Spec

\* The manager, its tasks and its queues keep their types, and every handler leaves the
\* modes a controller that can be serialized (car_manager.rs, modes_arbiter.rs).
THEOREM CarTyped == Spec => []TypeOK
  <1>1. CarInv => TypeOK
    BY DEF CarInv, TypeInv
  <1> QED
    BY <1>1, CarInvariant, PTL

\* Once everything queued is done the car knows the current modes, and a screen stream is
\* set up exactly while the proxy has the screen (flush_modes).
THEOREM IdleCarKnowsModes == Spec => []IdleCarInSync
  <1>1. CarInv => IdleCarInSync
    <2> SUFFICES ASSUME CarInv, Idle
                 PROVE  car = [modes |-> State(mgr), screen |-> has_screen(mgr)]
      BY DEF IdleCarInSync
    <2>1. ~mgr.error /\ ~mgr.exited /\ mgr.had_record /\ mgr.tx = << >> /\ mgr.setup = "None"
      BY DEF Idle
    <2>2. mgr \in Mgr /\ car \in CarView
      BY DEF CarInv, TypeInv, TypeOK, CarView
    <2> PICK e \in CarView : Plan(mgr.tx, car, e) /\ InSync(mgr, e)
      BY <2>1 DEF CarInv, PlanInv
    <2>3. e = car
      BY <2>1, PlanEmpty
    <2>4. Flushed(mgr)
      BY <2>1 DEF CarInv, FlushInv
    <2>5. car.modes = State(mgr) /\ (car.screen <=> mgr.has_car_peer) /\ has_screen(mgr) = mgr.has_car_peer
      BY <2>1, <2>3, <2>4 DEF InSync, Flushed
    <2>6. car.screen = has_screen(mgr)
      <3>1. car.screen \in BOOLEAN /\ mgr.has_car_peer \in BOOLEAN
        BY <2>2 DEF CarView, Mgr
      <3> QED
        BY <2>5, <3>1
    <2> QED
      BY <2>2, <2>5, <2>6 DEF CarView
  <1> QED
    BY <1>1, CarInvariant, PTL

\* The car hears who has the screen before the stream comes or goes (flush_modes).
THEOREM StreamFollowsModes == Spec => ScreenAfterModes
  <1>1. ASSUME CarInv, [Next]_vars
        PROVE  [/\ ~car.screen /\ car'.screen => entity(car.modes.screen) = "Controller"
                /\ car.screen /\ ~car'.screen => entity(car.modes.screen) # "Controller"]_vars
    <2>1. CASE car' = car
      BY <2>1
    <2>2. CASE CarAnswers
      <3>1. mgr.tx \in Seq(Exchange) /\ mgr.tx # << >>
        BY <1>1, <2>2 DEF CarInv, TypeInv, TypeOK, Mgr, CarAnswers
      <3> PICK x : x = Head(mgr.tx)
        OBVIOUS
      <3>2. InOrder(car, x)
        BY <1>1, <3>1, PlanHead DEF CarInv, PlanInv
      <3>3. car' = After(car, x)
        BY <2>2 DEF CarAnswers, After
      <3>4. car'.screen = CASE x.kind = "Setup" -> TRUE
                            [] x.kind = "Teardown" -> FALSE
                            [] OTHER -> car.screen
        BY <3>3 DEF After
      <3>5. CASE x.kind = "Setup"
        BY <3>2, <3>4, <3>5 DEF InOrder
      <3>6. CASE x.kind = "Teardown"
        BY <3>2, <3>4, <3>6 DEF InOrder
      <3>7. CASE x.kind # "Setup" /\ x.kind # "Teardown"
        BY <3>4, <3>7
      <3> QED
        BY <3>5, <3>6, <3>7
    <2>3. CarAnswers \/ car' = car
      BY <1>1 DEF Next, vars, Reconcile, Exit, CarFails, PhoneResolves, PhoneAnswers, PhoneSilent,
                  Accept, Setup, Drop, PhoneModes
    <2> QED
      BY <2>1, <2>2, <2>3
  <1> QED
    BY <1>1, CarInvariant, PTL DEF Spec, ScreenAfterModes

-----------------------------------------------------------------------------
(* The requests in flight and the tasks that wait for the phone. *)

\* f leads from each request in flight to its task, in their order.
Pairs(f, q, p) ==
    /\ f \in [DOMAIN q -> DOMAIN p]
    /\ \A i, j \in DOMAIN f : i < j => f[i] < f[j]
    /\ \A i \in DOMAIN f : q[i] = p[f[i]].cmd.req
    /\ {f[i] : i \in DOMAIN f} = {n \in DOMAIN p : ~p[n].cmd.ui}

\* The requests in flight q are those of the tasks p.
Matched(q, p) == \E f : Pairs(f, q, p)

\* The same, element by element.
PairsUpTo(f, q, a, p, b) ==
    /\ f \in [1..a -> 1..b]
    /\ \A i, j \in 1..a : i < j => f[i] < f[j]
    /\ \A i \in 1..a : q[i] = p[f[i]].cmd.req /\ ~p[f[i]].cmd.ui
    /\ \A n \in 1..b : ~p[n].cmd.ui => \E i \in 1..a : f[i] = n

\* Both say the same.
LEMMA PairsElements ==
    ASSUME NEW q \in Seq(ChangeModes), NEW p \in Seq(Task), NEW a \in Nat, NEW b \in Nat,
           a = Len(q), b = Len(p), NEW f
    PROVE  Pairs(f, q, p) <=> PairsUpTo(f, q, a, p, b)
  <1>1. DOMAIN q = 1..a /\ DOMAIN p = 1..b
    BY LenProperties
  <1>2. ASSUME f \in [1..a -> 1..b]
        PROVE  {f[i] : i \in 1..a} = {n \in 1..b : ~p[n].cmd.ui} <=>
                 /\ \A i \in 1..a : ~p[f[i]].cmd.ui
                 /\ \A n \in 1..b : ~p[n].cmd.ui => \E i \in 1..a : f[i] = n
    <2> PICK X, Y : X = {f[i] : i \in 1..a} /\ Y = {n \in 1..b : ~p[n].cmd.ui}
      OBVIOUS
    <2>1. \A i \in 1..a : f[i] \in 1..b /\ f[i] \in X
      BY <1>2
    <2>2. \A x \in X : \E i \in 1..a : f[i] = x
      OBVIOUS
    <2>3. \A n : n \in Y <=> n \in 1..b /\ ~p[n].cmd.ui
      OBVIOUS
    <2>4. ASSUME X = Y
          PROVE  /\ \A i \in 1..a : ~p[f[i]].cmd.ui
                 /\ \A n \in 1..b : ~p[n].cmd.ui => \E i \in 1..a : f[i] = n
      <3>1. \A i \in 1..a : f[i] \in Y
        BY <2>1, <2>4
      <3>2. \A n \in Y : \E i \in 1..a : f[i] = n
        BY <2>2, <2>4
      <3> QED
        BY <2>3, <3>1, <3>2
    <2>5. ASSUME \A i \in 1..a : ~p[f[i]].cmd.ui,
                 \A n \in 1..b : ~p[n].cmd.ui => \E i \in 1..a : f[i] = n
          PROVE  X = Y
      <3>1. \A x \in X : x \in Y
        BY <2>1, <2>2, <2>3, <2>5
      <3>2. \A y \in Y : y \in X
        BY <2>1, <2>3, <2>5
      <3> QED
        BY <3>1, <3>2
    <2> QED
      BY <2>4, <2>5
  <1>3. f \in [1..a -> 1..b] => DOMAIN f = 1..a
    OBVIOUS
  <1> QED
    BY <1>1, <1>2, <1>3 DEF Pairs, PairsUpTo

\* Nothing in flight and no task.
LEMMA MatchedEmpty == Matched(<< >>, << >>)
  <1> PICK q : q = << >>
    OBVIOUS
  <1> DEFINE f == [i \in 1..0 |-> 1]
  <1>1. q \in Seq(ChangeModes) /\ q \in Seq(Task) /\ Len(q) = 0 /\ 0 \in Nat
    OBVIOUS
  <1>2. \A i \in 1..0 : FALSE
    OBVIOUS
  <1>3. f \in [1..0 -> 1..0]
    BY <1>2
  <1> HIDE DEF f
  <1>4. PairsUpTo(f, q, 0, q, 0)
    BY <1>2, <1>3 DEF PairsUpTo
  <1>5. Pairs(f, q, q)
    <2> PICK c \in Seq(ChangeModes), t \in Seq(Task), n \in Nat :
           c = q /\ t = q /\ n = 0 /\ Len(c) = n /\ Len(t) = n
      BY <1>1
    <2>1. PairsUpTo(f, c, n, t, n)
      BY <1>4
    <2>2. Pairs(f, c, t)
      BY ONLY <2>1, Len(c) = n, Len(t) = n, PairsElements, c \in Seq(ChangeModes), t \in Seq(Task), n \in Nat
    <2> QED
      BY <2>2
  <1> QED
    BY <1>5 DEF Matched

\* A command that is proxied.
LEMMA MatchedAppend ==
    ASSUME NEW q \in Seq(ChangeModes), NEW p \in Seq(Task), NEW t \in Task, Matched(q, p)
    PROVE  Matched(IF t.cmd.ui THEN q ELSE Append(q, t.cmd.req), Append(p, t))
  <1> PICK f : Pairs(f, q, p)
    BY DEF Matched
  <1> PICK a \in Nat, b \in Nat : a = Len(q) /\ b = Len(p)
    BY LenProperties
  <1>1. PairsUpTo(f, q, a, p, b)
    BY PairsElements
  <1>2. t.cmd.ui \in BOOLEAN /\ t.cmd.req \in ChangeModes
    BY DEF Task, Command
  <1> PICK u : u = Append(p, t)
    OBVIOUS
  <1>3. u \in Seq(Task) /\ Len(u) = b + 1 /\ u[b + 1] = t /\ \A n \in 1..b : u[n] = p[n]
    BY AppendSeq DEF Appended
  <1>4. b + 1 \in Nat /\ a + 1 \in Nat /\ \A n \in 1..(b + 1) : n \in 1..b \/ n = b + 1
    OBVIOUS
  <1>5. \A i \in 1..a : f[i] \in 1..b
    BY <1>1 DEF PairsUpTo
  <1>6. CASE t.cmd.ui
    <2>1. f \in [1..a -> 1..(b + 1)]
      BY <1>1 DEF PairsUpTo
    <2>2. \A i \in 1..a : q[i] = u[f[i]].cmd.req /\ ~u[f[i]].cmd.ui
      BY <1>1, <1>3, <1>5 DEF PairsUpTo
    <2>3. \A n \in 1..(b + 1) : ~u[n].cmd.ui => \E i \in 1..a : f[i] = n
      BY <1>1, <1>3, <1>4, <1>6 DEF PairsUpTo
    <2>4. \A i, j \in 1..a : i < j => f[i] < f[j]
      BY <1>1 DEF PairsUpTo
    <2>5. PairsUpTo(f, q, a, u, b + 1)
      BY <2>1, <2>2, <2>3, <2>4 DEF PairsUpTo
    <2>6. Pairs(f, q, u)
      BY <1>3, <1>4, <2>5, PairsElements
    <2> QED
      BY <1>6, <2>6 DEF Matched
  <1>7. CASE ~t.cmd.ui
    <2> PICK r : r = Append(q, t.cmd.req)
      OBVIOUS
    <2>1. r \in Seq(ChangeModes) /\ Len(r) = a + 1 /\ r[a + 1] = t.cmd.req /\ \A i \in 1..a : r[i] = q[i]
      BY <1>2, AppendSeq DEF Appended
    <2> PICK g : g = [i \in 1..(a + 1) |-> IF i = a + 1 THEN b + 1 ELSE f[i]]
      OBVIOUS
    <2>2. \A i \in 1..(a + 1) : i \in 1..a \/ i = a + 1
      OBVIOUS
    <2>3. \A i \in 1..a : i \in 1..(a + 1) /\ i # a + 1
      OBVIOUS
    <2>4. g[a + 1] = b + 1 /\ \A i \in 1..a : g[i] = f[i]
      BY <2>3
    <2>5. g \in [1..(a + 1) -> 1..(b + 1)]
      <3>1. \A i \in 1..a : f[i] \in 1..(b + 1)
        BY <1>5
      <3>2. b + 1 \in 1..(b + 1)
        OBVIOUS
      <3>3. \A i \in 1..(a + 1) : (IF i = a + 1 THEN b + 1 ELSE f[i]) \in 1..(b + 1)
        BY <2>2, <3>1, <3>2
      <3> QED
        BY <3>3
    <2>6. ASSUME NEW i \in 1..(a + 1), NEW j \in 1..(a + 1), i < j
          PROVE  g[i] < g[j]
      <3>1. i \in 1..a
        BY <2>6
      <3>2. CASE j = a + 1
        <4>1. g[i] = f[i] /\ g[j] = b + 1 /\ f[i] \in 1..b
          BY <1>5, <2>4, <3>1, <3>2
        <4> QED
          BY <4>1
      <3>3. CASE j # a + 1
        <4>1. j \in 1..a
          BY <2>2, <3>3
        <4>2. g[i] = f[i] /\ g[j] = f[j]
          BY <2>4, <3>1, <4>1
        <4> QED
          BY <1>1, <2>6, <3>1, <4>1, <4>2 DEF PairsUpTo
      <3> QED
        BY <3>2, <3>3
    <2>7. ASSUME NEW i \in 1..(a + 1)
          PROVE  r[i] = u[g[i]].cmd.req /\ ~u[g[i]].cmd.ui
      <3>1. CASE i \in 1..a
        <4> PICK n \in 1..b : n = f[i]
          BY <1>5, <3>1
        <4>1. g[i] = n /\ r[i] = q[i] /\ u[n] = p[n]
          BY <1>3, <2>1, <2>4, <3>1
        <4>2. q[i] = p[n].cmd.req /\ ~p[n].cmd.ui
          BY <1>1, <3>1 DEF PairsUpTo
        <4> QED
          BY <4>1, <4>2
      <3>2. CASE i = a + 1
        BY <1>3, <1>7, <2>1, <2>4, <3>2
      <3> QED
        BY <2>2, <3>1, <3>2
    <2>8. ASSUME NEW n \in 1..(b + 1), ~u[n].cmd.ui
          PROVE  \E i \in 1..(a + 1) : g[i] = n
      <3>1. CASE n = b + 1
        <4>1. a + 1 \in 1..(a + 1)
          OBVIOUS
        <4> QED
          BY <2>4, <3>1, <4>1
      <3>2. CASE n \in 1..b
        <4> PICK i \in 1..a : f[i] = n
          BY <1>1, <1>3, <2>8, <3>2 DEF PairsUpTo
        <4> QED
          BY <2>3, <2>4
      <3> QED
        BY <1>4, <3>1, <3>2
    <2>9. PairsUpTo(g, r, a + 1, u, b + 1)
      BY <2>5, <2>6, <2>7, <2>8 DEF PairsUpTo
    <2>10. Pairs(g, r, u)
      BY <1>3, <1>4, <2>1, <2>9, PairsElements
    <2> QED
      BY <1>7, <2>10 DEF Matched
  <1> QED
    BY <1>2, <1>6, <1>7

\* A task whose answer is there has the same command.
LEMMA MatchedResolved ==
    ASSUME NEW q \in Seq(ChangeModes), NEW p \in Seq(Task), NEW u \in Seq(Task), Matched(q, p),
           Len(u) = Len(p), \A n \in 1..Len(p) : u[n].cmd = p[n].cmd
    PROVE  Matched(q, u)
  <1> PICK f : Pairs(f, q, p)
    BY DEF Matched
  <1> PICK a \in Nat, b \in Nat : a = Len(q) /\ b = Len(p)
    BY LenProperties
  <1>1. PairsUpTo(f, q, a, p, b)
    BY PairsElements
  <1>2. \A n \in 1..b : u[n].cmd = p[n].cmd
    OBVIOUS
  <1>3. \A i \in 1..a : f[i] \in 1..b
    BY <1>1 DEF PairsUpTo
  <1>4. PairsUpTo(f, q, a, u, b)
    BY <1>1, <1>2, <1>3 DEF PairsUpTo
  <1>5. Pairs(f, q, u)
    BY <1>4, PairsElements
  <1> QED
    BY <1>5 DEF Matched

\* The first task is done: its request, if it has one, is the first in flight.
LEMMA MatchedTail ==
    ASSUME NEW q \in Seq(ChangeModes), NEW p \in Seq(Task), p # << >>, Matched(q, p)
    PROVE  IF Head(p).cmd.ui THEN Matched(q, Tail(p))
           ELSE q # << >> /\ Matched(Tail(q), Tail(p))
  <1> PICK f : Pairs(f, q, p)
    BY DEF Matched
  <1> PICK a \in Nat, b \in Nat : a = Len(q) /\ b = Len(p)
    BY LenProperties
  <1>1. PairsUpTo(f, q, a, p, b)
    BY PairsElements
  <1> PICK u : u = Tail(p)
    OBVIOUS
  <1> PICK c \in Nat : b = c + 1
    <2>1. b \in Nat \ {0}
      BY EmptySeq
    <2>2. b - 1 \in Nat /\ b = (b - 1) + 1
      BY <2>1
    <2> QED
      BY <2>2
  <1>2. u \in Seq(Task) /\ Len(u) = c /\ Head(p) = p[1] /\ \A n \in 1..c : u[n] = p[n + 1]
    <2>1. u \in Seq(Task) /\ Shifted(u, p) /\ Head(p) = p[1]
      BY TailSeq
    <2> QED
      BY <2>1 DEF Shifted
  <1>3. 1 \in 1..b /\ (\A n \in 1..c : n + 1 \in 1..b) /\ \A n \in 1..b : n # 1 => n - 1 \in 1..c /\ (n - 1) + 1 = n
    OBVIOUS
  <1>4. \A i \in 1..a : f[i] \in 1..b /\ q[i] = p[f[i]].cmd.req /\ ~p[f[i]].cmd.ui
    BY <1>1 DEF PairsUpTo
  <1>5. \A i, j \in 1..a : i < j => f[i] < f[j]
    BY <1>1 DEF PairsUpTo
  <1>6. \A n \in 1..b : ~p[n].cmd.ui => \E i \in 1..a : f[i] = n
    BY <1>1 DEF PairsUpTo
  <1>7. CASE p[1].cmd.ui
    <2>1. ASSUME NEW i \in 1..a
          PROVE  /\ f[i] - 1 \in 1..c /\ q[i] = u[f[i] - 1].cmd.req /\ ~u[f[i] - 1].cmd.ui
      <3> PICK n \in 1..b : n = f[i]
        BY <1>4
      <3>1. n # 1 /\ q[i] = p[n].cmd.req /\ ~p[n].cmd.ui
        BY <1>4, <1>7
      <3>2. n - 1 \in 1..c /\ (n - 1) + 1 = n
        BY <1>3, <3>1
      <3>3. u[n - 1] = p[n]
        BY <1>2, <3>2
      <3> QED
        BY <3>1, <3>2, <3>3
    <2> PICK g : g = [i \in 1..a |-> f[i] - 1]
      OBVIOUS
    <2>2. \A i \in 1..a : g[i] = f[i] - 1
      OBVIOUS
    <2>3. g \in [1..a -> 1..c]
      BY <2>1
    <2>4. \A i \in 1..a : q[i] = u[g[i]].cmd.req /\ ~u[g[i]].cmd.ui
      BY <2>1, <2>2
    <2>5. ASSUME NEW i \in 1..a, NEW j \in 1..a, i < j
          PROVE  g[i] < g[j]
      <3>1. f[i] \in 1..b /\ f[j] \in 1..b /\ f[i] < f[j]
        BY <1>4, <1>5, <2>5
      <3> QED
        BY <2>2, <3>1
    <2>6. ASSUME NEW n \in 1..c, ~u[n].cmd.ui
          PROVE  \E i \in 1..a : g[i] = n
      <3> PICK i \in 1..a : f[i] = n + 1
        BY <1>2, <1>3, <1>6, <2>6
      <3>1. g[i] = n
        BY <2>2
      <3> QED
        BY <3>1
    <2>7. PairsUpTo(g, q, a, u, c)
      BY <2>3, <2>4, <2>5, <2>6 DEF PairsUpTo
    <2>8. Pairs(g, q, u)
      BY <1>2, <2>7, PairsElements
    <2> QED
      BY <1>2, <1>7, <2>8 DEF Matched
  <1>8. CASE ~p[1].cmd.ui
    <2> PICK k \in 1..a : f[k] = 1
      BY <1>3, <1>6, <1>8
    <2>1. 1 \in 1..a /\ a \in Nat \ {0}
      OBVIOUS
    <2>2. f[1] = 1
      <3>1. CASE k = 1
        BY <3>1
      <3>2. CASE k # 1
        <4>1. f[1] \in 1..b /\ f[1] < f[k]
          BY <1>4, <1>5, <2>1, <3>2
        <4> QED
          BY <4>1
      <3> QED
        BY <3>1, <3>2
    <2>3. q # << >>
      BY <2>1, EmptySeq
    <2> PICK d \in Nat : a = d + 1
      <3>1. a - 1 \in Nat /\ a = (a - 1) + 1
        BY <2>1
      <3> QED
        BY <3>1
    <2> PICK r : r = Tail(q)
      OBVIOUS
    <2>4. r \in Seq(ChangeModes) /\ Len(r) = d /\ \A i \in 1..d : r[i] = q[i + 1]
      <3>1. r \in Seq(ChangeModes) /\ Shifted(r, q)
        BY <2>3, TailSeq
      <3> QED
        BY <3>1 DEF Shifted
    <2>5. (\A i \in 1..d : i + 1 \in 1..a /\ 1 < i + 1)
          /\ \A i \in 1..a : i # 1 => i - 1 \in 1..d /\ (i - 1) + 1 = i
      OBVIOUS
    <2>6. ASSUME NEW i \in 1..d
          PROVE  /\ f[i + 1] - 1 \in 1..c /\ r[i] = u[f[i + 1] - 1].cmd.req
                 /\ ~u[f[i + 1] - 1].cmd.ui
      <3> PICK j \in 1..a : j = i + 1 /\ 1 < j
        BY <2>5
      <3> PICK n \in 1..b : n = f[j]
        BY <1>4
      <3>1. q[j] = p[n].cmd.req /\ ~p[n].cmd.ui /\ r[i] = q[j]
        BY <1>4, <2>4
      <3>2. 1 < n
        BY <1>5, <2>1, <2>2
      <3>3. n - 1 \in 1..c /\ (n - 1) + 1 = n
        BY <1>3, <3>2
      <3>4. u[n - 1] = p[n]
        BY <1>2, <3>3
      <3> QED
        BY <3>1, <3>3, <3>4
    <2> PICK g : g = [i \in 1..d |-> f[i + 1] - 1]
      OBVIOUS
    <2>7. \A i \in 1..d : g[i] = f[i + 1] - 1
      OBVIOUS
    <2>8. g \in [1..d -> 1..c]
      BY <2>6
    <2>9. \A i \in 1..d : r[i] = u[g[i]].cmd.req /\ ~u[g[i]].cmd.ui
      BY <2>6, <2>7
    <2>10. ASSUME NEW i \in 1..d, NEW j \in 1..d, i < j
           PROVE  g[i] < g[j]
      <3>1. i + 1 \in 1..a /\ j + 1 \in 1..a /\ i + 1 < j + 1
        BY <2>5, <2>10
      <3>2. f[i + 1] \in 1..b /\ f[j + 1] \in 1..b /\ f[i + 1] < f[j + 1]
        BY <1>4, <1>5, <3>1
      <3>3. g[i] = f[i + 1] - 1 /\ g[j] = f[j + 1] - 1
        BY <2>7
      <3> QED
        BY <3>2, <3>3
    <2>11. ASSUME NEW n \in 1..c, ~u[n].cmd.ui
           PROVE  \E i \in 1..d : g[i] = n
      <3> PICK j \in 1..a : f[j] = n + 1
        BY <1>2, <1>3, <1>6, <2>11
      <3>1. j # 1
        BY <2>2
      <3> PICK i \in 1..d : i + 1 = j
        BY <2>5, <3>1
      <3>2. g[i] = f[j] - 1
        BY <2>7
      <3>3. g[i] = n
        BY <3>2
      <3> QED
        BY <3>3
    <2>12. PairsUpTo(g, r, d, u, c)
      BY <2>8, <2>9, <2>10, <2>11 DEF PairsUpTo
    <2>13. Pairs(g, r, u)
      BY <1>2, <2>4, <2>12, PairsElements
    <2> QED
      BY <1>2, <1>8, <2>3, <2>13 DEF Matched
  <1> QED
    BY <1>7, <1>8

\* Without a phone nothing is in flight; the requests in flight are those of the tasks while
\* the phone is not being closed, nor repeated its SETUP; and a task without an answer closes
\* the phone.
Paired(m, closed) ==
    /\ m.peer = NoConn => m.inflight = << >> /\ m.proxies = << >>
    /\ m.peer # NoConn /\ m.peer \notin closed => Matched(m.inflight, m.proxies)
    /\ \A n \in DOMAIN m.proxies :
         /\ m.proxies[n].resp # "Unreadable"
         /\ m.proxies[n].resp = "NoResponse" => m.peer \in closed

\* The phone, its tasks and its requests are left alone.
SameTasks(m, n) == n.peer = m.peer /\ n.proxies = m.proxies /\ n.inflight = m.inflight

\* Whatever leaves them alone leaves them paired.
LEMMA PairedKept ==
    ASSUME NEW m, NEW closed, Paired(m, closed), NEW n, SameTasks(m, n)
    PROVE  Paired(n, closed)
  BY DEF Paired, SameTasks

\* An answer pops the first request, if there is one.
LEMMA ChangeModesEndPops ==
    ASSUME NEW m \in Mgr, NEW ok \in BOOLEAN, NEW n, n = on_peer_change_modes_end(m, ok)
    PROVE  /\ n.peer = m.peer /\ n.proxies = m.proxies
           /\ n.inflight = IF m.inflight = << >> THEN << >> ELSE Tail(m.inflight)
  <1>1. m.inflight \in Seq(ChangeModes) /\ m.accepted \in Seq(ChangeModes)
    BY DEF Mgr
  <1>2. CASE m.inflight = << >>
    BY <1>2 DEF on_peer_change_modes_end
  <1>3. CASE m.inflight # << >>
    <2>1. Head(m.inflight) \in ChangeModes /\ Tail(m.inflight) \in Seq(ChangeModes)
      BY <1>1, <1>3, TailSeq
    <2>2. Append(m.accepted, Head(m.inflight)) \in Seq(ChangeModes)
      BY <1>1, <2>1, AppendSeq
    <2> PICK i \in Seq(ChangeModes), a \in Seq(ChangeModes) :
           i = Tail(m.inflight) /\ a = IF ok THEN Append(m.accepted, Head(m.inflight)) ELSE m.accepted
      BY <1>1, <2>1, <2>2
    <2> PICK m1 : m1 = [m EXCEPT !.inflight = i, !.accepted = a]
      OBVIOUS
    <2>3. m1 \in Mgr /\ m1.peer = m.peer /\ m1.proxies = m.proxies /\ m1.inflight = i
      BY ONLY m \in Mgr, i \in Seq(ChangeModes), a \in Seq(ChangeModes),
              m1 = [m EXCEPT !.inflight = i, !.accepted = a] DEF Mgr
    <2>4. n = drain_pending_if_idle(m1)
      BY <1>3 DEF on_peer_change_modes_end
    <2>5. Merging(m1, n)
      BY <2>3, <2>4, DrainMerges
    <2> QED
      BY <1>3, <2>3, <2>5 DEF Merging
  <1> QED
    BY <1>2, <1>3

\* A finished task takes its request with it.
LEMMA PairedCompleted ==
    ASSUME NEW m \in Mgr, NEW closed, Paired(m, closed), m.proxies # << >>,
           NEW n, n = take_completed(m)
    PROVE  Paired(n, closed) /\ n.peer = m.peer
  <1>1. m.proxies \in Seq(Task) /\ m.inflight \in Seq(ChangeModes)
    BY DEF Mgr
  <1> PICK p \in Seq(Task), task \in Task, q \in Seq(ChangeModes) :
         p = Tail(m.proxies) /\ task = Head(m.proxies) /\ q = m.inflight
    BY <1>1, TailSeq
  <1> PICK m1 : m1 = [m EXCEPT !.proxies = p]
    OBVIOUS
  <1>2. m1 \in Mgr /\ m1.peer = m.peer /\ m1.proxies = p /\ m1.inflight = q
    BY ONLY m \in Mgr, q = m.inflight, p \in Seq(Task), m1 = [m EXCEPT !.proxies = p] DEF Mgr
  <1>3. m.peer # NoConn
    BY DEF Paired
  <1>4. task.resp # "Unreadable" /\ (task.resp = "NoResponse" => m.peer \in closed)
    <2>1. 1 \in 1..Len(m.proxies) /\ task = m.proxies[1]
      BY <1>1, TailSeq
    <2>2. 1 \in DOMAIN m.proxies
      BY <1>1, <2>1, LenProperties
    <2> QED
      BY <2>1, <2>2 DEF Paired
  <1>5. ASSUME NEW k \in DOMAIN p
        PROVE  p[k].resp # "Unreadable" /\ (p[k].resp = "NoResponse" => m.peer \in closed)
    <2>1. k \in 1..Len(p)
      BY LenProperties
    <2>2. k + 1 \in 1..Len(m.proxies) /\ p[k] = m.proxies[k + 1]
      BY <1>1, <2>1, TailSeq DEF Shifted
    <2>3. k + 1 \in DOMAIN m.proxies
      BY <1>1, <2>2, LenProperties
    <2> QED
      BY <2>2, <2>3 DEF Paired
  <1>6. m.peer \notin closed => IF task.cmd.ui THEN Matched(q, p) ELSE q # << >> /\ Matched(Tail(q), p)
    <2>1. m.peer \notin closed => Matched(q, m.proxies)
      BY <1>3 DEF Paired
    <2> QED
      BY <1>1, <2>1, MatchedTail
  <1>7. CASE task.cmd.ui \/ task.resp = "NoResponse"
    <2>1. n = m1
      BY <1>7 DEF take_completed
    <2>2. m.peer \notin closed => Matched(q, p)
      BY <1>4, <1>6, <1>7
    <2> QED
      BY <1>2, <1>3, <1>5, <2>1, <2>2 DEF Paired
  <1>8. CASE ~(task.cmd.ui \/ task.resp = "NoResponse")
    <2> PICK ok \in BOOLEAN : ok = (task.resp = "Accepted")
      OBVIOUS
    <2>1. n = on_peer_change_modes_end(m1, ok)
      BY <1>4, <1>8 DEF take_completed
    <2>2. /\ n.peer = m.peer /\ n.proxies = p
          /\ n.inflight = IF q = << >> THEN << >> ELSE Tail(q)
      <3>1. m1 \in Mgr
        BY <1>2
      <3>2. /\ n.peer = m1.peer /\ n.proxies = m1.proxies
            /\ n.inflight = IF m1.inflight = << >> THEN << >> ELSE Tail(m1.inflight)
        BY ONLY <2>1, <3>1, ok \in BOOLEAN, ChangeModesEndPops
      <3> QED
        BY ONLY <1>2, <3>2
    <2>3. m.peer \notin closed => Matched(n.inflight, p)
      BY <1>6, <1>8, <2>2
    <2> QED
      BY <1>3, <1>5, <2>2, <2>3 DEF Paired
  <1> QED
    BY <1>7, <1>8

\* The phone the manager has after an op, or none.
PeerAfter(peer, op) ==
    IF op = << >> \/ op[1].kind = "Modes" THEN peer
    ELSE IF op[1].kind = "IphoneConnected" THEN op[1].conn ELSE NoConn

\* An op leaves them paired, if a phone connects only when there is none, or again.
LEMMA PairedTxOp ==
    ASSUME NEW m \in Mgr, NEW closed, Paired(m, closed), NEW op \in Op,
           op.kind = "IphoneConnected" => m.peer = NoConn \/ op.conn \in closed,
           NEW n, n = dispatch_tx_op(m, op)
    PROVE  Paired(n, closed) /\ n.peer = PeerAfter(m.peer, <<op>>)
  <1>0. /\ op.kind \in {"IphoneConnected", "IphoneDisconnected", "Modes"} /\ op.conn \in Conn
        /\ op.modes \in AirPlayModeState /\ op.conn # NoConn
    BY CarAssumption DEF Op
  <1>1. PeerAfter(m.peer, <<op>>) = IF op.kind = "Modes" THEN m.peer
                               ELSE IF op.kind = "IphoneConnected" THEN op.conn ELSE NoConn
    BY DEF PeerAfter
  <1>2. CASE op.kind = "IphoneConnected"
    <2> PICK c \in Conn : c = op.conn
      BY <1>0
    <2>1. n = [m EXCEPT !.peer = c, !.proxies = << >>]
      BY <1>2 DEF dispatch_tx_op
    <2>2. c \in closed \/ m.inflight = << >>
      BY <1>2 DEF Paired
    <2>3. n.peer = c /\ n.proxies = << >> /\ n.inflight = m.inflight
      BY ONLY m \in Mgr, <2>1 DEF Mgr
    <2>4. \A k \in DOMAIN n.proxies : FALSE
      BY <2>3
    <2> QED
      BY <1>0, <1>1, <1>2, <2>2, <2>3, <2>4, MatchedEmpty DEF Paired
  <1>3. CASE op.kind = "IphoneDisconnected"
    <2>1. n = on_peer_disconnect(m)
      BY <1>3 DEF dispatch_tx_op
    <2>2. CASE m.peer = NoConn
      <3>1. n = m
        BY <2>1, <2>2 DEF on_peer_disconnect
      <3> QED
        BY <1>1, <1>3, <2>2, <3>1
    <2>3. CASE m.peer # NoConn
      <3>1. m.modes \in Controller /\ m.error \in BOOLEAN
        BY DEF Mgr
      <3> PICK er \in BOOLEAN : er = (m.error \/ m.proxies # << >>)
        OBVIOUS
      <3> PICK m1 : m1 = [m EXCEPT !.peer = NoConn, !.proxies = << >>, !.error = er]
        OBVIOUS
      <3> PICK m2 : m2 = [m1 EXCEPT !.inflight = << >>, !.accepted = << >>, !.pending = << >>]
        OBVIOUS
      <3>2. n = reset_modes(m2)
        BY <2>1, <2>3 DEF on_peer_disconnect, modes_on_peer_disconnect
      <3>3. m2 = [m1 EXCEPT !.inflight = << >>, !.accepted = << >>, !.pending = << >>]
        OBVIOUS
      <3>4. m1.peer = NoConn /\ m1.proxies = << >> /\ {"peer", "proxies", "inflight", "modes"} \subseteq DOMAIN m1
        BY ONLY m \in Mgr, m1 = [m EXCEPT !.peer = NoConn, !.proxies = << >>, !.error = er] DEF Mgr
      <3>5. m2.peer = NoConn /\ m2.proxies = << >> /\ m2.inflight = << >> /\ DOMAIN m2 = DOMAIN m1
        BY ONLY <3>3, <3>4
      <3> PICK v : n = [m2 EXCEPT !.modes = v, !.dirty = TRUE]
        BY <3>2 DEF reset_modes
      <3>6. n.peer = NoConn /\ n.proxies = << >> /\ n.inflight = << >>
        BY ONLY <3>4, <3>5, n = [m2 EXCEPT !.modes = v, !.dirty = TRUE]
      <3>7. \A k \in DOMAIN n.proxies : FALSE
        BY <3>6
      <3> QED
        BY <1>1, <1>3, <3>6, <3>7 DEF Paired
    <2> QED
      BY <2>2, <2>3
  <1>4. CASE op.kind = "Modes"
    <2> PICK p \in PeerModes : p = serialize(op.modes)
      BY <1>0, SerializeTyped
    <2>1. Merging(m, n)
      BY <1>4, PeerModesChangedMerges DEF dispatch_tx_op
    <2> QED
      BY <1>1, <1>4, <2>1, PairedKept DEF Merging, SameTasks
  <1> QED
    BY <1>0, <1>2, <1>3, <1>4

\* A try at the screen leaves the tasks alone.
LEMMA StealSameTasks ==
    ASSUME NEW m \in Mgr, NEW priority
    PROVE  SameTasks(m, try_steal_screen(m, priority))
  <1> PICK r : r = take("screen", priority, "Anytime", "Anytime")
    OBVIOUS
  <1> PICK s : s = take_by(m.modes.screen, r, "Controller")
    OBVIOUS
  <1>1. try_steal_screen(m, priority) = m
        \/ try_steal_screen(m, priority) = [m EXCEPT !.modes.screen = s, !.dirty = TRUE]
    BY DEF try_steal_screen
  <1>2. SameTasks(m, [m EXCEPT !.modes.screen = s, !.dirty = TRUE])
    BY DEF Mgr, SameTasks
  <1> QED
    BY <1>1, <1>2 DEF SameTasks

\* A command is proxied with its request, or touches no task.
LEMMA PairedCommand ==
    ASSUME NEW m \in Mgr, NEW closed, Paired(m, closed), NEW cmd \in Command,
           NEW n, n = dispatch_car_command(m, cmd)
    PROVE  Paired(n, closed) /\ n.peer = m.peer
  <1>1. cmd.ui \in BOOLEAN /\ cmd.req \in ChangeModes /\ m.commands \in Nat
    BY DEF Command, Mgr
  <1> PICK k \in Nat : k = m.commands + 1
    BY <1>1
  <1> PICK m1 : m1 = [m EXCEPT !.commands = k]
    OBVIOUS
  <1>2. m1 \in Mgr /\ SameTasks(m, m1)
    BY ONLY m \in Mgr, k \in Nat, m1 = [m EXCEPT !.commands = k] DEF Mgr, SameTasks
  <1>3. CASE m.peer # NoConn
    <2> PICK q \in Seq(ChangeModes), p \in Seq(Task) : q = m.inflight /\ p = m.proxies
      BY DEF Mgr
    <2> PICK t \in Task : t = [cmd |-> cmd, resp |-> "Waiting"]
      BY DEF Task
    <2>1. t.cmd = cmd /\ t.resp = "Waiting"
      OBVIOUS
    <2> PICK u : u = Append(p, t)
      OBVIOUS
    <2> PICK r : r = IF cmd.ui THEN q ELSE Append(q, cmd.req)
      OBVIOUS
    <2>2. n = [m1 EXCEPT !.inflight = r, !.proxies = u]
      <3>1. m1.inflight = q /\ m1.proxies = p /\ m1.peer = m.peer
        BY <1>2 DEF SameTasks
      <3>2. n = on_car_command_connected(m1, cmd)
        BY <1>3 DEF dispatch_car_command
      <3> QED
        BY <3>1, <3>2 DEF on_car_command_connected
    <2>3. n.peer = m.peer /\ n.proxies = u /\ n.inflight = r
      BY ONLY <1>2, <2>2 DEF Mgr, SameTasks
    <2>4. m.peer \notin closed => Matched(r, u)
      <3>1. m.peer \notin closed => Matched(q, p)
        BY <1>3 DEF Paired
      <3>2. Matched(q, p) => Matched(IF t.cmd.ui THEN q ELSE Append(q, t.cmd.req), u)
        BY MatchedAppend
      <3> QED
        BY <2>1, <3>1, <3>2
    <2>5. ASSUME NEW i \in DOMAIN u
          PROVE  u[i].resp # "Unreadable" /\ (u[i].resp = "NoResponse" => m.peer \in closed)
      <3>1. u \in Seq(Task) /\ Appended(u, p, t)
        BY AppendSeq
      <3>2. i \in 1..Len(u)
        BY <3>1, LenProperties
      <3>3. CASE i \in 1..Len(p)
        <4>1. u[i] = p[i] /\ i \in DOMAIN p
          BY <3>1, <3>3, LenProperties DEF Appended
        <4> QED
          BY <4>1 DEF Paired
      <3>4. CASE i = Len(p) + 1
        BY <2>1, <3>1, <3>4 DEF Appended
      <3> QED
        BY <3>1, <3>2, <3>3, <3>4 DEF Appended
    <2> QED
      BY <1>3, <2>3, <2>4, <2>5 DEF Paired
  <1>4. CASE m.peer = NoConn
    <2>1. n = on_car_command_unconnected(m1, cmd)
      BY <1>2, <1>4 DEF dispatch_car_command, SameTasks
    <2>2. SameTasks(m1, n)
      <3>1. CASE cmd.ui
        <4> PICK m2 : m2 = try_steal_screen(m1, "UserInitiated")
          OBVIOUS
        <4>1. SameTasks(m1, m2)
          BY <1>2, StealSameTasks
        <4>2. n = [m2 EXCEPT !.dirty = TRUE]
          BY <2>1, <3>1 DEF on_car_command_unconnected
        <4>3. Handles(m1, m2)
          <5>1. Proxied(m1)
            BY <1>2 DEF Paired, Proxied, SameTasks
          <5> QED
            BY <1>2, <5>1, StealHandles DEF ResourceTransferPriority
        <4>4. SameTasks(m2, n)
          BY <4>2, <4>3 DEF Handles, Mgr, SameTasks
        <4> QED
          BY <4>1, <4>4 DEF SameTasks
      <3>2. CASE ~cmd.ui
        <4> PICK v : v = process_request(m1.modes, cmd.req)
          OBVIOUS
        <4>1. n = [m1 EXCEPT !.dirty = TRUE, !.modes = v]
          BY <2>1, <3>2 DEF on_car_command_unconnected
        <4> QED
          BY ONLY <1>2, <4>1 DEF Mgr, SameTasks
      <3> QED
        BY <1>1, <3>1, <3>2
    <2>3. SameTasks(m, n)
      BY <1>2, <2>2 DEF SameTasks
    <2> QED
      BY <2>3, PairedKept DEF SameTasks
  <1> QED
    BY <1>3, <1>4

\* A pass of reconcile() leaves them paired, if a phone connects only when there is none, or again.
LEMMA PairedReconcile ==
    ASSUME NEW m, NEW c, Told(m, c), NEW closed, Paired(m, closed), NEW completed \in BOOLEAN,
           completed => m.proxies # << >>,
           NEW op \in OptOp, NEW cmd \in OptCommand,
           op # << >> => (op[1].kind = "IphoneConnected" => m.peer = NoConn \/ op[1].conn \in closed),
           NEW n,
           n = flush_modes(steal_initial_screen(flush_modes(
                 reconcile_channels(reconcile_tasks(m, completed), op, cmd))))
    PROVE  Paired(n, closed) /\ n.peer = PeerAfter(m.peer, op)
  <1> PICK m1 : m1 = record(m)
    OBVIOUS
  <1>1. Told(m1, c) /\ SameTasks(m, m1)
    BY RecordTold DEF Keeps, SameTasks
  <1> PICK m2 : m2 = take_screen(m1)
    OBVIOUS
  <1>2. Told(m2, c) /\ SameTasks(m1, m2)
    BY <1>1, TakeScreenTold DEF Keeps, SameTasks
  <1>3. Paired(m2, closed) /\ m2.peer = m.peer /\ m2.proxies = m.proxies
    BY <1>1, <1>2, PairedKept DEF SameTasks
  <1> PICK m3 : m3 = reconcile_tasks(m, completed)
    OBVIOUS
  <1>4. Told(m3, c) /\ Paired(m3, closed) /\ m3.peer = m.peer
    <2>1. m3 = IF completed THEN take_completed(m2) ELSE m2
      BY DEF reconcile_tasks
    <2>2. CASE completed
      <3>1. m2 \in Mgr /\ Proxied(m2) /\ m2.proxies # << >>
        BY <1>2, <1>3, <2>2 DEF Told
      <3>2. Handles(m2, m3)
        BY <2>1, <2>2, <3>1, TakeCompletedHandles
      <3>3. Paired(m3, closed) /\ m3.peer = m2.peer
        BY <1>3, <2>1, <2>2, <3>1, PairedCompleted
      <3> QED
        BY <1>2, <1>3, <3>2, <3>3, HandlesTold
    <2>3. CASE ~completed
      BY <1>2, <1>3, <2>1, <2>3
    <2> QED
      BY <2>2, <2>3
  <1> PICK x : x = IF op = << >> THEN m3 ELSE dispatch_tx_op(m3, op[1])
    OBVIOUS
  <1>5. x \in Mgr /\ Proxied(x) /\ Handles(m3, x) /\ Paired(x, closed) /\ x.peer = PeerAfter(m.peer, op)
    <2>0. m3 \in Mgr /\ Proxied(m3)
      BY <1>4 DEF Told
    <2>1. CASE op = << >>
      BY <1>4, <2>0, <2>1 DEF Handles, PeerAfter
    <2>2. CASE op # << >>
      <3> PICK o \in Op : op = <<o>>
        BY <2>2 DEF OptOp
      <3>1. op[1] = o /\ x = dispatch_tx_op(m3, o)
        BY <2>2
      <3>2. Handles(m3, x)
        BY <2>0, <3>1, TxOpHandles
      <3>3. o.kind = "IphoneConnected" => m3.peer = NoConn \/ o.conn \in closed
        BY <1>4, <2>2, <3>1
      <3>4. Paired(x, closed) /\ x.peer = PeerAfter(m3.peer, <<o>>)
        BY <1>4, <2>0, <3>1, <3>3, PairedTxOp
      <3> QED
        BY <1>4, <3>2, <3>4 DEF Handles
    <2> QED
      BY <2>1, <2>2
  <1> PICK m4 : m4 = reconcile_channels(m3, op, cmd)
    OBVIOUS
  <1>6. Told(m4, c) /\ Paired(m4, closed) /\ m4.peer = x.peer
    <2>1. m4 = IF cmd = << >> THEN x ELSE dispatch_car_command(x, cmd[1])
      BY DEF reconcile_channels
    <2>2. CASE cmd = << >>
      BY <1>4, <1>5, <2>1, <2>2, HandlesTold
    <2>3. CASE cmd # << >>
      <3> PICK k \in Command : cmd = <<k>>
        BY <2>3 DEF OptCommand
      <3>1. m4 = dispatch_car_command(x, k)
        BY <2>1, <2>3
      <3>2. Handles(x, m4)
        BY <1>5, <3>1, CarCommandHandles
      <3>3. Paired(m4, closed) /\ m4.peer = x.peer
        BY <1>5, <3>1, PairedCommand
      <3>4. Told(x, c)
        BY <1>4, <1>5, HandlesTold
      <3> QED
        BY <3>2, <3>3, <3>4, HandlesTold
    <2> QED
      BY <2>2, <2>3
  <1> PICK m5 : m5 = flush_modes(m4)
    OBVIOUS
  <1>7. Told(m5, c) /\ SameTasks(m4, m5)
    BY <1>6, FlushTold DEF Keeps, SameTasks
  <1> PICK m6 : m6 = steal_initial_screen(m5)
    OBVIOUS
  <1>8. Told(m6, c) /\ SameTasks(m5, m6)
    <2>1. m5 \in Mgr /\ Proxied(m5)
      BY <1>7 DEF Told
    <2>2. Handles(m5, m6)
      BY <2>1, InitialScreenHandles
    <2> PICK y : y = [m5 EXCEPT !.steal_attempted = TRUE]
      OBVIOUS
    <2>3. y \in Mgr /\ SameTasks(m5, y)
      BY ONLY <2>1, y = [m5 EXCEPT !.steal_attempted = TRUE] DEF Mgr, SameTasks
    <2>4. SameTasks(y, try_steal_screen(y, "NiceToHave"))
      BY <2>3, StealSameTasks
    <2>5. m6 = m5 \/ m6 = try_steal_screen(y, "NiceToHave")
      BY DEF steal_initial_screen
    <2>6. SameTasks(m5, m6)
      BY <2>3, <2>4, <2>5 DEF SameTasks
    <2> QED
      BY <1>7, <2>2, <2>6, HandlesTold
  <1>9. SameTasks(m6, n)
    <2>1. n = flush_modes(m6)
      OBVIOUS
    <2> QED
      BY <1>8, <2>1, FlushTold DEF Keeps, SameTasks
  <1>10. SameTasks(m4, n)
    BY <1>7, <1>8, <1>9 DEF SameTasks
  <1> QED
    BY <1>5, <1>6, <1>10, PairedKept DEF SameTasks

-----------------------------------------------------------------------------
(* Connections take turns. *)

\* A phone connects at position i of the ops; position 0 stands for the phone there is.
Begins(peer, o, i) == IF i = 0 THEN peer # NoConn ELSE o[i].kind = "IphoneConnected"

\* Between i and j it is disconnected.
EndsBetween(o, i, j) == \E k \in (i + 1)..(j - 1) : o[k].kind = "IphoneDisconnected"

\* A phone is disconnected before the next one connects; one that repeats its SETUP may
\* connect again.
TakeTurns(peer, o, again) ==
    \A i, j \in 0..Len(o) :
       i < j /\ Begins(peer, o, i) /\ Begins(peer, o, j) /\ o[j].conn \notin again => EndsBetween(o, i, j)

\* Every phone is disconnected in the end.
AllEnd(peer, o) == \A i \in 0..Len(o) : Begins(peer, o, i) => EndsBetween(o, i, Len(o) + 1)

\* One more op.
LEMMA TurnsAppend ==
    ASSUME NEW peer, NEW o \in Seq(Op), NEW x \in Op, NEW again, TakeTurns(peer, o, again),
           x.kind = "IphoneConnected" => AllEnd(peer, o) \/ x.conn \in again,
           NEW u, u = Append(o, x)
    PROVE  /\ TakeTurns(peer, u, again)
           /\ x.kind = "IphoneDisconnected" => AllEnd(peer, u)
           /\ x.kind # "IphoneConnected" /\ AllEnd(peer, o) => AllEnd(peer, u)
  <1> PICK n \in Nat : n = Len(o)
    BY LenProperties
  <1>1. Len(u) = n + 1 /\ u[n + 1] = x /\ \A i \in 1..n : u[i] = o[i]
    BY AppendSeq DEF Appended
  <1>2. \A i \in 0..n : Begins(peer, u, i) = Begins(peer, o, i)
    <2>1. \A i \in 0..n : i # 0 => i \in 1..n
      OBVIOUS
    <2> QED
      BY <1>1, <2>1 DEF Begins
  <1>3. Begins(peer, u, n + 1) <=> x.kind = "IphoneConnected"
    BY <1>1 DEF Begins
  <1>4. \A i \in 0..(n + 1) : i \in 0..n \/ i = n + 1
    OBVIOUS
  <1>5. ASSUME NEW i \in 0..n, NEW j \in 0..(n + 1), EndsBetween(o, i, j)
        PROVE  EndsBetween(u, i, j)
    <2> PICK k \in (i + 1)..(j - 1) : o[k].kind = "IphoneDisconnected"
      BY <1>5 DEF EndsBetween
    <2>1. k \in 1..n
      OBVIOUS
    <2> QED
      BY <1>1, <2>1 DEF EndsBetween
  <1>6. ASSUME NEW i \in 0..n, EndsBetween(o, i, n + 1)
        PROVE  EndsBetween(u, i, n + 2)
    <2> PICK k \in (i + 1)..((n + 1) - 1) : o[k].kind = "IphoneDisconnected"
      BY <1>6 DEF EndsBetween
    <2>1. k \in 1..n /\ k \in (i + 1)..((n + 2) - 1)
      OBVIOUS
    <2> QED
      BY <1>1, <2>1 DEF EndsBetween
  <1>7. TakeTurns(peer, u, again)
    <2> SUFFICES ASSUME NEW i \in 0..(n + 1), NEW j \in 0..(n + 1), i < j,
                        Begins(peer, u, i), Begins(peer, u, j), u[j].conn \notin again
                 PROVE  EndsBetween(u, i, j)
      BY <1>1 DEF TakeTurns
    <2>1. i \in 0..n
      BY <1>4
    <2>2. CASE j \in 0..n
      <3>1. j \in 1..n /\ u[j] = o[j]
        BY <1>1, <2>2
      <3>2. EndsBetween(o, i, j)
        BY <1>2, <2>1, <2>2, <3>1 DEF TakeTurns
      <3> QED
        BY <1>5, <2>1, <3>2
    <2>3. CASE j = n + 1
      <3>1. EndsBetween(o, i, n + 1)
        <4>1. x.conn \notin again /\ x.kind = "IphoneConnected"
          BY <1>1, <1>3, <2>3
        <4>2. AllEnd(peer, o) /\ Begins(peer, o, i)
          BY <1>2, <2>1, <4>1
        <4> QED
          BY <2>1, <4>2 DEF AllEnd
      <3> QED
        BY <1>5, <2>1, <2>3, <3>1
    <2> QED
      BY <1>4, <2>2, <2>3
  <1>8. ASSUME x.kind = "IphoneDisconnected"
        PROVE  AllEnd(peer, u)
    <2> SUFFICES ASSUME NEW i \in 0..(n + 1), Begins(peer, u, i)
                 PROVE  EndsBetween(u, i, (n + 1) + 1)
      BY <1>1 DEF AllEnd
    <2>1. i \in 0..n
      BY <1>3, <1>4, <1>8
    <2>2. n + 1 \in (i + 1)..(((n + 1) + 1) - 1)
      BY <2>1
    <2> QED
      BY <1>1, <1>8, <2>2 DEF EndsBetween
  <1>9. ASSUME x.kind # "IphoneConnected", AllEnd(peer, o)
        PROVE  AllEnd(peer, u)
    <2> SUFFICES ASSUME NEW i \in 0..(n + 1), Begins(peer, u, i)
                 PROVE  EndsBetween(u, i, (n + 1) + 1)
      BY <1>1 DEF AllEnd
    <2>1. i \in 0..n
      BY <1>3, <1>4, <1>9
    <2>2. EndsBetween(o, i, n + 1)
      BY <1>2, <1>9, <2>1 DEF AllEnd
    <2>3. (n + 1) + 1 = n + 2
      OBVIOUS
    <2> QED
      BY <1>6, <2>1, <2>2, <2>3
  <1> QED
    BY <1>7, <1>8, <1>9

\* More phones may connect again.
LEMMA TurnsAgain ==
    ASSUME NEW peer, NEW o, NEW again, NEW more, again \subseteq more, TakeTurns(peer, o, again)
    PROVE  TakeTurns(peer, o, more)
  BY DEF TakeTurns

\* The first op is taken: a phone connects only when there is none, or again.
LEMMA TurnsTail ==
    ASSUME NEW peer, NEW o \in Seq(Op), o # << >>, NEW again, TakeTurns(peer, o, again),
           NEW u, u = Tail(o), NEW x, x = Head(o), NEW after, after = PeerAfter(peer, <<x>>)
    PROVE  /\ x.kind = "IphoneConnected" => peer = NoConn \/ x.conn \in again
           /\ TakeTurns(after, u, again)
           /\ AllEnd(peer, o) => AllEnd(after, u)
  <1>1. x \in Op /\ x = o[1] /\ u \in Seq(Op) /\ Shifted(u, o)
    BY TailSeq
  <1> PICK n \in Nat : n = Len(u)
    BY <1>1, LenProperties
  <1>2. Len(o) = n + 1 /\ \A i \in 1..n : u[i] = o[i + 1]
    BY <1>1 DEF Shifted
  <1>3. x.kind \in {"IphoneConnected", "IphoneDisconnected", "Modes"} /\ x.conn \in Conn /\ x.conn # NoConn
    BY <1>1, CarAssumption DEF Op
  <1>4. after = IF x.kind = "Modes" THEN peer ELSE IF x.kind = "IphoneConnected" THEN x.conn ELSE NoConn
    BY DEF PeerAfter
  <1>5. ASSUME x.kind = "IphoneConnected", x.conn \notin again
        PROVE  peer = NoConn
    <2>1. 0 \in 0..Len(o) /\ 1 \in 0..Len(o) /\ 0 < 1
      BY <1>2
    <2>2. Begins(peer, o, 1)
      BY <1>1, <1>5 DEF Begins
    <2>3. ~EndsBetween(o, 0, 1)
      BY DEF EndsBetween
    <2>4. ~Begins(peer, o, 0)
      BY <1>1, <1>5, <2>1, <2>2, <2>3 DEF TakeTurns
    <2> QED
      BY <2>4 DEF Begins
  <1>6. \A i \in 1..n : Begins(after, u, i) => Begins(peer, o, i + 1) /\ i + 1 \in 0..(n + 1)
    <2>1. \A i \in 1..n : i # 0 /\ i + 1 # 0 /\ i + 1 \in 0..(n + 1)
      OBVIOUS
    <2> QED
      BY <1>2, <2>1 DEF Begins
  <1>7. \A i \in 0..n : i # 0 => i \in 1..n
    OBVIOUS
  <1>8. ASSUME NEW i \in 0..n, NEW j \in 0..(n + 1), EndsBetween(o, i + 1, j + 1)
        PROVE  EndsBetween(u, i, j)
    <2> PICK k \in ((i + 1) + 1)..((j + 1) - 1) : o[k].kind = "IphoneDisconnected"
      BY <1>8 DEF EndsBetween
    <2> PICK l \in Int : l = k - 1
      OBVIOUS
    <2>1. l \in (i + 1)..(j - 1) /\ l \in 1..n /\ l + 1 = k
      OBVIOUS
    <2>2. u[l] = o[k]
      BY <1>2, <2>1
    <2> QED
      BY <2>1, <2>2 DEF EndsBetween
  <1>9. ASSUME Begins(after, u, 0), NEW j \in 1..(n + 1),
               \A i \in 0..1 : Begins(peer, o, i) => EndsBetween(o, i, j + 1)
        PROVE  EndsBetween(u, 0, j)
    <2>1. after # NoConn
      BY <1>9 DEF Begins
    <2>2. CASE x.kind = "IphoneConnected"
      <3>1. Begins(peer, o, 1)
        BY <1>1, <2>2 DEF Begins
      <3>2. EndsBetween(o, 0 + 1, j + 1)
        BY <1>9, <3>1
      <3>3. 0 \in 0..n /\ j \in 0..(n + 1)
        OBVIOUS
      <3> QED
        BY <1>8, <3>2, <3>3
    <2>3. CASE x.kind = "Modes"
      <3>1. Begins(peer, o, 0)
        BY <1>4, <2>1, <2>3 DEF Begins
      <3>2. EndsBetween(o, 0, j + 1)
        BY <1>9, <3>1
      <3> PICK k \in (0 + 1)..((j + 1) - 1) : o[k].kind = "IphoneDisconnected"
        BY <3>2 DEF EndsBetween
      <3>3. k # 1
        BY <1>1, <2>3
      <3>4. k \in ((0 + 1) + 1)..((j + 1) - 1)
        BY <3>3
      <3>5. EndsBetween(o, 0 + 1, j + 1)
        BY <3>4 DEF EndsBetween
      <3>6. 0 \in 0..n /\ j \in 0..(n + 1)
        OBVIOUS
      <3> QED
        BY <1>8, <3>5, <3>6
    <2> QED
      BY <1>3, <1>4, <2>1, <2>2, <2>3
  <1>10. TakeTurns(after, u, again)
    <2> SUFFICES ASSUME NEW i \in 0..n, NEW j \in 0..n, i < j, Begins(after, u, i), Begins(after, u, j),
                        u[j].conn \notin again
                 PROVE  EndsBetween(u, i, j)
      BY DEF TakeTurns
    <2>1. j \in 1..n /\ j \in 1..(n + 1) /\ j \in 0..(n + 1)
      OBVIOUS
    <2>2. Begins(peer, o, j + 1) /\ j + 1 \in 0..Len(o) /\ o[j + 1].conn \notin again
      BY <1>2, <1>6, <2>1
    <2>3. CASE i = 0
      <3>1. ASSUME NEW h \in 0..1, Begins(peer, o, h)
            PROVE  EndsBetween(o, h, j + 1)
        <4>1. h \in 0..Len(o) /\ h < j + 1
          BY <1>2, <2>1
        <4> QED
          BY <2>2, <3>1, <4>1 DEF TakeTurns
      <3> QED
        BY <1>9, <2>1, <2>3, <3>1
    <2>4. CASE i # 0
      <3>1. i \in 1..n
        BY <1>7, <2>4
      <3>2. Begins(peer, o, i + 1) /\ i + 1 \in 0..Len(o) /\ i + 1 < j + 1
        BY <1>2, <1>6, <3>1
      <3>3. EndsBetween(o, i + 1, j + 1)
        BY <2>2, <3>2 DEF TakeTurns
      <3> QED
        BY <1>8, <2>1, <3>3
    <2> QED
      BY <2>3, <2>4
  <1>11. ASSUME AllEnd(peer, o)
         PROVE  AllEnd(after, u)
    <2> SUFFICES ASSUME NEW i \in 0..n, Begins(after, u, i)
                 PROVE  EndsBetween(u, i, n + 1)
      BY DEF AllEnd
    <2>1. n + 1 \in 1..(n + 1) /\ n + 1 \in 0..(n + 1) /\ Len(o) + 1 = (n + 1) + 1
      BY <1>2
    <2>2. CASE i = 0
      <3>1. ASSUME NEW h \in 0..1, Begins(peer, o, h)
            PROVE  EndsBetween(o, h, (n + 1) + 1)
        <4>1. h \in 0..Len(o)
          BY <1>2
        <4> QED
          BY <1>11, <2>1, <3>1, <4>1 DEF AllEnd
      <3> QED
        BY <1>9, <2>1, <2>2, <3>1
    <2>3. CASE i # 0
      <3>1. i \in 1..n
        BY <1>7, <2>3
      <3>2. Begins(peer, o, i + 1) /\ i + 1 \in 0..Len(o)
        BY <1>2, <1>6, <3>1
      <3>3. EndsBetween(o, i + 1, (n + 1) + 1)
        BY <1>11, <2>1, <3>2 DEF AllEnd
      <3> QED
        BY <1>8, <2>1, <3>3
    <2> QED
      BY <2>2, <2>3
  <1> QED
    BY <1>5, <1>10, <1>11

-----------------------------------------------------------------------------
(* The requests in flight stay paired with their tasks. *)

\* One connection at a time is there.
OneLive ==
    \A c, d \in Conn :
       conn[c] \in {"Open", "Active", "Rejected"} /\ conn[d] \in {"Open", "Active", "Rejected"} => c = d

\* The ops tell of one phone after the other, and of the end of every phone that is gone.
TurnsInv ==
    ~mgr.exited =>
       /\ TakeTurns(mgr.peer, ops, repeated)
       /\ (\A c \in Conn : conn[c] \notin {"Active", "Rejected"}) => AllEnd(mgr.peer, ops)

\* The phones whose requests in flight may be left without their tasks.
Unpaired == closing \cup repeated

\* The inductive invariant.
PairInv == CarInv /\ Paired(mgr, Unpaired) /\ OneLive /\ TurnsInv

\* Nothing is in flight at first, and no phone is there.
LEMMA PairInvInit == Init => PairInv
  <1> SUFFICES ASSUME Init
               PROVE  PairInv
    OBVIOUS
  <1>1. /\ mgr.peer = NoConn /\ mgr.proxies = << >> /\ mgr.inflight = << >> /\ ops = << >>
        /\ conn = [c \in Conn |-> "Closed"]
    BY DEF Init
  <1>2. Paired(mgr, Unpaired)
    <2>1. \A n \in DOMAIN mgr.proxies : FALSE
      BY <1>1
    <2> QED
      BY <1>1, <2>1 DEF Paired
  <1>3. OneLive
    BY <1>1 DEF OneLive
  <1>4. \A i \in 0..Len(ops) : ~Begins(mgr.peer, ops, i)
    <2>1. Len(ops) = 0
      BY <1>1
    <2> QED
      BY <1>1, <2>1 DEF Begins
  <1>5. TurnsInv
    BY <1>4 DEF TurnsInv, TakeTurns, AllEnd
  <1> QED
    BY <1>2, <1>3, <1>5, CarInvInit DEF PairInv

\* A pass of reconcile() keeps the pairs and the turns.
LEMMA PairInvReconcile ==
    ASSUME PairInv, NEW completed \in BOOLEAN, NEW takes_op \in BOOLEAN,
           NEW cmd \in CarCommands \cup {NoCommand}, Reconcile(completed, takes_op, cmd)
    PROVE  Paired(mgr', Unpaired') /\ OneLive' /\ TurnsInv'
  <1>1. ~mgr.exited /\ ~mgr.error /\ (completed => mgr.proxies # << >>) /\ (takes_op => ops # << >>)
    BY DEF Reconcile
  <1>2. Told(mgr, car) /\ Paired(mgr, Unpaired)
    BY <1>1 DEF PairInv, CarInv, TypeInv, TypeOK, PlanInv, Told
  <1>3. ops \in Seq(Op)
    BY DEF PairInv, CarInv, TypeInv, TypeOK
  <1> PICK o : o = ops
    OBVIOUS
  <1> PICK op \in OptOp : op = IF takes_op THEN <<Head(o)>> ELSE << >>
    <2>1. takes_op => Head(o) \in Op
      BY <1>1, <1>3, TailSeq
    <2>2. CASE takes_op
      BY <2>1, <2>2 DEF OptOp
    <2>3. CASE ~takes_op
      BY <2>3 DEF OptOp
    <2> QED
      BY <2>2, <2>3
  <1>4. cmd \in OptCommand
    BY CarCommandTyped
  <1>5. mgr' = flush_modes(steal_initial_screen(flush_modes(
                 reconcile_channels(reconcile_tasks(mgr, completed), op, cmd))))
    BY DEF Reconcile
  <1>6. ops' = IF takes_op THEN Tail(ops) ELSE ops
    BY DEF Reconcile
  <1>7. UNCHANGED <<conn, closing, repeated>> /\ Unpaired' = Unpaired /\ repeated \subseteq Unpaired
    BY DEF Reconcile, Unpaired
  <1>8. TakeTurns(mgr.peer, ops, repeated)
        /\ ((\A c \in Conn : conn[c] \notin {"Active", "Rejected"}) => AllEnd(mgr.peer, ops))
    BY <1>1 DEF PairInv, TurnsInv
  <1> PICK after : after = PeerAfter(mgr.peer, op)
    OBVIOUS
  <1>9. /\ op # << >> =>
             (op[1].kind = "IphoneConnected" => mgr.peer = NoConn \/ op[1].conn \in repeated)
        /\ TakeTurns(after, ops', repeated)
        /\ AllEnd(mgr.peer, ops) => AllEnd(after, ops')
    <2>1. CASE takes_op
      <3> PICK x, u : x = Head(o) /\ u = Tail(o)
        OBVIOUS
      <3>1. op = <<x>> /\ op[1] = x /\ ops' = u
        BY <1>6, <2>1
      <3>2. after = PeerAfter(mgr.peer, <<x>>)
        BY <3>1
      <3>3. o \in Seq(Op) /\ o # << >> /\ TakeTurns(mgr.peer, o, repeated)
        BY <1>1, <1>3, <1>8, <2>1
      <3>4. /\ x.kind = "IphoneConnected" => mgr.peer = NoConn \/ x.conn \in repeated
            /\ TakeTurns(after, u, repeated)
            /\ AllEnd(mgr.peer, o) => AllEnd(after, u)
        BY <3>2, <3>3, TurnsTail
      <3> QED
        BY <3>1, <3>4
    <2>2. CASE ~takes_op
      <3>1. op = << >> /\ ops' = ops /\ after = mgr.peer
        BY <1>6, <2>2 DEF PeerAfter
      <3> QED
        BY <1>8, <3>1
    <2> QED
      BY <2>1, <2>2
  <1> PICK n : n = mgr'
    OBVIOUS
  <1>10. Paired(n, Unpaired) /\ n.peer = after
    <2>1. op # << >> =>
            (op[1].kind = "IphoneConnected" => mgr.peer = NoConn \/ op[1].conn \in Unpaired)
      BY <1>7, <1>9
    <2> QED
      BY <1>1, <1>2, <1>4, <1>5, <2>1, PairedReconcile
  <1>11. Paired(mgr', Unpaired')
    BY <1>7, <1>10
  <1>12. OneLive'
    BY <1>7 DEF OneLive, PairInv
  <1>13. TurnsInv'
    BY <1>7, <1>8, <1>9, <1>10 DEF TurnsInv
  <1> QED
    BY <1>11, <1>12, <1>13

\* More connections that are asked to close leave the pairs.
LEMMA PairedClosing ==
    ASSUME NEW m, NEW closed, NEW more, closed \subseteq more, Paired(m, closed)
    PROVE  Paired(m, more)
  BY DEF Paired

\* The end of the manager, and what the car does, leave the tasks alone.
LEMMA PairInvCar ==
    ASSUME PairInv, Exit \/ CarAnswers \/ CarFails
    PROVE  Paired(mgr', Unpaired') /\ OneLive' /\ TurnsInv'
  <1>0. mgr \in Mgr /\ Paired(mgr, Unpaired)
    BY DEF PairInv, CarInv, TypeInv, TypeOK
  <1>1. CASE Exit
    <2>1. mgr' = [mgr EXCEPT !.exited = TRUE, !.tx = << >>]
      BY <1>1 DEF Exit
    <2>2. SameTasks(mgr, mgr') /\ mgr'.exited
      BY ONLY <1>0, <2>1 DEF Mgr, SameTasks
    <2>3. Unpaired \subseteq Unpaired' /\ UNCHANGED conn
      BY <1>1 DEF Exit, Unpaired
    <2>4. Paired(mgr', Unpaired)
      BY <1>0, <2>2, PairedKept
    <2>5. Paired(mgr', Unpaired')
      BY <2>3, <2>4, PairedClosing
    <2> QED
      BY <2>2, <2>3, <2>5 DEF PairInv, OneLive, TurnsInv
  <1>2. CASE CarAnswers \/ CarFails
    <2>1. SameTasks(mgr, mgr') /\ mgr'.exited = mgr.exited
      <3>1. CASE CarAnswers
        <4> PICK t, s : mgr' = [mgr EXCEPT !.tx = t, !.setup = s]
          BY <3>1 DEF CarAnswers
        <4> QED
          BY ONLY <1>0, mgr' = [mgr EXCEPT !.tx = t, !.setup = s] DEF Mgr, SameTasks
      <3>2. CASE CarFails
        <4>1. mgr' = [mgr EXCEPT !.error = TRUE, !.tx = << >>]
          BY <3>2 DEF CarFails
        <4> QED
          BY ONLY <1>0, <4>1 DEF Mgr, SameTasks
      <3> QED
        BY <1>2, <3>1, <3>2
    <2>2. UNCHANGED <<ops, conn, repeated>> /\ Unpaired' = Unpaired
      BY <1>2 DEF CarAnswers, CarFails, Unpaired
    <2>3. Paired(mgr', Unpaired')
      BY <1>0, <2>1, <2>2, PairedKept
    <2> QED
      BY <2>1, <2>2, <2>3 DEF PairInv, OneLive, TurnsInv, SameTasks
  <1> QED
    BY <1>1, <1>2

\* A task that is resolved keeps its command.
LEMMA ResolvedPaired ==
    ASSUME NEW m \in Mgr, NEW i \in DOMAIN m.proxies, NEW closed, Paired(m, closed),
           NEW resp \in {"Accepted", "Rejected", "NoResponse"}, NEW more, closed \subseteq more,
           resp = "NoResponse" => m.peer \in more,
           NEW n, n = [m EXCEPT !.proxies[i].resp = resp]
    PROVE  Paired(n, more) /\ n.peer = m.peer /\ n.exited = m.exited
  <1>1. m.proxies \in Seq(Task) /\ m.inflight \in Seq(ChangeModes)
    BY DEF Mgr
  <1> PICK k \in Nat : k = Len(m.proxies) /\ DOMAIN m.proxies = 1..k
    BY <1>1, LenProperties
  <1> PICK ps \in [1..k -> Task] : ps = m.proxies
    BY <1>1, LenProperties
  <1> PICK old \in Task : old = ps[i]
    <2>1. i \in 1..k
      OBVIOUS
    <2> QED
      BY <2>1
  <1> PICK tk \in Task : tk = [old EXCEPT !.resp = resp] /\ tk.cmd = old.cmd /\ tk.resp = resp
    <2> PICK tk : tk = [old EXCEPT !.resp = resp]
      OBVIOUS
    <2>1. tk \in Task /\ tk.cmd = old.cmd /\ tk.resp = resp
      BY ONLY old \in Task, resp \in {"Accepted", "Rejected", "NoResponse"}, tk = [old EXCEPT !.resp = resp]
         DEF Task
    <2> QED
      BY <2>1
  <1> PICK p : p = [ps EXCEPT ![i] = tk]
    OBVIOUS
  <1>2. p \in [1..k -> Task] /\ p[i] = tk /\ \A j \in 1..k : j # i => p[j] = ps[j]
    OBVIOUS
  <1>3. p \in Seq(Task) /\ Len(p) = k
    BY <1>2, FunctionSeq
  <1>4. \A j \in 1..k : p[j].cmd = ps[j].cmd
    BY <1>2
  <1>5. n = [m EXCEPT !.proxies = p]
    OBVIOUS
  <1>6. n.peer = m.peer /\ n.exited = m.exited /\ n.proxies = p /\ n.inflight = m.inflight
    BY ONLY <1>5, m \in Mgr DEF Mgr
  <1>7. m.peer # NoConn
    <2>1. m.proxies # << >>
      OBVIOUS
    <2> QED
      BY <2>1 DEF Paired
  <1>8. m.peer \notin more => Matched(m.inflight, p)
    <2>1. m.peer \notin more => Matched(m.inflight, m.proxies)
      BY <1>7 DEF Paired
    <2> PICK pp \in Seq(Task), q \in Seq(ChangeModes), u \in Seq(Task) :
           pp = m.proxies /\ q = m.inflight /\ u = p
      BY <1>1, <1>3
    <2>2. Len(u) = Len(pp) /\ \A j \in 1..Len(pp) : u[j].cmd = pp[j].cmd
      BY <1>3, <1>4
    <2>3. Matched(q, pp) => Matched(q, u)
      BY ONLY <2>2, q \in Seq(ChangeModes), pp \in Seq(Task), u \in Seq(Task), MatchedResolved
    <2> QED
      BY <2>1, <2>3
  <1>9. ASSUME NEW j \in DOMAIN p
        PROVE  p[j].resp # "Unreadable" /\ (p[j].resp = "NoResponse" => m.peer \in more)
    <2>1. j \in 1..k
      BY <1>2
    <2>2. CASE j = i
      BY <1>2, <2>2
    <2>3. CASE j # i
      BY <1>2, <2>1, <2>3 DEF Paired
    <2> QED
      BY <2>2, <2>3
  <1> QED
    BY <1>6, <1>7, <1>8, <1>9 DEF Paired

\* An answer, or none, leaves the pairs.
LEMMA PairInvResolves ==
    ASSUME PairInv, "Unreadable" \notin PhoneResponses, PhoneResolves
    PROVE  Paired(mgr', Unpaired') /\ OneLive' /\ TurnsInv'
  <1>0. mgr \in Mgr /\ Paired(mgr, Unpaired)
    BY DEF PairInv, CarInv, TypeInv, TypeOK
  <1> PICK i \in DOMAIN mgr.proxies :
         (\E resp \in PhoneResponses : PhoneAnswers(i, resp)) \/ PhoneSilent(i)
    BY DEF PhoneResolves
  <1> PICK resp \in {"Accepted", "Rejected", "NoResponse"} :
         /\ mgr' = [mgr EXCEPT !.proxies[i].resp = resp]
         /\ Unpaired \subseteq Unpaired'
         /\ resp = "NoResponse" => mgr.peer \in Unpaired'
    <2>1. ASSUME NEW resp \in PhoneResponses, PhoneAnswers(i, resp)
          PROVE  /\ resp \in {"Accepted", "Rejected"} /\ Unpaired' = Unpaired
                 /\ mgr' = [mgr EXCEPT !.proxies[i].resp = resp]
      BY <2>1, CarAssumption DEF PhoneAnswers, Unpaired
    <2>2. PhoneSilent(i) => /\ mgr' = [mgr EXCEPT !.proxies[i].resp = "NoResponse"]
                            /\ Unpaired \subseteq Unpaired' /\ mgr.peer \in Unpaired'
      BY DEF PhoneSilent, Unpaired
    <2> QED
      BY <2>1, <2>2
  <1> PICK n : n = mgr'
    OBVIOUS
  <1>1. Paired(n, Unpaired') /\ n.peer = mgr.peer /\ n.exited = mgr.exited
    BY <1>0, ResolvedPaired
  <1>2. UNCHANGED <<ops, conn, repeated>>
    BY DEF PhoneAnswers, PhoneSilent
  <1> QED
    BY <1>1, <1>2 DEF PairInv, OneLive, TurnsInv

\* An op that is sent.
LEMMA SendOpTurns ==
    ASSUME PairInv, NEW kind \in {"IphoneConnected", "IphoneDisconnected", "Modes"}, NEW c \in Conn,
           NEW modes \in AirPlayModeState, SendOp(kind, c, modes), ~mgr.exited,
           NEW again, repeated \subseteq again,
           kind = "IphoneConnected" => AllEnd(mgr.peer, ops) \/ c \in again
    PROVE  /\ TakeTurns(mgr.peer, ops', again)
           /\ kind = "IphoneDisconnected" => AllEnd(mgr.peer, ops')
           /\ kind # "IphoneConnected" /\ AllEnd(mgr.peer, ops) => AllEnd(mgr.peer, ops')
  <1> PICK x \in Op : x = [kind |-> kind, conn |-> c, modes |-> modes]
    BY DEF Op
  <1> PICK o \in Seq(Op) : o = ops
    BY DEF PairInv, CarInv, TypeInv, TypeOK
  <1> PICK u : u = ops'
    OBVIOUS
  <1>1. x.kind = kind /\ x.conn = c /\ u = Append(o, x)
    BY DEF SendOp
  <1>2. TakeTurns(mgr.peer, o, again)
    BY TurnsAgain DEF PairInv, TurnsInv
  <1>3. /\ TakeTurns(mgr.peer, u, again)
        /\ x.kind = "IphoneDisconnected" => AllEnd(mgr.peer, u)
        /\ x.kind # "IphoneConnected" /\ AllEnd(mgr.peer, o) => AllEnd(mgr.peer, u)
    <2>1. x.kind = "IphoneConnected" => AllEnd(mgr.peer, o) \/ x.conn \in again
      BY <1>1
    <2> PICK peer : peer = mgr.peer
      OBVIOUS
    <2>2. TakeTurns(peer, o, again)
      BY <1>2
    <2>3. /\ TakeTurns(peer, u, again)
          /\ x.kind = "IphoneDisconnected" => AllEnd(peer, u)
          /\ x.kind # "IphoneConnected" /\ AllEnd(peer, o) => AllEnd(peer, u)
      BY ONLY o \in Seq(Op), x \in Op, <1>1, <2>1, <2>2, peer = mgr.peer, TurnsAppend
    <2> QED
      BY <2>3
  <1> QED
    BY <1>1, <1>3

\* The connections come and go one after the other.
LEMMA PairInvConnections ==
    ASSUME PairInv, Overlapping = FALSE, NEW c \in Conn,
           \/ Accept(c) \/ Setup(c) \/ Drop(c)
           \/ \E state \in PhoneStates : PhoneModes(c, state)
    PROVE  Paired(mgr', Unpaired') /\ OneLive' /\ TurnsInv'
  <1>0. /\ conn \in [Conn -> {"Closed", "Open", "Active", "Rejected", "Dropped"}]
        /\ car.modes \in AirPlayModeState /\ Paired(mgr, Unpaired) /\ OneLive /\ TurnsInv
    BY DEF PairInv, CarInv, TypeInv, TypeOK
  <1>1. UNCHANGED <<mgr, closing>> /\ repeated \subseteq repeated' /\ Unpaired \subseteq Unpaired'
    BY DEF Accept, Setup, Drop, PhoneModes, Unpaired
  <1>2. Paired(mgr', Unpaired')
    BY <1>0, <1>1, PairedClosing
  <1>3. CASE Accept(c)
    <2>1. conn' = [conn EXCEPT ![c] = "Open"] /\ ops' = ops /\ repeated' = repeated
          /\ \A d \in Conn : conn[d] \in {"Closed", "Dropped"}
      BY <1>3 DEF Accept
    <2>2. \A d \in Conn : d # c => conn'[d] \in {"Closed", "Dropped"}
      BY <1>0, <2>1
    <2>3. OneLive'
      BY <2>2 DEF OneLive
    <2>4. \A d \in Conn : conn[d] \notin {"Active", "Rejected"}
      BY <2>1
    <2>5. TurnsInv'
      BY <1>0, <1>1, <2>1, <2>4 DEF TurnsInv
    <2> QED
      BY <1>2, <2>3, <2>5
  <1>4. CASE Setup(c)
    <2>1. /\ conn[c] \in {"Open", "Rejected"} /\ SendOp("IphoneConnected", c, car.modes)
          /\ repeated' = IF conn[c] = "Rejected" THEN repeated \cup {c} ELSE repeated
      BY <1>4 DEF Setup
    <2> PICK result \in {"Active", "Rejected"} : conn' = [conn EXCEPT ![c] = result]
      BY <1>4 DEF Setup
    <2>2. conn'[c] \in {"Active", "Rejected"} /\ \A d \in Conn : d # c => conn'[d] = conn[d]
      BY <1>0
    <2>3. \A d \in Conn : conn'[d] \in {"Open", "Active", "Rejected"} =>
                             conn[d] \in {"Open", "Active", "Rejected"}
      BY <2>1, <2>2
    <2>4. OneLive'
      BY <1>0, <2>3 DEF OneLive
    <2>5. conn[c] = "Open" => \A d \in Conn : conn[d] \notin {"Active", "Rejected"}
      BY <1>0 DEF OneLive
    <2>6. ~mgr.exited => TakeTurns(mgr.peer, ops', repeated')
      <3>1. ~mgr.exited => AllEnd(mgr.peer, ops) \/ c \in repeated'
        BY <1>0, <2>1, <2>5 DEF TurnsInv
      <3> PICK again : again = repeated'
        OBVIOUS
      <3> QED
        BY <1>0, <1>1, <2>1, <3>1, SendOpTurns
    <2>7. TurnsInv'
      BY <1>1, <2>2, <2>6 DEF TurnsInv
    <2> QED
      BY <1>2, <2>4, <2>7
  <1>5. CASE Drop(c)
    <2>1. /\ SendOp("IphoneDisconnected", c, car.modes) /\ conn' = [conn EXCEPT ![c] = "Dropped"]
          /\ repeated' = repeated
      BY <1>5 DEF Drop
    <2>2. \A d \in Conn : conn'[d] \in {"Open", "Active", "Rejected"} =>
                             conn[d] \in {"Open", "Active", "Rejected"}
      BY <1>0, <2>1
    <2>3. OneLive'
      BY <1>0, <2>2 DEF OneLive
    <2>4. ~mgr.exited => TakeTurns(mgr.peer, ops', repeated) /\ AllEnd(mgr.peer, ops')
      BY <1>0, <2>1, SendOpTurns
    <2>5. TurnsInv'
      BY <1>1, <2>1, <2>4 DEF TurnsInv
    <2> QED
      BY <1>2, <2>3, <2>5
  <1>6. CASE \E state \in PhoneStates : PhoneModes(c, state)
    <2> PICK state \in PhoneStates : PhoneModes(c, state)
      BY <1>6
    <2>1. SendOp("Modes", c, state) /\ UNCHANGED <<conn, repeated>> /\ state \in AirPlayModeState
      BY CarAssumption DEF PhoneModes
    <2>2. ~mgr.exited =>
            /\ TakeTurns(mgr.peer, ops', repeated)
            /\ AllEnd(mgr.peer, ops) => AllEnd(mgr.peer, ops')
      BY <2>1, SendOpTurns
    <2>3. OneLive' /\ TurnsInv'
      BY <1>0, <1>1, <2>1, <2>2 DEF OneLive, TurnsInv
    <2> QED
      BY <1>2, <2>3
  <1> QED
    BY <1>3, <1>4, <1>5, <1>6

\* Every step keeps the invariant.
LEMMA PairInvNext ==
    ASSUME Overlapping = FALSE, "Unreadable" \notin PhoneResponses
    PROVE  PairInv /\ [Next]_vars => PairInv'
  <1> SUFFICES ASSUME PairInv, [Next]_vars
               PROVE  Paired(mgr', Unpaired') /\ OneLive' /\ TurnsInv'
    BY CarInvNext DEF PairInv
  <1>1. ASSUME NEW completed \in BOOLEAN, NEW takes_op \in BOOLEAN,
               NEW cmd \in CarCommands \cup {NoCommand}, Reconcile(completed, takes_op, cmd)
        PROVE  Paired(mgr', Unpaired') /\ OneLive' /\ TurnsInv'
    BY <1>1, PairInvReconcile
  <1>2. CASE Exit \/ CarAnswers \/ CarFails
    BY <1>2, PairInvCar
  <1>3. CASE PhoneResolves
    BY <1>3, PairInvResolves
  <1>4. ASSUME NEW c \in Conn,
               \/ Accept(c) \/ Setup(c) \/ Drop(c)
               \/ \E state \in PhoneStates : PhoneModes(c, state)
        PROVE  Paired(mgr', Unpaired') /\ OneLive' /\ TurnsInv'
    BY <1>4, PairInvConnections
  <1>5. CASE UNCHANGED vars
    BY <1>5 DEF PairInv, OneLive, TurnsInv, Unpaired, vars
  <1> QED
    BY <1>1, <1>2, <1>3, <1>4, <1>5 DEF Next

\* The arbiter's requests in flight are those of the proxy tasks, in their order, when one
\* phone is connected after the other and every answer can be read
\* (on_peer_change_modes_start/end, on_peer_disconnect).
THEOREM InflightIsProxied ==
    ASSUME Overlapping = FALSE, "Unreadable" \notin PhoneResponses
    PROVE  Spec => []InflightMatchesProxies
  <1>1. PairInv => InflightMatchesProxies
    BY DEF PairInv, Paired, Unpaired, Matched, Pairs, InflightMatchesProxies
  <1>2. PairInv /\ [Next]_vars => PairInv'
    BY PairInvNext
  <1> QED
    BY <1>1, <1>2, PairInvInit, PTL DEF Spec
=============================================================================
