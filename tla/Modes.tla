------------------------------- MODULE Modes --------------------------------
(***************************************************************************)
(* The CarPlay modes (carplay/catplay_carplay/src/modes): who uses and who *)
(* owns the screen and the main audio, and which side is speaking, on a    *)
(* call or navigating.  ResourceManager and ResourceController are values; *)
(* a method that returns bool is a predicate (it accepts) and an operator  *)
(* (the value it then leaves); a rejected call leaves the value alone.     *)
(***************************************************************************)
EXTENDS Naturals, Sequences

EntityEnum == {"None", "Controller", "Accessory"}
Actor == {"Controller", "Accessory"}
other_entity(actor) == IF actor = "Controller" THEN "Accessory" ELSE "Controller"

ResourceState ==
    {"ControllerHas", "AccessoryHas", "ControllerBorrowed", "AccessoryBorrowed", "Invalid"}

ResourceConstraint == {"Anytime", "UserInitiated", "Never"}
ResourceTransferPriority == {"NiceToHave", "UserInitiated"}
SpeechMode == {"Invalid", "None", "Speaking", "RecognizingSpeech"}

\* An optional field that is not there.
Absent == "Absent"

ResourceID == {"screen", "main_audio"}
AppStateEnum == {"Speech", "PhoneCall", "TurnByTurn", "Invalid"}

\* A Resource of a ChangeModes request.
Resource ==
    [id : ResourceID, type : {"Take", "Untake", "Borrow", "Unborrow"},
     priority : ResourceTransferPriority \cup {Absent},
     take_constraint : ResourceConstraint \cup {Absent},
     borrow_constraint : ResourceConstraint \cup {Absent},
     unborrow_constraint : ResourceConstraint \cup {Absent}]

untake(id) == [id |-> id, type |-> "Untake", priority |-> Absent, take_constraint |-> Absent,
               borrow_constraint |-> Absent, unborrow_constraint |-> Absent]
take(id, priority, t, b) ==
    [untake(id) EXCEPT !.type = "Take", !.priority = priority, !.take_constraint = t,
                       !.borrow_constraint = b]
borrow(id, priority, u) ==
    [untake(id) EXCEPT !.type = "Borrow", !.priority = priority, !.unborrow_constraint = u]
unborrow(id) == [untake(id) EXCEPT !.type = "Unborrow"]

\* An AppState: `state` is that of a phone call or of navigation.
AppState == [id : AppStateEnum, state : {"On", "Off", Absent}, speech_mode : SpeechMode \cup {Absent}]
app_state(id, state) == [id |-> id, state |-> state, speech_mode |-> Absent]
speech_state(mode) == [id |-> "Speech", state |-> Absent, speech_mode |-> mode]

\* A request may name a resource or an app state more than once.
ChangeModes == [app_states : Seq(AppState), resources : Seq(Resource)]
NoChange == [app_states |-> << >>, resources |-> << >>]

\* The first and the last of a list with this id, if there is one.
named(list, id) == {i \in DOMAIN list : list[i].id = id}
first_named(list, id) ==
    IF named(list, id) = {} THEN << >>
    ELSE <<list[CHOOSE i \in named(list, id) : \A j \in named(list, id) : i <= j]>>
last_named(list, id) ==
    IF named(list, id) = {} THEN << >>
    ELSE <<list[CHOOSE i \in named(list, id) : \A j \in named(list, id) : j <= i]>>
-----------------------------------------------------------------------------
(* ResourceState *)

from_pair(entity, permanent_entity) ==
    IF entity = "None" \/ permanent_entity = "None" THEN "Invalid"
    ELSE IF entity = "Controller"
         THEN IF permanent_entity = "Controller" THEN "ControllerHas" ELSE "ControllerBorrowed"
         ELSE IF permanent_entity = "Accessory" THEN "AccessoryHas" ELSE "AccessoryBorrowed"

is_borrowed(state) == state \in {"ControllerBorrowed", "AccessoryBorrowed"}
is_unclaimed(state) == state = "Invalid"

entity(state) == IF state \in {"AccessoryBorrowed", "AccessoryHas"} THEN "Accessory"
                 ELSE IF state \in {"ControllerBorrowed", "ControllerHas"} THEN "Controller"
                 ELSE "None"

owner(state) == IF state \in {"ControllerHas", "AccessoryBorrowed"} THEN "Controller"
                ELSE IF state \in {"AccessoryHas", "ControllerBorrowed"} THEN "Accessory"
                ELSE "None"

\* What the peer is told: an unclaimed resource is shown as the controller's.
to_pair(state) == IF is_unclaimed(state) THEN <<"Controller", "Controller">>
                  ELSE <<entity(state), owner(state)>>
-----------------------------------------------------------------------------
(* ResourceManager *)

Manager == [state : ResourceState, take_constraint : ResourceConstraint,
            borrow_constraint : ResourceConstraint, unborrow_constraint : ResourceConstraint,
            borrows_count : Nat]

NewManager(state, t, b) ==
    [state |-> state, take_constraint |-> t, borrow_constraint |-> b,
     unborrow_constraint |-> "Anytime", borrows_count |-> 0]

controller_owned == NewManager("ControllerHas", "Anytime", "Anytime")
unclaimed == NewManager("Invalid", "Anytime", "Anytime")

priority_satisfies(priority, constraint) ==
    constraint = "Anytime" \/ (constraint = "UserInitiated" /\ priority = "UserInitiated")

can_take(m, priority) ==
    priority_satisfies(priority, IF is_borrowed(m.state) THEN m.unborrow_constraint
                                 ELSE m.take_constraint)

can_borrow(m, priority) == priority_satisfies(priority, m.borrow_constraint)

actor_has(actor) == from_pair(actor, actor)
actor_borrowed(actor) == from_pair(actor, other_entity(actor))
other_borrowed(actor) == from_pair(other_entity(actor), actor)

\* Mutant: a Take needs its priority only.
take_request_fields_Priority(r) == r.priority # Absent

take_request_fields(r) == Absent \notin {r.priority, r.take_constraint, r.borrow_constraint}

borrow_request_fields(r) ==
    /\ r.take_constraint = Absent /\ r.borrow_constraint = Absent
    /\ r.unborrow_constraint # Absent /\ r.priority # Absent

release_request_fields_are_empty(r) ==
    {r.priority, r.take_constraint, r.borrow_constraint, r.unborrow_constraint} = {Absent}

\* Mutant: a borrower may take the resource whatever its owner allows.
take_accepted_Borrower(m, r, actor) ==
    /\ take_request_fields(r)
    /\ m.state = other_borrowed(actor) => priority_satisfies(r.priority, m.unborrow_constraint)
    /\ m.state \notin {actor_has(actor), other_borrowed(actor), actor_borrowed(actor)} =>
         priority_satisfies(r.priority, m.take_constraint)

take_accepted(m, r, actor) ==
    /\ take_request_fields(r)
    /\ m.state = other_borrowed(actor) => priority_satisfies(r.priority, m.unborrow_constraint)
    /\ m.state \notin {actor_has(actor), other_borrowed(actor)} =>
         priority_satisfies(r.priority, m.take_constraint)

take_by(m, r, actor) == NewManager(actor_has(actor), r.take_constraint, r.borrow_constraint)

\* Mutant: the count of the borrower survives.
untake_by_KeepsCount(m, actor) ==
    IF owner(m.state) = actor THEN [unclaimed EXCEPT !.borrows_count = m.borrows_count] ELSE m

untake_by(m, actor) == IF owner(m.state) = actor THEN unclaimed ELSE m

borrow_accepted(m, r, actor) ==
    /\ borrow_request_fields(r)
    /\ \/ m.state = actor_borrowed(actor)
       \/ /\ m.state \notin {actor_has(actor), other_borrowed(actor)}
          /\ can_borrow(m, r.priority)

\* borrows_count is a usize: it saturates far beyond any bound here.
borrow_by(m, r, actor) ==
    IF m.state = actor_borrowed(actor) THEN [m EXCEPT !.borrows_count = @ + 1]
    ELSE [m EXCEPT !.unborrow_constraint = r.unborrow_constraint,
                   !.state = actor_borrowed(actor), !.borrows_count = 1]

unborrow_accepted(m, r, actor) ==
    release_request_fields_are_empty(r) /\ m.state # other_borrowed(actor)

\* saturating_sub: a borrowed resource taken over from a peer has count 0.
unborrow_by(m, actor) ==
    LET count == IF m.borrows_count = 0 THEN 0 ELSE m.borrows_count - 1
    IN  IF m.state # actor_borrowed(actor) THEN m
        ELSE IF count > 0 THEN [m EXCEPT !.borrows_count = count]
        ELSE [m EXCEPT !.borrows_count = 0, !.state = actor_has(other_entity(actor)),
                       !.unborrow_constraint = "Anytime"]

\* process_accessory_request / process_controller_request
accepts(m, r, actor) ==
    \/ r.type = "Take" /\ take_accepted(m, r, actor)
    \/ r.type = "Untake" /\ release_request_fields_are_empty(r)
    \/ r.type = "Borrow" /\ borrow_accepted(m, r, actor)
    \/ r.type = "Unborrow" /\ unborrow_accepted(m, r, actor)

outcome(m, r, actor) ==
    CASE r.type = "Take" -> take_by(m, r, actor)
      [] r.type = "Untake" -> untake_by(m, actor)
      [] r.type = "Borrow" -> borrow_by(m, r, actor)
      [] r.type = "Unborrow" -> unborrow_by(m, actor)
-----------------------------------------------------------------------------
(* ResourceController *)

SpeechState == [entity : EntityEnum, mode : SpeechMode]
NoSpeech == [entity |-> "None", mode |-> "None"]
speech_of(mode) == [entity |-> IF mode = "None" THEN "None" ELSE "Accessory", mode |-> mode]

Controller == [screen : Manager, main_audio : Manager, phone_call : EntityEnum,
               speech : SpeechState, turn_by_turn : EntityEnum]

DefaultController ==
    [screen |-> controller_owned, main_audio |-> controller_owned, phone_call |-> "None",
     speech |-> NoSpeech, turn_by_turn |-> "None"]

app_state_accepted(c, s) ==
    \/ s.id = "Speech" /\ s.speech_mode # Absent
    \/ s.id = "PhoneCall" /\ s.state # Absent /\ ~(s.state = "On" /\ c.phone_call = "Controller")
    \/ s.id = "TurnByTurn" /\ s.state # Absent

\* A phone call or navigation that the accessory switches on or off.
switched(entity_now, state) ==
    IF state = "On" THEN "Accessory"
    ELSE IF entity_now = "Accessory" THEN "None" ELSE entity_now

process_app_state(c, s) ==
    CASE s.id = "Speech" -> [c EXCEPT !.speech = speech_of(s.speech_mode)]
      [] s.id = "PhoneCall" -> [c EXCEPT !.phone_call = switched(@, s.state)]
      [] s.id = "TurnByTurn" -> [c EXCEPT !.turn_by_turn = switched(@, s.state)]

\* The parts of a request in the order in which they are processed.
parts(req) == req.app_states \o req.resources

part_accepted(c, part) ==
    IF part.id \in ResourceID THEN accepts(c[part.id], part, "Accessory")
    ELSE app_state_accepted(c, part)

process_part(c, part) ==
    IF part.id \in ResourceID THEN [c EXCEPT ![part.id] = outcome(@, part, "Accessory")]
    ELSE process_app_state(c, part)

\* `next` after the first i parts; << >> once a part was rejected.
processing(c, req) ==
    LET next[i \in 0..Len(parts(req))] ==
          IF i = 0 THEN <<c>>
          ELSE LET before == next[i - 1]
               IN  IF before = << >> \/ ~part_accepted(before[1], parts(req)[i]) THEN << >>
                   ELSE <<process_part(before[1], parts(req)[i])>>
    IN  next

request_accepted(c, req) == processing(c, req)[Len(parts(req))] # << >>

\* Mutant: the parts are processed in place.
process_request_InPlace(c, req) ==
    LET next == processing(c, req)
        kept == CHOOSE i \in DOMAIN next :
                  next[i] # << >> /\ \A j \in DOMAIN next : next[j] # << >> => j <= i
    IN  next[kept][1]

process_request(c, req) ==
    IF request_accepted(c, req) THEN processing(c, req)[Len(parts(req))][1] ELSE c

\* AirPlayModeState of a controller, and the ModesChanged it is sent as.
serialize_to_state(c) ==
    [screen |-> c.screen.state, main_audio |-> c.main_audio.state,
     phone_call |-> c.phone_call, speech |-> c.speech, turn_by_turn |-> c.turn_by_turn]

serialize(s) == [s EXCEPT !.screen = to_pair(@), !.main_audio = to_pair(@)]

\* AirPlayModeState::feed: what the peer's copy becomes.
feed(modes) == [modes EXCEPT !.screen = from_pair(@[1], @[2]),
                             !.main_audio = from_pair(@[1], @[2])]

AirPlayModeState == [screen : ResourceState, main_audio : ResourceState,
                     phone_call : EntityEnum, speech : SpeechState, turn_by_turn : EntityEnum]
-----------------------------------------------------------------------------
(* The modes of the /info message: a base owner and a transaction each. *)

PermanentEntity ==
    [owner : EntityEnum, take_constraint : ResourceConstraint,
     borrow_constraint : ResourceConstraint]

InfoModes == [modes : ChangeModes, screen_perm : PermanentEntity, main_audio_perm : PermanentEntity]

\* owner "None": no InitialPermanentEntity for the resource, which leaves the
\* controller's default.
from_permanent_entity(perm) ==
    IF perm.owner = "Accessory"
    THEN NewManager("AccessoryHas", perm.take_constraint, perm.borrow_constraint)
    ELSE controller_owned

\* transaction: << >> or the resource it was made from.
apply_initial_transaction(m, transaction) ==
    IF transaction = << >> THEN m
    ELSE LET r == transaction[1]
         IN  CASE r.type = "Take" ->
                    NewManager("AccessoryHas",
                               IF r.take_constraint = Absent THEN "Anytime" ELSE r.take_constraint,
                               IF r.borrow_constraint = Absent THEN "Anytime" ELSE r.borrow_constraint)
               [] r.type = "Borrow" /\ owner(m.state) # "Accessory" ->
                    [m EXCEPT !.state = "AccessoryBorrowed", !.borrows_count = 1,
                              !.unborrow_constraint =
                                IF r.unborrow_constraint = Absent THEN "Anytime"
                                ELSE r.unborrow_constraint]
               [] OTHER -> m

\* A later resource or app state of the request replaces an earlier one of its id.
initial_resource(perm, req, id) ==
    apply_initial_transaction(from_permanent_entity(perm), last_named(req.resources, id))

initial_switch(req, id) ==
    LET last == last_named(req.app_states, id)
    IN  IF last # << >> /\ last[1].state = "On" THEN "Accessory" ELSE "None"

initial_speech(req) ==
    LET last == last_named(req.app_states, "Speech")
    IN  IF last = << >> \/ last[1].speech_mode = Absent THEN NoSpeech
        ELSE speech_of(last[1].speech_mode)

from_change_modes(info) ==
    LET req == info.modes
    IN  [screen |-> initial_resource(info.screen_perm, req, "screen"),
         main_audio |-> initial_resource(info.main_audio_perm, req, "main_audio"),
         phone_call |-> initial_switch(req, "PhoneCall"), speech |-> initial_speech(req),
         turn_by_turn |-> initial_switch(req, "TurnByTurn")]

\* Mutant: a borrowed resource is left to its permanent entity.
serialize_to_info_transaction_None(m, id) == << >>

\* The resource a transaction is sent as, if there is one.
serialize_to_info_transaction(m, id) ==
    IF m.state = "AccessoryBorrowed" THEN <<borrow(id, "UserInitiated", m.unborrow_constraint)>>
    ELSE << >>

serialize_to_permanent_entity(m) ==
    IF owner(m.state) = "Accessory"
    THEN [owner |-> "Accessory", take_constraint |-> m.take_constraint,
          borrow_constraint |-> m.borrow_constraint]
    ELSE [owner |-> owner(m.state), take_constraint |-> "Anytime", borrow_constraint |-> "Anytime"]

to_switch(entity_now) == IF entity_now = "Accessory" THEN "On" ELSE "Off"

serialize_to_info_request(c) ==
    [modes |->
       [app_states |-> <<app_state("PhoneCall", to_switch(c.phone_call)),
                         app_state("TurnByTurn", to_switch(c.turn_by_turn)),
                         speech_state(IF c.speech.entity = "Accessory" THEN c.speech.mode
                                      ELSE "None")>>,
        resources |-> serialize_to_info_transaction(c.screen, "screen")
                      \o serialize_to_info_transaction(c.main_audio, "main_audio")],
     screen_perm |-> serialize_to_permanent_entity(c.screen),
     main_audio_perm |-> serialize_to_permanent_entity(c.main_audio)]
=============================================================================
