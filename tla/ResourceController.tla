------------------------- MODULE ResourceController -------------------------
(***************************************************************************)
(* One ResourceController (modes/resource_manager.rs) over its life: built *)
(* from the modes of an /info message, then changed by ChangeModes         *)
(* requests of the accessory, each a list of app states and resources, and *)
(* by requests of the controller for one resource.                         *)
(***************************************************************************)
EXTENDS Modes

CONSTANTS
    Info,                 \* the /info modes a session may start from
    AccessoryRequests,    \* the ChangeModes the accessory may send
    ControllerRequests,   \* the requests the controller may make of a resource
    MaxBorrows            \* bound: nested borrows of one resource

ASSUME RequestAssumption ==
    /\ Info \subseteq InfoModes
    /\ AccessoryRequests \subseteq ChangeModes
    /\ ControllerRequests \subseteq Resource
    /\ MaxBorrows \in Nat

VARIABLES
    modes,     \* the ResourceController
    status     \* ChangeModesResponse::status of the last request

vars == <<modes, status>>

Init ==
    /\ modes \in {from_change_modes(info) : info \in Info}
    /\ status = 0

AccessoryRequest(req) ==
    /\ \A id \in ResourceID : process_request(modes, req)[id].borrows_count <= MaxBorrows
    /\ modes' = process_request(modes, req)
    /\ status' = IF request_accepted(modes, req) THEN 0 ELSE 1

ControllerRequest(r) ==
    LET accepted == accepts(modes[r.id], r, "Controller")
    IN  /\ outcome(modes[r.id], r, "Controller").borrows_count <= MaxBorrows
        /\ modes' = IF accepted THEN [modes EXCEPT ![r.id] = outcome(@, r, "Controller")] ELSE modes
        /\ status' = IF accepted THEN 0 ELSE 1

AccessoryStep == \E req \in AccessoryRequests : AccessoryRequest(req)
ControllerStep == \E r \in ControllerRequests : ControllerRequest(r)

Next == AccessoryStep \/ ControllerStep

Spec == Init /\ [][Next]_vars
-----------------------------------------------------------------------------
TypeOK ==
    /\ modes \in Controller
    /\ status \in {0, 1}

\* A resource has a borrow count exactly while it is borrowed: no take, untake or
\* upgrade leaves a count behind that a later Unborrow would count down from
\* (borrows_count in take_by, untake_by, borrow_by, unborrow_by).
BorrowsCounted ==
    \A id \in ResourceID : modes[id].borrows_count > 0 <=> is_borrowed(modes[id].state)

\* The resources of a request with this id.
requested(req, id) == {req.resources[i] : i \in named(req.resources, id)}

\* However it repeats and orders its parts, no request takes the ownership from an
\* owner, nor the use from a user, whose constraints no part of it has the priority
\* for (take_by, borrow_by against the constraints, over process_request's loop).
\* The one way around a borrower's constraint is the owner's own: Untake, and then
\* Take or Borrow what belongs to nobody.  `made` are the resources an actor's
\* request named to bring m to n.
Honours(actor, m, n, made) ==
    LET other == other_entity(actor)
        priority == IF \E r \in made : r.priority = "UserInitiated" THEN "UserInitiated"
                    ELSE "NiceToHave"
        denied(constraint) == ~priority_satisfies(priority, constraint)
        types == {r.type : r \in made}
        reclaimed == "Untake" \in types /\ ("Take" \in types \/ "Borrow" \in types)
    IN  /\ owner(m.state) = other /\ denied(m.take_constraint) => owner(n.state) = other
        /\ m.state = actor_has(other) /\ denied(m.take_constraint) /\ denied(m.borrow_constraint)
             => n.state = m.state
        /\ m.state = other_borrowed(actor) /\ denied(m.unborrow_constraint) /\ ~reclaimed
             => entity(n.state) # actor

ConstraintsHonoured ==
    \A id \in ResourceID :
      /\ \A req \in AccessoryRequests :
           Honours("Accessory", modes[id], process_request(modes, req)[id], requested(req, id))
      /\ \A r \in ControllerRequests : r.id = id /\ accepts(modes[id], r, "Controller") =>
           Honours("Controller", modes[id], outcome(modes[id], r, "Controller"), {r})

\* What the accessory is promised for the parts it named last: of a resource its
\* state, of an app state its value; what it did not name stays as it is.
GrantedResource(req, id, m, n) ==
    LET last == last_named(req.resources, id)
    IN  IF last = << >> THEN n = m
        ELSE /\ last[1].type = "Take" =>
                  n = NewManager("AccessoryHas", last[1].take_constraint, last[1].borrow_constraint)
             /\ last[1].type = "Untake" => owner(n.state) # "Accessory"
             /\ last[1].type = "Borrow" => n.state = "AccessoryBorrowed"
             /\ last[1].type = "Unborrow" => n.state # "ControllerBorrowed"

GrantedSwitch(req, id, before, after) ==
    LET last == last_named(req.app_states, id)
    IN  IF last = << >> THEN after = before
        ELSE last[1].state = "On" <=> after = "Accessory"

Granted(req, c, d) ==
    /\ \A id \in ResourceID : GrantedResource(req, id, c[id], d[id])
    /\ GrantedSwitch(req, "PhoneCall", c.phone_call, d.phone_call)
    /\ GrantedSwitch(req, "TurnByTurn", c.turn_by_turn, d.turn_by_turn)
    /\ LET last == last_named(req.app_states, "Speech")
       IN  d.speech = IF last = << >> THEN c.speech ELSE speech_of(last[1].speech_mode)

\* An accessory that is answered 0 has everything it asked for last, and one that
\* is refused has changed nothing, whichever part of its request was refused and
\* however often the parts before it name the same thing (process_request: a loop
\* over a copy, left at the first part that is rejected).
RequestsAnswered ==
    \A req \in AccessoryRequests :
      LET after == process_request(modes, req)
      IN  IF request_accepted(modes, req) THEN Granted(req, modes, after) ELSE after = modes

\* A peer that rebuilds the controller from the /info modes sees the same users
\* and owners, and the constraints the accessory set; only a resource borrowed by
\* the controller is shown as the accessory's (serialize_to_info_request,
\* from_change_modes).
InfoRoundTrip ==
    LET rebuilt == from_change_modes(serialize_to_info_request(modes))
    IN  /\ \A id \in ResourceID :
             LET m == modes[id]
                 n == rebuilt[id]
             IN  /\ to_pair(n.state) = IF m.state = "ControllerBorrowed"
                                       THEN <<"Accessory", "Accessory">> ELSE to_pair(m.state)
                 /\ owner(m.state) = "Accessory" =>
                      /\ n.take_constraint = m.take_constraint
                      /\ n.borrow_constraint = m.borrow_constraint
                 /\ m.state = "AccessoryBorrowed" =>
                      n.unborrow_constraint = m.unborrow_constraint
        /\ rebuilt.phone_call = "Accessory" <=> modes.phone_call = "Accessory"
        /\ rebuilt.turn_by_turn = "Accessory" <=> modes.turn_by_turn = "Accessory"
        /\ modes.speech.entity = "Accessory" => rebuilt.speech = modes.speech
=============================================================================
