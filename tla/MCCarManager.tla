---------------------------- MODULE MCCarManager ----------------------------
(* Instances of CarManager for TLC. *)
EXTENDS CarManager, TLC

MCInfo ==
    LET perm(o) == [owner |-> o, take_constraint |-> "Anytime", borrow_constraint |-> "Anytime"]
    IN  [modes |-> NoChange, screen_perm |-> perm("Accessory"),
         main_audio_perm |-> perm("Controller")]

MCCarRequests ==
    {[NoChange EXCEPT !.resources = <<take("screen", "UserInitiated", "UserInitiated", "Never")>>],
     [NoChange EXCEPT !.resources = <<untake("screen")>>]}

MCState(screen, call) ==
    [screen |-> screen, main_audio |-> "ControllerHas", phone_call |-> call,
     speech |-> NoSpeech, turn_by_turn |-> "None"]
MCPhoneStates == {MCState("ControllerHas", "Controller"), MCState("AccessoryHas", "None")}

\* Connections are only compared with one another.
MCSymmetry == Permutations(Conn)
=============================================================================
