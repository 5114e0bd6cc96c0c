------------------------ MODULE MCResourceController ------------------------
(* Instances of ResourceController for TLC. *)
EXTENDS ResourceController

MCTake(id) == {take(id, p, t, b) : p \in ResourceTransferPriority,
                                   t \in {"Anytime", "Never"}, b \in {"UserInitiated", "Never"}}
MCBorrow(id) == {borrow(id, p, u) : p \in ResourceTransferPriority, u \in {"UserInitiated", "Never"}}
\* Requests with a field missing or too many.
MCMalformed(id) ==
    {[untake(id) EXCEPT !.priority = "NiceToHave"],
     [take(id, "UserInitiated", "Anytime", "Anytime") EXCEPT !.take_constraint = Absent],
     [borrow(id, "UserInitiated", "Never") EXCEPT !.borrow_constraint = "Anytime"]}
MCResource(id) == MCTake(id) \cup MCBorrow(id) \cup MCMalformed(id) \cup {untake(id), unborrow(id)}

MCControllerRequests == UNION {MCResource(id) : id \in ResourceID}

\* What a request with several parts is made of.
MCPart == {take("screen", "NiceToHave", "Never", "Never"), untake("screen"),
           borrow("screen", "UserInitiated", "Never"), unborrow("screen")}
MCAppState == {app_state("PhoneCall", "On"), app_state("PhoneCall", "Off"), speech_state("Speaking"),
               speech_state(Absent)}

MCAccessoryRequests ==
    \* one resource
    {[NoChange EXCEPT !.resources = <<r>>] : r \in MCResource("screen")}
    \* the same resource again and again
    \cup {[NoChange EXCEPT !.resources = list] : list \in [1..3 -> MCPart]}
    \* one resource after the other
    \cup {[app_states |-> <<app_state("PhoneCall", p)>>, resources |-> <<r, s>>] :
            p \in {"On", "Off"}, r \in {untake("screen"), borrow("screen", "NiceToHave", "Never")},
            s \in {take("main_audio", "NiceToHave", "UserInitiated", "Never"),
                   unborrow("main_audio"), untake("main_audio")}}
    \* app states
    \cup {[NoChange EXCEPT !.app_states = list] : list \in [1..2 -> MCAppState]}
    \cup {[NoChange EXCEPT !.app_states = <<s, app_state("TurnByTurn", t)>>] :
            s \in {speech_state("None"), speech_state("Speaking"), app_state("Invalid", "On")},
            t \in {"On", "Off", Absent}}

MCPerm == {[owner |-> o, take_constraint |-> "UserInitiated", borrow_constraint |-> "Never"] :
             o \in EntityEnum}
MCInfo ==
    [modes : {NoChange,
              [NoChange EXCEPT !.resources = <<borrow("screen", "NiceToHave", "Never")>>],
              [NoChange EXCEPT !.resources = <<borrow("screen", "NiceToHave", "Never"),
                                               take("screen", "NiceToHave", "Anytime", "Never")>>]},
     screen_perm : MCPerm, main_audio_perm : MCPerm]
=============================================================================
