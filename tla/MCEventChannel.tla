--------------------------- MODULE MCEventChannel ---------------------------
(* Instances of EventChannel for TLC. *)
EXTENDS EventChannel

\* Commands that may finish in any order, and one request to an unknown url.
MCKind == [r \in Req |-> IF r = 1 THEN "other" ELSE "command"]
AllCommands == [r \in Req |-> "command"]
=============================================================================
