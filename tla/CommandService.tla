--------------------------- MODULE CommandService ---------------------------
(***************************************************************************)
(* What the event channel promises to the callers of send_command and to   *)
(* the handler of the commands: commands reach the handler at most once    *)
(* and in the order in which they were issued; a caller gets the answer    *)
(* that was given to its own command, or learns that it has to do without. *)
(***************************************************************************)
EXTENDS Integers, Sequences

CONSTANTS
    Req,       \* commands, numbered in the order in which they are issued
    Answer,    \* answers to a command
    Refusals,  \* those given without asking the handler
    GaveUp     \* outcomes of a call without an answer

VARIABLES
    call,      \* call[r]: "idle", "waiting", "answered" or a member of GaveUp
    got,       \* got[r]: the answers caller r has got
    handed,    \* commands handed to the handler, in order
    given      \* given[r]: the answers given to command r

svars == <<call, got, handed, given>>

Init ==
    /\ call = [r \in Req |-> "idle"]
    /\ got = [r \in Req |-> {}]
    /\ handed = <<>>
    /\ given = [r \in Req |-> {}]

\* Calls are numbered as they come.
Issue(r) ==
    /\ call[r] = "idle"
    /\ \A q \in Req : q < r => call[q] # "idle"
    /\ call' = [call EXCEPT ![r] = "waiting"]
    /\ UNCHANGED <<got, handed, given>>

Hand(r) ==
    /\ call[r] # "idle"
    /\ \A i \in 1..Len(handed) : handed[i] < r
    /\ handed' = Append(handed, r)
    /\ UNCHANGED <<call, got, given>>

\* Some commands get their answer: once, and by the handler unless it is a refusal.
Give ==
    /\ UNCHANGED <<call, got, handed>>
    /\ given' # given
    /\ given' \in [Req -> SUBSET Answer]
    /\ \A r \in {q \in Req : given'[q] # given[q]} :
         /\ call[r] # "idle"
         /\ given[r] = {}
         /\ \E a \in Answer : given'[r] = {a}
         /\ given'[r] \subseteq Refusals \/ \E i \in 1..Len(handed) : handed[i] = r

Return(r) ==
    /\ call[r] = "waiting"
    /\ \E a \in given[r] :
         /\ call' = [call EXCEPT ![r] = "answered"]
         /\ got' = [got EXCEPT ![r] = {a}]
    /\ UNCHANGED <<handed, given>>

GiveUp(r) ==
    /\ call[r] = "waiting"
    /\ \E s \in GaveUp : call' = [call EXCEPT ![r] = s]
    /\ UNCHANGED <<got, handed, given>>

Next ==
    \/ \E r \in Req : Issue(r) \/ Hand(r) \/ Return(r) \/ GiveUp(r)
    \/ Give

Spec == Init /\ [][Next]_svars
=============================================================================
