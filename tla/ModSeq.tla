------------------------------- MODULE ModSeq -------------------------------
(***************************************************************************)
(* Wrapping sequence numbers (core/catplay_util/src/mod_seq.rs).  A number *)
(* is an unsigned integer of fixed width; SeqMod is 2^width (256 for the   *)
(* ModSeq8 of the iAP2 link).  Numbers are compared by their wrapping      *)
(* difference, so "greater" is only a partial order: two numbers exactly   *)
(* half the range apart are not comparable.                                *)
(***************************************************************************)
EXTENDS Integers

CONSTANT SeqMod

ASSUME SeqModAssumption == SeqMod \in Nat /\ SeqMod > 1 /\ SeqMod % 2 = 0

SeqNum == 0..(SeqMod - 1)

HALF == SeqMod \div 2

SeqAdd(a, n) == (a + n) % SeqMod

SeqSub(a, b) == (a - b) % SeqMod

\* partial_cmp: "eq", "gt", "lt" or "none".
SeqCmp(a, b) ==
    LET d == SeqSub(a, b)
    IN  IF d = 0 THEN "eq"
        ELSE IF d = HALF THEN "none"
        ELSE IF d < HALF THEN "gt"
        ELSE "lt"

SeqGT(a, b) == SeqCmp(a, b) = "gt"
=============================================================================
