------------------------------ MODULE MCInbox ------------------------------
(***************************************************************************)
(* Instances of CallbackInbox alone: two results for one task, sent in any *)
(* order and as often as a caller may, to two receiver processes that may  *)
(* overlap.  No conversation is busy: that only makes the loop wait, and   *)
(* nothing here needs it to hurry.                                         *)
(***************************************************************************)
EXTENDS CallbackInbox, TLC

CONSTANTS t1, c1, c2, e1, e2, s1, s2

MCEventTask == [e \in Event |-> t1]

MCSymmetry == Permutations(Event) \cup Permutations(Chat) \cup Permutations(Slot)
=============================================================================
