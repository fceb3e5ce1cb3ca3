----------------------------- MODULE MCCallback -----------------------------
(***************************************************************************)
(* Instances of CallbackSystem for TLC: one task and its outbox record,    *)
(* with up to two overlapping receiver processes.                          *)
(***************************************************************************)
EXTENDS CallbackSystem

CONSTANTS t1, r1, c1, e1, s1, s2

MCEventTask == [e \in Event |-> t1]
MCRecordTask == [r \in Record |-> t1]
=============================================================================
