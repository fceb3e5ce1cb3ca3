------------------------------- MODULE MCTurn -------------------------------
(***************************************************************************)
(* A small instance of TurnControl for TLC: a message p, and two updates    *)
(* while its turn is there.                                                 *)
(***************************************************************************)
EXTENDS TurnControl

CONSTANTS p, x, y

Mix(a, b) == [c \in Cmd |-> IF c = p THEN "plain" ELSE IF c = x THEN a ELSE b]

MCMixes == {Mix("force", "stop"), Mix("reply", "stop")}
MCForce == {Mix("force", "stop")}
=============================================================================
