---------------------------- MODULE MCScheduler ----------------------------
(***************************************************************************)
(* Instances of RelayScheduler for TLC.  A cfg names the messages of its   *)
(* run; their class, thread and target follow from the name.               *)
(***************************************************************************)
EXTENDS RelayScheduler, TLC

CONSTANTS p1, p2, p3, f1, n1, n2, u1, u2, kA, kB

AsClass(m) ==
  CASE m \in {p1, p2, p3} -> "plain"
    [] m = f1 -> "force"
    [] m \in {n1, n2} -> "new_task"
    [] OTHER -> "followup"

MCClass == [m \in Msg |-> AsClass(m)]
MCThreadOf == [m \in Msg |-> kA]
\* p3 in a conversation of its own
MCTwoThreads == [m \in Msg |-> IF m = p3 THEN kB ELSE kA]
\* follow-ups reply to the first task
MCTargetOf == [m \in Msg |-> IF AsClass(m) = "followup" THEN n1 ELSE m]
\* Ordinary messages of one thread are interchangeable.
MCSymmetry == Permutations({p1, p2, p3} \cap Msg)
=============================================================================
