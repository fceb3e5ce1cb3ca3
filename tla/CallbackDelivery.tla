-------------------------- MODULE CallbackDelivery --------------------------
(***************************************************************************)
(* What the background callback promises about the result of each task,    *)
(* whatever processes die and whatever calls are repeated: a result is     *)
(* open until a receipt closes it; its text is shown only while it is open *)
(* and has been accepted; "completed" means that it has been shown; and a  *)
(* closed result is neither shown nor closed again.                        *)
(***************************************************************************)
EXTENDS Naturals

CONSTANT Task

VARIABLES
  result,  \* [Task -> Result]
  times    \* [Task -> Nat]: how often its text was shown

Result == {"open", "accepted", "completed", "failed"}

Init ==
  /\ result = [t \in Task |-> "open"]
  /\ times = [t \in Task |-> 0]

Accept(t) ==
  /\ result[t] = "open"
  /\ result' = [result EXCEPT ![t] = "accepted"]
  /\ UNCHANGED times

\* Shown, perhaps again, perhaps for the last time.
Show(t) ==
  /\ result[t] = "accepted"
  /\ times' = [times EXCEPT ![t] = @ + 1]
  /\ \/ UNCHANGED result
     \/ result' = [result EXCEPT ![t] = "failed"]

Close(t) ==
  /\ result[t] = "accepted"
  /\ \/ result' = [result EXCEPT ![t] = "failed"]
     \/ /\ times[t] > 0
        /\ result' = [result EXCEPT ![t] = "completed"]
  /\ UNCHANGED times

Next == \E t \in Task : Accept(t) \/ Show(t) \/ Close(t)

Spec == Init /\ [][Next]_<<result, times>>
=============================================================================
