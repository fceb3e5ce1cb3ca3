----------------------------- MODULE TurnLedger -----------------------------
(***************************************************************************)
(* What the intake ledger promises about each request (the docstring of    *)
(* durable_queue.py), independently of queues, coroutines and crashes: a   *)
(* row only moves forward, from new to accepted to dispatched to closed,   *)
(* its CLI turn is dispatched exactly when it enters "dispatched", and a   *)
(* closed row (done, cancelled, in doubt or reviewed) is never run again.  *)
(* Rows are independent: one step may move several of them.                *)
(***************************************************************************)
EXTENDS Naturals

CONSTANT Row

VARIABLES phase, runs

Phase == {"new", "accepted", "dispatched", "closed"}

\* INSERT, start(), finish() and reviewed(); a message that need not wait is
\* inserted and started in one step.
Moves ==
  {<<p, p>> : p \in Phase} \cup
  {<<"new", "accepted">>, <<"new", "dispatched">>,
   <<"accepted", "dispatched">>, <<"accepted", "closed">>,
   <<"dispatched", "closed">>}

Init ==
  /\ phase = [r \in Row |-> "new"]
  /\ runs = [r \in Row |-> 0]

Enters(r) == phase[r] # "dispatched" /\ phase'[r] = "dispatched"

Next ==
  /\ phase' \in [Row -> Phase]
  /\ \A r \in Row : <<phase[r], phase'[r]>> \in Moves
  /\ runs' = [r \in Row |-> IF Enters(r) THEN runs[r] + 1 ELSE runs[r]]

Spec == Init /\ [][Next]_<<phase, runs>>

\* What the promise amounts to (durable_queue.py:3-6): at most one dispatch per
\* request, none while it is still waiting, and exactly one while it runs.
AtMostOnce ==
  \A r \in Row :
    /\ runs[r] <= 1
    /\ phase[r] \in {"new", "accepted"} => runs[r] = 0
    /\ phase[r] = "dispatched" => runs[r] = 1
=============================================================================
