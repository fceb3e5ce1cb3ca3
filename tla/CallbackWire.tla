---------------------------- MODULE CallbackWire ----------------------------
(***************************************************************************)
(* What the two hosts of the background callback share: the receiver       *)
(* processes ("ssh <alias> callback-receive", or the local receiver) that  *)
(* the outbox on HMS starts on WEB1, one per signed event.  The outbox     *)
(* waits for one of them at a time, but one it has given up on may still   *)
(* run, and overlap with the next.                                         *)
(***************************************************************************)
EXTENDS Naturals

CONSTANTS
  Task,        \* task ids
  Event,       \* event ids of final results (uuid4)
  EventTask,   \* [Event -> Task]: the task_id signed into each
  Slot,        \* bound: receiver processes at one time
  NoEvent,     \* a probe carries no result
  NoSlot,
  MaxCrash,    \* bound: crashes of any process of the two hosts
  Faulty,      \* whether calls, timestamps and verifiers fail without a crash
  TornWrites   \* whether a crash may leave an empty file (exclusive_create)

ASSUME WireAssumption ==
  /\ EventTask \in [Event -> Task]
  /\ NoEvent \notin Event
  /\ NoSlot \notin Slot
  /\ MaxCrash \in Nat
  /\ Faulty \in BOOLEAN
  /\ TornWrites \in BOOLEAN

VARIABLES
  ssh,     \* [Slot -> Receiver]: the receiver processes
  line,    \* the one the outbox waits for, or NoSlot
  crashes  \* history: crashes so far

\* What a receiver process does next; "sent" has not read its event.
Step == {"idle", "sent", "seen", "new", "receipt", "claimed", "peers",
         "write", "mark", "done"}

\* The stable reason tokens it prints; "broken" is an exit without one.
Reply == {"", "registered", "unknown_task", "accepted", "replay", "conflict",
          "stale_timestamp", "broken"}

\* A probe carries its task alone, a final_result its event as well.
Receiver == [at : Step, task : Task, ev : Event \cup {NoEvent}, reply : Reply]

Probe(t) == [at |-> "sent", task |-> t, ev |-> NoEvent, reply |-> ""]
Final(e) == [at |-> "sent", task |-> EventTask[e], ev |-> e, reply |-> ""]

WireOK ==
  /\ ssh \in [Slot -> Receiver]
  /\ line \in Slot \cup {NoSlot}
  /\ crashes \in Nat

WireInit ==
  /\ \E t \in Task :
       ssh = [s \in Slot |-> [at |-> "idle", task |-> t, ev |-> NoEvent, reply |-> ""]]
  /\ line = NoSlot
  /\ crashes = 0

Idle(s) == ssh[s].at = "idle"

\* The process in s goes on to step "at".
GoesTo(s, at) == ssh' = [ssh EXCEPT ![s].at = at]

\* An answer nobody waits for is dropped with its process.
Answers(s, reply) ==
  ssh' = [ssh EXCEPT ![s].at = IF line = s THEN "done" ELSE "idle",
                     ![s].reply = IF line = s THEN reply ELSE ""]

\* run_ssh: one more receiver process, and the outbox waits for it.
Calls(s, call) ==
  /\ line = NoSlot
  /\ Idle(s)
  /\ ssh' = [ssh EXCEPT ![s] = call]
  /\ line' = s

\* The outbox has read the answer of the process it waited for.
HangsUp ==
  /\ line # NoSlot
  /\ ssh[line].at = "done"
  /\ ssh' = [ssh EXCEPT ![line].at = "idle", ![line].reply = ""]
  /\ line' = NoSlot

\* TimeoutExpired (SSH_TIMEOUT_SECONDS), or the drain died: the local ssh is
\* gone; the event may be lost with it, or its receiver runs on.
Abandons ==
  /\ line # NoSlot
  /\ line' = NoSlot
  /\ \/ /\ ssh[line].at \in {"sent", "done"}
        /\ ssh' = [ssh EXCEPT ![line].at = "idle", ![line].reply = ""]
     \/ /\ ssh[line].at # "done"
        /\ UNCHANGED ssh

NoCall == line = NoSlot /\ UNCHANGED <<ssh, line>>
=============================================================================
