------------------------ MODULE ConversationHandoff ------------------------
(***************************************************************************)
(* The context of one conversation (conversation_context.py) as relay_turn *)
(* of relay.py reads and writes it: the bounded history of finished turns, *)
(* the event stream of finished background tasks with one cursor per       *)
(* provider, the provider sessions, and /reset.                            *)
(*                                                                         *)
(* Every transaction is one action.  A main turn is a chain of them in a   *)
(* worker thread; tasks of the conversation finish in other threads at any *)
(* point in between.  A conversation has one main turn at a time           *)
(* (SingleMainTurn of RelayScheduler) and /reset is refused while there is *)
(* one, queued turns included, which are left out here.  Everything but    *)
(* the turn itself is in SQLite and survives a crash.  An entry is its     *)
(* source and, for the properties, the epoch its work belongs to.          *)
(***************************************************************************)
EXTENDS Naturals, Sequences

CONSTANTS
  Task,        \* background tasks of the conversation
  Provider,    \* backends
  Early,       \* those that store the session before they send the prompt
  Main,        \* source of an entry that no task made
  Keep,        \* entries kept of each list (8 in the code)
  MaxEpoch,    \* bound: epochs, one more than the resets
  MaxDone      \* bound: task completions

ASSUME HandoffAssumption ==
  /\ Early \subseteq Provider
  /\ Main \notin Task
  /\ Keep \in Nat \ {0}
  /\ MaxEpoch \in Nat
  /\ MaxDone \in Nat

VARIABLES
  \* --- preferences[relay:context:v1] of the conversation
  epoch,        \* the uuid of this generation, counted
  turns,        \* finished turns, main and tasks
  handoffs,     \* finished tasks, numbered
  nextHandoff,  \* next_handoff_id: the last number given
  delivered,    \* [Provider -> Nat]: the cursor of each provider
  \* --- the same of its tasks, and the sessions table
  parentEpoch,  \* [Task -> Nat]: parent_epoch, 0 before bind_task
  inherited,    \* [Task -> Seq]: the parent's turns when the task was made
  session,      \* [Provider -> Nat]: 0 none, else the epoch it began in
  \* --- in memory: the main turn and the /reset in progress
  stage,        \* what relay_turn does next
  turn,         \* its local variables
  resetting,    \* the provider whose session /reset has deleted
  \* --- history
  briefed,      \* providers whose session got the main history it began with
  lastReset,    \* [Provider -> Nat]: the epoch its last /reset began
  done          \* task completions so far

context == <<epoch, turns, handoffs, nextHandoff, delivered>>
tasks == <<parentEpoch, inherited, done>>
vars == <<epoch, turns, handoffs, nextHandoff, delivered, parentEpoch,
          inherited, session, stage, turn, resetting, briefed, lastReset, done>>

Entry == [from : Task \cup {Main}, of : Nat]
Handoff == [id : Nat, from : Task, of : Nat]
Stage == {"idle", "create", "prompt", "run", "acknowledge", "complete"}
Turn == [provider : Provider, epoch : Nat, through : Nat, fresh : BOOLEAN,
         history : BOOLEAN, carried : SUBSET Nat]

Init ==
  /\ epoch = 1
  /\ turns = <<>>
  /\ handoffs = <<>>
  /\ nextHandoff = 0
  /\ delivered = [p \in Provider |-> 0]
  /\ parentEpoch = [T \in Task |-> 0]
  /\ inherited = [T \in Task |-> <<>>]
  /\ session = [p \in Provider |-> 0]
  /\ stage = "idle"
  /\ \E p \in Provider : turn = [provider |-> p, epoch |-> 1, through |-> 0,
                                 fresh |-> TRUE, history |-> FALSE, carried |-> {}]
  /\ resetting = {}
  /\ briefed = {}
  /\ lastReset = [p \in Provider |-> 1]
  /\ done = 0
-----------------------------------------------------------------------------
\* _append keeps the last entries, and fewer when they are long (MAX_CHARS).
Appended(s, e) ==
  LET all == Append(s, e) IN
  {SubSeq(all, i, Len(all)) : i \in {n \in 1..Len(all) + 1 : n > Len(all) - Keep}}

\* handoffs[-8:]
LastOf(s) == IF Len(s) > Keep THEN SubSeq(s, Len(s) - Keep + 1, Len(s)) ELSE s

\* mutant: the task's epoch is not compared.
Current_Always(e) == TRUE

\* A late result of an older generation is dropped.
Current(e) == epoch = e

-----------------------------------------------------------------------------
(* relay_turn *)

\* context.snapshot, before the provider does anything; the session is read
\* later in the code, but only this turn can change it.
StartTurn(p) ==
  LET fresh == session[p] = 0 IN
  /\ stage = "idle"
  /\ resetting = {}
  /\ turn' = [provider |-> p, epoch |-> epoch, through |-> nextHandoff,
              fresh |-> fresh, history |-> FALSE, carried |-> {}]
  /\ stage' = IF fresh /\ p \in Early THEN "create" ELSE "prompt"
  /\ UNCHANGED <<context, tasks, session, resetting, briefed, lastReset>>

\* create-chat (Cursor) or thread/start (Codex app-server) makes a session,
\* stored at once; it may fail before or the turn may end right after.  (The
\* app-server's prompt is built before, of the same history.)
CreateSession ==
  LET p == turn.provider IN
  /\ stage = "create"
  /\ \/ /\ session' = [session EXCEPT ![p] = turn.epoch]
        /\ briefed' = IF \E i \in DOMAIN turns : turns[i].from = Main
                      THEN briefed \ {p} ELSE briefed \cup {p}
        /\ stage' \in {"prompt", "idle"}
     \/ /\ UNCHANGED <<session, briefed>>
        /\ stage' = "idle"
  /\ UNCHANGED <<context, tasks, turn, resetting, lastReset>>

\* The task results the provider's session has not acknowledged.
Unseen(p) == {handoffs[i].id : i \in DOMAIN handoffs} \ 0..delivered[p]

\* mutant: include_history is negated.
BuildPrompt_Negated ==
  /\ stage = "prompt"
  /\ stage' = "run"
  /\ turn' = [turn EXCEPT !.history = ~turn.fresh,
                           !.carried = IF turn.fresh THEN Unseen(turn.provider) ELSE {}]
  /\ UNCHANGED <<context, tasks, session, resetting, briefed, lastReset>>

\* context.prompt: a new session gets the history, a resumed one the unseen
\* task results.
BuildPrompt ==
  /\ stage = "prompt"
  /\ stage' = "run"
  /\ turn' = [turn EXCEPT !.history = turn.fresh,
                           !.carried = IF turn.fresh THEN {} ELSE Unseen(turn.provider)]
  /\ UNCHANGED <<context, tasks, session, resetting, briefed, lastReset>>

\* The CLI ends, with return code 0 or without.  A session that is only known
\* from the output is stored now, if the output names it; one that was stored
\* before may be left without its first prompt by a failure.
ProviderEnds ==
  LET p == turn.provider
      late == turn.fresh /\ p \notin Early
      told == IF turn.history THEN briefed \cup {p} ELSE briefed \ {p} IN
  /\ stage = "run"
  /\ stage' \in {"acknowledge", "idle"}
  /\ \/ /\ late
        /\ session' = [session EXCEPT ![p] = turn.epoch]
        /\ briefed' = told
     \/ /\ turn.fresh /\ ~late
        /\ briefed' = told
        /\ UNCHANGED session
     \/ /\ turn.fresh => late \/ stage' = "idle"
        /\ UNCHANGED <<session, briefed>>
  /\ UNCHANGED <<context, tasks, turn, resetting, lastReset>>

\* mutant: the cursor moves to the newest result instead of the snapshot's.
Acknowledge_Newest ==
  LET p == turn.provider IN
  /\ stage = "acknowledge"
  /\ stage' = "complete"
  /\ IF nextHandoff # 0 /\ Current(turn.epoch)
     THEN delivered' = [delivered EXCEPT ![p] = nextHandoff]
     ELSE UNCHANGED delivered
  /\ UNCHANGED <<epoch, turns, handoffs, nextHandoff, tasks, session, turn,
                 resetting, briefed, lastReset>>

\* mutant: no early return for an empty stream, and one short.
Acknowledge_OneShort ==
  LET p == turn.provider IN
  /\ stage = "acknowledge"
  /\ stage' = "complete"
  /\ delivered' = [delivered EXCEPT ![p] = turn.through - 1]
  /\ UNCHANGED <<epoch, turns, handoffs, nextHandoff, tasks, session, turn,
                 resetting, briefed, lastReset>>

\* context.acknowledge: the provider has what the snapshot saw.
Acknowledge ==
  LET p == turn.provider IN
  /\ stage = "acknowledge"
  /\ stage' = "complete"
  /\ IF turn.through > delivered[p] /\ Current(turn.epoch)
     THEN delivered' = [delivered EXCEPT ![p] = turn.through]
     ELSE UNCHANGED delivered
  /\ UNCHANGED <<epoch, turns, handoffs, nextHandoff, tasks, session, turn,
                 resetting, briefed, lastReset>>

\* context.complete of the main turn.
Complete ==
  /\ stage = "complete"
  /\ stage' = "idle"
  /\ IF Current(turn.epoch)
     THEN turns' \in Appended(turns, [from |-> Main, of |-> turn.epoch])
     ELSE UNCHANGED turns
  /\ UNCHANGED <<epoch, handoffs, nextHandoff, delivered, tasks, session, turn,
                 resetting, briefed, lastReset>>

-----------------------------------------------------------------------------
(* Tasks, /reset and crashes. *)

\* bind_task, in the /task new handler.
BindTask(T) ==
  /\ resetting = {}
  /\ parentEpoch[T] = 0
  /\ parentEpoch' = [parentEpoch EXCEPT ![T] = epoch]
  /\ inherited' = [inherited EXCEPT ![T] = turns]
  /\ UNCHANGED <<context, session, stage, turn, resetting, briefed, lastReset, done>>

\* A turn of the task succeeded: complete also tells the parent, unless it was
\* reset.
TaskCompletes(T) ==
  /\ parentEpoch[T] # 0
  /\ done < MaxDone
  /\ done' = done + 1
  /\ IF Current(parentEpoch[T])
     THEN /\ turns' \in Appended(turns, [from |-> T, of |-> parentEpoch[T]])
          /\ nextHandoff' = nextHandoff + 1
          /\ handoffs' = LastOf(Append(handoffs,
               [id |-> nextHandoff + 1, from |-> T, of |-> parentEpoch[T]]))
     ELSE UNCHANGED <<turns, nextHandoff, handoffs>>
  /\ UNCHANGED <<epoch, delivered, parentEpoch, inherited, session, stage, turn,
                 resetting, briefed, lastReset>>

\* mutant: /reset does not look for a turn in progress.
ResetAllowed_Always == resetting = {}

\* _cmd_reset is refused while the conversation is active; between its two
\* halves the event loop runs no other handler.
ResetAllowed == stage = "idle" /\ resetting = {}

\* _cmd_reset: the session of the current provider is deleted ...
ResetSession(p) ==
  /\ ResetAllowed
  /\ epoch < MaxEpoch
  /\ session' = [session EXCEPT ![p] = 0]
  /\ resetting' = {p}
  /\ UNCHANGED <<context, tasks, stage, turn, briefed, lastReset>>

\* reset: a new generation without turns, results and numbers.
NewEpoch ==
  /\ resetting # {}
  /\ resetting' = {}
  /\ epoch' = epoch + 1
  /\ turns' = <<>>
  /\ handoffs' = <<>>
  /\ nextHandoff' = 0
  /\ lastReset' = [p \in Provider |-> IF p \in resetting THEN epoch + 1 ELSE lastReset[p]]
  /\ UNCHANGED <<tasks, session, stage, turn, briefed>>

\* mutant: the cursors stay.
ResetContext_KeepsCursors == NewEpoch /\ UNCHANGED delivered

\* ... and then the context starts over.
ResetContext == NewEpoch /\ delivered' = [p \in Provider |-> 0]

\* The process dies in the middle of a turn or a reset.
Crash ==
  /\ stage # "idle" \/ resetting # {}
  /\ stage' = "idle"
  /\ resetting' = {}
  /\ UNCHANGED <<context, tasks, session, turn, briefed, lastReset>>

Next ==
  \/ \E p \in Provider : StartTurn(p) \/ ResetSession(p)
  \/ CreateSession \/ BuildPrompt \/ ProviderEnds \/ Acknowledge \/ Complete
  \/ \E T \in Task : BindTask(T) \/ TaskCompletes(T)
  \/ ResetContext
  \/ Crash

Spec == Init /\ [][Next]_vars
-----------------------------------------------------------------------------
\* Every variable keeps its shape.
TypeOK ==
  /\ epoch \in Nat
  /\ turns \in Seq(Entry)
  /\ handoffs \in Seq(Handoff)
  /\ nextHandoff \in Nat
  /\ delivered \in [Provider -> Nat]
  /\ parentEpoch \in [Task -> Nat]
  /\ inherited \in [Task -> Seq(Entry)]
  /\ session \in [Provider -> Nat]
  /\ stage \in Stage
  /\ turn \in Turn
  /\ resetting \subseteq Provider
  /\ briefed \subseteq Provider
  /\ lastReset \in [Provider -> Nat]
  /\ done \in Nat

\* What a conversation remembers is of its own generation: a main turn or a task
\* that finishes after /reset brings nothing of the old one back, and a task
\* inherits from one generation only (docs/task-isolation.md:51, :62).
OfEpoch(s, e) == \A i \in DOMAIN s : s[i].of = e
EpochsDoNotMix ==
  /\ OfEpoch(turns, epoch)
  /\ OfEpoch(handoffs, epoch)
  /\ \A T \in Task : OfEpoch(inherited[T], parentEpoch[T])

\* No cursor is ahead of the numbers given: it would hide the next results of
\* that many tasks (conversation_context.py acknowledge, reset).
CursorWithinIssued == \A p \in Provider : delivered[p] <= nextHandoff

\* Once reset, a provider never resumes a session of the reset conversation
\* ("the next message opens a new session", telegram_bot.py:769).
ResetSticks ==
  \A p \in Provider : session[p] # 0 => session[p] >= lastReset[p]

\* A resumed session's cursor only passes a task result that is still kept if
\* the turn's prompt carried it, whatever finished between the snapshot, the
\* prompt and the acknowledgement (docs/task-isolation.md:58, "marked delivered
\* only after successful execution").
AckCoversPrompt ==
  [][\A p \in Provider, i \in DOMAIN handoffs :
       /\ delivered[p] < handoffs[i].id
       /\ handoffs[i].id <= delivered'[p]
       => turn.fresh \/ handoffs[i].id \in turn.carried]_vars

\* The session a successful turn ran in got the conversation's history when it
\* was new (docs/task-isolation.md:57, "a new CLI session receives the complete
\* bounded snapshot"), for the providers that learn the session's id from its
\* output.  (One that is stored before its first prompt may miss it.)
Informed(p) == stage = "acknowledge" /\ turn.provider = p /\ session[p] # 0 => p \in briefed
LateSessionGetsSnapshot == \A p \in Provider \ Early : Informed(p)
=============================================================================
