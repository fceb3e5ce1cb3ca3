----------------------------- MODULE TurnControl -----------------------------
(***************************************************************************)
(* Stopping and correcting the running turn of one conversation:           *)
(* process_control.py, codex_app_server.py and the /stop, /force and reply *)
(* handlers of telegram_bot.py.                                            *)
(*                                                                         *)
(* Three threads of control meet here.  The handlers run on the bot's      *)
(* event loop, the turn runs in a worker thread (CLI process) or as a      *)
(* coroutine of the client's own loop (app-server), and the app-server is  *)
(* another process that reads its requests in order.  An interrupt latch,  *)
(* set before anything is known to run, is what ties them.                 *)
(*                                                                         *)
(* The durable rows, the queue limit, tasks and crashes of the bot are in  *)
(* RelayScheduler, where a command is one step.  Here it is as many steps  *)
(* as it has awaits.                                                       *)
(***************************************************************************)
EXTENDS Naturals, Sequences, FiniteSets

CONSTANTS
  Cmd,         \* Telegram updates of the run
  Mixes,       \* the sets of updates considered: functions [Cmd -> Kinds]
  Transports,  \* the transports the backend of the conversation may have
  NoTurn,
  MaxFaults    \* bound: calls and turns that exceed their timeout, and deaths of
               \* the app-server process

Kinds == {"plain", "reply", "force", "stop"}

ASSUME TurnControlAssumption ==
  /\ Mixes \subseteq [Cmd -> Kinds]
  /\ Transports \subseteq {"cli", "app-server"}
  /\ MaxFaults \in Nat

Turn == Cmd \X {"own", "recovery"}
OwnTurn(c) == <<c, "own">>
Cancelled(t) == <<t, "cancelled">>
Caller == Turn \cup {Cancelled(t) : t \in Turn} \cup Cmd
Method == {"turn/start", "turn/steer", "turn/interrupt"}
Request == [from : Caller, method : Method, turn : Turn]

ASSUME NoTurnAssumption == NoTurn \notin Turn

\* A command is not taken for a turn or for the coroutine of one.
ASSUME CallerAssumption ==
  \A c \in Cmd : c \notin Turn /\ \A t \in Turn : c # Cancelled(t)

VARIABLES
  kind,        \* what the update is
  transport,   \* TGR_CODEX_TRANSPORT; "cli" stands for every subprocess provider
  \* --- the bot: its event loop
  queue,       \* _PENDING_TURNS[key]
  active,      \* the turn of _ACTIVE_PARENT_BACKENDS[key]
  drain,       \* _QUEUE_DRAIN_TASKS[key] is there
  handler,     \* [Cmd -> Handler]: where the update's handler is
  \* --- the turn
  stage,       \* where the provider call of `active` is
  latch,       \* key \in process_control._requested
  process,     \* process_control._active[key]: the CLI process
  registered,  \* client.active_turns[key]
  \* --- requests to the app-server
  call,        \* [Caller -> the method awaited, or its answer]
  wire,        \* stdin of the app-server
  \* --- the app-server
  server,      \* [Turn -> state]
  faults,
  \* --- history
  aim,         \* [Cmd -> Turn]: what ran when a /stop or /force was read
  missed,      \* commands that acted when that turn was over
  struck,      \* turns that were interrupted
  overdue,     \* turns that reached their timeout
  cut,         \* turns that reached the outer bound
  begun,       \* turns that became active
  fed,         \* prompts that entered a running turn
  unsure,      \* commands whose steer got no answer from the server
  orphaned     \* turns whose turn/start got its answer too late

bot == <<queue, active, drain, handler>>
turn == <<stage, latch, process, registered>>
serverVars == <<server, faults>>
setting == <<kind, transport>>
history == <<aim, missed, struck, overdue, cut, begun, fed, unsure, orphaned>>
vars == <<setting, bot, turn, call, wire, serverVars, history>>

Handler == {"new", "steer", "steering", "unsteered", "signal", "signalling",
            "ack", "done"}
Stage == {"idle", "connecting", "starting", "checking", "honouring", "watching",
          "expiring", "spawning", "tracked", "ended"}

Init ==
  /\ kind \in Mixes /\ transport \in Transports
  /\ queue = <<>> /\ active = NoTurn /\ drain = FALSE
  /\ handler = [c \in Cmd |-> "new"]
  /\ stage = "idle" /\ latch = FALSE /\ process = "none" /\ registered = NoTurn
  /\ call = [x \in Caller |-> "none"]
  /\ wire = <<>>
  /\ server = [t \in Turn |-> "none"]
  /\ faults = 0
  /\ aim = [c \in Cmd |-> NoTurn]
  /\ missed = {} /\ struck = {} /\ overdue = {} /\ cut = {} /\ begun = {}
  /\ fed = {} /\ unsure = {} /\ orphaned = {}
-----------------------------------------------------------------------------
(* The conversation's queue *)

Goes(c, pc) == handler' = [handler EXCEPT ![c] = pc]

\* _run_direct_turn up to the provider call.
Begin(t, q) ==
  /\ queue' = q
  /\ active' = t
  /\ stage' = IF transport = "cli" THEN "spawning" ELSE "connecting"
  /\ begun' = begun \cup {t}

\* The end of _on_message: run now or wait.
TakeMessage(c) ==
  /\ IF active = NoTurn /\ queue = <<>>
     THEN /\ Begin(OwnTurn(c), queue)
          /\ Goes(c, "done")
     ELSE /\ queue' = Append(queue, OwnTurn(c))
          /\ Goes(c, "ack")
          /\ UNCHANGED <<active, stage, begun>>
  /\ UNCHANGED <<setting, drain, latch, process, registered, call, wire, serverVars,
                 aim, missed, struck, overdue, cut, fed, unsure, orphaned>>

\* mutant: nothing wakes the queue.
Woken_Not == drain

\* _schedule_queue_drain.
Woken == TRUE

\* After the last reply of a handler that queued something.
Acknowledge(c) ==
  /\ handler[c] = "ack"
  /\ Goes(c, "done")
  /\ drain' = Woken
  /\ UNCHANGED <<setting, queue, active, turn, call, wire, serverVars, history>>

\* _drain_thread_queue, one round.
Drain ==
  /\ drain
  /\ IF active = NoTurn /\ queue # <<>>
     THEN Begin(Head(queue), Tail(queue)) /\ UNCHANGED drain
     ELSE drain' = FALSE /\ UNCHANGED <<queue, active, stage, begun>>
  /\ UNCHANGED <<setting, handler, latch, process, registered, call, wire, serverVars,
                 aim, missed, struck, overdue, cut, fed, unsure, orphaned>>

\* mutant: the latch of the turn stays.
LatchAfter_Kept == latch

\* clear_interrupt in the finally of _run_direct_turn.
LatchAfter == FALSE

\* A timed-out turn is recovered once, unless a command interrupted it.
Recovers(t) == t \in overdue /\ t[2] = "own" /\ ~latch

\* _run_direct_turn from the provider's result on.
Release ==
  /\ stage = "ended"
  /\ queue' = IF Recovers(active) THEN <<<<active[1], "recovery">>>> \o queue ELSE queue
  /\ active' = NoTurn
  /\ drain' = TRUE
  /\ stage' = "idle"
  /\ latch' = LatchAfter
  /\ UNCHANGED <<setting, handler, process, registered, call, wire, serverVars, history>>
-----------------------------------------------------------------------------
(* Requests *)

Sends(x, m, t) ==
  /\ call' = [call EXCEPT ![x] = m]
  /\ wire' = Append(wire, [from |-> x, method |-> m, turn |-> t])

\* The waiter of a request leaves; a late answer finds nobody.
Hangup(x) == call' = [call EXCEPT ![x] = "none"]

Answered(x) == call[x] \in {"ok", "error"}

\* wait_for(future, timeout) expires.
Expires(x, m) ==
  /\ call[x] = m
  /\ faults < MaxFaults
  /\ faults' = faults + 1
-----------------------------------------------------------------------------
(* The turn as a coroutine of the app-server client *)

\* start, thread/resume or thread/start, subscribe, and turn/start on the wire.
\* Each of them may fail.
Connect ==
  /\ stage = "connecting"
  /\ \/ /\ stage' = "starting"
        /\ Sends(active, "turn/start", active)
     \/ /\ stage' = "ended"
        /\ UNCHANGED <<call, wire>>
  /\ UNCHANGED <<setting, bot, latch, process, registered, serverVars, history>>

\* Line 254.  An error leaves _run_turn.
Started ==
  /\ stage = "starting"
  /\ Answered(active)
  /\ IF call[active] = "ok"
     THEN stage' = "checking" /\ registered' = active
     ELSE stage' = "ended" /\ UNCHANGED registered
  /\ Hangup(active)
  /\ UNCHANGED <<setting, bot, latch, process, wire, serverVars, history>>

StartTooLate ==
  /\ stage = "starting"
  /\ Expires(active, "turn/start")
  /\ Hangup(active)
  /\ stage' = "ended"
  /\ orphaned' = orphaned \cup {active}
  /\ UNCHANGED <<setting, bot, latch, process, registered, wire, server,
                 aim, missed, struck, overdue, cut, begun, fed, unsure>>

\* mutant: the latch was read earlier, when the turn was asked for.
SeesLatch_Never == FALSE

SeesLatch == latch

\* Line 256: /stop may have come while the turn was being started.
CheckLatch ==
  /\ stage = "checking"
  /\ IF SeesLatch
     THEN stage' = "honouring" /\ Sends(active, "turn/interrupt", active)
     ELSE stage' = "watching" /\ UNCHANGED <<call, wire>>
  /\ UNCHANGED <<setting, bot, latch, process, registered, serverVars, history>>

\* The finally of _run_turn: the entry goes, if it is still this turn's.
EntryAfter(t) == IF registered = t THEN NoTurn ELSE registered

\* mutant: the entry stays.
Leaves_Entry ==
  /\ stage' = "ended"
  /\ UNCHANGED registered

\* _run_turn ends.
Leaves ==
  /\ stage' = "ended"
  /\ registered' = EntryAfter(active)

\* The interrupt of line 257 is answered, or its error or timeout leaves.
Honoured ==
  /\ stage = "honouring"
  /\ Answered(active)
  /\ IF call[active] = "ok" THEN stage' = "watching" /\ UNCHANGED registered
     ELSE Leaves
  /\ Hangup(active)
  /\ UNCHANGED <<setting, bot, latch, process, wire, serverVars, history>>

HonourTooLate ==
  /\ stage = "honouring"
  /\ Expires(active, "turn/interrupt")
  /\ Hangup(active)
  /\ Leaves
  /\ UNCHANGED <<setting, bot, latch, process, wire, server, history>>

\* receive(): turn/completed of this turn, or relay/disconnected.
Completed ==
  /\ stage = "watching"
  /\ server[active] \in {"completed", "interrupted", "lost"}
  /\ Leaves
  /\ UNCHANGED <<setting, bot, latch, process, call, wire, serverVars, history>>

\* mutant: a turn that exceeds its time is left alone.
Expiry_Silent == UNCHANGED <<call, wire>>

Expiry == Sends(active, "turn/interrupt", active)

\* The turn exceeds its time; the answer to its interrupt is not used.
TurnExpires ==
  /\ stage = "watching"
  /\ faults < MaxFaults
  /\ faults' = faults + 1
  /\ overdue' = overdue \cup {active}
  /\ Expiry
  /\ stage' = "expiring"
  /\ UNCHANGED <<setting, bot, latch, process, registered, server,
                 aim, missed, struck, cut, begun, fed, unsure, orphaned>>

Expired ==
  /\ stage = "expiring"
  /\ \/ call[active] # "turn/interrupt" /\ UNCHANGED faults
     \/ Expires(active, "turn/interrupt")
  /\ Hangup(active)
  /\ Leaves
  /\ UNCHANGED <<setting, bot, latch, process, wire, server, history>>
-----------------------------------------------------------------------------
(* The outer bound of a turn on the app-server *)

\* run: the worker has waited timeout + 90 seconds, for start, resume and turn/start
\* have bounds of their own.  It reports an error and cancels the coroutine, which
\* interrupts its turn if it knows the id; a started turn whose answer it has not
\* read runs on.
OuterBound ==
  /\ stage \in {"connecting", "starting", "honouring", "watching", "expiring"}
  /\ faults < MaxFaults
  /\ faults' = faults + 1
  /\ cut' = cut \cup {active}
  /\ orphaned' = IF stage = "starting" THEN orphaned \cup {active} ELSE orphaned
  /\ IF stage \in {"connecting", "starting"}
     THEN Hangup(active) /\ UNCHANGED wire
     ELSE LET self == Cancelled(active) IN
          /\ call' = [call EXCEPT ![active] = "none", ![self] = "turn/interrupt"]
          /\ wire' = Append(wire, [from |-> self, method |-> "turn/interrupt", turn |-> active])
  /\ stage' = "ended"
  /\ UNCHANGED <<setting, bot, latch, process, registered, server,
                 aim, missed, struck, overdue, begun, fed, unsure>>

\* The cancelled coroutine has its answer, ten seconds after its turn was released
\* at the latest.
CancelEnds(t) ==
  /\ \/ Answered(Cancelled(t)) /\ UNCHANGED faults
     \/ Expires(Cancelled(t), "turn/interrupt")
  /\ Hangup(Cancelled(t))
  /\ registered' = EntryAfter(t)
  /\ UNCHANGED <<setting, bot, stage, latch, process, wire, server, history>>
-----------------------------------------------------------------------------
(* The turn as a CLI process *)

\* tracked_process reads the latch under the lock that enters the process.
Tracked == IF latch THEN "signalled" ELSE "running"

Spawn ==
  /\ stage = "spawning"
  /\ process' = Tracked
  /\ struck' = IF process' = "signalled" THEN struck \cup {active} ELSE struck
  /\ stage' = "tracked"
  /\ UNCHANGED <<setting, bot, latch, registered, call, wire, serverVars,
                 aim, missed, overdue, cut, begun, fed, unsure, orphaned>>

SpawnFails ==
  /\ stage = "spawning"
  /\ stage' = "ended"
  /\ UNCHANGED <<setting, bot, latch, process, registered, call, wire, serverVars, history>>

\* communicate times out: _terminate, then wait for the end.
CliExpires ==
  /\ stage = "tracked" /\ process = "running"
  /\ faults < MaxFaults
  /\ faults' = faults + 1
  /\ process' = "signalled"
  /\ overdue' = overdue \cup {active}
  /\ UNCHANGED <<setting, bot, stage, latch, registered, call, wire, server,
                 aim, missed, struck, cut, begun, fed, unsure, orphaned>>

\* The process ends by itself, by SIGTERM, or three seconds later by SIGKILL.
CliExits ==
  /\ stage = "tracked"
  /\ process' = "none"
  /\ stage' = "ended"
  /\ UNCHANGED <<setting, bot, latch, registered, call, wire, serverVars, history>>
-----------------------------------------------------------------------------
(* The handlers *)

PlainMessage(c) ==
  /\ kind[c] = "plain" /\ handler[c] = "new"
  /\ TakeMessage(c)

\* A reply to a message of the main conversation steers a running turn.
Reply(c) ==
  /\ kind[c] = "reply" /\ handler[c] = "new"
  /\ IF active # NoTurn /\ transport = "app-server"
     THEN /\ Goes(c, "steer")
          /\ UNCHANGED <<setting, queue, active, drain, turn, call, wire, serverVars,
                         history>>
     ELSE TakeMessage(c)

\* _cmd_force up to its first await.
CmdForce(c) ==
  /\ kind[c] = "force" /\ handler[c] = "new"
  /\ Goes(c, IF active = NoTurn THEN "done"
             ELSE IF transport = "app-server" THEN "steer" ELSE "unsteered")
  /\ aim' = [aim EXCEPT ![c] = active]
  /\ UNCHANGED <<setting, queue, active, drain, turn, call, wire, serverVars,
                 missed, struck, overdue, cut, begun, fed, unsure, orphaned>>

\* _steer_active_turn: the entry is read when the client's loop gets to it.
AskSteer(c) ==
  /\ handler[c] = "steer"
  /\ IF registered = NoTurn
     THEN Goes(c, "unsteered") /\ UNCHANGED <<call, wire>>
     ELSE Goes(c, "steering") /\ Sends(c, "turn/steer", registered)
  /\ UNCHANGED <<setting, queue, active, drain, turn, serverVars, history>>

\* mutant: a correction is queued as well, whatever the answer.
Steered_Never(c) == FALSE

Steered(c) == call[c] = "ok"

SteerAnswered(c) ==
  /\ handler[c] = "steering"
  /\ Answered(c)
  /\ Goes(c, IF Steered(c) THEN "done" ELSE "unsteered")
  /\ Hangup(c)
  /\ UNCHANGED <<setting, queue, active, drain, turn, wire, serverVars, history>>

SteerTooLate(c) ==
  /\ handler[c] = "steering"
  /\ Expires(c, "turn/steer")
  /\ Hangup(c)
  /\ Goes(c, "unsteered")
  /\ unsure' = unsure \cup {c}
  /\ UNCHANGED <<setting, queue, active, drain, turn, wire, server,
                 aim, missed, struck, overdue, cut, begun, fed, orphaned>>

UnsteeredReply(c) ==
  /\ kind[c] = "reply" /\ handler[c] = "unsteered"
  /\ TakeMessage(c)

\* request_interrupt: latch the stop, and signal the process that is tracked.
RequestInterrupt ==
  /\ latch' = TRUE
  /\ IF process = "none" THEN UNCHANGED <<process, struck>>
     ELSE process' = "signalled" /\ struck' = struck \cup {active}

AfterLatch == IF transport = "app-server" THEN "signal" ELSE "ack"

\* The rest of _cmd_force: first in the queue, then the interrupt.
UnsteeredForce(c) ==
  /\ kind[c] = "force" /\ handler[c] = "unsteered"
  /\ queue' = <<OwnTurn(c)>> \o queue
  /\ RequestInterrupt
  /\ Goes(c, AfterLatch)
  /\ missed' = IF active = aim[c] THEN missed ELSE missed \cup {c}
  /\ UNCHANGED <<setting, active, drain, stage, registered, call, wire, serverVars,
                 aim, overdue, cut, begun, fed, unsure, orphaned>>

Stop(c) ==
  /\ kind[c] = "stop" /\ handler[c] = "new"
  /\ IF active = NoTurn
     THEN Goes(c, "done") /\ UNCHANGED <<latch, process, struck, aim>>
     ELSE /\ RequestInterrupt
          /\ aim' = [aim EXCEPT ![c] = active]
          /\ Goes(c, IF transport = "app-server" THEN "signal" ELSE "done")
  /\ UNCHANGED <<setting, queue, active, drain, stage, registered, call, wire, serverVars,
                 missed, overdue, cut, begun, fed, unsure, orphaned>>

\* What the handler does when its interrupt is over.
AfterSignal(c) == IF kind[c] = "force" THEN "ack" ELSE "done"

\* _interrupt_active_turn, on the client's loop as well.
AskInterrupt(c) ==
  /\ handler[c] = "signal"
  /\ IF registered = NoTurn
     THEN Goes(c, AfterSignal(c)) /\ UNCHANGED <<call, wire>>
     ELSE Goes(c, "signalling") /\ Sends(c, "turn/interrupt", registered)
  /\ missed' = IF registered \in {NoTurn, aim[c]} \cup cut THEN missed ELSE missed \cup {c}
  /\ UNCHANGED <<setting, queue, active, drain, turn, serverVars,
                 aim, struck, overdue, cut, begun, fed, unsure, orphaned>>

SignalDone(c) ==
  /\ handler[c] = "signalling"
  /\ \/ Answered(c) /\ UNCHANGED faults
     \/ Expires(c, "turn/interrupt")
  /\ Hangup(c)
  /\ Goes(c, AfterSignal(c))
  /\ UNCHANGED <<setting, queue, active, drain, turn, wire, server, history>>
-----------------------------------------------------------------------------
(* The app-server, as the client uses it *)

\* turn/start may be refused; the two others need the turn they name.
Accepts(r) ==
  IF r.method = "turn/start" THEN {TRUE, FALSE} ELSE {server[r.turn] = "running"}

Serve ==
  /\ wire # <<>>
  /\ wire' = Tail(wire)
  /\ LET r == Head(wire) IN \E ok \in Accepts(r) :
       /\ call' = IF call[r.from] = r.method
                  THEN [call EXCEPT ![r.from] = IF ok THEN "ok" ELSE "error"]
                  ELSE call
       /\ server' = IF ok /\ r.method # "turn/steer"
                    THEN [server EXCEPT ![r.turn] =
                            IF r.method = "turn/start" THEN "running" ELSE "interrupted"]
                    ELSE server
       /\ struck' = IF ok /\ r.method = "turn/interrupt" THEN struck \cup {r.turn}
                    ELSE struck
       /\ fed' = IF ok /\ r.method = "turn/steer" THEN fed \cup {r.from} ELSE fed
  /\ UNCHANGED <<setting, bot, turn, faults,
                 aim, missed, overdue, cut, begun, unsure, orphaned>>

ServerCompletes(t) ==
  /\ server[t] = "running"
  /\ server' = [server EXCEPT ![t] = "completed"]
  /\ UNCHANGED <<setting, bot, turn, call, wire, faults, history>>

\* The process ends.  _read empties active_turns and fails what is pending, also
\* what was served and whose answer was not read.  The next request starts another
\* process, that knows none of the turns.
ServerDies ==
  /\ faults < MaxFaults
  /\ faults' = faults + 1
  /\ \E unread \in SUBSET {x \in Caller : call[x] = "ok"} :
       LET failed == unread \cup {x \in Caller : call[x] \in Method} IN
       /\ call' = [x \in Caller |-> IF x \in failed THEN "error" ELSE call[x]]
       /\ unsure' = unsure \cup {c \in Cmd \cap failed : handler[c] = "steering"}
  /\ wire' = <<>>
  /\ server' = [t \in Turn |-> IF server[t] = "running" THEN "lost" ELSE server[t]]
  /\ registered' = NoTurn
  /\ UNCHANGED <<setting, bot, stage, latch, process,
                 aim, missed, struck, overdue, cut, begun, fed, orphaned>>
-----------------------------------------------------------------------------
NewUpdate(c) == PlainMessage(c) \/ Reply(c) \/ CmdForce(c) \/ Stop(c)

HandlerStep(c) ==
  \/ AskSteer(c) \/ SteerAnswered(c) \/ UnsteeredReply(c) \/ UnsteeredForce(c)
  \/ AskInterrupt(c) \/ SignalDone(c) \/ Acknowledge(c)

AppTurnStep ==
  \/ Connect \/ Started \/ CheckLatch \/ Honoured \/ Completed \/ Expired

CliTurnStep == Spawn \/ SpawnFails \/ (process = "signalled" /\ CliExits)

Next ==
  \/ \E c \in Cmd : NewUpdate(c) \/ HandlerStep(c) \/ SteerTooLate(c)
  \/ AppTurnStep \/ StartTooLate \/ HonourTooLate \/ TurnExpires \/ OuterBound
  \/ \E t \in Turn : CancelEnds(t)
  \/ Spawn \/ SpawnFails \/ CliExpires \/ CliExits
  \/ Drain \/ Release
  \/ Serve \/ (\E t \in Turn : ServerCompletes(t)) \/ ServerDies

Spec == Init /\ [][Next]_vars

\* The turn is one thread of control, whose steps exclude each other.
\* The loops run what is ready, the app-server reads its requests and answers,
\* and a signalled process ends (SIGKILL).  Nothing is assumed of users, of
\* timeouts, or of a turn that nobody interrupts: it may run for ever.
Fairness ==
  /\ \A c \in Cmd : WF_vars(HandlerStep(c))
  /\ WF_vars(AppTurnStep \/ CliTurnStep \/ Release)
  /\ WF_vars(\E t \in Turn : CancelEnds(t))
  /\ WF_vars(Drain)
  /\ WF_vars(Serve)

FairSpec == Spec /\ Fairness
-----------------------------------------------------------------------------
(* Properties *)

\* Every variable has its type, and the client's entry, the process and the
\* stage of the turn agree: an entry or a process is the active turn's and is gone
\* when that turn is released (codex_app_server.py:317, process_control.py:84), but
\* for the entry of a cancelled turn, which waits for the answer to its interrupt.
TypeOK ==
  /\ kind \in [Cmd -> Kinds] /\ transport \in Transports
  /\ queue \in Seq(Turn) /\ active \in Turn \cup {NoTurn}
  /\ drain \in BOOLEAN /\ latch \in BOOLEAN
  /\ handler \in [Cmd -> Handler] /\ stage \in Stage
  /\ process \in {"none", "running", "signalled"}
  /\ registered \in Turn \cup {NoTurn}
  /\ call \in [Caller -> Method \cup {"none", "ok", "error"}]
  /\ wire \in Seq(Request)
  /\ server \in [Turn -> {"none", "running", "completed", "interrupted", "lost"}]
  /\ faults \in 0..MaxFaults
  /\ aim \in [Cmd -> Turn \cup {NoTurn}]
  /\ missed \subseteq Cmd /\ fed \subseteq Cmd /\ unsure \subseteq Cmd
  /\ struck \subseteq Turn /\ overdue \subseteq Turn /\ cut \subseteq Turn
  /\ begun \subseteq Turn /\ orphaned \subseteq Turn
  /\ (stage = "idle") <=> (active = NoTurn)
  /\ registered # NoTurn =>
       \/ registered = active /\ stage \in {"checking", "honouring", "watching", "expiring"}
       \/ call[Cancelled(registered)] # "none"
  /\ process # "none" <=> stage = "tracked"

\* The app-server runs one turn of the conversation at a time: an interrupt that
\* nobody waits for is still ahead of the next turn/start.  The exception is a
\* turn/start whose answer came after its minute or after the outer bound: Relay
\* has given up a turn that then runs.
OneTurnOnServer ==
  \A t, u \in Turn \ orphaned :
    server[t] = "running" /\ server[u] = "running" => t = u

\* A turn is interrupted because a /stop or /force was sent while it ran, because
\* it exceeded its time or the outer bound, or by a command whose own turn was over when it acted
\* (telegram_bot.py:679, 721).  The latch of one turn never reaches the next.
InterruptIsAimed ==
  missed = {} => \A t \in struck : t \in overdue \cup cut \/ \E c \in Cmd : aim[c] = t

\* A correction is both in the running turn and in a turn of its own only if the
\* answer to its steer was lost or came after eight seconds (codex_app_server.py:344).
SteeredOrQueued ==
  \A c \in fed : OwnTurn(c) \in begun \/ OwnTurn(c) \in {queue[i] : i \in DOMAIN queue}
    => c \in unsure

\* README.md:53: /stop ends the running turn, wherever the start of that turn is
\* when the stop arrives, and also when no answer to the interrupt is awaited.
StopEndsTurn ==
  []<>(\A c \in Cmd : kind[c] = "stop" /\ aim[c] # NoTurn => active # aim[c])

\* README.md:109: a /force that found a running turn enters it or gets a turn,
\* even if the running turn would never end.  (Turns do not come back and histories
\* grow, so "always eventually all" is "leads to" for each.)
ForceIsTaken ==
  []<>(\A c \in Cmd : kind[c] = "force" /\ aim[c] # NoTurn
                       => c \in fed \/ OwnTurn(c) \in begun)

\* What process_control.py:56 asks of the callers and does not hold: the latch is
\* gone when its turn is, so that a turn which finds it is a turn that somebody
\* meant.  /force sets it after an await, and its own correction may find it.
LatchMeansThisTurn ==
  stage = "honouring" \/ process = "signalled" =>
    active \in overdue \/ \E c \in Cmd : aim[c] = active
=============================================================================
