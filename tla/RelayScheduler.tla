--------------------------- MODULE RelayScheduler ---------------------------
(***************************************************************************)
(* The turn scheduler of telegram_bot.py over the SQLite intake ledger of  *)
(* durable_queue.py and the task table of task_registry.py.                *)
(*                                                                         *)
(* The bot is one asyncio process, so a handler runs without interruption  *)
(* from one await to the next: each such block is one action here.  The    *)
(* awaits that matter are the Telegram sends (acknowledgements, results,   *)
(* error notices) and asyncio.to_thread(relay_turn), the CLI turn itself.  *)
(* A crash loses every variable of the second group below and keeps the    *)
(* first.  Turn contents, wording, attachments and Codex app-server        *)
(* steering are left out; /force and /stop use the subprocess transport.   *)
(***************************************************************************)
EXTENDS Naturals, Sequences, FiniteSets

CONSTANTS
  Msg,          \* Telegram messages of the run
  Thread,       \* conversation keys (telegram_thread_key)
  ThreadOf,     \* [Msg -> Thread]
  Class,        \* [Msg -> Classes]: which handler the message reaches
  TargetOf,     \* [Msg -> Msg]: the /task new message a follow-up replies to
  NoTask,       \* task_id = None
  QueueLimit,   \* TGR_THREAD_QUEUE_MAX
  MaxCrash      \* bound: process crashes in one behaviour

Classes == {"plain", "force", "new_task", "followup"}

ASSUME SchedulerAssumption ==
  /\ IsFiniteSet(Msg)
  /\ ThreadOf \in [Msg -> Thread]
  /\ Class \in [Msg -> Classes]
  /\ TargetOf \in [Msg -> Msg]
  /\ \A m \in Msg : Class[m] = "followup" =>
        Class[TargetOf[m]] = "new_task" /\ ThreadOf[TargetOf[m]] = ThreadOf[m]
  /\ QueueLimit \in Nat \ {0}
  /\ MaxCrash \in Nat

\* UNIQUE(thread_key, message_id, kind): a message owns one row for itself and
\* at most one for the timeout recovery made from it.
Row == Msg \X {"own", "recovery"}
\* create_task allocates a fresh id on every call: a redelivered /task new
\* (at most one per process incarnation) makes another task.
Task == {m \in Msg : Class[m] = "new_task"} \X (0..MaxCrash)

ASSUME NoTaskAssumption == NoTask \notin Task

\* The in-memory QueuedTurn: its ledger row and its frozen task routing.
Turn == [row : Row, task : Task \cup {NoTask}]
\* one whose task is known
TaskTurn == [row : Row, task : Task]
Job == [turn : TaskTurn, stage : {"ack", "run"}, via : {"handler", "drain"}]

RowStatus == {"none", "queued", "running", "done", "cancelled",
              "needs_review", "reviewed"}
TaskStatus == {"none", "queued", "starting", "running", "completed",
               "failed", "interrupted"}

VARIABLES
  \* --- survives a crash: SQLite, and the updates Telegram still holds
  ledger,     \* [Row -> RowStatus], relay_pending_turns.status
  rowId,      \* [Row -> Nat], AUTOINCREMENT id
  rowTask,    \* [Row -> Task or NoTask], the task_id column
  nextId,     \* next id
  registry,   \* [Task -> TaskStatus], tasks.status
  inbox,      \* messages Telegram has not delivered (or will deliver again)
  \* --- lost in a crash: module globals and coroutines
  up,         \* the process is running
  pending,    \* _PENDING_TURNS: [Thread -> Seq(Turn)]
  followups,  \* _PENDING_TASK_TURNS: [Task -> Seq(Turn)]
  active,     \* _ACTIVE_RELAY_THREADS
  activeJob,  \* _ACTIVE_JOBS: [Thread -> Task or NoTask]
  running,    \* _RUNNING_TASKS
  review,     \* _REVIEW_REQUIRED_THREADS
  latch,      \* process_control._requested
  drain,      \* _QUEUE_DRAIN_TASKS and where each drain coroutine stands
  taskDrain,  \* _TASK_DRAIN_TASKS, likewise
  mainRun,    \* coroutine of _run_direct_turn per row
  jobs,       \* coroutines of _start_background_job/_start_task_followup/_run_background_job
  acking,     \* turns whose "queued" acknowledgement is being sent
  \* --- history
  execs,      \* [Row -> Nat], CLI turns dispatched for a row
  crashes

persistent == <<ledger, rowId, rowTask, nextId>>
queues == <<pending, followups>>
vars == <<ledger, rowId, rowTask, nextId, registry, inbox, up, pending,
          followups, active, activeJob, running, review, latch, drain,
          taskDrain, mainRun, jobs, acking, execs, crashes>>

Key(r) == ThreadOf[r[1]]
IsRecovery(r) == r[2] = "recovery"
KindOf(r) == IF IsRecovery(r) THEN "timeout_recovery" ELSE Class[r[1]]
MainTurn(t) == t.task = NoTask
OwnTurn(m, T) == [row |-> <<m, "own">>, task |-> T]
OccupiesParent(t) == KindOf(t.row) = "new_task"

Init ==
  /\ ledger = [r \in Row |-> "none"]
  /\ rowId = [r \in Row |-> 0]
  /\ rowTask = [r \in Row |-> NoTask]
  /\ nextId = 1
  /\ registry = [T \in Task |-> "none"]
  /\ inbox = Msg
  /\ up = TRUE
  /\ pending = [k \in Thread |-> <<>>]
  /\ followups = [T \in Task |-> <<>>]
  /\ active = {}
  /\ activeJob = [k \in Thread |-> NoTask]
  /\ running = {}
  /\ review = {}
  /\ latch = {}
  /\ drain = [k \in Thread |-> "none"]
  /\ taskDrain = [T \in Task |-> "none"]
  /\ mainRun = [r \in Row |-> "idle"]
  /\ jobs = {}
  /\ acking = {}
  /\ execs = [r \in Row |-> 0]
  /\ crashes = 0
-----------------------------------------------------------------------------
(* DurableQueue: one SQL statement each. *)

\* INSERT ... ON CONFLICT DO NOTHING: a row the message already owns is reused,
\* whatever its status.
AddRow(r, T) ==
  IF ledger[r] = "none"
  THEN /\ rowId' = [rowId EXCEPT ![r] = nextId]
       /\ rowTask' = [rowTask EXCEPT ![r] = T]
       /\ nextId' = nextId + 1
  ELSE UNCHANGED <<rowId, rowTask, nextId>>

StatusAfterAdd(r) == IF ledger[r] = "none" THEN "queued" ELSE ledger[r]

\* mutant: the WHERE clause only keeps a running row from starting again.
MayStart_AnyClosed(status) == status # "running"

\* start(): UPDATE ... WHERE status = 'queued'.
MayStart(status) == status = "queued"

\* mutant: the restart writes the task table's word into the ledger.
AfterRestart_TaskWord(status) == IF status = "running" THEN "interrupted" ELSE status
\* mutant: interrupted rows are left as they are.
AfterRestart_Skipped(status) == status

\* mark_interrupted_uncertain(), run before anything is replayed.
AfterRestart(status) == IF status = "running" THEN "needs_review" ELSE status

\* mutant: the paused threads are not reloaded.
ReviewThreads_Forgotten(rows) == {}

\* review_threads(): SELECT DISTINCT thread_key WHERE status = 'needs_review'.
ReviewThreads(rows) == {Key(r) : r \in {x \in Row : rows[x] = "needs_review"}}

\* mutant: ORDER BY id alone.
LoadsBefore_IdOnly(r, s) == rowId[r] < rowId[s]

\* load_queued(): recoveries first, then by id.
LoadsBefore(r, s) ==
  \/ IsRecovery(r) /\ ~IsRecovery(s)
  \/ (IsRecovery(r) <=> IsRecovery(s)) /\ rowId[r] < rowId[s]

\* The rows of S as turns, in the order of load_queued.
LoadQueued(S) ==
  LET listings == {q \in [1..Cardinality(S) -> S] :
                     \A i, j \in 1..Cardinality(S) : i < j => LoadsBefore(q[i], q[j])}
      rows == IF listings = {} THEN <<>> ELSE CHOOSE q \in listings : TRUE
  IN [i \in DOMAIN rows |-> [row |-> rows[i], task |-> rowTask[rows[i]]]]

-----------------------------------------------------------------------------
(* Scheduling helpers. *)

\* mutant: append instead of appendleft.
InFront_Appended(t, q) == Append(q, t)

\* deque.appendleft: a correction or a recovery goes before everything waiting.
InFront(t, q) == <<t>> \o q

\* _schedule_queue_drain, _schedule_task_drain: nothing if one is still alive.
Scheduled(d) == IF d = "none" THEN "ready" ELSE d

\* mutant: the session is always thought free.
TaskBusy_Never(T) == FALSE

\* _task_session_busy
TaskBusy(T) == T \in running

\* _pending_parent_turn_for_task
InitialPending(T) ==
  \E k \in Thread : \E i \in DOMAIN pending[k] : pending[k][i].task = T

\* mutant: removes one turn too many.
RemoveAt_Two(q, i) == SubSeq(q, 1, i - 1) \o SubSeq(q, i + 2, Len(q))

RemoveAt(q, i) == SubSeq(q, 1, i - 1) \o SubSeq(q, i + 1, Len(q))

\* _run_direct_turn up to its first await, for a row that is in the ledger with
\* this status: only a row that start() moves to running goes any further.
BeginMain(r, status) ==
  LET k == Key(r) IN
  IF MayStart(status)
  THEN /\ ledger' = [ledger EXCEPT ![r] = "running"]
       /\ active' = active \cup {k}
       /\ mainRun' = [mainRun EXCEPT ![r] = "cli"]
       /\ execs' = [execs EXCEPT ![r] = @ + 1]
  ELSE /\ ledger' = [ledger EXCEPT ![r] = status]
       /\ UNCHANGED <<active, mainRun, execs>>

\* _start_background_job and _start_task_followup up to the acknowledgement:
\* persist, occupy the session (and the parent for an initial request).
BeginJob(t, via) ==
  LET k == Key(t.row) IN
  /\ AddRow(t.row, t.task)
  /\ ledger' = [ledger EXCEPT ![t.row] = StatusAfterAdd(t.row)]
  /\ activeJob' = IF OccupiesParent(t) THEN [activeJob EXCEPT ![k] = t.task]
                                       ELSE activeJob
  /\ running' = running \cup {t.task}
  /\ registry' = [registry EXCEPT ![t.task] = "running"]
  /\ jobs' = jobs \cup {[turn |-> t, stage |-> "ack", via |-> via]}

\* _enqueue_turn: refused when full, otherwise persisted, appended, and its
\* acknowledgement awaited.
EnqueueMain(t) ==
  LET k == Key(t.row) IN
  /\ Len(pending[k]) < QueueLimit
  /\ AddRow(t.row, t.task)
  /\ ledger' = [ledger EXCEPT ![t.row] = StatusAfterAdd(t.row)]
  /\ pending' = [pending EXCEPT ![k] = Append(@, t)]
  /\ acking' = acking \cup {t}

\* _enqueue_task_followup, likewise.
EnqueueFollowup(t) ==
  /\ Len(followups[t.task]) < QueueLimit
  /\ AddRow(t.row, t.task)
  /\ ledger' = [ledger EXCEPT ![t.row] = StatusAfterAdd(t.row)]
  /\ followups' = [followups EXCEPT ![t.task] = Append(@, t)]
  /\ acking' = acking \cup {t}

-----------------------------------------------------------------------------
(* Telegram handlers: each up to its first await. *)

Deliver(m, class) ==
  /\ up
  /\ m \in inbox
  /\ Class[m] = class
  /\ inbox' = inbox \ {m}

\* mutants: one of the three conditions is dropped.
MustWait_NotActive(k) == k \in review \/ pending[k] # <<>>
MustWait_NotReview(k) == k \in active \/ pending[k] # <<>>
MustWait_NotPending(k) == k \in review \/ k \in active

\* The queue an ordinary message must wait behind.
MustWait(k) == k \in review \/ k \in active \/ pending[k] # <<>>

\* _on_message, an ordinary message: run it now or queue it.
OnMessage(m) ==
  LET t == OwnTurn(m, NoTask)
      k == ThreadOf[m] IN
  /\ Deliver(m, "plain")
  /\ \/ /\ MustWait(k)
        /\ EnqueueMain(t)
        /\ UNCHANGED <<active, mainRun, execs>>
     \/ /\ MustWait(k)
        /\ Len(pending[k]) >= QueueLimit
        /\ UNCHANGED <<persistent, pending, acking, active, mainRun, execs>>
     \/ /\ ~MustWait(k)
        /\ AddRow(t.row, NoTask)
        /\ BeginMain(t.row, StatusAfterAdd(t.row))
        /\ UNCHANGED <<pending, acking>>
  /\ UNCHANGED <<registry, up, followups, activeJob, running, review, latch,
                 drain, taskDrain, jobs, crashes>>

\* _cmd_force: queue the correction in front, then latch the interrupt; the
\* drain is scheduled after the reply (AckEnqueued).
CmdForce(m) ==
  LET t == OwnTurn(m, NoTask)
      k == ThreadOf[m] IN
  /\ Deliver(m, "force")
  /\ \/ /\ k \in active
        /\ AddRow(t.row, NoTask)
        /\ ledger' = [ledger EXCEPT ![t.row] = StatusAfterAdd(t.row)]
        /\ pending' = [pending EXCEPT ![k] = InFront(t, @)]
        /\ latch' = latch \cup {k}
        /\ acking' = acking \cup {t}
     \/ /\ k \notin active
        /\ UNCHANGED <<persistent, pending, latch, acking>>
  /\ UNCHANGED <<registry, up, followups, active, activeJob, running, review,
                 drain, taskDrain, mainRun, jobs, execs, crashes>>

\* _cmd_stop
CmdStop(k) ==
  /\ up
  /\ k \in active
  /\ latch' = latch \cup {k}
  /\ UNCHANGED <<persistent, registry, inbox, up, queues, active, activeJob,
                 running, review, drain, taskDrain, mainRun, jobs, acking,
                 execs, crashes>>

\* _cmd_task new: register the task, then start or queue its first request.
\* A full queue leaves it failed, or queued if the refusal could not be sent.
CmdTaskNew(m) ==
  LET k == ThreadOf[m]
      T == <<m, crashes>>
      t == OwnTurn(m, T)
      busy == k \in active \/ activeJob[k] # NoTask \/ pending[k] # <<>> IN
  /\ Deliver(m, "new_task")
  /\ \/ /\ busy
        /\ EnqueueMain(t)
        /\ registry' = [registry EXCEPT ![T] = "queued"]
        /\ UNCHANGED <<activeJob, running, jobs>>
     \/ /\ busy
        /\ Len(pending[k]) >= QueueLimit
        /\ \E s \in {"failed", "queued"} : registry' = [registry EXCEPT ![T] = s]
        /\ UNCHANGED <<persistent, pending, acking, activeJob, running, jobs>>
     \/ /\ ~busy
        /\ BeginJob(t, "handler")
        /\ UNCHANGED <<pending, acking>>
  /\ UNCHANGED <<up, followups, active, review, latch, drain, taskDrain,
                 mainRun, execs, crashes>>

\* The task the replied-to message is bound to: bind_message keeps the first.
BoundTask(m, T) ==
  /\ T[1] = TargetOf[m]
  /\ registry[T] # "none"
  /\ \A S \in Task : S[1] = T[1] /\ registry[S] # "none" => T[2] <= S[2]

\* _on_message / _cmd_task <id>: _resume_existing_task on a known task.
ResumeTask(m, T) ==
  LET t == OwnTurn(m, T)
      unstarted == registry[T] \in {"queued", "starting"} /\ ~TaskBusy(T)
      mustQueue == IF unstarted THEN InitialPending(T) \/ registry[T] = "starting"
                   ELSE TaskBusy(T) \/ InitialPending(T) \/ followups[T] # <<>> IN
  /\ Deliver(m, "followup")
  /\ BoundTask(m, T)
  /\ \/ /\ mustQueue
        /\ EnqueueFollowup(t)
        /\ UNCHANGED <<registry, running, activeJob, jobs>>
     \/ /\ \/ mustQueue /\ Len(followups[T]) >= QueueLimit
           \/ unstarted /\ ~mustQueue        \* only _manual_resume_text
        /\ UNCHANGED <<persistent, registry, followups, acking, running,
                       activeJob, jobs>>
     \/ /\ ~unstarted /\ ~mustQueue
        /\ BeginJob(t, "handler")
        /\ UNCHANGED <<followups, acking>>
  /\ UNCHANGED <<up, pending, active, review, latch, drain, taskDrain, mainRun,
                 execs, crashes>>

\* _cmd_queue resume
QueueResume(k) ==
  /\ up
  /\ ledger' = [r \in Row |-> IF Key(r) = k /\ ledger[r] = "needs_review"
                               THEN "reviewed" ELSE ledger[r]]
  /\ review' = review \ {k}
  /\ drain' = [drain EXCEPT ![k] = Scheduled(@)]
  /\ taskDrain' = [T \in Task |->
        IF followups[T] # <<>> /\ Key(followups[T][1].row) = k
        THEN Scheduled(taskDrain[T]) ELSE taskDrain[T]]
  /\ UNCHANGED <<rowId, rowTask, nextId, registry, inbox, up, queues, active,
                 activeJob, running, latch, mainRun, jobs, acking, execs, crashes>>

\* The acknowledgement of a queued turn ends, sent or not; then the handler
\* schedules the drain.  Only /force lets a failed reply skip that.
AckEnqueued(t) ==
  LET k == Key(t.row) IN
  /\ up
  /\ t \in acking
  /\ acking' = acking \ {t}
  /\ \/ /\ KindOf(t.row) # "followup"
        /\ drain' = [drain EXCEPT ![k] = Scheduled(@)]
        /\ UNCHANGED taskDrain
     \/ /\ KindOf(t.row) = "followup"
        /\ taskDrain' = [taskDrain EXCEPT ![t.task] = Scheduled(@)]
        /\ UNCHANGED drain
     \/ /\ KindOf(t.row) = "force"
        /\ UNCHANGED <<drain, taskDrain>>
  /\ UNCHANGED <<persistent, registry, inbox, up, queues, active, activeJob,
                 running, review, latch, mainRun, jobs, execs, crashes>>

-----------------------------------------------------------------------------
(* A main turn: the CLI in its thread, then the sends, then the finally block. *)

\* relay_turn returns (timedout: rc 124) or raises.
CliEnds(r) ==
  /\ mainRun[r] = "cli"
  /\ \E stage \in {"deliver", "timedout", "notice"} :
        mainRun' = [mainRun EXCEPT ![r] = stage]
  /\ UNCHANGED <<persistent, registry, inbox, up, queues, active, activeJob,
                 running, review, latch, drain, taskDrain, jobs, acking, execs,
                 crashes>>

\* mutant: an interrupted turn is recovered too.
NeedsRecovery_Interrupted(r) == mainRun[r] = "timedout" /\ ~IsRecovery(r)

\* A timeout makes one recovery, unless the turn is one or was interrupted.
NeedsRecovery(r) ==
  /\ mainRun[r] = "timedout"
  /\ ~IsRecovery(r)
  /\ Key(r) \notin latch

\* mutant: the finally block schedules no drain.
ReleaseParent_NoDrain(r) ==
  LET k == Key(r) IN
  /\ active' = active \ {k}
  /\ latch' = latch \ {k}
  /\ drain' = [drain EXCEPT ![k] = IF @ = "main" THEN "ready" ELSE @]
  /\ mainRun' = [mainRun EXCEPT ![r] = "idle"]

\* What the finally block of _run_direct_turn does to the parent slot.
ReleaseParent(r) ==
  LET k == Key(r) IN
  /\ active' = active \ {k}
  /\ latch' = latch \ {k}
  /\ drain' = [drain EXCEPT ![k] = IF @ \in {"none", "main"} THEN "ready" ELSE @]
  /\ mainRun' = [mainRun EXCEPT ![r] = "idle"]

\* The last send of the turn has ended (a failed delivery is swallowed): the
\* recovery is queued in front before the slot is released.
FinishMain(r) ==
  LET k == Key(r)
      rec == <<r[1], "recovery">> IN
  /\ mainRun[r] \in {"deliver", "timedout"}
  /\ IF NeedsRecovery(r)
     THEN /\ AddRow(rec, NoTask)
          /\ ledger' = [ledger EXCEPT ![rec] = StatusAfterAdd(rec), ![r] = "done"]
          /\ pending' = [pending EXCEPT ![k] = InFront([row |-> rec, task |-> NoTask], @)]
     ELSE /\ ledger' = [ledger EXCEPT ![r] = "done"]
          /\ UNCHANGED <<rowId, rowTask, nextId, pending>>
  /\ ReleaseParent(r)
  /\ UNCHANGED <<registry, inbox, up, followups, activeJob, running, review,
                 taskDrain, jobs, acking, execs, crashes>>

\* relay_turn raised: the error notice is not guarded, so if it cannot be sent
\* the turn is unresolved and the thread is paused.
FinishNotice(r) ==
  LET k == Key(r) IN
  /\ mainRun[r] = "notice"
  /\ \/ /\ ledger' = [ledger EXCEPT ![r] = "done"]
        /\ UNCHANGED review
     \/ /\ ledger' = [ledger EXCEPT ![r] = "needs_review"]
        /\ review' = review \cup {k}
  /\ ReleaseParent(r)
  /\ UNCHANGED <<rowId, rowTask, nextId, registry, inbox, up, queues, activeJob,
                 running, taskDrain, jobs, acking, execs, crashes>>

-----------------------------------------------------------------------------
(* Background jobs: an initial /task new request or a follow-up. *)

\* mutant: the parent slot is not given back.
LeaveSession_KeepsSlot(t) == running' = running \ {t.task} /\ UNCHANGED activeJob

\* Leaving the job's maps.
LeaveSession(t) ==
  /\ running' = running \ {t.task}
  /\ activeJob' = IF OccupiesParent(t)
                  THEN [activeJob EXCEPT ![Key(t.row)] = NoTask] ELSE activeJob

\* The drain that awaited this coroutine goes on with its loop.
ResumeDrain(j) ==
  LET t == j.turn IN
  /\ drain' = IF j.via = "drain" /\ OccupiesParent(t)
              THEN [drain EXCEPT ![Key(t.row)] = "ready"] ELSE drain
  /\ taskDrain' = IF j.via = "drain" /\ ~OccupiesParent(t)
                  THEN [taskDrain EXCEPT ![t.task] = "ready"] ELSE taskDrain

\* The acknowledgement is sent and start() takes the row: the worker runs.
JobStarts(j) ==
  LET t == j.turn IN
  /\ j \in jobs /\ j.stage = "ack"
  /\ MayStart(ledger[t.row])
  /\ ledger' = [ledger EXCEPT ![t.row] = "running"]
  /\ execs' = [execs EXCEPT ![t.row] = @ + 1]
  /\ jobs' = (jobs \ {j}) \cup {[turn |-> t, stage |-> "run", via |-> "handler"]}
  /\ ResumeDrain(j)
  /\ UNCHANGED <<rowId, rowTask, nextId, registry, inbox, up, queues, active,
                 activeJob, running, review, latch, mainRun, acking, crashes>>

\* start() refuses the row (another turn object took it): the maps are left,
\* nothing is scheduled, tasks.status stays "running".
JobRefused(j) ==
  LET t == j.turn IN
  /\ j \in jobs /\ j.stage = "ack"
  /\ ~MayStart(ledger[t.row])
  /\ LeaveSession(t)
  /\ jobs' = jobs \ {j}
  /\ ResumeDrain(j)
  /\ UNCHANGED <<persistent, registry, inbox, up, queues, active, review, latch,
                 mainRun, acking, execs, crashes>>

\* The acknowledgement cannot be sent: the row is cancelled whatever its status;
\* an initial request also drops the follow-ups waiting in memory.  The raise
\* is caught by _drain_thread_queue and ends _drain_task_queue, whose own
\* _schedule_task_drain call still found it alive.
JobAckFails(j) ==
  LET t == j.turn
      k == Key(t.row) IN
  /\ j \in jobs /\ j.stage = "ack"
  /\ ledger' = [ledger EXCEPT ![t.row] = "cancelled"]
  /\ registry' = [registry EXCEPT ![t.task] = "failed"]
  /\ LeaveSession(t)
  /\ jobs' = jobs \ {j}
  /\ \/ /\ OccupiesParent(t)
        /\ followups' = [followups EXCEPT ![t.task] = <<>>]
        /\ drain' = [drain EXCEPT ![k] = IF j.via = "drain" THEN "ready" ELSE Scheduled(@)]
        /\ UNCHANGED taskDrain
     \/ /\ ~OccupiesParent(t)
        /\ taskDrain' = [taskDrain EXCEPT ![t.task] =
                            IF j.via = "drain" THEN "none" ELSE Scheduled(@)]
        /\ UNCHANGED <<followups, drain>>
  /\ UNCHANGED <<rowId, rowTask, nextId, inbox, up, pending, active, review, latch,
                 mainRun, acking, execs, crashes>>

\* _run_background_job: the worker turn and its delivery end, in any way (the
\* coroutine resolves even when delivery raised); both drains are scheduled.
JobEnds(j) ==
  LET t == j.turn
      k == Key(t.row)
      current == OccupiesParent(t) /\ activeJob[k] = t.task IN
  /\ j \in jobs /\ j.stage = "run"
  /\ ledger' = [ledger EXCEPT ![t.row] = "done"]
  /\ \E s \in {"completed", "failed"} : registry' = [registry EXCEPT ![t.task] = s]
  /\ running' = running \ {t.task}
  /\ activeJob' = IF current THEN [activeJob EXCEPT ![k] = NoTask] ELSE activeJob
  /\ drain' = IF current THEN [drain EXCEPT ![k] = Scheduled(@)] ELSE drain
  /\ taskDrain' = [taskDrain EXCEPT ![t.task] = Scheduled(@)]
  /\ jobs' = jobs \ {j}
  /\ UNCHANGED <<rowId, rowTask, nextId, inbox, up, queues, active, review, latch,
                 mainRun, acking, execs, crashes>>

-----------------------------------------------------------------------------
(* The drain coroutines: one iteration of the loop. *)

\* The queue position _drain_thread_queue takes next, 0 for none: the head,
\* except that a /task new whose slot is occupied lets main turns pass it.
NextIndex(k) ==
  LET q == pending[k]
      mains == {i \in DOMAIN q : MainTurn(q[i])}
      blocked == activeJob[k] # NoTask \/ TaskBusy(q[1].task) IN
  IF q = <<>> \/ k \in review \/ k \in active THEN 0
  ELSE IF MainTurn(q[1]) \/ ~blocked THEN 1
  ELSE IF mains = {} THEN 0
  ELSE CHOOSE i \in mains : \A j \in mains : i <= j

DrainThread(k) ==
  LET i == NextIndex(k)
      t == pending[k][i] IN
  /\ drain[k] = "ready"
  /\ \/ /\ i = 0
        /\ drain' = [drain EXCEPT ![k] = "none"]
        /\ UNCHANGED <<persistent, registry, pending, active, activeJob, running,
                       mainRun, jobs, execs>>
     \/ /\ i # 0 /\ MainTurn(t)
        /\ pending' = [pending EXCEPT ![k] = RemoveAt(@, i)]
        /\ BeginMain(t.row, ledger[t.row])
        /\ drain' = [drain EXCEPT ![k] =
                        IF MayStart(ledger[t.row]) THEN "main" ELSE "ready"]
        /\ UNCHANGED <<rowId, rowTask, nextId, registry, activeJob, running, jobs>>
     \/ /\ i # 0 /\ ~MainTurn(t)
        /\ pending' = [pending EXCEPT ![k] = RemoveAt(@, i)]
        /\ BeginJob(t, "drain")
        /\ drain' = [drain EXCEPT ![k] = "job"]
        /\ UNCHANGED <<active, mainRun, execs>>
  /\ UNCHANGED <<inbox, up, followups, review, latch, taskDrain, acking, crashes>>

\* mutant: the first request is not looked for.
FollowupMayStart_Early(T) ==
  /\ followups[T] # <<>>
  /\ Key(followups[T][1].row) \notin review
  /\ ~TaskBusy(T)

\* _drain_task_queue: the head follow-up waits for a paused thread, a running
\* session and a first request that has not started.
FollowupMayStart(T) ==
  /\ followups[T] # <<>>
  /\ Key(followups[T][1].row) \notin review
  /\ ~TaskBusy(T)
  /\ ~InitialPending(T)
  /\ registry[T] \notin {"queued", "starting"}

DrainTask(T) ==
  /\ taskDrain[T] = "ready"
  /\ \/ /\ ~FollowupMayStart(T)
        /\ taskDrain' = [taskDrain EXCEPT ![T] = "none"]
        /\ UNCHANGED <<persistent, registry, followups, activeJob, running, jobs>>
     \/ /\ FollowupMayStart(T)
        /\ followups' = [followups EXCEPT ![T] = Tail(@)]
        /\ BeginJob(followups[T][1], "drain")
        /\ taskDrain' = [taskDrain EXCEPT ![T] = "job"]
  /\ UNCHANGED <<inbox, up, pending, active, review, latch, drain, mainRun,
                 acking, execs, crashes>>

-----------------------------------------------------------------------------
(* The process. *)

\* The process dies (kill, power, shutdown): memory is gone.  Updates whose
\* getUpdates offset was not yet confirmed will be delivered again.
Crash ==
  /\ up
  /\ crashes < MaxCrash
  /\ crashes' = crashes + 1
  /\ up' = FALSE
  /\ \E again \in SUBSET (Msg \ inbox) : inbox' = inbox \cup again
  /\ pending' = [k \in Thread |-> <<>>]
  /\ followups' = [T \in Task |-> <<>>]
  /\ active' = {}
  /\ activeJob' = [k \in Thread |-> NoTask]
  /\ running' = {}
  /\ review' = {}
  /\ latch' = {}
  /\ drain' = [k \in Thread |-> "none"]
  /\ taskDrain' = [T \in Task |-> "none"]
  /\ mainRun' = [r \in Row |-> "idle"]
  /\ jobs' = {}
  /\ acking' = {}
  /\ UNCHANGED <<persistent, registry, execs>>

\* run_bot and _restore_durable_queue: interrupt the task table, turn running
\* rows into needs_review, reload the queued ones, schedule the drains of
\* threads that are not paused; polling starts afterwards.
Restart ==
  LET newLedger == [r \in Row |-> AfterRestart(ledger[r])]
      queued == {r \in Row : ledger[r] = "queued"}
      mainRows(k) == {r \in queued : Key(r) = k /\ KindOf(r) # "followup"}
      taskRows(T) == {r \in queued : KindOf(r) = "followup" /\ rowTask[r] = T}
      paused == ReviewThreads(newLedger)
      initial(T) == \E r \in queued : KindOf(r) = "new_task" /\ rowTask[r] = T
  IN
  /\ ~up
  /\ up' = TRUE
  /\ ledger' = newLedger
  /\ review' = paused
  /\ registry' = [T \in Task |->
        IF initial(T) THEN "queued"
        ELSE IF registry[T] \in {"queued", "starting", "running"} THEN "interrupted"
        ELSE registry[T]]
  /\ pending' = [k \in Thread |-> LoadQueued(mainRows(k))]
  /\ followups' = [T \in Task |-> LoadQueued(taskRows(T))]
  /\ drain' = [k \in Thread |->
        IF mainRows(k) # {} /\ k \notin paused THEN "ready" ELSE "none"]
  /\ taskDrain' = [T \in Task |->
        IF taskRows(T) # {} /\ ThreadOf[T[1]] \notin paused THEN "ready" ELSE "none"]
  /\ UNCHANGED <<rowId, rowTask, nextId, inbox, active, activeJob, running, latch,
                 mainRun, jobs, acking, execs, crashes>>

-----------------------------------------------------------------------------
Next ==
  \/ \E m \in Msg : OnMessage(m) \/ CmdForce(m) \/ CmdTaskNew(m)
  \/ \E m \in Msg, T \in Task : ResumeTask(m, T)
  \/ \E k \in Thread : CmdStop(k) \/ QueueResume(k) \/ DrainThread(k)
  \/ \E t \in acking : AckEnqueued(t)
  \/ \E r \in Row : CliEnds(r) \/ FinishMain(r) \/ FinishNotice(r)
  \/ \E j \in jobs : JobStarts(j) \/ JobRefused(j) \/ JobAckFails(j) \/ JobEnds(j)
  \/ \E T \in Task : DrainTask(T)
  \/ Crash
  \/ Restart

Spec == Init /\ [][Next]_vars

\* Coroutines that are not waiting for a user make progress: the event loop is
\* fair, a provider turn ends by its deadline, a send has bounded retries, and
\* the service manager restarts the bot.  Users are under no obligation.
Fairness ==
  /\ WF_vars(Restart)
  /\ \A k \in Thread : WF_vars(DrainThread(k))
  /\ \A T \in Task : WF_vars(DrainTask(T))
  /\ \A r \in Row : WF_vars(CliEnds(r)) /\ WF_vars(FinishMain(r) \/ FinishNotice(r))
  /\ \A r \in Row : WF_vars(\E t \in acking : t.row = r /\ AckEnqueued(t))
  /\ \A r \in Row : WF_vars(\E j \in jobs : j.turn.row = r /\
                      (JobStarts(j) \/ JobRefused(j) \/ JobAckFails(j) \/ JobEnds(j)))

FairSpec == Spec /\ Fairness
-----------------------------------------------------------------------------
(* Invariants. *)

LedgerType ==
  /\ ledger \in [Row -> RowStatus]
  /\ rowId \in [Row -> Nat]
  /\ rowTask \in [Row -> Task \cup {NoTask}]
  /\ nextId \in Nat

QueueType ==
  /\ pending \in [Thread -> Seq(Turn)]
  /\ followups \in [Task -> Seq(TaskTurn)]
  /\ acking \subseteq Turn

ThreadType ==
  /\ active \subseteq Thread
  /\ review \subseteq Thread
  /\ latch \subseteq Thread
  /\ drain \in [Thread -> {"none", "ready", "main", "job"}]
  /\ mainRun \in [Row -> {"idle", "cli", "deliver", "timedout", "notice"}]
  /\ execs \in [Row -> Nat]

SessionType ==
  /\ registry \in [Task -> TaskStatus]
  /\ activeJob \in [Thread -> Task \cup {NoTask}]
  /\ running \subseteq Task
  /\ taskDrain \in [Task -> {"none", "ready", "job"}]
  /\ jobs \subseteq Job

ProcessType ==
  /\ inbox \subseteq Msg
  /\ up \in BOOLEAN
  /\ crashes \in 0..MaxCrash

\* Every variable keeps its shape.
TypeOK == LedgerType /\ QueueType /\ ThreadType /\ SessionType /\ ProcessType

\* A conversation has at most one main turn in flight, and the thread is marked
\* active exactly while it does: a handler and a drain never both start one.
SingleMainTurn ==
  /\ \A r, s \in Row : /\ mainRun[r] # "idle" /\ mainRun[s] # "idle"
                       /\ Key(r) = Key(s)
                       => r = s
  /\ \A k \in Thread : k \in active <=> \E r \in Row : Key(r) = k /\ mainRun[r] # "idle"

\* A task's worker session serves one job at a time, _RUNNING_TASKS names the
\* sessions in use, and a thread's _ACTIVE_JOBS slot is held by a live job.
SingleWorkerPerTask ==
  /\ \A i, j \in jobs : i.turn.task = j.turn.task => i = j
  /\ running = {j.turn.task : j \in jobs}
  /\ \A k \in Thread : activeJob[k] # NoTask =>
        \E j \in jobs : j.turn.task = activeJob[k] /\ OccupiesParent(j.turn)
                        /\ Key(j.turn.row) = k

\* The coroutine that owns a row.
InFlight(r) ==
  \/ mainRun[r] # "idle"
  \/ \E j \in jobs : j.stage = "run" /\ j.turn.row = r

\* While the process is up the ledger says running for exactly the turns some
\* coroutine is executing: none is forgotten, none finishes unrecorded.
RunningIsOwned == up => \A r \in Row : ledger[r] = "running" <=> InFlight(r)

\* A row with an unknown outcome keeps its conversation paused
\* (_restore_durable_queue, _run_direct_turn, /queue resume).
UncertainRowPausesThread ==
  up => \A r \in Row : ledger[r] = "needs_review" => Key(r) \in review

\* The process still holds the turn in a queue or in a starting job.
Held(r) ==
  \/ \E k \in Thread : \E i \in DOMAIN pending[k] : pending[k][i].row = r
  \/ \E T \in Task : \E i \in DOMAIN followups[T] : followups[T][i].row = r
  \/ \E j \in jobs : j.stage = "ack" /\ j.turn.row = r

\* A queued main turn or first request is never forgotten by a running process:
\* it would stay queued until the next restart.
QueuedMainIsHeld ==
  up => \A r \in Row : KindOf(r) # "followup" /\ ledger[r] = "queued" => Held(r)

\* A follow-up never starts while its task's first request is still waiting in
\* some queue (_pending_parent_turn_for_task).
FollowupWaitsForInitial ==
  \A j \in jobs : KindOf(j.turn.row) = "followup" => ~InitialPending(j.turn.task)

-----------------------------------------------------------------------------
(* Action properties. *)

StartsMain(r) == mainRun[r] = "idle" /\ mainRun'[r] = "cli"

\* Ordinary messages of a conversation start in the order they were accepted,
\* across restarts too: none overtakes one that is still queued.
MainIsFifo ==
  [][\A r, s \in Row :
       /\ r # s /\ Key(r) = Key(s) /\ StartsMain(r)
       /\ KindOf(r) = "plain" /\ KindOf(s) = "plain" /\ ledger[s] = "queued"
       => rowId'[r] < rowId[s]]_vars

\* A queued timeout recovery is the next main turn of its conversation: nothing,
\* not even /force, a restart or a new message, runs before it.
RecoveryGoesFirst ==
  [][\A r, s \in Row :
       Key(r) = Key(s) /\ StartsMain(r) /\ IsRecovery(s) /\ ledger[s] = "queued"
       => r = s]_vars

\* No main turn starts in a paused conversation (README.md:84).
PausedThreadStartsNoMain ==
  [][\A r \in Row : StartsMain(r) => Key(r) \notin review]_vars

\* An interrupted turn gets no recovery (README.md:82).
StoppedTurnIsNotRecovered ==
  [][\A r, s \in Row :
       IsRecovery(s) /\ Key(r) = Key(s) /\ ledger[s] = "none" /\ ledger'[s] = "queued"
       => Key(s) \notin latch]_vars

\* A correction sent with /force is the next main turn before any ordinary one
\* (README.md:109: "inserted at the very front of the main FIFO queue"), until a
\* restart: load_queued orders it by its id like an ordinary message.
ForceGoesNext ==
  [][\A r, s \in Row :
       /\ crashes = 0
       /\ Key(r) = Key(s) /\ StartsMain(r) /\ KindOf(r) = "plain"
       => ~(KindOf(s) = "force" /\ ledger[s] = "queued")]_vars

-----------------------------------------------------------------------------
(* Liveness. *)

IsMainRow(r) == KindOf(r) \in {"plain", "force", "timeout_recovery"}

\* Every queued main turn is eventually taken, unless its thread is paused: no
\* interleaving of handlers and drain loses the wake-up.
MainTurnsAreTaken ==
  \A r \in Row : IsMainRow(r) =>
    (ledger[r] = "queued") ~> (ledger[r] # "queued" \/ Key(r) \in review)

\* The same for /task new requests.
NewTasksAreTaken ==
  \A r \in Row : KindOf(r) = "new_task" =>
    (ledger[r] = "queued") ~> (ledger[r] # "queued" \/ Key(r) \in review)

\* A follow-up waiting in its task's queue is eventually taken from it
\* (telegram_bot.py:1668 promises each one "is processed automatically after
\* the item before it").
WaitingFollowup(r) ==
  \E T \in Task : \E i \in DOMAIN followups[T] : followups[T][i].row = r
FollowupsAreTaken ==
  \A r \in Row : KindOf(r) = "followup" =>
    WaitingFollowup(r) ~> (~WaitingFollowup(r) \/ Key(r) \in review)

-----------------------------------------------------------------------------
\* The ledger keeps the promise of the intake ledger (TurnLedger.tla).
PhaseOf(status) ==
  CASE status = "none" -> "new"
    [] status = "queued" -> "accepted"
    [] status = "running" -> "dispatched"
    [] OTHER -> "closed"

Ledger == INSTANCE TurnLedger
            WITH phase <- [r \in Row |-> PhaseOf(ledger[r])], runs <- execs

\* Every behaviour of the scheduler is one of the abstract ledger.
LedgerSpec == Ledger!Spec

\* No accepted request reaches a CLI twice, or before its row is running,
\* whatever crashes, restarts, redelivered updates, /queue resume and drains do
\* (durable_queue.py:3-6).
ExecutedOnce == Ledger!AtMostOnce

=============================================================================
