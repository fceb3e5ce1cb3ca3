------------------------- MODULE RelayLedgerProofs -------------------------
(***************************************************************************)
(* The at-most-once theorems: the scheduler implements TurnLedger, hence   *)
(* no request is dispatched twice.                                         *)
(***************************************************************************)
EXTENDS RelaySchedulerProofs

\* The strengthening: a coroutine only runs a row that AddRow has inserted, so
\* closing the row never closes one the ledger does not have.
Inserted(r) == ledger[r] # "none"
RunsInserted ==
  /\ \A r \in Row : mainRun[r] # "idle" => Inserted(r)
  /\ \A j \in jobs : Inserted(j.turn.row)

\* A row that may still be started has not been.
Counted ==
  \A r \in Row : /\ execs[r] <= 1
                 /\ ledger[r] \in {"none", "queued"} => execs[r] = 0
                 /\ ledger[r] = "running" => execs[r] = 1

LedgerInv == TypeOK /\ RunsInserted /\ Counted

\* What one step does to one row, in the words of TurnLedger.
RowStep(r) ==
  /\ <<PhaseOf(ledger[r]), PhaseOf(ledger'[r])>> \in Ledger!Moves
  /\ execs'[r] = IF ledger[r] # "running" /\ ledger'[r] = "running"
                 THEN execs[r] + 1 ELSE execs[r]
LedgerStep == \A r \in Row : RowStep(r)

-----------------------------------------------------------------------------
(* The four ways a step touches the ledger. *)

LEMMA RowUnchanged ==
  ASSUME LedgerType, UNCHANGED ledger, UNCHANGED execs
  PROVE  LedgerStep
<1>1. \A r \in Row : PhaseOf(ledger[r]) \in Ledger!Phase
  BY DEF LedgerType, RowStatus, PhaseOf, Ledger!Phase
<1>2. QED
  BY <1>1 DEF LedgerStep, RowStep, Ledger!Moves

\* insertion, or nothing when the row is there
LEMMA RowAdded ==
  ASSUME LedgerType, NEW r \in Row, UNCHANGED execs,
         ledger' = [ledger EXCEPT ![r] = StatusAfterAdd(r)]
  PROVE  LedgerStep
<1> SUFFICES ASSUME NEW s \in Row PROVE RowStep(s)
  BY DEF LedgerStep
<1>1. PhaseOf(ledger[s]) \in Ledger!Phase
  BY DEF LedgerType, RowStatus, PhaseOf, Ledger!Phase
<1>2. ledger'[s] = ledger[s] \/ (ledger[s] = "none" /\ ledger'[s] = "queued")
  BY DEF LedgerType, StatusAfterAdd
<1>3. QED
  BY <1>1, <1>2 DEF RowStep, PhaseOf, Ledger!Moves

\* start() on a queued row
LEMMA RowStarted ==
  ASSUME LedgerType, ThreadType, NEW r \in Row, ledger[r] \in {"none", "queued"},
         ledger' = [ledger EXCEPT ![r] = "running"],
         execs' = [execs EXCEPT ![r] = @ + 1]
  PROVE  LedgerStep
<1> SUFFICES ASSUME NEW s \in Row PROVE RowStep(s)
  BY DEF LedgerStep
<1>1. PhaseOf(ledger[s]) \in Ledger!Phase
  BY DEF LedgerType, RowStatus, PhaseOf, Ledger!Phase
<1>2. CASE s = r
  <2>1. ledger'[s] = "running" /\ execs'[s] = execs[s] + 1
    BY <1>2 DEF LedgerType, ThreadType
  <2>2. QED
    BY <1>2, <2>1 DEF RowStep, PhaseOf, Ledger!Moves
<1>3. CASE s # r
  <2>1. ledger'[s] = ledger[s] /\ execs'[s] = execs[s]
    BY <1>3 DEF LedgerType, ThreadType
  <2>2. QED
    BY <1>1, <2>1 DEF RowStep, Ledger!Moves
<1>4. QED
  BY <1>2, <1>3

\* the row of an inserted turn is closed
Closed == {"done", "cancelled", "needs_review", "reviewed"}
LEMMA RowClosed ==
  ASSUME LedgerType, NEW r \in Row, Inserted(r), UNCHANGED execs,
         NEW status \in Closed, ledger' = [ledger EXCEPT ![r] = status]
  PROVE  LedgerStep
<1> SUFFICES ASSUME NEW s \in Row PROVE RowStep(s)
  BY DEF LedgerStep
<1>1. PhaseOf(ledger[s]) \in Ledger!Phase
  BY DEF LedgerType, RowStatus, PhaseOf, Ledger!Phase
<1>2. CASE s = r
  <2>1. ledger'[s] = status /\ ledger[s] \in RowStatus /\ ledger[s] # "none"
    BY <1>2 DEF LedgerType, Inserted
  <2>2. PhaseOf(ledger'[s]) = "closed" /\ ledger'[s] # "running"
    BY <2>1 DEF PhaseOf, Closed
  <2>3. PhaseOf(ledger[s]) \in {"accepted", "dispatched", "closed"}
    BY <2>1 DEF PhaseOf, RowStatus
  <2>4. QED
    BY <2>2, <2>3 DEF RowStep, Ledger!Moves, Ledger!Phase
<1>3. CASE s # r
  <2>1. ledger'[s] = ledger[s] /\ execs'[s] = execs[s]
    BY <1>3 DEF LedgerType
  <2>2. QED
    BY <1>1, <2>1 DEF RowStep, Ledger!Moves
<1>4. QED
  BY <1>2, <1>3

-----------------------------------------------------------------------------
(* Every action takes such steps, and runs inserted rows only. *)

LEMMA InsertedStays ==
  ASSUME LedgerStep, NEW r \in Row, Inserted(r)
  PROVE  Inserted(r)'
<1>1. RowStep(r)
  BY DEF LedgerStep
<1>2. PhaseOf(ledger[r]) # "new"
  BY DEF Inserted, PhaseOf
<1>3. PhaseOf(ledger'[r]) # "new"
  BY <1>1, <1>2 DEF RowStep, Ledger!Moves
<1>4. QED
  BY <1>3 DEF Inserted, PhaseOf

\* No new row enters a coroutine.
LEMMA NothingStarts ==
  ASSUME RunsInserted, LedgerStep, SessionType,
         \A r \in Row : mainRun'[r] # "idle" => mainRun[r] # "idle",
         \A j \in jobs' : \E i \in jobs : i.turn = j.turn
  PROVE  RunsInserted'
<1>1. \A r \in Row : mainRun'[r] # "idle" => Inserted(r)'
  BY InsertedStays DEF RunsInserted
<1>2. \A j \in jobs' : Inserted(j.turn.row)'
  <2>1. TAKE j \in jobs'
  <2>2. PICK i \in jobs : i.turn = j.turn
    OBVIOUS
  <2>3. i.turn.row \in Row /\ Inserted(i.turn.row)
    BY JobTypes DEF RunsInserted
  <2>4. Inserted(i.turn.row)'
    BY <2>3, InsertedStays
  <2>5. QED
    BY <2>2, <2>4 DEF Inserted
<1>3. QED
  BY <1>1, <1>2 DEF RunsInserted, Inserted

\* A main turn begins on a row that is in the ledger or was just inserted.
LEMMA BeginMainStep ==
  ASSUME TypeOK, RunsInserted, NEW r \in Row, NEW status \in {ledger[r], StatusAfterAdd(r)},
         BeginMain(r, status), UNCHANGED jobs
  PROVE  LedgerStep /\ RunsInserted'
<1>1. LedgerType /\ ThreadType /\ SessionType
  BY DEF TypeOK
<1>2. CASE MayStart(status)
  <2>1. /\ ledger' = [ledger EXCEPT ![r] = "running"]
        /\ mainRun' = [mainRun EXCEPT ![r] = "cli"]
        /\ execs' = [execs EXCEPT ![r] = @ + 1]
    BY <1>2 DEF BeginMain
  <2>2. ledger[r] \in {"none", "queued"}
    BY <1>2 DEF MayStart, StatusAfterAdd
  <2>3. LedgerStep
    BY <1>1, <2>1, <2>2, RowStarted
  <2>4. \A s \in Row : mainRun'[s] # "idle" => Inserted(s)'
    <3>1. SUFFICES ASSUME NEW s \in Row, mainRun'[s] # "idle" PROVE Inserted(s)'
      OBVIOUS
    <3>2. CASE s = r
      BY <1>1, <2>1, <3>2 DEF LedgerType, Inserted
    <3>3. CASE s # r
      BY <1>1, <2>1, <2>3, <3>1, <3>3, InsertedStays DEF ThreadType, RunsInserted
    <3>4. QED
      BY <3>2, <3>3
  <2>5. \A j \in jobs : Inserted(j.turn.row)'
    BY <1>1, <2>3, InsertedStays, JobTypes DEF RunsInserted
  <2>6. QED
    BY <2>3, <2>4, <2>5 DEF RunsInserted, Inserted
<1>3. CASE ~MayStart(status)
  <2>1. /\ ledger' = [ledger EXCEPT ![r] = status]
        /\ UNCHANGED mainRun /\ UNCHANGED execs
    BY <1>3 DEF BeginMain
  <2>2. LedgerStep
    <3>1. CASE status = StatusAfterAdd(r)
      BY <1>1, <2>1, <3>1, RowAdded
    <3>2. CASE status = ledger[r]
      BY <1>1, <2>1, <3>2, RowUnchanged DEF LedgerType
    <3>3. QED
      BY <3>1, <3>2
  <2>3. QED
    BY <1>1, <2>1, <2>2, NothingStarts
<1>4. QED
  BY <1>2, <1>3

LEMMA BeginJobStep ==
  ASSUME TypeOK, RunsInserted, NEW t \in TaskTurn, NEW via, BeginJob(t, via),
         UNCHANGED mainRun, UNCHANGED execs
  PROVE  LedgerStep /\ RunsInserted'
<1>1. LedgerType /\ ThreadType /\ SessionType
  BY DEF TypeOK
<1>2. t.row \in Row
  BY TurnTypes
<1>3. /\ ledger' = [ledger EXCEPT ![t.row] = StatusAfterAdd(t.row)]
      /\ jobs' = jobs \cup {[turn |-> t, stage |-> "ack", via |-> via]}
  BY DEF BeginJob
<1>4. LedgerStep
  BY <1>1, <1>2, <1>3, RowAdded
<1>5. \A r \in Row : mainRun'[r] # "idle" => Inserted(r)'
  BY <1>4, InsertedStays DEF RunsInserted
<1>6. Inserted(t.row)'
  BY <1>1, <1>2, <1>3 DEF LedgerType, Inserted, StatusAfterAdd
<1>7. \A j \in jobs' : Inserted(j.turn.row)'
  <2>1. SUFFICES ASSUME NEW j \in jobs' PROVE Inserted(j.turn.row)'
    OBVIOUS
  <2>2. CASE j \in jobs
    BY <1>1, <1>4, <2>2, InsertedStays, JobTypes DEF RunsInserted
  <2>3. CASE j = [turn |-> t, stage |-> "ack", via |-> via]
    BY <1>6, <2>3 DEF Inserted
  <2>4. QED
    BY <1>3, <2>2, <2>3
<1>8. QED
  BY <1>4, <1>5, <1>7 DEF RunsInserted, Inserted

\* Steps that only add a row, or touch no row, and start nothing.
LEMMA AddOnlyStep ==
  ASSUME TypeOK, RunsInserted, UNCHANGED mainRun, UNCHANGED jobs, UNCHANGED execs,
         \/ UNCHANGED ledger
         \/ \E r \in Row : ledger' = [ledger EXCEPT ![r] = StatusAfterAdd(r)]
  PROVE  LedgerStep /\ RunsInserted'
<1>1. LedgerType /\ SessionType
  BY DEF TypeOK
<1>2. LedgerStep
  BY <1>1, RowUnchanged, RowAdded
<1>3. QED
  BY <1>1, <1>2, NothingStarts

LEMMA OnMessageStep ==
  ASSUME TypeOK, RunsInserted, NEW m \in Msg, OnMessage(m)
  PROVE  LedgerStep /\ RunsInserted'
<1> DEFINE t == OwnTurn(m, NoTask)
<1>1. t.row \in Row /\ UNCHANGED jobs
  BY TurnTypes DEF OnMessage
<1>2. CASE EnqueueMain(t) /\ UNCHANGED <<active, mainRun, execs>>
  BY <1>1, <1>2, AddOnlyStep DEF EnqueueMain
<1>3. CASE UNCHANGED <<persistent, pending, acking, active, mainRun, execs>>
  BY <1>1, <1>3, AddOnlyStep DEF persistent
<1>4. CASE BeginMain(t.row, StatusAfterAdd(t.row))
  BY <1>1, <1>4, BeginMainStep
<1>5. QED
  BY <1>2, <1>3, <1>4 DEF OnMessage

LEMMA CmdForceStep ==
  ASSUME TypeOK, RunsInserted, NEW m \in Msg, CmdForce(m)
  PROVE  LedgerStep /\ RunsInserted'
<1> DEFINE t == OwnTurn(m, NoTask)
<1>1. /\ t.row \in Row
      /\ UNCHANGED mainRun /\ UNCHANGED jobs /\ UNCHANGED execs
  BY TurnTypes DEF CmdForce
<1>2. \/ UNCHANGED ledger
      \/ ledger' = [ledger EXCEPT ![t.row] = StatusAfterAdd(t.row)]
  BY DEF CmdForce, persistent
<1>3. QED
  BY <1>1, <1>2, AddOnlyStep

LEMMA CmdTaskNewStep ==
  ASSUME TypeOK, RunsInserted, NEW m \in Msg, CmdTaskNew(m)
  PROVE  LedgerStep /\ RunsInserted'
<1> DEFINE T == <<m, crashes>>
           t == OwnTurn(m, T)
<1>1. T \in Task
  BY DEF CmdTaskNew, Deliver, Task, TypeOK, ProcessType
<1>2. /\ t \in TaskTurn /\ t.row \in Row
      /\ UNCHANGED mainRun /\ UNCHANGED execs
  BY <1>1, TurnTypes DEF CmdTaskNew
<1>3. CASE EnqueueMain(t) /\ UNCHANGED <<activeJob, running, jobs>>
  BY <1>2, <1>3, AddOnlyStep DEF EnqueueMain
<1>4. CASE UNCHANGED <<persistent, pending, acking, activeJob, running, jobs>>
  BY <1>2, <1>4, AddOnlyStep DEF persistent
<1>5. CASE BeginJob(t, "handler")
  BY <1>2, <1>5, BeginJobStep
<1>6. QED
  BY <1>3, <1>4, <1>5 DEF CmdTaskNew

LEMMA ResumeTaskStep ==
  ASSUME TypeOK, RunsInserted, NEW m \in Msg, NEW T \in Task, ResumeTask(m, T)
  PROVE  LedgerStep /\ RunsInserted'
<1> DEFINE t == OwnTurn(m, T)
<1>1. /\ t \in TaskTurn /\ t.row \in Row
      /\ UNCHANGED mainRun /\ UNCHANGED execs
  BY TurnTypes DEF ResumeTask
<1>2. CASE EnqueueFollowup(t) /\ UNCHANGED <<registry, running, activeJob, jobs>>
  BY <1>1, <1>2, AddOnlyStep DEF EnqueueFollowup
<1>3. CASE UNCHANGED <<persistent, registry, followups, acking, running, activeJob, jobs>>
  BY <1>1, <1>3, AddOnlyStep DEF persistent
<1>4. CASE BeginJob(t, "handler")
  BY <1>1, <1>4, BeginJobStep
<1>5. QED
  BY <1>2, <1>3, <1>4 DEF ResumeTask

LEMMA QueueResumeStep ==
  ASSUME TypeOK, RunsInserted, NEW k \in Thread, QueueResume(k)
  PROVE  LedgerStep /\ RunsInserted'
<1>1. LedgerType /\ SessionType
  BY DEF TypeOK
<1>2. /\ ledger' = [r \in Row |-> IF Key(r) = k /\ ledger[r] = "needs_review"
                                   THEN "reviewed" ELSE ledger[r]]
      /\ UNCHANGED mainRun /\ UNCHANGED jobs /\ UNCHANGED execs
  BY DEF QueueResume
<1>3. LedgerStep
  <2>1. SUFFICES ASSUME NEW r \in Row PROVE RowStep(r)
    BY DEF LedgerStep
  <2>2. PhaseOf(ledger[r]) \in Ledger!Phase
    BY <1>1 DEF LedgerType, RowStatus, PhaseOf, Ledger!Phase
  <2>3. \/ ledger'[r] = ledger[r]
        \/ ledger[r] = "needs_review" /\ ledger'[r] = "reviewed"
    BY <1>2
  <2>4. QED
    BY <1>2, <2>2, <2>3 DEF RowStep, PhaseOf, Ledger!Moves
<1>4. QED
  BY <1>1, <1>2, <1>3, NothingStarts

LEMMA AckEnqueuedStep ==
  ASSUME TypeOK, RunsInserted, NEW t \in acking, AckEnqueued(t)
  PROVE  LedgerStep /\ RunsInserted'
  BY AddOnlyStep DEF AckEnqueued, persistent

LEMMA CmdStopStep ==
  ASSUME TypeOK, RunsInserted, NEW k \in Thread, CmdStop(k)
  PROVE  LedgerStep /\ RunsInserted'
  BY AddOnlyStep DEF CmdStop, persistent

LEMMA CliEndsStep ==
  ASSUME TypeOK, RunsInserted, NEW r \in Row, CliEnds(r)
  PROVE  LedgerStep /\ RunsInserted'
<1>1. LedgerType /\ ThreadType /\ SessionType
  BY DEF TypeOK
<1>2. /\ UNCHANGED ledger /\ UNCHANGED execs /\ UNCHANGED jobs
      /\ mainRun[r] = "cli"
      /\ \E stage \in {"deliver", "timedout", "notice"} :
            mainRun' = [mainRun EXCEPT ![r] = stage]
  BY DEF CliEnds, persistent
<1>3. \A s \in Row : mainRun'[s] # "idle" => mainRun[s] # "idle"
  BY <1>1, <1>2 DEF ThreadType
<1>4. QED
  BY <1>1, <1>2, <1>3, RowUnchanged, NothingStarts

\* The end of a main turn closes its row.
LEMMA ReleaseStops ==
  ASSUME ThreadType, NEW r \in Row, ReleaseParent(r)
  PROVE  \A s \in Row : mainRun'[s] # "idle" => mainRun[s] # "idle"
  BY DEF ThreadType, ReleaseParent

LEMMA FinishMainStep ==
  ASSUME TypeOK, RunsInserted, NEW r \in Row, FinishMain(r)
  PROVE  LedgerStep /\ RunsInserted'
<1> DEFINE rec == <<r[1], "recovery">>
<1>1. LedgerType /\ ThreadType /\ SessionType
  BY DEF TypeOK
<1>2. /\ UNCHANGED execs /\ UNCHANGED jobs /\ ReleaseParent(r)
      /\ mainRun[r] # "idle"
  BY DEF FinishMain
<1>3. Inserted(r)
  BY <1>2 DEF RunsInserted
<1>4. LedgerStep
  <2>1. CASE NeedsRecovery(r)
    <3>1. rec \in Row /\ rec # r
      BY <2>1 DEF Row, NeedsRecovery, IsRecovery
    <3>2. ledger' = [ledger EXCEPT ![rec] = StatusAfterAdd(rec), ![r] = "done"]
      BY <2>1 DEF FinishMain
    <3> HIDE DEF rec
    <3>3. SUFFICES ASSUME NEW s \in Row PROVE RowStep(s)
      BY DEF LedgerStep
    <3>4. PhaseOf(ledger[s]) \in Ledger!Phase
      BY <1>1 DEF LedgerType, RowStatus, PhaseOf, Ledger!Phase
    <3>5. \/ ledger'[s] = ledger[s]
          \/ ledger[s] = "none" /\ ledger'[s] = "queued"
          \/ ledger[s] # "none" /\ ledger'[s] = "done"
      BY <1>1, <1>3, <3>1, <3>2 DEF LedgerType, StatusAfterAdd, Inserted
    <3>6. ledger[s] # "none" => PhaseOf(ledger[s]) \in {"accepted", "dispatched", "closed"}
      BY DEF PhaseOf
    <3>7. QED
      BY <1>2, <3>4, <3>5, <3>6 DEF RowStep, PhaseOf, Ledger!Moves, Ledger!Phase
  <2>2. CASE ~NeedsRecovery(r)
    BY <1>1, <1>2, <1>3, <2>2, RowClosed DEF FinishMain, Closed
  <2>3. QED
    BY <2>1, <2>2
<1>5. QED
  BY <1>1, <1>2, <1>4, ReleaseStops, NothingStarts

LEMMA FinishNoticeStep ==
  ASSUME TypeOK, RunsInserted, NEW r \in Row, FinishNotice(r)
  PROVE  LedgerStep /\ RunsInserted'
<1>1. LedgerType /\ ThreadType /\ SessionType
  BY DEF TypeOK
<1>2. /\ UNCHANGED execs /\ UNCHANGED jobs /\ ReleaseParent(r)
      /\ mainRun[r] # "idle"
      /\ \E s \in {"done", "needs_review"} : ledger' = [ledger EXCEPT ![r] = s]
  BY DEF FinishNotice
<1>3. Inserted(r)
  BY <1>2 DEF RunsInserted
<1>4. LedgerStep
  BY <1>1, <1>2, <1>3, RowClosed DEF Closed
<1>5. QED
  BY <1>1, <1>2, <1>4, ReleaseStops, NothingStarts

LEMMA JobStartsStep ==
  ASSUME TypeOK, RunsInserted, NEW j \in jobs, JobStarts(j)
  PROVE  LedgerStep /\ RunsInserted'
<1> DEFINE t == j.turn
<1>1. LedgerType /\ ThreadType /\ SessionType
  BY DEF TypeOK
<1>2. t.row \in Row
  BY <1>1, JobTypes
<1>3. /\ ledger[t.row] = "queued"
      /\ ledger' = [ledger EXCEPT ![t.row] = "running"]
      /\ execs' = [execs EXCEPT ![t.row] = @ + 1]
      /\ jobs' = (jobs \ {j}) \cup {[turn |-> t, stage |-> "run", via |-> "handler"]}
      /\ UNCHANGED mainRun
  BY DEF JobStarts, MayStart
<1>4. LedgerStep
  BY <1>1, <1>2, <1>3, RowStarted
<1>5. \A i \in jobs' : \E o \in jobs : o.turn = i.turn
  BY <1>3
<1>6. QED
  BY <1>1, <1>3, <1>4, <1>5, NothingStarts

LEMMA JobRefusedStep ==
  ASSUME TypeOK, RunsInserted, NEW j \in jobs, JobRefused(j)
  PROVE  LedgerStep /\ RunsInserted'
<1>1. LedgerType /\ SessionType
  BY DEF TypeOK
<1>2. /\ UNCHANGED ledger /\ UNCHANGED execs /\ UNCHANGED mainRun
      /\ jobs' = jobs \ {j}
  BY DEF JobRefused, persistent
<1>3. LedgerStep
  BY <1>1, <1>2, RowUnchanged
<1>4. QED
  BY <1>1, <1>2, <1>3, NothingStarts

\* A job that leaves closes its row.
LEMMA JobClosesStep ==
  ASSUME TypeOK, RunsInserted, NEW j \in jobs, NEW status \in Closed,
         ledger' = [ledger EXCEPT ![j.turn.row] = status],
         jobs' = jobs \ {j}, UNCHANGED mainRun, UNCHANGED execs
  PROVE  LedgerStep /\ RunsInserted'
<1>1. LedgerType /\ SessionType
  BY DEF TypeOK
<1>2. j.turn.row \in Row /\ Inserted(j.turn.row)
  BY <1>1, JobTypes DEF RunsInserted
<1>3. LedgerStep
  BY <1>1, <1>2, RowClosed
<1>4. QED
  BY <1>1, <1>3, NothingStarts

LEMMA JobAckFailsStep ==
  ASSUME TypeOK, RunsInserted, NEW j \in jobs, JobAckFails(j)
  PROVE  LedgerStep /\ RunsInserted'
<1>1. /\ ledger' = [ledger EXCEPT ![j.turn.row] = "cancelled"]
      /\ jobs' = jobs \ {j} /\ UNCHANGED mainRun /\ UNCHANGED execs
  BY DEF JobAckFails
<1>2. QED
  BY <1>1, JobClosesStep DEF Closed

LEMMA JobEndsStep ==
  ASSUME TypeOK, RunsInserted, NEW j \in jobs, JobEnds(j)
  PROVE  LedgerStep /\ RunsInserted'
<1>1. /\ ledger' = [ledger EXCEPT ![j.turn.row] = "done"]
      /\ jobs' = jobs \ {j} /\ UNCHANGED mainRun /\ UNCHANGED execs
  BY DEF JobEnds
<1>2. QED
  BY <1>1, JobClosesStep DEF Closed

LEMMA DrainThreadStep ==
  ASSUME TypeOK, RunsInserted, NEW k \in Thread, DrainThread(k)
  PROVE  LedgerStep /\ RunsInserted'
<1> DEFINE i == NextIndex(k)
           t == pending[k][i]
<1>1. QueueType
  BY DEF TypeOK
<1>2. ASSUME i # 0
      PROVE  /\ t.row \in Row
             /\ ~MainTurn(t) => t \in TaskTurn
  <2>1. pending[k] \in Seq(Turn) /\ i \in 1..Len(pending[k])
    BY <1>1, <1>2, NextIndexType DEF QueueType
  <2>2. t \in Turn
    BY <2>1
  <2>3. QED
    BY <2>2, TurnTypes
<1>3. CASE i = 0
  BY <1>3, AddOnlyStep DEF DrainThread, persistent
<1>4. CASE i # 0 /\ MainTurn(t)
  <2>1. BeginMain(t.row, ledger[t.row]) /\ UNCHANGED jobs
    BY <1>4 DEF DrainThread
  <2>2. QED
    BY <1>2, <1>4, <2>1, BeginMainStep
<1>5. CASE i # 0 /\ ~MainTurn(t)
  <2>1. BeginJob(t, "drain") /\ UNCHANGED mainRun /\ UNCHANGED execs
    BY <1>5 DEF DrainThread
  <2>2. QED
    BY <1>2, <1>5, <2>1, BeginJobStep
<1>6. QED
  BY <1>3, <1>4, <1>5

LEMMA DrainTaskStep ==
  ASSUME TypeOK, RunsInserted, NEW T \in Task, DrainTask(T)
  PROVE  LedgerStep /\ RunsInserted'
<1>1. CASE ~FollowupMayStart(T)
  BY <1>1, AddOnlyStep DEF DrainTask, persistent
<1>2. CASE FollowupMayStart(T)
  <2>1. followups[T] \in Seq(TaskTurn) /\ followups[T] # <<>>
    BY <1>2 DEF TypeOK, QueueType, FollowupMayStart
  <2>2. followups[T][1] \in TaskTurn
    BY <2>1
  <2>3. /\ BeginJob(followups[T][1], "drain")
        /\ UNCHANGED mainRun /\ UNCHANGED execs
    BY <1>2 DEF DrainTask
  <2>4. QED
    BY <2>2, <2>3, BeginJobStep
<1>3. QED
  BY <1>1, <1>2

LEMMA CrashStep ==
  ASSUME TypeOK, RunsInserted, Crash
  PROVE  LedgerStep /\ RunsInserted'
<1>1. /\ UNCHANGED ledger /\ UNCHANGED execs
      /\ mainRun' = [r \in Row |-> "idle"] /\ jobs' = {}
  BY DEF Crash, persistent
<1>2. LedgerStep
  BY <1>1, RowUnchanged DEF TypeOK
<1>3. QED
  BY <1>1, <1>2 DEF RunsInserted

LEMMA RestartStep ==
  ASSUME TypeOK, RunsInserted, Restart
  PROVE  LedgerStep /\ RunsInserted'
<1>1. LedgerType /\ SessionType
  BY DEF TypeOK
<1>2. /\ ledger' = [r \in Row |-> AfterRestart(ledger[r])]
      /\ UNCHANGED mainRun /\ UNCHANGED jobs /\ UNCHANGED execs
  BY DEF Restart
<1>3. LedgerStep
  <2>1. SUFFICES ASSUME NEW r \in Row PROVE RowStep(r)
    BY DEF LedgerStep
  <2>2. PhaseOf(ledger[r]) \in Ledger!Phase
    BY <1>1 DEF LedgerType, RowStatus, PhaseOf, Ledger!Phase
  <2>3. \/ ledger'[r] = ledger[r]
        \/ ledger[r] = "running" /\ ledger'[r] = "needs_review"
    BY <1>2 DEF AfterRestart
  <2>4. QED
    BY <1>2, <2>2, <2>3 DEF RowStep, PhaseOf, Ledger!Moves
<1>4. QED
  BY <1>1, <1>2, <1>3, NothingStarts

\* Each step of the scheduler moves the rows as TurnLedger allows.
LEMMA StepLedger ==
  ASSUME TypeOK, RunsInserted, [Next]_vars
  PROVE  LedgerStep /\ RunsInserted'
<1> DEFINE Goal == LedgerStep /\ RunsInserted'
<1>1. ASSUME NEW m \in Msg, OnMessage(m) PROVE Goal
  BY <1>1, OnMessageStep
<1>2. ASSUME NEW m \in Msg, CmdForce(m) PROVE Goal
  BY <1>2, CmdForceStep
<1>3. ASSUME NEW m \in Msg, CmdTaskNew(m) PROVE Goal
  BY <1>3, CmdTaskNewStep
<1>4. ASSUME NEW m \in Msg, NEW T \in Task, ResumeTask(m, T) PROVE Goal
  BY <1>4, ResumeTaskStep
<1>5. ASSUME NEW k \in Thread, CmdStop(k) PROVE Goal
  BY <1>5, CmdStopStep
<1>6. ASSUME NEW k \in Thread, QueueResume(k) PROVE Goal
  BY <1>6, QueueResumeStep
<1>7. ASSUME NEW k \in Thread, DrainThread(k) PROVE Goal
  BY <1>7, DrainThreadStep
<1>8. ASSUME NEW t \in acking, AckEnqueued(t) PROVE Goal
  BY <1>8, AckEnqueuedStep
<1>9. ASSUME NEW r \in Row, CliEnds(r) PROVE Goal
  BY <1>9, CliEndsStep
<1>10. ASSUME NEW r \in Row, FinishMain(r) PROVE Goal
  BY <1>10, FinishMainStep
<1>11. ASSUME NEW r \in Row, FinishNotice(r) PROVE Goal
  BY <1>11, FinishNoticeStep
<1>12. ASSUME NEW j \in jobs, JobStarts(j) PROVE Goal
  BY <1>12, JobStartsStep
<1>13. ASSUME NEW j \in jobs, JobRefused(j) PROVE Goal
  BY <1>13, JobRefusedStep
<1>14. ASSUME NEW j \in jobs, JobAckFails(j) PROVE Goal
  BY <1>14, JobAckFailsStep
<1>15. ASSUME NEW j \in jobs, JobEnds(j) PROVE Goal
  BY <1>15, JobEndsStep
<1>16. ASSUME NEW T \in Task, DrainTask(T) PROVE Goal
  BY <1>16, DrainTaskStep
<1>17. ASSUME UNCHANGED vars PROVE Goal
  BY <1>17, AddOnlyStep DEF vars
<1> HIDE DEF Goal
<1>18. Goal
  BY <1>1, <1>2, <1>3, <1>4, <1>5, <1>6, <1>7, <1>8, <1>9, <1>10, <1>11, <1>12,
     <1>13, <1>14, <1>15, <1>16, <1>17, CrashStep, RestartStep DEF Next, Goal
<1>19. QED
  BY <1>18 DEF Goal

\* Such a step never dispatches a row that may have been dispatched before.
LEMMA StepCounted ==
  ASSUME ThreadType, Counted, LedgerStep
  PROVE  Counted'
<1> SUFFICES ASSUME NEW r \in Row
             PROVE  /\ execs'[r] <= 1
                    /\ ledger'[r] \in {"none", "queued"} => execs'[r] = 0
                    /\ ledger'[r] = "running" => execs'[r] = 1
  BY DEF Counted
<1>1. /\ RowStep(r) /\ execs[r] \in Nat /\ execs[r] <= 1
      /\ ledger[r] \in {"none", "queued"} => execs[r] = 0
      /\ ledger[r] = "running" => execs[r] = 1
  BY DEF LedgerStep, ThreadType, Counted
<1>2. /\ PhaseOf(ledger[r]) = "dispatched" => ledger[r] = "running"
      /\ PhaseOf(ledger[r]) \in {"new", "accepted"} => ledger[r] \in {"none", "queued"}
      /\ ledger'[r] = "running" => PhaseOf(ledger'[r]) = "dispatched"
      /\ ledger'[r] \in {"none", "queued"} => PhaseOf(ledger'[r]) \in {"new", "accepted"}
  BY DEF PhaseOf
<1>3. CASE ledger[r] # "running" /\ ledger'[r] = "running"
  <2>1. PhaseOf(ledger[r]) \in {"new", "accepted"}
    BY <1>1, <1>2, <1>3 DEF RowStep, Ledger!Moves, Ledger!Phase
  <2>2. execs[r] = 0 /\ execs'[r] = execs[r] + 1
    BY <1>1, <1>2, <1>3, <2>1 DEF RowStep
  <2>3. QED
    BY <1>3, <2>2
<1>4. CASE ~(ledger[r] # "running" /\ ledger'[r] = "running")
  <2>1. execs'[r] = execs[r]
    BY <1>1, <1>4 DEF RowStep
  <2>2. ledger'[r] \in {"none", "queued"} => ledger[r] \in {"none", "queued"}
    BY <1>1, <1>2 DEF RowStep, Ledger!Moves, Ledger!Phase
  <2>3. ledger'[r] = "running" => ledger[r] = "running"
    BY <1>4
  <2>4. QED
    BY <1>1, <2>1, <2>2, <2>3
<1>5. QED
  BY <1>3, <1>4

-----------------------------------------------------------------------------
LEMMA InitLedgerInv == Init => LedgerInv
<1>1. Init => RunsInserted /\ Counted
  BY DEF Init, RunsInserted, Counted
<1>2. QED
  BY <1>1, InitType DEF LedgerInv

LEMMA StepLedgerInv == LedgerInv /\ [Next]_vars => LedgerInv'
<1> SUFFICES ASSUME LedgerInv, [Next]_vars PROVE LedgerInv'
  OBVIOUS
<1>1. TypeOK /\ RunsInserted /\ Counted
  BY DEF LedgerInv
<1>2. TypeOK'
  BY <1>1, StepType
<1>3. LedgerStep /\ RunsInserted'
  BY <1>1, StepLedger
<1>4. Counted'
  BY <1>1, <1>3, StepCounted DEF TypeOK
<1>5. QED
  BY <1>2, <1>3, <1>4 DEF LedgerInv

\* No accepted request is handed to a CLI twice.
THEOREM AtMostOneExecution == Spec => []ExecutedOnce
<1>1. LedgerInv => ExecutedOnce
  BY DEF LedgerInv, Counted, ExecutedOnce, Ledger!AtMostOnce, PhaseOf
<1>2. QED
  BY InitLedgerInv, StepLedgerInv, <1>1, PTL DEF Spec

\* Each step of the scheduler is a step of the abstract ledger or leaves it as
\* it is.
LEMMA StepRefines ==
  ASSUME LedgerInv, [Next]_vars
  PROVE  [Ledger!Next]_<<[r \in Row |-> PhaseOf(ledger[r])], execs>>
<1>1. LedgerType /\ ThreadType /\ LedgerStep /\ LedgerType' /\ ThreadType'
  BY StepLedger, StepType DEF LedgerInv, TypeOK
<1>2. [r \in Row |-> PhaseOf(ledger'[r])] \in [Row -> Ledger!Phase]
  BY <1>1 DEF LedgerType, RowStatus, PhaseOf, Ledger!Phase
<1>3. \A r \in Row : <<PhaseOf(ledger[r]), PhaseOf(ledger'[r])>> \in Ledger!Moves
  BY <1>1 DEF LedgerStep, RowStep
<1>4. \A r \in Row : (PhaseOf(ledger[r]) # "dispatched" /\ PhaseOf(ledger'[r]) = "dispatched")
                     <=> (ledger[r] # "running" /\ ledger'[r] = "running")
  BY DEF PhaseOf
<1>5. execs' = [r \in Row |-> IF /\ PhaseOf(ledger[r]) # "dispatched"
                                  /\ PhaseOf(ledger'[r]) = "dispatched"
                               THEN execs[r] + 1 ELSE execs[r]]
  BY <1>1, <1>4 DEF LedgerStep, RowStep, ThreadType
<1>6. Ledger!Next
  BY <1>2, <1>3, <1>5 DEF Ledger!Next, Ledger!Enters
<1>7. QED
  BY <1>6

\* The scheduler implements the abstract ledger.
THEOREM ImplementsLedger == Spec => LedgerSpec
<1>1. Init => Ledger!Init
  BY DEF Init, Ledger!Init, PhaseOf
<1>2. LedgerInv /\ [Next]_vars => [Ledger!Next]_<<[r \in Row |-> PhaseOf(ledger[r])], execs>>
  BY StepRefines
<1>3. QED
  BY InitLedgerInv, StepLedgerInv, <1>1, <1>2, PTL DEF Spec, LedgerSpec, Ledger!Spec
=============================================================================
