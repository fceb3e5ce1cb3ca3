-------------------------- MODULE RelayTurnProofs --------------------------
(***************************************************************************)
(* One main turn per conversation, for every number of messages, threads   *)
(* and crashes.                                                            *)
(***************************************************************************)
EXTENDS RelaySchedulerProofs

\* The strengthening: a turn waits in the queue of its own conversation, so the
\* thread a drain finds free is the thread of the turn it takes.
TurnOf(k) == {t \in Turn : Key(t.row) = k}
QueuesAreOwn == \A k \in Thread : pending[k] \in Seq(TurnOf(k))

TurnInv == TypeOK /\ QueuesAreOwn /\ SingleMainTurn

-----------------------------------------------------------------------------
(* Queues hold turns of their own conversation. *)

LEMMA OwnKept ==
  ASSUME QueuesAreOwn, UNCHANGED pending
  PROVE  QueuesAreOwn'
  BY DEF QueuesAreOwn

\* One queue is replaced.
LEMMA OwnUpdate ==
  ASSUME QueueType, QueuesAreOwn, NEW k \in Thread, NEW s \in Seq(TurnOf(k)),
         pending' = [pending EXCEPT ![k] = s]
  PROVE  QueuesAreOwn'
<1> SUFFICES ASSUME NEW j \in Thread PROVE pending'[j] \in Seq(TurnOf(j))
  BY DEF QueuesAreOwn
<1>1. CASE j = k
  BY <1>1 DEF QueueType
<1>2. CASE j # k
  <2>1. pending'[j] = pending[j]
    BY <1>2 DEF QueueType
  <2>2. QED
    BY <2>1 DEF QueuesAreOwn
<1>3. QED
  BY <1>1, <1>2

LEMMA OwnAppend ==
  ASSUME QueueType, QueuesAreOwn, NEW k \in Thread, NEW t \in TurnOf(k),
         pending' = [pending EXCEPT ![k] = Append(@, t)]
  PROVE  QueuesAreOwn'
<1>1. Append(pending[k], t) \in Seq(TurnOf(k))
  BY DEF QueuesAreOwn
<1>2. QED
  BY <1>1, OwnUpdate

LEMMA OwnInFront ==
  ASSUME QueueType, QueuesAreOwn, NEW k \in Thread, NEW t \in TurnOf(k),
         pending' = [pending EXCEPT ![k] = InFront(t, @)]
  PROVE  QueuesAreOwn'
<1>1. pending[k] \in Seq(TurnOf(k))
  BY DEF QueuesAreOwn
<1>2. InFront(t, pending[k]) \in Seq(TurnOf(k))
  BY <1>1 DEF InFront
<1>3. QED
  BY <1>2, OwnUpdate

LEMMA OwnEnqueue ==
  ASSUME QueueType, QueuesAreOwn, NEW t \in Turn, EnqueueMain(t)
  PROVE  QueuesAreOwn'
<1>1. Key(t.row) \in Thread /\ t \in TurnOf(Key(t.row))
  BY TurnTypes, KeyType DEF TurnOf
<1>2. pending' = [pending EXCEPT ![Key(t.row)] = Append(@, t)]
  BY DEF EnqueueMain
<1>3. QED
  BY <1>1, <1>2, OwnAppend

\* The turn a drain takes is one of its thread's.
LEMMA TakenIsOwn ==
  ASSUME QueueType, QueuesAreOwn, NEW k \in Thread, NextIndex(k) # 0
  PROVE  /\ pending[k][NextIndex(k)] \in TurnOf(k)
         /\ RemoveAt(pending[k], NextIndex(k)) \in Seq(TurnOf(k))
<1>1. NextIndex(k) \in 1..Len(pending[k])
  BY NextIndexType
<1>2. pending[k] \in Seq(TurnOf(k))
  BY DEF QueuesAreOwn
<1> DEFINE i == NextIndex(k)
           q == pending[k]
           S == TurnOf(k)
<1> HIDE DEF i, q, S
<1>3. i \in 1..Len(q) /\ q \in Seq(S)
  BY <1>1, <1>2 DEF i, q, S
<1>4. q[i] \in S /\ RemoveAt(q, i) \in Seq(S)
  BY <1>3, RemoveAtType
<1>5. QED
  BY <1>4 DEF i, q, S

LEMMA OwnLoaded ==
  ASSUME LedgerType, NEW k \in Thread, NEW S \in SUBSET Row, \A r \in S : Key(r) = k
  PROVE  LoadQueued(S) \in Seq(TurnOf(k))
<1>1. \A r \in S : rowTask[r] \in Task \cup {NoTask}
  BY DEF LedgerType
<1>2. LoadQueued(S) \in Seq([row : S, task : Task \cup {NoTask}])
  BY <1>1, LoadQueuedType
<1>3. [row : S, task : Task \cup {NoTask}] \subseteq TurnOf(k)
  BY DEF TurnOf, Turn
<1>4. QED
  BY <1>2, <1>3, SeqSubset

-----------------------------------------------------------------------------
(* What a step does to the main turns in flight. *)

LEMMA SingleKept ==
  ASSUME SingleMainTurn, UNCHANGED active,
         \A r \in Row : mainRun'[r] # "idle" <=> mainRun[r] # "idle"
  PROVE  SingleMainTurn'
  BY DEF SingleMainTurn

\* A turn begins in a conversation that was free.
LEMMA SingleBegin ==
  ASSUME ThreadType, SingleMainTurn, NEW r \in Row, NEW status, BeginMain(r, status),
         Key(r) \notin active
  PROVE  SingleMainTurn'
<1> DEFINE k == Key(r)
<1>1. k \in Thread
  BY KeyType
<1>2. \A s \in Row : Key(s) = k => mainRun[s] = "idle"
  BY <1>1 DEF SingleMainTurn
<1>3. CASE MayStart(status)
  <2>1. /\ active' = active \cup {k}
        /\ mainRun' = [mainRun EXCEPT ![r] = "cli"]
    BY <1>3 DEF BeginMain
  <2>2. mainRun'[r] # "idle" /\ \A s \in Row : s # r => mainRun'[s] = mainRun[s]
    BY <2>1 DEF ThreadType
  <2> HIDE DEF k
  <2>3. ASSUME NEW a \in Row, NEW b \in Row, mainRun'[a] # "idle",
               mainRun'[b] # "idle", Key(a) = Key(b)
        PROVE  a = b
    BY <1>2, <2>2, <2>3 DEF SingleMainTurn, k
  <2>4. ASSUME NEW j \in Thread
        PROVE  j \in active' <=> \E s \in Row : Key(s) = j /\ mainRun'[s] # "idle"
    <3>1. CASE j = k
      BY <2>1, <2>2, <3>1 DEF k
    <3>2. CASE j # k
      <4>1. \A s \in Row : Key(s) = j => s # r
        BY <3>2 DEF k
      <4>2. j \in active' <=> j \in active
        BY <2>1, <3>2
      <4>3. j \in active <=> \E s \in Row : Key(s) = j /\ mainRun[s] # "idle"
        BY DEF SingleMainTurn
      <4>4. QED
        BY <2>2, <4>1, <4>2, <4>3
    <3>3. QED
      BY <3>1, <3>2
  <2>5. QED
    BY <2>3, <2>4 DEF SingleMainTurn
<1>4. CASE ~MayStart(status)
  BY <1>4, SingleKept DEF BeginMain
<1>5. QED
  BY <1>3, <1>4

\* The only turn of a conversation ends and gives its slot back.
LEMMA SingleRelease ==
  ASSUME ThreadType, SingleMainTurn, NEW r \in Row, ReleaseParent(r),
         mainRun[r] # "idle"
  PROVE  SingleMainTurn'
<1> DEFINE k == Key(r)
<1>1. k \in Thread
  BY KeyType
<1>2. /\ active' = active \ {k}
      /\ mainRun' = [mainRun EXCEPT ![r] = "idle"]
  BY DEF ReleaseParent
<1>3. mainRun'[r] = "idle" /\ \A s \in Row : s # r => mainRun'[s] = mainRun[s]
  BY <1>2 DEF ThreadType
<1>4. \A s \in Row : Key(s) = k /\ mainRun[s] # "idle" => s = r
  BY DEF SingleMainTurn
<1> HIDE DEF k
<1>5. ASSUME NEW a \in Row, NEW b \in Row, mainRun'[a] # "idle",
             mainRun'[b] # "idle", Key(a) = Key(b)
      PROVE  a = b
  BY <1>3, <1>5 DEF SingleMainTurn
<1>6. ASSUME NEW j \in Thread
      PROVE  j \in active' <=> \E s \in Row : Key(s) = j /\ mainRun'[s] # "idle"
  <2>1. CASE j = k
    BY <1>2, <1>3, <1>4, <2>1
  <2>2. CASE j # k
    <3>1. \A s \in Row : Key(s) = j => s # r
      BY <2>2 DEF k
    <3>2. j \in active' <=> j \in active
      BY <1>2, <2>2
    <3>3. j \in active <=> \E s \in Row : Key(s) = j /\ mainRun[s] # "idle"
      BY DEF SingleMainTurn
    <3>4. QED
      BY <1>3, <3>1, <3>2, <3>3
  <2>3. QED
    BY <2>1, <2>2
<1>7. QED
  BY <1>5, <1>6 DEF SingleMainTurn

-----------------------------------------------------------------------------
(* The actions. *)

\* Steps that touch neither the main turns nor the queues of the conversations.
LEMMA TurnKept ==
  ASSUME QueuesAreOwn, SingleMainTurn, UNCHANGED pending, UNCHANGED active,
         UNCHANGED mainRun
  PROVE  QueuesAreOwn' /\ SingleMainTurn'
  BY OwnKept, SingleKept

LEMMA OnMessageTurn ==
  ASSUME TurnInv, NEW m \in Msg, OnMessage(m)
  PROVE  QueuesAreOwn' /\ SingleMainTurn'
<1> DEFINE t == OwnTurn(m, NoTask)
<1>1. /\ QueueType /\ ThreadType /\ QueuesAreOwn /\ SingleMainTurn
      /\ t \in Turn /\ t.row \in Row /\ Key(t.row) = ThreadOf[m]
  BY TurnTypes DEF TurnInv, TypeOK, OwnTurn, Key
<1>2. CASE EnqueueMain(t) /\ UNCHANGED <<active, mainRun, execs>>
  <2>1. QueuesAreOwn'
    BY <1>1, <1>2, OwnEnqueue
  <2>2. SingleMainTurn'
    BY <1>1, <1>2, SingleKept
  <2>3. QED
    BY <2>1, <2>2
<1>3. CASE UNCHANGED <<persistent, pending, acking, active, mainRun, execs>>
  BY <1>1, <1>3, TurnKept
<1>4. CASE /\ ~MustWait(ThreadOf[m])
           /\ BeginMain(t.row, StatusAfterAdd(t.row))
           /\ UNCHANGED <<pending, acking>>
  <2>1. Key(t.row) \notin active
    BY <1>1, <1>4 DEF MustWait
  <2>2. QED
    BY <1>1, <1>4, <2>1, OwnKept, SingleBegin
<1>5. QED
  BY <1>2, <1>3, <1>4 DEF OnMessage

LEMMA CmdForceTurn ==
  ASSUME TurnInv, NEW m \in Msg, CmdForce(m)
  PROVE  QueuesAreOwn' /\ SingleMainTurn'
<1> DEFINE t == OwnTurn(m, NoTask)
           k == ThreadOf[m]
<1>1. /\ QueueType /\ QueuesAreOwn /\ SingleMainTurn
      /\ UNCHANGED active /\ UNCHANGED mainRun
  BY DEF TurnInv, TypeOK, CmdForce
<1>2. k \in Thread /\ t \in TurnOf(k)
  BY SchedulerAssumption, TurnTypes DEF TurnOf, OwnTurn, Key
<1>3. pending' = [pending EXCEPT ![k] = InFront(t, @)] \/ UNCHANGED pending
  BY DEF CmdForce
<1> HIDE DEF t, k
<1>4. QueuesAreOwn'
  BY <1>1, <1>2, <1>3, OwnInFront, OwnKept
<1>5. SingleMainTurn'
  BY <1>1, SingleKept
<1>6. QED
  BY <1>4, <1>5

LEMMA CmdTaskNewTurn ==
  ASSUME TurnInv, NEW m \in Msg, CmdTaskNew(m)
  PROVE  QueuesAreOwn' /\ SingleMainTurn'
<1> DEFINE T == <<m, crashes>>
           t == OwnTurn(m, T)
<1>1. /\ QueueType /\ QueuesAreOwn /\ SingleMainTurn
      /\ UNCHANGED active /\ UNCHANGED mainRun
  BY DEF TurnInv, TypeOK, CmdTaskNew
<1>2. T \in Task
  BY DEF TurnInv, TypeOK, CmdTaskNew, Deliver, Task, ProcessType
<1>3. t \in Turn
  BY <1>2, TurnTypes
<1>4. EnqueueMain(t) \/ UNCHANGED pending
  BY DEF CmdTaskNew
<1>5. QueuesAreOwn'
  BY <1>1, <1>3, <1>4, OwnEnqueue, OwnKept
<1>6. QED
  BY <1>1, <1>5, SingleKept

LEMMA CliEndsTurn ==
  ASSUME TurnInv, NEW r \in Row, CliEnds(r)
  PROVE  QueuesAreOwn' /\ SingleMainTurn'
<1>1. /\ ThreadType /\ QueuesAreOwn /\ SingleMainTurn
      /\ UNCHANGED active /\ UNCHANGED pending
  BY DEF TurnInv, TypeOK, CliEnds, queues
<1>2. /\ mainRun[r] = "cli"
      /\ \E stage \in {"deliver", "timedout", "notice"} :
            mainRun' = [mainRun EXCEPT ![r] = stage]
  BY DEF CliEnds
<1>3. \A s \in Row : mainRun'[s] # "idle" <=> mainRun[s] # "idle"
  BY <1>1, <1>2 DEF ThreadType
<1>4. QED
  BY <1>1, <1>3, OwnKept, SingleKept

LEMMA FinishMainTurn ==
  ASSUME TurnInv, NEW r \in Row, FinishMain(r)
  PROVE  QueuesAreOwn' /\ SingleMainTurn'
<1> DEFINE k == Key(r)
           rec == <<r[1], "recovery">>
           t == [row |-> rec, task |-> NoTask]
<1>1. /\ QueueType /\ ThreadType /\ QueuesAreOwn /\ SingleMainTurn
      /\ ReleaseParent(r) /\ mainRun[r] # "idle"
  BY DEF TurnInv, TypeOK, FinishMain
<1>2. k \in Thread /\ rec \in Row /\ Key(rec) = k
  BY KeyType DEF Row, Key
<1>3. t \in TurnOf(k)
  BY <1>2, TurnTypes DEF TurnOf
<1>4. pending' = [pending EXCEPT ![k] = InFront(t, @)] \/ UNCHANGED pending
  BY DEF FinishMain
<1> HIDE DEF t, k
<1>5. QueuesAreOwn'
  BY <1>1, <1>2, <1>3, <1>4, OwnInFront, OwnKept
<1>6. SingleMainTurn'
  BY <1>1, SingleRelease
<1>7. QED
  BY <1>5, <1>6

LEMMA FinishNoticeTurn ==
  ASSUME TurnInv, NEW r \in Row, FinishNotice(r)
  PROVE  QueuesAreOwn' /\ SingleMainTurn'
<1>1. /\ ThreadType /\ QueuesAreOwn /\ SingleMainTurn
      /\ ReleaseParent(r) /\ mainRun[r] # "idle" /\ UNCHANGED pending
  BY DEF TurnInv, TypeOK, FinishNotice, queues
<1>2. QED
  BY <1>1, OwnKept, SingleRelease

LEMMA DrainThreadTurn ==
  ASSUME TurnInv, NEW k \in Thread, DrainThread(k)
  PROVE  QueuesAreOwn' /\ SingleMainTurn'
<1> DEFINE i == NextIndex(k)
           t == pending[k][i]
<1>1. QueueType /\ ThreadType /\ QueuesAreOwn /\ SingleMainTurn
  BY DEF TurnInv, TypeOK
<1>2. ASSUME i # 0
      PROVE  /\ t.row \in Row /\ Key(t.row) = k /\ k \notin active
             /\ RemoveAt(pending[k], i) \in Seq(TurnOf(k))
  <2>1. t \in TurnOf(k) /\ RemoveAt(pending[k], i) \in Seq(TurnOf(k))
    BY <1>1, <1>2, TakenIsOwn
  <2>2. k \notin active
    BY <1>2 DEF NextIndex
  <2>3. QED
    BY <2>1, <2>2, TurnTypes DEF TurnOf
<1>3. CASE i = 0
  BY <1>1, <1>3, TurnKept DEF DrainThread
<1>4. CASE i # 0
  <2>1. /\ pending' = [pending EXCEPT ![k] = RemoveAt(@, i)]
        /\ BeginMain(t.row, ledger[t.row]) \/ UNCHANGED <<active, mainRun>>
    BY <1>4 DEF DrainThread
  <2> HIDE DEF i, t
  <2>2. QueuesAreOwn'
    BY <1>1, <1>2, <1>4, <2>1, OwnUpdate
  <2>3. SingleMainTurn'
    BY <1>1, <1>2, <1>4, <2>1, SingleBegin, SingleKept
  <2>4. QED
    BY <2>2, <2>3
<1>5. QED
  BY <1>3, <1>4

\* Jobs, follow-ups, acknowledgements and commands leave the main turns alone.
LEMMA OthersTurn ==
  ASSUME TurnInv,
         \/ \E m \in Msg, T \in Task : ResumeTask(m, T)
         \/ \E k \in Thread : CmdStop(k) \/ QueueResume(k)
         \/ \E t \in acking : AckEnqueued(t)
         \/ \E j \in jobs : JobStarts(j) \/ JobRefused(j) \/ JobAckFails(j) \/ JobEnds(j)
         \/ \E T \in Task : DrainTask(T)
         \/ UNCHANGED vars
  PROVE  QueuesAreOwn' /\ SingleMainTurn'
<1>1. QueuesAreOwn /\ SingleMainTurn
  BY DEF TurnInv
<1>2. UNCHANGED pending /\ UNCHANGED active /\ UNCHANGED mainRun
  <2>1. ASSUME NEW m \in Msg, NEW T \in Task, ResumeTask(m, T)
        PROVE  UNCHANGED pending /\ UNCHANGED active /\ UNCHANGED mainRun
    BY <2>1 DEF ResumeTask
  <2>2. ASSUME NEW k \in Thread, CmdStop(k) \/ QueueResume(k)
        PROVE  UNCHANGED pending /\ UNCHANGED active /\ UNCHANGED mainRun
    BY <2>2 DEF CmdStop, QueueResume, queues
  <2>3. ASSUME NEW t \in acking, AckEnqueued(t)
        PROVE  UNCHANGED pending /\ UNCHANGED active /\ UNCHANGED mainRun
    BY <2>3 DEF AckEnqueued, queues
  <2>4. ASSUME NEW j \in jobs, JobStarts(j)
        PROVE  UNCHANGED pending /\ UNCHANGED active /\ UNCHANGED mainRun
    BY <2>4 DEF JobStarts, queues
  <2>5. ASSUME NEW j \in jobs, JobRefused(j) \/ JobAckFails(j) \/ JobEnds(j)
        PROVE  UNCHANGED pending /\ UNCHANGED active /\ UNCHANGED mainRun
    BY <2>5 DEF JobRefused, JobAckFails, JobEnds, queues
  <2>6. ASSUME NEW T \in Task, DrainTask(T)
        PROVE  UNCHANGED pending /\ UNCHANGED active /\ UNCHANGED mainRun
    BY <2>6 DEF DrainTask
  <2>7. CASE UNCHANGED vars
    BY <2>7 DEF vars
  <2>8. QED
    BY <2>1, <2>2, <2>3, <2>4, <2>5, <2>6, <2>7
<1>3. QED
  BY <1>1, <1>2, TurnKept

LEMMA CrashTurn ==
  ASSUME TurnInv, Crash
  PROVE  QueuesAreOwn' /\ SingleMainTurn'
<1>1. /\ pending' = [k \in Thread |-> <<>>]
      /\ active' = {}
      /\ mainRun' = [r \in Row |-> "idle"]
  BY DEF Crash
<1>2. \A S : <<>> \in Seq(S)
  OBVIOUS
<1>3. QueuesAreOwn'
  BY <1>1, <1>2 DEF QueuesAreOwn
<1>4. SingleMainTurn'
  BY <1>1 DEF SingleMainTurn
<1>5. QED
  BY <1>3, <1>4

LEMMA RestartTurn ==
  ASSUME TurnInv, Restart
  PROVE  QueuesAreOwn' /\ SingleMainTurn'
<1> DEFINE queued == {r \in Row : ledger[r] = "queued"}
           mainRows(k) == {r \in queued : Key(r) = k /\ KindOf(r) # "followup"}
<1>1. LedgerType /\ SingleMainTurn
  BY DEF TurnInv, TypeOK
<1>2. /\ pending' = [k \in Thread |-> LoadQueued(mainRows(k))]
      /\ UNCHANGED active /\ UNCHANGED mainRun
  BY DEF Restart
<1>3. \A k \in Thread : LoadQueued(mainRows(k)) \in Seq(TurnOf(k))
  <2>1. TAKE k \in Thread
  <2>2. mainRows(k) \in SUBSET Row /\ \A r \in mainRows(k) : Key(r) = k
    OBVIOUS
  <2> HIDE DEF mainRows
  <2>3. QED
    BY <1>1, <2>2, OwnLoaded
<1> HIDE DEF mainRows
<1>4. QueuesAreOwn'
  BY <1>2, <1>3 DEF QueuesAreOwn
<1>5. QED
  BY <1>1, <1>2, <1>4, SingleKept

-----------------------------------------------------------------------------
LEMMA InitTurnInv == Init => TurnInv
<1> SUFFICES ASSUME Init PROVE TurnInv
  OBVIOUS
<1>1. \A S : <<>> \in Seq(S)
  OBVIOUS
<1>2. QueuesAreOwn
  BY <1>1 DEF Init, QueuesAreOwn
<1>3. SingleMainTurn
  BY DEF Init, SingleMainTurn
<1>4. QED
  BY <1>2, <1>3, InitType DEF TurnInv

LEMMA StepTurnInv == TurnInv /\ [Next]_vars => TurnInv'
<1> SUFFICES ASSUME TurnInv, [Next]_vars PROVE TurnInv'
  OBVIOUS
<1>1. TypeOK'
  BY StepType DEF TurnInv
<1> DEFINE Goal == QueuesAreOwn' /\ SingleMainTurn'
<1>2. ASSUME NEW m \in Msg, OnMessage(m) \/ CmdForce(m) \/ CmdTaskNew(m) PROVE Goal
  BY <1>2, OnMessageTurn, CmdForceTurn, CmdTaskNewTurn
<1>3. ASSUME NEW r \in Row, CliEnds(r) \/ FinishMain(r) \/ FinishNotice(r) PROVE Goal
  BY <1>3, CliEndsTurn, FinishMainTurn, FinishNoticeTurn
<1>4. ASSUME NEW k \in Thread, DrainThread(k) PROVE Goal
  BY <1>4, DrainThreadTurn
<1>5. ASSUME Crash \/ Restart PROVE Goal
  BY <1>5, CrashTurn, RestartTurn
<1> HIDE DEF Goal
<1>6. ASSUME \/ \E m \in Msg, T \in Task : ResumeTask(m, T)
             \/ \E k \in Thread : CmdStop(k) \/ QueueResume(k)
             \/ \E t \in acking : AckEnqueued(t)
             \/ \E j \in jobs : JobStarts(j) \/ JobRefused(j) \/ JobAckFails(j) \/ JobEnds(j)
             \/ \E T \in Task : DrainTask(T)
             \/ UNCHANGED vars
      PROVE  Goal
  BY <1>6, OthersTurn DEF Goal
<1>7. Goal
  BY <1>2, <1>3, <1>4, <1>5, <1>6 DEF Next
<1>8. QED
  BY <1>1, <1>7 DEF TurnInv, Goal

\* A conversation never has two main turns in flight, and is marked active
\* exactly while it has one: no handler and drain both start a turn.
THEOREM OneMainTurn == Spec => []SingleMainTurn
<1>1. TurnInv => SingleMainTurn
  BY DEF TurnInv
<1>2. QED
  BY InitTurnInv, StepTurnInv, <1>1, PTL DEF Spec

-----------------------------------------------------------------------------
(* Where a main turn can start. *)

LEMMA BeginStartsOne ==
  ASSUME ThreadType, NEW r \in Row, NEW status, BeginMain(r, status),
         NEW s \in Row, StartsMain(s)
  PROVE  s = r
<1>1. CASE MayStart(status)
  <2>1. mainRun' = [mainRun EXCEPT ![r] = "cli"]
    BY <1>1 DEF BeginMain
  <2>2. s # r => mainRun'[s] = mainRun[s]
    BY <2>1 DEF ThreadType
  <2>3. QED
    BY <2>2 DEF StartsMain
<1>2. CASE ~MayStart(status)
  BY <1>2 DEF BeginMain, StartsMain
<1>3. QED
  BY <1>1, <1>2

LEMMA OnMessageStarts ==
  ASSUME TurnInv, NEW m \in Msg, OnMessage(m), NEW s \in Row, StartsMain(s)
  PROVE  Key(s) \notin review
<1> DEFINE t == OwnTurn(m, NoTask)
<1>1. ThreadType /\ t.row \in Row /\ Key(t.row) = ThreadOf[m]
  BY TurnTypes DEF TurnInv, TypeOK, OwnTurn, Key
<1>2. mainRun' # mainRun
  BY DEF StartsMain
<1>3. /\ ~MustWait(ThreadOf[m])
      /\ BeginMain(t.row, StatusAfterAdd(t.row))
  BY <1>2 DEF OnMessage
<1> HIDE DEF t
<1>4. s = t.row
  BY <1>1, <1>3, BeginStartsOne
<1>5. QED
  BY <1>1, <1>3, <1>4 DEF MustWait

LEMMA DrainThreadStarts ==
  ASSUME TurnInv, NEW k \in Thread, DrainThread(k), NEW s \in Row, StartsMain(s)
  PROVE  Key(s) \notin review
<1> DEFINE i == NextIndex(k)
           t == pending[k][i]
<1>1. QueueType /\ ThreadType /\ QueuesAreOwn
  BY DEF TurnInv, TypeOK
<1>2. mainRun' # mainRun
  BY DEF StartsMain
<1>3. i # 0 /\ BeginMain(t.row, ledger[t.row])
  BY <1>2 DEF DrainThread
<1>4. t \in TurnOf(k)
  BY <1>1, <1>3, TakenIsOwn
<1>5. k \notin review
  BY <1>3 DEF NextIndex
<1> HIDE DEF i, t
<1>6. t.row \in Row /\ Key(t.row) = k
  BY <1>4, TurnTypes DEF TurnOf
<1>7. s = t.row
  BY <1>1, <1>3, <1>6, BeginStartsOne
<1>8. QED
  BY <1>5, <1>6, <1>7

\* A turn that moves on or ends is not a turn that starts.
LEMMA EndingStartsNone ==
  ASSUME TurnInv, NEW r \in Row, CliEnds(r) \/ FinishMain(r) \/ FinishNotice(r),
         NEW s \in Row
  PROVE  ~StartsMain(s)
<1>1. ThreadType
  BY DEF TurnInv, TypeOK
<1>2. \E stage \in {"deliver", "timedout", "notice", "idle"} :
         mainRun' = [mainRun EXCEPT ![r] = stage]
  BY DEF CliEnds, FinishMain, FinishNotice, ReleaseParent
<1>3. QED
  BY <1>1, <1>2 DEF ThreadType, StartsMain

\* Every other step leaves the main turns alone or, a crash, ends them all.
LEMMA OthersStartNone ==
  ASSUME NEW s \in Row,
         \/ \E m \in Msg : CmdForce(m) \/ CmdTaskNew(m)
         \/ \E m \in Msg, T \in Task : ResumeTask(m, T)
         \/ \E k \in Thread : CmdStop(k) \/ QueueResume(k)
         \/ \E t \in acking : AckEnqueued(t)
         \/ \E j \in jobs : JobStarts(j) \/ JobRefused(j) \/ JobAckFails(j) \/ JobEnds(j)
         \/ \E T \in Task : DrainTask(T)
         \/ Crash
         \/ Restart
         \/ UNCHANGED vars
  PROVE  ~StartsMain(s)
<1>1. CASE \E m \in Msg : CmdForce(m) \/ CmdTaskNew(m)
  BY <1>1 DEF CmdForce, CmdTaskNew, StartsMain
<1>2. CASE \E m \in Msg, T \in Task : ResumeTask(m, T)
  BY <1>2 DEF ResumeTask, StartsMain
<1>3. CASE \E k \in Thread : CmdStop(k) \/ QueueResume(k)
  BY <1>3 DEF CmdStop, QueueResume, StartsMain
<1>4. CASE \E t \in acking : AckEnqueued(t)
  BY <1>4 DEF AckEnqueued, StartsMain
<1>5. CASE \E j \in jobs : JobStarts(j) \/ JobRefused(j) \/ JobAckFails(j) \/ JobEnds(j)
  BY <1>5 DEF JobStarts, JobRefused, JobAckFails, JobEnds, StartsMain
<1>6. CASE \E T \in Task : DrainTask(T)
  BY <1>6 DEF DrainTask, StartsMain
<1>7. CASE Crash
  BY <1>7 DEF Crash, StartsMain
<1>8. CASE Restart \/ UNCHANGED vars
  BY <1>8 DEF Restart, vars, StartsMain
<1>9. QED
  BY <1>1, <1>2, <1>3, <1>4, <1>5, <1>6, <1>7, <1>8

\* No main turn starts in a conversation that is paused for review.
THEOREM PausedStartsNoMain == Spec => PausedThreadStartsNoMain
<1>1. TurnInv /\ [Next]_vars => [\A r \in Row : StartsMain(r) => Key(r) \notin review]_vars
  <2> SUFFICES ASSUME TurnInv, [Next]_vars, NEW r \in Row, StartsMain(r)
               PROVE  Key(r) \notin review
    OBVIOUS
  <2>1. CASE \E m \in Msg : OnMessage(m)
    BY <2>1, OnMessageStarts
  <2>2. CASE \E k \in Thread : DrainThread(k)
    BY <2>2, DrainThreadStarts
  <2>3. CASE \E x \in Row : CliEnds(x) \/ FinishMain(x) \/ FinishNotice(x)
    BY <2>3, EndingStartsNone
  <2>4. QED
    BY <2>1, <2>2, <2>3, OthersStartNone DEF Next
<1>2. QED
  BY InitTurnInv, StepTurnInv, <1>1, PTL DEF Spec, PausedThreadStartsNoMain
=============================================================================
