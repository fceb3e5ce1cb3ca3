------------------------ MODULE RelaySchedulerProofs ------------------------
(***************************************************************************)
(* Theorems about RelayScheduler for every set of messages and threads,    *)
(* every queue limit and every number of crashes.                          *)
(***************************************************************************)
EXTENDS RelayScheduler, FiniteSetTheorems, WellFoundedInduction, TLAPS

-----------------------------------------------------------------------------
(* Typing of the helpers. *)

LEMMA KeyType == ASSUME NEW r \in Row PROVE Key(r) \in Thread
  BY SchedulerAssumption DEF Row, Key

LEMMA TurnTypes ==
  /\ TaskTurn \subseteq Turn
  /\ \A t \in Turn : t.row \in Row /\ t.task \in Task \cup {NoTask}
  /\ \A t \in TaskTurn : t.row \in Row /\ t.task \in Task
  /\ \A t \in Turn : ~MainTurn(t) => t \in TaskTurn
  /\ \A m \in Msg : \A T \in Task \cup {NoTask} : OwnTurn(m, T) \in Turn
  /\ \A m \in Msg : \A T \in Task : OwnTurn(m, T) \in TaskTurn
  /\ \A r \in Row : [row |-> r, task |-> NoTask] \in Turn
  BY DEF Turn, TaskTurn, MainTurn, OwnTurn, Row

LEMMA SeqSubset ==
  ASSUME NEW A, NEW B, A \subseteq B, NEW s \in Seq(A)
  PROVE  s \in Seq(B)
  OBVIOUS

\* A loaded queue is a sequence of turns with the tasks its rows record.
LEMMA LoadQueuedType ==
  ASSUME LedgerType, NEW X, NEW S \in SUBSET Row, \A r \in S : rowTask[r] \in X
  PROVE  LoadQueued(S) \in Seq([row : S, task : X])
<1> DEFINE listings == {q \in [1..Cardinality(S) -> S] :
                          \A i, j \in 1..Cardinality(S) :
                             i < j => LoadsBefore(q[i], q[j])}
           rows == IF listings = {} THEN <<>> ELSE CHOOSE q \in listings : TRUE
<1>1. Cardinality(S) \in Nat
  <2>1. IsFiniteSet({"own"} \cup {"recovery"})
    BY FS_Singleton, FS_AddElement
  <2>2. IsFiniteSet({"own", "recovery"})
    <3>1. {"own"} \cup {"recovery"} = {"own", "recovery"}
      OBVIOUS
    <3>2. QED
      BY <2>1, <3>1
  <2>3. IsFiniteSet(Row)
    BY <2>2, FS_Product, SchedulerAssumption DEF Row
  <2>4. QED
    BY <2>3, FS_Subset, FS_CardinalityType
<1>2. \E n \in Nat : rows \in [1..n -> S]
  <2>1. CASE listings = {}
    <3>1. rows = <<>>
      BY <2>1
    <3>2. <<>> \in [1..0 -> S]
      OBVIOUS
    <3>3. QED
      BY <3>1, <3>2
  <2>2. CASE listings # {}
    <3>1. rows \in listings
      BY <2>2
    <3>2. QED
      BY <3>1, <1>1
  <2>3. QED
    BY <2>1, <2>2
<1> HIDE DEF rows
<1>3. PICK n \in Nat : rows \in [1..n -> S]
  BY <1>2
<1>4. [i \in DOMAIN rows |-> [row |-> rows[i], task |-> rowTask[rows[i]]]]
        \in [1..n -> [row : S, task : X]]
  BY <1>3
<1>5. LoadQueued(S) = [i \in DOMAIN rows |-> [row |-> rows[i], task |-> rowTask[rows[i]]]]
  BY DEF LoadQueued, rows
<1>6. QED
  BY <1>4, <1>5

LEMMA AddRowType ==
  ASSUME LedgerType, NEW r \in Row, NEW T \in Task \cup {NoTask}, AddRow(r, T)
  PROVE  /\ rowId' \in [Row -> Nat]
         /\ rowTask' \in [Row -> Task \cup {NoTask}]
         /\ nextId' \in Nat
  BY DEF LedgerType, AddRow

LEMMA StatusAfterAddType ==
  ASSUME LedgerType, NEW r \in Row
  PROVE  StatusAfterAdd(r) \in RowStatus
  BY DEF LedgerType, StatusAfterAdd, RowStatus

LEMMA RemoveAtType ==
  ASSUME NEW S, NEW q \in Seq(S), NEW i \in 1..Len(q)
  PROVE  RemoveAt(q, i) \in Seq(S)
  BY DEF RemoveAt

\* A queue may be replaced by any queue of the same kind of turns.
LEMMA QueueUpdateType ==
  ASSUME NEW I, NEW S, NEW q \in [I -> Seq(S)], NEW i, NEW s \in Seq(S)
  PROVE  [q EXCEPT ![i] = s] \in [I -> Seq(S)]
  OBVIOUS

LEMMA QueueAppendType ==
  ASSUME NEW I, NEW S, NEW q \in [I -> Seq(S)], NEW i \in I, NEW x \in S
  PROVE  [q EXCEPT ![i] = Append(@, x)] \in [I -> Seq(S)]
<1>1. Append(q[i], x) \in Seq(S)
  OBVIOUS
<1>2. QED
  BY <1>1, QueueUpdateType

LEMMA QueueInFrontType ==
  ASSUME NEW I, NEW S, NEW q \in [I -> Seq(S)], NEW i \in I, NEW x \in S
  PROVE  [q EXCEPT ![i] = InFront(x, @)] \in [I -> Seq(S)]
<1>1. InFront(x, q[i]) \in Seq(S)
  BY DEF InFront
<1>2. QED
  BY <1>1, QueueUpdateType

\* An added row, in any status, keeps the ledger's shape.
LEMMA AddType ==
  ASSUME LedgerType, NEW r \in Row, NEW T \in Task \cup {NoTask}, AddRow(r, T),
         NEW status \in RowStatus, ledger' = [ledger EXCEPT ![r] = status]
  PROVE  LedgerType'
  BY AddRowType DEF LedgerType

LEMMA BeginMainType ==
  ASSUME LedgerType, ThreadType, NEW r \in Row, NEW status \in RowStatus,
         BeginMain(r, status)
  PROVE  /\ ledger' \in [Row -> RowStatus]
         /\ active' \subseteq Thread
         /\ mainRun' \in [Row -> {"idle", "cli", "deliver", "timedout", "notice"}]
         /\ execs' \in [Row -> Nat]
<1>1. CASE MayStart(status)
  BY <1>1, KeyType DEF LedgerType, ThreadType, BeginMain, RowStatus
<1>2. CASE ~MayStart(status)
  BY <1>2 DEF LedgerType, ThreadType, BeginMain
<1>3. QED
  BY <1>1, <1>2

LEMMA BeginJobType ==
  ASSUME LedgerType, SessionType, NEW t \in TaskTurn, NEW via \in {"handler", "drain"},
         BeginJob(t, via)
  PROVE  /\ LedgerType'
         /\ registry' \in [Task -> TaskStatus]
         /\ activeJob' \in [Thread -> Task \cup {NoTask}]
         /\ running' \subseteq Task
         /\ jobs' \subseteq Job
<1>1. t.row \in Row /\ t.task \in Task
  BY TurnTypes
<1>2. LedgerType'
  BY <1>1, AddType, StatusAfterAddType DEF BeginJob
<1>3. registry' \in [Task -> TaskStatus] /\ running' \subseteq Task
  BY <1>1 DEF SessionType, BeginJob, TaskStatus
<1>4. activeJob' \in [Thread -> Task \cup {NoTask}]
  <2>1. activeJob \in [Thread -> Task \cup {NoTask}]
    BY DEF SessionType
  <2>2. CASE OccupiesParent(t)
    <3>1. activeJob' = [activeJob EXCEPT ![Key(t.row)] = t.task]
      BY <2>2 DEF BeginJob
    <3>2. QED
      BY <2>1, <3>1, <1>1
  <2>3. CASE ~OccupiesParent(t)
    BY <2>1, <2>3 DEF BeginJob
  <2>4. QED
    BY <2>2, <2>3
<1>5. jobs' \subseteq Job
  <2>1. jobs \subseteq Job
    BY DEF SessionType
  <2>2. jobs' = jobs \cup {[turn |-> t, stage |-> "ack", via |-> via]}
    BY DEF BeginJob
  <2>3. [turn |-> t, stage |-> "ack", via |-> via] \in Job
    BY DEF Job
  <2>4. QED
    BY <2>1, <2>2, <2>3
<1>6. QED
  BY <1>2, <1>3, <1>4, <1>5

LEMMA EnqueueMainType ==
  ASSUME LedgerType, QueueType, NEW t \in Turn, EnqueueMain(t)
  PROVE  /\ LedgerType'
         /\ pending' \in [Thread -> Seq(Turn)]
         /\ acking' \subseteq Turn
<1>1. t.row \in Row /\ t.task \in Task \cup {NoTask}
  BY TurnTypes
<1>2. LedgerType'
  BY <1>1, AddType, StatusAfterAddType DEF EnqueueMain
<1>3. pending' \in [Thread -> Seq(Turn)]
  <2>1. pending \in [Thread -> Seq(Turn)]
    BY DEF QueueType
  <2>2. pending' = [pending EXCEPT ![Key(t.row)] = Append(@, t)]
    BY DEF EnqueueMain
  <2>3. Key(t.row) \in Thread
    BY <1>1, KeyType
  <2>4. QED
    BY <2>1, <2>2, <2>3, QueueAppendType
<1>4. acking' \subseteq Turn
  BY DEF QueueType, EnqueueMain
<1>5. QED
  BY <1>2, <1>3, <1>4

LEMMA EnqueueFollowupType ==
  ASSUME LedgerType, QueueType, NEW t \in TaskTurn, EnqueueFollowup(t)
  PROVE  /\ LedgerType'
         /\ followups' \in [Task -> Seq(TaskTurn)]
         /\ acking' \subseteq Turn
<1>1. t.row \in Row /\ t.task \in Task /\ t \in Turn
  BY TurnTypes
<1>2. LedgerType'
  BY <1>1, AddType, StatusAfterAddType DEF EnqueueFollowup
<1>3. followups' \in [Task -> Seq(TaskTurn)]
  <2>1. followups \in [Task -> Seq(TaskTurn)]
    BY DEF QueueType
  <2>2. followups' = [followups EXCEPT ![t.task] = Append(@, t)]
    BY DEF EnqueueFollowup
  <2>3. QED
    BY <1>1, <2>1, <2>2, QueueAppendType
<1>4. acking' \subseteq Turn
  BY <1>1 DEF QueueType, EnqueueFollowup
<1>5. QED
  BY <1>2, <1>3, <1>4

\* A nonempty set of numbers has a least element.
LEMMA LeastIndex ==
  ASSUME NEW S \in SUBSET Nat, S # {}
  PROVE  \E i \in S : \A j \in S : i <= j
<1> DEFINE R == OpToRel(<, Nat)
<1>1. IsWellFoundedOn(R, Nat)
  BY NatLessThanWellFounded, Zenon
<1>2. \A x, y \in Nat : x < y => <<x, y>> \in R
  BY Zenon DEF OpToRel
<1> HIDE DEF R
<1>3. PICK i \in S : \A j \in S : ~ (<<j, i>> \in R)
  <2>1. \E x \in S : \A y \in S : ~ (<<y, x>> \in R)
    BY <1>1, WFMin, Zenon
  <2>2. QED
    BY <2>1
<1>4. \A j \in S : ~ (j < i)
  BY <1>2, <1>3, Zenon
<1>5. \A j \in S : j \in Nat /\ i \in Nat
  OBVIOUS
<1>6. \A j \in S : i <= j
  BY <1>4, <1>5
<1>7. QED
  BY <1>6

\* The drain takes a turn that is in the queue.
LEMMA NextIndexType ==
  ASSUME QueueType, NEW k \in Thread
  PROVE  NextIndex(k) = 0 \/ NextIndex(k) \in 1..Len(pending[k])
<1> DEFINE q == pending[k]
           mains == {i \in DOMAIN q : MainTurn(q[i])}
<1>1. q \in Seq(Turn)
  BY DEF QueueType
<1>2. mains \in SUBSET Nat /\ mains \subseteq 1..Len(q)
  BY <1>1
<1>3. mains # {} => (CHOOSE i \in mains : \A j \in mains : i <= j) \in mains
  BY <1>2, LeastIndex
<1>4. q # <<>> => 1 \in 1..Len(q)
  BY <1>1
<1>5. QED
  BY <1>2, <1>3, <1>4 DEF NextIndex

LEMMA ScheduledType ==
  /\ \A d \in {"none", "ready", "main", "job"} :
        Scheduled(d) \in {"none", "ready", "main", "job"}
  /\ \A d \in {"none", "ready", "job"} : Scheduled(d) \in {"none", "ready", "job"}
  BY DEF Scheduled

-----------------------------------------------------------------------------
(* A group of variables that a step leaves alone keeps its type. *)

LEMMA LedgerKept ==
  ASSUME LedgerType, UNCHANGED ledger, UNCHANGED rowId, UNCHANGED rowTask,
         UNCHANGED nextId
  PROVE  LedgerType'
  BY DEF LedgerType

LEMMA QueueKept ==
  ASSUME QueueType, UNCHANGED pending, UNCHANGED followups, UNCHANGED acking
  PROVE  QueueType'
  BY DEF QueueType

LEMMA ThreadKept ==
  ASSUME ThreadType, UNCHANGED active, UNCHANGED review, UNCHANGED latch,
         UNCHANGED drain, UNCHANGED mainRun, UNCHANGED execs
  PROVE  ThreadType'
  BY DEF ThreadType

LEMMA SessionKept ==
  ASSUME SessionType, UNCHANGED registry, UNCHANGED activeJob, UNCHANGED running,
         UNCHANGED taskDrain, UNCHANGED jobs
  PROVE  SessionType'
  BY DEF SessionType

LEMMA ProcessKept ==
  ASSUME ProcessType, UNCHANGED inbox, UNCHANGED up, UNCHANGED crashes
  PROVE  ProcessType'
  BY DEF ProcessType

LEMMA DeliverType ==
  ASSUME ProcessType, NEW m, NEW c, Deliver(m, c), UNCHANGED up, UNCHANGED crashes
  PROVE  ProcessType'
  BY DEF ProcessType, Deliver
-----------------------------------------------------------------------------
(* Every handler keeps TypeOK. *)

LEMMA OnMessageType ==
  ASSUME TypeOK, NEW m \in Msg, OnMessage(m)
  PROVE  TypeOK'
<1> DEFINE t == OwnTurn(m, NoTask)
<1>1. t \in Turn /\ t.row \in Row
  BY TurnTypes
<1>2. LedgerType /\ QueueType /\ ThreadType /\ SessionType /\ ProcessType
  BY DEF TypeOK
<1>3. /\ UNCHANGED registry /\ UNCHANGED up /\ UNCHANGED followups
      /\ UNCHANGED activeJob /\ UNCHANGED running /\ UNCHANGED review
      /\ UNCHANGED latch /\ UNCHANGED drain /\ UNCHANGED taskDrain
      /\ UNCHANGED jobs /\ UNCHANGED crashes /\ Deliver(m, "plain")
  BY DEF OnMessage
<1> HIDE DEF t
<1>4. LedgerType' /\ QueueType' /\ ThreadType'
  <2>1. CASE EnqueueMain(t) /\ UNCHANGED <<active, mainRun, execs>>
    <3>1. ThreadType'
      BY <1>2, <1>3, <2>1, ThreadKept
    <3>2. LedgerType' /\ QueueType'
      BY <1>1, <1>2, <1>3, <2>1, EnqueueMainType DEF QueueType
    <3>3. QED
      BY <3>1, <3>2
  <2>2. CASE UNCHANGED <<persistent, pending, acking, active, mainRun, execs>>
    BY <1>2, <1>3, <2>2, LedgerKept, QueueKept, ThreadKept DEF persistent
  <2>3. CASE /\ AddRow(t.row, NoTask)
             /\ BeginMain(t.row, StatusAfterAdd(t.row))
             /\ UNCHANGED <<pending, acking>>
    <3>1. StatusAfterAdd(t.row) \in RowStatus
      BY <1>1, <1>2, StatusAfterAddType
    <3>2. /\ ledger' \in [Row -> RowStatus]
          /\ active' \subseteq Thread
          /\ mainRun' \in [Row -> {"idle", "cli", "deliver", "timedout", "notice"}]
          /\ execs' \in [Row -> Nat]
      BY <1>1, <1>2, <2>3, <3>1, BeginMainType
    <3>3. /\ rowId' \in [Row -> Nat]
          /\ rowTask' \in [Row -> Task \cup {NoTask}]
          /\ nextId' \in Nat
      BY <1>1, <1>2, <2>3, AddRowType
    <3>4. ThreadType'
      BY <1>2, <1>3, <3>2 DEF ThreadType
    <3>5. LedgerType'
      BY <3>2, <3>3 DEF LedgerType
    <3>6. QueueType'
      BY <1>2, <1>3, <2>3, QueueKept
    <3>7. QED
      BY <3>4, <3>5, <3>6
  <2>4. QED
    BY <2>1, <2>2, <2>3 DEF OnMessage, t
<1>5. SessionType' /\ ProcessType'
  BY <1>2, <1>3, SessionKept, DeliverType
<1>6. QED
  BY <1>4, <1>5 DEF TypeOK

LEMMA CmdForceType ==
  ASSUME TypeOK, NEW m \in Msg, CmdForce(m)
  PROVE  TypeOK'
<1> DEFINE t == OwnTurn(m, NoTask)
           k == ThreadOf[m]
<1>1. t \in Turn /\ t.row \in Row /\ k \in Thread
  BY TurnTypes, SchedulerAssumption
<1>2. LedgerType /\ QueueType /\ ThreadType /\ SessionType /\ ProcessType
  BY DEF TypeOK
<1>3. /\ UNCHANGED registry /\ UNCHANGED up /\ UNCHANGED followups /\ UNCHANGED active
      /\ UNCHANGED activeJob /\ UNCHANGED running /\ UNCHANGED review
      /\ UNCHANGED drain /\ UNCHANGED taskDrain /\ UNCHANGED mainRun
      /\ UNCHANGED jobs /\ UNCHANGED execs /\ UNCHANGED crashes
      /\ Deliver(m, "force")
  BY DEF CmdForce
<1> HIDE DEF t, k
<1>4. LedgerType' /\ QueueType' /\ ThreadType'
  <2>1. CASE /\ AddRow(t.row, NoTask)
             /\ ledger' = [ledger EXCEPT ![t.row] = StatusAfterAdd(t.row)]
             /\ pending' = [pending EXCEPT ![k] = InFront(t, @)]
             /\ latch' = latch \cup {k}
             /\ acking' = acking \cup {t}
    <3>1. LedgerType'
      BY <1>1, <1>2, <2>1, AddType, StatusAfterAddType
    <3>2. pending' \in [Thread -> Seq(Turn)]
      BY <1>1, <1>2, <2>1, QueueInFrontType DEF QueueType
    <3>3. QueueType'
      BY <1>1, <1>2, <1>3, <2>1, <3>2 DEF QueueType
    <3>4. ThreadType'
      BY <1>1, <1>2, <1>3, <2>1 DEF ThreadType
    <3>5. QED
      BY <3>1, <3>3, <3>4
  <2>2. CASE UNCHANGED <<persistent, pending, latch, acking>>
    BY <1>2, <1>3, <2>2, LedgerKept, QueueKept, ThreadKept DEF persistent
  <2>3. QED
    BY <2>1, <2>2 DEF CmdForce, t, k
<1>5. SessionType' /\ ProcessType'
  BY <1>2, <1>3, SessionKept, DeliverType
<1>6. QED
  BY <1>4, <1>5 DEF TypeOK

LEMMA CmdStopType ==
  ASSUME TypeOK, NEW k \in Thread, CmdStop(k)
  PROVE  TypeOK'
<1>1. LedgerType /\ QueueType /\ ThreadType /\ SessionType /\ ProcessType
  BY DEF TypeOK
<1>2. ThreadType'
  BY <1>1 DEF ThreadType, CmdStop
<1>3. LedgerType' /\ QueueType' /\ SessionType' /\ ProcessType'
  BY <1>1, LedgerKept, QueueKept, SessionKept, ProcessKept
     DEF CmdStop, persistent, queues
<1>4. QED
  BY <1>2, <1>3 DEF TypeOK

LEMMA CmdTaskNewType ==
  ASSUME TypeOK, NEW m \in Msg, CmdTaskNew(m)
  PROVE  TypeOK'
<1> DEFINE k == ThreadOf[m]
           T == <<m, crashes>>
           t == OwnTurn(m, T)
<1>1. LedgerType /\ QueueType /\ ThreadType /\ SessionType /\ ProcessType
  BY DEF TypeOK
<1>2. T \in Task
  BY <1>1 DEF CmdTaskNew, Deliver, Task, ProcessType
<1>3. t \in Turn /\ t \in TaskTurn /\ t.row \in Row
  BY <1>2, TurnTypes
<1>4. /\ UNCHANGED up /\ UNCHANGED followups /\ UNCHANGED active
      /\ UNCHANGED review /\ UNCHANGED latch /\ UNCHANGED drain
      /\ UNCHANGED taskDrain /\ UNCHANGED mainRun /\ UNCHANGED execs
      /\ UNCHANGED crashes /\ Deliver(m, "new_task")
  BY DEF CmdTaskNew
<1>5. \/ /\ EnqueueMain(t)
         /\ registry' = [registry EXCEPT ![T] = "queued"]
         /\ UNCHANGED <<activeJob, running, jobs>>
      \/ /\ \E s \in {"failed", "queued"} : registry' = [registry EXCEPT ![T] = s]
         /\ UNCHANGED <<persistent, pending, acking, activeJob, running, jobs>>
      \/ /\ BeginJob(t, "handler")
         /\ UNCHANGED <<pending, acking>>
  BY DEF CmdTaskNew
<1> HIDE DEF T, t, k
<1>6. LedgerType' /\ QueueType' /\ SessionType'
  <2>1. CASE /\ EnqueueMain(t)
             /\ registry' = [registry EXCEPT ![T] = "queued"]
             /\ UNCHANGED <<activeJob, running, jobs>>
    <3>1. LedgerType' /\ QueueType'
      BY <1>1, <1>3, <1>4, <2>1, EnqueueMainType DEF QueueType
    <3>2. SessionType'
      BY <1>1, <1>2, <1>4, <2>1 DEF SessionType, TaskStatus
    <3>3. QED
      BY <3>1, <3>2
  <2>2. CASE /\ \E s \in {"failed", "queued"} : registry' = [registry EXCEPT ![T] = s]
             /\ UNCHANGED <<persistent, pending, acking, activeJob, running, jobs>>
    <3>1. LedgerType' /\ QueueType'
      BY <1>1, <1>4, <2>2, LedgerKept, QueueKept DEF persistent
    <3>2. SessionType'
      BY <1>1, <1>2, <1>4, <2>2 DEF SessionType, TaskStatus
    <3>3. QED
      BY <3>1, <3>2
  <2>3. CASE BeginJob(t, "handler") /\ UNCHANGED <<pending, acking>>
    <3>1. LedgerType' /\ SessionType'
      BY <1>1, <1>3, <1>4, <2>3, BeginJobType DEF SessionType
    <3>2. QueueType'
      BY <1>1, <1>4, <2>3, QueueKept
    <3>3. QED
      BY <3>1, <3>2
  <2>4. QED
    BY <1>5, <2>1, <2>2, <2>3
<1>7. ThreadType' /\ ProcessType'
  BY <1>1, <1>4, ThreadKept, DeliverType
<1>8. QED
  BY <1>6, <1>7 DEF TypeOK

LEMMA ResumeTaskType ==
  ASSUME TypeOK, NEW m \in Msg, NEW T \in Task, ResumeTask(m, T)
  PROVE  TypeOK'
<1> DEFINE t == OwnTurn(m, T)
<1>1. LedgerType /\ QueueType /\ ThreadType /\ SessionType /\ ProcessType
  BY DEF TypeOK
<1>2. t \in Turn /\ t \in TaskTurn /\ t.row \in Row
  BY TurnTypes
<1>3. /\ UNCHANGED up /\ UNCHANGED pending /\ UNCHANGED active
      /\ UNCHANGED review /\ UNCHANGED latch /\ UNCHANGED drain
      /\ UNCHANGED taskDrain /\ UNCHANGED mainRun /\ UNCHANGED execs
      /\ UNCHANGED crashes /\ Deliver(m, "followup")
  BY DEF ResumeTask
<1>4. \/ EnqueueFollowup(t) /\ UNCHANGED <<registry, running, activeJob, jobs>>
      \/ UNCHANGED <<persistent, registry, followups, acking, running, activeJob, jobs>>
      \/ BeginJob(t, "handler") /\ UNCHANGED <<followups, acking>>
  BY DEF ResumeTask
<1> HIDE DEF t
<1>5. LedgerType' /\ QueueType' /\ SessionType'
  <2>1. CASE EnqueueFollowup(t) /\ UNCHANGED <<registry, running, activeJob, jobs>>
    <3>1. LedgerType' /\ QueueType'
      BY <1>1, <1>2, <1>3, <2>1, EnqueueFollowupType DEF QueueType
    <3>2. SessionType'
      BY <1>1, <1>3, <2>1, SessionKept
    <3>3. QED
      BY <3>1, <3>2
  <2>2. CASE UNCHANGED <<persistent, registry, followups, acking, running, activeJob, jobs>>
    BY <1>1, <1>3, <2>2, LedgerKept, QueueKept, SessionKept DEF persistent
  <2>3. CASE BeginJob(t, "handler") /\ UNCHANGED <<followups, acking>>
    <3>1. LedgerType' /\ SessionType'
      BY <1>1, <1>2, <1>3, <2>3, BeginJobType DEF SessionType
    <3>2. QueueType'
      BY <1>1, <1>3, <2>3, QueueKept
    <3>3. QED
      BY <3>1, <3>2
  <2>4. QED
    BY <1>4, <2>1, <2>2, <2>3
<1>6. ThreadType' /\ ProcessType'
  BY <1>1, <1>3, ThreadKept, DeliverType
<1>7. QED
  BY <1>5, <1>6 DEF TypeOK

LEMMA QueueResumeType ==
  ASSUME TypeOK, NEW k \in Thread, QueueResume(k)
  PROVE  TypeOK'
<1>1. LedgerType /\ QueueType /\ ThreadType /\ SessionType /\ ProcessType
  BY DEF TypeOK
<1>2. /\ UNCHANGED rowId /\ UNCHANGED rowTask /\ UNCHANGED nextId
      /\ UNCHANGED registry /\ UNCHANGED inbox /\ UNCHANGED up
      /\ UNCHANGED pending /\ UNCHANGED followups /\ UNCHANGED active
      /\ UNCHANGED activeJob /\ UNCHANGED running /\ UNCHANGED latch
      /\ UNCHANGED mainRun /\ UNCHANGED jobs /\ UNCHANGED acking
      /\ UNCHANGED execs /\ UNCHANGED crashes
  BY DEF QueueResume, queues
<1>3. LedgerType'
  <2>1. ledger' \in [Row -> RowStatus]
    BY <1>1 DEF QueueResume, LedgerType, RowStatus
  <2>2. QED
    BY <1>1, <1>2, <2>1 DEF LedgerType
<1>4. ThreadType'
  <2>1. drain' = [drain EXCEPT ![k] = Scheduled(@)] /\ review' = review \ {k}
    BY DEF QueueResume
  <2>2. QED
    BY <1>1, <1>2, <2>1, ScheduledType DEF ThreadType
<1>5. SessionType'
  <2>1. taskDrain' = [T \in Task |->
           IF followups[T] # <<>> /\ Key(followups[T][1].row) = k
           THEN Scheduled(taskDrain[T]) ELSE taskDrain[T]]
    BY DEF QueueResume
  <2>2. taskDrain' \in [Task -> {"none", "ready", "job"}]
    BY <1>1, <2>1, ScheduledType DEF SessionType
  <2>3. QED
    BY <1>1, <1>2, <2>2 DEF SessionType
<1>6. QueueType' /\ ProcessType'
  BY <1>1, <1>2, QueueKept, ProcessKept
<1>7. QED
  BY <1>3, <1>4, <1>5, <1>6 DEF TypeOK

LEMMA AckEnqueuedType ==
  ASSUME TypeOK, NEW t \in acking, AckEnqueued(t)
  PROVE  TypeOK'
<1>1. LedgerType /\ QueueType /\ ThreadType /\ SessionType /\ ProcessType
  BY DEF TypeOK
<1>2. /\ UNCHANGED ledger /\ UNCHANGED rowId /\ UNCHANGED rowTask
      /\ UNCHANGED nextId /\ UNCHANGED registry /\ UNCHANGED inbox
      /\ UNCHANGED up /\ UNCHANGED pending /\ UNCHANGED followups
      /\ UNCHANGED active /\ UNCHANGED activeJob /\ UNCHANGED running
      /\ UNCHANGED review /\ UNCHANGED latch /\ UNCHANGED mainRun
      /\ UNCHANGED jobs /\ UNCHANGED execs /\ UNCHANGED crashes
      /\ acking' = acking \ {t}
  BY DEF AckEnqueued, persistent, queues
<1>3. /\ drain' = [drain EXCEPT ![Key(t.row)] = Scheduled(@)] \/ UNCHANGED drain
      /\ taskDrain' = [taskDrain EXCEPT ![t.task] = Scheduled(@)] \/ UNCHANGED taskDrain
  BY DEF AckEnqueued
<1>4. ThreadType'
  BY <1>1, <1>2, <1>3, ScheduledType DEF ThreadType
<1>5. SessionType'
  BY <1>1, <1>2, <1>3, ScheduledType DEF SessionType
<1>6. QueueType'
  BY <1>1, <1>2 DEF QueueType
<1>7. LedgerType' /\ ProcessType'
  BY <1>1, <1>2, LedgerKept, ProcessKept
<1>8. QED
  BY <1>4, <1>5, <1>6, <1>7 DEF TypeOK

LEMMA CliEndsType ==
  ASSUME TypeOK, NEW r \in Row, CliEnds(r)
  PROVE  TypeOK'
<1>1. LedgerType /\ QueueType /\ ThreadType /\ SessionType /\ ProcessType
  BY DEF TypeOK
<1>2. ThreadType'
  BY <1>1 DEF ThreadType, CliEnds
<1>3. LedgerType' /\ QueueType' /\ SessionType' /\ ProcessType'
  BY <1>1, LedgerKept, QueueKept, SessionKept, ProcessKept
     DEF CliEnds, persistent, queues
<1>4. QED
  BY <1>2, <1>3 DEF TypeOK

\* What the finally block of a main turn leaves.
LEMMA ReleaseParentType ==
  ASSUME ThreadType, NEW r \in Row, ReleaseParent(r)
  PROVE  /\ active' \subseteq Thread
         /\ latch' \subseteq Thread
         /\ drain' \in [Thread -> {"none", "ready", "main", "job"}]
         /\ mainRun' \in [Row -> {"idle", "cli", "deliver", "timedout", "notice"}]
  BY DEF ThreadType, ReleaseParent

LEMMA FinishMainType ==
  ASSUME TypeOK, NEW r \in Row, FinishMain(r)
  PROVE  TypeOK'
<1> DEFINE k == Key(r)
           rec == <<r[1], "recovery">>
           turn == [row |-> rec, task |-> NoTask]
<1>1. LedgerType /\ QueueType /\ ThreadType /\ SessionType /\ ProcessType
  BY DEF TypeOK
<1>2. /\ UNCHANGED registry /\ UNCHANGED inbox /\ UNCHANGED up
      /\ UNCHANGED followups /\ UNCHANGED activeJob /\ UNCHANGED running
      /\ UNCHANGED review /\ UNCHANGED taskDrain /\ UNCHANGED jobs
      /\ UNCHANGED acking /\ UNCHANGED execs /\ UNCHANGED crashes
      /\ ReleaseParent(r)
  BY DEF FinishMain
<1>3. rec \in Row /\ k \in Thread
  BY KeyType DEF Row
<1>4. turn \in Turn
  BY <1>3, TurnTypes
<1>5. LedgerType' /\ pending' \in [Thread -> Seq(Turn)]
  <2>1. CASE NeedsRecovery(r)
    <3>1. /\ AddRow(rec, NoTask)
          /\ ledger' = [ledger EXCEPT ![rec] = StatusAfterAdd(rec), ![r] = "done"]
          /\ pending' = [pending EXCEPT ![k] = InFront(turn, @)]
      BY <2>1 DEF FinishMain
    <3> HIDE DEF rec, k, turn
    <3>2. ledger' \in [Row -> RowStatus]
      <4>1. StatusAfterAdd(rec) \in RowStatus /\ "done" \in RowStatus
        BY <1>1, <1>3, StatusAfterAddType DEF RowStatus
      <4>2. QED
        BY <1>1, <1>3, <3>1, <4>1 DEF LedgerType
    <3>3. LedgerType'
      BY <1>1, <1>3, <3>1, <3>2, AddRowType DEF LedgerType
    <3>4. pending' \in [Thread -> Seq(Turn)]
      BY <1>1, <1>3, <1>4, <3>1, QueueInFrontType DEF QueueType
    <3>5. QED
      BY <3>3, <3>4
  <2>2. CASE ~NeedsRecovery(r)
    <3>1. /\ ledger' = [ledger EXCEPT ![r] = "done"]
          /\ UNCHANGED <<rowId, rowTask, nextId, pending>>
      BY <2>2 DEF FinishMain
    <3>2. QED
      BY <1>1, <3>1 DEF LedgerType, RowStatus, QueueType
  <2>3. QED
    BY <2>1, <2>2
<1>6. QueueType'
  BY <1>1, <1>2, <1>5 DEF QueueType
<1>7. ThreadType'
  BY <1>1, <1>2, ReleaseParentType DEF ThreadType
<1>8. SessionType' /\ ProcessType'
  BY <1>1, <1>2, SessionKept, ProcessKept
<1>9. QED
  BY <1>5, <1>6, <1>7, <1>8 DEF TypeOK

LEMMA FinishNoticeType ==
  ASSUME TypeOK, NEW r \in Row, FinishNotice(r)
  PROVE  TypeOK'
<1>1. LedgerType /\ QueueType /\ ThreadType /\ SessionType /\ ProcessType
  BY DEF TypeOK
<1>2. /\ UNCHANGED rowId /\ UNCHANGED rowTask /\ UNCHANGED nextId
      /\ UNCHANGED registry /\ UNCHANGED inbox /\ UNCHANGED up
      /\ UNCHANGED pending /\ UNCHANGED followups /\ UNCHANGED activeJob
      /\ UNCHANGED running /\ UNCHANGED taskDrain /\ UNCHANGED jobs
      /\ UNCHANGED acking /\ UNCHANGED execs /\ UNCHANGED crashes
      /\ ReleaseParent(r)
  BY DEF FinishNotice, queues
<1>3. /\ \E s \in {"done", "needs_review"} : ledger' = [ledger EXCEPT ![r] = s]
      /\ review' = review \/ review' = review \cup {Key(r)}
  BY DEF FinishNotice
<1>4. LedgerType'
  BY <1>1, <1>2, <1>3 DEF LedgerType, RowStatus
<1>5. ThreadType'
  <2>1. review' \subseteq Thread
    BY <1>1, <1>3, KeyType DEF ThreadType
  <2>2. QED
    BY <1>1, <1>2, <2>1, ReleaseParentType DEF ThreadType
<1>6. QueueType' /\ SessionType' /\ ProcessType'
  BY <1>1, <1>2, QueueKept, SessionKept, ProcessKept
<1>7. QED
  BY <1>4, <1>5, <1>6 DEF TypeOK

LEMMA JobTypes ==
  ASSUME SessionType, NEW j \in jobs
  PROVE  /\ j \in Job
         /\ j.turn \in TaskTurn
         /\ j.turn.row \in Row
         /\ j.turn.task \in Task
         /\ Key(j.turn.row) \in Thread
<1>1. j \in Job
  BY DEF SessionType
<1>2. j.turn \in TaskTurn
  BY <1>1 DEF Job
<1>3. QED
  BY <1>1, <1>2, TurnTypes, KeyType

LEMMA LeaveSessionType ==
  ASSUME SessionType, NEW j \in jobs, LeaveSession(j.turn)
  PROVE  /\ running' \subseteq Task
         /\ activeJob' \in [Thread -> Task \cup {NoTask}]
  BY DEF SessionType, LeaveSession

LEMMA ResumeDrainType ==
  ASSUME ThreadType, SessionType, NEW j, ResumeDrain(j)
  PROVE  /\ drain' \in [Thread -> {"none", "ready", "main", "job"}]
         /\ taskDrain' \in [Task -> {"none", "ready", "job"}]
  BY DEF ThreadType, SessionType, ResumeDrain

LEMMA JobStartsType ==
  ASSUME TypeOK, NEW j \in jobs, JobStarts(j)
  PROVE  TypeOK'
<1> DEFINE t == j.turn
           started == [turn |-> t, stage |-> "run", via |-> "handler"]
<1>1. LedgerType /\ QueueType /\ ThreadType /\ SessionType /\ ProcessType
  BY DEF TypeOK
<1>2. /\ UNCHANGED rowId /\ UNCHANGED rowTask /\ UNCHANGED nextId
      /\ UNCHANGED registry /\ UNCHANGED inbox /\ UNCHANGED up
      /\ UNCHANGED pending /\ UNCHANGED followups /\ UNCHANGED active
      /\ UNCHANGED activeJob /\ UNCHANGED running /\ UNCHANGED review
      /\ UNCHANGED latch /\ UNCHANGED mainRun /\ UNCHANGED acking
      /\ UNCHANGED crashes /\ ResumeDrain(j)
      /\ ledger' = [ledger EXCEPT ![t.row] = "running"]
      /\ execs' = [execs EXCEPT ![t.row] = @ + 1]
      /\ jobs' = (jobs \ {j}) \cup {started}
  BY DEF JobStarts, queues
<1>3. t \in TaskTurn /\ t.row \in Row
  BY <1>1, JobTypes
<1>4. started \in Job
  BY <1>3 DEF Job
<1> HIDE DEF t, started
<1>5. LedgerType'
  BY <1>1, <1>2 DEF LedgerType, RowStatus
<1>6. ThreadType'
  BY <1>1, <1>2, <1>3, ResumeDrainType DEF ThreadType
<1>7. SessionType'
  BY <1>1, <1>2, <1>4, ResumeDrainType DEF SessionType
<1>8. QueueType' /\ ProcessType'
  BY <1>1, <1>2, QueueKept, ProcessKept
<1>9. QED
  BY <1>5, <1>6, <1>7, <1>8 DEF TypeOK

LEMMA JobRefusedType ==
  ASSUME TypeOK, NEW j \in jobs, JobRefused(j)
  PROVE  TypeOK'
<1>1. LedgerType /\ QueueType /\ ThreadType /\ SessionType /\ ProcessType
  BY DEF TypeOK
<1>2. /\ UNCHANGED ledger /\ UNCHANGED rowId /\ UNCHANGED rowTask
      /\ UNCHANGED nextId /\ UNCHANGED registry /\ UNCHANGED inbox
      /\ UNCHANGED up /\ UNCHANGED pending /\ UNCHANGED followups
      /\ UNCHANGED active /\ UNCHANGED review /\ UNCHANGED latch
      /\ UNCHANGED mainRun /\ UNCHANGED acking /\ UNCHANGED execs
      /\ UNCHANGED crashes /\ ResumeDrain(j) /\ LeaveSession(j.turn)
      /\ jobs' = jobs \ {j}
  BY DEF JobRefused, persistent, queues
<1>3. ThreadType'
  BY <1>1, <1>2, ResumeDrainType DEF ThreadType
<1>4. SessionType'
  BY <1>1, <1>2, ResumeDrainType, LeaveSessionType DEF SessionType
<1>5. LedgerType' /\ QueueType' /\ ProcessType'
  BY <1>1, <1>2, LedgerKept, QueueKept, ProcessKept
<1>6. QED
  BY <1>3, <1>4, <1>5 DEF TypeOK

LEMMA JobAckFailsType ==
  ASSUME TypeOK, NEW j \in jobs, JobAckFails(j)
  PROVE  TypeOK'
<1> DEFINE t == j.turn
           k == Key(t.row)
<1>1. LedgerType /\ QueueType /\ ThreadType /\ SessionType /\ ProcessType
  BY DEF TypeOK
<1>2. /\ UNCHANGED rowId /\ UNCHANGED rowTask /\ UNCHANGED nextId
      /\ UNCHANGED inbox /\ UNCHANGED up /\ UNCHANGED pending
      /\ UNCHANGED active /\ UNCHANGED review /\ UNCHANGED latch
      /\ UNCHANGED mainRun /\ UNCHANGED acking /\ UNCHANGED execs
      /\ UNCHANGED crashes /\ LeaveSession(t)
      /\ ledger' = [ledger EXCEPT ![t.row] = "cancelled"]
      /\ registry' = [registry EXCEPT ![t.task] = "failed"]
      /\ jobs' = jobs \ {j}
  BY DEF JobAckFails
<1>3. \/ /\ followups' = [followups EXCEPT ![t.task] = <<>>]
         /\ drain' = [drain EXCEPT ![k] = IF j.via = "drain" THEN "ready" ELSE Scheduled(@)]
         /\ UNCHANGED taskDrain
      \/ /\ taskDrain' = [taskDrain EXCEPT ![t.task] =
                             IF j.via = "drain" THEN "none" ELSE Scheduled(@)]
         /\ UNCHANGED <<followups, drain>>
  BY DEF JobAckFails
<1>4. t.row \in Row /\ t.task \in Task
  BY <1>1, JobTypes
<1> HIDE DEF t, k
<1>5. LedgerType'
  BY <1>1, <1>2 DEF LedgerType, RowStatus
<1>6. QueueType'
  <2>1. <<>> \in Seq(TaskTurn)
    OBVIOUS
  <2>2. followups' \in [Task -> Seq(TaskTurn)]
    BY <1>1, <1>3, <2>1, QueueUpdateType DEF QueueType
  <2>3. QED
    BY <1>1, <1>2, <2>2 DEF QueueType
<1>7. ThreadType'
  BY <1>1, <1>2, <1>3, ScheduledType DEF ThreadType
<1>8. SessionType'
  <2>1. taskDrain' \in [Task -> {"none", "ready", "job"}]
    BY <1>1, <1>3, ScheduledType DEF SessionType
  <2>2. registry' \in [Task -> TaskStatus]
    BY <1>1, <1>2 DEF SessionType, TaskStatus
  <2>3. running' \subseteq Task /\ activeJob' \in [Thread -> Task \cup {NoTask}]
    BY <1>1, <1>2, LeaveSessionType DEF t
  <2>4. QED
    BY <1>1, <1>2, <2>1, <2>2, <2>3 DEF SessionType
<1>9. ProcessType'
  BY <1>1, <1>2, ProcessKept
<1>10. QED
  BY <1>5, <1>6, <1>7, <1>8, <1>9 DEF TypeOK

LEMMA JobEndsType ==
  ASSUME TypeOK, NEW j \in jobs, JobEnds(j)
  PROVE  TypeOK'
<1> DEFINE t == j.turn
           k == Key(t.row)
<1>1. LedgerType /\ QueueType /\ ThreadType /\ SessionType /\ ProcessType
  BY DEF TypeOK
<1>2. /\ UNCHANGED rowId /\ UNCHANGED rowTask /\ UNCHANGED nextId
      /\ UNCHANGED inbox /\ UNCHANGED up /\ UNCHANGED pending
      /\ UNCHANGED followups /\ UNCHANGED active /\ UNCHANGED review
      /\ UNCHANGED latch /\ UNCHANGED mainRun /\ UNCHANGED acking
      /\ UNCHANGED execs /\ UNCHANGED crashes
      /\ ledger' = [ledger EXCEPT ![t.row] = "done"]
      /\ \E s \in {"completed", "failed"} : registry' = [registry EXCEPT ![t.task] = s]
      /\ running' = running \ {t.task}
      /\ taskDrain' = [taskDrain EXCEPT ![t.task] = Scheduled(@)]
      /\ jobs' = jobs \ {j}
  BY DEF JobEnds, queues
<1>3. /\ activeJob' = [activeJob EXCEPT ![k] = NoTask] \/ UNCHANGED activeJob
      /\ drain' = [drain EXCEPT ![k] = Scheduled(@)] \/ UNCHANGED drain
  BY DEF JobEnds
<1> HIDE DEF t, k
<1>4. LedgerType'
  BY <1>1, <1>2 DEF LedgerType, RowStatus
<1>5. ThreadType'
  BY <1>1, <1>2, <1>3, ScheduledType DEF ThreadType
<1>6. SessionType'
  <2>1. taskDrain' \in [Task -> {"none", "ready", "job"}]
    BY <1>1, <1>2, ScheduledType DEF SessionType
  <2>2. registry' \in [Task -> TaskStatus] /\ running' \subseteq Task /\ jobs' \subseteq Job
    BY <1>1, <1>2 DEF SessionType, TaskStatus
  <2>3. activeJob' \in [Thread -> Task \cup {NoTask}]
    BY <1>1, <1>3 DEF SessionType
  <2>4. QED
    BY <2>1, <2>2, <2>3 DEF SessionType
<1>7. QueueType' /\ ProcessType'
  BY <1>1, <1>2, QueueKept, ProcessKept
<1>8. QED
  BY <1>4, <1>5, <1>6, <1>7 DEF TypeOK

LEMMA DrainThreadType ==
  ASSUME TypeOK, NEW k \in Thread, DrainThread(k)
  PROVE  TypeOK'
<1> DEFINE i == NextIndex(k)
           t == pending[k][i]
<1>1. LedgerType /\ QueueType /\ ThreadType /\ SessionType /\ ProcessType
  BY DEF TypeOK
<1>2. /\ UNCHANGED inbox /\ UNCHANGED up /\ UNCHANGED followups
      /\ UNCHANGED review /\ UNCHANGED latch /\ UNCHANGED taskDrain
      /\ UNCHANGED acking /\ UNCHANGED crashes
  BY DEF DrainThread
<1>3. pending[k] \in Seq(Turn) /\ (i = 0 \/ i \in 1..Len(pending[k]))
  BY <1>1, NextIndexType DEF QueueType
<1>4. ASSUME i # 0
      PROVE  /\ t \in Turn
             /\ t.row \in Row
             /\ ~MainTurn(t) => t \in TaskTurn
             /\ RemoveAt(pending[k], i) \in Seq(Turn)
  <2>1. t \in Turn
    BY <1>3, <1>4
  <2>2. RemoveAt(pending[k], i) \in Seq(Turn)
    BY <1>3, <1>4, RemoveAtType
  <2>3. QED
    BY <2>1, <2>2, TurnTypes
<1>5. CASE i = 0
  <2>1. /\ drain' = [drain EXCEPT ![k] = "none"]
        /\ UNCHANGED <<persistent, registry, pending, active, activeJob, running,
                       mainRun, jobs, execs>>
    BY <1>5 DEF DrainThread
  <2>2. ThreadType'
    BY <1>1, <1>2, <2>1 DEF ThreadType
  <2>3. LedgerType' /\ QueueType' /\ SessionType' /\ ProcessType'
    BY <1>1, <1>2, <2>1, LedgerKept, QueueKept, SessionKept, ProcessKept DEF persistent
  <2>4. QED
    BY <2>2, <2>3 DEF TypeOK
<1>6. CASE i # 0 /\ MainTurn(t)
  <2>1. /\ pending' = [pending EXCEPT ![k] = RemoveAt(@, i)]
        /\ BeginMain(t.row, ledger[t.row])
        /\ drain' = [drain EXCEPT ![k] =
                        IF MayStart(ledger[t.row]) THEN "main" ELSE "ready"]
        /\ UNCHANGED <<rowId, rowTask, nextId, registry, activeJob, running, jobs>>
    BY <1>6 DEF DrainThread
  <2>2. t.row \in Row /\ RemoveAt(pending[k], i) \in Seq(Turn)
    BY <1>4, <1>6
  <2> HIDE DEF i, t
  <2>3. ledger[t.row] \in RowStatus
    BY <1>1, <2>2 DEF LedgerType
  <2>4. /\ ledger' \in [Row -> RowStatus]
        /\ active' \subseteq Thread
        /\ mainRun' \in [Row -> {"idle", "cli", "deliver", "timedout", "notice"}]
        /\ execs' \in [Row -> Nat]
    BY <1>1, <2>1, <2>2, <2>3, BeginMainType
  <2>5. LedgerType'
    BY <1>1, <2>1, <2>4 DEF LedgerType
  <2>6. QueueType'
    BY <1>1, <1>2, <2>1, <2>2, QueueUpdateType DEF QueueType
  <2>7. ThreadType'
    BY <1>1, <1>2, <2>1, <2>4 DEF ThreadType
  <2>8. SessionType' /\ ProcessType'
    BY <1>1, <1>2, <2>1, SessionKept, ProcessKept
  <2>9. QED
    BY <2>5, <2>6, <2>7, <2>8 DEF TypeOK
<1>7. CASE i # 0 /\ ~MainTurn(t)
  <2>1. /\ pending' = [pending EXCEPT ![k] = RemoveAt(@, i)]
        /\ BeginJob(t, "drain")
        /\ drain' = [drain EXCEPT ![k] = "job"]
        /\ UNCHANGED <<active, mainRun, execs>>
    BY <1>7 DEF DrainThread
  <2>2. t \in TaskTurn /\ RemoveAt(pending[k], i) \in Seq(Turn)
    BY <1>4, <1>7
  <2> HIDE DEF i, t
  <2>3. /\ LedgerType'
        /\ registry' \in [Task -> TaskStatus]
        /\ activeJob' \in [Thread -> Task \cup {NoTask}]
        /\ running' \subseteq Task
        /\ jobs' \subseteq Job
    BY <1>1, <2>1, <2>2, BeginJobType
  <2>4. QueueType'
    BY <1>1, <1>2, <2>1, <2>2, QueueUpdateType DEF QueueType
  <2>5. ThreadType'
    BY <1>1, <1>2, <2>1 DEF ThreadType
  <2>6. SessionType'
    BY <1>1, <1>2, <2>3 DEF SessionType
  <2>7. ProcessType'
    BY <1>1, <1>2, ProcessKept
  <2>8. QED
    BY <2>3, <2>4, <2>5, <2>6, <2>7 DEF TypeOK
<1>8. QED
  BY <1>5, <1>6, <1>7

LEMMA DrainTaskType ==
  ASSUME TypeOK, NEW T \in Task, DrainTask(T)
  PROVE  TypeOK'
<1>1. LedgerType /\ QueueType /\ ThreadType /\ SessionType /\ ProcessType
  BY DEF TypeOK
<1>2. /\ UNCHANGED inbox /\ UNCHANGED up /\ UNCHANGED pending
      /\ UNCHANGED active /\ UNCHANGED review /\ UNCHANGED latch
      /\ UNCHANGED drain /\ UNCHANGED mainRun /\ UNCHANGED acking
      /\ UNCHANGED execs /\ UNCHANGED crashes
  BY DEF DrainTask
<1>3. CASE ~FollowupMayStart(T)
  <2>1. /\ taskDrain' = [taskDrain EXCEPT ![T] = "none"]
        /\ UNCHANGED <<persistent, registry, followups, activeJob, running, jobs>>
    BY <1>3 DEF DrainTask
  <2>2. SessionType'
    BY <1>1, <2>1 DEF SessionType
  <2>3. LedgerType' /\ QueueType' /\ ThreadType' /\ ProcessType'
    BY <1>1, <1>2, <2>1, LedgerKept, QueueKept, ThreadKept, ProcessKept DEF persistent
  <2>4. QED
    BY <2>2, <2>3 DEF TypeOK
<1>4. CASE FollowupMayStart(T)
  <2> DEFINE t == followups[T][1]
  <2>1. /\ followups' = [followups EXCEPT ![T] = Tail(@)]
        /\ BeginJob(t, "drain")
        /\ taskDrain' = [taskDrain EXCEPT ![T] = "job"]
    BY <1>4 DEF DrainTask
  <2>2. followups[T] \in Seq(TaskTurn) /\ followups[T] # <<>>
    BY <1>1, <1>4 DEF QueueType, FollowupMayStart
  <2>3. t \in TaskTurn /\ Tail(followups[T]) \in Seq(TaskTurn)
    BY <2>2
  <2> HIDE DEF t
  <2>4. /\ LedgerType'
        /\ registry' \in [Task -> TaskStatus]
        /\ activeJob' \in [Thread -> Task \cup {NoTask}]
        /\ running' \subseteq Task
        /\ jobs' \subseteq Job
    BY <1>1, <2>1, <2>3, BeginJobType
  <2>5. QueueType'
    BY <1>1, <1>2, <2>1, <2>3, QueueUpdateType DEF QueueType
  <2>6. SessionType'
    BY <1>1, <2>1, <2>4 DEF SessionType
  <2>7. ThreadType' /\ ProcessType'
    BY <1>1, <1>2, ThreadKept, ProcessKept
  <2>8. QED
    BY <2>4, <2>5, <2>6, <2>7 DEF TypeOK
<1>5. QED
  BY <1>3, <1>4

LEMMA CrashType ==
  ASSUME TypeOK, Crash
  PROVE  TypeOK'
<1>1. LedgerType /\ QueueType /\ ThreadType /\ SessionType /\ ProcessType
  BY DEF TypeOK
<1>2. LedgerType'
  BY <1>1, LedgerKept DEF Crash, persistent
<1>3. QueueType'
  <2>1. \A S : <<>> \in Seq(S)
    OBVIOUS
  <2>2. /\ pending' = [k \in Thread |-> <<>>]
        /\ followups' = [T \in Task |-> <<>>]
        /\ acking' = {}
    BY DEF Crash
  <2>3. QED
    BY <2>1, <2>2 DEF QueueType
<1>4. ThreadType'
  BY <1>1 DEF Crash, ThreadType
<1>5. SessionType'
  BY <1>1 DEF Crash, SessionType
<1>6. ProcessType'
  <2>1. inbox' \subseteq Msg
    BY <1>1 DEF Crash, ProcessType
  <2>2. up' \in BOOLEAN /\ crashes' \in 0..MaxCrash
    <3>1. up' = FALSE /\ crashes < MaxCrash /\ crashes' = crashes + 1
      BY DEF Crash
    <3>2. crashes \in 0..MaxCrash /\ MaxCrash \in Nat
      BY <1>1, SchedulerAssumption DEF ProcessType
    <3>3. crashes' \in 0..MaxCrash
      BY <3>1, <3>2
    <3>4. up' \in BOOLEAN
      BY <3>1, Zenon
    <3>5. QED
      BY <3>3, <3>4
  <2>3. QED
    BY <2>1, <2>2 DEF ProcessType
<1>7. QED
  BY <1>2, <1>3, <1>4, <1>5, <1>6 DEF TypeOK

LEMMA RestartType ==
  ASSUME TypeOK, Restart
  PROVE  TypeOK'
<1> DEFINE newLedger == [r \in Row |-> AfterRestart(ledger[r])]
           queued == {r \in Row : ledger[r] = "queued"}
           mainRows(k) == {r \in queued : Key(r) = k /\ KindOf(r) # "followup"}
           taskRows(T) == {r \in queued : KindOf(r) = "followup" /\ rowTask[r] = T}
<1>1. LedgerType /\ QueueType /\ ThreadType /\ SessionType /\ ProcessType
  BY DEF TypeOK
<1>2. /\ UNCHANGED rowId /\ UNCHANGED rowTask /\ UNCHANGED nextId
      /\ UNCHANGED inbox /\ UNCHANGED active /\ UNCHANGED activeJob
      /\ UNCHANGED running /\ UNCHANGED latch /\ UNCHANGED mainRun
      /\ UNCHANGED jobs /\ UNCHANGED acking /\ UNCHANGED execs
      /\ UNCHANGED crashes /\ up' = TRUE
      /\ ledger' = newLedger /\ review' = ReviewThreads(newLedger)
      /\ pending' = [k \in Thread |-> LoadQueued(mainRows(k))]
      /\ followups' = [T \in Task |-> LoadQueued(taskRows(T))]
  BY DEF Restart
<1>3. LedgerType'
  <2>1. newLedger \in [Row -> RowStatus]
    BY <1>1 DEF LedgerType, AfterRestart, RowStatus
  <2>2. QED
    BY <1>1, <1>2, <2>1 DEF LedgerType
<1>4. QueueType'
  <2>1. \A k \in Thread : LoadQueued(mainRows(k)) \in Seq(Turn)
    <3>1. TAKE k \in Thread
    <3>2. mainRows(k) \in SUBSET Row
      OBVIOUS
    <3>3. \A r \in mainRows(k) : rowTask[r] \in Task \cup {NoTask}
      BY <1>1 DEF LedgerType
    <3> HIDE DEF mainRows
    <3>4. LoadQueued(mainRows(k)) \in Seq([row : mainRows(k), task : Task \cup {NoTask}])
      BY <1>1, <3>2, <3>3, LoadQueuedType
    <3>5. [row : mainRows(k), task : Task \cup {NoTask}] \subseteq Turn
      BY <3>2 DEF Turn
    <3>6. QED
      BY <3>4, <3>5, SeqSubset
  <2>2. \A T \in Task : LoadQueued(taskRows(T)) \in Seq(TaskTurn)
    <3>1. TAKE T \in Task
    <3>2. taskRows(T) \in SUBSET Row /\ \A r \in taskRows(T) : rowTask[r] \in Task
      OBVIOUS
    <3> HIDE DEF taskRows
    <3>3. LoadQueued(taskRows(T)) \in Seq([row : taskRows(T), task : Task])
      BY <1>1, <3>2, LoadQueuedType
    <3>4. [row : taskRows(T), task : Task] \subseteq TaskTurn
      BY <3>2 DEF TaskTurn
    <3>5. QED
      BY <3>3, <3>4, SeqSubset
  <2> HIDE DEF mainRows, taskRows
  <2>3. QED
    BY <1>1, <1>2, <2>1, <2>2 DEF QueueType
<1>5. ThreadType'
  <2>1. review' \subseteq Thread
    BY <1>2, KeyType DEF ReviewThreads
  <2>2. drain' \in [Thread -> {"none", "ready", "main", "job"}]
    BY DEF Restart
  <2>3. QED
    BY <1>1, <1>2, <2>1, <2>2 DEF ThreadType
<1>6. SessionType'
  <2>1. registry' \in [Task -> TaskStatus]
    BY <1>1 DEF Restart, SessionType, TaskStatus
  <2>2. taskDrain' \in [Task -> {"none", "ready", "job"}]
    BY DEF Restart
  <2>3. QED
    BY <1>1, <1>2, <2>1, <2>2 DEF SessionType
<1>7. ProcessType'
  BY <1>1, <1>2 DEF ProcessType
<1>8. QED
  BY <1>3, <1>4, <1>5, <1>6, <1>7 DEF TypeOK

-----------------------------------------------------------------------------
LEMMA InitType == Init => TypeOK
<1> SUFFICES ASSUME Init PROVE TypeOK
  OBVIOUS
<1>1. LedgerType
  BY DEF Init, LedgerType, RowStatus
<1>2. QueueType
  <2>1. \A S : <<>> \in Seq(S)
    OBVIOUS
  <2>2. QED
    BY <2>1 DEF Init, QueueType
<1>3. ThreadType
  BY DEF Init, ThreadType
<1>4. SessionType
  BY DEF Init, SessionType, TaskStatus
<1>5. ProcessType
  BY SchedulerAssumption DEF Init, ProcessType
<1>6. QED
  BY <1>1, <1>2, <1>3, <1>4, <1>5 DEF TypeOK

LEMMA StutterType == ASSUME TypeOK, UNCHANGED vars PROVE TypeOK'
<1>1. LedgerType /\ QueueType /\ ThreadType /\ SessionType /\ ProcessType
  BY DEF TypeOK
<1>2. LedgerType' /\ QueueType' /\ ThreadType' /\ SessionType' /\ ProcessType'
  BY <1>1, LedgerKept, QueueKept, ThreadKept, SessionKept, ProcessKept DEF vars
<1>3. QED
  BY <1>2 DEF TypeOK

LEMMA StepType == TypeOK /\ [Next]_vars => TypeOK'
<1> SUFFICES ASSUME TypeOK, [Next]_vars PROVE TypeOK'
  OBVIOUS
<1>1. ASSUME NEW m \in Msg, OnMessage(m) PROVE TypeOK'
  BY <1>1, OnMessageType
<1>2. ASSUME NEW m \in Msg, CmdForce(m) PROVE TypeOK'
  BY <1>2, CmdForceType
<1>3. ASSUME NEW m \in Msg, CmdTaskNew(m) PROVE TypeOK'
  BY <1>3, CmdTaskNewType
<1>4. ASSUME NEW m \in Msg, NEW T \in Task, ResumeTask(m, T) PROVE TypeOK'
  BY <1>4, ResumeTaskType
<1>5. ASSUME NEW k \in Thread, CmdStop(k) PROVE TypeOK'
  BY <1>5, CmdStopType
<1>6. ASSUME NEW k \in Thread, QueueResume(k) PROVE TypeOK'
  BY <1>6, QueueResumeType
<1>7. ASSUME NEW k \in Thread, DrainThread(k) PROVE TypeOK'
  BY <1>7, DrainThreadType
<1>8. ASSUME NEW t \in acking, AckEnqueued(t) PROVE TypeOK'
  BY <1>8, AckEnqueuedType
<1>9. ASSUME NEW r \in Row, CliEnds(r) PROVE TypeOK'
  BY <1>9, CliEndsType
<1>10. ASSUME NEW r \in Row, FinishMain(r) PROVE TypeOK'
  BY <1>10, FinishMainType
<1>11. ASSUME NEW r \in Row, FinishNotice(r) PROVE TypeOK'
  BY <1>11, FinishNoticeType
<1>12. ASSUME NEW j \in jobs, JobStarts(j) PROVE TypeOK'
  BY <1>12, JobStartsType
<1>13. ASSUME NEW j \in jobs, JobRefused(j) PROVE TypeOK'
  BY <1>13, JobRefusedType
<1>14. ASSUME NEW j \in jobs, JobAckFails(j) PROVE TypeOK'
  BY <1>14, JobAckFailsType
<1>15. ASSUME NEW j \in jobs, JobEnds(j) PROVE TypeOK'
  BY <1>15, JobEndsType
<1>16. ASSUME NEW T \in Task, DrainTask(T) PROVE TypeOK'
  BY <1>16, DrainTaskType
<1>17. CASE UNCHANGED vars
  BY <1>17, StutterType
<1>18. QED
  BY <1>1, <1>2, <1>3, <1>4, <1>5, <1>6, <1>7, <1>8, <1>9, <1>10, <1>11, <1>12,
     <1>13, <1>14, <1>15, <1>16, <1>17, CrashType, RestartType DEF Next

\* The type invariant holds in every reachable state, whatever the handlers,
\* coroutines, crashes and restarts do.
THEOREM TypeCorrect == Spec => []TypeOK
<1>1. QED
  BY InitType, StepType, PTL DEF Spec
=============================================================================
