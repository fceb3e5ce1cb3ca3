-------------------------- MODULE RelayQueueProofs --------------------------
(***************************************************************************)
(* The queues of the scheduler, for every number of messages, threads and  *)
(* crashes: which task a waiting turn is for, who holds a task's session,  *)
(* which coroutine owns a running row, and the order main turns start in.  *)
(***************************************************************************)
EXTENDS RelayTurnProofs, RelayLedgerProofs

\* The turns of a queue, in whatever order.
Waiting(q) == {q[i] : i \in DOMAIN q}

-----------------------------------------------------------------------------
(* What the operations on a queue do to its turns. *)

LEMMA AppendPlaces ==
  ASSUME NEW S, NEW q \in Seq(S), NEW t \in S
  PROVE  /\ Append(q, t) \in Seq(S)
         /\ Len(Append(q, t)) = Len(q) + 1
         /\ Append(q, t)[Len(q) + 1] = t
         /\ \A i \in 1..Len(q) : Append(q, t)[i] = q[i]
  OBVIOUS

LEMMA InFrontPlaces ==
  ASSUME NEW S, NEW q \in Seq(S), NEW t \in S
  PROVE  /\ InFront(t, q) \in Seq(S)
         /\ Len(InFront(t, q)) = Len(q) + 1
         /\ InFront(t, q)[1] = t
         /\ \A i \in 1..Len(q) : InFront(t, q)[i + 1] = q[i]
  BY DEF InFront

LEMMA ConcatPlaces ==
  ASSUME NEW S, NEW a \in Seq(S), NEW b \in Seq(S)
  PROVE  /\ a \o b \in Seq(S)
         /\ Len(a \o b) = Len(a) + Len(b)
         /\ \A n \in 1..Len(a) : (a \o b)[n] = a[n]
         /\ \A n \in 1..Len(b) : (a \o b)[Len(a) + n] = b[n]
  OBVIOUS

LEMMA RemovePlaces ==
  ASSUME NEW S, NEW q \in Seq(S), NEW i \in 1..Len(q)
  PROVE  /\ RemoveAt(q, i) \in Seq(S)
         /\ Len(RemoveAt(q, i)) = Len(q) - 1
         /\ \A n \in 1..Len(q) - 1 :
              RemoveAt(q, i)[n] = IF n < i THEN q[n] ELSE q[n + 1]
<1> DEFINE a == SubSeq(q, 1, i - 1)
           b == SubSeq(q, i + 1, Len(q))
<1>1. /\ a \in Seq(S) /\ Len(a) = i - 1
      /\ \A n \in 1..i - 1 : a[n] = q[n]
  OBVIOUS
<1>2. /\ b \in Seq(S) /\ Len(b) = Len(q) - i
      /\ \A n \in 1..Len(q) - i : b[n] = q[i + n]
  OBVIOUS
<1>3. RemoveAt(q, i) = a \o b
  BY DEF RemoveAt
<1> HIDE DEF a, b
<1>4. /\ a \o b \in Seq(S)
      /\ Len(a \o b) = Len(a) + Len(b)
      /\ \A n \in 1..Len(a) : (a \o b)[n] = a[n]
      /\ \A n \in 1..Len(b) : (a \o b)[Len(a) + n] = b[n]
  <2>1. a \in Seq(S) /\ b \in Seq(S)
    BY <1>1, <1>2
  <2>2. QED
    BY <2>1, ConcatPlaces
<1>5. ASSUME NEW n \in 1..Len(q) - 1
      PROVE  (a \o b)[n] = IF n < i THEN q[n] ELSE q[n + 1]
  <2>1. CASE n < i
    BY <1>1, <1>4, <2>1
  <2>2. CASE ~(n < i)
    <3>1. /\ n - Len(a) \in 1..Len(b) /\ Len(a) + (n - Len(a)) = n
          /\ i + (n - Len(a)) = n + 1
      BY <1>1, <1>2, <2>2
    <3>2. (a \o b)[n] = b[n - Len(a)]
      BY <1>4, <3>1
    <3>3. b[n - Len(a)] = q[n + 1]
      BY <1>2, <3>1
    <3>4. QED
      BY <2>2, <3>2, <3>3
  <2>3. QED
    BY <2>1, <2>2
<1>6. Len(a \o b) = Len(q) - 1
  BY <1>1, <1>2, <1>4
<1>7. QED
  BY <1>3, <1>4, <1>5, <1>6

LEMMA WaitingAppend ==
  ASSUME NEW S, NEW q \in Seq(S), NEW t \in S
  PROVE  Waiting(Append(q, t)) = Waiting(q) \cup {t}
<1> DEFINE a == Append(q, t)
<1>1. /\ a \in Seq(S) /\ Len(a) = Len(q) + 1 /\ a[Len(q) + 1] = t
      /\ \A i \in 1..Len(q) : a[i] = q[i]
  BY AppendPlaces
<1> HIDE DEF a
<1>2. DOMAIN a = 1..Len(q) + 1 /\ DOMAIN q = 1..Len(q) /\ Len(q) \in Nat
  BY <1>1
<1>3. DOMAIN a = DOMAIN q \cup {Len(q) + 1}
  BY <1>2
<1>4. \A i \in DOMAIN q : a[i] = q[i]
  BY <1>1, <1>2
<1>5. QED
  BY <1>1, <1>3, <1>4 DEF Waiting, a

LEMMA WaitingInFront ==
  ASSUME NEW S, NEW q \in Seq(S), NEW t \in S
  PROVE  Waiting(InFront(t, q)) = Waiting(q) \cup {t}
<1> DEFINE a == InFront(t, q)
<1>1. /\ a \in Seq(S) /\ Len(a) = Len(q) + 1 /\ a[1] = t
      /\ \A i \in 1..Len(q) : a[i + 1] = q[i]
  BY InFrontPlaces
<1> HIDE DEF a
<1>2. DOMAIN a = 1..Len(q) + 1 /\ DOMAIN q = 1..Len(q) /\ Len(q) \in Nat
  BY <1>1
<1>3. \A n \in DOMAIN a : n = 1 \/ \E i \in DOMAIN q : n = i + 1
  <2>1. TAKE n \in DOMAIN a
  <2>2. n # 1 => n - 1 \in DOMAIN q /\ n = (n - 1) + 1
    BY <1>2
  <2>3. QED
    BY <2>2
<1>4. 1 \in DOMAIN a /\ \A i \in DOMAIN q : i + 1 \in DOMAIN a
  BY <1>2
<1>5. QED
  BY <1>1, <1>2, <1>3, <1>4 DEF Waiting, a

\* The turn taken may be there twice: a redelivered message.
LEMMA WaitingRemove ==
  ASSUME NEW S, NEW q \in Seq(S), NEW i \in 1..Len(q)
  PROVE  /\ Waiting(RemoveAt(q, i)) \subseteq Waiting(q)
         /\ Waiting(q) \subseteq Waiting(RemoveAt(q, i)) \cup {q[i]}
         /\ q[i] \in Waiting(q)
<1> DEFINE a == RemoveAt(q, i)
<1>1. /\ a \in Seq(S) /\ Len(a) = Len(q) - 1
      /\ \A n \in 1..Len(q) - 1 : a[n] = IF n < i THEN q[n] ELSE q[n + 1]
  BY RemovePlaces
<1> HIDE DEF a
<1>2. DOMAIN a = 1..Len(q) - 1 /\ DOMAIN q = 1..Len(q) /\ Len(q) \in Nat
  BY <1>1
<1>3. ASSUME NEW n \in DOMAIN a PROVE \E m \in DOMAIN q : a[n] = q[m]
  <2>1. n \in DOMAIN q /\ n + 1 \in DOMAIN q
    BY <1>2
  <2>2. QED
    BY <1>1, <1>2, <2>1
<1>4. ASSUME NEW m \in DOMAIN q, m # i PROVE \E n \in DOMAIN a : q[m] = a[n]
  <2>1. CASE m < i
    <3>1. m \in 1..Len(q) - 1
      BY <1>2, <2>1
    <3>2. QED
      BY <1>1, <1>2, <2>1, <3>1
  <2>2. CASE m > i
    <3>1. m - 1 \in 1..Len(q) - 1 /\ (m - 1) + 1 = m /\ ~(m - 1 < i)
      BY <1>2, <2>2
    <3>2. a[m - 1] = q[m]
      BY <1>1, <3>1
    <3>3. QED
      BY <1>2, <3>1, <3>2
  <2>3. QED
    BY <1>2, <1>4, <2>1, <2>2
<1>5. QED
  BY <1>2, <1>3, <1>4 DEF Waiting, a

LEMMA WaitingTail ==
  ASSUME NEW S, NEW q \in Seq(S), q # <<>>
  PROVE  /\ Waiting(Tail(q)) \subseteq Waiting(q)
         /\ Waiting(q) \subseteq Waiting(Tail(q)) \cup {q[1]}
         /\ q[1] \in Waiting(q)
<1> DEFINE a == Tail(q)
<1>1. /\ a \in Seq(S) /\ Len(a) = Len(q) - 1 /\ Len(q) \in Nat \ {0}
      /\ \A n \in 1..Len(q) - 1 : a[n] = q[n + 1]
  OBVIOUS
<1> HIDE DEF a
<1>2. DOMAIN a = 1..Len(q) - 1 /\ DOMAIN q = 1..Len(q)
  BY <1>1
<1>3. ASSUME NEW n \in DOMAIN a PROVE \E m \in DOMAIN q : a[n] = q[m]
  <2>1. n + 1 \in DOMAIN q
    BY <1>1, <1>2
  <2>2. QED
    BY <1>1, <1>2, <2>1
<1>4. ASSUME NEW m \in DOMAIN q, m # 1 PROVE \E n \in DOMAIN a : q[m] = a[n]
  <2>1. m - 1 \in 1..Len(q) - 1 /\ (m - 1) + 1 = m
    BY <1>1, <1>2, <1>4
  <2>2. a[m - 1] = q[m]
    BY <1>1, <2>1
  <2>3. QED
    BY <1>2, <2>1, <2>2
<1>5. 1 \in DOMAIN q
  BY <1>1, <1>2
<1>6. QED
  BY <1>3, <1>4, <1>5 DEF Waiting, a

LEMMA WaitingEmpty == Waiting(<<>>) = {}
  BY DEF Waiting

-----------------------------------------------------------------------------
(* A restart loads every queued row, in order. *)

\* AUTOINCREMENT: no two rows of the ledger have the same id.
IdInv ==
  /\ \A r \in Row : Inserted(r) => rowId[r] < nextId
  /\ \A r, s \in Row : Inserted(r) /\ Inserted(s) /\ rowId[r] = rowId[s] => r = s

IdsDiffer(S) == \A r, s \in S : rowId[r] = rowId[s] => r = s
Ordered(q, n) == \A i, j \in 1..n : i < j => LoadsBefore(q[i], q[j])
IsListing(q, S) == q \in [1..Cardinality(S) -> S] /\ Ordered(q, Cardinality(S))
Listed(S) == \E q : IsListing(q, S)

LEMMA RowsFinite ==
  ASSUME NEW S \in SUBSET Row
  PROVE  IsFiniteSet(S) /\ Cardinality(S) \in Nat
<1>1. IsFiniteSet({"own"} \cup {"recovery"})
  BY FS_Singleton, FS_AddElement
<1>2. {"own"} \cup {"recovery"} = {"own", "recovery"}
  OBVIOUS
<1>3. IsFiniteSet(Row)
  BY <1>1, <1>2, FS_Product, SchedulerAssumption DEF Row
<1>4. QED
  BY <1>3, FS_Subset, FS_CardinalityType

\* A set of rows has one that is loaded before the others.
LEMMA EarliestRow ==
  ASSUME LedgerType, NEW S \in SUBSET Row, S # {}, IdsDiffer(S)
  PROVE  \E x \in S : \A y \in S : y # x => LoadsBefore(x, y)
<1> DEFINE R == {r \in S : IsRecovery(r)}
           X == IF R # {} THEN R ELSE S
           ids == {rowId[r] : r \in X}
<1>1. X \subseteq S /\ X # {} /\ \A r \in S : rowId[r] \in Nat
  BY DEF LedgerType
<1>2. ids \in SUBSET Nat /\ ids # {}
  BY <1>1
<1>3. PICK n \in ids : \A m \in ids : n <= m
  BY <1>2, LeastIndex
<1>4. PICK x \in X : rowId[x] = n
  BY <1>3
<1>5. \A y \in X : rowId[x] <= rowId[y]
  BY <1>3, <1>4
<1>6. ASSUME NEW y \in S, y # x PROVE LoadsBefore(x, y)
  <2>1. rowId[x] # rowId[y] /\ rowId[x] \in Nat /\ rowId[y] \in Nat
    BY <1>1, <1>6 DEF IdsDiffer
  <2>2. CASE y \in X
    <3>1. rowId[x] < rowId[y]
      BY <1>5, <2>1, <2>2
    <3>2. IsRecovery(x) <=> IsRecovery(y)
      BY <2>2
    <3>3. QED
      BY <3>1, <3>2 DEF LoadsBefore
  <2>3. CASE y \notin X
    <3>1. IsRecovery(x) /\ ~IsRecovery(y)
      BY <2>3
    <3>2. QED
      BY <3>1 DEF LoadsBefore
  <2>4. QED
    BY <2>2, <2>3
<1>7. QED
  BY <1>1, <1>6

\* A listing of the others, preceded by that row, is a listing.
LEMMA LongerListing ==
  ASSUME NEW S \in SUBSET Row, NEW x \in S,
         \A y \in S : y # x => LoadsBefore(x, y), Listed(S \ {x})
  PROVE  Listed(S)
<1> DEFINE U == S \ {x}
           m == Cardinality(U)
<1>1. /\ IsFiniteSet(S) /\ m \in Nat /\ Cardinality(S) = m + 1
  <2>1. IsFiniteSet(S) /\ Cardinality(S) \in Nat
    BY RowsFinite
  <2>2. Cardinality(U) = Cardinality(S) - 1
    BY <2>1, FS_RemoveElement
  <2>3. Cardinality(U) \in Nat
    BY RowsFinite
  <2>4. QED
    BY <2>1, <2>2, <2>3
<1>2. PICK p : p \in [1..m -> U] /\ Ordered(p, m)
  BY DEF Listed, IsListing
<1> DEFINE q == [i \in 1..m + 1 |-> IF i = 1 THEN x ELSE p[i - 1]]
<1> HIDE DEF U, m
<1>3. \A i \in 1..m + 1 : i = 1 \/ (i - 1 \in 1..m /\ p[i - 1] \in U)
  BY <1>1, <1>2
<1>4. q \in [1..m + 1 -> S]
  BY <1>3 DEF U
<1>5. ASSUME NEW i \in 1..m + 1, NEW j \in 1..m + 1, i < j PROVE LoadsBefore(q[i], q[j])
  <2>1. j # 1 /\ q[j] = p[j - 1] /\ j - 1 \in 1..m /\ p[j - 1] \in U
    BY <1>1, <1>3, <1>5
  <2>2. CASE i = 1
    BY <2>1, <2>2 DEF U
  <2>3. CASE i # 1
    <3>1. q[i] = p[i - 1] /\ i - 1 \in 1..m /\ i - 1 < j - 1
      BY <1>1, <1>3, <1>5, <2>3
    <3>2. QED
      BY <1>2, <2>1, <3>1 DEF Ordered
  <2>4. QED
    BY <2>2, <2>3
<1> HIDE DEF q
<1>6. QED
  BY <1>1, <1>4, <1>5 DEF Listed, IsListing, Ordered

\* By taking a smallest set without a listing: there is none.
LEMMA ListingExists ==
  ASSUME LedgerType, NEW S \in SUBSET Row, IdsDiffer(S)
  PROVE  Listed(S)
<1> DEFINE Unlisted(X) == IdsDiffer(X) /\ ~Listed(X)
           Bad == {n \in Nat : \E X \in SUBSET Row : Cardinality(X) = n /\ Unlisted(X)}
<1>1. SUFFICES ASSUME Bad # {} PROVE FALSE
  BY RowsFinite
<1>2. Bad \in SUBSET Nat
  OBVIOUS
<1>3. PICK n \in Bad : \A m \in Bad : n <= m
  BY <1>1, <1>2, LeastIndex
<1>4. PICK X \in SUBSET Row : Cardinality(X) = n /\ Unlisted(X)
  BY <1>3
<1>5. CASE X = {}
  <2>1. Cardinality(X) = 0
    BY <1>5, FS_EmptySet
  <2>2. <<>> \in [1..0 -> X] /\ Ordered(<<>>, 0)
    BY DEF Ordered
  <2>3. QED
    BY <1>4, <2>1, <2>2 DEF Listed, IsListing
<1>6. CASE X # {}
  <2>1. PICK x \in X : \A y \in X : y # x => LoadsBefore(x, y)
    BY <1>4, <1>6, EarliestRow
  <2>2. ~Listed(X \ {x}) /\ IdsDiffer(X \ {x})
    BY <1>4, <2>1, LongerListing DEF IdsDiffer
  <2>3. Cardinality(X \ {x}) \in Bad
    BY <2>2, RowsFinite
  <2>4. Cardinality(X \ {x}) = n - 1
    BY <1>4, RowsFinite, FS_RemoveElement
  <2>5. QED
    BY <1>2, <1>3, <2>3, <2>4
<1>7. QED
  BY <1>5, <1>6

\* An ordered listing repeats no row, so it leaves none out.
LEMMA ListingIsOnto ==
  ASSUME LedgerType, NEW S \in SUBSET Row, NEW q, IsListing(q, S)
  PROVE  \A r \in S : \E i \in 1..Cardinality(S) : q[i] = r
<1> DEFINE n == Cardinality(S)
<1>1. IsFiniteSet(S) /\ n \in Nat
  BY RowsFinite
<1>2. q \in [1..n -> S] /\ Ordered(q, n)
  BY DEF IsListing
<1> HIDE DEF n
<1>3. \A r \in S : ~LoadsBefore(r, r)
  BY DEF LoadsBefore, LedgerType
<1>4. \A i, j \in 1..n : q[i] = q[j] => i = j
  <2>1. TAKE i, j \in 1..n
  <2>2. SUFFICES ASSUME q[i] = q[j], i # j PROVE FALSE
    OBVIOUS
  <2>3. i < j \/ j < i
    BY <2>2
  <2>4. QED
    BY <1>2, <1>3, <2>2, <2>3 DEF Ordered
<1>5. q \in Injection(1..n, S)
  BY <1>2, <1>4 DEF Injection, IsInjective
<1>6. Cardinality(1..n) = n
  BY <1>1, FS_Interval
<1>7. q \in Surjection(1..n, S)
  BY <1>1, <1>5, <1>6, FS_Injection DEF n
<1>8. QED
  BY <1>7 DEF Surjection, n

\* What load_queued returns.
LEMMA LoadedQueue ==
  ASSUME LedgerType, NEW S \in SUBSET Row, IdsDiffer(S)
  PROVE  \E q : /\ IsListing(q, S)
                /\ LoadQueued(S) = [i \in 1..Cardinality(S) |->
                                      [row |-> q[i], task |-> rowTask[q[i]]]]
<1> DEFINE listings == {q \in [1..Cardinality(S) -> S] :
                          \A i, j \in 1..Cardinality(S) :
                             i < j => LoadsBefore(q[i], q[j])}
           rows == IF listings = {} THEN <<>> ELSE CHOOSE q \in listings : TRUE
<1>1. listings # {}
  BY ListingExists DEF Listed, IsListing, Ordered
<1>2. rows \in listings
  BY <1>1
<1>3. LoadQueued(S) = [i \in DOMAIN rows |-> [row |-> rows[i], task |-> rowTask[rows[i]]]]
  BY DEF LoadQueued
<1>4. IsListing(rows, S) /\ DOMAIN rows = 1..Cardinality(S)
  <2> HIDE DEF rows
  <2>1. QED
    BY <1>2 DEF IsListing, Ordered
<1> HIDE DEF rows
<1>5. QED
  BY <1>3, <1>4

LEMMA WaitingLoaded ==
  ASSUME LedgerType, NEW S \in SUBSET Row, IdsDiffer(S)
  PROVE  Waiting(LoadQueued(S)) = {[row |-> r, task |-> rowTask[r]] : r \in S}
<1> DEFINE n == Cardinality(S)
<1>1. PICK q : /\ IsListing(q, S)
               /\ LoadQueued(S) = [i \in 1..n |-> [row |-> q[i], task |-> rowTask[q[i]]]]
  BY LoadedQueue
<1>2. \A r \in S : \E i \in 1..n : q[i] = r
  BY <1>1, ListingIsOnto
<1>3. q \in [1..n -> S]
  BY <1>1 DEF IsListing
<1> HIDE DEF n
<1>4. QED
  BY <1>1, <1>2, <1>3 DEF Waiting

-----------------------------------------------------------------------------
(* Which steps touch what. *)

LEMMA PendingChanges ==
  ASSUME [Next]_vars, ~UNCHANGED pending
  PROVE  \/ \E m \in Msg : OnMessage(m) \/ CmdForce(m) \/ CmdTaskNew(m)
         \/ \E r \in Row : FinishMain(r)
         \/ \E k \in Thread : DrainThread(k)
         \/ Crash \/ Restart
<1>1. ASSUME NEW m \in Msg, NEW T \in Task, ResumeTask(m, T) PROVE FALSE
  BY <1>1 DEF ResumeTask
<1>2. ASSUME NEW k \in Thread, CmdStop(k) \/ QueueResume(k) PROVE FALSE
  BY <1>2 DEF CmdStop, QueueResume, queues
<1>3. ASSUME NEW t \in acking, AckEnqueued(t) PROVE FALSE
  BY <1>3 DEF AckEnqueued, queues
<1>4. ASSUME NEW r \in Row, CliEnds(r) \/ FinishNotice(r) PROVE FALSE
  BY <1>4 DEF CliEnds, FinishNotice, queues
<1>5. ASSUME NEW j \in jobs, JobStarts(j) \/ JobRefused(j) \/ JobEnds(j) PROVE FALSE
  BY <1>5 DEF JobStarts, JobRefused, JobEnds, queues
<1>6. ASSUME NEW j \in jobs, JobAckFails(j) PROVE FALSE
  BY <1>6 DEF JobAckFails
<1>7. ASSUME NEW T \in Task, DrainTask(T) PROVE FALSE
  BY <1>7 DEF DrainTask
<1>8. ~UNCHANGED vars
  BY DEF vars
<1>9. QED
  BY <1>1, <1>2, <1>3, <1>4, <1>5, <1>6, <1>7, <1>8 DEF Next

LEMMA FollowupChanges ==
  ASSUME [Next]_vars, ~UNCHANGED followups
  PROVE  \/ \E m \in Msg, T \in Task : ResumeTask(m, T)
         \/ \E j \in jobs : JobAckFails(j)
         \/ \E T \in Task : DrainTask(T)
         \/ Crash \/ Restart
<1>1. ASSUME NEW m \in Msg, OnMessage(m) \/ CmdForce(m) \/ CmdTaskNew(m) PROVE FALSE
  BY <1>1 DEF OnMessage, CmdForce, CmdTaskNew
<1>2. ASSUME NEW k \in Thread, CmdStop(k) \/ QueueResume(k) \/ DrainThread(k) PROVE FALSE
  BY <1>2 DEF CmdStop, QueueResume, DrainThread, queues
<1>3. ASSUME NEW t \in acking, AckEnqueued(t) PROVE FALSE
  BY <1>3 DEF AckEnqueued, queues
<1>4. ASSUME NEW r \in Row, CliEnds(r) \/ FinishMain(r) \/ FinishNotice(r) PROVE FALSE
  BY <1>4 DEF CliEnds, FinishMain, FinishNotice, queues
<1>5. ASSUME NEW j \in jobs, JobStarts(j) \/ JobRefused(j) \/ JobEnds(j) PROVE FALSE
  BY <1>5 DEF JobStarts, JobRefused, JobEnds, queues
<1>6. ~UNCHANGED vars
  BY DEF vars
<1>7. QED
  BY <1>1, <1>2, <1>3, <1>4, <1>5, <1>6 DEF Next

LEMMA MainChanges ==
  ASSUME [Next]_vars, ~UNCHANGED mainRun
  PROVE  \/ \E m \in Msg : OnMessage(m)
         \/ \E k \in Thread : DrainThread(k)
         \/ \E r \in Row : CliEnds(r) \/ FinishMain(r) \/ FinishNotice(r)
         \/ Crash
<1>1. ASSUME NEW m \in Msg, CmdForce(m) \/ CmdTaskNew(m) PROVE FALSE
  BY <1>1 DEF CmdForce, CmdTaskNew
<1>2. ASSUME NEW m \in Msg, NEW T \in Task, ResumeTask(m, T) PROVE FALSE
  BY <1>2 DEF ResumeTask
<1>3. ASSUME NEW k \in Thread, CmdStop(k) \/ QueueResume(k) PROVE FALSE
  BY <1>3 DEF CmdStop, QueueResume
<1>4. ASSUME NEW t \in acking, AckEnqueued(t) PROVE FALSE
  BY <1>4 DEF AckEnqueued
<1>5. ASSUME NEW j \in jobs, JobStarts(j) \/ JobRefused(j) \/ JobAckFails(j) \/ JobEnds(j)
      PROVE  FALSE
  BY <1>5 DEF JobStarts, JobRefused, JobAckFails, JobEnds
<1>6. ASSUME NEW T \in Task, DrainTask(T) PROVE FALSE
  BY <1>6 DEF DrainTask
<1>7. CASE Restart \/ UNCHANGED vars
  BY <1>7 DEF Restart, vars
<1>8. QED
  BY <1>1, <1>2, <1>3, <1>4, <1>5, <1>6, <1>7 DEF Next

\* A job begins, goes on or leaves its maps.
Begins(t) == \E via \in {"handler", "drain"} : BeginJob(t, via)
Leaves(j) == /\ jobs' = jobs \ {j}
             /\ LeaveSession(j.turn)

LEMMA JobChanges ==
  ASSUME [Next]_vars, ~UNCHANGED <<jobs, running, activeJob>>
  PROVE  \/ \E m \in Msg : CmdTaskNew(m)
         \/ \E m \in Msg, T \in Task : ResumeTask(m, T)
         \/ \E k \in Thread : DrainThread(k)
         \/ \E T \in Task : DrainTask(T)
         \/ \E j \in jobs : JobStarts(j) \/ JobRefused(j) \/ JobAckFails(j) \/ JobEnds(j)
         \/ Crash
<1>1. ASSUME NEW m \in Msg, OnMessage(m) \/ CmdForce(m) PROVE FALSE
  BY <1>1 DEF OnMessage, CmdForce
<1>2. ASSUME NEW k \in Thread, CmdStop(k) \/ QueueResume(k) PROVE FALSE
  BY <1>2 DEF CmdStop, QueueResume
<1>3. ASSUME NEW t \in acking, AckEnqueued(t) PROVE FALSE
  BY <1>3 DEF AckEnqueued
<1>4. ASSUME NEW r \in Row, CliEnds(r) PROVE FALSE
  BY <1>4 DEF CliEnds
<1>5. ASSUME NEW r \in Row, FinishMain(r) PROVE FALSE
  BY <1>5 DEF FinishMain
<1>6. ASSUME NEW r \in Row, FinishNotice(r) PROVE FALSE
  BY <1>6 DEF FinishNotice
<1>7. CASE Restart \/ UNCHANGED vars
  BY <1>7 DEF Restart, vars
<1>8. QED
  BY <1>1, <1>2, <1>3, <1>4, <1>5, <1>6, <1>7 DEF Next

\* The process goes on: nothing is redelivered.
Stays == UNCHANGED <<up, crashes>> /\ inbox' \subseteq inbox

LEMMA UpChanges ==
  ASSUME [Next]_vars
  PROVE  Crash \/ Restart \/ Stays
<1>1. ASSUME NEW m \in Msg, OnMessage(m) PROVE Stays
  BY <1>1 DEF Stays, OnMessage, Deliver
<1>2. ASSUME NEW m \in Msg, CmdForce(m) PROVE Stays
  BY <1>2 DEF Stays, CmdForce, Deliver
<1>3. ASSUME NEW m \in Msg, CmdTaskNew(m) PROVE Stays
  BY <1>3 DEF Stays, CmdTaskNew, Deliver
<1>4. ASSUME NEW m \in Msg, NEW T \in Task, ResumeTask(m, T) PROVE Stays
  BY <1>4 DEF Stays, ResumeTask, Deliver
<1>5. ASSUME NEW k \in Thread, CmdStop(k) \/ QueueResume(k) PROVE Stays
  BY <1>5 DEF Stays, CmdStop, QueueResume
<1>6. ASSUME NEW k \in Thread, DrainThread(k) PROVE Stays
  BY <1>6 DEF Stays, DrainThread
<1>7. ASSUME NEW t \in acking, AckEnqueued(t) PROVE Stays
  BY <1>7 DEF Stays, AckEnqueued
<1>8. ASSUME NEW r \in Row, CliEnds(r) \/ FinishMain(r) \/ FinishNotice(r) PROVE Stays
  BY <1>8 DEF Stays, CliEnds, FinishMain, FinishNotice
<1>9. ASSUME NEW j \in jobs, JobStarts(j) \/ JobRefused(j) PROVE Stays
  BY <1>9 DEF Stays, JobStarts, JobRefused
<1>10. ASSUME NEW j \in jobs, JobAckFails(j) \/ JobEnds(j) PROVE Stays
  BY <1>10 DEF Stays, JobAckFails, JobEnds
<1>11. ASSUME NEW T \in Task, DrainTask(T) PROVE Stays
  BY <1>11 DEF Stays, DrainTask
<1>12. CASE UNCHANGED vars
  BY <1>12 DEF Stays, vars
<1>13. CASE \E m \in Msg : OnMessage(m) \/ CmdForce(m) \/ CmdTaskNew(m)
  BY <1>1, <1>2, <1>3, <1>13
<1>14. CASE \E k \in Thread : CmdStop(k) \/ QueueResume(k) \/ DrainThread(k)
  BY <1>5, <1>6, <1>14
<1>15. CASE \E j \in jobs : JobStarts(j) \/ JobRefused(j) \/ JobAckFails(j) \/ JobEnds(j)
  BY <1>9, <1>10, <1>15
<1>16. CASE \E m \in Msg, T \in Task : ResumeTask(m, T)
  BY <1>4, <1>16
<1>17. QED
  BY <1>7, <1>8, <1>11, <1>12, <1>13, <1>14, <1>15, <1>16 DEF Next

-----------------------------------------------------------------------------
(* A process that is down does nothing. *)

Asleep ==
  ~up => /\ \A r \in Row : mainRun[r] = "idle"
         /\ jobs = {}
         /\ acking = {}
         /\ \A k \in Thread : drain[k] = "none"
         /\ \A T \in Task : taskDrain[T] = "none"

LEMMA AwakeSteps ==
  ASSUME Asleep, [Next]_vars, ~up
  PROVE  Restart \/ UNCHANGED vars
<1>1. ASSUME NEW m \in Msg, OnMessage(m) \/ CmdForce(m) \/ CmdTaskNew(m) PROVE FALSE
  BY <1>1 DEF OnMessage, CmdForce, CmdTaskNew, Deliver
<1>2. ASSUME NEW m \in Msg, NEW T \in Task, ResumeTask(m, T) PROVE FALSE
  BY <1>2 DEF ResumeTask, Deliver
<1>3. ASSUME NEW k \in Thread, CmdStop(k) \/ QueueResume(k) \/ DrainThread(k) PROVE FALSE
  BY <1>3 DEF CmdStop, QueueResume, DrainThread, Asleep
<1>4. acking = {} /\ jobs = {}
  BY DEF Asleep
<1>5. ASSUME NEW r \in Row, CliEnds(r) \/ FinishMain(r) \/ FinishNotice(r) PROVE FALSE
  BY <1>5 DEF CliEnds, FinishMain, FinishNotice, Asleep
<1>6. ASSUME NEW T \in Task, DrainTask(T) PROVE FALSE
  BY <1>6 DEF DrainTask, Asleep
<1>7. ~Crash
  BY DEF Crash
<1>8. QED
  BY <1>1, <1>2, <1>3, <1>4, <1>5, <1>6, <1>7 DEF Next

LEMMA StepAsleep == Asleep /\ [Next]_vars => Asleep'
<1> SUFFICES ASSUME Asleep, [Next]_vars PROVE Asleep'
  OBVIOUS
<1>1. CASE Crash
  BY <1>1 DEF Crash, Asleep
<1>2. CASE Restart
  BY <1>2 DEF Restart, Asleep
<1>3. CASE UNCHANGED up
  BY <1>3, AwakeSteps DEF Asleep, Restart, vars
<1>4. QED
  BY <1>1, <1>2, <1>3, UpChanges DEF Stays

-----------------------------------------------------------------------------
(* Which task a turn is for. *)

\* T is the task that turn t of row r runs in: none for a main turn, one made
\* for the message by /task new, or the one the replied-to message is bound to.
Names(r, T) ==
  \/ IsMainRow(r) /\ T = NoTask
  \/ KindOf(r) = "new_task" /\ T \in Task /\ T[1] = r[1] /\ registry[T] # "none"
  \/ KindOf(r) = "followup" /\ T \in Task /\ BoundTask(r[1], T)

\* A task is made once: its id is of this incarnation or an older one, and a
\* message that may still be delivered has made none in this one.
TaskIdInv ==
  /\ \A T \in Task : registry[T] # "none" => T[2] <= crashes
  /\ \A T \in Task : T[1] \in inbox /\ T[2] = crashes => registry[T] = "none"

ParentTurn(t) == KindOf(t.row) # "followup" /\ Names(t.row, t.task)
FollowupOf(T, t) == t.task = T /\ KindOf(t.row) = "followup" /\ Names(t.row, t.task)

PendingRouted == \A k \in Thread : \A t \in Waiting(pending[k]) : ParentTurn(t)
FollowupsRouted == \A T \in Task : \A t \in Waiting(followups[T]) : FollowupOf(T, t)
JobsRouted == \A j \in jobs : Names(j.turn.row, j.turn.task)
RowsRouted == \A r \in Row : Inserted(r) => Names(r, rowTask[r])
MainsRouted == \A r \in Row : mainRun[r] # "idle" => IsMainRow(r)

RouteInv ==
  /\ PendingRouted
  /\ FollowupsRouted
  /\ JobsRouted
  /\ RowsRouted
  /\ MainsRouted

LEMMA KindsDiffer ==
  ASSUME NEW r \in Row
  PROVE  /\ IsMainRow(r) => KindOf(r) # "new_task" /\ KindOf(r) # "followup"
         /\ IsRecovery(r) => IsMainRow(r)
  BY DEF IsMainRow, KindOf

LEMMA NamedTask ==
  ASSUME NEW r \in Row, NEW T \in Task, Names(r, T)
  PROVE  /\ registry[T] # "none"
         /\ KindOf(r) \in {"new_task", "followup"}
         /\ ~IsMainRow(r)
<1>1. T # NoTask
  BY NoTaskAssumption
<1>2. QED
  BY <1>1, KindsDiffer DEF Names, BoundTask

LEMMA NamedMain ==
  ASSUME NEW r \in Row, Names(r, NoTask)
  PROVE  IsMainRow(r)
  BY NoTaskAssumption DEF Names

LEMMA TaskParts ==
  ASSUME NEW T \in Task
  PROVE  T[1] \in Msg /\ T[2] \in Nat /\ T = <<T[1], T[2]>>
  BY SchedulerAssumption DEF Task

\* The registry only grows, by tasks of this incarnation whose message is gone.
RegistryGrows ==
  \A T \in Task :
    /\ registry[T] # "none" => registry'[T] # "none"
    /\ registry[T] = "none" /\ registry'[T] # "none" => T[2] = crashes /\ T[1] \notin inbox'

NamesKept == \A r \in Row, T \in Task \cup {NoTask} : Names(r, T) => Names(r, T)'

\* A message stays bound to its first task: a later one has a later id.
LEMMA GrowthKeepsNames ==
  ASSUME TaskIdInv, RegistryGrows
  PROVE  NamesKept
<1> SUFFICES ASSUME NEW r \in Row, NEW T \in Task \cup {NoTask}, Names(r, T)
             PROVE  Names(r, T)'
  BY DEF NamesKept
<1>1. CASE T = NoTask
  BY <1>1, NamedMain DEF Names, IsMainRow
<1>2. CASE T \in Task
  <2>1. registry'[T] # "none"
    BY <1>2, NamedTask DEF RegistryGrows
  <2>2. BoundTask(r[1], T) => BoundTask(r[1], T)'
    <3> SUFFICES ASSUME BoundTask(r[1], T), NEW S \in Task, S[1] = T[1],
                        registry'[S] # "none"
                 PROVE  T[2] <= S[2]
      BY <2>1 DEF BoundTask
    <3>1. CASE registry[S] # "none"
      BY <3>1 DEF BoundTask
    <3>2. CASE registry[S] = "none"
      <4>1. S[2] = crashes
        BY <3>2 DEF RegistryGrows
      <4>2. T[2] <= crashes
        BY <1>2, NamedTask DEF TaskIdInv
      <4>3. QED
        BY <4>1, <4>2
    <3>3. QED
      BY <3>1, <3>2
  <2>3. QED
    BY <1>2, <2>1, <2>2, NamedTask DEF Names, IsMainRow, KindOf
<1>3. QED
  BY <1>1, <1>2

\* One task is marked, known before or made now.
LEMMA MarkGrows ==
  ASSUME SessionType, NEW T \in Task, NEW s, s # "none",
         registry[T] # "none" \/ (T[2] = crashes /\ T[1] \notin inbox'),
         registry' = [registry EXCEPT ![T] = s]
  PROVE  RegistryGrows
<1> SUFFICES ASSUME NEW S \in Task
             PROVE  /\ registry[S] # "none" => registry'[S] # "none"
                    /\ registry[S] = "none" /\ registry'[S] # "none"
                         => S[2] = crashes /\ S[1] \notin inbox'
  BY DEF RegistryGrows
<1>1. CASE S = T
  BY <1>1 DEF SessionType
<1>2. CASE S # T
  <2>1. registry'[S] = registry[S]
    BY <1>2 DEF SessionType
  <2>2. QED
    BY <2>1
<1>3. QED
  BY <1>1, <1>2

LEMMA WaitingTyped ==
  ASSUME NEW S, NEW q \in Seq(S)
  PROVE  Waiting(q) \subseteq S
  BY DEF Waiting

\* The turn a drain takes is in its queue.
LEMMA TakenWaits ==
  ASSUME QueueType, NEW k \in Thread, NextIndex(k) # 0
  PROVE  /\ NextIndex(k) \in 1..Len(pending[k])
         /\ pending[k] \in Seq(Turn)
         /\ pending[k][NextIndex(k)] \in Waiting(pending[k])
         /\ pending[k][NextIndex(k)] \in Turn
<1>1. NextIndex(k) \in 1..Len(pending[k])
  BY NextIndexType
<1>2. pending[k] \in Seq(Turn)
  BY DEF QueueType
<1>3. QED
  BY <1>1, <1>2 DEF Waiting

LEMMA FirstWaits ==
  ASSUME QueueType, NEW T \in Task, followups[T] # <<>>
  PROVE  /\ followups[T] \in Seq(TaskTurn)
         /\ followups[T][1] \in Waiting(followups[T])
         /\ followups[T][1] \in TaskTurn
<1>1. followups[T] \in Seq(TaskTurn)
  BY DEF QueueType
<1>2. followups[T][1] \in Waiting(followups[T])
  BY <1>1, WaitingTail
<1>3. QED
  BY <1>1, <1>2, WaitingTyped

\* The message of a /task new handler has made no task in this incarnation.
LEMMA NewTaskIsNew ==
  ASSUME ProcessType, TaskIdInv, NEW m \in Msg, CmdTaskNew(m)
  PROVE  /\ <<m, crashes>> \in Task
         /\ registry[<<m, crashes>>] = "none"
         /\ m \notin inbox'
<1>1. m \in inbox /\ Class[m] = "new_task" /\ inbox' = inbox \ {m}
  BY DEF CmdTaskNew, Deliver
<1>2. <<m, crashes>> \in Task
  BY <1>1 DEF Task, ProcessType
<1>3. QED
  BY <1>1, <1>2 DEF TaskIdInv

LEMMA StepRegistry ==
  ASSUME TypeOK, TaskIdInv, RouteInv, [Next]_vars
  PROVE  RegistryGrows
<1>1. QueueType /\ SessionType /\ ProcessType
  BY DEF TypeOK
<1>2. CASE UNCHANGED registry
  BY <1>2 DEF RegistryGrows
<1>3. ASSUME NEW m \in Msg, CmdTaskNew(m) PROVE RegistryGrows
  <2> DEFINE T == <<m, crashes>>
  <2>1. T \in Task /\ T[2] = crashes /\ T[1] \notin inbox'
    BY <1>1, <1>3, NewTaskIsNew
  <2>2. \E s \in {"queued", "failed", "running"} : registry' = [registry EXCEPT ![T] = s]
    BY <1>3 DEF CmdTaskNew, BeginJob, OwnTurn
  <2> HIDE DEF T
  <2>3. QED
    BY <1>1, <2>1, <2>2, MarkGrows
<1>4. ASSUME NEW m \in Msg, NEW T \in Task, ResumeTask(m, T) PROVE RegistryGrows
  <2>1. registry[T] # "none"
    BY <1>4 DEF ResumeTask, BoundTask
  <2>2. UNCHANGED registry \/ registry' = [registry EXCEPT ![T] = "running"]
    BY <1>4 DEF ResumeTask, BeginJob, OwnTurn
  <2>3. QED
    BY <1>1, <1>2, <2>1, <2>2, MarkGrows
<1>5. ASSUME NEW k \in Thread, DrainThread(k) PROVE RegistryGrows
  <2> DEFINE t == pending[k][NextIndex(k)]
  <2>1. UNCHANGED registry \/ (NextIndex(k) # 0 /\ ~MainTurn(t) /\ BeginJob(t, "drain"))
    BY <1>5 DEF DrainThread
  <2>2. ASSUME NextIndex(k) # 0, ~MainTurn(t), BeginJob(t, "drain") PROVE RegistryGrows
    <3>1. t \in Waiting(pending[k]) /\ t \in Turn
      BY <1>1, <2>2, TakenWaits
    <3>2. t.row \in Row /\ t.task \in Task /\ Names(t.row, t.task)
      BY <2>2, <3>1, TurnTypes DEF RouteInv, PendingRouted, ParentTurn, MainTurn
    <3> HIDE DEF t
    <3>3. registry[t.task] # "none" /\ registry' = [registry EXCEPT ![t.task] = "running"]
      BY <2>2, <3>2, NamedTask DEF BeginJob
    <3>4. QED
      BY <1>1, <3>2, <3>3, MarkGrows
  <2>3. QED
    BY <1>2, <2>1, <2>2
<1>6. ASSUME NEW T \in Task, DrainTask(T) PROVE RegistryGrows
  <2> DEFINE t == followups[T][1]
  <2>1. UNCHANGED registry \/ (followups[T] # <<>> /\ BeginJob(t, "drain"))
    BY <1>6 DEF DrainTask, FollowupMayStart
  <2>2. ASSUME followups[T] # <<>>, BeginJob(t, "drain") PROVE RegistryGrows
    <3>1. t \in Waiting(followups[T]) /\ t \in TaskTurn
      BY <1>1, <2>2, FirstWaits
    <3>2. t.row \in Row /\ t.task \in Task /\ Names(t.row, t.task)
      BY <3>1, TurnTypes DEF RouteInv, FollowupsRouted, FollowupOf
    <3> HIDE DEF t
    <3>3. registry[t.task] # "none" /\ registry' = [registry EXCEPT ![t.task] = "running"]
      BY <2>2, <3>2, NamedTask DEF BeginJob
    <3>4. QED
      BY <1>1, <3>2, <3>3, MarkGrows
  <2>3. QED
    BY <1>2, <2>1, <2>2
<1>7. ASSUME NEW j \in jobs, JobStarts(j) \/ JobRefused(j) \/ JobAckFails(j) \/ JobEnds(j)
      PROVE  RegistryGrows
  <2>1. UNCHANGED registry \/ \E s \in {"failed", "completed"} :
                                 registry' = [registry EXCEPT ![j.turn.task] = s]
    BY <1>7 DEF JobStarts, JobRefused, JobAckFails, JobEnds
  <2>2. j.turn.row \in Row /\ j.turn.task \in Task
    BY <1>1, JobTypes
  <2>3. registry[j.turn.task] # "none"
    BY <2>2, NamedTask DEF RouteInv, JobsRouted
  <2>4. QED
    BY <1>1, <1>2, <2>1, <2>2, <2>3, MarkGrows
<1>8. CASE Restart
  <2>1. \A T \in Task, r \in Row :
           ledger[r] = "queued" /\ rowTask[r] = T => registry[T] # "none"
    <3>1. TAKE T \in Task, r \in Row
    <3>2. ledger[r] = "queued" /\ rowTask[r] = T => Names(r, T)
      BY DEF RouteInv, RowsRouted, Inserted
    <3>3. QED
      BY <3>2, NamedTask
  <2>2. ASSUME NEW T \in Task
        PROVE  /\ registry[T] # "none" => registry'[T] # "none"
               /\ registry[T] = "none" => registry'[T] = "none"
    BY <1>8, <2>1 DEF Restart
  <2>3. QED
    BY <2>2 DEF RegistryGrows
<1>9. ASSUME NEW m \in Msg, OnMessage(m) \/ CmdForce(m) PROVE UNCHANGED registry
  BY <1>9 DEF OnMessage, CmdForce
<1>10. ASSUME NEW k \in Thread, CmdStop(k) \/ QueueResume(k) PROVE UNCHANGED registry
  BY <1>10 DEF CmdStop, QueueResume
<1>11. ASSUME NEW t \in acking, AckEnqueued(t) PROVE UNCHANGED registry
  BY <1>11 DEF AckEnqueued
<1>12. ASSUME NEW r \in Row, CliEnds(r) \/ FinishMain(r) \/ FinishNotice(r)
       PROVE  UNCHANGED registry
  BY <1>12 DEF CliEnds, FinishMain, FinishNotice
<1>13. CASE Crash \/ UNCHANGED vars
  BY <1>2, <1>13 DEF Crash, vars
<1>14. QED
  BY <1>2, <1>3, <1>4, <1>5, <1>6, <1>7, <1>8, <1>9, <1>10, <1>11, <1>12, <1>13 DEF Next

LEMMA StepTaskId ==
  ASSUME TypeOK, TaskIdInv, RegistryGrows, [Next]_vars
  PROVE  TaskIdInv'
<1>1. CASE Crash
  <2>1. UNCHANGED registry /\ crashes' = crashes + 1 /\ crashes \in Nat
    BY <1>1, SchedulerAssumption DEF Crash, TypeOK, ProcessType
  <2>2. \A T \in Task : T[2] \in Nat
    BY TaskParts
  <2>3. QED
    BY <2>1, <2>2 DEF TaskIdInv
<1>2. CASE UNCHANGED crashes /\ inbox' \subseteq inbox
  <2>1. crashes \in Nat
    BY SchedulerAssumption DEF TypeOK, ProcessType
  <2>2. QED
    BY <1>2, <2>1 DEF TaskIdInv, RegistryGrows
<1>3. CASE Restart
  BY <1>2, <1>3 DEF Restart
<1>4. QED
  BY <1>1, <1>2, <1>3, UpChanges DEF Stays

-----------------------------------------------------------------------------
(* Every step keeps the routing. *)

LEMMA OwnRow ==
  ASSUME NEW m \in Msg, NEW T
  PROVE  /\ OwnTurn(m, T).row = <<m, "own">> /\ OwnTurn(m, T).task = T
         /\ <<m, "own">> \in Row
         /\ KindOf(<<m, "own">>) = Class[m]
         /\ ~IsRecovery(<<m, "own">>)
         /\ Key(<<m, "own">>) = ThreadOf[m]
         /\ IsMainRow(<<m, "own">>) <=> Class[m] \in {"plain", "force"}
  BY SchedulerAssumption DEF OwnTurn, KindOf, Row, IsRecovery, Key, IsMainRow, Classes

LEMMA RecoveryRow ==
  ASSUME NEW r \in Row
  PROVE  /\ <<r[1], "recovery">> \in Row
         /\ IsRecovery(<<r[1], "recovery">>)
         /\ KindOf(<<r[1], "recovery">>) = "timeout_recovery"
         /\ IsMainRow(<<r[1], "recovery">>)
         /\ Key(<<r[1], "recovery">>) = Key(r)
  BY DEF Row, IsRecovery, KindOf, IsMainRow, Key

\* The turns of the handlers are the ones their messages name.
LEMMA OwnMainNamed ==
  ASSUME NEW m \in Msg, Class[m] \in {"plain", "force"}
  PROVE  /\ Names(<<m, "own">>, NoTask) /\ Names(<<m, "own">>, NoTask)'
         /\ KindOf(<<m, "own">>) # "followup"
  BY OwnRow DEF Names, IsMainRow, KindOf

LEMMA NewTaskNamed ==
  ASSUME TypeOK, TaskIdInv, NEW m \in Msg, CmdTaskNew(m),
         registry'[<<m, crashes>>] # "none",
         NEW t, t = OwnTurn(m, <<m, crashes>>)
  PROVE  ParentTurn(t)'
<1>1. PICK T \in Task : T = <<m, crashes>>
  BY NewTaskIsNew DEF TypeOK
<1>2. t = OwnTurn(m, T) /\ t.row = <<m, "own">> /\ t.task = T
  BY <1>1, OwnRow
<1>3. KindOf(<<m, "own">>) = "new_task"
  BY OwnRow DEF CmdTaskNew, Deliver
<1>4. Names(<<m, "own">>, T)'
  BY <1>1, <1>3 DEF Names, KindOf, IsRecovery
<1>5. QED
  BY <1>2, <1>3, <1>4 DEF ParentTurn, KindOf, IsRecovery

LEMMA ResumeNamed ==
  ASSUME NamesKept, NEW m \in Msg, NEW T \in Task, ResumeTask(m, T)
  PROVE  FollowupOf(T, OwnTurn(m, T)) /\ FollowupOf(T, OwnTurn(m, T))'
<1>1. Class[m] = "followup" /\ BoundTask(m, T)
  BY DEF ResumeTask, Deliver
<1>2. KindOf(<<m, "own">>) = "followup" /\ <<m, "own">> \in Row
  BY <1>1, OwnRow
<1>3. Names(<<m, "own">>, T)
  BY <1>1, <1>2 DEF Names
<1>4. Names(<<m, "own">>, T)'
  BY <1>2, <1>3 DEF NamesKept
<1>5. QED
  BY <1>2, <1>3, <1>4 DEF FollowupOf, OwnTurn, KindOf, IsRecovery

\* One queue is replaced by a queue with some of its turns and new ones.
LEMMA PendingUpdate ==
  ASSUME QueueType, PendingRouted, NamesKept, NEW k \in Thread, NEW q,
         pending' = [pending EXCEPT ![k] = q],
         \A t \in Waiting(q) : t \in Waiting(pending[k]) \/ ParentTurn(t)'
  PROVE  PendingRouted'
<1>1. ASSUME NEW j \in Thread, NEW t \in Waiting(pending[j]) PROVE ParentTurn(t)'
  <2>1. t \in Turn /\ ParentTurn(t)
    BY <1>1, WaitingTyped DEF QueueType, PendingRouted
  <2>2. QED
    BY <2>1, TurnTypes DEF ParentTurn, NamesKept, KindOf, IsRecovery
<1>2. ASSUME NEW j \in Thread, NEW t \in Waiting(pending'[j]) PROVE ParentTurn(t)'
  <2>1. CASE j = k
    <3>1. pending'[j] = q
      BY <2>1 DEF QueueType
    <3>2. QED
      BY <1>1, <1>2, <2>1, <3>1
  <2>2. CASE j # k
    <3>1. pending'[j] = pending[j]
      BY <2>2 DEF QueueType
    <3>2. QED
      BY <1>1, <1>2, <3>1
  <2>3. QED
    BY <2>1, <2>2
<1>3. QED
  BY <1>2 DEF PendingRouted, Waiting

LEMMA PendingSame ==
  ASSUME QueueType, PendingRouted, NamesKept, UNCHANGED pending
  PROVE  PendingRouted'
<1>1. ASSUME NEW j \in Thread, NEW t \in Waiting(pending[j]) PROVE ParentTurn(t)'
  <2>1. t \in Turn /\ ParentTurn(t)
    BY <1>1, WaitingTyped DEF QueueType, PendingRouted
  <2>2. QED
    BY <2>1, TurnTypes DEF ParentTurn, NamesKept, KindOf, IsRecovery
<1>2. QED
  BY <1>1 DEF PendingRouted, Waiting

LEMMA PendingAppend ==
  ASSUME QueueType, PendingRouted, NamesKept, NEW t \in Turn, EnqueueMain(t), ParentTurn(t)'
  PROVE  PendingRouted'
<1> DEFINE k == Key(t.row)
<1>1. k \in Thread
  BY TurnTypes, KeyType
<1>2. pending[k] \in Seq(Turn)
  BY <1>1 DEF QueueType
<1>3. pending' = [pending EXCEPT ![k] = Append(pending[k], t)]
  BY DEF EnqueueMain
<1> HIDE DEF k
<1>4. Waiting(Append(pending[k], t)) = Waiting(pending[k]) \cup {t}
  BY <1>2, WaitingAppend
<1>5. QED
  BY <1>1, <1>3, <1>4, PendingUpdate

LEMMA PendingInFront ==
  ASSUME QueueType, PendingRouted, NamesKept, NEW t \in Turn, NEW k \in Thread,
         pending' = [pending EXCEPT ![k] = InFront(t, @)], ParentTurn(t)'
  PROVE  PendingRouted'
<1>1. pending[k] \in Seq(Turn)
  BY DEF QueueType
<1>2. Waiting(InFront(t, pending[k])) = Waiting(pending[k]) \cup {t}
  BY <1>1, WaitingInFront
<1>3. QED
  BY <1>2, PendingUpdate

LEMMA StepPendingRouted ==
  ASSUME LedgerInv, IdInv, TaskIdInv, RouteInv, NamesKept, [Next]_vars
  PROVE  PendingRouted'
<1>1. TypeOK /\ LedgerType /\ QueueType /\ PendingRouted
  BY DEF LedgerInv, TypeOK, RouteInv
<1>2. CASE UNCHANGED pending
  BY <1>1, <1>2, PendingSame
<1>3. ASSUME NEW m \in Msg, OnMessage(m) PROVE PendingRouted'
  <2> DEFINE t == OwnTurn(m, NoTask)
  <2>1. UNCHANGED pending \/ EnqueueMain(t)
    BY <1>3 DEF OnMessage
  <2>2. ParentTurn(t)' /\ t \in Turn
    BY <1>3, OwnMainNamed, TurnTypes
    DEF OnMessage, Deliver, OwnTurn, ParentTurn, KindOf, IsRecovery
  <2> HIDE DEF t
  <2>3. QED
    BY <1>1, <1>2, <2>1, <2>2, PendingAppend
<1>4. ASSUME NEW m \in Msg, CmdForce(m) PROVE PendingRouted'
  <2> DEFINE t == OwnTurn(m, NoTask)
             k == ThreadOf[m]
  <2>1. UNCHANGED pending \/ pending' = [pending EXCEPT ![k] = InFront(t, @)]
    BY <1>4 DEF CmdForce
  <2>2. ParentTurn(t)' /\ t \in Turn /\ k \in Thread
    BY <1>4, OwnMainNamed, TurnTypes, SchedulerAssumption
    DEF CmdForce, Deliver, OwnTurn, ParentTurn, KindOf, IsRecovery
  <2> HIDE DEF t, k
  <2>3. QED
    BY <1>1, <1>2, <2>1, <2>2, PendingInFront
<1>5. ASSUME NEW m \in Msg, CmdTaskNew(m) PROVE PendingRouted'
  <2>1. PICK T \in Task : T = <<m, crashes>>
    BY <1>1, <1>5, NewTaskIsNew DEF TypeOK
  <2>2. PICK t \in Turn : t = OwnTurn(m, T)
    BY <2>1, TurnTypes
  <2>3. \/ UNCHANGED pending
        \/ EnqueueMain(t) /\ registry' = [registry EXCEPT ![T] = "queued"]
    BY <1>5, <2>1, <2>2 DEF CmdTaskNew
  <2>4. ASSUME EnqueueMain(t), registry' = [registry EXCEPT ![T] = "queued"]
        PROVE  PendingRouted'
    <3>1. registry'[T] = "queued"
      BY <1>1, <2>1, <2>4 DEF TypeOK, SessionType
    <3>2. ParentTurn(t)'
      BY <1>1, <1>5, <2>1, <2>2, <3>1, NewTaskNamed
    <3>3. QED
      BY <1>1, <2>2, <2>4, <3>2, PendingAppend
  <2>5. QED
    BY <1>2, <2>3, <2>4
<1>6. ASSUME NEW r \in Row, FinishMain(r) PROVE PendingRouted'
  <2> DEFINE rec == <<r[1], "recovery">>
             t == [row |-> rec, task |-> NoTask]
             k == Key(r)
  <2>1. UNCHANGED pending \/ pending' = [pending EXCEPT ![k] = InFront(t, @)]
    BY <1>6 DEF FinishMain
  <2>2. t \in Turn /\ k \in Thread
    BY RecoveryRow, TurnTypes, KeyType
  <2>3. ParentTurn(t)'
    BY RecoveryRow DEF ParentTurn, Names, IsMainRow, KindOf, IsRecovery
  <2> HIDE DEF t, k
  <2>4. QED
    BY <1>1, <1>2, <2>1, <2>2, <2>3, PendingInFront
<1>7. ASSUME NEW k \in Thread, DrainThread(k) PROVE PendingRouted'
  <2> DEFINE i == NextIndex(k)
  <2>1. \/ UNCHANGED pending
        \/ i # 0 /\ pending' = [pending EXCEPT ![k] = RemoveAt(pending[k], i)]
    BY <1>7 DEF DrainThread
  <2>2. ASSUME i # 0, pending' = [pending EXCEPT ![k] = RemoveAt(pending[k], i)]
        PROVE  PendingRouted'
    <3>1. i \in 1..Len(pending[k]) /\ pending[k] \in Seq(Turn)
      BY <1>1, <2>2, TakenWaits
    <3> HIDE DEF i
    <3>2. Waiting(RemoveAt(pending[k], i)) \subseteq Waiting(pending[k])
      BY <3>1, WaitingRemove
    <3>3. QED
      BY <1>1, <2>2, <3>2, PendingUpdate
  <2>3. QED
    BY <1>2, <2>1, <2>2
<1>8. CASE Crash
  BY <1>8, WaitingEmpty DEF Crash, PendingRouted, Waiting
<1>9. CASE Restart
  <2> DEFINE queued == {r \in Row : ledger[r] = "queued"}
             mainRows(k) == {r \in queued : Key(r) = k /\ KindOf(r) # "followup"}
  <2>1. pending' = [k \in Thread |-> LoadQueued(mainRows(k))]
    BY <1>9 DEF Restart
  <2>2. ASSUME NEW k \in Thread, NEW t \in Waiting(LoadQueued(mainRows(k)))
        PROVE  ParentTurn(t)'
    <3>1. mainRows(k) \in SUBSET Row /\ IdsDiffer(mainRows(k))
      BY DEF IdInv, IdsDiffer, Inserted
    <3>2. PICK r \in mainRows(k) : t = [row |-> r, task |-> rowTask[r]]
      BY <1>1, <2>2, <3>1, WaitingLoaded
    <3>3. r \in Row /\ KindOf(r) # "followup" /\ Names(r, rowTask[r])
      BY DEF RouteInv, RowsRouted, Inserted
    <3>4. Names(r, rowTask[r])'
      <4>1. rowTask[r] \in Task \cup {NoTask} /\ UNCHANGED rowTask
        BY <1>1, <1>9, <3>3 DEF LedgerType, Restart
      <4>2. PICK T \in Task \cup {NoTask} : T = rowTask[r]
        BY <4>1
      <4>3. Names(r, T)'
        BY <3>3, <4>2 DEF NamesKept
      <4>4. QED
        BY <4>1, <4>2, <4>3 DEF Names
    <3>5. QED
      BY <1>9, <3>2, <3>3, <3>4 DEF ParentTurn, KindOf, IsRecovery, Restart
  <2> HIDE DEF mainRows
  <2>3. QED
    BY <2>1, <2>2 DEF PendingRouted, Waiting
<1>10. QED
  BY <1>2, <1>3, <1>4, <1>5, <1>6, <1>7, <1>8, <1>9, PendingChanges

\* One task's queue is replaced.
LEMMA FollowupsUpdate ==
  ASSUME QueueType, FollowupsRouted, NamesKept, NEW T \in Task, NEW q,
         followups' = [followups EXCEPT ![T] = q],
         \A t \in Waiting(q) : t \in Waiting(followups[T]) \/ FollowupOf(T, t)'
  PROVE  FollowupsRouted'
<1>1. ASSUME NEW S \in Task, NEW t \in Waiting(followups[S]) PROVE FollowupOf(S, t)'
  <2>1. t \in TaskTurn /\ FollowupOf(S, t)
    BY <1>1, WaitingTyped DEF QueueType, FollowupsRouted
  <2>2. QED
    BY <2>1, TurnTypes DEF FollowupOf, NamesKept, KindOf, IsRecovery
<1>2. ASSUME NEW S \in Task, NEW t \in Waiting(followups'[S]) PROVE FollowupOf(S, t)'
  <2>1. CASE S = T
    <3>1. followups'[S] = q
      BY <2>1 DEF QueueType
    <3>2. QED
      BY <1>1, <1>2, <2>1, <3>1
  <2>2. CASE S # T
    <3>1. followups'[S] = followups[S]
      BY <2>2 DEF QueueType
    <3>2. QED
      BY <1>1, <1>2, <3>1
  <2>3. QED
    BY <2>1, <2>2
<1>3. QED
  BY <1>2 DEF FollowupsRouted, Waiting

LEMMA FollowupsSame ==
  ASSUME QueueType, FollowupsRouted, NamesKept, UNCHANGED followups
  PROVE  FollowupsRouted'
<1>1. ASSUME NEW S \in Task, NEW t \in Waiting(followups[S]) PROVE FollowupOf(S, t)'
  <2>1. t \in TaskTurn /\ FollowupOf(S, t)
    BY <1>1, WaitingTyped DEF QueueType, FollowupsRouted
  <2>2. QED
    BY <2>1, TurnTypes DEF FollowupOf, NamesKept, KindOf, IsRecovery
<1>2. QED
  BY <1>1 DEF FollowupsRouted, Waiting

LEMMA StepFollowupsRouted ==
  ASSUME LedgerInv, IdInv, RouteInv, NamesKept, [Next]_vars
  PROVE  FollowupsRouted'
<1>1. TypeOK /\ LedgerType /\ QueueType /\ SessionType /\ FollowupsRouted
  BY DEF LedgerInv, TypeOK, RouteInv
<1>2. CASE UNCHANGED followups
  BY <1>1, <1>2, FollowupsSame
<1>3. ASSUME NEW m \in Msg, NEW T \in Task, ResumeTask(m, T) PROVE FollowupsRouted'
  <2>1. PICK t \in TaskTurn : t = OwnTurn(m, T)
    BY TurnTypes
  <2>2. UNCHANGED followups \/ EnqueueFollowup(t)
    BY <1>3, <2>1 DEF ResumeTask
  <2>3. FollowupOf(T, t)' /\ t.task = T
    BY <1>3, <2>1, ResumeNamed, OwnRow
  <2>4. ASSUME EnqueueFollowup(t) PROVE FollowupsRouted'
    <3>1. followups' = [followups EXCEPT ![T] = Append(followups[T], t)]
      BY <2>3, <2>4 DEF EnqueueFollowup
    <3>2. Waiting(Append(followups[T], t)) = Waiting(followups[T]) \cup {t}
      BY <1>1, WaitingAppend DEF QueueType
    <3>3. ASSUME NEW u \in Waiting(Append(followups[T], t))
          PROVE  u \in Waiting(followups[T]) \/ FollowupOf(T, u)'
      <4>1. u \in Waiting(followups[T]) \/ u = t
        BY <3>2, <3>3
      <4>2. CASE u = t
        BY <2>3, <4>2
      <4>3. QED
        BY <4>1, <4>2
    <3>4. QED
      BY <1>1, <3>1, <3>3, FollowupsUpdate
  <2>5. QED
    BY <1>2, <2>2, <2>4
<1>4. ASSUME NEW j \in jobs, JobAckFails(j) PROVE FollowupsRouted'
  <2>1. UNCHANGED followups \/ followups' = [followups EXCEPT ![j.turn.task] = <<>>]
    BY <1>4 DEF JobAckFails
  <2>2. j.turn.task \in Task
    BY <1>1, JobTypes
  <2>3. QED
    BY <1>1, <1>2, <2>1, <2>2, WaitingEmpty, FollowupsUpdate
<1>5. ASSUME NEW T \in Task, DrainTask(T) PROVE FollowupsRouted'
  <2>1. \/ UNCHANGED followups
        \/ followups[T] # <<>> /\ followups' = [followups EXCEPT ![T] = Tail(followups[T])]
    BY <1>5 DEF DrainTask, FollowupMayStart
  <2>2. followups[T] # <<>> => Waiting(Tail(followups[T])) \subseteq Waiting(followups[T])
    BY <1>1, WaitingTail DEF QueueType
  <2>3. QED
    BY <1>1, <1>2, <2>1, <2>2, FollowupsUpdate
<1>6. CASE Crash
  BY <1>6, WaitingEmpty DEF Crash, FollowupsRouted, Waiting
<1>7. CASE Restart
  <2> DEFINE queued == {r \in Row : ledger[r] = "queued"}
             taskRows(T) == {r \in queued : KindOf(r) = "followup" /\ rowTask[r] = T}
  <2>1. followups' = [T \in Task |-> LoadQueued(taskRows(T))]
    BY <1>7 DEF Restart
  <2>2. ASSUME NEW T \in Task, NEW t \in Waiting(LoadQueued(taskRows(T)))
        PROVE  FollowupOf(T, t)'
    <3>1. taskRows(T) \in SUBSET Row /\ IdsDiffer(taskRows(T))
      BY DEF IdInv, IdsDiffer, Inserted
    <3>2. PICK r \in taskRows(T) : t = [row |-> r, task |-> T]
      BY <1>1, <2>2, <3>1, WaitingLoaded
    <3>3. r \in Row /\ KindOf(r) = "followup" /\ Names(r, T)
      BY DEF RouteInv, RowsRouted, Inserted
    <3>4. Names(r, T)'
      BY <3>3 DEF NamesKept
    <3>5. QED
      BY <3>2, <3>3, <3>4 DEF FollowupOf, KindOf, IsRecovery
  <2> HIDE DEF taskRows
  <2>3. QED
    BY <2>1, <2>2 DEF FollowupsRouted, Waiting
<1>8. QED
  BY <1>2, <1>3, <1>4, <1>5, <1>6, <1>7, FollowupChanges

\* A main turn in flight is of a row that names no task.
LEMMA StepMainsRouted ==
  ASSUME TypeOK, RouteInv, [Next]_vars
  PROVE  MainsRouted'
<1>1. QueueType /\ ThreadType /\ MainsRouted
  BY DEF TypeOK, RouteInv
<1>2. ASSUME NEW r \in Row, NEW status, BeginMain(r, status), IsMainRow(r)
      PROVE  MainsRouted'
  <2>1. \A s \in Row : s # r => mainRun'[s] = mainRun[s]
    BY <1>1, <1>2 DEF BeginMain, ThreadType
  <2>2. QED
    BY <1>1, <1>2, <2>1 DEF MainsRouted, IsMainRow, KindOf, IsRecovery
<1>3. CASE UNCHANGED mainRun
  BY <1>1, <1>3 DEF MainsRouted, IsMainRow, KindOf, IsRecovery
<1>4. ASSUME NEW m \in Msg, OnMessage(m) PROVE MainsRouted'
  <2>1. UNCHANGED mainRun \/ \E status : BeginMain(<<m, "own">>, status)
    BY <1>4, OwnRow DEF OnMessage
  <2>2. <<m, "own">> \in Row /\ IsMainRow(<<m, "own">>)
    BY <1>4, OwnRow DEF OnMessage, Deliver
  <2>3. QED
    BY <1>2, <1>3, <2>1, <2>2
<1>5. ASSUME NEW k \in Thread, DrainThread(k) PROVE MainsRouted'
  <2> DEFINE t == pending[k][NextIndex(k)]
  <2>1. \/ UNCHANGED mainRun
        \/ NextIndex(k) # 0 /\ MainTurn(t) /\ \E status : BeginMain(t.row, status)
    BY <1>5 DEF DrainThread
  <2>2. ASSUME NextIndex(k) # 0, MainTurn(t) PROVE t.row \in Row /\ IsMainRow(t.row)
    <3>1. t \in Turn /\ t \in Waiting(pending[k])
      BY <1>1, <2>2, TakenWaits
    <3>2. t.row \in Row /\ t.task = NoTask /\ Names(t.row, t.task)
      BY <2>2, <3>1, TurnTypes DEF MainTurn, RouteInv, PendingRouted, ParentTurn
    <3>3. QED
      BY <3>2, NamedMain
  <2> HIDE DEF t
  <2>3. QED
    BY <1>2, <1>3, <2>1, <2>2
<1>6. ASSUME NEW r \in Row, CliEnds(r) \/ FinishMain(r) \/ FinishNotice(r) PROVE MainsRouted'
  <2>1. mainRun[r] # "idle" /\ \A s \in Row : s # r => mainRun'[s] = mainRun[s]
    BY <1>1, <1>6 DEF CliEnds, FinishMain, FinishNotice, ReleaseParent, ThreadType
  <2>2. QED
    BY <1>1, <2>1 DEF MainsRouted, IsMainRow, KindOf, IsRecovery
<1>7. CASE Crash
  BY <1>7 DEF Crash, MainsRouted
<1>8. QED
  BY <1>3, <1>4, <1>5, <1>6, <1>7, MainChanges

-----------------------------------------------------------------------------
(* Rows are inserted one at a time, with the task their turn names. *)

RowsSame ==
  /\ UNCHANGED <<rowId, rowTask, nextId>>
  /\ \A s \in Row : ledger[s] = "none" => ledger'[s] = "none"
RowAdds(r, T) ==
  /\ AddRow(r, T)
  /\ Names(r, T)'
  /\ \A s \in Row : s # r /\ ledger[s] = "none" => ledger'[s] = "none"

\* A step that writes to the ledger only at r.
LEMMA WriteAt ==
  ASSUME LedgerType, NEW r \in Row, NEW status,
         ledger' = [ledger EXCEPT ![r] = status]
  PROVE  \A s \in Row : s # r /\ ledger[s] = "none" => ledger'[s] = "none"
  BY DEF LedgerType

LEMMA WriteInserted ==
  ASSUME LedgerType, NEW r \in Row, NEW status, Inserted(r),
         ledger' = [ledger EXCEPT ![r] = status],
         UNCHANGED rowId, UNCHANGED rowTask, UNCHANGED nextId
  PROVE  RowsSame
  BY WriteAt DEF RowsSame, Inserted

LEMMA BeginMainWrites ==
  ASSUME NEW r \in Row, NEW status, BeginMain(r, status)
  PROVE  \E s : ledger' = [ledger EXCEPT ![r] = s]
  BY DEF BeginMain

LEMMA NamesKeptAt ==
  ASSUME NamesKept, NEW r \in Row, NEW T \in Task \cup {NoTask}, Names(r, T)
  PROVE  Names(r, T)'
  BY DEF NamesKept

LEMMA RowChange ==
  ASSUME LedgerInv, TaskIdInv, RouteInv, NamesKept, [Next]_vars
  PROVE  RowsSame \/ \E r \in Row, T \in Task \cup {NoTask} : RowAdds(r, T)
<1> DEFINE Goal == RowsSame \/ \E r \in Row, T \in Task \cup {NoTask} : RowAdds(r, T)
<1>1. /\ TypeOK /\ LedgerType /\ QueueType /\ SessionType /\ ProcessType
      /\ RunsInserted
  BY DEF LedgerInv, TypeOK
<1>2. CASE UNCHANGED <<ledger, rowId, rowTask, nextId>>
  BY <1>2 DEF RowsSame
<1>3. ASSUME NEW r \in Row, NEW T \in Task \cup {NoTask}, AddRow(r, T), Names(r, T)',
             \E status : ledger' = [ledger EXCEPT ![r] = status]
      PROVE  Goal
  <2>1. \A s \in Row : s # r /\ ledger[s] = "none" => ledger'[s] = "none"
    BY <1>1, <1>3, WriteAt
  <2>2. QED
    BY <1>3, <2>1 DEF RowAdds
<1> HIDE DEF Goal
<1>4. ASSUME NEW m \in Msg, OnMessage(m) \/ CmdForce(m) PROVE Goal
  <2> DEFINE r == <<m, "own">>
  <2>1. r \in Row /\ Names(r, NoTask)'
    BY <1>4, OwnRow, OwnMainNamed DEF OnMessage, CmdForce, Deliver
  <2>2. \/ UNCHANGED <<ledger, rowId, rowTask, nextId>>
        \/ AddRow(r, NoTask) /\ \E status : ledger' = [ledger EXCEPT ![r] = status]
    BY <1>4, <2>1, BeginMainWrites, OwnRow
    DEF OnMessage, CmdForce, EnqueueMain, persistent, OwnTurn
  <2> HIDE DEF r
  <2>3. QED
    BY <1>2, <1>3, <2>1, <2>2 DEF Goal
<1>5. ASSUME NEW m \in Msg, CmdTaskNew(m) PROVE Goal
  <2>1. PICK T \in Task : T = <<m, crashes>>
    BY <1>1, <1>5, NewTaskIsNew
  <2>2. PICK t \in Turn : t = OwnTurn(m, T)
    BY <2>1, TurnTypes
  <2>3. t.row \in Row /\ t.row = <<m, "own">> /\ t.task = T
    BY <2>2, OwnRow
  <2>4. \/ UNCHANGED <<ledger, rowId, rowTask, nextId>>
        \/ /\ AddRow(t.row, T)
           /\ \E status : ledger' = [ledger EXCEPT ![t.row] = status]
           /\ \E mark \in {"queued", "running"} : registry' = [registry EXCEPT ![T] = mark]
    BY <1>5, <2>1, <2>2, <2>3 DEF CmdTaskNew, EnqueueMain, BeginJob, persistent
  <2>5. ASSUME NEW mark \in {"queued", "running"}, registry' = [registry EXCEPT ![T] = mark]
        PROVE  Names(t.row, T)'
    <3>1. registry'[<<m, crashes>>] # "none"
      BY <1>1, <2>1, <2>5 DEF SessionType
    <3>2. ParentTurn(t)'
      BY <1>1, <1>5, <2>1, <2>2, <3>1, NewTaskNamed
    <3>3. QED
      BY <2>3, <3>2 DEF ParentTurn
  <2>6. QED
    BY <1>2, <1>3, <2>3, <2>4, <2>5 DEF Goal
<1>6. ASSUME NEW m \in Msg, NEW T \in Task, ResumeTask(m, T) PROVE Goal
  <2>1. PICK t \in TaskTurn : t = OwnTurn(m, T)
    BY TurnTypes
  <2>2. t.row \in Row /\ t.task = T /\ Names(t.row, T)'
    BY <1>6, <2>1, TurnTypes, OwnRow, ResumeNamed DEF FollowupOf
  <2>3. \/ UNCHANGED <<ledger, rowId, rowTask, nextId>>
        \/ AddRow(t.row, T) /\ \E status : ledger' = [ledger EXCEPT ![t.row] = status]
    BY <1>6, <2>1, <2>2 DEF ResumeTask, EnqueueFollowup, BeginJob, persistent
  <2>4. QED
    BY <1>2, <1>3, <2>2, <2>3 DEF Goal
<1>7. ASSUME NEW k \in Thread, DrainThread(k) PROVE Goal
  <2> DEFINE t == pending[k][NextIndex(k)]
  <2>1. \/ UNCHANGED <<ledger, rowId, rowTask, nextId>>
        \/ /\ NextIndex(k) # 0 /\ UNCHANGED <<rowId, rowTask, nextId>>
           /\ BeginMain(t.row, ledger[t.row])
        \/ NextIndex(k) # 0 /\ ~MainTurn(t) /\ BeginJob(t, "drain")
    BY <1>7 DEF DrainThread, persistent
  <2>2. ASSUME NextIndex(k) # 0
        PROVE  t \in Turn /\ t.row \in Row /\ t.task \in Task \cup {NoTask}
               /\ Names(t.row, t.task)
    <3>1. t \in Turn /\ t \in Waiting(pending[k])
      BY <1>1, <2>2, TakenWaits
    <3>2. QED
      BY <3>1, TurnTypes DEF RouteInv, PendingRouted, ParentTurn
  <2>3. ASSUME UNCHANGED <<ledger, rowId, rowTask, nextId>> PROVE Goal
    BY <1>2, <2>3 DEF Goal
  <2>4. ASSUME NextIndex(k) # 0, UNCHANGED <<rowId, rowTask, nextId>>,
               BeginMain(t.row, ledger[t.row])
        PROVE  Goal
    <3>1. PICK r \in Row : r = t.row
      BY <2>2, <2>4
    <3>2. BeginMain(r, ledger[r])
      BY <2>4, <3>1
    <3>3. \A s \in Row : ledger[s] = "none" => ledger'[s] = "none"
      BY <1>1, <3>2 DEF BeginMain, MayStart, LedgerType
    <3>4. QED
      BY <2>4, <3>3 DEF Goal, RowsSame
  <2>5. ASSUME NextIndex(k) # 0, ~MainTurn(t), BeginJob(t, "drain") PROVE Goal
    <3>1. PICK r \in Row, T \in Task \cup {NoTask} : r = t.row /\ T = t.task
      BY <2>2, <2>5
    <3>2. AddRow(r, T) /\ \E status : ledger' = [ledger EXCEPT ![r] = status]
      BY <2>5, <3>1 DEF BeginJob
    <3>3. Names(r, T)'
      BY <2>2, <2>5, <3>1, NamesKeptAt
    <3>4. QED
      BY <1>3, <3>2, <3>3
  <2> HIDE DEF t
  <2>6. QED
    BY <2>1, <2>3, <2>4, <2>5
<1>8. ASSUME NEW T \in Task, DrainTask(T) PROVE Goal
  <2> DEFINE t == followups[T][1]
  <2>1. \/ UNCHANGED <<ledger, rowId, rowTask, nextId>>
        \/ followups[T] # <<>> /\ BeginJob(t, "drain")
    BY <1>8 DEF DrainTask, FollowupMayStart, persistent
  <2>2. ASSUME followups[T] # <<>>, BeginJob(t, "drain") PROVE Goal
    <3>1. t \in Waiting(followups[T]) /\ t \in TaskTurn
      BY <1>1, <2>2, FirstWaits
    <3>2. t.row \in Row /\ t.task \in Task /\ Names(t.row, t.task)
      BY <3>1, TurnTypes DEF RouteInv, FollowupsRouted, FollowupOf
    <3>3. PICK r \in Row, S \in Task : r = t.row /\ S = t.task
      BY <3>2
    <3>4. AddRow(r, S) /\ \E status : ledger' = [ledger EXCEPT ![r] = status]
      BY <2>2, <3>3 DEF BeginJob
    <3>5. Names(r, S)'
      BY <3>2, <3>3, NamesKeptAt
    <3>6. QED
      BY <1>3, <3>4, <3>5
  <2>3. QED
    BY <1>2, <2>1, <2>2 DEF Goal
<1>9. ASSUME NEW r \in Row, FinishMain(r) PROVE Goal
  <2> DEFINE rec == <<r[1], "recovery">>
  <2>1. Inserted(r)
    BY <1>1, <1>9 DEF FinishMain, RunsInserted
  <2>2. CASE NeedsRecovery(r)
    <3>1. AddRow(rec, NoTask)
          /\ ledger' = [ledger EXCEPT ![rec] = StatusAfterAdd(rec), ![r] = "done"]
      BY <1>9, <2>2 DEF FinishMain
    <3>2. rec \in Row /\ Names(rec, NoTask)'
      BY RecoveryRow DEF Names, IsMainRow, KindOf, IsRecovery
    <3>3. \A s \in Row : s # rec /\ ledger[s] = "none" => ledger'[s] = "none"
      BY <1>1, <2>1, <3>1, <3>2 DEF LedgerType, Inserted
    <3>4. QED
      BY <3>1, <3>2, <3>3 DEF Goal, RowAdds
  <2>3. CASE ~NeedsRecovery(r)
    BY <1>1, <1>9, <2>1, <2>3, WriteInserted DEF FinishMain, Goal
  <2>4. QED
    BY <2>2, <2>3
<1>10. ASSUME NEW r \in Row, FinishNotice(r) PROVE Goal
  <2>1. Inserted(r)
    BY <1>1, <1>10 DEF FinishNotice, RunsInserted
  <2>2. \E status : ledger' = [ledger EXCEPT ![r] = status]
    BY <1>10 DEF FinishNotice
  <2>3. QED
    BY <1>1, <1>10, <2>1, <2>2, WriteInserted DEF FinishNotice, Goal
<1>11. ASSUME NEW j \in jobs, JobStarts(j) \/ JobAckFails(j) \/ JobEnds(j) PROVE Goal
  <2>1. j.turn.row \in Row /\ Inserted(j.turn.row)
    BY <1>1, JobTypes DEF RunsInserted
  <2>2. /\ \E status : ledger' = [ledger EXCEPT ![j.turn.row] = status]
        /\ UNCHANGED rowId /\ UNCHANGED rowTask /\ UNCHANGED nextId
    BY <1>11 DEF JobStarts, JobAckFails, JobEnds
  <2>3. QED
    BY <1>1, <2>1, <2>2, WriteInserted DEF Goal
<1>12. ASSUME NEW j \in jobs, JobRefused(j) PROVE Goal
  BY <1>2, <1>12 DEF JobRefused, persistent, Goal
<1>13. ASSUME NEW k \in Thread, QueueResume(k) PROVE Goal
  BY <1>13 DEF QueueResume, Goal, RowsSame
<1>14. CASE Restart
  BY <1>14 DEF Restart, AfterRestart, Goal, RowsSame
<1>15. ASSUME NEW k \in Thread, CmdStop(k) PROVE Goal
  BY <1>2, <1>15 DEF CmdStop, persistent, Goal
<1>16. ASSUME NEW t \in acking, AckEnqueued(t) PROVE Goal
  BY <1>2, <1>16 DEF AckEnqueued, persistent, Goal
<1>17. ASSUME NEW r \in Row, CliEnds(r) PROVE Goal
  BY <1>2, <1>17 DEF CliEnds, persistent, Goal
<1>18. CASE Crash \/ UNCHANGED vars
  BY <1>2, <1>18 DEF Crash, vars, persistent, Goal
<1>19. Goal
  <2>1. ASSUME \E m \in Msg : OnMessage(m) \/ CmdForce(m) \/ CmdTaskNew(m) PROVE Goal
    BY <1>4, <1>5, <2>1
  <2>2. ASSUME \E k \in Thread : CmdStop(k) \/ QueueResume(k) \/ DrainThread(k) PROVE Goal
    BY <1>7, <1>13, <1>15, <2>2
  <2>3. ASSUME \E r \in Row : CliEnds(r) \/ FinishMain(r) \/ FinishNotice(r) PROVE Goal
    BY <1>9, <1>10, <1>17, <2>3
  <2>4. ASSUME \E j \in jobs : JobStarts(j) \/ JobRefused(j) \/ JobAckFails(j) \/ JobEnds(j)
        PROVE  Goal
    BY <1>11, <1>12, <2>4
  <2>5. QED
    BY <1>6, <1>8, <1>14, <1>16, <1>18, <2>1, <2>2, <2>3, <2>4 DEF Next, Goal
<1>20. QED
  BY <1>19 DEF Goal

LEMMA StepRowsRouted ==
  ASSUME LedgerType, RouteInv, NamesKept,
         RowsSame \/ \E r \in Row, T \in Task \cup {NoTask} : RowAdds(r, T)
  PROVE  RowsRouted'
<1>1. ASSUME NEW s \in Row, ledger[s] # "none", rowTask'[s] = rowTask[s]
      PROVE  Names(s, rowTask[s])'
  <2>1. PICK T \in Task \cup {NoTask} : T = rowTask[s]
    BY DEF LedgerType
  <2>2. Names(s, T)
    BY <1>1, <2>1 DEF RouteInv, RowsRouted, Inserted
  <2>3. Names(s, T)'
    BY <2>2, NamesKeptAt
  <2>4. QED
    BY <1>1, <2>1, <2>3 DEF Names
<1>2. ASSUME NEW s \in Row, ledger'[s] # "none" PROVE Names(s, rowTask[s])'
  <2>1. CASE RowsSame
    BY <1>1, <1>2, <2>1 DEF RowsSame
  <2>2. ASSUME NEW r \in Row, NEW T \in Task \cup {NoTask}, RowAdds(r, T)
        PROVE  Names(s, rowTask[s])'
    <3>1. CASE s = r /\ ledger[r] = "none"
      <4>1. rowTask'[s] = T
        BY <2>2, <3>1 DEF RowAdds, AddRow, LedgerType
      <4>2. Names(s, T)'
        BY <2>2, <3>1 DEF RowAdds
      <4>3. QED
        BY <4>1, <4>2 DEF Names
    <3>2. CASE ~(s = r /\ ledger[r] = "none")
      <4>1. rowTask'[s] = rowTask[s] /\ ledger[s] # "none"
        BY <1>2, <2>2, <3>2 DEF RowAdds, AddRow, LedgerType
      <4>2. QED
        BY <1>1, <4>1
    <3>3. QED
      BY <3>1, <3>2
  <2>3. QED
    BY <2>1, <2>2
<1>3. QED
  BY <1>2 DEF RowsRouted, Inserted, Names

LEMMA StepIdInv ==
  ASSUME LedgerType, IdInv,
         RowsSame \/ \E r \in Row, T \in Task \cup {NoTask} : RowAdds(r, T)
  PROVE  IdInv'
<1>1. CASE RowsSame
  BY <1>1 DEF RowsSame, IdInv, Inserted
<1>2. ASSUME NEW r \in Row, NEW T \in Task \cup {NoTask}, RowAdds(r, T), ledger[r] = "none"
      PROVE  IdInv'
  <2>1. /\ nextId' = nextId + 1 /\ nextId \in Nat
        /\ rowId'[r] = nextId
        /\ \A s \in Row : s # r => rowId'[s] = rowId[s]
        /\ \A s \in Row : s # r /\ ledger'[s] # "none" => ledger[s] # "none"
        /\ \A s \in Row : rowId[s] \in Nat
    BY <1>2 DEF RowAdds, AddRow, LedgerType
  <2>2. ASSUME NEW s \in Row, ledger'[s] # "none", s # r
        PROVE  rowId'[s] = rowId[s] /\ rowId[s] < nextId /\ ledger[s] # "none"
    BY <2>1, <2>2 DEF IdInv, Inserted
  <2>3. \A s \in Row : ledger'[s] # "none" => rowId'[s] < nextId'
    BY <2>1, <2>2
  <2>4. ASSUME NEW s \in Row, NEW u \in Row, ledger'[s] # "none", ledger'[u] # "none",
               rowId'[s] = rowId'[u]
        PROVE  s = u
    <3>1. CASE s # r /\ u # r
      BY <2>2, <2>4, <3>1 DEF IdInv, Inserted
    <3>2. CASE s = r \/ u = r
      BY <2>1, <2>2, <2>4, <3>2
    <3>3. QED
      BY <3>1, <3>2
  <2>5. QED
    BY <2>3, <2>4 DEF IdInv, Inserted
<1>3. ASSUME NEW r \in Row, NEW T \in Task \cup {NoTask}, RowAdds(r, T), ledger[r] # "none"
      PROVE  IdInv'
  <2>1. UNCHANGED <<rowId, nextId>> /\ \A s \in Row : ledger'[s] # "none" => ledger[s] # "none"
    BY <1>3 DEF RowAdds, AddRow
  <2>2. QED
    BY <2>1 DEF IdInv, Inserted
<1>4. QED
  BY <1>1, <1>2, <1>3

-----------------------------------------------------------------------------
(* One job per session, one first request per conversation. *)

SlotInv ==
  /\ SingleWorkerPerTask
  /\ \A j \in jobs : OccupiesParent(j.turn) => activeJob[Key(j.turn.row)] = j.turn.task

\* A job begins only on a free session, a first request in a free slot, and a
\* follow-up after the first request.
Opens(t) ==
  /\ Begins(t)
  /\ ~TaskBusy(t.task)
  /\ Names(t.row, t.task)'
  /\ IF OccupiesParent(t) THEN activeJob[Key(t.row)] = NoTask
                          ELSE ~InitialPending(t.task) /\ UNCHANGED pending

LEMMA CmdTaskNewOpens ==
  ASSUME TypeOK, TaskIdInv, RouteInv, SlotInv, NEW m \in Msg, CmdTaskNew(m)
  PROVE  UNCHANGED <<jobs, running, activeJob>> \/ \E t \in TaskTurn : Opens(t)
<1>1. PICK T \in Task : T = <<m, crashes>>
  BY NewTaskIsNew DEF TypeOK
<1>2. PICK t \in TaskTurn : t = OwnTurn(m, T)
  BY <1>1, TurnTypes
<1>3. t.row = <<m, "own">> /\ t.task = T /\ OccupiesParent(t) /\ Key(t.row) = ThreadOf[m]
  BY <1>2, OwnRow DEF CmdTaskNew, Deliver, OccupiesParent
<1>4. \/ UNCHANGED <<jobs, running, activeJob>>
      \/ BeginJob(t, "handler") /\ activeJob[Key(t.row)] = NoTask
  BY <1>1, <1>2, <1>3 DEF CmdTaskNew
<1>5. ASSUME BeginJob(t, "handler"), activeJob[Key(t.row)] = NoTask
      PROVE  Opens(t)
  <2>1. Begins(t)
    BY <1>5 DEF Begins
  <2>2. ~TaskBusy(t.task)
    <3>1. registry[T] = "none"
      BY <1>1, NewTaskIsNew DEF TypeOK
    <3>2. ASSUME NEW j \in jobs PROVE j.turn.task # T
      <4>1. j.turn.row \in Row /\ j.turn.task \in Task
        BY JobTypes DEF TypeOK
      <4>2. registry[j.turn.task] # "none"
        BY <4>1, NamedTask DEF RouteInv, JobsRouted
      <4>3. QED
        BY <3>1, <4>2
    <3>3. T \notin running
      BY <3>2 DEF SlotInv, SingleWorkerPerTask
    <3>4. QED
      BY <1>3, <3>3 DEF TaskBusy
  <2>3. Names(t.row, t.task)'
    <3>1. registry' = [registry EXCEPT ![T] = "running"]
      BY <1>3, <1>5 DEF BeginJob
    <3>2. registry'[<<m, crashes>>] # "none"
      BY <1>1, <3>1 DEF TypeOK, SessionType
    <3>3. ParentTurn(t)'
      BY <1>1, <1>2, <3>2, NewTaskNamed
    <3>4. QED
      BY <3>3 DEF ParentTurn
  <2>4. QED
    BY <1>3, <1>5, <2>1, <2>2, <2>3 DEF Opens
<1>6. QED
  BY <1>4, <1>5

LEMMA ResumeTaskOpens ==
  ASSUME NamesKept, NEW m \in Msg, NEW T \in Task, ResumeTask(m, T)
  PROVE  UNCHANGED <<jobs, running, activeJob>> \/ \E t \in TaskTurn : Opens(t)
<1>1. PICK t \in TaskTurn : t = OwnTurn(m, T)
  BY TurnTypes
<1>2. t.task = T /\ FollowupOf(T, t)' /\ FollowupOf(T, t)
  BY <1>1, ResumeNamed, OwnRow
<1>3. \/ UNCHANGED <<jobs, running, activeJob>>
      \/ /\ BeginJob(t, "handler") /\ UNCHANGED pending
         /\ ~TaskBusy(T) /\ ~InitialPending(T)
  BY <1>1 DEF ResumeTask
<1>4. Names(t.row, t.task)' /\ ~OccupiesParent(t)
  BY <1>2 DEF FollowupOf, OccupiesParent
<1>5. QED
  BY <1>1, <1>2, <1>3, <1>4 DEF Opens, Begins

LEMMA DrainThreadOpens ==
  ASSUME TypeOK, QueuesAreOwn, RouteInv, NamesKept, NEW k \in Thread, DrainThread(k)
  PROVE  UNCHANGED <<jobs, running, activeJob>> \/ \E t \in TaskTurn : Opens(t)
<1> DEFINE i == NextIndex(k)
           q == pending[k]
           mains == {n \in DOMAIN q : MainTurn(q[n])}
<1>1. \/ UNCHANGED <<jobs, running, activeJob>>
      \/ i # 0 /\ ~MainTurn(q[i]) /\ BeginJob(q[i], "drain")
  BY DEF DrainThread
<1>2. ASSUME i # 0, ~MainTurn(q[i]), BeginJob(q[i], "drain")
      PROVE  \E t \in TaskTurn : Opens(t)
  <2>1. q[i] \in Turn /\ q[i] \in Waiting(q)
    BY <1>2, TakenWaits DEF TypeOK
  <2>2. PICK t \in TaskTurn : t = q[i]
    BY <1>2, <2>1, TurnTypes
  <2>3. t.row \in Row /\ t.task \in Task /\ ParentTurn(t)
    BY <2>1, <2>2, TurnTypes DEF RouteInv, PendingRouted
  <2>4. OccupiesParent(t) /\ Names(t.row, t.task)'
    BY <2>3, NamedTask, NamesKeptAt DEF ParentTurn, OccupiesParent
  <2>5. Key(t.row) = k
    BY <1>2, <2>2, TakenIsOwn DEF TypeOK, TurnOf
  <2>6. i = 1 /\ activeJob[k] = NoTask /\ ~TaskBusy(q[1].task)
    <3>1. mains \in SUBSET Nat
      BY DEF TypeOK, QueueType
    <3>2. mains # {} => (CHOOSE n \in mains : \A j \in mains : n <= j) \in mains
      BY <3>1, LeastIndex
    <3>3. QED
      BY <1>2, <3>2 DEF NextIndex
  <2>7. Begins(t)
    BY <1>2, <2>2 DEF Begins
  <2> HIDE DEF i, q
  <2>8. QED
    BY <2>2, <2>4, <2>5, <2>6, <2>7 DEF Opens
<1>3. QED
  BY <1>1, <1>2

LEMMA DrainTaskOpens ==
  ASSUME TypeOK, RouteInv, NamesKept, NEW T \in Task, DrainTask(T)
  PROVE  UNCHANGED <<jobs, running, activeJob>> \/ \E t \in TaskTurn : Opens(t)
<1>1. \/ UNCHANGED <<jobs, running, activeJob>>
      \/ FollowupMayStart(T) /\ BeginJob(followups[T][1], "drain") /\ UNCHANGED pending
  BY DEF DrainTask
<1>2. ASSUME FollowupMayStart(T), BeginJob(followups[T][1], "drain"), UNCHANGED pending
      PROVE  \E t \in TaskTurn : Opens(t)
  <2>1. PICK t \in TaskTurn : t = followups[T][1] /\ t \in Waiting(followups[T])
    BY <1>2, FirstWaits DEF TypeOK, FollowupMayStart
  <2>2. t.row \in Row /\ t.task = T /\ KindOf(t.row) = "followup" /\ Names(t.row, t.task)
    BY <2>1, TurnTypes DEF RouteInv, FollowupsRouted, FollowupOf
  <2>3. ~OccupiesParent(t) /\ Names(t.row, t.task)'
    BY <2>2, NamesKeptAt DEF OccupiesParent
  <2>4. ~TaskBusy(t.task) /\ ~InitialPending(t.task)
    BY <1>2, <2>2 DEF FollowupMayStart
  <2>5. Begins(t)
    BY <1>2, <2>1 DEF Begins
  <2>6. QED
    BY <1>2, <2>3, <2>4, <2>5 DEF Opens
<1>3. QED
  BY <1>1, <1>2

\* A first request that ends still has the slot.
LEMMA EndLeaves ==
  ASSUME SlotInv, NEW j \in jobs, JobRefused(j) \/ JobAckFails(j) \/ JobEnds(j)
  PROVE  Leaves(j)
<1>1. CASE JobRefused(j) \/ JobAckFails(j)
  BY <1>1 DEF JobRefused, JobAckFails, Leaves
<1>2. CASE JobEnds(j)
  <2>1. OccupiesParent(j.turn) => activeJob[Key(j.turn.row)] = j.turn.task
    BY DEF SlotInv
  <2>2. QED
    BY <1>2, <2>1 DEF JobEnds, Leaves, LeaveSession
<1>3. QED
  BY <1>1, <1>2

LEMMA JobStep ==
  ASSUME TypeOK, QueuesAreOwn, TaskIdInv, RouteInv, SlotInv, NamesKept, [Next]_vars
  PROVE  \/ UNCHANGED <<jobs, running, activeJob>>
         \/ \E t \in TaskTurn : Opens(t)
         \/ \E j \in jobs : JobStarts(j) \/ Leaves(j)
         \/ Crash
<1>1. CASE \E m \in Msg : CmdTaskNew(m)
  BY <1>1, CmdTaskNewOpens
<1>2. CASE \E m \in Msg, T \in Task : ResumeTask(m, T)
  BY <1>2, ResumeTaskOpens
<1>3. CASE \E k \in Thread : DrainThread(k)
  BY <1>3, DrainThreadOpens
<1>4. CASE \E T \in Task : DrainTask(T)
  BY <1>4, DrainTaskOpens
<1>5. CASE \E j \in jobs : JobStarts(j) \/ JobRefused(j) \/ JobAckFails(j) \/ JobEnds(j)
  BY <1>5, EndLeaves
<1>6. QED
  BY <1>1, <1>2, <1>3, <1>4, <1>5, JobChanges

LEMMA OpensSlot ==
  ASSUME SessionType, SlotInv, NEW t \in TaskTurn, Opens(t)
  PROVE  SlotInv'
<1>1. PICK via \in {"handler", "drain"} : BeginJob(t, via)
  BY DEF Opens, Begins
<1> DEFINE n == [turn |-> t, stage |-> "ack", via |-> via]
           k == Key(t.row)
<1>2. /\ jobs' = jobs \cup {n} /\ n.turn = t
      /\ running' = running \cup {t.task}
      /\ activeJob' = IF OccupiesParent(t) THEN [activeJob EXCEPT ![k] = t.task]
                                           ELSE activeJob
      /\ t.task \in Task /\ t.task # NoTask /\ k \in Thread
  BY <1>1, TurnTypes, KeyType, NoTaskAssumption DEF BeginJob
<1> HIDE DEF n, k
<1>3. \A j \in jobs : j.turn.task # t.task /\ j.turn.task # NoTask
  BY JobTypes, NoTaskAssumption DEF Opens, TaskBusy, SlotInv, SingleWorkerPerTask
<1>4. \A j \in Thread : \/ activeJob'[j] = activeJob[j] /\ ~(OccupiesParent(t) /\ j = k)
                        \/ activeJob'[j] = t.task /\ OccupiesParent(t) /\ j = k
  BY <1>2 DEF SessionType
<1>5. \A i, j \in jobs' : i.turn.task = j.turn.task => i = j
  BY <1>2, <1>3 DEF SlotInv, SingleWorkerPerTask
<1>6. running' = {j.turn.task : j \in jobs'}
  BY <1>2 DEF SlotInv, SingleWorkerPerTask
<1>7. ASSUME NEW a \in Thread, activeJob'[a] # NoTask
      PROVE  \E j \in jobs' : /\ j.turn.task = activeJob'[a]
                              /\ OccupiesParent(j.turn) /\ Key(j.turn.row) = a
  <2>1. CASE activeJob'[a] = activeJob[a]
    BY <1>2, <1>7, <2>1 DEF SlotInv, SingleWorkerPerTask
  <2>2. CASE activeJob'[a] = t.task /\ OccupiesParent(t) /\ a = k
    BY <1>2, <2>2 DEF k
  <2>3. QED
    BY <1>4, <2>1, <2>2
<1>8. ASSUME NEW j \in jobs', OccupiesParent(j.turn)
      PROVE  activeJob'[Key(j.turn.row)] = j.turn.task
  <2>1. CASE j = n
    BY <1>2, <1>4, <1>8, <2>1 DEF k
  <2>2. CASE j \in jobs
    <3>1. activeJob[Key(j.turn.row)] = j.turn.task /\ Key(j.turn.row) \in Thread
      BY <1>8, <2>2, JobTypes DEF SlotInv
    <3>2. ~(OccupiesParent(t) /\ Key(j.turn.row) = k)
      BY <1>3, <2>2, <3>1 DEF Opens, k
    <3>3. QED
      BY <1>4, <3>1, <3>2
  <2>3. QED
    BY <1>2, <2>1, <2>2
<1>9. QED
  BY <1>5, <1>6, <1>7, <1>8 DEF SlotInv, SingleWorkerPerTask, OccupiesParent, KindOf,
                                IsRecovery, Key

LEMMA StartsSlot ==
  ASSUME SessionType, SlotInv, NEW j \in jobs, JobStarts(j)
  PROVE  SlotInv'
<1> DEFINE n == [turn |-> j.turn, stage |-> "run", via |-> "handler"]
<1>1. /\ jobs' = (jobs \ {j}) \cup {n} /\ n.turn = j.turn
      /\ UNCHANGED running /\ UNCHANGED activeJob
  BY DEF JobStarts
<1> HIDE DEF n
<1>2. \A i \in jobs : i.turn.task = j.turn.task => i = j
  BY DEF SlotInv, SingleWorkerPerTask
<1>3. \A i, x \in jobs' : i.turn.task = x.turn.task => i = x
  BY <1>1, <1>2 DEF SlotInv, SingleWorkerPerTask
<1>4. {i.turn : i \in jobs'} = {i.turn : i \in jobs}
  BY <1>1
<1>5. running' = {i.turn.task : i \in jobs'}
  BY <1>1 DEF SlotInv, SingleWorkerPerTask
<1>6. ASSUME NEW a \in Thread, activeJob'[a] # NoTask
      PROVE  \E i \in jobs' : /\ i.turn.task = activeJob'[a]
                              /\ OccupiesParent(i.turn) /\ Key(i.turn.row) = a
  <2>1. PICK i \in jobs : /\ i.turn.task = activeJob[a]
                          /\ OccupiesParent(i.turn) /\ Key(i.turn.row) = a
    BY <1>1, <1>6 DEF SlotInv, SingleWorkerPerTask
  <2>2. PICK x \in jobs' : x.turn = i.turn
    BY <1>4
  <2>3. QED
    BY <1>1, <2>1, <2>2
<1>7. \A i \in jobs' : OccupiesParent(i.turn) => activeJob'[Key(i.turn.row)] = i.turn.task
  BY <1>1 DEF SlotInv
<1>8. QED
  BY <1>3, <1>5, <1>6, <1>7 DEF SlotInv, SingleWorkerPerTask, OccupiesParent, KindOf,
                                IsRecovery, Key

LEMMA LeavesSlot ==
  ASSUME SessionType, SlotInv, NEW j \in jobs, Leaves(j)
  PROVE  SlotInv'
<1> DEFINE k == Key(j.turn.row)
<1>1. /\ jobs' = jobs \ {j}
      /\ running' = running \ {j.turn.task}
      /\ activeJob' = IF OccupiesParent(j.turn) THEN [activeJob EXCEPT ![k] = NoTask]
                                                ELSE activeJob
      /\ k \in Thread
  BY JobTypes DEF Leaves, LeaveSession
<1>2. \A a \in Thread : \/ activeJob'[a] = activeJob[a] /\ ~(OccupiesParent(j.turn) /\ a = k)
                        \/ activeJob'[a] = NoTask /\ OccupiesParent(j.turn) /\ a = k
  BY <1>1 DEF SessionType
<1> HIDE DEF k
<1>3. \A i \in jobs : i.turn.task = j.turn.task => i = j
  BY DEF SlotInv, SingleWorkerPerTask
<1>4. \A i, x \in jobs' : i.turn.task = x.turn.task => i = x
  BY <1>1 DEF SlotInv, SingleWorkerPerTask
<1>5. running' = {i.turn.task : i \in jobs'}
  BY <1>1, <1>3 DEF SlotInv, SingleWorkerPerTask
<1>6. ASSUME NEW a \in Thread, activeJob'[a] # NoTask
      PROVE  \E i \in jobs' : /\ i.turn.task = activeJob'[a]
                              /\ OccupiesParent(i.turn) /\ Key(i.turn.row) = a
  <2>1. activeJob'[a] = activeJob[a] /\ ~(OccupiesParent(j.turn) /\ a = k)
    BY <1>2, <1>6
  <2>2. PICK i \in jobs : /\ i.turn.task = activeJob[a]
                          /\ OccupiesParent(i.turn) /\ Key(i.turn.row) = a
    BY <1>6, <2>1 DEF SlotInv, SingleWorkerPerTask
  <2>3. i # j
    BY <2>1, <2>2 DEF k
  <2>4. QED
    BY <1>1, <2>1, <2>2, <2>3
<1>7. ASSUME NEW i \in jobs', OccupiesParent(i.turn)
      PROVE  activeJob'[Key(i.turn.row)] = i.turn.task
  <2>1. i \in jobs /\ i # j /\ Key(i.turn.row) \in Thread
    BY <1>1, JobTypes
  <2>2. activeJob[Key(i.turn.row)] = i.turn.task
    BY <1>7, <2>1 DEF SlotInv
  <2>3. ~(OccupiesParent(j.turn) /\ Key(i.turn.row) = k)
    BY <1>3, <2>1, <2>2 DEF SlotInv, k
  <2>4. QED
    BY <1>2, <2>1, <2>2, <2>3
<1>8. QED
  BY <1>4, <1>5, <1>6, <1>7 DEF SlotInv, SingleWorkerPerTask, OccupiesParent, KindOf,
                                IsRecovery, Key

LEMMA StepSlot ==
  ASSUME TypeOK, QueuesAreOwn, TaskIdInv, RouteInv, SlotInv, NamesKept, [Next]_vars
  PROVE  SlotInv' /\ JobsRouted'
<1>1. SessionType /\ JobsRouted
  BY DEF TypeOK, RouteInv
<1>2. ASSUME \A j \in jobs' : (\E i \in jobs : i.turn = j.turn) \/ Names(j.turn.row, j.turn.task)'
      PROVE  JobsRouted'
  <2>1. ASSUME NEW j \in jobs' PROVE Names(j.turn.row, j.turn.task)'
    <3>1. ASSUME NEW i \in jobs, i.turn = j.turn PROVE Names(j.turn.row, j.turn.task)'
      <4>1. i.turn.row \in Row /\ i.turn.task \in Task /\ Names(i.turn.row, i.turn.task)
        BY <1>1, JobTypes DEF JobsRouted
      <4>2. QED
        BY <3>1, <4>1, NamesKeptAt
    <3>2. QED
      BY <1>2, <3>1
  <2>2. QED
    BY <2>1 DEF JobsRouted
<1>3. CASE UNCHANGED <<jobs, running, activeJob>>
  <2>1. JobsRouted'
    BY <1>2, <1>3
  <2>2. QED
    BY <1>3, <2>1 DEF SlotInv, SingleWorkerPerTask, OccupiesParent, KindOf, IsRecovery, Key
<1>4. ASSUME NEW t \in TaskTurn, Opens(t) PROVE SlotInv' /\ JobsRouted'
  <2>1. \E via \in {"handler", "drain"} :
           jobs' = jobs \cup {[turn |-> t, stage |-> "ack", via |-> via]}
    BY <1>4 DEF Opens, Begins, BeginJob
  <2>2. \A j \in jobs' : j \in jobs \/ j.turn = t
    BY <2>1
  <2>3. Names(t.row, t.task)'
    BY <1>4 DEF Opens
  <2>4. ASSUME NEW j \in jobs'
        PROVE  (\E i \in jobs : i.turn = j.turn) \/ Names(j.turn.row, j.turn.task)'
    <3>1. CASE j \in jobs
      BY <3>1
    <3>2. CASE j.turn = t
      BY <2>3, <3>2
    <3>3. QED
      BY <2>2, <3>1, <3>2
  <2>5. JobsRouted'
    BY <1>2, <2>4
  <2>6. QED
    BY <1>1, <1>4, <2>5, OpensSlot
<1>5. ASSUME NEW j \in jobs, JobStarts(j) PROVE SlotInv' /\ JobsRouted'
  <2>1. \A i \in jobs' : \E x \in jobs : x.turn = i.turn
    BY <1>5 DEF JobStarts
  <2>2. QED
    BY <1>1, <1>2, <1>5, <2>1, StartsSlot
<1>6. ASSUME NEW j \in jobs, Leaves(j) PROVE SlotInv' /\ JobsRouted'
  <2>1. \A i \in jobs' : \E x \in jobs : x.turn = i.turn
    BY <1>6 DEF Leaves
  <2>2. QED
    BY <1>1, <1>2, <1>6, <2>1, LeavesSlot
<1>7. CASE Crash
  BY <1>7 DEF Crash, SlotInv, SingleWorkerPerTask, JobsRouted
<1>8. QED
  BY <1>3, <1>4, <1>5, <1>6, <1>7, JobStep

-----------------------------------------------------------------------------
(* The invariants so far, together. *)

RelayInv ==
  /\ LedgerInv
  /\ TurnInv
  /\ Asleep
  /\ IdInv
  /\ TaskIdInv
  /\ RouteInv
  /\ SlotInv

LEMMA InitRelayInv == Init => RelayInv
<1> SUFFICES ASSUME Init PROVE RelayInv
  OBVIOUS
<1>1. LedgerInv /\ TurnInv
  BY InitLedgerInv, InitTurnInv
<1>2. Asleep /\ IdInv /\ TaskIdInv
  BY TaskParts DEF Init, Asleep, IdInv, TaskIdInv, Inserted
<1>3. \A k \in Thread : Waiting(pending[k]) = {}
  BY WaitingEmpty DEF Init
<1>4. \A T \in Task : Waiting(followups[T]) = {}
  BY WaitingEmpty DEF Init
<1>5. RouteInv
  BY <1>3, <1>4 DEF Init, RouteInv, PendingRouted, FollowupsRouted, JobsRouted, RowsRouted,
                    MainsRouted, Inserted
<1>6. SlotInv
  BY DEF Init, SlotInv, SingleWorkerPerTask
<1>7. QED
  BY <1>1, <1>2, <1>5, <1>6 DEF RelayInv

\* What a turn is for stays what it is for, whatever the step.
LEMMA StepNames ==
  ASSUME RelayInv, [Next]_vars
  PROVE  RegistryGrows /\ NamesKept
<1>1. TypeOK /\ TaskIdInv /\ RouteInv
  BY DEF RelayInv, LedgerInv
<1>2. RegistryGrows
  BY <1>1, StepRegistry
<1>3. QED
  BY <1>1, <1>2, GrowthKeepsNames

LEMMA StepRelayInv == RelayInv /\ [Next]_vars => RelayInv'
<1> SUFFICES ASSUME RelayInv, [Next]_vars PROVE RelayInv'
  OBVIOUS
<1>1. /\ LedgerInv /\ TurnInv /\ Asleep /\ IdInv /\ TaskIdInv /\ RouteInv /\ SlotInv
      /\ TypeOK /\ LedgerType /\ QueuesAreOwn
  BY DEF RelayInv, LedgerInv, TurnInv, TypeOK
<1>2. RegistryGrows /\ NamesKept
  BY StepNames
<1>3. LedgerInv' /\ TurnInv' /\ Asleep'
  BY <1>1, StepLedgerInv, StepTurnInv, StepAsleep
<1>4. TaskIdInv'
  BY <1>1, <1>2, StepTaskId
<1>5. PendingRouted' /\ FollowupsRouted' /\ MainsRouted'
  BY <1>1, <1>2, StepPendingRouted, StepFollowupsRouted, StepMainsRouted
<1>6. RowsSame \/ \E r \in Row, T \in Task \cup {NoTask} : RowAdds(r, T)
  BY <1>1, <1>2, RowChange
<1>7. RowsRouted' /\ IdInv'
  BY <1>1, <1>2, <1>6, StepRowsRouted, StepIdInv
<1>8. SlotInv' /\ JobsRouted'
  BY <1>1, <1>2, StepSlot
<1>9. RouteInv'
  BY <1>5, <1>7, <1>8 DEF RouteInv
<1>10. QED
  BY <1>3, <1>4, <1>7, <1>8, <1>9 DEF RelayInv

\* A worker session serves one job at a time, _RUNNING_TASKS names exactly the
\* sessions in use and an _ACTIVE_JOBS slot is held by a live first request,
\* whatever /task new, replies, drains, failed acknowledgements and crashes do.
THEOREM OneJobPerSession == Spec => []SingleWorkerPerTask
<1>1. RelayInv => SingleWorkerPerTask
  BY DEF RelayInv, SlotInv
<1>2. QED
  BY InitRelayInv, StepRelayInv, <1>1, PTL DEF Spec

-----------------------------------------------------------------------------
(* How a thread's queue changes while the process is up. *)

\* A new turn at the end: a main turn, or the first request of a task made now.
Appends(t) ==
  /\ EnqueueMain(t)
  /\ KindOf(t.row) \in {"plain", "new_task"}
  /\ MainTurn(t) \/ registry[t.task] = "none"

\* A correction or a recovery in front, while a main turn is in flight.
Fronts(t) ==
  /\ pending' = [pending EXCEPT ![Key(t.row)] = InFront(t, @)]
  /\ AddRow(t.row, NoTask)
  /\ ledger'[t.row] = StatusAfterAdd(t.row)
  /\ \A s \in Row : s = t.row \/ ledger'[s] = ledger[s] \/ ledger'[s] = "done"
  /\ MainTurn(t)
  /\ KindOf(t.row) \in {"force", "timeout_recovery"}
  /\ Key(t.row) \in active
  /\ KindOf(t.row) = "timeout_recovery" => Key(t.row) \notin latch /\ Key(t.row) \notin active'

\* The drain takes one.
Takes(k) ==
  /\ DrainThread(k)
  /\ NextIndex(k) # 0
  /\ pending' = [pending EXCEPT ![k] = RemoveAt(@, NextIndex(k))]

\* The four ways a turn gets there.
LEMMA MessageAppends ==
  ASSUME NEW m \in Msg, Class[m] = "plain", EnqueueMain(OwnTurn(m, NoTask))
  PROVE  OwnTurn(m, NoTask) \in Turn /\ Appends(OwnTurn(m, NoTask))
  BY TurnTypes, OwnRow DEF MainTurn, Appends

LEMMA NewTaskAppends ==
  ASSUME ProcessType, TaskIdInv, NEW m \in Msg, CmdTaskNew(m),
         EnqueueMain(OwnTurn(m, <<m, crashes>>))
  PROVE  /\ OwnTurn(m, <<m, crashes>>) \in Turn
         /\ Appends(OwnTurn(m, <<m, crashes>>))
<1>1. PICK T \in Task : T = <<m, crashes>> /\ registry[T] = "none"
  BY NewTaskIsNew
<1>2. PICK t \in Turn : t = OwnTurn(m, T)
  BY TurnTypes
<1>3. t.task = T /\ KindOf(t.row) = Class[m] /\ Class[m] = "new_task"
  BY <1>2, OwnRow DEF CmdTaskNew, Deliver
<1>4. QED
  BY <1>1, <1>2, <1>3 DEF Appends

LEMMA ForceFronts ==
  ASSUME LedgerType, NEW m \in Msg, CmdForce(m), ThreadOf[m] \in active
  PROVE  OwnTurn(m, NoTask) \in Turn /\ Fronts(OwnTurn(m, NoTask))
<1>1. PICK t \in Turn : t = OwnTurn(m, NoTask)
  BY TurnTypes
<1>2. /\ MainTurn(t) /\ KindOf(t.row) = Class[m] /\ Class[m] = "force"
      /\ Key(t.row) = ThreadOf[m] /\ t.row \in Row
  BY <1>1, OwnRow DEF MainTurn, CmdForce, Deliver
<1>3. /\ AddRow(t.row, NoTask)
      /\ ledger' = [ledger EXCEPT ![t.row] = StatusAfterAdd(t.row)]
      /\ pending' = [pending EXCEPT ![ThreadOf[m]] = InFront(t, @)]
  BY <1>1 DEF CmdForce
<1>4. /\ ledger'[t.row] = StatusAfterAdd(t.row)
      /\ \A s \in Row : s = t.row \/ ledger'[s] = ledger[s]
  BY <1>2, <1>3 DEF LedgerType
<1>5. QED
  BY <1>1, <1>2, <1>3, <1>4 DEF Fronts

LEMMA RecoveryFronts ==
  ASSUME TypeOK, SingleMainTurn, NEW r \in Row, FinishMain(r), NeedsRecovery(r)
  PROVE  \E t \in Turn : t.row = <<r[1], "recovery">> /\ Fronts(t)
<1> DEFINE rec == <<r[1], "recovery">>
           t == [row |-> rec, task |-> NoTask]
<1>1. /\ AddRow(rec, NoTask)
      /\ ledger' = [ledger EXCEPT ![rec] = StatusAfterAdd(rec), ![r] = "done"]
      /\ pending' = [pending EXCEPT ![Key(r)] = InFront(t, @)]
  BY DEF FinishMain
<1>2. /\ rec \in Row /\ IsRecovery(rec) /\ Key(rec) = Key(r)
      /\ KindOf(rec) = "timeout_recovery"
  BY RecoveryRow
<1>3. rec # r
  BY <1>2 DEF NeedsRecovery
<1>4. Key(r) \in active
  <2>1. mainRun[r] # "idle" /\ Key(r) \in Thread
    BY KeyType DEF FinishMain
  <2>2. QED
    BY <2>1 DEF SingleMainTurn
<1>5. t \in Turn /\ t.row = rec /\ MainTurn(t)
  BY <1>2 DEF Turn, MainTurn
<1>9. Key(r) \notin active'
  BY DEF FinishMain, ReleaseParent
<1> HIDE DEF rec, t
<1>6. /\ ledger'[rec] = StatusAfterAdd(rec)
      /\ \A s \in Row : s = rec \/ ledger'[s] = ledger[s] \/ ledger'[s] = "done"
  BY <1>1, <1>2, <1>3 DEF TypeOK, LedgerType
<1>7. Fronts(t)
  BY <1>1, <1>2, <1>4, <1>5, <1>6, <1>9 DEF Fronts, NeedsRecovery
<1>8. QED
  BY <1>5, <1>7 DEF rec

LEMMA PendingStep ==
  ASSUME RelayInv, [Next]_vars, ~UNCHANGED pending
  PROVE  \/ \E t \in Turn : Appends(t) \/ Fronts(t)
         \/ \E k \in Thread : Takes(k)
         \/ Crash \/ Restart
<1>1. TypeOK /\ LedgerType /\ ProcessType /\ TaskIdInv /\ SingleMainTurn
  BY DEF RelayInv, LedgerInv, TurnInv, TypeOK
<1>2. ASSUME NEW m \in Msg, OnMessage(m) PROVE \E t \in Turn : Appends(t)
  <2>1. EnqueueMain(OwnTurn(m, NoTask)) /\ Class[m] = "plain"
    BY <1>2 DEF OnMessage, Deliver
  <2>2. QED
    BY <2>1, MessageAppends
<1>3. ASSUME NEW m \in Msg, CmdForce(m) PROVE \E t \in Turn : Fronts(t)
  <2>1. ThreadOf[m] \in active
    BY <1>3 DEF CmdForce
  <2>2. QED
    BY <1>1, <1>3, <2>1, ForceFronts
<1>4. ASSUME NEW m \in Msg, CmdTaskNew(m) PROVE \E t \in Turn : Appends(t)
  <2>1. EnqueueMain(OwnTurn(m, <<m, crashes>>))
    BY <1>4 DEF CmdTaskNew
  <2>2. QED
    BY <1>1, <1>4, <2>1, NewTaskAppends
<1>5. ASSUME NEW r \in Row, FinishMain(r) PROVE \E t \in Turn : Fronts(t)
  <2>1. NeedsRecovery(r)
    BY <1>5 DEF FinishMain
  <2>2. QED
    BY <1>1, <1>5, <2>1, RecoveryFronts
<1>6. ASSUME NEW k \in Thread, DrainThread(k) PROVE Takes(k)
  BY <1>6 DEF DrainThread, Takes
<1>7. QED
  BY <1>2, <1>3, <1>4, <1>5, <1>6, PendingChanges

LEMMA EnqueuedQueue ==
  ASSUME NEW t, EnqueueMain(t)
  PROVE  pending' = [pending EXCEPT ![Key(t.row)] = Append(@, t)]
  BY DEF EnqueueMain

\* The turns that wait afterwards waited before or are new.
LEMMA NewlyWaiting ==
  ASSUME RelayInv, [Next]_vars, ~Restart, NEW k \in Thread, NEW t \in Waiting(pending'[k])
  PROVE  t \in Waiting(pending[k]) \/ MainTurn(t) \/ registry[t.task] = "none"
<1>1. QueueType /\ pending[k] \in Seq(Turn)
  BY DEF RelayInv, LedgerInv, TypeOK, QueueType
<1>2. ASSUME NEW n \in Turn, Appends(n) PROVE t \in Waiting(pending[k]) \cup {n}
  <2>1. pending' = [pending EXCEPT ![Key(n.row)] = Append(@, n)]
    BY <1>2, EnqueuedQueue DEF Appends
  <2>2. pending'[k] = pending[k] \/ pending'[k] = Append(pending[k], n)
    BY <1>1, <2>1 DEF QueueType
  <2>3. Waiting(Append(pending[k], n)) = Waiting(pending[k]) \cup {n}
    BY <1>1, WaitingAppend
  <2>4. QED
    BY <2>2, <2>3
<1>3. ASSUME NEW n \in Turn, Fronts(n) PROVE t \in Waiting(pending[k]) \cup {n}
  <2>1. pending' = [pending EXCEPT ![Key(n.row)] = InFront(n, @)]
    BY <1>3 DEF Fronts
  <2>2. pending'[k] = pending[k] \/ pending'[k] = InFront(n, pending[k])
    BY <1>1, <2>1 DEF QueueType
  <2>3. Waiting(InFront(n, pending[k])) = Waiting(pending[k]) \cup {n}
    BY <1>1, WaitingInFront
  <2>4. QED
    BY <2>2, <2>3
<1>4. ASSUME NEW a \in Thread, Takes(a) PROVE t \in Waiting(pending[k])
  <2>1. CASE a = k
    <3>1. NextIndex(k) \in 1..Len(pending[k])
      BY <1>1, <1>4, <2>1, TakenWaits DEF Takes
    <3>2. Waiting(RemoveAt(pending[k], NextIndex(k))) \subseteq Waiting(pending[k])
      BY <1>1, <3>1, WaitingRemove
    <3>3. pending'[k] = RemoveAt(pending[k], NextIndex(k))
      BY <1>1, <1>4, <2>1 DEF Takes, QueueType
    <3>4. QED
      BY <3>2, <3>3
  <2>2. CASE a # k
    BY <1>1, <1>4, <2>2 DEF Takes, QueueType
  <2>3. QED
    BY <2>1, <2>2
<1>5. CASE Crash
  BY <1>5, WaitingEmpty DEF Crash
<1>6. CASE UNCHANGED pending
  BY <1>6
<1>7. QED
  BY <1>2, <1>3, <1>4, <1>5, <1>6, PendingStep DEF Appends, Fronts

-----------------------------------------------------------------------------
(* A follow-up and the first request of its task. *)

LEMMA StillPending ==
  ASSUME RelayInv, [Next]_vars, ~Restart, NEW T \in Task, registry[T] # "none",
         InitialPending(T)'
  PROVE  InitialPending(T)
<1>1. PICK k \in Thread : \E i \in DOMAIN pending'[k] : pending'[k][i].task = T
  BY DEF InitialPending
<1>2. PICK t \in Waiting(pending'[k]) : t.task = T
  BY <1>1 DEF Waiting
<1>3. t \in Waiting(pending[k])
  BY <1>2, NewlyWaiting, NoTaskAssumption DEF MainTurn
<1>4. QED
  BY <1>2, <1>3 DEF Waiting, InitialPending

LEMMA InitFollowupWaits == Init => FollowupWaitsForInitial
  BY DEF Init, FollowupWaitsForInitial

LEMMA StepFollowupWaits ==
  RelayInv /\ FollowupWaitsForInitial /\ [Next]_vars => FollowupWaitsForInitial'
<1> SUFFICES ASSUME RelayInv, FollowupWaitsForInitial, [Next]_vars,
                    NEW j \in jobs', KindOf(j.turn.row)' = "followup",
                    InitialPending(j.turn.task)'
             PROVE  FALSE
  BY DEF FollowupWaitsForInitial
<1>0. KindOf(j.turn.row) = "followup"
  BY DEF KindOf, IsRecovery
<1>1. /\ TypeOK /\ QueuesAreOwn /\ TaskIdInv /\ RouteInv /\ SlotInv /\ Asleep /\ SessionType
      /\ NamesKept /\ JobsRouted
  BY StepNames DEF RelayInv, LedgerInv, TurnInv, TypeOK, RouteInv
<1>2. CASE Crash
  BY <1>2 DEF Crash
<1>3. CASE Restart
  BY <1>1, <1>3 DEF Restart, Asleep
<1>4. ASSUME NEW i \in jobs, i.turn = j.turn, ~Restart PROVE FALSE
  <2>1. i.turn.row \in Row /\ i.turn.task \in Task /\ Names(i.turn.row, i.turn.task)
    BY <1>1, JobTypes DEF JobsRouted
  <2>2. registry[i.turn.task] # "none"
    BY <2>1, NamedTask
  <2>3. InitialPending(i.turn.task)
    BY <1>4, <2>1, <2>2, StillPending
  <2>4. QED
    BY <1>0, <1>4, <2>3 DEF FollowupWaitsForInitial
<1>5. ASSUME NEW t \in TaskTurn, Opens(t), j.turn = t PROVE FALSE
  <2>1. ~OccupiesParent(t)
    BY <1>0, <1>5 DEF OccupiesParent
  <2>2. ~InitialPending(t.task) /\ UNCHANGED pending
    BY <1>5, <2>1 DEF Opens
  <2>3. QED
    BY <1>5, <2>2 DEF InitialPending
<1>6. ASSUME ~Crash, ~Restart PROVE FALSE
  <2>1. (\E i \in jobs : i.turn = j.turn) \/ (\E t \in TaskTurn : Opens(t) /\ j.turn = t)
    <3>1. CASE UNCHANGED <<jobs, running, activeJob>>
      BY <3>1
    <3>2. ASSUME NEW t \in TaskTurn, Opens(t)
          PROVE  (\E i \in jobs : i.turn = j.turn) \/ j.turn = t
      BY <3>2 DEF Opens, Begins, BeginJob
    <3>3. ASSUME NEW x \in jobs, JobStarts(x) \/ Leaves(x)
          PROVE  \E i \in jobs : i.turn = j.turn
      BY <3>3 DEF JobStarts, Leaves
    <3>4. QED
      BY <1>1, <1>6, <3>1, <3>2, <3>3, JobStep
  <2>2. QED
    BY <1>4, <1>5, <1>6, <2>1
<1>7. QED
  BY <1>2, <1>3, <1>6

\* A follow-up never starts while its task's first request still waits in a
\* queue, in memory or reloaded after a crash (_pending_parent_turn_for_task).
THEOREM FollowupAfterInitial == Spec => []FollowupWaitsForInitial
<1>1. RelayInv /\ FollowupWaitsForInitial /\ [Next]_vars
        => RelayInv' /\ FollowupWaitsForInitial'
  BY StepRelayInv, StepFollowupWaits
<1>2. Init => RelayInv /\ FollowupWaitsForInitial
  BY InitRelayInv, InitFollowupWaits
<1>3. QED
  BY <1>1, <1>2, PTL DEF Spec

-----------------------------------------------------------------------------
(* What happens to a row. *)

\* A main turn starts: a message that need not wait, or the one the drain takes.
MainBegins(r) ==
  /\ ledger[r] \in {"none", "queued"}
  /\ ledger' = [ledger EXCEPT ![r] = "running"]
  /\ mainRun' = [mainRun EXCEPT ![r] = "cli"]
  /\ UNCHANGED jobs
  /\ \/ /\ ~MustWait(Key(r))
        /\ KindOf(r) = "plain"
        /\ AddRow(r, NoTask)
        /\ UNCHANGED pending
     \/ /\ Takes(Key(r))
        /\ ledger[r] = "queued"
        /\ r = pending[Key(r)][NextIndex(Key(r))].row
        /\ MainTurn(pending[Key(r)][NextIndex(Key(r))])
        /\ UNCHANGED <<rowId, rowTask, nextId>>
MainEnds(r) == FinishMain(r) \/ FinishNotice(r)
JobMoves(r) ==
  \E j \in jobs : j.turn.row = r /\ (JobStarts(j) \/ JobAckFails(j) \/ JobEnds(j))
\* Nothing but an insertion or a review.
Rests(r) ==
  \/ ledger'[r] = ledger[r]
  \/ ledger[r] = "none" /\ ledger'[r] = "queued"
  \/ ledger[r] = "needs_review" /\ ledger'[r] = "reviewed"

\* What an insertion or a new answer to it does to any row.
LEMMA AddedRests ==
  ASSUME LedgerType, NEW x \in Row, ledger' = [ledger EXCEPT ![x] = StatusAfterAdd(x)],
         NEW r \in Row
  PROVE  Rests(r)
  BY DEF Rests, StatusAfterAdd, LedgerType

LEMMA OnMessageRow ==
  ASSUME TypeOK, NEW m \in Msg, OnMessage(m)
  PROVE  \/ MainBegins(<<m, "own">>)
         \/ UNCHANGED mainRun /\ \A r \in Row : Rests(r)
<1> DEFINE x == <<m, "own">>
<1>1. /\ x \in Row /\ KindOf(x) = "plain" /\ Key(x) = ThreadOf[m]
      /\ OwnTurn(m, NoTask).row = x /\ OwnTurn(m, NoTask).task = NoTask
  BY OwnRow DEF OnMessage, Deliver
<1>2. /\ LedgerType /\ UNCHANGED jobs
      /\ ledger \in [Row -> RowStatus]
  BY DEF TypeOK, LedgerType, OnMessage
<1> HIDE DEF x
<1>3. CASE MustWait(ThreadOf[m]) /\ EnqueueMain(OwnTurn(m, NoTask))
  <2>1. ledger' = [ledger EXCEPT ![x] = StatusAfterAdd(x)]
    BY <1>1, <1>3 DEF EnqueueMain
  <2>2. ASSUME NEW r \in Row PROVE Rests(r)
    BY <1>1, <1>2, <2>1, AddedRests
  <2>3. UNCHANGED mainRun
    BY <1>3 DEF OnMessage
  <2>4. QED
    BY <2>2, <2>3
<1>4. CASE UNCHANGED <<ledger, mainRun>>
  BY <1>4 DEF Rests
<1>5. CASE /\ ~MustWait(ThreadOf[m]) /\ AddRow(x, NoTask)
           /\ BeginMain(x, StatusAfterAdd(x))
           /\ UNCHANGED pending
  <2>1. CASE MayStart(StatusAfterAdd(x))
    <3>1. ledger[x] \in {"none", "queued"}
      BY <2>1 DEF MayStart, StatusAfterAdd
    <3>2. QED
      BY <1>1, <1>2, <1>5, <2>1, <3>1 DEF MainBegins, BeginMain, x
  <2>2. CASE ~MayStart(StatusAfterAdd(x))
    <3>1. ledger' = [ledger EXCEPT ![x] = StatusAfterAdd(x)] /\ UNCHANGED mainRun
      BY <1>5, <2>2 DEF BeginMain
    <3>2. ASSUME NEW r \in Row PROVE Rests(r)
      BY <1>1, <1>2, <3>1, AddedRests
    <3>3. QED
      BY <3>1, <3>2
  <2>3. QED
    BY <2>1, <2>2
<1>6. QED
  BY <1>1, <1>3, <1>4, <1>5 DEF OnMessage, persistent

LEMMA DrainThreadRow ==
  ASSUME TypeOK, QueuesAreOwn, NEW k \in Thread, DrainThread(k)
  PROVE  \/ \E x \in Row : MainBegins(x)
         \/ UNCHANGED mainRun /\ \A r \in Row : Rests(r)
<1> DEFINE i == NextIndex(k)
           t == pending[k][i]
<1>1. LedgerType /\ QueueType
  BY DEF TypeOK
<1>2. CASE i = 0
  BY <1>2 DEF DrainThread, Rests, persistent
<1>3. CASE i # 0
  <2>1. t \in Turn /\ t.row \in Row /\ Key(t.row) = k
    BY <1>1, <1>3, TakenWaits, TakenIsOwn, TurnTypes DEF TurnOf
  <2>2. Takes(k)
    BY <1>3 DEF DrainThread, Takes
  <2>3. CASE MainTurn(t)
    <3>1. /\ BeginMain(t.row, ledger[t.row])
          /\ UNCHANGED <<rowId, rowTask, nextId, jobs>>
      BY <1>3, <2>3 DEF DrainThread
    <3>2. CASE MayStart(ledger[t.row])
      <4>1. MainBegins(t.row)
        BY <2>1, <2>2, <2>3, <3>1, <3>2 DEF MainBegins, BeginMain, MayStart
      <4>2. QED
        BY <2>1, <4>1
    <3>3. CASE ~MayStart(ledger[t.row])
      <4>1. ledger' = [ledger EXCEPT ![t.row] = ledger[t.row]] /\ UNCHANGED mainRun
        BY <3>1, <3>3 DEF BeginMain
      <4>2. ledger' = ledger
        BY <1>1, <2>1, <4>1 DEF LedgerType
      <4>3. QED
        BY <4>1, <4>2 DEF Rests
    <3>4. QED
      BY <3>2, <3>3
  <2>4. CASE ~MainTurn(t)
    <3>1. BeginJob(t, "drain") /\ UNCHANGED mainRun
      BY <1>3, <2>4 DEF DrainThread
    <3>2. ledger' = [ledger EXCEPT ![t.row] = StatusAfterAdd(t.row)]
      BY <3>1 DEF BeginJob
    <3>3. QED
      BY <1>1, <2>1, <3>1, <3>2, AddedRests
  <2>5. QED
    BY <2>3, <2>4
<1>4. QED
  BY <1>2, <1>3

\* Every step, as one row sees it.
LEMMA RowMoves ==
  ASSUME TypeOK, QueuesAreOwn, [Next]_vars, NEW r \in Row
  PROVE  MainBegins(r) \/ MainEnds(r) \/ JobMoves(r) \/ Rests(r) \/ Restart
<1>1. LedgerType /\ QueueType /\ SessionType /\ ledger \in [Row -> RowStatus]
  BY DEF TypeOK, LedgerType
<1>2. ASSUME NEW m \in Msg, OnMessage(m) PROVE MainBegins(r) \/ Rests(r)
  <2>1. ASSUME MainBegins(<<m, "own">>) PROVE MainBegins(r) \/ Rests(r)
    BY <1>1, <2>1, OwnRow DEF MainBegins, Rests
  <2>2. QED
    BY <1>2, <2>1, OnMessageRow
<1>3. ASSUME NEW m \in Msg, CmdForce(m) PROVE Rests(r)
  <2>1. \/ UNCHANGED ledger
        \/ ledger' = [ledger EXCEPT ![<<m, "own">>] = StatusAfterAdd(<<m, "own">>)]
    BY <1>3, OwnRow DEF CmdForce, persistent
  <2>2. QED
    BY <1>1, <2>1, OwnRow, AddedRests DEF Rests
<1>4. ASSUME NEW m \in Msg, CmdTaskNew(m) PROVE Rests(r)
  <2>1. \/ UNCHANGED ledger
        \/ ledger' = [ledger EXCEPT ![<<m, "own">>] = StatusAfterAdd(<<m, "own">>)]
    BY <1>4, OwnRow DEF CmdTaskNew, persistent, EnqueueMain, BeginJob
  <2>2. QED
    BY <1>1, <2>1, OwnRow, AddedRests DEF Rests
<1>5. ASSUME NEW m \in Msg, NEW T \in Task, ResumeTask(m, T) PROVE Rests(r)
  <2>1. \/ UNCHANGED ledger
        \/ ledger' = [ledger EXCEPT ![<<m, "own">>] = StatusAfterAdd(<<m, "own">>)]
    BY <1>5, OwnRow DEF ResumeTask, persistent, EnqueueFollowup, BeginJob
  <2>2. QED
    BY <1>1, <2>1, OwnRow, AddedRests DEF Rests
<1>6. ASSUME NEW k \in Thread, QueueResume(k) PROVE Rests(r)
  BY <1>6 DEF QueueResume, Rests
<1>7. ASSUME NEW k \in Thread, DrainThread(k) PROVE MainBegins(r) \/ Rests(r)
  <2>1. ASSUME NEW x \in Row, MainBegins(x) PROVE MainBegins(r) \/ Rests(r)
    BY <1>1, <2>1 DEF MainBegins, Rests
  <2>2. QED
    BY <1>7, <2>1, DrainThreadRow
<1>8. ASSUME NEW x \in Row, FinishMain(x) PROVE MainEnds(r) \/ Rests(r)
  <2> DEFINE rec == <<x[1], "recovery">>
  <2>1. rec \in Row
    BY RecoveryRow
  <2> HIDE DEF rec
  <2>2. CASE r = x
    BY <1>8, <2>2 DEF MainEnds
  <2>3. ASSUME r # x, ledger' = [ledger EXCEPT ![rec] = StatusAfterAdd(rec), ![x] = "done"]
        PROVE  Rests(r)
    BY <1>1, <2>1, <2>3 DEF Rests, StatusAfterAdd
  <2>4. ASSUME r # x, ledger' = [ledger EXCEPT ![x] = "done"] PROVE Rests(r)
    BY <1>1, <2>4 DEF Rests
  <2>5. QED
    BY <1>8, <2>2, <2>3, <2>4 DEF FinishMain, rec
<1>9. ASSUME NEW x \in Row, FinishNotice(x) PROVE MainEnds(r) \/ Rests(r)
  <2>1. \E s : ledger' = [ledger EXCEPT ![x] = s]
    BY <1>9 DEF FinishNotice
  <2>2. r = x \/ ledger'[r] = ledger[r]
    BY <1>1, <2>1
  <2>3. QED
    BY <1>9, <2>2 DEF MainEnds, Rests
<1>10. ASSUME NEW j \in jobs, JobStarts(j) \/ JobAckFails(j) \/ JobEnds(j)
       PROVE  JobMoves(r) \/ Rests(r)
  <2>1. \E s : ledger' = [ledger EXCEPT ![j.turn.row] = s]
    BY <1>10 DEF JobStarts, JobAckFails, JobEnds
  <2>2. r = j.turn.row \/ ledger'[r] = ledger[r]
    BY <1>1, <2>1
  <2>3. QED
    BY <1>10, <2>2 DEF JobMoves, Rests
<1>11. ASSUME NEW T \in Task, DrainTask(T) PROVE Rests(r)
  <2> DEFINE x == followups[T][1].row
  <2>1. \/ UNCHANGED ledger
        \/ followups[T] # <<>> /\ ledger' = [ledger EXCEPT ![x] = StatusAfterAdd(x)]
    BY <1>11 DEF DrainTask, persistent, BeginJob, FollowupMayStart
  <2>2. followups[T] # <<>> => x \in Row
    BY <1>1, FirstWaits, TurnTypes
  <2>3. QED
    BY <1>1, <2>1, <2>2, AddedRests DEF Rests
<1>12. CASE \/ \E k \in Thread : CmdStop(k)
            \/ \E t \in acking : AckEnqueued(t)
            \/ \E x \in Row : CliEnds(x)
            \/ \E j \in jobs : JobRefused(j)
            \/ Crash \/ UNCHANGED vars
  BY <1>12 DEF CmdStop, AckEnqueued, CliEnds, JobRefused, Crash, vars, persistent, Rests
<1>13. QED
  BY <1>2, <1>3, <1>4, <1>5, <1>6, <1>7, <1>8, <1>9, <1>10, <1>11, <1>12 DEF Next

-----------------------------------------------------------------------------
(* A row of unknown outcome pauses its conversation. *)

LEMMA ReviewChanges ==
  ASSUME [Next]_vars, ~UNCHANGED review
  PROVE  \/ \E k \in Thread : QueueResume(k)
         \/ \E r \in Row : FinishNotice(r)
         \/ Crash \/ Restart
<1>1. CASE \E m \in Msg : OnMessage(m) \/ CmdForce(m) \/ CmdTaskNew(m)
  BY <1>1 DEF OnMessage, CmdForce, CmdTaskNew
<1>2. CASE \E m \in Msg, T \in Task : ResumeTask(m, T)
  BY <1>2 DEF ResumeTask
<1>3. CASE \E k \in Thread : CmdStop(k) \/ DrainThread(k)
  BY <1>3 DEF CmdStop, DrainThread
<1>4. CASE \E t \in acking : AckEnqueued(t)
  BY <1>4 DEF AckEnqueued
<1>5. CASE \E r \in Row : CliEnds(r) \/ FinishMain(r)
  BY <1>5 DEF CliEnds, FinishMain
<1>6. CASE \E j \in jobs : JobStarts(j) \/ JobRefused(j) \/ JobAckFails(j) \/ JobEnds(j)
  BY <1>6 DEF JobStarts, JobRefused, JobAckFails, JobEnds
<1>7. CASE \E T \in Task : DrainTask(T)
  BY <1>7 DEF DrainTask
<1>8. CASE UNCHANGED vars
  BY <1>8 DEF vars
<1>9. QED
  BY <1>1, <1>2, <1>3, <1>4, <1>5, <1>6, <1>7, <1>8 DEF Next

LEMMA StepUncertain ==
  RelayInv /\ UncertainRowPausesThread /\ [Next]_vars => UncertainRowPausesThread'
<1> SUFFICES ASSUME RelayInv, UncertainRowPausesThread, [Next]_vars, up',
                    NEW r \in Row, ledger'[r] = "needs_review"
             PROVE  Key(r) \in review'
  BY DEF UncertainRowPausesThread, Key
<1>1. TypeOK /\ QueuesAreOwn /\ ledger \in [Row -> RowStatus]
  BY DEF RelayInv, LedgerInv, TurnInv, TypeOK, LedgerType
<1>2. CASE Restart
  BY <1>2 DEF Restart, ReviewThreads
<1>3. CASE FinishNotice(r)
  BY <1>1, <1>3 DEF FinishNotice
<1>4. ASSUME ~Restart, ~FinishNotice(r) PROVE Key(r) \in review'
  <2>1. ledger[r] = "needs_review"
    <3>1. ~MainBegins(r)
      BY <1>1 DEF MainBegins
    <3>2. ~JobMoves(r)
      BY <1>1 DEF JobMoves, JobStarts, JobAckFails, JobEnds
    <3>3. ~FinishMain(r)
      BY <1>1 DEF FinishMain, StatusAfterAdd
    <3>4. QED
      BY <1>1, <1>4, <3>1, <3>2, <3>3, RowMoves DEF MainEnds, Rests
  <2>2. up
    BY <1>4, UpChanges DEF Crash, Stays
  <2>3. Key(r) \in review
    BY <2>1, <2>2 DEF UncertainRowPausesThread
  <2>4. ASSUME NEW k \in Thread, QueueResume(k) PROVE Key(r) \in review'
    BY <2>1, <2>3, <2>4 DEF QueueResume
  <2>5. ASSUME NEW x \in Row, FinishNotice(x) PROVE Key(r) \in review'
    BY <2>3, <2>5 DEF FinishNotice
  <2>6. ~Crash
    BY DEF Crash
  <2>7. QED
    BY <1>4, <2>3, <2>4, <2>5, <2>6, ReviewChanges
<1>5. QED
  BY <1>2, <1>3, <1>4

\* As long as the outcome of a turn is unknown its conversation is paused, after
\* a restart (_restore_durable_queue), after a notice that could not be sent
\* (_run_direct_turn) and until /queue resume.
THEOREM UncertaintyPauses == Spec => []UncertainRowPausesThread
<1>1. RelayInv /\ UncertainRowPausesThread /\ [Next]_vars
        => RelayInv' /\ UncertainRowPausesThread'
  BY StepRelayInv, StepUncertain
<1>2. Init => RelayInv /\ UncertainRowPausesThread
  BY InitRelayInv DEF Init, UncertainRowPausesThread
<1>3. QED
  BY <1>1, <1>2, PTL DEF Spec

-----------------------------------------------------------------------------
(* A running row has one owner. *)

\* The message of a job's row names its task, and the task has one job.
LEMMA OneJobPerRow ==
  ASSUME RelayInv, NEW i \in jobs, NEW j \in jobs, i.turn.row = j.turn.row
  PROVE  i = j
<1>1. SessionType /\ SlotInv /\ JobsRouted
  BY DEF RelayInv, LedgerInv, TypeOK, RouteInv
<1> DEFINE r == i.turn.row
<1>2. /\ r \in Row /\ i.turn.task \in Task /\ j.turn.task \in Task
      /\ Names(r, i.turn.task) /\ Names(r, j.turn.task)
  BY <1>1, JobTypes DEF JobsRouted
<1>3. i.turn.task = j.turn.task
  <2>1. CASE KindOf(r) = "new_task"
    <3>1. OccupiesParent(i.turn) /\ OccupiesParent(j.turn)
      BY <2>1 DEF OccupiesParent
    <3>2. QED
      BY <1>1, <3>1 DEF SlotInv
  <2>2. CASE KindOf(r) # "new_task"
    <3>1. BoundTask(r[1], i.turn.task) /\ BoundTask(r[1], j.turn.task)
      BY <1>2, <2>2, NamedTask DEF Names
    <3>2. PICK a \in Task, b \in Task : a = i.turn.task /\ b = j.turn.task
      BY <1>2
    <3>3. a[1] = b[1] /\ a[2] <= b[2] /\ b[2] <= a[2]
      BY <3>1, <3>2 DEF BoundTask
    <3>4. a[2] \in Nat /\ b[2] \in Nat /\ a = <<a[1], a[2]>> /\ b = <<b[1], b[2]>>
      BY TaskParts
    <3>5. a[2] = b[2]
      BY <3>3, <3>4
    <3>6. QED
      BY <3>2, <3>3, <3>4, <3>5
  <2>3. QED
    BY <2>1, <2>2
<1>4. QED
  BY <1>1, <1>3 DEF SlotInv, SingleWorkerPerTask

\* A job's row is not a main turn's.
LEMMA JobRowIsNoMain ==
  ASSUME RelayInv, NEW j \in jobs
  PROVE  j.turn.row \in Row /\ ~IsMainRow(j.turn.row) /\ mainRun[j.turn.row] = "idle"
<1>1. SessionType /\ JobsRouted /\ MainsRouted
  BY DEF RelayInv, LedgerInv, TypeOK, RouteInv
<1>2. j.turn.row \in Row /\ ~IsMainRow(j.turn.row)
  BY <1>1, JobTypes, NamedTask DEF JobsRouted
<1>3. QED
  BY <1>1, <1>2 DEF MainsRouted

\* The part of InFlight that is a job.
RunsJob(r) == \E j \in jobs : j.stage = "run" /\ j.turn.row = r

LEMMA MainFlight ==
  ASSUME RelayInv, [Next]_vars, ~Crash, NEW r \in Row, ~MainBegins(r), ~MainEnds(r)
  PROVE  mainRun'[r] # "idle" <=> mainRun[r] # "idle"
<1>1. TypeOK /\ QueuesAreOwn /\ ThreadType
  BY DEF RelayInv, LedgerInv, TurnInv, TypeOK
<1>2. ASSUME NEW x \in Row, MainBegins(x) PROVE mainRun'[r] = mainRun[r]
  <2>1. x # r
    BY <1>2
  <2>2. QED
    BY <1>1, <1>2, <2>1 DEF MainBegins, ThreadType
<1>3. ASSUME NEW x \in Row, MainEnds(x) PROVE mainRun'[r] = mainRun[r]
  <2>1. x # r
    BY <1>3
  <2>2. mainRun' = [mainRun EXCEPT ![x] = "idle"]
    BY <1>3 DEF MainEnds, FinishMain, FinishNotice, ReleaseParent
  <2>3. QED
    BY <1>1, <2>1, <2>2 DEF ThreadType
<1>4. ASSUME NEW x \in Row, CliEnds(x) PROVE mainRun'[r] # "idle" <=> mainRun[r] # "idle"
  BY <1>1, <1>4 DEF CliEnds, ThreadType
<1>5. ASSUME NEW m \in Msg, OnMessage(m) PROVE mainRun'[r] = mainRun[r]
  BY <1>1, <1>2, <1>5, OnMessageRow, OwnRow
<1>6. ASSUME NEW k \in Thread, DrainThread(k) PROVE mainRun'[r] = mainRun[r]
  BY <1>1, <1>2, <1>6, DrainThreadRow
<1>7. QED
  BY <1>3, <1>4, <1>5, <1>6, MainChanges DEF MainEnds

LEMMA JobFlight ==
  ASSUME RelayInv, [Next]_vars, ~Crash, NEW r \in Row, ~JobMoves(r)
  PROVE  RunsJob(r)' <=> RunsJob(r)
<1>1. TypeOK /\ QueuesAreOwn /\ TaskIdInv /\ RouteInv /\ SlotInv /\ NamesKept
  BY StepNames DEF RelayInv, LedgerInv, TurnInv
<1>2. CASE UNCHANGED jobs
  BY <1>2 DEF RunsJob
<1>3. ASSUME NEW t \in TaskTurn, Opens(t) PROVE RunsJob(r)' <=> RunsJob(r)
  <2>1. \E via : jobs' = jobs \cup {[turn |-> t, stage |-> "ack", via |-> via]}
    BY <1>3 DEF Opens, Begins, BeginJob
  <2>2. QED
    BY <2>1 DEF RunsJob
<1>4. ASSUME NEW j \in jobs, j.turn.row # r,
             jobs' = jobs \ {j} \/ JobStarts(j)
      PROVE  RunsJob(r)' <=> RunsJob(r)
  BY <1>4 DEF JobStarts, RunsJob
<1>5. ASSUME NEW j \in jobs, JobRefused(j) PROVE RunsJob(r)' <=> RunsJob(r)
  BY <1>5 DEF JobRefused, RunsJob
<1>6. ASSUME NEW j \in jobs, JobStarts(j) \/ JobAckFails(j) \/ JobEnds(j)
      PROVE  RunsJob(r)' <=> RunsJob(r)
  <2>1. j.turn.row # r
    BY <1>6 DEF JobMoves
  <2>2. QED
    BY <1>4, <1>6, <2>1 DEF JobAckFails, JobEnds
<1>7. ASSUME UNCHANGED <<jobs, running, activeJob>> \/ \E t \in TaskTurn : Opens(t)
      PROVE  RunsJob(r)' <=> RunsJob(r)
  BY <1>2, <1>3, <1>7
<1>8. QED
  BY <1>1, <1>2, <1>5, <1>6, <1>7, JobChanges, CmdTaskNewOpens, ResumeTaskOpens,
     DrainThreadOpens, DrainTaskOpens

LEMMA StepOwned ==
  RelayInv /\ RunningIsOwned /\ [Next]_vars => RunningIsOwned'
<1> SUFFICES ASSUME RelayInv, RunningIsOwned, [Next]_vars, up', NEW r \in Row
             PROVE  (ledger'[r] = "running") <=> (mainRun'[r] # "idle" \/ RunsJob(r)')
  BY DEF RunningIsOwned, InFlight, RunsJob
<1>1. /\ TypeOK /\ QueuesAreOwn /\ Asleep /\ ThreadType /\ SessionType
      /\ ledger \in [Row -> RowStatus]
  BY DEF RelayInv, LedgerInv, TurnInv, TypeOK, LedgerType
<1>2. CASE Restart
  <2>1. mainRun'[r] = "idle" /\ jobs' = {}
    BY <1>1, <1>2 DEF Restart, Asleep
  <2>2. ledger'[r] # "running"
    BY <1>2 DEF Restart, AfterRestart
  <2>3. QED
    BY <2>1, <2>2 DEF RunsJob
<1>3. ASSUME ~Restart
      PROVE  ~Crash /\ ((ledger[r] = "running") <=> (mainRun[r] # "idle" \/ RunsJob(r)))
  <2>1. ~Crash
    BY DEF Crash
  <2>2. up
    BY <1>3, <2>1, UpChanges DEF Stays
  <2>3. QED
    BY <2>1, <2>2 DEF RunningIsOwned, InFlight, RunsJob
<1>4. CASE MainBegins(r)
  BY <1>1, <1>4 DEF MainBegins, ThreadType
<1>5. CASE MainEnds(r)
  <2>1. ledger'[r] # "running" /\ mainRun'[r] = "idle" /\ UNCHANGED jobs
    BY <1>1, <1>5 DEF MainEnds, FinishMain, FinishNotice, ReleaseParent, ThreadType
  <2>2. mainRun[r] # "idle"
    BY <1>5 DEF MainEnds, FinishMain, FinishNotice
  <2>3. ~RunsJob(r)
    BY <2>2, JobRowIsNoMain DEF RunsJob
  <2>4. QED
    BY <2>1, <2>3 DEF RunsJob
<1>6. ASSUME NEW j \in jobs, j.turn.row = r, JobStarts(j)
      PROVE  ledger'[r] = "running" /\ RunsJob(r)'
  <2>1. ledger'[r] = "running"
    BY <1>1, <1>6 DEF JobStarts
  <2>2. \E n \in jobs' : n.turn = j.turn /\ n.stage = "run"
    <3> DEFINE n == [turn |-> j.turn, stage |-> "run", via |-> "handler"]
    <3>1. jobs' = (jobs \ {j}) \cup {n}
      BY <1>6 DEF JobStarts
    <3>2. n.turn = j.turn /\ n.stage = "run"
      OBVIOUS
    <3> HIDE DEF n
    <3>3. QED
      BY <3>1, <3>2
  <2>3. QED
    BY <1>6, <2>1, <2>2 DEF RunsJob
<1>7. ASSUME NEW j \in jobs, j.turn.row = r, JobAckFails(j) \/ JobEnds(j)
      PROVE  ledger'[r] # "running" /\ mainRun'[r] = "idle" /\ ~RunsJob(r)'
  <2>1. ledger'[r] # "running" /\ jobs' = jobs \ {j} /\ UNCHANGED mainRun
    BY <1>1, <1>7 DEF JobAckFails, JobEnds
  <2>2. mainRun[r] = "idle"
    BY <1>7, JobRowIsNoMain
  <2>3. \A i \in jobs' : i.turn.row # r
    BY <1>7, <2>1, OneJobPerRow
  <2>4. QED
    BY <2>1, <2>2, <2>3 DEF RunsJob
<1>8. CASE JobMoves(r)
  BY <1>6, <1>7, <1>8 DEF JobMoves
<1>9. ASSUME ~MainBegins(r), ~MainEnds(r), ~JobMoves(r), ~Restart
      PROVE  (ledger'[r] = "running") <=> (mainRun'[r] # "idle" \/ RunsJob(r)')
  <2>1. (ledger'[r] = "running") <=> (ledger[r] = "running")
    BY <1>1, <1>9, RowMoves DEF Rests
  <2>2. mainRun'[r] # "idle" <=> mainRun[r] # "idle"
    BY <1>3, <1>9, MainFlight
  <2>3. RunsJob(r)' <=> RunsJob(r)
    BY <1>3, <1>9, JobFlight
  <2>4. QED
    BY <1>3, <1>9, <2>1, <2>2, <2>3
<1>10. QED
  BY <1>2, <1>4, <1>5, <1>8, <1>9

\* While the process is up, the ledger says running for exactly the turns that
\* some coroutine is executing: no turn is forgotten by the ledger, none goes on
\* after it was recorded as ended (relay_turn, _run_background_job).
THEOREM RunningHasAnOwner == Spec => []RunningIsOwned
<1>1. RelayInv /\ RunningIsOwned /\ [Next]_vars => RelayInv' /\ RunningIsOwned'
  BY StepRelayInv, StepOwned
<1>2. Init => RelayInv /\ RunningIsOwned
  BY InitRelayInv DEF Init, RunningIsOwned, InFlight
<1>3. QED
  BY <1>1, <1>2, PTL DEF Spec

-----------------------------------------------------------------------------
(* A queued request is held. *)

WaitsIn(r) == \E k \in Thread : \E t \in Waiting(pending[k]) : t.row = r
StartsJob(r) == \E j \in jobs : j.stage = "ack" /\ j.turn.row = r

LEMMA HeldWhere ==
  ASSUME RouteInv, NEW r \in Row, KindOf(r) # "followup"
  PROVE  Held(r) <=> WaitsIn(r) \/ StartsJob(r)
<1>1. ASSUME NEW T \in Task, NEW i \in DOMAIN followups[T] PROVE followups[T][i].row # r
  <2>1. followups[T][i] \in Waiting(followups[T])
    BY DEF Waiting
  <2>2. KindOf(followups[T][i].row) = "followup"
    BY <2>1 DEF RouteInv, FollowupsRouted, FollowupOf
  <2>3. QED
    BY <2>2
<1>2. QED
  BY <1>1 DEF Held, WaitsIn, StartsJob, Waiting

LEMMA BegunStartsJob ==
  ASSUME NEW t, Begins(t)
  PROVE  StartsJob(t.row)'
<1>1. PICK via \in {"handler", "drain"} : BeginJob(t, via)
  BY DEF Begins
<1> DEFINE n == [turn |-> t, stage |-> "ack", via |-> via]
<1>2. jobs' = jobs \cup {n} /\ n.turn = t /\ n.stage = "ack"
  BY <1>1 DEF BeginJob
<1> HIDE DEF n
<1>3. QED
  BY <1>2 DEF StartsJob

\* A turn put into a queue waits there.
LEMMA PutWaits ==
  ASSUME QueueType, NEW t \in Turn, Appends(t) \/ Fronts(t)
  PROVE  /\ WaitsIn(t.row)'
         /\ \A r \in Row : WaitsIn(r) => WaitsIn(r)'
<1> DEFINE k == Key(t.row)
<1>1. k \in Thread /\ pending[k] \in Seq(Turn)
  BY TurnTypes, KeyType DEF QueueType
<1>2. PICK q : /\ pending' = [pending EXCEPT ![k] = q]
               /\ Waiting(q) = Waiting(pending[k]) \cup {t}
  <2>1. CASE Appends(t)
    <3>1. pending' = [pending EXCEPT ![k] = Append(pending[k], t)]
      BY <2>1, EnqueuedQueue DEF Appends
    <3>2. Waiting(Append(pending[k], t)) = Waiting(pending[k]) \cup {t}
      BY <1>1, WaitingAppend
    <3>3. QED
      BY <3>1, <3>2
  <2>2. CASE Fronts(t)
    <3>1. pending' = [pending EXCEPT ![k] = InFront(t, pending[k])]
      BY <2>2 DEF Fronts
    <3>2. Waiting(InFront(t, pending[k])) = Waiting(pending[k]) \cup {t}
      BY <1>1, WaitingInFront
    <3>3. QED
      BY <3>1, <3>2
  <2>3. QED
    BY <2>1, <2>2
<1> HIDE DEF k
<1>3. t \in Waiting(pending'[k])
  BY <1>1, <1>2 DEF QueueType
<1>4. \A a \in Thread : Waiting(pending[a]) \subseteq Waiting(pending'[a])
  BY <1>1, <1>2 DEF QueueType
<1>5. QED
  BY <1>1, <1>3, <1>4 DEF WaitsIn

\* Only the turn that is taken leaves its queue.
LEMMA TakenLeaves ==
  ASSUME QueueType, NEW k \in Thread, Takes(k), NEW r \in Row, WaitsIn(r)
  PROVE  WaitsIn(r)' \/ pending[k][NextIndex(k)].row = r
<1>1. /\ NextIndex(k) \in 1..Len(pending[k]) /\ pending[k] \in Seq(Turn)
  BY TakenWaits DEF Takes
<1>2. PICK a \in Thread : \E x \in Waiting(pending[a]) : x.row = r
  BY DEF WaitsIn
<1> PICK t \in Waiting(pending[a]) : t.row = r
  BY <1>2
<1>3. CASE a = k
  <2>1. pending'[k] = RemoveAt(pending[k], NextIndex(k))
    BY DEF Takes, QueueType
  <2>2. t \in Waiting(pending'[k]) \/ t = pending[k][NextIndex(k)]
    BY <1>1, <1>3, <2>1, WaitingRemove
  <2>3. QED
    BY <2>2 DEF WaitsIn
<1>4. CASE a # k
  <2>1. pending'[a] = pending[a]
    BY <1>4 DEF Takes, QueueType
  <2>2. QED
    BY <2>1 DEF WaitsIn
<1>5. QED
  BY <1>3, <1>4

LEMMA WaitingGoesOn ==
  ASSUME RelayInv, [Next]_vars, ~Crash, ~Restart, NEW r \in Row, WaitsIn(r)
  PROVE  WaitsIn(r)' \/ \E k \in Thread : Takes(k) /\ pending[k][NextIndex(k)].row = r
<1>1. QueueType
  BY DEF RelayInv, LedgerInv, TypeOK
<1>2. CASE UNCHANGED pending
  BY <1>2 DEF WaitsIn
<1>3. QED
  BY <1>1, <1>2, PutWaits, TakenLeaves, PendingStep

LEMMA StartingGoesOn ==
  ASSUME RelayInv, [Next]_vars, ~Crash, NEW r \in Row, StartsJob(r)
  PROVE  \/ StartsJob(r)'
         \/ JobMoves(r)
         \/ \E j \in jobs : j.turn.row = r /\ JobRefused(j)
<1>1. PICK i \in jobs : i.stage = "ack" /\ i.turn.row = r
  BY DEF StartsJob
<1>2. i \in jobs' => StartsJob(r)'
  BY <1>1 DEF StartsJob
<1>3. ASSUME i \notin jobs'
      PROVE  JobMoves(r) \/ \E j \in jobs : j.turn.row = r /\ JobRefused(j)
  <2>1. CASE \E m \in Msg : CmdTaskNew(m)
    BY <1>3, <2>1 DEF CmdTaskNew, BeginJob
  <2>2. CASE \E m \in Msg, T \in Task : ResumeTask(m, T)
    BY <1>3, <2>2 DEF ResumeTask, BeginJob
  <2>3. CASE \E k \in Thread : DrainThread(k)
    BY <1>3, <2>3 DEF DrainThread, BeginJob
  <2>4. CASE \E T \in Task : DrainTask(T)
    BY <1>3, <2>4 DEF DrainTask, BeginJob
  <2>5. ASSUME NEW j \in jobs, JobStarts(j) \/ JobAckFails(j) \/ JobEnds(j)
        PROVE  JobMoves(r)
    <3>1. j = i
      BY <1>3, <2>5 DEF JobStarts, JobAckFails, JobEnds
    <3>2. QED
      BY <1>1, <2>5, <3>1 DEF JobMoves
  <2>6. ASSUME NEW j \in jobs, JobRefused(j) PROVE j = i
    BY <1>3, <2>6 DEF JobRefused
  <2>7. QED
    BY <1>1, <1>3, <2>1, <2>2, <2>3, <2>4, <2>5, <2>6, JobChanges
<1>4. QED
  BY <1>2, <1>3

\* A row that becomes queued is put into a queue or begins as a job.
LEMMA NewRowIsPut ==
  ASSUME RelayInv, [Next]_vars, NEW r \in Row, KindOf(r) # "followup",
         ledger[r] = "none", ledger'[r] = "queued"
  PROVE  \/ \E t \in Turn : t.row = r /\ (Appends(t) \/ Fronts(t))
         \/ ~IsMainRow(r) /\ \E t : t.row = r /\ Begins(t)
<1>1. /\ TypeOK /\ LedgerType /\ QueueType /\ QueuesAreOwn /\ RouteInv
      /\ ledger \in [Row -> RowStatus]
  BY DEF RelayInv, LedgerInv, TurnInv, TypeOK, LedgerType
<1>2. ASSUME NEW x \in Row, NEW status, ledger' = [ledger EXCEPT ![x] = status]
      PROVE  r = x /\ status = "queued"
  BY <1>1, <1>2
<1>3. ASSUME NEW m \in Msg, OnMessage(m)
      PROVE  \E t \in Turn : t.row = r /\ Appends(t)
  <2> DEFINE t == OwnTurn(m, NoTask)
             x == <<m, "own">>
  <2>1. x \in Row /\ t.row = x /\ Class[m] = "plain"
    BY <1>3, OwnRow DEF OnMessage, Deliver
  <2> HIDE DEF t, x
  <2>2. CASE EnqueueMain(t)
    <3>1. t \in Turn /\ Appends(t)
      BY <2>1, <2>2, MessageAppends DEF t
    <3>2. r = x
      BY <1>2, <2>1, <2>2 DEF EnqueueMain
    <3>3. QED
      BY <2>1, <3>1, <3>2
  <2>3. ~BeginMain(x, StatusAfterAdd(x))
    BY <1>1, <2>1 DEF BeginMain, MayStart, StatusAfterAdd
  <2>4. QED
    BY <1>3, <2>1, <2>2, <2>3 DEF OnMessage, t, persistent
<1>4. ASSUME NEW m \in Msg, CmdForce(m)
      PROVE  \E t \in Turn : t.row = r /\ Fronts(t)
  <2>1. ThreadOf[m] \in active
    BY <1>4 DEF CmdForce, persistent
  <2>2. OwnTurn(m, NoTask) \in Turn /\ Fronts(OwnTurn(m, NoTask))
    BY <1>1, <1>4, <2>1, ForceFronts
  <2>3. OwnTurn(m, NoTask).row = r
    BY <2>2 DEF Fronts
  <2>4. QED
    BY <2>2, <2>3
<1>5. ASSUME NEW m \in Msg, CmdTaskNew(m)
      PROVE  \/ \E t \in Turn : t.row = r /\ Appends(t)
             \/ ~IsMainRow(r) /\ \E t : t.row = r /\ Begins(t)
  <2>1. PICK t : t = OwnTurn(m, <<m, crashes>>)
    OBVIOUS
  <2>2. t.row \in Row /\ ~IsMainRow(t.row)
    BY <1>5, <2>1, OwnRow DEF CmdTaskNew, Deliver
  <2>3. EnqueueMain(t) \/ BeginJob(t, "handler")
    BY <1>5, <2>1 DEF CmdTaskNew, persistent
  <2>4. r = t.row
    BY <1>2, <2>2, <2>3 DEF EnqueueMain, BeginJob
  <2>5. EnqueueMain(t) => t \in Turn /\ Appends(t)
    BY <1>1, <1>5, <2>1, NewTaskAppends DEF RelayInv, TypeOK
  <2>6. QED
    BY <2>2, <2>3, <2>4, <2>5 DEF Begins
<1>6. ASSUME NEW m \in Msg, NEW T \in Task, ResumeTask(m, T) PROVE FALSE
  <2>1. /\ <<m, "own">> \in Row /\ OwnTurn(m, T).row = <<m, "own">>
        /\ KindOf(<<m, "own">>) = "followup"
    BY <1>6, OwnRow DEF ResumeTask, Deliver
  <2>2. \E s : ledger' = [ledger EXCEPT ![<<m, "own">>] = s]
    BY <1>6, <2>1 DEF ResumeTask, EnqueueFollowup, BeginJob, persistent
  <2>3. QED
    BY <1>2, <2>1, <2>2
<1>7. ASSUME NEW k \in Thread, DrainThread(k)
      PROVE  ~IsMainRow(r) /\ \E t : t.row = r /\ Begins(t)
  <2> DEFINE t == pending[k][NextIndex(k)]
  <2>1. NextIndex(k) # 0
    BY <1>7 DEF DrainThread, persistent
  <2>2. t.row \in Row
    BY <1>1, <2>1, TakenWaits, TurnTypes
  <2>3. ~BeginMain(t.row, ledger[t.row])
    BY <1>1, <2>2 DEF BeginMain, MayStart
  <2>4. CASE BeginJob(t, "drain")
    <3>1. r = t.row
      BY <1>2, <2>2, <2>4 DEF BeginJob
    <3>2. ~MainTurn(t)
      BY <1>1, <1>7, <2>1, <2>3 DEF DrainThread
    <3>3. t.task \in Task /\ Names(t.row, t.task)
      BY <1>1, <2>1, <3>2, TakenWaits, TurnTypes DEF RouteInv, PendingRouted, ParentTurn
    <3>4. ~IsMainRow(r)
      BY <3>1, <3>3, NamedTask
    <3>5. QED
      BY <2>4, <3>1, <3>4 DEF Begins
  <2>5. QED
    BY <1>7, <2>1, <2>3, <2>4 DEF DrainThread
<1>8. ASSUME NEW x \in Row, FinishMain(x)
      PROVE  \E t \in Turn : t.row = r /\ Fronts(t)
  <2>1. NeedsRecovery(x)
    BY <1>1, <1>8 DEF FinishMain
  <2>2. PICK t \in Turn : Fronts(t)
    BY <1>1, <1>8, <2>1, RecoveryFronts DEF RelayInv, TurnInv
  <2>3. t.row = r
    BY <2>2 DEF Fronts
  <2>4. QED
    BY <2>2, <2>3
<1>9. ASSUME NEW T \in Task, DrainTask(T) PROVE FALSE
  <2> DEFINE t == followups[T][1]
  <2>1. followups[T] # <<>> /\ BeginJob(t, "drain")
    BY <1>9 DEF DrainTask, FollowupMayStart, persistent
  <2>2. t.row \in Row /\ KindOf(t.row) = "followup"
    BY <1>1, <2>1, FirstWaits, TurnTypes DEF RouteInv, FollowupsRouted, FollowupOf
  <2> HIDE DEF t
  <2>3. QED
    BY <1>2, <2>1, <2>2 DEF BeginJob
<1>10. ASSUME NEW k \in Thread, QueueResume(k) PROVE FALSE
  BY <1>10 DEF QueueResume
<1>11. ASSUME NEW x \in Row, FinishNotice(x) PROVE FALSE
  BY <1>1, <1>11 DEF FinishNotice
<1>12. ASSUME NEW j \in jobs, JobStarts(j) \/ JobAckFails(j) \/ JobEnds(j) PROVE FALSE
  BY <1>1, <1>12 DEF JobStarts, JobAckFails, JobEnds
<1>13. CASE Restart
  BY <1>13 DEF Restart, AfterRestart
<1>14. CASE \/ \E k \in Thread : CmdStop(k)
            \/ \E t \in acking : AckEnqueued(t)
            \/ \E x \in Row : CliEnds(x)
            \/ \E j \in jobs : JobRefused(j)
            \/ Crash \/ UNCHANGED vars
  BY <1>14 DEF CmdStop, AckEnqueued, CliEnds, JobRefused, Crash, vars, persistent
<1>15. QED
  BY <1>3, <1>4, <1>5, <1>6, <1>7, <1>8, <1>9, <1>10, <1>11, <1>12, <1>13, <1>14 DEF Next

LEMMA StepHeld ==
  RelayInv /\ QueuedMainIsHeld /\ [Next]_vars => QueuedMainIsHeld'
<1> SUFFICES ASSUME RelayInv, QueuedMainIsHeld, [Next]_vars, up',
                    NEW r \in Row, KindOf(r) # "followup", ledger'[r] = "queued"
             PROVE  WaitsIn(r)' \/ StartsJob(r)'
  BY DEF QueuedMainIsHeld, Held, WaitsIn, StartsJob, Waiting, KindOf, IsRecovery
<1>1. /\ TypeOK /\ LedgerType /\ QueueType /\ QueuesAreOwn /\ RouteInv /\ IdInv
      /\ ledger \in [Row -> RowStatus]
  BY DEF RelayInv, LedgerInv, TurnInv, TypeOK, LedgerType
<1>2. CASE Restart
  <2> DEFINE k == Key(r)
             S == {x \in Row : ledger[x] = "queued" /\ Key(x) = k /\ KindOf(x) # "followup"}
  <2>1. pending'[k] = LoadQueued(S) /\ k \in Thread
    <3>1. {x \in {y \in Row : ledger[y] = "queued"} : Key(x) = k /\ KindOf(x) # "followup"} = S
      OBVIOUS
    <3>2. QED
      BY <1>2, <3>1, KeyType DEF Restart
  <2>2. r \in S /\ S \in SUBSET Row
    BY <1>2 DEF Restart, AfterRestart
  <2>3. IdsDiffer(S)
    BY <1>1 DEF IdInv, IdsDiffer, Inserted
  <2> HIDE DEF S, k
  <2>4. [row |-> r, task |-> rowTask[r]] \in Waiting(pending'[k])
    BY <1>1, <2>1, <2>2, <2>3, WaitingLoaded
  <2>5. QED
    BY <2>1, <2>4 DEF WaitsIn
<1>3. ASSUME ~Restart, ledger[r] = "none" PROVE WaitsIn(r)' \/ StartsJob(r)'
  BY <1>1, <1>3, NewRowIsPut, PutWaits, BegunStartsJob
<1>4. ASSUME ~Restart, ledger[r] # "none" PROVE ~Crash /\ ledger[r] = "queued" /\ Held(r)
  <2>1. ~Crash
    BY DEF Crash
  <2>2. ledger[r] = "queued"
    <3>1. ~MainBegins(r) /\ ~MainEnds(r) /\ ~JobMoves(r)
      BY <1>1 DEF MainBegins, MainEnds, FinishMain, FinishNotice, JobMoves, JobStarts,
                  JobAckFails, JobEnds, StatusAfterAdd
    <3>2. QED
      BY <1>1, <1>4, <3>1, RowMoves DEF Rests
  <2>3. up
    BY <1>4, <2>1, UpChanges DEF Stays
  <2>4. QED
    BY <2>1, <2>2, <2>3 DEF QueuedMainIsHeld
<1>5. ASSUME ~Restart, ~Crash, ledger[r] = "queued", WaitsIn(r)
      PROVE  WaitsIn(r)' \/ StartsJob(r)'
  <2>1. ASSUME NEW k \in Thread, Takes(k), pending[k][NextIndex(k)].row = r
        PROVE  StartsJob(r)'
    <3> DEFINE t == pending[k][NextIndex(k)]
    <3>1. BeginMain(r, ledger[r]) \/ BeginJob(t, "drain")
      BY <2>1 DEF Takes, DrainThread
    <3>2. ~BeginMain(r, ledger[r])
      BY <1>1, <1>5 DEF BeginMain, MayStart
    <3> HIDE DEF t
    <3>3. Begins(t)
      BY <3>1, <3>2 DEF Begins
    <3>4. QED
      BY <2>1, <3>3, BegunStartsJob DEF t
  <2>2. QED
    BY <1>5, <2>1, WaitingGoesOn
<1>6. ASSUME ~Restart, ~Crash, ledger[r] = "queued", StartsJob(r)
      PROVE  StartsJob(r)'
  <2>1. ~JobMoves(r)
    BY <1>1 DEF JobMoves, JobStarts, JobAckFails, JobEnds
  <2>2. ASSUME NEW j \in jobs, j.turn.row = r, JobRefused(j) PROVE FALSE
    BY <1>6, <2>2 DEF JobRefused, MayStart
  <2>3. QED
    BY <1>6, <2>1, <2>2, StartingGoesOn
<1>7. QED
  BY <1>1, <1>2, <1>3, <1>4, <1>5, <1>6, HeldWhere

\* A queued main turn or first request is in a queue or in a starting job of the
\* running process, after a restart too: none is left for the next restart.
THEOREM QueuedRequestIsHeld == Spec => []QueuedMainIsHeld
<1>1. RelayInv /\ QueuedMainIsHeld /\ [Next]_vars => RelayInv' /\ QueuedMainIsHeld'
  BY StepRelayInv, StepHeld
<1>2. Init => RelayInv /\ QueuedMainIsHeld
  BY InitRelayInv DEF Init, QueuedMainIsHeld
<1>3. QED
  BY <1>1, <1>2, PTL DEF Spec

\* An interrupted turn gets no recovery, however it ends: only the finally block
\* of a timed-out turn makes one, and only of a thread without a latched /stop or
\* /force (_run_direct_turn, process_control.interrupt).
THEOREM NoRecoveryAfterStop == Spec => StoppedTurnIsNotRecovered
<1>1. RelayInv /\ [Next]_vars
        => [\A r, s \in Row :
              IsRecovery(s) /\ Key(r) = Key(s) /\ ledger[s] = "none" /\ ledger'[s] = "queued"
              => Key(s) \notin latch]_vars
  <2> SUFFICES ASSUME RelayInv, [Next]_vars, NEW s \in Row, IsRecovery(s),
                      ledger[s] = "none", ledger'[s] = "queued"
               PROVE  Key(s) \notin latch
    OBVIOUS
  <2>1. KindOf(s) = "timeout_recovery" /\ IsMainRow(s)
    BY DEF KindOf, IsMainRow
  <2>2. PICK t \in Turn : t.row = s /\ (Appends(t) \/ Fronts(t))
    BY <2>1, NewRowIsPut
  <2>3. QED
    BY <2>1, <2>2 DEF Appends, Fronts
<1>2. QED
  BY InitRelayInv, StepRelayInv, <1>1, PTL DEF Spec, StoppedTurnIsNotRecovered

-----------------------------------------------------------------------------
(* Where a turn waits. *)

\* Every waiting turn has its row in the ledger.
QueuedInserted == \A k \in Thread : \A t \in Waiting(pending[k]) : Inserted(t.row)

\* What becomes of one thread's queue.
LEMMA QueueStep ==
  ASSUME RelayInv, [Next]_vars, ~Crash, ~Restart, NEW k \in Thread
  PROVE  \/ pending'[k] = pending[k]
         \/ \E t \in Turn : /\ Appends(t) /\ Key(t.row) = k
                            /\ pending'[k] = Append(pending[k], t)
         \/ \E t \in Turn : /\ Fronts(t) /\ Key(t.row) = k
                            /\ pending'[k] = InFront(t, pending[k])
         \/ Takes(k) /\ pending'[k] = RemoveAt(pending[k], NextIndex(k))
<1>1. pending \in [Thread -> Seq(Turn)]
  BY DEF RelayInv, LedgerInv, TypeOK, QueueType
<1>2. ASSUME NEW t \in Turn, Appends(t)
      PROVE  \/ pending'[k] = pending[k]
             \/ Key(t.row) = k /\ pending'[k] = Append(pending[k], t)
  BY <1>1, <1>2, EnqueuedQueue DEF Appends
<1>3. ASSUME NEW t \in Turn, Fronts(t)
      PROVE  \/ pending'[k] = pending[k]
             \/ Key(t.row) = k /\ pending'[k] = InFront(t, pending[k])
  BY <1>1, <1>3 DEF Fronts
<1>4. ASSUME NEW a \in Thread, Takes(a)
      PROVE  \/ pending'[k] = pending[k]
             \/ Takes(k) /\ pending'[k] = RemoveAt(pending[k], NextIndex(k))
  BY <1>1, <1>4 DEF Takes
<1>5. QED
  BY <1>2, <1>3, <1>4, PendingStep

LEMMA PutInserts ==
  ASSUME LedgerType, NEW t \in Turn, Appends(t) \/ Fronts(t)
  PROVE  Inserted(t.row)'
<1>1. t.row \in Row
  BY TurnTypes
<1>2. ledger'[t.row] = StatusAfterAdd(t.row)
  BY <1>1 DEF Appends, EnqueueMain, Fronts, LedgerType
<1>3. QED
  BY <1>2 DEF Inserted, StatusAfterAdd

LEMMA StepQueuedInserted ==
  RelayInv /\ QueuedInserted /\ [Next]_vars => QueuedInserted'
<1> SUFFICES ASSUME RelayInv, QueuedInserted, [Next]_vars,
                    NEW k \in Thread, NEW t \in Waiting(pending'[k])
             PROVE  Inserted(t.row)'
  BY DEF QueuedInserted, Waiting
<1>1. TypeOK /\ LedgerType /\ QueueType /\ RunsInserted /\ IdInv /\ pending[k] \in Seq(Turn)
  BY DEF RelayInv, LedgerInv, TypeOK, QueueType
<1>2. LedgerStep
  BY <1>1, StepLedger
<1>3. ASSUME NEW x \in Waiting(pending[k]) PROVE Inserted(x.row)'
  <2>1. x.row \in Row /\ Inserted(x.row)
    BY <1>1, WaitingTyped, TurnTypes DEF QueuedInserted
  <2>2. QED
    BY <1>2, <2>1, InsertedStays
<1>4. CASE Crash
  BY <1>4, WaitingEmpty DEF Crash
<1>5. CASE Restart
  <2> DEFINE S == {x \in Row : ledger[x] = "queued" /\ Key(x) = k /\ KindOf(x) # "followup"}
  <2>1. pending'[k] = LoadQueued(S)
    <3>1. {x \in {y \in Row : ledger[y] = "queued"} : Key(x) = k /\ KindOf(x) # "followup"} = S
      OBVIOUS
    <3>2. QED
      BY <1>5, <3>1 DEF Restart
  <2>2. S \in SUBSET Row /\ IdsDiffer(S)
    BY <1>1 DEF IdInv, IdsDiffer, Inserted
  <2>3. \A x \in S : Inserted(x)
    BY DEF Inserted
  <2> HIDE DEF S
  <2>4. t.row \in S
    BY <1>1, <2>1, <2>2, WaitingLoaded
  <2>5. QED
    BY <1>2, <2>2, <2>3, <2>4, InsertedStays
<1>6. ASSUME NEW x \in Turn, Appends(x) \/ Fronts(x),
             Waiting(pending'[k]) = Waiting(pending[k]) \cup {x}
      PROVE  Inserted(t.row)'
  BY <1>1, <1>3, <1>6, PutInserts
<1>7. ASSUME Takes(k), pending'[k] = RemoveAt(pending[k], NextIndex(k))
      PROVE  Inserted(t.row)'
  <2>1. NextIndex(k) \in 1..Len(pending[k])
    BY <1>1, <1>7, TakenWaits DEF Takes
  <2>2. t \in Waiting(pending[k])
    BY <1>1, <1>7, <2>1, WaitingRemove
  <2>3. QED
    BY <1>3, <2>2
<1>8. \A x \in Turn : /\ Waiting(Append(pending[k], x)) = Waiting(pending[k]) \cup {x}
                      /\ Waiting(InFront(x, pending[k])) = Waiting(pending[k]) \cup {x}
  BY <1>1, WaitingAppend, WaitingInFront
<1>9. CASE pending'[k] = pending[k]
  BY <1>3, <1>9
<1>10. QED
  BY <1>4, <1>5, <1>6, <1>7, <1>8, <1>9, QueueStep

\* The id of a row in the ledger is final.
LEMMA IdsStay ==
  ASSUME RelayInv, [Next]_vars, NEW r \in Row, Inserted(r)
  PROVE  rowId'[r] = rowId[r]
<1>1. LedgerInv /\ TaskIdInv /\ RouteInv /\ NamesKept /\ rowId \in [Row -> Nat]
  BY StepNames DEF RelayInv, LedgerInv, TypeOK, LedgerType
<1>2. RowsSame \/ \E x \in Row, T \in Task \cup {NoTask} : RowAdds(x, T)
  BY <1>1, RowChange
<1>3. ASSUME NEW x \in Row, NEW T, AddRow(x, T) PROVE rowId'[r] = rowId[r]
  BY <1>1, <1>3 DEF AddRow, Inserted
<1>4. QED
  BY <1>2, <1>3 DEF RowsSame, RowAdds

\* A row inserted by this step has the last id.
LEMMA NewIdIsLast ==
  ASSUME RelayInv, [Next]_vars, NEW s \in Row, ledger[s] = "none", ledger'[s] # "none",
         NEW r \in Row, Inserted(r)'
  PROVE  rowId'[r] <= rowId'[s]
<1>1. /\ LedgerInv /\ TaskIdInv /\ RouteInv /\ NamesKept /\ IdInv
      /\ rowId \in [Row -> Nat] /\ nextId \in Nat
  BY StepNames DEF RelayInv, LedgerInv, TypeOK, LedgerType
<1>2. RowsSame \/ \E x \in Row, T \in Task \cup {NoTask} : RowAdds(x, T)
  BY <1>1, RowChange
<1>3. PICK x \in Row : \E T : AddRow(x, T) /\ \A y \in Row : y # x /\ ledger[y] = "none"
                                                         => ledger'[y] = "none"
  BY <1>2 DEF RowsSame, RowAdds
<1>4. s = x
  BY <1>3
<1>5. rowId'[s] = nextId /\ \A y \in Row : y # s => rowId'[y] = rowId[y]
  BY <1>1, <1>3, <1>4 DEF AddRow
<1>6. r # s => Inserted(r)
  BY <1>3, <1>4 DEF Inserted
<1>7. r # s => rowId[r] < nextId
  BY <1>1, <1>6 DEF IdInv
<1>8. QED
  BY <1>1, <1>5, <1>7

\* A waiting turn of a main row is a main turn.
LEMMA WaitingMain ==
  ASSUME RelayInv, NEW k \in Thread, NEW t \in Waiting(pending[k]), IsMainRow(t.row)
  PROVE  MainTurn(t)
<1>1. QueueType /\ PendingRouted
  BY DEF RelayInv, LedgerInv, TypeOK, RouteInv
<1>2. pending[k] \in Seq(Turn)
  BY <1>1 DEF QueueType
<1>3. t.row \in Row
  BY <1>2, WaitingTyped, TurnTypes
<1>4. Names(t.row, t.task)
  BY <1>1 DEF PendingRouted, ParentTurn
<1>5. QED
  BY <1>3, <1>4, KindsDiffer DEF Names, MainTurn

\* So a queued main row has a place in its thread's queue.
LEMMA HeldInPlace ==
  ASSUME RelayInv, QueuedMainIsHeld, up, NEW s \in Row, IsMainRow(s), ledger[s] = "queued"
  PROVE  \E i \in 1..Len(pending[Key(s)]) : /\ pending[Key(s)][i].row = s
                                            /\ MainTurn(pending[Key(s)][i])
<1>1. QueueType /\ RouteInv /\ QueuesAreOwn
  BY DEF RelayInv, LedgerInv, TypeOK, TurnInv
<1>2. KindOf(s) # "followup"
  BY KindsDiffer
<1>3. WaitsIn(s)
  <2>1. Held(s)
    BY <1>2 DEF QueuedMainIsHeld
  <2>2. ~StartsJob(s)
    BY JobRowIsNoMain DEF StartsJob
  <2>3. QED
    BY <1>1, <1>2, <2>1, <2>2, HeldWhere
<1>4. PICK k \in Thread : \E t \in Waiting(pending[k]) : t.row = s
  BY <1>3 DEF WaitsIn
<1>5. pending[k] \in Seq(TurnOf(k))
  BY <1>1 DEF QueuesAreOwn
<1>6. PICK i \in 1..Len(pending[k]) : pending[k][i].row = s
  BY <1>4, <1>5 DEF Waiting
<1>7. pending[k][i] \in TurnOf(k) /\ pending[k][i] \in Waiting(pending[k])
  BY <1>5, <1>6 DEF Waiting
<1>8. Key(s) = k
  BY <1>6, <1>7 DEF TurnOf
<1>9. MainTurn(pending[k][i])
  BY <1>6, <1>7, WaitingMain
<1>10. QED
  BY <1>6, <1>8, <1>9

\* The drain passes over no main turn.
LEMMA FirstMain ==
  ASSUME QueueType, NEW k \in Thread, NextIndex(k) # 0, MainTurn(pending[k][NextIndex(k)]),
         NEW j \in 1..Len(pending[k]), MainTurn(pending[k][j])
  PROVE  NextIndex(k) <= j
<1> DEFINE q == pending[k]
           mains == {n \in DOMAIN q : MainTurn(q[n])}
<1>1. mains \in SUBSET Nat /\ j \in mains /\ mains # {} /\ q # <<>>
  BY DEF QueueType
<1>2. \A n \in mains : (CHOOSE i \in mains : \A x \in mains : i <= x) <= n
  BY <1>1, LeastIndex
<1>3. NextIndex(k) = 1 \/ NextIndex(k) = CHOOSE i \in mains : \A x \in mains : i <= x
  BY <1>1 DEF NextIndex
<1> HIDE DEF mains
<1>4. QED
  BY <1>1, <1>2, <1>3

\* Only main turns start, from an awake process.
LEMMA StartIsBegin ==
  ASSUME RelayInv, [Next]_vars, NEW r \in Row, StartsMain(r)
  PROVE  MainBegins(r) /\ up
<1>1. Asleep
  BY DEF RelayInv
<1>2. ~Crash
  BY DEF Crash, StartsMain
<1>3. ~MainEnds(r)
  BY DEF MainEnds, FinishMain, FinishNotice, StartsMain
<1>4. MainBegins(r)
  BY <1>2, <1>3, MainFlight DEF StartsMain
<1>5. up
  BY <1>1, AwakeSteps DEF Restart, vars, StartsMain
<1>6. QED
  BY <1>4, <1>5

LEMMA ActiveIsAwake ==
  ASSUME RelayInv, NEW k \in active
  PROVE  up
<1>1. SingleMainTurn /\ Asleep /\ k \in Thread
  BY DEF RelayInv, TurnInv, TypeOK, ThreadType
<1>2. \E r \in Row : mainRun[r] # "idle"
  BY <1>1 DEF SingleMainTurn
<1>3. QED
  BY <1>1, <1>2 DEF Asleep

-----------------------------------------------------------------------------
(* A queued recovery is at the head of a free conversation. *)

QueuedRecovery(s) == IsRecovery(s) /\ ledger[s] = "queued"
AtHead(s) ==
  /\ Key(s) \notin active
  /\ pending[Key(s)] # <<>>
  /\ pending[Key(s)][1].row = s
RecoveryInv ==
  /\ \A r, s \in Row : QueuedRecovery(r) /\ QueuedRecovery(s) /\ Key(r) = Key(s) => r = s
  /\ up => \A s \in Row : QueuedRecovery(s) => AtHead(s)

\* The main turn that starts in its conversation is the recovery.
LEMMA HeadIsTaken ==
  ASSUME RelayInv, NEW s \in Row, IsRecovery(s), AtHead(s), NEW r \in Row, MainBegins(r),
         Key(r) = Key(s)
  PROVE  r = s
<1> DEFINE k == Key(s)
<1>1. QueueType /\ k \in Thread /\ pending[k] \in Seq(Turn) /\ pending[k] # <<>>
  BY KeyType DEF RelayInv, LedgerInv, TypeOK, QueueType, AtHead
<1>2. pending[k][1] \in Waiting(pending[k]) /\ pending[k][1].row = s
  BY <1>1 DEF Waiting, AtHead
<1>3. MainTurn(pending[k][1])
  BY <1>1, <1>2, WaitingMain, KindsDiffer
<1>4. NextIndex(k) # 0 => NextIndex(k) = 1
  BY <1>1, <1>3 DEF NextIndex
<1>5. Takes(k) /\ r = pending[k][NextIndex(k)].row
  BY <1>1 DEF MainBegins, MustWait
<1>6. QED
  BY <1>2, <1>4, <1>5 DEF Takes

LEMMA NewRecovery ==
  ASSUME RelayInv, [Next]_vars, NEW s \in Row, IsRecovery(s), ledger[s] = "none",
         ledger'[s] = "queued"
  PROVE  /\ AtHead(s)'
         /\ Key(s) \in active
<1>1. QueueType /\ Key(s) \in Thread /\ pending[Key(s)] \in Seq(Turn)
  BY KeyType DEF RelayInv, LedgerInv, TypeOK, QueueType
<1>2. KindOf(s) = "timeout_recovery" /\ IsMainRow(s)
  BY DEF KindOf, IsMainRow
<1>3. PICK t \in Turn : t.row = s /\ Fronts(t)
  BY <1>2, NewRowIsPut DEF Appends
<1>4. pending'[Key(s)] = InFront(t, pending[Key(s)])
  BY <1>1, <1>3 DEF Fronts, QueueType
<1>5. pending'[Key(s)] # <<>> /\ pending'[Key(s)][1] = t
  BY <1>1, <1>4 DEF InFront
<1>6. Key(s) \notin active' /\ Key(s) \in active
  BY <1>2, <1>3 DEF Fronts
<1>7. QED
  BY <1>3, <1>5, <1>6 DEF AtHead, Key

\* An old one stays where it is until it is taken.
LEMMA HeadStays ==
  ASSUME RelayInv, [Next]_vars, ~Crash, ~Restart, NEW s \in Row, QueuedRecovery(s),
         AtHead(s), ledger'[s] = "queued"
  PROVE  AtHead(s)'
<1> DEFINE k == Key(s)
<1>1. /\ QueueType /\ ThreadType /\ SingleMainTurn' /\ k \in Thread
      /\ pending[k] \in Seq(Turn) /\ pending[k] # <<>> /\ k \notin active
      /\ SingleMainTurn /\ pending[k][1].row = s /\ ledger \in [Row -> RowStatus]
  BY KeyType, StepRelayInv DEF RelayInv, LedgerInv, TypeOK, LedgerType, QueueType, AtHead,
                               TurnInv
<1>2. ASSUME NEW r \in Row, MainBegins(r), Key(r) = k PROVE FALSE
  <2>1. r = s
    BY <1>2, HeadIsTaken DEF QueuedRecovery
  <2>2. QED
    BY <1>1, <1>2, <2>1 DEF MainBegins
<1>3. k \notin active'
  <2>1. SUFFICES ASSUME k \in active' PROVE FALSE
    OBVIOUS
  <2>2. PICK r \in Row : Key(r) = k /\ mainRun'[r] # "idle"
    BY <1>1, <2>1 DEF SingleMainTurn, Key
  <2>3. mainRun[r] = "idle"
    BY <1>1, <2>2 DEF SingleMainTurn
  <2>4. ~MainEnds(r)
    BY <2>3 DEF MainEnds, FinishMain, FinishNotice
  <2>5. MainBegins(r)
    BY <2>2, <2>3, <2>4, MainFlight
  <2>6. QED
    BY <1>2, <2>2, <2>5
<1>4. ASSUME NEW t \in Turn, pending'[k] = Append(pending[k], t)
      PROVE  pending'[k] # <<>> /\ pending'[k][1] = pending[k][1]
  BY <1>1, <1>4
<1>5. ASSUME NEW t \in Turn, Fronts(t), Key(t.row) = k PROVE FALSE
  BY <1>1, <1>5 DEF Fronts
<1>6. ~Takes(k)
  <2>1. SUFFICES ASSUME Takes(k) PROVE FALSE
    OBVIOUS
  <2>2. pending[k][1] \in Waiting(pending[k])
    BY <1>1 DEF Waiting
  <2>3. MainTurn(pending[k][1])
    BY <1>1, <2>2, WaitingMain, KindsDiffer DEF QueuedRecovery
  <2>4. NextIndex(k) = 1
    BY <1>1, <2>1, <2>3 DEF NextIndex, Takes
  <2>5. BeginMain(s, "queued")
    BY <1>1, <2>1, <2>3, <2>4 DEF Takes, DrainThread, QueuedRecovery
  <2>6. ledger'[s] = "running"
    BY <1>1, <2>5 DEF BeginMain, MayStart
  <2>7. QED
    BY <2>6
<1>7. pending'[k] # <<>> /\ pending'[k][1] = pending[k][1]
  BY <1>1, <1>4, <1>5, <1>6, QueueStep
<1>8. QED
  BY <1>1, <1>3, <1>7 DEF AtHead, Key

\* load_queued puts it first.
LEMMA HeadLoaded ==
  ASSUME RelayInv, RecoveryInv, Restart, NEW s \in Row, QueuedRecovery(s)
  PROVE  AtHead(s)'
<1> DEFINE k == Key(s)
           S == {x \in Row : ledger[x] = "queued" /\ Key(x) = k /\ KindOf(x) # "followup"}
<1>1. /\ LedgerType /\ IdInv /\ SingleMainTurn /\ Asleep /\ k \in Thread
      /\ rowId \in [Row -> Nat]
  BY KeyType DEF RelayInv, LedgerInv, TypeOK, LedgerType, TurnInv
<1>2. pending'[k] = LoadQueued(S)
  <2>1. {x \in {y \in Row : ledger[y] = "queued"} : Key(x) = k /\ KindOf(x) # "followup"} = S
    OBVIOUS
  <2>2. QED
    BY <1>1, <2>1 DEF Restart
<1>3. s \in S
  BY DEF QueuedRecovery, KindOf
<1>4. S \in SUBSET Row /\ IdsDiffer(S)
  BY <1>1 DEF IdInv, IdsDiffer, Inserted
<1>5. \A r \in S : IsRecovery(r) => r = s
  BY DEF RecoveryInv, QueuedRecovery
<1> HIDE DEF S, k
<1>6. PICK q : /\ IsListing(q, S)
               /\ LoadQueued(S) = [i \in 1..Cardinality(S) |->
                                     [row |-> q[i], task |-> rowTask[q[i]]]]
  BY <1>1, <1>4, LoadedQueue
<1>7. PICK n \in 1..Cardinality(S) : q[n] = s
  BY <1>1, <1>3, <1>4, <1>6, ListingIsOnto
<1>8. Cardinality(S) \in Nat
  BY <1>4, RowsFinite
<1>9. q[1] = s
  <2>1. CASE n = 1
    BY <1>7, <2>1
  <2>2. CASE n # 1
    <3>1. 1 \in 1..Cardinality(S) /\ 1 < n
      BY <1>7, <1>8, <2>2
    <3>2. LoadsBefore(q[1], s) /\ q[1] \in S
      BY <1>6, <1>7, <3>1 DEF IsListing, Ordered
    <3>3. IsRecovery(q[1])
      BY <3>2 DEF LoadsBefore, QueuedRecovery
    <3>4. QED
      BY <1>5, <3>2, <3>3
  <2>3. QED
    BY <2>1, <2>2
<1>10. pending'[k] # <<>> /\ pending'[k][1].row = s
  BY <1>2, <1>6, <1>7, <1>8, <1>9
<1>11. k \notin active'
  BY <1>1 DEF Restart, Asleep, SingleMainTurn
<1>12. QED
  BY <1>10, <1>11 DEF AtHead, k, Key

\* A row that is queued was queued or has only now been inserted.
LEMMA QueuedBefore ==
  ASSUME RelayInv, [Next]_vars, NEW s \in Row, ledger'[s] = "queued"
  PROVE  ledger[s] \in {"none", "queued"}
<1>1. TypeOK /\ QueuesAreOwn /\ ledger \in [Row -> RowStatus]
  BY DEF RelayInv, LedgerInv, TurnInv, TypeOK, LedgerType
<1>2. CASE Restart
  BY <1>1, <1>2 DEF Restart, AfterRestart
<1>3. ~MainBegins(s) /\ ~MainEnds(s) /\ ~JobMoves(s)
  BY <1>1 DEF MainBegins, MainEnds, FinishMain, FinishNotice, JobMoves, JobStarts,
              JobAckFails, JobEnds, StatusAfterAdd
<1>4. QED
  BY <1>1, <1>2, <1>3, RowMoves DEF Rests

LEMMA StepRecovery == RelayInv /\ RecoveryInv /\ [Next]_vars => RecoveryInv'
<1> SUFFICES ASSUME RelayInv, RecoveryInv, [Next]_vars PROVE RecoveryInv'
  OBVIOUS
<1>1. TypeOK /\ QueuesAreOwn /\ ledger \in [Row -> RowStatus]
  BY DEF RelayInv, LedgerInv, TurnInv, TypeOK, LedgerType
<1>2. ASSUME NEW s \in Row, QueuedRecovery(s)'
      PROVE  IsRecovery(s) /\ ledger[s] \in {"none", "queued"} /\ ledger'[s] = "queued"
  <2>1. IsRecovery(s) /\ ledger'[s] = "queued"
    BY <1>2 DEF QueuedRecovery, IsRecovery
  <2>2. QED
    BY <2>1, QueuedBefore
<1>3. ASSUME NEW r \in Row, NEW s \in Row, QueuedRecovery(r)', QueuedRecovery(s)',
             Key(r) = Key(s)
      PROVE  r = s
  <2>1. ASSUME NEW x \in Row, IsRecovery(x), ledger[x] = "none", ledger'[x] = "queued",
               NEW y \in Row, QueuedRecovery(y), Key(x) = Key(y)
        PROVE  FALSE
    <3>1. Key(x) \in active
      BY <2>1, NewRecovery
    <3>2. up
      BY <3>1, ActiveIsAwake
    <3>3. QED
      BY <2>1, <3>1, <3>2 DEF RecoveryInv, AtHead
  <2>2. CASE ledger[r] = "none" /\ ledger[s] = "none"
    <3>1. KindOf(r) = "timeout_recovery" /\ KindOf(s) = "timeout_recovery"
      BY <1>2, <1>3 DEF KindOf
    <3>2. PICK t \in Turn : t.row = r /\ Fronts(t)
      BY <1>2, <1>3, <2>2, <3>1, NewRowIsPut DEF Appends, IsMainRow
    <3>3. QED
      BY <1>2, <1>3, <2>2, <3>2 DEF Fronts
  <2>3. QED
    BY <1>2, <1>3, <2>1, <2>2 DEF RecoveryInv, QueuedRecovery
<1>4. ASSUME up', NEW s \in Row, QueuedRecovery(s)' PROVE AtHead(s)'
  <2>1. CASE ledger[s] = "none"
    BY <1>2, <1>4, <2>1, NewRecovery
  <2>2. CASE ledger[s] = "queued"
    <3>1. QueuedRecovery(s) /\ ~Crash
      BY <1>2, <1>4, <2>2 DEF QueuedRecovery, Crash
    <3>2. CASE Restart
      BY <3>1, <3>2, HeadLoaded
    <3>3. ASSUME ~Restart PROVE AtHead(s)'
      <4>1. up
        BY <1>4, <3>1, <3>3, UpChanges DEF Stays
      <4>2. AtHead(s)
        BY <3>1, <4>1 DEF RecoveryInv
      <4>3. QED
        BY <1>2, <1>4, <3>1, <3>3, <4>2, HeadStays
    <3>4. QED
      BY <3>2, <3>3
  <2>3. QED
    BY <1>2, <1>4, <2>1, <2>2
<1>5. QED
  BY <1>3, <1>4 DEF RecoveryInv, Key

\* A queued timeout recovery is the next main turn of its conversation: nothing,
\* not even /force, a restart or a new message, starts before it.
THEOREM RecoveryStartsNext == Spec => RecoveryGoesFirst
<1>1. RelayInv /\ RecoveryInv /\ [Next]_vars
        => [\A r, s \in Row :
              Key(r) = Key(s) /\ StartsMain(r) /\ IsRecovery(s) /\ ledger[s] = "queued"
              => r = s]_vars
  <2> SUFFICES ASSUME RelayInv, RecoveryInv, [Next]_vars, NEW r \in Row, NEW s \in Row,
                      Key(r) = Key(s), StartsMain(r), IsRecovery(s), ledger[s] = "queued"
               PROVE  r = s
    OBVIOUS
  <2>1. MainBegins(r) /\ up
    BY StartIsBegin
  <2>2. AtHead(s)
    BY <2>1 DEF RecoveryInv, QueuedRecovery
  <2>3. QED
    BY <2>1, <2>2, HeadIsTaken
<1>2. Init => RecoveryInv
  BY DEF Init, RecoveryInv, QueuedRecovery
<1>3. QED
  BY InitRelayInv, StepRelayInv, StepRecovery, <1>1, <1>2, PTL DEF Spec, RecoveryGoesFirst

-----------------------------------------------------------------------------
(* Ordinary messages wait in the order they were accepted. *)

\* Something that holds of the rows before place i of a queue.
Before(q, i, s) == \E j \in 1..Len(q) : j < i /\ q[j].row = s

\* A queued ordinary message waits before every ordinary turn that is younger.
Overtaken(q, i, s) ==
  /\ KindOf(q[i].row) = "plain" /\ KindOf(s) = "plain"
  /\ ledger[s] = "queued" /\ rowId[s] < rowId[q[i].row]
FifoInv ==
  \A k \in Thread : \A i \in 1..Len(pending[k]) : \A s \in Row :
    Key(s) = k /\ Overtaken(pending[k], i, s) => Before(pending[k], i, s)

\* Places before a place stay before it.
LEMMA BeforeAppend ==
  ASSUME NEW q \in Seq(Turn), NEW t \in Turn, NEW i \in 1..Len(q), NEW s, Before(q, i, s)
  PROVE  Before(Append(q, t), i, s)
<1>1. PICK j \in 1..Len(q) : j < i /\ q[j].row = s
  BY DEF Before
<1>2. Append(q, t)[j] = q[j] /\ j \in 1..Len(Append(q, t))
  BY AppendPlaces
<1>3. QED
  BY <1>1, <1>2 DEF Before

LEMMA BeforeInFront ==
  ASSUME NEW q \in Seq(Turn), NEW t \in Turn, NEW i \in 1..Len(q), NEW s, Before(q, i, s)
  PROVE  Before(InFront(t, q), i + 1, s)
<1>1. PICK j \in 1..Len(q) : j < i /\ q[j].row = s
  BY DEF Before
<1>2. InFront(t, q)[j + 1] = q[j] /\ Len(InFront(t, q)) = Len(q) + 1
  BY InFrontPlaces
<1>3. j + 1 \in 1..Len(InFront(t, q)) /\ j + 1 < i + 1
  BY <1>1, <1>2
<1>4. QED
  BY <1>1, <1>2, <1>3 DEF Before

\* where the i-th of the remaining turns was
WasAt(i, n) == IF i < n THEN i ELSE i + 1

LEMMA RemovedPlace ==
  ASSUME NEW q \in Seq(Turn), NEW n \in 1..Len(q), NEW i \in 1..Len(RemoveAt(q, n))
  PROVE  /\ WasAt(i, n) \in 1..Len(q) /\ WasAt(i, n) # n
         /\ RemoveAt(q, n)[i] = q[WasAt(i, n)]
<1>1. Len(RemoveAt(q, n)) = Len(q) - 1 /\ Len(q) \in Nat
  BY RemovePlaces
<1>2. i \in 1..Len(q) - 1
  BY <1>1
<1>3. RemoveAt(q, n)[i] = IF i < n THEN q[i] ELSE q[i + 1]
  BY <1>2, RemovePlaces
<1>4. QED
  BY <1>1, <1>2, <1>3 DEF WasAt

LEMMA BeforeRemoved ==
  ASSUME NEW q \in Seq(Turn), NEW n \in 1..Len(q), NEW i \in 1..Len(RemoveAt(q, n)), NEW s,
         Before(q, WasAt(i, n), s)
  PROVE  Before(RemoveAt(q, n), i, s) \/ q[n].row = s
<1>1. PICK j \in 1..Len(q) : j < WasAt(i, n) /\ q[j].row = s
  BY DEF Before
<1>2. Len(RemoveAt(q, n)) = Len(q) - 1 /\ Len(q) \in Nat
  BY RemovePlaces
<1>3. CASE j < n
  <2>1. j \in 1..Len(q) - 1 /\ j < i
    BY <1>1, <1>2, <1>3 DEF WasAt
  <2>2. RemoveAt(q, n)[j] = q[j]
    BY <1>3, <2>1, RemovePlaces
  <2>3. QED
    BY <1>1, <1>2, <2>1, <2>2 DEF Before
<1>4. CASE j > n
  <2>1. j - 1 \in 1..Len(q) - 1 /\ j - 1 < i /\ ~(j - 1 < n) /\ (j - 1) + 1 = j
    BY <1>1, <1>2, <1>4 DEF WasAt
  <2>2. RemoveAt(q, n)[j - 1] = q[j]
    BY <2>1, RemovePlaces
  <2>3. QED
    BY <1>1, <1>2, <2>1, <2>2 DEF Before
<1>5. QED
  BY <1>1, <1>3, <1>4

\* The turn that is taken is no longer queued if it is a main turn.
LEMMA TakenIsNotQueued ==
  ASSUME RelayInv, NEW k \in Thread, Takes(k), NEW s \in Row, IsMainRow(s),
         pending[k][NextIndex(k)].row = s, ledger[s] = "queued"
  PROVE  ledger'[s] # "queued"
<1> DEFINE t == pending[k][NextIndex(k)]
<1>1. QueueType /\ ledger \in [Row -> RowStatus]
  BY DEF RelayInv, LedgerInv, TypeOK, LedgerType
<1>2. t \in Waiting(pending[k]) /\ t.row = s
  BY <1>1, TakenWaits DEF Takes
<1>3. MainTurn(t)
  BY <1>2, WaitingMain
<1>4. BeginMain(s, "queued")
  BY <1>2, <1>3 DEF Takes, DrainThread
<1>5. QED
  BY <1>1, <1>4 DEF BeginMain, MayStart

\* A restart reloads ordinary messages by their ids.
LEMMA FifoLoaded ==
  ASSUME RelayInv, Restart, NEW k \in Thread, NEW i \in 1..Len(pending'[k]), NEW s \in Row,
         Key(s) = k, KindOf(pending'[k][i].row) = "plain", KindOf(s) = "plain",
         ledger'[s] = "queued", rowId[s] < rowId[pending'[k][i].row]
  PROVE  Before(pending'[k], i, s)
<1> DEFINE S == {x \in Row : ledger[x] = "queued" /\ Key(x) = k /\ KindOf(x) # "followup"}
<1>1. LedgerType /\ IdInv /\ rowId \in [Row -> Nat]
  BY DEF RelayInv, LedgerInv, TypeOK, LedgerType
<1>2. pending'[k] = LoadQueued(S)
  <2>1. {x \in {y \in Row : ledger[y] = "queued"} : Key(x) = k /\ KindOf(x) # "followup"} = S
    OBVIOUS
  <2>2. QED
    BY <2>1 DEF Restart
<1>3. s \in S
  BY DEF Restart, AfterRestart
<1>4. S \in SUBSET Row /\ IdsDiffer(S)
  BY <1>1 DEF IdInv, IdsDiffer, Inserted
<1> HIDE DEF S
<1>5. PICK q : /\ IsListing(q, S)
               /\ LoadQueued(S) = [n \in 1..Cardinality(S) |->
                                     [row |-> q[n], task |-> rowTask[q[n]]]]
  BY <1>1, <1>4, LoadedQueue
<1>6. Cardinality(S) \in Nat
  BY <1>4, RowsFinite
<1>7. /\ Len(pending'[k]) = Cardinality(S)
      /\ \A n \in 1..Cardinality(S) : pending'[k][n].row = q[n]
  BY <1>2, <1>5, <1>6
<1>8. PICK n \in 1..Cardinality(S) : q[n] = s
  BY <1>1, <1>3, <1>4, <1>5, ListingIsOnto
<1>9. i \in 1..Cardinality(S) /\ q[i] \in Row
  BY <1>4, <1>5, <1>7 DEF IsListing
<1>10. KindOf(q[i]) = "plain" /\ rowId[s] < rowId[q[i]]
  BY <1>7, <1>9
<1>11. ~IsRecovery(q[i])
  BY <1>9, <1>10 DEF KindOf
<1>12. ~(i < n)
  <2>1. SUFFICES ASSUME i < n PROVE FALSE
    OBVIOUS
  <2>2. LoadsBefore(q[i], s)
    BY <1>5, <1>8, <1>9, <2>1 DEF IsListing, Ordered
  <2>3. rowId[q[i]] < rowId[s]
    BY <1>11, <2>2 DEF LoadsBefore
  <2>4. QED
    BY <1>1, <1>9, <1>10, <2>3
<1>13. i # n
  BY <1>1, <1>8, <1>10
<1>14. n < i
  BY <1>6, <1>8, <1>9, <1>12, <1>13
<1>15. QED
  BY <1>7, <1>8, <1>14 DEF Before

LEMMA StepFifo ==
  RelayInv /\ QueuedMainIsHeld /\ QueuedInserted /\ FifoInv /\ [Next]_vars => FifoInv'
<1> SUFFICES ASSUME RelayInv, QueuedMainIsHeld, QueuedInserted, FifoInv, [Next]_vars,
                    NEW k \in Thread, NEW i \in 1..Len(pending'[k]), NEW s \in Row,
                    Key(s) = k, KindOf(pending'[k][i].row) = "plain", KindOf(s) = "plain",
                    ledger'[s] = "queued", rowId'[s] < rowId'[pending'[k][i].row]
             PROVE  Before(pending'[k], i, s)
  BY DEF FifoInv, Overtaken, Before, Key, KindOf, IsRecovery
<1> DEFINE q == pending[k]
<1>1. /\ QueueType /\ pending \in [Thread -> Seq(Turn)] /\ q \in Seq(Turn)
      /\ rowId \in [Row -> Nat] /\ IsMainRow(s)
      /\ \A x \in Row : rowId'[x] \in Nat
  BY StepRelayInv DEF RelayInv, LedgerInv, TypeOK, LedgerType, QueueType, IsMainRow
<1>2. QueuedInserted' /\ pending'[k] \in Seq(Turn)
  BY StepRelayInv, StepQueuedInserted DEF RelayInv, LedgerInv, TypeOK, QueueType
<1>3. PICK x \in Row : x = pending'[k][i].row /\ ledger'[x] # "none"
  <2>1. pending'[k][i] \in Turn
    BY <1>2
  <2>2. pending'[k][i] \in Waiting(pending'[k])
    BY <1>2 DEF Waiting
  <2>3. ledger'[pending'[k][i].row] # "none"
    BY <1>2, <2>2 DEF QueuedInserted, Waiting, Inserted
  <2>4. QED
    BY <2>1, <2>3, TurnTypes
<1>4. ledger[s] = "queued" /\ rowId'[s] = rowId[s]
  <2>1. ledger[s] # "none"
    <3>1. SUFFICES ASSUME ledger[s] = "none" PROVE FALSE
      OBVIOUS
    <3>2. rowId'[x] <= rowId'[s]
      BY <1>3, <3>1, NewIdIsLast DEF Inserted
    <3>3. QED
      BY <1>1, <1>3, <3>2
  <2>2. QED
    BY <2>1, QueuedBefore, IdsStay DEF Inserted
<1>5. CASE Crash
  BY <1>5 DEF Crash
<1>6. CASE Restart
  BY <1>6, FifoLoaded DEF Restart
\* A turn that waited there had s before it.
<1>7. ASSUME NEW n \in 1..Len(q), q[n].row = x PROVE Before(q, n, s)
  <2>1. q[n] \in Waiting(q) /\ q[n] \in Turn
    BY <1>1 DEF Waiting
  <2>2. Inserted(x) /\ x \in Row
    BY <1>3, <1>7, <2>1 DEF QueuedInserted
  <2>3. rowId'[x] = rowId[x]
    BY <2>2, IdsStay
  <2>4. Overtaken(q, n, s)
    BY <1>3, <1>4, <1>7, <2>3 DEF Overtaken
  <2>5. QED
    BY <2>4 DEF FifoInv
<1>8. CASE pending'[k] = q
  BY <1>3, <1>7, <1>8
<1>9. ASSUME pending'[k] # q, ~Restart PROVE up
  BY <1>9, AwakeSteps DEF RelayInv, vars
<1>10. ASSUME NEW t \in Turn, Appends(t), pending'[k] = Append(q, t), up
       PROVE  Before(pending'[k], i, s)
  <2>1. /\ Len(Append(q, t)) = Len(q) + 1
        /\ \A n \in 1..Len(q) : Append(q, t)[n] = q[n]
    BY <1>1, AppendPlaces
  <2>2. CASE i \in 1..Len(q)
    <3>1. Before(q, i, s)
      BY <1>3, <1>7, <1>10, <2>1, <2>2
    <3>2. QED
      BY <1>1, <1>10, <2>2, <3>1, BeforeAppend
  <2>3. CASE i = Len(q) + 1
    <3>1. PICK j \in 1..Len(q) : q[j].row = s
      BY <1>1, <1>4, <1>10, HeldInPlace
    <3>2. j \in 1..Len(pending'[k]) /\ pending'[k][j].row = s /\ j < i
      BY <1>1, <1>10, <2>1, <2>3, <3>1
    <3>3. QED
      BY <3>2 DEF Before
  <2>4. QED
    BY <1>1, <1>10, <2>1, <2>2, <2>3
<1>11. ASSUME NEW t \in Turn, Fronts(t), pending'[k] = InFront(t, q)
       PROVE  Before(pending'[k], i, s)
  <2>0. q \in Seq(Turn) /\ t \in Turn
    BY <1>1
  <2>1. /\ Len(InFront(t, q)) = Len(q) + 1
        /\ InFront(t, q)[1] = t
        /\ \A n \in 1..Len(q) : InFront(t, q)[n + 1] = q[n]
    <3> HIDE DEF q
    <3>1. QED
      BY <2>0, InFrontPlaces
  <2>2. i # 1
    BY <1>11, <2>1 DEF Fronts
  <2>3. PICK n \in 1..Len(q) : i = n + 1
    <3>1. i - 1 \in 1..Len(q) /\ i = (i - 1) + 1
      BY <1>1, <1>11, <2>1, <2>2
    <3>2. QED
      BY <3>1
  <2>4. q[n].row = x
    BY <1>3, <1>11, <2>1, <2>3
  <2>5. Before(q, n, s)
    BY <1>7, <2>4
  <2>6. QED
    BY <1>1, <1>11, <2>3, <2>5, BeforeInFront
<1>12. ASSUME Takes(k), pending'[k] = RemoveAt(q, NextIndex(k))
       PROVE  Before(pending'[k], i, s)
  <2>1. PICK p \in 1..Len(q) : p = NextIndex(k)
    BY <1>1, <1>12, TakenWaits DEF Takes
  <2>2. i \in 1..Len(RemoveAt(q, p))
    BY <1>12, <2>1
  <2>3. WasAt(i, p) \in 1..Len(q) /\ q[WasAt(i, p)].row = x
    BY <1>1, <1>3, <1>12, <2>1, <2>2, RemovedPlace
  <2>4. Before(q, WasAt(i, p), s)
    BY <1>7, <2>3
  <2>5. q[p].row # s
    BY <1>1, <1>4, <1>12, <2>1, TakenIsNotQueued
  <2>6. Before(RemoveAt(q, p), i, s)
    BY <1>1, <2>2, <2>4, <2>5, BeforeRemoved
  <2>7. QED
    BY <1>12, <2>1, <2>6
<1>13. QED
  BY <1>5, <1>6, <1>8, <1>9, <1>10, <1>11, <1>12, QueueStep

\* Ordinary messages of a conversation start in the order they were accepted:
\* none overtakes one that is queued, whatever corrections, recoveries, /task new
\* requests, crashes and redelivered updates come between (_drain_thread_queue,
\* load_queued).
THEOREM MainTurnsAreFifo == Spec => MainIsFifo
<1> DEFINE Inv == RelayInv /\ QueuedMainIsHeld /\ QueuedInserted /\ FifoInv
<1>1. Inv /\ [Next]_vars
        => [\A r, s \in Row :
              /\ r # s /\ Key(r) = Key(s) /\ StartsMain(r)
              /\ KindOf(r) = "plain" /\ KindOf(s) = "plain" /\ ledger[s] = "queued"
              => rowId'[r] < rowId[s]]_vars
  <2> SUFFICES ASSUME Inv, [Next]_vars, NEW r \in Row, NEW s \in Row,
                      r # s, Key(r) = Key(s), StartsMain(r),
                      KindOf(r) = "plain", KindOf(s) = "plain", ledger[s] = "queued"
               PROVE  rowId'[r] < rowId[s]
    OBVIOUS
  <2> DEFINE k == Key(r)
             p == NextIndex(k)
  <2>1. MainBegins(r) /\ up
    BY StartIsBegin
  <2>2. /\ QueueType /\ IdInv /\ rowId \in [Row -> Nat] /\ k \in Thread
        /\ pending[k] \in Seq(Turn)
    BY KeyType DEF RelayInv, LedgerInv, TypeOK, LedgerType, QueueType
  <2>3. PICK j \in 1..Len(pending[k]) : pending[k][j].row = s /\ MainTurn(pending[k][j])
    BY <2>1, HeldInPlace DEF IsMainRow
  <2>4. /\ Takes(k) /\ ledger[r] = "queued" /\ r = pending[k][p].row
        /\ MainTurn(pending[k][p]) /\ UNCHANGED rowId
    BY <2>1, <2>2, <2>3 DEF MainBegins, MustWait
  <2>5. p \in 1..Len(pending[k]) /\ p # 0
    BY <2>2, <2>4, TakenWaits DEF Takes
  <2>6. rowId[r] # rowId[s]
    BY <2>2, <2>4 DEF IdInv, Inserted
  <2>7. ~(rowId[s] < rowId[r])
    <3>1. SUFFICES ASSUME rowId[s] < rowId[r] PROVE FALSE
      OBVIOUS
    <3>2. Overtaken(pending[k], p, s)
      BY <2>4, <3>1 DEF Overtaken
    <3>3. Before(pending[k], p, s)
      BY <2>2, <2>5, <3>2 DEF FifoInv
    <3>4. PICK n \in 1..Len(pending[k]) : n < p /\ pending[k][n].row = s
      BY <3>3 DEF Before
    <3>5. pending[k][n] \in Waiting(pending[k]) /\ IsMainRow(s)
      BY <2>2 DEF Waiting, IsMainRow
    <3>6. MainTurn(pending[k][n])
      BY <2>2, <3>4, <3>5, WaitingMain
    <3>7. p <= n
      BY <2>2, <2>4, <2>5, <3>6, FirstMain
    <3>8. QED
      BY <2>2, <2>5, <3>4, <3>7
  <2>8. QED
    BY <2>2, <2>4, <2>6, <2>7
<1>2. Init => Inv
  <2>1. Init => QueuedMainIsHeld /\ FifoInv
    BY DEF Init, QueuedMainIsHeld, FifoInv
  <2>2. Init => QueuedInserted
    BY WaitingEmpty DEF Init, QueuedInserted
  <2>3. QED
    BY <2>1, <2>2, InitRelayInv
<1>3. Inv /\ [Next]_vars => Inv'
  BY StepRelayInv, StepHeld, StepQueuedInserted, StepFifo
<1>4. QED
  BY <1>1, <1>2, <1>3, PTL DEF Spec, MainIsFifo

-----------------------------------------------------------------------------
(* Corrections wait in front of ordinary messages. *)

Urgent(t) == KindOf(t.row) \in {"force", "timeout_recovery"}

\* Until a crash only corrections and recoveries wait before a queued correction.
ForceInv ==
  crashes = 0 =>
    /\ up
    /\ \A k \in Thread : \A i \in 1..Len(pending[k]) :
         KindOf(pending[k][i].row) = "force" /\ ledger[pending[k][i].row] = "queued"
         => \A j \in 1..Len(pending[k]) : j < i => Urgent(pending[k][j])

LEMMA StepForce ==
  RelayInv /\ QueuedInserted /\ ForceInv /\ [Next]_vars => ForceInv'
<1> SUFFICES ASSUME RelayInv, QueuedInserted, ForceInv, [Next]_vars, crashes' = 0
             PROVE  /\ up'
                    /\ \A k \in Thread : \A i \in 1..Len(pending'[k]) :
                         /\ KindOf(pending'[k][i].row) = "force"
                         /\ ledger'[pending'[k][i].row] = "queued"
                         => \A j \in 1..Len(pending'[k]) : j < i => Urgent(pending'[k][j])
  BY DEF ForceInv, Urgent, KindOf, IsRecovery
<1>1. pending \in [Thread -> Seq(Turn)] /\ QueueType /\ crashes \in Nat
  BY DEF RelayInv, LedgerInv, TypeOK, QueueType, ProcessType
<1>2. ~Crash
  BY <1>1 DEF Crash
<1>3. crashes = 0
  BY <1>2, UpChanges DEF Restart, Stays
<1>4. ~Restart /\ up'
  BY <1>2, <1>3, UpChanges DEF ForceInv, Restart, Stays
<1>5. ASSUME NEW k \in Thread, NEW i \in 1..Len(pending'[k]),
             KindOf(pending'[k][i].row) = "force", ledger'[pending'[k][i].row] = "queued",
             NEW j \in 1..Len(pending'[k]), j < i
      PROVE  Urgent(pending'[k][j])
  <2> DEFINE q == pending[k]
  <2>1. q \in Seq(Turn)
    BY <1>1
  \* a correction that waited there had only urgent turns before it
  <2>2. ASSUME NEW n \in 1..Len(q), q[n] = pending'[k][i], NEW m \in 1..Len(q), m < n
        PROVE  Urgent(q[m])
    <3>1. q[n] \in Waiting(q) /\ q[n].row \in Row
      BY <2>1, TurnTypes DEF Waiting
    <3>2. ledger[q[n].row] = "queued"
      BY <1>5, <2>2, <3>1, QueuedBefore DEF QueuedInserted, Inserted
    <3>3. QED
      BY <1>3, <1>5, <2>2, <3>2 DEF ForceInv
  <2>3. CASE pending'[k] = q
    BY <1>5, <2>2, <2>3
  <2>4. ASSUME NEW t \in Turn, Appends(t), pending'[k] = Append(q, t)
        PROVE  Urgent(pending'[k][j])
    <3>1. /\ Len(Append(q, t)) = Len(q) + 1
          /\ Append(q, t)[Len(q) + 1] = t
          /\ \A n \in 1..Len(q) : Append(q, t)[n] = q[n]
      BY <2>1, AppendPlaces
    <3>2. i # Len(q) + 1
      BY <1>5, <2>4, <3>1 DEF Appends
    <3>3. i \in 1..Len(q) /\ j \in 1..Len(q)
      BY <1>5, <2>1, <2>4, <3>1, <3>2
    <3>4. QED
      BY <1>5, <2>2, <2>4, <3>1, <3>3
  <2>5. ASSUME NEW t \in Turn, Fronts(t), pending'[k] = InFront(t, q)
        PROVE  Urgent(pending'[k][j])
    <3>1. /\ Len(InFront(t, q)) = Len(q) + 1
          /\ InFront(t, q)[1] = t
          /\ \A n \in 1..Len(q) : InFront(t, q)[n + 1] = q[n]
      <4>1. q \in Seq(Turn) /\ t \in Turn
        BY <2>1
      <4> HIDE DEF q
      <4>2. QED
        BY <4>1, InFrontPlaces
    <3>2. CASE j = 1
      BY <2>5, <3>1, <3>2 DEF Fronts, Urgent
    <3>3. CASE j # 1
      <4>1. PICK n \in 1..Len(q) : i = n + 1
        <5>1. i - 1 \in 1..Len(q) /\ i = (i - 1) + 1
          BY <1>5, <2>1, <2>5, <3>1, <3>3
        <5>2. QED
          BY <5>1
      <4>2. PICK m \in 1..Len(q) : j = m + 1
        <5>1. j - 1 \in 1..Len(q) /\ j = (j - 1) + 1
          BY <1>5, <2>1, <2>5, <3>1, <3>3
        <5>2. QED
          BY <5>1
      <4>3. m < n
        BY <1>5, <4>1, <4>2
      <4>4. q[n] = pending'[k][i] /\ q[m] = pending'[k][j]
        BY <2>5, <3>1, <4>1, <4>2
      <4>5. QED
        BY <2>2, <4>3, <4>4
    <3>4. QED
      BY <3>2, <3>3
  <2>6. ASSUME Takes(k), pending'[k] = RemoveAt(q, NextIndex(k))
        PROVE  Urgent(pending'[k][j])
    <3>1. PICK p \in 1..Len(q) : p = NextIndex(k)
      BY <1>1, <2>6, TakenWaits DEF Takes
    <3>2. i \in 1..Len(RemoveAt(q, p)) /\ j \in 1..Len(RemoveAt(q, p))
      BY <2>6, <3>1
    <3>3. /\ WasAt(i, p) \in 1..Len(q) /\ q[WasAt(i, p)] = pending'[k][i]
          /\ WasAt(j, p) \in 1..Len(q) /\ q[WasAt(j, p)] = pending'[k][j]
      BY <2>1, <2>6, <3>1, <3>2, RemovedPlace
    <3>4. WasAt(j, p) < WasAt(i, p)
      BY <1>5 DEF WasAt
    <3>5. QED
      BY <2>2, <3>3, <3>4
  <2>7. QED
    BY <1>2, <1>4, <2>3, <2>4, <2>5, <2>6, QueueStep
<1>6. QED
  BY <1>4, <1>5

\* In a process that has not crashed, a queued correction starts before every
\* ordinary message of its conversation (_cmd_force, _drain_thread_queue).
THEOREM CorrectionsGoFirst == Spec => ForceGoesNext
<1> DEFINE Inv == RelayInv /\ QueuedMainIsHeld /\ QueuedInserted /\ ForceInv
<1>1. Inv /\ [Next]_vars
        => [\A r, s \in Row :
              /\ crashes = 0
              /\ Key(r) = Key(s) /\ StartsMain(r) /\ KindOf(r) = "plain"
              => ~(KindOf(s) = "force" /\ ledger[s] = "queued")]_vars
  <2> SUFFICES ASSUME Inv, [Next]_vars, NEW r \in Row, NEW s \in Row, crashes = 0,
                      Key(r) = Key(s), StartsMain(r), KindOf(r) = "plain",
                      KindOf(s) = "force", ledger[s] = "queued"
               PROVE  FALSE
    OBVIOUS
  <2> DEFINE k == Key(r)
             p == NextIndex(k)
  <2>1. MainBegins(r) /\ up
    BY StartIsBegin
  <2>2. QueueType /\ k \in Thread /\ pending[k] \in Seq(Turn)
    BY KeyType DEF RelayInv, LedgerInv, TypeOK, QueueType
  <2>3. PICK j \in 1..Len(pending[k]) : pending[k][j].row = s /\ MainTurn(pending[k][j])
    BY <2>1, HeldInPlace DEF IsMainRow
  <2>4. Takes(k) /\ r = pending[k][p].row /\ MainTurn(pending[k][p])
    BY <2>1, <2>2, <2>3 DEF MainBegins, MustWait
  <2>5. p \in 1..Len(pending[k]) /\ p # 0
    BY <2>2, <2>4, TakenWaits DEF Takes
  <2>6. p <= j
    BY <2>2, <2>3, <2>4, <2>5, FirstMain
  <2>7. p # j
    BY <2>3, <2>4
  <2>8. p < j
    BY <2>2, <2>3, <2>5, <2>6, <2>7
  <2>9. Urgent(pending[k][p])
    BY <2>2, <2>3, <2>5, <2>8 DEF ForceInv
  <2>10. QED
    BY <2>4, <2>9 DEF Urgent
<1>2. Init => Inv
  <2>1. Init => QueuedMainIsHeld /\ ForceInv
    BY DEF Init, QueuedMainIsHeld, ForceInv
  <2>2. Init => QueuedInserted
    BY WaitingEmpty DEF Init, QueuedInserted
  <2>3. QED
    BY <2>1, <2>2, InitRelayInv
<1>3. Inv /\ [Next]_vars => Inv'
  BY StepRelayInv, StepHeld, StepQueuedInserted, StepForce
<1>4. QED
  BY <1>1, <1>2, <1>3, PTL DEF Spec, ForceGoesNext

=============================================================================
