---------------------------- MODULE InboxProofs ----------------------------
(***************************************************************************)
(* The WEB1 side of the background callback, for every set of tasks,       *)
(* results, conversations and receivers and any number of crashes: types,  *)
(* delivery to the promised conversation, delivery once, and the           *)
(* refinement of CallbackDelivery.                                         *)
(***************************************************************************)
EXTENDS CallbackInbox, FiniteSetTheorems, TLAPS

inbox == <<inboxVars, ssh, line, crashes>>

\* A task that a conversation has registered.
Known(t) == registration[t] # NoChat

\* A receiver that has read its event and not answered.
Reading == {"seen", "new", "receipt", "claimed", "peers", "write", "mark"}

\* A receiver works on an event of its task, which was known when it read it,
\* and what it answers is so.
ReceiverOK(s) ==
  /\ ssh[s].ev # NoEvent => ssh[s].task = EventTask[ssh[s].ev]
  /\ ssh[s].at \in Reading => ssh[s].ev # NoEvent /\ Known(ssh[s].task)
  /\ ssh[s].at = "mark" => ssh[s].ev \in Held
  /\ ssh[s].reply = "registered" => Known(ssh[s].task)
  /\ ssh[s].reply \in {"accepted", "replay"} => ssh[s].ev \in Held

WireInv == \A s \in Slot : ReceiverOK(s)

FileInv ==
  /\ tornNew \subseteq new
  /\ seen \subseteq Held
  /\ \A e \in new \cup claimed : Known(EventTask[e])

LoopTask == EventTask[loop.ev]

\* The loop has a claimed event in hand, and the receipt of its task stands where
\* the loop does: nobody else writes receipts.
LoopInv ==
  /\ loop.at # "idle" => loop.ev \in claimed
  /\ loop.at = "unlink" => loop.ev \in new \ tornNew
  /\ loop.at = "persist" => receipt[LoopTask] = "none"
  /\ loop.at \in {"deliver", "redeliver", "complete"} => receipt[LoopTask] = "pending"
  /\ loop.at \in {"notice", "close", "drop"} => receipt[LoopTask] = loop.to
  /\ loop.at = "drop" => loop.ev \in completed \cup failed
  /\ loop.at = "complete" => shown[LoopTask] > 0

\* A conversation is promised and shown the result of the task it registered.
PromiseInv ==
  \A t \in Task :
    /\ promised[t] \subseteq {registration[t]} \ {NoChat}
    /\ shownIn[t] \subseteq {registration[t]} \ {NoChat}

\* A result that was shown is behind its receipt, or its receipt is being written.
ShownInv ==
  \A t \in Task \ doubtful :
    /\ shown[t] <= 1
    /\ shown[t] = 1 => Closed(t) \/ (loop.at = "complete" /\ LoopTask = t)

InboxInv == InboxTypeOK /\ WireInv /\ FileInv /\ LoopInv /\ PromiseInv /\ ShownInv

-----------------------------------------------------------------------------
(* Types *)

LEMMA EventTaskType ==
  ASSUME NEW e \in Event
  PROVE  EventTask[e] \in Task
  BY WireAssumption

LEMMA ReceiverFields ==
  ASSUME WireOK, NEW s \in Slot
  PROVE  /\ ssh[s] \in Receiver
         /\ ssh[s].at \in Step /\ ssh[s].task \in Task
         /\ ssh[s].ev \in Event \cup {NoEvent} /\ ssh[s].reply \in Reply
  BY DEF WireOK, Receiver

LEMMA LoopFields ==
  ASSUME InboxOK
  PROVE  /\ loop.at \in LoopStep /\ loop.ev \in Event \cup {NoEvent}
         /\ loop.to \in {"completed", "failed"}
  BY DEF InboxOK, Loop

\* The process in s goes on, the others stay.
LEMMA GoesToFacts ==
  ASSUME WireOK, NEW s \in Slot, NEW a \in Step, GoesTo(s, a)
  PROVE  /\ ssh' \in [Slot -> Receiver]
         /\ ssh'[s] = [ssh[s] EXCEPT !.at = a]
         /\ \A q \in Slot : q # s => ssh'[q] = ssh[q]
<1>1. ssh[s] \in Receiver
  BY ReceiverFields
<1>2. [ssh[s] EXCEPT !.at = a] \in Receiver
  BY <1>1 DEF Receiver
<1>3. ssh' = [ssh EXCEPT ![s] = [ssh[s] EXCEPT !.at = a]]
  BY DEF GoesTo, WireOK
<1>4. QED
  BY <1>2, <1>3 DEF WireOK

LEMMA AnswersFacts ==
  ASSUME WireOK, NEW s \in Slot, NEW r \in Reply, Answers(s, r)
  PROVE  /\ ssh' \in [Slot -> Receiver]
         /\ ssh'[s].at \in {"idle", "done"} /\ ssh'[s].reply \in {"", r}
         /\ ssh'[s].task = ssh[s].task /\ ssh'[s].ev = ssh[s].ev
         /\ \A q \in Slot : q # s => ssh'[q] = ssh[q]
<1> DEFINE a == IF line = s THEN "done" ELSE "idle"
           w == IF line = s THEN r ELSE ""
           rec == [ssh[s] EXCEPT !.at = a, !.reply = w]
<1>1. ssh[s] \in Receiver
  BY ReceiverFields
<1>2. a \in {"idle", "done"} /\ w \in {"", r} /\ a \in Step /\ w \in Reply
  BY DEF Step, Reply
<1>3. ssh' = [ssh EXCEPT ![s] = rec]
  BY DEF Answers, WireOK
<1> HIDE DEF a, w
<1>4. rec \in Receiver /\ rec.at = a /\ rec.reply = w
      /\ rec.task = ssh[s].task /\ rec.ev = ssh[s].ev
  BY <1>1, <1>2 DEF Receiver
<1> HIDE DEF rec
<1>5. QED
  BY <1>2, <1>3, <1>4 DEF WireOK

-----------------------------------------------------------------------------
(* What holds of the other receivers when one moves *)

Frozen == \A t \in Task : Known(t) => registration'[t] = registration[t]
HeldGrows == Held \subseteq Held'

LEMMA OtherReceiver ==
  ASSUME WireOK, NEW q \in Slot, ReceiverOK(q), ssh'[q] = ssh[q], Frozen, HeldGrows
  PROVE  ReceiverOK(q)'
<1>1. ssh[q].task \in Task
  BY ReceiverFields
<1>2. Known(ssh[q].task) => registration'[ssh[q].task] # NoChat
  BY <1>1 DEF Frozen, Known
<1>3. ssh[q].ev \in Held => ssh[q].ev \in Held'
  BY DEF HeldGrows
<1>4. QED
  BY <1>2, <1>3 DEF ReceiverOK, Known

LEMMA WireKept ==
  ASSUME WireOK, WireInv, UNCHANGED ssh, Frozen, HeldGrows
  PROVE  WireInv'
  BY OtherReceiver DEF WireInv

LEMMA WireGoes ==
  ASSUME WireOK, WireInv, Frozen, HeldGrows,
         NEW s \in Slot, NEW a \in Step, GoesTo(s, a),
         ssh[s].ev # NoEvent, Known(ssh[s].task), a = "mark" => ssh[s].ev \in Held'
  PROVE  ssh' \in [Slot -> Receiver] /\ WireInv'
<1>1. /\ ssh' \in [Slot -> Receiver]
      /\ ssh'[s] = [ssh[s] EXCEPT !.at = a]
      /\ \A q \in Slot : q # s => ssh'[q] = ssh[q]
  BY GoesToFacts
<1>2. ssh'[s].at = a /\ ssh'[s].task = ssh[s].task /\ ssh'[s].ev = ssh[s].ev
      /\ ssh'[s].reply = ssh[s].reply
  <2>1. ssh[s] \in Receiver
    BY ReceiverFields
  <2>2. QED
    BY <1>1, <2>1 DEF Receiver
<1>3. ReceiverOK(s) /\ ssh[s].task \in Task
  BY ReceiverFields DEF WireInv
<1>4. registration'[ssh[s].task] # NoChat
  BY <1>1, <1>3 DEF Frozen, Known
<1>5. ssh[s].ev \in Held => ssh[s].ev \in Held'
  BY DEF HeldGrows
<1>6. ReceiverOK(s)'
  BY <1>2, <1>3, <1>4, <1>5 DEF ReceiverOK, Known
<1>7. QED
  BY <1>1, <1>6, OtherReceiver DEF WireInv

LEMMA WireAnswers ==
  ASSUME WireOK, WireInv, Frozen, HeldGrows,
         NEW s \in Slot, NEW r \in Reply, Answers(s, r),
         r = "registered" => Known(ssh[s].task),
         r \in {"accepted", "replay"} => ssh[s].ev \in Held'
  PROVE  ssh' \in [Slot -> Receiver] /\ WireInv'
<1>1. /\ ssh' \in [Slot -> Receiver]
      /\ ssh'[s].at \in {"idle", "done"} /\ ssh'[s].reply \in {"", r}
      /\ ssh'[s].task = ssh[s].task /\ ssh'[s].ev = ssh[s].ev
      /\ \A q \in Slot : q # s => ssh'[q] = ssh[q]
  BY AnswersFacts
<1>2. ReceiverOK(s) /\ ssh[s].task \in Task
  BY ReceiverFields DEF WireInv
<1>3. Known(ssh[s].task) => registration'[ssh[s].task] # NoChat
  BY <1>1, <1>2 DEF Frozen, Known
<1>4. ssh'[s].at \notin Reading
  BY <1>1 DEF Reading
<1>5. ReceiverOK(s)'
  BY <1>1, <1>2, <1>3, <1>4 DEF ReceiverOK, Known
<1>6. QED
  BY <1>1, <1>5, OtherReceiver DEF WireInv

LEMMA SameFiles ==
  ASSUME UNCHANGED inboxVars
  PROVE  Frozen /\ HeldGrows
  BY DEF Frozen, HeldGrows, Held, inboxVars

\* A step of the wire alone.
LEMMA WireMoves ==
  ASSUME InboxInv, UNCHANGED inboxVars, WireOK', WireInv'
  PROVE  InboxInv'
<1>1. InboxOK' /\ FileInv' /\ LoopInv' /\ PromiseInv' /\ ShownInv'
  <2>1. InboxOK'
    BY DEF InboxInv, InboxTypeOK, InboxOK, inboxVars, torn
  <2>2. FileInv'
    BY DEF InboxInv, FileInv, Known, Held, inboxVars, torn
  <2>3. LoopInv'
    BY DEF InboxInv, LoopInv, LoopTask, inboxVars, torn
  <2>4. PromiseInv'
    BY DEF InboxInv, PromiseInv, inboxVars
  <2>5. ShownInv'
    BY DEF InboxInv, ShownInv, LoopTask, Closed, inboxVars
  <2>6. QED
    BY <2>1, <2>2, <2>3, <2>4, <2>5
<1>2. QED
  BY <1>1 DEF InboxInv, InboxTypeOK

-----------------------------------------------------------------------------
(* The steps of a receiver *)

\* One of the looks at the files, by a receiver that is reading.
LEMMA Looks ==
  ASSUME NEW s \in Slot, WireOK, WireInv, FileInv,
         CheckSeen(s) \/ CheckNew(s) \/ CheckReceipt(s) \/ CheckFolders(s) \/ CheckPeers(s)
  PROVE  /\ ssh[s].ev # NoEvent /\ Known(ssh[s].task)
         /\ \/ \E a \in Step \ {"mark"} : GoesTo(s, a)
            \/ Answers(s, "conflict")
            \/ Answers(s, "replay") /\ ssh[s].ev \in Held
<1>1. ssh[s].at \in Reading
  BY DEF CheckSeen, CheckNew, CheckReceipt, CheckFolders, CheckPeers, Reading
<1>2. ssh[s].ev # NoEvent /\ Known(ssh[s].task)
  BY <1>1 DEF WireInv, ReceiverOK
<1>3. new \subseteq Held /\ seen \subseteq Held
  BY DEF FileInv, Held
<1>4. {"new", "receipt", "claimed", "peers", "write"} \subseteq Step \ {"mark"}
  BY DEF Step
<1>5. CASE CheckSeen(s)
  <2>1. GoesTo(s, "new") \/ (Answers(s, "replay") /\ ssh[s].ev \in Held)
    BY <1>3, <1>5 DEF CheckSeen
  <2>2. QED
    BY <1>2, <1>4, <2>1
<1>6. CASE CheckNew(s)
  <2>1. GoesTo(s, "receipt") \/ (Answers(s, "replay") /\ ssh[s].ev \in Held)
    BY <1>3, <1>6 DEF CheckNew
  <2>2. QED
    BY <1>2, <1>4, <2>1
<1>7. CASE CheckReceipt(s)
  <2>1. GoesTo(s, "claimed") \/ Answers(s, "conflict")
    BY <1>7 DEF CheckReceipt
  <2>2. QED
    BY <1>2, <1>4, <2>1
<1>8. CASE CheckFolders(s)
  <2>1. GoesTo(s, "peers") \/ Answers(s, "conflict")
    BY <1>8 DEF CheckFolders
  <2>2. QED
    BY <1>2, <1>4, <2>1
<1>9. CASE CheckPeers(s)
  <2>1. GoesTo(s, "write") \/ Answers(s, "conflict")
    BY <1>9 DEF CheckPeers
  <2>2. QED
    BY <1>2, <1>4, <2>1
<1>10. QED
  BY <1>5, <1>6, <1>7, <1>8, <1>9

LEMMA LooksInv ==
  ASSUME InboxInv, NEW s \in Slot,
         ReadEvent(s) \/ CheckSeen(s) \/ CheckNew(s) \/ CheckReceipt(s)
           \/ CheckFolders(s) \/ CheckPeers(s)
  PROVE  InboxInv'
<1>1. WireOK /\ WireInv /\ FileInv /\ ReceiverOK(s)
  BY DEF InboxInv, InboxTypeOK, WireInv
<1>2. UNCHANGED <<inboxVars, line, crashes>>
  BY DEF ReadEvent, CheckSeen, CheckNew, CheckReceipt, CheckFolders, CheckPeers
<1>3. Frozen /\ HeldGrows
  BY <1>2, SameFiles
<1>4. {"stale_timestamp", "unknown_task", "registered", "conflict", "replay"} \subseteq Reply
      /\ "seen" \in Step
  BY DEF Reply, Step
<1>5. ssh' \in [Slot -> Receiver] /\ WireInv'
  <2>1. CASE ReadEvent(s)
    <3>1. CASE Answers(s, "stale_timestamp")
      BY <1>1, <1>3, <1>4, <3>1, WireAnswers
    <3>2. CASE Answers(s, "unknown_task")
      BY <1>1, <1>3, <1>4, <3>2, WireAnswers
    <3>3. CASE Known(ssh[s].task) /\ Answers(s, "registered")
      BY <1>1, <1>3, <1>4, <3>3, WireAnswers
    <3>4. CASE Known(ssh[s].task) /\ ssh[s].ev # NoEvent /\ GoesTo(s, "seen")
      BY <1>1, <1>3, <1>4, <3>4, WireGoes
    <3>5. QED
      BY <2>1, <3>1, <3>2, <3>3, <3>4 DEF ReadEvent, Known
  <2>2. CASE ~ReadEvent(s)
    <3>1. /\ ssh[s].ev # NoEvent /\ Known(ssh[s].task)
          /\ \/ \E a \in Step \ {"mark"} : GoesTo(s, a)
             \/ Answers(s, "conflict")
             \/ Answers(s, "replay") /\ ssh[s].ev \in Held
      BY <1>1, <2>2, Looks
    <3>2. CASE \E a \in Step \ {"mark"} : GoesTo(s, a)
      BY <1>1, <1>3, <3>1, <3>2, WireGoes
    <3>3. CASE Answers(s, "conflict")
      BY <1>1, <1>3, <1>4, <3>3, WireAnswers
    <3>4. CASE Answers(s, "replay") /\ ssh[s].ev \in Held
      BY <1>1, <1>3, <1>4, <3>4, WireAnswers DEF HeldGrows
    <3>5. QED
      BY <3>1, <3>2, <3>3, <3>4
  <2>3. QED
    BY <2>1, <2>2
<1>6. WireOK'
  BY <1>1, <1>2, <1>5 DEF WireOK
<1>7. QED
  BY <1>2, <1>5, <1>6, WireMoves

\* A result is written, and it may be torn; or it is marked as seen.
LEMMA Arrives ==
  ASSUME InboxInv, NEW e \in Event, Known(EventTask[e]),
         new' = new \/ new' = new \cup {e},
         tornNew' = tornNew \/ (tornNew' = tornNew \cup {e} /\ e \notin new /\ e \in new'),
         seen' = seen \/ (seen' = seen \cup {e} /\ e \in Held),
         UNCHANGED <<registration, claimed, completed, failed, tornClaimed, attempts,
                     receipt, loop, busy, promised, shown, shownIn, doubtful>>,
         WireOK', WireInv'
  PROVE  InboxInv'
<1>1. InboxOK'
  BY DEF InboxInv, InboxTypeOK, InboxOK
<1>2. FileInv'
  <2>1. tornNew' \subseteq new'
    BY DEF InboxInv, FileInv
  <2>2. Held \subseteq Held'
    BY DEF Held
  <2>3. seen' \subseteq Held'
    BY <2>2 DEF InboxInv, FileInv
  <2>4. \A f \in new' \cup claimed' : registration'[EventTask[f]] # NoChat
    BY DEF InboxInv, FileInv, Known
  <2>5. QED
    BY <2>1, <2>3, <2>4 DEF FileInv, Known
<1>3. LoopInv'
  BY DEF InboxInv, LoopInv, LoopTask
<1>4. PromiseInv'
  BY DEF InboxInv, PromiseInv
<1>5. ShownInv'
  BY DEF InboxInv, ShownInv, LoopTask, Closed
<1>6. QED
  BY <1>1, <1>2, <1>3, <1>4, <1>5 DEF InboxInv, InboxTypeOK

LEMMA Grows ==
  ASSUME UNCHANGED <<registration, claimed, completed, failed>>, new \subseteq new'
  PROVE  Frozen /\ HeldGrows
  BY DEF Frozen, HeldGrows, Held

LEMMA WriteNewInv ==
  ASSUME InboxInv, NEW s \in Slot, WriteNew(s)
  PROVE  InboxInv'
<1> DEFINE e == ssh[s].ev
<1>1. WireOK /\ WireInv /\ ReceiverOK(s) /\ ssh[s].at \in Reading
  BY DEF InboxInv, InboxTypeOK, WireInv, WriteNew, Reading
<1>2. e \in Event /\ ssh[s].task = EventTask[e] /\ Known(EventTask[e])
  BY <1>1, ReceiverFields DEF ReceiverOK
<1>3. Frozen /\ HeldGrows
  BY Grows DEF WriteNew
<1>4. ssh' \in [Slot -> Receiver] /\ WireInv'
  <2>1. CASE e \in new /\ Answers(s, "replay")
    <3>1. e \in Held'
      BY <1>3, <2>1 DEF HeldGrows, Held
    <3>2. QED
      BY <1>1, <1>3, <2>1, <3>1, WireAnswers DEF Reply
  <2>2. CASE new' = new \cup {e} /\ GoesTo(s, "mark")
    <3>1. e \in Held'
      BY <2>2 DEF Held
    <3>2. "mark" \in Step
      BY DEF Step
    <3>3. e # NoEvent /\ Known(ssh[s].task)
      BY <1>2, WireAssumption
    <3>4. QED
      BY <1>1, <1>3, <2>2, <3>1, <3>2, <3>3, WireGoes
  <2>3. QED
    BY <2>1, <2>2 DEF WriteNew
<1>5. WireOK'
  BY <1>1, <1>4 DEF WireOK, WriteNew
<1>6. /\ new' = new \/ new' = new \cup {e}
      /\ UNCHANGED <<registration, claimed, completed, failed, tornNew, tornClaimed, seen,
                     attempts, receipt, loop, busy, promised, shown, shownIn, doubtful>>
  BY DEF WriteNew, torn
<1>7. QED
  BY <1>2, <1>4, <1>5, <1>6, Arrives

LEMMA MarkSeenInv ==
  ASSUME InboxInv, NEW s \in Slot, MarkSeen(s)
  PROVE  InboxInv'
<1> DEFINE e == ssh[s].ev
<1>1. WireOK /\ WireInv /\ ReceiverOK(s) /\ ssh[s].at = "mark" /\ ssh[s].at \in Reading
  BY DEF InboxInv, InboxTypeOK, WireInv, MarkSeen, Reading
<1>2. e \in Event /\ ssh[s].task = EventTask[e] /\ Known(EventTask[e]) /\ e \in Held
  BY <1>1, ReceiverFields DEF ReceiverOK
<1>3. Frozen /\ HeldGrows
  BY Grows DEF MarkSeen
<1>4. e \in Held' /\ "accepted" \in Reply
  BY <1>2, <1>3 DEF HeldGrows, Reply
<1>5. ssh' \in [Slot -> Receiver] /\ WireInv'
  BY <1>1, <1>3, <1>4, WireAnswers DEF MarkSeen
<1>6. WireOK'
  BY <1>1, <1>5 DEF WireOK, MarkSeen
<1>7. /\ seen' = seen \cup {e}
      /\ UNCHANGED <<registration, new, claimed, completed, failed, tornNew, tornClaimed,
                     attempts, receipt, loop, busy, promised, shown, shownIn, doubtful>>
  BY DEF MarkSeen, torn
<1>8. QED
  BY <1>2, <1>5, <1>6, <1>7, Arrives

LEMMA ReceiverDiesInv ==
  ASSUME InboxInv, NEW s \in Slot, ReceiverDies(s)
  PROVE  InboxInv'
<1> DEFINE e == ssh[s].ev
<1>1. WireOK /\ WireInv /\ ReceiverOK(s) /\ crashes' \in Nat /\ line' = line
  BY DEF InboxInv, InboxTypeOK, WireInv, WireOK, ReceiverDies
<1>2. new \subseteq new'
  BY DEF ReceiverDies
<1>3. Frozen /\ HeldGrows
  BY <1>2, Grows DEF ReceiverDies
<1>4. Answers(s, "broken") /\ "broken" \in Reply
  BY DEF ReceiverDies, Reply
<1>5. ssh' \in [Slot -> Receiver] /\ WireInv'
  BY <1>1, <1>3, <1>4, WireAnswers
<1>6. WireOK'
  BY <1>1, <1>5 DEF WireOK
<1>7. CASE UNCHANGED <<new, torn>>
  <2>1. UNCHANGED inboxVars
    BY <1>7 DEF ReceiverDies, inboxVars
  <2>2. QED
    BY <1>5, <1>6, <2>1, WireMoves
<1>8. CASE /\ ssh[s].at = "write" /\ e \notin new
           /\ new' = new \cup {e} /\ tornNew' = tornNew \cup {e} /\ UNCHANGED tornClaimed
  <2>1. ssh[s].at \in Reading
    BY <1>8 DEF Reading
  <2>2. e \in Event /\ ssh[s].task = EventTask[e] /\ Known(EventTask[e])
    BY <1>1, <2>1, ReceiverFields DEF ReceiverOK
  <2>3. UNCHANGED <<registration, claimed, completed, failed, tornClaimed, seen,
                    attempts, receipt, loop, busy, promised, shown, shownIn, doubtful>>
    BY <1>8 DEF ReceiverDies
  <2>4. QED
    BY <1>5, <1>6, <1>8, <2>2, <2>3, Arrives
<1>9. QED
  BY <1>7, <1>8 DEF ReceiverDies

LEMMA ProbeFields ==
  ASSUME NEW t \in Task
  PROVE  /\ Probe(t) \in Receiver /\ Probe(t).at = "sent" /\ Probe(t).reply = ""
         /\ Probe(t).task = t /\ Probe(t).ev = NoEvent
  BY DEF Probe, Receiver, Step, Reply

LEMMA FinalFields ==
  ASSUME NEW e \in Event
  PROVE  /\ Final(e) \in Receiver /\ Final(e).at = "sent" /\ Final(e).reply = ""
         /\ Final(e).task = EventTask[e] /\ Final(e).ev = e
<1>1. EventTask[e] \in Task
  BY EventTaskType
<1>2. QED
  BY <1>1 DEF Final, Receiver, Step, Reply

LEMMA CallerInv ==
  ASSUME InboxInv, CallerStep
  PROVE  InboxInv'
<1>1. UNCHANGED <<inboxVars, line, crashes>> /\ WireOK /\ WireInv
  BY DEF CallerStep, InboxInv, InboxTypeOK
<1>2. PICK s \in Slot, call \in {Probe(t) : t \in Task} \cup {Final(f) : f \in Event} :
        ssh' = [ssh EXCEPT ![s] = call]
  BY DEF CallerStep
<1>3. /\ call \in Receiver /\ call.at = "sent" /\ call.reply = ""
      /\ call.ev # NoEvent => call.task = EventTask[call.ev]
  <2>1. CASE \E t \in Task : call = Probe(t)
    BY <2>1, ProbeFields
  <2>2. CASE \E f \in Event : call = Final(f)
    <3>1. PICK f \in Event : call = Final(f)
      BY <2>2
    <3>2. QED
      BY <3>1, FinalFields
  <2>3. QED
    BY <2>1, <2>2
<1>4. WireOK'
  BY <1>1, <1>2, <1>3 DEF WireOK
<1>5. Frozen /\ HeldGrows
  BY <1>1, SameFiles
<1>6. ASSUME NEW q \in Slot PROVE ReceiverOK(q)'
  <2>1. CASE q = s
    <3>1. ssh'[q] = call
      BY <1>1, <1>2, <2>1 DEF WireOK
    <3>2. QED
      BY <1>3, <3>1 DEF ReceiverOK, Reading
  <2>2. CASE q # s
    <3>1. ssh'[q] = ssh[q]
      BY <1>1, <1>2, <2>2 DEF WireOK
    <3>2. QED
      BY <1>1, <1>5, <3>1, OtherReceiver DEF WireInv
  <2>3. QED
    BY <2>1, <2>2
<1>7. QED
  BY <1>1, <1>4, <1>6, WireMoves DEF WireInv

-----------------------------------------------------------------------------
(* Registrations and the turns of the conversations *)

LEMMA RegisterInv ==
  ASSUME InboxInv, NEW t \in Task, NEW c \in Chat, Register(t, c)
  PROVE  InboxInv'
<1>1. /\ registration' = [registration EXCEPT ![t] = Registered(t, c)]
      /\ promised' = promised
         \/ (registration'[t] = c /\ promised' = [promised EXCEPT ![t] = @ \cup {c}])
      /\ UNCHANGED <<new, claimed, completed, failed, tornNew, tornClaimed, attempts, seen,
                     receipt, loop, busy, shown, shownIn, doubtful, ssh, line, crashes>>
  BY DEF Register, torn
<1>2. /\ registration \in [Task -> Chat \cup {NoChat}] /\ promised \in [Task -> SUBSET Chat]
      /\ WireOK /\ WireInv
  BY DEF InboxInv, InboxTypeOK, InboxOK
<1>3. Registered(t, c) \in Chat /\ (Known(t) => Registered(t, c) = registration[t])
  BY <1>2 DEF Registered, Known
<1>4. Frozen /\ HeldGrows
  BY <1>1, <1>2, <1>3 DEF Frozen, HeldGrows, Held
<1>5. registration' \in [Task -> Chat \cup {NoChat}] /\ promised' \in [Task -> SUBSET Chat]
  BY <1>1, <1>2, <1>3
<1>6. InboxTypeOK'
  BY <1>1, <1>5 DEF InboxInv, InboxTypeOK, InboxOK, WireOK
<1>7. WireInv'
  BY <1>1, <1>2, <1>4, WireKept
<1>8. FileInv'
  <2>1. \A e \in new \cup claimed : registration'[EventTask[e]] # NoChat
    <3>1. ASSUME NEW e \in new \cup claimed PROVE registration'[EventTask[e]] # NoChat
      <4>1. e \in Event /\ Known(EventTask[e])
        BY DEF InboxInv, InboxTypeOK, InboxOK, FileInv
      <4>2. QED
        BY <1>4, <4>1, EventTaskType DEF Frozen, Known
    <3>2. QED
      BY <3>1
  <2>2. QED
    BY <1>1, <2>1 DEF InboxInv, FileInv, Known, Held
<1>9. LoopInv'
  BY <1>1 DEF InboxInv, LoopInv, LoopTask
<1>10. PromiseInv'
  <2>1. ASSUME NEW u \in Task
        PROVE  /\ promised'[u] \subseteq {registration'[u]} \ {NoChat}
               /\ shownIn[u] \subseteq {registration'[u]} \ {NoChat}
    <3>1. /\ promised[u] \subseteq {registration[u]} \ {NoChat}
          /\ shownIn[u] \subseteq {registration[u]} \ {NoChat}
      BY DEF InboxInv, PromiseInv
    <3>2. Known(u) => registration'[u] = registration[u]
      BY <1>4 DEF Frozen
    <3>3. promised'[u] = promised[u]
          \/ (u = t /\ promised'[u] = promised[u] \cup {c} /\ registration'[u] = c)
      BY <1>1, <1>2
    <3>4. c # NoChat
      BY InboxAssumption
    <3>5. QED
      BY <3>1, <3>2, <3>3, <3>4 DEF Known
  <2>2. QED
    BY <1>1, <2>1 DEF PromiseInv
<1>11. ShownInv'
  BY <1>1 DEF InboxInv, ShownInv, LoopTask, Closed
<1>12. QED
  BY <1>6, <1>7, <1>8, <1>9, <1>10, <1>11 DEF InboxInv

LEMMA TurnInv ==
  ASSUME InboxInv, NEW c \in Lively, TurnStarts(c) \/ TurnEnds(c)
  PROVE  InboxInv'
<1>1. /\ busy' \subseteq Lively
      /\ UNCHANGED <<registration, new, claimed, completed, failed, tornNew, tornClaimed,
                     attempts, seen, receipt, loop, promised, shown, shownIn, doubtful,
                     ssh, line, crashes>>
  BY DEF TurnStarts, TurnEnds, files, torn, InboxInv, InboxTypeOK, InboxOK
<1>2. InboxTypeOK'
  BY <1>1 DEF InboxInv, InboxTypeOK, InboxOK, WireOK
<1>3. Frozen /\ HeldGrows
  BY <1>1, Grows
<1>4. WireInv'
  BY <1>1, <1>3, WireKept DEF InboxInv, InboxTypeOK
<1>5. FileInv'
  BY <1>1 DEF InboxInv, FileInv, Known, Held
<1>6. LoopInv' /\ PromiseInv'
  BY <1>1 DEF InboxInv, LoopInv, LoopTask, PromiseInv
<1>7. ShownInv'
  BY <1>1 DEF InboxInv, ShownInv, LoopTask, Closed
<1>8. QED
  BY <1>2, <1>4, <1>5, <1>6, <1>7 DEF InboxInv

-----------------------------------------------------------------------------
(* The inbox loop *)

LEMMA InHand ==
  ASSUME InboxInv, loop.at # "idle"
  PROVE  /\ loop.ev \in Event /\ loop.ev \in claimed
         /\ LoopTask \in Task /\ Known(LoopTask)
<1>1. loop.ev \in claimed /\ claimed \subseteq Event /\ Known(LoopTask)
  BY DEF InboxInv, LoopInv, FileInv, LoopTask, InboxTypeOK, InboxOK
<1>2. QED
  BY <1>1, EventTaskType DEF LoopTask

\* The steps of the loop that write no file.
LEMMA LoopMoves ==
  ASSUME InboxInv, loop' \in Loop, LoopInv', ShownInv',
         UNCHANGED <<files, busy, promised, shown, shownIn, doubtful, ssh, line, crashes>>
  PROVE  InboxInv'
<1>1. UNCHANGED <<registration, new, claimed, completed, failed, tornNew, tornClaimed,
                  attempts, seen, receipt, busy, promised, shown, shownIn, doubtful,
                  ssh, line, crashes>>
  BY DEF files, torn
<1>2. InboxTypeOK'
  BY <1>1 DEF InboxInv, InboxTypeOK, InboxOK, WireOK
<1>3. WireInv'
  BY <1>1, Grows, WireKept DEF InboxInv, InboxTypeOK
<1>4. FileInv'
  BY <1>1 DEF InboxInv, FileInv, Known, Held
<1>5. PromiseInv'
  BY <1>1 DEF InboxInv, PromiseInv
<1>6. QED
  BY <1>2, <1>3, <1>4, <1>5 DEF InboxInv

LEMMA TakesUpInv ==
  ASSUME InboxInv, NEW e \in Event, Recover(e) \/ Resume(e)
  PROVE  InboxInv'
<1>1. /\ loop.at = "idle" /\ e \in claimed
      /\ UNCHANGED <<files, busy, promised, shown, shownIn, doubtful, ssh, line, crashes>>
  BY DEF Recover, Resume
<1>2. UNCHANGED <<claimed, completed, failed, receipt, shown, doubtful>>
  BY <1>1 DEF files
<1>3. loop' \in Loop /\ LoopInv' /\ loop'.at \notin {"idle", "complete"}
  <2>1. CASE Recover(e)
    <3> DEFINE t == EventTask[e]
               a == IF e \in completed \cup failed THEN "drop" ELSE "close"
    <3>1. a \in {"drop", "close"} /\ (a = "drop" => e \in completed \cup failed)
      OBVIOUS
    <3>2. loop' = [at |-> a, ev |-> e, to |-> receipt[t]] /\ receipt[t] \in {"completed", "failed"}
      BY <2>1 DEF Recover, Closed
    <3> HIDE DEF a
    <3>3. loop'.at = a /\ loop'.ev = e /\ loop'.to = receipt[t] /\ loop' \in Loop
      BY <3>1, <3>2 DEF Loop, LoopStep
    <3>4. QED
      BY <1>1, <1>2, <3>1, <3>3 DEF LoopInv, LoopTask
  <2>2. CASE Resume(e)
    <3>1. loop' = [Rest EXCEPT !.at = "process", !.ev = e]
      BY <2>2 DEF Resume
    <3>2. loop'.at = "process" /\ loop'.ev = e /\ loop' \in Loop
      BY <3>1 DEF Loop, LoopStep, Rest
    <3>3. QED
      BY <1>1, <1>2, <3>2 DEF LoopInv
  <2>3. QED
    BY <2>1, <2>2
<1>4. ShownInv'
  BY <1>1, <1>2, <1>3 DEF InboxInv, ShownInv, LoopTask, Closed
<1>5. QED
  BY <1>1, <1>3, <1>4, LoopMoves

LEMMA SendNoticeInv ==
  ASSUME InboxInv, SendNotice
  PROVE  InboxInv'
<1>1. /\ loop.at = "notice" /\ loop' = [loop EXCEPT !.at = "close"]
      /\ UNCHANGED <<files, busy, promised, shown, shownIn, doubtful, ssh, line, crashes>>
  BY DEF SendNotice
<1>2. UNCHANGED <<claimed, completed, failed, receipt, shown, doubtful>>
  BY <1>1 DEF files
<1>3. loop \in Loop
  BY DEF InboxInv, InboxTypeOK, InboxOK
<1>4. loop'.at = "close" /\ loop'.ev = loop.ev /\ loop'.to = loop.to /\ loop' \in Loop
  BY <1>1, <1>3 DEF Loop, LoopStep
<1>5. LoopInv'
  BY <1>1, <1>2, <1>4 DEF InboxInv, LoopInv, LoopTask
<1>6. ShownInv'
  BY <1>1, <1>2, <1>4 DEF InboxInv, ShownInv, LoopTask, Closed
<1>7. QED
  BY <1>1, <1>4, <1>5, <1>6, LoopMoves

LEMMA ClaimInv ==
  ASSUME InboxInv, NEW e \in Event, Claim(e)
  PROVE  InboxInv'
<1>1. /\ loop.at = "idle" /\ e \in new \ tornNew
      /\ claimed' = claimed \cup {e} /\ attempts' = [attempts EXCEPT ![e] = 0]
      /\ UNCHANGED <<registration, new, completed, failed, tornNew, tornClaimed, seen, receipt,
                     busy, promised, shown, shownIn, doubtful, ssh, line, crashes>>
  BY DEF Claim, torn
<1>2. loop'.at = "unlink" /\ loop'.ev = e /\ loop' \in Loop
  BY DEF Claim, Rest, Loop, LoopStep
<1>3. attempts' \in [Event -> 0..MaxClaims]
  BY <1>1, InboxAssumption DEF InboxInv, InboxTypeOK, InboxOK
<1>4. InboxTypeOK'
  BY <1>1, <1>2, <1>3 DEF InboxInv, InboxTypeOK, InboxOK, WireOK
<1>5. Frozen /\ HeldGrows
  BY <1>1 DEF Frozen, HeldGrows, Held
<1>6. WireInv'
  BY <1>1, <1>5, WireKept DEF InboxInv, InboxTypeOK
<1>7. FileInv'
  <2>1. \A f \in new' \cup claimed' : registration'[EventTask[f]] # NoChat
    BY <1>1 DEF InboxInv, FileInv, Known
  <2>2. QED
    BY <1>1, <1>5, <2>1 DEF InboxInv, FileInv, Known, HeldGrows
<1>8. LoopInv'
  BY <1>1, <1>2 DEF InboxInv, LoopInv
<1>9. PromiseInv'
  BY <1>1 DEF InboxInv, PromiseInv
<1>10. ShownInv'
  BY <1>1, <1>2 DEF InboxInv, ShownInv, LoopTask, Closed
<1>11. QED
  BY <1>4, <1>6, <1>7, <1>8, <1>9, <1>10 DEF InboxInv

LEMMA ClaimDiesInv ==
  ASSUME InboxInv, NEW e \in Event, ClaimDies(e)
  PROVE  InboxInv'
<1>1. /\ e \in new /\ claimed' = claimed \cup {e} /\ tornClaimed' = tornClaimed \cup {e}
      /\ crashes' = crashes + 1
      /\ UNCHANGED <<registration, new, completed, failed, tornNew, attempts, seen, receipt,
                     loop, busy, promised, shown, shownIn, doubtful, ssh, line>>
  BY DEF ClaimDies
<1>2. InboxTypeOK'
  BY <1>1 DEF InboxInv, InboxTypeOK, InboxOK, WireOK
<1>3. Frozen /\ HeldGrows
  BY <1>1 DEF Frozen, HeldGrows, Held
<1>4. WireInv'
  BY <1>1, <1>3, WireKept DEF InboxInv, InboxTypeOK
<1>5. FileInv'
  <2>1. \A f \in new' \cup claimed' : registration'[EventTask[f]] # NoChat
    BY <1>1 DEF InboxInv, FileInv, Known
  <2>2. QED
    BY <1>1, <1>3, <2>1 DEF InboxInv, FileInv, Known, HeldGrows
<1>6. LoopInv'
  BY <1>1 DEF InboxInv, LoopInv, LoopTask
<1>7. PromiseInv' /\ ShownInv'
  BY <1>1 DEF InboxInv, PromiseInv, ShownInv, LoopTask, Closed
<1>8. QED
  BY <1>2, <1>4, <1>5, <1>6, <1>7 DEF InboxInv

\* What leaves a folder is in another: a result is never lost.
LEMMA MovesInv ==
  ASSUME InboxInv, UnlinkNew \/ CloseEvent \/ DropClaimed
  PROVE  InboxInv'
<1> DEFINE e == loop.ev
<1>1. /\ loop.at \in {"unlink", "close", "drop"}
      /\ UNCHANGED <<registration, tornNew, tornClaimed, attempts, seen, receipt,
                     busy, promised, shown, shownIn, doubtful, ssh, line, crashes>>
  BY DEF UnlinkNew, CloseEvent, DropClaimed, torn
<1>2. e \in Event /\ e \in claimed /\ loop \in Loop
  BY <1>1, InHand DEF InboxInv, InboxTypeOK, InboxOK
<1>3. /\ new' \subseteq new /\ claimed' \subseteq claimed
      /\ completed \subseteq completed' /\ completed' \subseteq completed \cup {e}
      /\ failed \subseteq failed' /\ failed' \subseteq failed \cup {e}
      /\ HeldGrows
  BY <1>2 DEF UnlinkNew, CloseEvent, DropClaimed, HeldGrows, Held, InboxInv, LoopInv
<1>4. loop' \in Loop /\ LoopInv' /\ loop'.at # "complete" /\ tornNew \subseteq new'
  <2>1. CASE UnlinkNew
    <3>1. loop'.at = "process" /\ loop'.ev = e /\ loop' \in Loop /\ claimed' = claimed
      BY <1>2, <2>1 DEF UnlinkNew, Loop, LoopStep
    <3>2. tornNew \subseteq new'
      BY <2>1 DEF UnlinkNew, InboxInv, LoopInv, FileInv
    <3>3. QED
      BY <1>2, <3>1, <3>2 DEF LoopInv
  <2>2. CASE CloseEvent
    <3>1. /\ loop'.at = "drop" /\ loop'.ev = e /\ loop'.to = loop.to /\ loop' \in Loop
          /\ claimed' = claimed /\ new' = new
      BY <1>2, <2>2 DEF CloseEvent, Loop, LoopStep
    <3>2. e \in completed' \cup failed' /\ receipt[LoopTask] = loop.to
      BY <1>2, <2>2 DEF CloseEvent, Loop, InboxInv, LoopInv
    <3>3. QED
      BY <1>1, <1>2, <3>1, <3>2 DEF InboxInv, FileInv, LoopInv, LoopTask
  <2>3. CASE DropClaimed
    <3>1. loop'.at = "idle" /\ loop' \in Loop /\ new' = new
      BY <2>3 DEF DropClaimed, Rest, Loop, LoopStep
    <3>2. QED
      BY <3>1 DEF InboxInv, FileInv, LoopInv
  <2>4. QED
    BY <2>1, <2>2, <2>3 DEF UnlinkNew, CloseEvent, DropClaimed
<1>5. InboxTypeOK'
  BY <1>1, <1>2, <1>3, <1>4 DEF InboxInv, InboxTypeOK, InboxOK, WireOK
<1>6. Frozen
  BY <1>1 DEF Frozen
<1>7. WireInv'
  BY <1>1, <1>3, <1>6, WireKept DEF InboxInv, InboxTypeOK
<1>8. FileInv'
  BY <1>1, <1>3, <1>4 DEF InboxInv, FileInv, HeldGrows, Known
<1>9. PromiseInv'
  BY <1>1 DEF InboxInv, PromiseInv
<1>10. ShownInv'
  BY <1>1, <1>4 DEF InboxInv, ShownInv, LoopTask, Closed
<1>11. QED
  BY <1>4, <1>5, <1>7, <1>8, <1>9, <1>10 DEF InboxInv

-----------------------------------------------------------------------------
(* A delivery *)

folders == <<registration, new, claimed, completed, failed, torn, seen, busy, promised,
             ssh, line>>

LEMMA Delivers ==
  ASSUME InboxInv, UNCHANGED folders, crashes' \in Nat,
         attempts' \in [Event -> 0..MaxClaims], receipt' \in [Task -> Receipt],
         shown' \in [Task -> Nat], shownIn' \in [Task -> SUBSET (Chat \cup {NoChat})],
         doubtful' \subseteq Task, loop' \in Loop, LoopInv', PromiseInv', ShownInv'
  PROVE  InboxInv'
<1>1. UNCHANGED <<registration, new, claimed, completed, failed, tornNew, tornClaimed, seen,
                  busy, promised, ssh, line>>
  BY DEF folders, torn
<1>2. InboxTypeOK'
  BY <1>1 DEF InboxInv, InboxTypeOK, InboxOK, WireOK
<1>3. WireInv'
  BY <1>1, Grows, WireKept DEF InboxInv, InboxTypeOK
<1>4. FileInv'
  BY <1>1 DEF InboxInv, FileInv, Known, Held
<1>5. QED
  BY <1>2, <1>3, <1>4 DEF InboxInv

LEMMA StartOfFacts ==
  ASSUME InboxInv, NEW e \in Event
  PROVE  /\ StartOf(e) \in {"close", "redeliver", "notice", "persist"}
         /\ StartOf(e) = "close" => Closed(EventTask[e])
         /\ StartOf(e) = "redeliver" => receipt[EventTask[e]] = "pending"
         /\ StartOf(e) = "notice" => receipt[EventTask[e]] = "none"
         /\ StartOf(e) = "persist" => receipt[EventTask[e]] = "none" /\ attempts[e] < MaxClaims
<1>1. receipt[EventTask[e]] \in {"none", "pending", "completed", "failed"}
  BY EventTaskType DEF InboxInv, InboxTypeOK, InboxOK, Receipt
<1>2. attempts[e] \in 0..MaxClaims /\ MaxClaims \in Nat
  BY InboxAssumption DEF InboxInv, InboxTypeOK, InboxOK
<1>3. CASE Closed(EventTask[e])
  <2>1. StartOf(e) = "close"
    BY <1>3 DEF StartOf
  <2>2. QED
    BY <1>3, <2>1
<1>4. CASE receipt[EventTask[e]] = "pending"
  <2>1. StartOf(e) = "redeliver"
    BY <1>4 DEF StartOf, Closed
  <2>2. QED
    BY <1>4, <2>1
<1>5. CASE receipt[EventTask[e]] = "none"
  <2>1. StartOf(e) = IF attempts[e] >= MaxClaims THEN "notice" ELSE "persist"
    BY <1>5 DEF StartOf, Closed
  <2>2. QED
    BY <1>2, <1>5, <2>1
<1>6. QED
  BY <1>1, <1>3, <1>4, <1>5 DEF Closed

LEMMA ProcessInv ==
  ASSUME InboxInv, Process
  PROVE  InboxInv'
<1> DEFINE e == loop.ev
           t == EventTask[e]
           next == StartOf(e)
           to == IF next = "notice" \/ receipt[t] = "failed" THEN "failed" ELSE "completed"
<1>1. /\ loop.at = "process" /\ loop' = [loop EXCEPT !.at = next, !.to = to]
      /\ attempts' = IF next = "persist" THEN [attempts EXCEPT ![e] = @ + 1] ELSE attempts
      /\ receipt' = IF next = "notice" THEN [receipt EXCEPT ![t] = "failed"] ELSE receipt
      /\ UNCHANGED <<folders, shown, shownIn, doubtful, crashes>>
  BY DEF Process, folders
<1>2. e \in Event /\ e \in claimed /\ t \in Task
  BY <1>1, InHand DEF LoopTask
<1>3. /\ next \in {"close", "redeliver", "notice", "persist"}
      /\ next = "close" => Closed(t)
      /\ next = "redeliver" => receipt[t] = "pending"
      /\ next = "notice" => receipt[t] = "none"
      /\ next = "persist" => receipt[t] = "none" /\ attempts[e] < MaxClaims
  BY <1>2, StartOfFacts
<1>4. /\ to \in {"completed", "failed"} /\ (next = "notice" => to = "failed")
      /\ next = "close" => to = receipt[t]
  BY <1>3 DEF Closed
<1> HIDE DEF next, to
<1>5. /\ loop \in Loop /\ attempts \in [Event -> 0..MaxClaims] /\ receipt \in [Task -> Receipt]
      /\ shown \in [Task -> Nat] /\ shownIn \in [Task -> SUBSET (Chat \cup {NoChat})]
      /\ doubtful \subseteq Task /\ crashes \in Nat
  BY DEF InboxInv, InboxTypeOK, InboxOK, WireOK
<1>6. loop'.at = next /\ loop'.ev = e /\ loop'.to = to /\ loop' \in Loop
  BY <1>1, <1>3, <1>4, <1>5 DEF Loop, LoopStep
<1>7. attempts' \in [Event -> 0..MaxClaims]
  <2>1. CASE next = "persist"
    <3>1. attempts[e] + 1 \in 0..MaxClaims
      BY <1>2, <1>3, <1>5, <2>1, InboxAssumption
    <3>2. QED
      BY <1>1, <1>2, <1>5, <2>1, <3>1
  <2>2. CASE next # "persist"
    BY <1>1, <1>5, <2>2
  <2>3. QED
    BY <2>1, <2>2
<1>8. receipt' \in [Task -> Receipt] /\ (next = "notice" => receipt'[t] = "failed")
      /\ (next # "notice" => receipt' = receipt)
      /\ \A u \in Task : Closed(u) => receipt'[u] \in {"completed", "failed"}
  BY <1>1, <1>2, <1>5 DEF Receipt, Closed
<1>9. claimed' = claimed /\ completed' = completed /\ failed' = failed
  BY <1>1 DEF folders
<1>10. LoopInv'
  <2>1. LoopTask' = t
    BY <1>6 DEF LoopTask
  <2>2. QED
    BY <1>2, <1>3, <1>4, <1>6, <1>8, <1>9, <2>1 DEF LoopInv
<1>11. PromiseInv'
  BY <1>1 DEF InboxInv, PromiseInv, folders
<1>12. ShownInv'
  BY <1>1, <1>8 DEF InboxInv, ShownInv, Closed
<1>13. QED
  BY <1>1, <1>5, <1>6, <1>7, <1>8, <1>10, <1>11, <1>12, Delivers

\* A step that only changes the receipt of the task in hand.
LEMMA ReceiptInv ==
  ASSUME InboxInv, PersistText \/ CompleteReceipt
  PROVE  InboxInv'
<1> DEFINE t == LoopTask
<1>1. UNCHANGED <<folders, attempts, shown, shownIn, doubtful, crashes>>
      /\ loop.at \in {"persist", "complete"}
  BY DEF PersistText, CompleteReceipt, folders
<1>2. loop.ev \in Event /\ loop.ev \in claimed /\ t \in Task
  BY <1>1, InHand
<1>3. /\ loop \in Loop /\ attempts \in [Event -> 0..MaxClaims] /\ receipt \in [Task -> Receipt]
      /\ shown \in [Task -> Nat] /\ shownIn \in [Task -> SUBSET (Chat \cup {NoChat})]
      /\ doubtful \subseteq Task /\ crashes \in Nat
  BY DEF InboxInv, InboxTypeOK, InboxOK, WireOK
<1>4. claimed' = claimed
  BY <1>1 DEF folders
<1>5. PromiseInv'
  BY <1>1 DEF InboxInv, PromiseInv, folders
<1>6. loop' \in Loop /\ receipt' \in [Task -> Receipt] /\ LoopInv' /\ ShownInv'
  <2>1. CASE PersistText
    <3>1. loop'.at = "deliver" /\ loop'.ev = loop.ev /\ loop' \in Loop
      BY <1>3, <2>1 DEF PersistText, Loop, LoopStep
    <3>2. receipt' = [receipt EXCEPT ![t] = "pending"] /\ receipt[t] = "none"
          /\ loop.at = "persist"
      BY <2>1 DEF PersistText, InboxInv, LoopInv, LoopTask
    <3>3. /\ receipt' \in [Task -> Receipt] /\ receipt'[t] = "pending"
          /\ \A u \in Task : u # t => receipt'[u] = receipt[u]
      BY <1>2, <1>3, <3>2 DEF Receipt
    <3>4. LoopTask' = t
      BY <3>1 DEF LoopTask
    <3>5. LoopInv'
      BY <1>2, <1>4, <3>1, <3>3, <3>4 DEF LoopInv
    <3>6. ShownInv'
      <4>1. ASSUME NEW u \in Task \ doubtful
            PROVE  shown[u] <= 1 /\ (shown[u] = 1 => receipt'[u] \in {"completed", "failed"})
        BY <3>2, <3>3 DEF InboxInv, ShownInv, Closed
      <4>2. QED
        BY <1>1, <4>1 DEF ShownInv, Closed
    <3>7. QED
      BY <3>1, <3>3, <3>5, <3>6
  <2>2. CASE CompleteReceipt
    <3>1. loop'.at = "close" /\ loop'.ev = loop.ev /\ loop'.to = "completed" /\ loop' \in Loop
      BY <1>3, <2>2 DEF CompleteReceipt, Loop, LoopStep
    <3>2. receipt' = [receipt EXCEPT ![t] = "completed"]
      BY <2>2 DEF CompleteReceipt, LoopTask
    <3>3. /\ receipt' \in [Task -> Receipt] /\ receipt'[t] = "completed"
          /\ \A u \in Task : u # t => receipt'[u] = receipt[u]
      BY <1>2, <1>3, <3>2 DEF Receipt
    <3>4. LoopTask' = t
      BY <3>1 DEF LoopTask
    <3>5. LoopInv'
      BY <1>2, <1>4, <3>1, <3>3, <3>4 DEF LoopInv
    <3>6. ShownInv'
      <4>1. ASSUME NEW u \in Task \ doubtful
            PROVE  shown[u] <= 1 /\ (shown[u] = 1 => receipt'[u] \in {"completed", "failed"})
        BY <3>3 DEF InboxInv, ShownInv, Closed
      <4>2. QED
        BY <1>1, <4>1 DEF ShownInv, Closed
    <3>7. QED
      BY <3>1, <3>3, <3>5, <3>6
  <2>3. QED
    BY <2>1, <2>2
<1>7. QED
  BY <1>1, <1>3, <1>5, <1>6, Delivers

\* A text is shown: in the conversation that registered the task.
LEMMA ShowsFacts ==
  ASSUME InboxInv, loop.at # "idle", Shows(LoopTask)
  PROVE  /\ shown' \in [Task -> Nat] /\ shown'[LoopTask] = shown[LoopTask] + 1
         /\ \A u \in Task : u # LoopTask => shown'[u] = shown[u]
         /\ shownIn' \in [Task -> SUBSET (Chat \cup {NoChat})]
         /\ UNCHANGED <<registration, promised>> => PromiseInv'
<1> DEFINE t == LoopTask
<1>1. t \in Task /\ Known(t)
  BY InHand
<1>2. /\ shown \in [Task -> Nat] /\ shownIn \in [Task -> SUBSET (Chat \cup {NoChat})]
      /\ registration[t] \in Chat \cup {NoChat}
  BY <1>1 DEF InboxInv, InboxTypeOK, InboxOK
<1>3. /\ shown' = [shown EXCEPT ![t] = shown[t] + 1]
      /\ shownIn' = [shownIn EXCEPT ![t] = shownIn[t] \cup {registration[t]}]
  BY <1>2 DEF Shows
<1> HIDE DEF t
<1>4. /\ shown' \in [Task -> Nat] /\ shown'[t] = shown[t] + 1
      /\ \A u \in Task : u # t => shown'[u] = shown[u]
      /\ shownIn' \in [Task -> SUBSET (Chat \cup {NoChat})]
      /\ shownIn'[t] = shownIn[t] \cup {registration[t]}
      /\ \A u \in Task : u # t => shownIn'[u] = shownIn[u]
  BY <1>1, <1>2, <1>3
<1>5. \A u \in Task : shownIn'[u] \subseteq {registration[u]} \ {NoChat}
  BY <1>1, <1>4 DEF InboxInv, PromiseInv, Known
<1>6. UNCHANGED <<registration, promised>> => PromiseInv'
  BY <1>5 DEF InboxInv, PromiseInv
<1>7. QED
  BY <1>4, <1>6 DEF t

\* A delivery fails: the event is left to the next scan, or given up.
LEMMA FailsFacts ==
  ASSUME InboxInv, loop.at \in {"deliver", "redeliver"}, DeliveryFails, UNCHANGED claimed
  PROVE  /\ attempts' \in [Event -> 0..MaxClaims] /\ receipt' \in [Task -> Receipt]
         /\ loop' \in Loop /\ loop'.at # "complete" /\ LoopInv'
         /\ \A u \in Task : Closed(u) => receipt'[u] \in {"completed", "failed"}
<1> DEFINE e == loop.ev
           t == EventTask[e]
<1>1. e \in Event /\ e \in claimed /\ t \in Task
  BY InHand DEF LoopTask
<1>2. loop \in Loop /\ attempts \in [Event -> 0..MaxClaims] /\ receipt \in [Task -> Receipt]
  BY DEF InboxInv, InboxTypeOK, InboxOK
<1>3. attempts[e] \in 0..MaxClaims /\ MaxClaims \in Nat
  BY <1>1, <1>2, InboxAssumption
<1>4. CASE GivesUp
  <2>1. /\ receipt' = [receipt EXCEPT ![t] = "failed"] /\ attempts' = attempts
        /\ loop' = [loop EXCEPT !.at = "close", !.to = "failed"]
    BY <1>4 DEF DeliveryFails
  <2>2. loop'.at = "close" /\ loop'.to = "failed" /\ loop'.ev = e /\ loop' \in Loop
    BY <1>2, <2>1 DEF Loop, LoopStep
  <2>3. /\ receipt' \in [Task -> Receipt] /\ receipt'[t] = "failed"
        /\ \A u \in Task : Closed(u) => receipt'[u] \in {"completed", "failed"}
    BY <1>1, <1>2, <2>1 DEF Receipt, Closed
  <2>4. LoopInv'
    BY <1>1, <2>2, <2>3 DEF LoopInv, LoopTask
  <2>5. QED
    BY <1>2, <2>1, <2>2, <2>3, <2>4
<1>5. CASE ~GivesUp
  <2>1. /\ attempts' = IF loop.at = "redeliver" THEN [attempts EXCEPT ![e] = attempts[e] + 1]
                       ELSE attempts
        /\ loop' = Rest /\ receipt' = receipt
    BY <1>5 DEF DeliveryFails
  <2>2. loop'.at = "idle" /\ loop' \in Loop
    BY <2>1 DEF Rest, Loop, LoopStep
  <2>3. attempts' \in [Event -> 0..MaxClaims]
    <3>1. CASE loop.at = "redeliver"
      <4>1. attempts[e] + 1 \in 0..MaxClaims
        BY <1>3, <1>5, <3>1 DEF GivesUp
      <4>2. QED
        BY <1>1, <1>2, <2>1, <3>1, <4>1
    <3>2. CASE loop.at # "redeliver"
      BY <1>2, <2>1, <3>2
    <3>3. QED
      BY <3>1, <3>2
  <2>4. LoopInv'
    BY <2>2 DEF LoopInv
  <2>5. QED
    BY <1>2, <2>1, <2>2, <2>3, <2>4 DEF Closed
<1>6. QED
  BY <1>4, <1>5

LEMMA DeliverTextInv ==
  ASSUME InboxInv, DeliverText
  PROVE  InboxInv'
<1> DEFINE t == LoopTask
<1>1. loop.at \in {"deliver", "redeliver"} /\ UNCHANGED <<folders, crashes>>
  BY DEF DeliverText, folders
<1>2. /\ UNCHANGED <<registration, promised, claimed>> /\ t \in Task
      /\ loop.ev \in claimed /\ receipt[t] = "pending"
  BY <1>1, InHand DEF folders, InboxInv, LoopInv
<1>3. /\ loop \in Loop /\ attempts \in [Event -> 0..MaxClaims] /\ receipt \in [Task -> Receipt]
      /\ shown \in [Task -> Nat] /\ shownIn \in [Task -> SUBSET (Chat \cup {NoChat})]
      /\ doubtful \subseteq Task /\ crashes \in Nat
  BY DEF InboxInv, InboxTypeOK, InboxOK, WireOK
<1>4. \A u \in Task \ doubtful : shown[u] <= 1 /\ (shown[u] = 1 => Closed(u))
  BY <1>1 DEF InboxInv, ShownInv
<1>5. CASE /\ Shows(t) /\ loop' = [loop EXCEPT !.at = "complete"]
           /\ UNCHANGED <<receipt, attempts, doubtful>>
  <2>1. loop'.at = "complete" /\ loop'.ev = loop.ev /\ loop' \in Loop
    BY <1>3, <1>5 DEF Loop, LoopStep
  <2>2. LoopTask' = t
    BY <2>1 DEF LoopTask
  <2>3. /\ shown' \in [Task -> Nat] /\ shown'[t] = shown[t] + 1
        /\ \A u \in Task : u # t => shown'[u] = shown[u]
        /\ shownIn' \in [Task -> SUBSET (Chat \cup {NoChat})] /\ PromiseInv'
    BY <1>1, <1>2, <1>5, ShowsFacts
  <2>4. shown[t] \in Nat
    BY <1>2, <1>3
  <2>5. LoopInv'
    BY <1>2, <1>5, <2>1, <2>2, <2>3, <2>4 DEF LoopInv
  <2>6. ShownInv'
    <3>1. ASSUME NEW u \in Task \ doubtful
          PROVE  shown'[u] <= 1 /\ (shown'[u] = 1 => Closed(u) \/ u = t)
      <4>1. CASE u = t
        BY <1>2, <1>4, <2>3, <2>4, <4>1 DEF Closed
      <4>2. CASE u # t
        BY <1>4, <2>3, <4>2
      <4>3. QED
        BY <4>1, <4>2
    <3>2. QED
      BY <1>5, <2>1, <2>2, <3>1 DEF ShownInv, Closed
  <2>7. QED
    BY <1>1, <1>3, <1>5, <2>1, <2>3, <2>5, <2>6, Delivers
<1>6. CASE DeliveryFails /\ UNCHANGED <<shown, shownIn, doubtful>>
  <2>1. /\ attempts' \in [Event -> 0..MaxClaims] /\ receipt' \in [Task -> Receipt]
        /\ loop' \in Loop /\ LoopInv'
        /\ \A u \in Task : Closed(u) => receipt'[u] \in {"completed", "failed"}
    BY <1>1, <1>2, <1>6, FailsFacts
  <2>2. PromiseInv'
    BY <1>2, <1>6 DEF InboxInv, PromiseInv
  <2>3. ShownInv'
    BY <1>4, <1>6, <2>1 DEF ShownInv, Closed
  <2>4. QED
    BY <1>1, <1>3, <1>6, <2>1, <2>2, <2>3, Delivers
<1>7. CASE Shows(t) /\ doubtful' = doubtful \cup {t} /\ DeliveryFails
  <2>1. /\ attempts' \in [Event -> 0..MaxClaims] /\ receipt' \in [Task -> Receipt]
        /\ loop' \in Loop /\ LoopInv'
        /\ \A u \in Task : Closed(u) => receipt'[u] \in {"completed", "failed"}
    BY <1>1, <1>2, <1>7, FailsFacts
  <2>2. /\ shown' \in [Task -> Nat]
        /\ \A u \in Task : u # t => shown'[u] = shown[u]
        /\ shownIn' \in [Task -> SUBSET (Chat \cup {NoChat})] /\ PromiseInv'
    BY <1>1, <1>2, <1>7, ShowsFacts
  <2>3. ShownInv'
    <3>1. ASSUME NEW u \in Task \ doubtful'
          PROVE  shown'[u] <= 1 /\ (shown'[u] = 1 => receipt'[u] \in {"completed", "failed"})
      BY <1>4, <1>7, <2>1, <2>2
    <3>2. QED
      BY <3>1 DEF ShownInv, Closed
  <2>4. doubtful' \subseteq Task
    BY <1>2, <1>3, <1>7
  <2>5. QED
    BY <1>1, <1>3, <2>1, <2>2, <2>3, <2>4, Delivers
<1>8. QED
  BY <1>5, <1>6, <1>7 DEF DeliverText, LoopTask

LEMMA BotCrashesInv ==
  ASSUME InboxInv, BotCrashes
  PROVE  InboxInv'
<1> DEFINE t == LoopTask
<1>1. /\ loop.at # "idle" /\ crashes' \in Nat /\ loop' = Rest
      /\ UNCHANGED <<folders, attempts, receipt>>
  BY DEF BotCrashes, folders, files, torn, InboxInv, InboxTypeOK, WireOK
<1>2. UNCHANGED <<registration, promised>> /\ t \in Task
  BY <1>1, InHand DEF folders
<1>3. /\ attempts \in [Event -> 0..MaxClaims] /\ receipt \in [Task -> Receipt]
      /\ shown \in [Task -> Nat] /\ shownIn \in [Task -> SUBSET (Chat \cup {NoChat})]
      /\ doubtful \subseteq Task
  BY DEF InboxInv, InboxTypeOK, InboxOK
<1>4. loop' \in Loop /\ LoopInv' /\ loop'.at = "idle"
  <2>1. loop'.at = "idle" /\ loop' \in Loop
    BY <1>1 DEF Rest, Loop, LoopStep
  <2>2. QED
    BY <2>1 DEF LoopInv
<1>5. CASE Shows(t) /\ doubtful' = doubtful \cup {t} /\ loop.at \in {"deliver", "redeliver"}
  <2>1. /\ shown' \in [Task -> Nat]
        /\ \A u \in Task : u # t => shown'[u] = shown[u]
        /\ shownIn' \in [Task -> SUBSET (Chat \cup {NoChat})] /\ PromiseInv'
    BY <1>1, <1>2, <1>5, ShowsFacts
  <2>2. ShownInv'
    <3>1. ASSUME NEW u \in Task \ doubtful'
          PROVE  shown'[u] <= 1 /\ (shown'[u] = 1 => Closed(u))
      BY <1>1, <1>5, <2>1 DEF InboxInv, ShownInv
    <3>2. QED
      BY <1>1, <3>1 DEF ShownInv, Closed
  <2>3. doubtful' \subseteq Task
    BY <1>2, <1>3, <1>5
  <2>4. QED
    BY <1>1, <1>3, <1>4, <2>1, <2>2, <2>3, Delivers
<1>6. CASE /\ doubtful' = IF loop.at = "complete" THEN doubtful \cup {t} ELSE doubtful
           /\ UNCHANGED <<shown, shownIn>>
  <2>1. PromiseInv'
    BY <1>2, <1>6 DEF InboxInv, PromiseInv
  <2>2. ShownInv'
    <3>1. ASSUME NEW u \in Task \ doubtful'
          PROVE  shown[u] <= 1 /\ (shown[u] = 1 => Closed(u))
      BY <1>6 DEF InboxInv, ShownInv
    <3>2. QED
      BY <1>1, <1>6, <3>1 DEF ShownInv, Closed
  <2>3. doubtful' \subseteq Task
    BY <1>2, <1>3, <1>6
  <2>4. QED
    BY <1>1, <1>3, <1>4, <1>6, <2>1, <2>2, <2>3, Delivers
<1>7. QED
  BY <1>5, <1>6 DEF BotCrashes, LoopTask

-----------------------------------------------------------------------------
(* The specification *)

LEMMA ReceiveInv ==
  ASSUME InboxInv, NEW s \in Slot, Receive(s) \/ ReceiverDies(s)
  PROVE  InboxInv'
<1>1. CASE ReadEvent(s) \/ CheckSeen(s) \/ CheckNew(s) \/ CheckReceipt(s)
           \/ CheckFolders(s) \/ CheckPeers(s)
  BY <1>1, LooksInv
<1>2. CASE WriteNew(s)
  BY <1>2, WriteNewInv
<1>3. CASE MarkSeen(s)
  BY <1>3, MarkSeenInv
<1>4. CASE ReceiverDies(s)
  BY <1>4, ReceiverDiesInv
<1>5. QED
  BY <1>1, <1>2, <1>3, <1>4 DEF Receive

LEMMA ScanInv ==
  ASSUME InboxInv, Scan
  PROVE  InboxInv'
<1>1. CASE \E e \in Event : Recover(e) \/ Resume(e)
  BY <1>1, TakesUpInv
<1>2. CASE \E e \in Event : Claim(e)
  BY <1>2, ClaimInv
<1>3. CASE UnlinkNew \/ CloseEvent \/ DropClaimed
  BY <1>3, MovesInv
<1>4. CASE Process
  BY <1>4, ProcessInv
<1>5. CASE PersistText \/ CompleteReceipt
  BY <1>5, ReceiptInv
<1>6. CASE DeliverText
  BY <1>6, DeliverTextInv
<1>7. CASE SendNotice
  BY <1>7, SendNoticeInv
<1>8. QED
  BY <1>1, <1>2, <1>3, <1>4, <1>5, <1>6, <1>7 DEF Scan

LEMMA InboxNextInv ==
  ASSUME InboxInv, InboxNext
  PROVE  InboxInv'
<1>1. CASE \E t \in Task, c \in Chat : Register(t, c)
  BY <1>1, RegisterInv
<1>2. CASE \E s \in Slot : Receive(s) \/ ReceiverDies(s)
  BY <1>2, ReceiveInv
<1>3. CASE Scan
  BY <1>3, ScanInv
<1>4. CASE BotCrashes
  BY <1>4, BotCrashesInv
<1>5. CASE \E e \in Event : ClaimDies(e)
  BY <1>5, ClaimDiesInv
<1>6. CASE \E c \in Lively : TurnStarts(c) \/ TurnEnds(c)
  BY <1>6, TurnInv
<1>7. QED
  BY <1>1, <1>2, <1>3, <1>4, <1>5, <1>6 DEF InboxNext

LEMMA InitInboxInv ==
  ASSUME InboxInit, WireInit
  PROVE  InboxInv
<1>1. PICK t \in Task :
        ssh = [s \in Slot |-> [at |-> "idle", task |-> t, ev |-> NoEvent, reply |-> ""]]
  BY DEF WireInit
<1>2. \A s \in Slot : /\ ssh[s].at = "idle" /\ ssh[s].ev = NoEvent /\ ssh[s].reply = ""
                      /\ ssh[s] \in Receiver
  BY <1>1 DEF Receiver, Step, Reply
<1>3. WireOK
  BY <1>1, <1>2 DEF WireInit, WireOK
<1>4. loop = Rest /\ loop.at = "idle" /\ loop \in Loop
  BY DEF InboxInit, Rest, Loop, LoopStep
<1>5. InboxOK
  BY <1>4, InboxAssumption DEF InboxInit, InboxOK, Receipt
<1>6. WireInv
  BY <1>2 DEF WireInv, ReceiverOK, Reading
<1>7. FileInv
  BY DEF InboxInit, FileInv, Held
<1>8. LoopInv /\ PromiseInv
  BY <1>4 DEF InboxInit, LoopInv, PromiseInv
<1>9. ShownInv
  BY DEF InboxInit, ShownInv
<1>10. QED
  BY <1>3, <1>5, <1>6, <1>7, <1>8, <1>9 DEF InboxInv, InboxTypeOK

LEMMA StutterInboxInv ==
  ASSUME InboxInv, UNCHANGED inbox
  PROVE  InboxInv'
<1>1. UNCHANGED <<inboxVars, ssh, line, crashes>>
  BY DEF inbox
<1>2. WireOK' /\ WireInv'
  BY <1>1, SameFiles, WireKept DEF InboxInv, InboxTypeOK, WireOK
<1>3. QED
  BY <1>1, <1>2, WireMoves

LEMMA InboxInvariant == InboxSpec => []InboxInv
<1>1. AloneInit => InboxInv
  BY InitInboxInv DEF AloneInit
<1>2. InboxInv /\ [InboxNext \/ CallerStep]_inbox => InboxInv'
  BY InboxNextInv, CallerInv, StutterInboxInv
<1>3. QED
  BY <1>1, <1>2, PTL DEF InboxSpec, inbox

-----------------------------------------------------------------------------
(* What the runs check *)

\* Types, and no claim is tried more often than MaxClaims.
THEOREM InboxTyped == InboxSpec => []InboxTypeOK
<1>1. InboxInv => InboxTypeOK
  BY DEF InboxInv
<1>2. QED
  BY <1>1, InboxInvariant, PTL

\* A result is shown once, unless the outcome of a delivery was lost.
THEOREM ResultShownOnce == InboxSpec => []ShownOnce
<1>1. InboxInv => ShownOnce
  BY DEF InboxInv, ShownInv, ShownOnce
<1>2. QED
  BY <1>1, InboxInvariant, PTL

LEMMA PromiseMeansOne ==
  ASSUME InboxInv
  PROVE  ShownWherePromised
<1>1. ASSUME NEW t \in Task
      PROVE  /\ Cardinality(promised[t]) <= 1
             /\ promised[t] # {} => shownIn[t] \subseteq promised[t]
             /\ NoChat \notin shownIn[t]
  <2>1. /\ promised[t] \subseteq {registration[t]} \ {NoChat}
        /\ shownIn[t] \subseteq {registration[t]} \ {NoChat}
    BY DEF InboxInv, PromiseInv
  <2>2. promised[t] = {} \/ promised[t] = {registration[t]}
    BY <2>1
  <2>3. Cardinality(promised[t]) <= 1
    <3>1. Cardinality({}) = 0 /\ Cardinality({registration[t]}) = 1
      BY FS_EmptySet, FS_Singleton
    <3>2. QED
      BY <2>2, <3>1
  <2>4. QED
    BY <2>1, <2>2, <2>3
<1>2. QED
  BY <1>1 DEF ShownWherePromised

\* A task is promised to one conversation at most, and its result is shown in
\* no other.
THEOREM ResultShownWherePromised == InboxSpec => []ShownWherePromised
  BY InboxInvariant, PromiseMeansOne, PTL

-----------------------------------------------------------------------------
(* The promise of CallbackDelivery *)

results == [t \in Task |-> ResultOf(t)]

\* The result of one task moves as CallbackDelivery lets it, or not at all.
ResultMoves(t) ==
  \/ ResultOf(t) = "open" /\ ResultOf(t)' = "accepted" /\ shown' = shown
  \/ /\ ResultOf(t) = "accepted" /\ ResultOf(t)' \in {"accepted", "failed"}
     /\ shown' = [shown EXCEPT ![t] = @ + 1]
  \/ ResultOf(t) = "accepted" /\ ResultOf(t)' = "failed" /\ shown' = shown
  \/ /\ ResultOf(t) = "accepted" /\ ResultOf(t)' = "completed"
     /\ shown' = shown /\ shown[t] > 0
  \/ ResultOf(t)' = ResultOf(t) /\ shown' = shown

LEMMA OneResultMoves ==
  ASSUME NEW t \in Task, ResultMoves(t), \A u \in Task \ {t} : ResultOf(u)' = ResultOf(u)
  PROVE  [Delivery!Next]_<<results, shown>>
<1>1. /\ results[t] = ResultOf(t) /\ results' = [results EXCEPT ![t] = ResultOf(t)']
  BY DEF results
<1>2. ResultOf(t)' = ResultOf(t) => results' = results
  BY <1>1 DEF results
<1>3. CASE ResultOf(t) = "open" /\ ResultOf(t)' = "accepted" /\ shown' = shown
  <2>1. Delivery!Accept(t)
    BY <1>1, <1>3 DEF Delivery!Accept, results
  <2>2. QED
    BY <2>1 DEF Delivery!Next
<1>4. CASE /\ ResultOf(t) = "accepted" /\ ResultOf(t)' \in {"accepted", "failed"}
           /\ shown' = [shown EXCEPT ![t] = @ + 1]
  <2>1. Delivery!Show(t)
    BY <1>1, <1>2, <1>4 DEF Delivery!Show, results
  <2>2. QED
    BY <2>1 DEF Delivery!Next
<1>5. CASE /\ ResultOf(t) = "accepted" /\ shown' = shown
           /\ ResultOf(t)' = "failed" \/ (ResultOf(t)' = "completed" /\ shown[t] > 0)
  <2>1. Delivery!Close(t)
    BY <1>1, <1>5 DEF Delivery!Close, results
  <2>2. QED
    BY <2>1 DEF Delivery!Next
<1>6. QED
  BY <1>2, <1>3, <1>4, <1>5 DEF ResultMoves

\* A result of t can be delivered.
Arrived(t) == \E e \in (new \ tornNew) \cup claimed : EventTask[e] = t

LEMMA ResultOfArrived ==
  ASSUME NEW t
  PROVE  ResultOf(t) = IF Closed(t) THEN receipt[t] ELSE IF Arrived(t) THEN "accepted" ELSE "open"
  BY DEF ResultOf, Arrived

LEMMA SameResult ==
  ASSUME NEW u \in Task, receipt'[u] = receipt[u], Closed(u) \/ (Arrived(u)' <=> Arrived(u))
  PROVE  ResultOf(u)' = ResultOf(u)
<1>1. Closed(u)' <=> Closed(u)
  BY DEF Closed
<1>2. ResultOf(u)' = IF Closed(u)' THEN receipt'[u]
                    ELSE IF Arrived(u)' THEN "accepted" ELSE "open"
  BY ResultOfArrived DEF ResultOf, Arrived
<1>3. QED
  BY <1>1, <1>2, ResultOfArrived

LEMMA SameResults ==
  ASSUME UNCHANGED <<receipt, shown>>,
         \A u \in Task : Closed(u) \/ (Arrived(u)' <=> Arrived(u))
  PROVE  [Delivery!Next]_<<results, shown>>
<1>1. \A u \in Task : ResultOf(u)' = ResultOf(u)
  BY SameResult
<1>2. results' = results
  BY <1>1 DEF results
<1>3. QED
  BY <1>2

\* The loop acts on the event in hand: the receipts of the other tasks stay, and so
\* do the files that await a delivery.
LEMMA LoopResult ==
  ASSUME InboxInv, loop.at # "idle", UNCHANGED <<new, tornNew, claimed>>,
         \A u \in Task \ {LoopTask} : receipt'[u] = receipt[u]
  PROVE  /\ \A u \in Task \ {LoopTask} : ResultOf(u)' = ResultOf(u)
         /\ ResultOf(LoopTask) = IF Closed(LoopTask) THEN receipt[LoopTask] ELSE "accepted"
         /\ \A t \in Task : t = LoopTask =>
              ResultOf(t)' = IF receipt'[t] \in {"completed", "failed"} THEN receipt'[t]
                             ELSE "accepted"
<1>1. \A u \in Task : Arrived(u)' <=> Arrived(u)
  BY DEF Arrived
<1>2. \A u \in Task \ {LoopTask} : ResultOf(u)' = ResultOf(u)
  BY <1>1, SameResult
<1>3. Arrived(LoopTask) /\ LoopTask \in Task
  BY InHand DEF Arrived, LoopTask
<1>4. ASSUME NEW t \in Task, t = LoopTask
      PROVE  ResultOf(t)' = IF receipt'[t] \in {"completed", "failed"} THEN receipt'[t]
                            ELSE "accepted"
  <2>1. Arrived(t)'
    BY <1>1, <1>3, <1>4
  <2>2. QED
    BY <2>1 DEF ResultOf, Arrived, Closed
<1>5. QED
  BY <1>2, <1>3, <1>4, ResultOfArrived

\* The steps that neither write a receipt nor show a text.
LEMMA QuietStep ==
  ASSUME InboxInv,
         \/ \E t \in Task, c \in Chat : Register(t, c)
         \/ \E e \in Event : Recover(e) \/ Resume(e) \/ Claim(e) \/ ClaimDies(e)
         \/ UnlinkNew \/ SendNotice \/ CloseEvent \/ DropClaimed
         \/ \E c \in Lively : TurnStarts(c) \/ TurnEnds(c)
  PROVE  [Delivery!Next]_<<results, shown>>
<1>1. CASE \/ \E t \in Task, c \in Chat : Register(t, c)
           \/ \E e \in Event : Recover(e) \/ Resume(e)
           \/ SendNotice \/ CloseEvent
           \/ \E c \in Lively : TurnStarts(c) \/ TurnEnds(c)
  <2>1. UNCHANGED <<receipt, shown, new, tornNew, claimed>>
    BY <1>1 DEF Register, Recover, Resume, SendNotice, CloseEvent, TurnStarts, TurnEnds,
                files, torn
  <2>2. QED
    BY <2>1, SameResults DEF Arrived
<1>2. CASE \E e \in Event : Claim(e) \/ ClaimDies(e)
  <2>1. PICK e \in Event : Claim(e) \/ ClaimDies(e)
    BY <1>2
  <2>2. /\ e \in new \ tornNew /\ claimed' = claimed \cup {e}
        /\ UNCHANGED <<receipt, shown, new, tornNew>>
    BY <2>1 DEF Claim, ClaimDies, torn
  <2>3. \A u \in Task : Arrived(u)' <=> Arrived(u)
    BY <2>2 DEF Arrived
  <2>4. QED
    BY <2>2, <2>3, SameResults
<1>3. CASE UnlinkNew
  <2>1. new' = new \ {loop.ev} /\ UNCHANGED <<receipt, shown, claimed, tornNew>>
        /\ loop.at # "idle"
    BY <1>3 DEF UnlinkNew, torn
  <2>2. loop.ev \in claimed
    BY <2>1, InHand
  <2>3. \A u \in Task : Arrived(u)' <=> Arrived(u)
    BY <2>1, <2>2 DEF Arrived
  <2>4. QED
    BY <2>1, <2>3, SameResults
<1>4. CASE DropClaimed
  <2>1. /\ claimed' = claimed \ {loop.ev} /\ UNCHANGED <<receipt, shown, new, tornNew>>
        /\ receipt[LoopTask] = loop.to /\ loop.to \in {"completed", "failed"}
    BY <1>4, LoopFields DEF DropClaimed, torn, InboxInv, InboxTypeOK, LoopInv
  <2>2. \A u \in Task : u # LoopTask => (Arrived(u)' <=> Arrived(u))
    BY <2>1 DEF Arrived, LoopTask
  <2>3. Closed(LoopTask)
    BY <2>1 DEF Closed
  <2>4. QED
    BY <2>1, <2>2, <2>3, SameResults
<1>5. QED
  BY <1>1, <1>2, <1>3, <1>4

LEMMA ReceiverRefines ==
  ASSUME InboxInv, NEW s \in Slot, Receive(s) \/ ReceiverDies(s)
  PROVE  [Delivery!Next]_<<results, shown>>
<1> DEFINE e == ssh[s].ev
<1>1. UNCHANGED <<receipt, shown, claimed>>
  BY DEF Receive, ReceiverDies, ReadEvent, CheckSeen, CheckNew, CheckReceipt, CheckFolders,
         CheckPeers, WriteNew, MarkSeen, inboxVars
<1>2. CASE UNCHANGED <<new, tornNew>>
  BY <1>1, <1>2, SameResults DEF Arrived
<1>3. CASE e \notin new /\ new' = new \cup {e} /\ tornNew' = tornNew \cup {e}
  <2>1. \A u \in Task : Arrived(u)' <=> Arrived(u)
    BY <1>1, <1>3 DEF Arrived
  <2>2. QED
    BY <1>1, <2>1, SameResults
<1>4. CASE WriteNew(s) /\ new' = new \cup {e} /\ tornNew' = tornNew
  <2>1. ssh[s].at \in Reading /\ WireOK /\ ReceiverOK(s)
    BY <1>4 DEF WriteNew, Reading, InboxInv, InboxTypeOK, WireInv
  <2>2. e \in Event
    BY <2>1, ReceiverFields DEF ReceiverOK
  <2>3. PICK t \in Task : t = EventTask[e]
    BY <2>2, EventTaskType
  <2>4. \A u \in Task \ {t} : Arrived(u)' <=> Arrived(u)
    BY <1>1, <1>4, <2>3 DEF Arrived
  <2>5. \A u \in Task \ {t} : ResultOf(u)' = ResultOf(u)
    BY <1>1, <2>4, SameResult
  <2>6. ResultMoves(t)
    <3>1. CASE Closed(t)
      <4>1. ResultOf(t)' = ResultOf(t)
        BY <1>1, <3>1, SameResult
      <4>2. QED
        BY <1>1, <4>1 DEF ResultMoves
    <3>2. CASE ~Closed(t)
      <4>1. Arrived(t) => Arrived(t)'
        BY <1>1, <1>4 DEF Arrived
      <4>2. CASE Arrived(t)
        <5>1. ResultOf(t)' = ResultOf(t)
          BY <1>1, <4>1, <4>2, SameResult
        <5>2. QED
          BY <1>1, <5>1 DEF ResultMoves
      <4>3. CASE ~Arrived(t)
        <5>1. ResultOf(t) = "open"
          BY <3>2, <4>3, ResultOfArrived
        <5>2. ~Closed(t)'
          BY <1>1, <3>2 DEF Closed
        <5>3. ResultOf(t)' \in {"open", "accepted"}
          BY <5>2 DEF ResultOf
        <5>4. QED
          BY <1>1, <5>1, <5>3 DEF ResultMoves
      <4>4. QED
        BY <4>2, <4>3
    <3>3. QED
      BY <3>1, <3>2
  <2>7. QED
    BY <2>5, <2>6, OneResultMoves
<1>5. QED
  BY <1>2, <1>3, <1>4 DEF Receive, ReceiverDies, ReadEvent, CheckSeen, CheckNew, CheckReceipt,
         CheckFolders, CheckPeers, WriteNew, MarkSeen, inboxVars, torn

\* A delivery and the receipts around it.
LEMMA DeliveryRefines ==
  ASSUME InboxInv, Process \/ PersistText \/ DeliverText \/ CompleteReceipt \/ BotCrashes
  PROVE  [Delivery!Next]_<<results, shown>>
<1>1. loop.at # "idle" /\ UNCHANGED <<new, tornNew, claimed>>
  BY DEF Process, PersistText, DeliverText, CompleteReceipt, BotCrashes, files, torn
<1>2. PICK t \in Task : t = LoopTask
  BY <1>1, InHand
<1>3. receipt \in [Task -> Receipt] /\ shown \in [Task -> Nat] /\ loop.ev \in Event
  BY <1>1, InHand DEF InboxInv, InboxTypeOK, InboxOK
<1>4. ASSUME NEW r, receipt' = [receipt EXCEPT ![t] = r] \/ (receipt' = receipt /\ r = receipt[t])
      PROVE  /\ \A u \in Task \ {t} : ResultOf(u)' = ResultOf(u)
             /\ ResultOf(t) = IF Closed(t) THEN receipt[t] ELSE "accepted"
             /\ ResultOf(t)' = IF r \in {"completed", "failed"} THEN r ELSE "accepted"
  <2>1. receipt'[t] = r /\ \A u \in Task \ {t} : receipt'[u] = receipt[u]
    BY <1>3, <1>4
  <2>2. QED
    BY <1>1, <1>2, <2>1, LoopResult
<1>5. CASE receipt' = receipt /\ shown' = shown
  BY <1>1, <1>5, SameResults DEF Arrived
<1>6. CASE PersistText
  <2>1. receipt[t] = "none" /\ receipt' = [receipt EXCEPT ![t] = "pending"] /\ shown' = shown
    BY <1>2, <1>6 DEF PersistText, InboxInv, LoopInv, LoopTask
  <2>2. ResultOf(t)' = ResultOf(t) /\ \A u \in Task \ {t} : ResultOf(u)' = ResultOf(u)
    BY <1>4, <2>1 DEF Closed
  <2>3. QED
    BY <2>1, <2>2, OneResultMoves DEF ResultMoves
<1>7. CASE Process /\ receipt' # receipt
  <2>1. receipt' = [receipt EXCEPT ![t] = "failed"] /\ shown' = shown
        /\ StartOf(loop.ev) = "notice"
    BY <1>2, <1>7 DEF Process, LoopTask
  <2>2. receipt[t] = "none"
    BY <1>2, <1>3, <2>1, StartOfFacts DEF LoopTask
  <2>3. /\ \A u \in Task \ {t} : ResultOf(u)' = ResultOf(u)
        /\ ResultOf(t) = "accepted" /\ ResultOf(t)' = "failed"
    BY <1>4, <2>1, <2>2 DEF Closed
  <2>4. QED
    BY <2>1, <2>3, OneResultMoves DEF ResultMoves
<1>8. CASE CompleteReceipt
  <2>1. /\ receipt[t] = "pending" /\ receipt' = [receipt EXCEPT ![t] = "completed"]
        /\ shown' = shown /\ shown[t] > 0
    BY <1>2, <1>8 DEF CompleteReceipt, InboxInv, LoopInv, LoopTask
  <2>2. /\ \A u \in Task \ {t} : ResultOf(u)' = ResultOf(u)
        /\ ResultOf(t) = "accepted" /\ ResultOf(t)' = "completed"
    BY <1>4, <2>1 DEF Closed
  <2>3. QED
    BY <2>1, <2>2, OneResultMoves DEF ResultMoves
<1>9. CASE DeliverText \/ BotCrashes
  <2>1. CASE loop.at \in {"deliver", "redeliver"}
    <3>1. receipt[t] = "pending"
      BY <1>2, <2>1 DEF InboxInv, LoopInv
    <3>2. \/ receipt' = receipt
          \/ receipt' = [receipt EXCEPT ![t] = "failed"]
      BY <1>2, <1>9 DEF DeliverText, DeliveryFails, BotCrashes, files, LoopTask
    <3>3. shown' = shown \/ shown' = [shown EXCEPT ![t] = @ + 1]
      BY <1>2, <1>9 DEF DeliverText, BotCrashes, Shows, LoopTask
    <3>4. /\ \A u \in Task \ {t} : ResultOf(u)' = ResultOf(u)
          /\ ResultOf(t) = "accepted" /\ ResultOf(t)' \in {"accepted", "failed"}
      BY <1>4, <3>1, <3>2 DEF Closed
    <3>5. ResultMoves(t)
      BY <3>3, <3>4 DEF ResultMoves
    <3>6. QED
      BY <3>4, <3>5, OneResultMoves
  <2>2. CASE loop.at \notin {"deliver", "redeliver"}
    <3>1. receipt' = receipt /\ shown' = shown
      BY <1>9, <2>2 DEF DeliverText, BotCrashes, files
    <3>2. QED
      BY <1>5, <3>1
  <2>3. QED
    BY <2>1, <2>2
<1>10. QED
  <2>1. CASE Process /\ receipt' = receipt
    BY <1>5, <2>1 DEF Process
  <2>2. QED
    BY <1>6, <1>7, <1>8, <1>9, <2>1

LEMMA StepRefines ==
  ASSUME InboxInv, [InboxNext \/ CallerStep]_inbox
  PROVE  [Delivery!Next]_<<results, shown>>
<1>1. CASE CallerStep \/ UNCHANGED inbox
  <2>1. UNCHANGED <<receipt, shown, new, tornNew, claimed>>
    BY <1>1 DEF CallerStep, inbox, inboxVars, torn
  <2>2. QED
    BY <2>1, SameResults DEF Arrived
<1>2. CASE \E s \in Slot : Receive(s) \/ ReceiverDies(s)
  BY <1>2, ReceiverRefines
<1>3. CASE Process \/ PersistText \/ DeliverText \/ CompleteReceipt \/ BotCrashes
  BY <1>3, DeliveryRefines
<1>4. CASE \/ \E t \in Task, c \in Chat : Register(t, c)
           \/ \E e \in Event : Recover(e) \/ Resume(e) \/ Claim(e) \/ ClaimDies(e)
           \/ UnlinkNew \/ SendNotice \/ CloseEvent \/ DropClaimed
           \/ \E c \in Lively : TurnStarts(c) \/ TurnEnds(c)
  BY <1>4, QuietStep
<1>5. QED
  BY <1>1, <1>2, <1>3, <1>4 DEF InboxNext, Scan

\* The inbox implements CallbackDelivery: a text is shown for an accepted result
\* only, a receipt closes it for good, and "completed" means that it was shown.
THEOREM ImplementsDelivery == InboxSpec => DeliverySpec
<1>1. AloneInit => Delivery!Init
  <2>1. ASSUME AloneInit, NEW t \in Task PROVE ResultOf(t) = "open"
    BY <2>1 DEF AloneInit, InboxInit, ResultOf, Closed
  <2>2. QED
    BY <2>1 DEF Delivery!Init, AloneInit, InboxInit
<1>2. InboxInv /\ [InboxNext \/ CallerStep]_inbox => [Delivery!Next]_<<results, shown>>
  BY StepRefines
<1>3. InboxSpec => []InboxInv
  BY InboxInvariant
<1>4. QED
  BY <1>1, <1>2, <1>3, PTL DEF InboxSpec, inbox, DeliverySpec, Delivery!Spec, results

=============================================================================
