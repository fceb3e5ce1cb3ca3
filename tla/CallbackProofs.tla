--------------------------- MODULE CallbackProofs ---------------------------
(***************************************************************************)
(* The two hosts of the background callback together, for any number of    *)
(* tasks, records, results, receivers, attempts and crashes: types, the    *)
(* results WEB1 holds and those HMS has written down, the verdict that is  *)
(* made once, and what the outbox calls sent.                              *)
(***************************************************************************)
EXTENDS CallbackSystem, InboxProofs

Finals == {disk[r].final : r \in Record}

\* A record goes through probe, verdict and result in this order; as long as it is
\* tried again, the probe has attempts left.
DocOK(r, doc) ==
  /\ doc \in Doc
  /\ doc.probe \in {"none", "registered"}
  /\ doc.probe = "registered" => Known(RecordTask[r])
  /\ doc.probe = "none" => ~doc.verdict /\ doc.attempts < MaxAttempts
  /\ ~doc.verdict => doc.final = NoEvent
  /\ doc.attempts <= MaxAttempts

\* Its file says so, and whether there was a verifier turn.
FilesInv ==
  \A r \in Record :
    DocOK(r, disk[r]) /\ verified[r] = IF disk[r].verdict THEN 1 ELSE 0

\* The drain has the file in hand as it is on disk, at the step the file asks for.
DrainInv ==
  /\ drain.at # "idle" => drain.rec \in Record
  /\ drain.at \notin {"idle", "unlink"} =>
       drain.doc = disk[drain.rec] /\ drain.rec \notin sent
  /\ drain.at \in {"probe", "probing"} => drain.doc.probe = "none"
  /\ drain.at = "verify" => drain.doc.probe = "registered" /\ ~drain.doc.verdict
  /\ drain.at = "build" => drain.doc.verdict /\ drain.doc.final = NoEvent
  /\ drain.at \in {"send", "sending"} => drain.doc.verdict /\ drain.doc.final # NoEvent

\* The process the drain waits for carries what the drain sent.
CallInv ==
  /\ line # NoSlot <=> drain.at \in {"probing", "sending"}
  /\ drain.at = "probing" =>
       ssh[line].ev = NoEvent /\ ssh[line].task = RecordTask[drain.rec]
  /\ drain.at = "sending" => ssh[line].ev = drain.doc.final

\* No receiver carries a result that is not on disk, also one nobody waits for.
CarriedInv == \A s \in Slot : ssh[s].ev # NoEvent => ssh[s].ev \in Finals

SystemInv ==
  /\ InboxInv /\ OutboxOK
  /\ FilesInv /\ DrainInv /\ CallInv /\ CarriedInv
  /\ HeldIsWrittenDown /\ SentIsHeld

-----------------------------------------------------------------------------
(* What WEB1 does, seen from HMS *)

\* The receivers keep what they were called with, results and registrations stay,
\* and a new result came with a receiver.
Served ==
  /\ Frozen /\ HeldGrows
  /\ \A s \in Slot : ssh'[s].ev = ssh[s].ev /\ ssh'[s].task = ssh[s].task
  /\ \A e \in Held' \ Held : \E s \in Slot : ssh[s].ev = e /\ e # NoEvent

LEMMA GoesToKeeps ==
  ASSUME WireOK, NEW s \in Slot, NEW a \in Step, GoesTo(s, a)
  PROVE  \A q \in Slot : ssh'[q].ev = ssh[q].ev /\ ssh'[q].task = ssh[q].task
<1>1. ssh'[s] = [ssh[s] EXCEPT !.at = a] /\ \A q \in Slot : q # s => ssh'[q] = ssh[q]
  BY GoesToFacts
<1>2. ssh'[s].ev = ssh[s].ev /\ ssh'[s].task = ssh[s].task
  BY <1>1, ReceiverFields DEF Receiver
<1>3. QED
  BY <1>1, <1>2

LEMMA AnswersKeeps ==
  ASSUME WireOK, NEW s \in Slot, NEW r \in Reply, Answers(s, r)
  PROVE  \A q \in Slot : ssh'[q].ev = ssh[q].ev /\ ssh'[q].task = ssh[q].task
  BY AnswersFacts

LEMMA ReceiverServes ==
  ASSUME InboxInv, NEW s \in Slot, Receive(s) \/ ReceiverDies(s)
  PROVE  Served
<1>1. WireOK /\ WireInv /\ FileInv /\ ReceiverOK(s)
  BY DEF InboxInv, InboxTypeOK, WireInv
<1>2. /\ {"seen", "new", "receipt", "claimed", "peers", "write", "mark"} \subseteq Step
      /\ {"stale_timestamp", "unknown_task", "registered", "replay", "conflict", "accepted",
          "broken"} \subseteq Reply
  BY DEF Step, Reply
<1>3. (\E a \in Step : GoesTo(s, a)) \/ (\E r \in Reply : Answers(s, r))
  <2>1. CASE ReadEvent(s)
    BY <1>2, <2>1 DEF ReadEvent
  <2>2. CASE CheckSeen(s) \/ CheckNew(s) \/ CheckReceipt(s)
    BY <1>2, <2>2 DEF CheckSeen, CheckNew, CheckReceipt
  <2>3. CASE CheckFolders(s) \/ CheckPeers(s)
    BY <1>2, <2>3 DEF CheckFolders, CheckPeers
  <2>4. CASE WriteNew(s) \/ MarkSeen(s) \/ ReceiverDies(s)
    BY <1>2, <2>4 DEF WriteNew, MarkSeen, ReceiverDies
  <2>5. QED
    BY <2>1, <2>2, <2>3, <2>4 DEF Receive
<1>4. \A q \in Slot : ssh'[q].ev = ssh[q].ev /\ ssh'[q].task = ssh[q].task
  BY <1>1, <1>3, GoesToKeeps, AnswersKeeps
<1>5. /\ UNCHANGED <<registration, claimed, completed, failed>>
      /\ new' = new \/ (new' = new \cup {ssh[s].ev} /\ ssh[s].at = "write")
  BY DEF Receive, ReceiverDies, ReadEvent, CheckSeen, CheckNew, CheckReceipt, CheckFolders,
         CheckPeers, WriteNew, MarkSeen, inboxVars
<1>6. Frozen /\ HeldGrows
  BY <1>5, Grows
<1>7. \A e \in Held' \ Held : ssh[s].ev = e /\ e # NoEvent
  <2>1. ssh[s].at = "write" => ssh[s].ev # NoEvent
    BY <1>1 DEF ReceiverOK, Reading
  <2>2. QED
    BY <1>5, <2>1 DEF Held
<1>8. QED
  BY <1>4, <1>6, <1>7 DEF Served

LEMMA LoopServes ==
  ASSUME InboxInv, Scan \/ BotCrashes \/ \E e \in Event : ClaimDies(e)
  PROVE  Served
<1>1. UNCHANGED <<registration, ssh>>
  BY DEF Scan, Recover, Claim, Resume, UnlinkNew, Process, PersistText, DeliverText,
         CompleteReceipt, SendNotice, CloseEvent, DropClaimed, BotCrashes, ClaimDies, files
<1>2. Frozen
  BY <1>1 DEF Frozen
<1>3. Held' = Held
  <2>1. CASE \E e \in Event : Claim(e) \/ ClaimDies(e)
    BY <2>1 DEF Claim, ClaimDies, Held
  <2>2. CASE UnlinkNew \/ CloseEvent \/ DropClaimed
    <3>1. loop.at # "idle"
      BY <2>2 DEF UnlinkNew, CloseEvent, DropClaimed
    <3>2. loop.ev \in claimed
      BY <3>1, InHand
    <3>3. loop.at = "drop" => loop.ev \in completed \cup failed
      BY DEF InboxInv, LoopInv
    <3>4. QED
      BY <2>2, <3>2, <3>3 DEF UnlinkNew, CloseEvent, DropClaimed, Held
  <2>3. CASE \/ \E e \in Event : Recover(e) \/ Resume(e)
             \/ Process \/ PersistText \/ DeliverText \/ CompleteReceipt \/ SendNotice
             \/ BotCrashes
    BY <2>3 DEF Recover, Resume, Process, PersistText, DeliverText, CompleteReceipt,
                SendNotice, BotCrashes, files, Held
  <2>4. QED
    BY <2>1, <2>2, <2>3 DEF Scan
<1>4. QED
  BY <1>1, <1>2, <1>3 DEF Served, HeldGrows

LEMMA InboxServes ==
  ASSUME InboxInv, InboxNext
  PROVE  Served /\ UNCHANGED line
<1>1. CASE \E t \in Task, c \in Chat : Register(t, c)
  <2>1. PICK t \in Task, c \in Chat : Register(t, c)
    BY <1>1
  <2>2. /\ registration' = [registration EXCEPT ![t] = Registered(t, c)]
        /\ UNCHANGED <<new, claimed, completed, failed, ssh, line>>
    BY <2>1 DEF Register
  <2>3. Frozen
    BY <2>2 DEF Frozen, Known, Registered, InboxInv, InboxTypeOK, InboxOK
  <2>4. Held' = Held
    BY <2>2 DEF Held
  <2>5. QED
    BY <2>2, <2>3, <2>4 DEF Served, HeldGrows
<1>2. CASE \E s \in Slot : Receive(s) \/ ReceiverDies(s)
  <2>1. line' = line
    BY <1>2 DEF Receive, ReceiverDies, ReadEvent, CheckSeen, CheckNew, CheckReceipt,
                CheckFolders, CheckPeers, WriteNew, MarkSeen
  <2>2. QED
    BY <1>2, <2>1, ReceiverServes
<1>3. CASE Scan \/ BotCrashes \/ \E e \in Event : ClaimDies(e)
  <2>1. line' = line
    BY <1>3 DEF Scan, Recover, Claim, Resume, UnlinkNew, Process, PersistText, DeliverText,
                CompleteReceipt, SendNotice, CloseEvent, DropClaimed, BotCrashes, ClaimDies
  <2>2. QED
    BY <1>3, <2>1, LoopServes
<1>4. CASE \E c \in Lively : TurnStarts(c) \/ TurnEnds(c)
  <2>1. UNCHANGED <<registration, new, claimed, completed, failed, ssh, line>>
    BY <1>4 DEF TurnStarts, TurnEnds, files
  <2>2. Frozen /\ Held' = Held
    BY <2>1 DEF Frozen, Held
  <2>3. QED
    BY <2>1, <2>2 DEF Served, HeldGrows
<1>5. QED
  BY <1>1, <1>2, <1>3, <1>4 DEF InboxNext

LEMMA InboxStepInv ==
  ASSUME SystemInv, InboxStep
  PROVE  SystemInv'
<1>1. /\ InboxNext /\ UNCHANGED outboxVars /\ InboxInv /\ OutboxOK
      /\ WireOK /\ WireOK'
  BY InboxNextInv DEF InboxStep, SystemInv, InboxInv, InboxTypeOK
<1>2. InboxInv' /\ Served /\ line' = line
  BY <1>1, InboxNextInv, InboxServes
<1>3. UNCHANGED <<pending, sent, gaveUp, disk, empty, todo, ran, drain, cooling, ids, verified>>
  BY <1>1 DEF outboxVars
<1>4. OutboxOK'
  BY <1>1, <1>3 DEF OutboxOK
<1>5. FilesInv'
  <2>1. ASSUME NEW r \in Record, NEW doc, DocOK(r, doc) PROVE DocOK(r, doc)'
    <3>1. RecordTask[r] \in Task
      BY OutboxAssumption
    <3>2. Known(RecordTask[r]) => registration'[RecordTask[r]] # NoChat
      BY <1>2, <3>1 DEF Served, Frozen, Known
    <3>3. QED
      BY <2>1, <3>2 DEF DocOK, Known
  <2>2. ASSUME NEW r \in Record PROVE DocOK(r, disk[r])'
    <3>1. DocOK(r, disk[r])
      BY DEF SystemInv, FilesInv
    <3>2. PICK doc : doc = disk[r]
      OBVIOUS
    <3>3. DocOK(r, doc)'
      BY <2>1, <3>1, <3>2
    <3>4. QED
      BY <1>3, <3>2, <3>3 DEF DocOK, Known
  <2>3. QED
    BY <1>3, <2>2 DEF SystemInv, FilesInv
<1>6. DrainInv'
  BY <1>3 DEF SystemInv, DrainInv
<1>7. CallInv'
  <2>1. line # NoSlot => ssh'[line].ev = ssh[line].ev /\ ssh'[line].task = ssh[line].task
    BY <1>1, <1>2 DEF WireOK, Served
  <2>2. QED
    BY <1>2, <1>3, <2>1 DEF SystemInv, CallInv
<1>8. Finals' = Finals
  BY <1>3 DEF Finals
<1>9. CarriedInv'
  BY <1>2, <1>8 DEF SystemInv, CarriedInv, Served
<1>10. HeldIsWrittenDown'
  <2>1. Held' \subseteq Finals
    BY <1>2 DEF SystemInv, HeldIsWrittenDown, Served, CarriedInv, Finals
  <2>2. QED
    BY <1>8, <2>1 DEF HeldIsWrittenDown, Finals
<1>11. SentIsHeld'
  BY <1>2, <1>3 DEF SystemInv, SentIsHeld, Served, HeldGrows
<1>12. QED
  BY <1>2, <1>4, <1>5, <1>6, <1>7, <1>9, <1>10, <1>11 DEF SystemInv

-----------------------------------------------------------------------------
(* The wire, seen from HMS *)

LEMMA CallsFacts ==
  ASSUME WireOK, WireInv, UNCHANGED inboxVars, UNCHANGED crashes,
         NEW s \in Slot, NEW call \in Receiver, Calls(s, call),
         call.at = "sent", call.reply = "",
         call.ev # NoEvent => call.task = EventTask[call.ev]
  PROVE  /\ WireOK' /\ WireInv' /\ line' = s /\ ssh'[s] = call
         /\ \A q \in Slot : q # s => ssh'[q] = ssh[q]
<1>1. ssh' = [ssh EXCEPT ![s] = call] /\ line' = s
  BY DEF Calls
<1>2. /\ ssh' \in [Slot -> Receiver] /\ ssh'[s] = call
      /\ \A q \in Slot : q # s => ssh'[q] = ssh[q]
  BY <1>1 DEF WireOK
<1>3. WireOK'
  BY <1>1, <1>2 DEF WireOK
<1>4. ReceiverOK(s)'
  BY <1>2 DEF ReceiverOK, Reading
<1>5. ASSUME NEW q \in Slot, q # s PROVE ReceiverOK(q)'
  BY <1>2, <1>5, SameFiles, OtherReceiver DEF WireInv
<1>6. QED
  BY <1>1, <1>2, <1>3, <1>4, <1>5 DEF WireInv

\* A call ends, or there is none.
LEMMA EndsFacts ==
  ASSUME WireOK, WireInv, UNCHANGED inboxVars, crashes' \in Nat,
         HangsUp \/ Abandons \/ NoCall
  PROVE  /\ WireOK' /\ WireInv' /\ line' = NoSlot
         /\ \A q \in Slot : ssh'[q].ev = ssh[q].ev
<1>1. line' = NoSlot
  BY DEF HangsUp, Abandons, NoCall
<1>2. Frozen /\ HeldGrows
  BY SameFiles
<1>3. CASE UNCHANGED ssh
  BY <1>1, <1>2, <1>3, WireKept DEF WireOK
<1>4. CASE line # NoSlot /\ ssh' = [ssh EXCEPT ![line].at = "idle", ![line].reply = ""]
  <2>1. line \in Slot /\ ssh[line] \in Receiver
    BY <1>4 DEF WireOK
  <2> DEFINE rec == [ssh[line] EXCEPT !.at = "idle", !.reply = ""]
  <2>2. ssh' = [ssh EXCEPT ![line] = rec]
    BY <1>4, <2>1 DEF WireOK
  <2>3. rec \in Receiver /\ rec.at = "idle" /\ rec.reply = ""
        /\ rec.ev = ssh[line].ev /\ rec.task = ssh[line].task
    BY <2>1 DEF Receiver, Step, Reply
  <2> HIDE DEF rec
  <2>4. /\ ssh' \in [Slot -> Receiver] /\ ssh'[line] = rec
        /\ \A q \in Slot : q # line => ssh'[q] = ssh[q]
    BY <2>1, <2>2, <2>3 DEF WireOK
  <2>5. ASSUME NEW q \in Slot PROVE ReceiverOK(q)'
    <3>1. CASE q = line
      <4>1. ReceiverOK(line)
        BY <2>1 DEF WireInv
      <4>2. QED
        BY <2>3, <2>4, <3>1, <4>1 DEF ReceiverOK, Reading
    <3>2. CASE q # line
      BY <1>2, <2>4, <3>2, OtherReceiver DEF WireInv
    <3>3. QED
      BY <3>1, <3>2
  <2>6. QED
    BY <1>1, <2>3, <2>4, <2>5 DEF WireOK, WireInv
<1>5. QED
  BY <1>3, <1>4 DEF HangsUp, Abandons, NoCall

-----------------------------------------------------------------------------
(* What the drain writes *)

DocsKept ==
  \A r \in Record :
    /\ DocOK(r, disk'[r])
    /\ verified'[r] = IF disk'[r].verdict THEN 1 ELSE 0
    /\ disk[r].final \in {NoEvent, disk'[r].final}

CarriedKept == \A s \in Slot : ssh'[s].ev # NoEvent => ssh'[s].ev \in Finals

SentKept == \A r \in sent' : disk'[r].final \in Held

\* A step of HMS keeps the invariant when the files, the drain and the call are right
\* again, no result is forgotten and what is sent is at WEB1.
LEMMA OutboxKeeps ==
  ASSUME SystemInv, UNCHANGED inboxVars, WireOK', WireInv', OutboxOK', DrainInv', CallInv',
         DocsKept, CarriedKept, SentKept
  PROVE  SystemInv'
<1>1. Held' = Held /\ registration' = registration
  BY DEF inboxVars, Held
<1>2. InboxInv'
  BY WireMoves DEF SystemInv
<1>3. FilesInv'
  BY <1>1 DEF FilesInv, DocsKept, DocOK, Known
<1>4. ASSUME NEW e \in Finals, e # NoEvent PROVE e \in Finals'
  <2>1. PICK r \in Record : disk[r].final = e
    BY DEF Finals
  <2>2. disk'[r].final = e
    BY <1>4, <2>1 DEF DocsKept
  <2>3. QED
    BY <2>2 DEF Finals
<1>5. CarriedInv'
  BY <1>4 DEF CarriedInv, CarriedKept
<1>6. HeldIsWrittenDown'
  <2>1. Held \subseteq Event /\ Held \subseteq Finals
    BY DEF SystemInv, InboxInv, InboxTypeOK, InboxOK, Held, HeldIsWrittenDown, Finals
  <2>2. Held' \subseteq Finals'
    BY <1>1, <1>4, <2>1, WireAssumption
  <2>3. QED
    BY <2>2 DEF HeldIsWrittenDown, Finals
<1>7. SentIsHeld'
  BY <1>1 DEF SentIsHeld, SentKept
<1>8. QED
  BY <1>2, <1>3, <1>5, <1>6, <1>7 DEF SystemInv

LEMMA SameDocs ==
  ASSUME SystemInv, UNCHANGED <<disk, verified>>
  PROVE  DocsKept
  BY DEF SystemInv, FilesInv, DocsKept

\* The steps between two records.
LEMMA BetweenInv ==
  ASSUME SystemInv, UNCHANGED inboxVars,
         \/ \E r \in Record : Enqueue(r) \/ CoolsDown(r) \/ Visit(r) \/ VisitEmpty(r)
         \/ StartPass \/ UnlinkPending
  PROVE  SystemInv'
<1>1. InboxInv /\ OutboxOK /\ WireOK /\ WireInv /\ crashes \in Nat
  BY DEF SystemInv, InboxInv, InboxTypeOK, WireOK
<1>2. /\ UNCHANGED <<disk, verified, sent, ids>> /\ NoCall
      /\ crashes' \in {crashes, crashes + 1}
  BY DEF Enqueue, CoolsDown, Visit, VisitEmpty, StartPass, UnlinkPending
<1>3. WireOK' /\ WireInv' /\ line' = NoSlot /\ UNCHANGED <<ssh, line>>
  BY <1>1, <1>2, EndsFacts DEF NoCall
<1>4. /\ pending' \subseteq Record /\ gaveUp' \subseteq Record /\ empty' \subseteq Record
      /\ todo' \subseteq Record /\ ran' \in BOOLEAN /\ cooling' \subseteq Record
  BY <1>1 DEF OutboxOK, Enqueue, CoolsDown, Visit, VisitEmpty, StartPass, UnlinkPending
<1>5. drain' \in Drain /\ DrainInv' /\ drain'.at \notin {"probing", "sending"}
  <2>1. drain.at \notin {"probing", "sending"} /\ drain \in Drain /\ DrainInv
    BY <1>1, <1>2 DEF SystemInv, CallInv, NoCall, OutboxOK
  <2>2. CASE drain' = drain
    BY <1>2, <2>1, <2>2 DEF DrainInv
  <2>3. CASE drain' = Resting
    <3>1. drain'.at = "idle" /\ drain' \in Drain
      BY <2>3 DEF Resting, Drain, DrainStep, Doc, Blank
    <3>2. QED
      BY <3>1 DEF DrainInv
  <2>4. ASSUME NEW r \in Record, Visit(r), drain' # drain
        PROVE  drain' \in Drain /\ DrainInv' /\ drain'.at \notin {"probing", "sending"}
    <3>1. DocOK(r, disk[r]) /\ disk[r] \in Doc
      BY <1>1 DEF SystemInv, FilesInv, OutboxOK
    <3>2. CASE r \in sent
      <4>1. drain' = [at |-> "unlink", rec |-> r, doc |-> disk[r]]
        BY <2>4, <3>2 DEF Visit
      <4>2. drain'.at = "unlink" /\ drain'.rec = r /\ drain' \in Drain
        BY <3>1, <4>1 DEF Drain, DrainStep
      <4>3. QED
        BY <4>2 DEF DrainInv
    <3>3. CASE r \notin sent
      <4> DEFINE a == Entry(disk[r])
      <4>1. drain' = [at |-> a, rec |-> r, doc |-> disk[r]]
        BY <2>4, <3>3 DEF Visit
      <4>2. /\ a \in {"probe", "verify", "build", "send"}
            /\ a = "probe" => disk[r].probe = "none"
            /\ a = "verify" => disk[r].probe # "none" /\ ~disk[r].verdict
            /\ a = "build" => disk[r].verdict /\ disk[r].final = NoEvent
            /\ a = "send" => disk[r].verdict /\ disk[r].final # NoEvent
        BY DEF Entry
      <4> HIDE DEF a
      <4>3. drain'.at = a /\ drain'.rec = r /\ drain'.doc = disk[r] /\ drain' \in Drain
        BY <3>1, <4>1, <4>2 DEF Drain, DrainStep
      <4>4. a = "verify" => disk[r].probe = "registered"
        BY <3>1, <4>2 DEF DocOK
      <4>5. QED
        BY <1>2, <3>3, <4>2, <4>3, <4>4 DEF DrainInv
    <3>4. QED
      BY <3>2, <3>3
  <2>5. QED
    BY <2>2, <2>3, <2>4 DEF Enqueue, CoolsDown, Visit, VisitEmpty, StartPass, UnlinkPending
<1>6. OutboxOK'
  BY <1>1, <1>2, <1>4, <1>5 DEF OutboxOK
<1>7. CallInv'
  BY <1>3, <1>5 DEF CallInv
<1>8. CarriedKept
  BY <1>3 DEF SystemInv, CarriedInv, CarriedKept
<1>9. SentKept
  BY <1>2 DEF SystemInv, SentIsHeld, SentKept
<1>10. QED
  BY <1>2, <1>3, <1>5, <1>6, <1>7, <1>8, <1>9, SameDocs, OutboxKeeps

-----------------------------------------------------------------------------
(* The steps of one record *)

LEMMA DrainFields ==
  ASSUME SystemInv, drain.at \notin {"idle", "unlink"}
  PROVE  /\ drain \in Drain /\ drain.at \in DrainStep /\ drain.rec \in Record
         /\ drain.doc = disk[drain.rec] /\ drain.doc \in Doc
         /\ DocOK(drain.rec, drain.doc) /\ drain.rec \notin sent
         /\ verified[drain.rec] = IF drain.doc.verdict THEN 1 ELSE 0
  BY DEF SystemInv, OutboxOK, DrainInv, FilesInv, Drain

LEMMA SendInv ==
  ASSUME SystemInv, UNCHANGED inboxVars, SendProbe \/ SendFinal
  PROVE  SystemInv'
<1>1. InboxInv /\ OutboxOK /\ WireOK /\ WireInv
  BY DEF SystemInv, InboxInv, InboxTypeOK
<1>2. /\ UNCHANGED <<pending, sent, gaveUp, disk, empty, todo, ran, cooling, ids, verified,
                     crashes>>
      /\ drain.at \in {"probe", "send"}
  BY DEF SendProbe, SendFinal
<1>3. /\ drain \in Drain /\ drain.rec \in Record /\ drain.doc = disk[drain.rec]
      /\ drain.rec \notin sent
  BY <1>2, DrainFields
<1>4. FreeSlot \in Slot
  BY DEF SendProbe, SendFinal, FreeSlot
<1> DEFINE s == FreeSlot
           call == IF drain.at = "probe" THEN Probe(RecordTask[drain.rec])
                   ELSE Final(drain.doc.final)
<1>5. /\ call \in Receiver /\ call.at = "sent" /\ call.reply = ""
      /\ call.ev # NoEvent => call.task = EventTask[call.ev]
      /\ drain.at = "probe" => call.ev = NoEvent /\ call.task = RecordTask[drain.rec]
      /\ drain.at = "send" => call.ev = drain.doc.final
  <2>1. CASE drain.at = "probe"
    <3>1. RecordTask[drain.rec] \in Task
      BY <1>3, OutboxAssumption
    <3>2. QED
      BY <2>1, <3>1, ProbeFields
  <2>2. CASE drain.at = "send"
    <3>1. PICK e \in Event : e = drain.doc.final
      BY <1>3, <2>2 DEF SystemInv, DrainInv, OutboxOK, Doc
    <3>2. call = Final(e)
      BY <2>2, <3>1
    <3>3. /\ Final(e) \in Receiver /\ Final(e).at = "sent" /\ Final(e).reply = ""
          /\ Final(e).task = EventTask[e] /\ Final(e).ev = e
      BY FinalFields
    <3> HIDE DEF call
    <3>4. QED
      BY <2>2, <3>1, <3>2, <3>3
  <2>3. QED
    BY <1>2, <2>1, <2>2
<1>6. Calls(s, call)
  BY DEF SendProbe, SendFinal
<1> HIDE DEF s, call
<1>7. /\ WireOK' /\ WireInv' /\ line' = s /\ ssh'[s] = call
      /\ \A q \in Slot : q # s => ssh'[q] = ssh[q]
  BY <1>1, <1>2, <1>4, <1>5, <1>6, CallsFacts DEF s
<1>8. /\ drain'.at = (IF drain.at = "probe" THEN "probing" ELSE "sending")
      /\ drain'.rec = drain.rec /\ drain'.doc = drain.doc /\ drain' \in Drain
  BY <1>2, <1>3 DEF SendProbe, SendFinal, Drain, DrainStep
<1>9. OutboxOK'
  BY <1>1, <1>2, <1>8 DEF OutboxOK
<1>10. DrainInv'
  BY <1>2, <1>3, <1>8 DEF SystemInv, DrainInv
<1>11. CallInv'
  BY <1>2, <1>4, <1>5, <1>7, <1>8, WireAssumption DEF CallInv, s
<1>12. CarriedKept
  <2>1. call.ev # NoEvent => call.ev \in Finals
    BY <1>2, <1>3, <1>5 DEF Finals
  <2>2. QED
    BY <1>7, <2>1 DEF SystemInv, CarriedInv, CarriedKept
<1>13. SentKept
  BY <1>2 DEF SystemInv, SentIsHeld, SentKept
<1>14. QED
  BY <1>2, <1>7, <1>9, <1>10, <1>11, <1>12, <1>13, SameDocs, OutboxKeeps

\* The file in hand is written, and the drain goes on with it, puts it off or gives
\* it up.
Written(doc) ==
  /\ disk' = [disk EXCEPT ![drain.rec] = doc]
  /\ gaveUp' \subseteq Record /\ cooling' \subseteq Record

LEMMA PersistFacts ==
  ASSUME SystemInv, drain.at \notin {"idle", "unlink"},
         NEW doc \in Doc, NEW a \in DrainStep, Persist(doc, a)
  PROVE  /\ Written(doc)
         /\ drain' \in Drain /\ drain'.at = a /\ drain'.rec = drain.rec /\ drain'.doc = doc
<1>1. drain \in Drain
  BY DrainFields
<1>2. drain' = [drain EXCEPT !.at = a, !.doc = doc] /\ UNCHANGED <<gaveUp, cooling>>
      /\ disk' = [disk EXCEPT ![drain.rec] = doc]
  BY DEF Persist
<1>3. QED
  BY <1>1, <1>2 DEF Drain, Written, SystemInv, OutboxOK

LEMMA FailsDocFacts ==
  ASSUME SystemInv, drain.at \notin {"idle", "unlink"}, NEW doc \in Doc, Fails(doc)
  PROVE  /\ Written(drain.doc)
         /\ drain' \in Drain /\ drain'.at = "unlink" /\ drain'.rec = drain.rec
<1>1. drain \in Drain /\ drain.rec \in Record /\ drain.doc = disk[drain.rec]
  BY DrainFields
<1>2. drain' = [drain EXCEPT !.at = "unlink", !.doc = doc] /\ UNCHANGED <<disk, cooling>>
      /\ gaveUp' = gaveUp \cup {drain.rec}
  BY DEF Fails
<1>3. disk = [disk EXCEPT ![drain.rec] = drain.doc]
  BY <1>1 DEF SystemInv, OutboxOK
<1>4. QED
  BY <1>1, <1>2, <1>3 DEF Drain, DrainStep, Written, SystemInv, OutboxOK

LEMMA RetryOrFailFacts ==
  ASSUME SystemInv, drain.at \notin {"idle", "unlink"}, NEW doc \in Doc, RetryOrFail(doc)
  PROVE  /\ Written(drain.doc) \/ (Written(doc) /\ doc.attempts < MaxAttempts)
         /\ drain' \in Drain /\ drain'.at \in {"idle", "unlink"}
         /\ drain'.at = "unlink" => drain'.rec \in Record
<1>1. drain.rec \in Record
  BY DrainFields
<1>2. CASE doc.attempts >= MaxAttempts
  BY <1>1, <1>2, FailsDocFacts DEF RetryOrFail
<1>3. CASE ~(doc.attempts >= MaxAttempts)
  <2>1. RetryLater(doc)
    BY <1>3 DEF RetryOrFail
  <2>2. Written(doc)
    BY <1>1, <2>1 DEF RetryLater, Written, SystemInv, OutboxOK
  <2>3. drain' \in Drain /\ drain'.at = "idle"
    BY <2>1 DEF RetryLater, Resting, Blank, Drain, DrainStep, Doc
  <2>4. doc.attempts < MaxAttempts
    BY <1>3, OutboxAssumption DEF Doc
  <2>5. QED
    BY <2>2, <2>3, <2>4
<1>4. QED
  BY <1>2, <1>3

\* A step that writes the file in hand.
LEMMA WrittenInv ==
  ASSUME SystemInv, UNCHANGED inboxVars, WireOK', WireInv', drain.at \notin {"idle", "unlink"},
         NEW doc, Written(doc), DocOK(drain.rec, doc),
         verified' = [verified EXCEPT ![drain.rec] = IF doc.verdict THEN 1 ELSE 0],
         drain.doc.final \in {NoEvent, doc.final},
         sent' = sent \/ (sent' = sent \cup {drain.rec} /\ doc.final \in Held),
         UNCHANGED <<pending, empty, todo>>, ran' \in BOOLEAN, ids' \subseteq Event,
         drain' \in Drain, DrainInv', CallInv',
         \A s \in Slot : ssh'[s].ev = ssh[s].ev
  PROVE  SystemInv'
<1>1. drain.rec \in Record /\ drain.doc = disk[drain.rec] /\ drain.rec \notin sent
  BY DrainFields
<1>2. OutboxOK
  BY DEF SystemInv
<1>3. /\ disk' \in [Record -> Doc] /\ disk'[drain.rec] = doc
      /\ \A r \in Record : r # drain.rec => disk'[r] = disk[r]
  BY <1>1, <1>2 DEF OutboxOK, Written, DocOK
<1>4. /\ verified' \in [Record -> Nat]
      /\ verified'[drain.rec] = IF doc.verdict THEN 1 ELSE 0
      /\ \A r \in Record : r # drain.rec => verified'[r] = verified[r]
  BY <1>1, <1>2 DEF OutboxOK
<1>5. DocsKept
  <2>1. ASSUME NEW r \in Record, r # drain.rec
        PROVE  /\ DocOK(r, disk'[r])
               /\ verified'[r] = IF disk'[r].verdict THEN 1 ELSE 0
               /\ disk[r].final \in {NoEvent, disk'[r].final}
    <3>1. disk'[r] = disk[r] /\ verified'[r] = verified[r]
      BY <1>3, <1>4, <2>1
    <3>2. QED
      BY <3>1 DEF SystemInv, FilesInv
  <2>2. ASSUME NEW r \in Record, r = drain.rec
        PROVE  /\ DocOK(r, disk'[r])
               /\ verified'[r] = IF disk'[r].verdict THEN 1 ELSE 0
               /\ disk[r].final \in {NoEvent, disk'[r].final}
    BY <1>1, <1>3, <1>4, <2>2
  <2>3. QED
    BY <2>1, <2>2 DEF DocsKept
<1>6. OutboxOK'
  <2>1. \A r \in Record : disk'[r].attempts <= MaxAttempts
    BY <1>5 DEF DocOK, DocsKept
  <2>2. sent' \subseteq Record
    BY <1>1, <1>2 DEF OutboxOK
  <2>3. QED
    BY <1>2, <1>3, <1>4, <2>1, <2>2 DEF OutboxOK, Written
<1>7. CarriedKept
  BY DEF SystemInv, CarriedInv, CarriedKept
<1>8. SentKept
  <2>1. ASSUME NEW r \in sent PROVE disk'[r].final \in Held
    <3>1. disk'[r] = disk[r]
      BY <1>1, <1>2, <1>3 DEF OutboxOK
    <3>2. QED
      BY <3>1 DEF SystemInv, SentIsHeld
  <2>2. QED
    BY <1>3, <2>1 DEF SentKept
<1>9. QED
  BY <1>5, <1>6, <1>7, <1>8, OutboxKeeps

LEMMA AttemptedFacts ==
  ASSUME SystemInv, drain.at \notin {"idle", "unlink"}
  PROVE  /\ Attempted(drain.doc) \in Doc
         /\ Attempted(drain.doc).probe = drain.doc.probe
         /\ Attempted(drain.doc).verdict = drain.doc.verdict
         /\ Attempted(drain.doc).final = drain.doc.final
         /\ Attempted(drain.doc).attempts = drain.doc.attempts + 1
  BY DrainFields DEF Attempted, Doc

\* Tried again later, or given up.
LEMMA AgainInv ==
  ASSUME SystemInv, UNCHANGED inboxVars, WireOK', WireInv', line' = NoSlot,
         drain.at \notin {"idle", "unlink"}, RetryOrFail(Attempted(drain.doc)),
         UNCHANGED <<pending, sent, empty, todo, ids, verified>>, ran' \in BOOLEAN,
         \A s \in Slot : ssh'[s].ev = ssh[s].ev
  PROVE  SystemInv'
<1> DEFINE doc == Attempted(drain.doc)
<1>1. /\ drain.rec \in Record /\ DocOK(drain.rec, drain.doc)
      /\ verified[drain.rec] = IF drain.doc.verdict THEN 1 ELSE 0
      /\ drain.doc.attempts \in Nat /\ MaxAttempts \in Nat
  BY DrainFields, OutboxAssumption DEF Doc
<1>2. /\ doc \in Doc /\ doc.probe = drain.doc.probe /\ doc.verdict = drain.doc.verdict
      /\ doc.final = drain.doc.final /\ doc.attempts = drain.doc.attempts + 1
  BY AttemptedFacts
<1> HIDE DEF doc
<1>3. /\ Written(drain.doc) \/ (Written(doc) /\ doc.attempts < MaxAttempts)
      /\ drain' \in Drain /\ drain'.at \in {"idle", "unlink"}
      /\ drain'.at = "unlink" => drain'.rec \in Record
  BY <1>2, RetryOrFailFacts DEF doc
<1>4. DrainInv' /\ CallInv'
  BY <1>3 DEF DrainInv, CallInv
<1>5. verified' = [verified EXCEPT ![drain.rec] = IF drain.doc.verdict THEN 1 ELSE 0]
  BY <1>1 DEF SystemInv, OutboxOK
<1>6. ids' \subseteq Event
  BY DEF SystemInv, OutboxOK
<1>7. CASE Written(drain.doc)
  BY <1>1, <1>3, <1>4, <1>5, <1>6, <1>7, WrittenInv
<1>8. CASE Written(doc) /\ doc.attempts < MaxAttempts
  <2>1. DocOK(drain.rec, doc)
    BY <1>1, <1>2, <1>8 DEF DocOK
  <2>2. verified' = [verified EXCEPT ![drain.rec] = IF doc.verdict THEN 1 ELSE 0]
    BY <1>2, <1>5
  <2>3. QED
    BY <1>2, <1>3, <1>4, <1>6, <1>8, <2>1, <2>2, WrittenInv
<1>9. QED
  BY <1>3, <1>7, <1>8

\* Given up at once.
LEMMA GivenUpInv ==
  ASSUME SystemInv, UNCHANGED inboxVars, WireOK', WireInv', line' = NoSlot,
         drain.at \notin {"idle", "unlink"}, NEW doc \in Doc, Fails(doc),
         UNCHANGED <<pending, sent, empty, todo, ran, ids, verified>>,
         \A s \in Slot : ssh'[s].ev = ssh[s].ev
  PROVE  SystemInv'
<1>1. /\ drain.rec \in Record /\ DocOK(drain.rec, drain.doc)
      /\ verified[drain.rec] = IF drain.doc.verdict THEN 1 ELSE 0
  BY DrainFields
<1>2. /\ Written(drain.doc) /\ drain' \in Drain
      /\ drain'.at = "unlink" /\ drain'.rec = drain.rec
  BY FailsDocFacts
<1>3. DrainInv' /\ CallInv'
  BY <1>1, <1>2 DEF DrainInv, CallInv
<1>4. verified' = [verified EXCEPT ![drain.rec] = IF drain.doc.verdict THEN 1 ELSE 0]
  BY <1>1 DEF SystemInv, OutboxOK
<1>5. ids' \subseteq Event /\ ran' \in BOOLEAN
  BY DEF SystemInv, OutboxOK
<1>6. QED
  BY <1>1, <1>2, <1>3, <1>4, <1>5, WrittenInv

LEMMA ProbeReturnsInv ==
  ASSUME SystemInv, UNCHANGED inboxVars, ProbeReturns
  PROVE  SystemInv'
<1>1. /\ UNCHANGED <<pending, sent, empty, todo, ran, ids, verified, crashes>>
      /\ drain.at = "probing" /\ (HangsUp \/ Abandons)
      /\ (HangsUp /\ AfterProbe(ssh[line].reply)) \/ AfterProbe("")
  BY DEF ProbeReturns
<1>2. /\ WireOK /\ WireInv /\ crashes' \in Nat /\ ran' \in BOOLEAN /\ ids' \subseteq Event
  BY <1>1 DEF SystemInv, InboxInv, InboxTypeOK, WireOK, OutboxOK
<1>3. /\ WireOK' /\ WireInv' /\ line' = NoSlot
      /\ \A q \in Slot : ssh'[q].ev = ssh[q].ev
  BY <1>1, <1>2, EndsFacts
<1>4. PICK reply : AfterProbe(reply) /\ (reply = "" \/ reply = ssh[line].reply)
  BY <1>1
<1> DEFINE doc == Attempted(drain.doc)
<1>5. /\ drain.rec \in Record /\ DocOK(drain.rec, drain.doc) /\ drain.doc.probe = "none"
      /\ verified[drain.rec] = IF drain.doc.verdict THEN 1 ELSE 0
      /\ drain.doc.attempts \in Nat /\ MaxAttempts \in Nat /\ drain.rec \notin sent
  BY <1>1, DrainFields, OutboxAssumption DEF SystemInv, DrainInv, Doc
<1>6. /\ doc \in Doc /\ doc.probe = drain.doc.probe /\ doc.verdict = drain.doc.verdict
      /\ doc.final = drain.doc.final /\ doc.attempts = drain.doc.attempts + 1
  BY <1>1, AttemptedFacts
<1>7. \/ /\ reply = "registered" /\ Persist([doc EXCEPT !.probe = "registered"], "verify")
      \/ Fails([doc EXCEPT !.probe = "unknown"])
      \/ RetryOrFail(doc)
  BY <1>4 DEF AfterProbe, ProbeOutcome
<1>8. CASE RetryOrFail(doc)
  BY <1>1, <1>2, <1>3, <1>8, AgainInv
<1> HIDE DEF doc
<1>9. CASE Fails([doc EXCEPT !.probe = "unknown"])
  <2>1. [doc EXCEPT !.probe = "unknown"] \in Doc
    BY <1>6 DEF Doc
  <2>2. QED
    BY <1>1, <1>3, <1>9, <2>1, GivenUpInv
<1>10. CASE reply = "registered" /\ Persist([doc EXCEPT !.probe = "registered"], "verify")
  <2> DEFINE next == [doc EXCEPT !.probe = "registered"]
  <2>1. /\ next \in Doc /\ next.probe = "registered" /\ next.verdict = drain.doc.verdict
        /\ next.final = drain.doc.final /\ next.attempts = drain.doc.attempts + 1
    BY <1>6 DEF Doc
  <2>2. Known(RecordTask[drain.rec])
    <3>1. line \in Slot /\ ssh[line].task = RecordTask[drain.rec]
      BY <1>1, <1>2 DEF SystemInv, CallInv, WireOK
    <3>2. ReceiverOK(line) /\ ssh[line].reply = "registered"
      BY <1>2, <1>4, <1>10, <3>1 DEF WireInv
    <3>3. QED
      BY <3>1, <3>2 DEF ReceiverOK
  <2>3. Persist(next, "verify") /\ "verify" \in DrainStep
    BY <1>10 DEF DrainStep
  <2> HIDE DEF next
  <2>4. /\ Written(next) /\ drain' \in Drain /\ drain'.at = "verify"
        /\ drain'.rec = drain.rec /\ drain'.doc = next
    BY <1>1, <2>1, <2>3, PersistFacts
  <2>5. DocOK(drain.rec, next) /\ ~next.verdict
    BY <1>5, <2>1, <2>2 DEF DocOK
  <2>6. verified' = [verified EXCEPT ![drain.rec] = IF next.verdict THEN 1 ELSE 0]
    BY <1>1, <1>5, <2>1 DEF SystemInv, OutboxOK
  <2>7. disk'[drain.rec] = next
    BY <1>5, <2>4 DEF Written, SystemInv, OutboxOK
  <2>8. DrainInv' /\ CallInv'
    BY <1>1, <1>3, <1>5, <2>1, <2>4, <2>5, <2>7 DEF DrainInv, CallInv
  <2>9. QED
    BY <1>1, <1>2, <1>3, <2>1, <2>4, <2>5, <2>6, <2>8, WrittenInv
<1>11. QED
  BY <1>7, <1>8, <1>9, <1>10 DEF doc

LEMMA VerifyInv ==
  ASSUME SystemInv, UNCHANGED inboxVars, Verify
  PROVE  SystemInv'
<1>1. /\ UNCHANGED <<pending, sent, empty, todo, ids, crashes>> /\ NoCall
      /\ drain.at = "verify"
  BY DEF Verify
<1>2. /\ WireOK /\ WireInv /\ crashes' \in Nat /\ ran' \in BOOLEAN /\ ids' \subseteq Event
  BY <1>1 DEF SystemInv, InboxInv, InboxTypeOK, WireOK, OutboxOK, Verify
<1>3. /\ WireOK' /\ WireInv' /\ line' = NoSlot
      /\ \A q \in Slot : ssh'[q].ev = ssh[q].ev
  BY <1>1, <1>2, EndsFacts
<1>4. /\ drain.rec \in Record /\ drain.doc = disk[drain.rec] /\ drain.doc \in Doc
      /\ DocOK(drain.rec, drain.doc) /\ drain.rec \notin sent
      /\ verified[drain.rec] = IF drain.doc.verdict THEN 1 ELSE 0
      /\ drain.doc.probe = "registered" /\ ~drain.doc.verdict
  BY <1>1, DrainFields DEF SystemInv, DrainInv
<1>5. CASE drain' = Resting /\ UNCHANGED <<ran, disk, gaveUp, cooling, verified>>
  <2>1. drain'.at = "idle" /\ drain' \in Drain
    BY <1>5 DEF Resting, Blank, Drain, DrainStep, Doc
  <2>2. Written(drain.doc)
    <3>1. disk' = [disk EXCEPT ![drain.rec] = drain.doc]
      BY <1>4, <1>5 DEF SystemInv, OutboxOK
    <3>2. QED
      BY <1>5, <3>1 DEF Written, SystemInv, OutboxOK
  <2>3. DrainInv' /\ CallInv'
    BY <1>3, <2>1 DEF DrainInv, CallInv
  <2>4. verified' = [verified EXCEPT ![drain.rec] = IF drain.doc.verdict THEN 1 ELSE 0]
    BY <1>4, <1>5 DEF SystemInv, OutboxOK
  <2>5. QED
    BY <1>1, <1>2, <1>3, <1>4, <2>1, <2>2, <2>3, <2>4, WrittenInv
<1>6. CASE /\ verified' = [verified EXCEPT ![drain.rec] = @ + 1]
           /\ Verdict([drain.doc EXCEPT !.verdict = TRUE])
  <2> DEFINE doc == [drain.doc EXCEPT !.verdict = TRUE]
  <2>1. /\ doc \in Doc /\ doc.probe = drain.doc.probe /\ doc.verdict
        /\ doc.final = drain.doc.final /\ doc.attempts = drain.doc.attempts
    BY <1>4 DEF Doc
  <2>2. Persist(doc, "build") /\ "build" \in DrainStep
    BY <1>6 DEF Verdict, DrainStep
  <2> HIDE DEF doc
  <2>3. /\ Written(doc) /\ drain' \in Drain /\ drain'.at = "build"
        /\ drain'.rec = drain.rec /\ drain'.doc = doc
    BY <1>1, <2>1, <2>2, PersistFacts
  <2>4. DocOK(drain.rec, doc) /\ doc.final = NoEvent
    BY <1>4, <2>1 DEF DocOK
  <2>5. verified' = [verified EXCEPT ![drain.rec] = IF doc.verdict THEN 1 ELSE 0]
    <3>1. verified[drain.rec] + 1 = 1
      BY <1>4
    <3>2. verified' = [verified EXCEPT ![drain.rec] = 1]
      BY <1>4, <1>6, <3>1 DEF SystemInv, OutboxOK
    <3>3. QED
      BY <2>1, <3>2
  <2>6. disk'[drain.rec] = doc
    BY <1>4, <2>3 DEF Written, SystemInv, OutboxOK
  <2>7. DrainInv' /\ CallInv'
    BY <1>1, <1>3, <1>4, <2>1, <2>3, <2>4, <2>6 DEF DrainInv, CallInv
  <2>8. drain.doc.final \in {NoEvent, doc.final}
    BY <2>1
  <2>9. QED
    BY <1>1, <1>2, <1>3, <2>3, <2>4, <2>5, <2>7, <2>8, WrittenInv
<1>7. CASE RetryOrFail(Attempted(drain.doc)) /\ UNCHANGED verified
  BY <1>1, <1>2, <1>3, <1>7, AgainInv
<1>8. QED
  BY <1>5, <1>6, <1>7 DEF Verify

LEMMA BuildFinalInv ==
  ASSUME SystemInv, UNCHANGED inboxVars, NEW e \in Event, BuildFinal(e)
  PROVE  SystemInv'
<1>1. /\ UNCHANGED <<pending, sent, empty, todo, ran, verified, crashes>> /\ NoCall
      /\ drain.at = "build" /\ ids' = ids \cup {e}
      /\ Persist([drain.doc EXCEPT !.final = e], "send")
  BY DEF BuildFinal, Signed
<1>2. /\ WireOK /\ WireInv /\ crashes' \in Nat /\ ran' \in BOOLEAN /\ ids' \subseteq Event
  BY <1>1 DEF SystemInv, InboxInv, InboxTypeOK, WireOK, OutboxOK
<1>3. /\ WireOK' /\ WireInv' /\ line' = NoSlot
      /\ \A q \in Slot : ssh'[q].ev = ssh[q].ev
  BY <1>1, <1>2, EndsFacts
<1>4. /\ drain.rec \in Record /\ drain.doc = disk[drain.rec] /\ drain.doc \in Doc
      /\ DocOK(drain.rec, drain.doc) /\ drain.rec \notin sent
      /\ verified[drain.rec] = IF drain.doc.verdict THEN 1 ELSE 0
      /\ drain.doc.verdict /\ drain.doc.final = NoEvent
  BY <1>1, DrainFields DEF SystemInv, DrainInv
<1> DEFINE doc == [drain.doc EXCEPT !.final = e]
<1>5. /\ doc \in Doc /\ doc.probe = drain.doc.probe /\ doc.verdict
      /\ doc.final = e /\ doc.attempts = drain.doc.attempts
  BY <1>4 DEF Doc
<1>6. Persist(doc, "send") /\ "send" \in DrainStep
  BY <1>1 DEF DrainStep
<1> HIDE DEF doc
<1>7. /\ Written(doc) /\ drain' \in Drain /\ drain'.at = "send"
      /\ drain'.rec = drain.rec /\ drain'.doc = doc
  BY <1>1, <1>5, <1>6, PersistFacts
<1>8. DocOK(drain.rec, doc) /\ doc.final # NoEvent
  BY <1>4, <1>5, WireAssumption DEF DocOK
<1>9. verified' = [verified EXCEPT ![drain.rec] = IF doc.verdict THEN 1 ELSE 0]
  BY <1>1, <1>4, <1>5 DEF SystemInv, OutboxOK
<1>10. disk'[drain.rec] = doc
  BY <1>4, <1>7 DEF Written, SystemInv, OutboxOK
<1>11. DrainInv' /\ CallInv'
  BY <1>1, <1>3, <1>4, <1>5, <1>7, <1>8, <1>10 DEF DrainInv, CallInv
<1>12. drain.doc.final \in {NoEvent, doc.final}
  BY <1>4
<1>13. QED
  BY <1>1, <1>2, <1>3, <1>7, <1>8, <1>9, <1>11, <1>12, WrittenInv

LEMMA FinalReturnsInv ==
  ASSUME SystemInv, UNCHANGED inboxVars, FinalReturns
  PROVE  SystemInv'
<1>1. /\ UNCHANGED <<pending, empty, todo, ran, ids, verified, crashes>>
      /\ drain.at = "sending" /\ (HangsUp \/ Abandons)
      /\ (HangsUp /\ AfterFinal(ssh[line].reply)) \/ AfterFinal("")
  BY DEF FinalReturns
<1>2. /\ WireOK /\ WireInv /\ crashes' \in Nat /\ ran' \in BOOLEAN /\ ids' \subseteq Event
  BY <1>1 DEF SystemInv, InboxInv, InboxTypeOK, WireOK, OutboxOK
<1>3. /\ WireOK' /\ WireInv' /\ line' = NoSlot
      /\ \A q \in Slot : ssh'[q].ev = ssh[q].ev
  BY <1>1, <1>2, EndsFacts
<1>4. PICK reply : AfterFinal(reply) /\ (reply = "" \/ reply = ssh[line].reply)
  BY <1>1
<1> DEFINE doc == Attempted(drain.doc)
<1>5. /\ drain.rec \in Record /\ drain \in Drain /\ drain.doc = disk[drain.rec]
      /\ DocOK(drain.rec, drain.doc)
      /\ verified[drain.rec] = IF drain.doc.verdict THEN 1 ELSE 0
  BY <1>1, DrainFields
<1>6. doc \in Doc
  BY <1>1, AttemptedFacts
<1>7. \/ /\ reply \in {"accepted", "replay"} /\ sent' = sent \cup {drain.rec}
         /\ drain' = [drain EXCEPT !.at = "unlink", !.doc = doc]
         /\ UNCHANGED <<gaveUp, disk, cooling>>
      \/ Fails(doc) /\ UNCHANGED sent
      \/ RetryOrFail(doc) /\ UNCHANGED sent
  BY <1>4 DEF AfterFinal, FinalOutcome
<1>8. CASE RetryOrFail(doc) /\ UNCHANGED sent
  BY <1>1, <1>2, <1>3, <1>8, AgainInv
<1> HIDE DEF doc
<1>9. CASE Fails(doc) /\ UNCHANGED sent
  BY <1>1, <1>3, <1>6, <1>9, GivenUpInv
<1>10. CASE /\ reply \in {"accepted", "replay"} /\ sent' = sent \cup {drain.rec}
            /\ drain' = [drain EXCEPT !.at = "unlink", !.doc = doc]
            /\ UNCHANGED <<gaveUp, disk, cooling>>
  <2>1. drain.doc.final \in Held
    <3>1. line \in Slot /\ ssh[line].ev = drain.doc.final
      BY <1>1, <1>2 DEF SystemInv, CallInv, WireOK
    <3>2. ReceiverOK(line) /\ ssh[line].reply \in {"accepted", "replay"}
      BY <1>2, <1>4, <1>10, <3>1 DEF WireInv
    <3>3. QED
      BY <3>1, <3>2 DEF ReceiverOK
  <2>2. drain'.at = "unlink" /\ drain'.rec = drain.rec /\ drain' \in Drain
    BY <1>5, <1>6, <1>10 DEF Drain, DrainStep
  <2>3. DrainInv' /\ CallInv'
    BY <1>3, <1>5, <2>2 DEF DrainInv, CallInv
  <2>4. Written(drain.doc)
    <3>1. disk' = [disk EXCEPT ![drain.rec] = drain.doc]
      BY <1>5, <1>10 DEF SystemInv, OutboxOK
    <3>2. QED
      BY <1>10, <3>1 DEF Written, SystemInv, OutboxOK
  <2>5. verified' = [verified EXCEPT ![drain.rec] = IF drain.doc.verdict THEN 1 ELSE 0]
    BY <1>1, <1>5 DEF SystemInv, OutboxOK
  <2>6. QED
    BY <1>1, <1>2, <1>3, <1>5, <1>10, <2>1, <2>2, <2>3, <2>4, <2>5, WrittenInv
<1>11. QED
  BY <1>7, <1>8, <1>9, <1>10 DEF doc

LEMMA DrainCrashesInv ==
  ASSUME SystemInv, UNCHANGED inboxVars, DrainCrashes
  PROVE  SystemInv'
<1>1. /\ UNCHANGED <<pending, sent, gaveUp, disk, empty, ran, cooling, ids, verified>>
      /\ crashes' = crashes + 1 /\ drain' = Resting /\ todo' = {}
      /\ NoCall \/ Abandons
  BY DEF DrainCrashes
<1>2. WireOK /\ WireInv /\ OutboxOK /\ crashes' \in Nat
  BY <1>1 DEF SystemInv, InboxInv, InboxTypeOK, WireOK
<1>3. /\ WireOK' /\ WireInv' /\ line' = NoSlot
      /\ \A q \in Slot : ssh'[q].ev = ssh[q].ev
  BY <1>1, <1>2, EndsFacts
<1>4. drain'.at = "idle" /\ drain' \in Drain
  BY <1>1 DEF Resting, Blank, Drain, DrainStep, Doc
<1>5. OutboxOK' /\ DrainInv' /\ CallInv'
  BY <1>1, <1>2, <1>3, <1>4 DEF OutboxOK, DrainInv, CallInv
<1>6. CarriedKept
  BY <1>3 DEF SystemInv, CarriedInv, CarriedKept
<1>7. SentKept
  BY <1>1 DEF SystemInv, SentIsHeld, SentKept
<1>8. QED
  BY <1>1, <1>3, <1>5, <1>6, <1>7, SameDocs, OutboxKeeps

-----------------------------------------------------------------------------
(* The specification *)

LEMMA OutboxStepInv ==
  ASSUME SystemInv, OutboxStep
  PROVE  SystemInv'
<1>1. UNCHANGED inboxVars /\ OutboxNext
  BY DEF OutboxStep
<1>2. CASE \/ \E r \in Record : Enqueue(r) \/ CoolsDown(r) \/ Visit(r) \/ VisitEmpty(r)
           \/ StartPass \/ UnlinkPending
  BY <1>1, <1>2, BetweenInv
<1>3. CASE SendProbe \/ SendFinal
  BY <1>1, <1>3, SendInv
<1>4. CASE ProbeReturns
  BY <1>1, <1>4, ProbeReturnsInv
<1>5. CASE Verify
  BY <1>1, <1>5, VerifyInv
<1>6. CASE \E e \in Event : BuildFinal(e)
  BY <1>1, <1>6, BuildFinalInv
<1>7. CASE FinalReturns
  BY <1>1, <1>7, FinalReturnsInv
<1>8. CASE DrainCrashes
  BY <1>1, <1>8, DrainCrashesInv
<1>9. QED
  BY <1>1, <1>2, <1>3, <1>4, <1>5, <1>6, <1>7, <1>8 DEF OutboxNext, DrainOne

LEMMA InitSystemInv ==
  ASSUME Init
  PROVE  SystemInv
<1>1. InboxInv
  BY InitInboxInv DEF Init
<1>2. Blank \in Doc /\ Blank.probe = "none" /\ ~Blank.verdict /\ Blank.final = NoEvent
      /\ Blank.attempts = 0
  BY DEF Blank, Doc
<1>3. drain = Resting /\ drain.at = "idle" /\ drain \in Drain
  BY <1>2 DEF Init, OutboxInit, Resting, Drain, DrainStep
<1>4. \A r \in Record : disk[r] = Blank /\ verified[r] = 0
  BY DEF Init, OutboxInit
<1>5. 0 < MaxAttempts /\ 0 <= MaxAttempts
  BY OutboxAssumption
<1>6. OutboxOK
  BY <1>2, <1>3, <1>4, <1>5 DEF Init, OutboxInit, OutboxOK
<1>7. FilesInv
  BY <1>2, <1>4, <1>5 DEF FilesInv, DocOK
<1>8. DrainInv /\ CallInv
  BY <1>3 DEF DrainInv, CallInv, Init, WireInit
<1>9. CarriedInv
  <2>1. PICK t \in Task :
          ssh = [s \in Slot |-> [at |-> "idle", task |-> t, ev |-> NoEvent, reply |-> ""]]
    BY DEF Init, WireInit
  <2>2. QED
    BY <2>1 DEF CarriedInv
<1>10. HeldIsWrittenDown /\ SentIsHeld
  BY DEF Init, InboxInit, OutboxInit, HeldIsWrittenDown, SentIsHeld, Held
<1>11. QED
  BY <1>1, <1>6, <1>7, <1>8, <1>9, <1>10 DEF SystemInv

LEMMA StutterSystemInv ==
  ASSUME SystemInv, UNCHANGED vars
  PROVE  SystemInv'
<1>1. UNCHANGED <<inboxVars, outboxVars, ssh, line, crashes>>
  BY DEF vars
<1>2. UNCHANGED <<pending, sent, gaveUp, disk, empty, todo, ran, drain, cooling, ids, verified>>
  BY <1>1 DEF outboxVars
<1>3. InboxInv'
  BY <1>1, StutterInboxInv DEF SystemInv, inbox
<1>4. WireOK' /\ WireInv'
  BY <1>3 DEF InboxInv, InboxTypeOK
<1>5. OutboxOK' /\ DrainInv' /\ CallInv'
  BY <1>1, <1>2 DEF SystemInv, OutboxOK, DrainInv, CallInv
<1>6. CarriedKept /\ SentKept
  BY <1>1, <1>2 DEF SystemInv, CarriedInv, CarriedKept, SentIsHeld, SentKept
<1>7. QED
  BY <1>1, <1>2, <1>4, <1>5, <1>6, SameDocs, OutboxKeeps

LEMMA SystemInvariant == Spec => []SystemInv
<1>1. SystemInv /\ [Next]_vars => SystemInv'
  BY InboxStepInv, OutboxStepInv, StutterSystemInv DEF Next
<1>2. QED
  BY <1>1, InitSystemInv, PTL DEF Spec

-----------------------------------------------------------------------------
(* What the run checks *)

\* Types of both hosts; a file never records more attempts than the bound.
THEOREM SystemTyped == Spec => []TypeOK
<1>1. SystemInv => TypeOK
  BY DEF SystemInv, InboxInv, TypeOK
<1>2. QED
  BY <1>1, SystemInvariant, PTL

\* A result that reached WEB1 is written down on HMS with its id.
THEOREM ResultIsWrittenDown == Spec => []HeldIsWrittenDown
<1>1. SystemInv => HeldIsWrittenDown
  BY DEF SystemInv
<1>2. QED
  BY <1>1, SystemInvariant, PTL

\* A verdict is made once for a record, and for a registered task only: crashes,
\* retries and lost answers do not repeat the verifier turn.
THEOREM VerdictIsMadeOnce == Spec => []VerifierIsSpentOnce
<1>1. SystemInv => VerifierIsSpentOnce
  <2>1. ASSUME SystemInv, NEW r \in Record
        PROVE  verified[r] <= 1 /\ (verified[r] > 0 => registration[RecordTask[r]] # NoChat)
    <3>1. DocOK(r, disk[r]) /\ verified[r] = IF disk[r].verdict THEN 1 ELSE 0
      BY <2>1 DEF SystemInv, FilesInv
    <3>2. disk[r].verdict => Known(RecordTask[r])
      BY <3>1 DEF DocOK
    <3>3. QED
      BY <3>1, <3>2 DEF Known
  <2>2. QED
    BY <2>1 DEF VerifierIsSpentOnce
<1>2. QED
  BY <1>1, SystemInvariant, PTL

\* What the outbox calls sent is at WEB1.
THEOREM SentHasArrived == Spec => []SentIsHeld
<1>1. SystemInv => SentIsHeld
  BY DEF SystemInv
<1>2. QED
  BY <1>1, SystemInvariant, PTL

\* With HMS as its caller the inbox shows a result once, in the conversation it was
\* promised to: InboxProofs proves both of InboxSpec, for any caller.
THEOREM DeliveredAsPromised == Spec => [](ShownOnce /\ ShownWherePromised)
<1>1. SystemInv => ShownOnce /\ ShownWherePromised
  BY PromiseMeansOne DEF SystemInv, InboxInv, ShownInv, ShownOnce
<1>2. QED
  BY <1>1, SystemInvariant, PTL

\* With HMS as its caller the inbox implements CallbackDelivery.
THEOREM SystemImplementsDelivery == Spec => DeliverySpec
<1>1. Init => Delivery!Init
  <2>1. ASSUME Init, NEW t \in Task PROVE ResultOf(t) = "open"
    BY <2>1 DEF Init, InboxInit, ResultOf, Closed
  <2>2. QED
    BY <2>1 DEF Delivery!Init, Init, InboxInit
<1>2. SystemInv /\ [Next]_vars => [Delivery!Next]_<<results, shown>>
  <2>1. ASSUME SystemInv, InboxStep PROVE [Delivery!Next]_<<results, shown>>
    BY <2>1, StepRefines DEF SystemInv, InboxStep
  <2>2. ASSUME SystemInv, OutboxStep \/ UNCHANGED vars
        PROVE  [Delivery!Next]_<<results, shown>>
    <3>1. UNCHANGED <<receipt, shown, new, tornNew, claimed>>
      BY <2>2 DEF OutboxStep, vars, inboxVars, torn
    <3>2. QED
      BY <3>1, SameResults DEF Arrived
  <2>3. QED
    BY <2>1, <2>2 DEF Next
<1>3. QED
  BY <1>1, <1>2, SystemInvariant, PTL DEF Spec, DeliverySpec, Delivery!Spec, results
=============================================================================
