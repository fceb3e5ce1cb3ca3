---------------------------- MODULE CallbackInbox ----------------------------
(***************************************************************************)
(* The WEB1 side of the background callback (background_callback.py and    *)
(* its callers in telegram_bot.py).  A turn that prints a marker registers *)
(* a task and its conversation; receiver processes check signed events and *)
(* put a final result into inbox/new; the inbox loop of the bot claims it, *)
(* writes a receipt, sends the text and closes the receipt.                *)
(*                                                                         *)
(* Every state is a file.  Each file operation is one action, because      *)
(* receivers, the loop and the turns are different processes or threads,   *)
(* and each of them may die between two operations.  What the checks of    *)
(* signature, schema, sizes and paths refuse changes no file and is left   *)
(* out; a stale timestamp is not, for it happens to a sound event.         *)
(***************************************************************************)
EXTENDS CallbackWire, FiniteSets

CONSTANTS
  Chat,        \* conversations
  NoChat,
  Lively,      \* bound: conversations in which main turns run
  MaxClaims    \* MAX_CLAIM_ATTEMPTS, 2 in the code

ASSUME InboxAssumption ==
  /\ NoChat \notin Chat
  /\ Lively \subseteq Chat
  /\ MaxClaims \in Nat \ {0}

VARIABLES
  \* --- files under the state root
  registration,  \* [Task -> Chat or NoChat]: registrations/
  new, claimed, completed, failed,  \* inbox/*: sets of events
  tornNew,       \* files of inbox/new that were created and never written
  tornClaimed,   \* the same of inbox/claimed
  attempts,      \* [Event -> Nat]: claim_attempts in the claimed file
  seen,          \* seen/: events
  receipt,       \* [Task -> Receipt]: receipts/
  \* --- the inbox loop in the bot
  loop,          \* what _process_claimed does next, and for which event
  busy,          \* _ACTIVE_RELAY_THREADS
  \* --- history
  promised,      \* [Task -> SUBSET Chat]: told that the task is registered
  shown,         \* [Task -> Nat]: times a result text arrived
  shownIn,       \* [Task -> SUBSET Chat]: where
  doubtful       \* tasks with a delivery whose outcome was not recorded

torn == <<tornNew, tornClaimed>>
files == <<registration, new, claimed, completed, failed, torn, attempts, seen, receipt>>
inboxVars == <<registration, new, claimed, completed, failed, torn, attempts, seen,
               receipt, loop, busy, promised, shown, shownIn, doubtful>>

Receipt == {"none", "pending", "completed", "failed"}
LoopStep == {"idle", "unlink", "process", "persist", "deliver", "redeliver",
             "complete", "notice", "close", "drop"}
Loop == [at : LoopStep, ev : Event \cup {NoEvent}, to : {"completed", "failed"}]

Closed(t) == receipt[t] \in {"completed", "failed"}
Rest == [at |-> "idle", ev |-> NoEvent, to |-> "completed"]

InboxInit ==
  /\ registration = [t \in Task |-> NoChat]
  /\ new = {} /\ claimed = {} /\ completed = {} /\ failed = {}
  /\ tornNew = {} /\ tornClaimed = {}
  /\ attempts = [e \in Event |-> 0]
  /\ seen = {}
  /\ receipt = [t \in Task |-> "none"]
  /\ loop = Rest
  /\ busy = {}
  /\ promised = [t \in Task |-> {}]
  /\ shown = [t \in Task |-> 0]
  /\ shownIn = [t \in Task |-> {}]
  /\ doubtful = {}
-----------------------------------------------------------------------------
(* Results and registrations *)

\* The results that are at WEB1.
Held == new \cup claimed \cup completed \cup failed

\* mutant: the file is replaced.
Registered_Replaced(t, c) == c

\* exclusive_create: the first conversation keeps the task.
Registered(t, c) == IF registration[t] = NoChat THEN c ELSE registration[t]

\* A turn of conversation c ends with the marker of task t: register, then
\* PENDING_ACK, or REGISTER_FAIL_ACK when another conversation has the task.
\* The acknowledgement may not arrive.
Register(t, c) ==
  /\ registration' = [registration EXCEPT ![t] = Registered(t, c)]
  /\ \/ /\ registration'[t] = c
        /\ promised' = [promised EXCEPT ![t] = @ \cup {c}]
     \/ UNCHANGED promised
  /\ UNCHANGED <<new, claimed, completed, failed, torn, attempts, seen, receipt,
                 loop, busy, shown, shownIn, doubtful, ssh, line, crashes>>
-----------------------------------------------------------------------------
(* callback-receive: one receiver process *)

Peers(e) == {p \in Event \ {e} : EventTask[p] = EventTask[e]}

\* _common_receive_preamble, then _receive_probe or the head of _receive_final:
\* what is decided before any inbox file is read.  The time window (24 hours)
\* may have passed, for the clocks of the two hosts.
ReadEvent(s) ==
  /\ ssh[s].at = "sent"
  /\ \/ /\ Faulty
        /\ Answers(s, "stale_timestamp")
     \/ /\ registration[ssh[s].task] = NoChat
        /\ Answers(s, "unknown_task")
     \/ /\ registration[ssh[s].task] # NoChat
        /\ IF ssh[s].ev = NoEvent THEN Answers(s, "registered") ELSE GoesTo(s, "seen")
  /\ UNCHANGED <<inboxVars, line, crashes>>

\* seen_path.exists() or inbox_new.exists(): two reads.
CheckSeen(s) ==
  /\ ssh[s].at = "seen"
  /\ IF ssh[s].ev \in seen THEN Answers(s, "replay") ELSE GoesTo(s, "new")
  /\ UNCHANGED <<inboxVars, line, crashes>>

CheckNew(s) ==
  /\ ssh[s].at = "new"
  /\ IF ssh[s].ev \in new THEN Answers(s, "replay") ELSE GoesTo(s, "receipt")
  /\ UNCHANGED <<inboxVars, line, crashes>>

CheckReceipt(s) ==
  /\ ssh[s].at = "receipt"
  /\ IF receipt[ssh[s].task] # "none" THEN Answers(s, "conflict")
     ELSE GoesTo(s, "claimed")
  /\ UNCHANGED <<inboxVars, line, crashes>>

\* The folders are listed one after the other, inbox/new last.  A claimed file
\* is copied before it is removed, so the three others are one read.
CheckFolders(s) ==
  /\ ssh[s].at = "claimed"
  /\ IF Peers(ssh[s].ev) \cap ((claimed \ tornClaimed) \cup completed \cup failed) # {}
     THEN Answers(s, "conflict") ELSE GoesTo(s, "peers")
  /\ UNCHANGED <<inboxVars, line, crashes>>

CheckPeers(s) ==
  /\ ssh[s].at = "peers"
  /\ IF Peers(ssh[s].ev) \cap (new \ tornNew) # {}
     THEN Answers(s, "conflict") ELSE GoesTo(s, "write")
  /\ UNCHANGED <<inboxVars, line, crashes>>

\* exclusive_create(inbox_new).
WriteNew(s) ==
  LET e == ssh[s].ev IN
  /\ ssh[s].at = "write"
  /\ IF e \in new THEN UNCHANGED new /\ Answers(s, "replay")
     ELSE new' = new \cup {e} /\ GoesTo(s, "mark")
  /\ UNCHANGED <<registration, claimed, completed, failed, torn, attempts, seen, receipt,
                 loop, busy, promised, shown, shownIn, doubtful, line, crashes>>

\* exclusive_create(seen_path), then "accepted".
MarkSeen(s) ==
  /\ ssh[s].at = "mark"
  /\ seen' = seen \cup {ssh[s].ev}
  /\ Answers(s, "accepted")
  /\ UNCHANGED <<registration, new, claimed, completed, failed, torn, attempts, receipt,
                 loop, busy, promised, shown, shownIn, doubtful, line, crashes>>

\* The process dies (or its disk is full) before it answers; in the middle of
\* exclusive_create it leaves an empty file.
ReceiverDies(s) ==
  /\ ssh[s].at \notin {"idle", "done"}
  /\ crashes < MaxCrash
  /\ crashes' = crashes + 1
  /\ Answers(s, "broken")
  /\ \/ UNCHANGED <<new, torn>>
     \/ /\ TornWrites
        /\ ssh[s].at = "write" /\ ssh[s].ev \notin new
        /\ new' = new \cup {ssh[s].ev}
        /\ tornNew' = tornNew \cup {ssh[s].ev}
        /\ UNCHANGED tornClaimed
  /\ UNCHANGED <<registration, claimed, completed, failed, attempts, seen, receipt,
                 loop, busy, promised, shown, shownIn, doubtful, line>>

Receive(s) ==
  \/ ReadEvent(s) \/ CheckSeen(s) \/ CheckNew(s) \/ CheckReceipt(s)
  \/ CheckFolders(s) \/ CheckPeers(s) \/ WriteNew(s) \/ MarkSeen(s)
-----------------------------------------------------------------------------
(* scan_once: the inbox loop *)

MayTalk(e) == registration[EventTask[e]] \notin busy

\* recover_claimed_without_receipt: a claimed file whose task has a terminal
\* receipt is moved, or removed when it has been moved before.  (A moved file
\* without a receipt, the other case of the code, needs an unknown task.)
Recover(e) ==
  LET t == EventTask[e] IN
  /\ loop.at = "idle"
  /\ e \in claimed \ tornClaimed
  /\ Closed(t)
  /\ loop' = [at |-> IF e \in completed \cup failed THEN "drop" ELSE "close",
              ev |-> e, to |-> receipt[t]]
  /\ UNCHANGED <<files, busy, promised, shown, shownIn, doubtful, ssh, line, crashes>>

\* _claim_new_event: an event still in inbox/claimed is left where it is.
Claim(e) ==
  /\ loop.at = "idle"
  /\ e \in new \ tornNew
  /\ MayTalk(e)
  /\ e \notin claimed
  /\ claimed' = claimed \cup {e}
  /\ attempts' = [attempts EXCEPT ![e] = 0]
  /\ loop' = [Rest EXCEPT !.at = "unlink", !.ev = e]
  /\ UNCHANGED <<registration, new, completed, failed, torn, seen, receipt,
                 busy, promised, shown, shownIn, doubtful, ssh, line, crashes>>

\* The bot dies in the middle of exclusive_create(claimed_path): no later scan
\* can read this file or make another.
ClaimDies(e) ==
  /\ TornWrites
  /\ loop.at = "idle"
  /\ e \in new \ tornNew
  /\ MayTalk(e)
  /\ e \notin claimed
  /\ crashes < MaxCrash
  /\ crashes' = crashes + 1
  /\ claimed' = claimed \cup {e}
  /\ tornClaimed' = tornClaimed \cup {e}
  /\ UNCHANGED <<registration, new, completed, failed, tornNew, attempts, seen, receipt,
                 loop, busy, promised, shown, shownIn, doubtful, ssh, line>>

UnlinkNew ==
  /\ loop.at = "unlink"
  /\ new' = new \ {loop.ev}
  /\ loop' = [loop EXCEPT !.at = "process"]
  /\ UNCHANGED <<registration, claimed, completed, failed, torn, attempts, seen, receipt,
                 busy, promised, shown, shownIn, doubtful, ssh, line, crashes>>

\* mutant: only events that were never tried are resumed.
Resume_Untried(e) ==
  /\ loop.at = "idle"
  /\ e \in claimed \ tornClaimed
  /\ receipt[EventTask[e]] = "none"
  /\ MayTalk(e)
  /\ loop' = [Rest EXCEPT !.at = "process", !.ev = e]
  /\ UNCHANGED <<files, busy, promised, shown, shownIn, doubtful, ssh, line, crashes>>

\* The second pass of scan_once, over what an earlier scan left claimed.
Resume(e) ==
  /\ loop.at = "idle"
  /\ e \in claimed \ tornClaimed
  /\ ~Closed(EventTask[e])
  /\ MayTalk(e)
  /\ loop' = [Rest EXCEPT !.at = "process", !.ev = e]
  /\ UNCHANGED <<files, busy, promised, shown, shownIn, doubtful, ssh, line, crashes>>

\* mutant: the receipt of the task is not looked at.
StartOf_NoReceipt(e) == IF attempts[e] >= MaxClaims THEN "notice" ELSE "persist"

\* _process_claimed: what the receipt of the task asks for.
StartOf(e) ==
  IF Closed(EventTask[e]) THEN "close"
  ELSE IF receipt[EventTask[e]] = "pending" THEN "redeliver"
  ELSE IF attempts[e] >= MaxClaims THEN "notice"
  ELSE "persist"

\* The interrupted notice comes after its receipt, the first delivery after
\* the attempt is counted.
Process ==
  LET e == loop.ev
      t == EventTask[e]
      next == StartOf(e) IN
  /\ loop.at = "process"
  /\ loop' = [loop EXCEPT !.at = next,
                          !.to = IF next = "notice" \/ receipt[t] = "failed"
                                 THEN "failed" ELSE "completed"]
  /\ attempts' = IF next = "persist" THEN [attempts EXCEPT ![e] = @ + 1] ELSE attempts
  /\ receipt' = IF next = "notice" THEN [receipt EXCEPT ![t] = "failed"] ELSE receipt
  /\ UNCHANGED <<registration, new, claimed, completed, failed, torn, seen,
                 busy, promised, shown, shownIn, doubtful, ssh, line, crashes>>

\* mutant: the receipt is closed before the text is sent.
PersistText_Closed ==
  /\ loop.at = "persist"
  /\ receipt' = [receipt EXCEPT ![EventTask[loop.ev]] = "completed"]
  /\ loop' = [loop EXCEPT !.at = "deliver"]
  /\ UNCHANGED <<registration, new, claimed, completed, failed, torn, attempts, seen,
                 busy, promised, shown, shownIn, doubtful, ssh, line, crashes>>

\* write_receipt(_pending_delivery_receipt): the text, before it is sent.
PersistText ==
  /\ loop.at = "persist"
  /\ receipt' = [receipt EXCEPT ![EventTask[loop.ev]] = "pending"]
  /\ loop' = [loop EXCEPT !.at = "deliver"]
  /\ UNCHANGED <<registration, new, claimed, completed, failed, torn, attempts, seen,
                 busy, promised, shown, shownIn, doubtful, ssh, line, crashes>>

\* The text reaches the registered conversation.
Shows(t) ==
  /\ shown' = [shown EXCEPT ![t] = @ + 1]
  /\ shownIn' = [shownIn EXCEPT ![t] = @ \cup {registration[t]}]

\* mutant: one attempt too many.
GivesUp_Late == loop.at = "redeliver" /\ attempts[loop.ev] > MaxClaims

\* After a failed delivery: _process_claimed leaves the rest to the next scan,
\* _complete_pending_delivery counts it and in the end gives up.
GivesUp == loop.at = "redeliver" /\ attempts[loop.ev] >= MaxClaims

DeliveryFails ==
  LET e == loop.ev
      t == EventTask[e] IN
  IF GivesUp
  THEN /\ receipt' = [receipt EXCEPT ![t] = "failed"]
       /\ loop' = [loop EXCEPT !.at = "close", !.to = "failed"]
       /\ UNCHANGED attempts
  ELSE /\ attempts' = IF loop.at = "redeliver" THEN [attempts EXCEPT ![e] = @ + 1]
                      ELSE attempts
       /\ loop' = Rest
       /\ UNCHANGED receipt

\* _deliver_bounded: sent; refused; or sent (in part) and reported as failed.
DeliverText ==
  LET t == EventTask[loop.ev] IN
  /\ loop.at \in {"deliver", "redeliver"}
  /\ \/ /\ Shows(t)
        /\ loop' = [loop EXCEPT !.at = "complete"]
        /\ UNCHANGED <<receipt, attempts, doubtful>>
     \/ /\ DeliveryFails
        /\ UNCHANGED <<shown, shownIn, doubtful>>
     \/ /\ Shows(t)
        /\ doubtful' = doubtful \cup {t}
        /\ DeliveryFails
  /\ UNCHANGED <<registration, new, claimed, completed, failed, torn, seen,
                 busy, promised, ssh, line, crashes>>

\* write_receipt(_terminal_receipt("completed")).
CompleteReceipt ==
  /\ loop.at = "complete"
  /\ receipt' = [receipt EXCEPT ![EventTask[loop.ev]] = "completed"]
  /\ loop' = [loop EXCEPT !.at = "close", !.to = "completed"]
  /\ UNCHANGED <<registration, new, claimed, completed, failed, torn, attempts, seen,
                 busy, promised, shown, shownIn, doubtful, ssh, line, crashes>>

\* The interrupted notice, sent or not.
SendNotice ==
  /\ loop.at = "notice"
  /\ loop' = [loop EXCEPT !.at = "close"]
  /\ UNCHANGED <<files, busy, promised, shown, shownIn, doubtful, ssh, line, crashes>>

\* _move_claimed: the copy in the other folder, then the claimed file.
CloseEvent ==
  /\ loop.at = "close"
  /\ completed' = IF loop.to = "completed" THEN completed \cup {loop.ev} ELSE completed
  /\ failed' = IF loop.to = "failed" THEN failed \cup {loop.ev} ELSE failed
  /\ loop' = [loop EXCEPT !.at = "drop"]
  /\ UNCHANGED <<registration, new, claimed, torn, attempts, seen, receipt,
                 busy, promised, shown, shownIn, doubtful, ssh, line, crashes>>

DropClaimed ==
  /\ loop.at = "drop"
  /\ claimed' = claimed \ {loop.ev}
  /\ loop' = Rest
  /\ UNCHANGED <<registration, new, completed, failed, torn, attempts, seen, receipt,
                 busy, promised, shown, shownIn, doubtful, ssh, line, crashes>>

Scan ==
  \/ \E e \in Event : Recover(e) \/ Claim(e) \/ Resume(e)
  \/ UnlinkNew \/ Process \/ PersistText \/ DeliverText
  \/ CompleteReceipt \/ SendNotice \/ CloseEvent \/ DropClaimed

\* The bot dies; a delivery on its way may have arrived.
BotCrashes ==
  /\ loop.at # "idle"
  /\ crashes < MaxCrash
  /\ crashes' = crashes + 1
  /\ loop' = Rest
  /\ \/ /\ loop.at \in {"deliver", "redeliver"}
        /\ Shows(EventTask[loop.ev])
        /\ doubtful' = doubtful \cup {EventTask[loop.ev]}
     \/ /\ doubtful' = IF loop.at = "complete" THEN doubtful \cup {EventTask[loop.ev]}
                       ELSE doubtful
        /\ UNCHANGED <<shown, shownIn>>
  /\ UNCHANGED <<files, busy, promised, ssh, line>>

\* A main turn of conversation c starts or ends.  The loop is a coroutine of
\* the same event loop: turns move only while it awaits.
Awaits == loop.at \in {"idle", "deliver", "redeliver", "notice"}

TurnStarts(c) ==
  /\ Awaits
  /\ c \notin busy
  /\ busy' = busy \cup {c}
  /\ UNCHANGED <<files, loop, promised, shown, shownIn, doubtful, ssh, line, crashes>>

TurnEnds(c) ==
  /\ Awaits
  /\ c \in busy
  /\ busy' = busy \ {c}
  /\ UNCHANGED <<files, loop, promised, shown, shownIn, doubtful, ssh, line, crashes>>

InboxNext ==
  \/ \E t \in Task, c \in Chat : Register(t, c)
  \/ \E s \in Slot : Receive(s) \/ ReceiverDies(s)
  \/ Scan
  \/ BotCrashes
  \/ \E e \in Event : ClaimDies(e)
  \/ \E c \in Lively : TurnStarts(c) \/ TurnEnds(c)

\* What the other host may do to this one: any call at any time, also while an
\* earlier one runs.  No file depends on who waits for the answer: nobody does.
CallerStep ==
  /\ \E s \in Slot : /\ Idle(s)
                     /\ \E call \in {Probe(t) : t \in Task} \cup {Final(e) : e \in Event} :
                          ssh' = [ssh EXCEPT ![s] = call]
  /\ UNCHANGED <<inboxVars, line, crashes>>

AloneInit == InboxInit /\ WireInit

InboxSpec ==
  /\ AloneInit
  /\ [][InboxNext \/ CallerStep]_<<inboxVars, ssh, line, crashes>>
-----------------------------------------------------------------------------
(* Properties *)

InboxOK ==
  /\ registration \in [Task -> Chat \cup {NoChat}]
  /\ new \subseteq Event /\ claimed \subseteq Event /\ completed \subseteq Event
  /\ failed \subseteq Event
  /\ tornNew \subseteq Event /\ tornClaimed \subseteq Event
  /\ attempts \in [Event -> 0..MaxClaims]
  /\ seen \subseteq Event
  /\ receipt \in [Task -> Receipt]
  /\ loop \in Loop
  /\ busy \subseteq Lively
  /\ promised \in [Task -> SUBSET Chat]
  /\ shown \in [Task -> Nat]
  /\ shownIn \in [Task -> SUBSET (Chat \cup {NoChat})]
  /\ doubtful \subseteq Task

\* Types: the files, the loop and the history of WEB1 and its receivers; no
\* claim is tried more often than the bound.
InboxTypeOK == WireOK /\ InboxOK

\* The result of a task as CallbackDelivery sees it.
ResultOf(t) ==
  IF Closed(t) THEN receipt[t]
  ELSE IF \E e \in (new \ tornNew) \cup claimed : EventTask[e] = t THEN "accepted"
  ELSE "open"

Delivery == INSTANCE CallbackDelivery
  WITH result <- [t \in Task |-> ResultOf(t)], times <- shown

\* The inbox keeps the promise of CallbackDelivery (background_callback.py:7,
\* "delivers the frozen text"): with crashes between any two file operations,
\* repeated and overlapping calls and two results for one task, a text is only
\* shown for an accepted result, a receipt closes it for good, and no receipt
\* says "completed" of a text that was never shown.
DeliverySpec == Delivery!Spec

\* A result is shown once, unless the outcome of a delivery was lost: Telegram
\* reported a failure of what had arrived, or the bot died before it wrote the
\* receipt (_complete_pending_delivery, background_callback.py:983).
ShownOnce == \A t \in Task : shown[t] <= 1 \/ t \in doubtful

\* "Destination identity is frozen at registration; later events cannot
\* retarget Telegram" (background_callback.py:4): a task is promised to one
\* conversation, and its result is shown nowhere else.
ShownWherePromised ==
  \A t \in Task :
    /\ Cardinality(promised[t]) <= 1
    /\ promised[t] # {} => shownIn[t] \subseteq promised[t]
    /\ NoChat \notin shownIn[t]
=============================================================================
