--------------------------- MODULE CallbackSystem ---------------------------
(***************************************************************************)
(* The two hosts of the background callback together: CallbackOutbox on    *)
(* HMS starts the receiver processes of CallbackInbox on WEB1 and reads    *)
(* their answers (CallbackWire).                                           *)
(***************************************************************************)
EXTENDS CallbackInbox, CallbackOutbox

vars == <<inboxVars, outboxVars, ssh, line, crashes>>

Init == WireInit /\ InboxInit /\ OutboxInit

InboxStep == InboxNext /\ UNCHANGED outboxVars

OutboxStep == OutboxNext /\ UNCHANGED inboxVars

Next == InboxStep \/ OutboxStep

Spec == Init /\ [][Next]_vars

\* The daemon drains again and again and a drain ends; receivers run; clocks
\* advance; the inbox loop scans every two seconds and visits every file; CLI
\* turns end at their deadline.  Crashes, registrations and the tasks
\* themselves are not fair, and calls, verifiers and deliveries may always
\* fail.
Fairness ==
  /\ WF_vars(DrainOne /\ UNCHANGED inboxVars)
  /\ \A r \in Record : WF_vars(CoolsDown(r) /\ UNCHANGED inboxVars)
  /\ \A s \in Slot : WF_vars(Receive(s) /\ UNCHANGED outboxVars)
  /\ WF_vars(Scan /\ UNCHANGED outboxVars)
  /\ \A e \in Event : /\ SF_vars(Claim(e) /\ UNCHANGED outboxVars)
                      /\ SF_vars(Resume(e) /\ UNCHANGED outboxVars)
                      /\ SF_vars(Recover(e) /\ UNCHANGED outboxVars)
  /\ \A c \in Lively : WF_vars(TurnEnds(c) /\ UNCHANGED outboxVars)

FairSpec == Spec /\ Fairness
-----------------------------------------------------------------------------
(* Properties *)

OutboxOK ==
  /\ pending \subseteq Record /\ sent \subseteq Record /\ gaveUp \subseteq Record
  /\ disk \in [Record -> Doc]
  /\ empty \subseteq Record
  /\ todo \subseteq Record
  /\ ran \in BOOLEAN
  /\ drain \in Drain
  /\ cooling \subseteq Record
  /\ ids \subseteq Event
  /\ verified \in [Record -> Nat]
  /\ \A r \in Record : disk[r].attempts <= MaxAttempts

\* Types of both hosts; a file never records more attempts than the bound.
TypeOK == InboxTypeOK /\ OutboxOK

\* A result that reached WEB1 is written down on HMS with its id, so that any
\* later call repeats it and can be recognised (hms_callback_outbox.py:721-740):
\* no restart or retry makes a second result of the same record.
HeldIsWrittenDown == Held \subseteq {disk[r].final : r \in Record}

\* The verdict of a record is made once, and never for a task that WEB1 has
\* not registered (docs/background-callback.md:85): retries and restarts
\* reuse it.
VerifierIsSpentOnce ==
  \A r \in Record :
    /\ verified[r] <= 1
    /\ verified[r] > 0 => registration[RecordTask[r]] # NoChat

\* What the outbox files under sent/ is at WEB1, in one of its folders: an
\* answer "accepted" or "replay" is only given for a result that has arrived.
SentIsHeld == \A r \in sent : disk[r].final \in Held

\* A record does not stay in pending/ for ever, however often calls, verifiers
\* and processes fail; unless a crash has left an empty file there, at which
\* every drain stops.
EnqueuedSettles ==
  \A r \in Record : r \in pending ~> ((r \in sent \cup gaveUp /\ r \notin pending)
                                      \/ empty # {})

\* From one host to the other: what the outbox calls sent gets its receipt on
\* WEB1, also when the conversation is busy at first; unless a crash has left
\* an empty file in inbox/new, which is a replay to every later call, or in
\* inbox/claimed, which no scan reads.
SentIsAnswered ==
  \A r \in Record :
    r \in sent ~> (Closed(RecordTask[r]) \/ disk[r].final \in tornNew \cup tornClaimed)

\* PENDING_ACK (background_callback.py:98) tells the conversation that the task
\* is registered and will be verified and answered.
PromisedIsAnswered ==
  \A r \in Record :
    (promised[RecordTask[r]] # {} /\ r \in pending \cup sent \cup gaveUp)
      ~> Closed(RecordTask[r])
=============================================================================
