--------------------------- MODULE CallbackOutbox ---------------------------
(***************************************************************************)
(* The HMS side of the background callback (tools/hms_callback_outbox.py   *)
(* and tools/watchdog_callback_hooks.py).  The watchdog enqueues a record  *)
(* for a task that has reached its terminal state and drains the outbox: a *)
(* probe, one verifier turn, the final result, each retried under a common *)
(* bound of attempts.  A record is a JSON file that is replaced as a whole *)
(* (write_json); what the drain has in hand is lost when it dies.          *)
(***************************************************************************)
EXTENDS CallbackWire, FiniteSets

CONSTANTS
  Record,       \* outbox records (the event_id of their probe)
  RecordTask,   \* [Record -> Task]
  NoRecord,
  MaxAttempts   \* HMS_CALLBACK_MAX_ATTEMPTS, 60 in the code

ASSUME OutboxAssumption ==
  /\ RecordTask \in [Record -> Task]
  /\ NoRecord \notin Record
  /\ MaxAttempts \in Nat \ {0}

VARIABLES
  \* --- files under the outbox root
  pending, sent, gaveUp,  \* pending/, sent/, failed/: sets of records
  disk,      \* [Record -> Doc]: the file in pending/
  empty,     \* pending files that were created and never written
  \* --- the drain
  todo,      \* records this pass has not come to
  ran,       \* ran_verifier
  drain,     \* the step it is at, the record and its copy in memory
  cooling,   \* records whose next_ok_at is ahead
  \* --- history
  ids,       \* event ids made so far (uuid4)
  verified   \* [Record -> Nat]: verifier turns whose verdict was kept

outboxVars == <<pending, sent, gaveUp, disk, empty, todo, ran, drain, cooling, ids, verified>>

\* probe_status, verifier, final_event and attempts of a record.
Doc == [probe : {"none", "registered", "unknown"}, verdict : BOOLEAN,
        final : Event \cup {NoEvent}, attempts : Nat]
Blank == [probe |-> "none", verdict |-> FALSE, final |-> NoEvent, attempts |-> 0]

DrainStep == {"idle", "probe", "probing", "verify", "build", "send", "sending", "unlink"}
Drain == [at : DrainStep, rec : Record \cup {NoRecord}, doc : Doc]
Resting == [at |-> "idle", rec |-> NoRecord, doc |-> Blank]

OutboxInit ==
  /\ pending = {} /\ sent = {} /\ gaveUp = {} /\ empty = {}
  /\ disk = [r \in Record |-> Blank]
  /\ todo = {}
  /\ ran = FALSE
  /\ drain = Resting
  /\ cooling = {}
  /\ ids = {}
  /\ verified = [r \in Record |-> 0]
-----------------------------------------------------------------------------
(* after_terminal_callback, cmd_enqueue *)

\* The task is terminal: the record is on disk before anything is sent.  A
\* crash in exclusive_write leaves an empty file.
Enqueue(r) ==
  /\ drain.at = "idle"
  /\ todo = {}
  /\ r \notin pending \cup sent \cup gaveUp
  /\ pending' = pending \cup {r}
  /\ \/ UNCHANGED <<empty, crashes>>
     \/ /\ TornWrites
        /\ crashes < MaxCrash
        /\ crashes' = crashes + 1
        /\ empty' = empty \cup {r}
  /\ UNCHANGED <<sent, gaveUp, disk, todo, ran, drain, cooling, ids, verified>>
  /\ NoCall
-----------------------------------------------------------------------------
(* cmd_drain *)

\* sorted(pending.glob): the files there are when a pass begins.
StartPass ==
  /\ drain.at = "idle"
  /\ todo = {}
  /\ pending # {}
  /\ todo' = pending
  /\ ran' = FALSE
  /\ UNCHANGED <<pending, sent, gaveUp, disk, empty, drain, cooling, ids, verified>>
  /\ NoCall /\ UNCHANGED crashes

\* Where a record is taken up again after a restart or a retry.
Entry(doc) ==
  IF doc.probe = "none" THEN "probe"
  ELSE IF ~doc.verdict THEN "verify"
  ELSE IF doc.final = NoEvent THEN "build"
  ELSE "send"

\* The next file of the pass: one already sent is removed, one whose time has
\* not come is passed over, and one that is not JSON ends the pass.
Visit(r) ==
  /\ drain.at = "idle"
  /\ r \in todo \ empty
  /\ todo' = todo \ {r}
  /\ drain' = IF r \in sent
              THEN [at |-> "unlink", rec |-> r, doc |-> disk[r]]
              ELSE IF r \in cooling THEN drain
              ELSE [at |-> Entry(disk[r]), rec |-> r, doc |-> disk[r]]
  /\ UNCHANGED <<pending, sent, gaveUp, disk, empty, ran, cooling, ids, verified>>
  /\ NoCall /\ UNCHANGED crashes

VisitEmpty(r) ==
  /\ drain.at = "idle"
  /\ r \in todo \cap empty
  /\ todo' = {}
  /\ UNCHANGED <<pending, sent, gaveUp, disk, empty, ran, drain, cooling, ids, verified>>
  /\ NoCall /\ UNCHANGED crashes

\* next_ok_at is reached.
CoolsDown(r) ==
  /\ r \in cooling
  /\ cooling' = cooling \ {r}
  /\ UNCHANGED <<pending, sent, gaveUp, disk, empty, todo, ran, drain, ids, verified>>
  /\ NoCall /\ UNCHANGED crashes

\* _fail_record: the copy in failed/, then the pending file.
Fails(doc) ==
  /\ gaveUp' = gaveUp \cup {drain.rec}
  /\ drain' = [drain EXCEPT !.at = "unlink", !.doc = doc]
  /\ UNCHANGED <<disk, cooling>>

\* _backoff and write_json(pending): this record is tried again later.
RetryLater(doc) ==
  /\ disk' = [disk EXCEPT ![drain.rec] = doc]
  /\ cooling' = cooling \cup {drain.rec}
  /\ drain' = Resting
  /\ UNCHANGED gaveUp

\* write_json(pending): go on with the same record.
Persist(doc, at) ==
  /\ disk' = [disk EXCEPT ![drain.rec] = doc]
  /\ drain' = [drain EXCEPT !.at = at, !.doc = doc]
  /\ UNCHANGED <<gaveUp, cooling>>

\* mutant: the attempt is not counted.
Attempted_Uncounted(doc) == doc

Attempted(doc) == [doc EXCEPT !.attempts = @ + 1]

\* mutant: one attempt too many.
RetryOrFail_Late(doc) ==
  IF doc.attempts > MaxAttempts THEN Fails(doc) ELSE RetryLater(doc)

\* One more failure: again later, or never when the bound is reached.
RetryOrFail(doc) ==
  IF doc.attempts >= MaxAttempts THEN Fails(doc) ELSE RetryLater(doc)

\* Receiver processes have no identity: any idle slot will do.
FreeSlot == CHOOSE s \in Slot : Idle(s)

\* _send_signed_event
SendProbe ==
  /\ drain.at = "probe"
  /\ \E s \in Slot : Idle(s)
  /\ Calls(FreeSlot, Probe(RecordTask[drain.rec]))
  /\ drain' = [drain EXCEPT !.at = "probing"]
  /\ UNCHANGED <<pending, sent, gaveUp, disk, empty, todo, ran, cooling, ids, verified, crashes>>

SendFinal ==
  /\ drain.at = "send"
  /\ \E s \in Slot : Idle(s)
  /\ Calls(FreeSlot, Final(drain.doc.final))
  /\ drain' = [drain EXCEPT !.at = "sending"]
  /\ UNCHANGED <<pending, sent, gaveUp, disk, empty, todo, ran, cooling, ids, verified, crashes>>

\* _probe_outcome
ProbeOutcome(reply) ==
  CASE reply = "registered" -> "registered"
    [] reply = "unknown_task" -> "unknown"
    [] OTHER -> "retry"

AfterProbe(reply) ==
  LET doc == Attempted(drain.doc) IN
  CASE ProbeOutcome(reply) = "registered" ->
         Persist([doc EXCEPT !.probe = "registered"], "verify")
    [] ProbeOutcome(reply) = "unknown" -> Fails([doc EXCEPT !.probe = "unknown"])
    [] OTHER -> RetryOrFail(doc)

\* The receiver answers, or the call ends without an answer (rc 99).
ProbeReturns ==
  /\ drain.at = "probing"
  /\ \/ HangsUp /\ AfterProbe(ssh[line].reply)
     \/ Faulty /\ Abandons /\ AfterProbe("")
  /\ UNCHANGED <<pending, sent, empty, todo, ran, ids, verified, crashes>>

\* mutant: a verdict is used before it is written.
Verdict_Unwritten(doc) == Persist(drain.doc, "build")

Verdict(doc) == Persist(doc, "build")

\* run_hms_verifier: one turn a pass; the verdict is kept before it is sent.
Verify ==
  /\ drain.at = "verify"
  /\ \/ /\ ran
        /\ drain' = Resting
        /\ UNCHANGED <<ran, disk, gaveUp, cooling, verified>>
     \/ /\ ~ran
        /\ ran' = TRUE
        /\ verified' = [verified EXCEPT ![drain.rec] = @ + 1]
        /\ Verdict([drain.doc EXCEPT !.verdict = TRUE])
     \/ /\ ~ran /\ Faulty
        /\ RetryOrFail(Attempted(drain.doc))
        /\ UNCHANGED <<ran, verified>>
  /\ UNCHANGED <<pending, sent, empty, todo, ids>>
  /\ NoCall /\ UNCHANGED crashes

\* mutant: the signed event is not written down before it is sent.
Signed_Unwritten(e) ==
  /\ drain' = [drain EXCEPT !.at = "send", !.doc.final = e]
  /\ UNCHANGED <<disk, gaveUp, cooling>>

Signed(e) == Persist([drain.doc EXCEPT !.final = e], "send")

\* build_final_event with a new id, and write_json(pending).
BuildFinal(e) ==
  /\ drain.at = "build"
  /\ e \notin ids
  /\ EventTask[e] = RecordTask[drain.rec]
  /\ ids' = ids \cup {e}
  /\ Signed(e)
  /\ UNCHANGED <<pending, sent, empty, todo, ran, verified>>
  /\ NoCall /\ UNCHANGED crashes

\* mutant: every answer but one ends the retries.
FinalOutcome_AnyAnswer(reply) == IF reply = "unknown_task" THEN "unknown" ELSE "sent"

\* _final_outcome
FinalOutcome(reply) ==
  CASE reply \in {"accepted", "replay"} -> "sent"
    [] reply = "unknown_task" -> "unknown"
    [] OTHER -> "retry"

AfterFinal(reply) ==
  LET doc == Attempted(drain.doc) IN
  CASE FinalOutcome(reply) = "sent" ->
         /\ sent' = sent \cup {drain.rec}
         /\ drain' = [drain EXCEPT !.at = "unlink", !.doc = doc]
         /\ UNCHANGED <<gaveUp, disk, cooling>>
    [] FinalOutcome(reply) = "unknown" -> Fails(doc) /\ UNCHANGED sent
    [] OTHER -> RetryOrFail(doc) /\ UNCHANGED sent

FinalReturns ==
  /\ drain.at = "sending"
  /\ \/ HangsUp /\ AfterFinal(ssh[line].reply)
     \/ Faulty /\ Abandons /\ AfterFinal("")
  /\ UNCHANGED <<pending, empty, todo, ran, ids, verified, crashes>>

\* pending.unlink
UnlinkPending ==
  /\ drain.at = "unlink"
  /\ pending' = pending \ {drain.rec}
  /\ drain' = Resting
  /\ UNCHANGED <<sent, gaveUp, disk, empty, todo, ran, cooling, ids, verified>>
  /\ NoCall /\ UNCHANGED crashes

DrainOne ==
  \/ StartPass
  \/ \E r \in Record : Visit(r) \/ VisitEmpty(r)
  \/ SendProbe \/ ProbeReturns \/ Verify \/ SendFinal \/ FinalReturns \/ UnlinkPending
  \/ \E e \in Event : BuildFinal(e)

\* The drain dies (the watchdog's drain timeout, a reboot): what is on disk
\* stays, a call in progress is abandoned.
DrainCrashes ==
  /\ drain.at # "idle"
  /\ crashes < MaxCrash
  /\ crashes' = crashes + 1
  /\ drain' = Resting
  /\ todo' = {}
  /\ IF line = NoSlot THEN NoCall ELSE Abandons
  /\ UNCHANGED <<pending, sent, gaveUp, disk, empty, ran, cooling, ids, verified>>

OutboxNext ==
  \/ \E r \in Record : Enqueue(r) \/ CoolsDown(r)
  \/ DrainOne
  \/ DrainCrashes
=============================================================================
