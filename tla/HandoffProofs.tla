--------------------------- MODULE HandoffProofs ---------------------------
(***************************************************************************)
(* Proofs about ConversationHandoff, for any tasks, providers, bound Keep  *)
(* and number of resets and completions.                                   *)
(***************************************************************************)
EXTENDS ConversationHandoff, TLAPS

\* A main turn is in progress: its snapshot was taken in this epoch.
Running == stage \in {"create", "prompt", "run", "acknowledge", "complete"}

SnapshotIsCurrent ==
  Running => turn.epoch = epoch /\ turn.through <= nextHandoff

\* Between the two halves of /reset there is no main turn, and the provider that
\* is reset has no session.
SessionsAreOld ==
  /\ \A p \in Provider : session[p] <= epoch /\ lastReset[p] <= epoch
  /\ resetting # {} => stage = "idle"
  /\ \A p \in resetting : session[p] = 0

\* From the prompt to the acknowledgement: what the cursor is about to pass and
\* is still kept was carried.
Carries ==
  stage \in {"run", "acknowledge"} /\ ~turn.fresh =>
    \A i \in DOMAIN handoffs :
      delivered[turn.provider] < handoffs[i].id /\ handoffs[i].id <= turn.through
        => handoffs[i].id \in turn.carried

IInv ==
  /\ TypeOK
  /\ EpochsDoNotMix
  /\ SnapshotIsCurrent
  /\ CursorWithinIssued
  /\ SessionsAreOld
  /\ ResetSticks
  /\ Carries

-----------------------------------------------------------------------------
(* What is kept of a list. *)

\* A suffix of a list has the list's elements.
LEMMA SuffixParts ==
  ASSUME NEW S, NEW s \in Seq(S), NEW m \in 1..Len(s) + 1
  PROVE  /\ SubSeq(s, m, Len(s)) \in Seq(S)
         /\ \A i \in DOMAIN SubSeq(s, m, Len(s)) :
              \E j \in DOMAIN s : SubSeq(s, m, Len(s))[i] = s[j]
<1>1. /\ SubSeq(s, m, Len(s)) \in Seq(S)
      /\ Len(SubSeq(s, m, Len(s))) = Len(s) - m + 1
      /\ \A i \in 1..Len(s) - m + 1 : SubSeq(s, m, Len(s))[i] = s[m + i - 1]
  OBVIOUS
<1>2. ASSUME NEW i \in DOMAIN SubSeq(s, m, Len(s))
      PROVE  \E j \in DOMAIN s : SubSeq(s, m, Len(s))[i] = s[j]
  <2>1. i \in 1..Len(s) - m + 1
    BY <1>1
  <2>2. m + i - 1 \in DOMAIN s
    BY <2>1
  <2>3. QED
    BY <1>1, <2>1, <2>2
<1>3. QED
  BY <1>1, <1>2

LEMMA AppendParts ==
  ASSUME NEW S, NEW s \in Seq(S), NEW e \in S
  PROVE  /\ Append(s, e) \in Seq(S)
         /\ \A i \in DOMAIN Append(s, e) :
              Append(s, e)[i] = e \/ \E j \in DOMAIN s : Append(s, e)[i] = s[j]
<1>1. /\ Append(s, e) \in Seq(S)
      /\ Len(Append(s, e)) = Len(s) + 1
      /\ Append(s, e)[Len(s) + 1] = e
      /\ \A j \in 1..Len(s) : Append(s, e)[j] = s[j]
  OBVIOUS
<1>2. ASSUME NEW i \in DOMAIN Append(s, e)
      PROVE  Append(s, e)[i] = e \/ \E j \in DOMAIN s : Append(s, e)[i] = s[j]
  <2>1. i \in 1..Len(s) \/ i = Len(s) + 1
    BY <1>1
  <2>2. QED
    BY <1>1, <2>1
<1>3. QED
  BY <1>1, <1>2

\* _append and the cut of handoffs add nothing but the new entry.
LEMMA AppendedParts ==
  ASSUME NEW S, NEW s \in Seq(S), NEW e \in S, NEW q \in Appended(s, e)
  PROVE  /\ q \in Seq(S)
         /\ \A i \in DOMAIN q : q[i] = e \/ \E j \in DOMAIN s : q[i] = s[j]
<1> DEFINE all == Append(s, e)
<1>1. PICK m \in 1..Len(all) + 1 : q = SubSeq(all, m, Len(all))
  BY DEF Appended
<1>2. all \in Seq(S) /\ \A i \in DOMAIN all : all[i] = e \/ \E j \in DOMAIN s : all[i] = s[j]
  BY AppendParts
<1> HIDE DEF all
<1>3. q \in Seq(S) /\ \A i \in DOMAIN q : \E j \in DOMAIN all : q[i] = all[j]
  BY <1>1, <1>2, SuffixParts
<1>4. QED
  BY <1>2, <1>3

LEMMA LastParts ==
  ASSUME NEW S, NEW s \in Seq(S), NEW e \in S
  PROVE  /\ LastOf(Append(s, e)) \in Seq(S)
         /\ \A i \in DOMAIN LastOf(Append(s, e)) :
              \/ LastOf(Append(s, e))[i] = e
              \/ \E j \in DOMAIN s : LastOf(Append(s, e))[i] = s[j]
<1> DEFINE all == Append(s, e)
           m == Len(all) - Keep + 1
<1>1. all \in Seq(S) /\ \A i \in DOMAIN all : all[i] = e \/ \E j \in DOMAIN s : all[i] = s[j]
  BY AppendParts
<1> HIDE DEF all
<1>2. CASE Len(all) > Keep
  <2>1. m \in 1..Len(all) + 1 /\ LastOf(all) = SubSeq(all, m, Len(all))
    BY <1>1, <1>2, HandoffAssumption DEF LastOf
  <2>2. /\ LastOf(all) \in Seq(S)
        /\ \A i \in DOMAIN LastOf(all) : \E j \in DOMAIN all : LastOf(all)[i] = all[j]
    BY <1>1, <2>1, SuffixParts
  <2>3. QED
    BY <1>1, <2>2 DEF all
<1>3. CASE ~(Len(all) > Keep)
  <2>1. LastOf(all) = all
    BY <1>3 DEF LastOf
  <2>2. QED
    BY <1>1, <2>1 DEF all
<1>4. QED
  BY <1>2, <1>3
-----------------------------------------------------------------------------
(* The initial states. *)

LEMMA InitIInv == Init => IInv
<1> SUFFICES ASSUME Init PROVE IInv
  OBVIOUS
<1>1. TypeOK
  <2>1. turns \in Seq(Entry) /\ handoffs \in Seq(Handoff)
        /\ inherited \in [Task -> Seq(Entry)]
    BY DEF Init
  <2>2. turn \in Turn
    BY DEF Init, Turn
  <2>3. QED
    BY <2>1, <2>2 DEF Init, TypeOK, Stage
<1>2. EpochsDoNotMix
  BY DEF Init, EpochsDoNotMix, OfEpoch
<1>3. SnapshotIsCurrent /\ CursorWithinIssued /\ SessionsAreOld /\ ResetSticks /\ Carries
  BY DEF Init, SnapshotIsCurrent, Running, CursorWithinIssued, SessionsAreOld,
         ResetSticks, Carries
<1>4. QED
  BY <1>1, <1>2, <1>3 DEF IInv

-----------------------------------------------------------------------------
(* The main turn. *)

LEMMA StartTurnInv ==
  ASSUME IInv, NEW p \in Provider, StartTurn(p)
  PROVE  IInv'
<1>1. /\ turn' = [provider |-> p, epoch |-> epoch, through |-> nextHandoff,
                  fresh |-> session[p] = 0, history |-> FALSE, carried |-> {}]
      /\ stage' \in {"create", "prompt"} /\ resetting = {}
      /\ UNCHANGED <<context, tasks, session, resetting, briefed, lastReset>>
  BY DEF StartTurn
<1>2. turn' \in Turn /\ turn'.epoch = epoch /\ turn'.through = nextHandoff
  <2>1. epoch \in Nat /\ nextHandoff \in Nat
    BY DEF IInv, TypeOK
  <2>2. (session[p] = 0) \in BOOLEAN
    OBVIOUS
  <2>3. QED
    BY <1>1, <2>1, <2>2 DEF Turn
<1>3. TypeOK'
  BY <1>1, <1>2 DEF IInv, TypeOK, context, tasks, Stage
<1>4. EpochsDoNotMix'
  BY <1>1 DEF IInv, EpochsDoNotMix, OfEpoch, context, tasks
<1>5. SnapshotIsCurrent' /\ CursorWithinIssued' /\ Carries'
  BY <1>1, <1>2 DEF IInv, TypeOK, SnapshotIsCurrent, CursorWithinIssued, Carries, context
<1>6. SessionsAreOld' /\ ResetSticks'
  BY <1>1 DEF IInv, SessionsAreOld, ResetSticks, context
<1>7. QED
  BY <1>3, <1>4, <1>5, <1>6 DEF IInv

\* A session that begins is of the current epoch.
LEMMA SessionBegins ==
  ASSUME epoch \in Nat, session \in [Provider -> Nat], SessionsAreOld, ResetSticks,
         NEW p \in Provider,
         session' = [session EXCEPT ![p] = epoch] \/ UNCHANGED session,
         UNCHANGED epoch, UNCHANGED lastReset, stage # "idle", UNCHANGED resetting
  PROVE  SessionsAreOld' /\ ResetSticks'
<1>1. \A q \in Provider : session'[q] = session[q] \/ session'[q] = epoch
  OBVIOUS
<1>2. ASSUME NEW q \in Provider
      PROVE  /\ session'[q] <= epoch /\ lastReset[q] <= epoch
             /\ session'[q] # 0 => session'[q] >= lastReset[q]
  BY <1>1 DEF SessionsAreOld, ResetSticks
<1>3. resetting = {}
  BY DEF SessionsAreOld
<1>4. QED
  BY <1>2, <1>3 DEF SessionsAreOld, ResetSticks

LEMMA CreateSessionInv ==
  ASSUME IInv, CreateSession
  PROVE  IInv'
<1> DEFINE p == turn.provider
<1>1. /\ p \in Provider /\ turn.epoch \in Nat /\ turn.epoch = epoch
      /\ stage = "create" /\ stage' \in {"prompt", "idle"}
      /\ UNCHANGED <<context, tasks, turn, resetting, lastReset>>
      /\ session' = [session EXCEPT ![p] = epoch] \/ UNCHANGED session
      /\ briefed' \in {briefed, briefed \cup {p}, briefed \ {p}}
  BY DEF CreateSession, IInv, TypeOK, Turn, SnapshotIsCurrent, Running
<1>2. TypeOK'
  BY <1>1 DEF IInv, TypeOK, context, tasks, Stage
<1>3. EpochsDoNotMix'
  BY <1>1 DEF IInv, EpochsDoNotMix, OfEpoch, context, tasks
<1>4. SnapshotIsCurrent' /\ CursorWithinIssued' /\ Carries'
  BY <1>1 DEF IInv, SnapshotIsCurrent, Running, CursorWithinIssued, Carries, context
<1>5. SessionsAreOld' /\ ResetSticks'
  BY <1>1, SessionBegins DEF IInv, TypeOK, context
<1>6. QED
  BY <1>2, <1>3, <1>4, <1>5 DEF IInv

LEMMA BuildPromptInv ==
  ASSUME IInv, BuildPrompt
  PROVE  IInv'
<1> DEFINE p == turn.provider
           ids == {handoffs[i].id : i \in DOMAIN handoffs}
<1>1. /\ stage = "prompt" /\ stage' = "run"
      /\ UNCHANGED <<context, tasks, session, resetting, briefed, lastReset>>
      /\ turn \in Turn /\ p \in Provider
  BY DEF BuildPrompt, IInv, TypeOK, Turn
<1>2. Unseen(p) \in SUBSET Nat
  <2>1. handoffs \in Seq(Handoff)
    BY DEF IInv, TypeOK
  <2>2. \A i \in DOMAIN handoffs : handoffs[i] \in Handoff
    BY <2>1
  <2>3. \A i \in DOMAIN handoffs : handoffs[i].id \in Nat
    BY <2>2 DEF Handoff
  <2>4. QED
    BY <2>3 DEF Unseen
<1>3. /\ turn' \in Turn /\ turn'.provider = p /\ turn'.epoch = turn.epoch
      /\ turn'.through = turn.through /\ turn'.fresh = turn.fresh
      /\ ~turn.fresh => turn'.carried = Unseen(p)
  BY <1>1, <1>2 DEF BuildPrompt, Turn
<1>4. TypeOK'
  BY <1>1, <1>3 DEF IInv, TypeOK, context, tasks, Stage
<1>5. EpochsDoNotMix'
  BY <1>1 DEF IInv, EpochsDoNotMix, OfEpoch, context, tasks
<1>6. SnapshotIsCurrent' /\ CursorWithinIssued' /\ SessionsAreOld' /\ ResetSticks'
  BY <1>1, <1>3 DEF IInv, SnapshotIsCurrent, Running, CursorWithinIssued, SessionsAreOld,
                    ResetSticks, context
<1>7. Carries'
  <2> SUFFICES ASSUME ~turn.fresh, NEW i \in DOMAIN handoffs,
                      delivered[p] < handoffs[i].id
               PROVE  handoffs[i].id \in turn'.carried
    BY <1>1, <1>3 DEF Carries, context
  <2>1. handoffs[i].id \notin 0..delivered[p]
    BY <1>1 DEF IInv, TypeOK, Handoff
  <2>2. QED
    BY <1>3, <2>1 DEF Unseen
<1>8. QED
  BY <1>4, <1>5, <1>6, <1>7 DEF IInv

LEMMA ProviderEndsInv ==
  ASSUME IInv, ProviderEnds
  PROVE  IInv'
<1> DEFINE p == turn.provider
<1>1. /\ p \in Provider /\ turn.epoch \in Nat /\ turn.epoch = epoch
      /\ stage = "run" /\ stage' \in {"acknowledge", "idle"}
      /\ UNCHANGED <<context, tasks, turn, resetting, lastReset>>
      /\ session' = [session EXCEPT ![p] = epoch] \/ UNCHANGED session
      /\ briefed' \in {briefed, briefed \cup {p}, briefed \ {p}}
  BY DEF ProviderEnds, IInv, TypeOK, Turn, SnapshotIsCurrent, Running
<1>2. TypeOK'
  BY <1>1 DEF IInv, TypeOK, context, tasks, Stage
<1>3. EpochsDoNotMix'
  BY <1>1 DEF IInv, EpochsDoNotMix, OfEpoch, context, tasks
<1>4. SnapshotIsCurrent' /\ CursorWithinIssued' /\ Carries'
  BY <1>1 DEF IInv, SnapshotIsCurrent, Running, CursorWithinIssued, Carries, context
<1>5. SessionsAreOld' /\ ResetSticks'
  BY <1>1, SessionBegins DEF IInv, TypeOK, context
<1>6. QED
  BY <1>2, <1>3, <1>4, <1>5 DEF IInv

LEMMA AcknowledgeInv ==
  ASSUME IInv, Acknowledge
  PROVE  IInv'
<1> DEFINE p == turn.provider
<1>1. /\ p \in Provider /\ turn.through \in Nat /\ turn.through <= nextHandoff
      /\ stage = "acknowledge" /\ stage' = "complete"
      /\ UNCHANGED <<epoch, turns, handoffs, nextHandoff, tasks, session, turn,
                     resetting, briefed, lastReset>>
      /\ delivered' = [delivered EXCEPT ![p] = turn.through] \/ UNCHANGED delivered
  BY DEF Acknowledge, IInv, TypeOK, Turn, SnapshotIsCurrent, Running
<1>2. TypeOK'
  BY <1>1 DEF IInv, TypeOK, tasks, Stage
<1>3. EpochsDoNotMix'
  BY <1>1 DEF IInv, EpochsDoNotMix, OfEpoch, tasks
<1>4. SnapshotIsCurrent' /\ Carries' /\ SessionsAreOld' /\ ResetSticks'
  BY <1>1 DEF IInv, SnapshotIsCurrent, Running, Carries, SessionsAreOld, ResetSticks
<1>5. CursorWithinIssued'
  BY <1>1 DEF IInv, TypeOK, CursorWithinIssued
<1>6. QED
  BY <1>2, <1>3, <1>4, <1>5 DEF IInv

LEMMA CompleteInv ==
  ASSUME IInv, Complete
  PROVE  IInv'
<1> DEFINE e == [from |-> Main, of |-> turn.epoch]
<1>1. /\ stage' = "idle"
      /\ UNCHANGED <<epoch, handoffs, nextHandoff, delivered, tasks, session, turn,
                     resetting, briefed, lastReset>>
      /\ e \in Entry /\ turns \in Seq(Entry)
      /\ UNCHANGED turns \/ (e.of = epoch /\ turns' \in Appended(turns, e))
  BY DEF Complete, Current, IInv, TypeOK, Turn, Entry
<1>2. turns' \in Seq(Entry) /\ OfEpoch(turns', epoch)
  <2>1. OfEpoch(turns, epoch)
    BY DEF IInv, EpochsDoNotMix
  <2>2. CASE UNCHANGED turns
    BY <1>1, <2>1, <2>2
  <2>3. CASE e.of = epoch /\ turns' \in Appended(turns, e)
    <3> HIDE DEF e
    <3>1. turns' \in Seq(Entry)
          /\ \A i \in DOMAIN turns' : turns'[i] = e \/ \E j \in DOMAIN turns : turns'[i] = turns[j]
      BY <1>1, <2>3, AppendedParts
    <3>2. QED
      BY <2>1, <2>3, <3>1 DEF OfEpoch
  <2>4. QED
    BY <1>1, <2>2, <2>3
<1>3. TypeOK'
  BY <1>1, <1>2 DEF IInv, TypeOK, tasks, Stage
<1>4. EpochsDoNotMix'
  BY <1>1, <1>2 DEF IInv, EpochsDoNotMix, OfEpoch, tasks
<1>5. SnapshotIsCurrent' /\ CursorWithinIssued' /\ Carries' /\ SessionsAreOld' /\ ResetSticks'
  BY <1>1 DEF IInv, SnapshotIsCurrent, Running, CursorWithinIssued, Carries,
              SessionsAreOld, ResetSticks
<1>6. QED
  BY <1>3, <1>4, <1>5 DEF IInv
-----------------------------------------------------------------------------
(* Tasks, /reset and crashes. *)

LEMMA BindTaskInv ==
  ASSUME IInv, NEW T \in Task, BindTask(T)
  PROVE  IInv'
<1>1. /\ parentEpoch' = [parentEpoch EXCEPT ![T] = epoch]
      /\ inherited' = [inherited EXCEPT ![T] = turns]
      /\ UNCHANGED <<context, session, stage, turn, resetting, briefed, lastReset, done>>
  BY DEF BindTask
<1>2. TypeOK'
  BY <1>1 DEF IInv, TypeOK, context
<1>3. EpochsDoNotMix'
  <2>1. OfEpoch(turns, epoch) /\ \A S \in Task : OfEpoch(inherited[S], parentEpoch[S])
    BY DEF IInv, EpochsDoNotMix
  <2>2. ASSUME NEW S \in Task PROVE OfEpoch(inherited'[S], parentEpoch'[S])
    <3>1. CASE S = T
      BY <1>1, <2>1, <3>1 DEF IInv, TypeOK
    <3>2. CASE S # T
      <4>1. inherited'[S] = inherited[S] /\ parentEpoch'[S] = parentEpoch[S]
        BY <1>1, <3>2 DEF IInv, TypeOK
      <4>2. QED
        BY <2>1, <4>1
    <3>3. QED
      BY <3>1, <3>2
  <2>3. QED
    BY <1>1, <2>2 DEF IInv, EpochsDoNotMix, OfEpoch, context
<1>4. SnapshotIsCurrent' /\ CursorWithinIssued' /\ Carries' /\ SessionsAreOld' /\ ResetSticks'
  BY <1>1 DEF IInv, SnapshotIsCurrent, Running, CursorWithinIssued, Carries,
              SessionsAreOld, ResetSticks, context
<1>5. QED
  BY <1>2, <1>3, <1>4 DEF IInv

\* A completion adds one entry of the current epoch to the history and one, with
\* the next number, to the stream; or nothing.
LEMMA TaskCompletesInv ==
  ASSUME IInv, NEW T \in Task, TaskCompletes(T)
  PROVE  IInv'
<1> DEFINE e == [from |-> T, of |-> epoch]
           h == [id |-> nextHandoff + 1, from |-> T, of |-> epoch]
<1>1. /\ done' \in Nat
      /\ UNCHANGED <<epoch, delivered, parentEpoch, inherited, session, stage, turn,
                     resetting, briefed, lastReset>>
  BY DEF TaskCompletes, IInv, TypeOK
<1>2. CASE Current(parentEpoch[T])
  <2>1. /\ turns' \in Appended(turns, e)
        /\ nextHandoff' = nextHandoff + 1
        /\ handoffs' = LastOf(Append(handoffs, h))
    BY <1>2 DEF TaskCompletes, Current
  <2>2. /\ e \in Entry /\ h \in Handoff /\ nextHandoff \in Nat
        /\ turns \in Seq(Entry) /\ handoffs \in Seq(Handoff)
        /\ e.of = epoch /\ h.of = epoch /\ h.id = nextHandoff + 1
    BY DEF IInv, TypeOK, Entry, Handoff
  <2> HIDE DEF e, h
  <2>3. turns' \in Seq(Entry)
        /\ \A i \in DOMAIN turns' : turns'[i] = e \/ \E j \in DOMAIN turns : turns'[i] = turns[j]
    BY <2>1, <2>2, AppendedParts
  <2>4. handoffs' \in Seq(Handoff)
        /\ \A i \in DOMAIN handoffs' :
             handoffs'[i] = h \/ \E j \in DOMAIN handoffs : handoffs'[i] = handoffs[j]
    BY <2>1, <2>2, LastParts
  <2>5. TypeOK'
    BY <1>1, <2>1, <2>2, <2>3, <2>4 DEF IInv, TypeOK
  <2>6. EpochsDoNotMix'
    <3>1. OfEpoch(turns', epoch) /\ OfEpoch(handoffs', epoch)
      BY <2>2, <2>3, <2>4 DEF IInv, EpochsDoNotMix, OfEpoch
    <3>2. QED
      BY <1>1, <3>1 DEF IInv, EpochsDoNotMix, OfEpoch
  <2>7. SnapshotIsCurrent'
    <3>1. turn \in Turn /\ turn.through \in Nat
      BY DEF IInv, TypeOK, Turn
    <3>2. QED
      BY <1>1, <2>1, <2>2, <3>1 DEF IInv, SnapshotIsCurrent, Running
  <2>8. CursorWithinIssued'
    <3>1. \A p \in Provider : delivered[p] \in Nat /\ delivered[p] <= nextHandoff
      BY DEF IInv, TypeOK, CursorWithinIssued
    <3>2. QED
      BY <1>1, <2>1, <2>2, <3>1 DEF CursorWithinIssued
  <2>9. Carries'
    <3> SUFFICES ASSUME stage \in {"run", "acknowledge"}, ~turn.fresh,
                        NEW i \in DOMAIN handoffs',
                        delivered[turn.provider] < handoffs'[i].id,
                        handoffs'[i].id <= turn.through
                 PROVE  handoffs'[i].id \in turn.carried
      BY <1>1 DEF Carries
    <3>1. turn.through \in Nat /\ turn.through <= nextHandoff
      BY DEF IInv, TypeOK, Turn, SnapshotIsCurrent, Running
    <3>2. handoffs'[i] # h
      BY <2>2, <3>1
    <3>3. PICK j \in DOMAIN handoffs : handoffs'[i] = handoffs[j]
      BY <2>4, <3>2
    <3>4. QED
      BY <3>3 DEF IInv, Carries
  <2>10. SessionsAreOld' /\ ResetSticks'
    BY <1>1 DEF IInv, SessionsAreOld, ResetSticks
  <2>11. QED
    BY <2>5, <2>6, <2>7, <2>8, <2>9, <2>10 DEF IInv
<1>3. CASE ~Current(parentEpoch[T])
  <2>1. UNCHANGED <<turns, nextHandoff, handoffs>>
    BY <1>3 DEF TaskCompletes
  <2>2. TypeOK' /\ EpochsDoNotMix'
    BY <1>1, <2>1 DEF IInv, TypeOK, EpochsDoNotMix, OfEpoch
  <2>3. SnapshotIsCurrent' /\ CursorWithinIssued' /\ Carries' /\ SessionsAreOld' /\ ResetSticks'
    BY <1>1, <2>1 DEF IInv, SnapshotIsCurrent, Running, CursorWithinIssued, Carries,
                SessionsAreOld, ResetSticks
  <2>4. QED
    BY <2>2, <2>3 DEF IInv
<1>4. QED
  BY <1>2, <1>3

LEMMA ResetSessionInv ==
  ASSUME IInv, NEW p \in Provider, ResetSession(p)
  PROVE  IInv'
<1>1. /\ stage = "idle"
      /\ session' = [session EXCEPT ![p] = 0]
      /\ resetting' = {p}
      /\ UNCHANGED <<context, tasks, stage, turn, briefed, lastReset>>
  BY DEF ResetSession, ResetAllowed
<1>2. TypeOK'
  BY <1>1 DEF IInv, TypeOK, context, tasks
<1>3. EpochsDoNotMix'
  BY <1>1 DEF IInv, EpochsDoNotMix, OfEpoch, context, tasks
<1>4. SnapshotIsCurrent' /\ CursorWithinIssued' /\ Carries'
  BY <1>1 DEF IInv, SnapshotIsCurrent, Running, CursorWithinIssued, Carries, context
<1>5. SessionsAreOld' /\ ResetSticks'
  <2>1. session'[p] = 0 /\ \A q \in Provider : session'[q] = session[q] \/ session'[q] = 0
    BY <1>1 DEF IInv, TypeOK
  <2>2. epoch \in Nat
    BY DEF IInv, TypeOK
  <2>3. QED
    BY <1>1, <2>1, <2>2 DEF IInv, SessionsAreOld, ResetSticks, context
<1>6. QED
  BY <1>2, <1>3, <1>4, <1>5 DEF IInv

LEMMA ResetContextInv ==
  ASSUME IInv, ResetContext
  PROVE  IInv'
<1> DEFINE new == [p \in Provider |-> IF p \in resetting THEN epoch + 1 ELSE lastReset[p]]
<1>1. /\ resetting # {} /\ resetting' = {}
      /\ epoch' = epoch + 1
      /\ turns' = <<>> /\ handoffs' = <<>> /\ nextHandoff' = 0
      /\ delivered' = [q \in Provider |-> 0]
      /\ lastReset' = new
      /\ UNCHANGED <<tasks, session, stage, turn, briefed>>
  BY DEF ResetContext, NewEpoch
<1>2. /\ epoch \in Nat /\ epoch + 1 \in Nat
      /\ lastReset \in [Provider -> Nat] /\ session \in [Provider -> Nat]
      /\ stage = "idle"
  BY <1>1 DEF IInv, TypeOK, SessionsAreOld
<1>3. new \in [Provider -> Nat]
  BY <1>2
<1>4. \A q \in Provider : new[q] = IF q \in resetting THEN epoch + 1 ELSE lastReset[q]
  OBVIOUS
<1> HIDE DEF new
<1>5. <<>> \in Seq(Entry) /\ <<>> \in Seq(Handoff)
  OBVIOUS
<1>6. TypeOK'
  BY <1>1, <1>2, <1>3, <1>5 DEF IInv, TypeOK, tasks
<1>7. EpochsDoNotMix'
  BY <1>1 DEF IInv, EpochsDoNotMix, OfEpoch, tasks
<1>8. SnapshotIsCurrent' /\ CursorWithinIssued' /\ Carries'
  BY <1>1, <1>2 DEF SnapshotIsCurrent, Running, CursorWithinIssued, Carries
<1>9. SessionsAreOld' /\ ResetSticks'
  <2>1. ASSUME NEW q \in Provider
        PROVE  /\ session[q] <= epoch + 1 /\ new[q] <= epoch + 1
               /\ session[q] # 0 => session[q] >= new[q]
    <3>1. /\ session[q] <= epoch /\ lastReset[q] <= epoch
          /\ session[q] # 0 => session[q] >= lastReset[q]
          /\ q \in resetting => session[q] = 0
      BY DEF IInv, SessionsAreOld, ResetSticks
    <3>2. CASE q \in resetting
      BY <1>2, <1>4, <3>1, <3>2
    <3>3. CASE q \notin resetting
      BY <1>2, <1>4, <3>1, <3>3
    <3>4. QED
      BY <3>2, <3>3
  <2>2. QED
    BY <1>1, <2>1 DEF SessionsAreOld, ResetSticks
<1>10. QED
  BY <1>6, <1>7, <1>8, <1>9 DEF IInv

LEMMA CrashInv ==
  ASSUME IInv, Crash \/ UNCHANGED vars
  PROVE  IInv'
<1>1. /\ (stage' = "idle" /\ resetting' = {}) \/ UNCHANGED <<stage, resetting>>
      /\ UNCHANGED <<context, tasks, session, turn, briefed, lastReset>>
  BY DEF Crash, vars, context, tasks
<1>2. TypeOK' /\ EpochsDoNotMix'
  BY <1>1 DEF IInv, TypeOK, EpochsDoNotMix, OfEpoch, context, tasks, Stage
<1>3. SnapshotIsCurrent' /\ CursorWithinIssued' /\ Carries'
  BY <1>1 DEF IInv, SnapshotIsCurrent, Running, CursorWithinIssued, Carries, context
<1>4. SessionsAreOld' /\ ResetSticks'
  BY <1>1 DEF IInv, SessionsAreOld, ResetSticks, context
<1>5. QED
  BY <1>2, <1>3, <1>4 DEF IInv

-----------------------------------------------------------------------------
LEMMA StepIInv == IInv /\ [Next]_vars => IInv'
<1> SUFFICES ASSUME IInv, [Next]_vars PROVE IInv'
  OBVIOUS
<1>1. ASSUME NEW p \in Provider, StartTurn(p) \/ ResetSession(p) PROVE IInv'
  BY <1>1, StartTurnInv, ResetSessionInv
<1>2. CASE CreateSession \/ BuildPrompt \/ ProviderEnds \/ Acknowledge \/ Complete
  BY <1>2, CreateSessionInv, BuildPromptInv, ProviderEndsInv, AcknowledgeInv, CompleteInv
<1>3. ASSUME NEW T \in Task, BindTask(T) \/ TaskCompletes(T) PROVE IInv'
  BY <1>3, BindTaskInv, TaskCompletesInv
<1>4. CASE ResetContext \/ Crash \/ UNCHANGED vars
  BY <1>4, ResetContextInv, CrashInv
<1>5. QED
  BY <1>1, <1>2, <1>3, <1>4 DEF Next

\* Nothing of an older generation comes back into a conversation after /reset,
\* and no task inherits from two generations.
THEOREM GenerationsStayApart == Spec => []EpochsDoNotMix
<1>1. IInv => EpochsDoNotMix
  BY DEF IInv
<1>2. QED
  BY InitIInv, StepIInv, <1>1, PTL DEF Spec

\* No provider's cursor runs ahead of the results it is a cursor of.
THEOREM CursorsAreSound == Spec => []CursorWithinIssued
<1>1. IInv => CursorWithinIssued
  BY DEF IInv
<1>2. QED
  BY InitIInv, StepIInv, <1>1, PTL DEF Spec

\* A provider that was reset never resumes a session of the time before.
THEOREM ResetIsFinal == Spec => []ResetSticks
<1>1. IInv => ResetSticks
  BY DEF IInv
<1>2. QED
  BY InitIInv, StepIInv, <1>1, PTL DEF Spec

\* A resumed session's cursor passes no kept result that its prompt did not
\* carry.
THEOREM NothingIsSkipped == Spec => AckCoversPrompt
<1>1. IInv /\ [Next]_vars =>
        [\A p \in Provider, i \in DOMAIN handoffs :
           /\ delivered[p] < handoffs[i].id
           /\ handoffs[i].id <= delivered'[p]
           => turn.fresh \/ handoffs[i].id \in turn.carried]_vars
  <2> SUFFICES ASSUME IInv, [Next]_vars, NEW p \in Provider, NEW i \in DOMAIN handoffs,
                      delivered[p] < handoffs[i].id, handoffs[i].id <= delivered'[p],
                      ~turn.fresh
               PROVE  handoffs[i].id \in turn.carried
    OBVIOUS
  <2>1. delivered[p] \in Nat /\ handoffs[i].id \in Nat
    <3>1. handoffs \in Seq(Handoff) /\ delivered \in [Provider -> Nat]
      BY DEF IInv, TypeOK
    <3>2. handoffs[i] \in Handoff
      BY <3>1
    <3>3. QED
      BY <3>1, <3>2 DEF Handoff
  <2>2. ~UNCHANGED delivered
    BY <2>1
  <2>3. delivered' = [q \in Provider |-> 0] => FALSE
    BY <2>1
  <2>4. Acknowledge
    BY <2>2, <2>3 DEF Next, vars, context, StartTurn, ResetSession, CreateSession, BuildPrompt,
           ProviderEnds, Complete, BindTask, TaskCompletes, ResetContext, NewEpoch, Crash
  <2>5. p = turn.provider /\ delivered'[p] = turn.through /\ stage = "acknowledge"
    BY <2>2, <2>4, <2>1 DEF Acknowledge, IInv, TypeOK
  <2>6. QED
    BY <2>5 DEF IInv, Carries
<1>2. QED
  BY InitIInv, StepIInv, <1>1, PTL DEF Spec, AckCoversPrompt

\* Every variable keeps its shape: in particular both lists stay sequences of
\* entries through every cut.
THEOREM HandoffTyped == Spec => []TypeOK
<1>1. IInv => TypeOK
  BY DEF IInv
<1>2. QED
  BY InitIInv, StepIInv, <1>1, PTL DEF Spec

-----------------------------------------------------------------------------
(* The history a new session begins with. *)

\* A provider that stores its session after the turn has one only if the turn
\* that stored it carried the history: include_history was set when that turn
\* found no session, and nothing in between made one.
Late == Provider \ Early
BriefedInv ==
  /\ stage = "create" => turn.provider \in Early
  /\ stage = "run" => turn.history = turn.fresh
  /\ \A p \in Late : session[p] # 0 => p \in briefed

LEMMA StartTurnBriefed ==
  ASSUME TypeOK, BriefedInv, NEW p \in Provider, StartTurn(p)
  PROVE  BriefedInv'
<1>1. /\ turn'.provider = p
      /\ stage' = IF session[p] = 0 /\ p \in Early THEN "create" ELSE "prompt"
      /\ UNCHANGED <<session, briefed>>
  BY DEF StartTurn
<1>2. QED
  BY <1>1 DEF BriefedInv

\* Only a provider that stores its session early has one made here.
LEMMA CreateSessionBriefed ==
  ASSUME TypeOK, BriefedInv, CreateSession
  PROVE  BriefedInv'
<1> DEFINE p == turn.provider
<1>1. /\ p \in Early /\ stage' \in {"prompt", "idle"}
      /\ session' = [session EXCEPT ![p] = turn.epoch] \/ UNCHANGED session
      /\ briefed' \in {briefed, briefed \cup {p}, briefed \ {p}}
  BY DEF CreateSession, BriefedInv
<1>2. ASSUME NEW q \in Late, session'[q] # 0
      PROVE  q \in briefed'
  <2>1. q # p
    BY <1>1 DEF Late
  <2>2. session'[q] = session[q] /\ (q \in briefed' <=> q \in briefed)
    BY <1>1, <2>1 DEF TypeOK, Late
  <2>3. QED
    BY <1>2, <2>2 DEF BriefedInv
<1>3. QED
  BY <1>1, <1>2 DEF BriefedInv

LEMMA BuildPromptBriefed ==
  ASSUME TypeOK, BriefedInv, BuildPrompt
  PROVE  BriefedInv'
<1>1. turn'.history = turn'.fresh
  BY DEF BuildPrompt, TypeOK, Turn
<1>2. QED
  BY <1>1 DEF BuildPrompt, BriefedInv

\* A late session is stored by a turn that was fresh, so its prompt had the
\* history.
LEMMA ProviderEndsBriefed ==
  ASSUME TypeOK, BriefedInv, ProviderEnds
  PROVE  BriefedInv'
<1> DEFINE p == turn.provider
<1>1. /\ stage' \in {"acknowledge", "idle"} /\ turn.history = turn.fresh
      /\ p \in Provider /\ turn.epoch \in Nat
  BY DEF ProviderEnds, BriefedInv, TypeOK, Turn
<1>2. \/ /\ session' = [session EXCEPT ![p] = turn.epoch]
         /\ briefed' = briefed \cup {p}
      \/ /\ briefed' = briefed \cup {p}
         /\ UNCHANGED session
      \/ UNCHANGED <<session, briefed>>
  BY <1>1 DEF ProviderEnds
<1>3. ASSUME NEW q \in Late, session'[q] # 0
      PROVE  q \in briefed'
  <2>1. CASE q = p /\ ~UNCHANGED <<session, briefed>>
    BY <1>2, <2>1
  <2>2. CASE q # p \/ UNCHANGED <<session, briefed>>
    <3>1. session'[q] = session[q] /\ (q \in briefed => q \in briefed')
      BY <1>2, <2>2 DEF TypeOK, Late
    <3>2. QED
      BY <1>3, <3>1 DEF BriefedInv
  <2>3. QED
    BY <2>1, <2>2
<1>4. QED
  BY <1>1, <1>3 DEF BriefedInv

LEMMA ResetSessionBriefed ==
  ASSUME TypeOK, BriefedInv, NEW p \in Provider, ResetSession(p)
  PROVE  BriefedInv'
<1>1. /\ \A q \in Provider : session'[q] = session[q] \/ session'[q] = 0
      /\ UNCHANGED <<stage, turn, briefed>>
  BY DEF ResetSession, TypeOK
<1>2. QED
  BY <1>1 DEF BriefedInv, Late

LEMMA StepBriefed == TypeOK /\ BriefedInv /\ [Next]_vars => BriefedInv'
<1> SUFFICES ASSUME TypeOK, BriefedInv, [Next]_vars PROVE BriefedInv'
  OBVIOUS
<1>1. ASSUME NEW p \in Provider, StartTurn(p) \/ ResetSession(p) PROVE BriefedInv'
  BY <1>1, StartTurnBriefed, ResetSessionBriefed
<1>2. CASE CreateSession \/ BuildPrompt \/ ProviderEnds
  BY <1>2, CreateSessionBriefed, BuildPromptBriefed, ProviderEndsBriefed
<1>3. CASE Acknowledge \/ Complete \/ Crash
  BY <1>3 DEF Acknowledge, Complete, Crash, BriefedInv
<1>4. ASSUME NEW T \in Task, BindTask(T) \/ TaskCompletes(T) PROVE BriefedInv'
  BY <1>4 DEF BindTask, TaskCompletes, BriefedInv
<1>5. CASE ResetContext \/ UNCHANGED vars
  BY <1>5 DEF ResetContext, NewEpoch, vars, BriefedInv
<1>6. QED
  BY <1>1, <1>2, <1>3, <1>4, <1>5 DEF Next

\* A successful turn of a provider that learns its session from the output ran
\* in a session that was given the conversation's history when it was new.
THEOREM LateSessionIsInformed == Spec => []LateSessionGetsSnapshot
<1>1. Init => BriefedInv
  BY DEF Init, BriefedInv, Late
<1>2. IInv => TypeOK
  BY DEF IInv
<1>3. BriefedInv => LateSessionGetsSnapshot
  BY DEF BriefedInv, LateSessionGetsSnapshot, Informed, Late
<1>4. QED
  BY InitIInv, StepIInv, StepBriefed, <1>1, <1>2, <1>3, PTL DEF Spec
=============================================================================
