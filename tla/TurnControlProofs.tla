-------------------------- MODULE TurnControlProofs --------------------------
(***************************************************************************)
(* Proofs about TurnControl, for any updates, any mix of them and any      *)
(* number of timeouts and deaths of the app-server.                        *)
(***************************************************************************)
EXTENDS TurnControl, TLAPS

(* Callers and turns *)

\* A turn, the coroutine of a cancelled turn and a command do not wait for each
\* other's answers, and a turn is of one command.
LEMMA CallerFacts ==
  /\ \A t \in Turn : t \in Caller /\ Cancelled(t) \in Caller /\ t[1] \in Cmd
  /\ \A c \in Cmd : c \in Caller /\ OwnTurn(c) \in Turn /\ <<c, "recovery">> \in Turn
  /\ \A t, u \in Turn : Cancelled(t) # u /\ (Cancelled(t) = Cancelled(u) => t = u)
  /\ \A c \in Cmd, t \in Turn : c # t /\ c # Cancelled(t)
  /\ \A c, d \in Cmd : OwnTurn(c) # <<d, "recovery">> /\ (OwnTurn(c) = OwnTurn(d) => c = d)
<1>1. \A t \in Turn : t \in Caller /\ Cancelled(t) \in Caller /\ t[1] \in Cmd
  BY DEF Turn, Caller
<1>2. \A c \in Cmd : c \in Caller /\ OwnTurn(c) \in Turn /\ <<c, "recovery">> \in Turn
  BY DEF Turn, Caller, OwnTurn
<1>3. \A t, u \in Turn : Cancelled(t) # u /\ (Cancelled(t) = Cancelled(u) => t = u)
  BY DEF Turn, Cancelled
<1>4. \A c \in Cmd, t \in Turn : c # t /\ c # Cancelled(t)
  BY CallerAssumption
<1>5. \A c, d \in Cmd : OwnTurn(c) # <<d, "recovery">> /\ (OwnTurn(c) = OwnTurn(d) => c = d)
  BY DEF OwnTurn
<1> QED BY <1>1, <1>2, <1>3, <1>4, <1>5

\* Queues and the wire are sequences.
LEMMA QueueFacts ==
  ASSUME NEW S, NEW q \in Seq(S), NEW e \in S
  PROVE  /\ Append(q, e) \in Seq(S) /\ <<e>> \o q \in Seq(S)
         /\ DOMAIN q = 1..Len(q) /\ Len(q) \in Nat
         /\ Len(Append(q, e)) = Len(q) + 1 /\ Append(q, e)[Len(q) + 1] = e
         /\ \A i \in DOMAIN q : Append(q, e)[i] = q[i]
         /\ Len(<<e>> \o q) = Len(q) + 1 /\ (<<e>> \o q)[1] = e
         /\ \A i \in DOMAIN q : (<<e>> \o q)[i + 1] = q[i]
OBVIOUS

LEMMA HeadFacts ==
  ASSUME NEW S, NEW q \in Seq(S), q # <<>>
  PROVE  /\ Head(q) \in S /\ Tail(q) \in Seq(S)
         /\ Head(q) = q[1] /\ Len(q) >= 1 /\ Len(Tail(q)) = Len(q) - 1
         /\ \A i \in 1..Len(q) - 1 : Tail(q)[i] = q[i + 1]
OBVIOUS

-----------------------------------------------------------------------------
(* The type invariant, in parts *)

BotTyped ==
  /\ kind \in [Cmd -> Kinds] /\ transport \in Transports
  /\ queue \in Seq(Turn) /\ active \in Turn \cup {NoTurn}
  /\ handler \in [Cmd -> Handler] /\ stage \in Stage

FlagsTyped == drain \in BOOLEAN /\ latch \in BOOLEAN

CallTyped ==
  /\ call \in [Caller -> Method \cup {"none", "ok", "error"}]
  /\ wire \in Seq(Request)

ServerTyped ==
  /\ server \in [Turn -> {"none", "running", "completed", "interrupted", "lost"}]
  /\ faults \in 0..MaxFaults

HistoryTyped ==
  /\ aim \in [Cmd -> Turn \cup {NoTurn}]
  /\ missed \subseteq Cmd /\ fed \subseteq Cmd /\ unsure \subseteq Cmd
  /\ struck \subseteq Turn /\ overdue \subseteq Turn /\ cut \subseteq Turn
  /\ begun \subseteq Turn /\ orphaned \subseteq Turn

StageAgrees ==
  /\ process \in {"none", "running", "signalled"}
  /\ (stage = "idle") <=> (active = NoTurn)
  /\ process # "none" <=> stage = "tracked"

EntryAgrees ==
  /\ registered \in Turn \cup {NoTurn}
  /\ registered # NoTurn =>
       \/ registered = active /\ stage \in {"checking", "honouring", "watching", "expiring"}
       \/ call[Cancelled(registered)] # "none"

LEMMA TypeParts ==
  TypeOK <=> /\ BotTyped /\ FlagsTyped /\ CallTyped /\ ServerTyped /\ HistoryTyped
             /\ StageAgrees /\ EntryAgrees
BY Zenon
   DEF TypeOK, BotTyped, FlagsTyped, CallTyped, ServerTyped, HistoryTyped, StageAgrees,
       EntryAgrees

LEMMA TypePartsNext ==
  BotTyped' /\ FlagsTyped' /\ CallTyped' /\ ServerTyped' /\ HistoryTyped'
  /\ StageAgrees' /\ EntryAgrees' => TypeOK'
BY Zenon DEF TypeOK, BotTyped, FlagsTyped, CallTyped, ServerTyped, HistoryTyped, StageAgrees,
             EntryAgrees

LEMMA InitTyped == Init => TypeOK
<1> SUFFICES ASSUME Init PROVE TypeOK
  OBVIOUS
<1>1. BotTyped
  <2>1. kind \in [Cmd -> Kinds]
    BY TurnControlAssumption DEF Init
  <2>2. handler \in [Cmd -> Handler] /\ stage \in Stage
    BY DEF Init, Handler, Stage
  <2>3. transport \in Transports /\ active \in Turn \cup {NoTurn}
    BY DEF Init
  <2>4. queue \in Seq(Turn)
    BY DEF Init
  <2> QED BY <2>1, <2>2, <2>3, <2>4 DEF BotTyped
<1>2. CallTyped
  BY DEF Init, CallTyped
<1>3. ServerTyped
  BY TurnControlAssumption DEF Init, ServerTyped
<1>4. HistoryTyped
  BY DEF Init, HistoryTyped
<1>5. StageAgrees /\ EntryAgrees
  BY DEF Init, StageAgrees, EntryAgrees
<1>6. FlagsTyped
  BY Zenon DEF Init, FlagsTyped
<1> QED BY <1>1, <1>2, <1>3, <1>4, <1>5, <1>6, TypeParts

\* What a request on the wire does to the types.
LEMMA SendsTyped ==
  ASSUME CallTyped, NEW x0 \in Caller, NEW m \in Method, NEW t \in Turn, Sends(x0, m, t)
  PROVE  CallTyped' /\ call'[x0] = m /\ \A z \in Caller \ {x0} : call'[z] = call[z]
<1>1. [from |-> x0, method |-> m, turn |-> t] \in Request
  BY DEF Request
<1> QED BY <1>1 DEF CallTyped, Sends

-----------------------------------------------------------------------------
(* Who asks for what *)

\* The coroutine of a turn asks for that turn only, and no other asks for a start;
\* only commands steer.
WellAsked(r) ==
  /\ r.method = "turn/start" \/ r.from \in Turn => r.turn = r.from
  /\ r.method = "turn/steer" => r.from \in Cmd

WireInv == \A i \in DOMAIN wire : WellAsked(wire[i])

-----------------------------------------------------------------------------
(* Types are kept *)

LEMMA AcknowledgeTyped ==
  ASSUME TypeOK, NEW c \in Cmd, Acknowledge(c)
  PROVE  TypeOK'
<1>0. /\ BotTyped /\ FlagsTyped /\ CallTyped /\ ServerTyped /\ HistoryTyped
      /\ StageAgrees /\ EntryAgrees
  BY TypeParts
<1>1. BotTyped'
  BY <1>0 DEF BotTyped, Goes, Handler, Acknowledge, Woken, setting, turn
<1>2. FlagsTyped'
  BY Zenon, <1>0 DEF FlagsTyped, Acknowledge, Woken, Goes, turn
<1>3. CallTyped'
  BY <1>0 DEF CallTyped, Acknowledge, Woken, Goes
<1>4. ServerTyped'
  BY <1>0 DEF ServerTyped, Acknowledge, Woken, Goes, serverVars
<1>5. HistoryTyped'
  BY <1>0 DEF HistoryTyped, Acknowledge, Woken, Goes, history
<1>6. StageAgrees'
  BY <1>0 DEF StageAgrees, Acknowledge, Woken, Goes, turn
<1>7. EntryAgrees'
  BY <1>0 DEF EntryAgrees, Acknowledge, Woken, Goes, turn
<1> QED BY <1>1, <1>2, <1>3, <1>4, <1>5, <1>6, <1>7, TypePartsNext

LEMMA CmdForceTyped ==
  ASSUME TypeOK, NEW c \in Cmd, CmdForce(c)
  PROVE  TypeOK'
<1>0. /\ BotTyped /\ FlagsTyped /\ CallTyped /\ ServerTyped /\ HistoryTyped
      /\ StageAgrees /\ EntryAgrees
  BY TypeParts
<1>1. BotTyped'
  BY <1>0 DEF BotTyped, Goes, Handler, CmdForce, setting, turn
<1>2. FlagsTyped'
  BY Zenon, <1>0 DEF FlagsTyped, CmdForce, turn
<1>3. CallTyped'
  BY <1>0 DEF CallTyped, CmdForce
<1>4. ServerTyped'
  BY <1>0 DEF ServerTyped, CmdForce, serverVars
<1>5. HistoryTyped'
  BY <1>0 DEF HistoryTyped, Goes, BotTyped, CmdForce
<1>6. StageAgrees'
  BY <1>0 DEF StageAgrees, CmdForce, turn
<1>7. EntryAgrees'
  BY <1>0 DEF EntryAgrees, CmdForce, turn
<1> QED BY <1>1, <1>2, <1>3, <1>4, <1>5, <1>6, <1>7, TypePartsNext

LEMMA StopTyped ==
  ASSUME TypeOK, NEW c \in Cmd, Stop(c)
  PROVE  TypeOK'
<1>0. /\ BotTyped /\ FlagsTyped /\ CallTyped /\ ServerTyped /\ HistoryTyped
      /\ StageAgrees /\ EntryAgrees
  BY TypeParts
<1>1. BotTyped'
  BY <1>0 DEF BotTyped, Goes, Handler, Stop, RequestInterrupt, setting
<1>2. FlagsTyped'
  BY Zenon, <1>0 DEF FlagsTyped, Stop, RequestInterrupt
<1>3. CallTyped'
  BY <1>0 DEF CallTyped, Stop, RequestInterrupt
<1>4. ServerTyped'
  BY <1>0 DEF ServerTyped, Stop, RequestInterrupt, serverVars
<1>5. HistoryTyped'
  BY <1>0 DEF HistoryTyped, BotTyped, StageAgrees, Stop, RequestInterrupt
<1>6. StageAgrees'
  BY <1>0 DEF StageAgrees, Stop, RequestInterrupt
<1>7. EntryAgrees'
  BY <1>0 DEF EntryAgrees, Stop, RequestInterrupt
<1> QED BY <1>1, <1>2, <1>3, <1>4, <1>5, <1>6, <1>7, TypePartsNext

LEMMA AskSteerTyped ==
  ASSUME TypeOK, NEW c \in Cmd, AskSteer(c)
  PROVE  TypeOK'
<1>0. /\ BotTyped /\ FlagsTyped /\ CallTyped /\ ServerTyped /\ HistoryTyped
      /\ StageAgrees /\ EntryAgrees
  BY TypeParts
<1>1. BotTyped'
  BY <1>0 DEF BotTyped, Goes, Handler, AskSteer, setting, turn
<1>2. FlagsTyped'
  BY Zenon, <1>0 DEF FlagsTyped, AskSteer, turn
<1>3. CallTyped'
  BY <1>0, CallerFacts, SendsTyped DEF CallTyped, Method, Goes, EntryAgrees, AskSteer
<1>4. ServerTyped'
  BY <1>0 DEF ServerTyped, AskSteer, serverVars
<1>5. HistoryTyped'
  BY <1>0 DEF HistoryTyped, AskSteer, history
<1>6. StageAgrees'
  BY <1>0 DEF StageAgrees, Goes, AskSteer, turn
<1>7. EntryAgrees'
  BY <1>0, CallerFacts DEF EntryAgrees, Sends, CallTyped, AskSteer, turn
<1> QED BY <1>1, <1>2, <1>3, <1>4, <1>5, <1>6, <1>7, TypePartsNext

LEMMA SteerAnsweredTyped ==
  ASSUME TypeOK, NEW c \in Cmd, SteerAnswered(c)
  PROVE  TypeOK'
<1>0. /\ BotTyped /\ FlagsTyped /\ CallTyped /\ ServerTyped /\ HistoryTyped
      /\ StageAgrees /\ EntryAgrees
  BY TypeParts
<1>1. BotTyped'
  BY <1>0 DEF BotTyped, Goes, Handler, SteerAnswered, setting, turn
<1>2. FlagsTyped'
  BY Zenon, <1>0 DEF FlagsTyped, SteerAnswered, turn
<1>3. CallTyped'
  BY <1>0, CallerFacts DEF CallTyped, Hangup, SteerAnswered
<1>4. ServerTyped'
  BY <1>0 DEF ServerTyped, SteerAnswered, serverVars
<1>5. HistoryTyped'
  BY <1>0 DEF HistoryTyped, SteerAnswered, history
<1>6. StageAgrees'
  BY <1>0 DEF StageAgrees, SteerAnswered, turn
<1>7. EntryAgrees'
  BY <1>0, CallerFacts DEF EntryAgrees, Hangup, CallTyped, SteerAnswered, turn
<1> QED BY <1>1, <1>2, <1>3, <1>4, <1>5, <1>6, <1>7, TypePartsNext

LEMMA SteerTooLateTyped ==
  ASSUME TypeOK, NEW c \in Cmd, SteerTooLate(c)
  PROVE  TypeOK'
<1>0. /\ BotTyped /\ FlagsTyped /\ CallTyped /\ ServerTyped /\ HistoryTyped
      /\ StageAgrees /\ EntryAgrees
  BY TypeParts
<1>1. BotTyped'
  BY <1>0 DEF BotTyped, Goes, Handler, SteerTooLate, setting, turn
<1>2. FlagsTyped'
  BY Zenon, <1>0 DEF FlagsTyped, SteerTooLate, turn
<1>3. CallTyped'
  BY <1>0, CallerFacts DEF CallTyped, Hangup, SteerTooLate
<1>4. ServerTyped'
  BY <1>0, TurnControlAssumption DEF ServerTyped, Expires, SteerTooLate
<1>5. HistoryTyped'
  BY <1>0 DEF HistoryTyped, SteerTooLate
<1>6. StageAgrees'
  BY <1>0 DEF StageAgrees, SteerTooLate, turn
<1>7. EntryAgrees'
  BY <1>0, CallerFacts DEF EntryAgrees, Hangup, CallTyped, SteerTooLate, turn
<1> QED BY <1>1, <1>2, <1>3, <1>4, <1>5, <1>6, <1>7, TypePartsNext

LEMMA UnsteeredForceTyped ==
  ASSUME TypeOK, NEW c \in Cmd, UnsteeredForce(c)
  PROVE  TypeOK'
<1>0. /\ BotTyped /\ FlagsTyped /\ CallTyped /\ ServerTyped /\ HistoryTyped
      /\ StageAgrees /\ EntryAgrees
  BY TypeParts
<1>1. BotTyped'
  BY <1>0, CallerFacts, QueueFacts
     DEF BotTyped, Goes, Handler, AfterLatch, UnsteeredForce, RequestInterrupt, setting
<1>2. FlagsTyped'
  BY Zenon, <1>0 DEF FlagsTyped, UnsteeredForce, RequestInterrupt
<1>3. CallTyped'
  BY <1>0 DEF CallTyped, UnsteeredForce, RequestInterrupt
<1>4. ServerTyped'
  BY <1>0 DEF ServerTyped, UnsteeredForce, RequestInterrupt, serverVars
<1>5. HistoryTyped'
  BY <1>0 DEF HistoryTyped, StageAgrees, BotTyped, UnsteeredForce, RequestInterrupt
<1>6. StageAgrees'
  BY <1>0 DEF StageAgrees, UnsteeredForce, RequestInterrupt
<1>7. EntryAgrees'
  BY <1>0 DEF EntryAgrees, UnsteeredForce, RequestInterrupt
<1> QED BY <1>1, <1>2, <1>3, <1>4, <1>5, <1>6, <1>7, TypePartsNext

LEMMA AskInterruptTyped ==
  ASSUME TypeOK, NEW c \in Cmd, AskInterrupt(c)
  PROVE  TypeOK'
<1>0. /\ BotTyped /\ FlagsTyped /\ CallTyped /\ ServerTyped /\ HistoryTyped
      /\ StageAgrees /\ EntryAgrees
  BY TypeParts
<1>1. BotTyped'
  BY <1>0 DEF BotTyped, Goes, Handler, AfterSignal, AskInterrupt, setting, turn
<1>2. FlagsTyped'
  BY Zenon, <1>0 DEF FlagsTyped, AskInterrupt, turn
<1>3. CallTyped'
  BY <1>0, CallerFacts, SendsTyped DEF CallTyped, Method, Goes, EntryAgrees, AskInterrupt
<1>4. ServerTyped'
  BY <1>0 DEF ServerTyped, AskInterrupt, serverVars
<1>5. HistoryTyped'
  BY <1>0 DEF HistoryTyped, AskInterrupt
<1>6. StageAgrees'
  BY <1>0 DEF StageAgrees, AskInterrupt, turn
<1>7. EntryAgrees'
  BY <1>0, CallerFacts DEF EntryAgrees, Sends, CallTyped, AskInterrupt, turn
<1> QED BY <1>1, <1>2, <1>3, <1>4, <1>5, <1>6, <1>7, TypePartsNext

LEMMA SignalDoneTyped ==
  ASSUME TypeOK, NEW c \in Cmd, SignalDone(c)
  PROVE  TypeOK'
<1>0. /\ BotTyped /\ FlagsTyped /\ CallTyped /\ ServerTyped /\ HistoryTyped
      /\ StageAgrees /\ EntryAgrees
  BY TypeParts
<1>1. BotTyped'
  BY <1>0 DEF BotTyped, Goes, Handler, AfterSignal, SignalDone, setting, turn
<1>2. FlagsTyped'
  BY Zenon, <1>0 DEF FlagsTyped, SignalDone, turn
<1>3. CallTyped'
  BY <1>0, CallerFacts DEF CallTyped, Hangup, SignalDone
<1>4. ServerTyped'
  BY <1>0, TurnControlAssumption DEF ServerTyped, Expires, SignalDone
<1>5. HistoryTyped'
  BY <1>0 DEF HistoryTyped, SignalDone, history
<1>6. StageAgrees'
  BY <1>0 DEF StageAgrees, SignalDone, turn
<1>7. EntryAgrees'
  BY <1>0, CallerFacts DEF EntryAgrees, Hangup, CallTyped, SignalDone, turn
<1> QED BY <1>1, <1>2, <1>3, <1>4, <1>5, <1>6, <1>7, TypePartsNext

LEMMA ConnectTyped ==
  ASSUME TypeOK, Connect
  PROVE  TypeOK'
<1>0. /\ BotTyped /\ FlagsTyped /\ CallTyped /\ ServerTyped /\ HistoryTyped
      /\ StageAgrees /\ EntryAgrees
  BY TypeParts
<1>1. BotTyped'
  BY <1>0 DEF BotTyped, Stage, Connect, setting, bot, turn
<1>2. FlagsTyped'
  BY Zenon, <1>0 DEF FlagsTyped, Connect, bot, turn
<1>3. CallTyped'
  BY <1>0, CallerFacts, SendsTyped DEF CallTyped, Method, StageAgrees, BotTyped, Connect
<1>4. ServerTyped'
  BY <1>0 DEF ServerTyped, Connect, serverVars
<1>5. HistoryTyped'
  BY <1>0 DEF HistoryTyped, Connect, history
<1>6. StageAgrees'
  BY <1>0 DEF StageAgrees, Connect, bot, turn
<1>7. EntryAgrees'
  BY <1>0, CallerFacts DEF EntryAgrees, Sends, CallTyped, BotTyped, Connect, bot, turn
<1> QED BY <1>1, <1>2, <1>3, <1>4, <1>5, <1>6, <1>7, TypePartsNext

LEMMA StartedTyped ==
  ASSUME TypeOK, Started
  PROVE  TypeOK'
<1>0. /\ BotTyped /\ FlagsTyped /\ CallTyped /\ ServerTyped /\ HistoryTyped
      /\ StageAgrees /\ EntryAgrees
  BY TypeParts
<1>1. BotTyped'
  BY <1>0 DEF BotTyped, Stage, Started, setting, bot
<1>2. FlagsTyped'
  BY Zenon, <1>0 DEF FlagsTyped, Started, bot
<1>3. CallTyped'
  BY <1>0, CallerFacts DEF CallTyped, Hangup, StageAgrees, BotTyped, Started
<1>4. ServerTyped'
  BY <1>0 DEF ServerTyped, Started, serverVars
<1>5. HistoryTyped'
  BY <1>0 DEF HistoryTyped, Started, history
<1>6. StageAgrees'
  BY <1>0 DEF StageAgrees, Started, bot
<1>7. EntryAgrees'
  BY <1>0, CallerFacts DEF EntryAgrees, Hangup, CallTyped, BotTyped, StageAgrees, Started, bot
<1> QED BY <1>1, <1>2, <1>3, <1>4, <1>5, <1>6, <1>7, TypePartsNext

LEMMA StartTooLateTyped ==
  ASSUME TypeOK, StartTooLate
  PROVE  TypeOK'
<1>0. /\ BotTyped /\ FlagsTyped /\ CallTyped /\ ServerTyped /\ HistoryTyped
      /\ StageAgrees /\ EntryAgrees
  BY TypeParts
<1>1. BotTyped'
  BY <1>0 DEF BotTyped, Stage, StartTooLate, setting, bot, turn
<1>2. FlagsTyped'
  BY Zenon, <1>0 DEF FlagsTyped, StartTooLate, bot, turn
<1>3. CallTyped'
  BY <1>0, CallerFacts DEF CallTyped, Hangup, StageAgrees, BotTyped, StartTooLate
<1>4. ServerTyped'
  BY <1>0, TurnControlAssumption DEF ServerTyped, Expires, StartTooLate
<1>5. HistoryTyped'
  BY <1>0 DEF HistoryTyped, StageAgrees, BotTyped, StartTooLate
<1>6. StageAgrees'
  BY <1>0 DEF StageAgrees, StartTooLate, bot, turn
<1>7. EntryAgrees'
  BY <1>0, CallerFacts
     DEF EntryAgrees, Hangup, CallTyped, BotTyped, StageAgrees, StartTooLate, bot, turn
<1> QED BY <1>1, <1>2, <1>3, <1>4, <1>5, <1>6, <1>7, TypePartsNext

LEMMA CheckLatchTyped ==
  ASSUME TypeOK, CheckLatch
  PROVE  TypeOK'
<1>0. /\ BotTyped /\ FlagsTyped /\ CallTyped /\ ServerTyped /\ HistoryTyped
      /\ StageAgrees /\ EntryAgrees
  BY TypeParts
<1>1. BotTyped'
  BY <1>0 DEF BotTyped, Stage, CheckLatch, setting, bot, turn
<1>2. FlagsTyped'
  BY Zenon, <1>0 DEF FlagsTyped, CheckLatch, bot, turn
<1>3. CallTyped'
  BY <1>0, CallerFacts, SendsTyped DEF CallTyped, Method, StageAgrees, BotTyped, CheckLatch
<1>4. ServerTyped'
  BY <1>0 DEF ServerTyped, CheckLatch, serverVars
<1>5. HistoryTyped'
  BY <1>0 DEF HistoryTyped, CheckLatch, history
<1>6. StageAgrees'
  BY <1>0 DEF StageAgrees, CheckLatch, bot, turn
<1>7. EntryAgrees'
  BY <1>0, CallerFacts
     DEF EntryAgrees, Sends, CallTyped, BotTyped, StageAgrees, CheckLatch, bot, turn
<1> QED BY <1>1, <1>2, <1>3, <1>4, <1>5, <1>6, <1>7, TypePartsNext

LEMMA HonouredTyped ==
  ASSUME TypeOK, Honoured
  PROVE  TypeOK'
<1>0. /\ BotTyped /\ FlagsTyped /\ CallTyped /\ ServerTyped /\ HistoryTyped
      /\ StageAgrees /\ EntryAgrees
  BY TypeParts
<1>1. BotTyped'
  BY <1>0 DEF BotTyped, Stage, Honoured, Leaves, EntryAfter, setting, bot
<1>2. FlagsTyped'
  BY Zenon, <1>0 DEF FlagsTyped, Honoured, Leaves, EntryAfter, bot
<1>3. CallTyped'
  BY <1>0, CallerFacts DEF CallTyped, Hangup, StageAgrees, BotTyped, Honoured, Leaves, EntryAfter
<1>4. ServerTyped'
  BY <1>0 DEF ServerTyped, Honoured, Leaves, EntryAfter, serverVars
<1>5. HistoryTyped'
  BY <1>0 DEF HistoryTyped, Honoured, Leaves, EntryAfter, history
<1>6. StageAgrees'
  BY <1>0 DEF StageAgrees, Honoured, Leaves, EntryAfter, bot
<1>7. EntryAgrees'
  BY <1>0, CallerFacts
     DEF EntryAgrees, Hangup, CallTyped, BotTyped, StageAgrees, Honoured, Leaves, EntryAfter,
         bot
<1> QED BY <1>1, <1>2, <1>3, <1>4, <1>5, <1>6, <1>7, TypePartsNext

LEMMA HonourTooLateTyped ==
  ASSUME TypeOK, HonourTooLate
  PROVE  TypeOK'
<1>0. /\ BotTyped /\ FlagsTyped /\ CallTyped /\ ServerTyped /\ HistoryTyped
      /\ StageAgrees /\ EntryAgrees
  BY TypeParts
<1>1. BotTyped'
  BY <1>0 DEF BotTyped, Stage, HonourTooLate, Leaves, EntryAfter, setting, bot, turn
<1>2. FlagsTyped'
  BY Zenon, <1>0 DEF FlagsTyped, HonourTooLate, Leaves, EntryAfter, bot, turn
<1>3. CallTyped'
  BY <1>0, CallerFacts
     DEF CallTyped, Hangup, StageAgrees, BotTyped, HonourTooLate, Leaves, EntryAfter
<1>4. ServerTyped'
  BY <1>0, TurnControlAssumption DEF ServerTyped, Expires, HonourTooLate, Leaves, EntryAfter
<1>5. HistoryTyped'
  BY <1>0 DEF HistoryTyped, HonourTooLate, Leaves, EntryAfter, history
<1>6. StageAgrees'
  BY <1>0 DEF StageAgrees, HonourTooLate, Leaves, EntryAfter, bot, turn
<1>7. EntryAgrees'
  BY <1>0, CallerFacts
     DEF EntryAgrees, Hangup, CallTyped, BotTyped, StageAgrees, HonourTooLate, Leaves,
         EntryAfter, bot, turn
<1> QED BY <1>1, <1>2, <1>3, <1>4, <1>5, <1>6, <1>7, TypePartsNext

LEMMA CompletedTyped ==
  ASSUME TypeOK, Completed
  PROVE  TypeOK'
<1>0. /\ BotTyped /\ FlagsTyped /\ CallTyped /\ ServerTyped /\ HistoryTyped
      /\ StageAgrees /\ EntryAgrees
  BY TypeParts
<1>1. BotTyped'
  BY <1>0 DEF BotTyped, Stage, Completed, Leaves, EntryAfter, setting, bot
<1>2. FlagsTyped'
  BY Zenon, <1>0 DEF FlagsTyped, Completed, Leaves, EntryAfter, bot
<1>3. CallTyped'
  BY <1>0 DEF CallTyped, Completed, Leaves, EntryAfter
<1>4. ServerTyped'
  BY <1>0 DEF ServerTyped, Completed, Leaves, EntryAfter, serverVars
<1>5. HistoryTyped'
  BY <1>0 DEF HistoryTyped, Completed, Leaves, EntryAfter, history
<1>6. StageAgrees'
  BY <1>0 DEF StageAgrees, Completed, Leaves, EntryAfter, bot
<1>7. EntryAgrees'
  BY <1>0, CallerFacts
     DEF EntryAgrees, CallTyped, BotTyped, StageAgrees, Completed, Leaves, EntryAfter, bot
<1> QED BY <1>1, <1>2, <1>3, <1>4, <1>5, <1>6, <1>7, TypePartsNext

LEMMA TurnExpiresTyped ==
  ASSUME TypeOK, TurnExpires
  PROVE  TypeOK'
<1>0. /\ BotTyped /\ FlagsTyped /\ CallTyped /\ ServerTyped /\ HistoryTyped
      /\ StageAgrees /\ EntryAgrees
  BY TypeParts
<1>1. BotTyped'
  BY <1>0 DEF BotTyped, Stage, TurnExpires, Expiry, setting, bot
<1>2. FlagsTyped'
  BY Zenon, <1>0 DEF FlagsTyped, TurnExpires, Expiry, bot
<1>3. CallTyped'
  BY <1>0, CallerFacts, SendsTyped
     DEF CallTyped, Method, StageAgrees, BotTyped, TurnExpires, Expiry
<1>4. ServerTyped'
  BY <1>0, TurnControlAssumption DEF ServerTyped, TurnExpires, Expiry
<1>5. HistoryTyped'
  BY <1>0 DEF HistoryTyped, StageAgrees, BotTyped, TurnExpires, Expiry
<1>6. StageAgrees'
  BY <1>0 DEF StageAgrees, TurnExpires, Expiry, bot
<1>7. EntryAgrees'
  BY <1>0, CallerFacts
     DEF EntryAgrees, Sends, CallTyped, BotTyped, StageAgrees, TurnExpires, Expiry, bot
<1> QED BY <1>1, <1>2, <1>3, <1>4, <1>5, <1>6, <1>7, TypePartsNext

LEMMA ExpiredTyped ==
  ASSUME TypeOK, Expired
  PROVE  TypeOK'
<1>0. /\ BotTyped /\ FlagsTyped /\ CallTyped /\ ServerTyped /\ HistoryTyped
      /\ StageAgrees /\ EntryAgrees
  BY TypeParts
<1>1. BotTyped'
  BY <1>0 DEF BotTyped, Stage, Expired, Leaves, EntryAfter, setting, bot, turn
<1>2. FlagsTyped'
  BY Zenon, <1>0 DEF FlagsTyped, Expired, Leaves, EntryAfter, bot, turn
<1>3. CallTyped'
  BY <1>0, CallerFacts DEF CallTyped, Hangup, StageAgrees, BotTyped, Expired, Leaves, EntryAfter
<1>4. ServerTyped'
  BY <1>0, TurnControlAssumption DEF ServerTyped, Expires, Expired, Leaves, EntryAfter
<1>5. HistoryTyped'
  BY <1>0 DEF HistoryTyped, Expired, Leaves, EntryAfter, history
<1>6. StageAgrees'
  BY <1>0 DEF StageAgrees, Expired, Leaves, EntryAfter, bot, turn
<1>7. EntryAgrees'
  BY <1>0, CallerFacts
     DEF EntryAgrees, Hangup, CallTyped, BotTyped, StageAgrees, Expired, Leaves, EntryAfter,
         bot, turn
<1> QED BY <1>1, <1>2, <1>3, <1>4, <1>5, <1>6, <1>7, TypePartsNext

LEMMA OuterBoundTyped ==
  ASSUME TypeOK, OuterBound
  PROVE  TypeOK'
<1>0. /\ BotTyped /\ FlagsTyped /\ CallTyped /\ ServerTyped /\ HistoryTyped
      /\ StageAgrees /\ EntryAgrees
  BY TypeParts
<1>a. active \in Turn
  BY <1>0 DEF OuterBound, StageAgrees, BotTyped
<1>b. [from |-> Cancelled(active), method |-> "turn/interrupt", turn |-> active] \in Request
  BY <1>a, CallerFacts DEF Request, Method
<1>1. BotTyped'
  BY <1>0 DEF BotTyped, Stage, OuterBound, setting, bot, turn
<1>2. FlagsTyped'
  BY Zenon, <1>0 DEF FlagsTyped, OuterBound, bot, turn
<1>3. CallTyped'
  BY <1>0, CallerFacts, <1>a, <1>b, QueueFacts DEF CallTyped, Hangup, Method, OuterBound
<1>4. ServerTyped'
  BY <1>0, TurnControlAssumption DEF ServerTyped, OuterBound
<1>5. HistoryTyped'
  BY <1>0 DEF HistoryTyped, StageAgrees, BotTyped, OuterBound
<1>6. StageAgrees'
  BY <1>0 DEF StageAgrees, OuterBound, bot, turn
<1>7. EntryAgrees'
  BY <1>0, CallerFacts, <1>a DEF EntryAgrees, Hangup, CallTyped, OuterBound, bot, turn
<1> QED BY <1>1, <1>2, <1>3, <1>4, <1>5, <1>6, <1>7, TypePartsNext

LEMMA CancelEndsTyped ==
  ASSUME TypeOK, NEW t \in Turn, CancelEnds(t)
  PROVE  TypeOK'
<1>0. /\ BotTyped /\ FlagsTyped /\ CallTyped /\ ServerTyped /\ HistoryTyped
      /\ StageAgrees /\ EntryAgrees
  BY TypeParts
<1>1. BotTyped'
  BY <1>0 DEF BotTyped, CancelEnds, setting, bot, turn
<1>2. FlagsTyped'
  BY Zenon, <1>0 DEF FlagsTyped, CancelEnds, bot, turn
<1>3. CallTyped'
  BY <1>0, CallerFacts DEF CallTyped, Hangup, CancelEnds
<1>4. ServerTyped'
  BY <1>0, TurnControlAssumption DEF ServerTyped, Expires, CancelEnds
<1>5. HistoryTyped'
  BY <1>0 DEF HistoryTyped, CancelEnds, history
<1>6. StageAgrees'
  BY <1>0 DEF StageAgrees, EntryAfter, CancelEnds, bot, turn
<1>7. EntryAgrees'
  BY <1>0, CallerFacts DEF EntryAgrees, Hangup, CallTyped, EntryAfter, CancelEnds, bot, turn
<1> QED BY <1>1, <1>2, <1>3, <1>4, <1>5, <1>6, <1>7, TypePartsNext

LEMMA SpawnTyped ==
  ASSUME TypeOK, Spawn
  PROVE  TypeOK'
<1>0. /\ BotTyped /\ FlagsTyped /\ CallTyped /\ ServerTyped /\ HistoryTyped
      /\ StageAgrees /\ EntryAgrees
  BY TypeParts
<1>1. BotTyped'
  BY <1>0 DEF BotTyped, Stage, Spawn, setting, bot
<1>2. FlagsTyped'
  BY Zenon, <1>0 DEF FlagsTyped, Spawn, bot
<1>3. CallTyped'
  BY <1>0 DEF CallTyped, Spawn
<1>4. ServerTyped'
  BY <1>0 DEF ServerTyped, Spawn, serverVars
<1>5. HistoryTyped'
  BY <1>0 DEF HistoryTyped, StageAgrees, BotTyped, Spawn
<1>6. StageAgrees'
  BY <1>0 DEF StageAgrees, Tracked, Spawn, bot
<1>7. EntryAgrees'
  BY <1>0 DEF EntryAgrees, Spawn, bot
<1> QED BY <1>1, <1>2, <1>3, <1>4, <1>5, <1>6, <1>7, TypePartsNext

LEMMA SpawnFailsTyped ==
  ASSUME TypeOK, SpawnFails
  PROVE  TypeOK'
<1>0. /\ BotTyped /\ FlagsTyped /\ CallTyped /\ ServerTyped /\ HistoryTyped
      /\ StageAgrees /\ EntryAgrees
  BY TypeParts
<1>1. BotTyped'
  BY <1>0 DEF BotTyped, Stage, SpawnFails, setting, bot
<1>2. FlagsTyped'
  BY Zenon, <1>0 DEF FlagsTyped, SpawnFails, bot
<1>3. CallTyped'
  BY <1>0 DEF CallTyped, SpawnFails
<1>4. ServerTyped'
  BY <1>0 DEF ServerTyped, SpawnFails, serverVars
<1>5. HistoryTyped'
  BY <1>0 DEF HistoryTyped, SpawnFails, history
<1>6. StageAgrees'
  BY <1>0 DEF StageAgrees, SpawnFails, bot
<1>7. EntryAgrees'
  BY <1>0 DEF EntryAgrees, SpawnFails, bot
<1> QED BY <1>1, <1>2, <1>3, <1>4, <1>5, <1>6, <1>7, TypePartsNext

LEMMA CliExpiresTyped ==
  ASSUME TypeOK, CliExpires
  PROVE  TypeOK'
<1>0. /\ BotTyped /\ FlagsTyped /\ CallTyped /\ ServerTyped /\ HistoryTyped
      /\ StageAgrees /\ EntryAgrees
  BY TypeParts
<1>1. BotTyped'
  BY <1>0 DEF BotTyped, CliExpires, setting, bot
<1>2. FlagsTyped'
  BY Zenon, <1>0 DEF FlagsTyped, CliExpires, bot
<1>3. CallTyped'
  BY <1>0 DEF CallTyped, CliExpires
<1>4. ServerTyped'
  BY <1>0, TurnControlAssumption DEF ServerTyped, CliExpires
<1>5. HistoryTyped'
  BY <1>0 DEF HistoryTyped, StageAgrees, BotTyped, CliExpires
<1>6. StageAgrees'
  BY <1>0 DEF StageAgrees, CliExpires, bot
<1>7. EntryAgrees'
  BY <1>0 DEF EntryAgrees, CliExpires, bot
<1> QED BY <1>1, <1>2, <1>3, <1>4, <1>5, <1>6, <1>7, TypePartsNext

LEMMA CliExitsTyped ==
  ASSUME TypeOK, CliExits
  PROVE  TypeOK'
<1>0. /\ BotTyped /\ FlagsTyped /\ CallTyped /\ ServerTyped /\ HistoryTyped
      /\ StageAgrees /\ EntryAgrees
  BY TypeParts
<1>1. BotTyped'
  BY <1>0 DEF BotTyped, Stage, CliExits, setting, bot
<1>2. FlagsTyped'
  BY Zenon, <1>0 DEF FlagsTyped, CliExits, bot
<1>3. CallTyped'
  BY <1>0 DEF CallTyped, CliExits
<1>4. ServerTyped'
  BY <1>0 DEF ServerTyped, CliExits, serverVars
<1>5. HistoryTyped'
  BY <1>0 DEF HistoryTyped, CliExits, history
<1>6. StageAgrees'
  BY <1>0 DEF StageAgrees, CliExits, bot
<1>7. EntryAgrees'
  BY <1>0 DEF EntryAgrees, CliExits, bot
<1> QED BY <1>1, <1>2, <1>3, <1>4, <1>5, <1>6, <1>7, TypePartsNext

LEMMA ServerCompletesTyped ==
  ASSUME TypeOK, NEW t \in Turn, ServerCompletes(t)
  PROVE  TypeOK'
<1>0. /\ BotTyped /\ FlagsTyped /\ CallTyped /\ ServerTyped /\ HistoryTyped
      /\ StageAgrees /\ EntryAgrees
  BY TypeParts
<1>1. BotTyped'
  BY <1>0 DEF BotTyped, ServerCompletes, setting, bot, turn
<1>2. FlagsTyped'
  BY Zenon, <1>0 DEF FlagsTyped, ServerCompletes, bot, turn
<1>3. CallTyped'
  BY <1>0 DEF CallTyped, ServerCompletes
<1>4. ServerTyped'
  BY <1>0 DEF ServerTyped, ServerCompletes
<1>5. HistoryTyped'
  BY <1>0 DEF HistoryTyped, ServerCompletes, history
<1>6. StageAgrees'
  BY <1>0 DEF StageAgrees, ServerCompletes, bot, turn
<1>7. EntryAgrees'
  BY <1>0 DEF EntryAgrees, ServerCompletes, bot, turn
<1> QED BY <1>1, <1>2, <1>3, <1>4, <1>5, <1>6, <1>7, TypePartsNext

LEMMA DrainTyped ==
  ASSUME TypeOK, Drain
  PROVE  TypeOK'
<1>0. /\ BotTyped /\ FlagsTyped /\ CallTyped /\ ServerTyped /\ HistoryTyped
      /\ StageAgrees /\ EntryAgrees
  BY TypeParts
<1>a. active = NoTurn /\ queue # <<>> => Head(queue) \in Turn
  BY <1>0, HeadFacts DEF BotTyped
<1>1. BotTyped'
  BY <1>0, HeadFacts DEF BotTyped, Begin, Stage, Drain, setting
<1>2. FlagsTyped'
  BY Zenon, <1>0 DEF FlagsTyped, Drain
<1>3. CallTyped'
  BY <1>0 DEF CallTyped, Drain
<1>4. ServerTyped'
  BY <1>0 DEF ServerTyped, Drain, serverVars
<1>5. HistoryTyped'
  BY <1>0, <1>a DEF HistoryTyped, Begin, Drain
<1>6. StageAgrees'
  BY <1>0, NoTurnAssumption, HeadFacts DEF StageAgrees, Begin, BotTyped, Drain
<1>7. EntryAgrees'
  BY <1>0, NoTurnAssumption DEF EntryAgrees, Begin, BotTyped, StageAgrees, Drain
<1> QED BY <1>1, <1>2, <1>3, <1>4, <1>5, <1>6, <1>7, TypePartsNext

LEMMA ReleaseTyped ==
  ASSUME TypeOK, Release
  PROVE  TypeOK'
<1>0. /\ BotTyped /\ FlagsTyped /\ CallTyped /\ ServerTyped /\ HistoryTyped
      /\ StageAgrees /\ EntryAgrees
  BY TypeParts
<1>1. BotTyped'
  BY <1>0, CallerFacts, NoTurnAssumption
     DEF BotTyped, Stage, StageAgrees, Recovers, Release, LatchAfter, setting
<1>2. FlagsTyped'
  BY Zenon, <1>0 DEF FlagsTyped, Release, LatchAfter
<1>3. CallTyped'
  BY <1>0 DEF CallTyped, Release, LatchAfter
<1>4. ServerTyped'
  BY <1>0 DEF ServerTyped, Release, LatchAfter, serverVars
<1>5. HistoryTyped'
  BY <1>0 DEF HistoryTyped, Release, LatchAfter, history
<1>6. StageAgrees'
  BY <1>0 DEF StageAgrees, Release, LatchAfter
<1>7. EntryAgrees'
  BY <1>0 DEF EntryAgrees, BotTyped, StageAgrees, Release, LatchAfter
<1> QED BY <1>1, <1>2, <1>3, <1>4, <1>5, <1>6, <1>7, TypePartsNext

LEMMA TakeMessageTyped ==
  ASSUME TypeOK, NEW c \in Cmd, TakeMessage(c)
  PROVE  TypeOK'
<1>0. /\ BotTyped /\ FlagsTyped /\ CallTyped /\ ServerTyped /\ HistoryTyped
      /\ StageAgrees /\ EntryAgrees
  BY TypeParts
<1>o. OwnTurn(c) \in Turn
  BY CallerFacts
<1>p. OwnTurn(c) # NoTurn
  BY <1>o, NoTurnAssumption
<1>q. Append(queue, OwnTurn(c)) \in Seq(Turn)
  BY <1>0, <1>o, QueueFacts DEF BotTyped
<1>a. OwnTurn(c) \in Turn /\ OwnTurn(c) # NoTurn /\ Append(queue, OwnTurn(c)) \in Seq(Turn)
  BY <1>o, <1>p, <1>q
<1>1. BotTyped'
  BY <1>0, <1>a DEF BotTyped, Begin, Goes, Handler, Stage, TakeMessage, setting
<1>2. FlagsTyped'
  BY Zenon, <1>0 DEF FlagsTyped, TakeMessage
<1>3. CallTyped'
  BY <1>0 DEF CallTyped, TakeMessage
<1>4. ServerTyped'
  BY <1>0 DEF ServerTyped, TakeMessage, serverVars
<1>5. HistoryTyped'
  BY <1>0, <1>a DEF HistoryTyped, Begin, TakeMessage
<1>6. StageAgrees'
  BY <1>0, <1>a DEF StageAgrees, Begin, Goes, TakeMessage
<1>7. EntryAgrees'
  BY <1>0, NoTurnAssumption DEF EntryAgrees, Begin, BotTyped, StageAgrees, TakeMessage
<1> QED BY <1>1, <1>2, <1>3, <1>4, <1>5, <1>6, <1>7, TypePartsNext

LEMMA MessageTyped ==
  ASSUME TypeOK, NEW c \in Cmd, PlainMessage(c) \/ Reply(c) \/ UnsteeredReply(c)
  PROVE  TypeOK'
<1>0. /\ BotTyped /\ FlagsTyped /\ CallTyped /\ ServerTyped /\ HistoryTyped
      /\ StageAgrees /\ EntryAgrees
  BY TypeParts
<1>1. CASE TakeMessage(c)
  BY <1>1, TakeMessageTyped
<1>2. CASE Goes(c, "steer") /\ UNCHANGED <<setting, queue, active, drain, turn, call, wire,
                                           serverVars, history>>
  <2>1. BotTyped'
    BY <1>0, <1>2 DEF BotTyped, Goes, Handler, setting, turn
  <2>2. FlagsTyped'
    BY Zenon, <1>0, <1>2 DEF FlagsTyped, turn
  <2>3. CallTyped' /\ ServerTyped'
    BY <1>0, <1>2 DEF CallTyped, ServerTyped, serverVars
  <2>4. HistoryTyped'
    BY <1>0, <1>2 DEF HistoryTyped, history
  <2>5. StageAgrees' /\ EntryAgrees'
    BY <1>0, <1>2 DEF StageAgrees, EntryAgrees, turn
  <2> QED BY <2>1, <2>2, <2>3, <2>4, <2>5, TypePartsNext
<1> QED BY <1>1, <1>2 DEF PlainMessage, Reply, UnsteeredReply

LEMMA ServeTyped ==
  ASSUME TypeOK, WireInv, Serve
  PROVE  TypeOK'
<1>0. /\ BotTyped /\ FlagsTyped /\ CallTyped /\ ServerTyped /\ HistoryTyped
      /\ StageAgrees /\ EntryAgrees
  BY TypeParts
<1>r. wire # <<>> /\ Head(wire) \in Request /\ Tail(wire) \in Seq(Request)
  BY <1>0, HeadFacts DEF Serve, CallTyped
<1>s. WellAsked(Head(wire))
  BY <1>0, <1>r, HeadFacts DEF WireInv, CallTyped
<1>1. BotTyped'
  BY <1>0 DEF BotTyped, Serve, setting, bot, turn
<1>2. FlagsTyped'
  BY Zenon, <1>0 DEF FlagsTyped, Serve, bot, turn
<1>3. CallTyped'
  BY <1>0, <1>r DEF CallTyped, Request, Accepts, Method, Serve
<1>4. ServerTyped'
  BY <1>0, <1>r DEF ServerTyped, Request, Serve
<1>5. HistoryTyped'
  BY <1>0, <1>r, <1>s DEF HistoryTyped, Request, Accepts, WellAsked, Serve
<1>6. StageAgrees'
  BY <1>0 DEF StageAgrees, Serve, bot, turn
<1>7. EntryAgrees'
  BY <1>0, <1>r DEF EntryAgrees, CallTyped, Accepts, Request, Serve, bot, turn
<1> QED BY <1>1, <1>2, <1>3, <1>4, <1>5, <1>6, <1>7, TypePartsNext

LEMMA ServerDiesTyped ==
  ASSUME TypeOK, ServerDies
  PROVE  TypeOK'
<1>0. /\ BotTyped /\ FlagsTyped /\ CallTyped /\ ServerTyped /\ HistoryTyped
      /\ StageAgrees /\ EntryAgrees
  BY TypeParts
<1>1. BotTyped'
  BY <1>0 DEF BotTyped, ServerDies, setting, bot
<1>2. FlagsTyped'
  BY Zenon, <1>0 DEF FlagsTyped, ServerDies, bot
<1>3. CallTyped'
  BY <1>0 DEF CallTyped, ServerDies
<1>4. ServerTyped'
  BY <1>0, TurnControlAssumption DEF ServerTyped, ServerDies
<1>5. HistoryTyped'
  BY <1>0 DEF HistoryTyped, ServerDies
<1>6. StageAgrees'
  BY <1>0 DEF StageAgrees, ServerDies, bot
<1>7. EntryAgrees'
  BY <1>0 DEF EntryAgrees, ServerDies, bot
<1> QED BY <1>1, <1>2, <1>3, <1>4, <1>5, <1>6, <1>7, TypePartsNext

LEMMA WireAppended ==
  ASSUME CallTyped, WireInv, NEW r \in Request, wire' = Append(wire, r), WellAsked(r)
  PROVE  WireInv'
<1>1. DOMAIN wire' = 1..Len(wire) + 1 /\ wire'[Len(wire) + 1] = r
      /\ \A i \in DOMAIN wire : wire'[i] = wire[i]
  BY QueueFacts DEF CallTyped
<1>2. DOMAIN wire = 1..Len(wire) /\ Len(wire) \in Nat
  BY QueueFacts DEF CallTyped
<1>3. \A i \in DOMAIN wire' : WellAsked(wire'[i])
  BY <1>1, <1>2 DEF WireInv
<1> QED BY <1>3 DEF WireInv, WellAsked

LEMMA WireServed ==
  ASSUME CallTyped, WireInv, wire # <<>>, wire' = Tail(wire)
  PROVE  WireInv'
<1>1. \A i \in DOMAIN wire' : i + 1 \in DOMAIN wire /\ wire'[i] = wire[i + 1]
  BY HeadFacts, QueueFacts DEF CallTyped
<1>2. \A i \in DOMAIN wire' : WellAsked(wire'[i])
  BY <1>1 DEF WireInv
<1> QED BY <1>2 DEF WireInv, WellAsked

LEMMA SentWellAsked ==
  ASSUME CallTyped, WireInv, NEW x0 \in Caller, NEW m \in Method, NEW t \in Turn,
         Sends(x0, m, t), x0 = t \/ (m # "turn/start" /\ x0 \notin Turn),
         m = "turn/steer" => x0 \in Cmd
  PROVE  WireInv'
<1> DEFINE r == [from |-> x0, method |-> m, turn |-> t]
<1>1. r \in Request /\ WellAsked(r)
  BY DEF Request, WellAsked
<1>2. wire' = Append(wire, r)
  BY DEF Sends
<1> QED BY <1>1, <1>2, WireAppended

\* The steps that write to the wire or read from it.
LEMMA WhoWrites ==
  ASSUME [Next]_vars
  PROVE  \/ UNCHANGED wire
         \/ \E c \in Cmd : AskSteer(c) \/ AskInterrupt(c)
         \/ Connect \/ CheckLatch \/ TurnExpires \/ OuterBound \/ Serve \/ ServerDies
<1>1. ASSUME NEW c \in Cmd, NewUpdate(c) \/ HandlerStep(c) \/ SteerTooLate(c),
             ~AskSteer(c), ~AskInterrupt(c)
      PROVE  UNCHANGED wire
  BY <1>1 DEF NewUpdate, PlainMessage, Reply, CmdForce, Stop, HandlerStep, SteerAnswered,
       UnsteeredReply, UnsteeredForce, SignalDone, Acknowledge, SteerTooLate, TakeMessage
<1>2. ASSUME AppTurnStep \/ StartTooLate \/ HonourTooLate \/ (\E t \in Turn : CancelEnds(t))
                \/ Spawn \/ SpawnFails \/ CliExpires \/ CliExits \/ Drain \/ Release
                \/ (\E t \in Turn : ServerCompletes(t)) \/ UNCHANGED vars,
              ~Connect, ~CheckLatch
       PROVE  UNCHANGED wire
  BY <1>2 DEF AppTurnStep, Started, Honoured, Completed, Expired, StartTooLate, HonourTooLate,
       CancelEnds, Spawn, SpawnFails, CliExpires, CliExits, Drain, Release, ServerCompletes, vars
<1> QED BY <1>1, <1>2 DEF Next

LEMMA WireStep ==
  ASSUME TypeOK, WireInv, [Next]_vars
  PROVE  WireInv'
<1>0. CallTyped /\ BotTyped /\ StageAgrees /\ EntryAgrees
  BY TypeParts
<1>1. CASE UNCHANGED wire
  BY <1>1 DEF WireInv, WellAsked
<1>2. ASSUME NEW c \in Cmd, AskSteer(c) PROVE WireInv'
  <2>1. CASE registered = NoTurn
    BY <1>1, <1>2, <2>1 DEF AskSteer
  <2>2. CASE registered # NoTurn
    BY <1>0, <1>2, <2>2, SentWellAsked, CallerFacts DEF AskSteer, EntryAgrees, Method
  <2> QED BY <2>1, <2>2
<1>3. ASSUME NEW c \in Cmd, AskInterrupt(c) PROVE WireInv'
  <2>1. CASE registered = NoTurn
    BY <1>1, <1>3, <2>1 DEF AskInterrupt
  <2>2. CASE registered # NoTurn
    BY <1>0, <1>3, <2>2, SentWellAsked, CallerFacts DEF AskInterrupt, EntryAgrees, Method
  <2> QED BY <2>1, <2>2
<1>4. CASE Connect
  BY <1>0, <1>1, <1>4, SentWellAsked, CallerFacts DEF Connect, StageAgrees, BotTyped, Method
<1>5. CASE CheckLatch
  BY <1>0, <1>1, <1>5, SentWellAsked, CallerFacts DEF CheckLatch, StageAgrees, BotTyped, Method
<1>6. CASE TurnExpires
  BY <1>0, <1>1, <1>6, SentWellAsked, CallerFacts
     DEF TurnExpires, Expiry, StageAgrees, BotTyped, Method
<1>7. CASE OuterBound
  <2>1. active \in Turn
    BY <1>0, <1>7 DEF OuterBound, StageAgrees, BotTyped
  <2>2. CASE stage \in {"connecting", "starting"}
    BY <1>1, <1>7, <2>2 DEF OuterBound
  <2>3. CASE stage \notin {"connecting", "starting"}
    <3> DEFINE r == [from |-> Cancelled(active), method |-> "turn/interrupt", turn |-> active]
    <3>1. r \in Request /\ WellAsked(r)
      BY <2>1, CallerFacts DEF Request, WellAsked, Method
    <3>2. wire' = Append(wire, r)
      BY <1>7, <2>3 DEF OuterBound
    <3> QED BY <1>0, <3>1, <3>2, WireAppended
  <2> QED BY <2>2, <2>3
<1>8. CASE Serve
  BY <1>0, <1>8, WireServed DEF Serve
<1>9. CASE ServerDies
  BY <1>9 DEF ServerDies, WireInv
<1> QED BY <1>1, <1>2, <1>3, <1>4, <1>5, <1>6, <1>7, <1>8, <1>9, WhoWrites

LEMMA TypeStep ==
  ASSUME TypeOK, WireInv, [Next]_vars
  PROVE  TypeOK'
<1>1. ASSUME NEW c \in Cmd, NewUpdate(c) \/ HandlerStep(c) \/ SteerTooLate(c)
      PROVE  TypeOK'
  BY <1>1, MessageTyped, CmdForceTyped, StopTyped, AskSteerTyped, SteerAnsweredTyped,
     SteerTooLateTyped, UnsteeredForceTyped, AskInterruptTyped, SignalDoneTyped,
     AcknowledgeTyped
     DEF NewUpdate, HandlerStep
<1>2. CASE AppTurnStep \/ StartTooLate \/ HonourTooLate \/ TurnExpires \/ OuterBound
  BY <1>2, ConnectTyped, StartedTyped, CheckLatchTyped, HonouredTyped, CompletedTyped,
     ExpiredTyped, StartTooLateTyped, HonourTooLateTyped, TurnExpiresTyped, OuterBoundTyped
     DEF AppTurnStep
<1>3. CASE Spawn \/ SpawnFails \/ CliExpires \/ CliExits \/ Drain \/ Release
  BY <1>3, SpawnTyped, SpawnFailsTyped, CliExpiresTyped, CliExitsTyped, DrainTyped, ReleaseTyped
<1>4. ASSUME NEW t \in Turn, CancelEnds(t) \/ ServerCompletes(t) PROVE TypeOK'
  BY <1>4, CancelEndsTyped, ServerCompletesTyped
<1>5. CASE Serve \/ ServerDies
  BY <1>5, ServeTyped, ServerDiesTyped
<1>6. CASE UNCHANGED vars
  BY <1>6, Zenon DEF vars, setting, bot, turn, serverVars, history, TypeOK
<1> QED BY <1>1, <1>2, <1>3, <1>4, <1>5, <1>6 DEF Next

\* Every variable has its type, and an entry of the client or a tracked process is the
\* active turn's (codex_app_server.py:317, process_control.py:84).
THEOREM TurnTyped == Spec => []TypeOK
<1>1. Init => TypeOK /\ WireInv
  BY InitTyped DEF Init, WireInv
<1>2. TypeOK /\ WireInv /\ [Next]_vars => (TypeOK /\ WireInv)'
  BY TypeStep, WireStep
<1> QED BY <1>1, <1>2, PTL DEF Spec

-----------------------------------------------------------------------------
(* What waits *)

Waiting(t) == \E i \in DOMAIN queue : queue[i] = t

\* A handler that has not yet put its message into the queue or into a turn.
Untaken(c) == ~Waiting(OwnTurn(c)) /\ OwnTurn(c) \notin begun

Undecided == {"new", "steer", "steering", "unsteered"}

TakenInv == \A c \in Cmd : handler[c] \in Undecided => Untaken(c)

-----------------------------------------------------------------------------
(* A correction is in the running turn or in one of its own *)

IsSteer(r, c) == r.method = "turn/steer" /\ r.from = c

SteerAhead(c) == \E i \in DOMAIN wire : IsSteer(wire[i], c)

SteersOnce(c) ==
  \A i, j \in DOMAIN wire : IsSteer(wire[i], c) /\ IsSteer(wire[j], c) => i = j

\* The steer of a command is on the wire once, and somebody waits for its answer, or
\* the command is one of those that will never know.
SteerOf(c) ==
  /\ SteersOnce(c)
  /\ SteerAhead(c) =>
       /\ c \in unsure \/ (handler[c] = "steering" /\ call[c] = "turn/steer")
       /\ handler[c] \notin {"new", "steer"}
  /\ c \in fed \ unsure =>
       /\ Untaken(c)
       /\ handler[c] = "done" \/ (handler[c] = "steering" /\ call[c] = "ok")

SteerInv == \A c \in Cmd : SteerOf(c)

\* What waits or has begun after a step did before, but for the message that a handler
\* takes and the recovery of a turn that is released.
LEMMA QueueEnds ==
  ASSUME BotTyped, NEW t, NEW u \in Turn
  PROVE  /\ queue' = Append(queue, u) => (Waiting(t)' <=> Waiting(t) \/ t = u)
         /\ queue' = <<u>> \o queue => (Waiting(t)' <=> Waiting(t) \/ t = u)
         /\ queue # <<>> /\ queue' = Tail(queue) => (Waiting(t)' => Waiting(t))
         /\ queue # <<>> => Waiting(Head(queue))
<1>0. queue \in Seq(Turn) /\ DOMAIN queue = 1..Len(queue) /\ Len(queue) \in Nat
  BY QueueFacts DEF BotTyped
<1>1. ASSUME queue' = Append(queue, u) PROVE Waiting(t)' <=> Waiting(t) \/ t = u
  <2>1. DOMAIN queue' = 1..Len(queue) + 1 /\ queue'[Len(queue) + 1] = u
        /\ \A i \in DOMAIN queue : queue'[i] = queue[i]
    BY <1>0, <1>1, QueueFacts
  <2> QED BY <1>0, <2>1 DEF Waiting
<1>2. ASSUME queue' = <<u>> \o queue PROVE Waiting(t)' <=> Waiting(t) \/ t = u
  <2>1. DOMAIN queue' = 1..Len(queue) + 1 /\ queue'[1] = u
        /\ \A i \in DOMAIN queue : queue'[i + 1] = queue[i]
    BY <1>0, <1>2, QueueFacts
  <2>2. \A i \in DOMAIN queue' : i = 1 \/ (i - 1 \in DOMAIN queue /\ queue'[i] = queue[i - 1])
    <3> TAKE i \in DOMAIN queue'
    <3>1. CASE i # 1
      <4>1. i - 1 \in DOMAIN queue /\ (i - 1) + 1 = i
        BY <1>0, <2>1, <3>1
      <4> QED BY <2>1, <4>1
    <3> QED BY <3>1
  <2>3. \A i \in DOMAIN queue : i + 1 \in DOMAIN queue'
    BY <1>0, <2>1
  <2>4. 1 \in DOMAIN queue'
    BY <1>0, <2>1
  <2> QED BY <2>1, <2>2, <2>3, <2>4 DEF Waiting
<1>3. ASSUME queue # <<>>, queue' = Tail(queue) PROVE Waiting(t)' => Waiting(t)
  <2>1. \A i \in DOMAIN queue' : i + 1 \in DOMAIN queue /\ queue'[i] = queue[i + 1]
    BY <1>0, <1>3, HeadFacts, QueueFacts
  <2> QED BY <2>1 DEF Waiting
<1>4. ASSUME queue # <<>> PROVE Waiting(Head(queue))
  <2>1. 1 \in DOMAIN queue /\ Head(queue) = queue[1]
    BY <1>0, <1>4, HeadFacts
  <2> QED BY <2>1 DEF Waiting
<1> QED BY <1>1, <1>2, <1>3, <1>4

LEMMA TakenByOne ==
  ASSUME TypeOK, NEW c \in Cmd, NEW d \in Cmd, TakeMessage(d), Untaken(c)
  PROVE  /\ Untaken(c)' \/ c = d
         /\ handler'[d] \in {"done", "ack"}
         /\ \A e \in Cmd \ {d} : handler'[e] = handler[e]
<1>0. BotTyped /\ OwnTurn(d) \in Turn /\ (OwnTurn(c) = OwnTurn(d) => c = d)
  BY TypeParts, CallerFacts
<1>1. \/ queue' = queue /\ begun' = begun \cup {OwnTurn(d)}
      \/ queue' = Append(queue, OwnTurn(d)) /\ begun' = begun
  BY DEF TakeMessage, Begin
<1>2. Waiting(OwnTurn(c))' => Waiting(OwnTurn(c)) \/ c = d
  <2>1. CASE queue' = queue
    BY <2>1 DEF Waiting
  <2>2. CASE queue' = Append(queue, OwnTurn(d))
    BY <1>0, <2>2, QueueEnds
  <2> QED BY <1>1, <2>1, <2>2
<1>3. OwnTurn(c) \in begun' => OwnTurn(c) \in begun \/ c = d
  BY <1>0, <1>1
<1>4. Untaken(c)' \/ c = d
  BY <1>2, <1>3 DEF Untaken
<1>5. handler'[d] \in {"done", "ack"} /\ \A e \in Cmd \ {d} : handler'[e] = handler[e]
  BY <1>0 DEF TakeMessage, Goes, BotTyped
<1> QED BY <1>4, <1>5

Decides(c) == handler[c] \in {"new", "unsteered"} /\ handler'[c] \in {"ack", "signal", "done"}

LEMMA UntakenKept ==
  ASSUME TypeOK, NEW c \in Cmd, Untaken(c), [Next]_vars
  PROVE  Untaken(c)' \/ Decides(c)
<1>0. BotTyped /\ StageAgrees /\ OwnTurn(c) \in Turn
  BY TypeParts, CallerFacts
<1>1. CASE UNCHANGED <<queue, begun>>
  BY <1>1 DEF Untaken, Waiting
<1>2. ASSUME NEW d \in Cmd, TakeMessage(d), handler[d] \in {"new", "unsteered"}
      PROVE  Untaken(c)' \/ Decides(c)
  <2>1. Untaken(c)' \/ c = d
    BY <1>2, TakenByOne
  <2>2. handler'[d] \in {"done", "ack"}
    BY <1>2, TakenByOne
  <2> QED BY <1>2, <2>1, <2>2 DEF Decides
<1>3. ASSUME NEW d \in Cmd, UnsteeredForce(d)
      PROVE  Untaken(c)' \/ Decides(c)
  <2>1. OwnTurn(d) \in Turn /\ (OwnTurn(c) = OwnTurn(d) => c = d)
    BY CallerFacts
  <2>2. queue' = <<OwnTurn(d)>> \o queue /\ begun' = begun /\ handler[d] = "unsteered"
        /\ handler'[d] \in {"signal", "ack"}
    BY <1>0, <1>3 DEF UnsteeredForce, Goes, AfterLatch, BotTyped
  <2>3. Waiting(OwnTurn(c))' => Waiting(OwnTurn(c)) \/ c = d
    BY <1>0, <2>1, <2>2, QueueEnds
  <2>4. OwnTurn(c) \notin begun'
    BY <2>2 DEF Untaken
  <2>5. CASE c = d
    BY <2>2, <2>5 DEF Decides
  <2>6. CASE c # d
    BY <2>3, <2>4, <2>6 DEF Untaken
  <2> QED BY <2>5, <2>6
<1>4. CASE Drain
  <2>1. CASE active = NoTurn /\ queue # <<>>
    <3>1. queue' = Tail(queue) /\ begun' = begun \cup {Head(queue)}
      BY <1>4, <2>1 DEF Drain, Begin
    <3>2. Waiting(OwnTurn(c))' => Waiting(OwnTurn(c))
      BY <1>0, <2>1, <3>1, QueueEnds
    <3>3. Head(queue) # OwnTurn(c)
      BY <1>0, <2>1, QueueEnds DEF Untaken
    <3> QED BY <3>1, <3>2, <3>3 DEF Untaken
  <2> QED BY <1>1, <1>4, <2>1 DEF Drain
<1>5. CASE Release
  <2>1. active \in Turn /\ active[1] \in Cmd
    BY <1>0, <1>5, CallerFacts DEF Release, StageAgrees, BotTyped
  <2>2. <<active[1], "recovery">> \in Turn /\ OwnTurn(c) # <<active[1], "recovery">>
    BY <2>1, CallerFacts
  <2>3. begun' = begun /\ (queue' = queue \/ queue' = <<<<active[1], "recovery">>>> \o queue)
    BY <1>5 DEF Release, history
  <2>4. Waiting(OwnTurn(c))' => Waiting(OwnTurn(c))
    <3>1. CASE queue' = queue
      BY <3>1 DEF Waiting
    <3>2. CASE queue' = <<<<active[1], "recovery">>>> \o queue
      <4> HIDE DEF OwnTurn
      <4>1. PICK u \in Turn : u = <<active[1], "recovery">>
        BY <2>2
      <4>2. queue' = <<u>> \o queue /\ OwnTurn(c) # u
        BY <3>2, <4>1, <2>2
      <4> QED BY <1>0, <4>2, QueueEnds
    <3> QED BY <2>3, <3>1, <3>2
  <2> QED BY <2>3, <2>4 DEF Untaken
<1>6. ASSUME NEW d \in Cmd, NewUpdate(d) \/ HandlerStep(d) \/ SteerTooLate(d)
      PROVE  Untaken(c)' \/ Decides(c)
  <2>1. CASE PlainMessage(d) \/ UnsteeredReply(d)
    BY <1>2, <2>1 DEF PlainMessage, UnsteeredReply
  <2>2. CASE Reply(d)
    BY <1>1, <1>2, <2>2 DEF Reply, history
  <2>3. CASE CmdForce(d) \/ Stop(d)
    BY <1>1, <2>3 DEF CmdForce, Stop
  <2>4. CASE AskSteer(d) \/ SteerAnswered(d) \/ SteerTooLate(d)
    BY <1>1, <2>4 DEF AskSteer, SteerAnswered, SteerTooLate, history
  <2>5. CASE AskInterrupt(d) \/ SignalDone(d) \/ Acknowledge(d)
    BY <1>1, <2>5 DEF AskInterrupt, SignalDone, Acknowledge, history
  <2> QED BY <1>3, <1>6, <2>1, <2>2, <2>3, <2>4, <2>5 DEF NewUpdate, HandlerStep
<1>7. CASE AppTurnStep \/ StartTooLate \/ HonourTooLate \/ TurnExpires \/ OuterBound
  BY <1>1, <1>7 DEF AppTurnStep, Connect, Started, CheckLatch, Honoured, Completed, Expired,
     StartTooLate, HonourTooLate, TurnExpires, OuterBound, bot, history
<1>8. CASE (\E t \in Turn : CancelEnds(t) \/ ServerCompletes(t)) \/ Spawn \/ SpawnFails
           \/ CliExpires \/ CliExits \/ Serve \/ ServerDies \/ UNCHANGED vars
  BY <1>1, <1>8 DEF CancelEnds, ServerCompletes, Spawn, SpawnFails, CliExpires, CliExits, Serve,
     ServerDies, vars, bot, history
<1> QED BY <1>4, <1>5, <1>6, <1>7, <1>8 DEF Next

OwnStep(c) == NewUpdate(c) \/ HandlerStep(c) \/ SteerTooLate(c)

\* What a command sees of the steps that are not its own.
LEMMA OthersLocal ==
  ASSUME TypeOK, NEW c \in Cmd, [Next]_vars, ~OwnStep(c), ~Serve, ~ServerDies
  PROVE  /\ handler'[c] = handler[c] /\ call'[c] = call[c]
         /\ fed' = fed /\ (c \in unsure' <=> c \in unsure)
<1>0. BotTyped /\ CallTyped /\ StageAgrees
  BY TypeParts
<1> DEFINE Goal == handler'[c] = handler[c] /\ call'[c] = call[c]
                   /\ fed' = fed /\ (c \in unsure' <=> c \in unsure)
<1>1. ASSUME NEW d \in Cmd, d # c, OwnStep(d) PROVE Goal
  <2>1. CASE PlainMessage(d) \/ Reply(d) \/ UnsteeredReply(d)
    BY <1>0, <1>1, <2>1
       DEF PlainMessage, Reply, UnsteeredReply, TakeMessage, Goes, BotTyped, history
  <2>2. CASE CmdForce(d) \/ Stop(d) \/ UnsteeredForce(d)
    BY <1>0, <1>1, <2>2 DEF CmdForce, Stop, UnsteeredForce, Goes, BotTyped
  <2>3. CASE AskSteer(d) \/ AskInterrupt(d)
    BY <1>0, <1>1, <2>3, CallerFacts
       DEF AskSteer, AskInterrupt, Goes, Sends, BotTyped, CallTyped, history
  <2>4. CASE SteerAnswered(d) \/ SignalDone(d) \/ Acknowledge(d)
    BY <1>0, <1>1, <2>4, CallerFacts DEF SteerAnswered, SignalDone, Acknowledge, Goes, Hangup,
       BotTyped, CallTyped, history
  <2>5. CASE SteerTooLate(d)
    BY <1>0, <1>1, <2>5, CallerFacts DEF SteerTooLate, Goes, Hangup, BotTyped, CallTyped
  <2> QED BY <1>1, <2>1, <2>2, <2>3, <2>4, <2>5 DEF OwnStep, NewUpdate, HandlerStep
<1>2. ASSUME active \in Turn,
             Connect \/ Started \/ StartTooLate \/ CheckLatch \/ Honoured \/ HonourTooLate
             \/ TurnExpires \/ Expired
      PROVE  Goal
  <2>1. active # c /\ c \in Caller
    BY <1>2, CallerFacts
  <2>2. call'[c] = call[c]
    BY <1>0, <1>2, <2>1 DEF Connect, Started, StartTooLate, CheckLatch, Honoured, HonourTooLate,
       TurnExpires, Expiry, Expired, Hangup, Sends, CallTyped
  <2>3. handler' = handler /\ fed' = fed /\ unsure' = unsure
    BY <1>2 DEF Connect, Started, StartTooLate, CheckLatch, Honoured, HonourTooLate,
       TurnExpires, Expired, bot, history
  <2> QED BY <2>2, <2>3
<1>3. CASE OuterBound
  <2>1. active \in Turn /\ active # c /\ Cancelled(active) # c /\ c \in Caller
    BY <1>0, <1>3, CallerFacts DEF OuterBound, StageAgrees, BotTyped
  <2>2. call'[c] = call[c]
    BY <1>0, <1>3, <2>1 DEF OuterBound, Hangup, CallTyped
  <2> QED BY <1>3, <2>2 DEF OuterBound, bot
<1>4. ASSUME NEW t \in Turn, CancelEnds(t) PROVE Goal
  BY <1>0, <1>4, CallerFacts DEF CancelEnds, Hangup, CallTyped, bot, history
<1>5. CASE Completed \/ Spawn \/ SpawnFails \/ CliExpires \/ CliExits \/ Drain \/ Release
           \/ (\E t \in Turn : ServerCompletes(t)) \/ UNCHANGED vars
  BY <1>5 DEF Completed, Spawn, SpawnFails, CliExpires, CliExits, Drain, Release,
     ServerCompletes, bot, history, vars
<1>6. AppTurnStep \/ StartTooLate \/ HonourTooLate \/ TurnExpires => active \in Turn \/ Completed
  BY <1>0 DEF AppTurnStep, Connect, Started, StartTooLate, CheckLatch, Honoured, HonourTooLate,
     TurnExpires, Expired, StageAgrees, BotTyped
<1> QED BY <1>1, <1>2, <1>3, <1>4, <1>5, <1>6 DEF Next, OwnStep, AppTurnStep

LEMMA HandlerOnward ==
  ASSUME TypeOK, NEW c \in Cmd, [Next]_vars, handler'[c] \in Undecided
  PROVE  handler[c] \in Undecided
<1>0. BotTyped
  BY TypeParts
<1>1. CASE ~OwnStep(c) /\ ~Serve /\ ~ServerDies
  BY <1>1, OthersLocal
<1>2. CASE Serve \/ ServerDies
  BY <1>2 DEF Serve, ServerDies, bot
<1>3. CASE OwnStep(c)
  BY <1>0, <1>3
     DEF OwnStep, NewUpdate, HandlerStep, PlainMessage, Reply, CmdForce, Stop, AskSteer,
     SteerAnswered, SteerTooLate, UnsteeredReply, UnsteeredForce, AskInterrupt, SignalDone,
     Acknowledge, TakeMessage, Goes, AfterLatch, AfterSignal, Undecided, BotTyped
<1> QED BY <1>1, <1>2, <1>3

LEMMA TakenStep ==
  ASSUME TypeOK, TakenInv, [Next]_vars
  PROVE  TakenInv'
<1> SUFFICES ASSUME NEW c \in Cmd, handler'[c] \in Undecided PROVE Untaken(c)'
  BY DEF TakenInv, Undecided
<1>1. Untaken(c)
  BY HandlerOnward DEF TakenInv
<1>2. ~Decides(c)
  BY DEF Decides, Undecided
<1> QED BY <1>1, <1>2, UntakenKept

-----------------------------------------------------------------------------
(* Steers on the wire *)

WireMoves(c) ==
  \/ UNCHANGED wire
  \/ wire' = <<>>
  \/ wire # <<>> /\ wire' = Tail(wire)
  \/ \E r \in Request : wire' = Append(wire, r) /\ ~IsSteer(r, c)

LEMMA SteersMove ==
  ASSUME CallTyped, NEW c \in Cmd, SteersOnce(c), WireMoves(c)
  PROVE  SteersOnce(c)' /\ (SteerAhead(c)' => SteerAhead(c))
<1>0. wire \in Seq(Request) /\ DOMAIN wire = 1..Len(wire) /\ Len(wire) \in Nat
  BY QueueFacts DEF CallTyped
<1>1. CASE UNCHANGED wire
  BY <1>1 DEF SteersOnce, SteerAhead
<1>2. CASE wire' = <<>>
  BY <1>2 DEF SteersOnce, SteerAhead
<1>3. CASE wire # <<>> /\ wire' = Tail(wire)
  <2>0. DOMAIN wire' = 1..Len(wire) - 1
    <3>1. wire' \in Seq(Request) /\ Len(wire') = Len(wire) - 1
      BY <1>0, <1>3, HeadFacts
    <3>2. DOMAIN wire' = 1..Len(wire')
      BY <3>1
    <3> QED BY Zenon, <3>1, <3>2
  <2>1. \A i \in DOMAIN wire' : i \in Nat /\ i + 1 \in DOMAIN wire /\ wire'[i] = wire[i + 1]
    <3> SUFFICES ASSUME NEW i \in 1..Len(wire) - 1
                 PROVE  i \in Nat /\ i + 1 \in DOMAIN wire /\ wire'[i] = wire[i + 1]
      BY <2>0
    <3>1. i \in Nat /\ i + 1 \in DOMAIN wire
      BY <1>0
    <3>2. wire'[i] = wire[i + 1]
      BY <1>0, <1>3, HeadFacts
    <3> QED BY <3>1, <3>2
  <2>2. SteersOnce(c)'
    <3> SUFFICES ASSUME NEW i \in DOMAIN wire', NEW j \in DOMAIN wire',
                        IsSteer(wire'[i], c), IsSteer(wire'[j], c)
                 PROVE  i = j
      BY DEF SteersOnce, IsSteer
    <3>1. i + 1 = j + 1
      BY <2>1 DEF SteersOnce
    <3> QED BY <2>1, <3>1
  <2>3. SteerAhead(c)' => SteerAhead(c)
    BY <2>1 DEF SteerAhead, IsSteer
  <2> QED BY <2>2, <2>3
<1>4. ASSUME NEW r \in Request, wire' = Append(wire, r), ~IsSteer(r, c)
      PROVE  SteersOnce(c)' /\ (SteerAhead(c)' => SteerAhead(c))
  <2>1. DOMAIN wire' = 1..Len(wire) + 1 /\ wire'[Len(wire) + 1] = r
        /\ \A i \in DOMAIN wire : wire'[i] = wire[i]
    BY <1>0, <1>4, QueueFacts
  <2>2. \A i \in DOMAIN wire' : IsSteer(wire'[i], c) => i \in DOMAIN wire /\ IsSteer(wire[i], c)
    <3> TAKE i \in DOMAIN wire'
    <3>1. i \in DOMAIN wire \/ i = Len(wire) + 1
      BY <1>0, <2>1
    <3>2. CASE i = Len(wire) + 1
      BY <1>4, <2>1, <3>2
    <3>3. CASE i \in DOMAIN wire
      BY <2>1, <3>3
    <3> QED BY <3>1, <3>2, <3>3
  <2> QED BY <2>2 DEF SteersOnce, SteerAhead, IsSteer
<1> QED BY <1>1, <1>2, <1>3, <1>4 DEF WireMoves

LEMMA SendsElsewhere ==
  ASSUME NEW c \in Cmd, NEW x0 \in Caller, NEW m \in Method, NEW t \in Turn, Sends(x0, m, t),
         x0 # c \/ m # "turn/steer"
  PROVE  WireMoves(c)
<1> DEFINE r == [from |-> x0, method |-> m, turn |-> t]
<1>1. r \in Request /\ ~IsSteer(r, c)
  BY DEF Request, IsSteer
<1>2. wire' = Append(wire, r)
  BY DEF Sends
<1> QED BY <1>1, <1>2 DEF WireMoves

LEMMA WireMovesStep ==
  ASSUME TypeOK, NEW c \in Cmd, [Next]_vars, ~AskSteer(c)
  PROVE  WireMoves(c)
<1>0. CallTyped /\ BotTyped /\ StageAgrees /\ EntryAgrees
  BY TypeParts
<1>1. CASE UNCHANGED wire
  BY <1>1 DEF WireMoves
<1>2. ASSUME NEW d \in Cmd, AskSteer(d) PROVE WireMoves(c)
  <2>1. d # c
    BY <1>2
  <2>2. CASE registered = NoTurn
    BY <1>1, <1>2, <2>2 DEF AskSteer
  <2>3. CASE registered # NoTurn
    BY <1>0, <1>2, <2>1, <2>3, SendsElsewhere, CallerFacts DEF AskSteer, EntryAgrees, Method
  <2> QED BY <2>2, <2>3
<1>3. ASSUME NEW d \in Cmd, AskInterrupt(d) PROVE WireMoves(c)
  <2>1. CASE registered = NoTurn
    BY <1>1, <1>3, <2>1 DEF AskInterrupt
  <2>2. CASE registered # NoTurn
    BY <1>0, <1>3, <2>2, SendsElsewhere, CallerFacts DEF AskInterrupt, EntryAgrees, Method
  <2> QED BY <2>1, <2>2
<1>4. CASE Connect
  BY <1>0, <1>1, <1>4, SendsElsewhere, CallerFacts DEF Connect, StageAgrees, BotTyped, Method
<1>5. CASE CheckLatch
  BY <1>0, <1>1, <1>5, SendsElsewhere, CallerFacts DEF CheckLatch, StageAgrees, BotTyped, Method
<1>6. CASE TurnExpires
  BY <1>0, <1>1, <1>6, SendsElsewhere, CallerFacts
     DEF TurnExpires, Expiry, StageAgrees, BotTyped, Method
<1>7. CASE OuterBound
  <2>1. active \in Turn
    BY <1>0, <1>7 DEF OuterBound, StageAgrees, BotTyped
  <2>2. CASE stage \in {"connecting", "starting"}
    BY <1>1, <1>7, <2>2 DEF OuterBound
  <2>3. CASE stage \notin {"connecting", "starting"}
    <3> DEFINE r == [from |-> Cancelled(active), method |-> "turn/interrupt", turn |-> active]
    <3>1. r \in Request /\ ~IsSteer(r, c)
      BY <2>1, CallerFacts DEF Request, IsSteer, Method
    <3>2. wire' = Append(wire, r)
      BY <1>7, <2>3 DEF OuterBound
    <3> QED BY <3>1, <3>2 DEF WireMoves
  <2> QED BY <2>2, <2>3
<1>8. CASE Serve \/ ServerDies
  BY <1>8 DEF Serve, ServerDies, WireMoves
<1>9. CASE UNCHANGED wire \/ Serve \/ ServerDies \/ Connect \/ CheckLatch \/ TurnExpires
           \/ OuterBound \/ \E d \in Cmd : AskSteer(d) \/ AskInterrupt(d)
  BY <1>1, <1>2, <1>3, <1>4, <1>5, <1>6, <1>7, <1>8, <1>9
<1> QED BY <1>9, WhoWrites

LEMMA SteerStep ==
  ASSUME TypeOK, WireInv, TakenInv, SteerInv, [Next]_vars
  PROVE  SteerInv'
<1> SUFFICES ASSUME NEW c \in Cmd PROVE SteerOf(c)'
  BY DEF SteerInv
<1>0. BotTyped /\ CallTyped /\ HistoryTyped /\ EntryAgrees
  BY TypeParts
<1>a. SteerOf(c) /\ c \in Caller
  BY CallerFacts DEF SteerInv
<1>b. c \in fed \ unsure => Untaken(c)'
  <2>1. c \in fed \ unsure => Untaken(c) /\ handler[c] \in {"done", "steering"}
    BY <1>a DEF SteerOf
  <2>2. ~(handler[c] \in {"done", "steering"}) \/ ~Decides(c)
    BY DEF Decides
  <2> QED BY <2>1, <2>2, UntakenKept
<1>c. ~AskSteer(c) => SteersOnce(c)' /\ (SteerAhead(c)' => SteerAhead(c))
  BY <1>0, <1>a, WireMovesStep, SteersMove DEF SteerOf
<1>1. CASE ~OwnStep(c) /\ ~Serve /\ ~ServerDies
  <2>1. handler'[c] = handler[c] /\ call'[c] = call[c] /\ fed' = fed
        /\ (c \in unsure' <=> c \in unsure)
    BY <1>1, OthersLocal
  <2>2. ~AskSteer(c)
    BY <1>1 DEF OwnStep, HandlerStep
  <2> QED BY <1>a, <1>b, <1>c, <2>1, <2>2 DEF SteerOf
<1>2. CASE ServerDies
  <2>1. ~SteerAhead(c)' /\ SteersOnce(c)'
    BY <1>2 DEF ServerDies, SteerAhead, SteersOnce
  <2>2. handler' = handler /\ fed' = fed /\ unsure \subseteq unsure'
    BY <1>2 DEF ServerDies, bot
  <2>3. handler[c] = "steering" /\ call[c] = "ok" => c \in unsure' \/ call'[c] = "ok"
    BY <1>a, <1>2 DEF ServerDies
  <2> QED BY <1>a, <1>b, <2>1, <2>2, <2>3 DEF SteerOf
<1>3. CASE AskSteer(c)
  <2>1. handler[c] = "steer" /\ ~SteerAhead(c) /\ c \notin fed \ unsure
    BY <1>a, <1>3 DEF AskSteer, SteerOf
  <2>2. fed' = fed /\ unsure' = unsure
    BY <1>3 DEF AskSteer, history
  <2>3. CASE registered = NoTurn
    <3>1. wire' = wire
      BY <1>3, <2>3 DEF AskSteer
    <3> QED BY <1>a, <2>1, <2>2, <3>1 DEF SteerOf, SteersOnce, SteerAhead
  <2>4. CASE registered # NoTurn
    <3> DEFINE r == [from |-> c, method |-> "turn/steer", turn |-> registered]
    <3>1. r \in Request /\ wire' = Append(wire, r)
      BY <1>0, <1>a, <1>3, <2>4 DEF AskSteer, Sends, EntryAgrees, Request, Method
    <3>2. handler'[c] = "steering" /\ call'[c] = "turn/steer"
      BY <1>0, <1>a, <1>3, <2>4 DEF AskSteer, Sends, Goes, BotTyped, CallTyped
    <3>3. \A i \in DOMAIN wire' : IsSteer(wire'[i], c) => i = Len(wire) + 1
      <4>1. DOMAIN wire' = 1..Len(wire) + 1 /\ \A i \in DOMAIN wire : wire'[i] = wire[i]
            /\ DOMAIN wire = 1..Len(wire) /\ Len(wire) \in Nat
        BY <1>0, <3>1, QueueFacts DEF CallTyped
      <4>2. \A i \in DOMAIN wire : ~IsSteer(wire[i], c)
        BY <2>1 DEF SteerAhead
      <4> QED BY <4>1, <4>2
    <3>4. SteersOnce(c)'
      BY <3>3 DEF SteersOnce, IsSteer
    <3> QED BY <2>1, <2>2, <3>2, <3>4 DEF SteerOf
  <2> QED BY <2>3, <2>4
<1>4. CASE SteerAnswered(c)
  <2>1. handler[c] = "steering" /\ call[c] \in {"ok", "error"} /\ UNCHANGED <<fed, unsure>>
        /\ handler'[c] = IF call[c] = "ok" THEN "done" ELSE "unsteered"
    BY <1>0, <1>4 DEF SteerAnswered, Answered, Steered, Goes, BotTyped, history
  <2>2. ~AskSteer(c)
    BY <2>1 DEF AskSteer
  <2> QED BY <1>a, <1>b, <1>c, <2>1, <2>2 DEF SteerOf
<1>5. CASE SteerTooLate(c)
  <2>1. c \in unsure' /\ handler'[c] = "unsteered" /\ ~AskSteer(c)
    BY <1>0, <1>5 DEF SteerTooLate, Goes, BotTyped, AskSteer
  <2> QED BY <1>a, <1>c, <2>1 DEF SteerOf
<1>6. CASE NewUpdate(c) \/ UnsteeredReply(c) \/ UnsteeredForce(c)
           \/ AskInterrupt(c) \/ SignalDone(c) \/ Acknowledge(c)
  <2>1. handler[c] \notin {"steer", "steering", "done"} /\ UNCHANGED <<fed, unsure>>
    BY <1>6 DEF NewUpdate, PlainMessage, Reply, CmdForce, Stop, UnsteeredReply, UnsteeredForce,
       AskInterrupt, SignalDone, Acknowledge, TakeMessage, history
  <2>2. ~AskSteer(c) /\ c \notin fed \ unsure
    BY <1>a, <2>1 DEF AskSteer, SteerOf
  <2>3. SteerAhead(c) => handler[c] # "new" /\ c \in unsure
    BY <1>a, <2>1 DEF SteerOf
  <2>4. handler[c] # "new" => handler'[c] \notin {"new", "steer"}
    BY <1>0, <1>6 DEF NewUpdate, PlainMessage, Reply, CmdForce, Stop, UnsteeredReply,
       UnsteeredForce, AskInterrupt, SignalDone, Acknowledge, TakeMessage, Goes, AfterLatch,
       AfterSignal, BotTyped
  <2> QED BY <1>c, <2>1, <2>2, <2>3, <2>4 DEF SteerOf
<1>7. CASE Serve
  <2> DEFINE r == Head(wire)
  <2>1. wire # <<>> /\ r \in Request /\ 1 \in DOMAIN wire /\ r = wire[1] /\ wire' = Tail(wire)
        /\ DOMAIN wire = 1..Len(wire) /\ Len(wire) \in Nat
    BY <1>0, <1>7, HeadFacts, QueueFacts DEF Serve, CallTyped
  <2>2. UNCHANGED <<handler, unsure>> /\ ~AskSteer(c)
    <3>1. UNCHANGED <<handler, unsure>>
      BY <1>7 DEF Serve, bot
    <3>2. AskSteer(c) => handler[c] = "steer" /\ handler'[c] # "steer"
      BY <1>0 DEF AskSteer, Goes, BotTyped
    <3> QED BY <3>1, <3>2
  <2>3. PICK ok \in Accepts(r) :
          /\ call' = IF call[r.from] = r.method
                     THEN [call EXCEPT ![r.from] = IF ok THEN "ok" ELSE "error"]
                     ELSE call
          /\ fed' = IF ok /\ r.method = "turn/steer" THEN fed \cup {r.from} ELSE fed
    BY <1>7 DEF Serve
  <2> HIDE DEF r
  <2>4. r.method \in Method
    BY <2>1 DEF Request
  <2>5. CASE IsSteer(r, c)
    <3>1. c \in unsure \/ (handler[c] = "steering" /\ call[c] = "turn/steer")
      BY <1>a, <2>1, <2>5 DEF SteerOf, SteerAhead
    <3>2. handler[c] \notin {"new", "steer"}
      BY <1>a, <2>1, <2>5 DEF SteerOf, SteerAhead
    <3>3. ~SteerAhead(c)'
      <4>1. \A i \in DOMAIN wire' : i + 1 \in DOMAIN wire /\ i + 1 # 1 /\ wire'[i] = wire[i + 1]
        BY <1>0, <2>1 DEF CallTyped
      <4>2. \A i \in DOMAIN wire : IsSteer(wire[i], c) => i = 1
        BY <1>a, <2>1, <2>5 DEF SteerOf, SteersOnce
      <4> QED BY <4>1, <4>2 DEF SteerAhead, IsSteer
    <3>4. CASE c \in unsure
      BY <1>c, <2>2, <3>3, <3>4 DEF SteerOf
    <3>5. CASE c \notin unsure
      <4>1. Untaken(c)
        BY <3>1, <3>5 DEF TakenInv, Undecided
      <4>2. Untaken(c)'
        BY <2>2, <3>1, <3>5, <4>1, UntakenKept DEF Decides
      <4>3. c \notin fed
        BY <1>a, <3>1, <3>5 DEF SteerOf
      <4>4. c \in fed' => call'[c] = "ok"
        BY <1>0, <1>a, <2>3, <2>5, <3>1, <3>5, <4>3 DEF IsSteer, CallTyped
      <4> QED BY <1>c, <2>2, <3>1, <3>3, <3>5, <4>2, <4>4 DEF SteerOf
    <3> QED BY <3>4, <3>5
  <2>6. CASE ~IsSteer(r, c)
    <3>1. c \in fed' => c \in fed
      BY <2>3, <2>6 DEF IsSteer
    <3>2. call[c] \in {"turn/steer", "ok"} => call'[c] = call[c]
      BY <1>0, <1>a, <2>3, <2>4, <2>6 DEF IsSteer, CallTyped, Method
    <3> QED BY <1>a, <1>b, <1>c, <2>2, <3>1, <3>2 DEF SteerOf
  <2> QED BY <2>5, <2>6
<1> QED BY <1>1, <1>2, <1>3, <1>4, <1>5, <1>6, <1>7 DEF OwnStep, HandlerStep

\* A correction is both in the running turn and in a turn of its own only if the answer
\* to its steer was lost or late (codex_app_server.py:344, telegram_bot.py:712, 1193).
THEOREM CorrectionIsTakenOnce == Spec => []SteeredOrQueued
<1> DEFINE Inv == TypeOK /\ WireInv /\ TakenInv /\ SteerInv
<1>1. Init => Inv
  <2> SUFFICES ASSUME Init PROVE Inv
    OBVIOUS
  <2>1. TypeOK
    BY InitTyped
  <2>2. queue = <<>> /\ wire = <<>> /\ begun = {} /\ fed = {}
    BY DEF Init
  <2>3. WireInv
    BY <2>2 DEF WireInv
  <2>4. TakenInv
    BY <2>2 DEF TakenInv, Untaken, Waiting
  <2>5. SteerInv
    BY <2>2 DEF SteerInv, SteerOf, SteersOnce, SteerAhead
  <2> QED BY <2>1, <2>3, <2>4, <2>5
<1>2. Inv /\ [Next]_vars => Inv'
  BY TypeStep, WireStep, TakenStep, SteerStep
<1>3. Inv => SteeredOrQueued
  <2> SUFFICES ASSUME Inv, NEW c \in fed,
                      OwnTurn(c) \in begun \/ OwnTurn(c) \in {queue[i] : i \in DOMAIN queue}
               PROVE  c \in unsure
    BY DEF SteeredOrQueued
  <2>1. c \in Cmd
    BY DEF TypeOK
  <2>2. ~Untaken(c)
    BY DEF Untaken, Waiting
  <2> QED BY <2>1, <2>2 DEF SteerInv, SteerOf
<1> QED BY <1>1, <1>2, <1>3, PTL DEF Spec

-----------------------------------------------------------------------------
(* Interrupts are aimed *)

Meant(t) == t \in overdue \cup cut \/ \E c \in Cmd : aim[c] = t

\* What a command was sent for is settled before it does anything.
AimOf(c) ==
  /\ handler[c] = "new" => aim[c] = NoTurn
  /\ kind[c] = "force" /\ handler[c] \in {"steer", "steering", "unsteered"} => aim[c] # NoTurn

LatchIsMeant == latch => active # NoTurn /\ \E c \in Cmd : aim[c] = active

InterruptsAreMeant ==
  \A i \in DOMAIN wire : wire[i].method = "turn/interrupt" => Meant(wire[i].turn)

AimInv ==
  /\ \A c \in Cmd : AimOf(c)
  /\ missed = {} => LatchIsMeant /\ InterruptsAreMeant /\ \A t \in struck : Meant(t)

LEMMA HistoryGrows ==
  ASSUME [Next]_vars
  PROVE  /\ missed \subseteq missed' /\ overdue \subseteq overdue' /\ cut \subseteq cut'
         /\ \/ aim' = aim
            \/ \E c \in Cmd : handler[c] = "new" /\ aim' = [aim EXCEPT ![c] = active]
<1>1. ASSUME NEW c \in Cmd, OwnStep(c)
      PROVE  /\ missed \subseteq missed' /\ overdue = overdue' /\ cut = cut'
             /\ aim' = aim \/ (handler[c] = "new" /\ aim' = [aim EXCEPT ![c] = active])
  <2>1. CASE PlainMessage(c) \/ Reply(c) \/ UnsteeredReply(c)
    BY <2>1 DEF PlainMessage, Reply, UnsteeredReply, TakeMessage, history
  <2>2. CASE CmdForce(c) \/ Stop(c)
    BY <2>2 DEF CmdForce, Stop
  <2>3. CASE UnsteeredForce(c) \/ AskInterrupt(c) \/ SteerTooLate(c)
    BY <2>3 DEF UnsteeredForce, AskInterrupt, SteerTooLate
  <2>4. CASE AskSteer(c) \/ SteerAnswered(c) \/ SignalDone(c) \/ Acknowledge(c)
    BY <2>4 DEF AskSteer, SteerAnswered, SignalDone, Acknowledge, history
  <2> QED BY <1>1, <2>1, <2>2, <2>3, <2>4 DEF OwnStep, NewUpdate, HandlerStep
<1>2. CASE AppTurnStep \/ StartTooLate \/ HonourTooLate \/ TurnExpires \/ OuterBound
  BY <1>2 DEF AppTurnStep, Connect, Started, CheckLatch, Honoured, Completed, Expired,
     StartTooLate, HonourTooLate, TurnExpires, OuterBound, history
<1>3. CASE (\E t \in Turn : CancelEnds(t) \/ ServerCompletes(t)) \/ Spawn \/ SpawnFails
           \/ CliExpires \/ CliExits \/ Drain \/ Release \/ Serve \/ ServerDies \/ UNCHANGED vars
  BY <1>3
     DEF CancelEnds, ServerCompletes, Spawn, SpawnFails, CliExpires, CliExits, Drain, Release,
     Serve, ServerDies, vars, history
<1> QED BY <1>1, <1>2, <1>3 DEF Next, OwnStep

\* The aim of a command is set once.
LEMMA AimKept ==
  ASSUME TypeOK, AimInv, [Next]_vars, NEW t \in Turn
  PROVE  /\ \A c \in Cmd : aim[c] = t => aim'[c] = t
         /\ Meant(t) => Meant(t)'
<1>0. HistoryTyped
  BY TypeParts
<1>1. \A c \in Cmd : aim[c] = t => aim'[c] = t
  <2> SUFFICES ASSUME NEW c \in Cmd, aim[c] = t PROVE aim'[c] = t
    OBVIOUS
  <2>1. handler[c] # "new"
    BY NoTurnAssumption DEF AimInv, AimOf
  <2> QED BY <1>0, <2>1, HistoryGrows DEF HistoryTyped
<1>2. overdue \subseteq overdue' /\ cut \subseteq cut'
  BY HistoryGrows
<1> QED BY <1>1, <1>2 DEF Meant

LEMMA AimOfStep ==
  ASSUME TypeOK, AimInv, [Next]_vars, NEW c \in Cmd
  PROVE  AimOf(c)'
<1>0. BotTyped /\ HistoryTyped /\ AimOf(c)
  BY TypeParts DEF AimInv
<1>k. kind' = kind
  BY DEF Next, NewUpdate, HandlerStep, AppTurnStep, PlainMessage, Reply, CmdForce, Stop, AskSteer,
     SteerAnswered, SteerTooLate, UnsteeredReply, UnsteeredForce, AskInterrupt, SignalDone,
     Acknowledge, TakeMessage, Connect, Started, CheckLatch, Honoured, Completed, Expired,
     StartTooLate, HonourTooLate, TurnExpires, OuterBound, CancelEnds, ServerCompletes, Spawn,
     SpawnFails, CliExpires, CliExits, Drain, Release, Serve, ServerDies, setting, vars
<1>1. ASSUME handler'[c] = handler[c], aim'[c] = aim[c] PROVE AimOf(c)'
  BY <1>0, <1>k, <1>1 DEF AimOf
<1>2. CASE ~OwnStep(c)
  <2>1. handler'[c] = handler[c]
    <3>1. CASE Serve \/ ServerDies
      BY <3>1 DEF Serve, ServerDies, bot
    <3> QED BY <1>2, <3>1, OthersLocal
  <2>2. ASSUME NEW d \in Cmd, handler[d] = "new", aim' = [aim EXCEPT ![d] = active]
        PROVE  aim'[c] = aim[c] \/ handler[c] = "new"
    BY <1>0, <2>2 DEF HistoryTyped
  <2>3. aim'[c] = aim[c]
    <3>1. ASSUME NEW d \in Cmd, OwnStep(d) PROVE aim'[c] = aim[c]
      <4>1. d # c
        BY <1>2, <3>1
      <4> QED BY <1>0, <3>1, <4>1 DEF OwnStep, NewUpdate, HandlerStep, PlainMessage, Reply,
         CmdForce, Stop, AskSteer, SteerAnswered, SteerTooLate, UnsteeredReply, UnsteeredForce, AskInterrupt,
         SignalDone, Acknowledge, TakeMessage, history, HistoryTyped
    <3>2. CASE AppTurnStep \/ StartTooLate \/ HonourTooLate \/ TurnExpires \/ OuterBound
      BY <3>2 DEF AppTurnStep, Connect, Started, CheckLatch, Honoured, Completed, Expired,
         StartTooLate, HonourTooLate, TurnExpires, OuterBound, history
    <3>3. CASE (\E t \in Turn : CancelEnds(t) \/ ServerCompletes(t)) \/ Spawn \/ SpawnFails
               \/ CliExpires \/ CliExits \/ Drain \/ Release \/ Serve \/ ServerDies
               \/ UNCHANGED vars
      BY <3>3 DEF CancelEnds, ServerCompletes, Spawn, SpawnFails, CliExpires, CliExits, Drain,
         Release, Serve, ServerDies, vars, history
    <3> QED BY <3>1, <3>2, <3>3 DEF Next, OwnStep
  <2> QED BY <1>1, <2>1, <2>3
<1>3. CASE CmdForce(c)
  <2>1. aim'[c] = active /\ handler'[c] # "new"
        /\ (active = NoTurn => handler'[c] = "done")
    BY <1>0, <1>3 DEF CmdForce, Goes, BotTyped, HistoryTyped
  <2> QED BY <2>1 DEF AimOf
<1>4. CASE Stop(c) \/ UnsteeredForce(c) \/ AskInterrupt(c) \/ SignalDone(c) \/ Acknowledge(c)
  <2>1. handler'[c] \notin {"new", "steer", "steering", "unsteered"}
    BY <1>0, <1>4
       DEF Stop, UnsteeredForce, AskInterrupt, SignalDone, Acknowledge, Goes, AfterLatch,
       AfterSignal, BotTyped
  <2> QED BY <2>1 DEF AimOf
<1>5. CASE PlainMessage(c) \/ Reply(c) \/ UnsteeredReply(c)
  <2>1. kind[c] # "force" /\ handler'[c] # "new"
    BY <1>0, <1>5 DEF PlainMessage, Reply, UnsteeredReply, TakeMessage, Goes, BotTyped
  <2> QED BY <1>k, <2>1 DEF AimOf
<1>6. CASE AskSteer(c) \/ SteerAnswered(c) \/ SteerTooLate(c)
  <2>1. aim' = aim /\ handler'[c] # "new" /\ handler[c] \in {"steer", "steering"}
    BY <1>0, <1>6 DEF AskSteer, SteerAnswered, SteerTooLate, Goes, BotTyped, history
  <2> QED BY <1>0, <1>k, <2>1 DEF AimOf
<1> QED BY <1>2, <1>3, <1>4, <1>5, <1>6 DEF OwnStep, NewUpdate, HandlerStep

LEMMA RequestsTyped ==
  ASSUME CallTyped
  PROVE  \A i \in DOMAIN wire :
           wire[i] \in Request /\ wire[i].turn \in Turn /\ wire[i].from \in Caller
           /\ wire[i].method \in Method
<1>1. \A i \in DOMAIN wire : wire[i] \in Request
  BY DEF CallTyped
<1> QED BY <1>1 DEF Request

LEMMA InterruptsAppended ==
  ASSUME CallTyped, InterruptsAreMeant,
         \A t \in Turn : Meant(t) => Meant(t)',
         NEW r \in Request, wire' = Append(wire, r),
         r.method = "turn/interrupt" => Meant(r.turn)'
  PROVE  InterruptsAreMeant'
<1>1. DOMAIN wire' = 1..Len(wire) + 1 /\ wire'[Len(wire) + 1] = r
      /\ \A i \in DOMAIN wire : wire'[i] = wire[i]
  BY QueueFacts DEF CallTyped
<1>2. DOMAIN wire = 1..Len(wire) /\ Len(wire) \in Nat
  BY QueueFacts DEF CallTyped
<1>3. \A i \in DOMAIN wire' : wire'[i].turn \in Turn
  BY <1>1, <1>2, RequestsTyped DEF Request
<1>4. ASSUME NEW i \in DOMAIN wire', NEW t \in Turn,
             wire'[i].method = "turn/interrupt", wire'[i].turn = t
      PROVE  Meant(t)'
  <2>1. i \in DOMAIN wire \/ i = Len(wire) + 1
    BY <1>1, <1>2
  <2>2. CASE i = Len(wire) + 1
    <3>1. r.method = "turn/interrupt" /\ r.turn = t
      BY <1>1, <1>4, <2>2
    <3> QED BY <3>1
  <2>3. CASE i \in DOMAIN wire
    <3>1. wire'[i] = wire[i]
      BY <1>1, <2>3
    <3>2. Meant(t)
      BY <1>4, <2>3, <3>1 DEF InterruptsAreMeant
    <3> QED BY <3>2
  <2> QED BY <2>1, <2>2, <2>3
<1> QED BY <1>3, <1>4 DEF InterruptsAreMeant, Meant

LEMMA InterruptsServed ==
  ASSUME CallTyped, InterruptsAreMeant,
         \A t \in Turn : Meant(t) => Meant(t)',
         wire # <<>>, wire' = Tail(wire)
  PROVE  InterruptsAreMeant'
<1>1. \A i \in DOMAIN wire' : i + 1 \in DOMAIN wire /\ wire'[i] = wire[i + 1]
  BY HeadFacts, QueueFacts DEF CallTyped
<1>2. \A i \in DOMAIN wire' : wire'[i].turn \in Turn
  BY <1>1, RequestsTyped
<1>3. ASSUME NEW i \in DOMAIN wire', NEW t \in Turn,
             wire'[i].method = "turn/interrupt", wire'[i].turn = t
      PROVE  Meant(t)'
  <2>1. Meant(t)
    BY <1>1, <1>3 DEF InterruptsAreMeant
  <2> QED BY <2>1
<1> QED BY <1>2, <1>3 DEF InterruptsAreMeant, Meant

LEMMA AskedIsMeant ==
  ASSUME CallTyped, InterruptsAreMeant, \A t \in Turn : Meant(t) => Meant(t)',
         NEW x0 \in Caller, NEW m \in Method, NEW t \in Turn, Sends(x0, m, t),
         m = "turn/interrupt" => Meant(t)'
  PROVE  InterruptsAreMeant'
<1> DEFINE r == [from |-> x0, method |-> m, turn |-> t]
<1>1. r \in Request /\ wire' = Append(wire, r) /\ r.method = m /\ r.turn = t
  BY DEF Request, Sends
<1>2. r.method = "turn/interrupt" => Meant(t)'
  BY <1>1
<1> HIDE DEF r
<1>3. PICK q \in Request : q = r
  BY <1>1
<1>4. q.method = "turn/interrupt" => Meant(q.turn)'
  <2>1. q.turn = t
    BY <1>1, <1>3
  <2> QED BY <1>2, <1>3, <2>1
<1> QED BY <1>1, <1>3, <1>4, InterruptsAppended

LEMMA InterruptsStep ==
  ASSUME TypeOK, WireInv, AimInv, [Next]_vars, missed' = {}
  PROVE  InterruptsAreMeant'
<1>0. BotTyped /\ CallTyped /\ HistoryTyped /\ StageAgrees /\ EntryAgrees
  BY TypeParts
<1>a. missed = {}
  BY HistoryGrows
<1>b. InterruptsAreMeant /\ LatchIsMeant
  BY <1>a DEF AimInv
<1>c. \A t \in Turn : Meant(t) => Meant(t)'
  BY AimKept
<1>d. \A i \in DOMAIN wire : wire[i].turn \in Turn
  BY <1>0, RequestsTyped
<1>1. CASE UNCHANGED wire
  <2>1. ASSUME NEW i \in DOMAIN wire, NEW t \in Turn,
               wire[i].method = "turn/interrupt", wire[i].turn = t
        PROVE  Meant(t)'
    <3>1. Meant(t)
      BY <1>b, <2>1 DEF InterruptsAreMeant
    <3> QED BY <1>c, <3>1
  <2> QED BY <1>1, <1>d, <2>1 DEF InterruptsAreMeant, Meant
<1>2. ASSUME NEW c \in Cmd, AskSteer(c) PROVE InterruptsAreMeant'
  <2>1. CASE registered # NoTurn
    <3>1. registered \in Turn /\ Sends(c, "turn/steer", registered) /\ c \in Caller
      BY <1>0, <1>2, <2>1, CallerFacts DEF AskSteer, EntryAgrees
    <3>2. PICK t \in Turn : t = registered
      BY <3>1
    <3> QED BY <1>0, <1>b, <1>c, <3>1, <3>2, AskedIsMeant DEF Method
  <2> QED BY <1>1, <1>2, <2>1 DEF AskSteer
<1>3. ASSUME NEW c \in Cmd, AskInterrupt(c) PROVE InterruptsAreMeant'
  <2>1. CASE registered # NoTurn
    <3>1. registered \in Turn /\ Sends(c, "turn/interrupt", registered) /\ c \in Caller
      BY <1>0, <1>3, <2>1, CallerFacts DEF AskInterrupt, EntryAgrees
    <3>2. PICK t \in Turn : t = registered
      BY <3>1
    <3>3. t \in {NoTurn, aim[c]} \cup cut
      BY <1>3, <3>2 DEF AskInterrupt
    <3>4. Meant(t)
      BY <3>3, NoTurnAssumption DEF Meant
    <3>5. Meant(t)'
      BY <1>c, <3>4
    <3> QED BY <1>0, <1>b, <1>c, <3>1, <3>2, <3>5, AskedIsMeant DEF Method
  <2> QED BY <1>1, <1>3, <2>1 DEF AskInterrupt
<1>4. CASE Connect
  <2>1. CASE UNCHANGED wire
    BY <1>1, <2>1
  <2>2. CASE Sends(active, "turn/start", active)
    <3>1. PICK t \in Turn : t = active
      BY <1>0, <1>4 DEF Connect, StageAgrees, BotTyped
    <3> QED BY <1>0, <1>b, <1>c, <2>2, <3>1, CallerFacts, AskedIsMeant DEF Method
  <2> QED BY <1>4, <2>1, <2>2 DEF Connect
<1>5. CASE CheckLatch
  <2>1. CASE latch
    <3>1. PICK t \in Turn : t = active
      BY <1>0, <1>5 DEF CheckLatch, StageAgrees, BotTyped
    <3>2. Sends(t, "turn/interrupt", t)
      BY <1>5, <2>1, <3>1 DEF CheckLatch, SeesLatch
    <3>3. Meant(t)'
      BY <1>b, <1>c, <2>1, <3>1 DEF LatchIsMeant, Meant
    <3> QED BY <1>0, <1>b, <1>c, <3>2, <3>3, CallerFacts, AskedIsMeant DEF Method
  <2> QED BY <1>1, <1>5, <2>1 DEF CheckLatch, SeesLatch
<1>6. CASE TurnExpires
  <2>1. PICK t \in Turn : t = active
    BY <1>0, <1>6 DEF TurnExpires, StageAgrees, BotTyped
  <2>2. Sends(t, "turn/interrupt", t) /\ t \in overdue'
    BY <1>6, <2>1 DEF TurnExpires, Expiry
  <2>3. Meant(t)'
    BY <2>2 DEF Meant
  <2> QED BY <1>0, <1>b, <1>c, <2>2, <2>3, CallerFacts, AskedIsMeant DEF Method
<1>7. CASE OuterBound
  <2>1. PICK t \in Turn : t = active
    BY <1>0, <1>7 DEF OuterBound, StageAgrees, BotTyped
  <2>2. CASE stage \in {"connecting", "starting"}
    BY <1>1, <1>7, <2>2 DEF OuterBound
  <2>3. CASE stage \notin {"connecting", "starting"}
    <3>1. Meant(t)'
      BY <1>7, <2>1 DEF OuterBound, Meant
    <3>2. [from |-> Cancelled(t), method |-> "turn/interrupt", turn |-> t] \in Request
      BY CallerFacts DEF Request, Method
    <3>3. PICK r \in Request : r = [from |-> Cancelled(t), method |-> "turn/interrupt", turn |-> t]
      BY <3>2
    <3>4. wire' = Append(wire, r)
      BY <1>7, <2>1, <2>3, <3>3 DEF OuterBound
    <3>5. Meant(r.turn)'
      <4>1. r.turn = t
        BY <3>3
      <4> QED BY <3>1, <4>1
    <3> QED BY <1>0, <1>b, <1>c, <3>4, <3>5, InterruptsAppended
  <2> QED BY <2>2, <2>3
<1>8. CASE Serve
  BY <1>0, <1>8, <1>b, <1>c, InterruptsServed DEF Serve
<1>9. CASE ServerDies
  BY <1>9 DEF ServerDies, InterruptsAreMeant
<1> QED BY <1>1, <1>2, <1>3, <1>4, <1>5, <1>6, <1>7, <1>8, <1>9, WhoWrites

\* The steps that set the latch or change the active turn, and those that interrupt.
LEMMA WhoLatches ==
  ASSUME [Next]_vars
  PROVE  \/ UNCHANGED <<latch, active>>
         \/ \E c \in Cmd : Stop(c) \/ UnsteeredForce(c) \/ TakeMessage(c)
         \/ Drain \/ Release
<1>1. ASSUME NEW c \in Cmd, OwnStep(c)
      PROVE  UNCHANGED <<latch, active>> \/ Stop(c) \/ UnsteeredForce(c) \/ TakeMessage(c)
  BY <1>1
     DEF OwnStep, NewUpdate, HandlerStep, PlainMessage, Reply, CmdForce, AskSteer,
         SteerAnswered,
     SteerTooLate, UnsteeredReply, AskInterrupt, SignalDone, Acknowledge, turn
<1>2. CASE AppTurnStep \/ StartTooLate \/ HonourTooLate \/ TurnExpires \/ OuterBound
  BY <1>2 DEF AppTurnStep, Connect, Started, CheckLatch, Honoured, Completed, Expired,
     StartTooLate, HonourTooLate, TurnExpires, OuterBound, bot
<1>3. CASE (\E t \in Turn : CancelEnds(t) \/ ServerCompletes(t)) \/ Spawn \/ SpawnFails
           \/ CliExpires \/ CliExits \/ Serve \/ ServerDies \/ UNCHANGED vars
  BY <1>3 DEF CancelEnds, ServerCompletes, Spawn, SpawnFails, CliExpires, CliExits, Serve,
     ServerDies, vars, bot, turn
<1> QED BY <1>1, <1>2, <1>3 DEF Next, OwnStep

LEMMA WhoStrikes ==
  ASSUME [Next]_vars
  PROVE  UNCHANGED struck \/ Spawn \/ Serve \/ \E c \in Cmd : Stop(c) \/ UnsteeredForce(c)
<1>1. ASSUME NEW c \in Cmd, OwnStep(c)
      PROVE  UNCHANGED struck \/ Stop(c) \/ UnsteeredForce(c)
  BY <1>1
     DEF OwnStep, NewUpdate, HandlerStep, PlainMessage, Reply, CmdForce, AskSteer,
         SteerAnswered,
     SteerTooLate, UnsteeredReply, AskInterrupt, SignalDone, Acknowledge, TakeMessage, history
<1>2. CASE AppTurnStep \/ StartTooLate \/ HonourTooLate \/ TurnExpires \/ OuterBound
  BY <1>2 DEF AppTurnStep, Connect, Started, CheckLatch, Honoured, Completed, Expired,
     StartTooLate, HonourTooLate, TurnExpires, OuterBound, history
<1>3. CASE (\E t \in Turn : CancelEnds(t) \/ ServerCompletes(t)) \/ SpawnFails
           \/ CliExpires \/ CliExits \/ Drain \/ Release \/ ServerDies \/ UNCHANGED vars
  BY <1>3 DEF CancelEnds, ServerCompletes, SpawnFails, CliExpires, CliExits, Drain, Release,
     ServerDies, vars, history
<1> QED BY <1>1, <1>2, <1>3 DEF Next, OwnStep

\* Who stops the active turn, or corrects it when its command did not miss, means it.
LEMMA StopsWhatItMeant ==
  ASSUME TypeOK, AimInv, NEW c \in Cmd, Stop(c) \/ UnsteeredForce(c), missed = {}, missed' = {},
         active # NoTurn \/ latch'
  PROVE  \/ active # NoTurn /\ active' = active /\ aim'[c] = active
         \/ UNCHANGED <<latch, active, struck>>
<1>0. HistoryTyped /\ AimOf(c)
  BY TypeParts DEF AimInv
<1>1. CASE Stop(c)
  BY <1>0, <1>1 DEF Stop, HistoryTyped
<1>2. CASE UnsteeredForce(c)
  <2>1. active = aim[c] /\ aim' = aim /\ active' = active
    BY <1>2 DEF UnsteeredForce
  <2>2. aim[c] # NoTurn
    BY <1>0, <1>2 DEF UnsteeredForce, AimOf
  <2> QED BY <2>1, <2>2
<1> QED BY <1>1, <1>2

LEMMA LatchStep ==
  ASSUME TypeOK, AimInv, [Next]_vars, missed' = {}
  PROVE  LatchIsMeant'
<1>0. BotTyped /\ StageAgrees
  BY TypeParts
<1>a. missed = {}
  BY HistoryGrows
<1>b. LatchIsMeant
  BY <1>a DEF AimInv
<1>1. CASE UNCHANGED <<latch, active>>
  <2>1. CASE active = NoTurn
    BY <1>1, <1>b, <2>1 DEF LatchIsMeant
  <2>2. CASE active # NoTurn
    <3>1. PICK t \in Turn : t = active
      BY <1>0, <2>2 DEF BotTyped
    <3>2. \A c \in Cmd : aim[c] = t => aim'[c] = t
      BY AimKept
    <3> QED BY <1>1, <1>b, <3>1, <3>2 DEF LatchIsMeant
  <2> QED BY <2>1, <2>2
<1>2. ASSUME NEW c \in Cmd, Stop(c) \/ UnsteeredForce(c) PROVE LatchIsMeant'
  <2>1. CASE latch' \/ active # NoTurn
    <3>1. \/ active # NoTurn /\ active' = active /\ aim'[c] = active
          \/ UNCHANGED <<latch, active>>
      BY <1>2, <1>a, <2>1, StopsWhatItMeant
    <3> QED BY <1>1, <3>1 DEF LatchIsMeant
  <2>2. CASE ~latch'
    BY <2>2 DEF LatchIsMeant
  <2> QED BY <2>1, <2>2
<1>3. ASSUME NEW c \in Cmd, TakeMessage(c) PROVE LatchIsMeant'
  <2>1. CASE active = NoTurn
    BY <1>3, <1>b, <2>1 DEF TakeMessage, LatchIsMeant
  <2>2. CASE active # NoTurn
    BY <1>1, <1>3, <2>2 DEF TakeMessage
  <2> QED BY <2>1, <2>2
<1>4. CASE Drain
  <2>1. CASE active = NoTurn
    BY <1>4, <1>b, <2>1 DEF Drain, LatchIsMeant
  <2>2. CASE active # NoTurn
    BY <1>1, <1>4, <2>2 DEF Drain
  <2> QED BY <2>1, <2>2
<1>5. CASE Release
  BY <1>5 DEF Release, LatchAfter, LatchIsMeant
<1> QED BY <1>1, <1>2, <1>3, <1>4, <1>5, WhoLatches

LEMMA StruckStep ==
  ASSUME TypeOK, AimInv, [Next]_vars, missed' = {}, NEW t \in struck'
  PROVE  Meant(t)'
<1>0. BotTyped /\ CallTyped /\ HistoryTyped /\ StageAgrees
  BY TypeParts
<1>a. missed = {}
  BY HistoryGrows
<1>b. LatchIsMeant /\ InterruptsAreMeant /\ \A u \in struck : Meant(u)
  BY <1>a DEF AimInv
<1>1. CASE t \in struck
  <2>1. t \in Turn /\ Meant(t)
    BY <1>0, <1>1, <1>b DEF HistoryTyped
  <2> QED BY <2>1, AimKept
<1>2. CASE Spawn /\ t \notin struck
  <2>1. t = active /\ latch
    BY <1>2 DEF Spawn, Tracked
  <2>2. Meant(t) /\ t \in Turn
    BY <1>0, <1>b, <2>1 DEF LatchIsMeant, Meant, BotTyped
  <2> QED BY <2>2, AimKept
<1>3. CASE Serve /\ t \notin struck
  <2>1. 1 \in DOMAIN wire /\ Head(wire) = wire[1]
    BY <1>0, <1>3, HeadFacts, QueueFacts DEF Serve, CallTyped
  <2>2. wire[1].method = "turn/interrupt" /\ t = wire[1].turn
    BY <1>3, <2>1 DEF Serve
  <2>3. Meant(t) /\ t \in Turn
    BY <1>0, <1>b, <2>1, <2>2, RequestsTyped DEF InterruptsAreMeant
  <2> QED BY <2>3, AimKept
<1>4. ASSUME NEW c \in Cmd, Stop(c) \/ UnsteeredForce(c), t \notin struck PROVE Meant(t)'
  <2>1. t = active /\ active # NoTurn
    BY <1>0, <1>4 DEF Stop, UnsteeredForce, RequestInterrupt, StageAgrees
  <2>2. aim'[c] = t
    BY <1>4, <1>a, <2>1, StopsWhatItMeant
  <2> QED BY <2>2 DEF Meant
<1> QED BY <1>1, <1>2, <1>3, <1>4, WhoStrikes

LEMMA AimStep ==
  ASSUME TypeOK, WireInv, AimInv, [Next]_vars
  PROVE  AimInv'
<1>1. ASSUME NEW c \in Cmd PROVE AimOf(c)'
  BY AimOfStep
<1>2. ASSUME missed' = {} PROVE (LatchIsMeant /\ InterruptsAreMeant)'
  BY <1>2, LatchStep, InterruptsStep
<1>3. ASSUME missed' = {}, NEW t \in struck' PROVE Meant(t)'
  BY <1>3, StruckStep
<1> QED BY <1>1, <1>2, <1>3 DEF AimInv

\* A turn is interrupted because a command was sent while it ran, because it exceeded
\* a bound, or by a command whose own turn was over when it acted: the latch of one
\* turn never reaches the next (telegram_bot.py:679, 721, process_control.py:56).
THEOREM InterruptsHitTheirTurn == Spec => []InterruptIsAimed
<1> DEFINE Inv == TypeOK /\ WireInv /\ AimInv
<1>1. Init => Inv
  <2> SUFFICES ASSUME Init PROVE Inv
    OBVIOUS
  <2>1. TypeOK /\ WireInv
    BY InitTyped DEF Init, WireInv
  <2>2. \A c \in Cmd : AimOf(c)
    BY DEF Init, AimOf
  <2>3. LatchIsMeant /\ InterruptsAreMeant /\ \A t \in struck : Meant(t)
    BY DEF Init, LatchIsMeant, InterruptsAreMeant
  <2> QED BY <2>1, <2>2, <2>3 DEF AimInv
<1>2. Inv /\ [Next]_vars => Inv'
  BY TypeStep, WireStep, AimStep
<1>3. Inv => InterruptIsAimed
  BY DEF AimInv, InterruptIsAimed, Meant
<1> QED BY <1>1, <1>2, <1>3, PTL DEF Spec

-----------------------------------------------------------------------------
(* A turn begins once *)

QueuedOnce == \A i, j \in DOMAIN queue : queue[i] = queue[j] => i = j

\* The recovery of a turn waits only when that turn is over.
RecoveryOf(c) ==
  Waiting(<<c, "recovery">>) \/ <<c, "recovery">> \in begun =>
    OwnTurn(c) \in begun /\ active # OwnTurn(c)

\* Nothing that waits has begun.
BegunInv ==
  /\ QueuedOnce
  /\ \A t \in begun : ~Waiting(t)
  /\ active # NoTurn => active \in begun
  /\ \A c \in Cmd : RecoveryOf(c)

LEMMA QueuedOnceEnds ==
  ASSUME BotTyped, QueuedOnce, NEW u \in Turn
  PROVE  /\ queue' = Append(queue, u) /\ ~Waiting(u) => QueuedOnce'
         /\ queue' = <<u>> \o queue /\ ~Waiting(u) => QueuedOnce'
         /\ queue # <<>> /\ queue' = Tail(queue) =>
              QueuedOnce' /\ \A i \in DOMAIN queue' : queue'[i] # Head(queue)
<1>0. queue \in Seq(Turn) /\ DOMAIN queue = 1..Len(queue) /\ Len(queue) \in Nat
  BY QueueFacts DEF BotTyped
<1>1. ASSUME queue' = Append(queue, u), ~Waiting(u) PROVE QueuedOnce'
  <2>1. DOMAIN queue' = 1..Len(queue) + 1 /\ queue'[Len(queue) + 1] = u
        /\ \A i \in DOMAIN queue : queue'[i] = queue[i]
    BY <1>0, <1>1, QueueFacts
  <2>2. \A i \in DOMAIN queue' : i = Len(queue) + 1
                                 \/ (i \in DOMAIN queue /\ queue'[i] = queue[i] /\ queue[i] # u)
    <3> TAKE i \in DOMAIN queue'
    <3>1. i = Len(queue) + 1 \/ i \in DOMAIN queue
      BY <1>0, <2>1
    <3> QED BY <1>1, <2>1, <3>1 DEF Waiting
  <2> QED BY <2>1, <2>2 DEF QueuedOnce
<1>2. ASSUME queue' = <<u>> \o queue, ~Waiting(u) PROVE QueuedOnce'
  <2>1. DOMAIN queue' = 1..Len(queue) + 1 /\ queue'[1] = u
        /\ \A i \in DOMAIN queue : queue'[i + 1] = queue[i]
    BY <1>0, <1>2, QueueFacts
  <2>2. \A i \in DOMAIN queue' :
          i \in Nat /\ (i = 1 \/ (i - 1 \in DOMAIN queue /\ queue'[i] = queue[i - 1]))
    <3> TAKE i \in DOMAIN queue'
    <3>1. CASE i # 1
      <4>1. i \in Nat /\ i - 1 \in DOMAIN queue /\ (i - 1) + 1 = i
        BY <1>0, <2>1, <3>1
      <4> QED BY <2>1, <4>1
    <3> QED BY <2>1, <3>1
  <2>3. \A i \in DOMAIN queue' : i # 1 => queue'[i] # u
    BY <1>2, <2>2 DEF Waiting
  <2>4. ASSUME NEW i \in DOMAIN queue', NEW k \in DOMAIN queue', queue'[i] = queue'[k] PROVE i = k
    <3>1. CASE i = 1 \/ k = 1
      BY <2>1, <2>3, <2>4, <3>1
    <3>2. CASE i # 1 /\ k # 1
      <4>1. i - 1 \in DOMAIN queue /\ k - 1 \in DOMAIN queue /\ queue[i - 1] = queue[k - 1]
        BY <2>2, <2>4, <3>2
      <4>2. i - 1 = k - 1
        BY <4>1 DEF QueuedOnce
      <4>3. i \in Nat /\ k \in Nat
        BY <2>2
      <4> QED BY <4>2, <4>3
    <3> QED BY <3>1, <3>2
  <2> QED BY <2>4 DEF QueuedOnce
<1>3. ASSUME queue # <<>>, queue' = Tail(queue)
      PROVE  QueuedOnce' /\ \A i \in DOMAIN queue' : queue'[i] # Head(queue)
  <2>1. \A i \in DOMAIN queue' : i + 1 \in DOMAIN queue /\ queue'[i] = queue[i + 1]
    BY <1>0, <1>3, HeadFacts, QueueFacts
  <2>2. \A i \in DOMAIN queue' : i \in Nat /\ i # 0
    <3>1. queue' \in Seq(Turn)
      BY <1>0, <1>3, HeadFacts
    <3> QED BY <3>1
  <2>3. 1 \in DOMAIN queue /\ Head(queue) = queue[1]
    BY <1>0, <1>3, HeadFacts
  <2>4. ASSUME NEW i \in DOMAIN queue', NEW k \in DOMAIN queue', queue'[i] = queue'[k] PROVE i = k
    <3>1. i + 1 = k + 1
      BY <2>1, <2>4 DEF QueuedOnce
    <3> QED BY <2>2, <3>1
  <2>5. ASSUME NEW i \in DOMAIN queue', queue'[i] = Head(queue) PROVE FALSE
    <3>1. i + 1 = 1
      BY <2>1, <2>3, <2>5 DEF QueuedOnce
    <3> QED BY <2>2, <3>1
  <2> QED BY <2>4, <2>5 DEF QueuedOnce
<1> QED BY <1>1, <1>2, <1>3

\* The steps that change the queue or begin a turn.
LEMMA WhoQueues ==
  ASSUME [Next]_vars
  PROVE  \/ UNCHANGED <<queue, begun, active>>
         \/ \E c \in Cmd : handler[c] \in Undecided /\ (TakeMessage(c) \/ UnsteeredForce(c))
         \/ Drain \/ Release
<1>1. ASSUME NEW c \in Cmd, OwnStep(c)
      PROVE  UNCHANGED <<queue, begun, active>>
             \/ (handler[c] \in Undecided /\ (TakeMessage(c) \/ UnsteeredForce(c)))
  <2>1. CASE PlainMessage(c) \/ Reply(c) \/ UnsteeredReply(c) \/ UnsteeredForce(c)
    BY <2>1 DEF PlainMessage, Reply, UnsteeredReply, UnsteeredForce, Undecided, history
  <2>2. CASE CmdForce(c) \/ Stop(c) \/ AskInterrupt(c) \/ SteerTooLate(c)
    BY <2>2 DEF CmdForce, Stop, AskInterrupt, SteerTooLate
  <2>3. CASE AskSteer(c) \/ SteerAnswered(c) \/ SignalDone(c) \/ Acknowledge(c)
    BY <2>3 DEF AskSteer, SteerAnswered, SignalDone, Acknowledge, history
  <2> QED BY <1>1, <2>1, <2>2, <2>3 DEF OwnStep, NewUpdate, HandlerStep
<1>2. CASE AppTurnStep \/ StartTooLate \/ HonourTooLate \/ TurnExpires \/ OuterBound
  BY <1>2 DEF AppTurnStep, Connect, Started, CheckLatch, Honoured, Completed, Expired,
     StartTooLate, HonourTooLate, TurnExpires, OuterBound, bot, history
<1>3. CASE (\E t \in Turn : CancelEnds(t) \/ ServerCompletes(t)) \/ Spawn \/ SpawnFails
           \/ CliExpires \/ CliExits \/ Serve \/ ServerDies \/ UNCHANGED vars
  BY <1>3 DEF CancelEnds, ServerCompletes, Spawn, SpawnFails, CliExpires, CliExits, Serve,
     ServerDies, vars, bot, history
<1> QED BY <1>1, <1>2, <1>3 DEF Next, OwnStep

\* A turn that is put at the active place has not been there.
BeginsFresh(t) == t \in Turn \ begun /\ begun' = begun \cup {t} /\ active' = t /\ ~Waiting(t)'

LEMMA BeginStep ==
  ASSUME TypeOK, BegunInv, NEW t \in Turn, BeginsFresh(t), QueuedOnce',
         \A u \in Turn : Waiting(u)' => Waiting(u),
         \A c \in Cmd : t = <<c, "recovery">> => Waiting(t)
  PROVE  BegunInv'
<1>0. HistoryTyped
  BY TypeParts
<1>1. \A u \in begun' : ~Waiting(u)'
  BY <1>0 DEF BegunInv, BeginsFresh, HistoryTyped
<1>2. active' # NoTurn => active' \in begun'
  BY DEF BeginsFresh
<1>3. ASSUME NEW c \in Cmd PROVE RecoveryOf(c)'
  <2>1. PICK u \in Turn : u = <<c, "recovery">>
    BY CallerFacts
  <2>2. PICK w \in Turn : w = OwnTurn(c)
    BY CallerFacts
  <2>3. ASSUME Waiting(u)' \/ u \in begun' PROVE w \in begun
    <3>1. Waiting(u) \/ u \in begun
      BY <2>1, <2>3 DEF BeginsFresh
    <3> QED BY <2>1, <2>2, <3>1 DEF BegunInv, RecoveryOf
  <2> QED BY <2>1, <2>2, <2>3 DEF BeginsFresh, RecoveryOf
<1> QED BY <1>1, <1>2, <1>3 DEF BegunInv

LEMMA BegunStep ==
  ASSUME TypeOK, TakenInv, BegunInv, [Next]_vars
  PROVE  BegunInv'
<1>0. BotTyped /\ HistoryTyped /\ StageAgrees
  BY TypeParts
<1>1. CASE UNCHANGED <<queue, begun, active>>
  BY <1>1 DEF BegunInv, QueuedOnce, Waiting, RecoveryOf
<1>2. ASSUME NEW c \in Cmd, handler[c] \in Undecided, TakeMessage(c) \/ UnsteeredForce(c)
      PROVE  BegunInv'
  <2>1. PICK t \in Turn : t = OwnTurn(c)
    BY CallerFacts
  <2>2. ~Waiting(t) /\ t \notin begun
    BY <1>2, <2>1 DEF TakenInv, Untaken
  <2>3. \A d \in Cmd : t # <<d, "recovery">>
    BY <2>1, CallerFacts
  <2>4. CASE queue' = queue /\ begun' = begun \cup {t} /\ active' = t
    <3>1. BeginsFresh(t) /\ QueuedOnce' /\ \A u \in Turn : Waiting(u)' => Waiting(u)
      BY <2>2, <2>4 DEF BeginsFresh, Waiting, BegunInv, QueuedOnce
    <3> QED BY <2>3, <3>1, BeginStep
  <2>5. CASE (queue' = Append(queue, t) \/ queue' = <<t>> \o queue) /\ UNCHANGED <<begun, active>>
    <3>1. QueuedOnce'
      BY <1>0, <2>2, <2>5, QueuedOnceEnds DEF BegunInv
    <3>2. \A u \in Turn : Waiting(u)' => Waiting(u) \/ u = t
      BY <1>0, <2>5, QueueEnds
    <3>3. \A u \in begun' : ~Waiting(u)'
      BY <1>0, <2>2, <2>5, <3>2 DEF BegunInv, HistoryTyped
    <3>4. ASSUME NEW d \in Cmd PROVE RecoveryOf(d)'
      <4>1. PICK u \in Turn : u = <<d, "recovery">>
        BY CallerFacts
      <4>2. PICK w \in Turn : w = OwnTurn(d)
        BY CallerFacts
      <4>3. Waiting(u)' \/ u \in begun' => Waiting(u) \/ u \in begun
        BY <2>3, <2>5, <3>2, <4>1
      <4>4. Waiting(u) \/ u \in begun => w \in begun /\ active # w
        BY <4>1, <4>2 DEF BegunInv, RecoveryOf
      <4> QED BY <2>5, <4>1, <4>2, <4>3, <4>4 DEF RecoveryOf
    <3> QED BY <2>5, <3>1, <3>3, <3>4 DEF BegunInv
  <2>6. CASE TakeMessage(c)
    BY <2>1, <2>4, <2>5, <2>6 DEF TakeMessage, Begin
  <2>7. CASE UnsteeredForce(c)
    BY <2>1, <2>5, <2>7 DEF UnsteeredForce
  <2> QED BY <1>2, <2>6, <2>7
<1>3. CASE Drain
  <2>1. CASE active = NoTurn /\ queue # <<>>
    <3>1. PICK t \in Turn : t = Head(queue)
      BY <1>0, <2>1, HeadFacts DEF BotTyped
    <3>2. queue' = Tail(queue) /\ begun' = begun \cup {t} /\ active' = t
      BY <1>3, <2>1, <3>1 DEF Drain, Begin
    <3>3. Waiting(t) /\ t \notin begun
      BY <1>0, <2>1, <3>1, QueueEnds DEF BegunInv
    <3>4. QueuedOnce' /\ \A i \in DOMAIN queue' : queue'[i] # t
      BY <1>0, <2>1, <3>1, <3>2, QueuedOnceEnds DEF BegunInv
    <3>5. ~Waiting(t)'
      BY <3>4 DEF Waiting
    <3>6. \A u \in Turn : Waiting(u)' => Waiting(u)
      BY <1>0, <2>1, <3>2, QueueEnds
    <3> QED BY <3>2, <3>3, <3>4, <3>5, <3>6, BeginStep DEF BeginsFresh
  <2> QED BY <1>1, <1>3, <2>1 DEF Drain
<1>4. CASE Release
  <2>1. active \in Turn /\ active[1] \in Cmd
    BY <1>0, <1>4, CallerFacts DEF Release, StageAgrees, BotTyped
  <2>2. active' = NoTurn /\ begun' = begun
    BY <1>4 DEF Release, history
  <2>3. CASE ~Recovers(active)
    <3>1. queue' = queue
      BY <1>4, <2>3 DEF Release
    <3>2. ASSUME NEW d \in Cmd PROVE RecoveryOf(d)'
      <4>1. OwnTurn(d) # NoTurn
        BY CallerFacts, NoTurnAssumption
      <4>2. RecoveryOf(d)
        BY DEF BegunInv
      <4> QED BY <2>2, <3>1, <4>1, <4>2 DEF RecoveryOf, Waiting
    <3> QED BY <2>2, <3>1, <3>2 DEF BegunInv, QueuedOnce, Waiting
  <2>4. CASE Recovers(active)
    <3>1. PICK c \in Cmd : c = active[1]
      BY <2>1
    <3>2. active = OwnTurn(c)
      BY <2>1, <2>4, <3>1 DEF Recovers, Turn, OwnTurn
    <3>3. PICK t \in Turn : t = <<c, "recovery">>
      BY CallerFacts
    <3>4. queue' = <<t>> \o queue
      BY <1>4, <2>4, <3>1, <3>3 DEF Release
    <3>5. ~Waiting(t) /\ t \notin begun
      BY <3>2, <3>3 DEF BegunInv, RecoveryOf
    <3>6. QueuedOnce'
      BY <1>0, <3>4, <3>5, QueuedOnceEnds DEF BegunInv
    <3>7. \A u \in Turn : Waiting(u)' => Waiting(u) \/ u = t
      BY <1>0, <3>4, QueueEnds
    <3>8. \A u \in begun' : ~Waiting(u)'
      BY <1>0, <2>2, <3>5, <3>7 DEF BegunInv, HistoryTyped
    <3>9. ASSUME NEW d \in Cmd PROVE RecoveryOf(d)'
      <4>1. PICK u \in Turn : u = <<d, "recovery">>
        BY CallerFacts
      <4>2. PICK w \in Turn : w = OwnTurn(d) /\ w # NoTurn
        <5>1. OwnTurn(d) \in Turn
          BY CallerFacts
        <5>2. OwnTurn(d) # NoTurn
          BY <5>1, NoTurnAssumption
        <5> QED BY <5>1, <5>2
      <4>3. u = t => w = active
        BY <3>2, <3>3, <4>1, <4>2
      <4>4. Waiting(u) \/ u \in begun => w \in begun
        BY <4>1, <4>2 DEF BegunInv, RecoveryOf
      <4>5. active \in begun
        BY <2>1, NoTurnAssumption DEF BegunInv
      <4>6. Waiting(u)' \/ u \in begun' => w \in begun'
        BY <2>2, <3>7, <4>3, <4>4, <4>5
      <4> QED BY <2>2, <4>1, <4>2, <4>6 DEF RecoveryOf
    <3> QED BY <2>2, <3>6, <3>8, <3>9 DEF BegunInv
  <2> QED BY <2>3, <2>4
<1> QED BY <1>1, <1>2, <1>3, <1>4, WhoQueues

-----------------------------------------------------------------------------
(* One turn on the server *)

IsStart(r, t) == r.method = "turn/start" /\ r.turn = t
IsInterrupt(r, t) == r.method = "turn/interrupt" /\ r.turn = t

\* The turn that Relay has at the server.
Current(t) ==
  active = t /\ stage \in {"starting", "checking", "honouring", "watching", "expiring"}

InterruptSent(t) == \E i \in DOMAIN wire : IsInterrupt(wire[i], t)

InterruptAhead(t, j) == \E i \in DOMAIN wire : i < j /\ IsInterrupt(wire[i], t)

\* Somebody waits for the answer to a turn/start.
Asked(t) == active = t /\ stage = "starting" /\ call[t] = "turn/start"

\* A start on the wire is that of the current turn, unless it came too late, and
\* the interrupts of all other turns are ahead of it.
StartAt(t, j) ==
  /\ \A i \in DOMAIN wire : IsStart(wire[i], t) => i = j
  /\ t \in begun
  /\ t \notin orphaned =>
       /\ Asked(t) /\ server[t] = "none"
       /\ \A u \in Turn \ orphaned : server[u] = "running" => InterruptAhead(u, j)

StartInv == \A t \in Turn, j \in DOMAIN wire : IsStart(wire[j], t) => StartAt(t, j)

\* What runs is the current turn or will be interrupted.
RunningInv ==
  \A t \in Turn \ orphaned : server[t] = "running" => Current(t) \/ InterruptSent(t)

ServerInv == StartInv /\ RunningInv /\ OneTurnOnServer

\* Before it is started a turn is not at the server.
FreshInv ==
  /\ orphaned \subseteq begun /\ (active \in orphaned => stage = "ended")
  /\ \A t \in Turn \ begun : server[t] = "none"
  /\ \A t \in Turn : active = t /\ stage \in {"connecting", "spawning", "tracked"}
                       => server[t] = "none"

\* The coroutine of the turn waits for the answer to its interrupt.
Interrupting(t) ==
  call[t] = "turn/interrupt"
    /\ \E i \in DOMAIN wire : IsInterrupt(wire[i], t) /\ wire[i].from = t

\* When the coroutine of a turn has interrupted it, it is over at the server or the
\* interrupt is on its way; when it was refused it does not run there.
OverAt(t) ==
  /\ stage = "starting" /\ call[t] = "error" => server[t] # "running"
  /\ stage \in {"honouring", "expiring"} =>
       Interrupting(t) \/ (call[t] # "turn/interrupt" /\ server[t] # "running")

StageInv == FreshInv /\ \A t \in Turn : active = t => OverAt(t)

-----------------------------------------------------------------------------
(* Steps that start nothing *)

WireGrows ==
  /\ DOMAIN wire \subseteq DOMAIN wire'
  /\ \A i \in DOMAIN wire : wire'[i] = wire[i]
  /\ \A i \in DOMAIN wire' \ DOMAIN wire : wire'[i].method # "turn/start"

LEMMA AppendGrows ==
  ASSUME CallTyped, NEW r \in Request, wire' = Append(wire, r), r.method # "turn/start"
  PROVE  WireGrows
<1>1. DOMAIN wire' = 1..Len(wire) + 1 /\ wire'[Len(wire) + 1] = r
      /\ \A i \in DOMAIN wire : wire'[i] = wire[i]
  BY QueueFacts DEF CallTyped
<1>2. DOMAIN wire = 1..Len(wire) /\ Len(wire) \in Nat
  BY QueueFacts DEF CallTyped
<1>3. \A i \in DOMAIN wire' \ DOMAIN wire : i = Len(wire) + 1
  BY <1>1, <1>2
<1>4. DOMAIN wire \subseteq DOMAIN wire'
  BY <1>1, <1>2
<1> QED BY <1>1, <1>3, <1>4 DEF WireGrows

LEMMA SendsGrows ==
  ASSUME CallTyped, NEW x0 \in Caller, NEW m \in Method, NEW t \in Turn, Sends(x0, m, t),
         m # "turn/start"
  PROVE  WireGrows
<1>1. PICK r \in Request : r = [from |-> x0, method |-> m, turn |-> t]
  BY DEF Request
<1>2. wire' = Append(wire, r) /\ r.method # "turn/start"
  BY <1>1 DEF Sends
<1> QED BY <1>2, AppendGrows

LEMMA WireStays ==
  ASSUME UNCHANGED wire
  PROVE  WireGrows
BY DEF WireGrows

\* The server does not begin or forget a turn.
ServerSettles ==
  \A t \in Turn : /\ server'[t] = "running" => server[t] = "running"
                  /\ server[t] = "none" => server'[t] = "none"

\* A start on the wire is still waited for, or too late.
StartsStay == \A t \in Turn : Asked(t) => Asked(t)' \/ t \in orphaned'

\* The turn that runs is still the current one, or its interrupt is sent.
CurrentStays ==
  \A t \in Turn \ orphaned' :
    server'[t] = "running" /\ Current(t) => Current(t)' \/ InterruptSent(t)'

LEMMA QuietStep ==
  ASSUME ServerInv, WireGrows, ServerSettles, StartsStay, CurrentStays,
         begun \subseteq begun', orphaned \subseteq orphaned'
  PROVE  ServerInv'
<1>1. \A t \in Turn, j \in DOMAIN wire' :
        IsStart(wire'[j], t) => j \in DOMAIN wire /\ wire'[j] = wire[j] /\ IsStart(wire[j], t)
  BY DEF WireGrows, IsStart
<1>2. \A t \in Turn : InterruptSent(t) => InterruptSent(t)'
  BY DEF WireGrows, InterruptSent, IsInterrupt
<1>3. ASSUME NEW t \in Turn, NEW j \in DOMAIN wire', IsStart(wire'[j], t) PROVE StartAt(t, j)'
  <2>1. j \in DOMAIN wire /\ IsStart(wire[j], t)
    BY <1>1, <1>3
  <2>2. StartAt(t, j)
    BY <2>1 DEF ServerInv, StartInv
  <2>3. \A i \in DOMAIN wire' : IsStart(wire'[i], t) => i = j
    BY <1>1, <2>2 DEF StartAt
  <2>4. t \in begun'
    BY <2>2 DEF StartAt
  <2>5. ASSUME t \notin orphaned' PROVE Asked(t)' /\ server'[t] = "none"
    <3>1. Asked(t) /\ server[t] = "none"
      BY <2>2, <2>5 DEF StartAt
    <3> QED BY <2>5, <3>1 DEF StartsStay, ServerSettles
  <2>6. ASSUME t \notin orphaned', NEW u \in Turn \ orphaned', server'[u] = "running"
        PROVE  InterruptAhead(u, j)'
    <3>1. InterruptAhead(u, j)
      BY <2>2, <2>6 DEF StartAt, ServerSettles
    <3> QED BY <3>1 DEF InterruptAhead, WireGrows, IsInterrupt
  <2> QED BY <2>3, <2>4, <2>5, <2>6 DEF StartAt, IsStart
<1>4. StartInv'
  BY <1>3 DEF StartInv, IsStart
<1>5. ASSUME NEW t \in Turn \ orphaned', server'[t] = "running"
      PROVE  Current(t)' \/ InterruptSent(t)'
  <2>1. Current(t) \/ InterruptSent(t)
    BY <1>5 DEF ServerSettles, ServerInv, RunningInv
  <2> QED BY <1>2, <1>5, <2>1 DEF CurrentStays
<1>6. OneTurnOnServer'
  BY DEF OneTurnOnServer, ServerInv, ServerSettles
<1> QED BY <1>4, <1>5, <1>6 DEF ServerInv, RunningInv

-----------------------------------------------------------------------------
(* The steps of a turn *)

Quiet ==
  /\ WireGrows
  /\ UNCHANGED <<server, active, stage, orphaned, begun>>
  /\ \A t \in Turn : call'[t] = call[t]

LEMMA QuietKeeps ==
  ASSUME ServerInv, StageInv, Quiet
  PROVE  ServerInv' /\ StageInv'
<1>1. \A t \in Turn : (Asked(t) => Asked(t)') /\ (Current(t) => Current(t)')
  BY DEF Quiet, Asked, Current
<1>2. ServerInv'
  BY <1>1, QuietStep DEF Quiet, ServerSettles, StartsStay, CurrentStays
<1>3. \A t \in Turn : Interrupting(t) => Interrupting(t)'
  BY DEF Quiet, WireGrows, Interrupting, IsInterrupt
<1>4. ASSUME NEW t \in Turn, active' = t PROVE OverAt(t)'
  <2>1. OverAt(t)
    BY <1>4 DEF StageInv, Quiet
  <2> QED BY <1>3, <2>1 DEF OverAt, Quiet
<1>5. FreshInv'
  BY DEF StageInv, FreshInv, Quiet
<1> QED BY <1>2, <1>4, <1>5 DEF StageInv

Begins(t) ==
  /\ t \in Turn \ begun /\ active = NoTurn
  /\ active' = t /\ begun' = begun \cup {t} /\ stage' \in {"connecting", "spawning"}
  /\ UNCHANGED <<call, wire, server, orphaned>>

LEMMA BeginsKeeps ==
  ASSUME ServerInv, StageInv, NEW t \in Turn, Begins(t)
  PROVE  ServerInv' /\ StageInv'
<1>1. \A u \in Turn : ~Asked(u) /\ ~Current(u)
  BY NoTurnAssumption DEF Begins, Asked, Current
<1>2. ServerInv'
  BY <1>1, QuietStep, WireStays DEF Begins, ServerSettles, StartsStay, CurrentStays
<1>3. FreshInv'
  BY DEF StageInv, FreshInv, Begins
<1>4. \A u \in Turn : OverAt(u)'
  BY DEF OverAt, Begins
<1> QED BY <1>2, <1>3, <1>4 DEF StageInv

\* The provider call of the turn ends, with an answer, an error or a bound.
Ends ==
  /\ active \in Turn /\ active' = active /\ stage' = "ended"
  /\ UNCHANGED <<server, begun>> /\ WireGrows
  /\ orphaned' \in {orphaned, orphaned \cup {active}}
  /\ ~Asked(active) \/ active \in orphaned'
  /\ server[active] # "running" \/ active \in orphaned' \/ InterruptSent(active)'

LEMMA EndsKeeps ==
  ASSUME ServerInv, StageInv, active \in begun, Ends
  PROVE  ServerInv' /\ StageInv'
<1>1. StartsStay /\ CurrentStays
  <2>1. \A t \in Turn : Asked(t) \/ Current(t) => t = active
    BY DEF Asked, Current
  <2> QED BY <2>1 DEF Ends, StartsStay, CurrentStays
<1>2. ServerInv'
  BY <1>1, QuietStep DEF Ends, ServerSettles
<1>3. FreshInv'
  BY DEF StageInv, FreshInv, Ends
<1>4. \A t \in Turn : OverAt(t)'
  BY DEF OverAt, Ends
<1> QED BY <1>2, <1>3, <1>4 DEF StageInv

\* The provider call goes on.
Moves ==
  /\ active \in Turn /\ active' = active
  /\ UNCHANGED <<server, begun, orphaned>> /\ WireGrows
  /\ stage # "ended" /\ ~Asked(active)
  /\ \/ stage' \in {"checking", "watching"}
     \/ stage' \in {"honouring", "expiring"} /\ Interrupting(active)'

LEMMA MovesKeeps ==
  ASSUME ServerInv, StageInv, Moves
  PROVE  ServerInv' /\ StageInv'
<1>1. StartsStay /\ CurrentStays
  BY DEF Moves, StartsStay, CurrentStays, Asked, Current
<1>2. ServerInv'
  BY <1>1, QuietStep DEF Moves, ServerSettles
<1>3. FreshInv'
  BY DEF StageInv, FreshInv, Moves
<1>4. ASSUME NEW t \in Turn, active' = t PROVE OverAt(t)'
  <2>1. stage' \in {"honouring", "expiring"} => Interrupting(t)'
    BY <1>4 DEF Moves
  <2>2. stage' # "starting"
    BY DEF Moves
  <2> QED BY <2>1, <2>2 DEF OverAt
<1> QED BY <1>2, <1>3, <1>4 DEF StageInv

LEMMA ReleaseKeeps ==
  ASSUME TypeOK, ServerInv, StageInv, Release
  PROVE  ServerInv' /\ StageInv'
<1>1. stage = "ended" /\ active' = NoTurn /\ stage' = "idle"
      /\ UNCHANGED <<call, wire, server, orphaned, begun>>
  BY DEF Release, serverVars, history
<1>2. StartsStay /\ CurrentStays
  BY <1>1 DEF StartsStay, CurrentStays, Asked, Current
<1>3. ServerInv'
  BY <1>1, <1>2, QuietStep, WireStays DEF ServerSettles
<1>4. FreshInv'
  <2>1. NoTurn \notin orphaned
    BY NoTurnAssumption, TypeParts DEF HistoryTyped
  <2> QED BY <1>1, <2>1 DEF StageInv, FreshInv
<1>5. \A t \in Turn : OverAt(t)'
  BY <1>1 DEF OverAt
<1> QED BY <1>3, <1>4, <1>5 DEF StageInv

LEMMA SpawnKeeps ==
  ASSUME ServerInv, StageInv, Spawn
  PROVE  ServerInv' /\ StageInv'
<1>1. stage = "spawning" /\ stage' = "tracked"
      /\ UNCHANGED <<active, call, wire, server, orphaned, begun>>
  BY DEF Spawn, bot, serverVars
<1>2. StartsStay /\ CurrentStays
  BY <1>1 DEF StartsStay, CurrentStays, Asked, Current
<1>3. ServerInv'
  BY <1>1, <1>2, QuietStep, WireStays DEF ServerSettles
<1>4. FreshInv'
  BY <1>1 DEF StageInv, FreshInv
<1>5. \A t \in Turn : OverAt(t)'
  BY <1>1 DEF OverAt
<1> QED BY <1>3, <1>4, <1>5 DEF StageInv

LEMMA CompletesKeeps ==
  ASSUME TypeOK, ServerInv, StageInv, NEW u \in Turn, ServerCompletes(u)
  PROVE  ServerInv' /\ StageInv'
<1>1. UNCHANGED <<active, stage, call, wire, orphaned, begun>> /\ server[u] = "running"
  BY DEF ServerCompletes, bot, turn, history
<1>2. server'[u] = "completed" /\ \A t \in Turn : t # u => server'[t] = server[t]
  BY TypeParts DEF ServerCompletes, ServerTyped
<1>3. ServerSettles
  BY <1>1, <1>2 DEF ServerSettles
<1>4. StartsStay /\ CurrentStays
  BY <1>1 DEF StartsStay, CurrentStays, Asked, Current
<1>5. ServerInv'
  BY <1>1, <1>3, <1>4, QuietStep, WireStays
<1>6. FreshInv'
  BY <1>1, <1>2 DEF StageInv, FreshInv
<1>7. ASSUME NEW t \in Turn, active' = t PROVE OverAt(t)'
  <2>1. OverAt(t) /\ (Interrupting(t) => Interrupting(t)')
    BY <1>1, <1>7 DEF StageInv, Interrupting
  <2> QED BY <1>1, <1>3, <2>1 DEF OverAt, ServerSettles
<1> QED BY <1>5, <1>6, <1>7 DEF StageInv

LEMMA DiesKeeps ==
  ASSUME TypeOK, ServerInv, StageInv, ServerDies
  PROVE  ServerInv' /\ StageInv'
<1>0. CallTyped /\ ServerTyped
  BY TypeParts
<1>1. UNCHANGED <<active, stage, orphaned, begun>> /\ wire' = <<>>
  BY DEF ServerDies, bot
<1>2. \A t \in Turn : server'[t] = IF server[t] = "running" THEN "lost" ELSE server[t]
  BY DEF ServerDies
<1>3. \A t \in Turn : server'[t] # "running" /\ (server[t] = "none" => server'[t] = "none")
  BY <1>2
<1>4. \A t \in Turn : call'[t] # "turn/interrupt"
  <2> SUFFICES ASSUME NEW t \in Turn PROVE call'[t] # "turn/interrupt"
    OBVIOUS
  <2>1. t \in Caller
    BY CallerFacts
  <2> QED BY <1>0, <2>1 DEF ServerDies, CallTyped, Method
<1>5. ServerInv'
  BY <1>1, <1>3 DEF ServerInv, StartInv, RunningInv, OneTurnOnServer
<1>6. FreshInv'
  BY <1>1, <1>3 DEF StageInv, FreshInv
<1>7. \A t \in Turn : OverAt(t)'
  BY <1>3, <1>4 DEF OverAt
<1> QED BY <1>5, <1>6, <1>7 DEF StageInv

LEMMA ConnectKeeps ==
  ASSUME TypeOK, BegunInv, ServerInv, StageInv, Connect
  PROVE  ServerInv' /\ StageInv'
<1>0. CallTyped /\ BotTyped /\ StageAgrees
  BY TypeParts
<1>a. stage = "connecting" /\ active' = active /\ UNCHANGED <<server, orphaned, begun>>
  BY DEF Connect, bot, serverVars, history
<1>b. PICK a \in Turn : a = active
  BY <1>0, <1>a DEF StageAgrees, BotTyped
<1>c. a \in begun /\ a \notin orphaned /\ server[a] = "none" /\ a \in Caller
  BY <1>a, <1>b, NoTurnAssumption, CallerFacts DEF BegunInv, StageInv, FreshInv
<1>1. CASE stage' = "ended" /\ UNCHANGED <<call, wire>>
  BY <1>a, <1>b, <1>c, <1>1, WireStays, EndsKeeps DEF Ends, Asked
<1>2. CASE stage' = "starting" /\ Sends(active, "turn/start", active)
  <2>1. PICK r \in Request : r = [from |-> a, method |-> "turn/start", turn |-> a]
    BY <1>c DEF Request, Method
  <2>2. wire' = Append(wire, r) /\ call'[a] = "turn/start" /\ r.turn = a /\ r.method = "turn/start"
    BY <1>0, <1>b, <1>c, <1>2, <2>1 DEF Sends, CallTyped
  <2>3. DOMAIN wire' = 1..Len(wire) + 1 /\ wire'[Len(wire) + 1] = r
        /\ \A i \in DOMAIN wire : wire'[i] = wire[i]
    BY <1>0, <2>2, QueueFacts DEF CallTyped
  <2>4. DOMAIN wire = 1..Len(wire) /\ Len(wire) \in Nat
    BY <1>0, QueueFacts DEF CallTyped
  <2>5. \A i \in DOMAIN wire : i \in DOMAIN wire' /\ i < Len(wire) + 1
    BY <2>3, <2>4
  <2>6. \A i \in DOMAIN wire' : i \in DOMAIN wire \/ i = Len(wire) + 1
    BY <2>3, <2>4
  <2>7. \A i \in DOMAIN wire : \A t \in Turn : IsStart(wire[i], t) => t \in orphaned /\ t # a
    <3> SUFFICES ASSUME NEW i \in DOMAIN wire, NEW t \in Turn, IsStart(wire[i], t)
                 PROVE  t \in orphaned /\ t # a
      OBVIOUS
    <3>1. StartAt(t, i)
      BY DEF ServerInv, StartInv
    <3>2. ~Asked(t)
      BY <1>a DEF Asked
    <3> QED BY <1>c, <3>1, <3>2 DEF StartAt
  <2>8. \A u \in Turn \ orphaned : server[u] = "running" => InterruptSent(u)
    BY <1>a DEF ServerInv, RunningInv, Current
  <2>9. ASSUME NEW t \in Turn, NEW j \in DOMAIN wire', IsStart(wire'[j], t) PROVE StartAt(t, j)'
    <3>1. CASE j \in DOMAIN wire
      <4>1. IsStart(wire[j], t)
        BY <2>3, <2>9, <3>1
      <4>2. t \in orphaned /\ t # a
        BY <2>7, <3>1, <4>1
      <4>3. StartAt(t, j)
        BY <3>1, <4>1 DEF ServerInv, StartInv
      <4>4. \A i \in DOMAIN wire' : IsStart(wire'[i], t) => i = j
        BY <2>2, <2>3, <2>6, <4>2, <4>3 DEF StartAt, IsStart
      <4> QED BY <1>a, <4>2, <4>3, <4>4 DEF StartAt, IsStart
    <3>2. CASE j = Len(wire) + 1
      <4>1. t = a
        BY <2>2, <2>3, <2>9, <3>2 DEF IsStart
      <4>2. \A i \in DOMAIN wire' : IsStart(wire'[i], t) => i = j
        BY <2>3, <2>6, <2>7, <3>2, <4>1
      <4>3. Asked(t)'
        BY <1>a, <1>b, <1>2, <2>2, <4>1 DEF Asked
      <4>4. ASSUME NEW u \in Turn \ orphaned, server[u] = "running" PROVE InterruptAhead(u, j)'
        <5>1. PICK i \in DOMAIN wire : IsInterrupt(wire[i], u)
          BY <2>8, <4>4 DEF InterruptSent
        <5>2. i \in DOMAIN wire' /\ i < j /\ IsInterrupt(wire'[i], u)
          BY <2>3, <2>5, <3>2, <5>1
        <5> QED BY <5>2 DEF InterruptAhead, IsInterrupt
      <4> QED BY <1>a, <1>c, <4>1, <4>2, <4>3, <4>4 DEF StartAt, IsStart
    <3> QED BY <2>6, <3>1, <3>2
  <2>10. RunningInv'
    <3>1. ASSUME NEW t \in Turn \ orphaned, server[t] = "running" PROVE InterruptSent(t)'
      BY <2>3, <2>5, <2>8, <3>1 DEF InterruptSent, IsInterrupt
    <3> QED BY <1>a, <3>1 DEF RunningInv
  <2>11. OneTurnOnServer'
    BY <1>a DEF ServerInv, OneTurnOnServer
  <2>12. FreshInv'
    BY <1>a, <1>2 DEF StageInv, FreshInv
  <2>13. \A t \in Turn : active' = t => OverAt(t)'
    BY <1>a, <1>b, <1>2, <2>2 DEF OverAt
  <2> QED BY <2>9, <2>10, <2>11, <2>12, <2>13 DEF ServerInv, StageInv, StartInv, IsStart
<1> QED BY <1>1, <1>2 DEF Connect

\* The server reads the first request.
LEMMA ServeFacts ==
  ASSUME TypeOK, WireInv, Serve, NEW r, r = Head(wire)
  PROVE  /\ r \in Request /\ WellAsked(r) /\ 1 \in DOMAIN wire /\ r = wire[1]
         /\ r.turn \in Turn /\ r.method \in Method
         /\ \A i \in DOMAIN wire' :
              i \in Nat /\ i >= 1 /\ i + 1 \in DOMAIN wire /\ wire'[i] = wire[i + 1]
         /\ \A i \in DOMAIN wire :
              i \in Nat /\ (i # 1 => i - 1 \in DOMAIN wire' /\ (i - 1) + 1 = i)
         /\ UNCHANGED <<active, stage, orphaned, begun>>
         /\ \E ok \in Accepts(r) :
              /\ \A t \in Turn : call'[t] = IF t = r.from /\ call[t] = r.method
                                            THEN IF ok THEN "ok" ELSE "error" ELSE call[t]
              /\ \A t \in Turn : server'[t] = IF t = r.turn /\ ok /\ r.method # "turn/steer"
                                              THEN IF r.method = "turn/start" THEN "running"
                                                   ELSE "interrupted"
                                              ELSE server[t]
<1>0. CallTyped /\ ServerTyped
  BY TypeParts
<1>1. wire # <<>> /\ wire' = Tail(wire) /\ wire \in Seq(Request)
  BY <1>0 DEF Serve, CallTyped
<1>2. 1 \in DOMAIN wire /\ r = wire[1] /\ DOMAIN wire = 1..Len(wire) /\ Len(wire) \in Nat
  BY <1>1, HeadFacts, QueueFacts
<1>3. r \in Request /\ r.turn \in Turn /\ r.method \in Method /\ WellAsked(r)
  BY <1>0, <1>2, RequestsTyped DEF WireInv
<1>4. DOMAIN wire' = 1..Len(wire) - 1
  <2>1. wire' \in Seq(Request) /\ Len(wire') = Len(wire) - 1
    BY <1>1, HeadFacts
  <2>2. DOMAIN wire' = 1..Len(wire')
    BY <2>1
  <2> QED BY Zenon, <2>1, <2>2
<1>5. ASSUME NEW i \in DOMAIN wire'
      PROVE  i \in Nat /\ i >= 1 /\ i + 1 \in DOMAIN wire /\ wire'[i] = wire[i + 1]
  <2>1. i \in 1..Len(wire) - 1
    BY <1>4, <1>5
  <2>2. i \in Nat /\ i >= 1 /\ i + 1 \in DOMAIN wire
    BY <1>2, <2>1
  <2>3. wire'[i] = wire[i + 1]
    BY <1>1, <2>1, HeadFacts
  <2> QED BY <2>2, <2>3
<1>6. ASSUME NEW i \in DOMAIN wire
      PROVE  i \in Nat /\ (i # 1 => i - 1 \in DOMAIN wire' /\ (i - 1) + 1 = i)
  BY <1>2, <1>4, <1>6
<1>7. UNCHANGED <<active, stage, orphaned, begun>>
  BY DEF Serve, bot, turn
<1>8. \E ok \in Accepts(r) :
              /\ \A t \in Turn : call'[t] = IF t = r.from /\ call[t] = r.method
                                            THEN IF ok THEN "ok" ELSE "error" ELSE call[t]
              /\ \A t \in Turn : server'[t] = IF t = r.turn /\ ok /\ r.method # "turn/steer"
                                              THEN IF r.method = "turn/start" THEN "running"
                                                   ELSE "interrupted"
                                              ELSE server[t]
  <2>1. PICK ok \in Accepts(r) :
       /\ call' = IF call[r.from] = r.method
                  THEN [call EXCEPT ![r.from] = IF ok THEN "ok" ELSE "error"]
                  ELSE call
       /\ server' = IF ok /\ r.method # "turn/steer"
                    THEN [server EXCEPT ![r.turn] =
                            IF r.method = "turn/start" THEN "running" ELSE "interrupted"]
                    ELSE server
    BY DEF Serve
  <2>2. \A t \in Turn : t \in Caller
    BY CallerFacts
  <2>3. \A t \in Turn : call'[t] = IF t = r.from /\ call[t] = r.method
                                   THEN IF ok THEN "ok" ELSE "error" ELSE call[t]
    BY <1>0, <2>1, <2>2 DEF CallTyped
  <2>4. \A t \in Turn : server'[t] = IF t = r.turn /\ ok /\ r.method # "turn/steer"
                                     THEN IF r.method = "turn/start" THEN "running"
                                          ELSE "interrupted"
                                     ELSE server[t]
    BY <1>0, <2>1 DEF ServerTyped
  <2> QED BY <2>3, <2>4
<1> QED BY <1>2, <1>3, <1>5, <1>6, <1>7, <1>8

LEMMA ServeKeeps ==
  ASSUME TypeOK, WireInv, BegunInv, ServerInv, StageInv, Serve
  PROVE  ServerInv' /\ StageInv'
<1>a. PICK r : r = Head(wire)
  OBVIOUS
<1>0. /\ r \in Request /\ WellAsked(r) /\ 1 \in DOMAIN wire /\ r = wire[1]
      /\ r.turn \in Turn /\ r.method \in Method
  BY <1>a, ServeFacts
<1>1. \A i \in DOMAIN wire' :
        i \in Nat /\ i >= 1 /\ i + 1 \in DOMAIN wire /\ wire'[i] = wire[i + 1]
  BY <1>a, ServeFacts
<1>2. \A i \in DOMAIN wire :
        i \in Nat /\ (i # 1 => i - 1 \in DOMAIN wire' /\ (i - 1) + 1 = i)
  BY <1>a, ServeFacts
<1>3. UNCHANGED <<active, stage, orphaned, begun>>
  BY <1>a, ServeFacts
<1>4. PICK ok \in Accepts(r) :
        /\ \A t \in Turn : call'[t] = IF t = r.from /\ call[t] = r.method
                                      THEN IF ok THEN "ok" ELSE "error" ELSE call[t]
        /\ \A t \in Turn : server'[t] = IF t = r.turn /\ ok /\ r.method # "turn/steer"
                                        THEN IF r.method = "turn/start" THEN "running"
                                             ELSE "interrupted"
                                        ELSE server[t]
  BY <1>a, ServeFacts
<1>5. r.method # "turn/start" => (ok <=> server[r.turn] = "running")
  BY <1>4 DEF Accepts
\* The requests behind the first.
<1>6. \A u \in Turn, i \in DOMAIN wire : i # 1 /\ IsInterrupt(wire[i], u) => InterruptSent(u)'
  <2> SUFFICES ASSUME NEW u \in Turn, NEW i \in DOMAIN wire, i # 1, IsInterrupt(wire[i], u)
               PROVE  InterruptSent(u)'
    OBVIOUS
  <2>1. i - 1 \in DOMAIN wire' /\ wire'[i - 1] = wire[i]
    BY <1>1, <1>2
  <2> QED BY <2>1 DEF InterruptSent, IsInterrupt
<1>7. \A u \in Turn : IsInterrupt(r, u) => server'[u] # "running"
  BY <1>4, <1>5 DEF IsInterrupt
\* Only a start makes a turn run.
<1>8. \A u \in Turn : server'[u] = "running" /\ server[u] # "running" => IsStart(r, u)
  BY <1>4, <1>0 DEF IsStart, Method
<1>9. \A u \in Turn : IsStart(r, u) => StartAt(u, 1)
  BY <1>0 DEF ServerInv, StartInv
\* A turn whose start is next is the only one.
<1>10. \A u \in Turn \ orphaned, t \in Turn \ orphaned :
         IsStart(r, u) => server[t] # "running"
  <2> SUFFICES ASSUME NEW u \in Turn \ orphaned, NEW t \in Turn \ orphaned, IsStart(r, u),
                      server[t] = "running"
               PROVE  FALSE
    OBVIOUS
  <2>1. InterruptAhead(t, 1)
    BY <1>9 DEF StartAt
  <2>2. PICK i \in DOMAIN wire : i < 1
    BY <2>1 DEF InterruptAhead
  <2>3. i \in Nat /\ (i # 1 => i - 1 \in DOMAIN wire')
    BY <1>2
  <2>4. i - 1 \in Nat /\ i - 1 >= 1
    BY <1>1, <2>2, <2>3
  <2> QED BY <2>2, <2>3, <2>4
<1>11. ASSUME NEW t \in Turn, NEW j \in DOMAIN wire', IsStart(wire'[j], t) PROVE StartAt(t, j)'
  <2>1. j + 1 \in DOMAIN wire /\ IsStart(wire[j + 1], t) /\ j \in Nat /\ j >= 1
    BY <1>1, <1>11
  <2>2. PICK k \in DOMAIN wire : k = j + 1 /\ IsStart(wire[k], t) /\ k # 1
    BY <2>1
  <2>3. StartAt(t, k)
    BY <2>2 DEF ServerInv, StartInv
  <2>4. ~IsStart(r, t)
    BY <1>0, <2>2, <2>3 DEF StartAt
  <2>5. \A i \in DOMAIN wire' : IsStart(wire'[i], t) => i = j
    <3> SUFFICES ASSUME NEW i \in DOMAIN wire', IsStart(wire'[i], t) PROVE i = j
      OBVIOUS
    <3>1. i + 1 = k /\ i \in Nat
      BY <1>1, <2>3 DEF StartAt
    <3> QED BY <2>1, <2>2, <3>1
  <2>6. ASSUME t \notin orphaned PROVE Asked(t)' /\ server'[t] = "none"
    <3>1. Asked(t) /\ server[t] = "none"
      BY <2>3, <2>6 DEF StartAt
    <3>2. ~(t = r.from /\ call[t] = r.method)
      <4>1. t = r.from /\ r.method = "turn/start" => r.turn = t
        BY <1>0 DEF WellAsked
      <4> QED BY <2>4, <3>1, <4>1 DEF IsStart, Asked
    <3>3. call'[t] = call[t]
      BY <1>4, <3>2
    <3>4. server'[t] = "none"
      BY <1>4, <1>5, <2>4, <3>1 DEF IsStart
    <3> QED BY <1>3, <3>1, <3>3, <3>4 DEF Asked
  <2>7. ASSUME t \notin orphaned, NEW u \in Turn \ orphaned, server'[u] = "running"
        PROVE  InterruptAhead(u, j)'
    <3>1. server[u] = "running"
      <4>1. IsStart(r, u) => u = t
        <5> SUFFICES ASSUME IsStart(r, u) PROVE u = t
          OBVIOUS
        <5>1. Asked(u)
          BY <1>9 DEF StartAt
        <5>2. Asked(t)
          BY <2>3, <2>7 DEF StartAt
        <5> QED BY <5>1, <5>2 DEF Asked
      <4> QED BY <1>8, <2>4, <2>7, <4>1
    <3>2. PICK i \in DOMAIN wire : i < k /\ IsInterrupt(wire[i], u)
      BY <2>3, <2>7, <3>1 DEF StartAt, InterruptAhead
    <3>3. i # 1
      BY <1>0, <1>7, <2>7, <3>2
    <3>4. i - 1 \in DOMAIN wire' /\ wire'[i - 1] = wire[i] /\ i \in Nat
      BY <1>1, <1>2, <3>3
    <3>5. i - 1 < j
      BY <2>1, <2>2, <3>2, <3>3, <3>4
    <3> QED BY <3>2, <3>4, <3>5 DEF InterruptAhead, IsInterrupt
  <2> QED BY <1>3, <2>3, <2>5, <2>6, <2>7 DEF StartAt, IsStart
<1>12. RunningInv'
  <2>1. ASSUME NEW t \in Turn \ orphaned, server'[t] = "running"
        PROVE  Current(t)' \/ InterruptSent(t)'
    <3>1. CASE IsStart(r, t)
      BY <1>3, <1>9, <3>1 DEF StartAt, Asked, Current
    <3>2. CASE ~IsStart(r, t)
      <4>1. Current(t) \/ InterruptSent(t)
        BY <1>8, <2>1, <3>2 DEF ServerInv, RunningInv
      <4>2. CASE Current(t)
        BY <1>3, <4>2 DEF Current
      <4>3. CASE InterruptSent(t)
        <5>1. PICK i \in DOMAIN wire : IsInterrupt(wire[i], t)
          BY <4>3 DEF InterruptSent
        <5>2. i # 1
          BY <1>0, <1>7, <2>1, <5>1
        <5> QED BY <1>6, <5>1, <5>2
      <4> QED BY <4>1, <4>2, <4>3
    <3> QED BY <3>1, <3>2
  <2> QED BY <1>3, <2>1 DEF RunningInv
<1>13. OneTurnOnServer'
  <2> SUFFICES ASSUME NEW t \in Turn \ orphaned, NEW u \in Turn \ orphaned,
                      server'[t] = "running", server'[u] = "running"
               PROVE  t = u
    BY <1>3 DEF OneTurnOnServer
  <2>1. CASE server[t] = "running" /\ server[u] = "running"
    BY <2>1 DEF ServerInv, OneTurnOnServer
  <2>2. CASE server[t] # "running" \/ server[u] # "running"
    BY <1>8, <1>10, <2>2 DEF IsStart
  <2> QED BY <2>1, <2>2
<1>14. \A t \in Turn : server[t] = "none" /\ ~IsStart(r, t) => server'[t] = "none"
  BY <1>0, <1>4, <1>5 DEF IsStart, Method
<1>15. FreshInv'
  <2>1. ASSUME NEW t \in Turn, t \notin begun PROVE server'[t] = "none"
    BY <1>9, <1>14, <2>1 DEF StartAt, StageInv, FreshInv
  <2>2. ASSUME NEW t \in Turn, active = t, stage \in {"connecting", "spawning", "tracked"}
        PROVE  server'[t] = "none"
    <3>1. t \notin orphaned /\ ~Asked(t) /\ server[t] = "none"
      BY <2>2 DEF StageInv, FreshInv, Asked
    <3>2. ~IsStart(r, t)
      BY <1>9, <3>1 DEF StartAt
    <3> QED BY <1>14, <3>1, <3>2
  <2> QED BY <1>3, <2>1, <2>2 DEF StageInv, FreshInv
<1>16. ASSUME NEW t \in Turn, active' = t PROVE OverAt(t)'
  <2>1. OverAt(t) /\ active = t
    BY <1>3, <1>16 DEF StageInv
  <2>2. IsStart(r, t) => t \in orphaned \/ (stage = "starting" /\ call[t] = "turn/start")
    BY <1>9 DEF StartAt, Asked
  <2>3. t \in orphaned => stage = "ended"
    BY <2>1 DEF StageInv, FreshInv
  <2>4. ASSUME stage = "starting", call'[t] = "error" PROVE server'[t] # "running"
    <3>1. CASE t = r.from /\ call[t] = r.method
      <4>1. ~ok
        BY <1>4, <2>4, <3>1
      <4>2. server'[t] = server[t]
        BY <1>4, <4>1
      <4>3. r.turn = t
        BY <1>0, <3>1 DEF WellAsked
      <4>4. CASE r.method = "turn/start"
        <5>1. server[t] = "none"
          BY <1>9, <2>3, <2>4, <4>3, <4>4 DEF IsStart, StartAt
        <5> QED BY <4>2, <5>1
      <4>5. CASE r.method # "turn/start"
        BY <1>5, <4>1, <4>2, <4>3, <4>5
      <4> QED BY <4>4, <4>5
    <3>2. CASE ~(t = r.from /\ call[t] = r.method)
      <4>1. call[t] = "error" /\ server[t] # "running"
        BY <1>4, <2>1, <2>4, <3>2 DEF OverAt
      <4>2. ~IsStart(r, t)
        BY <2>2, <2>3, <2>4, <4>1
      <4> QED BY <1>8, <4>1, <4>2
    <3> QED BY <3>1, <3>2
  <2>5. ASSUME stage \in {"honouring", "expiring"}
        PROVE  Interrupting(t)' \/ (call'[t] # "turn/interrupt" /\ server'[t] # "running")
    <3>1. ~IsStart(r, t)
      BY <2>2, <2>3, <2>5
    <3>2. CASE Interrupting(t)
      <4>1. PICK i \in DOMAIN wire : IsInterrupt(wire[i], t) /\ wire[i].from = t
        BY <3>2 DEF Interrupting
      <4>2. call[t] = "turn/interrupt"
        BY <3>2 DEF Interrupting
      <4>3. CASE r.from = t /\ r.method = "turn/interrupt"
        <5>1. call'[t] # "turn/interrupt"
          BY <1>4, <4>2, <4>3
        <5>2. IsInterrupt(r, t)
          BY <1>0, <4>3 DEF WellAsked, IsInterrupt
        <5> QED BY <1>7, <5>1, <5>2
      <4>4. CASE ~(r.from = t /\ r.method = "turn/interrupt")
        <5>1. i # 1
          BY <1>0, <4>1, <4>4 DEF IsInterrupt
        <5>2. i - 1 \in DOMAIN wire' /\ wire'[i - 1] = wire[i]
          BY <1>1, <1>2, <5>1
        <5>3. call'[t] = "turn/interrupt"
          BY <1>4, <4>2, <4>4
        <5> QED BY <4>1, <5>2, <5>3 DEF Interrupting, IsInterrupt
      <4> QED BY <4>3, <4>4
    <3>3. CASE call[t] # "turn/interrupt" /\ server[t] # "running"
      BY <1>4, <1>8, <3>1, <3>3
    <3> QED BY <2>1, <2>5, <3>2, <3>3 DEF OverAt
  <2> QED BY <1>3, <2>4, <2>5 DEF OverAt
<1>17. StartInv'
  BY <1>11 DEF StartInv, IsStart
<1> QED BY <1>12, <1>13, <1>15, <1>16, <1>17 DEF ServerInv, StageInv

LEMMA AsksForItself ==
  ASSUME CallTyped, active \in Turn, active' = active, Sends(active, "turn/interrupt", active)
  PROVE  Interrupting(active)' /\ WireGrows
<1>1. active \in Caller
  BY CallerFacts
<1>2. PICK r \in Request : r = [from |-> active, method |-> "turn/interrupt", turn |-> active]
  BY <1>1 DEF Request, Method
<1>3. wire' = Append(wire, r) /\ IsInterrupt(r, active) /\ r.from = active
      /\ r.method # "turn/start"
  BY <1>2 DEF Sends, IsInterrupt
<1>4. WireGrows
  BY <1>3, AppendGrows
<1>5. Len(wire) + 1 \in DOMAIN wire' /\ wire'[Len(wire) + 1] = r
  BY <1>3, QueueFacts DEF CallTyped
<1>6. call'[active] = "turn/interrupt"
  BY <1>1 DEF Sends, CallTyped
<1> QED BY <1>3, <1>4, <1>5, <1>6 DEF Interrupting, IsInterrupt

\* The steps of the coroutine and of the process of the turn.
LEMMA TurnKeeps ==
  ASSUME TypeOK, BegunInv, ServerInv, StageInv,
         Started \/ StartTooLate \/ CheckLatch \/ Honoured \/ HonourTooLate \/ Completed
         \/ TurnExpires \/ Expired \/ SpawnFails \/ CliExits
  PROVE  ServerInv' /\ StageInv'
<1>0. CallTyped /\ BotTyped /\ StageAgrees
  BY TypeParts
<1>a. active \in Turn /\ active \in Caller /\ active \in begun
  BY <1>0, NoTurnAssumption, CallerFacts
     DEF StageAgrees, BotTyped, BegunInv, Started, StartTooLate, CheckLatch, Honoured,
         HonourTooLate, Completed, TurnExpires, Expired, SpawnFails, CliExits
<1>b. active' = active /\ UNCHANGED <<server, begun>>
  BY DEF Started, StartTooLate, CheckLatch, Honoured, HonourTooLate, Completed, TurnExpires,
     Expired, SpawnFails, CliExits, bot, serverVars, history
<1>c. OverAt(active)
  BY <1>a DEF StageInv
<1>1. CASE Started
  <2>1. ~Asked(active) /\ UNCHANGED <<wire, orphaned>> /\ stage = "starting"
    BY <1>1 DEF Started, Answered, Asked, history
  <2>2. CASE call[active] = "ok"
    <3>1. Moves
      BY <1>1, <1>a, <1>b, <2>1, <2>2, WireStays DEF Started, Moves
    <3> QED BY <3>1, MovesKeeps
  <2>3. CASE call[active] # "ok"
    <3>1. server[active] # "running"
      BY <1>1, <1>c, <2>3 DEF Started, Answered, OverAt
    <3>2. Ends
      BY <1>1, <1>a, <1>b, <2>1, <2>3, <3>1, WireStays DEF Started, Ends
    <3> QED BY <1>a, <3>2, EndsKeeps
  <2> QED BY <2>2, <2>3
<1>2. CASE StartTooLate
  <2>1. Ends
    BY <1>2, <1>a, <1>b, WireStays DEF StartTooLate, Ends
  <2> QED BY <1>a, <2>1, EndsKeeps
<1>3. CASE CheckLatch
  <2>1. ~Asked(active) /\ UNCHANGED orphaned /\ stage = "checking"
    BY <1>3 DEF CheckLatch, Asked, history
  <2>2. CASE ~SeesLatch
    <3>1. Moves
      BY <1>3, <1>a, <1>b, <2>1, <2>2, WireStays DEF CheckLatch, Moves
    <3> QED BY <3>1, MovesKeeps
  <2>3. CASE SeesLatch
    <3>1. stage' = "honouring" /\ Sends(active, "turn/interrupt", active)
      BY <1>3, <2>3 DEF CheckLatch
    <3>2. Interrupting(active)' /\ WireGrows
      BY <1>0, <1>a, <1>b, <3>1, AsksForItself
    <3>3. Moves
      BY <1>a, <1>b, <2>1, <3>1, <3>2 DEF Moves
    <3> QED BY <3>3, MovesKeeps
  <2> QED BY <2>2, <2>3
<1>4. CASE Honoured
  <2>1. ~Asked(active) /\ UNCHANGED <<wire, orphaned>> /\ stage = "honouring"
    BY <1>4 DEF Honoured, Asked, history
  <2>2. CASE call[active] = "ok"
    <3>1. Moves
      BY <1>4, <1>a, <1>b, <2>1, <2>2, WireStays DEF Honoured, Moves
    <3> QED BY <3>1, MovesKeeps
  <2>3. CASE call[active] # "ok"
    <3>1. server[active] # "running"
      BY <1>4, <1>c, <2>1 DEF Honoured, Answered, OverAt, Interrupting
    <3>2. Ends
      BY <1>4, <1>a, <1>b, <2>1, <2>3, <3>1, WireStays DEF Honoured, Leaves, Ends
    <3> QED BY <1>a, <3>2, EndsKeeps
  <2> QED BY <2>2, <2>3
<1>5. CASE HonourTooLate \/ Expired
  <2>1. ~Asked(active) /\ UNCHANGED <<wire, orphaned>> /\ stage \in {"honouring", "expiring"}
        /\ stage' = "ended"
    BY <1>5 DEF HonourTooLate, Expired, Leaves, Asked, history
  <2>2. server[active] # "running" \/ InterruptSent(active)'
    BY <1>b, <1>c, <2>1 DEF OverAt, Interrupting, InterruptSent, IsInterrupt
  <2>3. Ends
    BY <1>a, <1>b, <2>1, <2>2, WireStays DEF Ends
  <2> QED BY <1>a, <2>3, EndsKeeps
<1>6. CASE Completed
  <2>1. Ends
    BY <1>6, <1>a, <1>b, WireStays DEF Completed, Leaves, Asked, Ends, history
  <2> QED BY <1>a, <2>1, EndsKeeps
<1>7. CASE TurnExpires
  <2>1. ~Asked(active) /\ UNCHANGED orphaned /\ stage = "watching" /\ stage' = "expiring"
        /\ Sends(active, "turn/interrupt", active)
    BY <1>7 DEF TurnExpires, Expiry, Asked
  <2>2. Interrupting(active)' /\ WireGrows
    BY <1>0, <1>a, <1>b, <2>1, AsksForItself
  <2>3. Moves
    BY <1>a, <1>b, <2>1, <2>2 DEF Moves
  <2> QED BY <2>3, MovesKeeps
<1>8. CASE SpawnFails \/ CliExits
  <2>1. stage \in {"spawning", "tracked"} /\ stage' = "ended" /\ UNCHANGED <<wire, orphaned>>
    BY <1>8 DEF SpawnFails, CliExits, history
  <2>2. server[active] = "none"
    BY <1>a, <2>1 DEF StageInv, FreshInv
  <2>3. Ends
    BY <1>a, <1>b, <2>1, <2>2, WireStays DEF Ends, Asked
  <2> QED BY <1>a, <2>3, EndsKeeps
<1> QED BY <1>1, <1>2, <1>3, <1>4, <1>5, <1>6, <1>7, <1>8

LEMMA OuterBoundKeeps ==
  ASSUME TypeOK, BegunInv, ServerInv, StageInv, OuterBound
  PROVE  ServerInv' /\ StageInv'
<1>0. CallTyped /\ BotTyped /\ StageAgrees
  BY TypeParts
<1>a. PICK a \in Turn : a = active
  BY <1>0 DEF OuterBound, StageAgrees, BotTyped
<1>b. a \in begun /\ active' = active /\ UNCHANGED <<server, begun>> /\ stage' = "ended"
  BY <1>a, NoTurnAssumption DEF BegunInv, OuterBound, bot
<1>c. orphaned' = IF stage = "starting" THEN orphaned \cup {a} ELSE orphaned
  BY <1>a DEF OuterBound
<1>1. CASE stage \in {"connecting", "starting"}
  <2>1. WireGrows
    BY <1>1, WireStays DEF OuterBound
  <2>2. stage = "connecting" => server[a] = "none"
    BY <1>a DEF StageInv, FreshInv
  <2>3. Ends
    BY <1>1, <1>a, <1>b, <1>c, <2>1, <2>2 DEF Ends, Asked
  <2> QED BY <1>a, <1>b, <2>3, EndsKeeps
<1>2. CASE stage \notin {"connecting", "starting"}
  <2>1. PICK r \in Request :
          r = [from |-> Cancelled(a), method |-> "turn/interrupt", turn |-> a]
    BY CallerFacts DEF Request, Method
  <2>2. wire' = Append(wire, r) /\ IsInterrupt(r, a) /\ r.method # "turn/start"
    BY <1>2, <1>a, <2>1 DEF OuterBound, IsInterrupt
  <2>3. WireGrows
    BY <1>0, <2>2, AppendGrows
  <2>4. InterruptSent(a)'
    <3>1. Len(wire) + 1 \in DOMAIN wire' /\ wire'[Len(wire) + 1] = r
      BY <1>0, <2>2, QueueFacts DEF CallTyped
    <3> QED BY <2>2, <3>1 DEF InterruptSent, IsInterrupt
  <2>5. Ends
    BY <1>2, <1>a, <1>b, <1>c, <2>3, <2>4 DEF Ends, Asked
  <2> QED BY <1>a, <1>b, <2>5, EndsKeeps
<1> QED BY <1>1, <1>2

\* Everything else leaves the turn, the server and the starts on the wire alone.
LEMMA QuietOwnStep ==
  ASSUME TypeOK, NEW c \in Cmd, OwnStep(c)
  PROVE  Quiet \/ (TakeMessage(c) /\ handler[c] \in Undecided)
<1>0. CallTyped /\ EntryAgrees /\ c \in Caller /\ c \notin Turn
  BY TypeParts, CallerFacts
<1>1. CASE (Reply(c) /\ ~TakeMessage(c)) \/ CmdForce(c) \/ Stop(c) \/ UnsteeredForce(c)
           \/ Acknowledge(c)
  <2>1. UNCHANGED <<call, wire, server, active, stage, orphaned, begun>>
    BY <1>1 DEF Reply, CmdForce, Stop, UnsteeredForce, Acknowledge, turn, serverVars, history
  <2> QED BY <2>1, WireStays DEF Quiet
<1>2. CASE SteerAnswered(c) \/ SteerTooLate(c) \/ SignalDone(c)
  <2>1. UNCHANGED <<wire, server, active, stage, orphaned, begun>> /\ Hangup(c)
    BY <1>2 DEF SteerAnswered, SteerTooLate, SignalDone, turn, serverVars, history
  <2>2. \A t \in Turn : call'[t] = call[t]
    BY <1>0, <2>1, CallerFacts DEF Hangup, CallTyped
  <2> QED BY <2>1, <2>2, WireStays DEF Quiet
<1>3. CASE AskSteer(c) \/ AskInterrupt(c)
  <2>1. UNCHANGED <<server, active, stage, orphaned, begun>>
    BY <1>3 DEF AskSteer, AskInterrupt, turn, serverVars, history
  <2>2. CASE UNCHANGED <<call, wire>>
    BY <2>1, <2>2, WireStays DEF Quiet
  <2>3. ASSUME NEW m \in {"turn/steer", "turn/interrupt"}, Sends(c, m, registered),
               registered # NoTurn
        PROVE  Quiet
    <3>1. PICK t \in Turn : t = registered
      BY <1>0, <2>3 DEF EntryAgrees
    <3>2. WireGrows
      BY <1>0, <2>3, <3>1, SendsGrows DEF Method
    <3>3. \A u \in Turn : call'[u] = call[u]
      BY <1>0, <2>3, CallerFacts DEF Sends, CallTyped
    <3> QED BY <2>1, <3>2, <3>3 DEF Quiet
  <2> QED BY <1>3, <2>2, <2>3 DEF AskSteer, AskInterrupt
<1>4. CASE TakeMessage(c) /\ (PlainMessage(c) \/ Reply(c) \/ UnsteeredReply(c))
  BY <1>4 DEF PlainMessage, Reply, UnsteeredReply, Undecided
<1> QED BY <1>1, <1>2, <1>3, <1>4
        DEF OwnStep, NewUpdate, HandlerStep, PlainMessage, UnsteeredReply

LEMMA TakeKeeps ==
  ASSUME TypeOK, ServerInv, StageInv, NEW c \in Cmd, TakeMessage(c), Untaken(c)
  PROVE  ServerInv' /\ StageInv'
<1>1. PICK t \in Turn : t = OwnTurn(c)
  BY CallerFacts
<1>2. CASE active = NoTurn /\ queue = <<>>
  <2>1. Begins(t)
    BY <1>1, <1>2 DEF TakeMessage, Begin, Begins, Untaken, serverVars
  <2> QED BY <2>1, BeginsKeeps
<1>3. CASE ~(active = NoTurn /\ queue = <<>>)
  <2>1. Quiet
    BY <1>3, WireStays DEF TakeMessage, Quiet, serverVars
  <2> QED BY <2>1, QuietKeeps
<1> QED BY <1>2, <1>3

LEMMA DrainKeeps ==
  ASSUME TypeOK, BegunInv, ServerInv, StageInv, Drain
  PROVE  ServerInv' /\ StageInv'
<1>0. BotTyped
  BY TypeParts
<1>1. CASE active = NoTurn /\ queue # <<>>
  <2>1. PICK t \in Turn : t = Head(queue)
    BY <1>0, <1>1, HeadFacts DEF BotTyped
  <2>2. t \notin begun
    BY <1>0, <1>1, <2>1, QueueEnds DEF BegunInv
  <2>3. Begins(t)
    BY <1>1, <2>1, <2>2 DEF Drain, Begin, Begins, serverVars
  <2> QED BY <2>3, BeginsKeeps
<1>2. CASE ~(active = NoTurn /\ queue # <<>>)
  <2>1. Quiet
    BY <1>2, WireStays DEF Drain, Quiet, serverVars
  <2> QED BY <2>1, QuietKeeps
<1> QED BY <1>1, <1>2

LEMMA ServerStep ==
  ASSUME TypeOK, WireInv, TakenInv, BegunInv, ServerInv, StageInv, [Next]_vars
  PROVE  ServerInv' /\ StageInv'
<1>1. ASSUME NEW c \in Cmd, OwnStep(c) PROVE ServerInv' /\ StageInv'
  <2>1. CASE Quiet
    BY <2>1, QuietKeeps
  <2>2. CASE TakeMessage(c) /\ handler[c] \in Undecided
    BY <2>2, TakeKeeps DEF TakenInv
  <2> QED BY <1>1, <2>1, <2>2, QuietOwnStep
<1>2. ASSUME NEW t \in Turn, CancelEnds(t) PROVE Quiet
  <2>1. \A u \in Turn : call'[u] = call[u]
    BY <1>2, TypeParts, CallerFacts DEF CancelEnds, Hangup, CallTyped
  <2> QED BY <1>2, <2>1, WireStays DEF CancelEnds, Quiet, bot, history
<1>3. ASSUME CliExpires \/ UNCHANGED vars PROVE Quiet
  BY <1>3, WireStays DEF CliExpires, Quiet, vars, bot, turn, serverVars, history
<1>4. CASE CliExpires \/ UNCHANGED vars \/ \E t \in Turn : CancelEnds(t)
  BY <1>2, <1>3, <1>4, QuietKeeps
<1> QED BY <1>1, <1>4, TurnKeeps, ConnectKeeps, OuterBoundKeeps, ReleaseKeeps, SpawnKeeps,
           CompletesKeeps, DiesKeeps, ServeKeeps, DrainKeeps
        DEF Next, OwnStep, AppTurnStep

\* The app-server runs one turn of the conversation at a time, but for those whose
\* start Relay gave up: an interrupt that nobody waits for is still ahead of the next
\* turn/start (codex_app_server.py:254, 309).
THEOREM ServerRunsOneTurn == Spec => []OneTurnOnServer
<1> DEFINE Inv == TypeOK /\ WireInv /\ TakenInv /\ BegunInv /\ ServerInv /\ StageInv
<1>1. Init => Inv
  <2> SUFFICES ASSUME Init PROVE Inv
    OBVIOUS
  <2>1. TypeOK
    BY InitTyped
  <2>2. queue = <<>> /\ wire = <<>> /\ begun = {} /\ orphaned = {} /\ active = NoTurn
        /\ stage = "idle" /\ \A t \in Turn : server[t] = "none"
    BY DEF Init
  <2>3. WireInv /\ TakenInv /\ BegunInv
    BY <2>2 DEF WireInv, TakenInv, Untaken, Waiting, BegunInv, QueuedOnce, RecoveryOf
  <2>4. ServerInv
    BY <2>2 DEF ServerInv, StartInv, RunningInv, OneTurnOnServer
  <2>5. StageInv
    BY <2>2, NoTurnAssumption DEF StageInv, FreshInv
  <2> QED BY <2>1, <2>3, <2>4, <2>5
<1>2. Inv /\ [Next]_vars => Inv'
  BY TypeStep, WireStep, TakenStep, BegunStep, ServerStep
<1>3. Inv => OneTurnOnServer
  BY DEF ServerInv
<1> QED BY <1>1, <1>2, <1>3, PTL DEF Spec

=============================================================================
