----------------------------- MODULE DaemonProofs -----------------------------
(***************************************************************************)
(* Proofs about Daemon, for any number of callers, requests and            *)
(* notifications: types, that tool calls are told only what was answered   *)
(* to them, and that one of them at a time reads from the server.          *)
(***************************************************************************)
EXTENDS Daemon, SequenceTheorems, TLAPS

States == {"idle", "waiting", "reading", "backoff", "done"}

\* AnswersMatch, and the types of what it speaks of.  A call with a result is over for
\* good, so its request is never replaced by that of another attempt.
AnswerInv ==
  /\ state \in [Tasks -> States]
  /\ req \in [Tasks -> Nat]
  /\ result \in [Tasks -> Nat]
  /\ lastId \in Nat
  /\ AnswersMatch

LEMMA CallerFacts == /\ Callers \subseteq Tasks /\ Core \in Tasks /\ Core \notin Callers
                     /\ \A t \in Tasks : t # Core => t \in Callers
BY DaemonAssumption DEF Tasks

LEMMA InitAnswer == Init => AnswerInv
BY CallerFacts DEF Init, AnswerInv, States, AnswersMatch

\* Some task goes to another place, and keeps its request and its result.
LEMMA Moves ==
  ASSUME AnswerInv, NEW t \in Tasks, NEW next \in States,
         t \in Callers => state[t] # "done" \/ next = "done",
         state' = [state EXCEPT ![t] = next],
         UNCHANGED <<lastId, req, result>>
  PROVE  AnswerInv'
BY CallerFacts DEF AnswerInv, AnswersMatch

LEMMA Begins ==
  ASSUME AnswerInv, NEW t \in Tasks, Begin(t), t \in Callers => state[t] # "done"
  PROVE  AnswerInv'
<1>1. /\ lastId' = lastId + 1 /\ req' = [req EXCEPT ![t] = lastId + 1]
      /\ state' = [state EXCEPT ![t] = "waiting"] /\ result' = result
  BY DEF Begin
<1>2. AnswersMatch'
  BY <1>1, CallerFacts DEF AnswerInv, AnswersMatch
<1>3. QED
  BY <1>1, <1>2 DEF AnswerInv, States

\* Everything but the state of calls that are not over stays.
LEMMA Keeps ==
  ASSUME AnswerInv, state' \in [Tasks -> States],
         \A c \in Callers : state[c] = "done" => state'[c] = "done",
         UNCHANGED <<lastId, req, result>>
  PROVE  AnswerInv'
BY CallerFacts DEF AnswerInv, AnswersMatch

\* The state a call that returns is left in.
LEMMA Returns ==
  ASSUME NEW t \in Tasks, NEW ok \in BOOLEAN, Return(t, ok)
  PROVE  \E next \in States :
           /\ state' = [state EXCEPT ![t] = next]
           /\ t \in Callers /\ ok => next = "done"
BY CallerFacts DEF Return, CoreReturns, CallerReturns, States

LEMMA ReadLineInv ==
  ASSUME AnswerInv, NEW t \in Tasks, ReadLine(t)
  PROVE  AnswerInv'
<1> DEFINE l == Head(fromServer)
<1>1. state[t] = "reading" /\ UNCHANGED <<lastId, req>>
  BY DEF ReadLine
<1>2. CASE ~IsAnswer(t, l)
  BY <1>1, <1>2, Keeps DEF ReadLine, AnswerInv
<1>3. CASE IsAnswer(t, l)
  <2>1. l.id = req[t] /\ result' = [result EXCEPT ![t] = IF l.ok THEN l.id ELSE 0] /\ Return(t, l.ok)
    BY <1>3 DEF ReadLine, IsAnswer
  <2>2. CASE l.ok
    <3>1. /\ Return(t, l.ok) /\ l.ok
          /\ result' = [result EXCEPT ![t] = req[t]]
      BY <2>1, <2>2
    <3>2. PICK next \in States :
            /\ state' = [state EXCEPT ![t] = next]
            /\ t \in Callers => next = "done"
      BY <3>1, CallerFacts DEF Return, CoreReturns, CallerReturns, States
    <3>3. AnswersMatch'
      BY <1>1, <3>1, <3>2, CallerFacts DEF AnswerInv, AnswersMatch
    <3>4. QED
      BY <1>1, <3>1, <3>2, <3>3 DEF AnswerInv
  <2>3. CASE ~l.ok
    <3>1. result' = [result EXCEPT ![t] = 0]
      BY <2>1, <2>3
    <3>2. PICK next \in States : state' = [state EXCEPT ![t] = next]
      BY <2>1, CallerFacts DEF Return, CoreReturns, CallerReturns, States
    <3>3. AnswersMatch'
      BY <1>1, <3>1, <3>2, CallerFacts DEF AnswerInv, AnswersMatch
    <3>4. QED
      BY <1>1, <3>1, <3>2, <3>3 DEF AnswerInv
  <2>4. QED
    BY <2>2, <2>3
<1>4. QED
  BY <1>2, <1>3

LEMMA NextAnswer == AnswerInv /\ [Next]_vars => AnswerInv'
<1> SUFFICES ASSUME AnswerInv, [Next]_vars PROVE AnswerInv'
  OBVIOUS
<1>1. CASE UNCHANGED <<lastId, state, req, result>>
  BY <1>1 DEF AnswerInv, AnswersMatch
<1>2. ASSUME NEW t \in Tasks, Calls(t) PROVE AnswerInv'
  <2>1. CASE Acquire(t)
    BY <2>1, Moves DEF Acquire, States
  <2>2. CASE ReadLine(t)
    BY <2>2, ReadLineInv
  <2>3. CASE ReadFails(t)
    <3>1. state[t] = "reading" /\ Return(t, FALSE) /\ UNCHANGED <<lastId, req, result>>
      BY <2>3 DEF ReadFails
    <3>2. PICK next \in States : state' = [state EXCEPT ![t] = next]
      BY <3>1, Returns
    <3>3. QED
      BY <3>1, <3>2, Moves
  <2>4. QED
    BY <1>2, <2>1, <2>2, <2>3 DEF Calls
<1>3. ASSUME NEW c \in Callers, Invoke(c) \/ Retry(c) \/ Abandon(c) PROVE AnswerInv'
  <2>1. c \in Tasks
    BY CallerFacts
  <2>2. CASE Invoke(c)
    BY <2>1, <2>2, Begins DEF Invoke
  <2>3. CASE Retry(c)
    BY <2>1, <2>3, Begins, Moves DEF Retry, States
  <2>4. CASE Abandon(c)
    BY <2>1, <2>4, Moves DEF Abandon, States
  <2>5. QED
    BY <1>3, <2>2, <2>3, <2>4
<1>4. CASE Server \/ ServerNotifies \/ ServerDies
  BY <1>1, <1>4 DEF Server, ServerTakes, ServerAnswers, ServerNotifies, ServerDies, mcpVars
<1>5. CASE Start \/ ListTools
  BY <1>1, <1>5, Begins, CallerFacts DEF Start, ListTools, mcpVars
<1>6. CASE Signal \/ StopServers \/ StopTrace
  BY <1>1, <1>6 DEF Signal, StopServers, StopTrace, mcpVars
<1>7. CASE Down
  <2>1. /\ state' = [t \in Tasks |-> IF state[t] = "idle" THEN "idle" ELSE "done"]
        /\ UNCHANGED <<lastId, req, result>>
    BY <1>7 DEF Down
  <2>2. state' \in [Tasks -> States] /\ \A c \in Callers : state[c] = "done" => state'[c] = "done"
    BY <2>1, CallerFacts DEF States
  <2>3. QED
    BY <2>1, <2>2, Keeps
<1>8. CASE Drains \/ DrainDies
  BY <1>1, <1>8 DEF Drains, DrainDies, mcpVars
<1>9. CASE UNCHANGED vars
  BY <1>1, <1>9 DEF vars, mcpVars
<1>10. QED
  BY <1>2, <1>3, <1>4, <1>5, <1>6, <1>7, <1>8, <1>9 DEF Next, Shutdown

\* However many calls were abandoned, tried again or ended by the shutdown, a call is
\* told only what the server answered to its last request.
THEOREM AnswersTheorem == Spec => []AnswersMatch
<1>1. AnswerInv => AnswersMatch
  BY DEF AnswerInv
<1>2. QED
  BY <1>1, InitAnswer, NextAnswer, PTL DEF Spec

-----------------------------------------------------------------------------
(* Types.                                                                  *)

\* What counts the attempts: those of a call, and the two requests of the daemon.
Attempted ==
  /\ \A c \in Callers : /\ state[c] = "idle" => attempt[c] = 0
                        /\ state[c] = "backoff" => attempt[c] < MaxAttempts
  /\ phase = "off" => state[Core] = "idle" /\ attempt[Core] = 0
  /\ phase = "booting" => attempt[Core] = 1
  /\ phase = "listing" /\ state[Core] = "idle" => attempt[Core] = 1

\* Whoever is to write a request has one.
Asking == \A t \in Tasks : state[t] \in {"waiting", "reading"} => req[t] \in Ids

TypeInv == TypeOK /\ Attempted /\ Asking

LEMMA RemoveAtType ==
  ASSUME NEW S, NEW q \in Seq(S), NEW i \in 1..Len(q)
  PROVE  RemoveAt(q, i) \in Seq(S)
<1>1. Len(q) \in Nat /\ \A j \in 1..Len(q) : q[j] \in S
  OBVIOUS
<1>2. SubSeq(q, 1, i - 1) \in Seq(S) /\ SubSeq(q, i + 1, Len(q)) \in Seq(S)
  BY <1>1, SubSeqProperties
<1>3. QED
  BY <1>2 DEF RemoveAt

LEMMA WithoutType ==
  ASSUME lock \in Seq(Tasks), NEW t
  PROVE  Without(t) \in Seq(Tasks)
<1>1. CASE t \in ToSet(lock)
  <2>1. PICK j \in 1..Len(lock) : lock[j] = t
    BY <1>1 DEF ToSet
  <2>2. (CHOOSE i \in 1..Len(lock) : lock[i] = t) \in 1..Len(lock)
    BY <2>1
  <2>3. QED
    BY <1>1, <2>2, RemoveAtType DEF Without
<1>2. CASE t \notin ToSet(lock)
  BY <1>2 DEF Without
<1>3. QED
  BY <1>1, <1>2

LEMMA ClientTypes ==
  ASSUME TypeInv, NEW t \in Tasks, Begin(t), attempt[t] < MaxAttempts
  PROVE  /\ lastId' \in 0..MaxIds /\ lock' \in Seq(Tasks)
         /\ state' \in [Tasks -> States] /\ req' \in [Tasks -> 0..MaxIds]
         /\ attempt' \in [Tasks -> 0..MaxAttempts] /\ result' \in [Tasks -> 0..MaxIds]
         /\ Asking'
         /\ state'[t] = "waiting" /\ attempt'[t] = attempt[t] + 1
         /\ \A u \in Tasks \ {t} : state'[u] = state[u] /\ attempt'[u] = attempt[u]
<1>1. /\ lastId \in Nat /\ MaxIds \in Nat /\ lastId < MaxIds /\ lastId + 1 \in Ids
      /\ attempt[t] \in Nat
  <2>1. /\ lastId \in 0..MaxIds /\ MaxIds \in Nat /\ lastId < MaxIds
        /\ attempt[t] \in 0..MaxAttempts
    BY DaemonAssumption DEF TypeInv, TypeOK, Begin
  <2>2. QED
    BY <2>1 DEF Ids, MaxAttempts
<1>2. lock' \in Seq(Tasks)
  BY AppendProperties DEF TypeInv, TypeOK, Begin
<1>3. /\ lastId' = lastId + 1 /\ req' = [req EXCEPT ![t] = lastId + 1]
      /\ state' = [state EXCEPT ![t] = "waiting"]
      /\ attempt' = [attempt EXCEPT ![t] = attempt[t] + 1] /\ result' = result
  BY DEF Begin
<1>4. /\ state \in [Tasks -> States] /\ req \in [Tasks -> 0..MaxIds]
      /\ attempt \in [Tasks -> 0..MaxAttempts] /\ result \in [Tasks -> 0..MaxIds]
  BY DEF TypeInv, TypeOK, States
<1>5. lastId' \in 0..MaxIds /\ lastId + 1 \in 0..MaxIds /\ attempt[t] + 1 \in 0..MaxAttempts
  BY <1>1, <1>3 DEF MaxAttempts
<1>6. /\ state' \in [Tasks -> States] /\ req' \in [Tasks -> 0..MaxIds]
      /\ attempt' \in [Tasks -> 0..MaxAttempts] /\ result' \in [Tasks -> 0..MaxIds]
  BY <1>3, <1>4, <1>5 DEF States
<1>7. Asking'
  BY <1>1, <1>3, <1>4 DEF TypeInv, Asking, Ids
<1>8. QED
  BY <1>2, <1>3, <1>4, <1>5, <1>6, <1>7

LEMMA BeginTypes ==
  ASSUME TypeInv, NEW t \in Tasks, Begin(t), attempt[t] < MaxAttempts,
         phase' \in Phases, alive' \in BOOLEAN, UNCHANGED <<offered, serverVars, traceVars>>,
         t = Core => \/ phase' = "booting" /\ attempt[Core] = 0
                     \/ phase' = "listing",
         t # Core => phase' = phase
  PROVE  TypeInv'
<1>1. /\ lastId' \in 0..MaxIds /\ lock' \in Seq(Tasks)
      /\ state' \in [Tasks -> States] /\ req' \in [Tasks -> 0..MaxIds]
      /\ attempt' \in [Tasks -> 0..MaxAttempts] /\ result' \in [Tasks -> 0..MaxIds]
      /\ Asking'
      /\ state'[t] = "waiting" /\ attempt'[t] = attempt[t] + 1
      /\ \A u \in Tasks \ {t} : state'[u] = state[u] /\ attempt'[u] = attempt[u]
  BY ClientTypes
<1>2. TypeOK'
  BY <1>1 DEF TypeInv, TypeOK, serverVars, traceVars, States
<1>3. Attempted'
  <2>1. \A c \in Callers : /\ state'[c] = "idle" => attempt'[c] = 0
                           /\ state'[c] = "backoff" => attempt'[c] < MaxAttempts
    BY <1>1, CallerFacts DEF TypeInv, Attempted
  <2>2. CASE t = Core
    <3>1. state'[Core] = "waiting" /\ attempt'[Core] = attempt[Core] + 1
      BY <1>1, <2>2
    <3>2. QED
      BY <2>1, <2>2, <3>1 DEF Attempted
  <2>3. CASE t # Core
    <3>1. state'[Core] = state[Core] /\ attempt'[Core] = attempt[Core] /\ phase' = phase
      BY <1>1, <2>3, CallerFacts
    <3>2. QED
      BY <2>1, <3>1 DEF TypeInv, Attempted
  <2>4. QED
    BY <2>2, <2>3
<1>4. QED
  BY <1>1, <1>2, <1>3 DEF TypeInv

\* A call that is in the lock returns; the line it has read, if any, is still to be noted.
LEMMA ReturnTypes ==
  ASSUME TypeInv, NEW t \in Tasks, NEW ok \in BOOLEAN, Return(t, ok), state[t] = "reading",
         UNCHANGED <<alive, lastId, req, attempt, toServer, working, notices>>,
         result' \in [Tasks -> 0..MaxIds],
         fromServer' \in Seq([id : 0..MaxIds, ok : BOOLEAN])
  PROVE  TypeInv'
<1>1. lock' \in Seq(Tasks)
  BY WithoutType DEF TypeInv, TypeOK, Return
<1>2. CASE t = Core
  <2>1. /\ state' = [state EXCEPT ![Core] = "idle"]
        /\ phase' = IF ok /\ phase = "booting" THEN "listing" ELSE "serving"
        /\ offered' = (ok /\ phase = "listing")
        /\ UNCHANGED traceVars
    BY <1>2 DEF Return, CoreReturns
  <2>2. TypeOK'
    BY <1>1, <2>1 DEF TypeInv, TypeOK, Phases, traceVars
  <2>3. state'[Core] = "idle" /\ \A c \in Callers : state'[c] = state[c]
    BY <2>1, CallerFacts DEF TypeInv, TypeOK
  <2>4. Attempted'
    BY <2>1, <2>3 DEF TypeInv, Attempted
  <2>5. Asking'
    BY <2>1 DEF TypeInv, TypeOK, Asking
  <2>6. QED
    BY <2>2, <2>4, <2>5 DEF TypeInv
<1>3. CASE t # Core
  <2>1. /\ t \in Callers /\ UNCHANGED <<phase, offered>>
        /\ \/ /\ attempt[t] < MaxAttempts /\ state' = [state EXCEPT ![t] = "backoff"]
              /\ UNCHANGED traceVars
           \/ state' = [state EXCEPT ![t] = "done"] /\ queued' = queued + 1 /\ UNCHANGED drain
    BY <1>3, CallerFacts DEF Return, CallerReturns, Emit
  <2>2. queued' \in Nat /\ drain' = drain
    BY <2>1 DEF traceVars, TypeInv, TypeOK
  <2>3. TypeOK'
    BY <1>1, <2>1, <2>2 DEF TypeInv, TypeOK
  <2>4. Attempted'
    BY <1>3, <2>1, CallerFacts DEF TypeInv, TypeOK, Attempted
  <2>5. Asking'
    BY <2>1 DEF TypeInv, TypeOK, Asking
  <2>6. QED
    BY <2>3, <2>4, <2>5 DEF TypeInv
<1>4. QED
  BY <1>2, <1>3

LEMMA CallsTypes ==
  ASSUME TypeInv, NEW t \in Tasks, Calls(t)
  PROVE  TypeInv'
<1>1. CASE Acquire(t)
  <2>1. /\ state[t] = "waiting" /\ state' = [state EXCEPT ![t] = "reading"]
        /\ toServer' = (IF alive THEN Append(toServer, req[t]) ELSE toServer)
        /\ UNCHANGED <<phase, offered, alive, lastId, lock, req, attempt, result>>
        /\ UNCHANGED <<working, fromServer, notices, drain, queued>>
    BY <1>1 DEF Acquire, traceVars
  <2>2. toServer' \in Seq(Ids)
    BY <2>1, AppendProperties DEF TypeInv, TypeOK, Asking
  <2>3. TypeOK'
    BY <2>1, <2>2 DEF TypeInv, TypeOK
  <2>4. Attempted'
    BY <2>1, CallerFacts DEF TypeInv, TypeOK, Attempted
  <2>5. Asking'
    BY <2>1 DEF TypeInv, TypeOK, Asking
  <2>6. QED
    BY <2>3, <2>4, <2>5 DEF TypeInv
<1>2. CASE ReadLine(t)
  <2> DEFINE l == Head(fromServer)
  <2>1. /\ state[t] = "reading" /\ fromServer # <<>>
        /\ UNCHANGED <<alive, lastId, req, attempt, toServer, working, notices>>
        /\ fromServer' = Tail(fromServer)
    BY <1>2 DEF ReadLine
  <2>2. /\ l \in [id : 0..MaxIds, ok : BOOLEAN]
        /\ fromServer' \in Seq([id : 0..MaxIds, ok : BOOLEAN])
    BY <2>1, HeadTailProperties DEF TypeInv, TypeOK
  <2>3. CASE IsAnswer(t, l)
    <3>1. Return(t, l.ok) /\ result' = [result EXCEPT ![t] = IF l.ok THEN l.id ELSE 0]
      BY <1>2, <2>3 DEF ReadLine
    <3> HIDE DEF l
    <3>2. l.ok \in BOOLEAN /\ l.id \in 0..MaxIds /\ 0 \in 0..MaxIds
      BY <2>2, DaemonAssumption
    <3>3. result' \in [Tasks -> 0..MaxIds]
      BY <3>1, <3>2 DEF TypeInv, TypeOK
    <3>4. QED
      BY <2>1, <2>2, <3>1, <3>2, <3>3, ReturnTypes
  <2>4. CASE ~IsAnswer(t, l)
    <3>1. UNCHANGED <<phase, offered, lock, state, result, drain, queued>>
      BY <1>2, <2>4 DEF ReadLine, traceVars
    <3>2. QED
      BY <2>1, <2>2, <3>1 DEF TypeInv, TypeOK, Attempted, Asking
  <2>5. QED
    BY <2>3, <2>4
<1>3. CASE ReadFails(t)
  BY <1>3, ReturnTypes DEF ReadFails, serverVars, TypeInv, TypeOK
<1>4. QED
  BY <1>1, <1>2, <1>3 DEF Calls

LEMMA AgentTypes ==
  ASSUME TypeInv, NEW c \in Callers, Invoke(c) \/ Retry(c) \/ Abandon(c)
  PROVE  TypeInv'
<1>1. c \in Tasks /\ c # Core
  BY CallerFacts
<1>2. CASE Invoke(c)
  <2>1. /\ state[c] = "idle" /\ Begin(c)
        /\ UNCHANGED <<phase, offered, alive, serverVars, traceVars>>
    BY <1>2 DEF Invoke
  <2>2. attempt[c] < MaxAttempts
    BY <2>1 DEF TypeInv, Attempted, MaxAttempts
  <2>3. phase' \in Phases /\ alive' \in BOOLEAN
    BY <2>1 DEF TypeInv, TypeOK
  <2>4. QED
    BY <1>1, <2>1, <2>2, <2>3, BeginTypes
<1>3. ASSUME state' = [state EXCEPT ![c] = "done"], Emit, lock' \in Seq(Tasks),
             UNCHANGED <<phase, offered, alive, lastId, req, attempt, result, serverVars>>
      PROVE  TypeInv'
  <2>1. queued' \in Nat /\ drain' = drain
    BY <1>3 DEF Emit, TypeInv, TypeOK
  <2>2. TypeOK'
    BY <1>3, <2>1 DEF TypeInv, TypeOK, serverVars
  <2>3. Attempted' /\ Asking'
    BY <1>1, <1>3, CallerFacts DEF TypeInv, TypeOK, Attempted, Asking
  <2>4. QED
    BY <2>2, <2>3 DEF TypeInv
<1>4. CASE Retry(c)
  <2>1. CASE lastId < MaxIds
    BY <1>1, <1>4, <2>1, BeginTypes DEF Retry, TypeInv, TypeOK, Attempted
  <2>2. CASE ~(lastId < MaxIds)
    BY <1>3, <1>4, <2>2 DEF Retry, TypeInv, TypeOK
  <2>3. QED
    BY <2>1, <2>2
<1>5. CASE Abandon(c)
  BY <1>3, <1>5, WithoutType DEF Abandon, TypeInv, TypeOK
<1>6. QED
  BY <1>2, <1>4, <1>5

LEMMA ServerTypes ==
  ASSUME TypeInv, Server \/ ServerNotifies \/ ServerDies
  PROVE  TypeInv'
<1>1. /\ UNCHANGED <<phase, offered, lastId, lock, state, req, attempt, result, drain, queued>>
      /\ alive' \in BOOLEAN
  BY DEF Server, ServerTakes, ServerAnswers, ServerNotifies, ServerDies, mcpVars, traceVars,
         TypeInv, TypeOK
<1>2. SUFFICES /\ toServer' \in Seq(Ids) /\ working' \subseteq Ids /\ notices' \in 0..MaxNotices
               /\ fromServer' \in Seq([id : 0..MaxIds, ok : BOOLEAN])
  BY <1>1 DEF TypeInv, TypeOK, Attempted, Asking
<1>3. CASE ServerTakes
  BY <1>3, HeadTailProperties DEF ServerTakes, TypeInv, TypeOK
<1>4. ASSUME NEW i \in Ids, NEW ok \in BOOLEAN, ServerAnswers(i, ok)
      PROVE  /\ toServer' \in Seq(Ids) /\ working' \subseteq Ids /\ notices' \in 0..MaxNotices
             /\ fromServer' \in Seq([id : 0..MaxIds, ok : BOOLEAN])
  <2>1. [id |-> i, ok |-> ok] \in [id : 0..MaxIds, ok : BOOLEAN]
    BY DaemonAssumption DEF Ids
  <2>2. QED
    BY <1>4, <2>1, AppendProperties DEF ServerAnswers, TypeInv, TypeOK
<1>5. CASE ServerNotifies
  <2>1. Notice \in [id : 0..MaxIds, ok : BOOLEAN]
    BY DaemonAssumption DEF Notice
  <2>2. notices' \in 0..MaxNotices
    BY <1>5, DaemonAssumption DEF ServerNotifies, TypeInv, TypeOK
  <2>3. QED
    BY <1>5, <2>1, <2>2, AppendProperties DEF ServerNotifies, TypeInv, TypeOK
<1>6. CASE ServerDies
  BY <1>6 DEF ServerDies, TypeInv, TypeOK
<1>7. QED
  BY <1>3, <1>4, <1>5, <1>6 DEF Server

LEMMA DaemonTypes ==
  ASSUME TypeInv, Start \/ ListTools \/ Signal \/ Shutdown
  PROVE  TypeInv'
<1>1. CASE Start
  <2>1. CASE alive' = TRUE /\ phase' = "booting" /\ Begin(Core)
    BY <1>1, <2>1, CallerFacts, BeginTypes
    DEF Start, TypeInv, Attempted, Phases, MaxAttempts
  <2>2. CASE phase' = "serving" /\ UNCHANGED <<alive, mcpVars>>
    BY <1>1, <2>2
    DEF Start, mcpVars, serverVars, traceVars, TypeInv, TypeOK, Attempted, Asking, Phases
  <2>3. \/ alive' = TRUE /\ phase' = "booting" /\ Begin(Core)
        \/ phase' = "serving" /\ UNCHANGED <<alive, mcpVars>>
    BY <1>1, Zenon DEF Start
  <2>4. QED
    BY <2>1, <2>2, <2>3, Zenon
<1>2. CASE ListTools
  <2>1. /\ phase = "listing" /\ state[Core] = "idle" /\ Begin(Core)
        /\ UNCHANGED <<phase, offered, alive, serverVars, traceVars>>
    BY <1>2 DEF ListTools
  <2>2. attempt[Core] < MaxAttempts
    BY <2>1 DEF TypeInv, Attempted, MaxAttempts
  <2>3. phase' \in Phases /\ alive' \in BOOLEAN
    BY <2>1 DEF TypeInv, TypeOK
  <2>4. QED
    BY <2>1, <2>2, <2>3, CallerFacts, BeginTypes
<1>3. CASE Signal
  BY <1>3
  DEF Signal, mcpVars, serverVars, traceVars, TypeInv, TypeOK, Attempted, Asking, Phases
<1>4. CASE StopServers
  <2>1. /\ phase' = "closed" /\ alive' \in BOOLEAN /\ toServer' \in Seq(Ids) /\ working' \subseteq Ids
        /\ UNCHANGED <<offered, lastId, lock, state, req, attempt, result>>
        /\ UNCHANGED <<fromServer, notices, drain, queued>>
    <3>1. /\ phase' = "closed"
          /\ UNCHANGED <<offered, lastId, lock, state, req, attempt, result>>
          /\ UNCHANGED <<fromServer, notices, drain, queued>>
      BY <1>4 DEF StopServers, mcpVars, traceVars
    <3>2. /\ alive \in BOOLEAN /\ toServer \in Seq(Ids) /\ working \subseteq Ids
          /\ <<>> \in Seq(Ids)
      BY DEF TypeInv, TypeOK
    <3>3. \/ alive' = FALSE /\ toServer' = <<>> /\ working' = {}
          \/ UNCHANGED <<alive, toServer, working>>
      BY <1>4 DEF StopServers, Close
    <3>4. QED
      BY <3>1, <3>2, <3>3
  <2>2. QED
    BY <2>1 DEF TypeInv, TypeOK, Attempted, Asking, Phases
<1>5. CASE StopTrace
  BY <1>5
  DEF StopTrace, mcpVars, serverVars, traceVars, TypeInv, TypeOK, Attempted, Asking, Phases
<1>6. CASE Down
  <2>1. /\ phase' = "down" /\ drain' \in {"up", "dead", "stopped"} /\ lock' = <<>>
        /\ state' = [t \in Tasks |-> IF state[t] = "idle" THEN "idle" ELSE "done"]
        /\ UNCHANGED <<offered, alive, lastId, req, attempt, result>>
        /\ UNCHANGED <<toServer, working, fromServer, notices, queued>>
    BY <1>6 DEF Down, serverVars, TypeInv, TypeOK
  <2>2. TypeOK'
    BY <2>1 DEF TypeInv, TypeOK, Phases
  <2>3. Attempted' /\ Asking'
    BY <2>1, CallerFacts DEF TypeInv, Attempted, Asking
  <2>4. QED
    BY <2>2, <2>3 DEF TypeInv
<1>7. QED
  BY <1>1, <1>2, <1>3, <1>4, <1>5, <1>6 DEF Shutdown

LEMMA TraceTypes ==
  ASSUME TypeInv, Drains \/ DrainDies
  PROVE  TypeInv'
<1>1. queued' \in Nat /\ drain' \in {"up", "dead", "stopped"}
  BY DEF Drains, DrainDies, TypeInv, TypeOK
<1>2. UNCHANGED <<phase, offered, alive, mcpVars, serverVars>>
  BY DEF Drains, DrainDies
<1>3. QED
  BY <1>1, <1>2 DEF mcpVars, serverVars, TypeInv, TypeOK, Attempted, Asking

LEMMA TypesHold == Spec => []TypeInv
<1>1. Init => TypeInv
  <2>1. SUFFICES ASSUME Init PROVE TypeInv
    OBVIOUS
  <2>2. 0 \in 0..MaxIds /\ 0 \in 0..MaxNotices /\ 0 \in 0..MaxAttempts
    BY DaemonAssumption DEF MaxAttempts
  <2>3. TypeOK
    <3>1. /\ phase \in Phases /\ offered \in BOOLEAN /\ alive \in BOOLEAN
          /\ lastId \in 0..MaxIds /\ notices \in 0..MaxNotices
          /\ drain \in {"up", "dead", "stopped"} /\ queued \in Nat /\ working \subseteq Ids
      BY <2>1, <2>2 DEF Init, Phases
    <3>2. lock \in Seq(Tasks) /\ toServer \in Seq(Ids)
      BY <2>1 DEF Init
    <3>3. fromServer \in Seq([id : 0..MaxIds, ok : BOOLEAN])
      BY <2>1 DEF Init
    <3>4. /\ state \in [Tasks -> States] /\ req \in [Tasks -> 0..MaxIds]
          /\ attempt \in [Tasks -> 0..MaxAttempts] /\ result \in [Tasks -> 0..MaxIds]
      BY <2>1, <2>2 DEF Init, States
    <3>5. QED
      BY <3>1, <3>2, <3>3, <3>4 DEF TypeOK, States
  <2>4. Attempted /\ Asking
    BY <2>1, CallerFacts DEF Init, Attempted, Asking
  <2>5. QED
    BY <2>3, <2>4 DEF TypeInv
<1>2. TypeInv /\ [Next]_vars => TypeInv'
  <2>1. SUFFICES ASSUME TypeInv, [Next]_vars PROVE TypeInv'
    OBVIOUS
  <2>2. CASE UNCHANGED vars
    BY <2>1, <2>2
    DEF vars, mcpVars, serverVars, traceVars, TypeInv, TypeOK, Attempted, Asking
  <2>3. QED
    BY <2>1, <2>2, CallsTypes, AgentTypes, ServerTypes, DaemonTypes, TraceTypes DEF Next
<1>3. QED
  BY <1>1, <1>2, PTL DEF Spec

\* A call is never tried more often than invoke_tool allows, every line that is sent
\* belongs to a request, and the trace never counts more records done than put.
THEOREM TypeTheorem == Spec => []TypeOK
<1>1. TypeInv => TypeOK
  BY DEF TypeInv
<1>2. QED
  BY <1>1, TypesHold, PTL

-----------------------------------------------------------------------------
(* The lock of the client.                                                 *)

InLock(t) == \E i \in 1..Len(lock) : lock[i] = t

\* Each call is in the lock once while it waits or reads, and whoever reads holds it.
LockInv ==
  /\ \A i, j \in 1..Len(lock) : lock[i] = lock[j] => i = j
  /\ \A t \in Tasks : state[t] \in {"waiting", "reading"} <=> InLock(t)
  /\ \A t \in Tasks : state[t] = "reading" => lock[1] = t

LEMMA RemoveAtFacts ==
  ASSUME NEW S, NEW q \in Seq(S), NEW k \in 1..Len(q)
  PROVE  /\ Len(RemoveAt(q, k)) = Len(q) - 1
         /\ \A i \in 1..(Len(q) - 1) : RemoveAt(q, k)[i] = IF i < k THEN q[i] ELSE q[i + 1]
<1> DEFINE before == SubSeq(q, 1, k - 1)
           after == SubSeq(q, k + 1, Len(q))
<1>1. Len(q) \in Nat /\ \A j \in 1..Len(q) : q[j] \in S
  OBVIOUS
<1>2. /\ before \in Seq(S) /\ Len(before) = k - 1
      /\ \A i \in 1..(k - 1) : before[i] = q[i]
  BY <1>1, SubSeqProperties
<1>3. /\ after \in Seq(S) /\ Len(after) = Len(q) - k
      /\ \A i \in 1..(Len(q) - k) : after[i] = q[i + k]
  BY <1>1, SubSeqProperties
<1>4. RemoveAt(q, k) = before \o after
  BY DEF RemoveAt
<1> HIDE DEF before, after
<1>5. /\ Len(before \o after) = Len(before) + Len(after)
      /\ \A i \in 1..(Len(before) + Len(after)) :
           (before \o after)[i] = IF i <= Len(before) THEN before[i] ELSE after[i - Len(before)]
  BY <1>2, <1>3, ConcatProperties
<1>6. Len(before) + Len(after) = Len(q) - 1 /\ k \in Nat
  BY <1>1, <1>2, <1>3
<1>7. ASSUME NEW i \in 1..(Len(q) - 1)
      PROVE  (before \o after)[i] = IF i < k THEN q[i] ELSE q[i + 1]
  <2>1. i \in Nat /\ i >= 1 /\ i <= Len(q) - 1
    BY <1>1
  <2>2. CASE i < k
    <3>1. i <= Len(before) /\ i \in 1..(k - 1)
      BY <1>2, <1>6, <2>1, <2>2
    <3>2. QED
      BY <1>2, <1>5, <1>6, <2>2, <3>1
  <2>3. CASE i >= k
    <3>1. ~(i <= Len(before)) /\ i - Len(before) \in 1..(Len(q) - k) /\ i - Len(before) + k = i + 1
      BY <1>1, <1>2, <1>6, <2>1, <2>3
    <3>2. (before \o after)[i] = after[i - Len(before)]
      BY <1>5, <1>6, <3>1
    <3>3. after[i - Len(before)] = q[i + 1]
      BY <1>3, <3>1
    <3>4. QED
      BY <2>1, <2>3, <3>2, <3>3
  <2>4. QED
    BY <1>6, <2>1, <2>2, <2>3
<1>8. QED
  BY <1>4, <1>5, <1>6, <1>7

LEMMA WithoutFacts ==
  ASSUME TypeInv, LockInv, NEW t \in Tasks
  PROVE  /\ Len(Without(t)) \in Nat
         /\ \A i, j \in 1..Len(Without(t)) : Without(t)[i] = Without(t)[j] => i = j
         /\ \A u \in Tasks : (\E i \in 1..Len(Without(t)) : Without(t)[i] = u) <=> InLock(u) /\ u # t
         /\ \A u \in Tasks : u # t /\ InLock(u) /\ lock[1] = u => Without(t)[1] = u
<1>1. lock \in Seq(Tasks) /\ Len(lock) \in Nat
  BY DEF TypeInv, TypeOK
<1>2. t \in ToSet(lock) <=> InLock(t)
  BY DEF ToSet, InLock
<1>3. CASE ~InLock(t)
  BY <1>1, <1>2, <1>3 DEF Without, InLock, LockInv
<1>4. CASE InLock(t)
  <2>1. PICK k \in 1..Len(lock) : k = (CHOOSE i \in 1..Len(lock) : lock[i] = t) /\ lock[k] = t
    BY <1>4 DEF InLock
  <2>2. Without(t) = RemoveAt(lock, k)
    BY <1>2, <1>4, <2>1 DEF Without
  <2>3. /\ Len(Without(t)) = Len(lock) - 1
        /\ \A i \in 1..(Len(lock) - 1) : Without(t)[i] = IF i < k THEN lock[i] ELSE lock[i + 1]
    BY <1>1, <2>2, RemoveAtFacts
  <2>4. k \in Nat /\ Len(lock) - 1 \in Nat /\ k >= 1 /\ k <= Len(lock)
    BY <1>1
  <2>5. \A i \in 1..(Len(lock) - 1) :
          \/ i < k /\ i \in 1..Len(lock) /\ Without(t)[i] = lock[i]
          \/ i >= k /\ i + 1 \in 1..Len(lock) /\ Without(t)[i] = lock[i + 1]
    BY <1>1, <2>3, <2>4
  <2>6. \A i, j \in 1..Len(lock) : lock[i] = lock[j] => i = j
    BY DEF LockInv
  <2>7. \A i, j \in 1..Len(Without(t)) : Without(t)[i] = Without(t)[j] => i = j
    <3>1. SUFFICES ASSUME NEW i \in 1..(Len(lock) - 1), NEW j \in 1..(Len(lock) - 1),
                          Without(t)[i] = Without(t)[j]
                   PROVE  i = j
      BY <2>3
    <3>2. i \in Nat /\ j \in Nat
      BY <2>4
    <3>3. CASE i < k /\ j < k
      BY <2>5, <2>6, <3>1, <3>2, <3>3
    <3>4. CASE i < k /\ j >= k
      <4>1. lock[i] = lock[j + 1] /\ i \in 1..Len(lock) /\ j + 1 \in 1..Len(lock)
        BY <2>4, <2>5, <3>1, <3>2, <3>4
      <4>2. i = j + 1
        BY <2>6, <4>1
      <4>3. QED
        BY <2>4, <3>2, <3>4, <4>2
    <3>5. CASE i >= k /\ j < k
      <4>1. lock[i + 1] = lock[j] /\ j \in 1..Len(lock) /\ i + 1 \in 1..Len(lock)
        BY <2>4, <2>5, <3>1, <3>2, <3>5
      <4>2. i + 1 = j
        BY <2>6, <4>1
      <4>3. QED
        BY <2>4, <3>2, <3>5, <4>2
    <3>6. CASE i >= k /\ j >= k
      <4>1. lock[i + 1] = lock[j + 1] /\ i + 1 \in 1..Len(lock) /\ j + 1 \in 1..Len(lock)
        BY <2>4, <2>5, <3>1, <3>2, <3>6
      <4>2. i + 1 = j + 1
        BY <2>6, <4>1
      <4>3. QED
        BY <3>2, <4>2
    <3>7. QED
      BY <2>4, <3>2, <3>3, <3>4, <3>5, <3>6
  <2>8. ASSUME NEW u \in Tasks
        PROVE  (\E i \in 1..Len(Without(t)) : Without(t)[i] = u) <=> InLock(u) /\ u # t
    <3>1. ASSUME NEW i \in 1..Len(Without(t)), Without(t)[i] = u PROVE InLock(u) /\ u # t
      <4>1. PICK j \in 1..Len(lock) : lock[j] = u /\ j # k
        <5>1. i \in 1..(Len(lock) - 1) /\ i \in Nat
          BY <2>3, <2>4
        <5>2. CASE i < k
          BY <2>4, <2>5, <3>1, <5>1, <5>2
        <5>3. CASE i >= k
          BY <2>4, <2>5, <3>1, <5>1, <5>3
        <5>4. QED
          BY <2>4, <5>1, <5>2, <5>3
      <4>2. QED
        BY <2>1, <2>6, <4>1 DEF InLock
    <3>2. ASSUME InLock(u), u # t PROVE \E i \in 1..Len(Without(t)) : Without(t)[i] = u
      <4>1. PICK j \in 1..Len(lock) : lock[j] = u
        BY <3>2 DEF InLock
      <4>2. j # k /\ j \in Nat
        BY <2>1, <3>2, <4>1
      <4>3. CASE j < k
        <5>1. j \in 1..(Len(lock) - 1)
          BY <2>4, <4>1, <4>2, <4>3
        <5>2. QED
          BY <2>3, <4>1, <4>3, <5>1
      <4>4. CASE j > k
        <5>1. j - 1 \in 1..(Len(lock) - 1) /\ ~(j - 1 < k) /\ (j - 1) + 1 = j
          BY <2>4, <4>1, <4>2, <4>4
        <5>2. Without(t)[j - 1] = lock[j]
          BY <2>3, <5>1
        <5>3. QED
          BY <2>3, <4>1, <5>1, <5>2
      <4>5. QED
        BY <2>4, <4>2, <4>3, <4>4
    <3>3. QED
      BY <3>1, <3>2
  <2>9. ASSUME NEW u \in Tasks, u # t, lock[1] = u PROVE Without(t)[1] = u
    <3>1. k > 1
      BY <2>1, <2>4, <2>9
    <3>2. 1 \in 1..(Len(lock) - 1) /\ 1 < k
      BY <2>4, <3>1
    <3>3. QED
      BY <2>3, <2>9, <3>2
  <2>10. QED
    BY <2>3, <2>4, <2>7, <2>8, <2>9
<1>5. QED
  BY <1>3, <1>4

\* A call that is in none of the two states takes its place at the end.
LEMMA LockBegin ==
  ASSUME TypeInv, LockInv, NEW t \in Tasks, Begin(t), state[t] \notin {"waiting", "reading"}
  PROVE  LockInv'
<1>1. /\ lock \in Seq(Tasks) /\ Len(lock) \in Nat /\ lock' = Append(lock, t)
      /\ state' = [state EXCEPT ![t] = "waiting"] /\ state \in [Tasks -> States]
  BY DEF TypeInv, TypeOK, Begin, States
<1>2. ~InLock(t)
  BY DEF LockInv
<1>3. /\ Len(lock') = Len(lock) + 1 /\ lock'[Len(lock) + 1] = t
      /\ \A i \in 1..Len(lock) : lock'[i] = lock[i] /\ i \in 1..Len(lock')
      /\ \A i \in 1..Len(lock') : i \in 1..Len(lock) \/ i = Len(lock) + 1
      /\ Len(lock) + 1 \in 1..Len(lock')
  BY <1>1
<1>4. \A i, j \in 1..Len(lock') : lock'[i] = lock'[j] => i = j
  BY <1>2, <1>3 DEF LockInv, InLock
<1>5. \A u \in Tasks : InLock(u)' <=> InLock(u) \/ u = t
  BY <1>3 DEF InLock
<1>6. \A u \in Tasks : state'[u] \in {"waiting", "reading"} <=> InLock(u)'
  BY <1>1, <1>5 DEF LockInv
<1>7. ASSUME NEW u \in Tasks, state'[u] = "reading" PROVE lock'[1] = u
  <2>1. state[u] = "reading" /\ lock[1] = u
    BY <1>1, <1>7 DEF LockInv
  <2>2. 1 \in 1..Len(lock)
    BY <1>1, <2>1 DEF LockInv, InLock
  <2>3. QED
    BY <1>3, <2>1, <2>2
<1>8. QED
  BY <1>4, <1>6, <1>7 DEF LockInv

\* A call that is over leaves the lock, wherever it was in it.
LEMMA LockLeave ==
  ASSUME TypeInv, LockInv, NEW t \in Tasks, lock' = Without(t),
         NEW next \in {"idle", "backoff", "done"}, state' = [state EXCEPT ![t] = next]
  PROVE  LockInv'
<1>1. state \in [Tasks -> States]
  BY DEF TypeInv, TypeOK, States
<1>2. /\ \A i, j \in 1..Len(lock') : lock'[i] = lock'[j] => i = j
      /\ \A u \in Tasks : InLock(u)' <=> InLock(u) /\ u # t
      /\ \A u \in Tasks : u # t /\ InLock(u) /\ lock[1] = u => lock'[1] = u
  BY WithoutFacts DEF InLock
<1>3. \A u \in Tasks : state'[u] \in {"waiting", "reading"} <=> InLock(u)'
  BY <1>1, <1>2 DEF LockInv
<1>4. \A u \in Tasks : state'[u] = "reading" => lock'[1] = u
  BY <1>1, <1>2 DEF LockInv
<1>5. QED
  BY <1>2, <1>3, <1>4 DEF LockInv

LEMMA LockStays ==
  ASSUME LockInv, UNCHANGED <<lock, state>>
  PROVE  LockInv'
BY DEF LockInv, InLock

LEMMA LockReturn ==
  ASSUME TypeInv, LockInv, NEW t \in Tasks, NEW ok \in BOOLEAN, Return(t, ok)
  PROVE  LockInv'
<1>1. PICK next \in {"idle", "backoff", "done"} : state' = [state EXCEPT ![t] = next]
  BY DEF Return, CoreReturns, CallerReturns
<1>2. QED
  BY <1>1, LockLeave DEF Return

LEMMA LockNext == ASSUME TypeInv, LockInv, [Next]_vars PROVE LockInv'
<1>1. state \in [Tasks -> States] /\ lock \in Seq(Tasks)
  BY DEF TypeInv, TypeOK, States
<1>2. ASSUME NEW t \in Tasks, Acquire(t) PROVE LockInv'
  <2>1. /\ state[t] = "waiting" /\ Head(lock) = t /\ UNCHANGED lock
        /\ state' = [state EXCEPT ![t] = "reading"]
    BY <1>2 DEF Acquire
  <2>2. lock[1] = t
    BY <1>1, <2>1
  <2>3. \A u \in Tasks : InLock(u)' <=> InLock(u)
    BY <2>1 DEF InLock
  <2>4. QED
    BY <1>1, <2>1, <2>2, <2>3 DEF LockInv
<1>3. ASSUME NEW t \in Tasks, ReadLine(t) PROVE LockInv'
  <2> DEFINE l == Head(fromServer)
  <2>1. CASE IsAnswer(t, l)
    <3>1. fromServer \in Seq([id : 0..MaxIds, ok : BOOLEAN]) /\ fromServer # <<>>
      BY <1>3 DEF TypeInv, TypeOK, ReadLine
    <3>2. l.ok \in BOOLEAN
      <4>1. l \in [id : 0..MaxIds, ok : BOOLEAN]
        BY <3>1, HeadTailProperties
      <4>2. QED
        BY <4>1
    <3>3. Return(t, l.ok)
      BY <1>3, <2>1 DEF ReadLine
    <3>4. QED
      BY <3>2, <3>3, LockReturn
  <2>2. CASE ~IsAnswer(t, l)
    BY <1>3, <2>2, LockStays DEF ReadLine
  <2>3. QED
    BY <2>1, <2>2
<1>4. ASSUME NEW t \in Tasks, ReadFails(t) PROVE LockInv'
  BY <1>4, LockReturn DEF ReadFails
<1>5. ASSUME NEW c \in Callers, Invoke(c) \/ Retry(c) \/ Abandon(c) PROVE LockInv'
  <2>1. c \in Tasks
    BY CallerFacts
  <2>2. CASE Invoke(c)
    BY <2>1, <2>2, LockBegin DEF Invoke
  <2>3. CASE Retry(c)
    <3>1. state[c] = "backoff" /\ (Begin(c) \/ (state' = [state EXCEPT ![c] = "done"] /\ lock' = lock))
      BY <2>3 DEF Retry
    <3>2. CASE state' = [state EXCEPT ![c] = "done"] /\ lock' = lock
      <4>1. /\ \A u \in Tasks : InLock(u)' <=> InLock(u)
            /\ \A u \in Tasks : state'[u] \in {"waiting", "reading"} <=> state[u] \in {"waiting", "reading"}
            /\ \A u \in Tasks : state'[u] = "reading" => state[u] = "reading"
        BY <1>1, <2>1, <3>1, <3>2 DEF InLock
      <4>2. QED
        BY <3>2, <4>1 DEF LockInv
    <3>3. QED
      BY <2>1, <3>1, <3>2, LockBegin
  <2>4. CASE Abandon(c)
    BY <2>1, <2>4, LockLeave DEF Abandon
  <2>5. QED
    BY <1>5, <2>2, <2>3, <2>4
<1>6. CASE Start \/ ListTools
  <2>1. (Begin(Core) /\ state[Core] = "idle") \/ UNCHANGED <<lock, state>>
    BY <1>6 DEF Start, ListTools, mcpVars, TypeInv, Attempted
  <2>2. QED
    BY <2>1, CallerFacts, LockBegin, LockStays
<1>7. CASE Down
  <2>1. lock' = <<>> /\ state' = [t \in Tasks |-> IF state[t] = "idle" THEN "idle" ELSE "done"]
    BY <1>7 DEF Down
  <2>2. \A t \in Tasks : ~InLock(t)' /\ state'[t] \notin {"waiting", "reading"}
    BY <2>1 DEF InLock
  <2>3. QED
    BY <2>1, <2>2 DEF LockInv
<1>8. CASE \/ Server \/ ServerNotifies \/ ServerDies \/ Signal \/ StopServers \/ StopTrace
           \/ Drains \/ DrainDies \/ UNCHANGED vars
  <2>1. UNCHANGED <<lock, state>>
    BY <1>8 DEF Server, ServerTakes, ServerAnswers, ServerNotifies, ServerDies, Signal,
       StopServers, StopTrace, Drains, DrainDies, vars, mcpVars
  <2>2. QED
    BY <2>1, LockStays
<1>9. QED
  BY <1>2, <1>3, <1>4, <1>5, <1>6, <1>7, <1>8 DEF Next, Calls, Shutdown

LEMMA LockInit == Init => LockInv
BY DEF Init, LockInv, InLock

\* The pipe of the server has one reader, whoever is abandoned or retried: reading takes
\* the lock, every call that waits is in its queue, and its holder is never one that is over.
OneReader ==
  /\ \A t, u \in Tasks : state[t] = "reading" /\ state[u] = "reading" => t = u
  /\ \A t \in Tasks : state[t] = "waiting" => InLock(t)
  /\ lock # <<>> => state[Head(lock)] \in {"waiting", "reading"}

THEOREM ReaderTheorem == Spec => []OneReader
<1>1. TypeInv /\ LockInv => OneReader
  <2>1. SUFFICES ASSUME TypeInv, LockInv PROVE OneReader
    OBVIOUS
  <2>2. ASSUME lock # <<>> PROVE state[Head(lock)] \in {"waiting", "reading"}
    <3>1. lock \in Seq(Tasks)
      BY <2>1 DEF TypeInv, TypeOK
    <3>2. Head(lock) \in Tasks /\ Head(lock) = lock[1] /\ 1 \in 1..Len(lock)
      BY <2>2, <3>1
    <3>3. QED
      BY <2>1, <3>2 DEF LockInv, InLock
  <2>3. QED
    BY <2>1, <2>2 DEF OneReader, LockInv
<1>2. TypeInv /\ LockInv /\ [Next]_vars => LockInv'
  BY LockNext
<1>3. QED
  BY <1>1, <1>2, LockInit, TypesHold, PTL DEF Spec

=============================================================================
