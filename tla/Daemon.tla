------------------------------- MODULE Daemon -------------------------------
(***************************************************************************)
(* The life of the daemon (core/app.py) around an MCP server: the server   *)
(* is started and asked for its tools (core/mcp/server.py), tool calls of  *)
(* concurrent agents share its one client (core/mcp/client.py) and are     *)
(* tried again by invoke_tool, and a signal ends it all: the server is     *)
(* terminated, the sockets are closed, and the trace (core/trace/writer.py)*)
(* is written to its end.  Agents are not stopped before that and find the *)
(* server gone.                                                            *)
(*                                                                         *)
(* The server is external: it takes requests in order, answers them in any *)
(* order, with a result or an error, or never, sends notifications and may *)
(* die.  It sends no requests of its own.  One of the configured servers   *)
(* is modelled; start_all and stop_all treat them one by one.              *)
(***************************************************************************)
EXTENDS Naturals, Sequences, FiniteSets, SequencesExt

CONSTANTS
  Callers,     \* tool calls of agents
  Core,        \* the daemon itself, which calls initialize and tools/list
  MaxIds,      \* bound on requests
  MaxNotices   \* bound on notifications of the server

ASSUME DaemonAssumption == Core \notin Callers /\ MaxIds \in Nat /\ MaxNotices \in Nat

Tasks == Callers \union {Core}
MaxAttempts == 3

VARIABLES
  phase,       \* of CoreApp.run
  offered,     \* the client is in _clients and its tools are in every registry
  alive,       \* the server process runs
  lastId,      \* McpClient._id
  lock,        \* who holds (the first) or waits for the lock of the client
  state,       \* of each call
  req,         \* the id of its request
  attempt,     \* invoke_tool's
  result,      \* history: the id whose answer was returned
  toServer, working, fromServer,
  notices,
  drain,       \* the task of the trace writer
  queued       \* records in its queue

mcpVars == <<lastId, lock, state, req, attempt, result>>
serverVars == <<toServer, working, fromServer, notices>>
traceVars == <<drain, queued>>
vars == <<phase, offered, alive, mcpVars, serverVars, traceVars>>

Phases == {"off", "booting", "listing", "serving", "signalled", "closed", "joined", "down"}
Ids == 1..MaxIds
Notice == [id |-> 0, ok |-> TRUE]

TypeOK ==
  /\ phase \in Phases
  /\ offered \in BOOLEAN /\ alive \in BOOLEAN
  /\ lastId \in 0..MaxIds
  /\ lock \in Seq(Tasks)
  /\ state \in [Tasks -> {"idle", "waiting", "reading", "backoff", "done"}]
  /\ req \in [Tasks -> 0..MaxIds]
  /\ attempt \in [Tasks -> 0..MaxAttempts]
  /\ result \in [Tasks -> 0..MaxIds]
  /\ toServer \in Seq(Ids)
  /\ working \subseteq Ids
  /\ fromServer \in Seq([id : 0..MaxIds, ok : BOOLEAN])
  /\ notices \in 0..MaxNotices
  /\ drain \in {"up", "dead", "stopped"}
  /\ queued \in Nat

Init ==
  /\ phase = "off" /\ offered = FALSE /\ alive = FALSE
  /\ lastId = 0 /\ lock = <<>>
  /\ state = [t \in Tasks |-> "idle"]
  /\ req = [t \in Tasks |-> 0]
  /\ attempt = [t \in Tasks |-> 0]
  /\ result = [t \in Tasks |-> 0]
  /\ toServer = <<>> /\ working = {} /\ fromServer = <<>> /\ notices = 0
  /\ drain = "up" /\ queued = 0

-----------------------------------------------------------------------------
(* A call of the client.                                                   *)

\* _call takes its id before it waits for the lock.
Begin(t) ==
  /\ lastId < MaxIds
  /\ lastId' = lastId + 1
  /\ req' = [req EXCEPT ![t] = lastId + 1]
  /\ lock' = Append(lock, t)
  /\ state' = [state EXCEPT ![t] = "waiting"]
  /\ attempt' = [attempt EXCEPT ![t] = @ + 1]
  /\ UNCHANGED result

\* The lock is t's: the request is written.
Acquire(t) ==
  /\ state[t] = "waiting" /\ Head(lock) = t
  /\ state' = [state EXCEPT ![t] = "reading"]
  /\ toServer' = IF alive THEN Append(toServer, req[t]) ELSE toServer
  /\ UNCHANGED <<phase, offered, alive, lastId, lock, req, attempt, result, working, fromServer, notices, traceVars>>

\* Mutation: an abandoned call keeps the lock.
WithoutUnlessHeld(t) ==
  IF t \in ToSet(lock) /\ Head(lock) # t
  THEN RemoveAt(lock, CHOOSE i \in 1..Len(lock) : lock[i] = t)
  ELSE lock

\* A task holds the lock or waits for it once: it releases it, or its Future is removed.
Without(t) ==
  IF t \in ToSet(lock)
  THEN RemoveAt(lock, CHOOSE i \in 1..Len(lock) : lock[i] = t)
  ELSE lock

\* What a finished tool call says goes into the trace.
Emit == queued' = queued + 1 /\ UNCHANGED drain

\* The call of the daemon itself: initialize, then tools/list; any error skips the
\* server, whose process is left as it is.
CoreReturns(ok) ==
  /\ state' = [state EXCEPT ![Core] = "idle"]
  /\ phase' = IF ok /\ phase = "booting" THEN "listing" ELSE "serving"
  /\ offered' = (ok /\ phase = "listing")
  /\ UNCHANGED traceVars

\* McpTool turns every error into a runtime_error, and invoke_tool tries again.
CallerReturns(t, ok) ==
  /\ IF ~ok /\ attempt[t] < MaxAttempts /\ lastId < MaxIds
     THEN state' = [state EXCEPT ![t] = "backoff"] /\ UNCHANGED traceVars
     ELSE state' = [state EXCEPT ![t] = "done"] /\ Emit
  /\ UNCHANGED <<phase, offered>>

Return(t, ok) ==
  /\ lock' = Without(t)
  /\ IF t = Core THEN CoreReturns(ok) ELSE CallerReturns(t, ok)

\* Mutation: the first response is taken for the answer.
IsAnswerAny(t, l) == l # Notice

IsAnswer(t, l) == l.id = req[t]

\* One line: the answer, or a notification or the answer to an older request, which
\* are skipped.
ReadLine(t) ==
  /\ state[t] = "reading" /\ fromServer # <<>>
  /\ fromServer' = Tail(fromServer)
  /\ LET l == Head(fromServer)
     IN IF IsAnswer(t, l)
        THEN Return(t, l.ok) /\ result' = [result EXCEPT ![t] = IF l.ok THEN l.id ELSE 0]
        ELSE UNCHANGED <<phase, offered, lock, state, result, traceVars>>
  /\ UNCHANGED <<alive, lastId, req, attempt, toServer, working, notices>>

\* No line for 30 s, or the end of the stream.
ReadFails(t) ==
  /\ state[t] = "reading" /\ fromServer = <<>>
  /\ Return(t, FALSE)
  /\ UNCHANGED <<alive, lastId, req, attempt, result, serverVars>>

-----------------------------------------------------------------------------
(* Agents.                                                                 *)

\* A tool call of an agent, or its next attempt.  Agents go on until the event loop ends.
Invoke(c) ==
  /\ state[c] = "idle" /\ offered /\ phase # "down"
  /\ Begin(c)
  /\ UNCHANGED <<phase, offered, alive, serverVars, traceVars>>

\* (With no request left within the bound, the last attempt has failed.)
Retry(c) ==
  /\ state[c] = "backoff" /\ phase # "down"
  /\ IF lastId < MaxIds
     THEN Begin(c) /\ UNCHANGED traceVars
     ELSE state' = [state EXCEPT ![c] = "done"] /\ Emit /\ UNCHANGED <<lastId, lock, req, attempt, result>>
  /\ UNCHANGED <<phase, offered, alive, serverVars>>

\* The 120 s of invoke_tool are over, or the run is cancelled, in any state of the call.
Abandon(c) ==
  /\ state[c] \in {"waiting", "reading", "backoff"} /\ phase # "down"
  /\ lock' = Without(c)
  /\ state' = [state EXCEPT ![c] = "done"]
  /\ Emit
  /\ UNCHANGED <<phase, offered, alive, lastId, req, attempt, result, serverVars>>

-----------------------------------------------------------------------------
(* The server.                                                             *)

ServerTakes ==
  /\ alive /\ toServer # <<>>
  /\ toServer' = Tail(toServer)
  /\ working' = working \union {Head(toServer)}
  /\ UNCHANGED <<phase, offered, alive, mcpVars, fromServer, notices, traceVars>>

ServerAnswers(i, ok) ==
  /\ alive /\ i \in working
  /\ working' = working \ {i}
  /\ fromServer' = Append(fromServer, [id |-> i, ok |-> ok])
  /\ UNCHANGED <<phase, offered, alive, mcpVars, toServer, notices, traceVars>>

ServerNotifies ==
  /\ alive /\ notices < MaxNotices
  /\ notices' = notices + 1
  /\ fromServer' = Append(fromServer, Notice)
  /\ UNCHANGED <<phase, offered, alive, mcpVars, toServer, working, traceVars>>

ServerDies ==
  /\ alive
  /\ alive' = FALSE
  /\ toServer' = <<>> /\ working' = {}
  /\ UNCHANGED <<phase, offered, mcpVars, fromServer, notices, traceVars>>

-----------------------------------------------------------------------------
(* The daemon.                                                             *)

\* The process is created and asked to initialize; or it cannot be created.
Start ==
  /\ phase = "off"
  /\ \/ /\ alive' = TRUE /\ phase' = "booting"
        /\ Begin(Core)
     \/ phase' = "serving" /\ UNCHANGED <<alive, mcpVars>>
  /\ UNCHANGED <<offered, serverVars, traceVars>>

ListTools ==
  /\ phase = "listing" /\ state[Core] = "idle"
  /\ Begin(Core)
  /\ UNCHANGED <<phase, offered, alive, serverVars, traceVars>>

\* SIGINT or SIGTERM.  _running_runs holds only tasks that have handed their message
\* to a session, so cancelling them stops nobody.
Signal ==
  /\ phase = "serving"
  /\ phase' = "signalled"
  /\ UNCHANGED <<offered, alive, mcpVars, serverVars, traceVars>>

\* The server is terminated, or killed after 5 s.  Nobody waits for the lock.
Close == alive' = FALSE /\ toServer' = <<>> /\ working' = {}

\* stop_all closes the clients in _clients; then the sockets are closed.
StopServers ==
  /\ phase = "signalled"
  /\ phase' = "closed"
  /\ IF offered THEN Close ELSE UNCHANGED <<alive, toServer, working>>
  /\ UNCHANGED <<offered, mcpVars, fromServer, notices, traceVars>>

\* trace.stop waits until the queue is empty for once, and cancels the task.
StopTrace ==
  /\ phase = "closed" /\ queued = 0
  /\ phase' = "joined"
  /\ UNCHANGED <<offered, alive, mcpVars, serverVars, traceVars>>

\* asyncio.run cancels every task that is left.
Down ==
  /\ phase = "joined"
  /\ phase' = "down"
  /\ drain' = IF drain = "up" THEN "stopped" ELSE drain
  /\ state' = [t \in Tasks |-> IF state[t] = "idle" THEN "idle" ELSE "done"]
  /\ lock' = <<>>
  /\ UNCHANGED <<offered, alive, lastId, req, attempt, result, serverVars, queued>>

\* Mutation: task_done is called by the writer and again by its finally clause.
DrainsTwice ==
  /\ drain = "up" /\ queued > 0
  /\ queued' = queued - 2
  /\ UNCHANGED <<phase, offered, alive, mcpVars, serverVars, drain>>

\* Mutation: a record is counted when the next one comes.
DrainsLate ==
  /\ drain = "up" /\ queued > 1
  /\ queued' = queued - 1
  /\ UNCHANGED <<phase, offered, alive, mcpVars, serverVars, drain>>

\* _drain writes a record and calls task_done, in one step.
Drains ==
  /\ drain = "up" /\ queued > 0
  /\ queued' = queued - 1
  /\ UNCHANGED <<phase, offered, alive, mcpVars, serverVars, drain>>

\* The write fails: task_done is called, and the task is gone.
DrainDies ==
  /\ drain = "up" /\ queued > 0
  /\ queued' = queued - 1
  /\ drain' = "dead"
  /\ UNCHANGED <<phase, offered, alive, mcpVars, serverVars>>

-----------------------------------------------------------------------------
Calls(t) == Acquire(t) \/ ReadLine(t) \/ ReadFails(t)

Server ==
  ServerTakes \/ \E i \in Ids, ok \in BOOLEAN : ServerAnswers(i, ok)

Shutdown == StopServers \/ StopTrace \/ Down

Next ==
  \/ \E t \in Tasks : Calls(t)
  \/ \E c \in Callers : Invoke(c) \/ Retry(c) \/ Abandon(c)
  \/ Server \/ ServerNotifies \/ ServerDies
  \/ Start \/ ListTools \/ Signal \/ Shutdown
  \/ Drains \/ DrainDies

Spec == Init /\ [][Next]_vars

\* The event loop runs.  The server owes nothing, and no timeout but that of a read
\* has to occur.
FairSpec ==
  /\ Spec
  /\ \A t \in Tasks : WF_vars(Calls(t))
  /\ \A c \in Callers : WF_vars(Retry(c))
  /\ WF_vars(Start) /\ WF_vars(ListTools) /\ WF_vars(Shutdown) /\ WF_vars(Drains)

-----------------------------------------------------------------------------
(* Properties.                                                             *)

\* A tool call returns what the server answered to the last request it sent, although
\* answers to abandoned calls and earlier attempts come late and in any order.
AnswersMatch == \A c \in Callers : result[c] # 0 => result[c] = req[c] /\ state[c] = "done"

\* A server that dies, is terminated under a call or never answers stops neither the
\* agents nor the daemon's start: every call returns, those behind it in the lock too.
\* A server that sends lines for ever and no answer would hold the daemon's start, which
\* has no time limit around it: MaxNotices rules that server out.
CallsReturn == \A t \in Tasks : state[t] \in {"waiting", "reading"} ~> state[t] \notin {"waiting", "reading"}

\* The daemon stops, although agents go on meanwhile, unless its trace cannot be written.
ShutdownEnds == phase = "signalled" ~> phase = "down" \/ drain = "dead"

=============================================================================
