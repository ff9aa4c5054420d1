----------------------------- MODULE Subagents ------------------------------
(***************************************************************************)
(* spawn_agent and agent_result (core/subagent/) in the runs of one        *)
(* session.  A foreground subagent runs inside the tool call of its        *)
(* parent: invoke_tool waits for it with asyncio.wait_for, cancels it when *)
(* the time is up or the parent is cancelled, and calls the tool again,    *)
(* with a new subagent, when it failed.  A background subagent is a task   *)
(* of its own in the registry of the run.  Subagents nest twice.           *)
(*                                                                         *)
(* wait_for is that of Python 3.11: it waits for the task it cancels, lets *)
(* a second cancellation break that wait, and drops a cancellation that    *)
(* arrives together with the end of the task.                              *)
(* What agents say to their model and their other tools is not here; the   *)
(* profile of a subagent only chooses among those.                         *)
(***************************************************************************)
EXTENDS Naturals, FiniteSets

CONSTANTS
  MaxAgents,   \* bound on the runs and subagents of the session
  MaxCancels   \* bound on calls of session.cancel

ASSUME SubagentAssumption == MaxAgents \in Nat \ {0} /\ MaxCancels \in Nat

\* Runs of the session and subagents, in the order in which they are created.
Agents == 1..MaxAgents
None == 0
MaxDepth == 2
MaxAttempts == 3

VARIABLES
  born,      \* agents 1..born exist
  parent,    \* None for a run of the session
  mode,      \* "run", "fg" or "bg"
  stage,
  call,      \* the subagent a foreground call waits for
  attempt,   \* how often the call has been tried
  cancel,    \* a cancellation of the task is on its way
  stopped,   \* history: the task of the agent was cancelled
  told,      \* history: the last answer of agent_result about a subagent
  cancels

vars == <<born, parent, mode, stage, call, attempt, cancel, stopped, told, cancels>>

Over == {"succeeded", "failed", "cancelled"}
\* calling: in wait_for; expired, stopping: in wait_for, which has cancelled the
\* subagent because the time is up, or because the agent itself was cancelled.
Waiting == {"calling", "expired", "stopping"}
Stages == {"unborn", "thinking", "backoff"} \union Waiting \union Over
Answers == {"none", "unknown", "still running", "cancelled", "completed"}

TypeOK ==
  /\ born \in 0..MaxAgents
  /\ parent \in [Agents -> 0..MaxAgents]
  /\ mode \in [Agents -> {"run", "fg", "bg"}]
  /\ stage \in [Agents -> Stages]
  /\ call \in [Agents -> 0..MaxAgents]
  /\ attempt \in [Agents -> 0..MaxAttempts]
  /\ cancel \in [Agents -> BOOLEAN]
  /\ stopped \in [Agents -> BOOLEAN]
  /\ told \in [Agents -> Answers]
  /\ cancels \in 0..MaxCancels

Init ==
  /\ born = 0
  /\ parent = [a \in Agents |-> None]
  /\ mode = [a \in Agents |-> "run"]
  /\ stage = [a \in Agents |-> "unborn"]
  /\ call = [a \in Agents |-> None]
  /\ attempt = [a \in Agents |-> 0]
  /\ cancel = [a \in Agents |-> FALSE]
  /\ stopped = [a \in Agents |-> FALSE]
  /\ told = [a \in Agents |-> "none"]
  /\ cancels = 0

Alive(a) == stage[a] \notin Over \union {"unborn"}
Left == born < MaxAgents
New == born + 1

Depth(a) ==
  IF parent[a] = None THEN 0 ELSE IF parent[parent[a]] = None THEN 1 ELSE 2
Root(a) ==
  CASE Depth(a) = 0 -> a
    [] Depth(a) = 1 -> parent[a]
    [] OTHER -> parent[parent[a]]

\* The next agent is created, a child of p.
Create(p, m) ==
  /\ Left
  /\ born' = New
  /\ parent' = [parent EXCEPT ![New] = p]
  /\ mode' = [mode EXCEPT ![New] = m]

-----------------------------------------------------------------------------
(* Runs and their agents.                                                  *)

\* A message starts a run, with an AgentRunner and a registry of its own, when the
\* run before is over.  Background subagents of that one may still be at work.
RunStarts ==
  /\ \A a \in Agents : mode[a] = "run" => ~Alive(a)
  /\ Create(None, "run")
  /\ stage' = [stage EXCEPT ![New] = "thinking"]
  /\ UNCHANGED <<call, attempt, cancel, stopped, told, cancels>>

\* spawn_agent with run_in_background: the call returns at once.
SpawnBackground(a) ==
  /\ stage[a] = "thinking" /\ ~cancel[a]
  /\ Depth(a) < MaxDepth
  /\ Create(a, "bg")
  /\ stage' = [stage EXCEPT ![New] = "thinking"]
  /\ UNCHANGED <<call, attempt, cancel, stopped, told, cancels>>

\* spawn_agent in the foreground, at the n-th attempt of the call.
Foreground(a, n) ==
  /\ Create(a, "fg")
  /\ stage' = [stage EXCEPT ![a] = "calling", ![New] = "thinking"]
  /\ call' = [call EXCEPT ![a] = New]
  /\ attempt' = [attempt EXCEPT ![a] = n]
  /\ UNCHANGED <<cancel, stopped, told, cancels>>

Spawn(a) ==
  /\ stage[a] = "thinking" /\ ~cancel[a]
  /\ Depth(a) < MaxDepth
  /\ Foreground(a, 1)

\* The loop of an agent ends: its last answer, an error of the model, too many steps.
Ends(a, how) ==
  /\ stage[a] = "thinking" /\ ~cancel[a]
  /\ stage' = [stage EXCEPT ![a] = how]
  /\ UNCHANGED <<born, parent, mode, call, attempt, cancel, stopped, told, cancels>>

-----------------------------------------------------------------------------
(* The foreground call.                                                    *)

CallOver(a, next) ==
  /\ stage' = [stage EXCEPT ![a] = next]
  /\ call' = [call EXCEPT ![a] = None]

\* The task of the subagent is done.  A failed one is a runtime_error, and that is
\* tried again, as long as the bound on agents leaves one.
CallReturns(a) ==
  CallOver(a, IF stage[call[a]] = "failed" /\ attempt[a] < MaxAttempts /\ Left
              THEN "backoff" ELSE "thinking")

\* Mutation: a task that was cancelled is not taken for an end.
ReturnedUncancelled(a) ==
  /\ stage[a] \in {"calling", "expired"} /\ ~cancel[a]
  /\ stage[call[a]] \in {"succeeded", "failed"}
  /\ CallReturns(a)
  /\ UNCHANGED <<born, parent, mode, attempt, cancel, stopped, told, cancels>>

\* Also when the time was up: then a cancelled subagent is a timeout, which is not
\* tried again, and one that ended of itself meanwhile counts as if in time.
Returned(a) ==
  /\ stage[a] \in {"calling", "expired"} /\ ~cancel[a]
  /\ stage[call[a]] \in Over
  /\ CallReturns(a)
  /\ UNCHANGED <<born, parent, mode, attempt, cancel, stopped, told, cancels>>

Retry(a) ==
  /\ stage[a] = "backoff" /\ ~cancel[a]
  /\ IF Left
     THEN Foreground(a, attempt[a] + 1)
     ELSE /\ stage' = [stage EXCEPT ![a] = "thinking"]
          /\ UNCHANGED <<born, parent, mode, call, attempt, cancel, stopped, told, cancels>>

Cancel(c) ==
  /\ cancel' = [cancel EXCEPT ![c] = TRUE]
  /\ stopped' = [stopped EXCEPT ![c] = TRUE]

\* Mutation: the subagent is cancelled and not waited for.
ExpiredUnwaited(a) ==
  /\ stage[a] = "calling" /\ ~cancel[a]
  /\ stage[call[a]] \notin Over
  /\ Cancel(call[a])
  /\ CallOver(a, "thinking")
  /\ UNCHANGED <<born, parent, mode, attempt, told, cancels>>

\* 120 s are over before the subagent is.
Expired(a) ==
  /\ stage[a] = "calling" /\ ~cancel[a]
  /\ stage[call[a]] \notin Over
  /\ Cancel(call[a])
  /\ stage' = [stage EXCEPT ![a] = "expired"]
  /\ UNCHANGED <<born, parent, mode, call, attempt, told, cancels>>

-----------------------------------------------------------------------------
(* Cancellation.                                                           *)

\* session.cancel of the run that goes on, which may be repeated.
CancelRun(a) ==
  /\ mode[a] = "run" /\ Alive(a)
  /\ cancels < MaxCancels
  /\ cancels' = cancels + 1
  /\ Cancel(a)
  /\ UNCHANGED <<born, parent, mode, stage, call, attempt, told>>

Arrives(a) == cancel[a] /\ Alive(a)

\* In a model call, a sleep, or a wait for a subagent that is being cancelled already.
CancelledNow(a) ==
  /\ Arrives(a)
  /\ stage[a] # "calling"
  /\ CallOver(a, "cancelled")
  /\ cancel' = [cancel EXCEPT ![a] = FALSE]
  /\ UNCHANGED <<born, parent, mode, attempt, stopped, told, cancels>>

\* In the wait for a subagent: it is cancelled first; but if it has just ended, the
\* cancellation is forgotten and the call returns.
CancelledCall(a) ==
  /\ Arrives(a)
  /\ stage[a] = "calling"
  /\ IF stage[call[a]] \in Over
     THEN /\ cancel' = [cancel EXCEPT ![a] = FALSE]
          /\ CallReturns(a)
          /\ UNCHANGED stopped
     ELSE /\ cancel' = [cancel EXCEPT ![a] = FALSE, ![call[a]] = TRUE]
          /\ stopped' = [stopped EXCEPT ![call[a]] = TRUE]
          /\ stage' = [stage EXCEPT ![a] = "stopping"]
          /\ UNCHANGED call
  /\ UNCHANGED <<born, parent, mode, attempt, told, cancels>>

\* The subagent is over, and with it the agent that was cancelled before.
StopReturns(a) ==
  /\ stage[a] = "stopping" /\ ~cancel[a]
  /\ stage[call[a]] \in Over
  /\ CallOver(a, "cancelled")
  /\ UNCHANGED <<born, parent, mode, attempt, cancel, stopped, told, cancels>>

-----------------------------------------------------------------------------
(* agent_result.                                                           *)

\* Mutation: the end of a failed subagent is not among the answers.
AnswerFailed(a, c) ==
  CASE Root(a) # Root(c) -> "unknown"
    [] Alive(c) -> "still running"
    [] OTHER -> stage[c]

\* Mutation: a subagent that waits in a call is taken for done.
AnswerEarly(a, c) ==
  CASE Root(a) # Root(c) -> "unknown"
    [] stage[c] \in {"unborn", "thinking"} -> "still running"
    [] stage[c] = "cancelled" -> "cancelled"
    [] OTHER -> "completed"

\* Only the registry of the run is asked.  A subagent whose run failed has no result: it
\* is said to have completed without one.  (One whose task raised is answered with its
\* exception, an end like "completed" for the asker; the two are not told apart.)
Answer(a, c) ==
  CASE Root(a) # Root(c) -> "unknown"
    [] Alive(c) -> "still running"
    [] stage[c] = "cancelled" -> "cancelled"
    [] OTHER -> "completed"

\* c was started by an agent of the session, whose conversation has its run_id.
AskResult(a, c) ==
  /\ stage[a] = "thinking" /\ ~cancel[a]
  /\ Depth(a) < MaxDepth
  /\ mode[c] = "bg"
  /\ told' = [told EXCEPT ![c] = Answer(a, c)]
  /\ UNCHANGED <<born, parent, mode, stage, call, attempt, cancel, stopped, cancels>>

-----------------------------------------------------------------------------
Waits(a) ==
  \/ Returned(a) \/ Expired(a) \/ Retry(a)
  \/ CancelledNow(a) \/ CancelledCall(a) \/ StopReturns(a)

Next ==
  \/ RunStarts
  \/ \E a \in Agents :
       \/ Spawn(a) \/ SpawnBackground(a) \/ CancelRun(a) \/ Waits(a)
       \/ \E how \in {"succeeded", "failed"} : Ends(a, how)
       \/ \E c \in Agents : AskResult(a, c)

Spec == Init /\ [][Next]_vars

\* Every loop ends by itself (RunsEnd of AgentLoop), and the event loop runs.
FairSpec ==
  /\ Spec
  /\ \A a \in Agents : WF_vars(Waits(a))
  /\ \A a \in Agents : WF_vars(\E how \in {"succeeded", "failed"} : Ends(a, how))

-----------------------------------------------------------------------------
(* Properties.                                                             *)

\* c works in the call of its parent.
InCall(c) == call[parent[c]] = c /\ stage[parent[c]] \in Waiting

\* A foreground subagent works inside the one call its parent waits for.  It can
\* outlive its parent only when that was cancelled twice, and then it has been
\* cancelled itself; a retry never runs beside the attempt before it.
ForegroundNests ==
  \A c \in Agents : mode[c] = "fg" /\ Alive(c) =>
    InCall(c) \/ (stage[parent[c]] = "cancelled" /\ stopped[c])

\* When agent_result says that a background subagent completed, nothing works for it
\* in the foreground any more, whatever timed out or was tried again on the way.
CompletedIsQuiet ==
  \A c, x \in Agents :
    told[c] = "completed" /\ mode[x] = "fg" /\ parent[x] = c => ~Alive(x)

\* Every run and every subagent comes to its end, also one nobody waits for any more.
AgentsEnd == \A a \in Agents : Alive(a) ~> ~Alive(a)

=============================================================================
