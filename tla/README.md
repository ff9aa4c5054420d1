# KamaClaudePro in TLA+

KamaClaudePro is a local agent runtime. A daemon, `kama-core`, keeps chat
sessions, runs an agent for every message, executes the tools the model asks
for after asking the user, and pushes what happens to its clients: a terminal
UI, a command line and a web page. The daemon is one Python process on one
asyncio event loop. There is no parallelism, but every `await` that suspends
lets every other task and handler run, any task can be cancelled at any of
them, and the process can die between any two of them. That is what these
modules are about.

Paths below are relative to the repository; `core/` is `src/kama_claude/core/`.

## 1. The system

| component | state | operations | hard part |
|---|---|---|---|
| session manager, `core/session/` | sessions in memory and in `meta.json`, `thread.jsonl`, a lock and a task per session | create, list, resume, alias, send_message, cancel, close, compact, get_history, and the task of a run | memory and file disagree, cancellation at each await, late done callbacks, restarts |
| event bus and writer, `core/events/` | subscribers, `events.jsonl` | subscribe, publish | publishing waits for the slowest client; an exception of a subscriber reaches the publisher |
| permission manager, `core/permissions/` | pending requests, two caches of "always" decisions, `policy.toml` | check_and_wait, respond, cancel_session | late answers, time-outs, equal ids, caches that disagree after a restart |
| tool invocation, `core/tools/invocation.py` | the progress of a call | validate, ask, invoke, retry | a retry repeats a side effect; a cancelled call |
| agent loop, `core/loop.py`, `context.py`, `runner.py` | messages, step, status | run, run_and_capture | pairing of tool_use and tool_result, what is saved after a failure or a compaction |
| compaction, `core/compact/` | `summary_*.md` | compact, compact_messages | replaces the messages of a run in progress |
| task manager, `core/task/` | one JSON file per task | create, update, list, get | dependencies kept on both sides, stale copies |
| subagents, `core/subagent/` | background runs | spawn_agent, agent_result | children outlive the cancelled parent |
| transport, `core/transport/` | connections, subscriptions, pending requests | dispatch, push, send_command | slow, dead and closing peers |
| daemon, `core/app.py` | all of the above | handlers, replay, start, shutdown | events between replay and subscription |
| MCP, `core/mcp/` | connection to tool servers | start, call, stop | a call that outlives the connection |
| terminal UI, `tui/app.py` | busy flag, queue of messages | submit, `/now`, cancel, event handlers | its belief about the session is not the session's state |
| model providers, `core/llm/` | none | chat | retries |
| trace, `core/trace/` | a queue | emit, writer task | the shutdown waits for it while agents fill it |
| configuration, skills, memory, web, built-in tools, command line | none that changes | | not modelled: sequential parsing and I/O |

A client sends JSON-RPC requests over a socket; `socket_server.py` starts a
task for each one and calls the handler in `app.py`, which calls the session
manager or the permission manager. The session manager starts a task per
message; the task calls `AgentRunner.run_and_capture`, which runs the loop,
which calls the model and `invoke_tool`, which asks the permission manager,
which publishes an event and waits for the answer of a client. All events pass
through the one `EventBus`; its subscribers are the broadcaster to the clients,
the file of the run and the trace.

## 2. The modules

### SessionManager

`SessionManager.tla` models `core/session/manager.py` with the parts of
`store.py` and `runner.py` it drives.

| in the module | in the code |
|---|---|
| `memory`, `disk` | `_sessions`; `meta.json` of every session |
| `thread` | `thread.jsonl`, as the set of entries (the message and the answer of each run) a later run can still recall, verbatim or through a summary |
| `backup` | the newest `thread_<ts>.jsonl.bak`, in the same terms; nothing reads it |
| `holder`, `waiters` | the `asyncio.Lock` of a session and its FIFO of waiters |
| `registered` | `_running_tasks` |
| `pc`, `sid`, `content`, `cancelled` | the task of a run: where it is suspended or how it ended, its arguments, and a pending `task.cancel()` |
| `unreaped` | done callbacks (`_finish_running_task`) scheduled and not yet called |
| `call` | handlers suspended in cancel, close or compact |

An action is what a task or a handler does between two awaits that can
suspend. Handlers that only suspend in a last `publish` are one action
(`Create`, `ListSessions`, `SetAlias`, `Resume`, `SendMessage`,
`RefuseMessage`, `GetHistory`); cancel, close and compact have a beginning and
an end, and close and compact a third form in which they queue for a lock that
is free but has been promised to a task woken before. `_run_message` is the
path `created`, `lock_wait`, `resumed`, `received`, `skill`, `agent`,
`run_finished` or `run_cancelled`, `announce` or `unwind`, one value of `pc`
per await, and `AbortUnprotected`, `AbortWaiting`, `CancelAgent` and
`DropAnswer` are a cancellation delivered there. The end of a task and the
call of its done callback are two steps, as in asyncio: `Reap` may come after
the next message has been accepted. `Crash` keeps only the files. `CompactEnd` ends a
compaction, which writes or does not: `WriteCompacted` renames the thread to a backup and
writes the summary to a new file, and leaves an empty thread when the write fails. A
`Crash` may come in the middle of that write too, with either outcome.

`asyncio.Lock` is modelled by what `acquire` and `release` do: a lock that is
free is taken at once only when nobody (who is not cancelled) waits for it.

`SessionLane.tla` is what `session.send_message` promises: a session is a lane
that carries one run, an accepted run ends once, its id never comes back, and
all lanes are emptied by a restart. `SessionManager` implements it with
`lane[s]` the registered live task and `ended` the tasks that are over.

`MCSessionManager.tla` adds the symmetry sets; `SessionManagerProofs.tla` holds the
proofs. What a run does to the thread is one entry here: its answer, nothing
(a compaction within the run, which `AutoCompacts` allows, may cut it off) or an
orphan, a call without result, behind which later runs read nothing. How that
comes about is the subject of `AgentLoop`.

### PermissionManager and ToolInvocation

`PermissionManager.tla` models `core/permissions/manager.py` with the policy and
the storage it uses.

| in the module | in the code |
|---|---|
| `stage`, `about` | where `check_and_wait` is for a request, or its verdict; session, tool and command |
| `pending`, `future` | `_pending`; the answer set in the Future and not yet taken |
| `sessionAlways`, `persistentAlways`, `policyFile` | the two caches of "always" decisions; `policy.toml` |
| `attached` | whether a client is there to answer |
| `saveFailed`, `said` | history: the last write of the file failed; what users answered |

`check_and_wait` decides at once (`CheckDecides`) or registers the request and
publishes it (`CheckAsks`); the clock starts when the event has been handed out
(`Announced`), and the wait ends by an answer, the time limit or a cancellation
(`Answered`, `Timeout`, `Cancel`). `Respond` only sets the Future: the decision
is applied when the waiting task resumes. A command is a member of a small
class: it matches a pattern that leaves the working directory or it does not.
`policy.toml` is written in place: a write that fails leaves the old file or a part of the
new one (`Parts`), and a daemon that dies while it applies an answer (`Torn`) leaves a part
too; the next one starts from what it can read.

`ToolInvocation.tla` models `invoke_tool`: validation, the permission, the
execution with its time limit, the retries, and the events published. It
contains the permission manager (`PM == INSTANCE PermissionManager`): the steps
of a call that enter or leave `check_and_wait` are steps of the manager, and
`Elsewhere` is what clients and the event loop do to the manager meanwhile. A
tool is external: it succeeds, fails in a way worth a retry, or fails for good.

### AgentLoop

`AgentLoop.tla` models the messages of the runs of one session: the prompt that
`loop.py` and `context.py` build, what `runner.py` saves of it, how `store.py`
reads it back, and both uses of the compactor.

| in the module | in the code |
|---|---|
| `thread`, `torn` | the readable rows of `thread.jsonl`; the file ends within a row |
| `messages`, `prefill` | `context.messages`, `prefill_len` |
| `phase`, `step`, `todo`, `stop`, `status` | the await a run is in, `context.step`, the calls not yet answered, the last `stop_reason`, `context.status` with its reason |
| `run`, `cut` | the number of runs; history: which messages a compaction within a run has shortened |

A message is its kind, run, step and number of calls or results: a step answers
its calls in order in one message, so these tell every block apart. `Trim` is
`_trim_orphan_tool_use`. `Ends` is the termination check with the decision to
compact, taken in the same step as the last result, because there is no await
between them. A crash can happen at every await and between two rows
(`CrashSaving`, `CrashBeginning`, `CrashCompacting`); a row cut in two makes the
next row unreadable with it. Runs follow one another: that the lock of the
session orders them is `SerialRuns` and `Exclusive` of `SessionManager`. A stop
reason the loop does not know is taken to come without tool calls.

### EventStream

`EventStream.tla` models how the events of runs reach clients and files:
`core/events/bus.py` and `writer.py`, `core/transport/ipc_broadcaster.py`,
subscription with replay in `core/app.py` and the end of a connection in
`core/transport/socket_server.py`.

| in the module | in the code |
|---|---|
| `subs` | `_subscriptions` of the broadcaster, in order |
| `left`, `dead` | of the event a run publishes: what is left of the copy of that list, and the connections found lost |
| `phase`, `count`, `final`, `lost` | where a run is in `run_and_capture`; how many events it has published, whether the current one is `run.finished`, and (history) which were cut off by a cancellation |
| `file` | `events.jsonl` of each run |
| `stage`, `want`, `up` | of each connection: how far its `event.subscribe` is, its parameters, and whether its read loop still runs |
| `seen`, `since` | history: what was written to it, and how many events there were when it was subscribed |

An event is pushed to one subscriber after the other, with a `drain` after each
(`Publish`, `Drained`), and then, in the same step as the last drain, lost connections
are removed and the writers called (`Recorded`): those do not suspend. Every run
registers its writer on the shared bus, so an event is written to the file of every run
under way (`Writers`), not only to its own. `Kept` is the list comprehension of `unsubscribe`,
in a form that can be proved about. `Serve` reads the file and sends it in one
go; whoever had anything to read is subscribed after a drain (`Replayed`). A request
read before the connection ends is handled after it (`Ask`, `Disconnect`, `Serve`).
Topics are two kinds, the events that begin and end a run and all others; whether a
slow client suspends a push is left open, so every order is covered. A connection
subscribes once, as all clients in the repository do.

### TerminalClient

`TerminalClient.tla` composes the terminal UI (`tui/app.py` over
`core/transport/socket_client.py`) with the session it talks to.

| in the module | in the code |
|---|---|
| `link`, `prompt`, `pump` | where `_socket_loop` is; whether the prompt takes input; whether the message pump is free (Ctrl+C waits for its answer inside it) |
| `busy`, `queue`, `woken` | `_busy`; `_queued_messages`; sends whose refusal has set the Future of `send_command` and whose worker has not resumed |
| `requests`, `inbox` | the lines on the socket in both directions |
| `subscribed`, `lane`, `stopping` | of the daemon: the subscription of this connection, what holds the session (with the stage of a run), and a `session.cancel` that waits for the task |
| `place`, `turns`, `mute` | history: where each message is, the accepted ones in order, and whether a connection was lost or a run ended without announcing it |

`Submit`, `Interrupt`, `CtrlC` and `Compact` are what the user does, one action per
handler of the UI with the worker it starts; `Hear...` is one line dispatched to the
handler of its event or to the pending call; `Serve...` is a request in the daemon;
`RunStarts`, `RunAnnounces` and `LaneEnds` are what `SessionManager` shows of a run to
its clients. A run is announced while it still holds the session: that is the window in
which a queued message is refused. Other users of the session (`OtherSends`), other
sessions on the same subscription (`OtherSession`) and the loss of the connection with
or without the daemon (`Lose`) are bounded by `MaxExtras`.

### Subagents

`Subagents.tla` models `core/subagent/tool.py` and `registry.py` in the runs of one
session, through `invoke_tool` and the runner.

| in the module | in the code |
|---|---|
| `born`, `parent`, `mode` | the runs and subagents created, who created them, and whether one is a run, a foreground or a background subagent |
| `stage`, `call`, `attempt` | of each agent: what its task waits for, the subagent its tool call waits for, the attempt of `invoke_tool` |
| `cancel`, `stopped` | a cancellation of its task that is on the way; history: that there was one |
| `told`, `cancels` | history: the last answer of `agent_result` about a subagent; the number of cancellations |

`asyncio.wait_for` is that of Python 3.11: it cancels the subagent and waits until it has
ended (`Expired`, `Arrives`), a second cancellation breaks that wait (`StopReturns`), and
a cancellation that comes together with the end of the subagent is dropped (`Returned`).
The registry of background subagents belongs to the runner, and a runner is made for
each message, so `agent_result` of a later run answers that it does not know them
(`AskResult`). `_build_child_registry` lets subagents nest twice (`MaxDepth`).

### Daemon

`Daemon.tla` models the life of the daemon (`CoreApp.run`) around one MCP server
(`core/mcp/`), the tool calls of concurrent agents that share its client, and the trace
(`core/trace/writer.py`).

| in the module | in the code |
|---|---|
| `phase` | where `CoreApp.run` is |
| `offered`, `alive` | the client is in `_clients` and its tools are registered; the process runs |
| `lastId`, `lock`, `state`, `req`, `attempt` | `_id`; the holder of `_lock` and its queue; where each call is, the id of its request, the attempt of `invoke_tool` |
| `toServer`, `working`, `fromServer`, `notices` | the pipes, and the requests the server has taken |
| `drain`, `queued` | the task of the trace writer and its queue |
| `result` | history: the id whose answer a call returned |

`_call` is `Begin`, `Acquire` and `ReadLine` (a line that is not the answer is skipped)
or `ReadFails` (30 s without a line, or the end of the stream); `Abandon` is the time
limit of `invoke_tool` or a cancellation, at any of its awaits. The server answers in any
order, late or never, sends notifications and may die. `Signal`, `StopServers`,
`StopTrace` and `Down` are the shutdown; agents are not stopped before `Down`, because
`_running_runs` holds only tasks that hand a message to a session and end with that.

## 3. The runs

| run | instance | shows |
|---|---|---|
| `session_chat` | 1 chat session, 3 messages, 2 concurrent callers | `SerialRuns`, `Exclusive`, `NothingLost`, `TypeOK` |
| `session_names` | 2 one-shot sessions, 1 alias, 2 messages, 1 caller | `AliasesUnique`, `OneShotRunsOnce` |
| `session_progress` | 1 session of either mode, 2 messages, 2 callers, fairness | `CallsReturn`, and `ImplementsLane`: the refinement of `SessionLane`, by which every accepted message ends |
| `session_recall_claim` | violated | after a run cancelled in a tool call, later successful runs are in no prompt |
| `permission_consent` | 3 requests of 2 sessions for 2 tools, time limit | `PendingIsOpen`, `OutsideNeedsConsent`, `AutoAllowHasAuthor`, `DecisionsStand`, `TypeOK` |
| `tool_calls` | 2 calls, 1 retry, fairness | `OnlyWhenAllowed`, `ToldAsItWas`, `CallsReturn`, `TypeOK` |
| `loop_thread` | 3 runs of 2 steps, 2 calls per response in the first run and 1 in the others, fairness | `PromptsAreValid`, `ThreadInOrder`, `AnswerWins`, `RunEnds`, `TypeOK` |
| `event_stream` | 2 runs of up to 3 and 2 events, 2 clients, fairness | `SeenInOrder`, `LiveIsComplete`, `GoneAreForgotten`, `RunsEnd`, `TypeOK` |
| `terminal_queue` | 3 messages, 3 things others do, fairness | `NoOvertaking`, `InterruptSpares`, `NothingStrands`, `QueueDrains`, `TypeOK` |
| `terminal_queue_claim` | violated | a queued message is refused because the run that announced its end still holds the session, and dropped |
| `subagent_calls` | 4 runs and subagents, 2 cancellations, fairness | `ForegroundNests`, `CompletedIsQuiet`, `AgentsEnd`, `TypeOK` |
| `daemon_life` | 1 server, 2 callers, 5 requests, 1 notification, fairness | `AnswersMatch`, `CallsReturn`, `ShutdownEnds`, `TypeOK` |

Bounds. Sessions share nothing but aliases and the event loop, so one session
is enough wherever aliases are not the question, and two are enough for a
conflict of one alias. Three messages allow a run that is over, one whose
callback is late, and one just accepted. Two callers allow a close against a
compaction and a double cancellation. The kinds of message differ only in one more
await before the agent (a skill) or in not reaching it (a blank), and a run that may
compact its own messages (`AutoCompacts`) has one more way not to save its answer:
`session_names` explores these, `session_chat` and `session_progress` send plain messages
and do without; the theorems hold for all of them. The symmetry of the safety runs exchanges
runs, callers and sessions, which occur in no expression but equality;
liveness runs use none. Every run explores all reachable states; messages are
never reused, which bounds the state space, and all other state is finite.
Deadlock is checked in every run that does not say otherwise: a client may
always list the sessions, ask for permission to no avail, or compact a thread.

Two requests are a cached decision and one that meets it, the third a late
answer. Two tools are one that an answer is about and one whose decision stands beside
it in the same file; two sessions contradict each other about either.
One retry is the first attempt, a retry and the refusal of the next. Three runs
are one that leaves its thread in any state, one that appends to that, and one
that reads the result; two steps are one that goes on and one that hits the
limit; two calls can be answered in part. In
`event_stream` one run has an event between its first and its last, which a
cancellation can cut off, and the other interferes; one client replays a run and follows
it, the other follows the beginnings and ends of both, so that a push can lose one and
go on to the other. `MaxEvents` limits how much a run says. The run may stop for good
when all runs have ended and all clients left, so deadlock is not checked there.
Three messages in the terminal are one that runs and two that wait, so that order can be
lost; three things others do are a lost connection with an event before and after it.
Four agents are a run with a child and a grandchild and a retry of either, or a second
run that asks for what the first one left behind; a second cancellation is what breaks
`wait_for`. Five requests are the two of the start and three that two callers can divide
into a call, its retry and a call that reads what an abandoned one left in the pipe. All
three can come to rest (the user owes nothing, all agents have ended, the daemon is
down), so they do not check deadlock.
The bounds only limit how much there
is of everything: no guard of the code looks at them, except `MaxSteps` and
`MaxRetries`, which are the code's own.

Violations. Each checks a sentence of the README or the changelog, quoted in
`PROJECT.json`, against the code. Other disagreements met while modelling have no run of
their own; the modules have the behaviour, and no property contradicts it:

- a cancel that hits `_run_message` while it publishes `session.waiting_for_input`
  returns with `running` in `meta.json` (`core/session/manager.py:233`);
- the message `/` ends its task with an IndexError after `running` was written, and the
  session stays running (`manager.py:185`);
- with `timeout_s = 0` nobody releases a permission request whose clients are gone:
  `cancel_session`, written for that, is never called (`core/permissions/manager.py:193`);
- after a compaction within a run, `prefill_len` no longer says where the run began, and
  a result can be saved without its call (`core/runner.py:254`; `PromptsAreValid` excludes
  such threads by `cut`);
- the registry of background subagents, "shared by the runs" (`core/runner.py:76`), is
  that of one message: the next one cannot ask for their results;
- when writing the trace has failed its task is gone, and the shutdown waits for the
  queue for ever (`core/trace/writer.py:22`; `ShutdownEnds` excludes it by `drain`).

Fairness. `FairSpec` assumes weak fairness of every task and of every suspended
handler: the event loop runs each ready callback in turn, agents and model
calls have time-outs or are cancelled, and sockets drain. It assumes nothing of
clients: nobody has to send, cancel, close, compact or restart.

In `ToolInvocation` each call is fair, tools end by their time limit, and answers
have one (`HasTimeout`): users need not answer. In `AgentLoop` the steps of the
run are: the model answers, fails or is cut off, tools return
(`ToolInvocation!CallsReturn`), and nothing is assumed of users, cancellations
or crashes. In `EventStream`
runs go on and requests are handled once read; a `drain` returns because a client
reads or its connection is lost, which the code takes for granted: it has no time
limit there, and a client that stays connected and never reads holds up every run.

In `TerminalClient` both event loops run and every run ends, as `SessionManager` and
`AgentLoop` show under their own fairness; the user owes nothing, and no connection has
to be lost or to come back. In `Subagents` agents end on their own or by their limits,
and tasks that were cancelled get their turn; nobody has to cancel. In `Daemon` the event
loop runs, the only timeout that has to occur is that of a read, and neither the server
nor a signal owes anything. A server that keeps sending lines that answer nothing would
reset that timeout for ever; `MaxNotices` rules it out. A tool call is saved from it by the
120 s of `invoke_tool`, the start of the daemon by nothing.

## 4. The proofs

`SessionManagerProofs.tla` proves, for any sets of sessions, aliases, runs and
callers:

- `SerialRunsTheorem`: no session ever has two live runs. `SerialRuns` is not
  inductive. `TaskInv` adds that a live run is the registered one of its session
  (`LiveIsRegistered`), that what is registered was started for that session
  (`RegisteredIsOwn`) and that a scheduled callback belongs to an ended task
  (`UnreapedEnded`): with these a late `Reap` cannot remove a live task, and a
  message is accepted only when no task of the session lives.
- `ExclusiveTheorem`: run, close and compaction of a session exclude each other.
  `LockInv` says that whoever is past the lock is its holder. It rests on
  `DataInv` (a suspended request names a loaded session, the queue of a lock
  holds only those that wait for it).
- `TypeCorrect`: the type invariant. It needs `MemInv`: a task or a handler only
  works on a session that is in memory, which no type says.
- `LaneTheorem`: the manager implements the safety part of `SessionLane`. Each
  step maps to `Accept`, `End`, `Die` or a stutter.

The second half of the module proves what depends on the files: `AliasesTheorem` (no two
sessions share an alias) and `OneShotTheorem` (a one-shot session never gets a second
run). Their invariant is `BookInv`: what is in memory and what is on disk of a session
differ in the status only (`MemoryIsSaved`), so `find_by_alias`, which asks memory before
the files, misses no name; a one-shot session that has had a run is closed, or says
running, which the normalization at its next load turns into closed (`OneShotsSpent`);
and one whose accepted run is not yet recorded has had none before (`EarlyIsFirst`).
`LostTheorem` proves the action property `NothingLost`, that what a run could recall of a
session stays in its thread or, where the write of a compaction is broken off, is in the
backup just made: by `LockInv` nobody writes to a thread while it is being compacted, so
what the compaction has read is what the thread still says (`SeenIsRead`), a summary
replaces nothing newer than itself, and the file that is renamed holds all of it
(`SeenWritten`). Nothing puts the backup back: the entries are saved and yet in no later
prompt, which the property says openly. Backups of two compactions in one second would
have one name; a compaction waits for the model, so that is not modelled.

The assumptions are those of the constants in `SessionManager.tla`: modes and
contents are among the known ones, and the absent value is neither a name nor a session.

`PermissionManagerProofs.tla` proves, for any sets of requests, sessions and
tools, `TypeTheorem`, `PendingTheorem`, `OutsideTheorem` and `AuthorTheorem` from
one inductive invariant, `ConsentInv`: a verdict given by a user is the answer in
the request's own Future (`VerdictIsAnswer`), nothing outside the working
directory is let through unasked (`OutsideIsAsked`), and every cached grant, and
every answer that is yet to be applied, has an author (`GrantsAuthored`).
`RestartTheorem` proves the action property `DecisionsStand`: a decision for good takes
effect with its own word when the waiting task resumes (`AnswerStands`), nothing but
such an answer or a restart changes what is decided (`CachesKept`), and a restart finds
the same words again unless `policy.toml` was not written whole: `FileIsCache` says that
after a write that succeeded the file is the persistent cache. An answer that was given
and not yet applied when its task was cancelled or the daemon died is no decision in this
sense.
`DeniedTheorem` says that a command which matches a deny pattern stays refused,
whatever is answered, cached or restarted afterwards.

`ToolInvocationProofs.tla` proves `PermissionTheorem`, that every step of a call
is a step of the permission manager or none, so that the theorems about the
manager hold where it is used, and `AllowedTheorem`: a tool is executed only for
a call that was let through. Its invariant, `CallInv`, ties the place in
`invoke_tool` to the verdict of the request. `ToldTheorem` says that the events of a
call tell what happened to it: `ToldInv` counts the events of each kind against the place
in `invoke_tool` and the number of executions (`Fits`), and one lemma on how the counts
grow with one more event (`Tally`) settles every step. `TypeTheorem` adds the bounds of
the counters to it (`Bounded`) and takes the types of the manager from
`PermissionManagerProofs` by INSTANCE: `PM!Spec` and `Manager!Spec` are the same formula
under two names (`SameManager`). `RightTheorem` is where the two modules meet: no tool
is executed for a denied command, none outside the working directory unless the
request itself was granted, and a plain one only by a grant, by the policy or by an
"always" that a user gave in some session. `CallInv` says that what was executed was
let through, `ConsentInv` and `DeniedTheorem` what the manager lets through. The
assumptions are those of the manager (`PermissionAssumption`) and of the retries.

`AgentLoopProofs.tla` proves, for any number of runs, steps and calls, `TypeTheorem`,
`AnswerTheorem` and `PromptTheorem`. Types and outcomes are inductive with
`PhaseFits`, which says what each await implies of the rest of the run.
`PromptsAreValid` speaks of a prompt that is built from a thread that is built from
prompts, so its invariant goes round that circle (`ReadInv`): what `Trim` makes of the
thread is `Closed`, every call of it answered in full by the next message; the prompt
is paired, and closed whenever the loop can go on from it (`PromptFits`); and the
prompt is what was read followed by what the run added (`PromptExtends`). Saving any
part of what was added then either continues what was read, and `Trim` cuts off what
is open (`PrefixPaired`, `TrimPaired`), or is appended behind an orphan, where it
is never read (`TrimOrphan`). The latter needs that rows of this run cannot answer a
call of an earlier one, hence `KnownInv`: the thread holds nothing of the current run
but its goal. `HasMaximum` gives `Trim` its meaning: a bounded set without a maximum
would be mapped into a smaller one by adding 1, against the pigeonhole principle. The
assumption is `BoundsAssumption`: there is at least one step.

`OrderTheorem` adds that the rows of the file are in the order in which they were said.
`OrderInv` has two halves. What a run says beyond its prefill is ordered, its own, and
not later than its step (`SayInv`). The file begins with a goal or a summary (`FileInv`),
so some of it is always read (`SomeIsRead`), and the goal of a run is made up again only
when the file is empty; that the rows of earlier runs come before those of this one is
`KnownInv` again.

`TerminalClientProofs.tla` proves `TypeTheorem`, `SparesTheorem` (an interrupt does not
touch what was typed after it) and `StrandsTheorem` (no queued message is left without
an event or answer that will take it up). The lines on the wire are abstracted to the
set of kinds still to come, `KindsOf`. The invariant says of the wire that it carries
what the state of the daemon and of the client promises: an interrupt precedes the
message it makes room for (`InterruptsLead`), a refusal still to come carries its message
(`RefusalsCarry`), and as long as nothing was lost the client will hear of a run or knows
that there is none (`Listening`). The assumption is `ClientAssumption`.
`OvertakingTheorem` proves the action property `NoOvertaking`, that messages never
change places on their way to the daemon. Whatever a step does, it shifts the requests
on the wire by one number of places and the queue of the terminal by another, takes at
most the first of the wire and moves at most the first of the queue to the end of the
wire (`Moves`): so of two messages that keep waiting the earlier stays ahead
(`KeepsOrder`), and with each message in one place (`Placed`) nobody passes.

`SubagentsProofs.tla` proves `TypeTheorem`, `NestingTheorem` and `QuietTheorem` for any
tree of agents that the limits allow. That a subagent in the foreground does not outlive
its caller is not inductive: a wait whose time is up, or that is being cancelled, may be
broken by a second cancellation, and what it leaves behind must have been cancelled before.
The invariant adds just that (`CancelledAreStopped`), that parents exist and each call is
the caller's own (`ParentsExist`, `CallsAreOwn`), and that a subagent told to be completed
is over (`ToldAreOver`). An agent that completed ended of itself and waits for nobody, hence
`QuietTheorem`. The assumption is `SubagentAssumption`.

`DaemonProofs.tla` proves `AnswersTheorem`: a call of a tool returns the answer to its own
request. `AnswerInv` says that a call with a result is done for good and that its request
is not replaced by a later one. `TypeTheorem` needs to know what counts the attempts
at each place (`Attempted`) and that whoever writes a request has an id for it
(`Asking`). `ReaderTheorem` says that two calls never read from one server at a time,
which is what the lock of the client is for: each call is in the queue of the lock once,
exactly while it waits or reads, and whoever reads is its head (`LockInv`). A call that
is cancelled, or whose time is up, leaves from the middle of the queue (`WithoutFacts`);
there the waiting and the holding must be told apart. The assumption is
`DaemonAssumption`.

`EventStreamProofs.tla` proves all four invariants of `EventStream`, for any clients,
runs and numbers of events: `TypeTheorem`, `OrderTheorem` (each client sees the events of
a run in order and at most once), `LiveTheorem` (a subscribed client whose connection
lives has been sent every event that concerns it) and `GoneTheorem` (a connection that
is lost stays subscribed no longer than the next event that concerns it). None of the
last three is inductive: they speak of finished publications, and the invariant has to
say how far the one under way has come. With the list that is left of a publication, a
client is either still in it or has been sent the event (`Pushed`), or is in it or has
been found lost if it is gone (`Missed`); whoever is still in it has not seen the event
(`Shown`), so a push cannot repeat it; and no client is listed twice (`Listed`). The
invariants then follow event by event (`AllSeen`, `NoneOwed`). A publication that is
resumed, whichever drain it waits for, is one lemma about what one step of it does
(`Push`), a step of a client another (`Visit`). `unsubscribe` rebuilds the list: `Kept`
numbers what stays and `Traces` recovers from the numbering, by counting, that the list
keeps its order and loses nobody else. The assumptions are `RunAssumption`,
`RequestAssumption` and `EventsAssumption`.

So every invariant and every action property that the passing runs check is a theorem.
Only model-checked are the liveness properties (`CallsReturn`, `RunEnds`, `RunsEnd`,
`QueueDrains`, `AgentsEnd`, `ShutdownEnds`) and the fairness part of `ImplementsLane`:
temporal reasoning with ENABLED is out of the prover's reach. Nothing is proved by
induction over data: where the code filters a list the modules number the places that
stay, because the provers know nothing of `SelectSeq`. `OneReader`, `DeniedIsRefused` and
`ExecutedByRight` are stated with the proofs only and belong to no run.

## 5. Not modelled

- The permission prompts and the drawing of the terminal UI, its start without a session,
  the command line's chat: of the UI only what changes the busy flag, the queue and the
  prompt. `_drain_stderr` of an MCP server, requests the server sends on its own (their
  ids may equal the id of a call, which would then take them for its answer), and the
  processes of servers whose start failed, which nobody terminates.
- The task manager: every operation reads and writes its files without an await in
  between, so nothing interleaves with it.
- What agents and subagents say to their model; profiles of subagents only choose it.
- That a replay and the stream after it leave no gap: they do leave one, for events
  published between the two or pushed to others at that moment (`hazards` in
  `PROJECT.json`). A loss of disk or of the daemon in `EventStream`.
- The translation of messages between vendors, truncation of long results, prompts,
  summaries: text whose content no property is about.
- Configuration, skills, memory files, built-in tools, command line and web server:
  sequential I/O without state that two steps could disagree about.
- Files are written and read whole, except `thread.jsonl` and `policy.toml`. A torn
  `meta.json`, which `write_meta` writes in place, is named under `hazards`.

## 6. What could follow

1. An abstract specification of `EventStream` (each client sees a growing part of what each
   run said) and the refinement.
2. `ProviderStream`: retries that keep a stop reason or tokens of an earlier attempt.
3. Composition: `AgentLoop` as the run of `SessionManager` (the entries of its thread are
   an abstraction of the rows), `ToolInvocation` as its tool calls, and `SessionManager`
   as the daemon of `TerminalClient`.

Theorems wanted: the refinement of point 1, whose step simulation `IInv` of `EventStream`
already carries; of point 3 the daemon of `TerminalClient` as a `SessionLane`, and the
`thread` of `SessionManager` as what `AgentLoop` leaves.
