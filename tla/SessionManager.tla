--------------------------- MODULE SessionManager ---------------------------
(***************************************************************************)
(* The session manager of kama-core (core/session/manager.py): sessions in *)
(* memory and on disk, one lock per session, one background task per       *)
(* message, and the requests clients make concurrently.                    *)
(*                                                                         *)
(* The daemon is a single asyncio loop, so an action is the code a task or *)
(* a handler executes between two awaits that can suspend.  Such an await  *)
(* is acquiring the lock, publishing an event (a subscriber's socket may   *)
(* be full), running the agent, the compaction model call, and waiting     *)
(* for a cancelled task.  Every file operation is synchronous.             *)
(***************************************************************************)
EXTENDS Naturals, Sequences, SequencesExt

CONSTANTS
  Sids,      \* session identifiers
  Aliases,   \* names given by session.alias
  Runs,      \* run identifiers: one per accepted message, never reused
  Callers,   \* client requests that can be suspended at the same time
  Modes,     \* session modes clients create: within {"chat", "one_shot"}
  Contents,  \* kinds of message: within {"text", "skill", "blank"}
  AutoCompacts, \* compaction.auto_threshold > 0: a run may compact its own messages
  None       \* absence of a session, run, alias ...

ASSUME ModesAssumption    == Modes \subseteq {"chat", "one_shot"}
ASSUME ContentsAssumption == Contents \subseteq {"text", "skill", "blank"}
ASSUME AutoAssumption     == AutoCompacts \in BOOLEAN
ASSUME NoneAssumption     == None \notin Sids \union Aliases \union Runs \union Callers
ASSUME NamesAssumption    == /\ Sids \intersect Aliases = {}
                             /\ Runs \intersect Callers = {}

VARIABLES
  memory,      \* SessionManager._sessions
  disk,        \* meta.json of every session
  thread,      \* thread.jsonl: what the next run is given of it
  backup,      \* the newest thread_<ts>.jsonl.bak, which nobody reads
  holder,      \* who owns the session's asyncio.Lock
  waiters,     \* the FIFO of that lock
  registered,  \* SessionManager._running_tasks
  pc,          \* where the task of a run is suspended, or how it ended
  sid,         \* the session a run belongs to
  content,     \* the kind of message the run was sent
  cancelled,   \* a CancelledError is thrown at the task's next step
  unreaped,    \* runs whose done callback is scheduled and has not been called
  call         \* the suspended request of each caller

vars == <<memory, disk, thread, backup, holder, waiters, registered,
          pc, sid, content, cancelled, unreaped, call>>

taskVars == <<pc, sid, content, cancelled, unreaped, registered>>
lockVars == <<holder, waiters>>
threads  == <<thread, backup>>

-----------------------------------------------------------------------------
(* Types.                                                                  *)

Status == {"active", "running", "waiting_for_input", "closed"}

Session == [mode: {"chat", "one_shot"}, status: Status,
            alias: Aliases \union {None}, runs: SUBSET Runs]

ASSUME NoneIsNoSession == None \notin Session

\* What a run leaves in the thread: the user's message and the agent's answer, or
\* an orphan: a tool_use whose result never came.
Entries == {"message", "answer", "orphan"} \X Runs

\* Suspended in code that runs under the session's lock.
InLock == {"resumed", "received", "skill", "agent", "run_finished",
           "run_cancelled", "announce", "unwind"}
Suspended == {"created", "lock_wait"} \union InLock
Ended == {"succeeded", "aborted", "refused", "raised", "lost"}

Call == [op: {"idle", "cancel", "close_wait", "close", "compact_wait", "compact"},
         on: Sids \union {None}, run: Runs \union {None}, seen: SUBSET Entries]

Idle == [op |-> "idle", on |-> None, run |-> None, seen |-> {}]

TypeOK ==
  /\ memory \in [Sids -> Session \union {None}]
  /\ disk \in [Sids -> Session \union {None}]
  /\ thread \in [Sids -> SUBSET Entries]
  /\ backup \in [Sids -> SUBSET Entries]
  /\ holder \in [Sids -> Runs \union Callers \union {None}]
  /\ waiters \in [Sids -> Seq(Runs \union Callers)]
  /\ registered \in [Sids -> Runs \union {None}]
  /\ pc \in [Runs -> {"unused"} \union Suspended \union Ended]
  /\ sid \in [Runs -> Sids \union {None}]
  /\ content \in [Runs -> Contents \union {None}]
  /\ cancelled \in [Runs -> BOOLEAN]
  /\ unreaped \in SUBSET Runs
  /\ call \in [Callers -> Call]

Init ==
  /\ memory = [s \in Sids |-> None]
  /\ disk = [s \in Sids |-> None]
  /\ thread = [s \in Sids |-> {}]
  /\ backup = [s \in Sids |-> {}]
  /\ holder = [s \in Sids |-> None]
  /\ waiters = [s \in Sids |-> <<>>]
  /\ registered = [s \in Sids |-> None]
  /\ pc = [r \in Runs |-> "unused"]
  /\ sid = [r \in Runs |-> None]
  /\ content = [r \in Runs |-> None]
  /\ cancelled = [r \in Runs |-> FALSE]
  /\ unreaped = {}
  /\ call = [c \in Callers |-> Idle]

-----------------------------------------------------------------------------
(* Helpers of the handlers.                                                *)

Live(r) == pc[r] \in Suspended

\* _is_running: the registered task exists and is not done.
IsRunning(s) == registered[s] # None /\ Live(registered[s])

Locked(s) == holder[s] # None

\* Mutation: a status name nothing else knows.
RestStatusMisspelt(mode) == IF mode = "chat" THEN "waiting" ELSE "closed"

\* Mutation: the mode is not looked at.
RestStatusForAll(mode) == "waiting_for_input"

\* The status a session rests in between two runs.
RestStatus(mode) == IF mode = "chat" THEN "waiting_for_input" ELSE "closed"

Rested(session) == [session EXCEPT !.status = RestStatus(session.mode)]

\* _normalize_stored_session: "running" without a task is left over from a
\* daemon that died (or from a task that did).
Normalized(s, session) ==
  IF session.status = "running" /\ ~IsRunning(s) THEN Rested(session) ELSE session

\* A closed chat session is reopened; a closed one-shot session is not.
Reopened(session) ==
  IF session.status = "closed" /\ session.mode = "chat"
    THEN [session EXCEPT !.status = "waiting_for_input"] ELSE session

\* The object a handler starts from: the one in memory, else the file.
Object(s) == IF memory[s] # None THEN memory[s] ELSE disk[s]

\* Mutation: sessions not in memory are not searched.
FoundInMemory(a) == {s \in Sids : memory[s] # None /\ memory[s].alias = a}

\* _find_by_alias: memory first, then the files.
FoundByAlias(a) ==
  LET inMemory == {s \in Sids : memory[s] # None /\ memory[s].alias = a}
      onDisk   == {s \in Sids : disk[s] # None /\ disk[s].alias = a}
  IN  IF inMemory # {} THEN inMemory ELSE onDisk

\* _resolve_session_id, then the lookup of _get_session: ref names session s.
Refers(ref, s) ==
  /\ disk[s] # None
  /\ ref = s \/ (ref \in Aliases /\ s \in FoundByAlias(ref))

\* The object _get_session returns.  _resolve_session_id puts the object an
\* alias was found in straight into memory; only a session looked up by its
\* identifier is normalized on the way in.
Opened(ref, s) ==
  IF memory[s] = None /\ ref = s THEN Normalized(s, disk[s]) ELSE Object(s)

\* write_meta is called exactly when the handler changed the object.
Save(s, session) ==
  /\ memory' = [memory EXCEPT ![s] = session]
  /\ disk' = IF session = Object(s) THEN disk ELSE [disk EXCEPT ![s] = session]

\* asyncio.Lock.acquire returns at once when the lock is free and every waiter
\* still in the queue has been cancelled; otherwise it may have to queue.
AcquiresAtOnce(s) ==
  /\ ~Locked(s)
  /\ \A i \in DOMAIN waiters[s] :
        waiters[s][i] \in Runs /\ cancelled[waiters[s][i]]

MustQueue(s) == Locked(s) \/ waiters[s] # <<>>

Woken(s, who) == ~Locked(s) /\ waiters[s] # <<>> /\ Head(waiters[s]) = who

-----------------------------------------------------------------------------
(* Requests that complete without suspending, apart from a last event.     *)

Create(s, mode) ==
  /\ disk[s] = None
  /\ Save(s, [mode |-> mode, status |-> "active", alias |-> None, runs |-> {}])
  /\ UNCHANGED <<threads, call>> /\ UNCHANGED taskVars /\ UNCHANGED lockVars

\* session.list rewrites the files that claim a run nobody is executing.
ListSessions ==
  /\ disk' = [s \in Sids |->
                IF disk[s] = None THEN None ELSE Normalized(s, disk[s])]
  /\ UNCHANGED <<memory, threads, call>> /\ UNCHANGED taskVars /\ UNCHANGED lockVars

\* session.get_history, and every request refused after the session is found.
GetHistory(ref, s) ==
  /\ Refers(ref, s)
  /\ Save(s, Opened(ref, s))
  /\ UNCHANGED <<threads, call>> /\ UNCHANGED taskVars /\ UNCHANGED lockVars

\* session.alias writes the object in memory whether or not it has changed.
SetAlias(s, alias) ==
  /\ Refers(s, s)
  /\ FoundByAlias(alias) \subseteq {s}
  /\ LET named == [Opened(s, s) EXCEPT !.alias = alias] IN
       /\ memory' = [memory EXCEPT ![s] = named]
       /\ disk' = [disk EXCEPT ![s] = named]
  /\ UNCHANGED <<threads, call>> /\ UNCHANGED taskVars /\ UNCHANGED lockVars

Resume(ref, s) ==
  /\ Refers(ref, s)
  /\ Save(s, Reopened(Opened(ref, s)))
  /\ UNCHANGED <<threads, call>> /\ UNCHANGED taskVars /\ UNCHANGED lockVars

-----------------------------------------------------------------------------
(* session.send_message: accepting a message creates the task of its run.  *)

Accepts(s, session) ==
  /\ ~Locked(s)
  /\ ~IsRunning(s)
  /\ ~(session.status = "closed" /\ session.mode = "one_shot")

SendMessage(ref, s, r, kind) ==
  /\ Refers(ref, s)
  /\ pc[r] = "unused"
  /\ LET session == Normalized(s, Opened(ref, s)) IN
       /\ Accepts(s, session)
       /\ Save(s, Reopened(session))
  /\ pc' = [pc EXCEPT ![r] = "created"]
  /\ sid' = [sid EXCEPT ![r] = s]
  /\ content' = [content EXCEPT ![r] = kind]
  /\ registered' = [registered EXCEPT ![s] = r]
  /\ UNCHANGED <<threads, cancelled, unreaped, call>> /\ UNCHANGED lockVars

\* SESSION_BUSY or SESSION_CLOSED; the normalization has been done.
RefuseMessage(ref, s) ==
  /\ Refers(ref, s)
  /\ LET session == Normalized(s, Opened(ref, s)) IN
       /\ ~Accepts(s, session)
       /\ Save(s, session)
  /\ UNCHANGED <<threads, call>> /\ UNCHANGED taskVars /\ UNCHANGED lockVars

-----------------------------------------------------------------------------
(* The task of a run: _run_message.                                        *)

\* The task of r moves from one suspension point to the next.
Step(r, from, to) ==
  /\ pc[r] = from
  /\ ~cancelled[r]
  /\ pc' = [pc EXCEPT ![r] = to]

\* The task ends: its done callback is scheduled.
EndTask(r, how) ==
  /\ pc' = [pc EXCEPT ![r] = how]
  /\ unreaped' = unreaped \union {r}

Release(s) == holder' = [holder EXCEPT ![s] = None]

WaitForLock(r) ==
  LET s == sid[r] IN
  /\ Step(r, "created", "lock_wait")
  /\ MustQueue(s)
  /\ waiters' = [waiters EXCEPT ![s] = Append(@, r)]
  /\ UNCHANGED <<memory, disk, threads, holder, registered, sid, content,
                 cancelled, unreaped, call>>

\* The task gets the lock, at its first step or when it is woken.
GetsLock(r) ==
  LET s == sid[r] IN
  /\ ~cancelled[r]
  /\ \/ pc[r] = "created" /\ AcquiresAtOnce(s) /\ waiters' = waiters
     \/ pc[r] = "lock_wait" /\ Woken(s, r)
          /\ waiters' = [waiters EXCEPT ![s] = Tail(@)]

\* Mutation: the lock is taken without a context manager and stays taken.
EnterClosedLeaky(r) ==
  LET s == sid[r] IN
  /\ GetsLock(r)
  /\ Reopened(memory[s]).status = "closed"
  /\ holder' = [holder EXCEPT ![s] = r]
  /\ EndTask(r, "refused")
  /\ UNCHANGED <<memory, disk, threads, registered, sid, content, cancelled, call>>

\* SESSION_CLOSED inside the task: nobody is told.
EnterClosed(r) ==
  LET s == sid[r] IN
  /\ GetsLock(r)
  /\ Reopened(memory[s]).status = "closed"
  /\ Release(s)
  /\ EndTask(r, "refused")
  /\ UNCHANGED <<memory, disk, threads, registered, sid, content, cancelled, call>>

Orphans == {"orphan"} \X Runs

\* read_messages trims the thread at its first orphan: whatever is appended
\* behind it is in the file and in no prompt.
AppendMessages(s, entry) ==
  thread' = [thread EXCEPT ![s] = IF @ \intersect Orphans = {} THEN @ \union {entry} ELSE @]

\* What read_messages returns.
ReadMessages(s) == thread[s] \ Orphans

\* A session that was waiting announces session.resumed first.
EnterWaiting(r) ==
  LET s == sid[r] IN
  /\ GetsLock(r)
  /\ Reopened(memory[s]).status = "waiting_for_input"
  /\ Save(s, Reopened(memory[s]))
  /\ holder' = [holder EXCEPT ![s] = r]
  /\ pc' = [pc EXCEPT ![r] = "resumed"]
  /\ UNCHANGED <<threads, registered, sid, content, cancelled, unreaped, call>>

\* A fresh session, or one found "running": straight to the user's message.
EnterActive(r) ==
  LET s == sid[r] IN
  /\ GetsLock(r)
  /\ memory[s].status \in {"active", "running"}
  /\ holder' = [holder EXCEPT ![s] = r]
  /\ AppendMessages(s, <<"message", r>>)
  /\ pc' = [pc EXCEPT ![r] = "received"]
  /\ UNCHANGED <<backup, memory, disk, registered, sid, content, cancelled, unreaped, call>>

ReceiveMessage(r) ==
  LET s == sid[r] IN
  /\ Step(r, "resumed", "received")
  /\ AppendMessages(s, <<"message", r>>)
  /\ UNCHANGED <<backup, memory, disk, registered, sid, content, cancelled, unreaped, call>>
  /\ UNCHANGED lockVars

\* session.message_received is out: the run is recorded and the session marked
\* running, on disk too.
MarkRunning(r) ==
  LET s == sid[r] IN
  Save(s, [memory[s] EXCEPT !.status = "running", !.runs = @ \union {r}])

BeginRun(r) ==
  /\ content[r] # "blank"
  /\ Step(r, "received", IF content[r] = "skill" THEN "skill" ELSE "agent")
  /\ MarkRunning(r)
  /\ UNCHANGED <<threads, registered, sid, content, cancelled, unreaped, call>>
  /\ UNCHANGED lockVars

\* A slash with no name after it: parts[0] raises IndexError.
BeginBlank(r) ==
  /\ pc[r] = "received" /\ ~cancelled[r]
  /\ content[r] = "blank"
  /\ MarkRunning(r)
  /\ Release(sid[r])
  /\ EndTask(r, "raised")
  /\ UNCHANGED <<threads, waiters, registered, sid, content, cancelled, call>>

\* skill.invoked is out.
InvokeAgent(r) ==
  /\ Step(r, "skill", "agent")
  /\ UNCHANGED <<memory, disk, threads, registered, sid, content, cancelled, unreaped, call>>
  /\ UNCHANGED lockVars

\* The loop of run_and_capture ends by itself, in success or failure, and
\* publishes run.finished.
FinishAgent(r) ==
  /\ Step(r, "agent", "run_finished")
  /\ UNCHANGED <<memory, disk, threads, registered, sid, content, cancelled, unreaped, call>>
  /\ UNCHANGED lockVars

\* The loop is cancelled: run_and_capture swallows the error until it has
\* published run.finished and saved the messages.
CancelAgent(r) ==
  /\ pc[r] = "agent" /\ cancelled[r]
  /\ pc' = [pc EXCEPT ![r] = "run_cancelled"]
  /\ cancelled' = [cancelled EXCEPT ![r] = FALSE]
  /\ UNCHANGED <<memory, disk, threads, registered, sid, content, unreaped, call>>
  /\ UNCHANGED lockVars

\* A tool call whose result is already there: asyncio.wait_for of Python 3.11
\* returns the result and the cancellation is gone.
SwallowCancel(r) ==
  /\ pc[r] = "agent" /\ cancelled[r]
  /\ pc' = [pc EXCEPT ![r] = "agent"]
  /\ cancelled' = [cancelled EXCEPT ![r] = FALSE]
  /\ UNCHANGED <<memory, disk, threads, registered, sid, content, unreaped, call>>
  /\ UNCHANGED lockVars

\* run_and_capture saves the messages behind the prefill.  A compaction within
\* the run has replaced the prefill too, and the answer may be cut off with it.
SaveAnswer(r) ==
  \/ AppendMessages(sid[r], <<"answer", r>>)
  \/ AutoCompacts /\ UNCHANGED thread

\* The normal tail: the status changes in memory, the event goes out, and only
\* then is meta.json written (SaveMeta).
AnnounceEnd(r) ==
  LET s == sid[r] IN
  /\ Step(r, "run_finished", "announce")
  /\ SaveAnswer(r)
  /\ memory' = [memory EXCEPT ![s] = Rested(@)]
  /\ UNCHANGED <<backup, disk, registered, sid, content, cancelled, unreaped, call>>
  /\ UNCHANGED lockVars

SaveMeta(r) ==
  LET s == sid[r] IN
  /\ pc[r] = "announce" /\ ~cancelled[r]
  /\ disk' = [disk EXCEPT ![s] = memory[s]]
  /\ Release(s)
  /\ EndTask(r, "succeeded")
  /\ UNCHANGED <<memory, threads, waiters, registered, sid, content, cancelled, call>>

\* The except clause: the file is written first, then the event goes out.
RestOnCancel(r) ==
  LET session == Rested(memory[sid[r]]) IN
  /\ memory' = [memory EXCEPT ![sid[r]] = session]
  /\ disk' = [disk EXCEPT ![sid[r]] = session]

\* A run cancelled in a tool call leaves the call without a result.
AnnounceCancel(r) ==
  /\ Step(r, "run_cancelled", "unwind")
  /\ SaveAnswer(r) \/ AppendMessages(sid[r], <<"orphan", r>>)
  /\ RestOnCancel(r)
  /\ UNCHANGED <<backup, registered, sid, content, cancelled, unreaped, call>>
  /\ UNCHANGED lockVars

\* Cancelled while run_and_capture publishes run.started or run.finished, outside
\* its own try block: the messages of the run are not saved.
DropAnswer(r) ==
  /\ pc[r] \in {"agent", "run_finished", "run_cancelled"} /\ cancelled[r]
  /\ pc' = [pc EXCEPT ![r] = "unwind"]
  /\ cancelled' = [cancelled EXCEPT ![r] = FALSE]
  /\ RestOnCancel(r)
  /\ UNCHANGED <<threads, registered, sid, content, unreaped, call>>
  /\ UNCHANGED lockVars

\* The last event of the except clause is out, or interrupted: raise.
Unwind(r) ==
  /\ pc[r] = "unwind"
  /\ Release(sid[r])
  /\ EndTask(r, "aborted")
  /\ UNCHANGED <<memory, disk, threads, waiters, registered, sid, content, cancelled, call>>

\* Cancelled outside the try block: no status is restored.
AbortUnprotected(r) ==
  LET s == sid[r] IN
  /\ cancelled[r]
  /\ pc[r] \in {"created", "resumed", "received", "skill", "announce"}
  /\ holder' = [holder EXCEPT ![s] = IF @ = r THEN None ELSE @]
  /\ EndTask(r, "aborted")
  /\ UNCHANGED <<memory, disk, threads, waiters, registered, sid, content, cancelled, call>>

\* Cancelled in the queue of the lock.
AbortWaiting(r) ==
  LET s == sid[r] IN
  /\ cancelled[r]
  /\ pc[r] = "lock_wait"
  /\ \E i \in DOMAIN waiters[s] :
       /\ waiters[s][i] = r
       /\ waiters' = [waiters EXCEPT ![s] = RemoveAt(@, i)]
  /\ EndTask(r, "aborted")
  /\ UNCHANGED <<memory, disk, threads, holder, registered, sid, content, cancelled, call>>

\* Mutation: the callback removes whatever task is registered.
ReapAnyTask(r) ==
  /\ r \in unreaped
  /\ unreaped' = unreaped \ {r}
  /\ registered' = [registered EXCEPT ![sid[r]] = None]
  /\ UNCHANGED <<memory, disk, threads, pc, sid, content, cancelled, call>>
  /\ UNCHANGED lockVars

\* _finish_running_task: the done callback, in a later iteration of the loop.
Reap(r) ==
  LET s == sid[r] IN
  /\ r \in unreaped
  /\ unreaped' = unreaped \ {r}
  /\ registered' = [registered EXCEPT ![s] = IF @ = r THEN None ELSE @]
  /\ UNCHANGED <<memory, disk, threads, pc, sid, content, cancelled, call>>
  /\ UNCHANGED lockVars

-----------------------------------------------------------------------------
(* session.cancel: request the cancellation, then wait for the task.       *)

CancelBegin(c, ref, s) ==
  /\ call[c] = Idle
  /\ Refers(ref, s)
  /\ IsRunning(s)
  /\ Save(s, Opened(ref, s))
  /\ cancelled' = [cancelled EXCEPT ![registered[s]] = TRUE]
  /\ call' = [call EXCEPT ![c] = [Idle EXCEPT !.op = "cancel", !.on = s,
                                              !.run = registered[s]]]
  /\ UNCHANGED <<threads, registered, pc, sid, content, unreaped>>
  /\ UNCHANGED lockVars

\* The waiter was added to the task after its done callback, so it is called
\* after it too.
CancelEnd(c) ==
  /\ call[c].op = "cancel"
  /\ ~Live(call[c].run)
  /\ call[c].run \notin unreaped
  /\ call' = [call EXCEPT ![c] = Idle]
  /\ UNCHANGED <<memory, disk, threads>> /\ UNCHANGED taskVars /\ UNCHANGED lockVars

-----------------------------------------------------------------------------
(* session.close and session.compact: refused while the lock is held, else *)
(* executed under it.  A task just woken may still be ahead in the queue.  *)

Queue(c, ref, s, op) ==
  /\ call[c] = Idle
  /\ Refers(ref, s)
  /\ ~Locked(s) /\ MustQueue(s)
  /\ Save(s, Opened(ref, s))
  /\ waiters' = [waiters EXCEPT ![s] = Append(@, c)]
  /\ call' = [call EXCEPT ![c] = [Idle EXCEPT !.op = op, !.on = s]]
  /\ UNCHANGED <<threads, holder>> /\ UNCHANGED taskVars

CloseQueued(c, ref, s)   == Queue(c, ref, s, "close_wait")
CompactQueued(c, ref, s) == Queue(c, ref, s, "compact_wait")

\* "closed" is written first, then session.closed goes out under the lock.
CloseBegin(c, ref, s) ==
  /\ call[c] = Idle
  /\ Refers(ref, s)
  /\ AcquiresAtOnce(s)
  /\ LET closed == [Opened(ref, s) EXCEPT !.status = "closed"] IN
       /\ memory' = [memory EXCEPT ![s] = closed]
       /\ disk' = [disk EXCEPT ![s] = closed]
  /\ holder' = [holder EXCEPT ![s] = c]
  /\ call' = [call EXCEPT ![c] = [Idle EXCEPT !.op = "close", !.on = s]]
  /\ UNCHANGED <<threads, waiters>> /\ UNCHANGED taskVars

CloseWoken(c) ==
  LET s == call[c].on IN
  /\ call[c].op = "close_wait"
  /\ Woken(s, c)
  /\ LET closed == [memory[s] EXCEPT !.status = "closed"] IN
       /\ memory' = [memory EXCEPT ![s] = closed]
       /\ disk' = [disk EXCEPT ![s] = closed]
  /\ holder' = [holder EXCEPT ![s] = c]
  /\ waiters' = [waiters EXCEPT ![s] = Tail(@)]
  /\ call' = [call EXCEPT ![c].op = "close"]
  /\ UNCHANGED threads /\ UNCHANGED taskVars

CloseEnd(c) ==
  /\ call[c].op = "close"
  /\ Release(call[c].on)
  /\ call' = [call EXCEPT ![c] = Idle]
  /\ UNCHANGED <<memory, disk, threads, waiters>> /\ UNCHANGED taskVars

\* Mutation: compaction tests the lock and does not take it.
CompactUnlocked(c, ref, s) ==
  /\ call[c] = Idle
  /\ Refers(ref, s)
  /\ AcquiresAtOnce(s)
  /\ Save(s, Opened(ref, s))
  /\ call' = [call EXCEPT ![c] = [Idle EXCEPT !.op = "compact", !.on = s,
                                              !.seen = ReadMessages(s)]]
  /\ UNCHANGED <<threads, holder, waiters>> /\ UNCHANGED taskVars

\* The thread is read under the lock and summarised by a model call.
CompactBegin(c, ref, s) ==
  /\ call[c] = Idle
  /\ Refers(ref, s)
  /\ AcquiresAtOnce(s)
  /\ Save(s, Opened(ref, s))
  /\ holder' = [holder EXCEPT ![s] = c]
  /\ call' = [call EXCEPT ![c] = [Idle EXCEPT !.op = "compact", !.on = s,
                                              !.seen = ReadMessages(s)]]
  /\ UNCHANGED <<threads, waiters>> /\ UNCHANGED taskVars

CompactWoken(c) ==
  LET s == call[c].on IN
  /\ call[c].op = "compact_wait"
  /\ Woken(s, c)
  /\ holder' = [holder EXCEPT ![s] = c]
  /\ waiters' = [waiters EXCEPT ![s] = Tail(@)]
  /\ call' = [call EXCEPT ![c].op = "compact", ![c].seen = ReadMessages(s)]
  /\ UNCHANGED <<memory, disk, threads>> /\ UNCHANGED taskVars

\* Mutation: the summary is written over the old thread.
WriteCompactedInPlace(s, summary) ==
  /\ \E written \in {summary, {}} : thread' = [thread EXCEPT ![s] = written]
  /\ UNCHANGED backup

\* write_compacted: the thread is renamed and the summary written to a new file, which
\* is left without a row that can be read when the write fails or the daemon dies in it.
WriteCompacted(s, summary) ==
  /\ \/ backup' = [backup EXCEPT ![s] = thread[s]]
     \/ thread[s] = {} /\ UNCHANGED backup      \* there is no file to rename
  /\ \E written \in {summary, {}} : thread' = [thread EXCEPT ![s] = written]

\* The summary replaces the whole thread, or compaction failed and nothing is written.
CompactEnd(c) ==
  LET s == call[c].on IN
  /\ call[c].op = "compact"
  /\ WriteCompacted(s, call[c].seen) \/ UNCHANGED threads
  /\ Release(s)
  /\ call' = [call EXCEPT ![c] = Idle]
  /\ UNCHANGED <<memory, disk, waiters>> /\ UNCHANGED taskVars

-----------------------------------------------------------------------------
\* The daemon dies, perhaps while a compaction writes, and is started again: only the
\* files are left.
Crash ==
  /\ \/ UNCHANGED threads
     \/ \E c \in Callers : call[c].op = "compact" /\ WriteCompacted(call[c].on, call[c].seen)
  /\ memory' = [s \in Sids |-> None]
  /\ holder' = [s \in Sids |-> None]
  /\ waiters' = [s \in Sids |-> <<>>]
  /\ registered' = [s \in Sids |-> None]
  /\ pc' = [r \in Runs |-> IF Live(r) THEN "lost" ELSE pc[r]]
  /\ cancelled' = [r \in Runs |-> FALSE]
  /\ unreaped' = {}
  /\ call' = [c \in Callers |-> Idle]
  /\ UNCHANGED <<disk, sid, content>>

-----------------------------------------------------------------------------
(* The specification.                                                      *)

Request ==
  \/ \E s \in Sids, mode \in Modes : Create(s, mode)
  \/ ListSessions
  \/ \E s \in Sids, alias \in Aliases : SetAlias(s, alias)
  \/ \E ref \in Sids \union Aliases, s \in Sids :
       \/ GetHistory(ref, s)
       \/ Resume(ref, s)
       \/ RefuseMessage(ref, s)
       \/ \E r \in Runs, kind \in Contents : SendMessage(ref, s, r, kind)
       \/ \E c \in Callers :
            \/ CancelBegin(c, ref, s)
            \/ CloseQueued(c, ref, s)
            \/ CloseBegin(c, ref, s)
            \/ CompactQueued(c, ref, s)
            \/ CompactBegin(c, ref, s)

TaskStep(r) ==
  \/ WaitForLock(r)
  \/ EnterClosed(r)
  \/ EnterWaiting(r)
  \/ EnterActive(r)
  \/ ReceiveMessage(r)
  \/ BeginRun(r)
  \/ BeginBlank(r)
  \/ InvokeAgent(r)
  \/ FinishAgent(r)
  \/ CancelAgent(r)
  \/ SwallowCancel(r)
  \/ AnnounceEnd(r)
  \/ SaveMeta(r)
  \/ AnnounceCancel(r)
  \/ DropAnswer(r)
  \/ Unwind(r)
  \/ AbortUnprotected(r)
  \/ AbortWaiting(r)
  \/ Reap(r)

CallStep(c) ==
  \/ CancelEnd(c)
  \/ CloseWoken(c)
  \/ CloseEnd(c)
  \/ CompactWoken(c)
  \/ CompactEnd(c)

Next ==
  \/ Request
  \/ \E r \in Runs : TaskStep(r)
  \/ \E c \in Callers : CallStep(c)
  \/ Crash

\* The event loop executes every task that is ready, sockets drain, model
\* calls and agents end (they have time limits).  Nothing is assumed of
\* clients, and a crash need not happen.
Fairness ==
  /\ \A r \in Runs : WF_vars(TaskStep(r))
  /\ \A c \in Callers : WF_vars(CallStep(c))

Spec == Init /\ [][Next]_vars

FairSpec == Spec /\ Fairness

-----------------------------------------------------------------------------
(* Safety.                                                                 *)

\* A session has at most one live run: the busy test of send_message and the
\* identity test of the done callback together keep a second one out, however
\* late the callback of the first is called.
SerialRuns ==
  \A r1, r2 \in Runs :
    Live(r1) /\ Live(r2) /\ sid[r1] = sid[r2] => r1 = r2

\* Whoever is executing code that needs the session for itself: the run past
\* the lock, a close that publishes, a compaction waiting for the model.
Inside(s) ==
  {r \in Runs : sid[r] = s /\ pc[r] \in InLock} \union
  {c \in Callers : call[c].on = s /\ call[c].op \in {"close", "compact"}}

\* A run, a close and a compaction of one session never overlap.
Exclusive == \A s \in Sids : \A x, y \in Inside(s) : x = y

\* Two sessions never end up with the same alias, even when one of them is
\* known only from its file.
AliasesUnique ==
  \A s1, s2 \in Sids :
    disk[s1] # None /\ disk[s2] # None /\ disk[s1].alias # None
      /\ disk[s1].alias = disk[s2].alias => s1 = s2

\* A one-shot session starts the agent at most once, across cancellations,
\* closes and restarts of the daemon.
OneShotRunsOnce ==
  \A s \in Sids : disk[s] # None =>
    (disk[s].mode = "one_shot" =>
      \A r1, r2 \in disk[s].runs : r1 = r2)

\* What a run could recall no step takes away: an entry stays in the thread, verbatim or
\* in the summary that replaced it, so no compaction overwrites a concurrent run.  Only
\* a compaction that fails or dies in its write leaves less, and then the thread is empty
\* and the backup it has just made holds all that could be recalled.
NothingLost ==
  [][\A s \in Sids :
       \/ ReadMessages(s) \subseteq ReadMessages(s)'
       \/ thread'[s] = {} /\ ReadMessages(s) \subseteq backup'[s]]_vars

-----------------------------------------------------------------------------
(* Liveness, under FairSpec.                                               *)

\* Every request that waits for a run or for a lock is answered.
CallsReturn == \A c \in Callers : call[c] # Idle ~> call[c] = Idle

-----------------------------------------------------------------------------
(* The abstract specification SessionManager implements.                   *)

LaneOf(s) == IF IsRunning(s) THEN registered[s] ELSE None

OverRuns == {r \in Runs : pc[r] \in Ended}

Lane == INSTANCE SessionLane WITH
          lane <- [s \in Sids |-> LaneOf(s)], ended <- OverRuns

\* The manager is a lane per session: whatever the interleaving of requests,
\* tasks, late callbacks and crashes, no run starts on a lane that is taken,
\* none is resurrected, and each one leaves its lane.
ImplementsLane == Lane!Spec

-----------------------------------------------------------------------------
(* What the README says that the code does not do.                         *)

\* README.md: the runs of a session share one thread.  A run that ended well left
\* both its question and its answer to the runs after it.
RecallsSucceeded ==
  \A r \in Runs : pc[r] = "succeeded" =>
    {<<"message", r>>, <<"answer", r>>} \subseteq ReadMessages(sid[r])

=============================================================================
