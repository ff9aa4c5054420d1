------------------------ MODULE SessionManagerProofs ------------------------
(***************************************************************************)
(* Proofs about SessionManager, for any number of sessions, runs, aliases  *)
(* and callers: type correctness, one live run per session, exclusive use  *)
(* of a session, the refinement of SessionLane; and what is kept of a      *)
(* session, in memory and in files: no two sessions have one alias, a      *)
(* one-shot session runs once, and nothing a run could recall is lost.     *)
(***************************************************************************)
EXTENDS SessionManager, SequenceTheorems, TLAPS

\* The type invariant without the memory and the files: what the argument
\* about tasks and locks needs.
TaskTypes ==
  /\ registered \in [Sids -> Runs \union {None}]
  /\ pc \in [Runs -> {"unused"} \union Suspended \union Ended]
  /\ sid \in [Runs -> Sids \union {None}]
  /\ unreaped \in SUBSET Runs

\* A live run is the registered task of its session.
LiveIsRegistered ==
  \A r \in Runs : Live(r) => sid[r] \in Sids /\ registered[sid[r]] = r

\* The registered task of a session is a run that was started for it.
RegisteredIsOwn ==
  \A s \in Sids : registered[s] # None =>
    sid[registered[s]] = s /\ pc[registered[s]] # "unused"

\* A done callback is scheduled only for a task that has ended.
UnreapedEnded == \A r \in unreaped : sid[r] \in Sids /\ pc[r] \in Ended

TaskInv == TaskTypes /\ LiveIsRegistered /\ RegisteredIsOwn /\ UnreapedEnded

-----------------------------------------------------------------------------
LEMMA TaskInit == Init => TaskInv
BY DEF Init, TaskInv, TaskTypes, LiveIsRegistered, RegisteredIsOwn,
       UnreapedEnded, Live, Suspended, InLock

\* A step of the task of r that leaves it suspended.
LEMMA TaskMoves ==
  ASSUME TaskInv, NEW r \in Runs, Live(r), NEW to \in Suspended,
         pc' = [pc EXCEPT ![r] = to],
         UNCHANGED <<registered, sid, unreaped>>
  PROVE  TaskInv'
BY NoneAssumption
DEF TaskInv, TaskTypes, LiveIsRegistered, RegisteredIsOwn, UnreapedEnded,
    Live, Suspended, InLock, Ended

\* A step that ends the task of r.
LEMMA TaskEnds ==
  ASSUME TaskInv, NEW r \in Runs, Live(r), NEW how \in Ended,
         EndTask(r, how),
         UNCHANGED <<registered, sid>>
  PROVE  TaskInv'
BY NoneAssumption
DEF TaskInv, TaskTypes, LiveIsRegistered, RegisteredIsOwn, UnreapedEnded,
    EndTask, Live, Suspended, InLock, Ended

\* A step that concerns no task.
LEMMA TaskRests ==
  ASSUME TaskInv, UNCHANGED <<registered, pc, sid, unreaped>>
  PROVE  TaskInv'
BY DEF TaskInv, TaskTypes, LiveIsRegistered, RegisteredIsOwn, UnreapedEnded,
       Live, Suspended, InLock, Ended

\* A message is accepted: a fresh run becomes the registered task.
LEMMA TaskAccepted ==
  ASSUME TaskInv,
         NEW ref, NEW s \in Sids, NEW r \in Runs, NEW kind \in Contents,
         SendMessage(ref, s, r, kind)
  PROVE  TaskInv'
<1>1. ~IsRunning(s) /\ pc[r] = "unused"
  BY DEF SendMessage, Accepts
<1>2. /\ pc' = [pc EXCEPT ![r] = "created"]
      /\ sid' = [sid EXCEPT ![r] = s]
      /\ registered' = [registered EXCEPT ![s] = r]
      /\ unreaped' = unreaped
  BY DEF SendMessage
<1>3. TaskTypes'
  BY <1>2 DEF TaskInv, TaskTypes, Suspended, InLock
<1>4. \A x \in Runs : Live(x) => sid[x] # s
  BY <1>1, NoneAssumption
  DEF TaskInv, TaskTypes, LiveIsRegistered, IsRunning
<1>5. LiveIsRegistered'
  BY <1>1, <1>2, <1>4
  DEF TaskInv, TaskTypes, LiveIsRegistered, Live, Suspended, InLock
<1>6. RegisteredIsOwn'
  BY <1>1, <1>2, NoneAssumption DEF TaskInv, TaskTypes, RegisteredIsOwn
<1>7. UnreapedEnded'
  BY <1>1, <1>2 DEF TaskInv, TaskTypes, UnreapedEnded, Ended
<1>8. QED
  BY <1>3, <1>5, <1>6, <1>7 DEF TaskInv

\* The late callback of r cannot unregister a newer task: it compares.
LEMMA TaskReaped ==
  ASSUME TaskInv, NEW r \in Runs, Reap(r)
  PROVE  TaskInv'
<1>1. pc[r] \in Ended /\ sid[r] \in Sids
  BY DEF Reap, TaskInv, UnreapedEnded
<1>2. /\ unreaped' = unreaped \ {r}
      /\ registered' = [registered EXCEPT ![sid[r]] = IF @ = r THEN None ELSE @]
      /\ pc' = pc /\ sid' = sid
  BY DEF Reap
<1>3. ~Live(r)
  BY <1>1 DEF Live, Ended, Suspended, InLock
<1>4. LiveIsRegistered'
  BY <1>1, <1>2, <1>3 DEF TaskInv, TaskTypes, LiveIsRegistered, Live
<1>5. TaskTypes' /\ RegisteredIsOwn' /\ UnreapedEnded'
  BY <1>1, <1>2 DEF TaskInv, TaskTypes, RegisteredIsOwn, UnreapedEnded
<1>6. QED
  BY <1>4, <1>5 DEF TaskInv

\* Nothing is live after a crash.
LEMMA TaskCrash ==
  ASSUME TaskInv, Crash
  PROVE  TaskInv'
BY NoneAssumption
DEF TaskInv, TaskTypes, LiveIsRegistered, RegisteredIsOwn, UnreapedEnded,
    Crash, Live, Suspended, InLock, Ended

LEMMA TaskNext == TaskInv /\ [Next]_vars => TaskInv'
<1> SUFFICES ASSUME TaskInv, [Next]_vars
             PROVE  TaskInv'
  OBVIOUS
<1>1. CASE Request
  <2>1. CASE \E s \in Sids, mode \in Modes : Create(s, mode)
    BY <2>1, TaskRests DEF Create, taskVars
  <2>2. CASE ListSessions
    BY <2>2, TaskRests DEF ListSessions, taskVars
  <2>3. CASE \E s \in Sids, alias \in Aliases : SetAlias(s, alias)
    BY <2>3, TaskRests DEF SetAlias, taskVars
  <2>4. ASSUME NEW ref \in Sids \union Aliases, NEW s \in Sids,
               GetHistory(ref, s) \/ Resume(ref, s) \/ RefuseMessage(ref, s)
        PROVE  TaskInv'
    BY <2>4, TaskRests DEF GetHistory, Resume, RefuseMessage, taskVars
  <2>5. ASSUME NEW ref \in Sids \union Aliases, NEW s \in Sids,
               NEW r \in Runs, NEW kind \in Contents,
               SendMessage(ref, s, r, kind)
        PROVE  TaskInv'
    BY <2>5, TaskAccepted
  <2>6. ASSUME NEW ref \in Sids \union Aliases, NEW s \in Sids, NEW c \in Callers,
               \/ CancelBegin(c, ref, s)
               \/ CloseQueued(c, ref, s)
               \/ CloseBegin(c, ref, s)
               \/ CompactQueued(c, ref, s)
               \/ CompactBegin(c, ref, s)
        PROVE  TaskInv'
    BY <2>6, TaskRests
    DEF CancelBegin, CloseQueued, CompactQueued, Queue, CloseBegin,
        CompactBegin, taskVars
  <2>7. QED
    BY <1>1, <2>1, <2>2, <2>3, <2>4, <2>5, <2>6 DEF Request
<1>2. ASSUME NEW r \in Runs, TaskStep(r)
      PROVE  TaskInv'
  <2>1. CASE WaitForLock(r) \/ ReceiveMessage(r) \/ InvokeAgent(r) \/ FinishAgent(r)
             \/ AnnounceEnd(r) \/ AnnounceCancel(r)
    BY <2>1, TaskMoves
    DEF WaitForLock, ReceiveMessage, InvokeAgent, FinishAgent, AnnounceEnd,
        AnnounceCancel, Step, Live, Suspended, InLock, lockVars
  <2>2. CASE EnterWaiting(r) \/ EnterActive(r)
    BY <2>2, TaskMoves
    DEF EnterWaiting, EnterActive, GetsLock, Live, Suspended, InLock
  <2>3. CASE BeginRun(r)
    BY <2>3, TaskMoves DEF BeginRun, Step, Live, Suspended, InLock
  <2>4. CASE CancelAgent(r) \/ SwallowCancel(r) \/ DropAnswer(r)
    BY <2>4, TaskMoves DEF CancelAgent, SwallowCancel, DropAnswer, Live, Suspended, InLock
  <2>5. CASE EnterClosed(r)
    BY <2>5, TaskEnds DEF EnterClosed, GetsLock, Live, Suspended, InLock, Ended
  <2>6. CASE BeginBlank(r) \/ SaveMeta(r) \/ Unwind(r)
    BY <2>6, TaskEnds
    DEF BeginBlank, SaveMeta, Unwind, Live, Suspended, InLock, Ended
  <2>7. CASE AbortUnprotected(r) \/ AbortWaiting(r)
    BY <2>7, TaskEnds
    DEF AbortUnprotected, AbortWaiting, Live, Suspended, InLock, Ended
  <2>8. CASE Reap(r)
    BY <2>8, TaskReaped
  <2>9. QED
    BY <1>2, <2>1, <2>2, <2>3, <2>4, <2>5, <2>6, <2>7, <2>8 DEF TaskStep
<1>3. ASSUME NEW c \in Callers, CallStep(c)
      PROVE  TaskInv'
  BY <1>3, TaskRests
  DEF CallStep, CancelEnd, CloseWoken, CloseEnd, CompactWoken, CompactEnd, taskVars
<1>4. CASE Crash
  BY <1>4, TaskCrash
<1>5. CASE UNCHANGED vars
  BY <1>5, TaskRests DEF vars
<1>6. QED
  BY <1>1, <1>2, <1>3, <1>4, <1>5 DEF Next

LEMMA TaskInvariant == Spec => []TaskInv
BY TaskInit, TaskNext, PTL DEF Spec

\* At most one live run per session, for every interleaving of requests,
\* tasks, late done callbacks and crashes.
THEOREM SerialRunsTheorem == Spec => []SerialRuns
<1>1. TaskInv => SerialRuns
  BY DEF TaskInv, LiveIsRegistered, SerialRuns
<1>2. QED
  BY <1>1, TaskInvariant, PTL

-----------------------------------------------------------------------------
(* The queues of the locks, the threads and the suspended requests.        *)

Queues == [Sids -> Seq(Runs \union Callers)]

DataInv ==
  /\ waiters \in Queues
  /\ thread \in [Sids -> SUBSET Entries]
  /\ backup \in [Sids -> SUBSET Entries]
  /\ call \in [Callers -> Call]
  /\ \A c \in Callers : call[c] # Idle => call[c].on \in Sids

\* A request that starts, or moves on, names its session.
LEMMA CallType ==
  ASSUME DataInv, NEW c \in Callers,
         NEW x \in Call, x.on \in Sids \/ x = Idle,
         call' = [call EXCEPT ![c] = x]
  PROVE  /\ call' \in [Callers -> Call]
         /\ \A d \in Callers : call'[d] # Idle => call'[d].on \in Sids
BY DEF DataInv

LEMMA IdleType == Idle \in Call
BY DEF Idle, Call

LEMMA RemoveAtType ==
  ASSUME NEW S, NEW q \in Seq(S), NEW i \in DOMAIN q
  PROVE  RemoveAt(q, i) \in Seq(S)
<1>1. i \in 1..Len(q) /\ Len(q) \in Nat /\ \A j \in 1..Len(q) : q[j] \in S
  OBVIOUS
<1>2. SubSeq(q, 1, i - 1) \in Seq(S) /\ SubSeq(q, i + 1, Len(q)) \in Seq(S)
  BY <1>1, SubSeqProperties
<1>3. QED
  BY <1>2 DEF RemoveAt

\* A compaction writes entries, of the thread's and of its own.
LEMMA WriteTypes ==
  ASSUME DataInv, NEW s, NEW summary \in SUBSET Entries, WriteCompacted(s, summary)
  PROVE  thread' \in [Sids -> SUBSET Entries] /\ backup' \in [Sids -> SUBSET Entries]
<1>w. PICK written \in {summary, {}} : thread' = [thread EXCEPT ![s] = written]
  BY DEF WriteCompacted
<1>1. thread' \in [Sids -> SUBSET Entries]
  BY <1>w DEF DataInv
<1>2. CASE backup' = [backup EXCEPT ![s] = thread[s]]
  BY <1>1, <1>2 DEF DataInv
<1>3. CASE backup' = backup
  BY <1>1, <1>3 DEF DataInv
<1>4. QED
  BY <1>2, <1>3 DEF WriteCompacted

\* The head of a queue leaves it.
LEMMA DequeueType ==
  ASSUME waiters \in Queues, NEW s, NEW who, Woken(s, who),
         waiters' = [waiters EXCEPT ![s] = Tail(@)]
  PROVE  waiters' \in Queues
<1>1. CASE s \in Sids
  <2>1. Tail(waiters[s]) \in Seq(Runs \union Callers)
    BY <1>1, HeadTailProperties DEF Woken, Queues
  <2>2. QED
    BY <1>1, <2>1 DEF Queues
<1>2. CASE s \notin Sids
  BY <1>2 DEF Queues
<1>3. QED
  BY <1>1, <1>2

LEMMA DataInit == Init => DataInv
BY DEF Init, DataInv, Queues, Call, Idle

LEMMA DataNext == DataInv /\ TaskInv /\ [Next]_vars => DataInv'
<1> SUFFICES ASSUME DataInv, TaskInv, [Next]_vars
             PROVE  DataInv'
  OBVIOUS
<1>1. ASSUME UNCHANGED <<waiters, threads, call>>
      PROVE  DataInv'
  BY <1>1 DEF DataInv, threads
<1>2. CASE Request
  <2>1. CASE \E s \in Sids, mode \in Modes : Create(s, mode)
    BY <2>1, <1>1 DEF Create, lockVars
  <2>2. CASE ListSessions
    BY <2>2, <1>1 DEF ListSessions, lockVars
  <2>3. CASE \E s \in Sids, alias \in Aliases : SetAlias(s, alias)
    BY <2>3, <1>1 DEF SetAlias, lockVars
  <2>4. ASSUME NEW ref \in Sids \union Aliases, NEW s \in Sids,
               GetHistory(ref, s) \/ Resume(ref, s) \/ RefuseMessage(ref, s)
        PROVE  DataInv'
    BY <2>4, <1>1 DEF GetHistory, Resume, RefuseMessage, lockVars
  <2>5. ASSUME NEW ref \in Sids \union Aliases, NEW s \in Sids,
               NEW r \in Runs, NEW kind \in Contents,
               SendMessage(ref, s, r, kind)
        PROVE  DataInv'
    BY <2>5, <1>1 DEF SendMessage, lockVars
  <2>6. ASSUME NEW ref \in Sids \union Aliases, NEW s \in Sids, NEW c \in Callers,
               CancelBegin(c, ref, s)
        PROVE  DataInv'
    <3>1. registered[s] \in Runs
      BY <2>6 DEF CancelBegin, IsRunning, TaskInv, TaskTypes
    <3> DEFINE x == [Idle EXCEPT !.op = "cancel", !.on = s, !.run = registered[s]]
    <3>2. x \in Call /\ x.on = s
      BY <3>1 DEF Call, Idle
    <3>3. call' = [call EXCEPT ![c] = x] /\ UNCHANGED <<threads, waiters>>
      BY <2>6 DEF CancelBegin, lockVars
    <3>4. QED
      BY <3>2, <3>3, CallType DEF DataInv, threads
  <2>7. ASSUME NEW ref \in Sids \union Aliases, NEW s \in Sids, NEW c \in Callers,
               NEW op \in {"close_wait", "compact_wait"}, Queue(c, ref, s, op)
        PROVE  DataInv'
    <3> DEFINE x == [Idle EXCEPT !.op = op, !.on = s]
    <3>1. x \in Call /\ x.on = s
      BY DEF Call, Idle
    <3>2. call' = [call EXCEPT ![c] = x] /\ threads' = threads
      BY <2>7 DEF Queue
    <3>3. waiters' \in Queues
      BY <2>7 DEF Queue, DataInv, Queues
    <3>4. QED
      BY <3>1, <3>2, <3>3, CallType DEF DataInv, threads
  <2>8. ASSUME NEW ref \in Sids \union Aliases, NEW s \in Sids, NEW c \in Callers,
               CloseBegin(c, ref, s) \/ CompactBegin(c, ref, s)
        PROVE  DataInv'
    <3> DEFINE x == [Idle EXCEPT !.op = "close", !.on = s]
               y == [Idle EXCEPT !.op = "compact", !.on = s, !.seen = ReadMessages(s)]
    <3>1. x \in Call /\ x.on = s /\ y \in Call /\ y.on = s
      BY DEF Call, Idle, DataInv, ReadMessages
    <3>2. UNCHANGED <<threads, waiters>>
          /\ (call' = [call EXCEPT ![c] = x] \/ call' = [call EXCEPT ![c] = y])
      BY <2>8 DEF CloseBegin, CompactBegin
    <3>3. QED
      BY <3>1, <3>2, CallType DEF DataInv, threads
  <2>9. QED
    BY <1>2, <2>1, <2>2, <2>3, <2>4, <2>5, <2>6, <2>7, <2>8
    DEF Request, CloseQueued, CompactQueued
<1>3. ASSUME NEW r \in Runs, TaskStep(r)
      PROVE  DataInv'
  <2> DEFINE s == sid[r]
  <2>1. thread' \in [Sids -> SUBSET Entries] /\ backup' \in [Sids -> SUBSET Entries]
    <3>1. \A kind \in {"message", "answer", "orphan"} : <<kind, r>> \in Entries
      BY DEF Entries
    <3>2. /\ backup' = backup
          /\ thread' = thread \/ \E kind \in {"message", "answer", "orphan"} :
                                   AppendMessages(s, <<kind, r>>)
      BY <1>3
      DEF TaskStep, WaitForLock, EnterClosed, EnterWaiting, EnterActive,
          ReceiveMessage, BeginRun, BeginBlank, InvokeAgent, FinishAgent, CancelAgent, SwallowCancel,
          AnnounceEnd, SaveMeta, AnnounceCancel, DropAnswer, Unwind,
          AbortUnprotected, AbortWaiting, Reap, SaveAnswer, threads
    <3>3. QED
      BY <3>1, <3>2 DEF DataInv, AppendMessages
  <2>2. call' = call
    BY <1>3
    DEF TaskStep, WaitForLock, EnterClosed, EnterWaiting, EnterActive, ReceiveMessage,
        BeginRun, BeginBlank, InvokeAgent, FinishAgent, CancelAgent, SwallowCancel, AnnounceEnd,
        SaveMeta, AnnounceCancel, DropAnswer, Unwind, AbortUnprotected, AbortWaiting,
        Reap
  <2>3. CASE WaitForLock(r)
    <3>1. s \in Sids
      BY <2>3 DEF WaitForLock, Step, TaskInv, LiveIsRegistered, Live, Suspended
    <3>2. waiters' \in Queues
      BY <2>3, <3>1 DEF WaitForLock, DataInv, Queues
    <3>3. QED
      BY <3>2, <2>1, <2>2 DEF DataInv
  <2>4. CASE EnterClosed(r) \/ EnterWaiting(r) \/ EnterActive(r)
    <3>1. waiters' = waiters
          \/ (Woken(s, r) /\ waiters' = [waiters EXCEPT ![s] = Tail(@)])
      BY <2>4 DEF EnterClosed, EnterWaiting, EnterActive, GetsLock
    <3>2. waiters' \in Queues
      BY <3>1, DequeueType DEF DataInv
    <3>3. QED
      BY <3>2, <2>1, <2>2 DEF DataInv
  <2>5. CASE AbortWaiting(r)
    <3>1. PICK i \in DOMAIN waiters[s] :
            waiters' = [waiters EXCEPT ![s] = RemoveAt(@, i)]
      BY <2>5 DEF AbortWaiting
    <3>2. s \in Sids
      BY <2>5 DEF AbortWaiting, TaskInv, LiveIsRegistered, Live, Suspended
    <3>3. RemoveAt(waiters[s], i) \in Seq(Runs \union Callers)
      BY <3>1, <3>2, RemoveAtType DEF DataInv, Queues
    <3>4. waiters' \in Queues
      BY <3>1, <3>2, <3>3 DEF DataInv, Queues
    <3>5. QED
      BY <3>4, <2>1, <2>2 DEF DataInv
  <2>6. ASSUME waiters' = waiters
        PROVE  DataInv'
    BY <2>6, <2>1, <2>2 DEF DataInv
  <2>7. QED
    BY <1>3, <2>3, <2>4, <2>5, <2>6
    DEF TaskStep, ReceiveMessage, BeginRun, BeginBlank, InvokeAgent, FinishAgent,
        CancelAgent, SwallowCancel, AnnounceEnd, SaveMeta, AnnounceCancel, DropAnswer, Unwind,
        AbortUnprotected, Reap, lockVars
<1>4. ASSUME NEW c \in Callers, CallStep(c)
      PROVE  DataInv'
  <2>1. CASE CancelEnd(c)
    BY <2>1, IdleType, CallType DEF CancelEnd, DataInv, lockVars, threads
  <2>2. CASE CloseWoken(c) \/ CompactWoken(c)
    <3>1. waiters' \in Queues
      BY <2>2, DequeueType DEF CloseWoken, CompactWoken, DataInv
    <3>2. threads' = threads
      BY <2>2 DEF CloseWoken, CompactWoken
    <3>3. call[c] \in Call /\ call[c].on \in Sids
      BY <2>2 DEF CloseWoken, CompactWoken, DataInv, Idle
    <3> DEFINE x == [call[c] EXCEPT !.op = "close"]
               y == [call[c] EXCEPT !.op = "compact", !.seen = ReadMessages(call[c].on)]
    <3>4. x \in Call /\ x.on \in Sids /\ y \in Call /\ y.on \in Sids
      BY <3>3 DEF Call, DataInv, ReadMessages
    <3>5. call' = [call EXCEPT ![c] = x] \/ call' = [call EXCEPT ![c] = y]
      BY <2>2 DEF CloseWoken, CompactWoken, DataInv
    <3>6. QED
      BY <3>1, <3>2, <3>4, <3>5, CallType DEF DataInv, threads
  <2>3. CASE CloseEnd(c) \/ CompactEnd(c)
    <3>1. call[c].seen \in SUBSET Entries
      BY DEF DataInv, Call
    <3>2. thread' \in [Sids -> SUBSET Entries] /\ backup' \in [Sids -> SUBSET Entries]
      BY <2>3, <3>1, WriteTypes DEF CloseEnd, CompactEnd, DataInv, threads
    <3>3. QED
      BY <2>3, <3>2, IdleType, CallType DEF CloseEnd, CompactEnd, DataInv
  <2>4. QED
    BY <1>4, <2>1, <2>2, <2>3 DEF CallStep
<1>5. CASE Crash
  <2>1. \A c \in Callers : call[c].seen \in SUBSET Entries
    BY DEF DataInv, Call
  <2>2. thread' \in [Sids -> SUBSET Entries] /\ backup' \in [Sids -> SUBSET Entries]
    BY <1>5, <2>1, WriteTypes DEF Crash, DataInv, threads
  <2>3. QED
    BY <1>5, <2>2 DEF Crash, DataInv, Queues, Call, Idle
<1>6. CASE UNCHANGED vars
  BY <1>6, <1>1 DEF vars, threads
<1>7. QED
  BY <1>2, <1>3, <1>4, <1>5, <1>6 DEF Next

LEMMA DataInvariant == Spec => []DataInv
BY DataInit, DataNext, TaskInvariant, PTL DEF Spec

-----------------------------------------------------------------------------
(* The lock: who is inside holds it.                                       *)

HolderType == holder \in [Sids -> Runs \union Callers \union {None}]

RunHolds == \A r \in Runs : pc[r] \in InLock => holder[sid[r]] = r

CallHolds == \A c \in Callers : call[c].op \in {"close", "compact"} => holder[call[c].on] = c

LockInv == HolderType /\ RunHolds /\ CallHolds

LEMMA LockInit == Init => LockInv
BY DEF Init, LockInv, HolderType, RunHolds, CallHolds, Call, Idle, InLock

LEMMA InLockSid ==
  ASSUME TaskInv, NEW r \in Runs, pc[r] \in InLock
  PROVE  sid[r] \in Sids
BY DEF TaskInv, LiveIsRegistered, Live, Suspended

LEMMA HoldingCallSid ==
  ASSUME DataInv, NEW c \in Callers, call[c].op \in {"close", "compact"}
  PROVE  call[c].on \in Sids
BY DEF DataInv, Idle

\* A step that leaves the lock alone and lets nobody in.
LEMMA LockRests ==
  ASSUME LockInv, holder' = holder,
         \A r \in Runs : pc'[r] \in InLock =>
                           pc[r] \in InLock /\ sid'[r] = sid[r],
         \A c \in Callers : call'[c].op \in {"close", "compact"} => call'[c] = call[c]
  PROVE  LockInv'
BY DEF LockInv, HolderType, RunHolds, CallHolds

\* The run r takes the free lock of its session.
LEMMA RunTakes ==
  ASSUME LockInv, TaskInv, DataInv, NEW r \in Runs, sid[r] \in Sids,
         holder[sid[r]] = None,
         holder' = [holder EXCEPT ![sid[r]] = r],
         NEW to \in Suspended, pc' = [pc EXCEPT ![r] = to],
         UNCHANGED <<call, sid>>
  PROVE  LockInv'
<1>1. HolderType'
  BY DEF LockInv, HolderType
<1>2. \A x \in Runs : pc[x] \in InLock => sid[x] \in Sids /\ holder[sid[x]] = x
  BY InLockSid DEF LockInv, RunHolds
<1>3. RunHolds'
  BY <1>2, NoneAssumption DEF LockInv, HolderType, RunHolds, TaskInv, TaskTypes
<1>4. CallHolds'
  BY NoneAssumption DEF LockInv, HolderType, CallHolds
<1>5. QED
  BY <1>1, <1>3, <1>4 DEF LockInv

\* The run r ends and its lock, if it has it, is free.
LEMMA RunReleases ==
  ASSUME LockInv, TaskInv, DataInv, NEW r \in Runs, Live(r),
         holder' = [holder EXCEPT ![sid[r]] = IF @ = r THEN None ELSE @],
         NEW how \in Ended, pc' = [pc EXCEPT ![r] = how],
         UNCHANGED <<call, sid>>
  PROVE  LockInv'
<1>1. sid[r] \in Sids
  BY DEF TaskInv, LiveIsRegistered
<1>2. HolderType'
  BY <1>1 DEF LockInv, HolderType
<1>3. \A x \in Runs : pc[x] \in InLock => sid[x] \in Sids /\ holder[sid[x]] = x
  BY InLockSid DEF LockInv, RunHolds
<1>4. how \notin InLock
  BY DEF Ended, InLock
<1>5. RunHolds'
  BY <1>1, <1>3, <1>4 DEF LockInv, HolderType, RunHolds, TaskInv, TaskTypes
<1>6. CallHolds'
  BY <1>1, NamesAssumption DEF LockInv, HolderType, CallHolds
<1>7. QED
  BY <1>2, <1>5, <1>6 DEF LockInv

\* The request c takes the free lock of s.
LEMMA CallTakes ==
  ASSUME LockInv, TaskInv, DataInv, NEW c \in Callers, NEW s \in Sids,
         holder[s] = None,
         holder' = [holder EXCEPT ![s] = c],
         \A x \in Callers : x # c => call'[x] = call[x],
         call'[c].on = s,
         UNCHANGED <<pc, sid>>
  PROVE  LockInv'
<1>1. HolderType'
  BY DEF LockInv, HolderType
<1>2. \A x \in Runs : pc[x] \in InLock => sid[x] \in Sids /\ holder[sid[x]] = x
  BY InLockSid DEF LockInv, RunHolds
<1>3. RunHolds'
  BY <1>2, NoneAssumption DEF LockInv, HolderType, RunHolds
<1>4. ASSUME NEW x \in Callers, call'[x].op \in {"close", "compact"}
      PROVE  holder'[call'[x].on] = x
  BY <1>4, NoneAssumption, HoldingCallSid DEF LockInv, HolderType, CallHolds
<1>5. QED
  BY <1>1, <1>3, <1>4 DEF LockInv, CallHolds

\* The request c gives its lock back.
LEMMA CallReleases ==
  ASSUME LockInv, TaskInv, DataInv, NEW c \in Callers,
         call[c].op \in {"close", "compact"},
         holder' = [holder EXCEPT ![call[c].on] = None],
         call' = [call EXCEPT ![c] = Idle],
         UNCHANGED <<pc, sid>>
  PROVE  LockInv'
<1>1. call[c].on \in Sids /\ holder[call[c].on] = c
  BY HoldingCallSid DEF LockInv, CallHolds
<1>2. HolderType'
  BY <1>1 DEF LockInv, HolderType
<1>3. \A x \in Runs : pc[x] \in InLock => sid[x] \in Sids /\ holder[sid[x]] = x
  BY InLockSid DEF LockInv, RunHolds
<1>4. RunHolds'
  BY <1>1, <1>3, NamesAssumption DEF LockInv, HolderType, RunHolds
<1>5. CallHolds'
  BY <1>1, HoldingCallSid DEF LockInv, HolderType, CallHolds, DataInv, Idle
<1>6. QED
  BY <1>2, <1>4, <1>5 DEF LockInv

LEMMA LockNext == LockInv /\ TaskInv /\ DataInv /\ [Next]_vars => LockInv'
<1> SUFFICES ASSUME LockInv, TaskInv, DataInv, [Next]_vars
             PROVE  LockInv'
  OBVIOUS
<1>1. ASSUME UNCHANGED <<holder, call, pc, sid>>
      PROVE  LockInv'
  BY <1>1, LockRests
<1>2. CASE Request
  <2>1. CASE \E s \in Sids, mode \in Modes : Create(s, mode)
    BY <2>1, <1>1 DEF Create, taskVars, lockVars
  <2>2. CASE ListSessions
    BY <2>2, <1>1 DEF ListSessions, taskVars, lockVars
  <2>3. CASE \E s \in Sids, alias \in Aliases : SetAlias(s, alias)
    BY <2>3, <1>1 DEF SetAlias, taskVars, lockVars
  <2>4. ASSUME NEW ref \in Sids \union Aliases, NEW s \in Sids,
               GetHistory(ref, s) \/ Resume(ref, s) \/ RefuseMessage(ref, s)
        PROVE  LockInv'
    BY <2>4, <1>1 DEF GetHistory, Resume, RefuseMessage, taskVars, lockVars
  <2>5. ASSUME NEW ref \in Sids \union Aliases, NEW s \in Sids,
               NEW r \in Runs, NEW kind \in Contents,
               SendMessage(ref, s, r, kind)
        PROVE  LockInv'
    <3>1. /\ UNCHANGED <<holder, call>>
          /\ pc' = [pc EXCEPT ![r] = "created"]
          /\ sid' = [sid EXCEPT ![r] = s]
      BY <2>5 DEF SendMessage, lockVars
    <3>2. \A x \in Runs : pc'[x] \in InLock => pc[x] \in InLock /\ sid'[x] = sid[x]
      BY <3>1 DEF TaskInv, TaskTypes, InLock
    <3>3. QED
      BY <3>1, <3>2, LockRests
  <2>6. ASSUME NEW ref \in Sids \union Aliases, NEW s \in Sids, NEW c \in Callers,
               \/ CancelBegin(c, ref, s)
               \/ CloseQueued(c, ref, s)
               \/ CompactQueued(c, ref, s)
        PROVE  LockInv'
    <3>1. UNCHANGED <<holder, pc, sid>>
      BY <2>6
      DEF CancelBegin, CloseQueued, CompactQueued, Queue, taskVars, lockVars
    <3>2. \A x \in Callers : call'[x].op \in {"close", "compact"} => call'[x] = call[x]
      BY <2>6 DEF CancelBegin, CloseQueued, CompactQueued, Queue, DataInv, Idle
    <3>3. QED
      BY <3>1, <3>2, LockRests
  <2>7. ASSUME NEW ref \in Sids \union Aliases, NEW s \in Sids, NEW c \in Callers,
               CloseBegin(c, ref, s) \/ CompactBegin(c, ref, s)
        PROVE  LockInv'
    <3>1. /\ holder[s] = None
          /\ holder' = [holder EXCEPT ![s] = c]
          /\ UNCHANGED <<pc, sid>>
      BY <2>7 DEF CloseBegin, CompactBegin, AcquiresAtOnce, Locked, taskVars
    <3>2. /\ \A x \in Callers : x # c => call'[x] = call[x]
          /\ call'[c].on = s
      BY <2>7 DEF CloseBegin, CompactBegin, DataInv, Idle
    <3>3. QED
      BY <3>1, <3>2, CallTakes
  <2>8. QED
    BY <1>2, <2>1, <2>2, <2>3, <2>4, <2>5, <2>6, <2>7 DEF Request
<1>3. ASSUME NEW r \in Runs, TaskStep(r)
      PROVE  LockInv'
  <2>1. CASE WaitForLock(r)
    <3>1. UNCHANGED <<holder, call, sid>> /\ pc' = [pc EXCEPT ![r] = "lock_wait"]
      BY <2>1 DEF WaitForLock, Step
    <3>2. \A x \in Runs : pc'[x] \in InLock => pc[x] \in InLock
      BY <3>1 DEF TaskInv, TaskTypes, InLock
    <3>3. QED
      BY <3>1, <3>2, LockRests
  <2>2. CASE EnterWaiting(r) \/ EnterActive(r)
    <3>1. /\ holder[sid[r]] = None /\ Live(r)
          /\ holder' = [holder EXCEPT ![sid[r]] = r]
          /\ pc' = [pc EXCEPT ![r] = "resumed"] \/ pc' = [pc EXCEPT ![r] = "received"]
          /\ UNCHANGED <<call, sid>>
      BY <2>2
      DEF EnterWaiting, EnterActive, GetsLock, AcquiresAtOnce, Woken, Locked,
          Live, Suspended
    <3>2. sid[r] \in Sids
      BY <3>1 DEF TaskInv, LiveIsRegistered
    <3>3. "resumed" \in Suspended /\ "received" \in Suspended
      BY DEF Suspended, InLock
    <3>4. QED
      BY <3>1, <3>2, <3>3, RunTakes
  <2>3. CASE ReceiveMessage(r) \/ BeginRun(r) \/ InvokeAgent(r) \/ FinishAgent(r)
             \/ CancelAgent(r) \/ SwallowCancel(r) \/ AnnounceEnd(r) \/ AnnounceCancel(r) \/ DropAnswer(r)
    <3>1. pc[r] \in InLock /\ UNCHANGED <<holder, call, sid>>
      BY <2>3
      DEF ReceiveMessage, BeginRun, InvokeAgent, FinishAgent, CancelAgent, SwallowCancel,
          AnnounceEnd, AnnounceCancel, DropAnswer, Step, InLock, lockVars
    <3>2. \E to \in Suspended : pc' = [pc EXCEPT ![r] = to]
      BY <2>3
      DEF ReceiveMessage, BeginRun, InvokeAgent, FinishAgent, CancelAgent, SwallowCancel,
          AnnounceEnd, AnnounceCancel, DropAnswer, Step, Suspended, InLock
    <3>3. \A x \in Runs : pc'[x] \in InLock => pc[x] \in InLock
      BY <3>1, <3>2 DEF TaskInv, TaskTypes
    <3>4. QED
      BY <3>1, <3>3, LockRests
  <2>4. CASE BeginBlank(r) \/ SaveMeta(r) \/ Unwind(r)
    <3>1. pc[r] \in InLock /\ Live(r)
      BY <2>4 DEF BeginBlank, SaveMeta, Unwind, InLock, Live, Suspended
    <3>2. holder[sid[r]] = r
      BY <3>1 DEF LockInv, RunHolds
    <3>3. holder' = [holder EXCEPT ![sid[r]] = IF @ = r THEN None ELSE @]
      BY <2>4, <3>2 DEF BeginBlank, SaveMeta, Unwind, Release
    <3>4. UNCHANGED <<call, sid>> /\ \E how \in Ended : pc' = [pc EXCEPT ![r] = how]
      BY <2>4 DEF BeginBlank, SaveMeta, Unwind, EndTask, Ended
    <3>5. QED
      BY <3>1, <3>3, <3>4, RunReleases
  <2>5. CASE AbortUnprotected(r)
    BY <2>5, RunReleases
    DEF AbortUnprotected, EndTask, Ended, Live, Suspended, InLock
  <2>6. CASE AbortWaiting(r)
    <3>1. UNCHANGED <<holder, call, sid>> /\ pc' = [pc EXCEPT ![r] = "aborted"]
      BY <2>6 DEF AbortWaiting, EndTask
    <3>2. \A x \in Runs : pc'[x] \in InLock => pc[x] \in InLock
      BY <3>1 DEF TaskInv, TaskTypes, InLock
    <3>3. QED
      BY <3>1, <3>2, LockRests
  <2>7. CASE EnterClosed(r)
    <3>1. /\ Live(r) /\ holder[sid[r]] = None
          /\ holder' = [holder EXCEPT ![sid[r]] = None]
          /\ pc' = [pc EXCEPT ![r] = "refused"]
          /\ UNCHANGED <<call, sid>>
      BY <2>7
      DEF EnterClosed, GetsLock, AcquiresAtOnce, Woken, Locked, Release, EndTask,
          Live, Suspended
    <3>2. holder' = holder
      BY <3>1 DEF LockInv, HolderType
    <3>3. \A x \in Runs : pc'[x] \in InLock => pc[x] \in InLock
      BY <3>1 DEF TaskInv, TaskTypes, InLock
    <3>4. QED
      BY <3>1, <3>2, <3>3, LockRests
  <2>8. CASE Reap(r)
    BY <2>8, <1>1 DEF Reap, lockVars
  <2>9. QED
    BY <1>3, <2>1, <2>2, <2>3, <2>4, <2>5, <2>6, <2>7, <2>8 DEF TaskStep
<1>4. ASSUME NEW c \in Callers, CallStep(c)
      PROVE  LockInv'
  <2>1. CASE CancelEnd(c)
    <3>1. UNCHANGED <<holder, pc, sid>> /\ call' = [call EXCEPT ![c] = Idle]
      BY <2>1 DEF CancelEnd, taskVars, lockVars
    <3>2. \A x \in Callers : call'[x].op \in {"close", "compact"} => call'[x] = call[x]
      BY <3>1 DEF DataInv, Idle
    <3>3. QED
      BY <3>1, <3>2, LockRests
  <2>2. CASE CloseWoken(c) \/ CompactWoken(c)
    <3>1. /\ holder[call[c].on] = None
          /\ holder' = [holder EXCEPT ![call[c].on] = c]
          /\ UNCHANGED <<pc, sid>>
      BY <2>2 DEF CloseWoken, CompactWoken, Woken, Locked, taskVars
    <3>2. /\ \A x \in Callers : x # c => call'[x] = call[x]
          /\ call'[c].on = call[c].on
      BY <2>2 DEF CloseWoken, CompactWoken, DataInv, Call
    <3>3. call[c].on \in Sids
      BY <2>2 DEF CloseWoken, CompactWoken, DataInv, Idle
    <3>4. QED
      BY <3>1, <3>2, <3>3, CallTakes
  <2>3. CASE CloseEnd(c) \/ CompactEnd(c)
    BY <2>3, CallReleases DEF CloseEnd, CompactEnd, Release, taskVars
  <2>4. QED
    BY <1>4, <2>1, <2>2, <2>3 DEF CallStep
<1>5. CASE Crash
  <2>1. \A r \in Runs : pc'[r] \notin InLock
    BY <1>5 DEF Crash, Live, Suspended, InLock
  <2>2. QED
    BY <1>5, <2>1 DEF Crash, LockInv, HolderType, RunHolds, CallHolds, Idle
<1>6. CASE UNCHANGED vars
  BY <1>6, <1>1 DEF vars
<1>7. QED
  BY <1>2, <1>3, <1>4, <1>5, <1>6 DEF Next

LEMMA LockInvariant == Spec => []LockInv
BY LockInit, LockNext, TaskInvariant, DataInvariant, PTL DEF Spec

\* A run, a close and a compaction of one session never overlap.
THEOREM ExclusiveTheorem == Spec => []Exclusive
<1>1. LockInv => Exclusive
  BY DEF LockInv, RunHolds, CallHolds, Exclusive, Inside
<1>2. QED
  BY <1>1, LockInvariant, PTL

-----------------------------------------------------------------------------
(* Type correctness.                                                       *)

MemTypes ==
  /\ memory \in [Sids -> Session \union {None}]
  /\ disk \in [Sids -> Session \union {None}]
  /\ content \in [Runs -> Contents \union {None}]
  /\ cancelled \in [Runs -> BOOLEAN]

\* The object a suspended task or close has a reference to is in memory.
LiveLoaded == \A r \in Runs : Live(r) => memory[sid[r]] \in Session

WaitLoaded ==
  \A c \in Callers : call[c].op = "close_wait" => memory[call[c].on] \in Session

MemInv == MemTypes /\ LiveLoaded /\ WaitLoaded

LEMMA MemInit == Init => MemInv
BY DEF Init, MemInv, MemTypes, LiveLoaded, WaitLoaded, Live, Suspended, InLock, Idle

\* What the helpers return is a session.
LEMMA HelperTypes ==
  ASSUME NEW s, NEW x \in Session
  PROVE  /\ Rested(x) \in Session
         /\ Normalized(s, x) \in Session
         /\ Reopened(x) \in Session
<1>1. RestStatus(x.mode) \in Status
  BY DEF RestStatus, Status
<1>2. Rested(x) \in Session
  BY <1>1 DEF Rested, Session
<1>3. Reopened(x) \in Session
  BY DEF Reopened, Session, Status
<1>4. QED
  BY <1>2, <1>3 DEF Normalized

LEMMA OpenedType ==
  ASSUME MemTypes, NEW ref, NEW s \in Sids, Refers(ref, s)
  PROVE  Object(s) \in Session /\ Opened(ref, s) \in Session
BY HelperTypes DEF MemTypes, Refers, Object, Opened

\* Saving a session types both copies and unloads none.
LEMMA SaveType ==
  ASSUME MemTypes, NEW s \in Sids, NEW x \in Session, Save(s, x)
  PROVE  /\ memory' \in [Sids -> Session \union {None}]
         /\ disk' \in [Sids -> Session \union {None}]
         /\ memory'[s] \in Session
         /\ \A y \in Sids : memory[y] \in Session => memory'[y] \in Session
BY DEF MemTypes, Save

\* A step that unloads no session, and whose new tasks and waiting requests
\* belong to sessions that are loaded.
LEMMA MemKeeps ==
  ASSUME MemInv, TaskInv, DataInv, MemTypes',
         \A s \in Sids : memory[s] \in Session => memory'[s] \in Session,
         \A r \in Runs : Live(r)' =>
           (Live(r) /\ sid'[r] = sid[r]) \/ memory'[sid'[r]] \in Session,
         \A c \in Callers : call'[c].op = "close_wait" =>
           call'[c] = call[c] \/ memory'[call'[c].on] \in Session
  PROVE  MemInv'
<1>1. \A r \in Runs : Live(r) => sid[r] \in Sids /\ memory[sid[r]] \in Session
  BY DEF MemInv, LiveLoaded, TaskInv, LiveIsRegistered
<1>2. LiveLoaded'
  BY <1>1 DEF LiveLoaded
<1>3. \A c \in Callers : call[c].op = "close_wait" =>
        call[c].on \in Sids /\ memory[call[c].on] \in Session
  BY DEF MemInv, WaitLoaded, DataInv, Idle
<1>4. WaitLoaded'
  BY <1>3 DEF WaitLoaded
<1>5. QED
  BY <1>2, <1>4 DEF MemInv

\* A handler saves a session; no task or request appears.
LEMMA MemSaves ==
  ASSUME MemInv, TaskInv, DataInv, NEW s \in Sids, NEW x \in Session,
         Save(s, x), UNCHANGED <<pc, sid, content, cancelled, call>>
  PROVE  MemInv'
<1>1. MemTypes' /\ \A y \in Sids : memory[y] \in Session => memory'[y] \in Session
  BY SaveType DEF MemInv, MemTypes
<1>2. \A r \in Runs : Live(r)' <=> Live(r)
  BY DEF Live
<1>3. QED
  BY <1>1, <1>2, MemKeeps

\* Both copies of a session are written unconditionally.
LEMMA MemWrites ==
  ASSUME MemInv, TaskInv, DataInv, NEW s \in Sids, NEW x \in Session,
         memory' = [memory EXCEPT ![s] = x], disk' = [disk EXCEPT ![s] = x],
         UNCHANGED <<content, cancelled>>,
         \A r \in Runs : Live(r)' => Live(r) /\ sid'[r] = sid[r],
         \A c \in Callers : call'[c].op = "close_wait" => call'[c] = call[c]
  PROVE  MemInv'
<1>1. MemTypes' /\ \A y \in Sids : memory[y] \in Session => memory'[y] \in Session
  BY DEF MemInv, MemTypes
<1>2. QED
  BY <1>1, MemKeeps

LEMMA MemRequest ==
  ASSUME MemInv, TaskInv, DataInv, Request
  PROVE  MemInv'
<1>1. CASE \E s \in Sids, mode \in Modes : Create(s, mode)
  <2>1. PICK s \in Sids, mode \in Modes : Create(s, mode)
    BY <1>1
  <2> DEFINE x == [mode |-> mode, status |-> "active", alias |-> None, runs |-> {}]
  <2>2. x \in Session
    BY ModesAssumption DEF Session, Status
  <2>3. Save(s, x) /\ UNCHANGED <<pc, sid, content, cancelled, call>>
    BY <2>1 DEF Create, taskVars
  <2>4. QED
    BY <2>2, <2>3, MemSaves
<1>2. CASE ListSessions
  <2>1. disk' \in [Sids -> Session \union {None}]
    BY <1>2, HelperTypes DEF ListSessions, MemInv, MemTypes
  <2>2. MemTypes' /\ UNCHANGED <<memory, call, pc, sid>>
    BY <1>2, <2>1 DEF ListSessions, MemInv, MemTypes, taskVars
  <2>3. QED
    BY <2>2, MemKeeps DEF Live
<1>3. CASE \E s \in Sids, alias \in Aliases : SetAlias(s, alias)
  <2>1. PICK s \in Sids, alias \in Aliases : SetAlias(s, alias)
    BY <1>3
  <2> DEFINE x == [Opened(s, s) EXCEPT !.alias = alias]
  <2>2. x \in Session
    BY <2>1, OpenedType DEF SetAlias, MemInv, Session
  <2>3. /\ memory' = [memory EXCEPT ![s] = x] /\ disk' = [disk EXCEPT ![s] = x]
        /\ UNCHANGED <<content, cancelled, call, pc, sid>>
    BY <2>1 DEF SetAlias, taskVars
  <2>4. QED
    BY <2>2, <2>3, MemWrites DEF Live
<1>4. ASSUME NEW ref \in Sids \union Aliases, NEW s \in Sids,
             GetHistory(ref, s) \/ Resume(ref, s) \/ RefuseMessage(ref, s)
      PROVE  MemInv'
  <2>1. Opened(ref, s) \in Session
    BY <1>4, OpenedType DEF GetHistory, Resume, RefuseMessage, MemInv
  <2>2. \E x \in Session : Save(s, x)
    BY <1>4, <2>1, HelperTypes DEF GetHistory, Resume, RefuseMessage
  <2>3. UNCHANGED <<pc, sid, content, cancelled, call>>
    BY <1>4 DEF GetHistory, Resume, RefuseMessage, taskVars
  <2>4. QED
    BY <2>2, <2>3, MemSaves
<1>5. ASSUME NEW ref \in Sids \union Aliases, NEW s \in Sids,
             NEW r \in Runs, NEW kind \in Contents,
             SendMessage(ref, s, r, kind)
      PROVE  MemInv'
  <2> DEFINE x == Reopened(Normalized(s, Opened(ref, s)))
  <2>1. x \in Session
    BY <1>5, OpenedType, HelperTypes DEF SendMessage, MemInv
  <2>2. /\ Save(s, x)
        /\ pc' = [pc EXCEPT ![r] = "created"]
        /\ sid' = [sid EXCEPT ![r] = s]
        /\ content' = [content EXCEPT ![r] = kind]
        /\ UNCHANGED <<cancelled, call>>
    BY <1>5 DEF SendMessage
  <2>3. /\ MemTypes'
        /\ memory'[s] \in Session
        /\ \A y \in Sids : memory[y] \in Session => memory'[y] \in Session
    BY <2>1, <2>2, SaveType DEF MemInv, MemTypes
  <2>4. \A y \in Runs : Live(y)' =>
          (Live(y) /\ sid'[y] = sid[y]) \/ memory'[sid'[y]] \in Session
    BY <2>2, <2>3 DEF TaskInv, TaskTypes, Live
  <2>5. QED
    BY <2>2, <2>3, <2>4, MemKeeps
<1>6. ASSUME NEW ref \in Sids \union Aliases, NEW s \in Sids, NEW c \in Callers,
             CancelBegin(c, ref, s) \/ CloseQueued(c, ref, s)
             \/ CompactQueued(c, ref, s) \/ CompactBegin(c, ref, s)
      PROVE  MemInv'
  <2>1. Save(s, Opened(ref, s)) /\ UNCHANGED <<pc, sid, content>>
    BY <1>6
    DEF CancelBegin, CloseQueued, CompactQueued, Queue, CompactBegin, taskVars
  <2>2. Opened(ref, s) \in Session
    BY <1>6, OpenedType
    DEF CancelBegin, CloseQueued, CompactQueued, Queue, CompactBegin, MemInv
  <2>3. cancelled' \in [Runs -> BOOLEAN]
    BY <1>6
    DEF CancelBegin, CloseQueued, CompactQueued, Queue, CompactBegin, taskVars,
        MemInv, MemTypes
  <2>4. /\ MemTypes'
        /\ memory'[s] \in Session
        /\ \A y \in Sids : memory[y] \in Session => memory'[y] \in Session
    BY <2>1, <2>2, <2>3, SaveType DEF MemInv, MemTypes
  <2>5. \A d \in Callers : call'[d].op = "close_wait" =>
          call'[d] = call[d] \/ call'[d].on = s
    BY <1>6
    DEF CancelBegin, CloseQueued, CompactQueued, Queue, CompactBegin, DataInv, Idle
  <2>6. QED
    BY <2>1, <2>4, <2>5, MemKeeps DEF Live
<1>7. ASSUME NEW ref \in Sids \union Aliases, NEW s \in Sids, NEW c \in Callers,
             CloseBegin(c, ref, s)
      PROVE  MemInv'
  <2> DEFINE x == [Opened(ref, s) EXCEPT !.status = "closed"]
  <2>1. x \in Session
    BY <1>7, OpenedType DEF CloseBegin, MemInv, Session, Status
  <2>2. /\ memory' = [memory EXCEPT ![s] = x] /\ disk' = [disk EXCEPT ![s] = x]
        /\ UNCHANGED <<content, cancelled, pc, sid>>
    BY <1>7 DEF CloseBegin, taskVars
  <2>3. \A d \in Callers : call'[d].op = "close_wait" => call'[d] = call[d]
    BY <1>7 DEF CloseBegin, DataInv, Idle
  <2>4. QED
    BY <2>1, <2>2, <2>3, MemWrites DEF Live
<1>8. QED
  BY <1>1, <1>2, <1>3, <1>4, <1>5, <1>6, <1>7 DEF Request

LEMMA MemTaskStep ==
  ASSUME MemInv, TaskInv, DataInv, NEW r \in Runs, TaskStep(r)
  PROVE  MemInv'
<1> DEFINE s == sid[r]
<1>1. Live(r) => s \in Sids /\ memory[s] \in Session
  BY DEF TaskInv, LiveIsRegistered, MemInv, LiveLoaded
<1>2. \A x \in Runs : pc'[x] \in Suspended => pc[x] \in Suspended
  BY DEF TaskStep, WaitForLock, EnterClosed, EnterWaiting, EnterActive, GetsLock,
         ReceiveMessage, BeginRun, BeginBlank, InvokeAgent, FinishAgent, CancelAgent, SwallowCancel,
         AnnounceEnd, SaveMeta, AnnounceCancel, DropAnswer, Unwind,
         AbortUnprotected, AbortWaiting, Reap, Step, EndTask, Suspended, InLock,
         TaskInv, TaskTypes
<1>3. UNCHANGED <<sid, call, content>>
  BY DEF TaskStep, WaitForLock, EnterClosed, EnterWaiting, EnterActive,
         ReceiveMessage, BeginRun, BeginBlank, InvokeAgent, FinishAgent, CancelAgent, SwallowCancel,
         AnnounceEnd, SaveMeta, AnnounceCancel, DropAnswer, Unwind,
         AbortUnprotected, AbortWaiting, Reap
<1>4. cancelled' \in [Runs -> BOOLEAN]
  BY DEF TaskStep, WaitForLock, EnterClosed, EnterWaiting, EnterActive,
         ReceiveMessage, BeginRun, BeginBlank, InvokeAgent, FinishAgent, CancelAgent, SwallowCancel,
         AnnounceEnd, SaveMeta, AnnounceCancel, DropAnswer, Unwind,
         AbortUnprotected, AbortWaiting, Reap, MemInv, MemTypes
<1>5. ASSUME /\ memory' \in [Sids -> Session \union {None}]
             /\ disk' \in [Sids -> Session \union {None}]
             /\ \A y \in Sids : memory[y] \in Session => memory'[y] \in Session
      PROVE  MemInv'
  <2>1. MemTypes'
    BY <1>3, <1>4, <1>5 DEF MemInv, MemTypes
  <2>2. \A x \in Runs : Live(x)' => Live(x) /\ sid'[x] = sid[x]
    BY <1>2, <1>3 DEF Live
  <2>3. QED
    BY <1>3, <1>5, <2>1, <2>2, MemKeeps
<1>6. ASSUME UNCHANGED <<memory, disk>>
      PROVE  MemInv'
  BY <1>5, <1>6 DEF MemInv, MemTypes
<1>7. ASSUME Live(r), NEW x \in Session,
             Save(s, x) \/ (memory' = [memory EXCEPT ![s] = x]
                            /\ disk' \in {disk, [disk EXCEPT ![s] = x]})
      PROVE  MemInv'
  BY <1>1, <1>5, <1>7, SaveType DEF MemInv, MemTypes, Save
<1>8. CASE EnterWaiting(r)
  <2>1. Live(r) /\ Save(s, Reopened(memory[s]))
    BY <1>8 DEF EnterWaiting, GetsLock, Live, Suspended
  <2>2. QED
    BY <1>1, <1>7, <2>1, HelperTypes
<1>9. CASE BeginRun(r) \/ BeginBlank(r)
  <2> DEFINE x == [memory[s] EXCEPT !.status = "running", !.runs = @ \union {r}]
  <2>1. Live(r) /\ Save(s, x)
    BY <1>9 DEF BeginRun, BeginBlank, Step, MarkRunning, Live, Suspended, InLock
  <2>2. x \in Session
    BY <1>1, <2>1 DEF Session, Status
  <2>3. QED
    BY <1>7, <2>1, <2>2
<1>10. CASE AnnounceEnd(r) \/ AnnounceCancel(r) \/ DropAnswer(r)
  <2>1. Live(r)
    BY <1>10 DEF AnnounceEnd, AnnounceCancel, DropAnswer, Step, Live, Suspended, InLock
  <2>2. /\ memory' = [memory EXCEPT ![s] = Rested(memory[s])]
        /\ disk' \in {disk, [disk EXCEPT ![s] = Rested(memory[s])]}
    BY <1>10 DEF AnnounceEnd, AnnounceCancel, DropAnswer, RestOnCancel
  <2>3. QED
    BY <1>1, <1>7, <2>1, <2>2, HelperTypes
<1>11. CASE SaveMeta(r)
  <2>1. Live(r) /\ memory' = memory /\ disk' = [disk EXCEPT ![s] = memory[s]]
    BY <1>11 DEF SaveMeta, Live, Suspended, InLock
  <2>2. QED
    BY <1>1, <1>5, <2>1 DEF MemInv, MemTypes
<1>12. QED
  BY <1>6, <1>8, <1>9, <1>10, <1>11
  DEF TaskStep, WaitForLock, EnterClosed, EnterActive, ReceiveMessage, InvokeAgent,
      FinishAgent, CancelAgent, SwallowCancel, Unwind, AbortUnprotected, AbortWaiting, Reap

LEMMA MemNext == MemInv /\ TaskInv /\ DataInv /\ [Next]_vars => MemInv'
<1> SUFFICES ASSUME MemInv, TaskInv, DataInv, [Next]_vars
             PROVE  MemInv'
  OBVIOUS
<1>1. ASSUME NEW c \in Callers, CallStep(c)
      PROVE  MemInv'
  <2>1. CASE CloseWoken(c)
    <3> DEFINE s == call[c].on
               x == [memory[s] EXCEPT !.status = "closed"]
    <3>1. s \in Sids /\ x \in Session
      BY <2>1 DEF CloseWoken, DataInv, Idle, MemInv, WaitLoaded, Session, Status
    <3>2. /\ memory' = [memory EXCEPT ![s] = x] /\ disk' = [disk EXCEPT ![s] = x]
          /\ UNCHANGED <<content, cancelled, pc, sid>>
      BY <2>1 DEF CloseWoken, taskVars
    <3>3. \A d \in Callers : call'[d].op = "close_wait" => call'[d] = call[d]
      BY <2>1 DEF CloseWoken, DataInv, Call
    <3>4. QED
      BY <3>1, <3>2, <3>3, MemWrites DEF Live
  <2>2. CASE CancelEnd(c) \/ CloseEnd(c) \/ CompactWoken(c) \/ CompactEnd(c)
    <3>1. UNCHANGED <<memory, disk, content, cancelled, pc, sid>>
      BY <2>2 DEF CancelEnd, CloseEnd, CompactWoken, CompactEnd, taskVars
    <3>2. \A d \in Callers : call'[d].op = "close_wait" => call'[d] = call[d]
      BY <2>2 DEF CancelEnd, CloseEnd, CompactWoken, CompactEnd, DataInv, Call, Idle
    <3>3. MemTypes'
      BY <3>1 DEF MemInv, MemTypes
    <3>4. QED
      BY <3>1, <3>2, <3>3, MemKeeps DEF Live
  <2>3. QED
    BY <1>1, <2>1, <2>2 DEF CallStep
<1>2. CASE Crash
  <2>1. \A r \in Runs : ~Live(r)'
    BY <1>2 DEF Crash, Live, Suspended, InLock
  <2>2. QED
    BY <1>2, <2>1 DEF Crash, MemInv, MemTypes, LiveLoaded, WaitLoaded, Idle
<1>3. CASE UNCHANGED vars
  BY <1>3 DEF vars, MemInv, MemTypes, LiveLoaded, WaitLoaded, Live
<1>4. QED
  BY <1>1, <1>2, <1>3, MemRequest, MemTaskStep DEF Next

\* Every variable keeps its type; in particular no task or handler ever works
\* on a session that is not loaded.
THEOREM TypeCorrect == Spec => []TypeOK
<1>1. Spec => []MemInv
  BY MemInit, MemNext, TaskInvariant, DataInvariant, PTL DEF Spec
<1>2. TaskInv /\ DataInv /\ LockInv /\ MemInv => TypeOK
  BY DEF TaskInv, TaskTypes, DataInv, Queues, LockInv, HolderType, MemInv,
         MemTypes, TypeOK
<1>3. QED
  BY <1>1, <1>2, TaskInvariant, DataInvariant, LockInvariant, PTL

-----------------------------------------------------------------------------
(* The refinement of SessionLane.                                          *)

\* The lane of a session carries exactly its live run.
LEMMA LaneCarries ==
  ASSUME TaskInv, NEW s \in Sids, NEW r \in Runs
  PROVE  LaneOf(s) = r <=> (Live(r) /\ sid[r] = s)
BY NoneAssumption
DEF LaneOf, IsRunning, TaskInv, TaskTypes, LiveIsRegistered, RegisteredIsOwn

LEMMA LaneInit == Init => Lane!Init
BY DEF Init, Lane!Init, LaneOf, IsRunning, OverRuns, Ended

\* A step that starts and ends no task is a stuttering step of the lanes.
LEMMA LaneStutters ==
  ASSUME UNCHANGED registered,
         \A x \in Runs : Live(x)' = Live(x) /\ (pc'[x] \in Ended <=> pc[x] \in Ended),
         TaskInv
  PROVE  UNCHANGED Lane!vars
<1>1. OverRuns' = OverRuns
  BY DEF OverRuns
<1>2. \A s \in Sids : LaneOf(s)' = LaneOf(s)
  BY DEF LaneOf, IsRunning, TaskInv, TaskTypes
<1>3. QED
  BY <1>1, <1>2 DEF Lane!vars

LEMMA LaneMoves ==
  ASSUME TaskInv, NEW r \in Runs, Live(r), NEW to \in Suspended,
         pc' = [pc EXCEPT ![r] = to], UNCHANGED registered
  PROVE  UNCHANGED Lane!vars
<1>1. \A x \in Runs : Live(x)' = Live(x) /\ (pc'[x] \in Ended <=> pc[x] \in Ended)
  BY DEF TaskInv, TaskTypes, Live, Suspended, InLock, Ended
<1>2. QED
  BY <1>1, LaneStutters

\* The end of a task frees its lane.
LEMMA LaneEnds ==
  ASSUME TaskInv, NEW r \in Runs, Live(r), NEW how \in Ended,
         pc' = [pc EXCEPT ![r] = how], UNCHANGED <<registered, sid>>
  PROVE  \E s \in Sids : Lane!End(s)
<1>1. PICK s \in Sids : sid[r] = s /\ registered[s] = r
  BY DEF TaskInv, LiveIsRegistered
<1>2. LaneOf(s) = r
  BY <1>1, NoneAssumption DEF LaneOf, IsRunning
<1>3. OverRuns' = OverRuns \union {r}
  BY DEF OverRuns, TaskInv, TaskTypes
<1>4. ~Live(r)' /\ \A x \in Runs : x # r => Live(x)' = Live(x)
  BY DEF Live, Suspended, InLock, Ended, TaskInv, TaskTypes
<1>5. LaneOf(s)' = None
  BY <1>1, <1>4 DEF LaneOf, IsRunning
<1>6. ASSUME NEW y \in Sids, y # s
      PROVE  LaneOf(y)' = LaneOf(y)
  <2>1. registered[y] \in Runs \union {None} /\ registered'[y] = registered[y]
    BY DEF TaskInv, TaskTypes
  <2>2. registered[y] # r
    BY <1>1, <1>6, NoneAssumption DEF TaskInv, RegisteredIsOwn
  <2>3. registered[y] # None => Live(registered[y])' = Live(registered[y])
    BY <1>4, <2>1, <2>2
  <2>4. QED
    BY <2>1, <2>3 DEF LaneOf, IsRunning
<1>7. QED
  BY <1>2, <1>3, <1>5, <1>6, NoneAssumption DEF Lane!End

\* An accepted message takes a free lane.
LEMMA LaneAccepts ==
  ASSUME TaskInv, NEW ref, NEW s \in Sids, NEW r \in Runs, NEW kind \in Contents,
         SendMessage(ref, s, r, kind)
  PROVE  Lane!Accept(s, r)
<1>1. /\ ~IsRunning(s) /\ pc[r] = "unused"
      /\ pc' = [pc EXCEPT ![r] = "created"]
      /\ registered' = [registered EXCEPT ![s] = r]
  BY DEF SendMessage, Accepts
<1>2. LaneOf(s) = None
  BY <1>1 DEF LaneOf
<1>3. ~Live(r) /\ r \notin OverRuns
  BY <1>1 DEF Live, Suspended, InLock, OverRuns, Ended
<1>4. \A y \in Sids : LaneOf(y) # r
  BY <1>3, LaneCarries
<1>5. Live(r)' /\ \A x \in Runs : x # r => Live(x)' = Live(x)
  BY <1>1 DEF Live, Suspended, TaskInv, TaskTypes
<1>6. LaneOf(s)' = r
  BY <1>1, <1>5, NoneAssumption DEF LaneOf, IsRunning, TaskInv, TaskTypes
<1>7. \A y \in Sids : y # s => LaneOf(y)' = LaneOf(y)
  BY <1>1, <1>5 DEF LaneOf, IsRunning, TaskInv, TaskTypes, RegisteredIsOwn
<1>8. OverRuns' = OverRuns
  BY <1>1 DEF OverRuns, Ended, TaskInv, TaskTypes
<1>9. QED
  BY <1>2, <1>3, <1>4, <1>6, <1>7, <1>8 DEF Lane!Accept, Lane!Carried

\* The callback of an ended task does not touch the lane, whoever carries it.
LEMMA LaneReaps ==
  ASSUME TaskInv, NEW r \in Runs, Reap(r)
  PROVE  UNCHANGED Lane!vars
<1>1. ~Live(r)
  BY DEF Reap, TaskInv, UnreapedEnded, Live, Ended, Suspended, InLock
<1>2. /\ pc' = pc
      /\ registered' = [registered EXCEPT ![sid[r]] = IF @ = r THEN None ELSE @]
  BY DEF Reap
<1>3. \A s \in Sids : LaneOf(s)' = LaneOf(s)
  BY <1>1, <1>2 DEF LaneOf, IsRunning, Live, TaskInv, TaskTypes
<1>4. OverRuns' = OverRuns
  BY <1>2 DEF OverRuns
<1>5. QED
  BY <1>3, <1>4 DEF Lane!vars

\* A crash ends what all lanes carry.
LEMMA LaneDies ==
  ASSUME TaskInv, Crash
  PROVE  Lane!Die
<1>1. \A s \in Sids : LaneOf(s)' = None
  BY DEF Crash, LaneOf, IsRunning
<1>2. \A r \in Runs : Live(r) => sid[r] \in Sids
  BY DEF TaskInv, LiveIsRegistered
<1>3. \A r \in Runs : (\E s \in Sids : LaneOf(s) = r) <=> Live(r)
  BY <1>2, LaneCarries
<1>4. \A s \in Sids : LaneOf(s) # None => LaneOf(s) \in Runs
  BY DEF LaneOf, TaskInv, TaskTypes
<1>5. \A r \in Runs : pc'[r] \in Ended <=> (pc[r] \in Ended \/ Live(r))
  BY DEF Crash, Live, Ended, Suspended, InLock
<1>6. {LaneOf(s) : s \in Sids} \ {None} = {r \in Runs : Live(r)}
  BY <1>3, <1>4, NoneAssumption
<1>7. OverRuns' = OverRuns \union {r \in Runs : Live(r)}
  BY <1>5 DEF OverRuns
<1>8. {[y \in Sids |-> LaneOf(y)][s] : s \in Sids} = {LaneOf(s) : s \in Sids}
  OBVIOUS
<1>9. QED
  BY <1>1, <1>6, <1>7, <1>8 DEF Lane!Die, Lane!Carried

LEMMA LaneNext == TaskInv /\ [Next]_vars => [Lane!Next]_(Lane!vars)
<1> SUFFICES ASSUME TaskInv, [Next]_vars
             PROVE  Lane!Next \/ UNCHANGED Lane!vars
  OBVIOUS
<1>1. ASSUME UNCHANGED <<registered, pc>>
      PROVE  UNCHANGED Lane!vars
  BY <1>1, LaneStutters DEF Live
<1>2. CASE Request
  <2>1. CASE \E s \in Sids, mode \in Modes : Create(s, mode)
    BY <2>1, <1>1 DEF Create, taskVars
  <2>2. CASE ListSessions
    BY <2>2, <1>1 DEF ListSessions, taskVars
  <2>3. CASE \E s \in Sids, alias \in Aliases : SetAlias(s, alias)
    BY <2>3, <1>1 DEF SetAlias, taskVars
  <2>4. ASSUME NEW ref \in Sids \union Aliases, NEW s \in Sids,
               GetHistory(ref, s) \/ Resume(ref, s) \/ RefuseMessage(ref, s)
        PROVE  UNCHANGED Lane!vars
    BY <2>4, <1>1 DEF GetHistory, Resume, RefuseMessage, taskVars
  <2>5. ASSUME NEW ref \in Sids \union Aliases, NEW s \in Sids,
               NEW r \in Runs, NEW kind \in Contents,
               SendMessage(ref, s, r, kind)
        PROVE  Lane!Next
    BY <2>5, LaneAccepts DEF Lane!Next
  <2>6. ASSUME NEW ref \in Sids \union Aliases, NEW s \in Sids, NEW c \in Callers,
               \/ CancelBegin(c, ref, s)
               \/ CloseQueued(c, ref, s)
               \/ CloseBegin(c, ref, s)
               \/ CompactQueued(c, ref, s)
               \/ CompactBegin(c, ref, s)
        PROVE  UNCHANGED Lane!vars
    BY <2>6, <1>1
    DEF CancelBegin, CloseQueued, CompactQueued, Queue, CloseBegin, CompactBegin,
        taskVars
  <2>7. QED
    BY <1>2, <2>1, <2>2, <2>3, <2>4, <2>5, <2>6 DEF Request
<1>3. ASSUME NEW r \in Runs, TaskStep(r)
      PROVE  Lane!Next \/ UNCHANGED Lane!vars
  <2>1. CASE WaitForLock(r) \/ ReceiveMessage(r) \/ InvokeAgent(r) \/ FinishAgent(r)
             \/ AnnounceEnd(r) \/ AnnounceCancel(r) \/ BeginRun(r)
    <3>1. \E to \in Suspended : pc' = [pc EXCEPT ![r] = to]
      BY <2>1
      DEF WaitForLock, ReceiveMessage, InvokeAgent, FinishAgent, AnnounceEnd,
          AnnounceCancel, BeginRun, Step, Suspended, InLock
    <3>2. Live(r) /\ UNCHANGED registered
      BY <2>1
      DEF WaitForLock, ReceiveMessage, InvokeAgent, FinishAgent, AnnounceEnd,
          AnnounceCancel, BeginRun, Step, Live, Suspended, InLock
    <3>3. QED
      BY <3>1, <3>2, LaneMoves
  <2>2. CASE EnterWaiting(r) \/ EnterActive(r) \/ CancelAgent(r) \/ SwallowCancel(r) \/ DropAnswer(r)
    BY <2>2, LaneMoves
    DEF EnterWaiting, EnterActive, GetsLock, CancelAgent, SwallowCancel, DropAnswer, Live,
        Suspended, InLock
  <2>3. CASE EnterClosed(r) \/ BeginBlank(r) \/ SaveMeta(r) \/ Unwind(r)
             \/ AbortUnprotected(r) \/ AbortWaiting(r)
    <3>1. Live(r) /\ UNCHANGED <<registered, sid>>
      BY <2>3
      DEF EnterClosed, GetsLock, BeginBlank, SaveMeta, Unwind, AbortUnprotected,
          AbortWaiting, Live, Suspended, InLock
    <3>2. \E how \in Ended : pc' = [pc EXCEPT ![r] = how]
      BY <2>3
      DEF EnterClosed, BeginBlank, SaveMeta, Unwind, AbortUnprotected,
          AbortWaiting, EndTask, Ended
    <3>3. QED
      BY <3>1, <3>2, LaneEnds DEF Lane!Next
  <2>4. CASE Reap(r)
    BY <2>4, LaneReaps
  <2>5. QED
    BY <1>3, <2>1, <2>2, <2>3, <2>4 DEF TaskStep
<1>4. ASSUME NEW c \in Callers, CallStep(c)
      PROVE  UNCHANGED Lane!vars
  BY <1>4, <1>1
  DEF CallStep, CancelEnd, CloseWoken, CloseEnd, CompactWoken, CompactEnd, taskVars
<1>5. CASE Crash
  BY <1>5, LaneDies DEF Lane!Next
<1>6. CASE UNCHANGED vars
  BY <1>6, <1>1 DEF vars
<1>7. QED
  BY <1>2, <1>3, <1>4, <1>5, <1>6 DEF Next

\* Every behaviour of the manager is one of the lanes: a run is accepted only
\* on a free lane, ends once, and never comes back.
THEOREM LaneTheorem == Spec => Lane!SafeSpec
BY LaneInit, LaneNext, TaskInvariant, PTL DEF Spec, Lane!SafeSpec

-----------------------------------------------------------------------------
(* What is kept of a session.                                              *)


\* Two copies of a session that differ in nothing but the status.
SameBook(x, y) == x.mode = y.mode /\ x.alias = y.alias /\ x.runs = y.runs

\* A one-shot session that has run is closed, or is found "running".
Spent(x) == x.mode = "one_shot" /\ x.runs # {} => x.status \in {"running", "closed"}

\* The object in memory is the file's, but for the status.
MemoryIsSaved ==
  \A s \in Sids : memory[s] # None => disk[s] # None /\ SameBook(memory[s], disk[s])

OneShotsSpent ==
  \A s \in Sids : /\ disk[s] # None => Spent(disk[s])
                  /\ memory[s] # None => Spent(memory[s])

\* The run is accepted and not recorded yet.
Early(r) == pc[r] \in {"created", "lock_wait", "resumed", "received"}

\* A one-shot session that has accepted a run has had none before.
EarlyIsFirst ==
  \A r \in Runs : Early(r) /\ disk[sid[r]] # None =>
    (disk[sid[r]].mode = "one_shot" => disk[sid[r]].runs = {})

BookInv == MemoryIsSaved /\ OneShotsSpent /\ EarlyIsFirst /\ AliasesUnique /\ OneShotRunsOnce

-----------------------------------------------------------------------------
LEMMA BookInit == Init => BookInv
BY DEF Init, BookInv, MemoryIsSaved, OneShotsSpent, EarlyIsFirst, Early, AliasesUnique, OneShotRunsOnce

LEMMA EarlyIsLive == \A r \in Runs : Early(r) => Live(r)
BY DEF Early, Live, Suspended, InLock

\* What the helpers do to a copy.
LEMMA HelperBooks ==
  ASSUME NEW s, NEW x \in Session, Spent(x)
  PROVE  /\ SameBook(Rested(x), x) /\ Spent(Rested(x))
         /\ SameBook(Normalized(s, x), x) /\ Spent(Normalized(s, x))
         /\ SameBook(Reopened(x), x) /\ Spent(Reopened(x))
<1>1. /\ x.mode \in {"chat", "one_shot"} /\ x = [mode |-> x.mode, status |-> x.status, alias |-> x.alias, runs |-> x.runs]
  BY DEF Session
<1>2. SameBook(Rested(x), x) /\ Spent(Rested(x))
  BY <1>1 DEF SameBook, Spent, Rested, RestStatus
<1>3. SameBook(Reopened(x), x) /\ Spent(Reopened(x))
  BY <1>1 DEF SameBook, Spent, Reopened
<1>4. SameBook(Normalized(s, x), x) /\ Spent(Normalized(s, x))
  BY <1>2 DEF SameBook, Normalized
<1>5. QED
  BY <1>2, <1>3, <1>4

LEMMA OpenedBooks ==
  ASSUME MemTypes, BookInv, NEW ref, NEW s \in Sids, Refers(ref, s)
  PROVE  /\ disk[s] # None
         /\ Opened(ref, s) \in Session /\ SameBook(Opened(ref, s), disk[s]) /\ Spent(Opened(ref, s))
<1>1. /\ disk[s] # None /\ disk[s] \in Session /\ Spent(disk[s])
      /\ memory[s] # None => memory[s] \in Session /\ SameBook(memory[s], disk[s]) /\ Spent(memory[s])
  BY DEF MemTypes, Refers, BookInv, MemoryIsSaved, OneShotsSpent
<1>2. SameBook(Normalized(s, disk[s]), disk[s]) /\ Spent(Normalized(s, disk[s]))
  BY <1>1, HelperBooks
<1>3. SameBook(disk[s], disk[s])
  BY DEF SameBook
<1>4. QED
  BY <1>1, <1>2, <1>3, OpenedType DEF Opened, Object

-----------------------------------------------------------------------------
\* No session's book changes, and no run is accepted.
LEMMA BookKeeps ==
  ASSUME BookInv,
         \A s \in Sids : disk[s] = None => disk'[s] = None /\ memory'[s] = None,
         \A s \in Sids : disk[s] # None =>
           disk'[s] # None /\ SameBook(disk'[s], disk[s]) /\ Spent(disk'[s]),
         \A s \in Sids : memory'[s] # None => SameBook(memory'[s], disk[s]) /\ Spent(memory'[s]),
         \A r \in Runs : Early(r)' => Early(r) /\ sid'[r] = sid[r] /\ sid[r] \in Sids
  PROVE  BookInv'
<1>1. MemoryIsSaved'
  BY DEF MemoryIsSaved, SameBook
<1>2. OneShotsSpent'
  BY DEF OneShotsSpent
<1>3. EarlyIsFirst'
  BY DEF BookInv, EarlyIsFirst, SameBook
<1>4. AliasesUnique'
  BY DEF BookInv, AliasesUnique, SameBook
<1>5. OneShotRunsOnce'
  BY DEF BookInv, OneShotRunsOnce, SameBook
<1>6. QED
  BY <1>1, <1>2, <1>3, <1>4, <1>5 DEF BookInv

\* One or both copies of one session are written, or none.
LEMMA BookWrites ==
  ASSUME BookInv, MemTypes, NEW s \in Sids, disk[s] # None,
         NEW x \in Session, SameBook(x, disk[s]), Spent(x),
         memory' \in {memory, [memory EXCEPT ![s] = x]},
         disk' \in {disk, [disk EXCEPT ![s] = x]},
         \A r \in Runs : Early(r)' => Early(r) /\ sid'[r] = sid[r] /\ sid[r] \in Sids
  PROVE  BookInv'
<1>1. x # None
  BY NoneIsNoSession
<1>2. \A y \in Sids : y # s => memory'[y] = memory[y] /\ disk'[y] = disk[y]
  BY DEF MemTypes
<1>3. memory'[s] \in {memory[s], x} /\ disk'[s] \in {disk[s], x}
  BY DEF MemTypes
<1>4. \A y \in Sids : disk[y] = None => disk'[y] = None /\ memory'[y] = None
  BY <1>2 DEF BookInv, MemoryIsSaved
<1>5. \A y \in Sids : disk[y] # None =>
        disk'[y] # None /\ SameBook(disk'[y], disk[y]) /\ Spent(disk'[y])
  BY <1>1, <1>2, <1>3 DEF BookInv, OneShotsSpent, SameBook
<1>6. \A y \in Sids : memory'[y] # None => SameBook(memory'[y], disk[y]) /\ Spent(memory'[y])
  BY <1>2, <1>3 DEF BookInv, MemoryIsSaved, OneShotsSpent
<1>7. QED
  BY <1>4, <1>5, <1>6, BookKeeps

LEMMA SaveIsWrite ==
  ASSUME NEW s, NEW x, Save(s, x)
  PROVE  /\ memory' \in {memory, [memory EXCEPT ![s] = x]}
         /\ disk' \in {disk, [disk EXCEPT ![s] = x]}
BY DEF Save

\* A step of nobody's task.
LEMMA EarlyStays ==
  ASSUME TaskInv, UNCHANGED <<pc, sid>>
  PROVE  \A r \in Runs : Early(r)' => Early(r) /\ sid'[r] = sid[r] /\ sid[r] \in Sids
BY EarlyIsLive DEF TaskInv, LiveIsRegistered, Early

\* The pieces a request is made of: a session is found and saved.
LEMMA BookSaves ==
  ASSUME BookInv, TaskInv, MemTypes, NEW ref, NEW s \in Sids, Refers(ref, s),
         NEW x \in Session, SameBook(x, Opened(ref, s)), Spent(x),
         memory' \in {memory, [memory EXCEPT ![s] = x]},
         disk' \in {disk, [disk EXCEPT ![s] = x]},
         UNCHANGED <<pc, sid>>
  PROVE  BookInv'
<1>1. disk[s] # None /\ SameBook(Opened(ref, s), disk[s])
  BY OpenedBooks
<1>2. SameBook(x, disk[s])
  BY <1>1 DEF SameBook
<1>3. \A r \in Runs : Early(r)' => Early(r) /\ sid'[r] = sid[r] /\ sid[r] \in Sids
  BY EarlyStays
<1>4. QED
  BY <1>1, <1>2, <1>3, BookWrites

\* A new session has no alias and no run.
LEMMA BookCreates ==
  ASSUME BookInv, TaskInv, MemTypes, NEW s \in Sids, NEW mode \in Modes, Create(s, mode)
  PROVE  BookInv'
<1> DEFINE x == [mode |-> mode, status |-> "active", alias |-> None, runs |-> {}]
<1>1. x \in Session /\ x # None /\ x.alias = None /\ x.runs = {} /\ Spent(x)
  BY NoneIsNoSession, ModesAssumption DEF Session, Status, Spent
<1> HIDE DEF x
<1>2. disk[s] = None /\ memory[s] = None /\ Save(s, x) /\ UNCHANGED <<pc, sid>>
  BY DEF Create, x, taskVars, BookInv, MemoryIsSaved
<1>3. /\ memory'[s] = x /\ disk'[s] = x
      /\ \A y \in Sids : y # s => memory'[y] = memory[y] /\ disk'[y] = disk[y]
  BY <1>1, <1>2 DEF Save, Object, MemTypes
<1>4. MemoryIsSaved' /\ OneShotsSpent'
  BY <1>1, <1>3 DEF BookInv, MemoryIsSaved, OneShotsSpent, SameBook
<1>5. EarlyIsFirst'
  <2>1. \A r \in Runs : Early(r)' => Early(r) /\ sid'[r] = sid[r] /\ sid[r] \in Sids
    BY <1>2, EarlyStays
  <2>2. QED
    BY <1>1, <1>3, <2>1 DEF BookInv, EarlyIsFirst
<1>6. AliasesUnique' /\ OneShotRunsOnce'
  BY <1>1, <1>3 DEF BookInv, AliasesUnique, OneShotRunsOnce
<1>7. QED
  BY <1>4, <1>5, <1>6 DEF BookInv

\* An alias is given only when the search, memory first and the files after,
\* finds it on no other session; the files alone would have decided the same.
LEMMA AliasIsFree ==
  ASSUME BookInv, NEW s \in Sids, NEW alias \in Aliases, FoundByAlias(alias) \subseteq {s}
  PROVE  \A y \in Sids : y # s /\ disk[y] # None => disk[y].alias # alias
<1> SUFFICES ASSUME NEW y \in Sids, y # s, disk[y] # None, disk[y].alias = alias
             PROVE  FALSE
  OBVIOUS
<1>1. CASE memory[y] # None
  <2>1. memory[y].alias = alias
    BY <1>1 DEF BookInv, MemoryIsSaved, SameBook
  <2>2. y \in FoundByAlias(alias)
    BY <1>1, <2>1 DEF FoundByAlias
  <2>3. QED
    BY <2>2
<1>2. CASE memory[y] = None
  <2>1. CASE {z \in Sids : memory[z] # None /\ memory[z].alias = alias} = {}
    BY <2>1 DEF FoundByAlias
  <2>2. CASE {z \in Sids : memory[z] # None /\ memory[z].alias = alias} # {}
    <3>1. PICK z \in Sids : memory[z] # None /\ memory[z].alias = alias
      BY <2>2
    <3>2. z = s
      BY <3>1 DEF FoundByAlias
    <3>3. disk[s] # None /\ disk[s].alias = alias
      BY <3>1, <3>2 DEF BookInv, MemoryIsSaved, SameBook
    <3>4. alias # None
      BY NoneAssumption
    <3>5. QED
      BY <3>3, <3>4 DEF BookInv, AliasesUnique
  <2>3. QED
    BY <2>1, <2>2
<1>3. QED
  BY <1>1, <1>2

LEMMA BookNames ==
  ASSUME BookInv, TaskInv, MemTypes, NEW s \in Sids, NEW alias \in Aliases, SetAlias(s, alias)
  PROVE  BookInv'
<1> DEFINE x == [Opened(s, s) EXCEPT !.alias = alias]
<1>1. /\ disk[s] # None /\ Opened(s, s) \in Session
      /\ SameBook(Opened(s, s), disk[s]) /\ Spent(Opened(s, s))
  BY OpenedBooks DEF SetAlias
<1>2. /\ x \in Session /\ x.alias = alias /\ Spent(x)
      /\ x.mode = disk[s].mode /\ x.runs = disk[s].runs
  BY <1>1 DEF Session, Spent, SameBook
<1>3. /\ memory' = [memory EXCEPT ![s] = x] /\ disk' = [disk EXCEPT ![s] = x]
      /\ UNCHANGED <<pc, sid>>
  BY DEF SetAlias, taskVars
<1>4. \A y \in Sids : y # s /\ disk[y] # None => disk[y].alias # alias
  BY AliasIsFree DEF SetAlias
<1> HIDE DEF x
<1>5. /\ memory'[s] = x /\ disk'[s] = x /\ x # None
      /\ \A y \in Sids : y # s => memory'[y] = memory[y] /\ disk'[y] = disk[y]
  BY <1>2, <1>3, NoneIsNoSession DEF MemTypes
<1>6. MemoryIsSaved' /\ OneShotsSpent'
  BY <1>2, <1>5 DEF BookInv, MemoryIsSaved, OneShotsSpent, SameBook
<1>7. EarlyIsFirst'
  <2>1. \A r \in Runs : Early(r)' => Early(r) /\ sid'[r] = sid[r] /\ sid[r] \in Sids
    BY <1>3, EarlyStays
  <2>2. QED
    BY <1>1, <1>2, <1>5, <2>1 DEF BookInv, EarlyIsFirst
<1>8. AliasesUnique'
  BY <1>2, <1>4, <1>5 DEF BookInv, AliasesUnique
<1>9. OneShotRunsOnce'
  BY <1>1, <1>2, <1>5 DEF BookInv, OneShotRunsOnce
<1>10. QED
  BY <1>6, <1>7, <1>8, <1>9 DEF BookInv

\* A message is accepted by a one-shot session only before its first run: once it
\* has run it is closed, or "running" and closed by the normalization.
LEMMA BookAccepts ==
  ASSUME BookInv, TaskInv, MemTypes, NEW ref, NEW s \in Sids, NEW r \in Runs, NEW kind,
         SendMessage(ref, s, r, kind)
  PROVE  BookInv'
<1> DEFINE o == Opened(ref, s)
           n == Normalized(s, o)
           x == Reopened(n)
<1>1. disk[s] # None /\ o \in Session /\ SameBook(o, disk[s]) /\ Spent(o)
  BY OpenedBooks DEF SendMessage
<1>2. n \in Session /\ SameBook(n, o) /\ Spent(n)
  BY <1>1, HelperBooks, HelperTypes
<1>3. x \in Session /\ SameBook(x, n) /\ Spent(x)
  BY <1>2, HelperBooks, HelperTypes
<1>4. Accepts(s, n) /\ Save(s, x)
  BY DEF SendMessage
<1>5. n.mode = "one_shot" => n.runs = {}
  <2>1. n.status # "running"
    BY <1>1, <1>4 DEF Accepts, Normalized, Rested, RestStatus, Session
  <2>2. QED
    BY <1>2, <1>4, <2>1 DEF Accepts, Spent
<1>6. /\ sid' = [sid EXCEPT ![r] = s]
      /\ pc' = [pc EXCEPT ![r] = "created"]
  BY DEF SendMessage
<1> HIDE DEF o, n, x
<1>7. /\ SameBook(x, disk[s])
      /\ memory' \in {memory, [memory EXCEPT ![s] = x]}
      /\ disk' \in {disk, [disk EXCEPT ![s] = x]}
  BY <1>1, <1>2, <1>3, <1>4, SaveIsWrite DEF SameBook
<1>8. x # None
  BY <1>3, NoneIsNoSession
<1>9. /\ \A y \in Sids : y # s => memory'[y] = memory[y] /\ disk'[y] = disk[y]
      /\ memory'[s] \in {memory[s], x} /\ disk'[s] \in {disk[s], x}
  BY <1>7 DEF MemTypes
<1>10. MemoryIsSaved'
  BY <1>1, <1>7, <1>8, <1>9 DEF BookInv, MemoryIsSaved, SameBook
<1>11. OneShotsSpent'
  BY <1>3, <1>8, <1>9 DEF BookInv, OneShotsSpent
<1>12. \A y \in Runs : Early(y)' => sid'[y] \in Sids /\ (y = r \/ (Early(y) /\ sid'[y] = sid[y]))
  BY <1>6, EarlyIsLive DEF TaskInv, TaskTypes, LiveIsRegistered, Early
<1>13. sid'[r] = s
  BY <1>6 DEF TaskInv, TaskTypes
<1>14. disk'[s].mode = "one_shot" => disk'[s].runs = {}
  BY <1>2, <1>1, <1>3, <1>5, <1>7, <1>9 DEF SameBook
<1>15. EarlyIsFirst'
  BY <1>9, <1>12, <1>13, <1>14 DEF BookInv, EarlyIsFirst
<1>16. AliasesUnique' /\ OneShotRunsOnce'
  BY <1>1, <1>7, <1>9 DEF BookInv, AliasesUnique, OneShotRunsOnce, SameBook
<1>17. QED
  BY <1>10, <1>11, <1>15, <1>16 DEF BookInv

LEMMA BookRequest ==
  ASSUME BookInv, TaskInv, MemTypes, Request
  PROVE  BookInv'
<1>1. CASE \E s \in Sids, mode \in Modes : Create(s, mode)
  BY <1>1, BookCreates
<1>2. CASE ListSessions
  <2>1. UNCHANGED <<memory, pc, sid>>
    BY <1>2 DEF ListSessions, taskVars
  <2>2. \A s \in Sids : disk[s] # None =>
          disk[s] \in Session /\ Normalized(s, disk[s]) \in Session
          /\ SameBook(Normalized(s, disk[s]), disk[s]) /\ Spent(Normalized(s, disk[s]))
    BY HelperBooks, HelperTypes DEF MemTypes, BookInv, OneShotsSpent
  <2>3. \A s \in Sids : disk'[s] = IF disk[s] = None THEN None ELSE Normalized(s, disk[s])
    BY <1>2 DEF ListSessions
  <2>4. \A s \in Sids : disk[s] # None =>
          disk'[s] # None /\ SameBook(disk'[s], disk[s]) /\ Spent(disk'[s])
    BY <2>2, <2>3, NoneIsNoSession
  <2>5. /\ \A s \in Sids : disk[s] = None => disk'[s] = None /\ memory'[s] = None
        /\ \A s \in Sids : memory'[s] # None => SameBook(memory'[s], disk[s]) /\ Spent(memory'[s])
    BY <2>1, <2>3 DEF BookInv, MemoryIsSaved, OneShotsSpent
  <2>6. \A r \in Runs : Early(r)' => Early(r) /\ sid'[r] = sid[r] /\ sid[r] \in Sids
    BY <2>1, EarlyStays
  <2>7. QED
    BY <2>4, <2>5, <2>6, BookKeeps
<1>3. CASE \E s \in Sids, alias \in Aliases : SetAlias(s, alias)
  BY <1>3, BookNames
<1>4. ASSUME NEW ref, NEW s \in Sids,
             GetHistory(ref, s) \/ Resume(ref, s) \/ RefuseMessage(ref, s)
      PROVE  BookInv'
  <2> DEFINE o == Opened(ref, s)
  <2>1. Refers(ref, s) /\ UNCHANGED <<pc, sid>>
    BY <1>4 DEF GetHistory, Resume, RefuseMessage, taskVars
  <2>2. o \in Session /\ Spent(o)
    BY <2>1, OpenedBooks
  <2>3. \A x \in {o, Reopened(o), Normalized(s, o)} : x \in Session /\ SameBook(x, o) /\ Spent(x)
    BY <2>2, HelperBooks, HelperTypes DEF SameBook
  <2>4. PICK x \in {o, Reopened(o), Normalized(s, o)} : Save(s, x)
    BY <1>4 DEF GetHistory, Resume, RefuseMessage
  <2>5. /\ memory' \in {memory, [memory EXCEPT ![s] = x]}
        /\ disk' \in {disk, [disk EXCEPT ![s] = x]}
    BY <2>4, SaveIsWrite
  <2>6. x \in Session /\ SameBook(x, Opened(ref, s)) /\ Spent(x)
    BY <2>3
  <2>7. QED
    BY <2>1, <2>5, <2>6, BookSaves
<1>5. ASSUME NEW ref, NEW s \in Sids, NEW r \in Runs, NEW kind, SendMessage(ref, s, r, kind)
      PROVE  BookInv'
  BY <1>5, BookAccepts
<1>6. ASSUME NEW ref, NEW s \in Sids, NEW c \in Callers,
             CancelBegin(c, ref, s) \/ CloseQueued(c, ref, s)
             \/ CompactQueued(c, ref, s) \/ CompactBegin(c, ref, s)
      PROVE  BookInv'
  <2>1. Refers(ref, s) /\ Save(s, Opened(ref, s)) /\ UNCHANGED <<pc, sid>>
    BY <1>6
    DEF CancelBegin, CloseQueued, CompactQueued, Queue, CompactBegin, taskVars
  <2>2. Opened(ref, s) \in Session /\ Spent(Opened(ref, s))
        /\ SameBook(Opened(ref, s), Opened(ref, s))
    BY <2>1, OpenedBooks DEF SameBook
  <2>3. /\ memory' \in {memory, [memory EXCEPT ![s] = Opened(ref, s)]}
        /\ disk' \in {disk, [disk EXCEPT ![s] = Opened(ref, s)]}
    BY <2>1, SaveIsWrite
  <2>4. QED
    BY <2>1, <2>2, <2>3, BookSaves
<1>7. ASSUME NEW ref, NEW s \in Sids, NEW c \in Callers, CloseBegin(c, ref, s)
      PROVE  BookInv'
  <2> DEFINE x == [Opened(ref, s) EXCEPT !.status = "closed"]
  <2>1. /\ Refers(ref, s) /\ UNCHANGED <<pc, sid>>
        /\ memory' = [memory EXCEPT ![s] = x] /\ disk' = [disk EXCEPT ![s] = x]
    BY <1>7 DEF CloseBegin, taskVars
  <2>2. Opened(ref, s) \in Session
    BY <2>1, OpenedBooks
  <2>3. x \in Session /\ SameBook(x, Opened(ref, s)) /\ Spent(x)
    BY <2>2 DEF Session, Status, SameBook, Spent
  <2> HIDE DEF x
  <2>4. QED
    BY <2>1, <2>3, BookSaves
<1>8. QED
  BY <1>1, <1>2, <1>3, <1>4, <1>5, <1>6, <1>7 DEF Request

-----------------------------------------------------------------------------
\* What the task of a live run has at hand.
LEMMA LiveBook ==
  ASSUME BookInv, TaskInv, MemInv, NEW r \in Runs, Live(r)
  PROVE  /\ sid[r] \in Sids /\ memory[sid[r]] \in Session /\ disk[sid[r]] # None
         /\ SameBook(memory[sid[r]], disk[sid[r]]) /\ Spent(memory[sid[r]])
BY NoneIsNoSession
DEF BookInv, MemoryIsSaved, OneShotsSpent, TaskInv, LiveIsRegistered, MemInv, LiveLoaded

\* The run is recorded.  It was accepted by a session without runs if that is a
\* one-shot session, and no other run can be on its way to the same record.
LEMMA BookRecords ==
  ASSUME BookInv, TaskInv, MemInv, NEW r \in Runs, BeginRun(r) \/ BeginBlank(r)
  PROVE  BookInv'
<1> DEFINE s == sid[r]
           m == memory[s]
           x == [m EXCEPT !.status = "running", !.runs = @ \union {r}]
<1>1. pc[r] = "received" /\ Save(s, x) /\ sid' = sid
  BY DEF BeginRun, BeginBlank, MarkRunning, Step
<1>2. Early(r) /\ Live(r)
  BY <1>1 DEF Early, Live, Suspended, InLock
<1>3. /\ s \in Sids /\ m \in Session /\ disk[s] # None
      /\ SameBook(m, disk[s]) /\ Spent(m)
  BY <1>2, LiveBook
<1>4. /\ x \in Session /\ x.status = "running" /\ x.mode = m.mode /\ x.alias = m.alias
      /\ x.runs = m.runs \union {r}
  BY <1>3 DEF Session, Status
<1>5. m.mode = "one_shot" => m.runs = {}
  BY <1>2, <1>3 DEF BookInv, EarlyIsFirst, SameBook
<1>6. Object(s) = m /\ m # None /\ x # None
  BY <1>3, <1>4, NoneIsNoSession DEF Object
<1> HIDE DEF x
<1>7. /\ memory'[s] = x
      /\ disk'[s] = x \/ (disk'[s] = disk[s] /\ x = m)
      /\ \A y \in Sids : y # s => memory'[y] = memory[y] /\ disk'[y] = disk[y]
  BY <1>1, <1>3, <1>6 DEF Save, MemInv, MemTypes
<1>8. SameBook(x, disk'[s]) /\ disk'[s] # None
  BY <1>3, <1>6, <1>7 DEF SameBook
<1>9. MemoryIsSaved'
  BY <1>7, <1>8 DEF BookInv, MemoryIsSaved
<1>10. Spent(x) /\ (disk'[s] = x \/ disk'[s] = disk[s])
  BY <1>4, <1>7 DEF Spent
<1>11. OneShotsSpent'
  BY <1>7, <1>10 DEF BookInv, OneShotsSpent
<1>12. \A y \in Runs : Early(y)' => Early(y) /\ sid[y] \in Sids /\ sid[y] # s
  <2> SUFFICES ASSUME NEW y \in Runs, Early(y)'
               PROVE  Early(y) /\ sid[y] \in Sids /\ sid[y] # s
    OBVIOUS
  <2>1. y # r
    BY DEF BeginRun, BeginBlank, Step, EndTask, Early, TaskInv, TaskTypes, Ended
  <2>2. Early(y)
    BY <2>1 DEF BeginRun, BeginBlank, Step, EndTask, Early, TaskInv, TaskTypes
  <2>3. QED
    BY <2>1, <2>2, <1>2, EarlyIsLive DEF TaskInv, LiveIsRegistered
<1>13. EarlyIsFirst'
  BY <1>1, <1>7, <1>12 DEF BookInv, EarlyIsFirst
<1>14. disk'[s].alias = disk[s].alias
  BY <1>3, <1>4, <1>7 DEF SameBook
<1>15. AliasesUnique'
  BY <1>3, <1>7, <1>14 DEF BookInv, AliasesUnique
<1>16. disk'[s].mode = "one_shot" => disk'[s].runs = {r}
  BY <1>4, <1>5, <1>8 DEF SameBook
<1>17. OneShotRunsOnce'
  BY <1>7, <1>16 DEF BookInv, OneShotRunsOnce
<1>18. QED
  BY <1>9, <1>11, <1>13, <1>15, <1>17 DEF BookInv

LEMMA BookTask ==
  ASSUME BookInv, TaskInv, MemInv, NEW r \in Runs, TaskStep(r)
  PROVE  BookInv'
<1> DEFINE s == sid[r]
           m == memory[s]
<1>1. MemTypes
  BY DEF MemInv
<1>2. CASE BeginRun(r) \/ BeginBlank(r)
  BY <1>2, BookRecords
<1>3. ASSUME ~(BeginRun(r) \/ BeginBlank(r))
      PROVE  \A y \in Runs : Early(y)' => Early(y) /\ sid'[y] = sid[y] /\ sid[y] \in Sids
  <2>1. sid' = sid
    BY <1>3
    DEF TaskStep, WaitForLock, EnterClosed, EnterWaiting, EnterActive, ReceiveMessage,
        InvokeAgent, FinishAgent, CancelAgent, SwallowCancel, AnnounceEnd,
        SaveMeta, AnnounceCancel, DropAnswer, Unwind, AbortUnprotected, AbortWaiting, Reap
  <2>2. \A y \in Runs : Early(y)' => Early(y)
    BY <1>3
    DEF TaskStep, WaitForLock, EnterClosed, EnterWaiting, EnterActive, ReceiveMessage,
        InvokeAgent, FinishAgent, CancelAgent, SwallowCancel, AnnounceEnd,
        SaveMeta, AnnounceCancel, DropAnswer, Unwind, AbortUnprotected, AbortWaiting, Reap,
        GetsLock, Step, EndTask, Early, Ended, TaskInv, TaskTypes
  <2>3. QED
    BY <2>1, <2>2, EarlyIsLive DEF TaskInv, LiveIsRegistered
<1>4. CASE \/ WaitForLock(r) \/ EnterClosed(r) \/ EnterActive(r) \/ ReceiveMessage(r)
           \/ InvokeAgent(r) \/ FinishAgent(r) \/ CancelAgent(r) \/ SwallowCancel(r)
           \/ Unwind(r) \/ AbortUnprotected(r) \/ AbortWaiting(r) \/ Reap(r)
  <2>1. UNCHANGED <<memory, disk>>
    BY <1>4
    DEF WaitForLock, EnterClosed, EnterActive, ReceiveMessage, InvokeAgent, FinishAgent,
        CancelAgent, SwallowCancel, Unwind, AbortUnprotected, AbortWaiting, Reap
  <2>2. CASE BeginRun(r) \/ BeginBlank(r)
    BY <2>2, <1>2
  <2>3. CASE ~(BeginRun(r) \/ BeginBlank(r))
    <3>1. /\ \A y \in Sids : disk[y] = None => disk'[y] = None /\ memory'[y] = None
          /\ \A y \in Sids : disk[y] # None =>
               disk'[y] # None /\ SameBook(disk'[y], disk[y]) /\ Spent(disk'[y])
          /\ \A y \in Sids : memory'[y] # None => SameBook(memory'[y], disk[y]) /\ Spent(memory'[y])
      BY <2>1 DEF BookInv, MemoryIsSaved, OneShotsSpent, SameBook
    <3>2. QED
      BY <2>3, <3>1, <1>3, BookKeeps
  <2>4. QED
    BY <2>2, <2>3
<1>5. CASE \/ EnterWaiting(r) \/ AnnounceEnd(r) \/ SaveMeta(r) \/ AnnounceCancel(r)
           \/ DropAnswer(r)
  <2>1. Live(r)
    BY <1>5
    DEF EnterWaiting, GetsLock, AnnounceEnd, SaveMeta, AnnounceCancel, DropAnswer, Step,
        Live, Suspended, InLock
  <2>2. s \in Sids /\ m \in Session /\ disk[s] # None /\ SameBook(m, disk[s]) /\ Spent(m)
    BY <2>1, LiveBook
  <2>3. \A x \in {m, Reopened(m), Rested(m)} : x \in Session /\ SameBook(x, m) /\ Spent(x)
    BY <2>2, HelperBooks, HelperTypes DEF SameBook
  <2>4. \E x \in {m, Reopened(m), Rested(m)} :
          /\ memory' \in {memory, [memory EXCEPT ![s] = x]}
          /\ disk' \in {disk, [disk EXCEPT ![s] = x]}
    <3>1. CASE EnterWaiting(r)
      BY <3>1, SaveIsWrite DEF EnterWaiting
    <3>2. CASE AnnounceEnd(r)
      BY <3>2 DEF AnnounceEnd
    <3>3. CASE SaveMeta(r)
      BY <3>3 DEF SaveMeta
    <3>4. CASE AnnounceCancel(r) \/ DropAnswer(r)
      BY <3>4 DEF AnnounceCancel, DropAnswer, RestOnCancel
    <3>5. QED
      BY <1>5, <3>1, <3>2, <3>3, <3>4
  <2>5. PICK x \in {m, Reopened(m), Rested(m)} :
          /\ memory' \in {memory, [memory EXCEPT ![s] = x]}
          /\ disk' \in {disk, [disk EXCEPT ![s] = x]}
    BY <2>4
  <2>6. x \in Session /\ SameBook(x, disk[s]) /\ Spent(x)
    BY <2>2, <2>3 DEF SameBook
  <2>7. CASE BeginRun(r) \/ BeginBlank(r)
    BY <2>7, <1>2
  <2>8. CASE ~(BeginRun(r) \/ BeginBlank(r))
    BY <2>8, <2>2, <2>5, <2>6, <1>1, <1>3, BookWrites
  <2>9. QED
    BY <2>7, <2>8
<1>6. QED
  BY <1>2, <1>4, <1>5 DEF TaskStep

LEMMA BookNext == BookInv /\ MemInv /\ TaskInv /\ DataInv /\ [Next]_vars => BookInv'
<1> SUFFICES ASSUME BookInv, MemInv, TaskInv, DataInv, [Next]_vars
             PROVE  BookInv'
  OBVIOUS
<1>1. MemTypes
  BY DEF MemInv
<1>2. ASSUME UNCHANGED <<memory, disk>>,
             \A r \in Runs : Early(r)' => Early(r) /\ sid'[r] = sid[r] /\ sid[r] \in Sids
      PROVE  BookInv'
  <2>1. /\ \A y \in Sids : disk[y] = None => disk'[y] = None /\ memory'[y] = None
        /\ \A y \in Sids : disk[y] # None =>
             disk'[y] # None /\ SameBook(disk'[y], disk[y]) /\ Spent(disk'[y])
        /\ \A y \in Sids : memory'[y] # None => SameBook(memory'[y], disk[y]) /\ Spent(memory'[y])
    BY <1>2 DEF BookInv, MemoryIsSaved, OneShotsSpent, SameBook
  <2>2. QED
    BY <2>1, <1>2, BookKeeps
<1>3. CASE Request
  BY <1>1, <1>3, BookRequest
<1>4. CASE \E r \in Runs : TaskStep(r)
  BY <1>4, BookTask
<1>5. ASSUME NEW c \in Callers, CallStep(c)
      PROVE  BookInv'
  <2>1. UNCHANGED <<pc, sid>>
    BY <1>5
    DEF CallStep, CancelEnd, CloseWoken, CloseEnd, CompactWoken, CompactEnd, taskVars
  <2>2. \A r \in Runs : Early(r)' => Early(r) /\ sid'[r] = sid[r] /\ sid[r] \in Sids
    BY <2>1, EarlyStays
  <2>3. CASE CloseWoken(c)
    <3> DEFINE s == call[c].on
               x == [memory[s] EXCEPT !.status = "closed"]
    <3>1. s \in Sids /\ memory[s] \in Session
      BY <2>3 DEF CloseWoken, DataInv, Idle, MemInv, WaitLoaded
    <3>2. disk[s] # None /\ SameBook(memory[s], disk[s])
      BY <3>1, NoneIsNoSession DEF BookInv, MemoryIsSaved
    <3>3. x \in Session /\ SameBook(x, disk[s]) /\ Spent(x)
      BY <3>1, <3>2 DEF Session, Status, SameBook, Spent
    <3>4. memory' = [memory EXCEPT ![s] = x] /\ disk' = [disk EXCEPT ![s] = x]
      BY <2>3 DEF CloseWoken
    <3> HIDE DEF x, s
    <3>5. QED
      BY <1>1, <2>2, <3>1, <3>2, <3>3, <3>4, BookWrites
  <2>4. CASE ~CloseWoken(c)
    <3>1. UNCHANGED <<memory, disk>>
      BY <1>5, <2>4 DEF CallStep, CancelEnd, CloseEnd, CompactWoken, CompactEnd
    <3>2. QED
      BY <2>2, <3>1, <1>2
  <2>5. QED
    BY <2>3, <2>4
<1>6. CASE Crash
  <2>1. disk' = disk /\ memory' = [s \in Sids |-> None]
    BY <1>6 DEF Crash
  <2>2. \A r \in Runs : ~Early(r)'
    BY <1>6 DEF Crash, Early, Live, Suspended, InLock
  <2>3. MemoryIsSaved' /\ OneShotsSpent' /\ EarlyIsFirst'
    BY <2>1, <2>2 DEF BookInv, MemoryIsSaved, OneShotsSpent, EarlyIsFirst
  <2>4. AliasesUnique' /\ OneShotRunsOnce'
    BY <2>1 DEF BookInv, AliasesUnique, OneShotRunsOnce
  <2>5. QED
    BY <2>3, <2>4 DEF BookInv
<1>7. CASE UNCHANGED vars
  <2>1. UNCHANGED <<memory, disk, pc, sid>>
    BY <1>7 DEF vars
  <2>2. QED
    BY <2>1, <1>2, EarlyStays
<1>8. QED
  BY <1>3, <1>4, <1>5, <1>6, <1>7 DEF Next

LEMMA BookInvariant == Spec => []BookInv
<1>1. Spec => []MemInv
  BY MemInit, MemNext, TaskInvariant, DataInvariant, PTL DEF Spec
<1>2. QED
  BY <1>1, BookInit, BookNext, TaskInvariant, DataInvariant, PTL DEF Spec

\* Two sessions never have the same alias, in whatever order aliases are given,
\* sessions loaded and unloaded, and the daemon restarted: the search of memory
\* first misses no name that only a file has.
THEOREM AliasesTheorem == Spec => []AliasesUnique
<1>1. BookInv => AliasesUnique
  BY DEF BookInv
<1>2. QED
  BY <1>1, BookInvariant, PTL

\* A one-shot session records at most one run, whatever cancellations, closes and
\* restarts come between the acceptance of a message and the record of its run.
THEOREM OneShotTheorem == Spec => []OneShotRunsOnce
<1>1. BookInv => OneShotRunsOnce
  BY DEF BookInv
<1>2. QED
  BY <1>1, BookInvariant, PTL

-----------------------------------------------------------------------------
(* The thread: a compaction puts back what it read, or leaves it in a      *)
(* backup.                                                                 *)

\* What a compaction has read is what the thread still says.
SeenIsRead ==
  \A c \in Callers : call[c].op = "compact" => call[c].seen = ReadMessages(call[c].on)

Remembers == \A s \in Sids : ReadMessages(s) \subseteq ReadMessages(s)'

\* What NothingLost says of a step.
Survives ==
  \A s \in Sids :
    \/ ReadMessages(s) \subseteq ReadMessages(s)'
    \/ thread'[s] = {} /\ ReadMessages(s) \subseteq backup'[s]

LEMMA SeenInit == Init => SeenIsRead
BY DEF Init, SeenIsRead, Idle

\* Nothing is written that reads differently, and who starts a compaction reads first.
LEMMA SeenRests ==
  ASSUME SeenIsRead, DataInv,
         \A s \in Sids : ReadMessages(s)' = ReadMessages(s),
         \A c \in Callers :
           \/ call'[c] = call[c]
           \/ call'[c].op # "compact"
           \/ call'[c].on \in Sids /\ call'[c].seen = ReadMessages(call'[c].on)
  PROVE  SeenIsRead' /\ Remembers
<1>1. Remembers
  BY DEF Remembers
<1>2. ASSUME NEW c \in Callers, call'[c].op = "compact"
      PROVE  call'[c].seen = thread'[call'[c].on] \ Orphans
  <2>1. CASE call'[c] = call[c]
    <3>1. call[c].on \in Sids
      BY <1>2, <2>1, HoldingCallSid
    <3>2. call[c].seen = thread[call[c].on] \ Orphans
      BY <1>2, <2>1 DEF SeenIsRead, ReadMessages
    <3>3. thread'[call[c].on] \ Orphans = thread[call[c].on] \ Orphans
      BY <3>1 DEF ReadMessages
    <3>4. QED
      BY <2>1, <3>2, <3>3
  <2>2. CASE call'[c].on \in Sids /\ call'[c].seen = ReadMessages(call'[c].on)
    BY <2>2 DEF ReadMessages
  <2>3. QED
    BY <1>2, <2>1, <2>2
<1>3. QED
  BY <1>1, <1>2 DEF SeenIsRead, ReadMessages

\* A run writes to its thread.
LEMMA RunWrites ==
  ASSUME SeenIsRead, DataInv, NEW r \in Runs, sid[r] \in Sids,
         NEW entry, AppendMessages(sid[r], entry) \/ thread' = thread,
         \A c \in Callers : call[c].op = "compact" => call[c].on # sid[r],
         call' = call
  PROVE  SeenIsRead' /\ Remembers
<1>1. /\ \A s \in Sids : thread[s] \subseteq thread'[s]
      /\ \A s \in Sids \ {sid[r]} : thread'[s] = thread[s]
  BY DEF DataInv, AppendMessages
<1>2. ASSUME NEW c \in Callers, call[c].op = "compact"
      PROVE  thread'[call[c].on] = thread[call[c].on]
  BY <1>1, <1>2, HoldingCallSid
<1>3. SeenIsRead'
  BY <1>2 DEF SeenIsRead, ReadMessages
<1>4. Remembers
  BY <1>1 DEF Remembers, ReadMessages
<1>5. QED
  BY <1>3, <1>4

\* A run that writes is past the lock, so no compaction of its session is under way.
LEMMA SeenTask ==
  ASSUME SeenIsRead, LockInv, DataInv, TaskInv, NEW r \in Runs, TaskStep(r)
  PROVE  SeenIsRead' /\ Remembers
<1>1. ASSUME UNCHANGED <<threads, call>>
      PROVE  SeenIsRead' /\ Remembers
  BY <1>1, SeenRests DEF ReadMessages, threads
<1>2. CASE EnterActive(r) \/ ReceiveMessage(r) \/ AnnounceEnd(r) \/ AnnounceCancel(r)
  <2>1. pc[r] \in Suspended
    BY <1>2 DEF EnterActive, ReceiveMessage, AnnounceEnd, AnnounceCancel, GetsLock, Step,
                Suspended, InLock
  <2>2. sid[r] \in Sids
    BY <2>1 DEF TaskInv, LiveIsRegistered, Live
  <2>3. holder[sid[r]] \in {None, r}
    <3>1. CASE EnterActive(r)
      BY <3>1 DEF EnterActive, GetsLock, AcquiresAtOnce, Woken, Locked
    <3>2. CASE ReceiveMessage(r) \/ AnnounceEnd(r) \/ AnnounceCancel(r)
      <4>1. pc[r] \in InLock
        BY <3>2 DEF ReceiveMessage, AnnounceEnd, AnnounceCancel, Step, InLock
      <4>2. QED
        BY <4>1 DEF LockInv, RunHolds
    <3>3. QED
      BY <1>2, <3>1, <3>2
  <2>4. \A c \in Callers : call[c].op = "compact" => call[c].on # sid[r]
    BY <2>3, NoneAssumption, NamesAssumption DEF LockInv, CallHolds
  <2>5. /\ call' = call
        /\ \E entry \in Entries : AppendMessages(sid[r], entry) \/ thread' = thread
    BY <1>2 DEF EnterActive, ReceiveMessage, AnnounceEnd, AnnounceCancel, SaveAnswer, Entries
  <2>6. QED
    BY <2>2, <2>4, <2>5, RunWrites
<1>3. CASE ~(EnterActive(r) \/ ReceiveMessage(r) \/ AnnounceEnd(r) \/ AnnounceCancel(r))
  <2>1. UNCHANGED <<threads, call>>
    BY <1>3
    DEF TaskStep, WaitForLock, EnterClosed, EnterWaiting, BeginRun, BeginBlank, InvokeAgent,
        FinishAgent, CancelAgent, SwallowCancel, SaveMeta, DropAnswer, Unwind,
        AbortUnprotected, AbortWaiting, Reap
  <2>2. QED
    BY <1>1, <2>1
<1>4. QED
  BY <1>2, <1>3

\* A compaction of c writes: the summary is that of all the thread says at that
\* moment, and a write that is broken off leaves it in the backup.  Nobody else is
\* compacting the session.
LEMMA SeenWritten ==
  ASSUME SeenIsRead, LockInv, DataInv, NEW c \in Callers,
         call[c].op = "compact", WriteCompacted(call[c].on, call[c].seen)
  PROVE  /\ Survives
         /\ \A d \in Callers \ {c} : call[d].op = "compact" =>
              call[d].on \in Sids /\ call[d].seen = thread'[call[d].on] \ Orphans
<1> DEFINE s == call[c].on
<1>1. s \in Sids /\ call[c].seen = thread[s] \ Orphans
  BY HoldingCallSid DEF SeenIsRead, ReadMessages
<1>2. /\ thread'[s] \in {thread[s] \ Orphans, {}}
      /\ backup'[s] = thread[s] \/ thread[s] = {}
      /\ \A y \in Sids \ {s} : thread'[y] = thread[y]
  BY <1>1 DEF WriteCompacted, DataInv
<1>3. Survives
  BY <1>2 DEF Survives, ReadMessages
<1>4. ASSUME NEW d \in Callers \ {c}, call[d].op = "compact"
      PROVE  call[d].on \in Sids /\ call[d].seen = thread'[call[d].on] \ Orphans
  <2>1. holder[s] = c /\ holder[call[d].on] = d
    BY <1>4 DEF LockInv, CallHolds
  <2>2. call[d].on \in Sids \ {s}
    BY <1>4, <2>1, HoldingCallSid
  <2>3. call[d].seen = thread[call[d].on] \ Orphans
    BY <1>4 DEF SeenIsRead, ReadMessages
  <2>4. QED
    BY <1>2, <2>2, <2>3
<1>5. QED
  BY <1>3, <1>4

LEMMA SeenCall ==
  ASSUME SeenIsRead, LockInv, DataInv, NEW c \in Callers, CallStep(c)
  PROVE  SeenIsRead' /\ Survives
<1> USE DEF threads
<1>r. Remembers => Survives
  BY DEF Remembers, Survives
<1>1. CASE CompactEnd(c)
  <2>1. call[c].op = "compact" /\ call' = [call EXCEPT ![c] = Idle]
    BY <1>1 DEF CompactEnd
  <2>2. call'[c].op # "compact" /\ \A d \in Callers \ {c} : call'[d] = call[d]
    BY <2>1 DEF DataInv, Idle
  <2>3. CASE WriteCompacted(call[c].on, call[c].seen)
    <3>1. /\ Survives
          /\ \A d \in Callers \ {c} : call[d].op = "compact" =>
               call[d].seen = thread'[call[d].on] \ Orphans
      BY <2>1, <2>3, SeenWritten
    <3>2. SeenIsRead'
      BY <2>2, <3>1 DEF SeenIsRead, ReadMessages
    <3>3. QED
      BY <3>1, <3>2
  <2>4. CASE UNCHANGED threads
    BY <2>2, <2>4, <1>r, SeenRests DEF ReadMessages
  <2>5. QED
    BY <1>1, <2>3, <2>4 DEF CompactEnd
<1>2. CASE CompactWoken(c)
  <2> DEFINE s == call[c].on
  <2>1. s \in Sids /\ thread' = thread
    BY <1>2 DEF CompactWoken, DataInv, Idle
  <2>2. call' = [call EXCEPT ![c].op = "compact", ![c].seen = ReadMessages(s)]
    BY <1>2 DEF CompactWoken
  <2>3. call'[c].on = s /\ call'[c].seen = ReadMessages(s)
    BY <2>2 DEF DataInv, Call
  <2>4. \A d \in Callers : d # c => call'[d] = call[d]
    BY <2>2 DEF DataInv
  <2>5. \A y \in Sids : ReadMessages(y)' = ReadMessages(y)
    BY <2>1 DEF ReadMessages
  <2>6. QED
    BY <2>1, <2>3, <2>4, <2>5, <1>r, SeenRests
<1>3. CASE CancelEnd(c) \/ CloseWoken(c) \/ CloseEnd(c)
  <2>1. /\ thread' = thread
        /\ \A d \in Callers : call'[d] = call[d] \/ call'[d].op # "compact"
    BY <1>3 DEF CancelEnd, CloseWoken, CloseEnd, DataInv, Call, Idle, taskVars, lockVars
  <2>2. QED
    BY <2>1, <1>r, SeenRests DEF ReadMessages
<1>4. QED
  BY <1>1, <1>2, <1>3 DEF CallStep

LEMMA SeenRequest ==
  ASSUME SeenIsRead, DataInv, Request
  PROVE  SeenIsRead' /\ Remembers
<1>1. CASE \/ \E s \in Sids, mode \in Modes : Create(s, mode)
           \/ ListSessions
           \/ \E s \in Sids, alias \in Aliases : SetAlias(s, alias)
           \/ \E ref \in Sids \union Aliases, s \in Sids :
                \/ GetHistory(ref, s) \/ Resume(ref, s) \/ RefuseMessage(ref, s)
                \/ \E r \in Runs, kind \in Contents : SendMessage(ref, s, r, kind)
  <2>1. thread' = thread /\ call' = call
    BY <1>1
    DEF Create, ListSessions, SetAlias, GetHistory, Resume, RefuseMessage, SendMessage, threads
  <2>2. QED
    BY <2>1, SeenRests DEF ReadMessages
<1>2. ASSUME NEW ref \in Sids \union Aliases, NEW s \in Sids, NEW c \in Callers,
             \/ CancelBegin(c, ref, s) \/ CloseQueued(c, ref, s) \/ CloseBegin(c, ref, s)
             \/ CompactQueued(c, ref, s) \/ CompactBegin(c, ref, s)
      PROVE  SeenIsRead' /\ Remembers
  <2>1. thread' = thread
    BY <1>2
    DEF CancelBegin, CloseQueued, CloseBegin, CompactQueued, CompactBegin, Queue, threads
  <2>2. /\ \A d \in Callers : d # c => call'[d] = call[d]
        /\ \/ call'[c].op # "compact"
           \/ call'[c].on \in Sids /\ call'[c].seen = ReadMessages(call'[c].on)
    <3>1. CASE CompactBegin(c, ref, s)
      BY <3>1 DEF CompactBegin, Idle, DataInv
    <3>2. CASE CancelBegin(c, ref, s)
      BY <3>2 DEF CancelBegin, Idle, DataInv
    <3>3. CASE CloseBegin(c, ref, s)
      BY <3>3 DEF CloseBegin, Idle, DataInv
    <3>4. CASE CloseQueued(c, ref, s)
      BY <3>4 DEF CloseQueued, Queue, Idle, DataInv
    <3>5. CASE CompactQueued(c, ref, s)
      BY <3>5 DEF CompactQueued, Queue, Idle, DataInv
    <3>6. QED
      BY <1>2, <3>1, <3>2, <3>3, <3>4, <3>5
  <2>3. \A y \in Sids : ReadMessages(y)' = ReadMessages(y)
    BY <2>1 DEF ReadMessages
  <2>4. QED
    BY <2>2, <2>3, SeenRests
<1>3. QED
  BY <1>1, <1>2 DEF Request

LEMMA SeenNext ==
  SeenIsRead /\ LockInv /\ DataInv /\ TaskInv /\ [Next]_vars
    => SeenIsRead' /\ [Survives]_vars
<1> SUFFICES ASSUME SeenIsRead, LockInv, DataInv, TaskInv, Next
             PROVE  SeenIsRead' /\ Survives
  BY DEF vars, SeenIsRead, ReadMessages
<1>r. Remembers => Survives
  BY DEF Remembers, Survives
<1>1. CASE Crash
  <2>1. SeenIsRead'
    BY <1>1 DEF Crash, SeenIsRead, Idle
  <2>2. CASE UNCHANGED threads
    BY <2>1, <2>2 DEF Survives, ReadMessages, threads
  <2>3. CASE \E c \in Callers :
               call[c].op = "compact" /\ WriteCompacted(call[c].on, call[c].seen)
    BY <2>1, <2>3, SeenWritten
  <2>4. QED
    BY <1>1, <2>1, <2>2, <2>3 DEF Crash
<1>2. QED
  BY <1>1, <1>r, SeenRequest, SeenTask, SeenCall DEF Next

\* Nothing a run could have recalled is lost: runs and compactions of a session
\* exclude each other, so the summary a compaction writes is that of all the thread
\* says at that moment, and where an error or a crash breaks the write off, all of it
\* is in the backup the compaction has made first.
THEOREM LostTheorem == Spec => NothingLost
<1>1. SeenIsRead /\ LockInv /\ DataInv /\ TaskInv /\ [Next]_vars
        => /\ SeenIsRead'
           /\ [\A s \in Sids :
                 \/ ReadMessages(s) \subseteq ReadMessages(s)'
                 \/ thread'[s] = {} /\ ReadMessages(s) \subseteq backup'[s]]_vars
  BY SeenNext DEF Survives
<1>2. QED
  BY <1>1, SeenInit, LockInvariant, DataInvariant, TaskInvariant, PTL DEF Spec, NothingLost

=============================================================================
