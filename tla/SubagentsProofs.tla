-------------------------- MODULE SubagentsProofs ---------------------------
(***************************************************************************)
(* Proofs about Subagents, for any number of agents and cancellations:     *)
(* type correctness, that foreground subagents nest in the calls of their  *)
(* parents, and that a completed background subagent has left nothing at   *)
(* work.                                                                   *)
(***************************************************************************)
EXTENDS Subagents, TLAPS

\* Who has not been created has no state, and who has been keeps one.
UnbornAreBlank ==
  \A a \in Agents :
    IF a > born
    THEN stage[a] = "unborn" /\ mode[a] = "run" /\ parent[a] = None /\ call[a] = None
    ELSE stage[a] # "unborn"

\* A subagent was created by an agent that exists.
ParentsExist == \A a \in Agents : mode[a] # "run" => parent[a] \in 1..born

\* A wait is for a foreground subagent of one's own.
CallsAreOwn ==
  \A a \in Agents : stage[a] \in Waiting =>
    /\ call[a] \in 1..born
    /\ parent[call[a]] = a
    /\ mode[call[a]] = "fg"

\* A wait whose subagent has been cancelled says so.
CancelledAreStopped ==
  \A a \in Agents : stage[a] \in {"expired", "stopping"} => stopped[call[a]]

\* Only a background subagent that is over has been told to be completed.
ToldAreOver ==
  \A c \in Agents : told[c] = "completed" =>
    mode[c] = "bg" /\ stage[c] \in {"succeeded", "failed"}

\* A call that waits to be tried again has an attempt left.
BackoffIsEarly == \A a \in Agents : stage[a] = "backoff" => attempt[a] < MaxAttempts

IInv ==
  /\ TypeOK
  /\ UnbornAreBlank
  /\ ParentsExist
  /\ CallsAreOwn
  /\ CancelledAreStopped
  /\ ForegroundNests
  /\ ToldAreOver
  /\ BackoffIsEarly

-----------------------------------------------------------------------------
LEMMA AgentFacts ==
  ASSUME TypeOK
  PROVE  /\ born \in Nat
         /\ \A n \in 1..born : n \in Agents
         /\ \A a \in Agents : a \in Nat \ {None} /\ (a > born \/ a \in 1..born)
BY SubagentAssumption DEF TypeOK, Agents, None

LEMMA InitInv == Init => IInv
BY SubagentAssumption
DEF Init, IInv, TypeOK, Agents, None, MaxAttempts, Stages, Waiting, Over, Answers, UnbornAreBlank,
    ParentsExist, CallsAreOwn, CancelledAreStopped, ForegroundNests, InCall, Alive, ToldAreOver,
    BackoffIsEarly

-----------------------------------------------------------------------------
(* One agent goes on.                                                      *)

\* An agent that waits for no subagent ends, or goes on after a pause.
LEMMA StageMoves ==
  ASSUME IInv, NEW a \in Agents, NEW next \in {"thinking", "succeeded", "failed"},
         stage[a] \in {"thinking", "backoff"},
         stage' = [stage EXCEPT ![a] = next],
         UNCHANGED <<born, parent, mode, call, attempt, cancel, stopped, told, cancels>>
  PROVE  IInv'
<1>1. /\ TypeOK /\ UnbornAreBlank /\ ParentsExist /\ CallsAreOwn
      /\ CancelledAreStopped /\ ForegroundNests /\ ToldAreOver /\ BackoffIsEarly
  BY DEF IInv
<1>3. TypeOK'
  BY <1>1 DEF TypeOK, Stages, Over
<1>4. UnbornAreBlank'
  BY <1>1 DEF TypeOK, UnbornAreBlank
<1>5. ParentsExist'
  BY <1>1 DEF ParentsExist
<1>6. CallsAreOwn'
  BY <1>1 DEF TypeOK, CallsAreOwn, Waiting
<1>7. CancelledAreStopped'
  BY <1>1 DEF TypeOK, CancelledAreStopped
<1>8. ForegroundNests'
  BY <1>1, AgentFacts DEF TypeOK, ForegroundNests, InCall, Alive, Over, Waiting, ParentsExist
<1>9. ToldAreOver'
  BY <1>1 DEF TypeOK, ToldAreOver
<1>10. BackoffIsEarly'
  BY <1>1 DEF TypeOK, BackoffIsEarly, MaxAttempts
<1>11. QED
  BY <1>3, <1>4, <1>5, <1>6, <1>7, <1>8, <1>9, <1>10 DEF IInv

\* The call of an agent is over, if it had one: its subagent has ended, or has been
\* cancelled and so is the agent.
LEMMA CallEnds ==
  ASSUME IInv, NEW a \in Agents, NEW next \in {"thinking", "backoff", "cancelled"},
         Alive(a),
         stage[a] \in Waiting =>
           stage[call[a]] \in Over \/ (next = "cancelled" /\ stopped[call[a]]),
         next = "backoff" => attempt[a] < MaxAttempts,
         CallOver(a, next),
         cancel' \in [Agents -> BOOLEAN],
         UNCHANGED <<born, parent, mode, attempt, stopped, told, cancels>>
  PROVE  IInv'
<1>1. /\ TypeOK /\ UnbornAreBlank /\ ParentsExist /\ CallsAreOwn
      /\ CancelledAreStopped /\ ForegroundNests /\ ToldAreOver /\ BackoffIsEarly
  BY DEF IInv
<1>2. /\ stage' = [stage EXCEPT ![a] = next]
      /\ call' = [call EXCEPT ![a] = None]
  BY DEF CallOver
<1>3. TypeOK'
  BY <1>1, <1>2, SubagentAssumption DEF TypeOK, Stages, Over, None
<1>4. UnbornAreBlank'
  BY <1>1, <1>2 DEF TypeOK, UnbornAreBlank, Alive
<1>5. ParentsExist'
  BY <1>1 DEF ParentsExist
<1>6. CallsAreOwn'
  BY <1>1, <1>2 DEF TypeOK, CallsAreOwn, Waiting
<1>7. CancelledAreStopped'
  BY <1>1, <1>2 DEF TypeOK, CancelledAreStopped
<1>8. ForegroundNests'
  BY <1>1, <1>2, AgentFacts DEF TypeOK, ForegroundNests, InCall, Alive, Over, Waiting, ParentsExist
<1>9. ToldAreOver'
  BY <1>1, <1>2 DEF TypeOK, ToldAreOver, Alive, Over
<1>10. BackoffIsEarly'
  BY <1>1, <1>2 DEF TypeOK, BackoffIsEarly, MaxAttempts
<1>11. QED
  BY <1>3, <1>4, <1>5, <1>6, <1>7, <1>8, <1>9, <1>10 DEF IInv

LEMMA CallReturnsInv ==
  ASSUME IInv, NEW a \in Agents, stage[a] \in Waiting, stage[call[a]] \in Over,
         CallReturns(a),
         cancel' \in [Agents -> BOOLEAN],
         UNCHANGED <<born, parent, mode, attempt, stopped, told, cancels>>
  PROVE  IInv'
<1>1. PICK next \in {"thinking", "backoff"} :
        CallOver(a, next) /\ (next = "backoff" => attempt[a] < MaxAttempts)
  BY DEF CallReturns
<1>2. Alive(a)
  BY DEF Alive, Waiting, Over
<1>3. QED
  BY <1>1, <1>2, CallEnds

\* The subagent an agent waits for is cancelled, because of its time or of its parent.
LEMMA CallStops ==
  ASSUME IInv, NEW a \in Agents, NEW next \in {"expired", "stopping"},
         stage[a] = "calling",
         stage' = [stage EXCEPT ![a] = next],
         stopped' = [stopped EXCEPT ![call[a]] = TRUE],
         cancel' \in [Agents -> BOOLEAN],
         UNCHANGED <<born, parent, mode, call, attempt, told, cancels>>
  PROVE  IInv'
<1>1. /\ TypeOK /\ UnbornAreBlank /\ ParentsExist /\ CallsAreOwn
      /\ CancelledAreStopped /\ ForegroundNests /\ ToldAreOver /\ BackoffIsEarly
  BY DEF IInv
<1>2. call[a] \in Agents
  BY <1>1, AgentFacts DEF CallsAreOwn, Waiting
<1>3. TypeOK'
  BY <1>1 DEF TypeOK, Stages, Waiting
<1>4. UnbornAreBlank'
  BY <1>1 DEF TypeOK, UnbornAreBlank
<1>5. ParentsExist'
  BY <1>1 DEF ParentsExist
<1>6. CallsAreOwn'
  BY <1>1 DEF TypeOK, CallsAreOwn, Waiting
<1>7. CancelledAreStopped'
  BY <1>1, <1>2 DEF TypeOK, CancelledAreStopped
<1>8. ForegroundNests'
  BY <1>1, <1>2, AgentFacts DEF TypeOK, ForegroundNests, InCall, Alive, Over, Waiting, ParentsExist
<1>9. ToldAreOver'
  BY <1>1 DEF TypeOK, ToldAreOver
<1>10. BackoffIsEarly'
  BY <1>1 DEF TypeOK, BackoffIsEarly, MaxAttempts
<1>11. QED
  BY <1>3, <1>4, <1>5, <1>6, <1>7, <1>8, <1>9, <1>10 DEF IInv

-----------------------------------------------------------------------------
(* An agent is created.                                                    *)

LEMMA NewIsFresh ==
  ASSUME IInv, Left
  PROVE  /\ New \in Agents /\ New > born /\ New \notin 1..born
         /\ stage[New] = "unborn"
         /\ \A a \in Agents : mode[a] # "run" => parent[a] # New
         /\ \A a \in Agents : stage[a] \in Waiting => call[a] # New /\ a # New
<1>1. TypeOK /\ UnbornAreBlank /\ ParentsExist /\ CallsAreOwn
  BY DEF IInv
<1>2. New \in Agents /\ New > born /\ New \notin 1..born
  BY <1>1, SubagentAssumption DEF TypeOK, Left, New, Agents
<1>3. stage[New] = "unborn"
  BY <1>1, <1>2 DEF UnbornAreBlank
<1>4. QED
  BY <1>1, <1>2, <1>3 DEF ParentsExist, CallsAreOwn, Waiting

\* A run, or a background subagent, that nobody waits for.
LEMMA CreatesFree ==
  ASSUME IInv, NEW p \in 0..MaxAgents, NEW m \in {"run", "bg"},
         m = "bg" => p \in 1..born,
         Create(p, m),
         stage' = [stage EXCEPT ![New] = "thinking"],
         UNCHANGED <<call, attempt, cancel, stopped, told, cancels>>
  PROVE  IInv'
<1>1. /\ TypeOK /\ UnbornAreBlank /\ ParentsExist /\ CallsAreOwn
      /\ CancelledAreStopped /\ ForegroundNests /\ ToldAreOver /\ BackoffIsEarly
  BY DEF IInv
<1>2. /\ Left
      /\ born' = New
      /\ parent' = [parent EXCEPT ![New] = p]
      /\ mode' = [mode EXCEPT ![New] = m]
  BY DEF Create
<1>a. /\ New \in Agents /\ New > born /\ New \notin 1..born
      /\ stage[New] = "unborn"
      /\ \A a \in Agents : mode[a] # "run" => parent[a] # New
      /\ \A a \in Agents : stage[a] \in Waiting => call[a] # New /\ a # New
  BY <1>2, NewIsFresh
<1>b. born \in Nat /\ New = born + 1 /\ New \in 0..MaxAgents
  BY <1>1, <1>2, SubagentAssumption DEF TypeOK, New, Left
<1>c. \A a \in Agents : a \in Nat /\ (a \in 1..born => a \in 1..New)
  BY <1>1, <1>b, AgentFacts
<1>3. TypeOK'
  BY <1>1, <1>2, <1>a, <1>b DEF TypeOK, Stages
<1>4. UnbornAreBlank'
  BY <1>1, <1>2, <1>a, <1>b, <1>c DEF TypeOK, UnbornAreBlank
<1>5. ParentsExist'
  BY <1>1, <1>2, <1>a, <1>b, <1>c DEF TypeOK, ParentsExist
<1>6. CallsAreOwn'
  BY <1>1, <1>2, <1>a, <1>b, <1>c, AgentFacts DEF TypeOK, CallsAreOwn, Waiting
<1>7. CancelledAreStopped'
  BY <1>1, <1>a DEF TypeOK, CancelledAreStopped
<1>8. ForegroundNests'
  BY <1>1, <1>2, <1>a, AgentFacts DEF TypeOK, ForegroundNests, InCall, Alive, Over, Waiting, ParentsExist
<1>9. ToldAreOver'
  BY <1>1, <1>2, <1>a DEF TypeOK, ToldAreOver
<1>10. BackoffIsEarly'
  BY <1>1, <1>2, <1>a DEF TypeOK, BackoffIsEarly, MaxAttempts
<1>11. QED
  BY <1>3, <1>4, <1>5, <1>6, <1>7, <1>8, <1>9, <1>10 DEF IInv

\* A foreground subagent, in the call of an agent that waits for no other.
LEMMA CreatesForeground ==
  ASSUME IInv, NEW a \in Agents, NEW n \in 0..MaxAttempts,
         stage[a] \in {"thinking", "backoff"},
         Foreground(a, n)
  PROVE  IInv'
<1>1. /\ TypeOK /\ UnbornAreBlank /\ ParentsExist /\ CallsAreOwn
      /\ CancelledAreStopped /\ ForegroundNests /\ ToldAreOver /\ BackoffIsEarly
  BY DEF IInv
<1>2. /\ Left
      /\ born' = New
      /\ parent' = [parent EXCEPT ![New] = a]
      /\ mode' = [mode EXCEPT ![New] = "fg"]
      /\ stage' = [stage EXCEPT ![a] = "calling", ![New] = "thinking"]
      /\ call' = [call EXCEPT ![a] = New]
      /\ attempt' = [attempt EXCEPT ![a] = n]
      /\ UNCHANGED <<cancel, stopped, told, cancels>>
  BY DEF Create, Foreground
<1>a. /\ New \in Agents /\ New > born /\ New \notin 1..born
      /\ stage[New] = "unborn"
      /\ \A x \in Agents : mode[x] # "run" => parent[x] # New
      /\ \A x \in Agents : stage[x] \in Waiting => call[x] # New /\ x # New
  BY <1>2, NewIsFresh
<1>b. born \in Nat /\ New = born + 1 /\ New \in 0..MaxAgents
  BY <1>1, <1>2, SubagentAssumption DEF TypeOK, New, Left
<1>c. \A x \in Agents : x \in Nat /\ (x \in 1..born => x \in 1..New)
  BY <1>1, <1>b, AgentFacts
<1>d. a # New /\ a \in 1..born /\ New \in 1..New /\ a \in 0..MaxAgents
  BY <1>1, <1>a, <1>b, AgentFacts, SubagentAssumption DEF UnbornAreBlank, Agents
<1>3. TypeOK'
  BY <1>1, <1>2, <1>a, <1>b, <1>d DEF TypeOK, Stages, Waiting
<1>4. UnbornAreBlank'
  BY <1>1, <1>2, <1>a, <1>b, <1>c, <1>d DEF TypeOK, UnbornAreBlank
<1>5. ParentsExist'
  BY <1>1, <1>2, <1>a, <1>b, <1>c, <1>d DEF TypeOK, ParentsExist
<1>6. CallsAreOwn'
  BY <1>1, <1>2, <1>a, <1>b, <1>c, <1>d, AgentFacts DEF TypeOK, CallsAreOwn, Waiting
<1>7. CancelledAreStopped'
  BY <1>1, <1>2, <1>a, <1>d DEF TypeOK, CancelledAreStopped, Waiting
<1>8. ForegroundNests'
  BY <1>1, <1>2, <1>a, <1>d, AgentFacts DEF TypeOK, ForegroundNests, InCall, Alive, Over, Waiting, ParentsExist
<1>9. ToldAreOver'
  BY <1>1, <1>2, <1>a, <1>d DEF TypeOK, ToldAreOver
<1>10. BackoffIsEarly'
  BY <1>1, <1>2, <1>a, <1>d DEF TypeOK, BackoffIsEarly, MaxAttempts
<1>11. QED
  BY <1>3, <1>4, <1>5, <1>6, <1>7, <1>8, <1>9, <1>10 DEF IInv

-----------------------------------------------------------------------------
LEMMA RunStartsInv == IInv /\ RunStarts => IInv'
<1>1. ASSUME IInv, RunStarts PROVE IInv'
  <2>1. /\ Create(None, "run")
        /\ stage' = [stage EXCEPT ![New] = "thinking"]
        /\ UNCHANGED <<call, attempt, cancel, stopped, told, cancels>>
    BY <1>1 DEF RunStarts
  <2>2. None \in 0..MaxAgents
    BY SubagentAssumption DEF None
  <2>3. QED
    BY <1>1, <2>1, <2>2, CreatesFree
<1>2. QED
  BY <1>1

LEMMA SpawnBackgroundInv ==
  ASSUME IInv, NEW a \in Agents, SpawnBackground(a)
  PROVE  IInv'
<1>1. /\ stage[a] = "thinking"
      /\ Create(a, "bg")
      /\ stage' = [stage EXCEPT ![New] = "thinking"]
      /\ UNCHANGED <<call, attempt, cancel, stopped, told, cancels>>
  BY DEF SpawnBackground
<1>2. a \in 1..born /\ a \in 0..MaxAgents
  BY <1>1, AgentFacts, SubagentAssumption DEF IInv, UnbornAreBlank, Agents
<1>3. QED
  BY <1>1, <1>2, CreatesFree

LEMMA SpawnInv ==
  ASSUME IInv, NEW a \in Agents, Spawn(a)
  PROVE  IInv'
BY CreatesForeground DEF Spawn, MaxAttempts

LEMMA EndsInv ==
  ASSUME IInv, NEW a \in Agents, NEW how \in {"succeeded", "failed"}, Ends(a, how)
  PROVE  IInv'
BY StageMoves DEF Ends

LEMMA ReturnedInv ==
  ASSUME IInv, NEW a \in Agents, Returned(a)
  PROVE  IInv'
<1>1. /\ stage[a] \in Waiting /\ stage[call[a]] \in Over
      /\ CallReturns(a)
      /\ UNCHANGED <<born, parent, mode, attempt, cancel, stopped, told, cancels>>
  BY DEF Returned, Waiting
<1>2. cancel' \in [Agents -> BOOLEAN]
  BY <1>1 DEF IInv, TypeOK
<1>3. QED
  BY <1>1, <1>2, CallReturnsInv

LEMMA RetryInv ==
  ASSUME IInv, NEW a \in Agents, Retry(a)
  PROVE  IInv'
<1>1. CASE Left
  <2>1. stage[a] = "backoff" /\ Foreground(a, attempt[a] + 1)
    BY <1>1 DEF Retry
  <2>2. attempt[a] + 1 \in 0..MaxAttempts
    BY <2>1 DEF IInv, TypeOK, BackoffIsEarly, MaxAttempts
  <2>3. QED
    BY <2>1, <2>2, CreatesForeground
<1>2. CASE ~Left
  BY <1>2, StageMoves DEF Retry
<1>3. QED
  BY <1>1, <1>2

LEMMA ExpiredInv ==
  ASSUME IInv, NEW a \in Agents, Expired(a)
  PROVE  IInv'
<1>1. cancel' \in [Agents -> BOOLEAN]
  BY DEF Expired, Cancel, IInv, TypeOK
<1>2. QED
  BY <1>1, CallStops DEF Expired, Cancel

\* The run is cancelled by the user: only the marks change.
LEMMA CancelRunInv ==
  ASSUME IInv, NEW a \in Agents, CancelRun(a)
  PROVE  IInv'
<1>1. /\ TypeOK /\ UnbornAreBlank /\ ParentsExist /\ CallsAreOwn
      /\ CancelledAreStopped /\ ForegroundNests /\ ToldAreOver /\ BackoffIsEarly
  BY DEF IInv
<1>2. /\ cancels < MaxCancels /\ cancels' = cancels + 1
      /\ cancel' = [cancel EXCEPT ![a] = TRUE]
      /\ stopped' = [stopped EXCEPT ![a] = TRUE]
      /\ UNCHANGED <<born, parent, mode, stage, call, attempt, told>>
  BY DEF CancelRun, Cancel
<1>3. TypeOK'
  BY <1>1, <1>2, SubagentAssumption DEF TypeOK
<1>4. UnbornAreBlank' /\ ParentsExist' /\ CallsAreOwn' /\ ToldAreOver' /\ BackoffIsEarly'
  BY <1>1, <1>2 DEF UnbornAreBlank, ParentsExist, CallsAreOwn, ToldAreOver, BackoffIsEarly
<1>5. \A x \in Agents : stopped[x] => stopped'[x]
  BY <1>1, <1>2 DEF TypeOK
<1>6. CancelledAreStopped'
  BY <1>1, <1>2, <1>5, AgentFacts DEF CancelledAreStopped, CallsAreOwn, Waiting
<1>7. ForegroundNests'
  BY <1>1, <1>2, <1>5 DEF ForegroundNests, InCall, Alive
<1>8. QED
  BY <1>3, <1>4, <1>6, <1>7 DEF IInv

LEMMA CancelledNowInv ==
  ASSUME IInv, NEW a \in Agents, CancelledNow(a)
  PROVE  IInv'
<1>1. /\ Alive(a) /\ stage[a] # "calling"
      /\ CallOver(a, "cancelled")
      /\ cancel' = [cancel EXCEPT ![a] = FALSE]
      /\ UNCHANGED <<born, parent, mode, attempt, stopped, told, cancels>>
  BY DEF CancelledNow, Arrives
<1>2. cancel' \in [Agents -> BOOLEAN]
  BY <1>1 DEF IInv, TypeOK
<1>3. stage[a] \in Waiting => stopped[call[a]]
  BY <1>1 DEF IInv, CancelledAreStopped, Waiting
<1>4. QED
  BY <1>1, <1>2, <1>3, CallEnds

LEMMA CancelledCallInv ==
  ASSUME IInv, NEW a \in Agents, CancelledCall(a)
  PROVE  IInv'
<1>1. /\ stage[a] = "calling"
      /\ UNCHANGED <<born, parent, mode, attempt, told, cancels>>
  BY DEF CancelledCall
<1>2. CASE stage[call[a]] \in Over
  <2>1. /\ CallReturns(a)
        /\ cancel' = [cancel EXCEPT ![a] = FALSE]
        /\ stopped' = stopped
    BY <1>2 DEF CancelledCall
  <2>2. cancel' \in [Agents -> BOOLEAN]
    BY <2>1 DEF IInv, TypeOK
  <2>3. QED
    BY <1>1, <1>2, <2>1, <2>2, CallReturnsInv DEF Waiting
<1>3. CASE stage[call[a]] \notin Over
  <2>1. /\ cancel' = [cancel EXCEPT ![a] = FALSE, ![call[a]] = TRUE]
        /\ stopped' = [stopped EXCEPT ![call[a]] = TRUE]
        /\ stage' = [stage EXCEPT ![a] = "stopping"]
        /\ call' = call
    BY <1>3 DEF CancelledCall
  <2>2. cancel' \in [Agents -> BOOLEAN]
    BY <2>1 DEF IInv, TypeOK
  <2>3. QED
    BY <1>1, <2>1, <2>2, CallStops
<1>4. QED
  BY <1>2, <1>3

LEMMA StopReturnsInv ==
  ASSUME IInv, NEW a \in Agents, StopReturns(a)
  PROVE  IInv'
<1>1. /\ stage[a] = "stopping" /\ stage[call[a]] \in Over
      /\ CallOver(a, "cancelled")
      /\ UNCHANGED <<born, parent, mode, attempt, cancel, stopped, told, cancels>>
  BY DEF StopReturns
<1>2. Alive(a)
  BY <1>1 DEF Alive, Over
<1>3. cancel' \in [Agents -> BOOLEAN]
  BY <1>1 DEF IInv, TypeOK
<1>4. QED
  BY <1>1, <1>2, <1>3, CallEnds

\* "completed" is said only of a subagent that is over and was not cancelled.
LEMMA AskResultInv ==
  ASSUME IInv, NEW a \in Agents, NEW c \in Agents, AskResult(a, c)
  PROVE  IInv'
<1>1. /\ TypeOK /\ UnbornAreBlank /\ ParentsExist /\ CallsAreOwn
      /\ CancelledAreStopped /\ ForegroundNests /\ ToldAreOver /\ BackoffIsEarly
  BY DEF IInv
<1>2. /\ mode[c] = "bg"
      /\ told' = [told EXCEPT ![c] = Answer(a, c)]
      /\ UNCHANGED <<born, parent, mode, stage, call, attempt, cancel, stopped, cancels>>
  BY DEF AskResult
<1>3. Answer(a, c) \in Answers
  BY DEF Answer, Answers
<1>4. Answer(a, c) = "completed" => stage[c] \in {"succeeded", "failed"}
  <2>1. stage[c] # "unborn"
    BY <1>1, <1>2, AgentFacts DEF UnbornAreBlank
  <2>2. QED
    BY <2>1 DEF Answer, Alive, Over
<1>5. TypeOK'
  BY <1>1, <1>2, <1>3 DEF TypeOK
<1>6. /\ UnbornAreBlank' /\ ParentsExist' /\ CallsAreOwn'
      /\ CancelledAreStopped' /\ ForegroundNests' /\ BackoffIsEarly'
  BY <1>1, <1>2
  DEF UnbornAreBlank, ParentsExist, CallsAreOwn, CancelledAreStopped, ForegroundNests,
      InCall, Alive, BackoffIsEarly
<1>7. ToldAreOver'
  BY <1>1, <1>2, <1>4 DEF TypeOK, ToldAreOver
<1>8. QED
  BY <1>5, <1>6, <1>7 DEF IInv

-----------------------------------------------------------------------------
LEMMA NextInv == IInv /\ [Next]_vars => IInv'
<1> SUFFICES ASSUME IInv, [Next]_vars PROVE IInv'
  OBVIOUS
<1>1. CASE RunStarts
  BY <1>1, RunStartsInv
<1>2. ASSUME NEW a \in Agents, Spawn(a) PROVE IInv'
  BY <1>2, SpawnInv
<1>3. ASSUME NEW a \in Agents, SpawnBackground(a) PROVE IInv'
  BY <1>3, SpawnBackgroundInv
<1>4. ASSUME NEW a \in Agents, CancelRun(a) PROVE IInv'
  BY <1>4, CancelRunInv
<1>5. ASSUME NEW a \in Agents, Waits(a) PROVE IInv'
  BY <1>5, ReturnedInv, ExpiredInv, RetryInv, CancelledNowInv, CancelledCallInv, StopReturnsInv
  DEF Waits
<1>6. ASSUME NEW a \in Agents, NEW how \in {"succeeded", "failed"}, Ends(a, how) PROVE IInv'
  BY <1>6, EndsInv
<1>7. ASSUME NEW a \in Agents, NEW c \in Agents, AskResult(a, c) PROVE IInv'
  BY <1>7, AskResultInv
<1>8. CASE UNCHANGED vars
  BY <1>8
  DEF vars, IInv, TypeOK, UnbornAreBlank, ParentsExist, CallsAreOwn, CancelledAreStopped,
      ForegroundNests, InCall, Alive, ToldAreOver, BackoffIsEarly
<1>9. QED
  BY <1>1, <1>2, <1>3, <1>4, <1>5, <1>6, <1>7, <1>8 DEF Next

LEMMA InvariantHolds == Spec => []IInv
BY InitInv, NextInv, PTL DEF Spec

\* Every variable keeps its type: no call is tried more often than it may be.
THEOREM TypeTheorem == Spec => []TypeOK
<1>1. IInv => TypeOK
  BY DEF IInv
<1>2. QED
  BY <1>1, InvariantHolds, PTL

\* However deep subagents nest, time out, are tried again and are cancelled, a foreground
\* subagent works in the call its parent waits for, unless both have been cancelled.
THEOREM NestingTheorem == Spec => []ForegroundNests
<1>1. IInv => ForegroundNests
  BY DEF IInv
<1>2. QED
  BY <1>1, InvariantHolds, PTL

\* Nothing works in the foreground of a background subagent that agent_result has called
\* completed: such a subagent ended of itself, so it waits for nobody.
THEOREM QuietTheorem == Spec => []CompletedIsQuiet
<1>1. IInv => CompletedIsQuiet
  BY DEF IInv, ForegroundNests, InCall, Waiting, ToldAreOver, CompletedIsQuiet
<1>2. QED
  BY <1>1, InvariantHolds, PTL

=============================================================================
