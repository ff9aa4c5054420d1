---------------------------- MODULE EventStream ----------------------------
(***************************************************************************)
(* The events of runs on their way to clients and to files: the bus of the *)
(* daemon (core/events/bus.py), the broadcaster behind it                  *)
(* (core/transport/ipc_broadcaster.py), the writer of each run             *)
(* (core/events/writer.py), subscription with replay (core/app.py) and the *)
(* end of a connection (core/transport/socket_server.py).                  *)
(*                                                                         *)
(* Publishing an event first pushes it to every subscriber, waiting after  *)
(* each until the socket takes it, and then writes it to the file of every *)
(* run under way, without waiting.  Runs publish one event at a time; each *)
(* connection subscribes once, as every client in the repository does.     *)
(***************************************************************************)
EXTENDS Naturals, FiniteSets, Sequences, SequencesExt

CONSTANTS
  Runs,
  Clients,    \* connections
  Requests,   \* what each may ask for: [topics, scope, replay]
  None,       \* the scope "global", and replay_from_run = None
  MaxEvents   \* bound: events of each run

Kinds == {"run", "step"}

ASSUME RunAssumption == None \notin Runs
ASSUME RequestAssumption ==
  Requests \in [Clients -> SUBSET
    [topics: SUBSET Kinds, scope: Runs \union {None}, replay: Runs \union {None}]]
ASSUME EventsAssumption == MaxEvents \in [Runs -> Nat \ {0, 1}]

VARIABLES
  phase,   \* of each run: "new", "publishing", "working" or "ended"
  count,   \* events the run has published, the current one included
  final,   \* the current event, or the last one, is run.finished
  left,    \* subscribers the current event has not passed: it waits for the first
  dead,    \* subscribers whose connection it has found lost
  lost,    \* history: numbers of the events whose publication was cancelled
  file,    \* events.jsonl of each run
  subs,    \* the subscriptions
  up,      \* the connection has not been found closed by the server
  stage,   \* of its request: "new", "asked", "replaying", "subscribed" or "failed"
  want,    \* its request
  seen,    \* what has been sent to the client
  since    \* history: how many events of each run there were when it was subscribed

runVars == <<phase, count, final, left, dead, lost>>
clientVars == <<up, stage, want, since>>
vars == <<phase, count, final, left, dead, lost, file, subs, up, stage, want, seen, since>>

-----------------------------------------------------------------------------
Event == UNION {[run: {r}, n: 1..MaxEvents[r], kind: Kinds] : r \in Runs}

\* run.started and run.finished, or what happens between them.
Kind(r, n) == IF n = 1 \/ (final[r] /\ n = count[r]) THEN "run" ELSE "step"

Current(r) == [run |-> r, n |-> count[r], kind |-> Kind(r, count[r])]

\* _matches_topic and _matches_scope
Matches(c, e) == e.kind \in want[c].topics /\ want[c].scope \in {None, e.run}

\* The type invariant: who is subscribed has asked, and who waits has someone to wait for.
TypeOK ==
  /\ phase \in [Runs -> {"new", "publishing", "working", "ended"}]
  /\ count \in [Runs -> Nat] /\ \A r \in Runs : count[r] <= MaxEvents[r]
  /\ final \in [Runs -> BOOLEAN]
  /\ left \in [Runs -> Seq(Clients)]
  /\ dead \in [Runs -> SUBSET Clients]
  /\ lost \in [Runs -> SUBSET Nat] /\ \A r \in Runs : lost[r] \subseteq 1..count[r]
  /\ file \in [Runs -> Seq(Event)]
  /\ subs \in Seq(Clients)
  /\ up \in [Clients -> BOOLEAN]
  /\ stage \in [Clients -> {"new", "asked", "replaying", "subscribed", "failed"}]
  /\ seen \in [Clients -> Seq(Event)]
  /\ since \in [Clients -> [Runs -> Nat]]
  /\ DOMAIN want = Clients
  /\ \A c \in Clients : want[c] \in (IF stage[c] = "new" THEN {None} ELSE Requests[c])
  /\ \A r \in Runs : phase[r] = "publishing" <=> left[r] # <<>>

Init ==
  /\ phase = [r \in Runs |-> "new"]
  /\ count = [r \in Runs |-> 0]
  /\ final = [r \in Runs |-> FALSE]
  /\ left = [r \in Runs |-> <<>>]
  /\ dead = [r \in Runs |-> {}]
  /\ lost = [r \in Runs |-> {}]
  /\ file = [r \in Runs |-> <<>>]
  /\ subs = <<>>
  /\ up = [c \in Clients |-> TRUE]
  /\ stage = [c \in Clients |-> "new"]
  /\ want = [c \in Clients |-> None]
  /\ seen = [c \in Clients |-> <<>>]
  /\ since = [c \in Clients |-> [r \in Runs |-> 0]]

-----------------------------------------------------------------------------
\* A list comprehension: what of s is in S, in the order of s.  (SelectSeq says the
\* same by recursion, of which a proof cannot speak.)
Kept(s, S) ==
  LET at     == {i \in 1..Len(s) : s[i] \in S}
      Nth(k) == CHOOSE i \in at : Cardinality({j \in at : j <= i}) = k
  IN  [k \in 1..Cardinality(at) |-> s[Nth(k)]]

-----------------------------------------------------------------------------
(* The publication of one event.                                           *)

\* A write to a closed transport is dropped.
Sent(c, events) == IF up[c] THEN [seen EXCEPT ![c] = @ \o events] ELSE seen

\* The writers whose file is open, that of the run itself included.
Writers(r) == {q \in Runs : phase[q] \in {"publishing", "working"}} \union {r}

\* Mutation: the list is rebuilt from the copy the event was pushed to.
RecordedOver(r, e, gone) ==
  /\ phase' = [phase EXCEPT ![r] = IF final'[r] THEN "ended" ELSE "working"]
  /\ left' = [left EXCEPT ![r] = <<>>]
  /\ dead' = [dead EXCEPT ![r] = {}]
  /\ file' = [q \in Runs |-> IF q \in Writers(r) THEN Append(file[q], e) ELSE file[q]]
  /\ subs' = IF gone = {} THEN subs ELSE Kept(left[r], Clients \ gone)
  /\ UNCHANGED seen

\* After the broadcaster come the writers, none of which waits.
Recorded(r, e, gone) ==
  /\ phase' = [phase EXCEPT ![r] = IF final'[r] THEN "ended" ELSE "working"]
  /\ left' = [left EXCEPT ![r] = <<>>]
  /\ dead' = [dead EXCEPT ![r] = {}]
  /\ file' = [q \in Runs |-> IF q \in Writers(r) THEN Append(file[q], e) ELSE file[q]]
  /\ subs' = Kept(subs, Clients \ gone)
  /\ UNCHANGED seen

\* The event is sent to the next subscriber, and waits for it, or is through.
GoesOn(r, e, rest, gone) ==
  IF rest = <<>>
  THEN Recorded(r, e, gone)
  ELSE /\ phase' = [phase EXCEPT ![r] = "publishing"]
       /\ left' = [left EXCEPT ![r] = rest]
       /\ dead' = [dead EXCEPT ![r] = gone]
       /\ seen' = Sent(Head(rest), <<e>>)
       /\ UNCHANGED <<file, subs>>

\* The next event of a run, pushed to a copy of the subscriptions.
Publish(r, last) ==
  LET e == [run |-> r, n |-> count[r] + 1,
            kind |-> IF last \/ count[r] = 0 THEN "run" ELSE "step"]
  IN /\ count' = [count EXCEPT ![r] = @ + 1]
     /\ final' = [final EXCEPT ![r] = last]
     /\ GoesOn(r, e, Kept(subs, {c \in ToSet(subs) : Matches(c, e)}), {})

\* Mutation: a lost connection is passed over without a note.
DrainedUnnoticed(r) ==
  /\ phase[r] = "publishing"
  /\ UNCHANGED <<count, final, lost>> /\ UNCHANGED clientVars
  /\ GoesOn(r, Current(r), Tail(left[r]), dead[r])

\* Mutation: the loss of a connection does not end the wait for it.
DrainedUp(r) ==
  /\ phase[r] = "publishing" /\ up[Head(left[r])]
  /\ UNCHANGED <<count, final, lost>> /\ UNCHANGED clientVars
  /\ GoesOn(r, Current(r), Tail(left[r]), dead[r])

\* drain returns, or fails if the connection is lost.
Drained(r) ==
  /\ phase[r] = "publishing"
  /\ UNCHANGED <<count, final, lost>> /\ UNCHANGED clientVars
  /\ LET c == Head(left[r])
     IN GoesOn(r, Current(r), Tail(left[r]), IF up[c] THEN dead[r] ELSE dead[r] \union {c})

-----------------------------------------------------------------------------
(* Runs.                                                                   *)

\* The file is opened, and run.started published.
Start(r) ==
  /\ phase[r] = "new"
  /\ Publish(r, FALSE)
  /\ UNCHANGED lost /\ UNCHANGED clientVars

\* Any number of events in between, and run.finished.
Continue(r) ==
  /\ phase[r] = "working"
  /\ \/ count[r] < MaxEvents[r] - 1 /\ Publish(r, FALSE)
     \/ Publish(r, TRUE)
  /\ UNCHANGED lost /\ UNCHANGED clientVars

\* Cancelled while run.started or run.finished is published: the file is closed.
CancelEnds(r) ==
  /\ phase[r] = "publishing" /\ Kind(r, count[r]) = "run"
  /\ phase' = [phase EXCEPT ![r] = "ended"]
  /\ left' = [left EXCEPT ![r] = <<>>]
  /\ dead' = [dead EXCEPT ![r] = {}]
  /\ lost' = [lost EXCEPT ![r] = @ \union {count[r]}]
  /\ UNCHANGED <<count, final, file, subs, seen>> /\ UNCHANGED clientVars

\* Cancelled in between: what is being published is dropped, run.finished follows.
CancelFinishes(r) ==
  /\ \/ phase[r] = "working" /\ UNCHANGED lost
     \/ /\ phase[r] = "publishing" /\ Kind(r, count[r]) = "step"
        /\ lost' = [lost EXCEPT ![r] = @ \union {count[r]}]
  /\ Publish(r, TRUE)
  /\ UNCHANGED clientVars

-----------------------------------------------------------------------------
(* Clients.                                                                *)

\* event.subscribe is read; a task of its own will handle it.
Ask(c) ==
  /\ stage[c] = "new"
  /\ \E request \in Requests[c] : want' = [want EXCEPT ![c] = request]
  /\ stage' = [stage EXCEPT ![c] = "asked"]
  /\ UNCHANGED <<file, subs, up, seen, since>> /\ UNCHANGED runVars

Subscribed(c) ==
  /\ subs' = Append(subs, c)
  /\ stage' = [stage EXCEPT ![c] = "subscribed"]
  /\ since' = [since EXCEPT ![c] = count]

\* _replay_events: the lines with a topic asked for.
Lines(c) ==
  IF want[c].replay = None THEN <<>>
  ELSE LET lines == file[want[c].replay]
       IN  Kept(lines, {e \in ToSet(lines) : e.kind \in want[c].topics})

\* Mutation: the subscription no longer waits for the replay, but is also made after it.
ServeTwice(c) ==
  /\ stage[c] = "asked"
  /\ seen' = Sent(c, Lines(c))
  /\ IF Lines(c) = <<>>
     THEN Subscribed(c)
     ELSE /\ stage' = [stage EXCEPT ![c] = "replaying"]
          /\ subs' = Append(subs, c) /\ UNCHANGED since
  /\ UNCHANGED <<file, up, want>> /\ UNCHANGED runVars

\* The file is sent in one go, and drained if there was anything to send.
Serve(c) ==
  /\ stage[c] = "asked"
  /\ seen' = Sent(c, Lines(c))
  /\ IF Lines(c) = <<>>
     THEN Subscribed(c)
     ELSE stage' = [stage EXCEPT ![c] = "replaying"] /\ UNCHANGED <<subs, since>>
  /\ UNCHANGED <<file, up, want>> /\ UNCHANGED runVars

\* The replay is drained, or fails if the connection is lost.
Replayed(c) ==
  /\ stage[c] = "replaying"
  /\ IF up[c]
     THEN Subscribed(c)
     ELSE stage' = [stage EXCEPT ![c] = "failed"] /\ UNCHANGED <<subs, since>>
  /\ UNCHANGED <<file, up, want, seen>> /\ UNCHANGED runVars

\* Mutation: the end of the connection forgets a request that still waits for its task.
DisconnectForgets(c) ==
  /\ up[c] /\ stage[c] # "new"
  /\ up' = [up EXCEPT ![c] = FALSE]
  /\ subs' = Kept(subs, Clients \ {c})
  /\ want' = [want EXCEPT ![c] = None]
  /\ UNCHANGED <<file, stage, seen, since>> /\ UNCHANGED runVars

\* The end of the read loop.  A request read before may still wait for its task.
Disconnect(c) ==
  /\ up[c] /\ stage[c] # "new"
  /\ up' = [up EXCEPT ![c] = FALSE]
  /\ subs' = Kept(subs, Clients \ {c})
  /\ UNCHANGED <<file, stage, want, seen, since>> /\ UNCHANGED runVars

-----------------------------------------------------------------------------
RunSteps(r) == Continue(r) \/ Drained(r)

RequestSteps(c) == Serve(c) \/ Replayed(c)

Next ==
  \/ \E r \in Runs : Start(r) \/ RunSteps(r) \/ CancelEnds(r) \/ CancelFinishes(r)
  \/ \E c \in Clients : Ask(c) \/ RequestSteps(c) \/ Disconnect(c)

Spec == Init /\ [][Next]_vars

\* Runs go on (RunEnds of AgentLoop), and every client reads what it is sent or
\* its connection is lost.  Nobody has to ask, to leave or to cancel.
FairSpec ==
  /\ Spec
  /\ \A r \in Runs : WF_vars(RunSteps(r))
  /\ \A c \in Clients : WF_vars(RequestSteps(c))

-----------------------------------------------------------------------------
(* Safety.                                                                 *)

\* Through replay, slow clients and other runs, every client sees what a run
\* says in the order in which it was said, and nothing twice.
SeenInOrder ==
  \A c \in Clients : \A i, j \in 1..Len(seen[c]) :
    i < j /\ seen[c][i].run = seen[c][j].run => seen[c][i].n < seen[c][j].n

\* Events whose publication has been completed.
Told(r) == (1..(IF phase[r] = "publishing" THEN count[r] - 1 ELSE count[r])) \ lost[r]

TheEvent(r, n) == [run |-> r, n |-> n, kind |-> Kind(r, n)]

\* Matching events begun after c was subscribed.
Due(c) == {e \in UNION {{TheEvent(r, n) : n \in Told(r)} : r \in Runs} :
             e.n > since[c][e.run] /\ Matches(c, e)}

\* Whoever comes, goes or is lost while an event is pushed: a client that is
\* subscribed misses none.
LiveIsComplete ==
  \A c \in Clients : stage[c] = "subscribed" /\ up[c] => Due(c) \subseteq ToSet(seen[c])

\* A connection closed before its request was handled is subscribed nevertheless,
\* but only until an event is pushed to it.
GoneAreForgotten == \A c \in ToSet(subs) : ~up[c] => Due(c) = {}

-----------------------------------------------------------------------------
(* Liveness.                                                               *)

\* No client that is lost in the middle of a push holds up a run.
RunsEnd == \A r \in Runs : phase[r] \in {"publishing", "working"} ~> phase[r] = "ended"

=============================================================================
