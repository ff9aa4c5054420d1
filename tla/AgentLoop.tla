----------------------------- MODULE AgentLoop -----------------------------
(***************************************************************************)
(* The messages of an agent run: how AgentLoop (core/loop.py) builds the   *)
(* prompt of each model call, how the runner (core/runner.py) saves what a *)
(* run added to the session's thread, and how the store                    *)
(* (core/session/store.py) gives it to the next run.                       *)
(*                                                                         *)
(* The runs of one session, one after the other, as its lock orders them.  *)
(* An action is the code between two awaits.  The process can die at any   *)
(* of them and between any two writes to thread.jsonl.                     *)
(***************************************************************************)
EXTENDS Naturals, Sequences, SequencesExt, FiniteSetsExt

CONSTANTS
  MaxRuns,   \* bound: messages sent to the session
  MaxSteps,  \* agent.max_steps
  MaxCalls   \* bound: tool calls in one response of each run

ASSUME BoundsAssumption == /\ MaxRuns \in Nat
                           /\ MaxSteps \in Nat \ {0}
                           /\ MaxCalls \in [0..MaxRuns -> Nat]

VARIABLES
  thread,    \* the readable rows of thread.jsonl
  torn,      \* the file ends within a row
  run,       \* how many runs there were, the current one included
  phase,     \* the await the current run is suspended in
  messages,  \* context.messages
  prefill,   \* prefill_len
  step,      \* context.step
  todo,      \* tool calls of the current response not yet answered
  stop,      \* stop_reason of the last response
  status,    \* context.status, with its reason when it failed
  cut        \* history: compaction "run" has shortened the messages of this run,
             \* or the rows such a run "saved" are in the thread

vars == <<thread, torn, run, phase, messages, prefill, step, todo, stop, status, cut>>

-----------------------------------------------------------------------------
(* Messages.  The results of a step share one message and answer its calls *)
(* in order, so both are told apart by run, step and number.               *)

Kinds == {"goal", "reply", "results", "summary", "ack"}

Message == [kind: Kinds, run: 0..MaxRuns, step: 0..MaxSteps, n: Nat]

Row(kind, n) == [kind |-> kind, run |-> run, step |-> step, n |-> n]

Goal == [kind |-> "goal", run |-> run + 1, step |-> 0, n |-> 0]

Fixed(kind) == [kind |-> kind, run |-> 0, step |-> 0, n |-> 0]

\* "Understood, I'll continue from this summary." follows every summary.
Summarised == <<Fixed("summary"), Fixed("ack")>>

Asks(m) == m.kind = "reply" /\ m.n > 0

SameStep(m, o) == m.run = o.run /\ m.step = o.step

Answers(m, o) == m.kind = "results" /\ SameStep(m, o) /\ m.n >= o.n

\* Some tool_use among the first k messages has no tool_result there.
Pending(msgs, k) ==
  \E i \in 1..k : Asks(msgs[i]) /\ ~ \E j \in (i + 1)..k : Answers(msgs[j], msgs[i])

\* Mutation: the thread is read as it is.
Untrimmed(msgs) == msgs

\* _trim_orphan_tool_use: everything after the last balanced message is dropped.
Trim(msgs) == SubSeq(msgs, 1, Max({k \in 0..Len(msgs) : ~Pending(msgs, k)}))

\* add_tool_result, n times: results join those already at the end.
AddResult(msgs, n) ==
  IF n = 0 THEN msgs
  ELSE IF Last(msgs).kind = "results"
       THEN [msgs EXCEPT ![Len(msgs)].n = @ + n]
       ELSE Append(msgs, Row("results", n))

-----------------------------------------------------------------------------
\* Any other reason is one that carries no calls, and acts as max_tokens does then.
Stops == {"none", "end_turn", "tool_use", "max_tokens"}

\* Suspended inside AgentLoop.run.
InLoop == {"planning", "acting", "compacting", "observing"}

Phases == {"idle", "starting", "finishing"} \union InLoop

Outcomes == {"success", "cancelled", "llm_error", "exceeded_max_steps"}

\* The type invariant: steps stay below the limit, calls within the response.
TypeOK ==
  /\ thread \in Seq(Message)
  /\ torn \in BOOLEAN
  /\ run \in 0..MaxRuns
  /\ phase \in Phases
  /\ messages \in Seq(Message)
  /\ prefill \in Nat
  /\ step \in 0..MaxSteps
  /\ todo \in 0..MaxCalls[run]
  /\ stop \in Stops
  /\ status \in {"running"} \union Outcomes
  /\ cut \in {"no", "run", "saved"}

Init ==
  /\ thread = <<>>
  /\ torn = FALSE
  /\ run = 0
  /\ phase = "idle"
  /\ messages = <<>>
  /\ prefill = 0
  /\ step = 0
  /\ todo = 0
  /\ stop = "none"
  /\ status = "running"
  /\ cut = "no"

-----------------------------------------------------------------------------
(* Writing rows.  A row appended to a torn one is unreadable with it.      *)

Appended(rows) == thread \o IF torn /\ rows # <<>> THEN Tail(rows) ELSE rows

Write(rows) ==
  /\ thread' = Appended(rows)
  /\ torn' = (torn /\ rows = <<>>)

\* The process dies while the rows are written: some are, one may be in part.
WriteInPart(rows) ==
  \E written \in 0..(Len(rows) - 1), half \in BOOLEAN :
    /\ thread' = Appended(SubSeq(rows, 1, written))
    /\ torn' = (half \/ (torn /\ written = 0))

\* Mutation: the whole prompt is saved, not what the run added to it.
ProducedAll == messages

\* context.messages[prefill_len:]
Produced == SubSeq(messages, prefill + 1, Len(messages))

\* The context of the run is gone.
Rests(saved) ==
  /\ phase' = "idle"
  /\ messages' = <<>> /\ prefill' = 0 /\ step' = 0 /\ todo' = 0
  /\ stop' = "none" /\ status' = "running"
  /\ cut' = IF cut = "run" THEN saved ELSE cut
  /\ UNCHANGED run

-----------------------------------------------------------------------------
(* The run between two model calls.                                        *)

\* The goal is appended, the thread is read, and run.started published.
Begin ==
  /\ phase = "idle" /\ run < MaxRuns
  /\ Write(<<Goal>>)
  /\ LET history == Trim(thread')
     IN /\ messages' = IF history = <<>> THEN <<Goal>> ELSE history
        /\ prefill' = Len(history)
  /\ run' = run + 1
  /\ phase' = "starting"
  /\ UNCHANGED <<step, todo, stop, status, cut>>

\* step.started and the model call.
Start ==
  /\ phase = "starting"
  /\ phase' = "planning"
  /\ step' = 1
  /\ UNCHANGED <<thread, torn, run, messages, prefill, todo, stop, status, cut>>

\* Mutation: the limit is exceeded before it is noticed.
EndsLate(reason) ==
  \/ /\ reason = "end_turn"
     /\ status' = "success" /\ phase' = "observing"
  \/ /\ reason # "end_turn" /\ step > MaxSteps
     /\ status' = "exceeded_max_steps" /\ phase' = "observing"
  \/ /\ reason # "end_turn" /\ step <= MaxSteps
     /\ phase' \in IF reason = "tool_use" THEN {"observing", "compacting"} ELSE {"observing"}
     /\ UNCHANGED status

\* The termination check, and whether the context is full enough to compact.
Ends(reason) ==
  \/ /\ reason = "end_turn"
     /\ status' = "success" /\ phase' = "observing"
  \/ /\ reason # "end_turn" /\ step >= MaxSteps
     /\ status' = "exceeded_max_steps" /\ phase' = "observing"
  \/ /\ reason # "end_turn" /\ step < MaxSteps
     /\ phase' \in IF reason = "tool_use" THEN {"observing", "compacting"} ELSE {"observing"}
     /\ UNCHANGED status

\* Mutation: calls the model had no tokens left to finish get no result.
RespondUnanswered(reason, n) ==
  /\ phase = "planning"
  /\ messages' = Append(messages, Row("reply", n))
  /\ stop' = reason
  /\ IF reason = "tool_use" /\ n > 0
     THEN todo' = n /\ phase' = "acting" /\ UNCHANGED status
     ELSE todo' = 0 /\ Ends(reason)
  /\ UNCHANGED <<thread, torn, run, prefill, step, cut>>

\* The model answers with n tool calls.  They are executed only for tool_use,
\* and answered with an error when the output limit cut them off.
Respond(reason, n) ==
  /\ phase = "planning"
  /\ messages' = AddResult(Append(messages, Row("reply", n)),
                           IF reason = "max_tokens" THEN n ELSE 0)
  /\ stop' = reason
  /\ IF reason = "tool_use" /\ n > 0
     THEN todo' = n /\ phase' = "acting" /\ UNCHANGED status
     ELSE todo' = 0 /\ Ends(reason)
  /\ UNCHANGED <<thread, torn, run, prefill, step, cut>>

\* A stream that ends early leaves calls under end_turn.
Response == \E reason \in Stops \ {"none"}, n \in 0..MaxCalls[run] : Respond(reason, n)

\* Mutation: the last call of a response is not waited for.
ToolReturnsButLast ==
  /\ phase = "acting" /\ todo > 1
  /\ messages' = AddResult(messages, 1)
  /\ todo' = todo - 1
  /\ UNCHANGED <<thread, torn, run, phase, prefill, step, stop, status, cut>>

ToolReturns ==
  /\ phase = "acting"
  /\ messages' = AddResult(messages, 1)
  /\ todo' = todo - 1
  /\ IF todo = 1 THEN Ends(stop) ELSE UNCHANGED <<phase, status>>
  /\ UNCHANGED <<thread, torn, run, prefill, step, stop, cut>>

\* Compactor.compact: the messages are replaced, or kept when the model failed.
CompactRun ==
  /\ phase = "compacting"
  /\ phase' = "observing"
  /\ \/ messages' = Summarised /\ cut' = IF cut = "no" THEN "run" ELSE cut
     \/ UNCHANGED <<messages, cut>>
  /\ UNCHANGED <<thread, torn, run, prefill, step, todo, stop, status>>

\* step.finished is published, and the loop goes on or not.
Observe ==
  /\ phase = "observing"
  /\ IF status = "running"
     THEN phase' = "planning" /\ step' = step + 1
     ELSE phase' = "finishing" /\ UNCHANGED step
  /\ UNCHANGED <<thread, torn, run, messages, prefill, todo, stop, status, cut>>

\* Mutation: the reason of the abortion overwrites an outcome.
AbortAnyway(reason) ==
  /\ phase \in InLoop
  /\ phase' = "finishing"
  /\ status' = reason
  /\ todo' = 0
  /\ UNCHANGED <<thread, torn, run, messages, prefill, step, stop, cut>>

\* A cancellation, or an exception of the model, of a tool or of a subscriber.
Abort(reason) ==
  /\ phase \in InLoop
  /\ phase' = "finishing"
  /\ status' = IF status = "running" THEN reason ELSE status
  /\ todo' = 0
  /\ UNCHANGED <<thread, torn, run, messages, prefill, step, stop, cut>>

\* The provider or the tools cannot be set up: the loop is not entered.  (A provider
\* without its key raises SystemExit instead, which ends the daemon: that is Crash.)
StartFails ==
  /\ phase = "starting"
  /\ phase' = "finishing"
  /\ status' = "llm_error"
  /\ UNCHANGED <<thread, torn, run, messages, prefill, step, todo, stop, cut>>

\* run.finished has been published.
Finish ==
  /\ phase = "finishing"
  /\ Write(Produced)
  /\ Rests("saved")

\* Cancelled while run.started or run.finished is published: nothing is saved.
Drop ==
  /\ phase \in {"starting", "finishing"}
  /\ Rests("no")
  /\ UNCHANGED <<thread, torn>>

-----------------------------------------------------------------------------
(* Between runs, and the end of the process.                               *)

\* session.compact: the thread is renamed and a new one written.
CompactThread ==
  /\ phase = "idle"
  /\ thread' = Summarised /\ torn' = FALSE
  /\ cut' = "no"
  /\ UNCHANGED <<run, phase, messages, prefill, step, todo, stop, status>>

\* The daemon dies while nothing is written.
Crash ==
  /\ phase # "idle"
  /\ Rests("no")
  /\ UNCHANGED <<thread, torn>>

\* It dies while a run is saved ...
CrashSaving ==
  /\ phase = "finishing"
  /\ WriteInPart(Produced)
  /\ Rests("saved")

\* ... while the goal of the next run is appended ...
CrashBeginning ==
  /\ phase = "idle" /\ run < MaxRuns
  /\ WriteInPart(<<Goal>>)
  /\ run' = run + 1
  /\ UNCHANGED <<phase, messages, prefill, step, todo, stop, status, cut>>

\* ... or while the compacted thread is written.
CrashCompacting ==
  /\ phase = "idle"
  /\ \E written \in 0..1, half \in BOOLEAN :
       thread' = SubSeq(Summarised, 1, written) /\ torn' = half
  /\ cut' = "no"
  /\ UNCHANGED <<run, phase, messages, prefill, step, todo, stop, status>>

-----------------------------------------------------------------------------
Progress ==
  \/ Start \/ StartFails
  \/ Response
  \/ ToolReturns
  \/ CompactRun
  \/ Observe
  \/ Finish

Next ==
  \/ Begin
  \/ Progress
  \/ \E reason \in {"cancelled", "llm_error"} : Abort(reason)
  \/ Drop
  \/ CompactThread
  \/ Crash \/ CrashSaving \/ CrashBeginning \/ CrashCompacting

Spec == Init /\ [][Next]_vars

\* Model calls and tools return, events are delivered.  Users need not write.
FairSpec == Spec /\ WF_vars(Progress)

-----------------------------------------------------------------------------
(* Safety.                                                                 *)

FromUser(m) == m.kind \in {"goal", "results", "summary"}

\* What the model accepts: a user begins, the calls of a reply are all answered
\* by the next message, and nothing is answered that was not asked.
Valid(msgs) ==
  /\ msgs # <<>> /\ FromUser(Head(msgs))
  /\ \A i \in 1..Len(msgs) :
       /\ Asks(msgs[i]) => /\ i < Len(msgs)
                           /\ msgs[i + 1] = [msgs[i] EXCEPT !.kind = "results"]
       /\ msgs[i].kind = "results" => i > 1 /\ msgs[i] = [msgs[i - 1] EXCEPT !.kind = "results"]

\* Whatever was cancelled, lost, torn or compacted before, every prompt is one
\* the model accepts, as long as no run saved messages it had compacted itself.
PromptsAreValid == phase = "planning" /\ cut # "saved" => Valid(messages)

Rank(m) == CASE m.kind = "goal" -> 0 [] m.kind = "reply" -> 1 [] m.kind = "results" -> 2

Before(m, o) ==
  \/ m.run < o.run
  \/ m.run = o.run /\ m.step < o.step
  \/ SameStep(m, o) /\ Rank(m) < Rank(o)

\* The thread tells everything at most once and in the order it happened,
\* across crashes within a write, trimmed reads and compactions.
ThreadInOrder ==
  \A i, j \in 1..Len(thread) :
    /\ i < j
    /\ thread[i].kind \notin {"summary", "ack"} /\ thread[j].kind \notin {"summary", "ack"}
    => Before(thread[i], thread[j])

\* Once the model has given its final answer the run is a success: neither the
\* step limit nor a cancellation or a failing subscriber afterwards takes it back.
AnswerWins == phase \in {"observing", "finishing"} /\ stop = "end_turn" => status = "success"

-----------------------------------------------------------------------------
\* Every run ends, by an answer, the step limit or an error.
RunEnds == phase # "idle" ~> phase = "idle"

=============================================================================
