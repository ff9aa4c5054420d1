--------------------------- MODULE ToolInvocation ---------------------------
(***************************************************************************)
(* One tool call of the agent (core/tools/invocation.py): the parameters   *)
(* are validated, the permission manager is asked, the tool is executed    *)
(* under a time limit and retried, and every stage is published.           *)
(*                                                                         *)
(* The call and its permission request are the same thing seen from two    *)
(* sides: a step of invoke_tool that enters or leaves check_and_wait is a  *)
(* step of PermissionManager too.                                          *)
(***************************************************************************)
EXTENDS Naturals, FiniteSets, Sequences, SequencesExt

CONSTANTS Requests, Sessions, Tools, Bash, Default, HasTimeout, None,
          MaxRetries  \* _MAX_RETRIES

ASSUME MaxRetriesAssumption == MaxRetries \in Nat

VARIABLES stage, about, pending, future, sessionAlways, persistentAlways,
          policyFile, attached, saveFailed, said

VARIABLES
  step,      \* where invoke_tool is suspended, or how the call ended
  attempt,   \* executions of the tool begun for this call
  published  \* the events of the call, in order

permissionVars == <<stage, about, pending, future, sessionAlways, persistentAlways,
                    policyFile, attached, saveFailed, said>>

vars == <<permissionVars, step, attempt, published>>

PM == INSTANCE PermissionManager

\* What the permission manager assumes of the constants it is given here.
ASSUME PermissionAssumption ==
  /\ Bash \in Tools
  /\ Default \in [Tools -> {"allow", "deny", "ask"}]
  /\ HasTimeout \in BOOLEAN
  /\ None \notin PM!Decisions \union {"allow", "deny"} \union PM!Subjects

-----------------------------------------------------------------------------
Suspended == {"started", "checking", "granting", "denying", "invoking",
              "finishing", "retrying", "failing"}
Over == {"ok", "error", "cancelled", "lost"}

Events == {"started", "requested", "granted", "denied", "failed", "finished"}

TypeOK ==
  /\ PM!TypeOK
  /\ step \in [Requests -> {"unused"} \union Suspended \union Over]
  /\ attempt \in [Requests -> 0..(MaxRetries + 1)]
  /\ published \in [Requests -> Seq(Events)]

Init ==
  /\ PM!Init
  /\ step = [r \in Requests |-> "unused"]
  /\ attempt = [r \in Requests |-> 0]
  /\ published = [r \in Requests |-> <<>>]

-----------------------------------------------------------------------------
(* An event is handed to the subscribers when a step begins to publish it. *)

Publishes(r, event) == published' = [published EXCEPT ![r] = Append(@, event)]

Goes(r, from, to) ==
  /\ step[r] = from
  /\ step' = [step EXCEPT ![r] = to]

Executes(r) == attempt' = [attempt EXCEPT ![r] = @ + 1]

Start(r) ==
  /\ Goes(r, "unused", "started")
  /\ Publishes(r, "started")
  /\ UNCHANGED attempt /\ UNCHANGED permissionVars

\* An unknown tool, or parameters its model refuses.
Refuse(r) ==
  /\ Goes(r, "started", "failing")
  /\ Publishes(r, "failed")
  /\ UNCHANGED attempt /\ UNCHANGED permissionVars

\* Decided without asking: the verdict is not published.
AllowedUnasked(r, q) ==
  /\ PM!CheckDecides(r, q)
  /\ PM!Decide(q) = "auto_allow"
  /\ Goes(r, "started", "invoking")
  /\ Executes(r)
  /\ UNCHANGED published

DeniedUnasked(r, q) ==
  /\ PM!CheckDecides(r, q)
  /\ PM!Decide(q) = "auto_deny"
  /\ Goes(r, "started", "failing")
  /\ Publishes(r, "failed")
  /\ UNCHANGED attempt

Ask(r, q) ==
  /\ PM!CheckAsks(r, q)
  /\ Goes(r, "started", "checking")
  /\ Publishes(r, "requested")
  /\ UNCHANGED attempt

\* Mutation: an answer is an answer.
AnsweredBlindly(r) ==
  /\ PM!Answered(r)
  /\ Goes(r, "checking", "granting")
  /\ Publishes(r, "granted")
  /\ UNCHANGED attempt

Answered(r) ==
  /\ PM!Answered(r)
  /\ \/ /\ future[r] \in PM!Grants
        /\ Goes(r, "checking", "granting")
        /\ Publishes(r, "granted")
     \/ /\ future[r] \notin PM!Grants
        /\ Goes(r, "checking", "denying")
        /\ Publishes(r, "denied")
  /\ UNCHANGED attempt

AnswerTimeout(r) ==
  /\ PM!Timeout(r)
  /\ Goes(r, "checking", "denying")
  /\ Publishes(r, "denied")
  /\ UNCHANGED attempt

Deny(r) ==
  /\ Goes(r, "denying", "failing")
  /\ Publishes(r, "failed")
  /\ UNCHANGED attempt /\ UNCHANGED permissionVars

Execute(r) ==
  /\ Goes(r, "granting", "invoking")
  /\ Executes(r)
  /\ UNCHANGED published /\ UNCHANGED permissionVars

Succeed(r) ==
  /\ Goes(r, "invoking", "finishing")
  /\ Publishes(r, "finished")
  /\ UNCHANGED attempt /\ UNCHANGED permissionVars

\* Mutation: the failure is reported and the call retried once too often.
FailTransientlyOnceMore(r) ==
  /\ attempt[r] <= MaxRetries + 1
  /\ Goes(r, "invoking", "retrying")
  /\ Publishes(r, "failed")
  /\ UNCHANGED attempt /\ UNCHANGED permissionVars

\* runtime_error or rate_limited: published, then slept on.
FailTransiently(r) ==
  /\ attempt[r] <= MaxRetries
  /\ Goes(r, "invoking", "retrying")
  /\ Publishes(r, "failed")
  /\ UNCHANGED attempt /\ UNCHANGED permissionVars

\* Mutation: the error goes to the loop and not to the subscribers.
FailFinallySilently(r) ==
  /\ Goes(r, "invoking", "failing")
  /\ UNCHANGED <<attempt, published>> /\ UNCHANGED permissionVars

\* The last attempt, an error of another class, or the time limit.
FailFinally(r) ==
  /\ Goes(r, "invoking", "failing")
  /\ Publishes(r, "failed")
  /\ UNCHANGED attempt /\ UNCHANGED permissionVars

Retry(r) ==
  /\ Goes(r, "retrying", "invoking")
  /\ Executes(r)
  /\ UNCHANGED published /\ UNCHANGED permissionVars

\* Mutation: a failure is published and not returned.
ReturnSuccess(r) ==
  /\ Goes(r, "finishing", "ok")
  /\ UNCHANGED <<attempt, published>> /\ UNCHANGED permissionVars

\* The tool result goes back to the agent loop.
Return(r) ==
  /\ Goes(r, "finishing", "ok") \/ Goes(r, "failing", "error")
  /\ UNCHANGED <<attempt, published>> /\ UNCHANGED permissionVars

\* The run is cancelled at any of the awaits, within check_and_wait too.
Cancel(r) ==
  /\ step[r] \in Suspended
  /\ step' = [step EXCEPT ![r] = "cancelled"]
  /\ IF step[r] = "checking" THEN PM!Cancel(r) ELSE UNCHANGED permissionVars
  /\ UNCHANGED <<attempt, published>>

Restart ==
  /\ PM!Restart
  /\ step' = [r \in Requests |-> IF step[r] \in Suspended THEN "lost" ELSE step[r]]
  /\ UNCHANGED <<attempt, published>>

\* What happens to the permission manager without this call doing a step.
Elsewhere ==
  /\ \/ \E r \in Requests : PM!Announced(r)
     \/ \E r \in Requests, decision \in PM!Decisions : PM!Respond(r, decision)
     \/ PM!Disconnect
     \/ PM!Attach
  /\ UNCHANGED <<step, attempt, published>>

-----------------------------------------------------------------------------
Progress(r) ==
  \/ Refuse(r)
  \/ \E q \in PM!Subjects : AllowedUnasked(r, q) \/ DeniedUnasked(r, q) \/ Ask(r, q)
  \/ Answered(r)
  \/ AnswerTimeout(r)
  \/ Deny(r)
  \/ Execute(r)
  \/ Succeed(r)
  \/ FailTransiently(r)
  \/ FailFinally(r)
  \/ Retry(r)
  \/ Return(r)

Next ==
  \/ \E r \in Requests : Start(r) \/ Progress(r) \/ Cancel(r)
  \/ Elsewhere
  \/ Restart

Spec == Init /\ [][Next]_vars

\* The loop runs what is ready, a tool is stopped by its time limit, and events
\* are delivered.  Whether the tool succeeds is left open, whether the user
\* answers too.
Fairness ==
  \A r \in Requests :
    WF_vars(Progress(r) \/ (PM!Announced(r) /\ UNCHANGED <<step, attempt, published>>))

FairSpec == Spec /\ Fairness

-----------------------------------------------------------------------------
(* Safety.                                                                 *)

\* A tool is executed only for a call that was let through, and every retry of
\* it happens under that verdict: no late answer, time-out, cancellation or
\* restart lets a refused call run.
OnlyWhenAllowed ==
  \A r \in Requests : attempt[r] > 0 => stage[r] \in PM!Grants \union {"auto_allow"}

Occurrences(s, e) == Cardinality({i \in 1..Len(s) : s[i] = e})

Count(r, event) == Occurrences(published[r], event)

\* What subscribers see of a call that returned: it started first, ended with
\* its outcome, was asked about at most once, and every failure it shows
\* but the last was followed by another execution.
ToldAsItWas ==
  \A r \in Requests : step[r] \in {"ok", "error"} =>
    /\ Head(published[r]) = "started"
    /\ Last(published[r]) = IF step[r] = "ok" THEN "finished" ELSE "failed"
    /\ Count(r, "started") = 1
    /\ Count(r, "requested") = Count(r, "granted") + Count(r, "denied")
    /\ Count(r, "requested") <= 1
    /\ Count(r, "denied") = 1 => attempt[r] = 0
    /\ attempt[r] > 0 => Count(r, "failed") + Count(r, "finished") = attempt[r]

-----------------------------------------------------------------------------
\* With a time limit on answers every call returns to the loop.
CallsReturn == \A r \in Requests : step[r] \in Suspended ~> step[r] \in Over

=============================================================================
