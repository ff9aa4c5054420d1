------------------------- MODULE PermissionManager -------------------------
(***************************************************************************)
(* The permission manager of kama-core (core/permissions/manager.py with   *)
(* policy.py and storage.py): every tool call is checked against patterns, *)
(* two caches of "always" decisions and the default of its tool, and when  *)
(* none of them decides the user is asked and the call waits.              *)
(*                                                                         *)
(* A request is one call of check_and_wait.  It is its own tool_use_id:    *)
(* the model provider gives every tool call an identifier of its own.      *)
(***************************************************************************)
EXTENDS Naturals

CONSTANTS
  Requests,    \* calls of check_and_wait
  Sessions,
  Tools,
  Bash,        \* the tool whose commands are looked at
  Default,     \* the default policy of every tool; "ask" for unknown tools
  HasTimeout,  \* permission.timeout_s > 0
  None

ASSUME BashAssumption    == Bash \in Tools
ASSUME DefaultAssumption == Default \in [Tools -> {"allow", "deny", "ask"}]
ASSUME TimeoutAssumption == HasTimeout \in BOOLEAN
ASSUME NoneIsNoDecision  ==
  None \notin {"allow", "deny", "allow_once", "always_allow", "deny_once", "always_deny"}

VARIABLES
  stage,             \* how far a request has come, or its verdict
  about,             \* what a request is about
  pending,           \* PermissionManager._pending
  future,            \* the result of the request's Future
  sessionAlways,     \* PermissionManager._session_always
  persistentAlways,  \* PermissionManager._persistent_always
  policyFile,        \* policy.toml
  attached,          \* some client is connected and may answer
  saveFailed,        \* history: the last write of policy.toml failed
  said               \* history: every "always" a user has answered, and where

vars == <<stage, about, pending, future, sessionAlways, persistentAlways,
          policyFile, attached, saveFailed, said>>

caches == <<sessionAlways, persistentAlways, policyFile, saveFailed>>

-----------------------------------------------------------------------------
(* Types.                                                                  *)

\* What a bash command is found to be: matching a deny pattern, reaching
\* outside the working directory, matching an allow pattern, or none of them.
Commands == {"denied", "outside", "trusted", "plain"}

Subjects == {q \in [session: Sessions, tool: Tools, command: Commands] :
               q.command # "plain" => q.tool = Bash}

ASSUME NoneIsNoSubject == None \notin Subjects

Decisions == {"allow_once", "always_allow", "deny_once", "always_deny"}
Grants    == {"allow_once", "always_allow"}

\* The decision by which a word is said for good.
Always(word) == IF word = "allow" THEN "always_allow" ELSE "always_deny"

Verdicts  == Decisions \union {"auto_allow", "auto_deny", "timeout", "cancelled", "lost"}

Policy == [Tools -> {"allow", "deny", None}]

NoPolicy == [t \in Tools |-> None]

\* Said: in which session, on which tool, and whether the word was "allow".
Words == Sessions \X Tools \X {"allow", "deny"}

TypeOK ==
  /\ stage \in [Requests -> {"unused", "asking", "waiting"} \union Verdicts]
  /\ about \in [Requests -> Subjects \union {None}]
  /\ pending \in SUBSET Requests
  /\ future \in [Requests -> Decisions \union {None}]
  /\ sessionAlways \in [Sessions -> Policy]
  /\ persistentAlways \in Policy
  /\ policyFile \in Policy
  /\ attached \in BOOLEAN
  /\ saveFailed \in BOOLEAN
  /\ said \in SUBSET Words

Init ==
  /\ stage = [r \in Requests |-> "unused"]
  /\ about = [r \in Requests |-> None]
  /\ pending = {}
  /\ future = [r \in Requests |-> None]
  /\ sessionAlways = [s \in Sessions |-> NoPolicy]
  /\ persistentAlways = NoPolicy
  /\ policyFile = NoPolicy
  /\ attached = TRUE
  /\ saveFailed = FALSE
  /\ said = {}

-----------------------------------------------------------------------------
(* What is decided without asking, tier by tier.                           *)

Unasked == [allow |-> "auto_allow", deny |-> "auto_deny", ask |-> "ask"]

Cached(q) ==
  IF sessionAlways[q.session][q.tool] # None
    THEN sessionAlways[q.session][q.tool] ELSE persistentAlways[q.tool]

\* Mutation: the caches are consulted before the working directory is.
DecideCachedFirst(q) ==
  IF q.command = "denied" THEN "auto_deny"
  ELSE IF Cached(q) # None THEN Unasked[Cached(q)]
  ELSE IF q.command = "outside" THEN "ask"
  ELSE IF q.command = "trusted" THEN "auto_allow"
  ELSE Unasked[Default[q.tool]]

Decide(q) ==
  IF q.command = "denied" THEN "auto_deny"
  ELSE IF q.command = "outside" THEN "ask"
  ELSE IF Cached(q) # None THEN Unasked[Cached(q)]
  ELSE IF q.command = "trusted" THEN "auto_allow"
  ELSE Unasked[Default[q.tool]]

Open(r) == stage[r] \in {"asking", "waiting"}

-----------------------------------------------------------------------------
(* check_and_wait.                                                         *)

CheckDecides(r, q) ==
  /\ stage[r] = "unused"
  /\ Decide(q) # "ask"
  /\ stage' = [stage EXCEPT ![r] = Decide(q)]
  /\ about' = [about EXCEPT ![r] = q]
  /\ UNCHANGED <<pending, future, attached>> /\ UNCHANGED caches /\ UNCHANGED said

\* Mutation: the request is registered after its event has gone out.
CheckAsksUnregistered(r, q) ==
  /\ stage[r] = "unused"
  /\ Decide(q) = "ask"
  /\ stage' = [stage EXCEPT ![r] = "asking"]
  /\ about' = [about EXCEPT ![r] = q]
  /\ UNCHANGED <<pending, future, attached>> /\ UNCHANGED caches /\ UNCHANGED said

\* The Future is registered, then permission.requested is being published.
CheckAsks(r, q) ==
  /\ stage[r] = "unused"
  /\ Decide(q) = "ask"
  /\ stage' = [stage EXCEPT ![r] = "asking"]
  /\ about' = [about EXCEPT ![r] = q]
  /\ pending' = pending \union {r}
  /\ UNCHANGED <<future, attached>> /\ UNCHANGED caches /\ UNCHANGED said

\* The event has reached every client; only now the clock starts.
Announced(r) ==
  /\ stage[r] = "asking"
  /\ stage' = [stage EXCEPT ![r] = "waiting"]
  /\ UNCHANGED <<about, pending, future, attached>> /\ UNCHANGED caches /\ UNCHANGED said

\* What a write that is broken off leaves of a policy, for load_policy_file.
Parts(policy) ==
  {[t \in Tools |-> IF t \in written THEN policy[t] ELSE None] : written \in SUBSET Tools}

\* save_policy_file: a write that fails is logged and leaves policy.toml as it
\* was, or truncated and written in part.
SavePolicy(policy) ==
  \/ policyFile' = policy /\ saveFailed' = FALSE
  \/ policyFile' \in {policyFile} \union Parts(policy) /\ saveFailed' = TRUE

\* Mutation: the file is written with the new decision alone.
ApplySavesOne(decision, q) ==
  \/ /\ decision \in {"allow_once", "deny_once"}
     /\ UNCHANGED caches
  \/ \E word \in {"allow", "deny"} :
       /\ decision = Always(word)
       /\ sessionAlways' = [sessionAlways EXCEPT ![q.session][q.tool] = word]
       /\ persistentAlways' = [persistentAlways EXCEPT ![q.tool] = word]
       /\ SavePolicy([NoPolicy EXCEPT ![q.tool] = word])

\* Mutation: the branch of "always deny" was copied and not changed.
ApplyAllowsBoth(decision, q) ==
  \/ /\ decision \in {"allow_once", "deny_once"}
     /\ UNCHANGED caches
  \/ /\ decision \in {"always_allow", "always_deny"}
     /\ sessionAlways' = [sessionAlways EXCEPT ![q.session][q.tool] = "allow"]
     /\ persistentAlways' = [persistentAlways EXCEPT ![q.tool] = "allow"]
     /\ SavePolicy(persistentAlways')

\* Mutation: the caches keep the answer instead of what it means.
ApplyRaw(decision, q) ==
  \/ /\ decision \in {"allow_once", "deny_once"}
     /\ UNCHANGED caches
  \/ /\ decision \in {"always_allow", "always_deny"}
     /\ sessionAlways' = [sessionAlways EXCEPT ![q.session][q.tool] = decision]
     /\ persistentAlways' = [persistentAlways EXCEPT ![q.tool] = decision]
     /\ SavePolicy(persistentAlways')

\* _apply_response.
ApplyResponse(decision, q) ==
  \/ /\ decision \in {"allow_once", "deny_once"}
     /\ UNCHANGED caches
  \/ \E word \in {"allow", "deny"} :
       /\ decision = Always(word)
       /\ sessionAlways' = [sessionAlways EXCEPT ![q.session][q.tool] = word]
       /\ persistentAlways' = [persistentAlways EXCEPT ![q.tool] = word]
       /\ SavePolicy(persistentAlways')

\* The waiting task is resumed with the answer.
Answered(r) ==
  /\ stage[r] = "waiting"
  /\ future[r] # None
  /\ ApplyResponse(future[r], about[r])
  /\ stage' = [stage EXCEPT ![r] = future[r]]
  /\ UNCHANGED <<about, pending, future, attached>> /\ UNCHANGED said

\* asyncio.wait_for gives up.  When the answer came in the same iteration of
\* the loop, Python 3.11 returns the answer and later versions time out.
Timeout(r) ==
  /\ HasTimeout
  /\ stage[r] = "waiting"
  /\ stage' = [stage EXCEPT ![r] = "timeout"]
  /\ pending' = pending \ {r}
  /\ UNCHANGED <<about, future, attached>> /\ UNCHANGED caches /\ UNCHANGED said

\* The run of the request is cancelled; nothing removes the pending entry.
Cancel(r) ==
  /\ Open(r)
  /\ stage' = [stage EXCEPT ![r] = "cancelled"]
  /\ UNCHANGED <<about, pending, future, attached>> /\ UNCHANGED caches /\ UNCHANGED said

-----------------------------------------------------------------------------
(* Clients.                                                                *)

\* History: what the user says of a tool in a session when it says "always".
Remember(decision, q) ==
  \/ decision \in {"allow_once", "deny_once"} /\ UNCHANGED said
  \/ \E word \in {"allow", "deny"} :
       /\ decision = Always(word)
       /\ said' = said \union {<<q.session, q.tool, word>>}

\* permission.respond: an answer without a pending entry is ignored, and so is
\* one to a request that was cancelled.
Respond(r, decision) ==
  /\ attached
  /\ r \in pending
  /\ pending' = pending \ {r}
  /\ IF Open(r)
       THEN /\ future' = [future EXCEPT ![r] = decision]
            /\ Remember(decision, about[r])
       ELSE UNCHANGED future /\ UNCHANGED said
  /\ UNCHANGED <<stage, about, attached>> /\ UNCHANGED caches

\* The last client goes away.  Nobody calls cancel_session.
Disconnect ==
  /\ attached
  /\ attached' = FALSE
  /\ UNCHANGED <<stage, about, pending, future>> /\ UNCHANGED caches /\ UNCHANGED said

Attach ==
  /\ ~attached
  /\ attached' = TRUE
  /\ UNCHANGED <<stage, about, pending, future>> /\ UNCHANGED caches /\ UNCHANGED said

\* The daemon has died while the answer of r was being saved.
Torn(r) ==
  /\ stage[r] = "waiting"
  /\ \E word \in {"allow", "deny"} :
       /\ future[r] = Always(word)
       /\ policyFile' \in Parts([persistentAlways EXCEPT ![about[r].tool] = word])

\* The daemon is started again and loads policy.toml.
Restart ==
  /\ UNCHANGED policyFile \/ \E r \in Requests : Torn(r)
  /\ stage' = [r \in Requests |-> IF Open(r) THEN "lost" ELSE stage[r]]
  /\ pending' = {}
  /\ sessionAlways' = [s \in Sessions |-> NoPolicy]
  /\ persistentAlways' = policyFile'
  /\ saveFailed' = FALSE
  /\ UNCHANGED <<about, future, attached>> /\ UNCHANGED said

-----------------------------------------------------------------------------
(* The specification.                                                      *)

Next ==
  \/ \E r \in Requests :
       \/ \E q \in Subjects : CheckDecides(r, q) \/ CheckAsks(r, q)
       \/ Announced(r)
       \/ Answered(r)
       \/ Timeout(r)
       \/ Cancel(r)
       \/ \E decision \in Decisions : Respond(r, decision)
  \/ Disconnect
  \/ Attach
  \/ Restart

Spec == Init /\ [][Next]_vars

-----------------------------------------------------------------------------
(* Safety.                                                                 *)

\* A request that waits for an answer can be answered from the moment a client
\* learns of it, and no other entry is kept than that of a cancelled request.
PendingIsOpen ==
  \A r \in Requests :
    /\ Open(r) /\ future[r] = None => r \in pending
    /\ r \in pending => stage[r] \in {"asking", "waiting", "cancelled"} /\ future[r] = None

\* A command that reaches outside the working directory is executed only when
\* the user has granted this very request, whatever is cached.
OutsideNeedsConsent ==
  \A r \in Requests :
    about[r] # None /\ about[r].command = "outside"
      /\ stage[r] \in Grants \union {"auto_allow"} => future[r] \in Grants

\* A tool that has to be asked for is let through unasked only when a user has
\* said "always allow" of it, in whatever session and before whatever restart.
AutoAllowHasAuthor ==
  \A r \in Requests :
    about[r] # None /\ about[r].command = "plain" /\ stage[r] = "auto_allow" =>
      \/ Default[about[r].tool] = "allow"
      \/ \E s \in Sessions : <<s, about[r].tool, "allow">> \in said

\* The task of r is resumed with the decision that word holds for t for good.
Applies(r, t, word) ==
  /\ stage[r] = "waiting" /\ about[r].tool = t
  /\ word \in {"allow", "deny"} /\ stage'[r] = Always(word)

\* What is decided changes when a decision is applied, and in a restart: sessions then
\* lose theirs, and what was decided for all of them may be lost with policy.toml.
Stand ==
  /\ \A t \in Tools :
       \/ persistentAlways'[t] = persistentAlways[t]
       \/ \E r \in Requests : Applies(r, t, persistentAlways'[t])
       \/ Restart /\ (saveFailed \/ policyFile' # policyFile)
  /\ \A s \in Sessions, t \in Tools :
       \/ sessionAlways'[s][t] = sessionAlways[s][t]
       \/ \E r \in Requests : Applies(r, t, sessionAlways'[s][t]) /\ about[r].session = s
       \/ Restart
  /\ \A r \in Requests, t \in Tools, word \in {"allow", "deny"} :
       Applies(r, t, word) =>
         persistentAlways'[t] = word /\ sessionAlways'[about[r].session][t] = word

\* A decision for good that was applied stands until the next one about its tool: in
\* its session as long as the daemon lives, and for all sessions through every restart,
\* unless policy.toml could not be written before it or was being written when the
\* daemon died.
DecisionsStand == [][Stand]_vars

=============================================================================
