------------------------ MODULE ToolInvocationProofs ------------------------
(***************************************************************************)
(* Proofs about ToolInvocation: a tool call is a behaviour of the          *)
(* permission manager, only calls that were let through are executed, and  *)
(* what is published of a call is what happened to it.                     *)
(***************************************************************************)
EXTENDS ToolInvocation, FiniteSetTheorems, TLAPS

\* Every step of a tool call is a step of the permission manager or none: what
\* is proved of the manager holds of it as it is used.
THEOREM PermissionTheorem == Spec => PM!Spec
<1>1. Init => PM!Init
  BY DEF Init
<1>2. ASSUME [Next]_vars PROVE [PM!Next]_(PM!vars)
  <2>1. CASE UNCHANGED permissionVars
    BY <2>1 DEF permissionVars, PM!vars
  <2>2. ASSUME NEW r \in Requests, NEW q \in PM!Subjects,
               PM!CheckDecides(r, q) \/ PM!CheckAsks(r, q)
        PROVE  PM!Next
    BY <2>2 DEF PM!Next
  <2>3. ASSUME NEW r \in Requests,
               PM!Announced(r) \/ PM!Answered(r) \/ PM!Timeout(r) \/ PM!Cancel(r)
        PROVE  PM!Next
    BY <2>3 DEF PM!Next
  <2>4. ASSUME NEW r \in Requests, Progress(r) PROVE [PM!Next]_(PM!vars)
    <3>1. CASE \E q \in PM!Subjects : AllowedUnasked(r, q) \/ DeniedUnasked(r, q) \/ Ask(r, q)
      BY <3>1, <2>2 DEF AllowedUnasked, DeniedUnasked, Ask
    <3>2. CASE Answered(r) \/ AnswerTimeout(r)
      BY <3>2, <2>3 DEF Answered, AnswerTimeout
    <3>3. QED
      BY <2>1, <2>4, <3>1, <3>2
      DEF Progress, Refuse, Deny, Execute, Succeed, FailTransiently, FailFinally, Retry, Return
  <2>5. ASSUME NEW r \in Requests, Start(r) \/ Cancel(r) PROVE [PM!Next]_(PM!vars)
    BY <2>1, <2>3, <2>5 DEF Start, Cancel
  <2>6. CASE Elsewhere
    BY <2>6 DEF Elsewhere, PM!Next
  <2>7. CASE Restart
    BY <2>7 DEF Restart, PM!Next
  <2>8. CASE UNCHANGED vars
    BY <2>1, <2>8 DEF vars
  <2>9. QED
    BY <1>2, <2>4, <2>5, <2>6, <2>7, <2>8 DEF Next
<1>3. QED
  BY <1>1, <1>2, PTL DEF Spec, PM!Spec

-----------------------------------------------------------------------------
(* The verdict and the place in invoke_tool go together.                   *)

Allowed == PM!Grants \union {"auto_allow"}

\* The steps at and after which the tool has been allowed.
PastGate == {"granting", "invoking", "finishing", "retrying"}

\* Where a call is tells what its request has come to.
VerdictFits(r) ==
  /\ step[r] \in {"unused", "started"} => stage[r] = "unused"
  /\ step[r] = "checking" <=> PM!Open(r)
  /\ step[r] \in PastGate => stage[r] \in Allowed
  /\ attempt[r] > 0 => stage[r] \in Allowed

CallInv ==
  /\ stage \in [Requests -> {"unused", "asking", "waiting"} \union PM!Verdicts]
  /\ future \in [Requests -> PM!Decisions \union {None}]
  /\ step \in [Requests -> {"unused"} \union Suspended \union Over]
  /\ attempt \in [Requests -> Nat]
  /\ \A r \in Requests : VerdictFits(r)

LEMMA InitCall == Init => CallInv
BY DEF Init, PM!Init, CallInv, VerdictFits, PM!Open, PastGate

\* A step of invoke_tool after check_and_wait, or before it.
LEMMA CallMoves ==
  ASSUME CallInv, NEW r \in Requests, NEW from, NEW to \in Suspended \union Over,
         Goes(r, from, to), UNCHANGED stage, UNCHANGED future,
         \/ UNCHANGED attempt
         \/ Executes(r) /\ from \in PastGate,
         from \in Suspended \union {"unused"}, from # "checking", to # "checking",
         to \in PastGate => from \in PastGate,
         to = "started" => from = "unused"
  PROVE  CallInv'
<1>1. step[r] = from /\ step' = [step EXCEPT ![r] = to] /\ stage' = stage
  BY DEF Goes
<1>2. attempt' \in [Requests -> Nat]
  BY DEF CallInv, Executes
<1>3. \A x \in Requests : x # r => attempt'[x] = attempt[x] /\ step'[x] = step[x]
  BY <1>1 DEF CallInv, Executes
<1>4. attempt'[r] > 0 => stage[r] \in Allowed
  BY <1>1 DEF CallInv, VerdictFits
<1>5. VerdictFits(r)'
  BY <1>1, <1>4 DEF CallInv, VerdictFits, PM!Open, PastGate, Suspended, Over
<1>6. \A x \in Requests : x # r => VerdictFits(x)'
  BY <1>1, <1>3 DEF CallInv, VerdictFits, PM!Open
<1>7. QED
  BY <1>1, <1>2, <1>5, <1>6 DEF CallInv

\* A step that enters or leaves check_and_wait.
LEMMA CallJudged ==
  ASSUME CallInv, NEW r \in Requests,
         NEW from \in {"started", "checking"}, NEW to \in Suspended \union {"cancelled"},
         NEW verdict \in {"asking"} \union PM!Verdicts,
         Goes(r, from, to), stage' = [stage EXCEPT ![r] = verdict], UNCHANGED future,
         to # "started",
         verdict = "asking" <=> to = "checking",
         to \in PastGate => verdict \in Allowed,
         \/ UNCHANGED attempt
         \/ Executes(r) /\ verdict \in Allowed
  PROVE  CallInv'
<1>1. step[r] = from /\ step' = [step EXCEPT ![r] = to]
  BY DEF Goes
<1>2. attempt' \in [Requests -> Nat]
  BY DEF CallInv, Executes
<1>3. \A x \in Requests : x # r =>
        attempt'[x] = attempt[x] /\ step'[x] = step[x] /\ stage'[x] = stage[x]
  BY <1>1 DEF CallInv, Executes
<1>4. step'[r] = to /\ stage'[r] = verdict
  BY <1>1 DEF CallInv
<1>5. stage[r] \notin Allowed
  BY <1>1 DEF CallInv, VerdictFits, PM!Open, Allowed, PM!Grants
<1>6. attempt'[r] > 0 => verdict \in Allowed
  BY <1>5 DEF CallInv, VerdictFits
<1>7. VerdictFits(r)'
  BY <1>4, <1>6
  DEF VerdictFits, PM!Open, PastGate, PM!Verdicts, PM!Decisions, Suspended
<1>8. \A x \in Requests : x # r => VerdictFits(x)'
  BY <1>3 DEF CallInv, VerdictFits, PM!Open
<1>9. QED
  BY <1>1, <1>2, <1>7, <1>8 DEF CallInv, PM!Verdicts, Over

LEMMA NextCall == CallInv /\ [Next]_vars => CallInv'
<1> SUFFICES ASSUME CallInv, [Next]_vars PROVE CallInv'
  OBVIOUS
<1>1. ASSUME NEW r \in Requests,
             \/ Start(r) \/ Refuse(r) \/ Deny(r) \/ Execute(r) \/ Succeed(r)
             \/ FailTransiently(r) \/ FailFinally(r) \/ Retry(r) \/ Return(r)
      PROVE  CallInv'
  BY <1>1, CallMoves
  DEF Start, Refuse, Deny, Execute, Succeed, FailTransiently, FailFinally, Retry, Return,
      permissionVars, Suspended, Over, PastGate
<1>2. ASSUME NEW r \in Requests, NEW q \in PM!Subjects,
             AllowedUnasked(r, q) \/ DeniedUnasked(r, q) \/ Ask(r, q)
      PROVE  CallInv'
  BY <1>2, CallJudged
  DEF AllowedUnasked, DeniedUnasked, Ask, PM!CheckDecides, PM!CheckAsks,
      Suspended, PM!Verdicts, Allowed, PastGate
<1>3. ASSUME NEW r \in Requests, Answered(r) \/ AnswerTimeout(r) PROVE CallInv'
  <2>1. CASE Answered(r)
    <3>1. future[r] \in PM!Decisions /\ stage' = [stage EXCEPT ![r] = future[r]] /\ future' = future
      BY <2>1 DEF Answered, PM!Answered, CallInv
    <3>2. CASE future[r] \in PM!Grants /\ Goes(r, "checking", "granting")
      BY <2>1, <3>1, <3>2, CallJudged
      DEF Answered, Suspended, PM!Verdicts, PM!Decisions, Allowed, PastGate
    <3>3. CASE future[r] \notin PM!Grants /\ Goes(r, "checking", "denying")
      BY <2>1, <3>1, <3>3, CallJudged
      DEF Answered, Suspended, PM!Verdicts, PM!Decisions, Allowed, PastGate
    <3>4. QED
      BY <2>1, <3>2, <3>3 DEF Answered
  <2>2. CASE AnswerTimeout(r)
    BY <2>2, CallJudged
    DEF AnswerTimeout, PM!Timeout, Suspended, PM!Verdicts, PastGate
  <2>3. QED
    BY <1>3, <2>1, <2>2
<1>4. ASSUME NEW r \in Requests, Cancel(r) PROVE CallInv'
  <2>1. CASE step[r] = "checking"
    BY <1>4, <2>1, CallJudged
    DEF Cancel, Goes, PM!Cancel, PM!Verdicts, PastGate
  <2>2. CASE step[r] # "checking"
    BY <1>4, <2>2, CallMoves
    DEF Cancel, Goes, permissionVars, Over, PastGate
  <2>3. QED
    BY <2>1, <2>2
<1>5. ASSUME NEW r \in Requests, PM!Announced(r), UNCHANGED <<step, attempt>> PROVE CallInv'
  BY <1>5 DEF PM!Announced, CallInv, VerdictFits, PM!Open, Allowed, PM!Grants
<1>6. ASSUME UNCHANGED <<stage, step, attempt>>, future' \in [Requests -> PM!Decisions \union {None}]
      PROVE  CallInv'
  BY <1>6 DEF CallInv, VerdictFits, PM!Open
<1>7. CASE Elsewhere
  BY <1>5, <1>6, <1>7
  DEF Elsewhere, PM!Respond, PM!Disconnect, PM!Attach, CallInv
<1>8. CASE Restart
  <2>1. /\ stage' = [r \in Requests |-> IF PM!Open(r) THEN "lost" ELSE stage[r]]
        /\ step' = [r \in Requests |-> IF step[r] \in Suspended THEN "lost" ELSE step[r]]
        /\ UNCHANGED <<future, attempt>>
    BY <1>8 DEF Restart, PM!Restart
  <2>2. /\ stage' \in [Requests -> {"unused", "asking", "waiting"} \union PM!Verdicts]
        /\ step' \in [Requests -> {"unused"} \union Suspended \union Over]
    BY <2>1 DEF CallInv, PM!Verdicts, Over
  <2>3. ASSUME NEW r \in Requests PROVE VerdictFits(r)'
    <3>1. ~PM!Open(r)' /\ step'[r] # "checking" /\ step'[r] \notin PastGate
      BY <2>1 DEF CallInv, PM!Open, Suspended, Over, PastGate
    <3>2. step'[r] \in {"unused", "started"} => stage'[r] = "unused"
      BY <2>1 DEF CallInv, VerdictFits, PM!Open, Suspended
    <3>3. attempt'[r] > 0 => stage'[r] \in Allowed
      BY <2>1 DEF CallInv, VerdictFits, PM!Open, Allowed, PM!Grants
    <3>4. QED
      BY <3>1, <3>2, <3>3 DEF VerdictFits
  <2>4. QED
    BY <2>1, <2>2, <2>3 DEF CallInv
<1>9. CASE UNCHANGED vars
  BY <1>6, <1>9 DEF vars, permissionVars, CallInv
<1>10. QED
  BY <1>1, <1>2, <1>3, <1>4, <1>7, <1>8, <1>9 DEF Next, Progress

\* Whatever is answered late, cancelled, timed out or restarted, a tool is only
\* ever executed, the first time or again, for a call that was let through.
THEOREM AllowedTheorem == Spec => []OnlyWhenAllowed
<1>1. CallInv => OnlyWhenAllowed
  BY DEF CallInv, VerdictFits, OnlyWhenAllowed, Allowed
<1>2. QED
  BY <1>1, InitCall, NextCall, PTL DEF Spec

-----------------------------------------------------------------------------
(* What is published and the place in invoke_tool go together.             *)

LEMMA OccurrencesAppend ==
  ASSUME NEW s \in Seq(Events), NEW e \in Events, NEW f \in Events
  PROVE  /\ Occurrences(s, f) \in Nat
         /\ Occurrences(Append(s, e), f) = Occurrences(s, f) + (IF f = e THEN 1 ELSE 0)
<1> DEFINE At == {i \in 1..Len(s) : s[i] = f}
           AtNext == {i \in 1..Len(Append(s, e)) : Append(s, e)[i] = f}
           n == Len(s) + 1
<1>1. /\ Len(s) \in Nat /\ Len(Append(s, e)) = n /\ Append(s, e)[n] = e
      /\ \A i \in 1..Len(s) : Append(s, e)[i] = s[i]
  OBVIOUS
<1>2. IsFiniteSet(At) /\ Cardinality(At) \in Nat
  <2>1. IsFiniteSet(1..Len(s))
    BY <1>1, FS_Interval
  <2>2. At \subseteq 1..Len(s)
    OBVIOUS
  <2>3. QED
    BY <2>1, <2>2, FS_Subset, FS_CardinalityType
<1>3. n \notin At
  BY <1>1
<1>7. Occurrences(s, f) = Cardinality(At) /\ Occurrences(Append(s, e), f) = Cardinality(AtNext)
  BY DEF Occurrences
<1>4. CASE f = e
  <2>1. AtNext = At \union {n}
    BY <1>1, <1>4
  <2>2. Cardinality(At \union {n}) = Cardinality(At) + 1
    BY <1>2, <1>3, FS_AddElement
  <2>3. QED
    BY <1>2, <1>4, <1>7, <2>1, <2>2
<1>5. CASE f # e
  <2>1. AtNext = At
    BY <1>1, <1>5
  <2> HIDE DEF At, AtNext
  <2>2. QED
    BY <1>2, <1>5, <1>7, <2>1
<1>6. QED
  BY <1>4, <1>5

LEMMA OccurrencesNone == \A f : Occurrences(<<>>, f) = 0
<1>1. \A f : {i \in 1..Len(<<>>) : <<>>[i] = f} = {}
  OBVIOUS
<1>2. QED
  BY <1>1, FS_EmptySet DEF Occurrences

\* How often each event has been published and the tool executed (at), by the place.
Tally(place, at, started, requested, granted, denied, failed, finished) ==
  /\ place \in Suspended \union {"ok", "error"} =>
       /\ started = 1
       /\ requested = granted + denied + (IF place = "checking" THEN 1 ELSE 0)
       /\ requested <= (IF place = "started" THEN 0 ELSE 1)
       /\ denied # 0 => at = 0
  /\ place \in {"started", "checking", "granting", "denying"} =>
       at = 0 /\ failed = 0 /\ finished = 0
  /\ place \in PastGate => denied = 0
  /\ place = "invoking" => at = failed + finished + 1
  /\ place \in {"retrying", "finishing"} => at > 0
  /\ place \in {"retrying", "finishing", "failing", "ok", "error"} /\ at > 0 => at = failed + finished

TallyOf(s, place, at) ==
  Tally(place, at, Occurrences(s, "started"), Occurrences(s, "requested"), Occurrences(s, "granted"),
        Occurrences(s, "denied"), Occurrences(s, "failed"), Occurrences(s, "finished"))

\* What has been published (s) and executed (at) of a call that is at place.
Fits(s, place, at) ==
  /\ place = "unused" => s = <<>> /\ at = 0
  /\ place \in Suspended \union {"ok", "error"} => s # <<>> /\ Head(s) = "started"
  /\ TallyOf(s, place, at)
  /\ place \in {"finishing", "ok"} => Last(s) = "finished"
  /\ place \in {"failing", "error"} => Last(s) = "failed"

ToldInv ==
  /\ step \in [Requests -> {"unused"} \union Suspended \union Over]
  /\ attempt \in [Requests -> Nat]
  /\ published \in [Requests -> Seq(Events)]
  /\ \A r \in Requests : Fits(published[r], step[r], attempt[r])

LEMMA InitTold == Init => ToldInv
<1>1. Fits(<<>>, "unused", 0)
  BY DEF Fits, TallyOf, Tally, Suspended, PastGate
<1>2. QED
  BY <1>1 DEF Init, ToldInv

\* A call goes from one place to another; e is what it says of that.
Says(s, e) == IF e = "nothing" THEN s ELSE Append(s, e)

\* The steps of a call: from where, to where, what is published, and executions begun.
Moves(from, to, e, runs) ==
  <<from, to, e, runs>> \in
    {<<"unused", "started", "started", 0>>,
     <<"started", "failing", "failed", 0>>,
     <<"started", "invoking", "nothing", 1>>,
     <<"started", "checking", "requested", 0>>,
     <<"checking", "granting", "granted", 0>>,
     <<"checking", "denying", "denied", 0>>,
     <<"denying", "failing", "failed", 0>>,
     <<"granting", "invoking", "nothing", 1>>,
     <<"invoking", "finishing", "finished", 0>>,
     <<"invoking", "retrying", "failed", 0>>,
     <<"invoking", "failing", "failed", 0>>,
     <<"retrying", "invoking", "nothing", 1>>,
     <<"finishing", "ok", "nothing", 0>>,
     <<"failing", "error", "nothing", 0>>}

LEMMA FitsOn ==
  ASSUME NEW s \in Seq(Events), NEW at \in Nat, NEW from, NEW to, NEW e, NEW runs,
         Fits(s, from, at), Moves(from, to, e, runs),
         NEW t, t = Says(s, e)
  PROVE  t \in Seq(Events) /\ Fits(t, to, at + runs)
<1>1. e \in Events \union {"nothing"} /\ "nothing" \notin Events
  BY DEF Events, Moves
<1>2. t \in Seq(Events)
  BY <1>1 DEF Says
<1>3. \A f \in Events : /\ Occurrences(s, f) \in Nat
                        /\ Occurrences(t, f) = Occurrences(s, f) + (IF f = e THEN 1 ELSE 0)
  BY <1>1, OccurrencesAppend DEF Says, Events
<1>4. e \in Events => Last(t) = e
  BY <1>1 DEF Says, Last
<1>5. e = "nothing" => t = s
  BY DEF Says
<1>6. s # <<>> => t # <<>> /\ Head(t) = Head(s)
  BY <1>1 DEF Says
<1>7. from = "unused" => t = <<"started">> /\ at = 0 /\ \A f \in Events : Occurrences(s, f) = 0
  BY OccurrencesNone DEF Says, Fits, Moves
<1>8. TallyOf(t, to, at + runs)
  <2>1. Tally(from, at, Occurrences(s, "started"), Occurrences(s, "requested"),
              Occurrences(s, "granted"), Occurrences(s, "denied"),
              Occurrences(s, "failed"), Occurrences(s, "finished"))
    BY DEF Fits, TallyOf
  <2>2. /\ Occurrences(s, "started") \in Nat
        /\ Occurrences(t, "started") = Occurrences(s, "started") + (IF "started" = e THEN 1 ELSE 0)
        /\ Occurrences(s, "requested") \in Nat
        /\ Occurrences(t, "requested") = Occurrences(s, "requested") + (IF "requested" = e THEN 1 ELSE 0)
        /\ Occurrences(s, "granted") \in Nat
        /\ Occurrences(t, "granted") = Occurrences(s, "granted") + (IF "granted" = e THEN 1 ELSE 0)
        /\ Occurrences(s, "denied") \in Nat
        /\ Occurrences(t, "denied") = Occurrences(s, "denied") + (IF "denied" = e THEN 1 ELSE 0)
        /\ Occurrences(s, "failed") \in Nat
        /\ Occurrences(t, "failed") = Occurrences(s, "failed") + (IF "failed" = e THEN 1 ELSE 0)
        /\ Occurrences(s, "finished") \in Nat
        /\ Occurrences(t, "finished") = Occurrences(s, "finished") + (IF "finished" = e THEN 1 ELSE 0)
    BY <1>3 DEF Events
  <2>3. from = "unused" =>
          /\ at = 0
          /\ Occurrences(s, "started") = 0
          /\ Occurrences(s, "requested") = 0
          /\ Occurrences(s, "granted") = 0
          /\ Occurrences(s, "denied") = 0
          /\ Occurrences(s, "failed") = 0
          /\ Occurrences(s, "finished") = 0
    BY <1>7 DEF Events
  <2>4. Tally(to, at + runs,
              Occurrences(s, "started") + (IF "started" = e THEN 1 ELSE 0),
              Occurrences(s, "requested") + (IF "requested" = e THEN 1 ELSE 0),
              Occurrences(s, "granted") + (IF "granted" = e THEN 1 ELSE 0),
              Occurrences(s, "denied") + (IF "denied" = e THEN 1 ELSE 0),
              Occurrences(s, "failed") + (IF "failed" = e THEN 1 ELSE 0),
              Occurrences(s, "finished") + (IF "finished" = e THEN 1 ELSE 0))
    BY <2>1, <2>2, <2>3, SMTT(60) DEF Tally, Moves, Suspended, PastGate
  <2>5. QED
    BY <2>2, <2>4 DEF TallyOf
<1>9. to \in Suspended \union {"ok", "error"} => t # <<>> /\ Head(t) = "started"
  BY <1>6, <1>7 DEF Fits, Moves, Suspended
<1>10. /\ to \in {"finishing", "ok"} => Last(t) = "finished"
       /\ to \in {"failing", "error"} => Last(t) = "failed"
  BY <1>4, <1>5 DEF Fits, Moves, Events
<1>11. to # "unused"
  BY DEF Moves
<1>12. QED
  BY <1>2, <1>8, <1>9, <1>10, <1>11 DEF Fits

-----------------------------------------------------------------------------
\* One call moves, and the others stay as they are.
LEMMA Tells ==
  ASSUME ToldInv, NEW r \in Requests, NEW from, NEW to \in Suspended \union Over, NEW e, NEW runs \in {0, 1},
         Goes(r, from, to), Moves(from, to, e, runs),
         IF e = "nothing" THEN UNCHANGED published ELSE Publishes(r, e),
         IF runs = 0 THEN UNCHANGED attempt ELSE Executes(r)
  PROVE  ToldInv'
<1>1. /\ step[r] = from /\ step' = [step EXCEPT ![r] = to]
      /\ Fits(published[r], from, attempt[r])
      /\ published[r] \in Seq(Events) /\ attempt[r] \in Nat
  BY DEF Goes, ToldInv
<1>2. published' = [published EXCEPT ![r] = Says(published[r], e)]
  BY DEF Publishes, Says, ToldInv
<1>3. attempt' = [attempt EXCEPT ![r] = attempt[r] + runs]
  BY DEF Executes, ToldInv
<1>4. Says(published[r], e) \in Seq(Events) /\ Fits(Says(published[r], e), to, attempt[r] + runs)
  BY <1>1, FitsOn
<1>5. /\ step' \in [Requests -> {"unused"} \union Suspended \union Over]
      /\ attempt' \in [Requests -> Nat] /\ published' \in [Requests -> Seq(Events)]
  BY <1>1, <1>2, <1>3, <1>4 DEF ToldInv
<1>6. \A x \in Requests : Fits(published[x], step[x], attempt[x])'
  <2>1. Fits(published'[r], step'[r], attempt'[r])
    BY <1>1, <1>2, <1>3, <1>4 DEF ToldInv
  <2>2. \A x \in Requests : x # r => Fits(published'[x], step'[x], attempt'[x])
    BY <1>1, <1>2, <1>3 DEF ToldInv
  <2>3. QED
    BY <2>1, <2>2
<1>7. QED
  BY <1>5, <1>6 DEF ToldInv

\* A call that is cancelled or lost says nothing more, and nothing is said of it.
LEMMA FitsGone ==
  ASSUME NEW s, NEW at, NEW place \in {"cancelled", "lost"}
  PROVE  Fits(s, place, at)
BY DEF Fits, TallyOf, Tally, Suspended, PastGate

LEMMA NextTold == ToldInv /\ [Next]_vars => ToldInv'
<1> SUFFICES ASSUME ToldInv, [Next]_vars PROVE ToldInv'
  OBVIOUS
<1>1. ASSUME NEW r \in Requests,
             Start(r) \/ Refuse(r) \/ Deny(r) \/ Execute(r) \/ Succeed(r)
      PROVE  ToldInv'
  BY <1>1, Tells DEF Start, Refuse, Deny, Execute, Succeed, Moves, Suspended
<1>2. ASSUME NEW r \in Requests,
             FailTransiently(r) \/ FailFinally(r) \/ Retry(r) \/ Return(r)
      PROVE  ToldInv'
  BY <1>2, Tells DEF FailTransiently, FailFinally, Retry, Return, Moves, Suspended, Over
<1>3. ASSUME NEW r \in Requests, NEW q \in PM!Subjects,
             AllowedUnasked(r, q) \/ DeniedUnasked(r, q) \/ Ask(r, q)
      PROVE  ToldInv'
  BY <1>3, Tells DEF AllowedUnasked, DeniedUnasked, Ask, Moves, Suspended
<1>4. ASSUME NEW r \in Requests, Answered(r) \/ AnswerTimeout(r) PROVE ToldInv'
  BY <1>4, Tells DEF Answered, AnswerTimeout, Moves, Suspended
<1>5. ASSUME NEW gone \in {"cancelled", "lost"}, UNCHANGED <<attempt, published>>,
             step' \in [Requests -> {"unused"} \union Suspended \union Over],
             \A x \in Requests : step'[x] \in {step[x], gone}
      PROVE  ToldInv'
  BY <1>5, FitsGone DEF ToldInv
<1>6. ASSUME NEW r \in Requests, Cancel(r) PROVE ToldInv'
  BY <1>5, <1>6 DEF Cancel, ToldInv, Over
<1>7. CASE Restart
  BY <1>5, <1>7 DEF Restart, ToldInv, Over
<1>8. CASE UNCHANGED <<step, attempt, published>>
  BY <1>8 DEF ToldInv
<1>9. CASE Elsewhere \/ UNCHANGED vars
  BY <1>8, <1>9 DEF Elsewhere, vars
<1>10. QED
  BY <1>1, <1>2, <1>3, <1>4, <1>6, <1>7, <1>9 DEF Next, Progress

\* Subscribers see of every call that returned what became of it: it started first, was
\* asked about at most once, was executed only if not denied, and failed as often as it
\* was executed without success.
THEOREM ToldTheorem == Spec => []ToldAsItWas
<1>1. ToldInv => ToldAsItWas
  <2>1. SUFFICES ASSUME ToldInv, NEW r \in Requests, step[r] \in {"ok", "error"}
                 PROVE  /\ Head(published[r]) = "started"
                        /\ Last(published[r]) = IF step[r] = "ok" THEN "finished" ELSE "failed"
                        /\ Count(r, "started") = 1
                        /\ Count(r, "requested") = Count(r, "granted") + Count(r, "denied")
                        /\ Count(r, "requested") <= 1
                        /\ Count(r, "denied") = 1 => attempt[r] = 0
                        /\ attempt[r] > 0 => Count(r, "failed") + Count(r, "finished") = attempt[r]
    BY DEF ToldAsItWas
  <2>2. Fits(published[r], step[r], attempt[r]) /\ published[r] \in Seq(Events)
    BY <2>1 DEF ToldInv
  <2>3. \A f \in Events : Count(r, f) \in Nat
    BY <2>2, OccurrencesAppend DEF Count, Events
  <2>4. /\ Count(r, "granted") \in Nat /\ Count(r, "denied") \in Nat
    BY <2>3 DEF Events
  <2>5. QED
    BY <2>1, <2>2, <2>4 DEF Fits, TallyOf, Tally, Count
<1>2. QED
  BY <1>1, InitTold, NextTold, PTL DEF Spec
-----------------------------------------------------------------------------
(* What is proved of the permission manager holds of it as it is used.     *)

Manager == INSTANCE PermissionManagerProofs

LEMMA ManagerAssumptions ==
  /\ Bash \in Tools
  /\ Default \in [Tools -> {"allow", "deny", "ask"}]
  /\ HasTimeout \in BOOLEAN
  /\ None \notin {"allow", "deny", "allow_once", "always_allow", "deny_once", "always_deny"}
  /\ None \notin Manager!Subjects
BY PermissionAssumption
DEF PM!Decisions, PM!Subjects, PM!Commands, Manager!Subjects, Manager!Commands

LEMMA SameTypes == PM!TypeOK <=> Manager!TypeOK
BY DEF PM!TypeOK, PM!Verdicts, PM!Decisions, PM!Policy, PM!Words, PM!Subjects, PM!Commands,
  Manager!TypeOK, Manager!Verdicts, Manager!Decisions, Manager!Policy, Manager!Words,
  Manager!Subjects, Manager!Commands

\* The definitions are the same, under two names.
LEMMA SameManager == PM!Spec => Manager!Spec
<1>1. PM!Init <=> Manager!Init
  BY DEF PM!Init, PM!NoPolicy, Manager!Init, Manager!NoPolicy
<1>2. [PM!Next]_(PM!vars) <=> [Manager!Next]_(Manager!vars)
  BY DEF PM!Next, PM!vars, PM!caches, PM!Subjects, PM!Commands, PM!Decisions, PM!NoPolicy,
    PM!Unasked, PM!Cached, PM!Decide, PM!Open, PM!SavePolicy, PM!ApplyResponse, PM!Remember,
    PM!CheckDecides, PM!CheckAsks, PM!Announced, PM!Answered, PM!Timeout, PM!Cancel,
    PM!Respond, PM!Disconnect, PM!Attach, PM!Restart, PM!Torn, PM!Parts, PM!Always,
    Manager!Next, Manager!vars, Manager!caches, Manager!Subjects, Manager!Commands,
    Manager!Decisions, Manager!NoPolicy, Manager!Unasked, Manager!Cached, Manager!Decide,
    Manager!Open, Manager!SavePolicy, Manager!ApplyResponse, Manager!Remember,
    Manager!CheckDecides, Manager!CheckAsks, Manager!Announced, Manager!Answered,
    Manager!Timeout, Manager!Cancel, Manager!Respond, Manager!Disconnect, Manager!Attach,
    Manager!Restart, Manager!Torn, Manager!Parts, Manager!Always
<1>3. QED
  BY <1>1, <1>2, PTL DEF PM!Spec, Manager!Spec

-----------------------------------------------------------------------------
(* Types.                                                                  *)

\* A call that will be retried has a retry left.
Bounded ==
  \A r \in Requests : /\ attempt[r] <= MaxRetries + 1
                      /\ step[r] = "retrying" => attempt[r] <= MaxRetries

LEMMA InitBounded == Init => Bounded
BY MaxRetriesAssumption DEF Init, Bounded

\* A call that has not passed the gate has not been executed.
LEMMA NotYetExecuted ==
  ASSUME ToldInv, NEW r \in Requests, step[r] \in {"started", "granting"}
  PROVE  attempt[r] = 0
BY DEF ToldInv, Fits, TallyOf, Tally

LEMMA NextBounded == ASSUME ToldInv, Bounded, [Next]_vars PROVE Bounded'
<1>1. step \in [Requests -> {"unused"} \union Suspended \union Over] /\ attempt \in [Requests -> Nat]
  BY DEF ToldInv
<1>2. ASSUME NEW r \in Requests, NEW from, NEW to, Goes(r, from, to), UNCHANGED attempt,
             to = "retrying" => attempt[r] <= MaxRetries
      PROVE  Bounded'
  BY <1>1, <1>2 DEF Goes, Bounded
<1>3. ASSUME NEW r \in Requests, NEW from \in {"started", "granting", "retrying"},
             Goes(r, from, "invoking"), Executes(r)
      PROVE  Bounded'
  <2>1. /\ step' = [step EXCEPT ![r] = "invoking"]
        /\ attempt' = [attempt EXCEPT ![r] = attempt[r] + 1]
    BY <1>3 DEF Goes, Executes
  <2>2. attempt[r] <= MaxRetries
    BY <1>3, NotYetExecuted, MaxRetriesAssumption DEF Goes, Bounded
  <2>3. QED
    BY <1>1, <2>1, <2>2, MaxRetriesAssumption DEF Bounded
<1>4. ASSUME NEW r \in Requests,
             \/ Start(r) \/ Refuse(r) \/ Deny(r) \/ Succeed(r)
             \/ FailTransiently(r) \/ FailFinally(r) \/ Return(r)
             \/ Answered(r) \/ AnswerTimeout(r)
      PROVE  Bounded'
  BY <1>2, <1>4
  DEF Start, Refuse, Deny, Succeed, FailTransiently, FailFinally, Return, Answered, AnswerTimeout
<1>5. ASSUME NEW r \in Requests, Execute(r) \/ Retry(r) PROVE Bounded'
  BY <1>3, <1>5 DEF Execute, Retry
<1>6. ASSUME NEW r \in Requests, NEW q \in PM!Subjects,
             AllowedUnasked(r, q) \/ DeniedUnasked(r, q) \/ Ask(r, q)
      PROVE  Bounded'
  BY <1>2, <1>3, <1>6 DEF AllowedUnasked, DeniedUnasked, Ask
<1>7. ASSUME UNCHANGED attempt, \A r \in Requests : step'[r] = "retrying" => step[r] = "retrying"
      PROVE  Bounded'
  BY <1>7 DEF Bounded
<1>8. ASSUME NEW r \in Requests, Cancel(r) PROVE Bounded'
  BY <1>1, <1>7, <1>8 DEF Cancel
<1>9. CASE Restart
  BY <1>7, <1>9 DEF Restart
<1>10. CASE Elsewhere \/ UNCHANGED vars
  BY <1>7, <1>10 DEF Elsewhere, vars
<1>11. QED
  BY <1>4, <1>5, <1>6, <1>8, <1>9, <1>10 DEF Next, Progress

\* A tool call and the permission manager it asks keep their types; no call is executed
\* more often than _MAX_RETRIES allows.
THEOREM TypeTheorem == Spec => []TypeOK
<1>1. ToldInv /\ Bounded /\ [Next]_vars => Bounded'
  BY NextBounded
<1>2. Manager!Spec => []Manager!TypeOK
  BY ManagerAssumptions, Manager!TypeTheorem
<1>3. ToldInv /\ Bounded /\ Manager!TypeOK => TypeOK
  BY SameTypes, MaxRetriesAssumption DEF ToldInv, Bounded, TypeOK
<1>4. QED
  BY <1>1, <1>2, <1>3, InitTold, NextTold, InitBounded, PermissionTheorem, SameManager, PTL
  DEF Spec

-----------------------------------------------------------------------------
(* Executed by right.                                                      *)

ExecutedByRight ==
  \A r \in Requests : attempt[r] > 0 =>
    /\ about[r] \in PM!Subjects
    /\ about[r].command # "denied"
    /\ about[r].command = "outside" => future[r] \in PM!Grants
    /\ about[r].command = "plain" =>
         \/ future[r] \in PM!Grants
         \/ Default[about[r].tool] = "allow"
         \/ \E s \in Sessions : <<s, about[r].tool, "allow">> \in said

\* The two components together: what is executed, the first time or again, matches no deny
\* pattern; outside the working directory the user has granted this very call; and a tool
\* that has to be asked for has a grant of this call or an earlier "always allow".
THEOREM RightTheorem == Spec => []ExecutedByRight
<1>1. Manager!Spec => []Manager!ConsentInv
  BY ManagerAssumptions, Manager!Consent
<1>2. Manager!Spec => []Manager!DeniedIsRefused
  BY ManagerAssumptions, Manager!DeniedTheorem
<1>3. ASSUME CallInv, Manager!ConsentInv, Manager!DeniedIsRefused PROVE ExecutedByRight
  <2>1. SUFFICES ASSUME NEW r \in Requests, attempt[r] > 0
                 PROVE  /\ about[r] \in PM!Subjects
                        /\ about[r].command # "denied"
                        /\ about[r].command = "outside" => future[r] \in PM!Grants
                        /\ about[r].command = "plain" =>
                             \/ future[r] \in PM!Grants
                             \/ Default[about[r].tool] = "allow"
                             \/ \E s \in Sessions : <<s, about[r].tool, "allow">> \in said
    BY DEF ExecutedByRight
  <2>2. stage[r] \in {"allow_once", "always_allow", "auto_allow"}
    BY <1>3, <2>1 DEF CallInv, VerdictFits, Allowed, PM!Grants
  <2>3. about[r] \in Manager!Subjects /\ about[r] # None
    BY <1>3, <2>2, ManagerAssumptions DEF Manager!ConsentInv, Manager!KnowsSubject
  <2>4. about[r].command # "denied"
    BY <1>3, <2>2, <2>3 DEF Manager!DeniedIsRefused
  <2>5. stage[r] # "auto_allow" => future[r] \in PM!Grants
    BY <1>3, <2>2 DEF Manager!ConsentInv, Manager!VerdictIsAnswer, Manager!Decisions, PM!Grants
  <2>6. stage[r] = "auto_allow" => about[r].command # "outside"
    BY <1>3 DEF Manager!ConsentInv, Manager!OutsideIsAsked
  <2>7. stage[r] = "auto_allow" /\ about[r].command = "plain" =>
          \/ Default[about[r].tool] = "allow"
          \/ \E s \in Sessions : <<s, about[r].tool, "allow">> \in said
    BY <1>3, <2>3 DEF Manager!ConsentInv, Manager!AutoAllowHasAuthor
  <2>8. about[r] \in PM!Subjects
    BY <2>3 DEF PM!Subjects, PM!Commands, Manager!Subjects, Manager!Commands
  <2>9. QED
    BY <2>4, <2>5, <2>6, <2>7, <2>8
<1>4. QED
  BY <1>1, <1>2, <1>3, InitCall, NextCall, PermissionTheorem, SameManager, PTL DEF Spec

=============================================================================
