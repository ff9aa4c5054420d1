---------------------- MODULE PermissionManagerProofs ----------------------
(***************************************************************************)
(* Proofs about PermissionManager, for any sets of requests, sessions and  *)
(* tools, any default policies, with or without a time limit.              *)
(***************************************************************************)
EXTENDS PermissionManager, TLAPS

-----------------------------------------------------------------------------
(* The inductive invariant, in parts.                                      *)

\* A request that has been made is about something.
KnowsSubject == \A r \in Requests : stage[r] # "unused" => about[r] \in Subjects

\* Nothing answers a request that has not been made.
FreshIsUnanswered == \A r \in Requests : stage[r] = "unused" => future[r] = None

\* A verdict the user gave is the answer found in the Future.
VerdictIsAnswer == \A r \in Requests : stage[r] \in Decisions => future[r] = stage[r]

\* Nothing outside the working directory is let through unasked.
OutsideIsAsked ==
  \A r \in Requests : stage[r] = "auto_allow" => about[r].command # "outside"

\* Some user has said "always allow" of the tool.
Authored(t) == \E s \in Sessions : <<s, t, "allow">> \in said

\* Every cached grant has an author, and so has every answer still to be applied.
GrantsAuthored ==
  /\ \A s \in Sessions, t \in Tools : sessionAlways[s][t] = "allow" => Authored(t)
  /\ \A t \in Tools : persistentAlways[t] = "allow" \/ policyFile[t] = "allow" => Authored(t)
  /\ \A r \in Requests : future[r] = "always_allow" =>
       about[r] \in Subjects /\ Authored(about[r].tool)

\* The part of the safety properties that one induction carries.
ConsentInv ==
  /\ TypeOK
  /\ KnowsSubject
  /\ FreshIsUnanswered
  /\ PendingIsOpen
  /\ VerdictIsAnswer
  /\ OutsideIsAsked
  /\ GrantsAuthored
  /\ AutoAllowHasAuthor

-----------------------------------------------------------------------------
LEMMA SubjectFacts ==
  /\ None \notin Subjects
  /\ \A q \in Subjects : q.session \in Sessions /\ q.tool \in Tools /\ q.command \in Commands
BY NoneIsNoSubject DEF Subjects

\* What is left of a policy says nothing the policy did not say.
LEMMA PartsFacts ==
  ASSUME NEW p \in Policy, NEW q \in Parts(p)
  PROVE  q \in Policy /\ \A t \in Tools : q[t] = None \/ q[t] = p[t]
BY DEF Parts, Policy

LEMMA InitConsent == Init => ConsentInv
<1> SUFFICES ASSUME Init PROVE ConsentInv
  OBVIOUS
<1>1. TypeOK
  BY DEF Init, TypeOK, Policy, NoPolicy
<1>2. /\ KnowsSubject /\ FreshIsUnanswered
      /\ PendingIsOpen /\ VerdictIsAnswer /\ OutsideIsAsked
  BY DEF Init, KnowsSubject, FreshIsUnanswered, PendingIsOpen, Open, VerdictIsAnswer, Decisions, OutsideIsAsked
<1>3. GrantsAuthored /\ AutoAllowHasAuthor
  BY NoneIsNoDecision DEF Init, GrantsAuthored, NoPolicy, AutoAllowHasAuthor
<1>4. QED
  BY <1>1, <1>2, <1>3 DEF ConsentInv

\* An answer that is applied leaves well-typed caches whose grants have authors.
LEMMA ApplyKeeps ==
  ASSUME TypeOK, GrantsAuthored, NEW r \in Requests, about[r] \in Subjects,
         future[r] # None, ApplyResponse(future[r], about[r]), UNCHANGED <<said, future, about>>
  PROVE  /\ sessionAlways' \in [Sessions -> Policy]
         /\ persistentAlways' \in Policy
         /\ policyFile' \in Policy /\ saveFailed' \in BOOLEAN
         /\ GrantsAuthored'
<1> DEFINE q == about[r]
<1>1. q.session \in Sessions /\ q.tool \in Tools
  BY SubjectFacts
<1>2. CASE UNCHANGED caches
  BY <1>2 DEF caches, TypeOK, GrantsAuthored, Authored
<1>3. ASSUME NEW word \in {"allow", "deny"},
             future[r] = Always(word),
             sessionAlways' = [sessionAlways EXCEPT ![q.session][q.tool] = word],
             persistentAlways' = [persistentAlways EXCEPT ![q.tool] = word],
             SavePolicy(persistentAlways')
      PROVE  /\ sessionAlways' \in [Sessions -> Policy]
             /\ persistentAlways' \in Policy
             /\ policyFile' \in Policy /\ saveFailed' \in BOOLEAN
             /\ GrantsAuthored'
  <2>1. word = "allow" => Authored(q.tool)
    BY <1>3 DEF GrantsAuthored, Always
  <2>2. sessionAlways' \in [Sessions -> Policy] /\ persistentAlways' \in Policy
    BY <1>1, <1>3 DEF TypeOK, Policy
  <2>3. /\ policyFile' \in {persistentAlways', policyFile} \union Parts(persistentAlways')
        /\ saveFailed' \in BOOLEAN
    BY <1>3 DEF SavePolicy
  <2>4. policyFile' \in Policy
    BY <2>2, <2>3, PartsFacts DEF TypeOK
  <2>5. \A t \in Tools : Authored(t)' <=> Authored(t)
    BY DEF Authored
  <2>6. \A t \in Tools : persistentAlways'[t] = "allow" => Authored(t)'
    BY <1>1, <1>3, <2>1, <2>5 DEF TypeOK, Policy, GrantsAuthored
  <2>7. \A t \in Tools : policyFile'[t] = "allow" => Authored(t)'
    BY <2>2, <2>3, <2>5, <2>6, PartsFacts, NoneIsNoDecision DEF GrantsAuthored
  <2>8. \A s \in Sessions, t \in Tools : sessionAlways'[s][t] = "allow" => Authored(t)'
    BY <1>1, <1>3, <2>1, <2>5 DEF TypeOK, Policy, GrantsAuthored
  <2>9. \A x \in Requests : future'[x] = "always_allow" =>
           about'[x] \in Subjects /\ Authored(about[x].tool)'
    BY DEF GrantsAuthored, Authored
  <2>10. QED
    BY <2>2, <2>3, <2>4, <2>6, <2>7, <2>8, <2>9 DEF GrantsAuthored, Authored
<1>4. QED
  BY <1>2, <1>3 DEF ApplyResponse

-----------------------------------------------------------------------------
(* One lemma per action.                                                   *)

\* The parts of the invariant that speak of requests only.
RequestInv ==
  /\ KnowsSubject
  /\ FreshIsUnanswered
  /\ PendingIsOpen
  /\ VerdictIsAnswer
  /\ OutsideIsAsked

\* While no answer and no cache changes, and nobody unsays a word, grants keep
\* their authors.
LEMMA GrantsKept ==
  ASSUME GrantsAuthored, UNCHANGED caches, UNCHANGED future, UNCHANGED said,
         \A r \in Requests : future[r] # None => about'[r] = about[r],
         "always_allow" # None
  PROVE  GrantsAuthored'
BY DEF GrantsAuthored, Authored, caches

\* A step that lets nobody through unasked needs no author.
LEMMA AuthorsKept ==
  ASSUME AutoAllowHasAuthor, said \subseteq said',
         \A r \in Requests :
           stage'[r] = "auto_allow" => stage[r] = "auto_allow" /\ about'[r] = about[r]
  PROVE  AutoAllowHasAuthor'
BY DEF AutoAllowHasAuthor

\* An automatic grant comes from a trusted pattern, a default or a cache.
LEMMA AutoAllowFacts ==
  ASSUME TypeOK, NEW q \in Subjects, Decide(q) = "auto_allow"
  PROVE  /\ q.command # "outside"
         /\ q.command = "plain" => \/ Default[q.tool] = "allow"
                                  \/ sessionAlways[q.session][q.tool] = "allow"
                                  \/ persistentAlways[q.tool] = "allow"
<1>1. q.session \in Sessions /\ q.tool \in Tools /\ q.command \in Commands
  BY SubjectFacts
<1>2. Cached(q) \in {"allow", "deny", None}
  BY <1>1 DEF Cached, TypeOK, Policy
<1>3. \A w \in {"allow", "deny", "ask"} : Unasked[w] = "auto_allow" => w = "allow"
  BY DEF Unasked
<1>4. Cached(q) # None /\ Unasked[Cached(q)] = "auto_allow" => Cached(q) = "allow"
  BY <1>2, <1>3
<1>5. q.command # "outside"
  BY DEF Decide
<1>6. ASSUME q.command = "plain", Default[q.tool] # "allow" PROVE Cached(q) = "allow"
  BY <1>1, <1>3, <1>4, <1>6, DefaultAssumption DEF Decide
<1>7. QED
  BY <1>5, <1>6, NoneIsNoDecision DEF Cached

LEMMA DecidesKeeps ==
  ASSUME ConsentInv, NEW r \in Requests, NEW q \in Subjects, CheckDecides(r, q)
  PROVE  ConsentInv'
<1> USE DEF ConsentInv
<1>1. /\ stage[r] = "unused" /\ future[r] = None
      /\ stage' = [stage EXCEPT ![r] = Decide(q)]
      /\ about' = [about EXCEPT ![r] = q]
      /\ UNCHANGED <<pending, future, attached>> /\ UNCHANGED caches /\ UNCHANGED said
  BY DEF CheckDecides, FreshIsUnanswered
<1>2. Decide(q) \in {"auto_allow", "auto_deny"}
  <2>1. q.session \in Sessions /\ q.tool \in Tools
    BY SubjectFacts
  <2>2. Cached(q) \in {"allow", "deny", None}
    BY <2>1 DEF Cached, TypeOK, Policy
  <2>3. \A w \in {"allow", "deny", "ask"} : Unasked[w] \in {"auto_allow", "auto_deny", "ask"}
    BY DEF Unasked
  <2>4. Decide(q) \in {"auto_allow", "auto_deny", "ask"}
    BY <2>1, <2>2, <2>3, DefaultAssumption DEF Decide
  <2>5. QED
    BY <2>4 DEF CheckDecides
<1>3. TypeOK'
  BY <1>1, <1>2 DEF TypeOK, Verdicts, caches
<1>4. RequestInv'
  BY <1>1, <1>2, AutoAllowFacts
  DEF TypeOK, RequestInv, KnowsSubject, FreshIsUnanswered, PendingIsOpen, Open,
      VerdictIsAnswer, Decisions, OutsideIsAsked
<1>5. GrantsAuthored'
  BY <1>1, NoneIsNoDecision, GrantsKept DEF TypeOK
<1>6. AutoAllowHasAuthor'
  <2>1. Decide(q) = "auto_allow" /\ q.command = "plain" =>
          Default[q.tool] = "allow" \/ Authored(q.tool)
    BY AutoAllowFacts, SubjectFacts DEF GrantsAuthored
  <2>2. QED
    BY <1>1, <2>1 DEF AutoAllowHasAuthor, Authored, TypeOK
<1>7. QED
  BY <1>3, <1>4, <1>5, <1>6 DEF RequestInv

LEMMA AsksKeeps ==
  ASSUME ConsentInv, NEW r \in Requests, NEW q \in Subjects, CheckAsks(r, q)
  PROVE  ConsentInv'
<1> USE DEF ConsentInv
<1>1. /\ stage[r] = "unused" /\ future[r] = None
      /\ stage' = [stage EXCEPT ![r] = "asking"]
      /\ about' = [about EXCEPT ![r] = q]
      /\ pending' = pending \union {r}
      /\ UNCHANGED <<future, attached>> /\ UNCHANGED caches /\ UNCHANGED said
  BY DEF CheckAsks, FreshIsUnanswered
<1>2. TypeOK'
  BY <1>1 DEF TypeOK, caches
<1>3. RequestInv'
  BY <1>1
  DEF TypeOK, RequestInv, KnowsSubject, FreshIsUnanswered, PendingIsOpen, Open,
      VerdictIsAnswer, Decisions, OutsideIsAsked
<1>4. GrantsAuthored'
  BY <1>1, NoneIsNoDecision, GrantsKept DEF TypeOK
<1>5. AutoAllowHasAuthor'
  BY <1>1, AuthorsKept DEF TypeOK
<1>6. QED
  BY <1>2, <1>3, <1>4, <1>5 DEF RequestInv

LEMMA WaitsKeep ==
  ASSUME ConsentInv, NEW r \in Requests, Announced(r) \/ Timeout(r) \/ Cancel(r)
  PROVE  ConsentInv'
<1> USE DEF ConsentInv
<1>1. /\ Open(r)
      /\ \/ stage' = [stage EXCEPT ![r] = "waiting"] /\ pending' = pending
         \/ stage' = [stage EXCEPT ![r] = "timeout"] /\ pending' = pending \ {r}
         \/ stage' = [stage EXCEPT ![r] = "cancelled"] /\ pending' = pending
      /\ UNCHANGED <<about, future, attached>> /\ UNCHANGED caches /\ UNCHANGED said
  BY DEF Announced, Timeout, Cancel, Open
<1>2. TypeOK'
  BY <1>1 DEF TypeOK, Verdicts, caches
<1>3. RequestInv'
  BY <1>1
  DEF TypeOK, RequestInv, KnowsSubject, FreshIsUnanswered, PendingIsOpen, Open,
      VerdictIsAnswer, Decisions, OutsideIsAsked
<1>4. GrantsAuthored'
  BY <1>1, NoneIsNoDecision, GrantsKept DEF TypeOK
<1>5. AutoAllowHasAuthor'
  BY <1>1, AuthorsKept DEF TypeOK
<1>6. QED
  BY <1>2, <1>3, <1>4, <1>5 DEF RequestInv

LEMMA AnsweredKeeps ==
  ASSUME ConsentInv, NEW r \in Requests, Answered(r)
  PROVE  ConsentInv'
<1> USE DEF ConsentInv
<1>1. /\ stage[r] = "waiting" /\ future[r] # None
      /\ ApplyResponse(future[r], about[r])
      /\ stage' = [stage EXCEPT ![r] = future[r]]
      /\ UNCHANGED <<about, pending, future, attached>> /\ UNCHANGED said
  BY DEF Answered
<1>2. about[r] \in Subjects /\ future[r] \in Decisions /\ r \notin pending
  BY <1>1 DEF KnowsSubject, TypeOK, PendingIsOpen
<1>3. /\ sessionAlways' \in [Sessions -> Policy]
      /\ persistentAlways' \in Policy
      /\ policyFile' \in Policy /\ saveFailed' \in BOOLEAN
      /\ GrantsAuthored'
  BY <1>1, <1>2, ApplyKeeps 
<1>4. TypeOK'
  BY <1>1, <1>2, <1>3 DEF TypeOK, Verdicts
<1>5. RequestInv'
  BY <1>1, <1>2
  DEF TypeOK, RequestInv, KnowsSubject, FreshIsUnanswered, PendingIsOpen, Open,
      VerdictIsAnswer, Decisions, OutsideIsAsked
<1>6. AutoAllowHasAuthor'
  BY <1>1, <1>2, AuthorsKept DEF TypeOK, Decisions
<1>7. QED
  BY <1>3, <1>4, <1>5, <1>6 DEF RequestInv

LEMMA RespondKeeps ==
  ASSUME ConsentInv, NEW r \in Requests, NEW decision \in Decisions, Respond(r, decision)
  PROVE  ConsentInv'
<1> USE DEF ConsentInv
<1>1. /\ r \in pending /\ pending' = pending \ {r}
      /\ UNCHANGED <<stage, about, attached>> /\ UNCHANGED caches
  BY DEF Respond
<1>2. about[r] \in Subjects /\ future[r] = None /\ stage[r] \in {"asking", "waiting", "cancelled"}
  BY <1>1 DEF PendingIsOpen, KnowsSubject
<1>3. about[r].session \in Sessions /\ about[r].tool \in Tools
  BY <1>2, SubjectFacts
<1>4. CASE Open(r)
  <2>1. future' = [future EXCEPT ![r] = decision] /\ Remember(decision, about[r])
    BY <1>4 DEF Respond
  <2>2. /\ said \subseteq said' /\ said' \in SUBSET Words
        /\ decision = "always_allow" => <<about[r].session, about[r].tool, "allow">> \in said'
    <3>1. CASE decision \in {"allow_once", "deny_once"} /\ UNCHANGED said
      BY <3>1 DEF TypeOK
    <3>2. ASSUME NEW word \in {"allow", "deny"},
                 decision = Always(word),
                 said' = said \union {<<about[r].session, about[r].tool, word>>}
          PROVE  /\ said \subseteq said' /\ said' \in SUBSET Words
                 /\ decision = "always_allow" => <<about[r].session, about[r].tool, "allow">> \in said'
      <4>1. <<about[r].session, about[r].tool, word>> \in Words
        BY <1>3 DEF Words
      <4>2. said \subseteq said' /\ said' \in SUBSET Words
        BY <3>2, <4>1 DEF TypeOK
      <4>3. QED
        BY <3>2, <4>2 DEF Always
    <3>3. QED
      BY <2>1, <3>1, <3>2 DEF Remember
  <2>3. TypeOK'
    BY <1>1, <2>1, <2>2 DEF TypeOK, caches
  <2>4. RequestInv'
    BY <1>1, <1>2, <1>4, <2>1, NoneIsNoDecision
    DEF TypeOK, RequestInv, KnowsSubject, FreshIsUnanswered, PendingIsOpen, Open,
        VerdictIsAnswer, Decisions, OutsideIsAsked
  <2> DEFINE HasAuthor(t) == \E s \in Sessions : <<s, t, "allow">> \in said'
  <2>5. \A t \in Tools : Authored(t) => HasAuthor(t)
    BY <2>2 DEF Authored
  <2>6. decision = "always_allow" => HasAuthor(about[r].tool)
    BY <1>3, <2>2
  <2>7. ASSUME NEW x \in Requests, future'[x] = "always_allow"
        PROVE  about[x] \in Subjects /\ HasAuthor(about[x].tool)
    <3>1. CASE x = r
      BY <1>2, <2>1, <2>6, <2>7, <3>1 DEF TypeOK
    <3>2. CASE x # r
      <4>1. about[x] \in Subjects /\ Authored(about[x].tool)
        BY <2>1, <2>7, <3>2 DEF TypeOK, GrantsAuthored
      <4>2. QED
        BY <2>5, <4>1, SubjectFacts
    <3>3. QED
      BY <3>1, <3>2
  <2>8. GrantsAuthored'
    BY <1>1, <2>5, <2>7 DEF GrantsAuthored, caches, Authored
  <2>9. AutoAllowHasAuthor'
    BY <1>1, <2>2, AuthorsKept
  <2>10. QED
    BY <2>3, <2>4, <2>8, <2>9 DEF RequestInv
<1>5. CASE ~Open(r)
  <2>1. UNCHANGED future /\ UNCHANGED said
    BY <1>5 DEF Respond
  <2>2. TypeOK'
    BY <1>1, <2>1 DEF TypeOK, caches
  <2>3. RequestInv'
    BY <1>1, <1>5, <2>1
    DEF TypeOK, RequestInv, KnowsSubject, FreshIsUnanswered, PendingIsOpen, Open,
        VerdictIsAnswer, OutsideIsAsked
  <2>4. GrantsAuthored'
    BY <1>1, <2>1, NoneIsNoDecision, GrantsKept
  <2>5. AutoAllowHasAuthor'
    BY <1>1, <2>1, AuthorsKept 
  <2>6. QED
    BY <2>2, <2>3, <2>4, <2>5 DEF RequestInv
<1>6. QED
  BY <1>4, <1>5

LEMMA RestartKeeps ==
  ASSUME ConsentInv, Restart
  PROVE  ConsentInv'
<1> USE DEF ConsentInv
<1>0. policyFile' \in Policy /\ \A t \in Tools : policyFile'[t] = "allow" => Authored(t)
  <2>1. CASE UNCHANGED policyFile
    BY <2>1 DEF TypeOK, GrantsAuthored
  <2>2. ASSUME NEW r \in Requests, Torn(r)
        PROVE  policyFile' \in Policy /\ \A t \in Tools : policyFile'[t] = "allow" => Authored(t)
    <3>1. PICK word \in {"allow", "deny"} :
            /\ future[r] = Always(word)
            /\ policyFile' \in Parts([persistentAlways EXCEPT ![about[r].tool] = word])
      BY <2>2 DEF Torn
    <3> DEFINE new == [persistentAlways EXCEPT ![about[r].tool] = word]
    <3>2. new \in Policy
      BY DEF TypeOK, Policy
    <3>3. \A t \in Tools : new[t] = "allow" => Authored(t)
      BY <3>1 DEF TypeOK, Policy, GrantsAuthored, Always
    <3> HIDE DEF new
    <3>4. policyFile' \in Parts(new)
      BY <3>1 DEF new
    <3>5. QED
      BY <3>2, <3>3, <3>4, PartsFacts, NoneIsNoDecision
  <2>3. QED
    BY <2>1, <2>2 DEF Restart
<1>1. TypeOK'
  BY <1>0 DEF Restart, TypeOK, Verdicts, Policy, NoPolicy
<1>2. RequestInv'
  BY DEF Restart, RequestInv, KnowsSubject, FreshIsUnanswered, PendingIsOpen, Open,
         VerdictIsAnswer, Decisions, OutsideIsAsked
<1>3. GrantsAuthored'
  BY <1>0, NoneIsNoDecision DEF Restart, GrantsAuthored, Authored, NoPolicy
<1>4. AutoAllowHasAuthor'
  BY AuthorsKept DEF Restart
<1>5. QED
  BY <1>1, <1>2, <1>3, <1>4 DEF RequestInv

LEMMA NextConsent == ConsentInv /\ [Next]_vars => ConsentInv'
<1> SUFFICES ASSUME ConsentInv, [Next]_vars PROVE ConsentInv'
  OBVIOUS
<1>1. ASSUME NEW r \in Requests, NEW q \in Subjects, CheckDecides(r, q) \/ CheckAsks(r, q)
      PROVE  ConsentInv'
  BY <1>1, DecidesKeeps, AsksKeeps
<1>2. ASSUME NEW r \in Requests, Announced(r) \/ Timeout(r) \/ Cancel(r)
      PROVE  ConsentInv'
  BY <1>2, WaitsKeep
<1>3. ASSUME NEW r \in Requests, Answered(r) PROVE ConsentInv'
  BY <1>3, AnsweredKeeps
<1>4. ASSUME NEW r \in Requests, NEW decision \in Decisions, Respond(r, decision)
      PROVE  ConsentInv'
  BY <1>4, RespondKeeps
<1>5. CASE Disconnect \/ Attach \/ UNCHANGED vars
  <2>1. /\ UNCHANGED <<stage, about, pending, future>> /\ UNCHANGED caches /\ UNCHANGED said
        /\ attached' \in BOOLEAN
    BY <1>5 DEF Disconnect, Attach, vars, caches, ConsentInv, TypeOK
  <2>2. QED
    BY <2>1
    DEF ConsentInv, TypeOK, KnowsSubject, FreshIsUnanswered, PendingIsOpen, Open,
        VerdictIsAnswer, OutsideIsAsked, GrantsAuthored, Authored, AutoAllowHasAuthor,
        caches
<1>6. CASE Restart
  BY <1>6, RestartKeeps
<1>7. QED
  BY <1>1, <1>2, <1>3, <1>4, <1>5, <1>6 DEF Next

LEMMA Consent == Spec => []ConsentInv
BY InitConsent, NextConsent, PTL DEF Spec

-----------------------------------------------------------------------------
(* The theorems.                                                           *)

\* Every variable of the permission manager keeps its type.
THEOREM TypeTheorem == Spec => []TypeOK
<1>1. ConsentInv => TypeOK
  BY DEF ConsentInv
<1>2. QED
  BY <1>1, Consent, PTL

\* A request that waits can be answered, and no entry of another one is kept.
THEOREM PendingTheorem == Spec => []PendingIsOpen
<1>1. ConsentInv => PendingIsOpen
  BY DEF ConsentInv
<1>2. QED
  BY <1>1, Consent, PTL

\* No cached decision, default or late answer lets a command out of the working
\* directory: only an answer to this very request does.
THEOREM OutsideTheorem == Spec => []OutsideNeedsConsent
<1>1. ConsentInv => OutsideNeedsConsent
  BY DEF ConsentInv, OutsideNeedsConsent, VerdictIsAnswer, OutsideIsAsked, Grants, Decisions
<1>2. QED
  BY <1>1, Consent, PTL

\* Through caches, failing writes of policy.toml and restarts, what is let
\* through unasked goes back to a user's "always allow".
THEOREM AuthorTheorem == Spec => []AutoAllowHasAuthor
<1>1. ConsentInv => AutoAllowHasAuthor
  BY DEF ConsentInv
<1>2. QED
  BY <1>1, Consent, PTL

-----------------------------------------------------------------------------
(* What is decided for good.                                               *)

\* While its last write succeeded the file is the persistent cache.
FileIsCache == ~saveFailed => policyFile = persistentAlways

\* The words of a decision are told apart.
LEMMA AlwaysFacts ==
  /\ \A word \in {"allow", "deny"} : Always(word) \in Decisions
  /\ \A v, w \in {"allow", "deny"} : Always(v) = Always(w) => v = w
BY DEF Always, Decisions

\* Only a task that resumes, and a restart, changes what is decided for good.
LEMMA CachesKept ==
  ASSUME TypeOK, [Next]_vars
  PROVE  \/ Restart
         \/ \E r \in Requests : Answered(r)
         \/ UNCHANGED caches /\ \A r \in Requests : stage[r] = "waiting" => stage'[r] \notin Decisions
<1>1. ASSUME NEW r \in Requests, NEW q \in Subjects, CheckDecides(r, q) \/ CheckAsks(r, q)
      PROVE  UNCHANGED caches /\ \A x \in Requests : stage[x] = "waiting" => stage'[x] = stage[x]
  BY <1>1 DEF CheckDecides, CheckAsks, TypeOK
<1>2. ASSUME NEW r \in Requests, Announced(r) \/ Timeout(r) \/ Cancel(r)
      PROVE  /\ UNCHANGED caches
             /\ \A x \in Requests : stage'[x] \in {stage[x], "waiting", "timeout", "cancelled"}
  BY <1>2 DEF Announced, Timeout, Cancel, TypeOK
<1>3. ASSUME \/ \E r \in Requests, decision \in Decisions : Respond(r, decision)
             \/ Disconnect \/ Attach \/ UNCHANGED vars
      PROVE  UNCHANGED caches /\ UNCHANGED stage
  BY <1>3 DEF Respond, Disconnect, Attach, vars, caches
<1>4. QED
  BY <1>1, <1>2, <1>3 DEF Next, Decisions

LEMMA InitFile == Init => FileIsCache
BY DEF Init, FileIsCache

LEMMA NextFile ==
  ASSUME TypeOK, FileIsCache, [Next]_vars
  PROVE  FileIsCache'
<1>1. CASE UNCHANGED caches
  BY <1>1 DEF FileIsCache, caches
<1>2. ASSUME NEW r \in Requests, Answered(r) PROVE FileIsCache'
  BY <1>1, <1>2 DEF Answered, ApplyResponse, SavePolicy, FileIsCache
<1>3. CASE Restart
  BY <1>3 DEF Restart, FileIsCache
<1>4. QED
  BY <1>1, <1>2, <1>3, CachesKept

\* An answer that is applied is the decision its task resumes with, in both caches.
LEMMA AnswerStands ==
  ASSUME ConsentInv, NEW r \in Requests, Answered(r)
  PROVE  /\ \A x \in Requests : x # r => stage'[x] = stage[x]
         /\ about[r].session \in Sessions /\ about[r].tool \in Tools
         /\ stage'[r] = future[r]
         /\ \/ UNCHANGED caches /\ future[r] \in {"allow_once", "deny_once"}
            \/ \E word \in {"allow", "deny"} :
                 /\ future[r] = Always(word)
                 /\ \A t \in Tools : persistentAlways'[t] =
                      IF t = about[r].tool THEN word ELSE persistentAlways[t]
                 /\ \A s \in Sessions, t \in Tools : sessionAlways'[s][t] =
                      IF s = about[r].session /\ t = about[r].tool
                        THEN word ELSE sessionAlways[s][t]
<1> USE DEF ConsentInv
<1>1. about[r].session \in Sessions /\ about[r].tool \in Tools
  BY SubjectFacts DEF Answered, KnowsSubject
<1>2. stage'[r] = future[r] /\ \A x \in Requests : x # r => stage'[x] = stage[x]
  BY DEF Answered, TypeOK
<1>3. ASSUME NEW word \in {"allow", "deny"}, future[r] = Always(word),
             sessionAlways' = [sessionAlways EXCEPT ![about[r].session][about[r].tool] = word],
             persistentAlways' = [persistentAlways EXCEPT ![about[r].tool] = word]
      PROVE  /\ \A t \in Tools : persistentAlways'[t] =
                  IF t = about[r].tool THEN word ELSE persistentAlways[t]
             /\ \A s \in Sessions, t \in Tools : sessionAlways'[s][t] =
                  IF s = about[r].session /\ t = about[r].tool
                    THEN word ELSE sessionAlways[s][t]
  BY <1>1, <1>3 DEF TypeOK, Policy
<1>4. QED
  BY <1>1, <1>2, <1>3 DEF Answered, ApplyResponse

LEMMA StepsStand ==
  ASSUME ConsentInv, FileIsCache, [Next]_vars
  PROVE  Stand
<1>0. TypeOK
  BY DEF ConsentInv
<1>1. CASE /\ UNCHANGED caches
           /\ \A r \in Requests : stage[r] = "waiting" => stage'[r] \notin Decisions
  <2>1. \A r \in Requests, t \in Tools, word \in {"allow", "deny"} : ~Applies(r, t, word)
    BY <1>1, AlwaysFacts DEF Applies
  <2>2. QED
    BY <1>1, <2>1 DEF Stand, caches
<1>2. ASSUME NEW r \in Requests, Answered(r) PROVE Stand
  <2>1. stage[r] = "waiting"
    BY <1>2 DEF Answered
  <2>2. \A x \in Requests : \A t, word : Applies(x, t, word) => x = r
    BY <1>2, AnswerStands, AlwaysFacts DEF Applies, Decisions
  <2>3. CASE UNCHANGED caches /\ future[r] \in {"allow_once", "deny_once"}
    <3>1. \A x \in Requests : \A t, word : ~Applies(x, t, word)
      BY <1>2, <2>2, <2>3, AnswerStands DEF Applies, Always
    <3>2. QED
      BY <2>3, <3>1 DEF Stand, caches
  <2>4. ASSUME NEW word \in {"allow", "deny"}, future[r] = Always(word),
               \A t \in Tools : persistentAlways'[t] =
                 IF t = about[r].tool THEN word ELSE persistentAlways[t],
               \A s \in Sessions, t \in Tools : sessionAlways'[s][t] =
                 IF s = about[r].session /\ t = about[r].tool THEN word ELSE sessionAlways[s][t]
        PROVE  Stand
    <3>1. Applies(r, about[r].tool, word)
      BY <1>2, <2>1, <2>4, AnswerStands DEF Applies
    <3>2. \A x \in Requests : \A t, w : Applies(x, t, w) => t = about[r].tool /\ w = word
      BY <1>2, <2>2, <2>4, AnswerStands, AlwaysFacts DEF Applies
    <3>3. about[r].session \in Sessions /\ about[r].tool \in Tools
      BY <1>2, AnswerStands
    <3>4. \A x \in Requests, t \in Tools, w \in {"allow", "deny"} : Applies(x, t, w) =>
             persistentAlways'[t] = w /\ sessionAlways'[about[x].session][t] = w
      BY <2>2, <2>4, <3>2, <3>3
    <3>5. QED
      BY <2>4, <3>1, <3>4 DEF Stand
  <2>5. QED
    BY <1>2, <2>3, <2>4, AnswerStands
<1>3. CASE Restart
  <2>1. \A r \in Requests : \A t, word : ~Applies(r, t, word)
    BY <1>0, <1>3, AlwaysFacts DEF Restart, Open, TypeOK, Applies, Decisions
  <2>2. persistentAlways' = policyFile'
    BY <1>3 DEF Restart
  <2>3. saveFailed \/ policyFile' # policyFile \/ persistentAlways' = persistentAlways
    BY <2>2 DEF FileIsCache
  <2>4. QED
    BY <1>3, <2>1, <2>3 DEF Stand
<1>4. QED
  BY <1>0, <1>1, <1>2, <1>3, CachesKept

\* A decision for good stands, with its word, until the next one about its tool is
\* applied, and restarts do not change it for any session, unless policy.toml was not
\* written whole.
THEOREM RestartTheorem == Spec => DecisionsStand
<1>1. TypeOK /\ FileIsCache /\ [Next]_vars => FileIsCache'
  BY NextFile
<1>2. ConsentInv /\ FileIsCache /\ [Next]_vars => [Stand]_vars
  BY StepsStand
<1>3. ConsentInv => TypeOK
  BY DEF ConsentInv
<1>4. QED
  BY <1>1, <1>2, <1>3, InitFile, Consent, PTL DEF Spec, DecisionsStand

-----------------------------------------------------------------------------
(* The deny patterns.                                                      *)

DeniedIsRefused ==
  \A r \in Requests : about[r] # None /\ about[r].command = "denied" => stage[r] = "auto_deny"

\* A command that matches a deny pattern is refused when it is checked, and nothing that
\* is answered, cached or restarted later takes that back.
THEOREM DeniedTheorem == Spec => []DeniedIsRefused
<1>1. Init => DeniedIsRefused
  BY DEF Init, DeniedIsRefused
<1>2. ASSUME ConsentInv, DeniedIsRefused, [Next]_vars PROVE DeniedIsRefused'
  <2>1. stage \in [Requests -> {"unused", "asking", "waiting"} \union Verdicts]
    BY <1>2 DEF ConsentInv, TypeOK
  <2>2. about \in [Requests -> Subjects \union {None}]
    BY <1>2 DEF ConsentInv, TypeOK
  <2>3. ASSUME NEW r \in Requests, NEW q \in Subjects, CheckDecides(r, q) \/ CheckAsks(r, q)
        PROVE  DeniedIsRefused'
    <3>1. /\ about' = [about EXCEPT ![r] = q]
          /\ \/ stage' = [stage EXCEPT ![r] = Decide(q)]
             \/ stage' = [stage EXCEPT ![r] = "asking"] /\ Decide(q) = "ask"
      BY <2>3 DEF CheckDecides, CheckAsks
    <3>2. q.command = "denied" => Decide(q) = "auto_deny"
      BY DEF Decide
    <3>3. QED
      BY <1>2, <2>1, <2>2, <3>1, <3>2 DEF DeniedIsRefused
  <2>4. ASSUME UNCHANGED about, \A r \in Requests : stage[r] = "auto_deny" => stage'[r] = "auto_deny"
        PROVE  DeniedIsRefused'
    BY <1>2, <2>4 DEF DeniedIsRefused
  <2>5. ASSUME NEW r \in Requests, Announced(r) \/ Answered(r) \/ Timeout(r) \/ Cancel(r)
        PROVE  DeniedIsRefused'
    BY <2>1, <2>4, <2>5 DEF Announced, Answered, Timeout, Cancel, Open
  <2>6. ASSUME NEW r \in Requests, NEW decision \in Decisions, Respond(r, decision)
        PROVE  DeniedIsRefused'
    BY <2>4, <2>6 DEF Respond
  <2>7. CASE Disconnect \/ Attach \/ UNCHANGED vars
    BY <2>4, <2>7 DEF Disconnect, Attach, vars
  <2>8. CASE Restart
    BY <2>4, <2>8 DEF Restart, Open
  <2>9. QED
    BY <1>2, <2>3, <2>5, <2>6, <2>7, <2>8 DEF Next
<1>3. QED
  BY <1>1, <1>2, Consent, PTL DEF Spec

=============================================================================
