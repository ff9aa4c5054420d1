-------------------------- MODULE EventStreamProofs --------------------------
(***************************************************************************)
(* Proofs about EventStream, for any number of runs, connections and       *)
(* events.                                                                 *)
(***************************************************************************)
EXTENDS EventStream, FiniteSetTheorems, SequenceTheorems, TLAPS

-----------------------------------------------------------------------------
(* List comprehensions.                                                    *)

\* h tells where the elements of t come from in s: in order, and all that are in S.
Traces(h, t, s, S) ==
  /\ h \in [1..Len(t) -> 1..Len(s)]
  /\ \A k \in 1..Len(t) : t[k] = s[h[k]] /\ t[k] \in S
  /\ \A k, l \in 1..Len(t) : k < l => h[k] < h[l]
  /\ \A i \in 1..Len(s) : s[i] \in S => \E k \in 1..Len(t) : h[k] = i

\* Counting the elements up to each of them numbers a finite set of naturals.
LEMMA Numbering ==
  ASSUME NEW at \in SUBSET Nat, IsFiniteSet(at)
  PROVE  LET rank(i) == Cardinality({j \in at : j <= i})
         IN  /\ \A i \in at : rank(i) \in 1..Cardinality(at)
             /\ \A i, j \in at : i < j => rank(i) < rank(j)
             /\ \A k \in 1..Cardinality(at) : \E i \in at : rank(i) = k
<1> DEFINE upTo(i) == {j \in at : j <= i}
           rank(i) == Cardinality(upTo(i))
           n == Cardinality(at)
<1>1. n \in Nat
  BY FS_CardinalityType
<1>2. \A i \in at : IsFiniteSet(upTo(i)) /\ rank(i) \in Nat /\ rank(i) <= n
  <2>1. TAKE i \in at
  <2>2. upTo(i) \in SUBSET at
    OBVIOUS
  <2>3. QED
    BY <2>2, FS_Subset, FS_CardinalityType
<1>3. ASSUME NEW i \in at, NEW j \in at, i < j
      PROVE  rank(i) < rank(j)
  <2>1. j \notin upTo(i)
    BY <1>3
  <2>2. IsFiniteSet(upTo(i) \union {j}) /\ Cardinality(upTo(i) \union {j}) = rank(i) + 1
    BY <1>2, <2>1, FS_AddElement
  <2>3. upTo(i) \union {j} \in SUBSET upTo(j)
    <3>1. \A x \in at : x <= i => x <= j
      BY <1>3
    <3>2. j <= j
      OBVIOUS
    <3>3. QED
      BY <3>1, <3>2
  <2>4. Cardinality(upTo(i) \union {j}) <= rank(j)
    BY <1>2, <2>3, FS_Subset
  <2>5. QED
    BY <1>2, <2>2, <2>4
<1>4. \A i \in at : rank(i) \in 1..n
  <2>1. TAKE i \in at
  <2>2. upTo(i) # {}
    OBVIOUS
  <2>3. rank(i) # 0
    BY <1>2, <2>2, FS_EmptySet
  <2>4. QED
    BY <1>1, <1>2, <2>3
<1>5. \A k \in 1..n : \E i \in at : rank(i) = k
  <2> DEFINE f == [i \in at |-> rank(i)]
  <2>1. f \in [at -> 1..n]
    BY <1>4
  <2>2. \A i, j \in at : f[i] = f[j] => i = j
    <3>1. TAKE i, j \in at
    <3>2. i < j \/ j < i \/ i = j
      OBVIOUS
    <3> HIDE DEF rank
    <3>3. rank(i) \in Nat /\ rank(j) \in Nat
      BY <1>2
    <3>4. QED
      BY <1>3, <3>2, <3>3
  <2>3. f \in Injection(at, 1..n)
    BY <2>1, <2>2 DEF Injection, IsInjective
  <2>4. IsFiniteSet(1..n) /\ Cardinality(1..n) = n
    BY <1>1, FS_Interval
  <2>5. f \in Surjection(at, 1..n)
    BY <2>3, <2>4, FS_Injection
  <2>6. QED
    BY <2>5 DEF Surjection
<1>6. QED
  BY <1>3, <1>4, <1>5

\* A comprehension keeps the order, and what it is told to keep, and nothing else.
LEMMA KeptTraces ==
  ASSUME NEW X, NEW s \in Seq(X), NEW S
  PROVE  /\ Kept(s, S) \in Seq(X)
         /\ \E h : Traces(h, Kept(s, S), s, S)
<1> DEFINE at == {i \in 1..Len(s) : s[i] \in S}
           rank(i) == Cardinality({j \in at : j <= i})
           n == Cardinality(at)
           Nth(k) == CHOOSE i \in at : rank(i) = k
           h == [k \in 1..n |-> Nth(k)]
           t == Kept(s, S)
<1>1. at \in SUBSET Nat /\ IsFiniteSet(at) /\ n \in Nat
  <2>1. Len(s) \in Nat /\ IsFiniteSet(1..Len(s))
    BY FS_Interval
  <2>2. at \in SUBSET (1..Len(s))
    OBVIOUS
  <2>3. QED
    BY <2>1, <2>2, FS_Subset, FS_CardinalityType
<1>2. /\ \A i \in at : rank(i) \in 1..n
      /\ \A i, j \in at : i < j => rank(i) < rank(j)
      /\ \A k \in 1..n : \E i \in at : rank(i) = k
  BY <1>1, Numbering
<1>3. t = [k \in 1..n |-> s[Nth(k)]]
  BY DEF Kept
<1> HIDE DEF t
<1>4. \A k \in 1..n : Nth(k) \in at /\ rank(Nth(k)) = k
  BY <1>2
<1>5. at \subseteq 1..Len(s) /\ \A i \in at : s[i] \in X /\ s[i] \in S
  OBVIOUS
<1>6. \A i \in 1..Len(s) : s[i] \in S => i \in at
  OBVIOUS
<1> HIDE DEF at, rank, n, Nth
<1>7. t \in Seq(X) /\ Len(t) = n
  <2>1. t \in [1..n -> X]
    BY <1>3, <1>4, <1>5
  <2>2. QED
    BY <1>1, <2>1
<1>8. h \in [1..Len(t) -> 1..Len(s)] /\ \A k \in 1..Len(t) : t[k] = s[h[k]] /\ t[k] \in S
  BY <1>3, <1>4, <1>5, <1>7
<1>9. \A k, l \in 1..Len(t) : k < l => h[k] < h[l]
  <2>1. SUFFICES ASSUME NEW k \in 1..n, NEW l \in 1..n, k < l
                 PROVE  Nth(k) < Nth(l)
    BY <1>7
  <2>2. Nth(k) \in Nat /\ Nth(l) \in Nat
    BY <1>1, <1>4
  <2>5. /\ Nth(k) \in at /\ Nth(l) \in at
        /\ rank(Nth(k)) = k /\ rank(Nth(l)) = l
    BY <1>4
  <2>3. CASE Nth(l) < Nth(k)
    <3>1. rank(Nth(l)) < rank(Nth(k))
      BY <1>2, <2>3, <2>5
    <3>2. QED
      BY <1>1, <2>1, <2>5, <3>1
  <2>4. CASE Nth(l) = Nth(k)
    BY <1>1, <2>1, <2>4, <2>5
  <2>6. QED
    BY <2>2, <2>3, <2>4
<1>10. \A i \in 1..Len(s) : s[i] \in S => \E k \in 1..Len(t) : h[k] = i
  <2>1. SUFFICES ASSUME NEW i \in at
                 PROVE  \E k \in 1..n : Nth(k) = i
    BY <1>6, <1>7
  <2>2. rank(i) \in 1..n
    BY <1>2
  <2>3. Nth(rank(i)) \in at /\ rank(Nth(rank(i))) = rank(i)
    BY <1>4, <2>2
  <2>4. PICK j \in at : j = Nth(rank(i)) /\ rank(j) = rank(i)
    BY <2>3
  <2>6. i \in Nat /\ j \in Nat /\ rank(i) \in Nat
    BY <1>1, <2>2
  <2>7. ~(i < j)
    BY <1>2, <2>4, <2>6
  <2>8. ~(j < i)
    BY <1>2, <2>4, <2>6
  <2>5. QED
    BY <2>2, <2>4, <2>6, <2>7, <2>8
<1>11. Traces(h, t, s, S)
  BY <1>8, <1>9, <1>10 DEF Traces
<1>12. QED
  BY <1>7, <1>11 DEF t


Distinct(s) == \A i, j \in 1..Len(s) : s[i] = s[j] => i = j

LEMMA KeptElements ==
  ASSUME NEW X, NEW s \in Seq(X), NEW S
  PROVE  /\ Kept(s, S) \in Seq(X)
         /\ ToSet(Kept(s, S)) = ToSet(s) \intersect S
         /\ Distinct(s) => Distinct(Kept(s, S))
<1> DEFINE t == Kept(s, S)
<1>1. t \in Seq(X)
  BY KeptTraces
<1>2. PICK h : Traces(h, t, s, S)
  BY KeptTraces
<1> HIDE DEF t
<1>3. ToSet(t) \subseteq ToSet(s) \intersect S
  BY <1>1, <1>2 DEF Traces, ToSet
<1>4. ToSet(s) \intersect S \subseteq ToSet(t)
  <2>1. SUFFICES ASSUME NEW i \in 1..Len(s), s[i] \in S
                 PROVE  s[i] \in ToSet(t)
    BY DEF ToSet
  <2>2. PICK k \in 1..Len(t) : h[k] = i
    BY <1>2, <2>1 DEF Traces
  <2>3. QED
    BY <1>1, <1>2, <2>2 DEF Traces, ToSet
<1>5. Distinct(s) => Distinct(t)
  <2>1. SUFFICES ASSUME Distinct(s), NEW k \in 1..Len(t), NEW l \in 1..Len(t), t[k] = t[l]
                 PROVE  k = l
    BY DEF Distinct
  <2>2. h[k] = h[l] /\ h[k] \in Nat
    BY <1>2, <2>1 DEF Traces, Distinct
  <2>3. ~(k < l) /\ ~(l < k)
    BY <1>2, <2>2 DEF Traces
  <2>4. QED
    BY <2>3
<1>6. QED
  BY <1>1, <1>3, <1>4, <1>5 DEF t

-----------------------------------------------------------------------------
(* The invariant.                                                          *)

\* Those the current event of r has still to be sent to.
Behind(r) == {left[r][i] : i \in 2..Len(left[r])}

\* Nobody subscribes twice, and only subscribers are pushed to.
Listed ==
  /\ Distinct(subs)
  /\ \A r \in Runs : Distinct(left[r])
  /\ \A c \in ToSet(subs) : stage[c] = "subscribed"
  /\ \A r \in Runs : \A c \in ToSet(left[r]) : stage[c] = "subscribed"
  /\ \A c \in Clients : stage[c] = "subscribed" /\ up[c] => c \in ToSet(subs)
  /\ \A r \in Runs : \A c \in dead[r] : ~up[c]

\* A run goes on until its last event, and has one left for that.
Counted ==
  \A r \in Runs :
    /\ phase[r] = "new" <=> count[r] = 0
    /\ ~final[r] => count[r] < MaxEvents[r]
    /\ phase[r] \in {"new", "working"} => ~final[r]

\* Said before: the event of r that is being published, if any, is not among them.
Before(e) == e.n <= count[e.run] /\ (phase[e.run] = "publishing" => e.n < count[e.run])

InOrder(s) ==
  \A i, j \in 1..Len(s) : i < j /\ s[i].run = s[j].run => s[i].n < s[j].n

\* Files are in order, and behind the runs.
Filed ==
  \A q \in Runs : InOrder(file[q]) /\ \A e \in ToSet(file[q]) : Before(e)

\* So is what clients see; who is still to be sent an event has not seen it.
Shown ==
  \A c \in Clients :
    /\ InOrder(seen[c])
    /\ stage[c] \in {"new", "asked"} => seen[c] = <<>>
    /\ \A e \in ToSet(seen[c]) :
         e.n <= count[e.run] /\ (c \in Behind(e.run) => e.n < count[e.run])

\* The current event of r concerns c.
Concerns(r, c) ==
  /\ phase[r] = "publishing"
  /\ stage[c] = "subscribed"
  /\ since[c][r] < count[r]
  /\ Matches(c, Current(r))

\* Whom it concerns and who is there has been sent it, or is about to be.
Pushed ==
  \A r \in Runs, c \in Clients :
    Concerns(r, c) /\ up[c] => c \in Behind(r) \/ Current(r) \in ToSet(seen[c])

\* Whom it concerns and who is gone will be found lost, or was.
Missed ==
  \A r \in Runs : \A c \in ToSet(subs) :
    Concerns(r, c) /\ ~up[c] => c \in ToSet(left[r]) \union dead[r]

\* Event n of r is over, it began after c was subscribed, and c asked for its like.
Owed(c, r, n) == n \in Told(r) /\ n > since[c][r] /\ Matches(c, TheEvent(r, n))

\* LiveIsComplete, and GoneAreForgotten, event by event.
AllSeen ==
  \A c \in Clients, r \in Runs : \A n \in Told(r) :
    stage[c] = "subscribed" /\ up[c] /\ Owed(c, r, n) => TheEvent(r, n) \in ToSet(seen[c])

NoneOwed == \A c \in ToSet(subs) : ~up[c] => \A r \in Runs : \A n \in Told(r) : ~Owed(c, r, n)

IInv ==
  /\ TypeOK /\ Listed /\ Counted
  /\ Filed /\ Shown
  /\ Pushed /\ AllSeen
  /\ Missed /\ NoneOwed

-----------------------------------------------------------------------------
(* Events, and what the parts of a step do.                                *)

LEMMA EventFacts ==
  /\ \A e \in Event : /\ e.run \in Runs /\ e.n \in 1..MaxEvents[e.run] /\ e.n \in Nat
                      /\ e.kind \in Kinds
                      /\ e = [run |-> e.run, n |-> e.n, kind |-> e.kind]
  /\ \A r \in Runs, n \in Nat, k \in Kinds :
       n \in 1..MaxEvents[r] => [run |-> r, n |-> n, kind |-> k] \in Event
BY EventsAssumption DEF Event

LEMMA KindFacts == \A r, n : Kind(r, n) \in Kinds
BY DEF Kind, Kinds

LEMMA Appended ==
  ASSUME NEW X, NEW s \in Seq(X), NEW x \in X
  PROVE  /\ Append(s, x) \in Seq(X)
         /\ ToSet(Append(s, x)) = ToSet(s) \union {x}
         /\ s \o <<x>> = Append(s, x)
<1>1. /\ Append(s, x) \in Seq(X) /\ Len(Append(s, x)) = Len(s) + 1
      /\ \A i \in 1..Len(s) : Append(s, x)[i] = s[i]
      /\ Append(s, x)[Len(s) + 1] = x
  BY AppendProperties
<1>2. ToSet(Append(s, x)) \subseteq ToSet(s) \union {x}
  BY <1>1 DEF ToSet
<1>3. ToSet(s) \union {x} \subseteq ToSet(Append(s, x))
  BY <1>1 DEF ToSet
<1>4. QED
  BY <1>1, <1>2, <1>3

LEMMA Members ==
  ASSUME NEW X, NEW s \in Seq(X)
  PROVE  ToSet(s) = {s[i] : i \in 1..Len(s)}
BY DEF ToSet

LEMMA SentFacts ==
  ASSUME TypeOK, NEW c \in Clients, NEW es \in Seq(Event)
  PROVE  /\ Sent(c, es) \in [Clients -> Seq(Event)]
         /\ \A d \in Clients \ {c} : Sent(c, es)[d] = seen[d]
         /\ Sent(c, es)[c] = IF up[c] THEN seen[c] \o es ELSE seen[c]
<1>1. seen[c] \o es \in Seq(Event)
  BY ConcatProperties DEF TypeOK
<1>2. QED
  BY <1>1 DEF Sent, TypeOK

\* What is later than all that came from the same run keeps the order.
LEMMA LaterInOrder ==
  ASSUME NEW s \in Seq(Event), InOrder(s), NEW e \in Event,
         \A x \in ToSet(s) : x.run = e.run => x.n < e.n
  PROVE  InOrder(Append(s, e))
<1>1. /\ Len(Append(s, e)) = Len(s) + 1
      /\ \A i \in 1..Len(s) : Append(s, e)[i] = s[i]
      /\ Append(s, e)[Len(s) + 1] = e
  BY AppendProperties
<1>2. SUFFICES ASSUME NEW i \in 1..(Len(s) + 1), NEW j \in 1..(Len(s) + 1), i < j,
                      Append(s, e)[i].run = Append(s, e)[j].run
               PROVE  Append(s, e)[i].n < Append(s, e)[j].n
  BY <1>1 DEF InOrder
<1>3. i \in 1..Len(s) /\ Append(s, e)[i] = s[i] /\ s[i] \in ToSet(s)
  BY <1>1, <1>2 DEF ToSet
<1>4. CASE j \in 1..Len(s)
  BY <1>1, <1>2, <1>3, <1>4 DEF InOrder
<1>5. CASE j = Len(s) + 1
  BY <1>1, <1>2, <1>3, <1>5
<1>6. QED
  BY <1>4, <1>5

\* An event e of r is said, whatever became of the one before.
Says(r, last, e) ==
  /\ e = [run |-> r, n |-> count[r] + 1,
          kind |-> IF last \/ count[r] = 0 THEN "run" ELSE "step"]
  /\ count' = [count EXCEPT ![r] = @ + 1]
  /\ final' = [final EXCEPT ![r] = last]
  /\ ~final[r] /\ (last \/ count[r] + 1 < MaxEvents[r])
  /\ lost' = IF phase[r] = "publishing" THEN [lost EXCEPT ![r] = @ \union {count[r]}] ELSE lost
  /\ GoesOn(r, e, Kept(subs, {c \in ToSet(subs) : Matches(c, e)}), {})
  /\ UNCHANGED clientVars

LEMMA SaysFacts ==
  ASSUME TypeOK, Counted, NEW r \in Runs, Start(r) \/ Continue(r) \/ CancelFinishes(r)
  PROVE  \E last \in BOOLEAN, e \in Event : Says(r, last, e)
<1> DEFINE e(last) == [run |-> r, n |-> count[r] + 1,
                       kind |-> IF last \/ count[r] = 0 THEN "run" ELSE "step"]
<1>1. count[r] \in Nat /\ MaxEvents[r] \in Nat /\ MaxEvents[r] >= 2
  BY EventsAssumption DEF TypeOK
<1>2. \E last \in BOOLEAN :
        /\ Publish(r, last)
        /\ ~final[r] /\ (last \/ count[r] + 1 < MaxEvents[r])
        /\ lost' = IF phase[r] = "publishing"
                   THEN [lost EXCEPT ![r] = @ \union {count[r]}] ELSE lost
        /\ UNCHANGED clientVars
  <2>1. CASE Start(r)
    <3>1. Publish(r, FALSE) /\ phase[r] = "new" /\ UNCHANGED lost /\ UNCHANGED clientVars
      BY <2>1 DEF Start
    <3>2. ~final[r] /\ count[r] + 1 < MaxEvents[r]
      BY <1>1, <3>1 DEF Counted
    <3>3. QED
      BY <3>1, <3>2
  <2>2. CASE Continue(r)
    <3>1. phase[r] = "working" /\ UNCHANGED lost /\ UNCHANGED clientVars
      BY <2>2 DEF Continue
    <3>2. ~final[r]
      BY <3>1 DEF Counted
    <3>3. count[r] < MaxEvents[r] - 1 => count[r] + 1 < MaxEvents[r]
      BY <1>1
    <3>5. \/ Publish(r, FALSE) /\ count[r] + 1 < MaxEvents[r]
          \/ Publish(r, TRUE)
      BY <2>2, <3>3 DEF Continue
    <3>4. QED
      BY <3>1, <3>2, <3>5
  <2>3. CASE CancelFinishes(r)
    <3>1. ~final[r]
      BY <2>3 DEF CancelFinishes, Counted, Kind
    <3>2. QED
      BY <2>3, <3>1 DEF CancelFinishes
  <2>4. QED
    BY <2>1, <2>2, <2>3
<1>3. PICK last \in BOOLEAN :
        /\ Publish(r, last)
        /\ ~final[r] /\ (last \/ count[r] + 1 < MaxEvents[r])
        /\ lost' = IF phase[r] = "publishing"
                   THEN [lost EXCEPT ![r] = @ \union {count[r]}] ELSE lost
        /\ UNCHANGED clientVars
  BY <1>2
<1>4. e(last) \in Event
  <2>1. count[r] < MaxEvents[r]
    BY <1>3 DEF Counted
  <2>2. count[r] + 1 \in 1..MaxEvents[r]
    BY <1>1, <2>1
  <2> DEFINE k == IF last \/ count[r] = 0 THEN "run" ELSE "step"
  <2>3. k \in Kinds /\ count[r] + 1 \in Nat
    BY <1>1 DEF Kinds
  <2> HIDE DEF k
  <2>4. [run |-> r, n |-> count[r] + 1, kind |-> k] \in Event
    BY <2>2, <2>3, EventFacts
  <2>5. QED
    BY <2>4 DEF k
<1>5. Says(r, last, e(last))
  <2>1. /\ count' = [count EXCEPT ![r] = @ + 1]
        /\ final' = [final EXCEPT ![r] = last]
        /\ GoesOn(r, e(last), Kept(subs, {c \in ToSet(subs) : Matches(c, e(last))}), {})
    BY <1>3, Zenon DEF Publish
  <2>2. QED
    BY <1>3, <2>1, Zenon DEF Says
<1>6. QED
  BY <1>4, <1>5

\* The connections a push finds lost really are.
LEMMA DrainedFacts ==
  ASSUME TypeOK, Listed, Counted, NEW r \in Runs, Drained(r)
  PROVE  /\ phase[r] = "publishing"
         /\ Current(r) \in Event
         /\ left[r] \in Seq(Clients) /\ left[r] # <<>> /\ Head(left[r]) \in Clients
         /\ Tail(left[r]) \in Seq(Clients) /\ Behind(r) = ToSet(Tail(left[r]))
         /\ ToSet(left[r]) = {Head(left[r])} \union Behind(r)
         /\ Head(left[r]) \notin Behind(r)
         /\ UNCHANGED <<count, final, lost>> /\ UNCHANGED clientVars
         /\ \E gone \in SUBSET Clients :
              /\ gone = dead[r] \union {c \in {Head(left[r])} : ~up[c]}
              /\ GoesOn(r, Current(r), Tail(left[r]), gone)
<1>1. left[r] \in Seq(Clients) /\ left[r] # <<>> /\ phase[r] = "publishing"
  BY DEF Drained, TypeOK
<1>2. /\ Head(left[r]) \in Clients /\ Head(left[r]) = left[r][1]
      /\ Tail(left[r]) \in Seq(Clients)
      /\ Len(left[r]) \in Nat \ {0} /\ Len(Tail(left[r])) = Len(left[r]) - 1
      /\ \A i \in 1..Len(Tail(left[r])) : Tail(left[r])[i] = left[r][i + 1]
  BY <1>1, HeadTailProperties
<1>3. Behind(r) = ToSet(Tail(left[r]))
  <2> DEFINE t == Tail(left[r])
  <2>1. ToSet(t) = {t[i] : i \in 1..Len(t)}
    BY <1>2, Members
  <2>2. Len(t) = Len(left[r]) - 1 /\ \A i \in 1..Len(t) : t[i] = left[r][i + 1]
    BY <1>2
  <2> HIDE DEF t
  <2>3. \A i \in 2..Len(left[r]) : i - 1 \in 1..Len(t) /\ t[i - 1] = left[r][i]
    BY <1>2, <2>2
  <2>4. \A i \in 1..Len(t) : i + 1 \in 2..Len(left[r])
    BY <1>2, <2>2
  <2>5. Behind(r) \subseteq ToSet(t)
    BY <2>1, <2>3 DEF Behind
  <2>6. ToSet(t) \subseteq Behind(r)
    BY <2>1, <2>2, <2>4 DEF Behind
  <2>7. QED
    BY <2>5, <2>6 DEF t
<1>4. ToSet(left[r]) = {Head(left[r])} \union Behind(r)
  BY <1>1, <1>2 DEF ToSet, Behind
<1>5. Head(left[r]) \notin Behind(r)
  BY <1>2 DEF Behind, Listed, Distinct
<1>6. Current(r) \in Event
  <2>1. count[r] \in 1..MaxEvents[r]
    BY <1>1, EventsAssumption DEF TypeOK, Counted
  <2>2. QED
    BY <2>1, EventFacts, KindFacts DEF Current
<1>7. dead[r] \in SUBSET Clients
  BY DEF TypeOK
<1>8. UNCHANGED <<count, final, lost>> /\ UNCHANGED clientVars
  BY DEF Drained
<1>9. \E gone \in SUBSET Clients :
        /\ gone = dead[r] \union {c \in {Head(left[r])} : ~up[c]}
        /\ GoesOn(r, Current(r), Tail(left[r]), gone)
  <2> DEFINE c == Head(left[r])
             gone == IF up[c] THEN dead[r] ELSE dead[r] \union {c}
  <2>1. GoesOn(r, Current(r), Tail(left[r]), gone)
    BY DEF Drained
  <2>2. gone = dead[r] \union {d \in {c} : ~up[d]}
    OBVIOUS
  <2>3. gone \in SUBSET Clients
    BY <1>2, <1>7
  <2>4. QED
    BY <2>1, <2>2, <2>3
<1>10. QED
  BY <1>1, <1>2, <1>3, <1>4, <1>5, <1>6, <1>8, <1>9

-----------------------------------------------------------------------------
(* Types.                                                                  *)

\* What stays to be shown of a step of a publication.
LEMMA PushTypes ==
  ASSUME TypeOK, NEW r \in Runs, NEW e \in Event,
         NEW rest \in Seq(Clients), NEW gone \in SUBSET Clients,
         GoesOn(r, e, rest, gone), UNCHANGED clientVars,
         count' \in [Runs -> Nat] /\ \A q \in Runs : count'[q] <= MaxEvents[q],
         final' \in [Runs -> BOOLEAN],
         lost' \in [Runs -> SUBSET Nat] /\ \A q \in Runs : lost'[q] \subseteq 1..count'[q]
  PROVE  TypeOK'
<1>1. UNCHANGED <<up, stage, want, since>>
  BY DEF clientVars
<1>2. CASE rest = <<>>
  <2>1. Recorded(r, e, gone)
    BY <1>2 DEF GoesOn
  <2>2. phase' \in [Runs -> {"new", "publishing", "working", "ended"}]
    BY <2>1 DEF Recorded, TypeOK
  <2>3. left' \in [Runs -> Seq(Clients)] /\ dead' \in [Runs -> SUBSET Clients] /\ seen' = seen
    BY <2>1 DEF Recorded, TypeOK
  <2>4. subs' \in Seq(Clients)
    BY <2>1, KeptElements DEF Recorded, TypeOK
  <2>5. file' \in [Runs -> Seq(Event)]
    <3>1. \A q \in Runs : file[q] \in Seq(Event) /\ Append(file[q], e) \in Seq(Event)
      BY Appended DEF TypeOK
    <3>2. QED
      BY <2>1, <3>1 DEF Recorded
  <2>6. \A q \in Runs : phase'[q] = "publishing" <=> left'[q] # <<>>
    BY <2>1 DEF Recorded, TypeOK
  <2>7. QED
    BY <1>1, <2>2, <2>3, <2>4, <2>5, <2>6 DEF TypeOK
<1>3. CASE rest # <<>>
  <2>1. /\ phase' = [phase EXCEPT ![r] = "publishing"]
        /\ left' = [left EXCEPT ![r] = rest]
        /\ dead' = [dead EXCEPT ![r] = gone]
        /\ seen' = Sent(Head(rest), <<e>>)
        /\ UNCHANGED <<file, subs>>
    BY <1>3 DEF GoesOn
  <2>2. seen' \in [Clients -> Seq(Event)]
    <3>1. Head(rest) \in Clients /\ <<e>> \in Seq(Event)
      BY <1>3, HeadTailProperties
    <3>2. QED
      BY <2>1, <3>1, SentFacts
  <2>3. /\ phase' \in [Runs -> {"new", "publishing", "working", "ended"}]
        /\ left' \in [Runs -> Seq(Clients)] /\ dead' \in [Runs -> SUBSET Clients]
    BY <2>1 DEF TypeOK
  <2>4. \A q \in Runs : phase'[q] = "publishing" <=> left'[q] # <<>>
    BY <1>3, <2>1 DEF TypeOK
  <2>5. QED
    BY <1>1, <2>1, <2>2, <2>3, <2>4 DEF TypeOK
<1>4. QED
  BY <1>2, <1>3

LEMMA SaysTypes ==
  ASSUME TypeOK, Counted, NEW r \in Runs, NEW last \in BOOLEAN, NEW e \in Event, Says(r, last, e)
  PROVE  TypeOK'
<1>1. Kept(subs, {c \in ToSet(subs) : Matches(c, e)}) \in Seq(Clients)
  BY KeptElements DEF TypeOK
<1>2. count' = [count EXCEPT ![r] = @ + 1] /\ final' = [final EXCEPT ![r] = last] /\ ~final[r]
  BY DEF Says
<1>3. count' \in [Runs -> Nat] /\ \A q \in Runs : count'[q] <= MaxEvents[q] /\ count[q] <= count'[q]
  <2>1. count[r] < MaxEvents[r]
    BY <1>2 DEF Counted
  <2>2. \A q \in Runs : count[q] \in Nat /\ MaxEvents[q] \in Nat /\ count[q] <= MaxEvents[q]
    BY EventsAssumption DEF TypeOK
  <2>3. count \in [Runs -> Nat]
    BY DEF TypeOK
  <2>4. \A q \in Runs : count'[q] = IF q = r THEN count[q] + 1 ELSE count[q]
    BY <1>2, <2>3
  <2>5. count' \in [Runs -> Nat]
    BY <1>2, <2>3
  <2>6. QED
    BY <2>1, <2>2, <2>4, <2>5
<1>4. final' \in [Runs -> BOOLEAN]
  BY <1>2 DEF TypeOK
<1>5. lost' = IF phase[r] = "publishing" THEN [lost EXCEPT ![r] = @ \union {count[r]}] ELSE lost
  BY DEF Says
<1>6. \A q \in Runs : 1..count[q] \subseteq 1..count'[q] /\ 1..count[q] \subseteq Nat
  BY <1>3 DEF TypeOK
<1>7. phase[r] = "publishing" => count[r] \in 1..count[r]
  BY DEF TypeOK, Counted
<1>8. lost' \in [Runs -> SUBSET Nat] /\ \A q \in Runs : lost'[q] \subseteq 1..count'[q]
  <2>1. \A q \in Runs : lost[q] \in SUBSET Nat /\ lost[q] \subseteq 1..count[q]
    BY DEF TypeOK
  <2>2. CASE phase[r] = "publishing"
    <3>1. lost' = [lost EXCEPT ![r] = @ \union {count[r]}] /\ lost \in [Runs -> SUBSET Nat]
      BY <1>5, <2>2 DEF TypeOK
    <3>2. \A q \in Runs : lost'[q] = IF q = r THEN lost[q] \union {count[q]} ELSE lost[q]
      BY <3>1
    <3>3. \A q \in Runs : lost'[q] \subseteq 1..count[q]
      BY <1>7, <2>1, <2>2, <3>2
    <3>4. lost' \in [Runs -> SUBSET Nat]
      <4>1. DOMAIN lost' = Runs /\ lost' = [q \in Runs |-> lost'[q]]
        BY <3>1
      <4>2. \A q \in Runs : lost'[q] \in SUBSET Nat
        BY <1>6, <3>3
      <4>3. QED
        BY <4>1, <4>2
    <3>5. QED
      BY <1>6, <3>3, <3>4
  <2>3. CASE phase[r] # "publishing"
    <3>1. lost' = lost /\ lost \in [Runs -> SUBSET Nat]
      BY <1>5, <2>3 DEF TypeOK
    <3>2. QED
      BY <1>6, <2>1, <3>1
  <2>4. QED
    BY <2>2, <2>3
<1>9. GoesOn(r, e, Kept(subs, {c \in ToSet(subs) : Matches(c, e)}), {}) /\ UNCHANGED clientVars
  BY DEF Says
<1>10. QED
  BY <1>1, <1>3, <1>4, <1>8, <1>9, PushTypes

LEMMA DrainedTypes ==
  ASSUME TypeOK, Listed, Counted, NEW r \in Runs, Drained(r)
  PROVE  TypeOK'
<1>1. PICK gone \in SUBSET Clients : GoesOn(r, Current(r), Tail(left[r]), gone)
  BY DrainedFacts
<1>2. /\ count' \in [Runs -> Nat] /\ \A q \in Runs : count'[q] <= MaxEvents[q]
      /\ final' \in [Runs -> BOOLEAN]
      /\ lost' \in [Runs -> SUBSET Nat] /\ \A q \in Runs : lost'[q] \subseteq 1..count'[q]
  BY DrainedFacts DEF TypeOK
<1>3. QED
  BY <1>1, <1>2, DrainedFacts, PushTypes

LEMMA LinesFacts ==
  ASSUME TypeOK, NEW c \in Clients, stage[c] = "asked"
  PROVE  \/ Lines(c) = <<>>
         \/ \E q \in Runs :
              /\ want[c].replay = q
              /\ Lines(c) = Kept(file[q], {e \in ToSet(file[q]) : e.kind \in want[c].topics})
<1>1. want[c] \in Requests[c]
  BY DEF TypeOK
<1>2. want[c].replay \in Runs \union {None}
  BY <1>1, RequestAssumption
<1>3. QED
  BY <1>2 DEF Lines

LEMMA LinesType ==
  ASSUME TypeOK, NEW c \in Clients, stage[c] = "asked"
  PROVE  Lines(c) \in Seq(Event)
<1>1. CASE Lines(c) = <<>>
  BY <1>1
<1>2. CASE \E q \in Runs :
             Lines(c) = Kept(file[q], {e \in ToSet(file[q]) : e.kind \in want[c].topics})
  BY <1>2, KeptElements DEF TypeOK
<1>3. QED
  BY <1>1, <1>2, LinesFacts

LEMMA ClientTypes ==
  ASSUME TypeOK, NEW c \in Clients, Ask(c) \/ RequestSteps(c) \/ Disconnect(c)
  PROVE  TypeOK'
<1>1. CASE Ask(c)
  BY <1>1 DEF Ask, TypeOK, runVars
<1>2. ASSUME Subscribed(c), stage[c] \in {"asked", "replaying"}, UNCHANGED <<file, up, want>>,
             UNCHANGED runVars, seen' \in [Clients -> Seq(Event)]
      PROVE  TypeOK'
  <2>1. subs' \in Seq(Clients)
    BY <1>2, Appended DEF Subscribed, TypeOK
  <2>2. since' \in [Clients -> [Runs -> Nat]]
    BY <1>2 DEF Subscribed, TypeOK
  <2>3. stage' = [stage EXCEPT ![c] = "subscribed"]
    BY <1>2 DEF Subscribed
  <2>4. QED
    BY <1>2, <2>1, <2>2, <2>3 DEF TypeOK, runVars
<1>3. CASE Serve(c)
  <2>1. /\ stage[c] = "asked" /\ seen' = Sent(c, Lines(c))
        /\ UNCHANGED <<file, up, want>> /\ UNCHANGED runVars
    BY <1>3 DEF Serve
  <2>2. seen' \in [Clients -> Seq(Event)]
    BY <2>1, LinesType, SentFacts
  <2>3. CASE Subscribed(c)
    BY <1>2, <2>1, <2>2, <2>3
  <2>4. CASE stage' = [stage EXCEPT ![c] = "replaying"] /\ UNCHANGED <<subs, since>>
    BY <2>1, <2>2, <2>4 DEF TypeOK, runVars
  <2>5. QED
    BY <1>3, <2>3, <2>4 DEF Serve
<1>4. CASE Replayed(c)
  <2>1. /\ stage[c] = "replaying"
        /\ UNCHANGED <<file, up, want, seen>> /\ UNCHANGED runVars
    BY <1>4 DEF Replayed
  <2>2. CASE Subscribed(c)
    BY <1>2, <2>1, <2>2 DEF TypeOK
  <2>3. CASE stage' = [stage EXCEPT ![c] = "failed"] /\ UNCHANGED <<subs, since>>
    BY <2>1, <2>3 DEF TypeOK, runVars
  <2>4. QED
    BY <1>4, <2>2, <2>3 DEF Replayed
<1>5. CASE Disconnect(c)
  <2>1. /\ subs' = Kept(subs, Clients \ {c}) /\ up' = [up EXCEPT ![c] = FALSE]
        /\ UNCHANGED <<file, stage, want, seen, since>> /\ UNCHANGED runVars
    BY <1>5 DEF Disconnect
  <2>2. subs' \in Seq(Clients)
    BY <2>1, KeptElements DEF TypeOK
  <2>3. QED
    BY <2>1, <2>2 DEF TypeOK, runVars
<1>6. QED
  BY <1>1, <1>3, <1>4, <1>5 DEF RequestSteps

LEMMA CancelTypes ==
  ASSUME TypeOK, Counted, NEW r \in Runs, CancelEnds(r)
  PROVE  TypeOK'
<1>1. /\ phase[r] = "publishing"
      /\ phase' = [phase EXCEPT ![r] = "ended"]
      /\ left' = [left EXCEPT ![r] = <<>>]
      /\ dead' = [dead EXCEPT ![r] = {}]
      /\ lost' = [lost EXCEPT ![r] = @ \union {count[r]}]
      /\ UNCHANGED <<count, final, file, subs, seen, up, stage, want, since>>
  BY DEF CancelEnds, clientVars
<1>2. count[r] \in 1..count[r]
  BY <1>1 DEF TypeOK, Counted
<1>3. lost' \in [Runs -> SUBSET Nat] /\ \A q \in Runs : lost'[q] \subseteq 1..count'[q]
  BY <1>1, <1>2 DEF TypeOK
<1>4. QED
  BY <1>1, <1>3 DEF TypeOK

-----------------------------------------------------------------------------
(* A step of a publication, whether the event was begun by it or went on.  *)

\* Event e of r went on to rest, those it has found gone being gone.
Push(r, e, rest, gone) ==
  /\ GoesOn(r, e, rest, gone) /\ UNCHANGED clientVars
  /\ e = Current(r)' /\ e.n = count[r]'
  /\ \A q \in Runs \ {r} : count'[q] = count[q] /\ final'[q] = final[q] /\ lost'[q] = lost[q]
  /\ \A n \in Told(r)' : \/ n \in Told(r) /\ TheEvent(r, n)' = TheEvent(r, n)
                         \/ rest = <<>> /\ n = count'[r]
  /\ Distinct(rest)
  /\ \A c \in ToSet(rest) : stage[c] = "subscribed"
  /\ \A c \in gone : ~up[c]
  /\ \A q \in Runs : \A x \in ToSet(file[q]) : x.run = r => x.n < e.n
  /\ \A c \in Clients : \A x \in ToSet(seen[c]) :
       x.run = r => x.n <= e.n /\ (c \in ToSet(rest) => x.n < e.n)
  /\ \A c \in Clients : stage[c] = "subscribed" /\ since[c][r] < e.n /\ Matches(c, e) =>
       IF up[c] THEN c \in ToSet(rest) \/ e \in ToSet(seen[c])
       ELSE c \in ToSet(subs) => c \in ToSet(rest) \union gone

\* The same, variable by variable.
LEMMA PushFacts ==
  ASSUME TypeOK, NEW r \in Runs, NEW e \in Event,
         NEW rest \in Seq(Clients), NEW gone \in SUBSET Clients, Push(r, e, rest, gone)
  PROVE  /\ e.run = r /\ e.n = count'[r] /\ e.n \in Nat
         /\ UNCHANGED <<up, stage, want, since>>
         /\ \A q \in Runs \ {r} : phase'[q] = phase[q] /\ left'[q] = left[q] /\ dead'[q] = dead[q]
         /\ left'[r] = rest
         /\ phase'[r] \in {"publishing", "working", "ended"}
         /\ phase'[r] = "publishing" <=> rest # <<>>
         /\ phase'[r] = "working" => ~final'[r]
         /\ dead'[r] \in SUBSET gone
         /\ rest # <<>> => dead'[r] = gone /\ subs' = subs /\ file' = file
         /\ rest = <<>> => seen' = seen /\ ToSet(subs') = ToSet(subs) \ gone
         /\ Distinct(subs) => Distinct(subs')
         /\ ToSet(subs') \subseteq ToSet(subs)
         /\ \A q \in Runs : \/ file'[q] = file[q]
                            \/ rest = <<>> /\ file'[q] = Append(file[q], e)
         /\ rest # <<>> => /\ Head(rest) \in ToSet(rest)
                           /\ \A c \in Clients \ {Head(rest)} : seen'[c] = seen[c]
                           /\ seen'[Head(rest)] = IF up[Head(rest)]
                                                  THEN Append(seen[Head(rest)], e)
                                                  ELSE seen[Head(rest)]
<1>1. GoesOn(r, e, rest, gone) /\ UNCHANGED <<up, stage, want, since>>
  BY DEF Push, clientVars
<1>2. e.run = r /\ e.n = count'[r] /\ e.n \in Nat
  BY EventFacts DEF Push, Current
<1>3. CASE rest = <<>>
  <2>1. Recorded(r, e, gone)
    BY <1>1, <1>3 DEF GoesOn
  <2>2. /\ \A q \in Runs \ {r} : phase'[q] = phase[q] /\ left'[q] = left[q] /\ dead'[q] = dead[q]
        /\ left'[r] = <<>> /\ dead'[r] = {} /\ seen' = seen
        /\ phase'[r] = IF final'[r] THEN "ended" ELSE "working"
    BY <2>1 DEF Recorded, TypeOK
  <2>3. \A q \in Runs : file'[q] = file[q] \/ file'[q] = Append(file[q], e)
    BY <2>1 DEF Recorded
  <2>4. /\ ToSet(subs') = ToSet(subs) \intersect (Clients \ gone)
        /\ Distinct(subs) => Distinct(subs')
    BY <2>1, KeptElements DEF Recorded, TypeOK
  <2>5. ToSet(subs) \in SUBSET Clients
    BY DEF ToSet, TypeOK
  <2>6. ToSet(subs') = ToSet(subs) \ gone
    BY <2>4, <2>5
  <2>7. QED
    BY <1>1, <1>2, <1>3, <2>2, <2>3, <2>4, <2>6
<1>4. CASE rest # <<>>
  <2>1. /\ phase' = [phase EXCEPT ![r] = "publishing"]
        /\ left' = [left EXCEPT ![r] = rest]
        /\ dead' = [dead EXCEPT ![r] = gone]
        /\ seen' = Sent(Head(rest), <<e>>)
        /\ UNCHANGED <<file, subs>>
    BY <1>1, <1>4 DEF GoesOn
  <2>2. /\ \A q \in Runs \ {r} : phase'[q] = phase[q] /\ left'[q] = left[q] /\ dead'[q] = dead[q]
        /\ left'[r] = rest /\ dead'[r] = gone /\ phase'[r] = "publishing"
    BY <2>1 DEF TypeOK
  <2>3. Head(rest) \in Clients /\ Head(rest) \in ToSet(rest) /\ <<e>> \in Seq(Event)
    <3>1. Head(rest) \in Clients /\ Head(rest) = rest[1] /\ 1 \in 1..Len(rest)
      BY <1>4, HeadTailProperties
    <3>2. QED
      BY <3>1 DEF ToSet
  <2>4. /\ \A c \in Clients \ {Head(rest)} : seen'[c] = seen[c]
        /\ seen'[Head(rest)] = IF up[Head(rest)] THEN seen[Head(rest)] \o <<e>>
                               ELSE seen[Head(rest)]
    BY <2>1, <2>3, SentFacts
  <2>5. seen[Head(rest)] \o <<e>> = Append(seen[Head(rest)], e)
    BY <2>3, Appended DEF TypeOK
  <2>6. QED
    BY <1>1, <1>2, <1>4, <2>1, <2>2, <2>3, <2>4, <2>5
<1>5. QED
  BY <1>3, <1>4

LEMMA PushListed ==
  ASSUME TypeOK, Listed, NEW r \in Runs, NEW e \in Event,
         NEW rest \in Seq(Clients), NEW gone \in SUBSET Clients, Push(r, e, rest, gone)
  PROVE  Listed'
<1>1. /\ UNCHANGED <<up, stage>>
      /\ \A q \in Runs \ {r} : left'[q] = left[q] /\ dead'[q] = dead[q]
      /\ left'[r] = rest /\ dead'[r] \in SUBSET gone
      /\ Distinct(subs) => Distinct(subs')
      /\ ToSet(subs') \subseteq ToSet(subs)
      /\ ToSet(subs') = ToSet(subs) \ gone \/ subs' = subs
  BY PushFacts
<1>2. Distinct(rest) /\ (\A c \in ToSet(rest) : stage[c] = "subscribed") /\ \A c \in gone : ~up[c]
  BY DEF Push
<1>3. Distinct(subs') /\ \A c \in ToSet(subs)' : stage'[c] = "subscribed"
  BY <1>1 DEF Listed
<1>4. \A q \in Runs : /\ Distinct(left'[q])
                      /\ \A c \in ToSet(left'[q]) : stage'[c] = "subscribed"
                      /\ \A c \in dead'[q] : ~up'[c]
  BY <1>1, <1>2 DEF Listed
<1>5. \A c \in Clients : stage'[c] = "subscribed" /\ up'[c] => c \in ToSet(subs')
  BY <1>1, <1>2 DEF Listed
<1>6. QED
  BY <1>3, <1>4, <1>5 DEF Listed

LEMMA PushFiled ==
  ASSUME TypeOK, Filed, NEW r \in Runs, NEW e \in Event,
         NEW rest \in Seq(Clients), NEW gone \in SUBSET Clients, Push(r, e, rest, gone)
  PROVE  Filed'
<1>1. /\ e.run = r /\ e.n = count'[r] /\ e.n \in Nat
      /\ \A q \in Runs \ {r} : phase'[q] = phase[q] /\ count'[q] = count[q]
      /\ rest = <<>> => phase'[r] # "publishing"
      /\ \A q \in Runs : \A x \in ToSet(file[q]) : x.run = r => x.n < e.n
      /\ \A q \in Runs : file'[q] = file[q] \/ (rest = <<>> /\ file'[q] = Append(file[q], e))
  <2>1. /\ e.run = r /\ e.n = count'[r] /\ e.n \in Nat
        /\ \A q \in Runs \ {r} : phase'[q] = phase[q]
        /\ rest = <<>> => phase'[r] # "publishing"
        /\ \A q \in Runs : file'[q] = file[q] \/ (rest = <<>> /\ file'[q] = Append(file[q], e))
    BY PushFacts
  <2>2. /\ \A q \in Runs \ {r} : count'[q] = count[q]
        /\ \A q \in Runs : \A x \in ToSet(file[q]) : x.run = r => x.n < e.n
    BY DEF Push
  <2>3. QED
    BY <2>1, <2>2
<1>2. SUFFICES ASSUME NEW q \in Runs
               PROVE  InOrder(file'[q]) /\ \A x \in ToSet(file'[q]) : Before(x)'
  BY DEF Filed, InOrder
<1>3. file[q] \in Seq(Event) /\ ToSet(file[q]) \subseteq Event
  BY DEF TypeOK, ToSet
<1>4. InOrder(file[q]) /\ \A x \in ToSet(file[q]) : Before(x)
  BY DEF Filed
<1>5. \A x \in ToSet(file[q]) : Before(x)'
  <2>1. TAKE x \in ToSet(file[q])
  <2>2. x.run \in Runs /\ x.n \in Nat /\ Before(x)
    BY <1>3, <1>4, EventFacts
  <2>3. CASE x.run = r
    BY <1>1, <2>2, <2>3 DEF Before
  <2>4. CASE x.run # r
    BY <1>1, <2>2, <2>4 DEF Before
  <2>5. QED
    BY <2>3, <2>4
<1>6. CASE file'[q] = file[q]
  BY <1>4, <1>5, <1>6
<1>7. CASE rest = <<>> /\ file'[q] = Append(file[q], e)
  <2>1. Before(e)'
    BY <1>1, <1>7 DEF Before
  <2>2. ToSet(file'[q]) = ToSet(file[q]) \union {e}
    BY <1>3, <1>7, Appended
  <2>3. InOrder(file'[q])
    BY <1>1, <1>3, <1>4, <1>7, LaterInOrder
  <2>4. QED
    BY <1>5, <2>1, <2>2, <2>3
<1>8. QED
  BY <1>1, <1>6, <1>7

LEMMA PushShown ==
  ASSUME TypeOK, Shown, NEW r \in Runs, NEW e \in Event,
         NEW rest \in Seq(Clients), NEW gone \in SUBSET Clients, Push(r, e, rest, gone)
  PROVE  Shown'
<1>1. /\ e.run = r /\ e.n = count'[r] /\ e.n \in Nat /\ UNCHANGED stage
      /\ \A q \in Runs \ {r} : left'[q] = left[q]
      /\ left'[r] = rest
      /\ rest = <<>> => seen' = seen
      /\ rest # <<>> => /\ Head(rest) \in ToSet(rest)
                        /\ \A c \in Clients \ {Head(rest)} : seen'[c] = seen[c]
                        /\ seen'[Head(rest)] = IF up[Head(rest)]
                                               THEN Append(seen[Head(rest)], e)
                                               ELSE seen[Head(rest)]
  BY PushFacts
<1>2. /\ \A q \in Runs \ {r} : count'[q] = count[q]
      /\ Distinct(rest) /\ \A c \in ToSet(rest) : stage[c] = "subscribed"
      /\ \A c \in Clients : \A x \in ToSet(seen[c]) :
           x.run = r => x.n <= e.n /\ (c \in ToSet(rest) => x.n < e.n)
  BY DEF Push
<1>3. /\ \A q \in Runs \ {r} : Behind(q)' = Behind(q)
      /\ Behind(r)' \subseteq ToSet(rest)
      /\ rest # <<>> => Head(rest) \notin Behind(r)'
  <2>1. \A q \in Runs \ {r} : Behind(q)' = Behind(q)
    BY <1>1 DEF Behind
  <2>2. Behind(r)' = {rest[i] : i \in 2..Len(rest)}
    BY <1>1 DEF Behind
  <2>3. \A i \in 2..Len(rest) : i \in 1..Len(rest) /\ rest[i] # rest[1]
    BY <1>2 DEF Distinct
  <2>4. QED
    BY <2>1, <2>2, <2>3 DEF ToSet
<1>4. SUFFICES ASSUME NEW c \in Clients
               PROVE  /\ InOrder(seen'[c])
                      /\ stage'[c] \in {"new", "asked"} => seen'[c] = <<>>
                      /\ \A x \in ToSet(seen'[c]) :
                           x.n <= count'[x.run] /\ (c \in Behind(x.run)' => x.n < count'[x.run])
  BY DEF Shown, InOrder
<1>5. seen[c] \in Seq(Event) /\ ToSet(seen[c]) \subseteq Event
  BY DEF TypeOK, ToSet
<1>6. /\ InOrder(seen[c])
      /\ stage[c] \in {"new", "asked"} => seen[c] = <<>>
      /\ \A x \in ToSet(seen[c]) :
           x.n <= count[x.run] /\ (c \in Behind(x.run) => x.n < count[x.run])
  BY DEF Shown
<1>7. \A x \in ToSet(seen[c]) :
        x.n <= count'[x.run] /\ (c \in Behind(x.run)' => x.n < count'[x.run])
  <2>1. TAKE x \in ToSet(seen[c])
  <2>2. x.run \in Runs
    BY <1>5, EventFacts
  <2>3. CASE x.run = r
    BY <1>1, <1>2, <1>3, <2>3
  <2>4. CASE x.run # r
    BY <1>2, <1>3, <1>6, <2>2, <2>4
  <2>5. QED
    BY <2>3, <2>4
<1>8. CASE seen'[c] = seen[c]
  BY <1>1, <1>6, <1>7, <1>8
<1>9. CASE rest # <<>> /\ c = Head(rest) /\ seen'[c] = Append(seen[c], e)
  <2>1. c \in ToSet(rest) /\ c \notin Behind(r)' /\ stage'[c] = "subscribed"
    BY <1>1, <1>2, <1>3, <1>9
  <2>2. \A x \in ToSet(seen[c]) : x.run = r => x.n < e.n
    BY <1>2, <2>1
  <2>3. InOrder(seen'[c])
    BY <1>1, <1>5, <1>6, <1>9, <2>2, LaterInOrder
  <2>4. ToSet(seen'[c]) = ToSet(seen[c]) \union {e}
    BY <1>5, <1>9, Appended
  <2>5. e.n <= count'[e.run] /\ c \notin Behind(e.run)'
    BY <1>1, <2>1
  <2>6. QED
    BY <1>7, <2>1, <2>3, <2>4, <2>5
<1>10. QED
  BY <1>1, <1>8, <1>9

\* What the step does for a client: it is sent the event, now or before, or will be.
LEMMA PushReaches ==
  ASSUME TypeOK, NEW r \in Runs, NEW e \in Event,
         NEW rest \in Seq(Clients), NEW gone \in SUBSET Clients, Push(r, e, rest, gone),
         NEW c \in Clients
  PROVE  /\ ToSet(seen[c]) \subseteq ToSet(seen'[c])
         /\ c \in ToSet(rest) /\ up[c] => c \in Behind(r)' \/ e \in ToSet(seen'[c])
<1>1. /\ left'[r] = rest
      /\ rest = <<>> => seen' = seen
      /\ rest # <<>> => /\ Head(rest) \in ToSet(rest)
                        /\ \A d \in Clients \ {Head(rest)} : seen'[d] = seen[d]
                        /\ seen'[Head(rest)] = IF up[Head(rest)]
                                               THEN Append(seen[Head(rest)], e)
                                               ELSE seen[Head(rest)]
  BY PushFacts
<1>2. ToSet(Append(seen[c], e)) = ToSet(seen[c]) \union {e}
  BY Appended DEF TypeOK
<1>3. ToSet(seen[c]) \subseteq ToSet(seen'[c])
  BY <1>1, <1>2
<1>4. ASSUME c \in ToSet(rest), up[c]
      PROVE  c \in Behind(r)' \/ e \in ToSet(seen'[c])
  <2>1. PICK i \in 1..Len(rest) : rest[i] = c
    BY <1>4 DEF ToSet
  <2>2. CASE i = 1
    <3>1. rest # <<>> /\ c = Head(rest)
      BY <2>1, <2>2
    <3>2. QED
      BY <1>1, <1>2, <1>4, <3>1
  <2>3. CASE i \in 2..Len(rest)
    BY <1>1, <2>1, <2>3 DEF Behind
  <2>4. QED
    BY <2>2, <2>3
<1>5. QED
  BY <1>3, <1>4

\* Of other runs nothing changes.
LEMMA PushElsewhere ==
  ASSUME TypeOK, NEW r \in Runs, NEW e \in Event,
         NEW rest \in Seq(Clients), NEW gone \in SUBSET Clients, Push(r, e, rest, gone),
         NEW q \in Runs \ {r}
  PROVE  /\ Current(q)' = Current(q) /\ Behind(q)' = Behind(q)
         /\ left'[q] = left[q] /\ dead'[q] = dead[q]
         /\ Told(q)' = Told(q)
         /\ \A n : TheEvent(q, n)' = TheEvent(q, n)
         /\ \A c \in Clients : Concerns(q, c)' <=> Concerns(q, c)
         /\ \A c \in Clients : \A n \in Nat : Owed(c, q, n)' <=> Owed(c, q, n)
<1>1. /\ UNCHANGED <<up, stage, want, since>>
      /\ phase'[q] = phase[q] /\ left'[q] = left[q] /\ dead'[q] = dead[q]
  BY PushFacts
<1>2. count'[q] = count[q] /\ final'[q] = final[q] /\ lost'[q] = lost[q]
  BY DEF Push
<1>3. \A n : Kind(q, n)' = Kind(q, n)
  BY <1>2 DEF Kind
<1>4. Current(q)' = Current(q) /\ \A n : TheEvent(q, n)' = TheEvent(q, n)
  BY <1>2, <1>3 DEF Current, TheEvent
<1>5. Behind(q)' = Behind(q) /\ Told(q)' = Told(q)
  BY <1>1, <1>2 DEF Behind, Told
<1>6. \A c, x : Matches(c, x)' <=> Matches(c, x)
  BY <1>1 DEF Matches
<1>7. \A c \in Clients : Concerns(q, c)' <=> Concerns(q, c)
  BY <1>1, <1>2, <1>4, <1>6 DEF Concerns
<1>8. \A c \in Clients : \A n \in Nat : Owed(c, q, n)' <=> Owed(c, q, n)
  BY <1>1, <1>4, <1>5, <1>6 DEF Owed
<1>9. QED
  BY <1>1, <1>4, <1>5, <1>7, <1>8

LEMMA PushPushed ==
  ASSUME TypeOK, Pushed, NEW r \in Runs, NEW e \in Event,
         NEW rest \in Seq(Clients), NEW gone \in SUBSET Clients, Push(r, e, rest, gone)
  PROVE  Pushed'
<1>1. /\ e.n = count'[r] /\ UNCHANGED <<up, stage, want, since>>
      /\ phase'[r] = "publishing" <=> rest # <<>>
  BY PushFacts
<1>2. e = Current(r)'
  BY DEF Push
<1>3. SUFFICES ASSUME NEW q \in Runs, NEW c \in Clients, Concerns(q, c)', up'[c]
               PROVE  c \in Behind(q)' \/ Current(q)' \in ToSet(seen'[c])
  BY DEF Pushed
<1>4. up[c] /\ ToSet(seen[c]) \subseteq ToSet(seen'[c])
  BY <1>1, <1>3, PushReaches
<1>5. CASE q # r
  <2>1. Concerns(q, c) /\ Behind(q)' = Behind(q) /\ Current(q)' = Current(q)
    BY <1>3, <1>5, PushElsewhere
  <2>2. c \in Behind(q) \/ Current(q) \in ToSet(seen[c])
    BY <1>4, <2>1 DEF Pushed
  <2>3. QED
    BY <1>4, <2>1, <2>2
<1>6. CASE q = r
  <2>1. stage[c] = "subscribed" /\ since[c][r] < e.n /\ Matches(c, e)
    BY <1>1, <1>2, <1>3, <1>6 DEF Concerns, Matches
  <2>2. c \in ToSet(rest) \/ e \in ToSet(seen[c])
    BY <1>4, <2>1 DEF Push
  <2>3. c \in Behind(r)' \/ e \in ToSet(seen'[c])
    BY <1>4, <2>2, PushReaches
  <2>4. QED
    BY <1>2, <1>6, <2>3
<1>7. QED
  BY <1>5, <1>6

\* What is over after the step was over before, or is what the step is about.
LEMMA PushOwed ==
  ASSUME TypeOK, NEW r \in Runs, NEW e \in Event,
         NEW rest \in Seq(Clients), NEW gone \in SUBSET Clients, Push(r, e, rest, gone),
         NEW c \in Clients, NEW q \in Runs, NEW n \in Told(q)', Owed(c, q, n)'
  PROVE  \/ n \in Told(q) /\ Owed(c, q, n) /\ TheEvent(q, n)' = TheEvent(q, n)
         \/ /\ q = r /\ rest = <<>> /\ TheEvent(q, n)' = e
            /\ since[c][r] < e.n /\ Matches(c, e)
<1>1. e.n = count'[r] /\ e.n \in Nat /\ UNCHANGED <<up, stage, want, since>>
  BY PushFacts
<1>2. e = Current(r)'
  BY DEF Push
<1>3. \A x : Matches(c, x)' <=> Matches(c, x)
  BY <1>1 DEF Matches
<1>4. CASE q # r
  <2>1. Told(q)' = Told(q) /\ TheEvent(q, n)' = TheEvent(q, n)
    BY <1>4, PushElsewhere
  <2>2. Owed(c, q, n)
    BY <1>1, <1>3, <2>1 DEF Owed
  <2>3. QED
    BY <2>1, <2>2
<1>5. CASE q = r /\ n \in Told(r) /\ TheEvent(r, n)' = TheEvent(r, n)
  BY <1>1, <1>3, <1>5 DEF Owed
<1>6. CASE q = r /\ rest = <<>> /\ n = count'[r]
  <2>1. TheEvent(q, n)' = e
    BY <1>2, <1>6 DEF TheEvent, Current
  <2>2. since[c][r] < e.n /\ Matches(c, e)
    <3>1. n > since'[c][r] /\ Matches(c, TheEvent(r, n))'
      BY <1>6 DEF Owed
    <3>2. since[c][r] \in Nat
      BY DEF TypeOK
    <3>3. Matches(c, TheEvent(r, n))' <=> Matches(c, e)'
      BY <1>6, <2>1 DEF Matches
    <3>4. QED
      BY <1>1, <1>3, <1>6, <3>1, <3>2, <3>3
  <2>3. QED
    BY <1>6, <2>1, <2>2
<1>7. QED
  BY <1>4, <1>5, <1>6 DEF Push

LEMMA PushAllSeen ==
  ASSUME TypeOK, AllSeen, NEW r \in Runs, NEW e \in Event,
         NEW rest \in Seq(Clients), NEW gone \in SUBSET Clients, Push(r, e, rest, gone)
  PROVE  AllSeen'
<1>1. UNCHANGED <<up, stage>>
  BY PushFacts
<1>2. SUFFICES ASSUME NEW c \in Clients, NEW q \in Runs, NEW n \in Told(q)',
                      stage'[c] = "subscribed", up'[c], Owed(c, q, n)'
               PROVE  TheEvent(q, n)' \in ToSet(seen'[c])
  BY DEF AllSeen
<1>3. stage[c] = "subscribed" /\ up[c] /\ ToSet(seen[c]) \subseteq ToSet(seen'[c])
  BY <1>1, <1>2, PushReaches
<1>4. CASE n \in Told(q) /\ Owed(c, q, n) /\ TheEvent(q, n)' = TheEvent(q, n)
  BY <1>3, <1>4 DEF AllSeen
<1>5. CASE /\ q = r /\ rest = <<>> /\ TheEvent(q, n)' = e
           /\ since[c][r] < e.n /\ Matches(c, e)
  <2>1. c \in ToSet(rest) \/ e \in ToSet(seen[c])
    BY <1>3, <1>5 DEF Push
  <2>2. ToSet(rest) = {}
    BY <1>5 DEF ToSet
  <2>3. QED
    BY <1>3, <1>5, <2>1, <2>2
<1>6. QED
  BY <1>2, <1>4, <1>5, PushOwed

LEMMA PushMissed ==
  ASSUME TypeOK, Listed, Missed, NEW r \in Runs, NEW e \in Event,
         NEW rest \in Seq(Clients), NEW gone \in SUBSET Clients, Push(r, e, rest, gone)
  PROVE  Missed'
<1>1. /\ e.n = count'[r] /\ UNCHANGED <<up, stage, want, since>>
      /\ left'[r] = rest
      /\ phase'[r] = "publishing" <=> rest # <<>>
      /\ rest # <<>> => dead'[r] = gone
      /\ ToSet(subs') \subseteq ToSet(subs)
  BY PushFacts
<1>2. e = Current(r)'
  BY DEF Push
<1>3. SUFFICES ASSUME NEW q \in Runs, NEW c \in ToSet(subs)', Concerns(q, c)', ~up'[c]
               PROVE  c \in ToSet(left'[q]) \union dead'[q]
  BY DEF Missed
<1>4. c \in Clients /\ c \in ToSet(subs) /\ ~up[c]
  <2>1. ToSet(subs) \subseteq Clients
    BY DEF ToSet, TypeOK
  <2>2. QED
    BY <1>1, <1>3, <2>1
<1>5. CASE q # r
  <2>1. Concerns(q, c) /\ left'[q] = left[q] /\ dead'[q] = dead[q]
    BY <1>3, <1>4, <1>5, PushElsewhere
  <2>2. QED
    BY <1>4, <2>1 DEF Missed
<1>6. CASE q = r
  <2>1. stage[c] = "subscribed" /\ since[c][r] < e.n /\ Matches(c, e) /\ rest # <<>>
    BY <1>1, <1>2, <1>3, <1>6 DEF Concerns, Matches
  <2>2. c \in ToSet(rest) \union gone
    BY <1>4, <2>1 DEF Push
  <2>3. QED
    BY <1>1, <1>6, <2>1, <2>2
<1>7. QED
  BY <1>5, <1>6

LEMMA PushNoneOwed ==
  ASSUME TypeOK, Listed, NoneOwed, NEW r \in Runs, NEW e \in Event,
         NEW rest \in Seq(Clients), NEW gone \in SUBSET Clients, Push(r, e, rest, gone)
  PROVE  NoneOwed'
<1>1. /\ UNCHANGED up
      /\ ToSet(subs') \subseteq ToSet(subs)
      /\ rest = <<>> => ToSet(subs') = ToSet(subs) \ gone
  BY PushFacts
<1>2. SUFFICES ASSUME NEW c \in ToSet(subs)', ~up'[c],
                      NEW q \in Runs, NEW n \in Told(q)', Owed(c, q, n)'
               PROVE  FALSE
  BY DEF NoneOwed
<1>3. c \in Clients /\ c \in ToSet(subs) /\ ~up[c]
  <2>1. ToSet(subs) \subseteq Clients
    BY DEF ToSet, TypeOK
  <2>2. QED
    BY <1>1, <1>2, <2>1
<1>4. CASE n \in Told(q) /\ Owed(c, q, n)
  BY <1>3, <1>4 DEF NoneOwed
<1>5. CASE /\ q = r /\ rest = <<>> /\ since[c][r] < e.n /\ Matches(c, e)
  <2>1. c \in ToSet(rest) \union gone
    BY <1>3, <1>5 DEF Push, Listed
  <2>2. ToSet(rest) = {}
    BY <1>5 DEF ToSet
  <2>3. QED
    BY <1>1, <1>2, <1>5, <2>1, <2>2
<1>6. QED
  BY <1>2, <1>3, <1>4, <1>5, PushOwed

LEMMA SaysPush ==
  ASSUME TypeOK, Listed, Counted, Filed, Shown,
         NEW r \in Runs, NEW last \in BOOLEAN, NEW e \in Event, Says(r, last, e)
  PROVE  \E rest \in Seq(Clients), gone \in SUBSET Clients : Push(r, e, rest, gone)
<1> DEFINE rest == Kept(subs, {c \in ToSet(subs) : Matches(c, e)})
<1>1. /\ rest \in Seq(Clients)
      /\ ToSet(rest) = ToSet(subs) \intersect {c \in ToSet(subs) : Matches(c, e)}
      /\ Distinct(rest)
  BY KeptElements DEF TypeOK, Listed
<1>2. /\ GoesOn(r, e, rest, {}) /\ UNCHANGED clientVars
      /\ count' = [count EXCEPT ![r] = @ + 1] /\ final' = [final EXCEPT ![r] = last]
      /\ ~final[r]
      /\ lost' = IF phase[r] = "publishing" THEN [lost EXCEPT ![r] = @ \union {count[r]}] ELSE lost
      /\ e = [run |-> r, n |-> count[r] + 1,
              kind |-> IF last \/ count[r] = 0 THEN "run" ELSE "step"]
  BY DEF Says
<1> HIDE DEF rest
<1>3. /\ count[r] \in Nat /\ count'[r] = count[r] + 1 /\ final'[r] = last
      /\ \A q \in Runs \ {r} : count'[q] = count[q] /\ final'[q] = final[q] /\ lost'[q] = lost[q]
      /\ lost'[r] = IF phase[r] = "publishing" THEN lost[r] \union {count[r]} ELSE lost[r]
  BY <1>2 DEF TypeOK
<1>4. e.run = r /\ e.n = count'[r]
  BY <1>2, <1>3
<1>5. e = Current(r)'
  <2>1. Kind(r, count[r])' = IF last \/ count[r] = 0 THEN "run" ELSE "step"
    BY <1>3 DEF Kind
  <2>2. QED
    BY <1>2, <1>3, <2>1 DEF Current
<1>6. \A n \in Told(r)' : \/ n \in Told(r) /\ TheEvent(r, n)' = TheEvent(r, n)
                          \/ rest = <<>> /\ n = count'[r]
  <2>1. TAKE n \in Told(r)'
  <2>2. n \in 1..count'[r] /\ n \notin lost'[r] /\ (phase'[r] = "publishing" => n # count'[r])
    BY <1>3 DEF Told
  <2>3. CASE n = count'[r]
    <3>1. rest = <<>>
      <4>1. SUFFICES ASSUME rest # <<>>
                     PROVE  phase'[r] = "publishing"
        BY <2>2, <2>3
      <4>2. phase' = [phase EXCEPT ![r] = "publishing"]
        BY <1>2, <4>1 DEF GoesOn
      <4>3. QED
        BY <4>2 DEF TypeOK
    <3>2. QED
      BY <2>3, <3>1
  <2>4. CASE n # count'[r]
    <3>1. n \in 1..count[r] /\ n \notin lost[r] /\ (phase[r] = "publishing" => n # count[r])
      BY <1>3, <2>2, <2>4
    <3>2. n \in Told(r)
      BY <1>3, <3>1 DEF Told
    <3>3. Kind(r, n)' = Kind(r, n)
      BY <1>2, <2>4 DEF Kind
    <3>4. QED
      BY <3>2, <3>3 DEF TheEvent
  <2>5. QED
    BY <2>3, <2>4
<1>7. \A q \in Runs : \A x \in ToSet(file[q]) : x.run = r => x.n < e.n
  <2>1. SUFFICES ASSUME NEW q \in Runs, NEW x \in ToSet(file[q]), x.run = r
                 PROVE  x.n < e.n
    OBVIOUS
  <2>2. x \in Event
    BY DEF TypeOK, ToSet
  <2>3. x.n \in Nat /\ x.n <= count[x.run]
    BY <2>2, EventFacts DEF Filed, Before
  <2>4. QED
    BY <1>3, <1>4, <2>1, <2>3
<1>8. \A c \in Clients : \A x \in ToSet(seen[c]) : x.run = r => x.n < e.n
  <2>1. SUFFICES ASSUME NEW c \in Clients, NEW x \in ToSet(seen[c]), x.run = r
                 PROVE  x.n < e.n
    OBVIOUS
  <2>2. x \in Event
    BY DEF TypeOK, ToSet
  <2>3. x.n \in Nat /\ x.n <= count[x.run]
    BY <2>2, EventFacts DEF Shown
  <2>4. QED
    BY <1>3, <1>4, <2>1, <2>3
<1>9. e.n \in Nat /\ \A c \in Clients : \A x \in ToSet(seen[c]) : x.n \in Nat
  <2>1. \A c \in Clients : ToSet(seen[c]) \subseteq Event
    BY DEF TypeOK, ToSet
  <2>2. QED
    BY <2>1, EventFacts
<1>10. \A c \in Clients : stage[c] = "subscribed" /\ since[c][r] < e.n /\ Matches(c, e) =>
         IF up[c] THEN c \in ToSet(rest) \/ e \in ToSet(seen[c])
         ELSE c \in ToSet(subs) => c \in ToSet(rest) \union {}
  BY <1>1 DEF Listed
<1>11. \A c \in ToSet(rest) : stage[c] = "subscribed"
  BY <1>1 DEF Listed
<1>12. Push(r, e, rest, {})
  <2>1. \A c \in Clients : \A x \in ToSet(seen[c]) :
          x.run = r => x.n <= e.n /\ (c \in ToSet(rest) => x.n < e.n)
    BY <1>8, <1>9
  <2>2. e.n = count[r]' /\ \A c \in {} : ~up[c]
    BY <1>4
  <2>3. QED
    BY <1>1, <1>2, <1>3, <1>5, <1>6, <1>7, <1>10, <1>11, <2>1, <2>2, Zenon DEF Push
<1>13. QED
  BY <1>1, <1>12

LEMMA DrainedPush ==
  ASSUME TypeOK, Listed, Counted, Filed, Shown, Pushed, Missed, NEW r \in Runs, Drained(r)
  PROVE  \E gone \in SUBSET Clients : Push(r, Current(r), Tail(left[r]), gone)
<1> DEFINE e == Current(r)
           rest == Tail(left[r])
           c1 == Head(left[r])
<1>1. /\ phase[r] = "publishing" /\ e \in Event /\ rest \in Seq(Clients) /\ c1 \in Clients
      /\ Behind(r) = ToSet(rest)
      /\ ToSet(left[r]) = {c1} \union ToSet(rest) /\ c1 \notin ToSet(rest)
      /\ UNCHANGED <<count, final, lost>> /\ UNCHANGED clientVars
      /\ \E gone \in SUBSET Clients :
              /\ gone = dead[r] \union {c \in {c1} : ~up[c]}
              /\ GoesOn(r, e, rest, gone)
  <2>1. Behind(r) = ToSet(Tail(left[r]))
    BY DrainedFacts
  <2>2. QED
    BY <2>1, DrainedFacts
<1>2. PICK gone \in SUBSET Clients :
              /\ gone = dead[r] \union {c \in {c1} : ~up[c]}
              /\ GoesOn(r, e, rest, gone)
  BY <1>1
<1>3. e.run = r /\ e.n = count[r] /\ e.n = count'[r] /\ e = Current(r)' /\ count[r] \in Nat
  BY <1>1 DEF Current, Kind, TypeOK
<1>4. Distinct(rest)
  <2>1. /\ Len(left[r]) \in Nat \ {0} /\ Len(rest) = Len(left[r]) - 1
        /\ \A i \in 1..Len(rest) : rest[i] = left[r][i + 1]
    BY <1>1, HeadTailProperties DEF TypeOK
  <2>2. Distinct(left[r])
    BY DEF Listed
  <2> HIDE DEF rest
  <2>3. SUFFICES ASSUME NEW i \in 1..Len(rest), NEW j \in 1..Len(rest), rest[i] = rest[j]
                 PROVE  i = j
    BY DEF Distinct
  <2>4. i + 1 \in 1..Len(left[r]) /\ j + 1 \in 1..Len(left[r]) /\ left[r][i + 1] = left[r][j + 1]
    BY <2>1, <2>3
  <2>5. i + 1 = j + 1
    BY <2>2, <2>4 DEF Distinct
  <2>6. QED
    BY <2>5
<1> HIDE DEF e, rest, c1
<1>5. \A n \in Told(r)' : \/ n \in Told(r) /\ TheEvent(r, n)' = TheEvent(r, n)
                          \/ rest = <<>> /\ n = count'[r]
  <2>1. TAKE n \in Told(r)'
  <2>2. TheEvent(r, n)' = TheEvent(r, n)
    BY <1>1 DEF TheEvent, Kind
  <2>3. n \in 1..count[r] /\ n \notin lost[r] /\ (phase'[r] = "publishing" => n # count[r])
    BY <1>1, <1>3 DEF Told
  <2>4. CASE n = count[r]
    <3>1. rest # <<>> => phase' = [phase EXCEPT ![r] = "publishing"]
      BY <1>2 DEF GoesOn
    <3>2. rest # <<>> => phase'[r] = "publishing"
      BY <3>1 DEF TypeOK
    <3>3. QED
      BY <1>1, <2>3, <2>4, <3>2
  <2>5. CASE n # count[r]
    BY <1>3, <2>2, <2>3, <2>5 DEF Told
  <2>6. QED
    BY <2>4, <2>5
<1>6. \A c \in ToSet(rest) : stage[c] = "subscribed"
  BY <1>1 DEF Listed
<1>7. \A c \in gone : ~up[c]
  BY <1>2 DEF Listed
<1>8. \A q \in Runs : \A x \in ToSet(file[q]) : x.run = r => x.n < e.n
  BY <1>1, <1>3 DEF Filed, Before
<1>9. \A c \in Clients : \A x \in ToSet(seen[c]) :
        x.run = r => x.n <= e.n /\ (c \in ToSet(rest) => x.n < e.n)
  BY <1>1, <1>3 DEF Shown
<1>10. \A c \in Clients : stage[c] = "subscribed" /\ since[c][r] < e.n /\ Matches(c, e) =>
         IF up[c] THEN c \in ToSet(rest) \/ e \in ToSet(seen[c])
         ELSE c \in ToSet(subs) => c \in ToSet(rest) \union gone
  <2>1. SUFFICES ASSUME NEW c \in Clients, stage[c] = "subscribed", since[c][r] < e.n, Matches(c, e)
                 PROVE  IF up[c] THEN c \in ToSet(rest) \/ e \in ToSet(seen[c])
                        ELSE c \in ToSet(subs) => c \in ToSet(rest) \union gone
    OBVIOUS
  <2>2. Concerns(r, c)
    BY <1>1, <1>3, <2>1 DEF Concerns, e
  <2>3. CASE up[c]
    BY <1>1, <2>2, <2>3 DEF Pushed, e
  <2>4. CASE ~up[c]
    BY <1>1, <1>2, <2>2, <2>4 DEF Missed
  <2>5. QED
    BY <2>3, <2>4
<1>11. Push(r, e, rest, gone)
  <2>1. \A q \in Runs \ {r} : count'[q] = count[q] /\ final'[q] = final[q] /\ lost'[q] = lost[q]
    BY <1>1
  <2>2. QED
    BY <1>1, <1>2, <1>3, <1>4, <1>5, <1>6, <1>7, <1>8, <1>9, <1>10, <2>1, Zenon DEF Push
<1>12. QED
  BY <1>11 DEF e, rest

LEMMA SaysCounted ==
  ASSUME TypeOK, Counted, NEW r \in Runs, NEW last \in BOOLEAN, NEW e \in Event,
         NEW rest \in Seq(Clients), NEW gone \in SUBSET Clients,
         Says(r, last, e), Push(r, e, rest, gone)
  PROVE  Counted'
<1>1. /\ \A q \in Runs \ {r} : phase'[q] = phase[q]
      /\ phase'[r] \in {"publishing", "working", "ended"}
      /\ phase'[r] = "working" => ~final'[r]
  BY PushFacts
<1>2. /\ count' = [count EXCEPT ![r] = @ + 1] /\ final' = [final EXCEPT ![r] = last]
      /\ last \/ count[r] + 1 < MaxEvents[r]
  BY DEF Says
<1>3. /\ \A q \in Runs \ {r} : count'[q] = count[q] /\ final'[q] = final[q]
      /\ count'[r] = count[r] + 1 /\ count[r] \in Nat /\ final'[r] = last
  BY <1>2 DEF TypeOK
<1>4. SUFFICES ASSUME NEW q \in Runs
               PROVE  /\ phase'[q] = "new" <=> count'[q] = 0
                      /\ ~final'[q] => count'[q] < MaxEvents[q]
                      /\ phase'[q] \in {"new", "working"} => ~final'[q]
  BY DEF Counted
<1>5. CASE q = r
  <2>1. phase'[r] # "new" /\ count'[r] # 0
    BY <1>1, <1>3
  <2>2. QED
    BY <1>1, <1>2, <1>3, <1>5, <2>1
<1>6. CASE q # r
  BY <1>1, <1>3, <1>6 DEF Counted
<1>7. QED
  BY <1>5, <1>6

LEMMA DrainedCounted ==
  ASSUME TypeOK, Listed, Counted, NEW r \in Runs, Drained(r),
         NEW gone \in SUBSET Clients, Push(r, Current(r), Tail(left[r]), gone)
  PROVE  Counted'
<1>1. /\ Current(r) \in Event /\ Tail(left[r]) \in Seq(Clients)
      /\ phase[r] = "publishing" /\ UNCHANGED <<count, final>>
  BY DrainedFacts
<1>2. /\ \A q \in Runs \ {r} : phase'[q] = phase[q]
      /\ phase'[r] \in {"publishing", "working", "ended"}
      /\ phase'[r] = "working" => ~final'[r]
  <2>1. PICK e \in Event, rest \in Seq(Clients) : Push(r, e, rest, gone)
    BY <1>1
  <2>2. QED
    BY <2>1, PushFacts
<1>3. \A q \in Runs : /\ phase[q] = "new" <=> count[q] = 0
                      /\ ~final[q] => count[q] < MaxEvents[q]
                      /\ phase[q] \in {"new", "working"} => ~final[q]
  BY DEF Counted
<1>4. SUFFICES ASSUME NEW q \in Runs
               PROVE  /\ phase'[q] = "new" <=> count'[q] = 0
                      /\ ~final'[q] => count'[q] < MaxEvents[q]
                      /\ phase'[q] \in {"new", "working"} => ~final'[q]
  BY DEF Counted
<1>5. CASE q = r
  <2>1. phase'[r] # "new" /\ count[r] # 0
    BY <1>1, <1>2, <1>3
  <2>2. QED
    BY <1>1, <1>2, <1>3, <1>5, <2>1
<1>6. CASE q # r
  BY <1>1, <1>2, <1>3, <1>6
<1>7. QED
  BY <1>5, <1>6

LEMMA SaysStep ==
  ASSUME IInv, NEW r \in Runs, Start(r) \/ Continue(r) \/ CancelFinishes(r)
  PROVE  IInv'
<1>1. /\ TypeOK /\ Listed /\ Counted /\ Filed /\ Shown /\ Pushed /\ AllSeen /\ Missed /\ NoneOwed
  BY DEF IInv
<1>2. PICK last \in BOOLEAN, e \in Event : Says(r, last, e)
  BY <1>1, SaysFacts
<1>3. PICK rest \in Seq(Clients), gone \in SUBSET Clients : Push(r, e, rest, gone)
  BY <1>1, <1>2, SaysPush
<1>4. TypeOK' /\ Counted'
  BY <1>1, <1>2, <1>3, SaysTypes, SaysCounted
<1>5. Listed' /\ Filed' /\ Shown'
  BY <1>1, <1>3, PushListed, PushFiled, PushShown
<1>6. Pushed' /\ AllSeen'
  BY <1>1, <1>3, PushPushed, PushAllSeen
<1>7. Missed' /\ NoneOwed'
  BY <1>1, <1>3, PushMissed, PushNoneOwed
<1>8. QED
  BY <1>4, <1>5, <1>6, <1>7 DEF IInv

LEMMA DrainedStep ==
  ASSUME IInv, NEW r \in Runs, Drained(r)
  PROVE  IInv'
<1>1. /\ TypeOK /\ Listed /\ Counted /\ Filed /\ Shown /\ Pushed /\ AllSeen /\ Missed /\ NoneOwed
  BY DEF IInv
<1>2. PICK gone \in SUBSET Clients : Push(r, Current(r), Tail(left[r]), gone)
  BY <1>1, DrainedPush
<1>3. Current(r) \in Event /\ Tail(left[r]) \in Seq(Clients)
  BY <1>1, DrainedFacts
<1>4. TypeOK' /\ Counted'
  BY <1>1, <1>2, DrainedTypes, DrainedCounted
<1>5. Listed' /\ Filed' /\ Shown'
  BY <1>1, <1>2, <1>3, PushListed, PushFiled, PushShown
<1>6. Pushed' /\ AllSeen'
  BY <1>1, <1>2, <1>3, PushPushed, PushAllSeen
<1>7. Missed' /\ NoneOwed'
  BY <1>1, <1>2, <1>3, PushMissed, PushNoneOwed
<1>8. QED
  BY <1>4, <1>5, <1>6, <1>7 DEF IInv

-----------------------------------------------------------------------------
(* The other steps.                                                        *)

\* An event whose publication is cancelled is never over.
LEMMA CancelStep ==
  ASSUME IInv, NEW r \in Runs, CancelEnds(r)
  PROVE  IInv'
<1>1. /\ TypeOK /\ Listed /\ Counted /\ Filed /\ Shown /\ Pushed /\ AllSeen /\ Missed /\ NoneOwed
  BY DEF IInv
<1>2. /\ phase[r] = "publishing"
      /\ phase' = [phase EXCEPT ![r] = "ended"]
      /\ left' = [left EXCEPT ![r] = <<>>]
      /\ dead' = [dead EXCEPT ![r] = {}]
      /\ lost' = [lost EXCEPT ![r] = @ \union {count[r]}]
      /\ UNCHANGED <<count, final, file, subs, seen, up, stage, want, since>>
  BY DEF CancelEnds, clientVars
<1>3. /\ \A q \in Runs \ {r} : /\ phase'[q] = phase[q] /\ left'[q] = left[q]
                               /\ dead'[q] = dead[q] /\ lost'[q] = lost[q]
      /\ phase'[r] = "ended" /\ left'[r] = <<>> /\ dead'[r] = {}
      /\ lost'[r] = lost[r] \union {count[r]} /\ count[r] \in Nat
  BY <1>1, <1>2 DEF TypeOK
<1>4. TypeOK'
  BY <1>1, CancelTypes
<1>5. Listed'
  <2>1. \A q \in Runs : left'[q] = left[q] \/ left'[q] = <<>>
    BY <1>3
  <2>2. \A q \in Runs : dead'[q] = dead[q] \/ dead'[q] = {}
    BY <1>3
  <2>3. Distinct(<<>>) /\ ToSet(<<>>) = {}
    BY DEF Distinct, ToSet
  <2>4. \A q \in Runs : /\ Distinct(left'[q])
                        /\ \A c \in ToSet(left'[q]) : stage[c] = "subscribed"
                        /\ \A c \in dead'[q] : ~up[c]
    BY <1>1, <2>1, <2>2, <2>3 DEF Listed
  <2>5. QED
    BY <1>1, <1>2, <2>4 DEF Listed
<1>6. Counted'
  BY <1>1, <1>2, <1>3 DEF Counted
<1>7. Filed'
  <2>1. \A e : Before(e) => Before(e)'
    BY <1>2, <1>3 DEF Before, TypeOK
  <2>2. QED
    BY <1>1, <1>2, <2>1 DEF Filed
<1>8. Shown'
  <2>1. \A q \in Runs : Behind(q)' \subseteq Behind(q)
    <3>1. \A q \in Runs \ {r} : Behind(q)' = Behind(q)
      BY <1>3 DEF Behind
    <3>2. Behind(r)' = {}
      BY <1>3 DEF Behind
    <3>3. QED
      BY <3>1, <3>2
  <2>2. \A c \in Clients : \A e \in ToSet(seen[c]) : e.run \in Runs
    <3>1. \A c \in Clients : ToSet(seen[c]) \subseteq Event
      BY <1>1 DEF TypeOK, ToSet
    <3>2. QED
      BY <3>1, EventFacts
  <2>3. QED
    BY <1>1, <1>2, <2>1, <2>2 DEF Shown
<1>9. /\ \A c, e : Matches(c, e)' <=> Matches(c, e)
      /\ \A q, n : TheEvent(q, n)' = TheEvent(q, n)
      /\ \A q : Current(q)' = Current(q)
  BY <1>2 DEF Matches, TheEvent, Current, Kind
<1>10. \A q \in Runs : Told(q)' = Told(q)
  <2>1. \A q \in Runs \ {r} : Told(q)' = Told(q)
    BY <1>2, <1>3 DEF Told
  <2>2. Told(r)' = Told(r)
    BY <1>2, <1>3 DEF Told
  <2>3. QED
    BY <2>1, <2>2
<1>11. \A c \in Clients, q \in Runs : \A n \in Told(q) : Owed(c, q, n)' <=> Owed(c, q, n)
  BY <1>2, <1>9, <1>10 DEF Owed
<1>12. \A c, q : q \in Runs /\ Concerns(q, c)' => q # r /\ Concerns(q, c)
  BY <1>2, <1>3, <1>9 DEF Concerns
<1>13. Pushed'
  <2>1. \A q \in Runs \ {r} : Behind(q)' = Behind(q)
    BY <1>3 DEF Behind
  <2>2. QED
    BY <1>1, <1>2, <1>9, <1>12, <2>1 DEF Pushed
<1>14. Missed'
  BY <1>1, <1>2, <1>3, <1>12 DEF Missed
<1>15. AllSeen'
  BY <1>1, <1>2, <1>9, <1>10, <1>11 DEF AllSeen
<1>16. NoneOwed'
  <2>1. ToSet(subs) \subseteq Clients
    BY <1>1 DEF TypeOK, ToSet
  <2>2. QED
    BY <1>1, <1>2, <1>10, <1>11, <2>1 DEF NoneOwed
<1>17. QED
  BY <1>4, <1>5, <1>6, <1>7, <1>8, <1>13, <1>14, <1>15, <1>16 DEF IInv

\* What the steps of a request and the end of a connection have in common: whoever is
\* subscribed by it is so from now on, and everybody else is as before.
Visit(c) ==
  /\ UNCHANGED runVars /\ UNCHANGED file
  /\ \A d \in Clients \ {c} : /\ stage'[d] = stage[d] /\ want'[d] = want[d] /\ up'[d] = up[d]
                              /\ since'[d] = since[d] /\ seen'[d] = seen[d]
  /\ ToSet(subs') \subseteq ToSet(subs) \union {c}
  /\ \/ \A r \in Runs : since'[c][r] = count[r]
     \/ c \notin ToSet(subs') /\ (stage'[c] = "subscribed" => ~up'[c])

LEMMA VisitConcerns ==
  ASSUME TypeOK, NEW c \in Clients, Visit(c)
  PROVE  /\ \A r \in Runs : \A d \in Clients \ {c} : Concerns(r, d)' <=> Concerns(r, d)
         /\ \A r \in Runs : Concerns(r, c)' => c \notin ToSet(subs') /\ ~up'[c]
         /\ \A r \in Runs : Told(r)' = Told(r) /\ Current(r)' = Current(r) /\ Behind(r)' = Behind(r)
         /\ \A r \in Runs, n \in Nat : TheEvent(r, n)' = TheEvent(r, n)
         /\ \A r \in Runs : \A d \in Clients \ {c} : \A n \in Told(r) :
              Owed(d, r, n)' <=> Owed(d, r, n)
         /\ \A r \in Runs : \A n \in Told(r) :
              Owed(c, r, n)' => c \notin ToSet(subs') /\ (stage'[c] = "subscribed" => ~up'[c])
<1>1. UNCHANGED <<phase, count, final, left, dead, lost>>
  BY DEF Visit, runVars
<1>2. /\ \A r, n : TheEvent(r, n)' = TheEvent(r, n)
      /\ \A r : Current(r)' = Current(r) /\ Told(r)' = Told(r) /\ Behind(r)' = Behind(r)
  BY <1>1 DEF TheEvent, Current, Kind, Told, Behind
<1>4. \A r \in Runs : \A d \in Clients \ {c} : Concerns(r, d)' <=> Concerns(r, d)
  <2>1. SUFFICES ASSUME NEW r \in Runs, NEW d \in Clients \ {c}
                 PROVE  Concerns(r, d)' <=> Concerns(r, d)
    OBVIOUS
  <2>2. since'[d] = since[d] /\ stage'[d] = stage[d]
    BY DEF Visit
  <2>3. Matches(d, Current(r))' <=> Matches(d, Current(r))
    <3>1. Matches(d, Current(r))' <=>
            Current(r)'.kind \in want'[d].topics /\ want'[d].scope \in {None, Current(r)'.run}
      BY DEF Matches
    <3>2. want'[d] = want[d]
      BY DEF Visit
    <3>3. QED
      BY <1>2, <3>1, <3>2 DEF Matches
  <2>4. QED
    BY <1>1, <2>2, <2>3 DEF Concerns
<1>5. \A r \in Runs, n \in Nat : Told(r) \subseteq Nat /\ count[r] \in Nat
  BY DEF Told, TypeOK
<1>6. \A r \in Runs : Concerns(r, c)' => c \notin ToSet(subs') /\ ~up'[c]
  BY <1>1, <1>5 DEF Concerns, Visit
<1>7. \A r \in Runs : \A d \in Clients \ {c} : \A n \in Told(r) : Owed(d, r, n)' <=> Owed(d, r, n)
  <2>1. SUFFICES ASSUME NEW r \in Runs, NEW d \in Clients \ {c}, NEW n \in Told(r)
                 PROVE  Owed(d, r, n)' <=> Owed(d, r, n)
    OBVIOUS
  <2>2. since'[d] = since[d] /\ want'[d] = want[d]
    BY DEF Visit
  <2>3. TheEvent(r, n)' = TheEvent(r, n) /\ Told(r)' = Told(r)
    BY <1>2
  <2>4. Matches(d, TheEvent(r, n))' <=> Matches(d, TheEvent(r, n))
    BY <2>2, <2>3 DEF Matches
  <2>5. QED
    BY <2>2, <2>3, <2>4 DEF Owed
<1>8. \A r \in Runs : \A n \in Told(r) :
              Owed(c, r, n)' => c \notin ToSet(subs') /\ (stage'[c] = "subscribed" => ~up'[c])
  <2>1. SUFFICES ASSUME NEW r \in Runs, NEW n \in Told(r), Owed(c, r, n)'
                 PROVE  c \notin ToSet(subs') /\ (stage'[c] = "subscribed" => ~up'[c])
    OBVIOUS
  <2>2. n <= count[r] /\ n \in Nat /\ count[r] \in Nat
    BY DEF Told, TypeOK
  <2>3. n > since'[c][r]
    BY <2>1 DEF Owed
  <2>4. since'[c][r] # count[r]
    BY <2>2, <2>3
  <2>5. QED
    BY <2>4 DEF Visit
<1>9. QED
  BY <1>2, <1>4, <1>6, <1>7, <1>8

LEMMA VisitHarmless ==
  ASSUME TypeOK, Counted, Filed, Pushed, AllSeen, Missed, NoneOwed, NEW c \in Clients, Visit(c)
  PROVE  /\ Counted' /\ Filed'
         /\ Pushed' /\ AllSeen' /\ Missed' /\ NoneOwed'
<1>1. /\ UNCHANGED <<phase, count, final, left, dead, lost, file>>
      /\ \A d \in Clients \ {c} : /\ stage'[d] = stage[d] /\ up'[d] = up[d]
                                  /\ seen'[d] = seen[d]
      /\ ToSet(subs') \subseteq ToSet(subs) \union {c}
  BY DEF Visit, runVars
<1>2. Counted' /\ Filed'
  BY <1>1 DEF Counted, Filed, Before
<1>3. ToSet(subs) \subseteq Clients
  BY DEF TypeOK, ToSet
<1>4. /\ \A r \in Runs : \A d \in Clients \ {c} : Concerns(r, d)' <=> Concerns(r, d)
      /\ \A r \in Runs : Concerns(r, c)' => c \notin ToSet(subs') /\ ~up'[c]
      /\ \A r \in Runs : Told(r)' = Told(r) /\ Current(r)' = Current(r) /\ Behind(r)' = Behind(r)
  BY VisitConcerns
<1>5. /\ \A r \in Runs, n \in Nat : TheEvent(r, n)' = TheEvent(r, n)
      /\ \A r \in Runs : \A d \in Clients \ {c} : \A n \in Told(r) :
           Owed(d, r, n)' <=> Owed(d, r, n)
      /\ \A r \in Runs : \A n \in Told(r) :
              Owed(c, r, n)' => c \notin ToSet(subs') /\ (stage'[c] = "subscribed" => ~up'[c])
  BY VisitConcerns
<1>6. Pushed'
  BY <1>1, <1>4 DEF Pushed
<1>7. Missed'
  BY <1>1, <1>3, <1>4 DEF Missed
<1>8. AllSeen'
  <2>1. SUFFICES ASSUME NEW d \in Clients, NEW r \in Runs, NEW n \in Told(r)',
                        stage'[d] = "subscribed", up'[d], Owed(d, r, n)'
                 PROVE  TheEvent(r, n)' \in ToSet(seen'[d])
    BY DEF AllSeen
  <2>2. n \in Told(r) /\ n \in Nat
    BY <1>4 DEF Told
  <2>3. d # c
    BY <1>5, <2>1, <2>2
  <2>4. TheEvent(r, n) \in ToSet(seen[d])
    BY <1>1, <1>5, <2>1, <2>2, <2>3 DEF AllSeen
  <2>5. QED
    BY <1>1, <1>5, <2>2, <2>3, <2>4
<1>9. NoneOwed'
  <2>1. SUFFICES ASSUME NEW d \in ToSet(subs)', ~up'[d],
                        NEW r \in Runs, NEW n \in Told(r)', Owed(d, r, n)'
                 PROVE  FALSE
    BY DEF NoneOwed
  <2>2. n \in Told(r)
    BY <1>4
  <2>3. d # c
    BY <1>5, <2>1, <2>2
  <2>4. d \in ToSet(subs) /\ d \in Clients
    BY <1>1, <1>3, <2>1, <2>3
  <2>5. QED
    BY <1>1, <1>5, <2>1, <2>2, <2>3, <2>4 DEF NoneOwed
<1>10. QED
  BY <1>2, <1>6, <1>7, <1>8, <1>9

\* A client that is subscribed is appended to the subscriptions, where it was not.
LEMMA SubscribedFacts ==
  ASSUME TypeOK, Listed, NEW c \in Clients, stage[c] \in {"asked", "replaying"}, Subscribed(c)
  PROVE  /\ \A r \in Runs : since'[c][r] = count[r]
         /\ \A d \in Clients \ {c} : since'[d] = since[d] /\ stage'[d] = stage[d]
         /\ stage'[c] = "subscribed"
         /\ ToSet(subs') = ToSet(subs) \union {c}
         /\ Distinct(subs')
<1>1. /\ subs' = Append(subs, c)
      /\ stage' = [stage EXCEPT ![c] = "subscribed"]
      /\ since' = [since EXCEPT ![c] = count]
  BY DEF Subscribed
<1>2. subs \in Seq(Clients) /\ c \notin ToSet(subs) /\ Distinct(subs)
  BY DEF TypeOK, Listed
<1>3. ToSet(subs') = ToSet(subs) \union {c}
  BY <1>1, <1>2, Appended
<1>4. Distinct(subs')
  <2>1. /\ Len(subs') = Len(subs) + 1
        /\ \A i \in 1..Len(subs) : subs'[i] = subs[i]
        /\ subs'[Len(subs) + 1] = c
    BY <1>1, <1>2, AppendProperties
  <2>2. \A i \in 1..Len(subs) : subs[i] # c
    BY <1>2 DEF ToSet
  <2>3. SUFFICES ASSUME NEW i \in 1..(Len(subs) + 1), NEW j \in 1..(Len(subs) + 1),
                        subs'[i] = subs'[j]
                 PROVE  i = j
    BY <2>1 DEF Distinct
  <2>4. CASE i \in 1..Len(subs) /\ j \in 1..Len(subs)
    BY <1>2, <2>1, <2>3, <2>4 DEF Distinct
  <2>5. CASE i = Len(subs) + 1 \/ j = Len(subs) + 1
    BY <1>2, <2>1, <2>2, <2>3, <2>5
  <2>6. QED
    BY <2>4, <2>5
<1>5. QED
  BY <1>1, <1>3, <1>4 DEF TypeOK

\* Lines of a file in order are in order, and were said before.
LEMMA LinesShown ==
  ASSUME TypeOK, Filed, NEW c \in Clients, stage[c] = "asked"
  PROVE  /\ InOrder(Lines(c))
         /\ \A e \in ToSet(Lines(c)) : e \in Event /\ Before(e)
<1>1. CASE Lines(c) = <<>>
  BY <1>1 DEF InOrder, ToSet
<1>2. CASE \E q \in Runs :
             Lines(c) = Kept(file[q], {e \in ToSet(file[q]) : e.kind \in want[c].topics})
  <2>1. PICK q \in Runs : \E S : Lines(c) = Kept(file[q], S)
    BY <1>2
  <2>8. PICK S : Lines(c) = Kept(file[q], S)
    BY <2>1
  <2>2. file[q] \in Seq(Event) /\ InOrder(file[q]) /\ \A e \in ToSet(file[q]) : Before(e)
    BY DEF TypeOK, Filed
  <2>3. ToSet(Lines(c)) = ToSet(file[q]) \intersect S /\ Lines(c) \in Seq(Event)
    BY <2>8, <2>2, KeptElements
  <2>4. PICK h : Traces(h, Lines(c), file[q], S)
    BY <2>8, <2>2, KeptTraces
  <2>5. InOrder(Lines(c))
    <3>1. /\ h \in [1..Len(Lines(c)) -> 1..Len(file[q])]
          /\ \A k \in 1..Len(Lines(c)) : Lines(c)[k] = file[q][h[k]]
          /\ \A k, l \in 1..Len(Lines(c)) : k < l => h[k] < h[l]
      BY <2>4 DEF Traces
    <3>2. SUFFICES ASSUME NEW k \in 1..Len(Lines(c)), NEW l \in 1..Len(Lines(c)), k < l,
                          Lines(c)[k].run = Lines(c)[l].run
                   PROVE  Lines(c)[k].n < Lines(c)[l].n
      BY DEF InOrder
    <3>3. h[k] \in 1..Len(file[q]) /\ h[l] \in 1..Len(file[q]) /\ h[k] < h[l]
      BY <3>1, <3>2
    <3>4. file[q][h[k]].run = file[q][h[l]].run
      BY <3>1, <3>2
    <3>5. file[q][h[k]].n < file[q][h[l]].n
      BY <2>2, <3>3, <3>4 DEF InOrder
    <3>6. QED
      BY <3>1, <3>5
  <2>6. ToSet(file[q]) \subseteq Event
    BY <2>2 DEF ToSet
  <2>7. QED
    BY <2>2, <2>3, <2>5, <2>6
<1>3. QED
  BY <1>1, <1>2, LinesFacts

LEMMA AskStep ==
  ASSUME IInv, NEW c \in Clients, Ask(c)
  PROVE  IInv'
<1>1. /\ TypeOK /\ Listed /\ Counted /\ Filed /\ Shown /\ Pushed /\ AllSeen /\ Missed /\ NoneOwed
  BY DEF IInv
<1>2. /\ stage[c] = "new" /\ stage' = [stage EXCEPT ![c] = "asked"]
      /\ \E request \in Requests[c] : want' = [want EXCEPT ![c] = request]
      /\ UNCHANGED <<file, subs, up, seen, since>> /\ UNCHANGED runVars
  BY DEF Ask
<1>3. /\ \A d \in Clients \ {c} : stage'[d] = stage[d] /\ want'[d] = want[d]
      /\ stage'[c] = "asked"
      /\ c \notin ToSet(subs) /\ \A r \in Runs : c \notin ToSet(left[r])
  BY <1>1, <1>2 DEF TypeOK, Listed
<1>4. Visit(c)
  BY <1>2, <1>3 DEF Visit
<1>5. Listed'
  <2>1. UNCHANGED <<subs, left, dead, up>>
    BY <1>2 DEF runVars
  <2>2. ToSet(subs) \subseteq Clients /\ \A r \in Runs : ToSet(left[r]) \subseteq Clients
    BY <1>1 DEF TypeOK, ToSet
  <2>3. /\ \A d \in ToSet(subs) : stage'[d] = "subscribed"
        /\ \A r \in Runs : \A d \in ToSet(left[r]) : stage'[d] = "subscribed"
    BY <1>1, <1>3, <2>2 DEF Listed
  <2>4. \A d \in Clients : stage'[d] = "subscribed" /\ up[d] => d \in ToSet(subs)
    BY <1>1, <1>3 DEF Listed
  <2>5. QED
    BY <1>1, <2>1, <2>3, <2>4 DEF Listed
<1>6. Shown'
  <2>1. UNCHANGED <<left, count, seen>> /\ \A r : Behind(r)' = Behind(r)
    BY <1>2 DEF runVars, Behind
  <2>2. \A d \in Clients : stage'[d] \in {"new", "asked"} => stage[d] \in {"new", "asked"}
    BY <1>2, <1>3
  <2>3. QED
    BY <1>1, <2>1, <2>2 DEF Shown
<1>7. TypeOK'
  BY <1>1, ClientTypes
<1>8. /\ Counted' /\ Filed'
      /\ Pushed' /\ AllSeen' /\ Missed' /\ NoneOwed'
  BY <1>1, <1>4, VisitHarmless
<1>9. QED
  BY <1>5, <1>6, <1>7, <1>8 DEF IInv

\* The two ways in which a request goes on: the client is subscribed, or it is not yet, or never.
LEMMA RequestListed ==
  ASSUME TypeOK, Listed, NEW c \in Clients, stage[c] \in {"asked", "replaying"},
         UNCHANGED <<left, dead, up>>,
         \/ Subscribed(c)
         \/ /\ UNCHANGED <<subs, since>>
            /\ \E s \in {"replaying", "failed"} : stage' = [stage EXCEPT ![c] = s]
  PROVE  /\ Listed'
         /\ ToSet(subs') \subseteq ToSet(subs) \union {c}
         /\ \A d \in Clients \ {c} : stage'[d] = stage[d] /\ since'[d] = since[d]
         /\ stage'[c] \in {"subscribed", "replaying", "failed"}
         /\ \/ \A r \in Runs : since'[c][r] = count[r]
            \/ c \notin ToSet(subs') /\ stage'[c] # "subscribed"
<1>1. ToSet(subs) \subseteq Clients /\ \A r \in Runs : ToSet(left[r]) \subseteq Clients
  BY DEF TypeOK, ToSet
<1>2. c \notin ToSet(subs) /\ \A r \in Runs : c \notin ToSet(left[r])
  BY DEF Listed
<1>3. CASE Subscribed(c)
  <2>1. /\ \A r \in Runs : since'[c][r] = count[r]
        /\ \A d \in Clients \ {c} : since'[d] = since[d] /\ stage'[d] = stage[d]
        /\ stage'[c] = "subscribed"
        /\ ToSet(subs') = ToSet(subs) \union {c}
        /\ Distinct(subs')
    BY <1>3, SubscribedFacts
  <2>2. \A d \in ToSet(subs') : stage'[d] = "subscribed"
    BY <1>1, <2>1 DEF Listed
  <2>3. \A r \in Runs : \A d \in ToSet(left[r]) : stage'[d] = "subscribed"
    BY <1>1, <2>1 DEF Listed
  <2>4. \A d \in Clients : stage'[d] = "subscribed" /\ up[d] => d \in ToSet(subs')
    BY <2>1 DEF Listed
  <2>5. Listed'
    BY <2>1, <2>2, <2>3, <2>4 DEF Listed
  <2>6. QED
    BY <2>1, <2>5
<1>4. CASE /\ UNCHANGED <<subs, since>>
           /\ \E s \in {"replaying", "failed"} : stage' = [stage EXCEPT ![c] = s]
  <2>1. /\ \A d \in Clients \ {c} : stage'[d] = stage[d]
        /\ stage'[c] \in {"replaying", "failed"}
    BY <1>4 DEF TypeOK
  <2>2. /\ \A d \in ToSet(subs) : stage'[d] = "subscribed"
        /\ \A r \in Runs : \A d \in ToSet(left[r]) : stage'[d] = "subscribed"
    BY <1>1, <1>2, <2>1 DEF Listed
  <2>3. \A d \in Clients : stage'[d] = "subscribed" /\ up[d] => d \in ToSet(subs)
    BY <2>1 DEF Listed
  <2>4. Listed'
    BY <1>4, <2>2, <2>3 DEF Listed
  <2>5. QED
    BY <1>2, <1>4, <2>1, <2>4
<1>5. QED
  BY <1>3, <1>4

\* What is replayed is everything its client has been sent, and nobody is sending it more.
LEMMA ServeShown ==
  ASSUME TypeOK, Listed, Filed, Shown, NEW c \in Clients, Serve(c),
         stage'[c] \in {"subscribed", "replaying", "failed"},
         \A d \in Clients \ {c} : stage'[d] = stage[d]
  PROVE  Shown'
<1>1. /\ stage[c] = "asked" /\ seen' = Sent(c, Lines(c))
      /\ UNCHANGED <<count, left>>
  BY DEF Serve, runVars
<1>2. seen[c] = <<>> /\ Lines(c) \in Seq(Event)
  BY <1>1, LinesType DEF Shown
<1>3. /\ \A d \in Clients \ {c} : seen'[d] = seen[d]
      /\ seen'[c] = Lines(c) \/ seen'[c] = <<>>
  <2>1. <<>> \o Lines(c) = Lines(c)
    BY <1>2, ConcatEmptySeq
  <2>2. QED
    BY <1>1, <1>2, <2>1, SentFacts
<1>4. \A r : Behind(r)' = Behind(r)
  BY <1>1 DEF Behind
<1>5. \A r \in Runs : c \notin Behind(r)
  <2>1. \A r \in Runs : Behind(r) \subseteq ToSet(left[r])
    BY DEF Behind, ToSet, TypeOK
  <2>2. QED
    BY <1>1, <2>1 DEF Listed
<1>6. /\ InOrder(seen'[c])
      /\ \A e \in ToSet(seen'[c]) : e \in Event /\ Before(e)
  BY <1>1, <1>3, LinesShown DEF InOrder, ToSet
<1>7. SUFFICES ASSUME NEW d \in Clients
               PROVE  /\ InOrder(seen'[d])
                      /\ stage'[d] \in {"new", "asked"} => seen'[d] = <<>>
                      /\ \A e \in ToSet(seen'[d]) :
                           e.n <= count'[e.run] /\ (d \in Behind(e.run)' => e.n < count'[e.run])
  BY DEF Shown, InOrder
<1>8. CASE d = c
  <2>1. \A e \in ToSet(seen'[c]) : e.run \in Runs /\ e.n <= count[e.run]
    BY <1>6, EventFacts DEF Before
  <2>2. QED
    BY <1>1, <1>4, <1>5, <1>6, <1>8, <2>1
<1>9. CASE d # c
  BY <1>1, <1>3, <1>4, <1>9 DEF Shown
<1>10. QED
  BY <1>8, <1>9

LEMMA RequestStep ==
  ASSUME IInv, NEW c \in Clients, RequestSteps(c)
  PROVE  IInv'
<1>1. /\ TypeOK /\ Listed /\ Counted /\ Filed /\ Shown /\ Pushed /\ AllSeen /\ Missed /\ NoneOwed
  BY DEF IInv
<1>2. /\ stage[c] \in {"asked", "replaying"}
      /\ UNCHANGED <<file, up, want>> /\ UNCHANGED runVars
      /\ \/ Subscribed(c)
         \/ /\ UNCHANGED <<subs, since>>
            /\ \E s \in {"replaying", "failed"} : stage' = [stage EXCEPT ![c] = s]
  BY DEF RequestSteps, Serve, Replayed
<1>3. UNCHANGED <<left, dead>>
  BY <1>2 DEF runVars
<1>4. /\ Listed'
      /\ ToSet(subs') \subseteq ToSet(subs) \union {c}
      /\ \A d \in Clients \ {c} : stage'[d] = stage[d] /\ since'[d] = since[d]
      /\ stage'[c] \in {"subscribed", "replaying", "failed"}
      /\ \/ \A r \in Runs : since'[c][r] = count[r]
         \/ c \notin ToSet(subs') /\ stage'[c] # "subscribed"
  BY <1>1, <1>2, <1>3, RequestListed
<1>5. \A d \in Clients \ {c} : seen'[d] = seen[d]
  <2>1. CASE Serve(c)
    BY <1>1, <1>2, <2>1, LinesType, SentFacts DEF Serve
  <2>2. CASE Replayed(c)
    BY <2>2 DEF Replayed
  <2>3. QED
    BY <2>1, <2>2 DEF RequestSteps
<1>6. Visit(c)
  BY <1>2, <1>4, <1>5 DEF Visit
<1>7. Shown'
  <2>1. CASE Serve(c)
    BY <1>1, <1>4, <2>1, ServeShown
  <2>2. CASE Replayed(c)
    <3>1. UNCHANGED <<seen, count>> /\ \A r : Behind(r)' = Behind(r)
      BY <1>2, <2>2 DEF Replayed, Behind, runVars
    <3>2. \A d \in Clients : stage'[d] \in {"new", "asked"} => stage[d] \in {"new", "asked"}
      BY <1>4
    <3>3. QED
      BY <1>1, <3>1, <3>2 DEF Shown
  <2>3. QED
    BY <2>1, <2>2 DEF RequestSteps
<1>8. TypeOK'
  BY <1>1, ClientTypes
<1>9. /\ Counted' /\ Filed'
      /\ Pushed' /\ AllSeen' /\ Missed' /\ NoneOwed'
  BY <1>1, <1>6, VisitHarmless
<1>10. QED
  BY <1>4, <1>7, <1>8, <1>9 DEF IInv

LEMMA DisconnectStep ==
  ASSUME IInv, NEW c \in Clients, Disconnect(c)
  PROVE  IInv'
<1>1. /\ TypeOK /\ Listed /\ Counted /\ Filed /\ Shown /\ Pushed /\ AllSeen /\ Missed /\ NoneOwed
  BY DEF IInv
<1>2. /\ up' = [up EXCEPT ![c] = FALSE]
      /\ subs' = Kept(subs, Clients \ {c})
      /\ UNCHANGED <<file, stage, want, seen, since>> /\ UNCHANGED runVars
  BY DEF Disconnect
<1>3. /\ ToSet(subs') = ToSet(subs) \intersect (Clients \ {c})
      /\ Distinct(subs')
  BY <1>1, <1>2, KeptElements DEF TypeOK, Listed
<1>4. /\ ~up'[c] /\ \A d \in Clients \ {c} : up'[d] = up[d]
      /\ UNCHANGED <<left, dead>>
  BY <1>1, <1>2 DEF TypeOK, runVars
<1>5. Visit(c)
  BY <1>2, <1>3, <1>4 DEF Visit
<1>6. Listed'
  <2>1. \A d \in ToSet(subs') : stage'[d] = "subscribed"
    BY <1>1, <1>2, <1>3 DEF Listed
  <2>2. \A r \in Runs : \A d \in dead'[r] : ~up'[d]
    <3>1. \A r \in Runs : dead[r] \subseteq Clients
      BY <1>1 DEF TypeOK
    <3>2. QED
      BY <1>1, <1>4, <3>1 DEF Listed
  <2>3. \A d \in Clients : stage'[d] = "subscribed" /\ up'[d] => d \in ToSet(subs')
    BY <1>1, <1>2, <1>3, <1>4 DEF Listed
  <2>4. QED
    BY <1>1, <1>2, <1>3, <1>4, <2>1, <2>2, <2>3 DEF Listed
<1>7. Shown'
  <2>1. UNCHANGED <<seen, count, stage>> /\ \A r : Behind(r)' = Behind(r)
    BY <1>2 DEF runVars, Behind
  <2>2. QED
    BY <1>1, <2>1 DEF Shown
<1>8. TypeOK'
  BY <1>1, ClientTypes
<1>9. /\ Counted' /\ Filed'
      /\ Pushed' /\ AllSeen' /\ Missed' /\ NoneOwed'
  BY <1>1, <1>5, VisitHarmless
<1>10. QED
  BY <1>6, <1>7, <1>8, <1>9 DEF IInv

LEMMA StutterStep ==
  ASSUME IInv, UNCHANGED vars
  PROVE  IInv'
<1>1. UNCHANGED <<phase, count, final, left, dead, lost, file, subs, up, stage, want, seen, since>>
  BY DEF vars
<1>2. /\ \A c, e : Matches(c, e)' <=> Matches(c, e)
      /\ \A r, n : TheEvent(r, n)' = TheEvent(r, n)
      /\ \A r : Current(r)' = Current(r) /\ Told(r)' = Told(r) /\ Behind(r)' = Behind(r)
  BY <1>1 DEF Matches, TheEvent, Current, Kind, Told, Behind
<1>3. TypeOK' /\ Listed' /\ Counted' /\ Filed'
  BY <1>1 DEF IInv, TypeOK, Listed, Counted, Filed, Before
<1>4. Shown'
  BY <1>1, <1>2 DEF IInv, Shown
<1>5. \A r, c : Concerns(r, c)' <=> Concerns(r, c)
  BY <1>1, <1>2 DEF Concerns
<1>6. \A c, r, n : Owed(c, r, n)' <=> Owed(c, r, n)
  BY <1>1, <1>2 DEF Owed
<1>7. Pushed' /\ Missed'
  BY <1>1, <1>2, <1>5 DEF IInv, Pushed, Missed
<1>8. AllSeen' /\ NoneOwed'
  BY <1>1, <1>2, <1>6 DEF IInv, AllSeen, NoneOwed
<1>9. QED
  BY <1>3, <1>4, <1>7, <1>8 DEF IInv

LEMMA Initially ==
  ASSUME Init
  PROVE  IInv
<1>1. ToSet(<<>>) = {} /\ Distinct(<<>>) /\ InOrder(<<>>)
  BY DEF ToSet, Distinct, InOrder
<1>2. \A r \in Runs : MaxEvents[r] \in Nat /\ MaxEvents[r] > 0
  BY EventsAssumption
<1>3. TypeOK
  <2>1. \A c \in Clients : stage[c] = "new" /\ want[c] = None
    BY DEF Init
  <2>2. <<>> \in Seq(Clients) /\ <<>> \in Seq(Event)
    OBVIOUS
  <2>3. \A r \in Runs : phase[r] # "publishing" /\ left[r] = <<>>
    BY DEF Init
  <2>4. DOMAIN want = Clients
    BY DEF Init
  <2>5. /\ phase \in [Runs -> {"new", "publishing", "working", "ended"}]
        /\ count \in [Runs -> Nat] /\ final \in [Runs -> BOOLEAN]
        /\ left \in [Runs -> Seq(Clients)] /\ dead \in [Runs -> SUBSET Clients]
        /\ lost \in [Runs -> SUBSET Nat] /\ file \in [Runs -> Seq(Event)]
        /\ subs \in Seq(Clients)
        /\ up \in [Clients -> BOOLEAN]
        /\ stage \in [Clients -> {"new", "asked", "replaying", "subscribed", "failed"}]
        /\ seen \in [Clients -> Seq(Event)]
        /\ since \in [Clients -> [Runs -> Nat]]
    BY <2>2 DEF Init
  <2>6. \A r \in Runs : count[r] = 0 /\ lost[r] = {}
    BY DEF Init
  <2>7. QED
    BY <1>2, <2>1, <2>3, <2>4, <2>5, <2>6 DEF TypeOK
<1>4. Listed
  BY <1>1 DEF Init, Listed
<1>5. Counted
  BY <1>2 DEF Init, Counted
<1>6. Filed /\ Shown
  BY <1>1 DEF Init, Filed, Shown
<1>7. Pushed /\ Missed
  BY DEF Init, Pushed, Missed, Concerns
<1>8. AllSeen
  BY DEF Init, AllSeen
<1>9. NoneOwed
  BY <1>1 DEF Init, NoneOwed
<1>10. QED
  BY <1>3, <1>4, <1>5, <1>6, <1>7, <1>8, <1>9 DEF IInv

\* No step of any run or client takes the invariant away, in whatever order they come.
LEMMA Preserved ==
  ASSUME IInv, [Next]_vars
  PROVE  IInv'
<1>1. ASSUME NEW r \in Runs, Start(r) \/ RunSteps(r) \/ CancelEnds(r) \/ CancelFinishes(r)
      PROVE  IInv'
  <2>1. CASE Start(r) \/ Continue(r) \/ CancelFinishes(r)
    BY <2>1, SaysStep
  <2>2. CASE Drained(r)
    BY <2>2, DrainedStep
  <2>3. CASE CancelEnds(r)
    BY <2>3, CancelStep
  <2>4. QED
    BY <1>1, <2>1, <2>2, <2>3 DEF RunSteps
<1>2. ASSUME NEW c \in Clients, Ask(c) \/ RequestSteps(c) \/ Disconnect(c)
      PROVE  IInv'
  BY <1>2, AskStep, RequestStep, DisconnectStep
<1>3. CASE UNCHANGED vars
  BY <1>3, StutterStep
<1>4. QED
  BY <1>1, <1>2, <1>3 DEF Next

-----------------------------------------------------------------------------
(* Theorems.                                                               *)

LEMMA Invariance == Spec => []IInv
<1>1. Init => IInv
  BY Initially
<1>2. IInv /\ [Next]_vars => IInv'
  BY Preserved
<1>3. QED
  BY <1>1, <1>2, PTL DEF Spec

\* A client is in one stage of its one request, only publications that wait have
\* somebody to wait for, and nobody waits for a stranger.
THEOREM TypeTheorem == Spec => []TypeOK
<1>1. IInv => TypeOK
  BY DEF IInv
<1>2. QED
  BY <1>1, Invariance, PTL

\* However pushing, replaying, cancelling and leaving interleave: every client sees the
\* events of each run in the order in which they were said, and none of them twice.
THEOREM OrderTheorem == Spec => []SeenInOrder
<1>1. IInv => SeenInOrder
  BY DEF IInv, Shown, InOrder, SeenInOrder
<1>2. QED
  BY <1>1, Invariance, PTL

\* A subscribed client whose connection lives has been sent every matching event that
\* began after its subscription and is over.
THEOREM LiveTheorem == Spec => []LiveIsComplete
<1>1. IInv => LiveIsComplete
  <2>1. SUFFICES ASSUME IInv, NEW c \in Clients, stage[c] = "subscribed", up[c], NEW e \in Due(c)
                 PROVE  e \in ToSet(seen[c])
    BY DEF LiveIsComplete
  <2>2. PICK r \in Runs : \E n \in Told(r) : e = TheEvent(r, n)
    BY <2>1 DEF Due
  <2>6. PICK n \in Told(r) : e = TheEvent(r, n)
    BY <2>2
  <2>3. e.run = r /\ e.n = n /\ e.n > since[c][e.run] /\ Matches(c, e)
    BY <2>1, <2>6 DEF Due, TheEvent
  <2>4. Owed(c, r, n)
    BY <2>6, <2>3 DEF Owed
  <2>5. QED
    BY <2>1, <2>6, <2>4 DEF IInv, AllSeen
<1>2. QED
  BY <1>1, Invariance, PTL

\* A connection that was subscribed after it had closed is forgotten by the first event
\* that matches: the broadcaster's list cannot fill with the dead.
THEOREM GoneTheorem == Spec => []GoneAreForgotten
<1>1. IInv => GoneAreForgotten
  <2>1. SUFFICES ASSUME IInv, NEW c \in ToSet(subs), ~up[c], NEW e \in Due(c)
                 PROVE  FALSE
    BY DEF GoneAreForgotten
  <2>2. PICK r \in Runs : \E n \in Told(r) : e = TheEvent(r, n)
    BY <2>1 DEF Due
  <2>6. PICK n \in Told(r) : e = TheEvent(r, n)
    BY <2>2
  <2>3. e.run = r /\ e.n = n /\ e.n > since[c][e.run] /\ Matches(c, e)
    BY <2>1, <2>6 DEF Due, TheEvent
  <2>4. Owed(c, r, n)
    BY <2>6, <2>3 DEF Owed
  <2>5. QED
    BY <2>1, <2>6, <2>4 DEF IInv, NoneOwed
<1>2. QED
  BY <1>1, Invariance, PTL

=============================================================================
