------------------------- MODULE TerminalClientProofs -------------------------
(***************************************************************************)
(* Proofs about TerminalClient, for any number of messages and of losses:  *)
(* type correctness, that an interruption spares its own guidance, that a  *)
(* terminal that holds messages back is owed something that lets it go on, *)
(* and that no message overtakes another one.                              *)
(***************************************************************************)
EXTENDS TerminalClient, Integers, TLAPS

\* The lines that speak of a message carry one.
LinesCarry ==
  \A i \in 1..Len(requests) : requests[i].kind \in {"send", "interrupt"} => requests[i].msg \in Msgs

RefusalsCarry ==
  \A i \in 1..Len(inbox) : inbox[i].kind = "refused" => inbox[i].msg \in Msgs

\* What is on the wire has been typed.
WireIsTyped ==
  \A i \in 1..Len(requests) :
    requests[i].kind \in {"send", "interrupt"} => place[requests[i].msg] # "fresh"

\* The cancellation of "/now m" is on the wire before m is.
InterruptsLead ==
  \A i, j \in 1..Len(requests) :
    /\ requests[i].kind = "send" /\ requests[j].kind = "interrupt"
    /\ requests[i].msg = requests[j].msg
    => j < i

Ordered == LinesCarry /\ WireIsTyped /\ InterruptsLead /\ InterruptSpares

KindsOf(s) == {s[i].kind : i \in 1..Len(s)}

\* The client has asked for events and is told of them.
Hearing == Open /\ subscribed

\* The client has not asked for events yet, and nothing else has happened to it.
Quiet ==
  /\ link \in {"down", "subscribing"}
  /\ ~busy /\ ~prompt /\ ~subscribed /\ ~stopping
  /\ queue = <<>> /\ woken = {} /\ inbox = <<>>
  /\ KindsOf(requests) \subseteq (IF link = "down" THEN {} ELSE {"subscribe"})

\* As long as nothing was lost, the client hears or has nothing to hear.
Listening == ~mute => Hearing \/ Quiet

IInv == TypeOK /\ Ordered /\ RefusalsCarry /\ Listening /\ NothingStrands

RequestKinds == {"subscribe", "resume", "send", "cancel", "interrupt", "compact"}
PushedKinds == {"subscribed", "resumed", "refused", "stopped", "waiting", "closed", "eof", "reset"}

-----------------------------------------------------------------------------
(* Sequences of lines.                                                     *)

LEMMA AppendKinds ==
  ASSUME NEW S, NEW s \in Seq(S), NEW l \in S
  PROVE  /\ Append(s, l) \in Seq(S)
         /\ KindsOf(Append(s, l)) = KindsOf(s) \union {l.kind}
         /\ \A i \in 1..Len(Append(s, l)) :
              \/ i \in 1..Len(s) /\ Append(s, l)[i] = s[i]
              \/ i = Len(s) + 1 /\ Append(s, l)[i] = l
<1>1. /\ Append(s, l) \in Seq(S) /\ Len(Append(s, l)) = Len(s) + 1 /\ Len(s) \in Nat
      /\ \A i \in 1..Len(s) : Append(s, l)[i] = s[i]
      /\ Append(s, l)[Len(s) + 1] = l
  OBVIOUS
<1>2. \A i \in 1..Len(Append(s, l)) : i \in 1..Len(s) \/ i = Len(s) + 1
  BY <1>1
<1>3. 1..Len(s) \subseteq 1..Len(Append(s, l)) /\ Len(s) + 1 \in 1..Len(Append(s, l))
  BY <1>1
<1>4. QED
  BY <1>1, <1>2, <1>3 DEF KindsOf

LEMMA TailKinds ==
  ASSUME NEW S, NEW s \in Seq(S), s # <<>>
  PROVE  /\ Tail(s) \in Seq(S) /\ Head(s) \in S
         /\ KindsOf(s) = KindsOf(Tail(s)) \union {Head(s).kind}
         /\ 1 \in 1..Len(s) /\ Head(s) = s[1]
         /\ \A i \in 1..Len(Tail(s)) : i + 1 \in 1..Len(s) /\ Tail(s)[i] = s[i + 1]
<1>1. /\ Tail(s) \in Seq(S) /\ Head(s) \in S /\ Len(Tail(s)) = Len(s) - 1
      /\ Len(s) \in Nat \ {0} /\ Head(s) = s[1]
      /\ \A i \in 1..Len(Tail(s)) : Tail(s)[i] = s[i + 1]
  OBVIOUS
<1>2. /\ 1 \in 1..Len(s)
      /\ \A i \in 1..Len(Tail(s)) : i + 1 \in 1..Len(s)
      /\ \A i \in 1..Len(s) : i = 1 \/ (i - 1 \in 1..Len(Tail(s)) /\ s[i] = Tail(s)[i - 1])
  BY <1>1
<1>3. KindsOf(Tail(s)) \union {Head(s).kind} \subseteq KindsOf(s)
  BY <1>1, <1>2 DEF KindsOf
<1>4. KindsOf(s) \subseteq KindsOf(Tail(s)) \union {Head(s).kind}
  BY <1>1, <1>2 DEF KindsOf
<1>5. QED
  BY <1>1, <1>2, <1>3, <1>4

LEMMA NoKinds == KindsOf(<<>>) = {}
BY DEF KindsOf

\* What the invariants say of the wire, by the kinds of its lines.
LEMMA ByKinds ==
  /\ InFlight <=> woken # {} \/ "send" \in KindsOf(requests) \/ "refused" \in KindsOf(inbox)
  /\ Announcing <=> (IsRunning /\ lane.stage # "announced") \/ "waiting" \in KindsOf(inbox)
  /\ Open <=> Connected /\ "eof" \notin KindsOf(inbox) /\ "reset" \notin KindsOf(inbox)
BY DEF InFlight, Announcing, Open, KindsOf

LEMMA ByKindsNext ==
  /\ InFlight' <=> woken' # {} \/ "send" \in KindsOf(requests') \/ "refused" \in KindsOf(inbox')
  /\ Announcing' <=> (IsRunning' /\ (lane.stage # "announced")') \/ "waiting" \in KindsOf(inbox')
  /\ Open' <=> Connected' /\ "eof" \notin KindsOf(inbox') /\ "reset" \notin KindsOf(inbox')
BY DEF InFlight, Announcing, Open, KindsOf

-----------------------------------------------------------------------------
(* What is written.                                                        *)

LEMMA WrittenFacts ==
  ASSUME TypeOK, NEW kind \in RequestKinds, NEW m \in Msgs \union {None}
  PROVE  /\ Written(kind, m) \in Seq(Requests)
         /\ KindsOf(Written(kind, m)) = KindsOf(requests) \union (IF Open THEN {kind} ELSE {})
         /\ \A i \in 1..Len(Written(kind, m)) :
              \/ i \in 1..Len(requests) /\ Written(kind, m)[i] = requests[i]
              \/ i = Len(requests) + 1 /\ Written(kind, m)[i] = Line(kind, m)
<1>1. Line(kind, m) \in Requests /\ Line(kind, m).kind = kind
  BY DEF Line, Requests, RequestKinds
<1>2. requests \in Seq(Requests)
  BY DEF TypeOK
<1>3. QED
  BY <1>1, <1>2, AppendKinds DEF Written

\* Nothing typed is untyped again, and nothing is accepted.
Onward ==
  \A k \in Msgs : /\ place[k] # "fresh" => place'[k] # "fresh"
                  /\ place'[k] = "accepted" => place[k] = "accepted"

LEMMA OrderedWrites ==
  ASSUME TypeOK, Ordered, Onward,
         NEW kind \in RequestKinds \ {"interrupt"}, NEW m \in Msgs \union {None},
         requests' \in {requests, Written(kind, m)},
         kind = "send" => m \in Msgs /\ place'[m] # "fresh"
  PROVE  Ordered'
<1>1. Len(requests) \in Nat
  BY DEF TypeOK
<1>2. \A i \in 1..Len(requests') :
        \/ i \in 1..Len(requests) /\ requests'[i] = requests[i]
        \/ i = Len(requests) + 1 /\ requests'[i] = Line(kind, m)
  BY WrittenFacts
<1>3. Line(kind, m).kind = kind /\ Line(kind, m).msg = m
  BY DEF Line
<1>8. LinesCarry'
  BY <1>2, <1>3 DEF Ordered, LinesCarry
<1>4. WireIsTyped'
  BY <1>2, <1>3 DEF Ordered, WireIsTyped, LinesCarry, Onward
<1>5. InterruptsLead'
  BY <1>1, <1>2, <1>3 DEF Ordered, InterruptsLead
<1>6. InterruptSpares'
  BY <1>2, <1>3 DEF Ordered, InterruptSpares, LinesCarry, Onward
<1>7. QED
  BY <1>4, <1>5, <1>6, <1>8 DEF Ordered

LEMMA OrderedTakes ==
  ASSUME TypeOK, Ordered, requests # <<>>, requests' = Tail(requests),
         \A k \in Msgs : place[k] # "fresh" => place'[k] # "fresh",
         \A k \in Msgs : place'[k] = "accepted" =>
           place[k] = "accepted" \/ (Head(requests).kind = "send" /\ Head(requests).msg = k)
  PROVE  Ordered'
<1>1. /\ Len(requests) \in Nat /\ Len(requests') \in Nat
      /\ 1 \in 1..Len(requests) /\ Head(requests) = requests[1]
      /\ \A i \in 1..Len(requests') : i + 1 \in 1..Len(requests) /\ requests'[i] = requests[i + 1]
  BY TailKinds DEF TypeOK
<1>6. LinesCarry'
  BY <1>1 DEF Ordered, LinesCarry
<1>2. WireIsTyped'
  BY <1>1 DEF Ordered, WireIsTyped, LinesCarry
<1>3. InterruptsLead'
  BY <1>1 DEF Ordered, InterruptsLead
<1>4. InterruptSpares'
  <2>1. SUFFICES ASSUME NEW i \in 1..Len(requests'), requests'[i].kind = "interrupt",
                        place'[requests'[i].msg] = "accepted"
                 PROVE  FALSE
    BY DEF InterruptSpares
  <2>2. /\ requests[i + 1].kind = "interrupt" /\ i + 1 \in 1..Len(requests)
        /\ requests'[i].msg = requests[i + 1].msg /\ requests[i + 1].msg \in Msgs
    BY <1>1, <2>1 DEF Ordered, LinesCarry
  <2>3. requests[1].kind = "send" /\ requests[1].msg = requests[i + 1].msg
    BY <1>1, <2>1, <2>2 DEF Ordered, InterruptSpares
  <2>4. i + 1 < 1
    BY <1>1, <2>2, <2>3 DEF Ordered, InterruptsLead
  <2>5. QED
    BY <2>4
<1>5. QED
  BY <1>2, <1>3, <1>4, <1>6 DEF Ordered

\* No line that speaks of a message is left.
LEMMA OrderedClears ==
  ASSUME \A i \in 1..Len(requests') : requests'[i].kind \notin {"send", "interrupt"}
  PROVE  Ordered'
BY DEF Ordered, LinesCarry, WireIsTyped, InterruptsLead, InterruptSpares

-----------------------------------------------------------------------------
(* What is heard and told.                                                 *)

LEMMA TellFacts ==
  ASSUME TypeOK, RefusalsCarry, NEW kind \in PushedKinds, NEW m \in Msgs \union {None},
         kind = "refused" => m \in Msgs,
         NEW told \in BOOLEAN,
         inbox' = IF told THEN Append(inbox, Line(kind, m)) ELSE inbox
  PROVE  /\ inbox' \in Seq(Pushed)
         /\ KindsOf(inbox') = KindsOf(inbox) \union (IF told THEN {kind} ELSE {})
         /\ RefusalsCarry'
<1>1. Line(kind, m) \in Pushed /\ Line(kind, m).kind = kind /\ Line(kind, m).msg = m
  BY DEF Line, Pushed, PushedKinds
<1>2. inbox \in Seq(Pushed)
  BY DEF TypeOK
<1>3. /\ inbox' \in Seq(Pushed)
      /\ KindsOf(inbox') = KindsOf(inbox) \union (IF told THEN {kind} ELSE {})
      /\ \A i \in 1..Len(inbox') : (i \in 1..Len(inbox) /\ inbox'[i] = inbox[i]) \/ inbox'[i] = Line(kind, m)
  BY <1>1, <1>2, AppendKinds
<1>4. QED
  BY <1>1, <1>3 DEF RefusalsCarry

LEMMA HearFacts ==
  ASSUME TypeOK, RefusalsCarry, NEW kind \in PushedKinds, Hear(kind)
  PROVE  /\ inbox' \in Seq(Pushed)
         /\ KindsOf(inbox) = KindsOf(inbox') \union {kind}
         /\ RefusalsCarry'
         /\ kind = "refused" => Head(inbox).msg \in Msgs
<1>1. inbox \in Seq(Pushed) /\ inbox # <<>> /\ inbox' = Tail(inbox) /\ Head(inbox).kind = kind
  BY DEF TypeOK, Hear
<1>2. /\ inbox' \in Seq(Pushed)
      /\ KindsOf(inbox) = KindsOf(inbox') \union {kind}
      /\ 1 \in 1..Len(inbox) /\ Head(inbox) = inbox[1]
      /\ \A i \in 1..Len(inbox') : i + 1 \in 1..Len(inbox) /\ inbox'[i] = inbox[i + 1]
  BY <1>1, TailKinds
<1>3. QED
  BY <1>1, <1>2 DEF RefusalsCarry

LEMMA TakeFacts ==
  ASSUME TypeOK, NEW kind \in RequestKinds, Take(kind)
  PROVE  /\ requests' \in Seq(Requests) /\ Head(requests) \in Requests
         /\ KindsOf(requests) = KindsOf(requests') \union {kind}
         /\ requests # <<>> /\ requests' = Tail(requests) /\ Head(requests).kind = kind
         /\ 1 \in 1..Len(requests) /\ Head(requests) = requests[1]
<1>1. requests \in Seq(Requests) /\ requests # <<>> /\ requests' = Tail(requests) /\ Head(requests).kind = kind
  BY DEF TypeOK, Take
<1>2. QED
  BY <1>1, TailKinds

\* A command that carries no message, or none that is to be accepted.
LEMMA TakeOrdered ==
  ASSUME TypeOK, Ordered, NEW kind \in RequestKinds, Take(kind), UNCHANGED place
  PROVE  Ordered'
BY TakeFacts, OrderedTakes

-----------------------------------------------------------------------------
(* What the client sends.                                                  *)

LEMMA Transmits ==
  ASSUME TypeOK, Ordered, NEW m \in Msgs, NEW p \in [Msgs -> Places],
         \A k \in Msgs : (place[k] # "fresh" => p[k] # "fresh") /\ (p[k] = "accepted" => place[k] = "accepted"),
         Transmit(m, p)
  PROVE  /\ busy' /\ prompt'
         /\ requests' \in Seq(Requests) /\ place' \in [Msgs -> Places] /\ mute' \in BOOLEAN
         /\ KindsOf(requests') = KindsOf(requests) \union (IF Open THEN {"send"} ELSE {})
         /\ mute => mute'
         /\ Ordered'
<1>1. /\ requests' = Written("send", m) /\ busy' = TRUE /\ prompt' = TRUE
      /\ place' = [p EXCEPT ![m] = IF Connected THEN "sent" ELSE "lost"]
      /\ mute' = (mute \/ ~Connected)
  BY DEF Transmit
<1>2. "send" \in RequestKinds \ {"interrupt"}
  BY DEF RequestKinds
<1>3. place' \in [Msgs -> Places] /\ place'[m] # "fresh" /\ Onward
  BY <1>1 DEF Places, Onward
<1>4. Ordered'
  BY <1>1, <1>2, <1>3, OrderedWrites
<1>5. mute' \in BOOLEAN /\ (mute => mute')
  BY <1>1 DEF TypeOK
<1>6. QED
  BY <1>1, <1>2, <1>3, <1>4, <1>5, WrittenFacts

LEMMA SendsNext ==
  ASSUME TypeOK, Ordered, NEW p \in [Msgs -> Places],
         \A k \in Msgs : (place[k] # "fresh" => p[k] # "fresh") /\ (p[k] = "accepted" => place[k] = "accepted"),
         SendNext(p)
  PROVE  /\ busy' \in BOOLEAN /\ prompt' \in BOOLEAN /\ queue' \in Seq(Msgs)
         /\ requests' \in Seq(Requests) /\ place' \in [Msgs -> Places] /\ mute' \in BOOLEAN
         /\ \/ KindsOf(requests') = KindsOf(requests) /\ ~busy' /\ queue' = <<>>
            \/ KindsOf(requests') = KindsOf(requests) \union (IF Open THEN {"send"} ELSE {})
         /\ mute => mute'
         /\ Ordered'
<1>1. CASE queue = <<>>
  <2>1. /\ busy' = FALSE /\ prompt' = TRUE /\ place' = p /\ queue' = queue
        /\ requests' = requests /\ mute' = mute
    BY <1>1 DEF SendNext
  <2>2. "resume" \in RequestKinds \ {"interrupt"} /\ Onward
    BY <2>1 DEF RequestKinds, Onward
  <2>3. Ordered'
    BY <2>1, <2>2, OrderedWrites
  <2>4. QED
    BY <1>1, <2>1, <2>3 DEF TypeOK
<1>2. CASE queue # <<>>
  <2>1. Transmit(Head(queue), p) /\ queue' = Tail(queue)
    BY <1>2 DEF SendNext
  <2>2. Head(queue) \in Msgs /\ Tail(queue) \in Seq(Msgs)
    BY <1>2 DEF TypeOK
  <2>3. QED
    BY <2>1, <2>2, Transmits
<1>3. QED
  BY <1>1, <1>2

-----------------------------------------------------------------------------
(* The user.                                                               *)

LEMMA ExtraFacts == ASSUME TypeOK, Extra PROVE extras' \in 0..MaxExtras
BY ClientAssumption DEF TypeOK, Extra

\* The user types into a prompt, or interrupts a run: the client has subscribed.
LEMMA SubmitInv == ASSUME IInv, NEW m \in Msgs, Submit(m) PROVE IInv'
<1>1. TypeOK /\ Ordered /\ RefusalsCarry /\ Listening /\ NothingStrands /\ prompt
  BY DEF IInv, Submit, Typed
<1>2. /\ UNCHANGED <<link, pump, woken, inbox, daemonVars, extras, turns>>
      /\ m \in Msgs /\ place \in [Msgs -> Places] /\ place[m] = "fresh"
  BY <1>1 DEF Submit, Typed, TypeOK
<1>3. RefusalsCarry'
  BY <1>1, <1>2 DEF RefusalsCarry
<1>4. CASE busy
  <2>1. /\ queue' = Append(queue, m) /\ place' = [place EXCEPT ![m] = "queued"]
        /\ UNCHANGED <<prompt, busy, requests, mute>>
    BY <1>4 DEF Submit
  <2>2. TypeOK'
    BY <1>1, <1>2, <2>1 DEF TypeOK, Places, daemonVars
  <2>3. Ordered'
    <3>1. Onward /\ "resume" \in RequestKinds \ {"interrupt"}
      BY <1>2, <2>1 DEF Onward, RequestKinds
    <3>2. QED
      BY <1>1, <2>1, <3>1, OrderedWrites
  <2>4. Listening'
    BY <1>1, <1>2, <1>4, <2>1, ByKinds, ByKindsNext DEF Listening, Hearing, Quiet, Connected, daemonVars
  <2>5. NothingStrands'
    BY <1>1, <1>2, <1>4, <2>1, ByKinds, ByKindsNext DEF NothingStrands, IsRunning, daemonVars
  <2>6. QED
    BY <1>3, <2>2, <2>3, <2>4, <2>5 DEF IInv
<1>5. CASE ~busy
  <2>1. Transmit(m, place) /\ UNCHANGED queue
    BY <1>5 DEF Submit
  <2>2. /\ busy' /\ prompt'
        /\ requests' \in Seq(Requests) /\ place' \in [Msgs -> Places] /\ mute' \in BOOLEAN
        /\ KindsOf(requests') = KindsOf(requests) \union (IF Open THEN {"send"} ELSE {})
        /\ mute => mute'
        /\ Ordered'
    BY <1>1, <1>2, <2>1, Transmits
  <2>3. TypeOK'
    BY <1>1, <1>2, <2>1, <2>2 DEF TypeOK, daemonVars, Transmit
  <2>4. Listening'
    BY <1>1, <1>2, <2>2, ByKinds, ByKindsNext DEF Listening, Hearing, Quiet, Connected, daemonVars
  <2>5. NothingStrands'
    BY <1>1, <1>2, <2>2, ByKindsNext DEF NothingStrands, Listening, Hearing, Quiet
  <2>6. QED
    BY <1>3, <2>2, <2>3, <2>4, <2>5 DEF IInv
<1>6. QED
  BY <1>4, <1>5

LEMMA InterruptInv == ASSUME IInv, NEW m \in Msgs, Interrupt(m) PROVE IInv'
<1>1. TypeOK /\ Ordered /\ RefusalsCarry /\ Listening /\ NothingStrands
  BY DEF IInv
<1>2. /\ busy /\ Extra /\ m \in Msgs /\ place[m] = "fresh"
      /\ queue' = <<m>> \o queue
      /\ place' = [place EXCEPT ![m] = "queued"]
      /\ requests' = Written("interrupt", m)
      /\ UNCHANGED <<link, prompt, pump, busy, woken, inbox, daemonVars, historyVars>>
  BY DEF Interrupt, Typed
<1>3. /\ requests' \in Seq(Requests)
      /\ KindsOf(requests) \subseteq KindsOf(requests')
      /\ \A i \in 1..Len(requests') :
           \/ i \in 1..Len(requests) /\ requests'[i] = requests[i]
           \/ i = Len(requests) + 1 /\ requests'[i] = Line("interrupt", m)
  BY <1>1, <1>2, WrittenFacts DEF RequestKinds
<1>4. TypeOK'
  BY <1>1, <1>2, <1>3, ExtraFacts DEF TypeOK, Places, daemonVars, historyVars
<1>5. Ordered'
  <2>1. Line("interrupt", m).kind = "interrupt" /\ Line("interrupt", m).msg = m
    BY DEF Line
  <2>2. /\ Len(requests) \in Nat /\ place'[m] = "queued"
        /\ \A k \in Msgs : k # m => place'[k] = place[k]
    BY <1>1, <1>2 DEF TypeOK
  <2>3. LinesCarry'
    BY <1>1, <1>2, <1>3, <2>1 DEF Ordered, LinesCarry
  <2>4. \A i \in 1..Len(requests') :
          \/ i \in 1..Len(requests) /\ requests'[i] = requests[i]
          \/ i = Len(requests) + 1 /\ requests'[i].kind = "interrupt" /\ requests'[i].msg = m
    BY <1>3, <2>1
  <2>5. \A k \in Msgs : place[k] # "fresh" => place'[k] # "fresh"
    BY <2>2
  <2>6. WireIsTyped'
    BY <1>1, <1>2, <2>2, <2>4, <2>5 DEF Ordered, LinesCarry, WireIsTyped
  <2>7. InterruptsLead'
    <3>1. SUFFICES ASSUME NEW i \in 1..Len(requests'), NEW j \in 1..Len(requests'),
                          requests'[i].kind = "send", requests'[j].kind = "interrupt",
                          requests'[i].msg = requests'[j].msg
                   PROVE  j < i
      BY DEF InterruptsLead
    <3>2. i \in 1..Len(requests) /\ requests'[i] = requests[i]
      BY <2>4, <3>1
    <3>3. j \in 1..Len(requests) /\ requests'[j] = requests[j]
      <4>1. requests'[i].msg # m
        BY <1>1, <1>2, <3>1, <3>2 DEF Ordered, WireIsTyped
      <4>2. QED
        BY <2>4, <3>1, <4>1
    <3>4. QED
      BY <1>1, <3>1, <3>2, <3>3 DEF Ordered, InterruptsLead
  <2>8. InterruptSpares'
    BY <1>1, <1>2, <1>3, <2>1, <2>2 DEF Ordered, LinesCarry, InterruptSpares
  <2>9. QED
    BY <2>3, <2>6, <2>7, <2>8 DEF Ordered
<1>6. RefusalsCarry'
  BY <1>1, <1>2 DEF RefusalsCarry
<1>7. Listening'
  BY <1>1, <1>2, ByKinds, ByKindsNext DEF Listening, Hearing, Quiet, Connected, daemonVars, historyVars
<1>8. NothingStrands'
  BY <1>1, <1>2, <1>3, ByKinds, ByKindsNext DEF NothingStrands, IsRunning, daemonVars, historyVars
<1>9. QED
  BY <1>4, <1>5, <1>6, <1>7, <1>8 DEF IInv

\* Ctrl+C and "/compact": the prompt or a run is there, so the client has subscribed.
LEMMA CommandInv ==
  ASSUME IInv, NEW kind \in {"cancel", "compact"}, prompt \/ busy, Extra,
         pump' \in BOOLEAN,
         requests' = Written(kind, None),
         UNCHANGED <<link, prompt, busy, queue, woken, inbox, daemonVars, place, historyVars>>
  PROVE  IInv'
<1>1. TypeOK /\ Ordered /\ RefusalsCarry /\ Listening /\ NothingStrands
  BY DEF IInv
<1>2. kind \in RequestKinds \ {"interrupt"} /\ kind # "send"
  BY DEF RequestKinds
<1>3. requests' \in Seq(Requests) /\ KindsOf(requests) \subseteq KindsOf(requests')
  BY <1>1, <1>2, WrittenFacts
<1>4. TypeOK'
  BY <1>1, <1>3, ExtraFacts DEF TypeOK, daemonVars, historyVars
<1>5. Ordered'
  BY <1>1, <1>2, OrderedWrites DEF Onward
<1>6. RefusalsCarry'
  BY <1>1 DEF RefusalsCarry
<1>7. Listening'
  BY <1>1, ByKinds, ByKindsNext DEF Listening, Hearing, Quiet, Connected, daemonVars, historyVars
<1>8. NothingStrands'
  BY <1>1, <1>3, ByKinds, ByKindsNext DEF NothingStrands, IsRunning, daemonVars, historyVars
<1>9. QED
  BY <1>4, <1>5, <1>6, <1>7, <1>8 DEF IInv

-----------------------------------------------------------------------------
(* The client hears.                                                       *)

\* The client goes on: the next message, if any, is sent.
LEMMA SendNextInv ==
  ASSUME IInv, NEW p \in [Msgs -> Places],
         \A k \in Msgs : (place[k] # "fresh" => p[k] # "fresh") /\ (p[k] = "accepted" => place[k] = "accepted"),
         SendNext(p),
         inbox # <<>> \/ woken # {},
         inbox' \in Seq(Pushed), KindsOf(inbox') \subseteq KindsOf(inbox), RefusalsCarry',
         woken' \subseteq Msgs,
         UNCHANGED <<link, pump, daemonVars, extras, turns>>
  PROVE  IInv'
<1>1. TypeOK /\ Ordered /\ RefusalsCarry /\ Listening /\ NothingStrands
  BY DEF IInv
<1>2. /\ busy' \in BOOLEAN /\ prompt' \in BOOLEAN /\ queue' \in Seq(Msgs)
      /\ requests' \in Seq(Requests) /\ place' \in [Msgs -> Places] /\ mute' \in BOOLEAN
      /\ \/ KindsOf(requests') = KindsOf(requests) /\ ~busy' /\ queue' = <<>>
         \/ KindsOf(requests') = KindsOf(requests) \union (IF Open THEN {"send"} ELSE {})
      /\ mute => mute'
      /\ Ordered'
  BY <1>1, SendsNext
<1>3. TypeOK'
  BY <1>1, <1>2 DEF TypeOK, daemonVars
<1>4. Listening'
  BY <1>1, <1>2, ByKinds, ByKindsNext DEF Listening, Hearing, Quiet, Connected, daemonVars
<1>5. NothingStrands'
  BY <1>1, <1>2, ByKindsNext DEF NothingStrands, Listening, Hearing, Quiet
<1>6. QED
  BY <1>2, <1>3, <1>4, <1>5 DEF IInv

LEMMA HearWaitingInv == ASSUME IInv, HearWaiting PROVE IInv'
<1>1. /\ Hear("waiting") /\ SendNext(place)
      /\ UNCHANGED <<link, pump, woken, daemonVars, extras, turns>>
  BY DEF HearWaiting
<1>2. TypeOK /\ RefusalsCarry /\ inbox # <<>>
  BY <1>1 DEF IInv, Hear
<1>3. /\ inbox' \in Seq(Pushed) /\ KindsOf(inbox') \subseteq KindsOf(inbox)
      /\ RefusalsCarry'
  BY <1>1, <1>2, HearFacts DEF PushedKinds
<1>4. place \in [Msgs -> Places] /\ woken' \subseteq Msgs
  BY <1>1, <1>2 DEF TypeOK
<1>5. QED
  BY <1>1, <1>2, <1>3, <1>4, SendNextInv

LEMMA SendFailsInv == ASSUME IInv, NEW m \in Msgs, SendFails(m) PROVE IInv'
<1>1. /\ m \in woken /\ woken' = woken \ {m}
      /\ SendNext([place EXCEPT ![m] = "refused"])
      /\ UNCHANGED <<link, pump, inbox, daemonVars, extras, turns>>
  BY DEF SendFails
<1>2. TypeOK /\ RefusalsCarry
  BY DEF IInv
<1>3. /\ [place EXCEPT ![m] = "refused"] \in [Msgs -> Places]
      /\ \A k \in Msgs :
           /\ place[k] # "fresh" => [place EXCEPT ![m] = "refused"][k] # "fresh"
           /\ [place EXCEPT ![m] = "refused"][k] = "accepted" => place[k] = "accepted"
  BY <1>2 DEF TypeOK, Places
<1>4. inbox' \in Seq(Pushed) /\ woken' \subseteq Msgs /\ RefusalsCarry'
  BY <1>1, <1>2 DEF TypeOK, RefusalsCarry
<1>5. QED
  BY <1>1, <1>3, <1>4, SendNextInv

\* The other lines that are heard: the client has subscribed.
LEMMA HearInv ==
  ASSUME IInv, NEW kind \in PushedKinds \ {"waiting", "eof", "reset"}, Hear(kind),
         link' \in {link, "resuming", "up"}, prompt' \in BOOLEAN, pump' \in BOOLEAN,
         busy' \in {busy, FALSE},
         IF kind = "refused" THEN woken' = woken \union {Head(inbox).msg} ELSE UNCHANGED woken,
         requests' \in {requests, Written("resume", None)},
         UNCHANGED <<queue, daemonVars, extras, place, historyVars>>
  PROVE  IInv'
<1>1. TypeOK /\ Ordered /\ RefusalsCarry /\ Listening /\ NothingStrands
  BY DEF IInv
<1>2. /\ inbox' \in Seq(Pushed)
      /\ KindsOf(inbox) = KindsOf(inbox') \union {kind}
      /\ RefusalsCarry'
      /\ kind = "refused" => Head(inbox).msg \in Msgs
      /\ inbox # <<>>
  BY <1>1, HearFacts DEF Hear
<1>3. "resume" \in RequestKinds \ {"interrupt"}
  BY DEF RequestKinds
<1>4. requests' \in Seq(Requests) /\ KindsOf(requests) \subseteq KindsOf(requests')
  BY <1>1, <1>3, WrittenFacts DEF TypeOK
<1>10. woken' \subseteq Msgs
  BY <1>1, <1>2 DEF TypeOK
<1>11. link' \in {"down", "subscribing", "resuming", "up", "gone"} /\ busy' \in BOOLEAN
  BY <1>1 DEF TypeOK
<1>5. TypeOK'
  BY <1>1, <1>2, <1>4, <1>10, <1>11 DEF TypeOK, daemonVars, historyVars
<1>6. Ordered'
  BY <1>1, <1>3, OrderedWrites DEF Onward
<1>7. Listening'
  BY <1>1, <1>2, ByKinds, ByKindsNext DEF Listening, Hearing, Quiet, Connected, daemonVars, historyVars
<1>8. NothingStrands'
  BY <1>1, <1>2, <1>4, ByKinds, ByKindsNext DEF NothingStrands, IsRunning, daemonVars, historyVars
<1>9. QED
  BY <1>2, <1>5, <1>6, <1>7, <1>8 DEF IInv

\* At the end of the stream something has been lost already.
LEMMA HearEndInv == ASSUME IInv, HearEnd PROVE IInv'
<1>1. TypeOK /\ Ordered /\ RefusalsCarry /\ Listening
  BY DEF IInv
<1>2. PICK kind \in {"eof", "reset"} : Hear(kind)
  BY DEF HearEnd
<1>3. /\ inbox' \in Seq(Pushed)
      /\ KindsOf(inbox) = KindsOf(inbox') \union {kind}
      /\ RefusalsCarry'
      /\ inbox # <<>>
  BY <1>1, <1>2, HearFacts DEF Hear, PushedKinds
<1>4. /\ link' \in {"down", "gone"} /\ prompt' = FALSE
      /\ place' = [m \in Msgs |-> IF place[m] = "sent" /\ m \notin woken THEN "lost" ELSE place[m]]
      /\ UNCHANGED <<pump, busy, queue, woken, requests, daemonVars, extras, historyVars>>
  BY DEF HearEnd
<1>5. TypeOK'
  BY <1>1, <1>3, <1>4 DEF TypeOK, Places, daemonVars, historyVars
<1>6. Onward /\ "resume" \in RequestKinds \ {"interrupt"}
  BY <1>4 DEF Onward, RequestKinds
<1>7. Ordered'
  BY <1>1, <1>4, <1>6, OrderedWrites
<1>8. mute /\ mute'
  BY <1>1, <1>3, <1>4, ByKinds DEF Listening, Hearing, Quiet, historyVars
<1>9. QED
  BY <1>3, <1>5, <1>7, <1>8 DEF IInv, Listening, NothingStrands

LEMMA ConnectInv == ASSUME IInv, Connect PROVE IInv'
<1>1. TypeOK /\ Listening /\ NothingStrands
  BY DEF IInv
<1>2. /\ link = "down" /\ link' = "subscribing"
      /\ requests' = <<Line("subscribe", None)>> /\ inbox' = <<>>
      /\ UNCHANGED <<prompt, pump, busy, queue, woken, daemonVars, extras, place, historyVars>>
  BY DEF Connect
<1>3. /\ Len(requests') = 1 /\ requests' \in Seq(Requests) /\ inbox' \in Seq(Pushed)
      /\ requests'[1].kind = "subscribe" /\ Len(inbox') = 0
  BY <1>2 DEF Line, Requests
<1>4. TypeOK'
  BY <1>1, <1>2, <1>3 DEF TypeOK, daemonVars, historyVars
<1>5. \A i \in 1..Len(requests') : requests'[i].kind = "subscribe"
  BY <1>3
<1>6. Ordered'
  BY <1>5, OrderedClears
<1>7. RefusalsCarry'
  BY <1>3 DEF RefusalsCarry
<1>8. KindsOf(requests') \subseteq {"subscribe"}
  BY <1>5 DEF KindsOf
<1>9. ~mute => Quiet
  BY <1>1, <1>2, ByKinds DEF Listening, Hearing, Connected
<1>10. Listening'
  BY <1>2, <1>8, <1>9 DEF Listening, Quiet, daemonVars, historyVars
<1>11. NothingStrands'
  BY <1>2, <1>9 DEF NothingStrands, Quiet, daemonVars, historyVars
<1>12. QED
  BY <1>4, <1>6, <1>7, <1>10, <1>11 DEF IInv

-----------------------------------------------------------------------------
(* The daemon.                                                             *)

\* A line that is taken, other than a message, and an answer that may be given.
LEMMA ServeInv ==
  ASSUME IInv, NEW kind \in RequestKinds \ {"send"}, Take(kind),
         NEW answer \in {"subscribed", "resumed", "stopped"}, NEW told \in BOOLEAN,
         inbox' = IF told THEN Append(inbox, Line(answer, None)) ELSE inbox,
         told => Open,
         subscribed' = (subscribed \/ kind = "subscribe"),
         kind = "subscribe" => (told <=> Open),
         lane' \in {lane, [lane EXCEPT !.stage = "doomed"]}
           \/ (lane = Free /\ lane' = [by |-> "compact", stage |-> "agent"]),
         stopping' \in {stopping, TRUE}, kind = "subscribe" => stopping' = stopping,
         UNCHANGED <<clientVars, extras, place, historyVars>>
  PROVE  IInv'
<1>1. TypeOK /\ Ordered /\ RefusalsCarry /\ Listening /\ NothingStrands
  BY DEF IInv
<1>2. /\ requests' \in Seq(Requests)
      /\ KindsOf(requests) = KindsOf(requests') \union {kind}
  BY <1>1, TakeFacts
<1>3. answer \in PushedKinds /\ answer # "refused" /\ None \in Msgs \union {None}
  BY DEF PushedKinds
<1>4. /\ inbox' \in Seq(Pushed)
      /\ KindsOf(inbox') = KindsOf(inbox) \union (IF told THEN {answer} ELSE {})
      /\ RefusalsCarry'
  BY <1>1, <1>3, TellFacts
<1>5. lane' \in [by : {"nobody", "message", "other", "compact"},
                 stage : {"free", "created", "doomed", "agent", "announced"}]
  BY <1>1 DEF TypeOK
<1>6. TypeOK'
  BY <1>1, <1>2, <1>4, <1>5 DEF TypeOK, clientVars, historyVars
<1>7. Ordered'
  BY <1>1, TakeOrdered
<1>8. Listening'
  <2>1. SUFFICES ASSUME ~mute' PROVE Hearing' \/ Quiet'
    BY DEF Listening
  <2>2. CASE Hearing
    BY <1>4, <2>2, ByKinds, ByKindsNext DEF Hearing, Connected, clientVars
  <2>3. CASE Quiet
    <3>1. kind = "subscribe" /\ ~stopping'
      BY <1>2, <2>3 DEF Quiet
    <3>2. Open
      BY <1>2, <2>3, <3>1, ByKinds, NoKinds DEF Quiet, Connected
    <3>3. QED
      BY <1>4, <3>1, <3>2, ByKinds, ByKindsNext DEF Hearing, Connected, clientVars
  <2>4. QED
    BY <1>1, <2>1, <2>2, <2>3 DEF Listening, historyVars
<1>9. IsRunning /\ lane.stage # "announced" => IsRunning' /\ (lane.stage # "announced")'
  BY <1>1 DEF TypeOK, IsRunning, Free
<1>10. NothingStrands'
  BY <1>1, <1>2, <1>4, <1>9, ByKinds, ByKindsNext DEF NothingStrands, clientVars, historyVars
<1>11. QED
  BY <1>4, <1>6, <1>7, <1>8, <1>10 DEF IInv

LEMMA ServesInv ==
  ASSUME IInv, ServeSubscribe \/ ServeResume \/ ServeInterrupt \/ ServeCancel \/ ServeCompact
  PROVE  IInv'
<1>1. /\ {"subscribe", "resume", "interrupt", "cancel", "compact"} \subseteq RequestKinds \ {"send"}
      /\ subscribed \in BOOLEAN /\ Open \in BOOLEAN
      /\ TRUE \in BOOLEAN /\ FALSE \in BOOLEAN
      /\ Cancelled \in {lane, [lane EXCEPT !.stage = "doomed"]}
  BY DEF RequestKinds, IInv, TypeOK, Open, Cancelled
<1>2. CASE ServeSubscribe
  <2>1. /\ Take("subscribe") /\ subscribed' = TRUE
        /\ inbox' = IF Open THEN Append(inbox, Line("subscribed", None)) ELSE inbox
        /\ UNCHANGED <<clientVars, lane, stopping, extras, place, historyVars>>
    BY <1>2 DEF ServeSubscribe, Tell
  <2>2. QED
    BY <1>1, <2>1, ServeInv
<1>3. CASE ServeResume
  <2>1. /\ Take("resume")
        /\ inbox' = IF Open THEN Append(inbox, Line("resumed", None)) ELSE inbox
        /\ UNCHANGED <<clientVars, subscribed, lane, stopping, extras, place, historyVars>>
    BY <1>3 DEF ServeResume, Tell, daemonVars
  <2>2. QED
    BY <1>1, <2>1, ServeInv
<1>4. CASE ServeInterrupt
  <2>1. /\ Take("interrupt") /\ lane' = Cancelled
        /\ inbox' = IF FALSE THEN Append(inbox, Line("stopped", None)) ELSE inbox
        /\ UNCHANGED <<clientVars, subscribed, stopping, extras, place, historyVars>>
    BY <1>4 DEF ServeInterrupt
  <2>2. QED
    BY <1>1, <2>1, ServeInv
<1>5. CASE ServeCancel
  <2>1. /\ Take("cancel") /\ lane' = Cancelled
        /\ UNCHANGED <<clientVars, subscribed, extras, place, historyVars>>
    BY <1>5 DEF ServeCancel
  <2>2. CASE IsRunning
    <3>1. /\ stopping' = TRUE
          /\ inbox' = IF FALSE THEN Append(inbox, Line("stopped", None)) ELSE inbox
      BY <1>5, <2>2 DEF ServeCancel
    <3>2. QED
      BY <1>1, <2>1, <3>1, ServeInv
  <2>3. CASE ~IsRunning
    <3>1. /\ stopping' = stopping
          /\ inbox' = IF Open THEN Append(inbox, Line("stopped", None)) ELSE inbox
      BY <1>5, <2>3 DEF ServeCancel, Tell
    <3>2. QED
      BY <1>1, <2>1, <3>1, ServeInv
  <2>4. QED
    BY <2>2, <2>3
<1>6. CASE ServeCompact
  <2>1. /\ Take("compact")
        /\ \/ lane' = lane
           \/ lane = Free /\ lane' = [by |-> "compact", stage |-> "agent"]
        /\ inbox' = IF FALSE THEN Append(inbox, Line("stopped", None)) ELSE inbox
        /\ UNCHANGED <<clientVars, subscribed, stopping, extras, place, historyVars>>
    BY <1>6 DEF ServeCompact
  <2>2. QED
    BY <1>1, <2>1, ServeInv
<1>7. QED
  BY <1>2, <1>3, <1>4, <1>5, <1>6

\* A message is accepted and will have its turn, or its refusal is on its way.
LEMMA ServeSendInv == ASSUME IInv, ServeSend PROVE IInv'
<1>1. TypeOK /\ Ordered /\ RefusalsCarry /\ Listening /\ NothingStrands
  BY DEF IInv
<1>2. "send" \in RequestKinds /\ Take("send") /\ UNCHANGED <<clientVars, subscribed, stopping, extras, mute>>
  BY DEF ServeSend, RequestKinds
<1>3. /\ requests' \in Seq(Requests)
      /\ KindsOf(requests) = KindsOf(requests') \union {"send"}
      /\ requests # <<>> /\ requests' = Tail(requests) /\ Head(requests).kind = "send"
      /\ Head(requests) = requests[1] /\ 1 \in 1..Len(requests)
  BY <1>1, <1>2, TakeFacts
<1>4. Head(requests).msg \in Msgs /\ place[Head(requests).msg] # "fresh"
  BY <1>1, <1>3 DEF Ordered, LinesCarry, WireIsTyped
<1>5. ~mute => Hearing
  BY <1>1, <1>3 DEF Listening, Quiet
<1>6. CASE lane = Free
  <2>1. /\ lane' = [by |-> "message", stage |-> "created"]
        /\ place' = [place EXCEPT ![Head(requests).msg] = "accepted"]
        /\ turns' = Append(turns, Head(requests).msg)
        /\ UNCHANGED inbox
    BY <1>6 DEF ServeSend
  <2>2. TypeOK'
    BY <1>1, <1>2, <1>3, <1>4, <2>1 DEF TypeOK, clientVars, Places
  <2>3. /\ \A k \in Msgs : place[k] # "fresh" => place'[k] # "fresh"
        /\ \A k \in Msgs : place'[k] = "accepted" => place[k] = "accepted" \/ Head(requests).msg = k
    BY <1>1, <1>4, <2>1 DEF TypeOK
  <2>4. Ordered'
    BY <1>1, <1>3, <2>3, OrderedTakes
  <2>5. RefusalsCarry'
    BY <1>1, <2>1 DEF RefusalsCarry
  <2>6. Listening'
    BY <1>2, <1>5, <2>1, ByKinds, ByKindsNext DEF Listening, Hearing, Connected, clientVars
  <2>7. Announcing'
    BY <2>1, ByKindsNext DEF IsRunning, Free
  <2>8. QED
    BY <2>2, <2>4, <2>5, <2>6, <2>7 DEF IInv, NothingStrands
<1>7. CASE lane # Free
  <2>1. /\ inbox' = IF Open THEN Append(inbox, Line("refused", Head(requests).msg)) ELSE inbox
        /\ UNCHANGED <<lane, place, turns>>
    BY <1>7 DEF ServeSend, Tell
  <2>2. "refused" \in PushedKinds /\ Open \in BOOLEAN
    BY DEF PushedKinds, Open
  <2>3. /\ inbox' \in Seq(Pushed)
        /\ KindsOf(inbox') = KindsOf(inbox) \union (IF Open THEN {"refused"} ELSE {})
        /\ RefusalsCarry'
    BY <1>1, <1>4, <2>1, <2>2, TellFacts
  <2>4. TypeOK'
    BY <1>1, <1>2, <1>3, <2>1, <2>3 DEF TypeOK, clientVars
  <2>5. Ordered'
    BY <1>1, <1>2, <2>1, TakeOrdered
  <2>6. Listening'
    BY <1>2, <1>5, <2>3, ByKinds, ByKindsNext DEF Listening, Hearing, Connected, clientVars
  <2>7. ~mute' => InFlight'
    BY <1>2, <1>5, <2>3, ByKindsNext DEF Hearing
  <2>8. QED
    BY <2>3, <2>4, <2>5, <2>6, <2>7 DEF IInv, NothingStrands
<1>8. QED
  BY <1>6, <1>7

\* The lane goes on without a request, and may say something.
LEMMA LaneInv ==
  ASSUME IInv, NEW kind \in {"waiting", "closed", "stopped"}, NEW told \in BOOLEAN,
         inbox' = IF told THEN Append(inbox, Line(kind, None)) ELSE inbox,
         told => stopping \/ subscribed,
         lane' \in [by : {"nobody", "message", "other", "compact"},
                    stage : {"free", "created", "doomed", "agent", "announced"}],
         mute => mute', mute' \in BOOLEAN,
         stopping' \in {stopping, FALSE},
         extras' \in 0..MaxExtras,
         ~mute' /\ Hearing /\ IsRunning /\ lane.stage # "announced" =>
           (told /\ kind = "waiting") \/ (IsRunning' /\ (lane.stage # "announced")'),
         UNCHANGED <<clientVars, requests, subscribed, place, turns>>
  PROVE  IInv'
<1>1. TypeOK /\ Ordered /\ RefusalsCarry /\ Listening /\ NothingStrands
  BY DEF IInv
<1>2. kind \in PushedKinds /\ kind # "refused" /\ None \in Msgs \union {None}
      /\ kind \notin {"eof", "reset"}
  BY DEF PushedKinds
<1>3. /\ inbox' \in Seq(Pushed)
      /\ KindsOf(inbox') = KindsOf(inbox) \union (IF told THEN {kind} ELSE {})
      /\ RefusalsCarry'
  BY <1>1, <1>2, TellFacts
<1>4. TypeOK'
  BY <1>1, <1>3 DEF TypeOK, clientVars
<1>5. Ordered'
  <2>1. Onward /\ "resume" \in RequestKinds \ {"interrupt"}
    BY DEF Onward, RequestKinds
  <2>2. QED
    BY <1>1, <2>1, OrderedWrites
<1>6. Hearing => Hearing'
  BY <1>2, <1>3, ByKinds, ByKindsNext DEF Hearing, Connected, clientVars
<1>7. Quiet => Quiet'
  BY DEF Quiet, clientVars
<1>8. Listening'
  BY <1>1, <1>6, <1>7 DEF Listening
<1>9. NothingStrands'
  <2>1. SUFFICES ASSUME busy \/ queue # <<>>, ~mute' PROVE InFlight' \/ Announcing'
    BY DEF NothingStrands, clientVars
  <2>2. Hearing /\ (InFlight \/ Announcing)
    BY <1>1, <2>1 DEF NothingStrands, Listening, Quiet
  <2>3. QED
    BY <1>3, <2>1, <2>2, ByKinds, ByKindsNext DEF clientVars
<1>10. QED
  BY <1>3, <1>4, <1>5, <1>8, <1>9 DEF IInv

LEMMA RunsInv == ASSUME IInv, Runs PROVE IInv'
<1>1. /\ TypeOK
      /\ lane \in [by : {"nobody", "message", "other", "compact"},
                   stage : {"free", "created", "doomed", "agent", "announced"}]
      /\ extras \in 0..MaxExtras /\ mute \in BOOLEAN /\ subscribed \in BOOLEAN /\ Open \in BOOLEAN
      /\ TRUE \in BOOLEAN /\ FALSE \in BOOLEAN
  BY DEF IInv, TypeOK, Open
<1>2. CASE RunStarts
  <2>1. /\ lane.stage = "created" /\ lane' = [lane EXCEPT !.stage = "agent"]
        /\ inbox' = IF FALSE THEN Append(inbox, Line("stopped", None)) ELSE inbox
        /\ UNCHANGED <<clientVars, requests, subscribed, stopping, extras, place, turns, mute>>
    BY <1>2 DEF RunStarts, historyVars
  <2>2. IsRunning => IsRunning' /\ (lane.stage # "announced")'
    BY <1>1, <2>1 DEF IsRunning, Free
  <2>3. QED
    BY <1>1, <2>1, <2>2, LaneInv
<1>3. CASE RunAnnounces
  <2>1. /\ lane' = [lane EXCEPT !.stage = "announced"]
        /\ inbox' = IF Open /\ subscribed THEN Append(inbox, Line("waiting", None)) ELSE inbox
        /\ UNCHANGED <<clientVars, requests, subscribed, stopping, extras, place, turns, mute>>
    BY <1>3 DEF RunAnnounces, historyVars, Push
  <2>2. (Open /\ subscribed) \in BOOLEAN
    BY <1>1
  <2>3. Hearing => Open /\ subscribed
    BY DEF Hearing
  <2>4. QED
    BY <1>1, <2>1, <2>2, <2>3, LaneInv
<1>4. CASE LaneEnds
  <2>1. /\ \/ lane.stage \in {"announced", "doomed", "created"}
           \/ lane.stage = "agent" /\ ~IsRunning
        /\ mute' = (mute \/ lane.stage \in {"doomed", "created"})
        /\ lane' = Free /\ stopping' = FALSE
        /\ inbox' = IF stopping /\ Open THEN Append(inbox, Line("stopped", None)) ELSE inbox
        /\ UNCHANGED <<clientVars, requests, subscribed, extras, place, turns>>
    BY <1>4 DEF LaneEnds, Tell
  <2>2. (stopping /\ Open) \in BOOLEAN /\ mute' \in BOOLEAN /\ (mute => mute')
    BY <1>1, <2>1
  <2>3. ~mute' /\ IsRunning => lane.stage = "announced"
    BY <2>1
  <2>4. lane' \in [by : {"nobody", "message", "other", "compact"},
                   stage : {"free", "created", "doomed", "agent", "announced"}]
    BY <2>1 DEF Free
  <2>5. QED
    BY <1>1, <2>1, <2>2, <2>3, <2>4, LaneInv
<1>5. QED
  BY <1>2, <1>3, <1>4 DEF Runs

LEMMA OtherSendsInv == ASSUME IInv, OtherSends PROVE IInv'
<1>1. /\ lane = Free /\ extras' \in 0..MaxExtras
      /\ lane' = [by |-> "other", stage |-> "agent"]
      /\ inbox' = IF FALSE THEN Append(inbox, Line("stopped", None)) ELSE inbox
      /\ UNCHANGED <<clientVars, requests, subscribed, stopping, place, turns, mute>>
      /\ FALSE \in BOOLEAN /\ mute \in BOOLEAN
  BY ExtraFacts DEF OtherSends, historyVars, IInv, TypeOK
<1>2. ~IsRunning
  BY <1>1 DEF IsRunning
<1>3. lane' \in [by : {"nobody", "message", "other", "compact"},
                 stage : {"free", "created", "doomed", "agent", "announced"}]
  BY <1>1
<1>4. QED
  BY <1>1, <1>2, <1>3, LaneInv

LEMMA OtherSessionInv == ASSUME IInv, NEW kind \in {"waiting", "closed"}, OtherSession(kind) PROVE IInv'
<1>1. /\ subscribed /\ Open /\ extras' \in 0..MaxExtras
      /\ inbox' = IF Open /\ subscribed THEN Append(inbox, Line(kind, None)) ELSE inbox
      /\ UNCHANGED <<clientVars, requests, subscribed, lane, stopping, place, turns, mute>>
      /\ mute \in BOOLEAN
      /\ lane \in [by : {"nobody", "message", "other", "compact"},
                   stage : {"free", "created", "doomed", "agent", "announced"}]
  BY ExtraFacts DEF OtherSession, Push, daemonVars, historyVars, IInv, TypeOK
<1>2. (Open /\ subscribed) \in BOOLEAN
  BY <1>1
<1>3. IsRunning /\ lane.stage # "announced" => IsRunning' /\ (lane.stage # "announced")'
  BY <1>1 DEF IsRunning, Free
<1>4. QED
  BY <1>1, <1>2, <1>3, LaneInv

LEMMA LoseInv ==
  ASSUME IInv, NEW kind \in {"eof", "reset"}, NEW dies \in BOOLEAN, Lose(kind, dies)
  PROVE  IInv'
<1>1. TypeOK /\ RefusalsCarry
  BY DEF IInv
<1>2. /\ requests' = <<>> /\ Len(requests') = 0 /\ requests' \in Seq(Requests)
      /\ subscribed' = FALSE /\ lane' \in {Free, lane} /\ stopping' = FALSE /\ mute' = TRUE
      /\ inbox' = IF kind = "eof" THEN Append(inbox, Line("eof", None)) ELSE <<Line("reset", None)>>
      /\ extras' \in 0..MaxExtras
      /\ UNCHANGED <<clientVars, place, turns>>
  BY <1>1, ExtraFacts DEF Lose
<1>3. inbox' \in Seq(Pushed) /\ RefusalsCarry'
  <2>1. CASE kind = "eof"
    <3>1. /\ "eof" \in PushedKinds /\ TRUE \in BOOLEAN
          /\ inbox' = IF TRUE THEN Append(inbox, Line("eof", None)) ELSE inbox
      BY <1>2, <2>1 DEF PushedKinds
    <3>2. QED
      BY <1>1, <3>1, TellFacts
  <2>2. CASE kind = "reset"
    <3>1. /\ Line("reset", None) \in Pushed /\ Line("reset", None).kind = "reset"
          /\ inbox' = <<Line("reset", None)>>
      BY <1>2, <2>2 DEF Line, Pushed
    <3>2. /\ inbox' \in Seq(Pushed) /\ Len(inbox') = 1 /\ inbox'[1].kind = "reset"
      BY <3>1
    <3>3. QED
      BY <3>2 DEF RefusalsCarry
  <2>3. QED
    BY <2>1, <2>2
<1>4. lane' \in [by : {"nobody", "message", "other", "compact"},
                 stage : {"free", "created", "doomed", "agent", "announced"}]
  BY <1>1, <1>2 DEF TypeOK, Free
<1>5. TypeOK'
  BY <1>1, <1>2, <1>3, <1>4 DEF TypeOK, clientVars
<1>6. Ordered'
  BY <1>2, OrderedClears
<1>7. QED
  BY <1>2, <1>3, <1>5, <1>6 DEF IInv, Listening, NothingStrands

-----------------------------------------------------------------------------
(* The theorems.                                                           *)

LEMMA InitInv == Init => IInv
<1> SUFFICES ASSUME Init PROVE IInv
  OBVIOUS
<1>2. /\ requests = <<>> /\ inbox = <<>> /\ KindsOf(requests) = {}
      /\ \A i \in 1..Len(requests) : FALSE
      /\ \A i \in 1..Len(inbox) : FALSE
  <2>1. requests = <<>> /\ inbox = <<>>
    BY DEF Init
  <2>2. KindsOf(requests) = {}
    BY <2>1, NoKinds
  <2>3. /\ \A i \in 1..Len(requests) : FALSE
        /\ \A i \in 1..Len(inbox) : FALSE
    BY <2>1
  <2>4. QED
    BY <2>1, <2>2, <2>3
<1>3. TypeOK
  <2>1. extras \in 0..MaxExtras
    BY ClientAssumption DEF Init
  <2>2. place \in [Msgs -> Places]
    BY DEF Init, Places
  <2>3. /\ queue \in Seq(Msgs) /\ requests \in Seq(Requests) /\ inbox \in Seq(Pushed)
        /\ turns \in Seq(Msgs)
    BY DEF Init
  <2>4. QED
    BY <2>1, <2>2, <2>3 DEF Init, TypeOK, Free
<1>4. Ordered /\ RefusalsCarry
  BY <1>2 DEF Ordered, LinesCarry, WireIsTyped, InterruptsLead, InterruptSpares, RefusalsCarry
<1>5. Listening /\ NothingStrands
  <2>1. Quiet
    BY <1>2 DEF Init, Quiet
  <2>2. ~busy /\ queue = <<>>
    BY DEF Init
  <2>3. QED
    BY <2>1, <2>2 DEF Listening, NothingStrands
<1>6. QED
  BY <1>3, <1>4, <1>5 DEF IInv

LEMMA StepInv == ASSUME IInv, [Next]_vars PROVE IInv'
<1>1. TypeOK
  BY DEF IInv
<1>2. CASE \E m \in Msgs : Submit(m) \/ Interrupt(m) \/ SendFails(m)
  BY <1>2, SubmitInv, InterruptInv, SendFailsInv
<1>3. CASE CtrlC
  BY <1>3, CommandInv DEF CtrlC
<1>4. CASE Compact
  BY <1>1, <1>4, CommandInv DEF Compact, clientVars, TypeOK
<1>5. CASE Hears
  <2>1. CASE HearWaiting
    BY <2>1, HearWaitingInv
  <2>2. CASE HearClosed
    BY <1>1, <2>2, HearInv DEF HearClosed, PushedKinds, TypeOK
  <2>3. CASE HearRefused
    BY <1>1, <2>3, HearInv DEF HearRefused, PushedKinds, TypeOK
  <2>4. CASE HearStopped
    BY <1>1, <2>4, HearInv DEF HearStopped, PushedKinds, TypeOK
  <2>5. CASE HearSubscribed
    BY <1>1, <2>5, HearInv DEF HearSubscribed, PushedKinds, TypeOK
  <2>6. CASE HearResumed
    BY <1>1, <2>6, HearInv DEF HearResumed, PushedKinds, TypeOK
  <2>7. CASE HearEnd
    BY <2>7, HearEndInv
  <2>8. QED
    BY <1>5, <2>1, <2>2, <2>3, <2>4, <2>5, <2>6, <2>7 DEF Hears
<1>6. CASE Connect
  BY <1>6, ConnectInv
<1>7. CASE Serves
  BY <1>7, ServesInv, ServeSendInv DEF Serves
<1>8. CASE Runs
  BY <1>8, RunsInv
<1>9. CASE OtherSends
  BY <1>9, OtherSendsInv
<1>10. CASE \E kind \in {"waiting", "closed"} : OtherSession(kind)
  BY <1>10, OtherSessionInv
<1>11. CASE \E kind \in {"eof", "reset"}, dies \in BOOLEAN : Lose(kind, dies)
  BY <1>11, LoseInv
<1>12. CASE UNCHANGED vars
  <2>1. UNCHANGED <<link, prompt, pump, busy, queue, woken, requests, inbox, subscribed, lane,
                    stopping, extras, place, turns, mute>>
    BY <1>12 DEF vars, clientVars, daemonVars, historyVars
  <2>2. TypeOK'
    BY <1>1, <2>1 DEF TypeOK
  <2>3. Ordered' /\ RefusalsCarry'
    BY <2>1 DEF IInv, Ordered, LinesCarry, WireIsTyped, InterruptsLead, InterruptSpares, RefusalsCarry
  <2>4. Listening' /\ NothingStrands'
    BY <2>1, ByKinds, ByKindsNext
    DEF IInv, Listening, Hearing, Quiet, NothingStrands, IsRunning, Connected
  <2>5. QED
    BY <2>2, <2>3, <2>4 DEF IInv
<1>13. QED
  BY <1>2, <1>3, <1>4, <1>5, <1>6, <1>7, <1>8, <1>9, <1>10, <1>11, <1>12 DEF Next

LEMMA Invariance == Spec => []IInv
BY InitInv, StepInv, PTL DEF Spec

\* Every variable keeps its type: a line on the wire is a command, an answer or an event.
THEOREM TypeTheorem == Spec => []TypeOK
<1>1. IInv => TypeOK
  BY DEF IInv
<1>2. QED
  BY <1>1, Invariance, PTL

\* The cancellation of "/now m" never comes after m has been accepted, whatever is queued,
\* refused or lost in between.
THEOREM SparesTheorem == Spec => []InterruptSpares
<1>1. IInv => InterruptSpares
  BY DEF IInv, Ordered
<1>2. QED
  BY <1>1, Invariance, PTL

\* A terminal that is busy or holds messages back is owed an event or an answer, as long
\* as no connection was lost and no run ended without a word.
THEOREM StrandsTheorem == Spec => []NothingStrands
<1>1. IInv => NothingStrands
  BY DEF IInv
<1>2. QED
  BY <1>1, Invariance, PTL

-----------------------------------------------------------------------------
(* Who goes first.                                                         *)

\* <<a, i>> is a spot of m: it was accepted as the i-th, or its command is the i-th on
\* the wire, or it is the i-th in the queue.
IsAt(m, a, i) ==
  \/ a = 1 /\ i \in 1..Len(turns) /\ turns[i] = m
  \/ a = 2 /\ i \in 1..Len(requests) /\ requests[i].kind = "send" /\ requests[i].msg = m
  \/ a = 3 /\ i \in 1..Len(queue) /\ queue[i] = m

Earlier(a, i, b, j) == a < b \/ (a = b /\ i < j)

\* A message is in one spot, or in none, and in none before it is typed.
Placed ==
  \A m \in Msgs, a \in 1..3, i \in Nat : IsAt(m, a, i) =>
    /\ place[m] # "fresh"
    /\ \A b \in 1..3, j \in Nat : IsAt(m, b, j) => a = b /\ i = j

\* A step as the messages see it: the wire moves up by r places and the queue by q, the
\* first command on the wire may be accepted, the first in the queue may be sent, and a
\* message typed now may be put into <<fa, fi>>.
Moves(r, q, fa, fi) ==
  /\ \A m \in Msgs : place[m] # "fresh" => place'[m] # "fresh"
  /\ \A m \in Msgs, i \in Nat : IsAt(m, 1, i)' =>
       \/ IsAt(m, 1, i)
       \/ i = Len(turns) + 1 /\ r = 1 /\ IsAt(m, 2, 1)
  /\ \A m \in Msgs, i \in Nat : IsAt(m, 2, i)' =>
       \/ IsAt(m, 2, i + r)
       \/ i = Len(requests) + 1 /\ r = 0 /\ q = 1 /\ IsAt(m, 3, 1)
       \/ fa = 2 /\ i = fi /\ place[m] = "fresh" /\ place'[m] # "fresh"
  /\ \A m \in Msgs, i \in Nat : IsAt(m, 3, i)' =>
       \/ i + q \in Nat /\ IsAt(m, 3, i + q)
       \/ fa = 3 /\ i = fi /\ place[m] = "fresh" /\ place'[m] # "fresh"

Shifts == 0..1
QueueShifts == {-1, 0, 1}

LEMMA AtFacts ==
  ASSUME TypeOK, NEW m, NEW a \in 1..3, NEW i \in Nat, IsAt(m, a, i)
  PROVE  /\ i >= 1
         /\ a = 1 => i <= Len(turns)
         /\ a = 2 => i <= Len(requests)
         /\ Len(turns) \in Nat /\ Len(requests) \in Nat
BY DEF IsAt, TypeOK

LEMMA AtFactsNext ==
  ASSUME NEW m, NEW a \in 1..3, NEW i \in Nat, IsAt(m, a, i)'
  PROVE  i >= 1
BY DEF IsAt

\* Where a message comes from.
LEMMA Origin ==
  ASSUME TypeOK, Placed, NEW r \in Shifts, NEW q \in QueueShifts, NEW fa, NEW fi,
         Moves(r, q, fa, fi),
         NEW m \in Msgs, place[m] # "fresh", NEW a \in 1..3, NEW i \in Nat, IsAt(m, a, i)'
  PROVE  \/ a = 1 /\ IsAt(m, 1, i)
         \/ a = 1 /\ i = Len(turns) + 1 /\ r = 1 /\ IsAt(m, 2, 1)
         \/ a = 2 /\ IsAt(m, 2, i + r)
         \/ a = 2 /\ i = Len(requests) + 1 /\ r = 0 /\ q = 1 /\ IsAt(m, 3, 1)
         \/ a = 3 /\ i + q \in Nat /\ IsAt(m, 3, i + q)
BY DEF Moves

LEMMA KeepsPlaces ==
  ASSUME TypeOK, Placed, NEW r \in Shifts, NEW q \in QueueShifts, NEW fa, NEW fi,
         Moves(r, q, fa, fi)
  PROVE  Placed'
<1>1. SUFFICES ASSUME NEW m \in Msgs, NEW a \in 1..3, NEW i \in Nat, IsAt(m, a, i)'
               PROVE  /\ place'[m] # "fresh"
                      /\ \A b \in 1..3, j \in Nat : IsAt(m, b, j)' => a = b /\ i = j
  BY DEF Placed
<1>2. CASE place[m] = "fresh"
  <2>1. \A b \in 1..3, j \in Nat : ~IsAt(m, b, j)
    BY <1>2 DEF Placed
  <2>2. i + r \in Nat
    BY DEF Shifts
  <2>3. a = fa /\ i = fi /\ place'[m] # "fresh"
    BY <1>1, <2>1, <2>2 DEF Moves
  <2>4. ASSUME NEW b \in 1..3, NEW j \in Nat, IsAt(m, b, j)'
        PROVE  b = fa /\ j = fi
    <3>1. j + r \in Nat
      BY DEF Shifts
    <3>2. QED
      BY <2>1, <2>4, <3>1 DEF Moves
  <2>5. QED
    BY <2>3, <2>4
<1>3. CASE place[m] # "fresh"
  <2>1. place'[m] # "fresh"
    BY <1>3 DEF Moves
  <2>2. SUFFICES ASSUME NEW b \in 1..3, NEW j \in Nat, IsAt(m, b, j)'
                 PROVE  a = b /\ i = j
    BY <2>1
  <2>3. i >= 1 /\ j >= 1 /\ i + r \in Nat /\ j + r \in Nat /\ r \in {0, 1} /\ q \in {-1, 0, 1}
    BY <1>1, <2>2, AtFactsNext DEF Shifts, QueueShifts
  <2>4. \A c, d \in 1..3, k, l \in Nat : IsAt(m, c, k) /\ IsAt(m, d, l) => c = d /\ k = l
    BY DEF Placed
  <2>5. \A c \in 1..3, k \in Nat : IsAt(m, c, k) =>
          /\ k >= 1
          /\ c = 1 => k <= Len(turns)
          /\ c = 2 => k <= Len(requests)
          /\ Len(turns) \in Nat /\ Len(requests) \in Nat
    BY AtFacts
  <2>6. \/ a = 1 /\ IsAt(m, 1, i)
        \/ a = 1 /\ i = Len(turns) + 1 /\ r = 1 /\ IsAt(m, 2, 1)
        \/ a = 2 /\ IsAt(m, 2, i + r)
        \/ a = 2 /\ i = Len(requests) + 1 /\ r = 0 /\ q = 1 /\ IsAt(m, 3, 1)
        \/ a = 3 /\ i + q \in Nat /\ IsAt(m, 3, i + q)
    BY <1>1, <1>3, Origin
  <2>7. \/ b = 1 /\ IsAt(m, 1, j)
        \/ b = 1 /\ j = Len(turns) + 1 /\ r = 1 /\ IsAt(m, 2, 1)
        \/ b = 2 /\ IsAt(m, 2, j + r)
        \/ b = 2 /\ j = Len(requests) + 1 /\ r = 0 /\ q = 1 /\ IsAt(m, 3, 1)
        \/ b = 3 /\ j + q \in Nat /\ IsAt(m, 3, j + q)
    BY <1>3, <2>2, Origin
  <2>8. QED
    BY <2>3, <2>4, <2>5, <2>6, <2>7
<1>4. QED
  BY <1>2, <1>3

\* The lines are as long as T and R: two messages that were in an order are in it still.
LEMMA StillBefore ==
  ASSUME NEW T \in Nat, NEW R \in Nat, NEW r \in {0, 1}, NEW q \in {-1, 0, 1},
         NEW a \in Int, NEW i \in Int, NEW b \in Int, NEW j \in Int,
         NEW a2 \in Int, NEW i2 \in Int, NEW b2 \in Int, NEW j2 \in Int,
         i >= 1, j >= 1, i2 >= 1, j2 >= 1,
         a = 1 => i <= T, a = 2 => i <= R, b = 1 => j <= T, b = 2 => j <= R,
         \/ a2 = 1 /\ a = 1 /\ i = i2
         \/ a2 = 1 /\ i2 = T + 1 /\ r = 1 /\ a = 2 /\ i = 1
         \/ a2 = 2 /\ a = 2 /\ i = i2 + r
         \/ a2 = 2 /\ i2 = R + 1 /\ r = 0 /\ q = 1 /\ a = 3 /\ i = 1
         \/ a2 = 3 /\ a = 3 /\ i = i2 + q,
         \/ b2 = 1 /\ b = 1 /\ j = j2
         \/ b2 = 1 /\ j2 = T + 1 /\ r = 1 /\ b = 2 /\ j = 1
         \/ b2 = 2 /\ b = 2 /\ j = j2 + r
         \/ b2 = 2 /\ j2 = R + 1 /\ r = 0 /\ q = 1 /\ b = 3 /\ j = 1
         \/ b2 = 3 /\ b = 3 /\ j = j2 + q,
         a < b \/ (a = b /\ i < j)
  PROVE  a2 < b2 \/ (a2 = b2 /\ i2 < j2)
<1>0. r = 0 \/ r = 1
  OBVIOUS
<1>1. QED
  BY <1>0

\* Nobody passes anybody.
LEMMA KeepsOrder ==
  ASSUME TypeOK, Placed, NEW r \in Shifts, NEW q \in QueueShifts, NEW fa, NEW fi,
         Moves(r, q, fa, fi),
         NEW m \in Msgs, NEW a \in 1..3, NEW i \in Nat, IsAt(m, a, i),
         NEW n \in Msgs, NEW b \in 1..3, NEW j \in Nat, IsAt(n, b, j),
         Earlier(a, i, b, j),
         NEW a2 \in 1..3, NEW i2 \in Nat, IsAt(m, a2, i2)',
         NEW b2 \in 1..3, NEW j2 \in Nat, IsAt(n, b2, j2)'
  PROVE  Earlier(a2, i2, b2, j2)
<1>1. place[m] # "fresh" /\ place[n] # "fresh"
  BY DEF Placed
<1>2. /\ i2 >= 1 /\ j2 >= 1 /\ i2 + r \in Nat /\ j2 + r \in Nat
      /\ r \in {0, 1} /\ q \in {-1, 0, 1}
  BY AtFactsNext DEF Shifts, QueueShifts
<1>3. \A c \in 1..3, k \in Nat : IsAt(m, c, k) => a = c /\ i = k
  BY DEF Placed
<1>4. \A c \in 1..3, k \in Nat : IsAt(n, c, k) => b = c /\ j = k
  BY DEF Placed
<1>5. /\ i >= 1 /\ j >= 1
      /\ a = 1 => i <= Len(turns)
      /\ a = 2 => i <= Len(requests)
      /\ b = 1 => j <= Len(turns)
      /\ b = 2 => j <= Len(requests)
      /\ Len(turns) \in Nat /\ Len(requests) \in Nat
  BY AtFacts
<1>6. \/ a2 = 1 /\ a = 1 /\ i = i2
      \/ a2 = 1 /\ i2 = Len(turns) + 1 /\ r = 1 /\ a = 2 /\ i = 1
      \/ a2 = 2 /\ a = 2 /\ i = i2 + r
      \/ a2 = 2 /\ i2 = Len(requests) + 1 /\ r = 0 /\ q = 1 /\ a = 3 /\ i = 1
      \/ a2 = 3 /\ a = 3 /\ i = i2 + q
  BY <1>1, <1>2, <1>3, Origin
<1>7. \/ b2 = 1 /\ b = 1 /\ j = j2
      \/ b2 = 1 /\ j2 = Len(turns) + 1 /\ r = 1 /\ b = 2 /\ j = 1
      \/ b2 = 2 /\ b = 2 /\ j = j2 + r
      \/ b2 = 2 /\ j2 = Len(requests) + 1 /\ r = 0 /\ q = 1 /\ b = 3 /\ j = 1
      \/ b2 = 3 /\ b = 3 /\ j = j2 + q
  BY <1>1, <1>2, <1>4, Origin
<1>8. /\ i2 \in Int /\ j2 \in Int /\ i \in Int /\ j \in Int
      /\ a \in Int /\ b \in Int /\ a2 \in Int /\ b2 \in Int
  OBVIOUS
<1>9. a < b \/ (a = b /\ i < j)
  BY DEF Earlier
<1>10. a2 < b2 \/ (a2 = b2 /\ i2 < j2)
  BY ONLY <1>2, <1>5, <1>6, <1>7, <1>8, <1>9, StillBefore
<1>11. QED
  BY <1>10 DEF Earlier

\* Ahead, spot by spot.
LEMMA AheadAt ==
  ASSUME NEW m, NEW n, Ahead(m, n)
  PROVE  \E a, b \in 1..3, i, j \in Nat : IsAt(m, a, i) /\ IsAt(n, b, j) /\ Earlier(a, i, b, j)
<1>1. PICK p \in Spots(m), q \in Spots(n) : p[1] < q[1] \/ (p[1] = q[1] /\ p[2] < q[2])
  BY DEF Ahead
<1>2. \A k : \A s \in Spots(k) : s[1] \in 1..3 /\ s[2] \in Nat /\ IsAt(k, s[1], s[2])
  BY DEF Spots, IsAt
<1>3. QED
  BY <1>1, <1>2 DEF Earlier

LEMMA AheadAtNext ==
  ASSUME NEW m, NEW n, Ahead(m, n)'
  PROVE  \E a, b \in 1..3, i, j \in Nat :
           IsAt(m, a, i)' /\ IsAt(n, b, j)' /\ Earlier(a, i, b, j)
<1>1. PICK p \in Spots(m)', q \in Spots(n)' : p[1] < q[1] \/ (p[1] = q[1] /\ p[2] < q[2])
  BY DEF Ahead
<1>2. \A k : \A s \in Spots(k)' : s[1] \in 1..3 /\ s[2] \in Nat /\ IsAt(k, s[1], s[2])'
  BY DEF Spots, IsAt
<1>3. QED
  BY <1>1, <1>2 DEF Earlier

LEMMA NobodyPasses ==
  ASSUME TypeOK, Placed, NEW r \in Shifts, NEW q \in QueueShifts, NEW fa, NEW fi,
         Moves(r, q, fa, fi), NEW m \in Msgs, NEW n \in Msgs, Ahead(m, n), Ahead(n, m)'
  PROVE  FALSE
<1>1. PICK a \in 1..3, b \in 1..3, i \in Nat, j \in Nat :
        IsAt(m, a, i) /\ IsAt(n, b, j) /\ Earlier(a, i, b, j)
  BY AheadAt
<1>2. PICK a2 \in 1..3, b2 \in 1..3, i2 \in Nat, j2 \in Nat :
        IsAt(m, a2, i2)' /\ IsAt(n, b2, j2)' /\ Earlier(b2, j2, a2, i2)
  BY AheadAtNext
<1>3. Earlier(a2, i2, b2, j2)
  BY <1>1, <1>2, KeepsOrder
<1>4. QED
  BY <1>2, <1>3 DEF Earlier
-----------------------------------------------------------------------------
(* Every step is such a move.                                              *)

Moving == \E r \in Shifts, q \in QueueShifts, fa \in 0..3, fi \in Nat : Moves(r, q, fa, fi)

StaysTyped == \A m \in Msgs : place[m] # "fresh" => place'[m] # "fresh"

LEMMA ByMove ==
  ASSUME NEW r \in Shifts, NEW q \in QueueShifts, NEW fa \in 0..3, NEW fi \in Nat,
         Moves(r, q, fa, fi)
  PROVE  Moving
BY DEF Moving

\* No message goes anywhere, except off the wire.
LEMMA MovesNothing ==
  ASSUME TypeOK, StaysTyped, UNCHANGED <<turns, queue>>,
         \A i \in 1..Len(requests') :
           requests'[i].kind = "send" => i \in 1..Len(requests) /\ requests'[i] = requests[i]
  PROVE  Moving
<1>1. \A m \in Msgs, i \in Nat : i + 0 = i
  OBVIOUS
<1>2. Moves(0, 0, 0, 0)
  BY <1>1 DEF Moves, IsAt, StaysTyped
<1>3. QED
  BY <1>2, ByMove DEF Shifts, QueueShifts

LEMMA MovesWriting ==
  ASSUME TypeOK, StaysTyped, UNCHANGED <<turns, queue>>,
         NEW kind \in RequestKinds, kind # "send", NEW m \in Msgs \union {None},
         requests' \in {requests, Written(kind, m)}
  PROVE  Moving
<1>1. Line(kind, m).kind = kind
  BY DEF Line
<1>2. \A i \in 1..Len(requests') :
        requests'[i].kind = "send" => i \in 1..Len(requests) /\ requests'[i] = requests[i]
  BY <1>1, WrittenFacts
<1>3. QED
  BY <1>2, MovesNothing

LEMMA MovesStill ==
  ASSUME TypeOK, StaysTyped, UNCHANGED <<turns, queue, requests>>
  PROVE  Moving
BY MovesNothing

\* The daemon takes a line; if it is a message, it is accepted or refused.
LEMMA MovesTaking ==
  ASSUME TypeOK, StaysTyped, UNCHANGED queue, requests # <<>>, requests' = Tail(requests),
         \/ turns' = turns
         \/ Head(requests).kind = "send" /\ turns' = Append(turns, Head(requests).msg)
  PROVE  Moving
<1>1. /\ 1 \in 1..Len(requests) /\ Head(requests) = requests[1]
      /\ \A i \in 1..Len(requests') : i + 1 \in 1..Len(requests) /\ requests'[i] = requests[i + 1]
  BY TailKinds DEF TypeOK
<1>2. \A i \in 1..Len(turns') :
        \/ i \in 1..Len(turns) /\ turns'[i] = turns[i]
        \/ i = Len(turns) + 1 /\ Head(requests).kind = "send" /\ turns'[i] = Head(requests).msg
  <2>1. CASE turns' = turns
    BY <2>1
  <2>2. CASE Head(requests).kind = "send" /\ turns' = Append(turns, Head(requests).msg)
    <3>1. turns \in Seq(Msgs)
      BY DEF TypeOK
    <3>2. QED
      BY <2>2, <3>1
  <2>3. QED
    BY <2>1, <2>2
<1>3. \A m \in Msgs, i \in Nat : IsAt(m, 1, i)' =>
        \/ IsAt(m, 1, i)
        \/ i = Len(turns) + 1 /\ IsAt(m, 2, 1)
  BY <1>1, <1>2 DEF IsAt
<1>4. \A m \in Msgs, i \in Nat : IsAt(m, 2, i)' => IsAt(m, 2, i + 1)
  BY <1>1 DEF IsAt
<1>5. \A m \in Msgs, i \in Nat : IsAt(m, 3, i)' => i + 0 \in Nat /\ IsAt(m, 3, i + 0)
  BY DEF IsAt
<1>6. Moves(1, 0, 0, 0)
  BY <1>3, <1>4, <1>5 DEF Moves, StaysTyped
<1>7. QED
  BY <1>6, ByMove DEF Shifts, QueueShifts

\* The first message in the queue is sent, or lost.
LEMMA MovesSending ==
  ASSUME TypeOK, StaysTyped, UNCHANGED turns, queue # <<>>, queue' = Tail(queue),
         requests' = Written("send", Head(queue))
  PROVE  Moving
<1>1. queue \in Seq(Msgs) /\ Head(queue) = queue[1] /\ Head(queue) \in Msgs /\ 1 \in 1..Len(queue)
  BY DEF TypeOK
<1>2. \A i \in 1..Len(queue') : i + 1 \in 1..Len(queue) /\ queue'[i] = queue[i + 1]
  BY <1>1
<1>3. "send" \in RequestKinds /\ Line("send", Head(queue)).msg = Head(queue)
  BY DEF RequestKinds, Line
<1>4. \A i \in 1..Len(requests') :
        \/ i \in 1..Len(requests) /\ requests'[i] = requests[i]
        \/ i = Len(requests) + 1 /\ requests'[i] = Line("send", Head(queue))
  BY <1>1, <1>3, WrittenFacts
<1>5. \A m \in Msgs, i \in Nat : IsAt(m, 1, i)' => IsAt(m, 1, i)
  BY DEF IsAt
<1>6. \A m \in Msgs, i \in Nat : IsAt(m, 2, i)' =>
        \/ IsAt(m, 2, i + 0)
        \/ i = Len(requests) + 1 /\ IsAt(m, 3, 1)
  BY <1>1, <1>3, <1>4 DEF IsAt
<1>7. \A m \in Msgs, i \in Nat : IsAt(m, 3, i)' => i + 1 \in Nat /\ IsAt(m, 3, i + 1)
  BY <1>2 DEF IsAt
<1>8. Moves(0, 1, 0, 0)
  BY <1>5, <1>6, <1>7 DEF Moves, StaysTyped
<1>9. QED
  BY <1>8, ByMove DEF Shifts, QueueShifts

\* The client is told of the end of a run, or of a refusal.
LEMMA MovesOnward ==
  ASSUME TypeOK, UNCHANGED turns, NEW p \in [Msgs -> Places],
         \A m \in Msgs : place[m] # "fresh" => p[m] # "fresh",
         SendNext(p)
  PROVE  Moving
<1>1. CASE queue = <<>>
  BY <1>1, MovesStill DEF SendNext, StaysTyped
<1>2. CASE queue # <<>>
  <2>1. /\ queue' = Tail(queue) /\ requests' = Written("send", Head(queue))
        /\ place' = [p EXCEPT ![Head(queue)] = IF Connected THEN "sent" ELSE "lost"]
    BY <1>2 DEF SendNext, Transmit
  <2>2. StaysTyped
    BY <2>1 DEF StaysTyped
  <2>3. QED
    BY <1>2, <2>1, <2>2, MovesSending
<1>3. QED
  BY <1>1, <1>2

\* A message is typed: it goes to the end of the wire or of the queue, or in front of
\* the queue when it interrupts.
LEMMA SubmitMoves == ASSUME TypeOK, NEW m \in Msgs, Submit(m) PROVE Moving
<1>1. place[m] = "fresh" /\ UNCHANGED turns /\ place \in [Msgs -> Places]
  BY DEF Submit, Typed, TypeOK
<1>2. \A k \in Msgs, i \in Nat : IsAt(k, 1, i)' => IsAt(k, 1, i)
  BY <1>1 DEF IsAt
<1>3. CASE busy
  <2>1. /\ queue' = Append(queue, m) /\ place' = [place EXCEPT ![m] = "queued"]
        /\ UNCHANGED requests
    BY <1>3 DEF Submit
  <2>2. StaysTyped /\ place'[m] # "fresh"
    BY <1>1, <2>1 DEF StaysTyped
  <2>3. queue \in Seq(Msgs) /\ Len(queue) + 1 \in Nat
    BY DEF TypeOK
  <2>4. \A i \in 1..Len(queue') :
          \/ i \in 1..Len(queue) /\ queue'[i] = queue[i]
          \/ i = Len(queue) + 1 /\ queue'[i] = m
    BY <2>1, <2>3
  <2>5. \A k \in Msgs, i \in Nat : IsAt(k, 3, i)' =>
          \/ i + 0 \in Nat /\ IsAt(k, 3, i + 0)
          \/ i = Len(queue) + 1 /\ k = m
    BY <2>4 DEF IsAt
  <2>6. \A k \in Msgs, i \in Nat : IsAt(k, 2, i)' => IsAt(k, 2, i + 0)
    BY <2>1 DEF IsAt
  <2>7. Moves(0, 0, 3, Len(queue) + 1)
    BY <1>1, <1>2, <2>2, <2>5, <2>6 DEF Moves, StaysTyped
  <2>8. QED
    BY <2>3, <2>7, ByMove DEF Shifts, QueueShifts
<1>4. CASE ~busy
  <2>1. /\ UNCHANGED queue /\ requests' = Written("send", m)
        /\ place' = [place EXCEPT ![m] = IF Connected THEN "sent" ELSE "lost"]
    BY <1>4 DEF Submit, Transmit
  <2>2. StaysTyped /\ place'[m] # "fresh"
    BY <1>1, <2>1 DEF StaysTyped
  <2>3. Len(requests) + 1 \in Nat
    BY DEF TypeOK
  <2>4. \A i \in 1..Len(requests') :
          \/ i \in 1..Len(requests) /\ requests'[i] = requests[i]
          \/ i = Len(requests) + 1 /\ requests'[i] = Line("send", m)
    BY <2>1, WrittenFacts DEF RequestKinds
  <2>5. \A k \in Msgs, i \in Nat : IsAt(k, 2, i)' =>
          \/ IsAt(k, 2, i + 0)
          \/ i = Len(requests) + 1 /\ k = m
    BY <2>4 DEF IsAt, Line
  <2>6. \A k \in Msgs, i \in Nat : IsAt(k, 3, i)' => i + 0 \in Nat /\ IsAt(k, 3, i + 0)
    BY <2>1 DEF IsAt
  <2>7. Moves(0, 0, 2, Len(requests) + 1)
    BY <1>1, <1>2, <2>2, <2>5, <2>6 DEF Moves, StaysTyped
  <2>8. QED
    BY <2>3, <2>7, ByMove DEF Shifts, QueueShifts
<1>5. QED
  BY <1>3, <1>4

LEMMA InterruptMoves == ASSUME TypeOK, NEW m \in Msgs, Interrupt(m) PROVE Moving
<1>1. /\ place[m] = "fresh" /\ UNCHANGED turns /\ place \in [Msgs -> Places]
      /\ queue' = <<m>> \o queue /\ queue \in Seq(Msgs)
      /\ place' = [place EXCEPT ![m] = "queued"] /\ requests' = Written("interrupt", m)
  BY DEF Interrupt, Typed, TypeOK, historyVars
<1>2. StaysTyped /\ place'[m] # "fresh"
  BY <1>1 DEF StaysTyped
<1>3. \A k \in Msgs, i \in Nat : IsAt(k, 1, i)' => IsAt(k, 1, i)
  BY <1>1 DEF IsAt
<1>4. \A i \in 1..Len(requests') :
        \/ i \in 1..Len(requests) /\ requests'[i] = requests[i]
        \/ requests'[i] = Line("interrupt", m)
  BY <1>1, WrittenFacts DEF RequestKinds
<1>5. \A k \in Msgs, i \in Nat : IsAt(k, 2, i)' => IsAt(k, 2, i + 0)
  BY <1>4 DEF IsAt, Line
<1>6. \A i \in 1..Len(queue') :
        \/ i = 1 /\ queue'[i] = m
        \/ i + (-1) \in 1..Len(queue) /\ queue'[i] = queue[i + (-1)]
  BY <1>1
<1>7. \A k \in Msgs, i \in Nat : IsAt(k, 3, i)' =>
        \/ i + (-1) \in Nat /\ IsAt(k, 3, i + (-1))
        \/ i = 1 /\ k = m
  BY <1>6 DEF IsAt
<1>8. Moves(0, -1, 3, 1)
  BY <1>1, <1>2, <1>3, <1>5, <1>7 DEF Moves, StaysTyped
<1>9. QED
  BY <1>8, ByMove DEF Shifts, QueueShifts

LEMMA ServeMoves == ASSUME TypeOK, Serves PROVE Moving
<1>1. CASE ServeSend
  <2>1. requests # <<>> /\ requests' = Tail(requests) /\ Head(requests).kind = "send"
    BY <1>1 DEF ServeSend, Take
  <2>2. UNCHANGED queue
    BY <1>1 DEF ServeSend, clientVars
  <2>3. CASE lane = Free
    <3>1. /\ place' = [place EXCEPT ![Head(requests).msg] = "accepted"]
          /\ turns' = Append(turns, Head(requests).msg)
      BY <1>1, <2>3 DEF ServeSend
    <3>2. StaysTyped
      BY <3>1 DEF StaysTyped, TypeOK
    <3>3. QED
      BY <2>1, <2>2, <3>1, <3>2, MovesTaking
  <2>4. CASE lane # Free
    <3>1. UNCHANGED <<place, turns>>
      BY <1>1, <2>4 DEF ServeSend
    <3>2. QED
      BY <2>1, <2>2, <3>1, MovesTaking DEF StaysTyped
  <2>5. QED
    BY <2>3, <2>4
<1>2. ASSUME NEW kind \in RequestKinds, Take(kind), UNCHANGED <<clientVars, place, turns>>
      PROVE  Moving
  <2>1. requests # <<>> /\ requests' = Tail(requests) /\ StaysTyped /\ UNCHANGED queue
    BY <1>2 DEF Take, StaysTyped, clientVars
  <2>2. QED
    BY <1>2, <2>1, MovesTaking
<1>3. CASE ServeSubscribe
  BY <1>2, <1>3 DEF ServeSubscribe, RequestKinds, historyVars
<1>4. CASE ServeResume
  BY <1>2, <1>4 DEF ServeResume, RequestKinds, historyVars
<1>5. CASE ServeInterrupt
  BY <1>2, <1>5 DEF ServeInterrupt, RequestKinds, historyVars
<1>6. CASE ServeCancel
  BY <1>2, <1>6 DEF ServeCancel, RequestKinds, historyVars
<1>7. CASE ServeCompact
  BY <1>2, <1>7 DEF ServeCompact, RequestKinds, historyVars
<1>8. QED
  BY <1>1, <1>3, <1>4, <1>5, <1>6, <1>7 DEF Serves

LEMMA HearMoves == ASSUME TypeOK, Hears PROVE Moving
<1>1. CASE HearWaiting
  BY <1>1, MovesOnward DEF HearWaiting, TypeOK
<1>2. CASE HearClosed
  BY <1>2, MovesStill DEF HearClosed, StaysTyped, historyVars
<1>3. CASE HearRefused
  BY <1>3, MovesStill DEF HearRefused, StaysTyped, historyVars
<1>4. CASE HearStopped
  BY <1>4, MovesStill DEF HearStopped, StaysTyped, historyVars
<1>5. CASE HearSubscribed
  <2>1. requests' = Written("resume", None) /\ UNCHANGED <<turns, queue, place>>
    BY <1>5 DEF HearSubscribed, historyVars
  <2>2. QED
    BY <2>1, MovesWriting DEF StaysTyped, RequestKinds
<1>6. CASE HearResumed
  BY <1>6, MovesStill DEF HearResumed, StaysTyped, historyVars
<1>7. CASE HearEnd
  <2>1. /\ UNCHANGED <<turns, queue, requests>>
        /\ place' = [m \in Msgs |-> IF place[m] = "sent" /\ m \notin woken THEN "lost" ELSE place[m]]
    BY <1>7 DEF HearEnd, historyVars
  <2>2. StaysTyped
    BY <2>1 DEF StaysTyped
  <2>3. QED
    BY <2>1, <2>2, MovesStill
<1>8. QED
  BY <1>1, <1>2, <1>3, <1>4, <1>5, <1>6, <1>7 DEF Hears

LEMMA StepMoves == ASSUME TypeOK, [Next]_vars PROVE Moving
<1>1. ASSUME NEW m \in Msgs, SendFails(m) PROVE Moving
  <2>1. /\ [place EXCEPT ![m] = "refused"] \in [Msgs -> Places]
        /\ \A k \in Msgs : place[k] # "fresh" => [place EXCEPT ![m] = "refused"][k] # "fresh"
    BY DEF TypeOK, Places
  <2>2. QED
    BY <1>1, <2>1, MovesOnward DEF SendFails
<1>2. CASE CtrlC
  <2>1. requests' = Written("cancel", None) /\ UNCHANGED <<turns, queue, place>>
    BY <1>2 DEF CtrlC, historyVars
  <2>2. QED
    BY <2>1, MovesWriting DEF StaysTyped, RequestKinds
<1>3. CASE Compact
  <2>1. requests' = Written("compact", None) /\ UNCHANGED <<turns, queue, place>>
    BY <1>3 DEF Compact, clientVars, historyVars
  <2>2. QED
    BY <2>1, MovesWriting DEF StaysTyped, RequestKinds
<1>4. CASE Connect
  <2>1. requests' = <<Line("subscribe", None)>> /\ UNCHANGED <<turns, queue, place>>
    BY <1>4 DEF Connect, historyVars
  <2>2. \A i \in 1..Len(requests') : requests'[i].kind # "send"
    BY <2>1 DEF Line
  <2>3. QED
    BY <2>1, <2>2, MovesNothing DEF StaysTyped
<1>5. CASE Runs
  BY <1>5, MovesStill
  DEF Runs, RunStarts, RunAnnounces, LaneEnds, StaysTyped, clientVars, historyVars
<1>6. CASE OtherSends
  BY <1>6, MovesStill DEF OtherSends, StaysTyped, clientVars, historyVars
<1>7. ASSUME NEW kind \in {"waiting", "closed"}, OtherSession(kind) PROVE Moving
  BY <1>7, MovesStill DEF OtherSession, StaysTyped, clientVars, historyVars
<1>8. ASSUME NEW kind \in {"eof", "reset"}, NEW dies \in BOOLEAN, Lose(kind, dies) PROVE Moving
  <2>1. requests' = <<>> /\ UNCHANGED <<turns, queue, place>>
    BY <1>8 DEF Lose, clientVars
  <2>2. QED
    BY <2>1, MovesNothing DEF StaysTyped
<1>9. CASE UNCHANGED vars
  BY <1>9, MovesStill DEF vars, StaysTyped, clientVars, historyVars
<1>10. QED
  BY <1>1, <1>2, <1>3, <1>4, <1>5, <1>6, <1>7, <1>8, <1>9,
     SubmitMoves, InterruptMoves, HearMoves, ServeMoves DEF Next

LEMMA InitPlaced == Init => Placed
BY DEF Init, Placed, IsAt

LEMMA StepPlaced == ASSUME TypeOK, Placed, [Next]_vars PROVE Placed'
BY StepMoves, KeepsPlaces DEF Moving

LEMMA PlacedAlways == Spec => []Placed
<1>1. Init => Placed
  BY InitPlaced
<1>2. TypeOK /\ Placed /\ [Next]_vars => Placed'
  BY StepPlaced
<1>3. QED
  BY <1>1, <1>2, TypeTheorem, PTL DEF Spec

\* However the messages typed into a terminal are queued, sent, interrupted, refused or
\* lost with their connection (on_chat_text_area_submitted, _send_next_queued_message,
\* session.send_message), none of them overtakes another one, and none is taken twice.
THEOREM OvertakingTheorem == Spec => NoOvertaking
<1>1. TypeOK /\ Placed /\ [Next]_vars => [\A m, n \in Msgs : Ahead(m, n) => ~Ahead(n, m)']_vars
  BY StepMoves, NobodyPasses DEF Moving
<1>2. QED
  BY <1>1, TypeTheorem, PlacedAlways, PTL DEF Spec, NoOvertaking

=============================================================================
