--------------------------- MODULE TerminalClient ---------------------------
(***************************************************************************)
(* The terminal client (tui/app.py over transport/socket_client.py) and    *)
(* the one session of the daemon it talks to.  The client has one busy     *)
(* flag and one queue of messages typed while the flag was up; whatever    *)
(* says session.waiting_for_input takes the flag down and sends the next   *)
(* message.  "/now x" puts x at the head of the queue and cancels the run. *)
(* Between the two are a connection that can be lost, a daemon that can    *)
(* die, other sessions and other users of the same session.                *)
(*                                                                         *)
(* The terminal is the one of "kama-tui --session": its session is known   *)
(* and can be resumed.  Of the events it draws, only those that change     *)
(* busy, the queue or the prompt are here; permission prompts are not.     *)
(* A command is written by a worker that starts in the order the workers   *)
(* were made (asyncio), so it is on the wire when the worker is made.      *)
(***************************************************************************)
EXTENDS Naturals, Sequences, FiniteSets

CONSTANTS
  MaxMsgs,    \* bound on the messages the user types
  MaxExtras   \* bound on what others do: lost links, other runs, events, interrupts

ASSUME ClientAssumption == MaxMsgs \in Nat /\ MaxExtras \in Nat

\* Messages, numbered in the order in which they are typed.
Msgs == 1..MaxMsgs
None == 0    \* on lines that carry no message

VARIABLES
  \* the client
  link,       \* _socket_loop: "down", "subscribing", "resuming", "up", or "gone" for good
  prompt,     \* the prompt takes input
  pump,       \* FALSE while Ctrl+C waits for its answer inside the message pump
  busy,       \* _busy
  queue,      \* _queued_messages
  woken,      \* sends whose refusal has arrived and whose worker has not resumed
  \* the wire
  requests,   \* command lines to the daemon
  inbox,      \* responses and events to the client
  \* the daemon
  subscribed, \* the connection has a subscription
  lane,       \* what holds the session: a run, a compaction, or nothing
  stopping,   \* a handler of Ctrl+C waits for the cancelled task
  extras,
  \* history
  place,      \* where each message is
  turns,      \* the messages the daemon accepted
  mute        \* a run may have ended, or a message been lost, without the client being told

clientVars == <<link, prompt, pump, busy, queue, woken>>
daemonVars == <<subscribed, lane, stopping>>
historyVars == <<turns, mute>>
vars == <<clientVars, requests, inbox, daemonVars, extras, place, historyVars>>

Places == {"fresh", "queued", "sent", "accepted", "refused", "lost"}
Free == [by |-> "nobody", stage |-> "free"]
Line(kind, m) == [kind |-> kind, msg |-> m]
Requests == [kind : {"subscribe", "resume", "send", "cancel", "interrupt", "compact"}, msg : Msgs \union {None}]
Pushed == [kind : {"subscribed", "resumed", "refused", "stopped", "waiting", "closed", "eof", "reset"},
           msg : Msgs \union {None}]

TypeOK ==
  /\ link \in {"down", "subscribing", "resuming", "up", "gone"}
  /\ prompt \in BOOLEAN /\ pump \in BOOLEAN /\ busy \in BOOLEAN
  /\ queue \in Seq(Msgs)
  /\ woken \subseteq Msgs
  /\ requests \in Seq(Requests)
  /\ inbox \in Seq(Pushed)
  /\ subscribed \in BOOLEAN /\ stopping \in BOOLEAN
  /\ lane \in [by : {"nobody", "message", "other", "compact"},
               stage : {"free", "created", "doomed", "agent", "announced"}]
  /\ extras \in 0..MaxExtras
  /\ place \in [Msgs -> Places]
  /\ turns \in Seq(Msgs)
  /\ mute \in BOOLEAN

Init ==
  /\ link = "down"
  /\ prompt = FALSE /\ pump = TRUE /\ busy = FALSE
  /\ queue = <<>> /\ woken = {}
  /\ requests = <<>> /\ inbox = <<>>
  /\ subscribed = FALSE /\ lane = Free /\ stopping = FALSE
  /\ extras = 0
  /\ place = [m \in Msgs |-> "fresh"]
  /\ turns = <<>>
  /\ mute = FALSE

\* There is a SocketClient (self._client).
Connected == link \in {"subscribing", "resuming", "up"}

Extra == extras < MaxExtras /\ extras' = extras + 1

\* The connection still carries what is written to it.
Open == Connected /\ \A i \in 1..Len(inbox) : inbox[i].kind \notin {"eof", "reset"}

\* A command line is written; on a connection that is lost already it is lost too.
Written(kind, m) == IF Open THEN Append(requests, Line(kind, m)) ELSE requests

-----------------------------------------------------------------------------
(* The user.                                                               *)

\* _start_send_message of m, and the worker it makes: it writes the command, or
\* returns at once, with busy up, when there is no connection.  p: place so far.
Transmit(m, p) ==
  /\ busy' = TRUE
  /\ prompt' = TRUE
  /\ requests' = Written("send", m)
  /\ place' = [p EXCEPT ![m] = IF Connected THEN "sent" ELSE "lost"]
  /\ mute' = (mute \/ ~Connected)

\* m is what the user types next.
Typed(m) ==
  /\ Connected /\ prompt /\ pump
  /\ place[m] = "fresh" /\ \A k \in 1..(m - 1) : place[k] # "fresh"

\* Enter.  While a run is believed to go on the message is queued.
Submit(m) ==
  /\ Typed(m)
  /\ IF busy
     THEN /\ queue' = Append(queue, m)
          /\ place' = [place EXCEPT ![m] = "queued"]
          /\ UNCHANGED <<prompt, busy, requests, mute>>
     ELSE Transmit(m, place) /\ UNCHANGED queue
  /\ UNCHANGED <<link, pump, woken, inbox, daemonVars, extras, turns>>

\* Mutation: the guidance is sent at once, ahead of the cancellation.
InterruptLate(m) ==
  /\ Typed(m) /\ busy
  /\ Extra
  /\ place' = [place EXCEPT ![m] = "sent"]
  /\ requests' = requests \o <<Line("send", m), Line("interrupt", m)>>
  /\ UNCHANGED <<link, prompt, pump, busy, queue, woken, inbox, daemonVars, historyVars>>

\* "/now m" during a run: m goes to the head of the queue, and a worker cancels.
Interrupt(m) ==
  /\ Typed(m) /\ busy
  /\ Extra
  /\ queue' = <<m>> \o queue
  /\ place' = [place EXCEPT ![m] = "queued"]
  /\ requests' = Written("interrupt", m)
  /\ UNCHANGED <<link, prompt, pump, busy, woken, inbox, daemonVars, historyVars>>

\* Ctrl+C: the message pump itself waits for the answer.
CtrlC ==
  /\ Connected /\ pump /\ busy
  /\ Extra
  /\ pump' = FALSE
  /\ requests' = Written("cancel", None)
  /\ UNCHANGED <<link, prompt, busy, queue, woken, inbox, daemonVars, place, historyVars>>

\* "/compact": refused by the client during a run; busy does not go up for it.
Compact ==
  /\ Connected /\ prompt /\ pump /\ ~busy
  /\ Extra
  /\ requests' = Written("compact", None)
  /\ UNCHANGED <<clientVars, inbox, daemonVars, place, historyVars>>

-----------------------------------------------------------------------------
(* The client hears.  run_event_loop dispatches one line after the other.  *)

Hear(kind) ==
  /\ Connected
  /\ inbox # <<>> /\ Head(inbox).kind = kind
  /\ inbox' = Tail(inbox)

\* Mutation: the newest queued message is sent first.
SendNextNewest(p) ==
  IF queue = <<>>
  THEN busy' = FALSE /\ prompt' = TRUE /\ place' = p /\ UNCHANGED <<queue, requests, mute>>
  ELSE Transmit(queue[Len(queue)], p) /\ queue' = SubSeq(queue, 1, Len(queue) - 1)

\* busy goes down, and _send_next_queued_message takes it up again.
SendNext(p) ==
  IF queue = <<>>
  THEN busy' = FALSE /\ prompt' = TRUE /\ place' = p /\ UNCHANGED <<queue, requests, mute>>
  ELSE Transmit(Head(queue), p) /\ queue' = Tail(queue)

\* session.waiting_for_input, of this session or of any other one.
HearWaiting ==
  /\ Hear("waiting")
  /\ SendNext(place)
  /\ UNCHANGED <<link, pump, woken, daemonVars, extras, turns>>

\* session.closed, of any session.
HearClosed ==
  /\ Hear("closed")
  /\ busy' = FALSE /\ prompt' = FALSE
  /\ UNCHANGED <<link, pump, queue, woken, requests, daemonVars, extras, place, historyVars>>

\* A refused send: the future fails now, the worker that awaits it resumes later.
HearRefused ==
  /\ Hear("refused")
  /\ woken' = woken \union {Head(inbox).msg}
  /\ UNCHANGED <<link, prompt, pump, busy, queue, requests, daemonVars, extras, place, historyVars>>

\* Mutation: the error is shown and nothing else is done.
SendFailsQuietly(m) ==
  /\ m \in woken
  /\ woken' = woken \ {m}
  /\ place' = [place EXCEPT ![m] = "refused"]
  /\ UNCHANGED <<link, prompt, pump, busy, queue, requests, inbox, daemonVars, extras, historyVars>>

\* The except branch of _do_send_message: the message is dropped, the next one sent.
SendFails(m) ==
  /\ m \in woken
  /\ woken' = woken \ {m}
  /\ SendNext([place EXCEPT ![m] = "refused"])
  /\ UNCHANGED <<link, pump, inbox, daemonVars, extras, turns>>

\* The answer to Ctrl+C, granted or refused.
HearStopped ==
  /\ Hear("stopped")
  /\ pump' = TRUE
  /\ UNCHANGED <<link, prompt, busy, queue, woken, requests, daemonVars, extras, place, historyVars>>

\* The answers to event.subscribe and to session.resume.
HearSubscribed ==
  /\ Hear("subscribed")
  /\ link' = "resuming"
  /\ requests' = Written("resume", None)
  /\ UNCHANGED <<prompt, pump, busy, queue, woken, daemonVars, extras, place, historyVars>>

HearResumed ==
  /\ Hear("resumed")
  /\ link' = "up"
  /\ prompt' = TRUE
  /\ UNCHANGED <<pump, busy, queue, woken, requests, daemonVars, extras, place, historyVars>>

\* The end of the stream: run_event_loop cancels every pending future.  A send that
\* waited is over and busy stays up; _socket_loop, waiting for subscribe or resume,
\* or the pump, waiting for Ctrl+C, does not survive the cancellation.  A connection
\* that was reset also fails the close() in _socket_loop.
HearEnd ==
  /\ Hear("eof") \/ Hear("reset")
  /\ link' = IF link = "up" /\ pump /\ Head(inbox).kind = "eof" THEN "down" ELSE "gone"
  /\ prompt' = FALSE
  /\ place' = [m \in Msgs |-> IF place[m] = "sent" /\ m \notin woken THEN "lost" ELSE place[m]]
  /\ UNCHANGED <<pump, busy, queue, woken, requests, daemonVars, extras, historyVars>>

\* _socket_loop connects again; nothing of the client's state is reset.
Connect ==
  /\ link = "down"
  /\ link' = "subscribing"
  /\ requests' = <<Line("subscribe", None)>> /\ inbox' = <<>>
  /\ UNCHANGED <<prompt, pump, busy, queue, woken, daemonVars, extras, place, historyVars>>

-----------------------------------------------------------------------------
(* The daemon.  One task per line, started in order.                       *)

\* Responses go to the connection, events to its subscription, if it lives.
Tell(kind, m) == inbox' = IF Open THEN Append(inbox, Line(kind, m)) ELSE inbox
Push(kind) == inbox' = IF Open /\ subscribed THEN Append(inbox, Line(kind, None)) ELSE inbox

Take(kind) ==
  /\ requests # <<>> /\ Head(requests).kind = kind
  /\ requests' = Tail(requests)

ServeSubscribe ==
  /\ Take("subscribe")
  /\ subscribed' = TRUE
  /\ Tell("subscribed", None)
  /\ UNCHANGED <<clientVars, lane, stopping, extras, place, historyVars>>

ServeResume ==
  /\ Take("resume")
  /\ Tell("resumed", None)
  /\ UNCHANGED <<clientVars, daemonVars, extras, place, historyVars>>

\* session.send_message.  The client does nothing on a granted one.
ServeSend ==
  /\ Take("send")
  /\ LET m == Head(requests).msg
     IN IF lane = Free
        THEN /\ lane' = [by |-> "message", stage |-> "created"]
             /\ place' = [place EXCEPT ![m] = "accepted"]
             /\ turns' = Append(turns, m)
             /\ UNCHANGED inbox
        ELSE Tell("refused", m) /\ UNCHANGED <<lane, place, turns>>
  /\ UNCHANGED <<clientVars, subscribed, stopping, extras, mute>>

\* session.cancel.  A task that has not started ends without a word; one in its
\* agent will say that it waits, as it would anyway; in the publication of that, too.
Cancelled ==
  IF lane.stage = "created" THEN [lane EXCEPT !.stage = "doomed"] ELSE lane

IsRunning == lane # Free /\ lane.by # "compact"

ServeInterrupt ==
  /\ Take("interrupt")
  /\ lane' = Cancelled
  /\ UNCHANGED <<clientVars, inbox, subscribed, stopping, extras, place, historyVars>>

ServeCancel ==
  /\ Take("cancel")
  /\ lane' = Cancelled
  /\ IF IsRunning
     THEN stopping' = TRUE /\ UNCHANGED inbox
     ELSE Tell("stopped", None) /\ UNCHANGED stopping
  /\ UNCHANGED <<clientVars, subscribed, extras, place, historyVars>>

ServeCompact ==
  /\ Take("compact")
  /\ lane' = IF lane = Free THEN [by |-> "compact", stage |-> "agent"] ELSE lane
  /\ UNCHANGED <<clientVars, inbox, subscribed, stopping, extras, place, historyVars>>

\* Mutation: the status "agent" is misspelt.
RunStartsMisspelt ==
  /\ lane.stage = "created"
  /\ lane' = [lane EXCEPT !.stage = "running"]
  /\ UNCHANGED <<clientVars, requests, inbox, subscribed, stopping, extras, place, historyVars>>

\* The accepted task takes the lock and reaches its agent.
RunStarts ==
  /\ lane.stage = "created"
  /\ lane' = [lane EXCEPT !.stage = "agent"]
  /\ UNCHANGED <<clientVars, requests, inbox, subscribed, stopping, extras, place, historyVars>>

\* Mutation: nothing is published when the agent ends.
RunAnnouncesNothing ==
  /\ lane.stage = "agent" /\ IsRunning
  /\ lane' = [lane EXCEPT !.stage = "announced"]
  /\ UNCHANGED <<clientVars, requests, inbox, subscribed, stopping, extras, place, historyVars>>

\* The run is over and says so; the lock is kept until every client has taken the event.
\* (The terminal comes first in the list of clients: a cancellation that arrives while
\* one before it takes the event, which leaves the terminal without it, is left out.)
RunAnnounces ==
  /\ lane.stage = "agent" /\ IsRunning
  /\ lane' = [lane EXCEPT !.stage = "announced"]
  /\ Push("waiting")
  /\ UNCHANGED <<clientVars, requests, subscribed, stopping, extras, place, historyVars>>

\* The task is done: after its announcement, or before its agent, cancelled or
\* failed on a message like "/".  The compaction is done.
LaneEnds ==
  /\ \/ lane.stage \in {"announced", "doomed", "created"}
     \/ lane.stage = "agent" /\ ~IsRunning
  /\ mute' = (mute \/ lane.stage \in {"doomed", "created"})
  /\ lane' = Free
  /\ stopping' = FALSE
  /\ IF stopping THEN Tell("stopped", None) ELSE UNCHANGED inbox
  /\ UNCHANGED <<clientVars, requests, subscribed, extras, place, turns>>

-----------------------------------------------------------------------------
(* The others.                                                             *)

\* Another client sends a message to this session.
OtherSends ==
  /\ lane = Free
  /\ Extra
  /\ lane' = [by |-> "other", stage |-> "agent"]
  /\ UNCHANGED <<clientVars, requests, inbox, subscribed, stopping, place, historyVars>>

\* Another session of the daemon waits for input or is closed.
OtherSession(kind) ==
  /\ Open /\ subscribed
  /\ Extra
  /\ Push(kind)
  /\ UNCHANGED <<clientVars, requests, daemonVars, place, historyVars>>

\* The connection is lost, with the daemon if it dies, and is read to its end or
\* is reset.  What was on its way to the daemon is lost.
Lose(kind, dies) ==
  /\ Open
  /\ Extra
  /\ requests' = <<>>
  /\ inbox' = IF kind = "eof" THEN Append(inbox, Line("eof", None)) ELSE <<Line("reset", None)>>
  /\ subscribed' = FALSE
  /\ lane' = IF dies THEN Free ELSE lane
  /\ stopping' = FALSE
  /\ mute' = TRUE
  /\ UNCHANGED <<clientVars, place, turns>>

-----------------------------------------------------------------------------
Hears ==
  \/ HearWaiting \/ HearClosed \/ HearRefused \/ HearStopped
  \/ HearSubscribed \/ HearResumed \/ HearEnd

Serves ==
  \/ ServeSubscribe \/ ServeResume \/ ServeSend
  \/ ServeInterrupt \/ ServeCancel \/ ServeCompact

Runs == RunStarts \/ RunAnnounces \/ LaneEnds

Next ==
  \/ \E m \in Msgs : Submit(m) \/ Interrupt(m) \/ SendFails(m)
  \/ CtrlC \/ Compact \/ Hears \/ Connect \/ Serves \/ Runs
  \/ OtherSends
  \/ \E kind \in {"waiting", "closed"} : OtherSession(kind)
  \/ \E kind \in {"eof", "reset"}, dies \in BOOLEAN : Lose(kind, dies)

Spec == Init /\ [][Next]_vars

\* Both event loops run and every run ends (AgentLoop).  The user owes nothing.
FairSpec ==
  /\ Spec
  /\ WF_vars(Hears) /\ WF_vars(Serves) /\ WF_vars(Runs) /\ WF_vars(Connect)
  /\ \A m \in Msgs : WF_vars(SendFails(m))

-----------------------------------------------------------------------------
(* Safety.                                                                 *)

\* Where m is, if it has been neither refused nor lost: accepted, sent or queued.
Spots(m) ==
  {<<1, i>> : i \in {k \in 1..Len(turns) : turns[k] = m}}
  \union {<<2, i>> : i \in {k \in 1..Len(requests) :
                              requests[k].kind = "send" /\ requests[k].msg = m}}
  \union {<<3, i>> : i \in {k \in 1..Len(queue) : queue[k] = m}}

\* m has its turn before n.
Ahead(m, n) ==
  \E p \in Spots(m), q \in Spots(n) : p[1] < q[1] \/ (p[1] = q[1] /\ p[2] < q[2])

\* Whatever is refused, lost or interrupted, no message ever overtakes another
\* one, and none takes two turns.
NoOvertaking == [][\A m, n \in Msgs : Ahead(m, n) => ~Ahead(n, m)']_vars

\* The cancellation of "/now m" comes before m does: it can stop an older run or
\* come too late, but it never stops its own guidance or what was typed after it.
InterruptSpares ==
  \A i \in 1..Len(requests) : requests[i].kind = "interrupt" => place[requests[i].msg] # "accepted"

\* A send that the daemon or its refusal will still answer.
InFlight ==
  \/ woken # {}
  \/ \E i \in 1..Len(requests) : requests[i].kind = "send"
  \/ \E i \in 1..Len(inbox) : inbox[i].kind = "refused"

\* A run that will announce its end, or the announcement under way.
Announcing ==
  \/ IsRunning /\ lane.stage # "announced"
  \/ \E i \in 1..Len(inbox) : inbox[i].kind = "waiting"

\* As long as no connection was lost and no run ended without a word, a terminal
\* that is busy or holds messages back is owed an event or an answer that lets it
\* go on, whatever events of other sessions and other users' runs came between.
NothingStrands == (busy \/ queue # <<>>) /\ ~mute => InFlight \/ Announcing

\* Nothing typed into a terminal is refused by the daemon because it came too early.
\* (CHANGELOG.md: a message typed during a run is queued for the next turn.)
QueuedIsTaken == \A m \in Msgs : place[m] # "refused"

-----------------------------------------------------------------------------
(* Liveness.                                                               *)

\* Every queued message leaves the queue, unless a connection was lost or a run
\* ended without a word.
QueueDrains == \A m \in Msgs : place[m] = "queued" ~> place[m] # "queued" \/ mute

=============================================================================
