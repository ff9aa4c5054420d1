-------------------------- MODULE AgentLoopProofs --------------------------
(***************************************************************************)
(* Proofs about AgentLoop: types, the outcome of a run, that every prompt  *)
(* pairs the calls of the model with their results, and that the thread    *)
(* keeps the order of what happened.                                       *)
(***************************************************************************)
EXTENDS AgentLoop, TLAPS, FiniteSetTheorems, SequenceTheorems

-----------------------------------------------------------------------------
(* Trimming.                                                               *)

\* A bounded set without a maximum would be mapped into itself by x + 1, which
\* leaves 0 out.
LEMMA HasMaximum ==
  ASSUME NEW n \in Nat, NEW S \in SUBSET (0..n), S # {}
  PROVE  Max(S) \in S /\ \A y \in S : Max(S) >= y
<1>1. \E x \in S : \A y \in S : x >= y
  <2> SUFFICES ASSUME \A x \in S : \E y \in S : y > x PROVE FALSE
    OBVIOUS
  <2> DEFINE U == {x \in 0..n : \E y \in S : x <= y}
             f == [x \in U |-> x + 1]
  <2>1. 0 \in U
    <3>1. PICK s : s \in S
      OBVIOUS
    <3>2. s \in 0..n
      BY <3>1
    <3>3. QED
      BY <3>1, <3>2
  <2>2. IsFiniteSet(U)
    <3>1. IsFiniteSet(0..n)
      BY FS_Interval
    <3>2. U \in SUBSET (0..n)
      OBVIOUS
    <3> HIDE DEF U
    <3>3. QED
      BY <3>1, <3>2, FS_Subset
  <2>3. f \in [U -> U \ {0}]
    <3> SUFFICES ASSUME NEW x \in U PROVE x + 1 \in U \ {0}
      OBVIOUS
    <3>1. PICK y \in S : x <= y
      OBVIOUS
    <3>2. PICK z \in S : z > y
      OBVIOUS
    <3>3. QED
      BY <3>1, <3>2
  <2>4. U \subseteq Nat /\ \A x \in U : f[x] = x + 1
    OBVIOUS
  <2> HIDE DEF U, f
  <2>5. IsFiniteSet(U \ {0}) /\ Cardinality(U \ {0}) < Cardinality(U)
    <3>1. Cardinality(U) \in Nat
      BY <2>2, FS_CardinalityType
    <3>2. IsFiniteSet(U \ {0}) /\ Cardinality(U \ {0}) = Cardinality(U) - 1
      BY <2>1, <2>2, FS_RemoveElement
    <3>3. QED
      BY <3>1, <3>2
  <2>6. \E x, y \in U : x # y /\ f[x] = f[y]
    BY <2>2, <2>3, <2>5, FS_PigeonHole
  <2>7. QED
    BY <2>4, <2>6
<1>2. QED
  BY <1>1 DEF Max

\* Where a sequence of messages may be cut: no call before lacks its result.
Balanced(msgs) == {k \in 0..Len(msgs) : ~Pending(msgs, k)}

LEMMA Prefix ==
  ASSUME NEW msgs \in Seq(Message), NEW k \in 0..Len(msgs)
  PROVE  /\ SubSeq(msgs, 1, k) \in Seq(Message)
         /\ Len(SubSeq(msgs, 1, k)) = k
         /\ \A i \in 1..k : SubSeq(msgs, 1, k)[i] = msgs[i]
<1>1. k \in Int /\ k \in Nat /\ \A i \in 1..k : msgs[i] \in Message
  BY ElementOfSeq
<1>2. QED
  BY <1>1, SubSeqProperties

LEMMA TrimFacts ==
  ASSUME NEW msgs \in Seq(Message)
  PROVE  /\ Max(Balanced(msgs)) \in 0..Len(msgs)
         /\ ~Pending(msgs, Max(Balanced(msgs)))
         /\ Trim(msgs) = SubSeq(msgs, 1, Max(Balanced(msgs)))
         /\ Trim(msgs) \in Seq(Message)
<1>1. 0 \in Balanced(msgs)
  BY DEF Balanced, Pending
<1>2. Balanced(msgs) \in SUBSET (0..Len(msgs)) /\ Len(msgs) \in Nat
  BY DEF Balanced
<1>3. Max(Balanced(msgs)) \in Balanced(msgs)
  BY <1>1, <1>2, HasMaximum
<1>4. Trim(msgs) = SubSeq(msgs, 1, Max(Balanced(msgs)))
  BY DEF Trim, Balanced
<1>5. Max(Balanced(msgs)) \in 0..Len(msgs) /\ ~Pending(msgs, Max(Balanced(msgs)))
  BY <1>3 DEF Balanced
<1>6. QED
  BY <1>4, <1>5, Prefix

\* What is balanced is read as it is.
LEMMA TrimBalanced ==
  ASSUME NEW msgs \in Seq(Message), ~Pending(msgs, Len(msgs))
  PROVE  Trim(msgs) = msgs
<1>1. Len(msgs) \in Balanced(msgs)
  BY DEF Balanced
<1>2. Balanced(msgs) \in SUBSET (0..Len(msgs)) /\ Len(msgs) \in Nat
  BY DEF Balanced
<1>3. \A y \in Balanced(msgs) : Max(Balanced(msgs)) >= y
  BY <1>1, <1>2, HasMaximum
<1>4. Max(Balanced(msgs)) = Len(msgs)
  BY <1>1, <1>2, <1>3, TrimFacts
<1>5. QED
  BY <1>4, TrimFacts, SubSeqFull

\* What is appended behind an orphan, and does not answer it, is never read.
LEMMA TrimOrphan ==
  ASSUME NEW msgs \in Seq(Message), NEW rows \in Seq(Message),
         Pending(msgs, Len(msgs)),
         \A i \in 1..Len(msgs), j \in 1..Len(rows) :
           Asks(msgs[i]) => ~Answers(rows[j], msgs[i])
  PROVE  Trim(msgs \o rows) = Trim(msgs)
<1> DEFINE all == msgs \o rows
<1>1. /\ all \in Seq(Message) /\ Len(all) = Len(msgs) + Len(rows)
      /\ Len(msgs) \in Nat /\ Len(rows) \in Nat
      /\ \A i \in 1..Len(msgs) : all[i] = msgs[i]
      /\ \A i \in (Len(msgs) + 1)..Len(all) : all[i] = rows[i - Len(msgs)]
  BY ConcatProperties
<1> HIDE DEF all
<1>2. ASSUME NEW k \in 0..Len(msgs) PROVE Pending(all, k) <=> Pending(msgs, k)
  <2>1. \A i \in 1..k : all[i] = msgs[i] /\ \A j \in (i + 1)..k : all[j] = msgs[j]
    BY <1>1
  <2>2. QED
    BY <2>1 DEF Pending
<1>3. ASSUME NEW k \in (Len(msgs) + 1)..Len(all) PROVE Pending(all, k)
  <2>1. PICK i \in 1..Len(msgs) :
          Asks(msgs[i]) /\ ~ \E j \in (i + 1)..Len(msgs) : Answers(msgs[j], msgs[i])
    BY DEF Pending
  <2>2. ASSUME NEW j \in (i + 1)..k PROVE ~Answers(all[j], all[i])
    <3>1. CASE j <= Len(msgs)
      BY <1>1, <2>1, <3>1
    <3>2. CASE j > Len(msgs)
      <4>1. j - Len(msgs) \in 1..Len(rows) /\ all[j] = rows[j - Len(msgs)]
        BY <1>1, <1>3, <3>2
      <4>2. QED
        BY <1>1, <2>1, <4>1
    <3>3. QED
      BY <3>1, <3>2
  <2>3. i \in 1..k /\ all[i] = msgs[i]
    BY <1>1
  <2>4. QED
    BY <2>1, <2>2, <2>3 DEF Pending
<1>4. Balanced(all) = Balanced(msgs)
  BY <1>1, <1>2, <1>3 DEF Balanced
<1>5. Trim(all) = SubSeq(all, 1, Max(Balanced(msgs)))
  BY <1>1, <1>4, TrimFacts
<1>6. SubSeq(all, 1, Max(Balanced(msgs))) = SubSeq(msgs, 1, Max(Balanced(msgs)))
  <2> DEFINE k == Max(Balanced(msgs))
  <2>1. k \in 0..Len(msgs) /\ k \in 0..Len(all)
    BY <1>1, TrimFacts
  <2> HIDE DEF k
  <2>2. \A i \in 1..k : SubSeq(all, 1, k)[i] = SubSeq(msgs, 1, k)[i]
    BY <1>1, <2>1, Prefix
  <2>3. SubSeq(all, 1, k) = SubSeq(msgs, 1, k)
    BY <1>1, <2>1, <2>2, Prefix, SeqEqual
  <2>4. QED
    BY <2>3 DEF k
<1>7. QED
  BY <1>5, <1>6, TrimFacts DEF all

-----------------------------------------------------------------------------
(* Pairing.                                                                *)

\* Every call but one in the last message is answered by the next message, in
\* full unless that is the last one, and nothing else is answered.
Paired(msgs) ==
  \A i \in 1..Len(msgs) :
    /\ Asks(msgs[i]) /\ i < Len(msgs) =>
         /\ msgs[i + 1].kind = "results" /\ SameStep(msgs[i + 1], msgs[i])
         /\ msgs[i + 1].n <= msgs[i].n
         /\ i + 1 < Len(msgs) => msgs[i + 1].n = msgs[i].n
    /\ msgs[i].kind = "results" => i > 1 /\ Asks(msgs[i - 1])

\* The last calls are not all answered.
Open(msgs) ==
  /\ Len(msgs) > 0
  /\ \/ Asks(msgs[Len(msgs)])
     \/ /\ msgs[Len(msgs)].kind = "results" /\ Len(msgs) > 1
        /\ msgs[Len(msgs)].n < msgs[Len(msgs) - 1].n

Closed(msgs) == Paired(msgs) /\ ~Open(msgs)

StartsWell(msgs) == Len(msgs) > 0 => FromUser(msgs[1])

LEMMA ClosedIsValid ==
  ASSUME NEW msgs \in Seq(Message), Closed(msgs), StartsWell(msgs), msgs # <<>>
  PROVE  Valid(msgs)
<1>1. Len(msgs) \in Nat \ {0} /\ Head(msgs) = msgs[1] /\ \A i \in 1..Len(msgs) : msgs[i] \in Message
  BY EmptySeq, ElementOfSeq
<1>2. FromUser(Head(msgs))
  BY <1>1 DEF StartsWell
<1>3. ASSUME NEW i \in 1..Len(msgs), Asks(msgs[i])
      PROVE  i < Len(msgs) /\ msgs[i + 1] = [msgs[i] EXCEPT !.kind = "results"]
  <2>1. i < Len(msgs)
    BY <1>1, <1>3 DEF Closed, Open
  <2>2. msgs[i] \in Message /\ msgs[i + 1] \in Message
    BY <1>1, <2>1
  <2>3. /\ msgs[i + 1].kind = "results" /\ SameStep(msgs[i + 1], msgs[i])
        /\ msgs[i + 1].n <= msgs[i].n
        /\ i + 1 < Len(msgs) => msgs[i + 1].n = msgs[i].n
    BY <1>3, <2>1 DEF Closed, Paired
  <2>4. i + 1 = Len(msgs) => ~(msgs[i + 1].n < msgs[i].n)
    BY <1>1, <2>3 DEF Closed, Open
  <2>5. msgs[i + 1].n = msgs[i].n
    BY <1>1, <2>1, <2>2, <2>3, <2>4 DEF Message
  <2>6. QED
    BY <2>1, <2>2, <2>3, <2>5 DEF Message, SameStep
<1>4. ASSUME NEW i \in 1..Len(msgs), msgs[i].kind = "results"
      PROVE  i > 1 /\ msgs[i] = [msgs[i - 1] EXCEPT !.kind = "results"]
  <2>1. i > 1 /\ i - 1 \in 1..Len(msgs) /\ Asks(msgs[i - 1]) /\ (i - 1) + 1 = i
    BY <1>1, <1>4 DEF Closed, Paired
  <2>2. QED
    BY <1>3, <2>1
<1>5. QED
  BY <1>1, <1>2, <1>3, <1>4 DEF Valid

LEMMA PrefixPaired ==
  ASSUME NEW msgs \in Seq(Message), Paired(msgs), NEW k \in 0..Len(msgs)
  PROVE  Paired(SubSeq(msgs, 1, k))
<1> DEFINE cutoff == SubSeq(msgs, 1, k)
<1>1. /\ Len(cutoff) = k /\ k \in Nat /\ Len(msgs) \in Nat
      /\ \A i \in 1..k : cutoff[i] = msgs[i] /\ msgs[i] \in Message
  BY Prefix, ElementOfSeq
<1> HIDE DEF cutoff
<1>2. SUFFICES ASSUME NEW i \in 1..k
               PROVE  /\ Asks(cutoff[i]) /\ i < k =>
                           /\ cutoff[i + 1].kind = "results" /\ SameStep(cutoff[i + 1], cutoff[i])
                           /\ cutoff[i + 1].n <= cutoff[i].n
                           /\ i + 1 < k => cutoff[i + 1].n = cutoff[i].n
                      /\ cutoff[i].kind = "results" => i > 1 /\ Asks(cutoff[i - 1])
  BY <1>1 DEF Paired, cutoff
<1>3. i \in 1..Len(msgs) /\ cutoff[i] = msgs[i]
  BY <1>1
<1>4. i < k => i < Len(msgs) /\ cutoff[i + 1] = msgs[i + 1]
  BY <1>1
<1>5. i > 1 => cutoff[i - 1] = msgs[i - 1]
  BY <1>1
<1>6. i + 1 < k => i + 1 < Len(msgs)
  BY <1>1
<1>7. QED
  BY <1>3, <1>4, <1>5, <1>6 DEF Paired

\* A balanced prefix of a paired sequence is closed ...
LEMMA BalancedIsClosed ==
  ASSUME NEW msgs \in Seq(Message), Paired(msgs), NEW k \in 0..Len(msgs), ~Pending(msgs, k)
  PROVE  Closed(SubSeq(msgs, 1, k))
<1> DEFINE cutoff == SubSeq(msgs, 1, k)
<1>1. /\ Len(cutoff) = k /\ k \in Nat /\ Len(msgs) \in Nat
      /\ \A i \in 1..k : cutoff[i] = msgs[i] /\ msgs[i] \in Message
  BY Prefix, ElementOfSeq
<1>2. Paired(cutoff)
  BY PrefixPaired
<1> HIDE DEF cutoff
<1>3. ASSUME Asks(cutoff[k]), k > 0 PROVE FALSE
  BY <1>1, <1>3 DEF Pending
<1>4. ASSUME cutoff[k].kind = "results", k > 1, cutoff[k].n < cutoff[k - 1].n PROVE FALSE
  <2>1. /\ k - 1 \in 1..k /\ k \in 1..k
        /\ cutoff[k] = msgs[k] /\ cutoff[k - 1] = msgs[k - 1]
    BY <1>1, <1>4
  <2>2. Asks(msgs[k - 1])
    BY <1>1, <1>4, <2>1 DEF Paired
  <2>3. ~Answers(msgs[k], msgs[k - 1])
    BY SMTT(30), <1>1, <1>4, <2>1 DEF Answers, Message
  <2>4. \A j \in ((k - 1) + 1)..k : j = k
    BY <1>1
  <2>5. QED
    BY <2>1, <2>2, <2>3, <2>4 DEF Pending
<1>5. QED
  BY <1>1, <1>2, <1>3, <1>4 DEF Closed, Open, cutoff

\* ... and what is closed is balanced.
LEMMA ClosedIsBalanced ==
  ASSUME NEW msgs \in Seq(Message), Closed(msgs)
  PROVE  ~Pending(msgs, Len(msgs))
<1> SUFFICES ASSUME NEW i \in 1..Len(msgs), Asks(msgs[i])
             PROVE  \E j \in (i + 1)..Len(msgs) : Answers(msgs[j], msgs[i])
  BY DEF Pending
<1>1. Len(msgs) \in Nat /\ \A j \in 1..Len(msgs) : msgs[j] \in Message
  BY ElementOfSeq
<1>2. i < Len(msgs)
  BY <1>1 DEF Closed, Open
<1>3. /\ msgs[i + 1].kind = "results" /\ SameStep(msgs[i + 1], msgs[i])
      /\ i + 1 < Len(msgs) => msgs[i + 1].n = msgs[i].n
  BY <1>2 DEF Closed, Paired
<1>4. i + 1 = Len(msgs) => ~(msgs[i + 1].n < msgs[i].n)
  BY <1>1, <1>3 DEF Closed, Open
<1>5. msgs[i + 1].n >= msgs[i].n /\ i + 1 \in (i + 1)..Len(msgs)
  BY SMTT(30), <1>1, <1>2, <1>3, <1>4 DEF Message
<1>6. QED
  BY <1>3, <1>5 DEF Answers

LEMMA TrimPaired ==
  ASSUME NEW msgs \in Seq(Message), Paired(msgs), StartsWell(msgs)
  PROVE  Closed(Trim(msgs)) /\ StartsWell(Trim(msgs))
<1>1. Closed(Trim(msgs))
  BY TrimFacts, BalancedIsClosed
<1>2. StartsWell(Trim(msgs))
  <2> DEFINE k == Max(Balanced(msgs))
  <2>1. k \in 0..Len(msgs) /\ Trim(msgs) = SubSeq(msgs, 1, k) /\ Len(msgs) \in Nat
    BY TrimFacts
  <2> HIDE DEF k
  <2>2. Len(Trim(msgs)) = k /\ \A i \in 1..k : Trim(msgs)[i] = msgs[i]
    BY <2>1, Prefix
  <2>3. QED
    BY <2>1, <2>2 DEF StartsWell
<1>3. QED
  BY <1>1, <1>2

LEMMA TrimClosed ==
  ASSUME NEW msgs \in Seq(Message), Closed(msgs)
  PROVE  Trim(msgs) = msgs
BY ClosedIsBalanced, TrimBalanced

-----------------------------------------------------------------------------
(* Types and outcomes.                                                     *)

\* What the phase of a run says of the rest of its state.
PhaseFits ==
  /\ phase = "idle" => cut # "run" /\ step = 0 /\ stop = "none" /\ status = "running"
  /\ phase # "idle" => ~torn /\ run > 0 /\ messages # <<>>
  /\ phase = "acting" <=> todo > 0
  /\ phase = "acting" => stop = "tool_use"
  /\ phase = "starting" => stop = "none"
  /\ phase = "planning" => stop # "end_turn"
  /\ phase \in {"starting", "planning", "acting", "compacting"} => status = "running"
  /\ phase \in {"compacting", "observing"} /\ status = "running" =>
       step < MaxSteps /\ stop # "end_turn"

TypeInv == TypeOK /\ PhaseFits /\ AnswerWins

LEMMA RowType ==
  ASSUME TypeOK, NEW kind \in Kinds, NEW n \in Nat
  PROVE  Row(kind, n) \in Message
BY DEF TypeOK, Row, Message

LEMMA SummarisedType ==
  ASSUME TypeOK
  PROVE  Summarised \in Seq(Message) /\ \A k \in 0..2 : SubSeq(Summarised, 1, k) \in Seq(Message)
<1>1. Fixed("summary") \in Message /\ Fixed("ack") \in Message
  BY BoundsAssumption DEF Fixed, Message, Kinds
<1>2. Summarised \in Seq(Message) /\ Len(Summarised) = 2
  BY <1>1 DEF Summarised
<1>3. QED
  BY <1>2, Prefix

LEMMA GoalType ==
  ASSUME TypeOK, run < MaxRuns
  PROVE  Goal \in Message
BY BoundsAssumption DEF TypeOK, Goal, Message, Kinds

\* What rows and messages are made of, they are made of when written and trimmed.
LEMMA AppendedIn ==
  ASSUME NEW S, thread \in Seq(S), NEW rows \in Seq(S)
  PROVE  Appended(rows) \in Seq(S)
<1>1. rows # <<>> => Tail(rows) \in Seq(S)
  BY HeadTailProperties
<1>2. QED
  BY <1>1, ConcatProperties DEF Appended

LEMMA PrefixIn ==
  ASSUME NEW S, NEW seq \in Seq(S), NEW k \in 0..Len(seq)
  PROVE  SubSeq(seq, 1, k) \in Seq(S)
<1>1. k \in Int /\ \A i \in 1..k : seq[i] \in S
  BY ElementOfSeq
<1>2. QED
  BY <1>1, SubSeqProperties

LEMMA WriteIn ==
  ASSUME NEW S, thread \in Seq(S), torn \in BOOLEAN, NEW rows \in Seq(S),
         Write(rows) \/ WriteInPart(rows)
  PROVE  thread' \in Seq(S) /\ torn' \in BOOLEAN
<1>1. CASE Write(rows)
  BY <1>1, AppendedIn DEF Write
<1>2. CASE WriteInPart(rows)
  <2>1. PICK written \in 0..(Len(rows) - 1), half \in BOOLEAN :
          /\ thread' = Appended(SubSeq(rows, 1, written))
          /\ torn' = (half \/ (torn /\ written = 0))
    BY <1>2 DEF WriteInPart
  <2>2. written \in 0..Len(rows)
    BY <2>1
  <2>3. SubSeq(rows, 1, written) \in Seq(S)
    BY <2>2, PrefixIn
  <2>4. QED
    BY <2>1, <2>3, AppendedIn
<1>3. QED
  BY <1>1, <1>2

LEMMA ProducedIn ==
  ASSUME NEW S, messages \in Seq(S), prefill \in Nat
  PROVE  Produced \in Seq(S)
<1>1. \A i \in (prefill + 1)..Len(messages) : messages[i] \in S
  BY ElementOfSeq
<1>2. prefill + 1 \in Int /\ Len(messages) \in Int
  OBVIOUS
<1>3. QED
  BY <1>1, <1>2, SubSeqProperties DEF Produced

LEMMA AddResultIn ==
  ASSUME NEW S, NEW msgs \in Seq(S), msgs # <<>>, NEW n \in Nat,
         \A m \in S : [m EXCEPT !.n = @ + n] \in S,
         Row("results", n) \in S
  PROVE  AddResult(msgs, n) \in Seq(S) /\ AddResult(msgs, n) # <<>>
<1>1. CASE n = 0
  BY <1>1 DEF AddResult
<1>2. CASE n # 0 /\ Last(msgs).kind = "results"
  <2>1. Len(msgs) \in Nat \ {0}
    BY EmptySeq
  <2>2. Len(msgs) \in 1..Len(msgs)
    BY <2>1
  <2>3. msgs[Len(msgs)] \in S
    BY <2>2, ElementOfSeq
  <2>4. [msgs[Len(msgs)] EXCEPT !.n = @ + n] \in S
    BY <2>3
  <2>5. AddResult(msgs, n) = [msgs EXCEPT ![Len(msgs)] = [msgs[Len(msgs)] EXCEPT !.n = @ + n]]
    BY <1>2, <2>2 DEF AddResult
  <2>6. /\ AddResult(msgs, n) \in Seq(S)
        /\ Len(AddResult(msgs, n)) = Len(msgs)
    BY <2>2, <2>4, <2>5, ExceptSeq
  <2>7. QED
    BY <2>1, <2>6, EmptySeq
<1>3. CASE n # 0 /\ Last(msgs).kind # "results"
  BY <1>3, AppendProperties DEF AddResult
<1>4. QED
  BY <1>1, <1>2, <1>3

LEMMA MoreType ==
  ASSUME NEW m \in Message, NEW n \in Nat
  PROVE  [m EXCEPT !.n = @ + n] \in Message
<1>1. m.n + n \in Nat
  BY DEF Message
<1>2. QED
  BY <1>1 DEF Message

LEMMA AddResultType ==
  ASSUME TypeOK, NEW msgs \in Seq(Message), msgs # <<>>, NEW n \in Nat
  PROVE  AddResult(msgs, n) \in Seq(Message) /\ AddResult(msgs, n) # <<>>
<1>1. Row("results", n) \in Message
  BY RowType DEF Kinds
<1>2. QED
  BY <1>1, MoreType, AddResultIn

LEMMA InitType == Init => TypeInv
BY BoundsAssumption
DEF Init, TypeInv, TypeOK, PhaseFits, AnswerWins, Phases, InLoop, Stops, Outcomes

\* The context is gone: nothing is left that could be ill-typed.
LEMMA RestsType ==
  ASSUME TypeInv, thread' \in Seq(Message), torn' \in BOOLEAN,
         NEW saved \in {"no", "saved"}, Rests(saved)
  PROVE  TypeInv'
BY BoundsAssumption
DEF TypeInv, TypeOK, PhaseFits, AnswerWins, Rests, Phases, InLoop, Stops, Outcomes

\* The end of a step leaves the run going on below the limit, or with its outcome.
LEMMA EndsType ==
  ASSUME TypeInv, NEW reason \in Stops \ {"none"}, Ends(reason), status = "running",
         messages' \in Seq(Message), messages' # <<>>, todo' = 0, stop' = reason,
         phase # "idle", UNCHANGED <<thread, torn, run, prefill, step, cut>>
  PROVE  TypeInv'
<1>1. todo' \in 0..MaxCalls[run]
  BY BoundsAssumption DEF TypeInv, TypeOK
<1>2. CASE reason = "end_turn"
  BY <1>1, <1>2 DEF TypeInv, TypeOK, PhaseFits, AnswerWins, Ends, Phases, InLoop, Stops, Outcomes
<1>3. CASE reason # "end_turn" /\ step >= MaxSteps
  BY <1>1, <1>3 DEF TypeInv, TypeOK, PhaseFits, AnswerWins, Ends, Phases, InLoop, Stops, Outcomes
<1>4. CASE reason # "end_turn" /\ ~(step >= MaxSteps)
  <2>1. phase' \in {"observing", "compacting"} /\ status' = "running" /\ step < MaxSteps
    BY <1>4, BoundsAssumption DEF Ends, TypeInv, TypeOK
  <2>2. QED
    BY <1>1, <1>4, <2>1
    DEF TypeInv, TypeOK, PhaseFits, AnswerWins, Phases, InLoop, Stops, Outcomes
<1>5. QED
  BY <1>2, <1>3, <1>4

LEMMA RespondType ==
  ASSUME TypeInv, NEW reason \in Stops \ {"none"}, NEW n \in 0..MaxCalls[run], Respond(reason, n)
  PROVE  TypeInv'
<1> USE BoundsAssumption
<1>1. /\ n \in Nat /\ run \in 0..MaxRuns /\ messages \in Seq(Message) /\ phase = "planning"
      /\ status = "running"
  BY DEF TypeInv, TypeOK, PhaseFits, Respond
<1>2. Append(messages, Row("reply", n)) \in Seq(Message) /\ Append(messages, Row("reply", n)) # <<>>
  BY <1>1, RowType, AppendProperties DEF TypeInv, Kinds
<1>3. messages' \in Seq(Message) /\ messages' # <<>>
  BY <1>1, <1>2, AddResultType DEF Respond, TypeInv
<1>4. CASE reason = "tool_use" /\ n > 0
  <2>1. /\ todo' = n /\ phase' = "acting" /\ stop' = reason
        /\ UNCHANGED <<thread, torn, run, prefill, step, status, cut>>
    BY <1>4 DEF Respond
  <2>2. QED
    BY <1>1, <1>3, <1>4, <2>1
    DEF TypeInv, TypeOK, PhaseFits, AnswerWins, Phases, InLoop, Stops, Outcomes
<1>5. CASE ~(reason = "tool_use" /\ n > 0)
  BY <1>1, <1>3, <1>5, EndsType DEF Respond
<1>6. QED
  BY <1>4, <1>5

LEMMA ToolReturnsType ==
  ASSUME TypeInv, ToolReturns
  PROVE  TypeInv'
<1> USE BoundsAssumption
<1>1. /\ todo \in Nat /\ todo <= MaxCalls[run] /\ todo > 0 /\ run \in 0..MaxRuns /\ MaxCalls[run] \in Nat
      /\ messages \in Seq(Message) /\ messages # <<>> /\ phase = "acting"
      /\ status = "running" /\ stop = "tool_use"
  BY DEF TypeInv, TypeOK, PhaseFits, ToolReturns
<1>2. messages' \in Seq(Message) /\ messages' # <<>>
  BY <1>1, AddResultType DEF ToolReturns, TypeInv
<1>3. CASE todo = 1
  <2>1. Ends("tool_use") /\ todo' = 0 /\ stop' = "tool_use"
    BY <1>1, <1>3 DEF ToolReturns
  <2>2. "tool_use" \in Stops \ {"none"}
    BY DEF Stops
  <2>3. QED
    BY <1>1, <1>2, <2>1, <2>2, EndsType DEF ToolReturns
<1>4. CASE todo # 1
  <2>1. todo' \in 0..MaxCalls[run] /\ todo' > 0
    BY <1>1, <1>4 DEF ToolReturns
  <2>2. QED
    BY <1>1, <1>2, <1>4, <2>1 DEF ToolReturns, TypeInv, TypeOK, PhaseFits, AnswerWins
<1>5. QED
  BY <1>3, <1>4

LEMMA BeginType ==
  ASSUME TypeInv, Begin
  PROVE  TypeInv'
<1> USE BoundsAssumption
<1>1. Goal \in Message /\ run' \in 0..MaxRuns /\ run' > 0
  BY GoalType DEF Begin, TypeInv, TypeOK
<1>2. thread' \in Seq(Message) /\ torn' = FALSE
  <2>1. <<Goal>> \in Seq(Message) /\ <<Goal>> # <<>>
    BY <1>1
  <2>2. QED
    BY <2>1, WriteIn DEF Begin, TypeInv, TypeOK, Write
<1>3. Trim(thread') \in Seq(Message) /\ Len(Trim(thread')) \in Nat
  BY <1>2, TrimFacts
<1>4. messages' \in Seq(Message) /\ messages' # <<>> /\ prefill' \in Nat
  <2>1. messages' = IF Trim(thread') = <<>> THEN <<Goal>> ELSE Trim(thread')
    BY DEF Begin
  <2>2. prefill' = Len(Trim(thread'))
    BY DEF Begin
  <2>3. QED
    BY <1>1, <1>3, <2>1, <2>2
<1>5. todo = 0 /\ todo' \in 0..MaxCalls[run']
  <2>1. todo = 0 /\ todo' = todo
    BY DEF TypeInv, TypeOK, PhaseFits, Begin
  <2>2. MaxCalls[run'] \in Nat
    BY <1>1
  <2>3. QED
    BY <2>1, <2>2
<1>6. /\ phase' = "starting" /\ phase = "idle" /\ cut' = cut /\ cut # "run"
      /\ UNCHANGED <<step, stop, status>>
      /\ stop' = "none" /\ status' = "running"
  BY DEF Begin, TypeInv, PhaseFits
<1>7. TypeOK'
  BY <1>1, <1>2, <1>4, <1>5, <1>6 DEF TypeInv, TypeOK, Phases
<1>8. PhaseFits' /\ AnswerWins'
  <2>1. todo' = 0
    BY <1>5 DEF Begin
  <2>2. QED
    BY <1>1, <1>2, <1>4, <1>6, <2>1 DEF PhaseFits, AnswerWins
<1>9. QED
  BY <1>7, <1>8 DEF TypeInv

LEMMA NextType == TypeInv /\ [Next]_vars => TypeInv'
<1> SUFFICES ASSUME TypeInv, [Next]_vars PROVE TypeInv'
  OBVIOUS
<1> USE BoundsAssumption
<1>1. CASE Begin
  BY <1>1, BeginType
<1>2. CASE Start \/ StartFails
  BY <1>2
  DEF Start, StartFails, TypeInv, TypeOK, PhaseFits, AnswerWins, Phases, InLoop, Stops, Outcomes
<1>3. CASE Response
  BY <1>3, RespondType DEF Response
<1>4. CASE ToolReturns
  BY <1>4, ToolReturnsType
<1>5. CASE CompactRun
  <2>1. messages \in Seq(Message) /\ messages # <<>>
    BY <1>5 DEF CompactRun, TypeInv, TypeOK, PhaseFits
  <2>2. Summarised \in Seq(Message) /\ Summarised # <<>>
    BY SummarisedType DEF TypeInv, Summarised
  <2>3. messages' \in Seq(Message) /\ messages' # <<>>
    BY <1>5, <2>1, <2>2 DEF CompactRun
  <2>4. QED
    BY <1>5, <2>3 DEF CompactRun, TypeInv, TypeOK, PhaseFits, AnswerWins, Phases, InLoop
<1>6. CASE Observe
  BY <1>6 DEF Observe, TypeInv, TypeOK, PhaseFits, AnswerWins, Phases, InLoop
<1>7. ASSUME NEW reason \in {"cancelled", "llm_error"}, Abort(reason) PROVE TypeInv'
  BY <1>7 DEF Abort, TypeInv, TypeOK, PhaseFits, AnswerWins, Phases, InLoop, Outcomes
<1>8. CASE Finish \/ CrashSaving
  <2>1. thread' \in Seq(Message) /\ torn' \in BOOLEAN
    BY <1>8, ProducedIn, WriteIn DEF Finish, CrashSaving, TypeInv, TypeOK
  <2>2. QED
    BY <1>8, <2>1, RestsType DEF Finish, CrashSaving
<1>9. CASE Drop \/ Crash
  BY <1>9, RestsType DEF Drop, Crash, TypeInv, TypeOK
<1>10. CASE CompactThread \/ CrashCompacting
  <2>1. thread' \in Seq(Message) /\ torn' \in BOOLEAN /\ cut' = "no"
    <3>1. /\ Summarised \in Seq(Message)
          /\ \A k \in 0..1 : SubSeq(Summarised, 1, k) \in Seq(Message)
      BY SummarisedType DEF TypeInv
    <3>2. QED
      BY <1>10, <3>1 DEF CompactThread, CrashCompacting
  <2>2. QED
    BY <1>10, <2>1
    DEF CompactThread, CrashCompacting, TypeInv, TypeOK, PhaseFits, AnswerWins
<1>11. CASE CrashBeginning
  <2>1. thread' \in Seq(Message) /\ torn' \in BOOLEAN
    <3>1. <<Goal>> \in Seq(Message)
      BY <1>11, GoalType DEF CrashBeginning, TypeInv
    <3>2. QED
      BY <1>11, <3>1, WriteIn DEF CrashBeginning, TypeInv, TypeOK
  <2>2. run' \in 0..MaxRuns
    BY <1>11 DEF CrashBeginning, TypeInv, TypeOK
  <2>3. todo' \in 0..MaxCalls[run']
    BY <1>11, <2>2 DEF CrashBeginning, TypeInv, TypeOK, PhaseFits
  <2>4. QED
    BY <1>11, <2>1, <2>2, <2>3 DEF CrashBeginning, TypeInv, TypeOK, PhaseFits, AnswerWins
<1>12. CASE UNCHANGED vars
  BY <1>12 DEF vars, TypeInv, TypeOK, PhaseFits, AnswerWins
<1>13. QED
  BY <1>1, <1>2, <1>3, <1>4, <1>5, <1>6, <1>7, <1>8, <1>9, <1>10, <1>11, <1>12
  DEF Next, Progress

LEMMA TypeInvariant == Spec => []TypeInv
BY InitType, NextType, PTL DEF Spec

\* Every variable keeps its type: no run takes more steps than it may.
THEOREM TypeTheorem == Spec => []TypeOK
<1>1. TypeInv => TypeOK
  BY DEF TypeInv
<1>2. QED
  BY <1>1, TypeInvariant, PTL

\* The final answer of the model is never taken back.
THEOREM AnswerTheorem == Spec => []AnswerWins
<1>1. TypeInv => AnswerWins
  BY DEF TypeInv
<1>2. QED
  BY <1>1, TypeInvariant, PTL

-----------------------------------------------------------------------------
(* Which runs the rows come from.                                          *)

\* From a run there has been.
Known == {m \in Message : m.run <= run}

\* From a run that is over, or the goal of the current one.
Settled == {m \in Message : m.run < run \/ (m.run = run /\ m.kind = "goal")}

\* Nothing the current run says is in the thread before it ends.
KnownInv ==
  /\ thread \in Seq(Known)
  /\ phase # "idle" => thread \in Seq(Settled)
  /\ messages \in Seq(Known)

LEMMA SettledKnown ==
  ASSUME TypeOK
  PROVE  Settled \subseteq Known
BY DEF TypeOK, Settled, Known, Message

LEMMA AddResultKnown ==
  ASSUME TypeInv, NEW msgs \in Seq(Known), msgs # <<>>, NEW n \in Nat
  PROVE  AddResult(msgs, n) \in Seq(Known)
<1>1. Row("results", n) \in Known
  BY RowType DEF TypeInv, TypeOK, Kinds, Known, Row
<1>2. ASSUME NEW m \in Known PROVE [m EXCEPT !.n = @ + n] \in Known
  <2>1. m \in Message /\ m.run <= run
    BY DEF Known
  <2>2. [m EXCEPT !.n = @ + n] \in Message
    BY <2>1, MoreType
  <2>3. [m EXCEPT !.n = @ + n].run = m.run
    BY <2>1 DEF Message
  <2>4. QED
    BY <2>1, <2>2, <2>3 DEF Known
<1>3. QED
  BY <1>1, <1>2, AddResultIn

LEMMA SummarisedKnown ==
  ASSUME TypeInv
  PROVE  Summarised \in Seq(Known) /\ \A k \in 0..1 : SubSeq(Summarised, 1, k) \in Seq(Known)
<1>1. Fixed("summary") \in Known /\ Fixed("ack") \in Known
  BY BoundsAssumption DEF TypeInv, TypeOK, Fixed, Message, Kinds, Known
<1>2. Summarised \in Seq(Known) /\ Len(Summarised) = 2
  BY <1>1 DEF Summarised
<1>3. QED
  BY <1>2, PrefixIn

LEMMA InitKnown == Init => KnownInv
BY DEF Init, KnownInv

\* A run that has just been numbered settles all others.
LEMMA NewRunKnown ==
  ASSUME TypeInv, KnownInv, run < MaxRuns, run' = run + 1,
         Write(<<Goal>>) \/ WriteInPart(<<Goal>>)
  PROVE  thread' \in Seq(Settled') /\ Goal \in Settled'
<1>1. Goal \in Settled'
  BY GoalType DEF TypeInv, TypeOK, Settled, Goal
<1>2. Known \subseteq Settled'
  BY DEF TypeInv, TypeOK, Known, Settled, Message
<1>3. thread \in Seq(Settled')
  BY <1>2, SeqMonotonic DEF KnownInv
<1>4. <<Goal>> \in Seq(Settled') /\ torn \in BOOLEAN
  BY <1>1 DEF TypeInv, TypeOK
<1>5. QED
  BY <1>1, <1>3, <1>4, WriteIn

\* Without a run the messages are gone, and only the thread counts.
LEMMA RestsKnown ==
  ASSUME thread' \in Seq(Known), NEW saved \in {"no", "saved"}, Rests(saved)
  PROVE  KnownInv'
<1>1. run' = run /\ phase' = "idle" /\ messages' = <<>>
  BY DEF Rests
<1>2. Known' = Known
  BY <1>1 DEF Known
<1>3. messages' \in Seq(Known')
  BY <1>1, EmptySeq
<1>4. QED
  BY <1>1, <1>2, <1>3 DEF KnownInv

LEMMA NextKnown == TypeInv /\ TypeInv' /\ KnownInv /\ [Next]_vars => KnownInv'
<1> SUFFICES ASSUME TypeInv, TypeInv', KnownInv, [Next]_vars PROVE KnownInv'
  OBVIOUS
<1>1. CASE Begin
  <2>1. thread' \in Seq(Settled') /\ Goal \in Settled'
    BY <1>1, NewRunKnown DEF Begin
  <2>2. Settled' \subseteq Known'
    BY SettledKnown, TypeInv' DEF TypeInv, TypeOK, Settled, Known, Message
  <2>3. thread' \in Seq(Known') /\ thread' \in Seq(Message)
    BY <2>1, <2>2, SeqMonotonic DEF TypeInv, TypeOK
  <2>4. Trim(thread') \in Seq(Known')
    BY <2>3, TrimFacts, PrefixIn
  <2>5. messages' \in Seq(Known')
    <3>1. <<Goal>> \in Seq(Known')
      BY <2>1, <2>2
    <3>2. messages' = <<Goal>> \/ messages' = Trim(thread')
      BY <1>1 DEF Begin
    <3>3. QED
      BY <2>4, <3>1, <3>2
  <2>6. QED
    BY <2>1, <2>3, <2>5 DEF KnownInv
<1>2. CASE Start \/ StartFails \/ Observe \/ \E reason \in {"cancelled", "llm_error"} : Abort(reason)
  BY <1>2 DEF Start, StartFails, Observe, Abort, InLoop, KnownInv, Known, Settled
<1>3. CASE Response
  <2>1. PICK reason \in Stops \ {"none"}, n \in 0..MaxCalls[run] : Respond(reason, n)
    BY <1>3 DEF Response
  <2>2. n \in Nat /\ phase = "planning" /\ run \in 0..MaxRuns
    BY <2>1, BoundsAssumption DEF TypeInv, TypeOK, Respond
  <2>3. Row("reply", n) \in Known
    BY <2>2, RowType DEF TypeInv, TypeOK, Kinds, Known, Row
  <2>4. Append(messages, Row("reply", n)) \in Seq(Known) /\ Append(messages, Row("reply", n)) # <<>>
    BY <2>3, AppendProperties DEF KnownInv
  <2>5. messages' \in Seq(Known)
    BY <2>1, <2>2, <2>4, AddResultKnown DEF Respond
  <2>6. QED
    BY <2>1, <2>2, <2>5 DEF Respond, KnownInv, Known, Settled
<1>4. CASE ToolReturns
  <2>1. messages' \in Seq(Known) /\ phase = "acting"
    BY <1>4, AddResultKnown DEF ToolReturns, TypeInv, PhaseFits, KnownInv
  <2>2. QED
    BY <1>4, <2>1 DEF ToolReturns, KnownInv, Known, Settled
<1>5. CASE CompactRun
  <2>1. messages' \in Seq(Known)
    BY <1>5, SummarisedKnown DEF CompactRun, KnownInv
  <2>2. QED
    BY <1>5, <2>1 DEF CompactRun, KnownInv, Known, Settled
<1>6. CASE Finish \/ CrashSaving
  <2>1. Produced \in Seq(Known)
    BY ProducedIn DEF KnownInv, TypeInv, TypeOK
  <2>2. thread' \in Seq(Known)
    BY <1>6, <2>1, WriteIn DEF Finish, CrashSaving, KnownInv, TypeInv, TypeOK
  <2>3. QED
    BY <1>6, <2>2, RestsKnown DEF Finish, CrashSaving
<1>7. CASE Drop \/ Crash
  BY <1>7, RestsKnown DEF Drop, Crash, KnownInv
<1>8. CASE CompactThread \/ CrashCompacting
  <2>1. thread' \in Seq(Known)
    BY <1>8, SummarisedKnown DEF CompactThread, CrashCompacting
  <2>2. QED
    BY <1>8, <2>1 DEF CompactThread, CrashCompacting, KnownInv, Known
<1>9. CASE CrashBeginning
  <2>1. thread' \in Seq(Settled')
    BY <1>9, NewRunKnown DEF CrashBeginning
  <2>2. Settled' \subseteq Known' /\ Known \subseteq Known'
    BY SMTT(30), <1>9 DEF CrashBeginning, TypeInv, TypeOK, Settled, Known, Message
  <2>3. QED
    BY <1>9, <2>1, <2>2, SeqMonotonic DEF CrashBeginning, KnownInv
<1>10. CASE UNCHANGED vars
  BY <1>10 DEF vars, KnownInv, Known, Settled
<1>11. QED
  BY <1>1, <1>2, <1>3, <1>4, <1>5, <1>6, <1>7, <1>8, <1>9, <1>10
  DEF Next, Progress

-----------------------------------------------------------------------------
(* How a prompt grows.                                                     *)

LEMMA AppendPaired ==
  ASSUME NEW msgs \in Seq(Message), Closed(msgs), NEW m \in Message, m.kind # "results"
  PROVE  /\ Paired(Append(msgs, m))
         /\ ~Asks(m) => Closed(Append(msgs, m))
<1> DEFINE grown == Append(msgs, m)
           l == Len(msgs)
<1>1. /\ l \in Nat /\ Len(grown) = l + 1 /\ grown[l + 1] = m
      /\ \A i \in 1..l : grown[i] = msgs[i] /\ msgs[i] \in Message
  BY AppendProperties, ElementOfSeq
<1> HIDE DEF grown
<1>2. ASSUME NEW i \in 1..l, Asks(msgs[i])
      PROVE  /\ i < l /\ msgs[i + 1].kind = "results" /\ SameStep(msgs[i + 1], msgs[i])
             /\ msgs[i + 1].n = msgs[i].n
  <2>1. i < l
    BY <1>1, <1>2 DEF Closed, Open
  <2>2. /\ msgs[i + 1].kind = "results" /\ SameStep(msgs[i + 1], msgs[i])
        /\ msgs[i + 1].n <= msgs[i].n
        /\ i + 1 < l => msgs[i + 1].n = msgs[i].n
    BY <1>2, <2>1 DEF Closed, Paired
  <2>3. i + 1 = l => ~(msgs[i + 1].n < msgs[i].n)
    BY <1>1, <2>2 DEF Closed, Open
  <2>4. msgs[i + 1].n \in Nat /\ msgs[i].n \in Nat
    BY SMTT(30), <1>1, <2>1 DEF Message
  <2>5. i + 1 = l \/ i + 1 < l
    BY <1>1, <2>1
  <2>6. msgs[i + 1].n = msgs[i].n
    BY <2>2, <2>3, <2>4, <2>5
  <2>7. QED
    BY <2>1, <2>2, <2>6
<1>3. ASSUME NEW i \in 1..(l + 1), Asks(grown[i]), i < l + 1
      PROVE  /\ grown[i + 1].kind = "results" /\ SameStep(grown[i + 1], grown[i])
             /\ grown[i + 1].n <= grown[i].n
             /\ grown[i + 1].n = grown[i].n
  <2>1. i \in 1..l /\ grown[i] = msgs[i]
    BY <1>1, <1>3
  <2>2. i + 1 \in 1..l /\ msgs[i + 1].n = msgs[i].n
    BY <1>1, <1>2, <1>3, <2>1
  <2>3. grown[i + 1] = msgs[i + 1] /\ msgs[i].n \in Nat
    BY <1>1, <2>1, <2>2 DEF Message
  <2>4. QED
    BY <1>2, <1>3, <2>1, <2>2, <2>3
<1>4. ASSUME NEW i \in 1..(l + 1), grown[i].kind = "results"
      PROVE  i > 1 /\ Asks(grown[i - 1])
  <2>1. i \in 1..l /\ msgs[i].kind = "results"
    BY <1>1, <1>4
  <2>2. i > 1 /\ Asks(msgs[i - 1])
    BY <2>1 DEF Closed, Paired
  <2>3. QED
    BY <1>1, <2>1, <2>2
<1>5. Paired(grown)
  BY <1>1, <1>3, <1>4 DEF Paired
<1>6. ~Asks(m) => ~Open(grown)
  BY <1>1 DEF Open
<1>7. QED
  BY <1>5, <1>6 DEF Closed, grown

\* The results of a step follow its calls.
LEMMA AnswerPaired ==
  ASSUME NEW msgs \in Seq(Message), Paired(msgs), msgs # <<>>, Asks(msgs[Len(msgs)]),
         NEW m \in Message, m.kind = "results", SameStep(m, msgs[Len(msgs)]),
         m.n <= msgs[Len(msgs)].n
  PROVE  /\ Paired(Append(msgs, m))
         /\ m.n = msgs[Len(msgs)].n => Closed(Append(msgs, m))
<1> DEFINE grown == Append(msgs, m)
           l == Len(msgs)
<1>1. /\ l \in Nat \ {0} /\ Len(grown) = l + 1 /\ grown[l + 1] = m
      /\ \A i \in 1..l : grown[i] = msgs[i] /\ msgs[i] \in Message
  BY AppendProperties, ElementOfSeq, EmptySeq
<1> HIDE DEF grown
<1>2. ASSUME NEW i \in 1..(l + 1), Asks(grown[i]), i < l + 1
      PROVE  /\ grown[i + 1].kind = "results" /\ SameStep(grown[i + 1], grown[i])
             /\ grown[i + 1].n <= grown[i].n
             /\ i + 1 < l + 1 => grown[i + 1].n = grown[i].n
  <2>1. CASE i = l
    BY <1>1, <2>1
  <2>2. CASE i < l
    <3>1. i \in 1..l /\ i + 1 \in 1..l /\ Asks(msgs[i])
      BY <1>1, <1>2, <2>2
    <3>2. /\ msgs[i + 1].kind = "results" /\ SameStep(msgs[i + 1], msgs[i])
          /\ msgs[i + 1].n <= msgs[i].n
          /\ i + 1 < l => msgs[i + 1].n = msgs[i].n
      BY <2>2, <3>1 DEF Paired
    <3>3. i + 1 # l
      BY <3>2 DEF Asks
    <3>4. QED
      BY <1>1, <2>2, <3>1, <3>2, <3>3
  <2>3. QED
    BY <1>1, <1>2, <2>1, <2>2
<1>3. ASSUME NEW i \in 1..(l + 1), grown[i].kind = "results"
      PROVE  i > 1 /\ Asks(grown[i - 1])
  <2>1. CASE i = l + 1
    BY <1>1, <2>1
  <2>2. CASE i \in 1..l
    <3>1. i > 1 /\ Asks(msgs[i - 1])
      BY <1>1, <1>3, <2>2 DEF Paired
    <3>2. QED
      BY <1>1, <2>2, <3>1
  <2>3. QED
    BY <1>1, <2>1, <2>2
<1>4. Paired(grown)
  BY <1>1, <1>2, <1>3 DEF Paired
<1>5. m.n = msgs[l].n => ~Open(grown)
  <2>1. grown[Len(grown)] = m /\ ~Asks(m)
    BY <1>1 DEF Asks
  <2>2. Len(grown) - 1 = l /\ l \in 1..l /\ grown[l] = msgs[l]
    BY <1>1
  <2>3. m.n = msgs[l].n => ~(m.n < msgs[l].n)
    BY <1>1 DEF Message
  <2>4. QED
    BY <2>1, <2>2, <2>3 DEF Open
<1>6. QED
  BY <1>4, <1>5 DEF Closed, grown

\* Further results join the last message.
LEMMA MorePaired ==
  ASSUME NEW msgs \in Seq(Message), Paired(msgs), Len(msgs) > 1,
         msgs[Len(msgs)].kind = "results", NEW d \in Nat,
         msgs[Len(msgs)].n + d <= msgs[Len(msgs) - 1].n,
         NEW grown \in Seq(Message), Len(grown) = Len(msgs),
         \A i \in 1..(Len(msgs) - 1) : grown[i] = msgs[i],
         grown[Len(msgs)] = [msgs[Len(msgs)] EXCEPT !.n = @ + d]
  PROVE  /\ Paired(grown)
         /\ msgs[Len(msgs)].n + d = msgs[Len(msgs) - 1].n => Closed(grown)
<1> DEFINE l == Len(msgs)
<1>1. l \in Nat /\ l > 1 /\ \A i \in 1..l : msgs[i] \in Message
  BY ElementOfSeq
<1>2. /\ grown[l].kind = "results" /\ grown[l].n = msgs[l].n + d
      /\ grown[l].run = msgs[l].run /\ grown[l].step = msgs[l].step
  BY <1>1 DEF Message
<1>3. ASSUME NEW i \in 1..l, Asks(grown[i]), i < l
      PROVE  /\ grown[i + 1].kind = "results" /\ SameStep(grown[i + 1], grown[i])
             /\ grown[i + 1].n <= grown[i].n
             /\ i + 1 < l => grown[i + 1].n = grown[i].n
  <2>1. grown[i] = msgs[i] /\ i + 1 \in 1..l
    BY <1>1, <1>3
  <2>2. /\ msgs[i + 1].kind = "results" /\ SameStep(msgs[i + 1], msgs[i])
        /\ msgs[i + 1].n <= msgs[i].n
        /\ i + 1 < l => msgs[i + 1].n = msgs[i].n
    BY <1>3, <2>1 DEF Paired
  <2>3. CASE i + 1 = l
    <3>1. i = l - 1 /\ i + 1 = l /\ grown[i + 1] = grown[l] /\ msgs[i + 1] = msgs[l]
      BY <1>1, <2>3
    <3>2. grown[l].n <= grown[i].n
      BY <1>2, <2>1, <3>1
    <3>3. SameStep(grown[l], grown[i])
      BY <1>2, <2>1, <2>2, <3>1 DEF SameStep
    <3>4. QED
      BY <1>2, <3>1, <3>2, <3>3
  <2>4. CASE i + 1 < l
    BY <1>1, <2>1, <2>2, <2>4
  <2>5. QED
    BY <1>1, <1>3, <2>3, <2>4
<1>4. ASSUME NEW i \in 1..l, grown[i].kind = "results"
      PROVE  i > 1 /\ Asks(grown[i - 1])
  <2>1. msgs[i].kind = "results"
    BY <1>1, <1>4
  <2>2. i > 1 /\ Asks(msgs[i - 1])
    BY <2>1 DEF Paired
  <2>3. QED
    BY <1>1, <2>2
<1>5. Paired(grown)
  BY <1>1, <1>3, <1>4 DEF Paired
<1>6. ASSUME msgs[l].n + d = msgs[l - 1].n PROVE ~Open(grown)
  <2>1. grown[l - 1] = msgs[l - 1] /\ msgs[l - 1].n \in Nat
    <3>1. l - 1 \in 1..(l - 1) /\ l - 1 \in 1..l
      BY <1>1
    <3>2. grown[l - 1] = msgs[l - 1] /\ msgs[l - 1] \in Message
      BY <1>1, <3>1
    <3>3. QED
      BY <3>2 DEF Message
  <2>2. grown[l].n = msgs[l - 1].n
    BY <1>2, <1>6
  <2>3. ~(grown[l].n < grown[l - 1].n) /\ ~Asks(grown[l])
    BY <1>2, <2>1, <2>2 DEF Asks
  <2>4. QED
    BY <2>3 DEF Open
<1>7. QED
  BY <1>5, <1>6 DEF Closed

-----------------------------------------------------------------------------
(* What is read, prompted and saved.                                       *)

\* k of the last calls, made in this step, are not yet answered.
Unanswered(msgs, k) ==
  /\ Len(msgs) > 0
  /\ msgs[Len(msgs)].run = run /\ msgs[Len(msgs)].step = step
  /\ \/ Asks(msgs[Len(msgs)]) /\ msgs[Len(msgs)].n = k
     \/ /\ msgs[Len(msgs)].kind = "results" /\ Len(msgs) > 1
        /\ msgs[Len(msgs) - 1].n = msgs[Len(msgs)].n + k

ReadFits(msgs) == Closed(msgs) /\ StartsWell(msgs)

\* The calls in the prompt are answered whenever the run can go on from it.
PromptFits ==
  /\ Paired(messages) /\ StartsWell(messages)
  /\ phase \in {"starting", "planning", "compacting"} => Closed(messages)
  /\ phase = "observing" /\ status = "running" => Closed(messages)
  /\ phase = "acting" => Unanswered(messages, todo)

\* The prompt is what was read and what the run added to it.
PromptExtends ==
  /\ prefill <= Len(messages)
  /\ SubSeq(messages, 1, prefill) = Trim(thread)
  /\ \A i \in (prefill + 1)..Len(messages) : messages[i].run = run
  /\ phase = "acting" => prefill < Len(messages)

ReadInv ==
  /\ cut # "saved" => ReadFits(Trim(thread))
  /\ phase # "idle" /\ cut # "saved" => PromptFits
  /\ phase # "idle" /\ cut = "no" => PromptExtends

\* A result answers the first call that has none, and moves nothing else.
LEMMA AddResultPaired ==
  ASSUME TypeOK, NEW msgs \in Seq(Message), Paired(msgs),
         NEW k \in Nat, Unanswered(msgs, k), NEW d \in 1..k
  PROVE  /\ Paired(AddResult(msgs, d))
         /\ d = k => Closed(AddResult(msgs, d))
         /\ d < k => Unanswered(AddResult(msgs, d), k - d)
         /\ AddResult(msgs, d) \in Seq(Message)
         /\ Len(AddResult(msgs, d)) >= Len(msgs)
         /\ \A i \in 1..(Len(msgs) - 1) : AddResult(msgs, d)[i] = msgs[i]
         /\ \A i \in 1..Len(msgs) : /\ AddResult(msgs, d)[i].kind = msgs[i].kind
                                    /\ AddResult(msgs, d)[i].run = msgs[i].run
         /\ \A i \in (Len(msgs) + 1)..Len(AddResult(msgs, d)) : AddResult(msgs, d)[i].run = run
<1> DEFINE grown == AddResult(msgs, d)
           l == Len(msgs)
           last == msgs[l]
<1>1. /\ l \in Nat \ {0} /\ l \in 1..l /\ Last(msgs) = last /\ msgs # <<>>
      /\ \A i \in 1..l : msgs[i] \in Message
  BY EmptySeq, ElementOfSeq DEF Unanswered, Last
<1>2. last \in Message /\ last.run = run /\ last.step = step /\ d \in Nat /\ d # 0
  BY <1>1 DEF Unanswered
<1>3. grown \in Seq(Message)
  BY <1>1, <1>2, AddResultType
<1>4. CASE Asks(last) /\ last.n = k
  <2> DEFINE row == Row("results", d)
  <2>1. /\ row \in Message /\ row.kind = "results" /\ row.n = d
        /\ row.run = run /\ row.step = step
    BY <1>2, RowType DEF Row, Kinds
  <2>2. grown = Append(msgs, row)
    BY <1>1, <1>2, <1>4 DEF AddResult, Asks
  <2>3. Len(grown) = l + 1 /\ grown[l + 1] = row /\ \A i \in 1..l : grown[i] = msgs[i]
    BY <2>1, <2>2, AppendProperties
  <2>4. SameStep(row, last) /\ row.n <= last.n
    BY <1>2, <1>4, <2>1 DEF SameStep
  <2> HIDE DEF row
  <2>5. Paired(grown) /\ (d = k => Closed(grown))
    BY <1>1, <1>4, <2>1, <2>2, <2>4, AnswerPaired
  <2> HIDE DEF grown
  <2>6. d < k => Unanswered(grown, k - d)
    <3>1. Len(grown) > 1 /\ Len(grown) - 1 = l /\ grown[Len(grown)] = row /\ grown[l] = last
      BY <1>1, <2>3
    <3>2. last.n = d + (k - d)
      BY <1>4
    <3>3. QED
      BY <2>1, <3>1, <3>2 DEF Unanswered
  <2>7. \A i \in (l + 1)..Len(grown) : grown[i].run = run
    BY <1>1, <2>1, <2>3
  <2>8. QED
    BY <1>1, <1>3, <2>3, <2>5, <2>6, <2>7 DEF grown
<1>5. CASE last.kind = "results" /\ l > 1 /\ msgs[l - 1].n = last.n + k
  <2> DEFINE more == [last EXCEPT !.n = @ + d]
  <2>1. /\ more \in Message /\ more.kind = "results" /\ more.n = last.n + d
        /\ more.run = run /\ more.step = step
    BY <1>2, <1>5, MoreType DEF Message
  <2>2. grown = [msgs EXCEPT ![l] = more]
    BY <1>1, <1>2, <1>5 DEF AddResult
  <2>3. /\ Len(grown) = l /\ grown[l] = more
        /\ \A i \in 1..l : i # l => grown[i] = msgs[i]
    BY <1>1, <2>1, <2>2, ExceptSeq
  <2>4. \A i \in 1..(l - 1) : grown[i] = msgs[i]
    BY <1>1, <2>3
  <2> HIDE DEF grown
  <2>5. /\ last.n + d <= msgs[l - 1].n
        /\ d = k => last.n + d = msgs[l - 1].n
        /\ msgs[l - 1].n = (last.n + d) + (k - d)
    BY SMTT(30), <1>2, <1>5 DEF Message
  <2>6. Paired(grown) /\ (d = k => Closed(grown))
    BY <1>2, <1>3, <1>5, <2>3, <2>4, <2>5, MorePaired
  <2>7. grown[l - 1] = msgs[l - 1]
    <3>1. l - 1 \in 1..(l - 1)
      BY <1>1, <1>5
    <3>2. QED
      BY <2>4, <3>1
  <2> HIDE DEF more, last
  <2>8. d < k => Unanswered(grown, k - d)
    BY <1>5, <2>1, <2>3, <2>5, <2>7 DEF Unanswered
  <2>9. \A i \in 1..l : grown[i].kind = msgs[i].kind /\ grown[i].run = msgs[i].run
    BY <1>2, <1>5, <2>1, <2>3 DEF last
  <2>10. QED
    BY <1>1, <1>3, <2>3, <2>4, <2>6, <2>8, <2>9 DEF grown
<1>6. QED
  BY <1>4, <1>5 DEF Unanswered

-----------------------------------------------------------------------------
(* What is written can be read.                                            *)

\* Behind an orphan nothing is read, and otherwise the thread has been closed.
LEMMA AppendedFits ==
  ASSUME NEW msgs \in Seq(Message), ReadFits(Trim(msgs)), NEW rows \in Seq(Message),
         \A i \in 1..Len(msgs), j \in 1..Len(rows) :
           Asks(msgs[i]) => ~Answers(rows[j], msgs[i]),
         Trim(msgs) = msgs => Paired(msgs \o rows) /\ StartsWell(msgs \o rows)
  PROVE  ReadFits(Trim(msgs \o rows))
<1>1. CASE Pending(msgs, Len(msgs))
  BY <1>1, TrimOrphan
<1>2. CASE ~Pending(msgs, Len(msgs))
  <2>1. Trim(msgs) = msgs
    BY <1>2, TrimBalanced
  <2>2. msgs \o rows \in Seq(Message)
    BY ConcatProperties
  <2>3. QED
    BY <2>1, <2>2, TrimPaired DEF ReadFits
<1>3. QED
  BY <1>1, <1>2

LEMMA WrittenPart ==
  ASSUME thread \in Seq(Message), ~torn, NEW rows \in Seq(Message),
         Write(rows) \/ WriteInPart(rows)
  PROVE  \E w \in 0..Len(rows) : thread' = thread \o SubSeq(rows, 1, w)
<1>1. CASE Write(rows)
  <2>1. thread' = thread \o rows
    BY <1>1 DEF Write, Appended
  <2>2. SubSeq(rows, 1, Len(rows)) = rows /\ Len(rows) \in 0..Len(rows)
    BY SubSeqFull, LenProperties
  <2>3. QED
    BY <2>1, <2>2
<1>2. CASE WriteInPart(rows)
  <2>1. PICK w \in 0..(Len(rows) - 1) : thread' = Appended(SubSeq(rows, 1, w))
    BY <1>2 DEF WriteInPart
  <2>2. w \in 0..Len(rows)
    BY <2>1
  <2>3. QED
    BY <2>1, <2>2 DEF Appended
<1>3. QED
  BY <1>1, <1>2

\* A goal alone is a prompt.
LEMMA GoalAlone ==
  ASSUME Goal \in Message
  PROVE  <<Goal>> \in Seq(Message) /\ Closed(<<Goal>>) /\ StartsWell(<<Goal>>)
<1>1. <<Goal>> \in Seq(Message) /\ Len(<<Goal>>) = 1 /\ <<Goal>>[1] = Goal /\ Goal.kind = "goal"
  BY DEF Goal
<1>2. ~Asks(Goal) /\ FromUser(Goal)
  BY <1>1 DEF Asks, FromUser
<1> DEFINE alone == <<Goal>>
<1> HIDE DEF alone
<1>3. QED
  BY <1>1, <1>2 DEF Closed, Paired, Open, StartsWell, alone

\* The goal of the next run is written, or lost in a torn row.
LEMMA GoalWritten ==
  ASSUME TypeOK, run < MaxRuns, Write(<<Goal>>) \/ WriteInPart(<<Goal>>)
  PROVE  thread' = thread \/ thread' = thread \o <<Goal>>
<1>1. Goal \in Message /\ thread \in Seq(Message)
  BY GoalType DEF TypeOK
<1>2. thread \o <<>> = thread
  BY <1>1, ConcatEmptySeq
<1>3. Len(<<Goal>>) = 1 /\ Tail(<<Goal>>) = <<>>
  OBVIOUS
<1>4. SubSeq(<<Goal>>, 1, 0) = <<>>
  <2>1. 1 \in Int /\ 0 \in Int /\ 0 < 1
    OBVIOUS
  <2>2. QED
    BY ONLY <2>1, SubSeqEmpty
<1>5. CASE Write(<<Goal>>)
  BY <1>2, <1>3, <1>5 DEF Write, Appended
<1>6. CASE WriteInPart(<<Goal>>)
  <2>1. PICK w \in 0..(Len(<<Goal>>) - 1) : thread' = Appended(SubSeq(<<Goal>>, 1, w))
    BY <1>6 DEF WriteInPart
  <2>2. w = 0
    BY <1>3, <2>1
  <2>3. QED
    BY <1>2, <1>4, <2>1, <2>2 DEF Appended
<1>7. QED
  BY <1>5, <1>6

\* The goal of a run, appended whole, in part or to a torn row.
LEMMA GoalFits ==
  ASSUME TypeInv, KnownInv, ReadInv, run < MaxRuns, phase = "idle", cut # "saved",
         Write(<<Goal>>) \/ WriteInPart(<<Goal>>)
  PROVE  ReadFits(Trim(thread'))
<1>1. /\ thread \in Seq(Message) /\ torn \in BOOLEAN /\ Goal \in Message
      /\ <<Goal>> \in Seq(Message) /\ Len(<<Goal>>) = 1
      /\ ReadFits(Trim(thread))
  BY GoalType, GoalAlone DEF TypeInv, TypeOK, ReadInv
<1>2. Goal.kind = "goal" /\ ~Asks(Goal) /\ FromUser(Goal)
  BY DEF Goal, Asks, FromUser
<1>3. thread' = thread \/ thread' = thread \o <<Goal>>
  BY GoalWritten DEF TypeInv
<1>4. ReadFits(Trim(thread \o <<Goal>>))
  <2>1. ASSUME NEW i \in 1..Len(thread), NEW j \in 1..Len(<<Goal>>)
        PROVE  ~Answers(<<Goal>>[j], thread[i])
    <3>1. j = 1
      BY <1>1
    <3>2. QED
      BY <1>2, <3>1 DEF Answers
  <2>2. ASSUME Trim(thread) = thread
        PROVE  Paired(thread \o <<Goal>>) /\ StartsWell(thread \o <<Goal>>)
    <3>1. thread \o <<Goal>> = Append(thread, Goal)
      BY <1>1, AppendIsConcat
    <3>2. Paired(Append(thread, Goal))
      BY <1>1, <1>2, <2>2, AppendPaired DEF ReadFits
    <3>3. Append(thread, Goal)[1] = IF Len(thread) = 0 THEN Goal ELSE thread[1]
      BY <1>1, AppendProperties, LenProperties
    <3>4. Len(thread) \in Nat /\ (Len(thread) > 0 => FromUser(thread[1]))
      BY <1>1, <2>2 DEF ReadFits, StartsWell
    <3>5. FromUser(Append(thread, Goal)[1])
      <4>1. CASE Len(thread) = 0
        BY <1>2, <3>3, <4>1
      <4>2. CASE Len(thread) > 0
        BY <3>3, <3>4, <4>2
      <4>3. QED
        BY <3>4, <4>1, <4>2
    <3>6. QED
      BY <3>1, <3>2, <3>5 DEF StartsWell
  <2>3. QED
    BY <1>1, <2>1, <2>2, AppendedFits
<1>5. QED
  BY <1>1, <1>3, <1>4

\* What a run added, saved whole or in part.
LEMMA SavedFits ==
  ASSUME TypeInv, KnownInv, ReadInv, phase = "finishing", cut = "no",
         Write(Produced) \/ WriteInPart(Produced)
  PROVE  ReadFits(Trim(thread'))
<1>1. /\ thread \in Seq(Message) /\ messages \in Seq(Message) /\ prefill \in Nat /\ ~torn
      /\ run \in Nat /\ thread \in Seq(Settled)
      /\ ReadFits(Trim(thread)) /\ PromptFits /\ PromptExtends
  BY DEF TypeInv, TypeOK, PhaseFits, KnownInv, ReadInv
<1> DEFINE l == Len(messages)
<1>2. l \in Nat /\ prefill \in 0..l
  BY <1>1 DEF PromptExtends
<1>3. /\ Produced \in Seq(Message) /\ Len(Produced) = l - prefill
      /\ \A i \in 1..(l - prefill) : Produced[i] = messages[prefill + i]
  <2>1. \A i \in (prefill + 1)..l : messages[i] \in Message
    BY <1>1, ElementOfSeq
  <2>2. prefill + 1 \in Int /\ l \in Int
    BY <1>1, <1>2
  <2>3. /\ Produced \in Seq(Message)
        /\ Len(Produced) = IF prefill + 1 <= l THEN l - (prefill + 1) + 1 ELSE 0
        /\ \A i \in 1..(l - (prefill + 1) + 1) : Produced[i] = messages[(prefill + 1) + i - 1]
    BY <2>1, <2>2, SubSeqProperties DEF Produced
  <2>4. QED
    BY <1>2, <2>3
<1>4. PICK w \in 0..Len(Produced) : thread' = thread \o SubSeq(Produced, 1, w)
  BY <1>1, <1>3, WrittenPart
<1> DEFINE rows == SubSeq(Produced, 1, w)
<1>5. /\ rows \in Seq(Message) /\ Len(rows) = w /\ w \in Nat /\ prefill + w <= l
      /\ \A i \in 1..w : rows[i] = messages[prefill + i]
  <2>1. w \in Nat /\ w <= l - prefill
    BY <1>2, <1>3
  <2>2. \A i \in 1..w : rows[i] = Produced[i]
    BY <1>3, Prefix
  <2>3. QED
    BY <1>2, <1>3, <2>1, <2>2, Prefix
<1>6. rows = SubSeq(messages, prefill + 1, prefill + w)
  <2> DEFINE part == SubSeq(messages, prefill + 1, prefill + w)
  <2>1. \A i \in (prefill + 1)..(prefill + w) : messages[i] \in Message
    BY <1>1, <1>2, <1>5, ElementOfSeq
  <2>2. prefill + 1 \in Int /\ prefill + w \in Int
    BY <1>1, <1>5
  <2>3. /\ part \in Seq(Message)
        /\ Len(part) = IF prefill + 1 <= prefill + w THEN (prefill + w) - (prefill + 1) + 1 ELSE 0
        /\ \A i \in 1..((prefill + w) - (prefill + 1) + 1) : part[i] = messages[(prefill + 1) + i - 1]
    BY <2>1, <2>2, SubSeqProperties
  <2> HIDE DEF part
  <2>4. Len(part) = w /\ \A i \in 1..w : part[i] = messages[prefill + i]
    BY SMTT(30), <1>2, <1>5, <2>3
  <2> HIDE DEF rows
  <2>5. rows = part
    BY <1>5, <2>3, <2>4, SeqEqual
  <2>6. QED
    BY <2>5 DEF part
<1> HIDE DEF rows
<1>7. ASSUME NEW i \in 1..Len(thread), Asks(thread[i]), NEW j \in 1..Len(rows)
      PROVE  ~Answers(rows[j], thread[i])
  <2>1. thread[i] \in Settled
    BY <1>1, ElementOfSeq
  <2>2. thread[i].run < run
    <3>1. thread[i].kind = "reply"
      BY <1>7 DEF Asks
    <3>2. QED
      BY <2>1, <3>1 DEF Settled
  <2>3. prefill + j \in (prefill + 1)..l /\ rows[j] = messages[prefill + j]
    BY <1>2, <1>5
  <2>4. rows[j].run = run
    BY <1>1, <2>3 DEF PromptExtends
  <2>5. thread[i].run # run
    <3>1. thread[i].run \in Nat
      BY <2>1 DEF Settled, Message
    <3>2. QED
      BY <1>1, <2>2, <3>1
  <2>6. QED
    BY <2>4, <2>5 DEF Answers, SameStep
<1>8. ASSUME Trim(thread) = thread
      PROVE  Paired(thread \o rows) /\ StartsWell(thread \o rows)
  <2> DEFINE k == prefill + w
  <2>1. k \in 0..l
    BY <1>2, <1>5
  <2>2. thread = SubSeq(messages, 1, prefill)
    BY <1>1, <1>8 DEF PromptExtends
  <2>3. SubSeq(messages, 1, prefill) \o SubSeq(messages, prefill + 1, k) = SubSeq(messages, 1, k)
    <3>1. 1 \in 1..(l + 1) /\ prefill \in (1 - 1)..l /\ k \in prefill..l
      BY <1>2, <1>5
    <3> HIDE DEF k
    <3>2. QED
      BY <1>1, <3>1, ConcatAdjacentSubSeq
  <2>4. thread \o rows = SubSeq(messages, 1, k)
    BY <1>6, <2>2, <2>3
  <2> HIDE DEF k
  <2>5. Paired(SubSeq(messages, 1, k))
    BY <1>1, <2>1, PrefixPaired DEF PromptFits
  <2>6. StartsWell(SubSeq(messages, 1, k))
    BY <1>1, <1>2, <2>1, Prefix DEF PromptFits, StartsWell
  <2>7. QED
    BY <2>4, <2>5, <2>6
<1>9. ReadFits(Trim(thread \o rows))
  BY <1>1, <1>5, <1>7, <1>8, AppendedFits
<1>10. QED
  BY <1>4, <1>9 DEF rows

-----------------------------------------------------------------------------
(* Every step keeps what is read valid, and the prompt.                    *)

LEMMA InitReads == Init => ReadInv
<1>1. <<>> \in Seq(Message) /\ Len(<<>>) = 0
  BY EmptySeq
<1>2. Closed(<<>>) /\ StartsWell(<<>>)
  BY <1>1 DEF Closed, Paired, Open, StartsWell
<1>3. ~Pending(<<>>, Len(<<>>))
  BY <1>1 DEF Pending
<1>4. Trim(<<>>) = <<>>
  BY <1>1, <1>3, TrimBalanced
<1>5. QED
  BY <1>2, <1>4 DEF Init, ReadInv, ReadFits

\* A summary is a beginning a thread can be cut at and go on from.
LEMMA SummarisedFits ==
  ASSUME TypeOK
  PROVE  /\ Summarised \in Seq(Message) /\ ReadFits(Summarised)
         /\ \A k \in 0..2 : ReadFits(Trim(SubSeq(Summarised, 1, k)))
         /\ ReadFits(Trim(Summarised))
<1>1. Summarised \in Seq(Message)
  BY SummarisedType
<1>2. /\ Len(Summarised) = 2
      /\ Summarised[1].kind = "summary" /\ Summarised[2].kind = "ack"
  BY DEF Summarised, Fixed
<1>3. \A i \in 1..Len(Summarised) : ~Asks(Summarised[i]) /\ Summarised[i].kind # "results"
  <2>1. \A i \in 1..2 : i = 1 \/ i = 2
    OBVIOUS
  <2>2. QED
    BY <1>2, <2>1 DEF Asks
<1>4. Paired(Summarised)
  BY <1>3 DEF Paired
<1>5. ~Open(Summarised)
  BY <1>2 DEF Open, Asks
<1>6. StartsWell(Summarised)
  BY <1>2 DEF StartsWell, FromUser
<1>7. ASSUME NEW k \in 0..2 PROVE ReadFits(Trim(SubSeq(Summarised, 1, k)))
  <2>1. k \in 0..Len(Summarised)
    BY <1>2
  <2>2. Paired(SubSeq(Summarised, 1, k))
    BY <1>1, <1>4, <2>1, PrefixPaired
  <2>3. /\ SubSeq(Summarised, 1, k) \in Seq(Message) /\ Len(SubSeq(Summarised, 1, k)) = k
        /\ \A i \in 1..k : SubSeq(Summarised, 1, k)[i] = Summarised[i]
    BY <1>1, <2>1, Prefix
  <2>4. StartsWell(SubSeq(Summarised, 1, k))
    <3>1. k > 0 => 1 \in 1..k
      BY <2>1
    <3>2. QED
      BY <1>2, <2>3, <3>1 DEF StartsWell, FromUser
  <2>5. QED
    BY <2>2, <2>3, <2>4, TrimPaired DEF ReadFits
<1>8. ReadFits(Trim(Summarised))
  BY <1>1, <1>4, <1>6, TrimPaired DEF ReadFits
<1>9. QED
  BY <1>1, <1>4, <1>5, <1>6, <1>7, <1>8 DEF ReadFits, Closed

\* Between runs only the thread counts.
LEMMA IdleReads ==
  ASSUME phase' = "idle", cut' # "saved" => ReadFits(Trim(thread'))
  PROVE  ReadInv'
BY DEF ReadInv

LEMMA BeginReads ==
  ASSUME TypeInv, TypeInv', KnownInv, ReadInv, Begin
  PROVE  ReadInv'
<1> SUFFICES ASSUME cut' # "saved" PROVE ReadInv'
  BY DEF ReadInv
<1>1. /\ phase = "idle" /\ run < MaxRuns /\ Write(<<Goal>>) /\ cut' = cut /\ run' = run + 1
      /\ messages' = IF Trim(thread') = <<>> THEN <<Goal>> ELSE Trim(thread')
      /\ prefill' = Len(Trim(thread')) /\ phase' = "starting"
  BY DEF Begin
<1>2. Goal \in Message /\ Goal.run = run'
  BY <1>1, GoalType DEF TypeInv, Goal
<1>3. <<Goal>> \in Seq(Message) /\ ReadFits(<<Goal>>) /\ Len(<<Goal>>) = 1 /\ <<Goal>>[1] = Goal
  BY <1>2, GoalAlone DEF ReadFits
<1>4. thread' \in Seq(Message)
  BY DEF TypeInv, TypeOK
<1> DEFINE read == Trim(thread')
<1>5. ReadFits(read)
  BY <1>1, GoalFits
<1>6. read \in Seq(Message)
  BY <1>4, TrimFacts
<1> HIDE DEF read
<1>7. PromptFits'
  <2>1. ReadFits(messages')
    BY <1>1, <1>3, <1>5 DEF read
  <2>2. QED
    BY <1>1, <2>1 DEF PromptFits, ReadFits, Closed, Paired, Open, StartsWell
<1>8. PromptExtends'
  <2>1. CASE read = <<>>
    <3>1. messages' = <<Goal>> /\ prefill' = 0
      BY <1>1, <2>1 DEF read
    <3>2. SubSeq(messages', 1, prefill') = <<>>
      <4>1. 1 \in Int /\ 0 \in Int /\ 0 < 1
        OBVIOUS
      <4>2. SubSeq(messages', 1, 0) = <<>>
        BY ONLY <4>1, SubSeqEmpty
      <4>3. QED
        BY <3>1, <4>2
    <3>3. \A i \in 1..1 : messages'[i].run = run'
      BY <1>2, <1>3, <3>1
    <3>4. prefill' + 1 = 1 /\ Len(messages') = 1
      BY <1>3, <3>1
    <3>5. QED
      BY <1>1, <2>1, <3>1, <3>2, <3>3, <3>4 DEF PromptExtends, read
  <2>2. CASE read # <<>>
    <3>1. messages' = read /\ prefill' = Len(read) /\ Len(read) \in Nat
      BY <1>1, <1>6, <2>2 DEF read
    <3>2. SubSeq(messages', 1, prefill') = read
      BY <1>6, <3>1, SubSeqFull
    <3>3. \A i \in (prefill' + 1)..Len(messages') : FALSE
      BY <3>1
    <3>4. QED
      BY <1>1, <3>1, <3>2, <3>3 DEF PromptExtends, read
  <2>3. QED
    BY <2>1, <2>2
<1>9. QED
  BY <1>1, <1>5, <1>7, <1>8 DEF ReadInv, read

\* What comes after the prefill may change, as long as the current run says it.
LEMMA ExtendsMore ==
  ASSUME TypeInv, TypeInv', PromptExtends, UNCHANGED <<thread, run, prefill>>,
         NEW l \in Nat, prefill <= l, l <= Len(messages), l <= Len(messages'),
         \A i \in 1..l : messages'[i] = messages[i],
         \A i \in (l + 1)..Len(messages') : messages'[i].run = run,
         phase' = "acting" => prefill < Len(messages')
  PROVE  PromptExtends'
<1>1. /\ messages \in Seq(Message) /\ messages' \in Seq(Message) /\ prefill \in Nat
      /\ Len(messages) \in Nat /\ Len(messages') \in Nat
  BY LenProperties DEF TypeInv, TypeOK
<1>2. prefill \in 0..Len(messages) /\ prefill \in 0..Len(messages')
  BY <1>1
<1>3. SubSeq(messages', 1, prefill) = SubSeq(messages, 1, prefill)
  <2>1. \A i \in 1..prefill : SubSeq(messages', 1, prefill)[i] = SubSeq(messages, 1, prefill)[i]
    BY <1>1, <1>2, Prefix
  <2>2. QED
    BY <1>1, <1>2, <2>1, Prefix, SeqEqual
<1>4. ASSUME NEW i \in (prefill + 1)..Len(messages') PROVE messages'[i].run = run
  <2>1. CASE i <= l
    <3>1. i \in 1..l /\ i \in (prefill + 1)..Len(messages)
      BY <1>1, <2>1
    <3>2. QED
      BY <3>1 DEF PromptExtends
  <2>2. CASE i > l
    BY <1>1, <2>2
  <2>3. QED
    BY <1>1, <2>1, <2>2
<1>5. QED
  BY <1>2, <1>3, <1>4 DEF PromptExtends

LEMMA RespondReads ==
  ASSUME TypeInv, TypeInv', ReadInv,
         NEW reason \in Stops \ {"none"}, NEW n \in 0..MaxCalls[run], Respond(reason, n)
  PROVE  ReadInv'
<1>1. /\ phase = "planning" /\ UNCHANGED <<thread, torn, run, prefill, step, cut>>
      /\ n \in Nat /\ messages \in Seq(Message) /\ messages' \in Seq(Message)
  BY BoundsAssumption DEF TypeInv, TypeOK, Respond
<1> SUFFICES ASSUME cut # "saved" PROVE PromptFits' /\ (cut = "no" => PromptExtends')
  BY <1>1 DEF ReadInv
<1>2. Closed(messages) /\ StartsWell(messages) /\ (cut = "no" => PromptExtends)
  BY <1>1 DEF ReadInv, PromptFits
<1> DEFINE l == Len(messages)
           row == Row("reply", n)
           asked == Append(messages, row)
<1>3. /\ row \in Message /\ row.kind = "reply" /\ row.n = n
      /\ row.run = run /\ row.step = step
  BY <1>1, RowType DEF TypeInv, Row, Kinds
<1>4. /\ l \in Nat \ {0} /\ asked \in Seq(Message) /\ Len(asked) = l + 1 /\ asked[l + 1] = row
      /\ \A i \in 1..l : asked[i] = messages[i]
  BY <1>1, <1>3, AppendProperties, EmptySeq DEF TypeInv, PhaseFits
<1> HIDE DEF row
<1>5. Paired(asked) /\ (n = 0 => Closed(asked))
  BY <1>1, <1>2, <1>3, AppendPaired DEF Asks
<1>6. messages' = AddResult(asked, IF reason = "max_tokens" THEN n ELSE 0)
  BY DEF Respond, row
<1> HIDE DEF asked
<1>7. n > 0 => Unanswered(asked, n)
  BY <1>3, <1>4 DEF Unanswered, Asks
<1>8. /\ Paired(messages') /\ Len(messages') >= l + 1
      /\ \A i \in 1..l : messages'[i] = messages[i]
      /\ \A i \in (l + 1)..Len(messages') : messages'[i].run = run
      /\ n = 0 \/ reason = "max_tokens" => Closed(messages')
      /\ reason # "max_tokens" => messages' = asked
  <2>1. CASE n > 0 /\ reason = "max_tokens"
    <3>1. messages' = AddResult(asked, n) /\ n \in 1..n
      <4>1. n \in 1..n
        BY <1>1, <2>1
      <4>2. QED
        BY <1>6, <2>1, <4>1
    <3>2. /\ Closed(messages') /\ Len(messages') >= Len(asked)
          /\ \A i \in 1..(Len(asked) - 1) : messages'[i] = asked[i]
          /\ \A i \in 1..Len(asked) : messages'[i].run = asked[i].run
          /\ \A i \in (Len(asked) + 1)..Len(messages') : messages'[i].run = run
      <4>1. TypeOK /\ asked \in Seq(Message) /\ Paired(asked) /\ n \in Nat /\ n \in 1..n /\ n = n
        BY <1>1, <1>4, <1>5, <3>1 DEF TypeInv
      <4>2. Unanswered(asked, n)
        BY <1>7, <2>1
      <4> HIDE DEF l
      <4>3. QED
        BY ONLY <3>1, <4>1, <4>2, AddResultPaired
    <3>3. Len(asked) - 1 = l /\ l + 1 \in 1..Len(asked) /\ Len(messages') \in Nat
      BY <1>1, <1>4
    <3>4. \A i \in 1..l : messages'[i] = messages[i]
      BY <1>4, <3>2, <3>3
    <3>5. \A i \in (l + 1)..Len(messages') : i = l + 1 \/ i \in (Len(asked) + 1)..Len(messages')
      BY <1>4, <3>3
    <3>6. messages'[l + 1].run = run
      BY <1>3, <1>4, <3>2, <3>3
    <3>7. QED
      BY <1>4, <2>1, <3>2, <3>4, <3>5, <3>6 DEF Closed
  <2>2. CASE ~(n > 0 /\ reason = "max_tokens")
    <3>1. messages' = asked
      BY <1>1, <1>6, <2>2 DEF AddResult
    <3>2. \A i \in (l + 1)..(l + 1) : i = l + 1
      BY <1>4
    <3>3. \A i \in (l + 1)..Len(asked) : asked[i].run = run
      BY <1>3, <1>4, <3>2
    <3>4. l + 1 >= l + 1
      BY <1>4
    <3>5. QED
      BY <1>1, <1>4, <1>5, <2>2, <3>1, <3>3, <3>4
  <2>3. QED
    BY <2>1, <2>2
<1>9. PromptFits'
  <2>1. StartsWell(messages')
    BY <1>2, <1>4, <1>8 DEF StartsWell
  <2>2. CASE reason = "tool_use" /\ n > 0
    <3>1. todo' = n /\ phase' = "acting" /\ messages' = asked
      BY <1>8, <2>2 DEF Respond
    <3>2. Unanswered(messages', todo')
      BY <1>7, <2>2, <3>1
    <3>3. QED
      BY <1>1, <1>8, <2>1, <3>1, <3>2 DEF PromptFits, Unanswered
  <2>3. CASE ~(reason = "tool_use" /\ n > 0)
    <3>1. Ends(reason)
      BY <2>3 DEF Respond
    <3>2. n = 0 \/ reason \in {"max_tokens", "end_turn"}
      BY <1>1, <2>3 DEF Stops
    <3>3. reason = "end_turn" => status' = "success" /\ phase' = "observing"
      BY <3>1 DEF Ends
    <3>4. phase' # "acting"
      BY <3>1 DEF Ends
    <3>5. Closed(messages') \/ (status' = "success" /\ phase' = "observing")
      BY <1>8, <3>2, <3>3
    <3>6. QED
      BY <1>8, <2>1, <3>4, <3>5 DEF PromptFits, Closed, Paired, Open, StartsWell
  <2>4. QED
    BY <2>2, <2>3
<1>10. ASSUME cut = "no" PROVE PromptExtends'
  <2>1. PromptExtends
    BY <1>2, <1>10
  <2>2. /\ prefill <= l /\ l <= Len(messages) /\ l <= Len(messages') /\ l \in Nat
        /\ prefill < Len(messages')
    <3>1. prefill \in Nat /\ Len(messages') \in Nat
      BY <1>1, LenProperties DEF TypeInv, TypeOK
    <3>2. prefill <= l
      BY <2>1 DEF PromptExtends
    <3> HIDE DEF l
    <3>3. QED
      BY <1>4, <1>8, <3>1, <3>2 DEF l
  <2>3. UNCHANGED <<thread, run, prefill>>
    BY <1>1
  <2> HIDE DEF l
  <2>4. QED
    BY <1>8, <2>1, <2>2, <2>3, ExtendsMore
<1>11. QED
  BY <1>9, <1>10

LEMMA ToolReturnsReads ==
  ASSUME TypeInv, TypeInv', ReadInv, ToolReturns
  PROVE  ReadInv'
<1>1. /\ phase = "acting" /\ UNCHANGED <<thread, torn, run, prefill, step, cut>>
      /\ messages \in Seq(Message) /\ messages' \in Seq(Message)
      /\ messages' = AddResult(messages, 1) /\ todo \in Nat /\ todo > 0 /\ todo' = todo - 1
      /\ prefill \in Nat
  BY BoundsAssumption DEF TypeInv, TypeOK, PhaseFits, ToolReturns
<1> SUFFICES ASSUME cut # "saved" PROVE PromptFits' /\ (cut = "no" => PromptExtends')
  BY <1>1 DEF ReadInv
<1>2. /\ Paired(messages) /\ StartsWell(messages) /\ Unanswered(messages, todo)
      /\ cut = "no" => PromptExtends
  BY <1>1 DEF ReadInv, PromptFits
<1> DEFINE l == Len(messages)
<1>3. l \in Nat \ {0} /\ messages[l].run = run /\ Len(messages') \in Nat
  BY <1>1, <1>2, LenProperties DEF Unanswered
<1>4. /\ Paired(messages')
      /\ 1 = todo => Closed(messages')
      /\ 1 < todo => Unanswered(messages', todo - 1)
      /\ Len(messages') >= l
      /\ \A i \in 1..(l - 1) : messages'[i] = messages[i]
      /\ \A i \in 1..l : messages'[i].kind = messages[i].kind /\ messages'[i].run = messages[i].run
      /\ \A i \in (l + 1)..Len(messages') : messages'[i].run = run
  <2>1. 1 \in 1..todo
    BY <1>1
  <2>2. QED
    BY <1>1, <1>2, <2>1, AddResultPaired DEF TypeInv
<1>5. StartsWell(messages')
  <2>1. 1 \in 1..l /\ FromUser(messages[1])
    BY <1>2, <1>3 DEF StartsWell
  <2>2. QED
    BY <1>4, <2>1 DEF StartsWell, FromUser
<1>6. PromptFits'
  <2>1. CASE todo = 1
    <3>1. Closed(messages') /\ phase' # "acting"
      BY <1>4, <2>1 DEF ToolReturns, Ends
    <3>2. QED
      BY <1>5, <3>1 DEF PromptFits, Closed, Paired, Open, StartsWell
  <2>2. CASE todo # 1
    <3>1. phase' = "acting" /\ 1 < todo
      BY <1>1, <2>2 DEF ToolReturns
    <3>2. Unanswered(messages', todo')
      BY <1>1, <1>4, <3>1
    <3>3. QED
      BY <1>1, <1>4, <1>5, <3>1, <3>2 DEF PromptFits, Unanswered
  <2>3. QED
    BY <2>1, <2>2
<1>7. ASSUME cut = "no" PROVE PromptExtends'
  <2> DEFINE k == l - 1
  <2>1. PromptExtends /\ prefill < l
    BY <1>1, <1>2, <1>7 DEF PromptExtends
  <2>2. /\ k \in Nat /\ prefill <= k /\ k <= Len(messages) /\ k <= Len(messages')
        /\ prefill < Len(messages')
    BY <1>1, <1>3, <1>4, <2>1
  <2>3. \A i \in (k + 1)..Len(messages') : i = l \/ i \in (l + 1)..Len(messages')
    BY <1>3
  <2>4. messages'[l].run = run
    BY <1>3, <1>4
  <2>5. \A i \in (k + 1)..Len(messages') : messages'[i].run = run
    BY <1>4, <2>3, <2>4
  <2>6. \A i \in 1..k : messages'[i] = messages[i]
    BY <1>4
  <2>7. UNCHANGED <<thread, run, prefill>>
    BY <1>1
  <2> HIDE DEF k
  <2>8. QED
    BY <2>1, <2>2, <2>5, <2>6, <2>7, ExtendsMore
<1>8. QED
  BY <1>6, <1>7

LEMMA NextReads == TypeInv /\ TypeInv' /\ KnownInv /\ ReadInv /\ [Next]_vars => ReadInv'
<1> SUFFICES ASSUME TypeInv, TypeInv', KnownInv, ReadInv, [Next]_vars PROVE ReadInv'
  OBVIOUS
<1>1. CASE Begin
  BY <1>1, BeginReads
<1>2. CASE Start \/ StartFails
  BY <1>2 DEF Start, StartFails, ReadInv, PromptFits, PromptExtends
<1>3. CASE Response
  BY <1>3, RespondReads DEF Response
<1>4. CASE ToolReturns
  BY <1>4, ToolReturnsReads
<1>5. CASE CompactRun
  <2>1. CASE UNCHANGED <<messages, cut>>
    BY <1>5, <2>1 DEF CompactRun, ReadInv, PromptFits, PromptExtends
  <2>2. CASE messages' = Summarised /\ cut' = IF cut = "no" THEN "run" ELSE cut
    <3>1. Closed(Summarised) /\ StartsWell(Summarised)
      BY SummarisedFits DEF TypeInv, ReadFits
    <3>2. PromptFits'
      <4>1. Closed(messages') /\ StartsWell(messages') /\ phase' = "observing"
        BY <1>5, <2>2, <3>1 DEF CompactRun
      <4>2. QED
        BY <4>1 DEF PromptFits, Closed, Paired, Open, StartsWell
    <3>3. thread' = thread /\ cut' # "no" /\ (cut' # "saved" => cut # "saved")
      BY <1>5, <2>2 DEF CompactRun
    <3>4. QED
      BY <3>2, <3>3 DEF ReadInv
  <2>3. QED
    BY <1>5, <2>1, <2>2 DEF CompactRun
<1>6. CASE Observe
  <2>1. /\ UNCHANGED <<thread, run, messages, prefill, cut>> /\ phase = "observing"
        /\ phase' \in {"planning", "finishing"}
        /\ phase' = "planning" => status = "running"
    BY <1>6 DEF Observe
  <2>2. QED
    BY <2>1 DEF ReadInv, PromptFits, PromptExtends
<1>7. ASSUME NEW reason \in {"cancelled", "llm_error"}, Abort(reason) PROVE ReadInv'
  <2>1. /\ UNCHANGED <<thread, run, messages, prefill, cut>> /\ phase # "idle"
        /\ phase' = "finishing"
    BY <1>7 DEF Abort, InLoop
  <2>2. QED
    BY <2>1 DEF ReadInv, PromptFits, PromptExtends
<1>8. CASE Finish \/ CrashSaving
  <2>1. phase' = "idle" /\ cut' = IF cut = "run" THEN "saved" ELSE cut
    BY <1>8 DEF Finish, CrashSaving, Rests
  <2>2. ASSUME cut' # "saved" PROVE ReadFits(Trim(thread'))
    <3>1. cut = "no"
      BY <2>1, <2>2 DEF TypeInv, TypeOK
    <3>2. QED
      BY <1>8, <3>1, SavedFits DEF Finish, CrashSaving
  <2>3. QED
    BY <2>1, <2>2, IdleReads
<1>9. CASE Drop \/ Crash
  <2>1. phase' = "idle" /\ cut' = (IF cut = "run" THEN "no" ELSE cut) /\ thread' = thread
    BY <1>9 DEF Drop, Crash, Rests
  <2>2. QED
    BY <2>1 DEF ReadInv
<1>10. CASE CompactThread
  <2>1. phase' = "idle" /\ thread' = Summarised
    BY <1>10 DEF CompactThread
  <2>2. QED
    BY <2>1, SummarisedFits, IdleReads DEF TypeInv
<1>11. CASE CrashCompacting
  <2>1. PICK w \in 0..1 : thread' = SubSeq(Summarised, 1, w)
    BY <1>11 DEF CrashCompacting
  <2>2. w \in 0..2 /\ phase' = "idle"
    BY <1>11 DEF CrashCompacting
  <2>3. ReadFits(Trim(thread'))
    BY <2>1, <2>2, SummarisedFits DEF TypeInv
  <2>4. QED
    BY <2>2, <2>3, IdleReads
<1>12. CASE CrashBeginning
  <2>1. /\ phase = "idle" /\ phase' = "idle" /\ run < MaxRuns /\ cut' = cut
        /\ WriteInPart(<<Goal>>)
    BY <1>12 DEF CrashBeginning
  <2>2. QED
    BY <2>1, GoalFits, IdleReads
<1>13. CASE UNCHANGED vars
  BY <1>13 DEF vars, ReadInv, PromptFits, PromptExtends, Unanswered
<1>14. QED
  BY <1>1, <1>2, <1>3, <1>4, <1>5, <1>6, <1>7, <1>8, <1>9, <1>10, <1>11, <1>12, <1>13
  DEF Next, Progress

\* Whatever was cancelled, lost, torn or compacted before, the model is only
\* prompted with messages it accepts, until a run saves what it compacted itself.
THEOREM PromptTheorem == Spec => []PromptsAreValid
<1> DEFINE Inv == TypeInv /\ KnownInv /\ ReadInv
<1>1. Init => Inv
  BY InitType, InitKnown, InitReads
<1>2. Inv /\ [Next]_vars => Inv'
  BY NextType, NextKnown, NextReads
<1>3. Inv => PromptsAreValid
  <2> SUFFICES ASSUME Inv, phase = "planning", cut # "saved" PROVE Valid(messages)
    BY DEF PromptsAreValid
  <2>1. Closed(messages) /\ StartsWell(messages)
    BY DEF ReadInv, PromptFits
  <2>2. messages \in Seq(Message) /\ messages # <<>>
    BY DEF TypeInv, TypeOK, PhaseFits
  <2>3. QED
    BY <2>1, <2>2, ClosedIsValid
<1>4. QED
  BY <1>1, <1>2, <1>3, PTL DEF Spec

-----------------------------------------------------------------------------
(* The order of the thread.                                                *)

\* The rows that tell of what happened.
Said(m) == m.kind \notin {"summary", "ack"}

\* From the message number k on, what is said is in order.
InOrder(msgs, k) ==
  \A i, j \in k..Len(msgs) : i < j /\ Said(msgs[i]) /\ Said(msgs[j]) => Before(msgs[i], msgs[j])

\* A row of run r, in its step st or before; a goal only where no other row was.
Own(m, r, st, fresh) ==
  Said(m) => /\ m.run = r /\ m.step <= st
             /\ IF m.kind = "goal" THEN fresh /\ m.step = 0 ELSE m.step > 0

OwnRows(msgs, k, r, st, fresh) ==
  InOrder(msgs, k) /\ \A i \in k..Len(msgs) : Own(msgs[i], r, st, fresh)

\* The last message is of step st, to which results can be added.
Answerable(msgs, r, st) ==
  LET m == msgs[Len(msgs)] IN m.kind \in {"reply", "results"} /\ m.run = r /\ m.step = st

\* A first message that asks for nothing and answers nothing.
FirstRow(m) == m.kind \in {"goal", "summary"}

\* Nothing the run has said is older than its step, or in the order of another run.
SayInv ==
  /\ phase # "idle" =>
       /\ OwnRows(messages, prefill + 1, run, step, thread = <<>>)
       /\ thread = <<>> => prefill = 0 /\ FirstRow(messages[1])
  /\ phase \in InLoop => step > 0
  /\ phase \in {"starting", "planning"} =>
       \A i \in (prefill + 1)..Len(messages) :
         Said(messages[i]) => messages[i].kind = "goal" \/ messages[i].step < step
  /\ phase = "starting" =>
       \A i \in (prefill + 1)..Len(messages) : Said(messages[i]) => messages[i].kind = "goal"
  /\ phase = "acting" => Answerable(messages, run, step)

\* The thread begins a prompt, so some of it is always read.
FileInv ==
  /\ InOrder(thread, 1)
  /\ thread # <<>> => FirstRow(thread[1])
  /\ \A i \in 1..Len(thread) : thread[i].kind = "goal" => thread[i].step = 0

OrderInv == SayInv /\ FileInv

-----------------------------------------------------------------------------
LEMMA InitOrder == Init => OrderInv
BY DEF Init, OrderInv, SayInv, FileInv, InOrder, InLoop

\* Order is a matter of kinds, runs and steps.
LEMMA SameOrder ==
  ASSUME NEW a, NEW b, NEW k, NEW r, NEW st, NEW fresh, Len(a) = Len(b),
         \A i \in k..Len(a) : a[i].kind = b[i].kind /\ a[i].run = b[i].run /\ a[i].step = b[i].step,
         OwnRows(a, k, r, st, fresh)
  PROVE  OwnRows(b, k, r, st, fresh)
<1>1. \A i \in k..Len(a) : (Said(a[i]) <=> Said(b[i])) /\ Rank(a[i]) = Rank(b[i])
  BY DEF Said, Rank
<1>2. InOrder(b, k)
  BY <1>1 DEF OwnRows, InOrder, Before, SameStep
<1>3. \A i \in k..Len(b) : Own(b[i], r, st, fresh)
  BY <1>1 DEF OwnRows, Own
<1>4. QED
  BY <1>2, <1>3 DEF OwnRows

\* Another row behind the last.
LEMMA RowBehind ==
  ASSUME NEW msgs \in Seq(Message), NEW m \in Message, NEW k \in Nat \ {0},
         NEW r, NEW st, NEW fresh,
         OwnRows(msgs, k, r, st, fresh), Own(m, r, st, fresh),
         \A i \in k..Len(msgs) : Said(msgs[i]) /\ Said(m) => Before(msgs[i], m)
  PROVE  OwnRows(Append(msgs, m), k, r, st, fresh)
<1> DEFINE more == Append(msgs, m)
<1>1. /\ Len(more) = Len(msgs) + 1 /\ Len(msgs) \in Nat
      /\ \A i \in 1..Len(msgs) : more[i] = msgs[i]
      /\ more[Len(msgs) + 1] = m
  BY AppendProperties
<1> HIDE DEF more
<1>2. \A i \in k..Len(more) : (i \in k..Len(msgs) /\ more[i] = msgs[i]) \/ (i = Len(msgs) + 1 /\ more[i] = m)
  BY <1>1
<1>3. InOrder(more, k)
  <2> SUFFICES ASSUME NEW i \in k..Len(more), NEW j \in k..Len(more), i < j,
                      Said(more[i]), Said(more[j])
               PROVE  Before(more[i], more[j])
    BY DEF InOrder
  <2>1. i \in k..Len(msgs) /\ more[i] = msgs[i]
    BY <1>1, <1>2
  <2>2. CASE j \in k..Len(msgs) /\ more[j] = msgs[j]
    BY <2>1, <2>2 DEF OwnRows, InOrder
  <2>3. CASE j = Len(msgs) + 1 /\ more[j] = m
    BY <2>1, <2>3
  <2>4. QED
    BY <1>2, <2>2, <2>3
<1>4. \A i \in k..Len(more) : Own(more[i], r, st, fresh)
  BY <1>2 DEF OwnRows
<1>5. QED
  BY <1>3, <1>4 DEF OwnRows, more

\* Results join or follow the row they answer.
LEMMA AddResultOrder ==
  ASSUME TypeOK, NEW msgs \in Seq(Message), msgs # <<>>, NEW n \in Nat, NEW k \in Nat \ {0},
         NEW fresh, OwnRows(msgs, k, run, step, fresh), Answerable(msgs, run, step), step > 0
  PROVE  /\ OwnRows(AddResult(msgs, n), k, run, step, fresh)
         /\ Answerable(AddResult(msgs, n), run, step)
         /\ Len(AddResult(msgs, n)) >= Len(msgs)
         /\ AddResult(msgs, n)[1].kind = msgs[1].kind
<1> DEFINE l == Len(msgs)
           all == AddResult(msgs, n)
<1>1. l \in Nat \ {0} /\ l \in 1..l /\ 1 \in 1..l
  BY EmptySeq
<1>2. msgs[l] \in Message /\ msgs[l].kind \in {"reply", "results"} /\ msgs[l].run = run /\ msgs[l].step = step
  BY <1>1, ElementOfSeq DEF Answerable
<1>3. CASE n = 0
  BY <1>1, <1>3 DEF AddResult
<1>4. CASE n # 0 /\ msgs[l].kind = "results"
  <2> DEFINE x == [msgs[l] EXCEPT !.n = @ + n]
  <2>1. x \in Message /\ x.kind = msgs[l].kind /\ x.run = msgs[l].run /\ x.step = msgs[l].step
    BY <1>2, MoreType DEF Message
  <2>2. all = [msgs EXCEPT ![l] = x]
    BY <1>1, <1>4 DEF AddResult, Last
  <2> HIDE DEF x, all
  <2>3. Len(all) = l /\ \A i \in 1..l : all[i] = IF i = l THEN x ELSE msgs[i]
    BY <1>1, <2>1, <2>2, ExceptSeq
  <2>4. \A i \in 1..l : msgs[i].kind = all[i].kind /\ msgs[i].run = all[i].run /\ msgs[i].step = all[i].step
    BY <2>1, <2>3
  <2>5. OwnRows(all, k, run, step, fresh)
    <3>1. \A i \in k..l : i \in 1..l
      BY <1>1
    <3>2. QED
      BY <2>3, <2>4, <3>1, SameOrder
  <2>6. Answerable(all, run, step) /\ all[1].kind = msgs[1].kind
    BY <1>1, <1>2, <2>3, <2>4 DEF Answerable
  <2>7. QED
    BY <1>1, <2>3, <2>5, <2>6 DEF all
<1>5. CASE n # 0 /\ msgs[l].kind # "results"
  <2> DEFINE x == Row("results", n)
  <2>1. all = Append(msgs, x)
    BY <1>5 DEF AddResult, Last
  <2>2. x \in Message /\ x.kind = "results" /\ x.run = run /\ x.step = step
    BY RowType DEF Row, Kinds
  <2> HIDE DEF x, all
  <2>3. /\ Len(all) = l + 1 /\ all[l + 1] = x /\ \A i \in 1..l : all[i] = msgs[i]
    BY <2>1, <2>2, AppendProperties
  <2>4. Own(x, run, step, fresh)
    BY <2>2 DEF Own, TypeOK
  <2>5. ASSUME NEW i \in k..l, Said(msgs[i])
        PROVE  Before(msgs[i], x)
    <3>1. CASE i = l
      BY <1>2, <1>5, <2>2, <3>1 DEF Before, SameStep, Rank
    <3>2. CASE i # l
      <4>1. l \in k..l /\ i < l /\ Said(msgs[l]) /\ i \in 1..l
        BY <1>1, <1>2, <3>2 DEF Said
      <4>2. Before(msgs[i], msgs[l]) /\ msgs[i].run = run
        BY <2>5, <4>1 DEF OwnRows, InOrder, Own
      <4>3. msgs[i] \in Message /\ run \in Nat
        BY <4>1, ElementOfSeq DEF TypeOK
      <4>4. ~(msgs[i].run < run)
        BY <4>2, <4>3
      <4>5. CASE msgs[i].step < step
        BY <2>2, <4>2, <4>5 DEF Before
      <4>6. CASE SameStep(msgs[i], msgs[l]) /\ Rank(msgs[i]) < Rank(msgs[l])
        <5>1. msgs[l].kind = "reply"
          BY <1>2, <1>5
        <5>2. msgs[i].kind = "goal"
          BY <2>5, <4>3, <4>6, <5>1 DEF Rank, Said, Message, Kinds
        <5>3. QED
          BY <1>2, <2>2, <4>6, <5>2 DEF Before, SameStep, Rank
      <4>7. QED
        BY <1>2, <4>2, <4>4, <4>5, <4>6 DEF Before
    <3>3. QED
      BY <3>1, <3>2
  <2>6. OwnRows(all, k, run, step, fresh)
    BY <2>1, <2>2, <2>4, <2>5, RowBehind
  <2>7. Answerable(all, run, step) /\ all[1].kind = msgs[1].kind
    BY <1>1, <2>2, <2>3 DEF Answerable
  <2>8. QED
    BY <1>1, <2>3, <2>6, <2>7 DEF all
<1>6. QED
  BY <1>3, <1>4, <1>5

\* What a run has produced, or the part of it that is written.
LEMMA ProducedRows ==
  ASSUME TypeOK, NEW w \in 0..Len(Produced)
  PROVE  /\ Produced \in Seq(Message)
         /\ SubSeq(Produced, 1, w) \in Seq(Message) /\ Len(SubSeq(Produced, 1, w)) = w /\ w \in Nat
         /\ \A i \in 1..w : /\ prefill + i \in (prefill + 1)..Len(messages)
                            /\ SubSeq(Produced, 1, w)[i] = messages[prefill + i]
<1> DEFINE l == Len(messages)
<1>1. messages \in Seq(Message) /\ prefill \in Nat /\ l \in Nat
  BY LenProperties DEF TypeOK
<1>2. \A i \in (prefill + 1)..l : messages[i] \in Message
  BY <1>1, ElementOfSeq
<1>3. prefill + 1 \in Int /\ l \in Int
  BY <1>1
<1>4. /\ Produced \in Seq(Message)
      /\ Len(Produced) = IF prefill + 1 <= l THEN l - (prefill + 1) + 1 ELSE 0
      /\ \A i \in 1..(l - (prefill + 1) + 1) : Produced[i] = messages[(prefill + 1) + i - 1]
  BY <1>2, <1>3, SubSeqProperties DEF Produced
<1> HIDE DEF l
<1>5. \A i \in 1..w : /\ prefill + i \in (prefill + 1)..l
                     /\ Produced[i] = messages[prefill + i]
  BY <1>1, <1>4
<1>6. w \in Nat /\ \A i \in 1..w : SubSeq(Produced, 1, w)[i] = Produced[i]
  BY <1>4, Prefix
<1>7. QED
  BY <1>4, <1>5, <1>6, Prefix DEF l

\* What a run saves comes after all that other runs have saved.
LEMMA SavedOrder ==
  ASSUME TypeInv, KnownInv, OrderInv, phase = "finishing",
         Write(Produced) \/ WriteInPart(Produced)
  PROVE  FileInv'
<1>1. /\ TypeOK /\ thread \in Seq(Message) /\ messages \in Seq(Message) /\ prefill \in Nat /\ ~torn
      /\ run \in Nat /\ thread \in Seq(Settled)
      /\ OwnRows(messages, prefill + 1, run, step, thread = <<>>)
      /\ thread = <<>> => prefill = 0 /\ FirstRow(messages[1])
  BY DEF TypeInv, TypeOK, PhaseFits, KnownInv, OrderInv, SayInv
<1>2. Produced \in Seq(Message)
  BY <1>1, ProducedIn
<1>3. PICK w \in 0..Len(Produced) : thread' = thread \o SubSeq(Produced, 1, w)
  BY <1>1, <1>2, WrittenPart
<1> DEFINE rows == SubSeq(Produced, 1, w)
           l == Len(thread)
<1>4. /\ rows \in Seq(Message) /\ Len(rows) = w /\ w \in Nat
      /\ \A i \in 1..w : prefill + i \in (prefill + 1)..Len(messages) /\ rows[i] = messages[prefill + i]
  BY <1>1, ProducedRows
<1>5. /\ Len(thread') = l + w /\ l \in Nat
      /\ \A i \in 1..(l + w) : thread'[i] = IF i <= l THEN thread[i] ELSE rows[i - l]
  BY <1>1, <1>3, <1>4, ConcatProperties
<1> HIDE DEF rows
<1>6. ASSUME NEW i \in (l + 1)..(l + w)
      PROVE  /\ i - l \in 1..w /\ thread'[i] = messages[prefill + (i - l)]
             /\ prefill + (i - l) \in (prefill + 1)..Len(messages)
             /\ Own(thread'[i], run, step, thread = <<>>) /\ thread'[i] \in Message
  <2>1. i - l \in 1..w /\ i \in 1..(l + w) /\ ~(i <= l)
    BY <1>4, <1>5
  <2>2. thread'[i] = messages[prefill + (i - l)] /\ prefill + (i - l) \in (prefill + 1)..Len(messages)
    BY <1>4, <1>5, <2>1
  <2>3. Own(thread'[i], run, step, thread = <<>>)
    BY <1>1, <2>2 DEF OwnRows
  <2>4. thread'[i] \in Message
    BY <1>1, <2>2, ElementOfSeq
  <2>5. QED
    BY <2>1, <2>2, <2>3, <2>4
<1>7. \A i \in 1..l : thread'[i] = thread[i] /\ thread[i] \in Settled
  BY <1>1, <1>4, <1>5, ElementOfSeq
<1>8. InOrder(thread', 1)
  <2> SUFFICES ASSUME NEW i \in 1..Len(thread'), NEW j \in 1..Len(thread'), i < j,
                      Said(thread'[i]), Said(thread'[j])
               PROVE  Before(thread'[i], thread'[j])
    BY DEF InOrder
  <2>1. CASE j <= l
    BY <1>5, <1>7, <2>1 DEF OrderInv, FileInv, InOrder
  <2>2. CASE i <= l /\ j > l
    <3>1. /\ thread'[i] = thread[i] /\ thread[i] \in Settled /\ l # 0 /\ i \in 1..l
      BY <1>5, <1>7, <2>2
    <3>2. j \in (l + 1)..(l + w) /\ thread # <<>>
      BY <1>5, <2>2, <3>1
    <3>3. thread'[j].run = run /\ thread'[j].step > 0
      BY <1>6, <3>2 DEF Own
    <3>4. CASE thread[i].run < run
      BY <3>1, <3>3, <3>4 DEF Before
    <3>5. CASE thread[i].run = run /\ thread[i].kind = "goal"
      <4>1. thread[i].step = 0
        BY <3>1, <3>5 DEF OrderInv, FileInv
      <4>2. QED
        BY <3>1, <3>3, <3>5, <4>1 DEF Before
    <3>6. QED
      BY <3>1, <3>4, <3>5 DEF Settled
  <2>3. CASE i > l
    <3>1. i \in (l + 1)..(l + w) /\ j \in (l + 1)..(l + w)
      BY <1>5, <2>3
    <3>2. prefill + (i - l) < prefill + (j - l)
      BY <1>1, <1>5
    <3>3. QED
      BY <1>1, <1>6, <3>1, <3>2 DEF OwnRows, InOrder
  <2>4. QED
    BY <1>5, <2>1, <2>2, <2>3
<1>9. thread' # <<>> => FirstRow(thread'[1])
  <2>1. CASE thread # <<>>
    <3>1. 1 \in 1..l
      BY <1>1, <2>1, EmptySeq
    <3>2. QED
      BY <1>7, <2>1, <3>1 DEF OrderInv, FileInv
  <2>2. CASE thread = <<>> /\ w > 0
    <3>1. l = 0 /\ 1 \in (l + 1)..(l + w)
      BY <1>4, <1>5, <2>2
    <3>2. thread'[1] = messages[1]
      BY <1>1, <1>6, <2>2, <3>1
    <3>3. QED
      BY <1>1, <2>2, <3>2
  <2>3. CASE thread = <<>> /\ w = 0
    <3>1. Len(thread') = 0 /\ thread' \in Seq(Message)
      BY <1>1, <1>3, <1>4, <1>5, <2>3, ConcatProperties DEF rows
    <3>2. QED
      BY <3>1, EmptySeq
  <2>4. QED
    BY <1>4, <2>1, <2>2, <2>3
<1>10. \A i \in 1..Len(thread') : thread'[i].kind = "goal" => thread'[i].step = 0
  <2> SUFFICES ASSUME NEW i \in 1..Len(thread'), thread'[i].kind = "goal"
               PROVE  thread'[i].step = 0
    OBVIOUS
  <2>1. CASE i <= l
    BY <1>5, <1>7, <2>1 DEF OrderInv, FileInv
  <2>2. CASE i > l
    <3>1. i \in (l + 1)..(l + w)
      BY <1>5, <2>2
    <3>2. QED
      BY <1>6, <3>1 DEF Own, Said
  <2>3. QED
    BY <1>5, <2>1, <2>2
<1>11. QED
  BY <1>8, <1>9, <1>10 DEF FileInv

LEMMA GoalOrder ==
  ASSUME TypeInv, KnownInv, OrderInv, run < MaxRuns, Write(<<Goal>>) \/ WriteInPart(<<Goal>>)
  PROVE  FileInv'
<1>1. /\ Goal \in Message /\ Goal.kind = "goal" /\ Goal.run = run + 1 /\ Goal.step = 0
      /\ thread \in Seq(Message) /\ thread \in Seq(Known) /\ run \in Nat
      /\ FileInv
  BY GoalType DEF TypeInv, TypeOK, KnownInv, OrderInv, Goal
<1>2. CASE thread' = thread
  BY <1>1, <1>2 DEF FileInv
<1>3. CASE thread' = thread \o <<Goal>>
  <2> DEFINE l == Len(thread)
             g == Goal
  <2> HIDE DEF g
  <2>1. thread' = thread \o <<g>> /\ g \in Message
    BY <1>1, <1>3 DEF g
  <2>2. <<g>> \in Seq(Message) /\ Len(<<g>>) = 1 /\ <<g>>[1] = g
    BY <2>1
  <2>3. /\ Len(thread') = l + 1 /\ l \in Nat
        /\ \A i \in 1..(l + 1) : thread'[i] = IF i <= l THEN thread[i] ELSE <<g>>[i - l]
    BY <1>1, <2>1, <2>2, ConcatProperties
  <2>4. thread'[l + 1] = g /\ \A i \in 1..l : thread'[i] = thread[i] /\ thread[i].run <= run
    <3>1. \A i \in 1..l : thread[i] \in Known
      BY <1>1, ElementOfSeq
    <3>2. QED
      BY <2>2, <2>3, <3>1 DEF Known
  <2>5. InOrder(thread', 1)
    <3> SUFFICES ASSUME NEW i \in 1..Len(thread'), NEW j \in 1..Len(thread'), i < j,
                        Said(thread'[i]), Said(thread'[j])
                 PROVE  Before(thread'[i], thread'[j])
      BY DEF InOrder
    <3>1. i \in 1..l
      BY <2>3
    <3>2. CASE j \in 1..l
      BY <1>1, <2>4, <3>1, <3>2 DEF FileInv, InOrder
    <3>3. CASE j = l + 1
      <4>1. thread[i].run \in Nat
        <5>1. thread[i] \in Message
          BY <1>1, <3>1, ElementOfSeq
        <5>2. QED
          BY <5>1 DEF Message
      <4>2. thread'[i].run < thread'[j].run
        BY <1>1, <2>4, <3>1, <3>3, <4>1 DEF g
      <4>3. QED
        BY <4>2 DEF Before
    <3>4. QED
      BY <2>3, <3>2, <3>3
  <2>6. FirstRow(thread'[1])
    <3>1. CASE l = 0
      BY <1>1, <2>4, <3>1 DEF FirstRow, g
    <3>2. CASE l # 0
      <4>1. 1 \in 1..l /\ thread # <<>>
        BY <2>3, <3>2
      <4>2. QED
        BY <1>1, <2>4, <4>1 DEF FileInv
    <3>3. QED
      BY <3>1, <3>2
  <2>7. \A i \in 1..Len(thread') : thread'[i].kind = "goal" => thread'[i].step = 0
    <3>1. \A i \in 1..Len(thread') : i \in 1..l \/ i = l + 1
      BY <2>3
    <3>2. QED
      BY <1>1, <2>4, <3>1 DEF FileInv, g
  <2>8. QED
    BY <2>5, <2>6, <2>7 DEF FileInv
<1>4. QED
  BY <1>2, <1>3, GoalWritten DEF TypeInv

\* A thread that begins a prompt is read at least in part.
LEMMA SomeIsRead ==
  ASSUME NEW msgs \in Seq(Message), msgs # <<>>, FirstRow(msgs[1])
  PROVE  Trim(msgs) # <<>>
<1>1. Len(msgs) \in Nat \ {0}
  BY EmptySeq
<1>2. ~Pending(msgs, 1)
  BY DEF Pending, Asks, FirstRow
<1>3. 1 \in Balanced(msgs) /\ Balanced(msgs) \in SUBSET (0..Len(msgs))
  BY <1>1, <1>2 DEF Balanced
<1>4. Max(Balanced(msgs)) >= 1
  BY <1>1, <1>3, HasMaximum
<1>5. Len(Trim(msgs)) = Max(Balanced(msgs)) /\ Max(Balanced(msgs)) \in Nat
  BY <1>1, TrimFacts, Prefix
<1>6. QED
  BY <1>4, <1>5

LEMMA NoneIsRead ==
  ASSUME NEW msgs \in Seq(Message), msgs = <<>>
  PROVE  Trim(msgs) = <<>>
<1>1. Len(msgs) = 0 /\ Max(Balanced(msgs)) \in 0..0 /\ Trim(msgs) = SubSeq(msgs, 1, Max(Balanced(msgs)))
  BY TrimFacts
<1>2. Max(Balanced(msgs)) = 0 /\ 1 \in Int /\ 0 \in Int /\ 0 < 1
  BY <1>1
<1>3. SubSeq(msgs, 1, 0) = <<>>
  BY <1>2, SubSeqEmpty
<1>4. QED
  BY <1>1, <1>2, <1>3

LEMMA BeginOrder ==
  ASSUME TypeInv, TypeInv', KnownInv, OrderInv, Begin
  PROVE  OrderInv'
<1>1. /\ phase' = "starting" /\ run < MaxRuns /\ Write(<<Goal>>) /\ run' = run + 1 /\ step' = 0
      /\ messages' = IF Trim(thread') = <<>> THEN <<Goal>> ELSE Trim(thread')
      /\ prefill' = Len(Trim(thread'))
  BY DEF Begin, TypeInv, PhaseFits
<1>2. FileInv'
  BY <1>1, GoalOrder
<1> DEFINE read == Trim(thread')
           g == Goal
<1>3. thread' \in Seq(Message) /\ read \in Seq(Message) /\ Len(read) \in Nat
  BY TrimFacts DEF TypeInv, TypeOK
<1>4. g.kind = "goal" /\ g.run = run' /\ g.step = 0 /\ Len(<<g>>) = 1 /\ <<g>>[1] = g
  BY <1>1 DEF Goal
<1> HIDE DEF read, g
<1>5. messages' = (IF read = <<>> THEN <<g>> ELSE read) /\ prefill' = Len(read)
  BY <1>1 DEF read, g
<1>6. CASE read = <<>>
  <2>1. thread' = <<>>
    BY <1>2, <1>3, <1>6, SomeIsRead DEF FileInv, read
  <2>2. messages' = <<g>> /\ prefill' = 0 /\ Len(messages') = 1 /\ messages'[1] = g
    BY <1>4, <1>5, <1>6
  <2>3. \A i \in (prefill' + 1)..Len(messages') : messages'[i] = g
    BY <2>2
  <2>4. InOrder(messages', prefill' + 1)
    BY <2>2 DEF InOrder
  <2>5. Own(g, run', step', thread' = <<>>)
    BY <1>1, <1>4, <2>1 DEF Own
  <2>6. SayInv'
    BY <1>1, <1>4, <2>1, <2>2, <2>3, <2>4, <2>5 DEF SayInv, OwnRows, FirstRow, InLoop
  <2>7. QED
    BY <1>2, <2>6 DEF OrderInv
<1>7. CASE read # <<>>
  <2>1. thread' # <<>>
    BY <1>3, <1>7, NoneIsRead DEF read
  <2>2. \A i \in (prefill' + 1)..Len(messages') : FALSE
    BY <1>3, <1>5, <1>7
  <2>3. SayInv'
    BY <1>1, <2>1, <2>2 DEF SayInv, OwnRows, InOrder, InLoop
  <2>4. QED
    BY <1>2, <2>3 DEF OrderInv
<1>8. QED
  BY <1>6, <1>7

LEMMA RespondOrder ==
  ASSUME TypeInv, TypeInv', OrderInv,
         NEW reason \in Stops \ {"none"}, NEW n \in 0..MaxCalls[run], Respond(reason, n)
  PROVE  OrderInv'
<1> DEFINE x == Row("reply", n)
           m == Append(messages, x)
           d == IF reason = "max_tokens" THEN n ELSE 0
<1>1. /\ phase = "planning" /\ n \in Nat /\ run \in 0..MaxRuns /\ TypeOK /\ step > 0
      /\ messages \in Seq(Message) /\ messages # <<>> /\ prefill \in Nat
      /\ OwnRows(messages, prefill + 1, run, step, thread = <<>>)
      /\ thread = <<>> => prefill = 0 /\ FirstRow(messages[1])
      /\ \A i \in (prefill + 1)..Len(messages) :
           Said(messages[i]) => messages[i].kind = "goal" \/ messages[i].step < step
  BY BoundsAssumption DEF Respond, TypeInv, TypeOK, PhaseFits, OrderInv, SayInv, InLoop
<1>2. x \in Message /\ x.kind = "reply" /\ x.run = run /\ x.step = step
  BY <1>1, RowType DEF Row, Kinds
<1>3. messages' = AddResult(m, d) /\ d \in Nat /\ UNCHANGED <<thread, torn, run, prefill, step, cut>>
  BY <1>1 DEF Respond
<1> HIDE DEF x, d
<1>4. Own(x, run, step, thread = <<>>)
  BY <1>1, <1>2 DEF Own, TypeOK
<1>5. \A i \in (prefill + 1)..Len(messages) :
        Said(messages[i]) /\ Said(x) => Before(messages[i], x)
  BY <1>1, <1>2 DEF OwnRows, Own, Before
<1>6. prefill + 1 \in Nat \ {0}
  BY <1>1
<1>7. OwnRows(m, prefill + 1, run, step, thread = <<>>)
  BY <1>1, <1>2, <1>4, <1>5, <1>6, RowBehind
<1>8. /\ m \in Seq(Message) /\ m # <<>> /\ Len(m) = Len(messages) + 1 /\ Len(messages) \in Nat \ {0}
      /\ m[Len(messages) + 1] = x /\ \A i \in 1..Len(messages) : m[i] = messages[i]
  BY <1>1, <1>2, AppendProperties, EmptySeq
<1> HIDE DEF m
<1>9. Answerable(m, run, step)
  BY <1>2, <1>8 DEF Answerable
<1>10. /\ OwnRows(messages', prefill + 1, run, step, thread = <<>>)
       /\ Answerable(messages', run, step) /\ messages'[1].kind = m[1].kind
  BY <1>1, <1>3, <1>6, <1>7, <1>8, <1>9, AddResultOrder
<1>11. thread = <<>> => FirstRow(messages'[1])
  <2>1. m[1] = messages[1]
    BY <1>8
  <2>2. QED
    BY <1>1, <1>10, <2>1 DEF FirstRow
<1>12. phase' \in {"acting", "observing", "compacting"}
  BY DEF Respond, Ends
<1>13. SayInv'
  BY <1>1, <1>3, <1>10, <1>11, <1>12 DEF SayInv
<1>14. FileInv'
  BY <1>3 DEF OrderInv, FileInv
<1>15. QED
  BY <1>13, <1>14 DEF OrderInv

LEMMA ToolReturnsOrder ==
  ASSUME TypeInv, TypeInv', OrderInv, ToolReturns
  PROVE  OrderInv'
<1>1. /\ phase = "acting" /\ TypeOK /\ step > 0
      /\ messages \in Seq(Message) /\ messages # <<>> /\ prefill \in Nat /\ prefill + 1 \in Nat \ {0}
      /\ OwnRows(messages, prefill + 1, run, step, thread = <<>>)
      /\ Answerable(messages, run, step)
      /\ thread = <<>> => prefill = 0 /\ FirstRow(messages[1])
  BY DEF ToolReturns, TypeInv, TypeOK, PhaseFits, OrderInv, SayInv, InLoop
<1>2. messages' = AddResult(messages, 1) /\ UNCHANGED <<thread, torn, run, prefill, step, cut>>
  BY DEF ToolReturns
<1>3. /\ OwnRows(messages', prefill + 1, run, step, thread = <<>>)
      /\ Answerable(messages', run, step) /\ messages'[1].kind = messages[1].kind
  <2>1. 1 \in Nat
    OBVIOUS
  <2>2. QED
    BY <1>1, <1>2, <2>1, AddResultOrder
<1>4. phase' \in {"acting", "observing", "compacting"}
  BY <1>1 DEF ToolReturns, Ends
<1>5. SayInv'
  BY <1>1, <1>2, <1>3, <1>4 DEF SayInv, FirstRow
<1>6. FileInv'
  BY <1>2 DEF OrderInv, FileInv
<1>7. QED
  BY <1>5, <1>6 DEF OrderInv

\* Without a run only the thread counts.
LEMMA IdleOrder ==
  ASSUME phase' = "idle", FileInv'
  PROVE  OrderInv'
BY DEF OrderInv, SayInv, InLoop

\* What is said of the messages depends on nothing else that a step changes.
LEMMA SayKeeps ==
  ASSUME OrderInv, UNCHANGED <<thread, run, messages, prefill, step>>,
         phase # "idle", phase' \in {"compacting", "observing", "finishing"},
         phase' = "finishing" \/ phase \in InLoop
  PROVE  OrderInv'
BY DEF OrderInv, SayInv, FileInv, InLoop

LEMMA SummarisedOrder ==
  ASSUME TypeInv, NEW k \in 0..2, thread' = SubSeq(Summarised, 1, k)
  PROVE  FileInv'
<1>1. Summarised \in Seq(Message)
  BY SummarisedType DEF TypeInv
<1>2. Len(Summarised) = 2 /\ Summarised[1].kind = "summary" /\ Summarised[2].kind = "ack"
  BY DEF Summarised, Fixed
<1>3. Len(thread') = k /\ k \in Nat /\ \A i \in 1..k : thread'[i] = Summarised[i] /\ i \in {1, 2}
  BY <1>1, <1>2, Prefix
<1>4. \A i \in 1..k : ~Said(thread'[i]) /\ thread'[i].kind # "goal"
  BY <1>2, <1>3 DEF Said
<1>5. thread' # <<>> => FirstRow(thread'[1])
  <2>1. thread' \in Seq(Message)
    BY <1>1, <1>2, Prefix
  <2>2. thread' # <<>> => 1 \in 1..k
    BY <1>3, <2>1, EmptySeq
  <2>3. QED
    BY <1>2, <1>3, <2>2 DEF FirstRow
<1>6. QED
  BY <1>3, <1>4, <1>5 DEF FileInv, InOrder

LEMMA CompactRunOrder ==
  ASSUME TypeInv, OrderInv, CompactRun
  PROVE  OrderInv'
<1>1. phase = "compacting" /\ phase' = "observing" /\ UNCHANGED <<thread, run, prefill, step>>
  BY DEF CompactRun
<1>2. CASE messages' = messages
  BY <1>1, <1>2, SayKeeps DEF InLoop
<1>3. CASE messages' = Summarised
  <2>1. /\ Len(messages') = 2 /\ messages'[1].kind = "summary" /\ messages'[2].kind = "ack"
    BY <1>3 DEF Summarised, Fixed
  <2>2. \A i \in (prefill + 1)..Len(messages') : ~Said(messages'[i])
    BY <2>1 DEF Said, TypeInv, TypeOK
  <2>3. OwnRows(messages', prefill + 1, run, step, thread = <<>>)
    BY <2>2 DEF OwnRows, InOrder, Own
  <2>4. SayInv'
    BY <1>1, <2>1, <2>3 DEF OrderInv, SayInv, FirstRow, InLoop
  <2>5. QED
    BY <1>1, <2>4 DEF OrderInv, FileInv
<1>4. QED
  BY <1>2, <1>3 DEF CompactRun

LEMMA NextOrder == TypeInv /\ TypeInv' /\ KnownInv /\ OrderInv /\ [Next]_vars => OrderInv'
<1> SUFFICES ASSUME TypeInv, TypeInv', KnownInv, OrderInv, [Next]_vars PROVE OrderInv'
  OBVIOUS
<1>1. CASE Begin
  BY <1>1, BeginOrder
<1>2. CASE Start
  <2>1. /\ phase = "starting" /\ phase' = "planning" /\ step' = 1
        /\ UNCHANGED <<thread, run, messages, prefill>>
    BY <1>2 DEF Start
  <2>2. \A i \in (prefill + 1)..Len(messages) : Said(messages[i]) => messages[i].kind = "goal"
    BY <2>1 DEF OrderInv, SayInv
  <2>3. OwnRows(messages, prefill + 1, run, 1, thread = <<>>)
    BY <2>1, <2>2 DEF OrderInv, SayInv, OwnRows, Own
  <2>4. SayInv'
    BY <2>1, <2>2, <2>3 DEF OrderInv, SayInv, InLoop
  <2>5. QED
    BY <2>1, <2>4 DEF OrderInv, FileInv
<1>3. CASE StartFails
  BY <1>3, SayKeeps DEF StartFails
<1>4. CASE Response
  BY <1>4, RespondOrder DEF Response
<1>5. CASE ToolReturns
  BY <1>5, ToolReturnsOrder
<1>6. CASE CompactRun
  BY <1>6, CompactRunOrder
<1>7. CASE Observe
  <2>1. phase = "observing" /\ UNCHANGED <<thread, run, messages, prefill>>
    BY <1>7 DEF Observe
  <2>2. CASE status = "running"
    <3>1. phase' = "planning" /\ step' = step + 1 /\ step \in Nat
      BY <1>7, <2>2 DEF Observe, TypeInv, TypeOK
    <3>2. OwnRows(messages, prefill + 1, run, step, thread = <<>>) /\ step > 0
      BY <2>1 DEF OrderInv, SayInv, InLoop
    <3>3. \A i \in (prefill + 1)..Len(messages) : messages[i] \in Message
      BY ElementOfSeq DEF TypeInv, TypeOK
    <3>4. \A i \in (prefill + 1)..Len(messages) :
            Said(messages[i]) => messages[i].step <= step /\ messages[i].step < step + 1
      BY <3>1, <3>2, <3>3 DEF OwnRows, Own, Message
    <3>5. OwnRows(messages, prefill + 1, run, step + 1, thread = <<>>)
      BY <3>1, <3>2, <3>3, <3>4 DEF OwnRows, Own, Message
    <3>6. SayInv'
      BY <2>1, <3>1, <3>2, <3>4, <3>5 DEF OrderInv, SayInv, InLoop
    <3>7. QED
      BY <2>1, <3>6 DEF OrderInv, FileInv
  <2>3. CASE status # "running"
    BY <1>7, <2>1, <2>3, SayKeeps DEF Observe
  <2>4. QED
    BY <2>2, <2>3
<1>8. ASSUME NEW reason \in {"cancelled", "llm_error"}, Abort(reason) PROVE OrderInv'
  BY <1>8, SayKeeps DEF Abort, InLoop
<1>9. CASE Finish \/ CrashSaving
  BY <1>9, SavedOrder, IdleOrder DEF Finish, CrashSaving, Rests
<1>10. CASE Drop \/ Crash
  <2>1. phase' = "idle" /\ thread' = thread
    BY <1>10 DEF Drop, Crash, Rests
  <2>2. QED
    BY <2>1, IdleOrder DEF OrderInv, FileInv
<1>11. CASE CompactThread \/ CrashCompacting
  <2>1. Summarised \in Seq(Message) /\ Len(Summarised) = 2
    BY SummarisedType DEF TypeInv, Summarised
  <2>2. SubSeq(Summarised, 1, 2) = Summarised
    BY <2>1, SubSeqFull
  <2>3. phase' = "idle" /\ \E k \in 0..2 : thread' = SubSeq(Summarised, 1, k)
    BY <1>11, <2>2 DEF CompactThread, CrashCompacting
  <2>4. QED
    BY <2>3, SummarisedOrder, IdleOrder
<1>12. CASE CrashBeginning
  BY <1>12, GoalOrder, IdleOrder DEF CrashBeginning
<1>13. CASE UNCHANGED vars
  BY <1>13 DEF vars, OrderInv, SayInv, FileInv
<1>14. QED
  BY <1>1, <1>2, <1>3, <1>4, <1>5, <1>6, <1>7, <1>8, <1>9, <1>10, <1>11, <1>12, <1>13
  DEF Next, Progress

\* The thread tells everything at most once and in the order it happened, whatever was
\* written in part, read trimmed, dropped or compacted, within a run or between runs.
THEOREM OrderTheorem == Spec => []ThreadInOrder
<1> DEFINE Inv == TypeInv /\ KnownInv /\ OrderInv
<1>1. Init => Inv
  BY InitType, InitKnown, InitOrder
<1>2. Inv /\ [Next]_vars => Inv'
  BY NextType, NextKnown, NextOrder
<1>3. Inv => ThreadInOrder
  BY DEF OrderInv, FileInv, InOrder, Said, ThreadInOrder
<1>4. QED
  BY <1>1, <1>2, <1>3, PTL DEF Spec

=============================================================================
