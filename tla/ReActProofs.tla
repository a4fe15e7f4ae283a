----------------------------- MODULE ReActProofs -----------------------------
(***************************************************************************)
(* Proofs about ReAct for any tools, rules, batches and limits: type       *)
(* correctness, the order of the results, that a refused call never runs,  *)
(* that the model is never called while a call of the running turn is      *)
(* unanswered, and that the loop keeps the promise of ToolCalls.           *)
(***************************************************************************)
EXTENDS ReAct, SequenceTheorems, TLAPS

\* Where the turn is, and what that says of its bookkeeping.
Phases ==
  /\ phase \notin {"idle", "top"} => iteration < MaxIterations
  /\ phase = "waiting" <=> pending # NoCall
  /\ phase = "executing" => queue # <<>>
  /\ phase \in {"top", "chatting", "waiting"} => queue = <<>>

\* Only recorded calls run; no call is both recorded and refused, and the
\* pending one is neither yet.
Admission ==
  /\ \A c \in Recorded \cup refused : c < nextId
  /\ \A i \in DOMAIN queue : queue[i] \in Recorded
  /\ running \subseteq Recorded /\ ran \subseteq Recorded
  /\ pending # NoCall => /\ pending < nextId
                         /\ pending \notin Recorded \cup refused
  /\ refused \cap Recorded = {}

\* Whatever is still to be answered is newer than all that has been answered.
Order ==
  /\ ResultsInCallOrder
  /\ \A a \in Answered : /\ a < nextId
                         /\ pending # NoCall => a < pending
                         /\ \A i \in DOMAIN queue : a < queue[i]
  /\ \A i, j \in DOMAIN queue : i < j => queue[i] < queue[j]

\* An unanswered call of the running turn is still queued.
OpenIsQueued ==
  phase # "idle" =>
    \A i \in Kinds("call") :
      (\A j \in Kinds("user") : j < i) =>
        \/ \E k \in Kinds("result") : k > i /\ messages[k].id = messages[i].id
        \/ \E q \in DOMAIN queue : queue[q] = messages[i].id

Inv == TypeOK /\ Phases /\ Admission /\ Order /\ OpenIsQueued
-----------------------------------------------------------------------------
LEMMA MessageTypes ==
  /\ User \in Message /\ Final \in Message /\ Reasoning \in Message
  /\ \A c \in Calls : Call(c) \in Message /\ Result(c) \in Message
BY DEF Message, User, Final, Reasoning, Call, Result

\* The ids of a kind after one more message.
LEMMA IdsOfAppend ==
  ASSUME NEW ms \in Seq(Message), NEW m \in Message, NEW kind
  PROVE  IdsOf(Append(ms, m), kind) =
           IF m.kind = kind THEN IdsOf(ms, kind) \cup {m.id} ELSE IdsOf(ms, kind)
<1> DEFINE all == Append(ms, m)
<1>1. /\ DOMAIN all = 1 .. Len(ms) + 1 /\ all[Len(ms) + 1] = m
      /\ DOMAIN ms = 1 .. Len(ms) /\ Len(ms) \in Nat
      /\ \A i \in 1 .. Len(ms) : all[i] = ms[i]
  OBVIOUS
<1>2. \A i \in DOMAIN all : i = Len(ms) + 1 \/ i \in DOMAIN ms
  BY <1>1
<1>3. \A i \in DOMAIN ms : i \in DOMAIN all /\ all[i] = ms[i]
  BY <1>1
<1>4. Len(ms) + 1 \in DOMAIN all
  BY <1>1
<1> HIDE DEF all
<1>5. CASE m.kind = kind
  BY <1>1, <1>2, <1>3, <1>4, <1>5 DEF IdsOf, all
<1>6. CASE m.kind # kind
  BY <1>1, <1>2, <1>3, <1>4, <1>6 DEF IdsOf, all
<1> QED
  BY <1>5, <1>6

\* The ids of a kind after several more messages.
LEMMA IdsOfConcat ==
  ASSUME NEW ms \in Seq(Message), NEW ns \in Seq(Message), NEW kind
  PROVE  IdsOf(ms \o ns, kind) = IdsOf(ms, kind) \cup IdsOf(ns, kind)
<1> DEFINE all == ms \o ns
<1>1. /\ DOMAIN all = 1 .. Len(ms) + Len(ns)
      /\ DOMAIN ms = 1 .. Len(ms) /\ Len(ms) \in Nat
      /\ DOMAIN ns = 1 .. Len(ns) /\ Len(ns) \in Nat
      /\ \A i \in 1 .. Len(ms) : all[i] = ms[i]
      /\ \A i \in 1 .. Len(ns) : all[Len(ms) + i] = ns[i]
  OBVIOUS
<1>2. \A i \in DOMAIN all : i \in DOMAIN ms \/ i - Len(ms) \in DOMAIN ns
  BY <1>1
<1>3. \A i \in DOMAIN ms : i \in DOMAIN all /\ all[i] = ms[i]
  BY <1>1
<1>4. \A i \in DOMAIN ns : Len(ms) + i \in DOMAIN all /\ all[Len(ms) + i] = ns[i]
  BY <1>1
<1>5. \A i \in DOMAIN all : i - Len(ms) \in DOMAIN ns => all[i] = ns[i - Len(ms)]
  BY <1>1
<1> HIDE DEF all
<1>6. IdsOf(all, kind) \subseteq IdsOf(ms, kind) \cup IdsOf(ns, kind)
  BY <1>2, <1>3, <1>5 DEF IdsOf
<1>7. IdsOf(ms, kind) \subseteq IdsOf(all, kind)
  BY <1>3 DEF IdsOf
<1>8. IdsOf(ns, kind) \subseteq IdsOf(all, kind)
  BY <1>4 DEF IdsOf
<1> QED
  BY <1>6, <1>7, <1>8 DEF all

LEMMA IdsAreCalls ==
  ASSUME NEW ms \in Seq(Message), NEW kind \in {"call", "result"}
  PROVE  IdsOf(ms, kind) \subseteq Calls
BY DEF IdsOf, Message

LEMMA InitInv == Init => Inv
<1> SUFFICES ASSUME Init PROVE Inv
  OBVIOUS
<1>1. Recorded = {} /\ Answered = {}
  BY DEF Init, Recorded, Answered, IdsOf
<1>2. TypeOK
  <2>1. messages \in Seq(Message) /\ saved \in Seq(Message) /\ queue \in Seq(Calls)
    BY DEF Init
  <2>2. rules \in [Gated -> {"none", "allow", "deny"}]
    BY RulesAssumption DEF Init
  <2>3. /\ nextId \in 1 .. MaxCalls + 1 /\ iteration \in 0 .. MaxIterations
        /\ turns \in 0 .. MaxTurns /\ used \in 0 .. TokenBudget
    BY LimitsAssumption DEF Init
  <2> QED
    BY <2>1, <2>2, <2>3 DEF Init, TypeOK
<1>3. Phases
  BY DEF Init, Phases
<1>4. Admission
  BY <1>1 DEF Init, Admission
<1>5. Order
  BY <1>1 DEF Init, Order, ResultsInCallOrder, Kinds
<1>6. OpenIsQueued
  BY DEF Init, OpenIsQueued
<1> QED
  BY <1>2, <1>3, <1>4, <1>5, <1>6 DEF Inv
-----------------------------------------------------------------------------
\* The conversation after one more message, position by position.
LEMMA Appended ==
  ASSUME NEW ms \in Seq(Message), NEW m \in Message
  PROVE  /\ Append(ms, m) \in Seq(Message)
         /\ DOMAIN ms = 1 .. Len(ms) /\ Len(ms) \in Nat
         /\ DOMAIN Append(ms, m) = 1 .. Len(ms) + 1
         /\ \A i \in 1 .. Len(ms) : Append(ms, m)[i] = ms[i]
         /\ Append(ms, m)[Len(ms) + 1] = m
OBVIOUS

\* Order survives a message that is no result.
LEMMA OrderAppendOther ==
  ASSUME TypeOK, ResultsInCallOrder, NEW m \in Message, m.kind # "result",
         messages' = Append(messages, m)
  PROVE  ResultsInCallOrder'
<1>1. messages \in Seq(Message)
  BY DEF TypeOK
<1>2. \A i \in Kinds("result")' : i \in Kinds("result") /\ messages'[i] = messages[i]
  BY <1>1, Appended DEF Kinds
<1> QED
  BY <1>2 DEF ResultsInCallOrder

\* Order survives a result newer than all results before it.
LEMMA OrderAppendResult ==
  ASSUME TypeOK, ResultsInCallOrder, NEW c \in Calls, \A a \in Answered : a < c,
         messages' = Append(messages, Result(c))
  PROVE  ResultsInCallOrder'
<1>1. messages \in Seq(Message) /\ Result(c) \in Message
  BY MessageTypes DEF TypeOK
<1>2. \A i \in Kinds("result") : messages[i].id < c
  BY DEF Kinds, Answered, IdsOf
<1>3. \A i \in Kinds("result")' :
        \/ i \in Kinds("result") /\ messages'[i] = messages[i]
        \/ i = Len(messages) + 1 /\ messages'[i] = Result(c)
  BY <1>1, Appended DEF Kinds
<1>4. \A i \in Kinds("result") : i \in 1 .. Len(messages) /\ Len(messages) \in Nat
  BY <1>1, Appended DEF Kinds
<1>5. Result(c).id = c
  BY DEF Result
<1>6. SUFFICES ASSUME NEW i \in Kinds("result")', NEW j \in Kinds("result")', i < j
               PROVE  messages'[i].id < messages'[j].id
  BY DEF ResultsInCallOrder
<1>7. i \in Kinds("result") /\ messages'[i] = messages[i]
  BY <1>3, <1>4, <1>6
<1>8. CASE j \in Kinds("result") /\ messages'[j] = messages[j]
  BY <1>6, <1>7, <1>8 DEF ResultsInCallOrder
<1>9. CASE j = Len(messages) + 1 /\ messages'[j] = Result(c)
  BY <1>2, <1>5, <1>7, <1>9
<1> QED
  BY <1>3, <1>8, <1>9

\* OpenIsQueued survives a message that is no call, if the queue loses only
\* what the message answers.
LEMMA OpenAppendOther ==
  ASSUME TypeOK, OpenIsQueued, phase # "idle", NEW m \in Message, m.kind # "call",
         messages' = Append(messages, m),
         \A q \in DOMAIN queue :
           \/ \E p \in DOMAIN queue' : queue'[p] = queue[q]
           \/ m.kind = "result" /\ m.id = queue[q]
  PROVE  OpenIsQueued'
<1>1. messages \in Seq(Message)
  BY DEF TypeOK
<1>2. SUFFICES ASSUME NEW i \in Kinds("call")', \A j \in Kinds("user")' : j < i
               PROVE  \/ \E k \in Kinds("result")' : k > i /\ messages'[k].id = messages'[i].id
                      \/ \E q \in DOMAIN queue' : queue'[q] = messages'[i].id
  BY DEF OpenIsQueued
<1>3. i \in Kinds("call") /\ messages'[i] = messages[i] /\ i \in 1 .. Len(messages)
  BY <1>1, Appended DEF Kinds
<1>4. \A j \in Kinds("user") : j \in Kinds("user")'
  BY <1>1, Appended DEF Kinds
<1>5. \A k \in Kinds("result") : k \in Kinds("result")' /\ messages'[k] = messages[k]
  BY <1>1, Appended DEF Kinds
<1>6. CASE \E k \in Kinds("result") : k > i /\ messages[k].id = messages[i].id
  BY <1>3, <1>5, <1>6
<1>7. CASE \E q \in DOMAIN queue : queue[q] = messages[i].id
  <2>1. PICK q \in DOMAIN queue : queue[q] = messages[i].id
    BY <1>7
  <2>2. CASE \E p \in DOMAIN queue' : queue'[p] = queue[q]
    BY <1>3, <2>1, <2>2
  <2>3. CASE m.kind = "result" /\ m.id = queue[q]
    <3>1. /\ Len(messages) + 1 \in Kinds("result")'
          /\ messages'[Len(messages) + 1] = m /\ Len(messages) + 1 > i
      BY <1>1, <1>3, <2>3, Appended DEF Kinds
    <3> QED
      BY <1>3, <2>1, <2>3, <3>1
  <2> QED
    BY <2>1, <2>2, <2>3
<1> QED
  BY <1>2, <1>3, <1>4, <1>6, <1>7 DEF OpenIsQueued

\* OpenIsQueued survives a call that is queued as it is recorded.
LEMMA OpenAppendCall ==
  ASSUME TypeOK, OpenIsQueued, phase # "idle", NEW c \in Calls,
         messages' = Append(messages, Call(c)), queue = <<>>, queue' = <<c>>
  PROVE  OpenIsQueued'
<1>1. messages \in Seq(Message) /\ Call(c) \in Message
  BY MessageTypes DEF TypeOK
<1>2. SUFFICES ASSUME NEW i \in Kinds("call")', \A j \in Kinds("user")' : j < i
               PROVE  \/ \E k \in Kinds("result")' : k > i /\ messages'[k].id = messages'[i].id
                      \/ \E q \in DOMAIN queue' : queue'[q] = messages'[i].id
  BY DEF OpenIsQueued
<1>3. CASE i = Len(messages) + 1
  <2>1. messages'[i].id = c
    BY <1>1, <1>3, Appended DEF Call
  <2>2. 1 \in DOMAIN queue' /\ queue'[1] = c
    OBVIOUS
  <2> QED
    BY <2>1, <2>2
<1>4. CASE i \in 1 .. Len(messages)
  <2>1. i \in Kinds("call") /\ messages'[i] = messages[i]
    BY <1>1, <1>4, Appended DEF Kinds
  <2>2. \A j \in Kinds("user") : j \in Kinds("user")'
    BY <1>1, Appended DEF Kinds
  <2>3. \A k \in Kinds("result") : k \in Kinds("result")' /\ messages'[k] = messages[k]
    BY <1>1, Appended DEF Kinds
  <2>4. DOMAIN queue = {}
    OBVIOUS
  <2> QED
    BY <1>2, <2>1, <2>2, <2>3, <2>4 DEF OpenIsQueued
<1> QED
  BY <1>1, <1>3, <1>4, Appended DEF Kinds
-----------------------------------------------------------------------------
\* A step that touches neither the conversation nor the calls to be answered.
LEMMA OrderKept ==
  ASSUME Order, UNCHANGED <<messages, queue, pending, nextId>>
  PROVE  Order'
BY DEF Order, ResultsInCallOrder, Kinds, Answered, IdsOf

LEMMA OpenKept ==
  ASSUME OpenIsQueued, UNCHANGED <<messages, queue>>, phase # "idle"
  PROVE  OpenIsQueued'
BY DEF OpenIsQueued, Kinds

LEMMA RecordedKept ==
  ASSUME UNCHANGED messages
  PROVE  Recorded' = Recorded /\ Answered' = Answered
BY DEF Recorded, Answered

LEMMA CancelKeepsInv == Inv /\ Cancel => Inv'
<1> SUFFICES ASSUME Inv, Cancel PROVE Inv'
  OBVIOUS
<1> USE DEF Inv, Cancel, conversation, work
<1>1. TypeOK'
  BY DEF TypeOK
<1>2. Phases'
  BY DEF Phases
<1>3. Admission'
  BY RecordedKept DEF Admission
<1>4. Order'
  BY OrderKept
<1>5. OpenIsQueued'
  BY OpenKept
<1> QED
  BY <1>1, <1>2, <1>3, <1>4, <1>5

LEMMA AbortKeepsInv == Inv /\ phase # "waiting" /\ Abort => Inv'
<1> SUFFICES ASSUME Inv, phase # "waiting", Abort PROVE Inv'
  OBVIOUS
<1> USE DEF Inv, Abort, conversation, work
<1>1. TypeOK'
  BY DEF TypeOK
<1>2. Phases'
  BY DEF Phases
<1>3. Admission'
  BY RecordedKept DEF Admission
<1>4. Order'
  BY OrderKept
<1>5. OpenIsQueued'
  BY DEF OpenIsQueued
<1> QED
  BY <1>1, <1>2, <1>3, <1>4, <1>5

LEMMA PromptKeepsInv == Inv /\ Prompt => Inv'
<1> SUFFICES ASSUME Inv, Prompt PROVE Inv'
  OBVIOUS
<1>0. /\ situation' = FALSE /\ used' = (IF used < TokenBudget THEN used + 1 ELSE used)
      /\ phase = "top" /\ phase' = "chatting" /\ iteration < MaxIterations
      /\ UNCHANGED <<messages, saved, turns, canceled, iteration, pending, resumed,
                    queue, running, finished, nextId, tool, rules, refused, ran>>
  BY Zenon DEF Prompt, Cleanup, work
<1> USE <1>0 DEF Inv
<1>1. TypeOK'
  <2>1. situation' \in BOOLEAN
    BY Zenon
  <2>2. used' \in 0 .. TokenBudget
    BY LimitsAssumption DEF TypeOK
  <2>3. phase' \in {"idle", "top", "chatting", "waiting", "executing", "dispatching"}
    OBVIOUS
  <2> HIDE <1>0
  <2>4. UNCHANGED <<messages, saved, turns, canceled, iteration, pending, resumed,
                    queue, running, finished, nextId, tool, rules, refused, ran>>
    BY <1>0
  <2> QED
    BY <2>1, <2>2, <2>3, <2>4 DEF TypeOK
<1>2. Phases'
  BY DEF Phases
<1>3. Admission'
  BY RecordedKept DEF Admission
<1>4. Order'
  BY OrderKept
<1>5. OpenIsQueued'
  BY OpenKept
<1> QED
  BY <1>1, <1>2, <1>3, <1>4, <1>5

LEMMA StartToolKeepsInv == Inv /\ (StartTool \/ Dispatch) => Inv'
<1> SUFFICES ASSUME Inv, StartTool \/ Dispatch PROVE Inv'
  OBVIOUS
<1> USE DEF Inv
<1>1. /\ UNCHANGED <<conversation, turns, phase, canceled, iteration, used, pending,
                    resumed, queue, finished, nextId, tool, rules, refused, ran>>
      /\ phase \in {"executing", "dispatching"}
      /\ \E i \in DOMAIN queue : running' = running \cup {queue[i]}
  <2>1. CASE StartTool
    <3>1. 1 \in DOMAIN queue
      BY <2>1 DEF StartTool, Phases, TypeOK
    <3> QED
      BY <2>1, <3>1 DEF StartTool
  <2> QED
    BY <2>1 DEF Dispatch
<1> USE DEF conversation
<1>2. TypeOK'
  <2>1. running' \subseteq Calls
    BY <1>1 DEF TypeOK
  <2> QED
    BY <1>1, <2>1 DEF TypeOK
<1>3. Phases'
  BY <1>1 DEF Phases
<1>4. Admission'
  <2>1. running' \subseteq Recorded
    BY <1>1 DEF Admission
  <2> QED
    BY <1>1, <2>1, RecordedKept DEF Admission
<1>5. Order'
  BY <1>1, OrderKept
<1>6. OpenIsQueued'
  BY <1>1, OpenKept
<1> QED
  BY <1>2, <1>3, <1>4, <1>5, <1>6

LEMMA FinishSubAgentKeepsInv ==
  ASSUME NEW c \in Calls, Inv, FinishSubAgent(c)
  PROVE  Inv'
<1> USE DEF Inv, FinishSubAgent, conversation
<1>1. TypeOK'
  BY DEF TypeOK
<1>2. Phases'
  BY DEF Phases
<1>3. Admission'
  <2>1. running' \subseteq Recorded /\ ran' \subseteq Recorded
    BY DEF Admission
  <2> QED
    BY <2>1, RecordedKept DEF Admission
<1>4. Order'
  BY OrderKept
<1>5. OpenIsQueued'
  BY DEF OpenIsQueued, Kinds
<1> QED
  BY <1>1, <1>2, <1>3, <1>4, <1>5

LEMMA AskApprovalKeepsInv ==
  ASSUME NEW t \in Tools, Inv, AskApproval(t)
  PROVE  Inv'
<1> USE DEF Inv, AskApproval, conversation, work
<1>1. TypeOK'
  <2>1. pending' \in Calls /\ nextId' \in 1 .. MaxCalls + 1
    BY LimitsAssumption DEF TypeOK, Calls
  <2> QED
    BY <2>1 DEF TypeOK
<1>2. Phases'
  BY LimitsAssumption DEF Phases
<1>3. Admission'
  <2>1. \A c \in Recorded \cup refused : c < nextId /\ c \in Calls
    BY IdsAreCalls DEF Admission, Recorded, TypeOK
  <2>2. nextId \notin Recorded \cup refused /\ \A c \in Recorded \cup refused : c < nextId'
    BY <2>1 DEF Calls, TypeOK
  <2>3. pending' < nextId'
    BY DEF TypeOK
  <2> QED
    BY <2>2, <2>3, RecordedKept DEF Admission
<1>4. Order'
  <2>1. Answered \subseteq Calls
    BY IdsAreCalls DEF Answered, TypeOK
  <2>2. \A a \in Answered : a < nextId' /\ a < pending'
    BY <2>1 DEF Order, TypeOK, Calls
  <2>3. ResultsInCallOrder'
    BY DEF Order, ResultsInCallOrder, Kinds
  <2> QED
    BY <2>2, <2>3, RecordedKept DEF Order
<1>5. OpenIsQueued'
  BY OpenKept
<1> QED
  BY <1>1, <1>2, <1>3, <1>4, <1>5
-----------------------------------------------------------------------------
\* One message appended: what the conversation and the two id sets become.
LEMMA AppendedIds ==
  ASSUME TypeOK, NEW m \in Message, messages' = Append(messages, m)
  PROVE  /\ messages' \in Seq(Message)
         /\ Recorded' = IF m.kind = "call" THEN Recorded \cup {m.id} ELSE Recorded
         /\ Answered' = IF m.kind = "result" THEN Answered \cup {m.id} ELSE Answered
<1>1. messages \in Seq(Message)
  BY DEF TypeOK
<1>2. messages' \in Seq(Message)
  BY <1>1, Appended
<1>3. /\ Recorded' = IF m.kind = "call" THEN Recorded \cup {m.id} ELSE Recorded
      /\ Answered' = IF m.kind = "result" THEN Answered \cup {m.id} ELSE Answered
  BY <1>1, IdsOfAppend DEF Recorded, Answered
<1> QED
  BY <1>2, <1>3

\* Calls that are recorded are calls the model has made.
LEMMA RecordedAreCalls ==
  ASSUME TypeOK
  PROVE  Recorded \subseteq Calls /\ Answered \subseteq Calls
BY IdsAreCalls DEF TypeOK, Recorded, Answered

LEMMA StartTurnKeepsInv == Inv /\ StartTurn => Inv'
<1> SUFFICES ASSUME Inv, StartTurn PROVE Inv'
  OBVIOUS
<1> USE DEF Inv, StartTurn
<1>0. User \in Message /\ User.kind = "user"
  BY MessageTypes DEF User
<1>1. /\ messages' \in Seq(Message) /\ Recorded' = Recorded /\ Answered' = Answered
  BY <1>0, AppendedIds
<1>2. TypeOK'
  <2>1. /\ turns' \in 0 .. MaxTurns /\ iteration' \in 0 .. MaxIterations
        /\ used' \in 0 .. TokenBudget
    BY LimitsAssumption DEF TypeOK
  <2>2. queue' \in Seq(Calls) /\ pending' \in Calls \cup {NoCall}
    OBVIOUS
  <2> QED
    BY <1>1, <2>1, <2>2 DEF TypeOK
<1>3. Phases'
  BY DEF Phases
<1>4. Admission'
  BY <1>1 DEF Admission
<1>5. Order'
  <2>1. ResultsInCallOrder'
    BY <1>0, OrderAppendOther DEF Order
  <2> QED
    BY <1>1, <2>1 DEF Order
<1>6. OpenIsQueued'
  <2>1. /\ Len(messages) + 1 \in Kinds("user")'
        /\ \A i \in DOMAIN messages' : ~(Len(messages) + 1 < i)
    BY <1>0, Appended DEF Kinds, TypeOK
  <2> QED
    BY <2>1 DEF OpenIsQueued, Kinds
<1> QED
  BY <1>2, <1>3, <1>4, <1>5, <1>6

LEMMA AnswerKeepsInv == Inv /\ (Answer \/ Reason) => Inv'
<1> SUFFICES ASSUME Inv, NEW m \in {Final, Reasoning}, phase = "chatting",
                    messages' = Append(messages, m),
                    saved' \in {saved, messages'},
                    \/ phase' = "idle" /\ iteration' = iteration
                    \/ phase' = "top" /\ iteration' = iteration + 1,
                    UNCHANGED <<situation, turns, canceled, used, pending, resumed,
                                work, nextId, tool, rules, refused, ran>>
             PROVE  Inv'
  BY DEF Answer, Reason
<1> USE DEF Inv, work
<1>0. m \in Message /\ m.kind \notin {"user", "call", "result"}
  BY MessageTypes DEF Final, Reasoning
<1>1. /\ messages' \in Seq(Message) /\ Recorded' = Recorded /\ Answered' = Answered
  BY <1>0, AppendedIds
<1>2. TypeOK'
  <2>1. iteration' \in 0 .. MaxIterations
    BY LimitsAssumption DEF TypeOK, Phases
  <2> QED
    BY <1>1, <2>1 DEF TypeOK
<1>3. Phases'
  BY DEF Phases
<1>4. Admission'
  BY <1>1 DEF Admission
<1>5. Order'
  <2>1. ResultsInCallOrder'
    BY <1>0, OrderAppendOther DEF Order
  <2> QED
    BY <1>1, <2>1 DEF Order
<1>6. OpenIsQueued'
  BY <1>0, OpenAppendOther
<1> QED
  BY <1>2, <1>3, <1>4, <1>5, <1>6

\* A call beyond the bound leaves nothing behind but the next iteration.
LEMMA CallMoreKeepsInv ==
  ASSUME NEW t \in Tools, Inv, CallMore(t)
  PROVE  Inv'
<1> USE DEF Inv, CallMore, conversation, work
<1>1. TypeOK'
  <2>1. iteration' \in 0 .. MaxIterations
    BY LimitsAssumption DEF TypeOK, Phases
  <2> QED
    BY <2>1 DEF TypeOK
<1>2. Phases'
  BY DEF Phases
<1>3. Admission'
  BY RecordedKept DEF Admission
<1>4. Order'
  BY OrderKept
<1>5. OpenIsQueued'
  BY OpenKept
<1> QED
  BY <1>1, <1>2, <1>3, <1>4, <1>5

LEMMA CallFreelyKeepsInv ==
  ASSUME NEW t \in Tools, Inv, CallFreely(t)
  PROVE  Inv'
<1> USE DEF Inv, CallFreely
<1>0. /\ nextId \in Calls /\ Call(nextId) \in Message
      /\ Call(nextId).kind = "call" /\ Call(nextId).id = nextId
  BY MessageTypes DEF Call
<1>1. /\ messages' \in Seq(Message)
      /\ Recorded' = Recorded \cup {nextId} /\ Answered' = Answered
  BY <1>0, AppendedIds
<1>2. TypeOK'
  <2>1. nextId' \in 1 .. MaxCalls + 1 /\ queue' \in Seq(Calls)
    BY <1>0, LimitsAssumption DEF TypeOK, Calls
  <2>2. tool' \in [Calls -> Tools \cup {"none"}]
    BY DEF TypeOK
  <2> QED
    BY <1>1, <2>1, <2>2 DEF TypeOK
<1>3. Phases'
  BY DEF Phases
<1>4. Admission'
  <2>1. \A c \in Recorded \cup refused : c < nextId /\ c \in Calls
    BY RecordedAreCalls DEF Admission, TypeOK
  <2>2. nextId \notin refused /\ \A c \in Recorded' \cup refused : c < nextId'
    BY <1>1, <2>1 DEF Calls, TypeOK
  <2>3. pending' = NoCall
    BY DEF Phases
  <2>4. \A i \in DOMAIN queue' : queue'[i] \in Recorded'
    BY <1>1
  <2> QED
    BY <1>1, <2>2, <2>3, <2>4 DEF Admission
<1>5. Order'
  <2>1. ResultsInCallOrder'
    BY <1>0, OrderAppendOther DEF Order
  <2>2. \A a \in Answered : a \in Calls /\ a < nextId
    BY RecordedAreCalls DEF Order
  <2>3. pending' = NoCall
    BY DEF Phases
  <2>4. DOMAIN queue' = {1} /\ queue'[1] = nextId
    OBVIOUS
  <2>5. \A a \in Answered' : a < nextId'
    BY <1>1, <2>2 DEF TypeOK, Calls
  <2> QED
    BY <1>1, <2>1, <2>2, <2>3, <2>4, <2>5 DEF Order
<1>6. OpenIsQueued'
  BY <1>0, OpenAppendCall DEF Phases
<1> QED
  BY <1>2, <1>3, <1>4, <1>5, <1>6

\* The approval workflow resumes the loop with the pending call.
LEMMA ResumeKeepsInv ==
  ASSUME Inv, phase = "waiting", Resume,
         rules' \in [Gated -> {"none", "allow", "deny"}]
  PROVE  Inv'
<1> USE DEF Inv, Resume
<1>0. /\ pending \in Calls /\ Call(pending) \in Message /\ pending # NoCall
      /\ Call(pending).kind = "call" /\ Call(pending).id = pending
  BY MessageTypes DEF Call, Phases, TypeOK
<1>1. /\ messages' \in Seq(Message)
      /\ Recorded' = Recorded \cup {pending} /\ Answered' = Answered
  BY <1>0, AppendedIds
<1>2. TypeOK'
  <2>1. queue' \in Seq(Calls) /\ pending' \in Calls \cup {NoCall}
    BY <1>0
  <2> QED
    BY <1>1, <2>1 DEF TypeOK
<1>3. Phases'
  <2>1. queue' # <<>> /\ iteration' = iteration /\ pending' = NoCall
    OBVIOUS
  <2> QED
    BY <2>1 DEF Phases
<1>4. Admission'
  <2>1. \A c \in Recorded' \cup refused : c < nextId'
    BY <1>0, <1>1 DEF Admission
  <2>2. pending \notin refused
    BY <1>0 DEF Admission
  <2>3. \A i \in DOMAIN queue' : queue'[i] \in Recorded'
    BY <1>1
  <2> QED
    BY <1>1, <2>1, <2>2, <2>3 DEF Admission
<1>5. Order'
  <2>1. ResultsInCallOrder'
    BY <1>0, OrderAppendOther DEF Order
  <2>2. DOMAIN queue' = {1} /\ queue'[1] = pending
    OBVIOUS
  <2>3. \A a \in Answered : a < nextId /\ a < pending
    BY <1>0 DEF Order
  <2> QED
    BY <1>1, <2>1, <2>2, <2>3 DEF Order
<1>6. OpenIsQueued'
  BY <1>0, OpenAppendCall DEF Phases
<1> QED
  BY <1>2, <1>3, <1>4, <1>5, <1>6

\* The approval workflow takes the pending call out and resumes the loop.
LEMMA RefuseKeepsInv == Inv /\ phase = "waiting" /\ Refuse /\ UNCHANGED rules => Inv'
<1> SUFFICES ASSUME Inv, phase = "waiting", Refuse, UNCHANGED rules PROVE Inv'
  OBVIOUS
<1> USE DEF Inv, Refuse, work
<1>0. /\ pending \in Calls /\ Result(pending) \in Message /\ pending # NoCall
      /\ Result(pending).kind = "result" /\ Result(pending).id = pending
  BY MessageTypes DEF Result, Phases, TypeOK
<1>1. /\ messages' \in Seq(Message)
      /\ Recorded' = Recorded /\ Answered' = Answered \cup {pending}
  BY <1>0, AppendedIds
<1>2. TypeOK'
  <2>1. refused' \subseteq Calls
    BY <1>0 DEF TypeOK
  <2> QED
    BY <1>1, <2>1 DEF TypeOK
<1>3. Phases'
  BY DEF Phases
<1>4. Admission'
  <2>1. pending \notin Recorded /\ \A c \in Recorded \cup refused' : c < nextId'
    BY <1>0 DEF Admission
  <2> QED
    BY <1>1, <2>1 DEF Admission
<1>5. Order'
  <2>1. pending < nextId /\ queue' = <<>>
    BY <1>0 DEF Admission, Phases
  <2>2. ResultsInCallOrder'
    BY <1>0, OrderAppendResult DEF Order
  <2> QED
    BY <1>1, <2>1, <2>2 DEF Order
<1>6. OpenIsQueued'
  BY <1>0, OpenAppendOther
<1> QED
  BY <1>2, <1>3, <1>4, <1>5, <1>6

LEMMA DecideKeepsInv == Inv /\ Decide => Inv'
<1> SUFFICES ASSUME Inv, Decide PROVE Inv'
  OBVIOUS
<1>1. phase = "waiting" /\ rules \in [Gated -> {"none", "allow", "deny"}]
  BY DEF Decide, RuleDecides, Proceed, SayAlways, SayNo, Undecided, Inv, TypeOK
<1>2. \/ Resume /\ rules' \in [Gated -> {"none", "allow", "deny"}]
      \/ Refuse /\ UNCHANGED rules
  BY <1>1 DEF Decide, RuleDecides, Proceed, SayAlways, SayNo
<1> QED
  BY <1>1, <1>2, ResumeKeepsInv, RefuseKeepsInv

LEMMA TailFacts ==
  ASSUME NEW S, NEW s \in Seq(S), s # <<>>
  PROVE  /\ Len(s) \in Nat /\ Len(s) > 0 /\ DOMAIN s = 1 .. Len(s)
         /\ Tail(s) \in Seq(S) /\ DOMAIN Tail(s) = 1 .. Len(s) - 1
         /\ \A i \in 1 .. Len(s) - 1 : Tail(s)[i] = s[i + 1]
         /\ Len(s) = 1 <=> Tail(s) = <<>>
<1>1. Len(s) \in Nat /\ Len(s) > 0 /\ DOMAIN s = 1 .. Len(s)
  OBVIOUS
<1>2. Tail(s) \in Seq(S) /\ Len(Tail(s)) = Len(s) - 1
  BY <1>1
<1>3. \A i \in 1 .. Len(s) - 1 : Tail(s)[i] = s[i + 1]
  BY <1>1
<1>4. Tail(s) = <<>> <=> Len(Tail(s)) = 0
  BY <1>2, EmptySeq
<1> QED
  BY <1>1, <1>2, <1>3, <1>4

\* A tool of a sequential response returns; its call was the first of the queue.
LEMMA FinishToolKeepsInv == Inv /\ FinishTool => Inv'
<1> SUFFICES ASSUME Inv, FinishTool PROVE Inv'
  OBVIOUS
<1> DEFINE c == queue[1]
<1> USE DEF Inv, FinishTool
<1>0. /\ queue \in Seq(Calls) /\ queue # <<>> /\ phase = "executing"
      /\ pending = NoCall
      /\ iteration \in 0 .. MaxIterations /\ iteration + 1 \in 0 .. MaxIterations
  BY LimitsAssumption DEF Phases, TypeOK
<1>1. /\ Len(queue) \in Nat /\ Len(queue) > 0 /\ DOMAIN queue = 1 .. Len(queue)
      /\ Tail(queue) \in Seq(Calls) /\ DOMAIN Tail(queue) = 1 .. Len(queue) - 1
      /\ \A i \in 1 .. Len(queue) - 1 : Tail(queue)[i] = queue[i + 1]
      /\ Len(queue) = 1 <=> Tail(queue) = <<>>
  BY <1>0, TailFacts
<1>2. /\ c \in Calls /\ c \in Recorded /\ Result(c) \in Message
      /\ Result(c).kind = "result" /\ Result(c).id = c
  BY <1>0, <1>1, MessageTypes DEF Result, Admission
<1>3. /\ messages' \in Seq(Message)
      /\ Recorded' = Recorded /\ Answered' = Answered \cup {c}
  BY <1>2, AppendedIds
<1>4. /\ iteration' \in 0 .. MaxIterations /\ resumed' \in BOOLEAN
      /\ \/ phase' = "executing" /\ Len(queue) # 1 /\ iteration' = iteration
         \/ phase' = "top" /\ Len(queue) = 1
  <2>1. CASE Len(queue) = 1
    <3>1. iteration' \in {iteration, iteration + 1} /\ phase' = "top" /\ resumed' = FALSE
      BY <2>1 DEF NextIteration
    <3> HIDE DEF FinishTool
    <3> QED
      BY <1>0, <2>1, <3>1
  <2>2. CASE Len(queue) # 1
    BY <1>0, <2>2 DEF TypeOK
  <2> QED
    BY <2>1, <2>2
<1>5. TypeOK'
  BY <1>1, <1>2, <1>3, <1>4 DEF TypeOK
<1>6. Phases'
  BY <1>0, <1>1, <1>4 DEF Phases
<1>7. Admission'
  <2>1. \A i \in DOMAIN queue' : queue'[i] \in Recorded
    BY <1>1 DEF Admission
  <2> QED
    BY <1>0, <1>2, <1>3, <2>1 DEF Admission
<1>8. Order'
  <2>1. ResultsInCallOrder'
    BY <1>1, <1>2, OrderAppendResult DEF Order
  <2>2. c < nextId
    BY <1>2 DEF Admission
  <2>3. \A i \in DOMAIN queue' : c < queue'[i] /\ \E j \in DOMAIN queue : queue'[i] = queue[j]
    BY <1>1 DEF Order
  <2>4. \A i, j \in DOMAIN queue' : i < j => queue'[i] < queue'[j]
    BY <1>1 DEF Order
  <2> QED
    BY <1>0, <1>3, <2>1, <2>2, <2>3, <2>4 DEF Order
<1>9. OpenIsQueued'
  <2>1. \A q \in DOMAIN queue : \/ q = 1
                                \/ q - 1 \in DOMAIN queue' /\ queue'[q - 1] = queue[q]
    BY <1>1
  <2> QED
    BY <1>0, <1>2, <2>1, OpenAppendOther
<1> QED
  BY <1>5, <1>6, <1>7, <1>8, <1>9
-----------------------------------------------------------------------------
\* The conversation after several more messages, position by position.
LEMMA Concatenated ==
  ASSUME NEW ms \in Seq(Message), NEW ns \in Seq(Message)
  PROVE  /\ ms \o ns \in Seq(Message)
         /\ DOMAIN ms = 1 .. Len(ms) /\ Len(ms) \in Nat
         /\ DOMAIN ns = 1 .. Len(ns) /\ Len(ns) \in Nat
         /\ \A i \in DOMAIN ms : i \in DOMAIN (ms \o ns) /\ (ms \o ns)[i] = ms[i]
         /\ \A i \in DOMAIN ns : /\ Len(ms) + i \in DOMAIN (ms \o ns)
                                 /\ (ms \o ns)[Len(ms) + i] = ns[i]
         /\ \A i \in DOMAIN (ms \o ns) :
              \/ i \in DOMAIN ms
              \/ i - Len(ms) \in DOMAIN ns /\ i = Len(ms) + (i - Len(ms))
OBVIOUS

\* Order survives results in order, newer than all results before them.
LEMMA OrderConcat ==
  ASSUME TypeOK, ResultsInCallOrder, NEW ns \in Seq(Message), messages' = messages \o ns,
         \A a \in Answered : \A i \in DOMAIN ns : ns[i].kind = "result" => a < ns[i].id,
         \A i, j \in DOMAIN ns : ns[i].kind = "result" /\ ns[j].kind = "result" /\ i < j
                                  => ns[i].id < ns[j].id
  PROVE  ResultsInCallOrder'
<1> DEFINE n == Len(messages)
<1>1. messages \in Seq(Message)
  BY DEF TypeOK
<1>2. n \in Nat /\ DOMAIN messages = 1 .. n /\ DOMAIN ns = 1 .. Len(ns) /\ Len(ns) \in Nat
  BY <1>1, Concatenated
<1>3. \A i \in Kinds("result")' :
        \/ i \in Kinds("result") /\ messages'[i] = messages[i]
        \/ i - n \in DOMAIN ns /\ messages'[i] = ns[i - n] /\ ns[i - n].kind = "result" /\ i \in Int
  <2>1. SUFFICES ASSUME NEW i \in DOMAIN messages', messages'[i].kind = "result"
                 PROVE  \/ i \in Kinds("result") /\ messages'[i] = messages[i]
                        \/ /\ i - n \in DOMAIN ns /\ messages'[i] = ns[i - n]
                           /\ ns[i - n].kind = "result" /\ i \in Int
    BY DEF Kinds
  <2>2. CASE i \in DOMAIN messages
    BY <1>1, <2>1, <2>2, Concatenated DEF Kinds
  <2>3. CASE i - n \in DOMAIN ns /\ i = n + (i - n)
    <3>1. messages'[n + (i - n)] = ns[i - n]
      BY <1>1, <2>3, Concatenated
    <3>2. i \in Int
      BY <1>2, <2>3
    <3> QED
      BY <2>1, <2>3, <3>1, <3>2
  <2> QED
    BY <1>1, <2>1, <2>2, <2>3, Concatenated
<1>4. \A i \in Kinds("result") : i \in 1 .. n /\ messages[i].id \in Answered
  BY <1>2 DEF Kinds, Answered, IdsOf
<1>5. SUFFICES ASSUME NEW i \in Kinds("result")', NEW j \in Kinds("result")', i < j
               PROVE  messages'[i].id < messages'[j].id
  BY DEF ResultsInCallOrder
<1> HIDE DEF n
<1>6. CASE i \in Kinds("result") /\ messages'[i] = messages[i]
  <2>1. CASE j \in Kinds("result") /\ messages'[j] = messages[j]
    BY <1>5, <1>6, <2>1 DEF ResultsInCallOrder
  <2>2. CASE j - n \in DOMAIN ns /\ messages'[j] = ns[j - n] /\ ns[j - n].kind = "result"
    BY <1>4, <1>6, <2>2
  <2> QED
    BY <1>3, <2>1, <2>2
<1>7. CASE /\ i - n \in DOMAIN ns /\ messages'[i] = ns[i - n]
           /\ ns[i - n].kind = "result" /\ i \in Int
  <2>1. j - n \in DOMAIN ns /\ messages'[j] = ns[j - n] /\ ns[j - n].kind = "result" /\ j \in Int
    BY <1>2, <1>3, <1>4, <1>5, <1>7
  <2>2. i - n < j - n
    BY <1>2, <1>5, <1>7, <2>1
  <2> QED
    BY <1>7, <2>1, <2>2
<1> QED
  BY <1>3, <1>6, <1>7

\* OpenIsQueued survives calls that are queued as they are recorded, and results
\* that answer what leaves the queue.
LEMMA OpenConcat ==
  ASSUME TypeOK, OpenIsQueued, phase # "idle", NEW ns \in Seq(Message),
         messages' = messages \o ns,
         \A q \in DOMAIN queue :
           \/ \E p \in DOMAIN queue' : queue'[p] = queue[q]
           \/ \E k \in DOMAIN ns : ns[k].kind = "result" /\ ns[k].id = queue[q],
         \A k \in DOMAIN ns : ns[k].kind = "call" =>
           \E p \in DOMAIN queue' : queue'[p] = ns[k].id
  PROVE  OpenIsQueued'
<1> DEFINE n == Len(messages)
<1>1. messages \in Seq(Message)
  BY DEF TypeOK
<1>2. n \in Nat /\ DOMAIN messages = 1 .. n /\ DOMAIN ns = 1 .. Len(ns) /\ Len(ns) \in Nat
  BY <1>1, Concatenated
<1>3. SUFFICES ASSUME NEW i \in Kinds("call")', \A j \in Kinds("user")' : j < i
               PROVE  \/ \E k \in Kinds("result")' : k > i /\ messages'[k].id = messages'[i].id
                      \/ \E q \in DOMAIN queue' : queue'[q] = messages'[i].id
  BY DEF OpenIsQueued
<1>4. \A k \in DOMAIN messages : k \in DOMAIN messages' /\ messages'[k] = messages[k]
  BY <1>1, Concatenated
<1>5. \A k \in DOMAIN ns : n + k \in DOMAIN messages' /\ messages'[n + k] = ns[k]
  BY <1>1, Concatenated
<1>6. i \in DOMAIN messages' /\ messages'[i].kind = "call"
  BY DEF Kinds
<1>7. CASE i \in DOMAIN messages
  <2>1. i \in Kinds("call") /\ messages'[i] = messages[i] /\ \A j \in Kinds("user") : j < i
    BY <1>3, <1>4, <1>6, <1>7 DEF Kinds
  <2>2. CASE \E k \in Kinds("result") : k > i /\ messages[k].id = messages[i].id
    BY <1>4, <2>1, <2>2 DEF Kinds
  <2>3. CASE \E q \in DOMAIN queue : queue[q] = messages[i].id
    <3>1. PICK q \in DOMAIN queue : queue[q] = messages[i].id
      BY <2>3
    <3>2. CASE \E p \in DOMAIN queue' : queue'[p] = queue[q]
      BY <2>1, <3>1, <3>2
    <3>3. CASE \E k \in DOMAIN ns : ns[k].kind = "result" /\ ns[k].id = queue[q]
      <4>1. PICK k \in DOMAIN ns : ns[k].kind = "result" /\ ns[k].id = queue[q]
        BY <3>3
      <4>2. n + k \in Kinds("result")' /\ messages'[n + k].id = messages'[i].id
        BY <1>5, <2>1, <3>1, <4>1 DEF Kinds
      <4>3. n + k > i
        BY <1>2, <1>7
      <4> QED
        BY <4>2, <4>3
    <3> QED
      BY <3>1, <3>2, <3>3
  <2> QED
    BY <2>1, <2>2, <2>3 DEF OpenIsQueued
<1>8. CASE i - n \in DOMAIN ns /\ i = n + (i - n)
  <2>1. messages'[i] = ns[i - n]
    BY <1>5, <1>8
  <2> QED
    BY <1>6, <1>8, <2>1
<1>9. \/ i \in DOMAIN messages
      \/ i - n \in DOMAIN ns /\ i = n + (i - n)
  BY <1>1, <1>6, Concatenated
<1> QED
  BY <1>7, <1>8, <1>9

LEMMA CallBatchKeepsInv ==
  ASSUME NEW b \in Batches, Inv, CallBatch(b)
  PROVE  Inv'
<1> DEFINE new == nextId .. nextId + Len(b) - 1
           ns  == [i \in 1 .. Len(b) |-> Call(nextId + i - 1)]
<1>0. /\ b \in Seq(Tools) /\ Len(b) \in Nat /\ Len(b) > 0
      /\ DOMAIN b = 1 .. Len(b) /\ \A i \in DOMAIN b : b[i] \in Tools
  <2>1. b \in Seq(Tools) /\ b # <<>>
    BY ToolsAssumption
  <2> QED
    BY <2>1, EmptySeq
<1>1. /\ phase = "chatting" /\ phase' \in {"dispatching", "executing"}
      /\ messages' = messages \o ns /\ queue' = [i \in 1 .. Len(b) |-> nextId + i - 1]
      /\ nextId' = nextId + Len(b) /\ nextId + Len(b) - 1 \in Calls
      /\ finished' = {}
      /\ tool' = [c \in Calls |-> IF c \in new THEN b[c - nextId + 1] ELSE tool[c]]
      /\ UNCHANGED <<situation, saved, turns, canceled, iteration, used, pending,
                     resumed, running, rules, refused, ran>>
  BY DEF CallBatch, NewCalls
<1>2. TypeOK /\ Phases /\ Admission /\ Order /\ OpenIsQueued /\ queue = <<>> /\ pending = NoCall
  BY <1>1 DEF Inv, Phases
<1>3. /\ nextId \in 1 .. MaxCalls + 1 /\ new \subseteq Calls
      /\ \A i \in 1 .. Len(b) : nextId + i - 1 \in new
      /\ \A c \in new : c - nextId + 1 \in 1 .. Len(b) /\ nextId + (c - nextId + 1) - 1 = c
      /\ \A c \in new : nextId <= c /\ c < nextId'
      /\ nextId' \in 1 .. MaxCalls + 1
  BY <1>0, <1>1, <1>2, LimitsAssumption DEF TypeOK, Calls
<1>4. \A i \in 1 .. Len(b) : /\ Call(nextId + i - 1) \in Message
                            /\ Call(nextId + i - 1).kind = "call"
                            /\ Call(nextId + i - 1).id = nextId + i - 1
  BY <1>3, MessageTypes DEF Call
<1>5. /\ ns \in Seq(Message) /\ DOMAIN ns = 1 .. Len(b)
      /\ \A i \in DOMAIN ns : ns[i].kind = "call" /\ ns[i].id = nextId + i - 1
  BY <1>0, <1>4
<1>6. /\ queue' \in Seq(Calls) /\ queue' # <<>> /\ DOMAIN queue' = 1 .. Len(b)
      /\ \A i \in DOMAIN queue' : queue'[i] = nextId + i - 1 /\ queue'[i] \in new
  <2>1. \A i \in 1 .. Len(b) : nextId + i - 1 \in new /\ nextId + i - 1 \in Calls
    BY <1>3
  <2>2. /\ DOMAIN queue' = 1 .. Len(b)
        /\ \A i \in DOMAIN queue' : queue'[i] = nextId + i - 1 /\ queue'[i] \in new
    BY <1>1, <2>1
  <2>3. queue' \in Seq(Calls)
    BY <1>0, <1>1, <2>1
  <2>4. 1 \in DOMAIN queue'
    BY <1>0, <2>2
  <2> QED
    BY <2>2, <2>3, <2>4
<1> HIDE DEF ns, new
<1>7. Recorded' = Recorded \cup new /\ Answered' = Answered /\ messages' \in Seq(Message)
  <2>1. IdsOf(ns, "result") = {}
    BY <1>5 DEF IdsOf
  <2>2. IdsOf(ns, "call") = new
    <3>1. \A i \in DOMAIN ns : ns[i].kind = "call" /\ ns[i].id \in new
      BY <1>3, <1>5
    <3>2. \A c \in new : \E i \in DOMAIN ns : ns[i].kind = "call" /\ ns[i].id = c
      BY <1>3, <1>5
    <3> QED
      BY <3>1, <3>2 DEF IdsOf
  <2>3. messages \in Seq(Message)
    BY <1>2 DEF TypeOK
  <2>4. messages' \in Seq(Message)
    BY <1>1, <1>5, <2>3, Concatenated
  <2>5. /\ IdsOf(messages \o ns, "call") = Recorded \cup IdsOf(ns, "call")
        /\ IdsOf(messages \o ns, "result") = Answered \cup IdsOf(ns, "result")
    BY <1>5, <2>3, IdsOfConcat DEF Recorded, Answered
  <2>6. /\ Recorded' = IdsOf(messages \o ns, "call")
        /\ Answered' = IdsOf(messages \o ns, "result")
    BY <1>1 DEF Recorded, Answered
  <2> QED
    BY <2>1, <2>2, <2>4, <2>5, <2>6
<1>8. TypeOK'
  <2>1. tool' \in [Calls -> Tools \cup {"none"}]
    BY <1>0, <1>1, <1>2, <1>3 DEF TypeOK
  <2> QED
    BY <1>1, <1>2, <1>3, <1>6, <1>7, <2>1 DEF TypeOK
<1>9. Phases'
  BY <1>1, <1>2, <1>6 DEF Phases
<1>10. Admission'
  <2>1. \A c \in Recorded \cup refused : c \in Calls /\ c < nextId /\ c \notin new /\ c < nextId'
    BY SMTT(30), <1>0, <1>1, <1>2, <1>3, RecordedAreCalls DEF Admission, Calls, TypeOK
  <2>2. refused \cap new = {}
    BY <2>1
  <2> QED
    BY <1>1, <1>2, <1>3, <1>6, <1>7, <2>1, <2>2 DEF Admission
<1>11. Order'
  <2>1. ResultsInCallOrder'
    <3>1. \A i \in DOMAIN ns : ns[i].kind # "result"
      BY <1>5
    <3> QED
      BY <1>1, <1>2, <1>5, <3>1, OrderConcat DEF Order
  <2>2. \A a \in Answered : a \in Calls /\ a < nextId
    BY <1>2, RecordedAreCalls DEF Order
  <2>3. \A a \in Answered : a < nextId' /\ \A c \in new : a < c
    BY <1>0, <1>1, <1>3, <2>2 DEF Calls, new
  <2>4. \A i, j \in DOMAIN queue' : i < j => queue'[i] < queue'[j]
    BY <1>0, <1>3, <1>6
  <2> QED
    BY <1>1, <1>2, <1>6, <1>7, <2>1, <2>3, <2>4 DEF Order
<1>12. OpenIsQueued'
  <2>1. DOMAIN queue = {}
    BY <1>2
  <2>2. \A k \in DOMAIN ns : ns[k].kind = "call" => \E p \in DOMAIN queue' : queue'[p] = ns[k].id
    BY <1>5, <1>6
  <2> QED
    BY <1>1, <1>2, <1>5, <2>1, <2>2, OpenConcat
<1> QED
  BY <1>8, <1>9, <1>10, <1>11, <1>12 DEF Inv

\* The results of a parallel batch are recorded together, in the order of the calls.
LEMMA JoinKeepsInv == Inv /\ Join => Inv'
<1> SUFFICES ASSUME Inv, Join PROVE Inv'
  OBVIOUS
<1> DEFINE ns == [i \in 1 .. Len(queue) |-> Result(queue[i])]
<1>1. /\ phase = "dispatching" /\ phase' = "top"
      /\ messages' = messages \o ns /\ queue' = <<>> /\ finished' = {}
      /\ iteration' \in {iteration, iteration + 1} /\ resumed' = FALSE
      /\ UNCHANGED <<situation, saved, turns, canceled, used, pending, running, nextId,
                     tool, rules, refused, ran>>
  BY DEF Join, NextIteration
<1>2. TypeOK /\ Phases /\ Admission /\ Order /\ OpenIsQueued /\ pending = NoCall
  BY <1>1 DEF Inv, Phases
<1>3. /\ Len(queue) \in Nat /\ DOMAIN queue = 1 .. Len(queue)
      /\ \A i \in DOMAIN queue : queue[i] \in Calls /\ queue[i] \in Recorded
  BY <1>2 DEF TypeOK, Admission
<1>4. \A i \in DOMAIN queue : /\ Result(queue[i]) \in Message
                             /\ Result(queue[i]).kind = "result"
                             /\ Result(queue[i]).id = queue[i]
  BY <1>3, MessageTypes DEF Result
<1>5. /\ ns \in Seq(Message) /\ DOMAIN ns = DOMAIN queue
      /\ \A i \in DOMAIN ns : ns[i].kind = "result" /\ ns[i].id = queue[i]
  BY <1>3, <1>4
<1> HIDE DEF ns
<1>6. /\ Recorded' = Recorded /\ messages' \in Seq(Message)
      /\ \A a \in Answered' : a \in Answered \/ a \in Recorded
  <2>1. IdsOf(ns, "call") = {} /\ IdsOf(ns, "result") \subseteq Recorded
    BY <1>3, <1>5 DEF IdsOf
  <2>2. messages \in Seq(Message)
    BY <1>2 DEF TypeOK
  <2>3. messages' \in Seq(Message)
    BY <1>1, <1>5, <2>2, Concatenated
  <2>4. /\ IdsOf(messages \o ns, "call") = Recorded \cup IdsOf(ns, "call")
        /\ IdsOf(messages \o ns, "result") = Answered \cup IdsOf(ns, "result")
    BY <1>5, <2>2, IdsOfConcat DEF Recorded, Answered
  <2>5. /\ Recorded' = IdsOf(messages \o ns, "call")
        /\ Answered' = IdsOf(messages \o ns, "result")
    BY <1>1 DEF Recorded, Answered
  <2> QED
    BY <2>1, <2>3, <2>4, <2>5
<1>7. TypeOK'
  <2>1. iteration' \in 0 .. MaxIterations
    BY <1>1, <1>2, LimitsAssumption DEF TypeOK, Phases
  <2>2. queue' \in Seq(Calls)
    BY <1>1
  <2> QED
    BY <1>1, <1>2, <1>6, <2>1, <2>2 DEF TypeOK
<1>8. Phases'
  BY <1>1, <1>2 DEF Phases
<1>9. Admission'
  BY <1>1, <1>2, <1>6 DEF Admission
<1>10. Order'
  <2>1. ResultsInCallOrder'
    BY <1>1, <1>2, <1>5, OrderConcat DEF Order
  <2> QED
    BY <1>1, <1>2, <1>6, <2>1 DEF Order, Admission
<1>11. OpenIsQueued'
  <2>1. \A q \in DOMAIN queue : \E k \in DOMAIN ns : ns[k].kind = "result" /\ ns[k].id = queue[q]
    BY <1>5
  <2>2. \A k \in DOMAIN ns : ns[k].kind # "call"
    BY <1>5
  <2> QED
    BY <1>1, <1>2, <1>5, <2>1, <2>2, OpenConcat
<1> QED
  BY <1>7, <1>8, <1>9, <1>10, <1>11 DEF Inv
-----------------------------------------------------------------------------
LEMMA NextInv == Inv /\ [Next]_vars => Inv'
<1> SUFFICES ASSUME Inv, [Next]_vars PROVE Inv'
  OBVIOUS
<1>1. CASE StartTurn
  BY <1>1, StartTurnKeepsInv
<1>2. CASE Cancel
  BY <1>2, CancelKeepsInv
<1>3. CASE GiveUp \/ ChatFails \/ StopBetweenCalls
  BY <1>3, AbortKeepsInv DEF GiveUp, ChatFails, StopBetweenCalls
<1>4. CASE Prompt
  BY <1>4, PromptKeepsInv
<1>5. CASE Answer \/ Reason
  BY <1>5, AnswerKeepsInv
<1>6. CASE \E t \in Tools : CallFreely(t) \/ AskApproval(t) \/ CallMore(t)
  BY <1>6, CallFreelyKeepsInv, AskApprovalKeepsInv, CallMoreKeepsInv
<1>7. CASE \E b \in Batches : CallBatch(b)
  BY <1>7, CallBatchKeepsInv
<1>8. CASE Decide
  BY <1>8, DecideKeepsInv
<1>9. CASE StartTool \/ Dispatch
  BY <1>9, StartToolKeepsInv
<1>10. CASE FinishTool
  BY <1>10, FinishToolKeepsInv
<1>11. CASE Join
  BY <1>11, JoinKeepsInv
<1>12. CASE \E c \in Calls : FinishSubAgent(c)
  BY <1>12, FinishSubAgentKeepsInv
<1>13. CASE UNCHANGED vars
  <2>1. TypeOK' /\ Phases' /\ Admission'
    BY <1>13, RecordedKept DEF Inv, TypeOK, Phases, Admission, vars, conversation, work
  <2>2. Order' /\ OpenIsQueued'
    BY <1>13, OrderKept DEF Inv, OpenIsQueued, Kinds, vars, conversation, work
  <2> QED
    BY <2>1, <2>2 DEF Inv
<1> QED
  BY <1>1, <1>2, <1>3, <1>4, <1>5, <1>6, <1>7, <1>8, <1>9, <1>10, <1>11, <1>12, <1>13
  DEF Next, Loop, Chat, Execute

LEMMA InvAlways == Spec => []Inv
BY InitInv, NextInv, PTL DEF Spec

\* The variables of the loop keep their types (react.go, agent.go).
THEOREM TypeCorrect == Spec => []TypeOK
BY InvAlways, PTL DEF Inv

\* Results stand in the order of the calls, and none twice, for any batches and
\* any interleaving of subagents, refusals and interrupts (react.go:483-534).
THEOREM ResultsStayInCallOrder == Spec => []ResultsInCallOrder
<1>1. Inv => ResultsInCallOrder
  BY DEF Inv, Order
<1> QED
  BY <1>1, InvAlways, PTL

\* A refused call is never recorded and its tool never runs (react.go:296-313).
THEOREM RefusedNeverRun == Spec => []RefusedNeverRuns
<1>1. Inv => RefusedNeverRuns
  BY DEF Inv, Admission, RefusedNeverRuns
<1> QED
  BY <1>1, InvAlways, PTL

\* The model is never called with a call of the running turn unanswered
\* (react.go:434-551).
THEOREM TurnAlwaysAnswered == Spec => []TurnIsAnswered
<1>1. Inv => TurnIsAnswered
  <2>1. SUFFICES ASSUME Inv, phase = "chatting" PROVE TurnIsAnswered
    BY DEF TurnIsAnswered
  <2>2. DOMAIN queue = {}
    BY <2>1 DEF Inv, Phases
  <2> QED
    BY <2>1, <2>2 DEF Inv, OpenIsQueued, TurnIsAnswered
<1> QED
  BY <1>1, InvAlways, PTL
-----------------------------------------------------------------------------
(***************************************************************************)
(* The refinement: the life of a call in the loop is the one ToolCalls     *)
(* promises.  Progress says how far the calls have come; it rests on the   *)
(* invariant above.                                                        *)
(***************************************************************************)

\* How far the calls have come: what runs has not returned, what is answered
\* has, and the queue holds no call that ran, but for the finished ones of a
\* parallel batch; behind the first call of a sequential response none runs.
Progress ==
  /\ running \cap ran = {} /\ running \cap Answered = {} /\ finished \subseteq ran
  /\ phase = "executing" =>
       \A i \in DOMAIN queue : queue[i] \notin ran /\ (i > 1 => queue[i] \notin running)
  /\ phase = "dispatching" => \A i \in DOMAIN queue : queue[i] \in ran => queue[i] \in finished

\* No call exists yet.
LEMMA ProgressInit == Init => Progress
BY DEF Init, Progress, Answered, IdsOf

\* A step that leaves the calls of the running response alone.
LEMMA ProgressKept ==
  ASSUME Progress, UNCHANGED <<running, ran>>, Answered' = Answered,
         finished' \in {finished, {}}, phase' \notin {"executing", "dispatching"}
  PROVE  Progress'
BY DEF Progress

\* New calls have neither run nor been answered.
LEMMA ProgressNew ==
  ASSUME Inv, Progress, UNCHANGED <<running, ran>>, Answered' = Answered,
         finished' \in {finished, {}}, \A i \in DOMAIN queue' : queue'[i] \notin Recorded
  PROVE  Progress'
BY DEF Inv, Admission, Progress

\* A batch is recorded as calls, and answers none.
LEMMA BatchAnswersNothing ==
  ASSUME Inv, NEW b \in Batches, CallBatch(b)
  PROVE  Answered' = Answered
<1> DEFINE ns == [i \in 1 .. Len(b) |-> Call(nextId + i - 1)]
<1>1. Len(b) \in Nat /\ nextId \in 1 .. MaxCalls + 1 /\ nextId + Len(b) - 1 \in Calls
  BY ToolsAssumption DEF Inv, TypeOK, CallBatch
<1>2. \A i \in 1 .. Len(b) : nextId + i - 1 \in Calls
  BY <1>1, LimitsAssumption DEF Calls
<1>3. /\ ns \in Seq(Message) /\ DOMAIN ns = 1 .. Len(b)
      /\ \A i \in DOMAIN ns : ns[i].kind = "call"
  BY <1>1, <1>2, MessageTypes DEF Call
<1>4. messages' = messages \o ns /\ messages \in Seq(Message)
  BY DEF CallBatch, Inv, TypeOK
<1> HIDE DEF ns
<1>5. IdsOf(ns, "result") = {}
  BY <1>3 DEF IdsOf
<1>6. IdsOf(messages \o ns, "result") = IdsOf(messages, "result") \cup IdsOf(ns, "result")
  BY <1>3, <1>4, IdsOfConcat
<1> QED
  BY <1>4, <1>5, <1>6 DEF Answered

\* A parallel batch is answered at once.
LEMMA JoinAnswers ==
  ASSUME Inv, Join
  PROVE  Answered' = Answered \cup {queue[i] : i \in DOMAIN queue}
<1> DEFINE ns == [i \in 1 .. Len(queue) |-> Result(queue[i])]
<1>1. queue \in Seq(Calls) /\ Len(queue) \in Nat /\ DOMAIN queue = 1 .. Len(queue)
  BY DEF Inv, TypeOK
<1>2. /\ ns \in Seq(Message) /\ DOMAIN ns = DOMAIN queue
      /\ \A i \in DOMAIN ns : ns[i].kind = "result" /\ ns[i].id = queue[i]
  BY <1>1, MessageTypes DEF Result
<1>3. messages' = messages \o ns /\ messages \in Seq(Message)
  BY DEF Join, Inv, TypeOK
<1> HIDE DEF ns
<1>4. IdsOf(ns, "result") = {queue[i] : i \in DOMAIN queue}
  BY <1>2 DEF IdsOf
<1> QED
  BY <1>2, <1>3, <1>4, IdsOfConcat DEF Answered

\* Every step of the loop keeps track of how far each call has come.
LEMMA ProgressStep == Inv /\ Progress /\ [Next]_vars => Progress'
<1> SUFFICES ASSUME Inv, Progress, [Next]_vars PROVE Progress'
  OBVIOUS
<1> USE DEF Inv
<1>0. /\ queue \in Seq(Calls) /\ messages \in Seq(Message) /\ DOMAIN queue = 1 .. Len(queue)
      /\ Len(queue) \in Nat /\ running \subseteq Calls /\ ran \subseteq Calls
      /\ \A i, j \in DOMAIN queue : i < j => queue[i] < queue[j]
      /\ \A i \in DOMAIN queue : queue[i] \in Calls /\ queue[i] \in Nat
  <2>1. queue \in Seq(Calls) /\ messages \in Seq(Message) /\ running \subseteq Calls /\ ran \subseteq Calls
    BY DEF TypeOK
  <2>2. /\ DOMAIN queue = 1 .. Len(queue) /\ Len(queue) \in Nat
        /\ \A i \in DOMAIN queue : queue[i] \in Calls
    BY <2>1
  <2>3. \A c \in Calls : c \in Nat
    BY DEF Calls
  <2> QED
    BY <2>1, <2>2, <2>3 DEF Order
<1>1. CASE UNCHANGED vars \/ Cancel
  BY <1>1, RecordedKept DEF vars, conversation, work, Cancel, Progress
<1>2. CASE StartTurn
  <2>1. Answered' = Answered
    BY <1>2, MessageTypes, AppendedIds DEF StartTurn, User
  <2> QED
    BY <1>2, <2>1, ProgressKept DEF StartTurn
<1>3. CASE GiveUp \/ ChatFails \/ StopBetweenCalls \/ Prompt
  <2>1. /\ UNCHANGED <<messages, running, ran, finished>>
        /\ phase' \notin {"executing", "dispatching"}
    BY <1>3 DEF GiveUp, ChatFails, StopBetweenCalls, Prompt, Abort, work, conversation
  <2> QED
    BY <2>1, RecordedKept, ProgressKept
<1>4. CASE Answer \/ Reason
  <2>1. /\ UNCHANGED <<running, ran, finished>> /\ phase' \notin {"executing", "dispatching"}
        /\ \E m \in {Final, Reasoning} : messages' = Append(messages, m)
    BY <1>4 DEF Answer, Reason, work
  <2>2. \A m \in {Final, Reasoning} : m \in Message /\ m.kind \notin {"call", "result"}
    BY MessageTypes DEF Final, Reasoning
  <2>3. Answered' = Answered
    BY <2>1, <2>2, AppendedIds
  <2> QED
    BY <2>1, <2>3, ProgressKept
<1>5. ASSUME NEW t \in Tools, CallFreely(t) PROVE Progress'
  <2>1. /\ queue' = <<nextId>> /\ nextId \in Calls /\ messages' = Append(messages, Call(nextId))
        /\ UNCHANGED <<running, ran, finished>>
    BY <1>5 DEF CallFreely
  <2>2. nextId \notin Recorded /\ DOMAIN queue' = {1} /\ queue'[1] = nextId
    BY <2>1 DEF Admission, Calls
  <2>3. Answered' = Answered
    BY <2>1, MessageTypes, AppendedIds DEF Call
  <2> QED
    BY <2>1, <2>2, <2>3, ProgressNew
<1>6. ASSUME NEW t \in Tools, AskApproval(t) \/ CallMore(t) PROVE Progress'
  <2>1. UNCHANGED <<messages, running, ran, finished>> /\ phase' \in {"waiting", "top"}
    BY <1>6 DEF AskApproval, CallMore, work, conversation
  <2> QED
    BY <2>1, RecordedKept, ProgressKept
<1>7. ASSUME NEW b \in Batches, CallBatch(b) PROVE Progress'
  <2>1. /\ queue' = NewCalls(Len(b)) /\ UNCHANGED <<running, ran>> /\ finished' = {}
    BY <1>7 DEF CallBatch
  <2>2. Answered' = Answered
    BY <1>7, BatchAnswersNothing
  <2>3. nextId \in Nat /\ Len(b) \in Nat
    BY ToolsAssumption DEF TypeOK
  <2>4. ASSUME NEW i \in DOMAIN queue' PROVE queue'[i] \notin Recorded
    <3>1. i \in 1 .. Len(b) /\ queue'[i] = nextId + i - 1
      BY <2>1 DEF NewCalls
    <3>2. ~(queue'[i] < nextId)
      BY <2>3, <3>1
    <3> QED
      BY <3>2 DEF Admission
  <2> QED
    BY <2>1, <2>2, <2>4, ProgressNew
<1>8. CASE Decide
  <2>1. /\ phase = "waiting" /\ pending \in Calls /\ pending # NoCall
        /\ UNCHANGED <<running, ran, finished>>
        /\ \/ messages' = Append(messages, Call(pending)) /\ queue' = <<pending>>
           \/ messages' = Append(messages, Result(pending)) /\ phase' = "top"
    BY <1>8 DEF Decide, RuleDecides, Proceed, SayAlways, SayNo, Undecided,
       Resume, Refuse, work, Phases, TypeOK
  <2>2. pending \notin Recorded
    BY <2>1 DEF Admission
  <2>3. CASE messages' = Append(messages, Call(pending)) /\ queue' = <<pending>>
    <3>1. Answered' = Answered
      BY <2>1, <2>3, MessageTypes, AppendedIds DEF Call
    <3>2. DOMAIN queue' = {1} /\ queue'[1] = pending
      BY <2>3
    <3> QED
      BY <2>1, <2>2, <3>1, <3>2, ProgressNew
  <2>4. CASE messages' = Append(messages, Result(pending)) /\ phase' = "top"
    <3>1. Answered' = Answered \cup {pending}
      BY <2>1, <2>4, MessageTypes, AppendedIds DEF Result
    <3>2. pending \notin running
      BY <2>2 DEF Admission
    <3> QED
      BY <2>1, <2>4, <3>1, <3>2 DEF Progress
  <2> QED
    BY <2>1, <2>3, <2>4
<1>9. CASE StartTool
  <2>1. /\ phase = "executing" /\ phase' = phase /\ UNCHANGED <<messages, queue, finished, ran>>
        /\ running' = running \cup {queue[1]}
    BY <1>9 DEF StartTool, conversation
  <2>2. 1 \in DOMAIN queue
    BY <1>0, <2>1 DEF Phases
  <2>3. queue[1] \notin ran /\ queue[1] \notin Answered
    BY <1>0, <2>1, <2>2 DEF Progress, Order
  <2>4. \A i \in DOMAIN queue : i > 1 => queue[i] # queue[1]
    BY <1>0, <2>2
  <2> QED
    BY <2>1, <2>3, <2>4, RecordedKept DEF Progress
<1>10. CASE Dispatch
  <2>1. PICK i \in DOMAIN queue : /\ queue[i] \notin running \cup finished
                                  /\ running' = running \cup {queue[i]}
    BY <1>10 DEF Dispatch
  <2>2. /\ phase = "dispatching" /\ phase' = phase /\ UNCHANGED <<messages, queue, finished, ran>>
    BY <1>10 DEF Dispatch, conversation
  <2>3. queue[i] \notin ran /\ queue[i] \notin Answered
    BY <1>0, <2>1, <2>2 DEF Progress, Order
  <2> QED
    BY <2>1, <2>2, <2>3, RecordedKept DEF Progress
<1>11. CASE FinishTool
  <2>1. /\ phase = "executing" /\ phase' \in {"executing", "top"} /\ UNCHANGED finished
        /\ queue # <<>> /\ queue[1] \in running
        /\ messages' = Append(messages, Result(queue[1])) /\ queue' = Tail(queue)
        /\ running' = running \ {queue[1]} /\ ran' = ran \cup {queue[1]}
    BY <1>11 DEF FinishTool, NextIteration, Phases
  <2>2. 1 \in DOMAIN queue
    BY <1>0, <2>1
  <2>3. Answered' = Answered \cup {queue[1]}
    BY <1>0, <2>1, <2>2, MessageTypes, AppendedIds DEF Result
  <2>4. ASSUME NEW i \in DOMAIN queue'
        PROVE  queue'[i] \notin ran' /\ queue'[i] \notin running'
    <3>1. queue'[i] = queue[i + 1] /\ i + 1 \in DOMAIN queue /\ i + 1 > 1
      BY <1>0, <2>1, TailFacts
    <3>2. queue[i + 1] # queue[1]
      BY <1>0, <2>2, <3>1
    <3> QED
      BY <2>1, <3>1, <3>2 DEF Progress
  <2> QED
    BY <2>1, <2>3, <2>4 DEF Progress
<1>12. CASE Join
  <2>1. /\ phase' = "top" /\ UNCHANGED <<running, ran>> /\ finished' = {}
        /\ \A i \in DOMAIN queue : queue[i] \in finished
    BY <1>12 DEF Join, NextIteration
  <2>2. \A c \in Answered' : c \in Answered \/ \E i \in DOMAIN queue : queue[i] = c
    BY <1>12, JoinAnswers
  <2> QED
    BY <2>1, <2>2 DEF Progress
<1>13. ASSUME NEW c \in Calls, FinishSubAgent(c) PROVE Progress'
  <2>1. /\ c \in running /\ ~(phase = "executing" /\ queue[1] = c)
        /\ running' = running \ {c} /\ ran' = ran \cup {c}
        /\ finished' = IF phase = "dispatching" /\ \E i \in DOMAIN queue : queue[i] = c
                       THEN finished \cup {c} ELSE finished
        /\ UNCHANGED <<messages, phase, queue>>
    BY <1>13 DEF FinishSubAgent, conversation
  <2>2. Answered' = Answered
    BY <2>1, RecordedKept
  <2>3. phase = "executing" => \A i \in DOMAIN queue : queue[i] # c
    BY <1>0, <2>1 DEF Progress
  <2> QED
    BY <2>1, <2>2, <2>3 DEF Progress
<1> QED
  BY <1>1, <1>2, <1>3, <1>4, <1>5, <1>6, <1>7, <1>8, <1>9, <1>10, <1>11, <1>12, <1>13
  DEF Next, Loop, Chat, Execute
-----------------------------------------------------------------------------
\* Several calls move on together, and no other call does.
LEMMA Moves ==
  ASSUME NEW S \in SUBSET Calls, S # {}, NEW from, NEW to,
         \A c \in S : Life[c] \in from,
         \A c \in Calls : Life'[c] = IF c \in S THEN to ELSE Life[c]
  PROVE  Promise!Move(S, from, to)
<1>1. Life' = [c \in Calls |-> Life'[c]]
  BY DEF Life
<1>2. Life' = [c \in Calls |-> IF c \in S THEN to ELSE Life[c]]
  BY <1>1
<1> QED
  BY <1>2 DEF Promise!Move

\* A step that moves no call.
LEMMA LifeKept ==
  ASSUME UNCHANGED <<nextId, pending, refused, running, ran>>, Answered' = Answered
  PROVE  Life' = Life
BY DEF Life

\* The calls are numbers, and what a call has gone through was recorded or
\* asked before.
LEMMA LifeFacts ==
  ASSUME Inv
  PROVE  /\ nextId \in Nat /\ NoCall \notin Calls
         /\ \A c \in Calls : c \in Nat
         /\ \A c \in Recorded : /\ c \in Calls /\ c < nextId /\ ~(c >= nextId)
                               /\ c # pending /\ c \notin refused
         /\ \A c \in Answered : c < nextId /\ c # pending
         /\ \A c \in refused : ~(c >= nextId)
         /\ running \subseteq Recorded /\ ran \subseteq Recorded
<1> USE DEF Inv
<1>1. nextId \in Nat /\ \A c \in Calls : c \in Nat
  BY DEF TypeOK, Calls
<1>2. Recorded \subseteq Calls /\ Answered \subseteq Calls
  BY RecordedAreCalls
<1>3. \A c \in Recorded : c < nextId /\ c # pending /\ c \notin refused
  <2>1. \A c \in Recorded : c < nextId /\ c \notin refused
    BY DEF Admission
  <2>2. \A c \in Recorded : c # NoCall
    BY <1>2, LimitsAssumption
  <2> QED
    BY <2>1, <2>2 DEF Admission
<1>4. \A c \in Answered : c < nextId /\ c # pending
  <2>1. \A c \in Answered : c # NoCall /\ ~(c < c)
    BY <1>1, <1>2, LimitsAssumption
  <2> QED
    BY <2>1 DEF Order
<1>5. \A c \in refused : ~(c >= nextId)
  BY <1>1 DEF Admission, TypeOK
<1> QED
  BY <1>1, <1>2, <1>3, <1>4, <1>5, LimitsAssumption DEF Admission, TypeOK

\* New calls are opened together.
LEMMA OpenMoves ==
  ASSUME Inv, NEW n \in Nat \ {0}, nextId' = nextId + n, nextId + n - 1 \in Calls,
         pending = NoCall, pending' = NoCall, UNCHANGED <<running, refused, ran>>,
         Answered' = Answered, NEW S, S = nextId .. nextId + n - 1
  PROVE  S \in SUBSET Calls /\ Promise!Open(S)
<1>1. /\ nextId \in Nat /\ nextId \in S /\ S \subseteq Calls
      /\ \A c \in S : c \in Nat /\ c >= nextId /\ ~(c >= nextId')
      /\ \A c \in Calls \ S : c \in Nat /\ (c >= nextId <=> c >= nextId')
  <2>1. nextId \in 1 .. MaxCalls + 1 /\ MaxCalls \in Nat
    BY LimitsAssumption DEF Inv, TypeOK
  <2> QED
    BY <2>1 DEF Calls
<1>2. \A c \in S : /\ c \notin Answered /\ c \notin running /\ c \notin ran
                  /\ c \notin refused /\ c # NoCall
  BY <1>1, LifeFacts
<1>3. \A c \in S : Life[c] = "unseen" /\ Life'[c] = "open"
  BY <1>1, <1>2 DEF Life
<1>4. \A c \in Calls \ S : Life'[c] = Life[c]
  BY <1>1 DEF Life
<1>5. Promise!Move(S, {"unseen"}, "open")
  BY <1>1, <1>3, <1>4, Moves
<1> QED
  BY <1>1, <1>5 DEF Promise!Open

\* The approval workflow admits the pending call or refuses it.
LEMMA DecideMoves ==
  ASSUME Inv, Decide
  PROVE  pending \in Calls /\ (Promise!Admit(pending) \/ Promise!Refuse(pending))
<1>1. /\ phase = "waiting" /\ pending \in Calls /\ pending # NoCall /\ pending' = NoCall
      /\ UNCHANGED <<running, ran, nextId>>
      /\ \/ messages' = Append(messages, Call(pending)) /\ refused' = refused
         \/ messages' = Append(messages, Result(pending)) /\ refused' = refused \cup {pending}
  BY DEF Inv, Decide, RuleDecides, Proceed, SayAlways, SayNo, Undecided,
     Resume, Refuse, work, Phases, TypeOK
<1>2. /\ pending < nextId /\ pending \notin Recorded /\ pending \in Nat
      /\ pending \notin running /\ pending \notin ran /\ pending \notin Answered
      /\ pending \notin refused
  BY <1>1, LifeFacts DEF Inv, Admission
<1>3. Life[pending] = "asked"
  BY <1>1, <1>2, LifeFacts DEF Life
<1>4. \A c \in Calls : c # pending => (c \in refused' <=> c \in refused)
  BY <1>1
<1>5. TypeOK /\ ~(pending >= nextId)
  BY <1>2, LifeFacts DEF Inv
<1>6. CASE messages' = Append(messages, Call(pending)) /\ refused' = refused
  <2>1. Answered' = Answered
    BY <1>1, <1>5, <1>6, MessageTypes, AppendedIds DEF Call
  <2>2. Life'[pending] = "open"
    BY <1>1, <1>2, <1>5, <1>6, <2>1, LifeFacts DEF Life
  <2>3. \A c \in Calls : c # pending => Life'[c] = Life[c]
    BY <1>1, <1>4, <2>1, LifeFacts DEF Life
  <2>4. Promise!Move({pending}, {"asked"}, "open")
    BY <1>1, <1>3, <2>2, <2>3, Moves
  <2> QED
    BY <1>1, <2>4 DEF Promise!Admit
<1>7. CASE messages' = Append(messages, Result(pending)) /\ refused' = refused \cup {pending}
  <2>1. Answered' = Answered \cup {pending}
    BY <1>1, <1>5, <1>7, MessageTypes, AppendedIds DEF Result
  <2>2. Life'[pending] = "refused"
    BY <1>1, <1>5, <1>7, LifeFacts DEF Life
  <2>3. \A c \in Calls : c # pending => Life'[c] = Life[c]
    BY <1>1, <1>4, <2>1, LifeFacts DEF Life
  <2>4. Promise!Move({pending}, {"asked"}, "refused")
    BY <1>1, <1>3, <2>2, <2>3, Moves
  <2> QED
    BY <1>1, <2>4 DEF Promise!Refuse
<1> QED
  BY <1>1, <1>6, <1>7

\* A call of the queue that has not started gets its tool.
LEMMA RunMoves ==
  ASSUME Inv, Progress, NEW i \in DOMAIN queue, queue[i] \notin running,
         phase = "dispatching" => queue[i] \notin finished,
         phase \in {"executing", "dispatching"}, running' = running \cup {queue[i]},
         UNCHANGED <<messages, nextId, pending, refused, ran>>
  PROVE  queue[i] \in Calls /\ Promise!Run(queue[i])
<1> DEFINE c == queue[i]
<1>1. c \in Recorded /\ c \notin ran /\ c \notin Answered /\ c \in Calls
  <2>1. c \in Recorded /\ c \notin ran
    BY DEF Inv, Admission, Progress
  <2>2. c \in Calls /\ c \in Nat
    BY <2>1, LifeFacts
  <2>3. c \notin Answered
    BY <2>2 DEF Inv, Order
  <2> QED
    BY <2>1, <2>2, <2>3
<1>2. Answered' = Answered
  BY RecordedKept
<1> HIDE DEF c
<1>3. Life[c] = "open" /\ Life'[c] = "running"
  BY <1>1, <1>2, LifeFacts DEF Life, c
<1>4. \A d \in Calls : d # c => Life'[d] = Life[d]
  BY <1>2 DEF Life, c
<1>5. Promise!Move({c}, {"open"}, "running")
  BY <1>1, <1>3, <1>4, Moves
<1> QED
  BY <1>1, <1>5 DEF Promise!Run, c

\* Every step of the loop is a step of the promise or moves no call.
LEMMA PromiseStep == Inv /\ Progress /\ [Next]_vars => [Promise!Next]_Life
<1> SUFFICES ASSUME Inv, Progress, [Next]_vars PROVE Promise!Next \/ Life' = Life
  OBVIOUS
<1>0. TypeOK
  BY DEF Inv
<1>1. CASE UNCHANGED vars \/ Cancel \/ GiveUp \/ ChatFails \/ StopBetweenCalls \/ Prompt
  <2>1. UNCHANGED <<messages, nextId, pending, refused, running, ran>>
    BY <1>1 DEF vars, conversation, work, Cancel, GiveUp, ChatFails, StopBetweenCalls, Prompt,
       Abort
  <2> QED
    BY <2>1, RecordedKept, LifeKept
<1>2. CASE StartTurn
  <2>1. Answered' = Answered
    BY <1>0, <1>2, MessageTypes, AppendedIds DEF StartTurn, User
  <2>2. UNCHANGED <<nextId, pending, refused, running, ran>>
    BY <1>2 DEF StartTurn, Inv, Phases
  <2> QED
    BY <2>1, <2>2, LifeKept
<1>3. CASE Answer \/ Reason
  <2>1. /\ UNCHANGED <<nextId, pending, refused, running, ran>>
        /\ \E m \in {Final, Reasoning} : messages' = Append(messages, m)
    BY <1>3 DEF Answer, Reason, work
  <2>2. \A m \in {Final, Reasoning} : m \in Message /\ m.kind \notin {"call", "result"}
    BY MessageTypes DEF Final, Reasoning
  <2>3. Answered' = Answered
    BY <1>0, <2>1, <2>2, AppendedIds
  <2> QED
    BY <2>1, <2>3, LifeKept
<1>4. ASSUME NEW t \in Tools, CallFreely(t) PROVE Promise!Next
  <2>1. /\ phase = "chatting" /\ nextId \in Calls /\ nextId' = nextId + 1
        /\ messages' = Append(messages, Call(nextId))
        /\ UNCHANGED <<pending, running, refused, ran>>
    BY <1>4 DEF CallFreely
  <2>2. Answered' = Answered
    BY <1>0, <2>1, MessageTypes, AppendedIds DEF Call
  <2>3. pending = NoCall
    BY <2>1 DEF Inv, Phases
  <2>4. nextId .. nextId + 1 - 1 = {nextId} /\ nextId + 1 - 1 = nextId
    BY LifeFacts
  <2>5. Promise!Open({nextId}) /\ {nextId} \in SUBSET Calls
    <3> DEFINE S == {nextId}
               n == 1
    <3>1. /\ S = nextId .. nextId + n - 1 /\ nextId + n - 1 \in Calls /\ n \in Nat \ {0}
          /\ nextId' = nextId + n
      BY <2>1, <2>4
    <3>2. /\ pending = NoCall /\ pending' = NoCall /\ Answered' = Answered
          /\ UNCHANGED <<running, refused, ran>>
      BY <2>1, <2>2, <2>3
    <3> HIDE DEF S, n
    <3>3. Promise!Open(S) /\ S \in SUBSET Calls
      BY ZenonT(40), <3>1, <3>2, OpenMoves
    <3> QED
      BY <3>3 DEF S
  <2> QED
    BY <2>5 DEF Promise!Next
<1>5. ASSUME NEW t \in Tools, AskApproval(t) PROVE Promise!Next
  <2>1. /\ phase = "chatting" /\ nextId \in Calls /\ nextId' = nextId + 1 /\ pending' = nextId
        /\ UNCHANGED <<messages, running, refused, ran>>
    BY <1>5 DEF AskApproval, conversation, work
  <2>2. pending = NoCall
    BY <2>1 DEF Inv, Phases
  <2>3. Answered' = Answered
    BY <2>1, RecordedKept
  <2>4. nextId \in Nat /\ nextId >= nextId /\ ~(nextId >= nextId')
    BY <2>1, LifeFacts
  <2>5. Life[nextId] = "unseen" /\ Life'[nextId] = "asked"
    BY <2>1, <2>4 DEF Life
  <2>6. \A c \in Calls : c # nextId =>
          /\ c >= nextId <=> c >= nextId'
          /\ c # pending /\ c # pending'
    BY <2>1, <2>2, LifeFacts
  <2>7. \A c \in Calls : c # nextId => Life'[c] = Life[c]
    BY <2>1, <2>3, <2>6 DEF Life
  <2>8. Promise!Move({nextId}, {"unseen"}, "asked")
    BY <2>1, <2>5, <2>7, Moves
  <2> QED
    BY <2>1, <2>8 DEF Promise!Next, Promise!Ask
<1>6. ASSUME NEW b \in Batches, CallBatch(b) PROVE Promise!Next
  <2> DEFINE S == nextId .. nextId + Len(b) - 1
  <2>1. Len(b) \in Nat \ {0} /\ nextId \in Nat
    <3>1. b \in Seq(Tools) /\ b # <<>>
      BY ToolsAssumption
    <3> QED
      BY <3>1, LifeFacts, EmptySeq
  <2>2. /\ phase = "chatting" /\ nextId' = nextId + Len(b) /\ nextId + Len(b) - 1 \in Calls
        /\ UNCHANGED <<pending, running, refused, ran>>
    BY <1>6 DEF CallBatch
  <2>3. pending = NoCall
    BY <2>2 DEF Inv, Phases
  <2>4. Answered' = Answered
    BY <1>6, BatchAnswersNothing
  <2>5. Promise!Open(S) /\ S \in SUBSET Calls
    <3> HIDE DEF S
    <3>1. S = nextId .. nextId + Len(b) - 1
      BY DEF S
    <3> QED
      BY SMTT(30), <2>1, <2>2, <2>3, <2>4, <3>1, OpenMoves
  <2> QED
    BY <2>5 DEF Promise!Next
<1>7. CASE Decide
  BY <1>7, DecideMoves DEF Promise!Next
<1>13. CASE \E t \in Tools : CallMore(t)
  <2>1. UNCHANGED <<messages, nextId, pending, refused, running, ran>>
    BY <1>13 DEF CallMore, conversation, work
  <2> QED
    BY <2>1, RecordedKept, LifeKept
<1>8. CASE StartTool
  <2>1. /\ phase = "executing" /\ queue[1] \notin running /\ running' = running \cup {queue[1]}
        /\ UNCHANGED <<messages, nextId, pending, refused, ran>>
    BY <1>8 DEF StartTool, conversation
  <2>2. 1 \in DOMAIN queue
    BY <1>0, <2>1 DEF Inv, Phases, TypeOK
  <2> QED
    BY <2>1, <2>2, RunMoves DEF Promise!Next
<1>9. CASE Dispatch
  <2>1. PICK i \in DOMAIN queue : /\ queue[i] \notin running \cup finished
                                  /\ running' = running \cup {queue[i]}
    BY <1>9 DEF Dispatch
  <2>2. phase = "dispatching" /\ UNCHANGED <<messages, nextId, pending, refused, ran>>
    BY <1>9 DEF Dispatch, conversation
  <2>3. queue[i] \notin running /\ queue[i] \notin finished
    BY <2>1
  <2> QED
    BY <2>1, <2>2, <2>3, RunMoves DEF Promise!Next
<1>10. CASE FinishTool
  <2> DEFINE c == queue[1]
  <2>1. /\ phase = "executing" /\ c \in running /\ messages' = Append(messages, Result(c))
        /\ running' = running \ {c} /\ ran' = ran \cup {c}
        /\ UNCHANGED <<nextId, pending, refused>>
    BY <1>10 DEF FinishTool
  <2>2. c \in Recorded /\ c \in Calls /\ c \notin ran /\ c \notin Answered
    <3>1. c \in running
      BY <2>1
    <3> QED
      BY <3>1, LifeFacts DEF Progress
  <2> HIDE DEF c
  <2>3. Answered' = Answered \cup {c}
    BY <1>0, <2>1, <2>2, MessageTypes, AppendedIds DEF Result
  <2>4. Life[c] = "running" /\ Life'[c] = "answered"
    BY <2>1, <2>2, <2>3, LifeFacts DEF Life
  <2>5. \A d \in Calls : d # c => Life'[d] = Life[d]
    BY <2>1, <2>3 DEF Life
  <2>6. Promise!Move({c}, {"running"}, "answered")
    BY <2>2, <2>4, <2>5, Moves
  <2> QED
    BY <2>2, <2>6 DEF Promise!Next, Promise!ReturnAnswered
<1>11. CASE Join
  <2> DEFINE S == {queue[i] : i \in DOMAIN queue}
  <2>1. /\ \A i \in DOMAIN queue : queue[i] \in finished
        /\ UNCHANGED <<nextId, pending, refused, running, ran>>
    BY <1>11 DEF Join
  <2>2. Answered' = Answered \cup S
    BY <1>11, JoinAnswers
  <2>3. S \subseteq ran /\ S \subseteq Recorded /\ S \cap Answered = {}
    <3>1. S \subseteq ran
      BY <2>1 DEF Progress
    <3>2. \A i \in DOMAIN queue : queue[i] \in Recorded /\ queue[i] \in Nat
      BY LifeFacts DEF Inv, Admission
    <3>3. \A i \in DOMAIN queue : queue[i] \notin Answered
      BY <3>2 DEF Inv, Order
    <3> QED
      BY <3>1, <3>2, <3>3
  <2> HIDE DEF S
  <2>4. \A c \in S : c \in Calls /\ Life[c] = "ran" /\ Life'[c] = "answered"
    BY <2>1, <2>2, <2>3, LifeFacts DEF Life
  <2>5. \A c \in Calls : c \notin S => Life'[c] = Life[c]
    BY <2>1, <2>2 DEF Life
  <2>6. CASE S = {}
    BY <2>1, <2>2, <2>6, LifeKept
  <2>7. CASE S # {}
    <3>1. Promise!Move(S, {"ran"}, "answered") /\ S \in SUBSET Calls
      BY <2>4, <2>5, <2>7, Moves
    <3> QED
      BY <3>1 DEF Promise!Next, Promise!Answer
  <2> QED
    BY <2>6, <2>7
<1>12. ASSUME NEW c \in Calls, FinishSubAgent(c) PROVE Promise!Next
  <2>1. /\ c \in running /\ running' = running \ {c} /\ ran' = ran \cup {c}
        /\ UNCHANGED <<messages, nextId, pending, refused>>
    BY <1>12 DEF FinishSubAgent, conversation
  <2>2. c \in Recorded /\ c \notin ran /\ c \notin Answered
    BY <2>1, LifeFacts DEF Progress
  <2>3. Answered' = Answered
    BY <2>1, RecordedKept
  <2>4. Life[c] = "running" /\ Life'[c] = "ran"
    BY <2>1, <2>2, <2>3, LifeFacts DEF Life
  <2>5. \A d \in Calls : d # c => Life'[d] = Life[d]
    BY <2>1, <2>3 DEF Life
  <2>6. Promise!Move({c}, {"running"}, "ran")
    BY <2>4, <2>5, Moves
  <2> QED
    BY <2>6 DEF Promise!Next, Promise!Return
<1> QED
  BY <1>1, <1>2, <1>3, <1>4, <1>5, <1>6, <1>7, <1>8, <1>9, <1>10, <1>11, <1>12, <1>13
  DEF Next, Loop, Chat, Execute

\* The loop keeps the promise about tool calls: whatever is batched, dispatched
\* in parallel, refused, interrupted or left behind by a turn, a call is refused
\* or opened once, runs at most once, and is answered once, after it ran
\* (processResponse, Resume, CancelPendingToolCall).
THEOREM ReActKeepsPromise == Spec => KeepsPromise
<1>1. Init => Progress
  BY ProgressInit
<1>2. Inv /\ Progress /\ [Next]_vars => Progress'
  BY ProgressStep
<1>3. Init => Promise!Init
  <2> SUFFICES ASSUME Init PROVE Promise!Init
    OBVIOUS
  <2>1. nextId = 1 /\ \A c \in Calls : c >= nextId
    BY DEF Init, Calls
  <2> QED
    BY <2>1 DEF Promise!Init, Life
<1>4. Inv /\ Progress /\ [Next]_vars => [Promise!Next]_Life
  BY PromiseStep
<1> QED
  BY InvAlways, <1>1, <1>2, <1>3, <1>4, PTL DEF Spec, KeepsPromise, Promise!Spec
=============================================================================
