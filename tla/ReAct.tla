-------------------------------- MODULE ReAct --------------------------------
(***************************************************************************)
(* The ReAct loop (pkg/agent/react/react.go) inside one turn of            *)
(* Agent.Invoke (internal/app/agent.go), with the approval workflow that   *)
(* suspends and resumes it, for the successive turns of one conversation.  *)
(*                                                                         *)
(* An iteration sends the conversation to the model and processes its      *)
(* response: a final answer ends the turn, reasoning goes round again, a   *)
(* tool call is recorded, executed and answered.  A gated call (Write,     *)
(* Edit, MultiEdit, an unlisted Bash command) makes the loop return        *)
(* ErrWaitingForApproval with the call pending; the caller then resumes    *)
(* the loop or cancels the call and resumes.  A batch is recorded at once; *)
(* a batch of subagent dispatches runs in parallel, any other in sequence. *)
(* The turn's context can be canceled at any moment.                       *)
(*                                                                         *)
(* A tool stands for a tool together with the class of arguments one       *)
(* permission rule covers.  Every model call costs one token.              *)
(***************************************************************************)
EXTENDS Integers, Sequences

CONSTANTS Tools,          \* tool names, each with one class of arguments
          Gated,          \* those processed through the approval workflow
          SubAgents,      \* the Task dispatches
          Batches,        \* the batches of tool calls the model may respond with
          MaxIterations,  \* settings.Agent.MaxIterations
          TokenBudget,    \* 0: unlimited
          SkipApproval,   \* background subagents
          SessionRules,   \* in-memory rules of a plugin command
          FileRules,      \* the rules the permission files may hold
          MayCancel,      \* whether the user interrupts turns
          NoCall,
          MaxTurns,       \* bound: turns of the conversation
          MaxCalls        \* bound: tool calls that are followed one by one

Calls == 1 .. MaxCalls

ASSUME ToolsAssumption ==
  /\ Gated \subseteq Tools
  /\ SubAgents \subseteq Tools
  /\ Batches \subseteq Seq(Tools) \ {<<>>}
ASSUME RulesAssumption ==
  /\ SessionRules \in [Gated -> {"none", "allow", "deny"}]
  /\ FileRules \subseteq [Gated -> {"none", "allow", "deny"}]
ASSUME LimitsAssumption ==
  /\ MaxIterations \in Nat /\ TokenBudget \in Nat
  /\ MaxTurns \in Nat /\ MaxCalls \in Nat
  /\ SkipApproval \in BOOLEAN /\ MayCancel \in BOOLEAN
  /\ NoCall \notin Calls

VARIABLES
  messages,   \* MessageState.Messages without the situation message
  situation,  \* the conversation ends in a situation message
  saved,      \* the session file
  turns,      \* turns started
  phase,      \* where the turn is
  canceled,   \* the turn's context is canceled
  iteration,  \* currentIteration
  used,       \* usedTokens: model calls made by this turn, counted to the budget
  pending,    \* pendingToolCall
  resumed,    \* processResponse was entered from Resume
  queue,      \* calls of the response that have no result recorded yet
  running,    \* calls whose tool is executing
  finished,   \* parallel calls whose result waits to be recorded
  nextId,     \* the next call id the model uses
  tool,       \* the tool of each call
  rules,      \* permRules
  refused,    \* history: the calls a rule or the user refused
  ran         \* history: the calls whose tool has returned

conversation == <<messages, situation, saved>>
work == <<queue, running, finished>>
vars == <<conversation, turns, phase, canceled, iteration, used, pending,
          resumed, work, nextId, tool, rules, refused, ran>>

Message == [kind : {"user", "answer", "reasoning"}, id : {0}]
             \cup [kind : {"call", "result"}, id : Calls]
User      == [kind |-> "user", id |-> 0]
Final     == [kind |-> "answer", id |-> 0]
Reasoning == [kind |-> "reasoning", id |-> 0]
Call(c)   == [kind |-> "call", id |-> c]
Result(c) == [kind |-> "result", id |-> c]

\* The ids of the messages of a kind.
IdsOf(ms, kind) == {ms[i].id : i \in {j \in DOMAIN ms : ms[j].kind = kind}}
Answered == IdsOf(messages, "result")
Recorded == IdsOf(messages, "call")
-----------------------------------------------------------------------------
Init ==
  /\ messages = <<>> /\ situation = FALSE /\ saved = <<>>
  /\ turns = 0 /\ phase = "idle" /\ canceled = FALSE
  /\ iteration = 0 /\ used = 0
  /\ pending = NoCall /\ resumed = FALSE
  /\ queue = <<>> /\ running = {} /\ finished = {}
  /\ nextId = 1
  /\ tool = [c \in Calls |-> "none"]
  /\ rules \in FileRules
  /\ refused = {} /\ ran = {}

\* Invoke builds a new ReAct value and Run records the user's message.
StartTurn ==
  /\ phase = "idle" /\ turns < MaxTurns
  /\ turns' = turns + 1
  /\ messages' = Append(messages, User)
  /\ situation' = FALSE
  /\ phase' = "top" /\ canceled' = FALSE
  /\ iteration' = 0 /\ used' = 0
  /\ pending' = NoCall /\ resumed' = FALSE
  /\ queue' = <<>> /\ finished' = {}
  /\ UNCHANGED <<saved, running, nextId, tool, rules, refused, ran>>

\* The interrupt handler cancels the turn's context, whatever the turn does.
Cancel ==
  /\ MayCancel
  /\ phase # "idle" /\ ~canceled
  /\ canceled' = TRUE
  /\ UNCHANGED <<conversation, turns, phase, iteration, used, pending, resumed,
                 work, nextId, tool, rules, refused, ran>>

\* The turn returns an error; nothing is saved and nothing is taken back.
Abort ==
  /\ phase' = "idle"
  /\ UNCHANGED <<conversation, turns, canceled, iteration, used, pending, resumed,
                 work, nextId, tool, rules, refused, ran>>

(***************************************************************************)
(* The head of an iteration.                                               *)
(***************************************************************************)
\* Defect: the budget is not looked at.
NeverOverBudget == FALSE

OverBudget == TokenBudget > 0 /\ used >= TokenBudget

\* Canceled, over the token budget, or out of iterations.
GiveUp ==
  /\ phase = "top"
  /\ iteration >= MaxIterations \/ canceled \/ OverBudget
  /\ Abort

\* IterationAdvisor.InjectMessage has something to say.
Advises ==
  \/ iteration = 0
  \/ iteration >= MaxIterations - 1
  \/ messages[Len(messages)].kind = "result"

\* RemoveMessagesBySource and, after the injection, CleanupMandatory: both
\* remove every situation message they find.
Inject(situated) == situated \/ Advises
Cleanup(situated) == FALSE

\* The previous situation message is removed, the advisor adds a new one, the
\* mandatory cleanup runs, and what is left goes to the model.
Prompt ==
  /\ phase = "top"
  /\ iteration < MaxIterations /\ ~canceled /\ ~OverBudget
  /\ situation' = Cleanup(Inject(Cleanup(situation)))
  /\ phase' = "chatting"
  /\ used' = IF used < TokenBudget THEN used + 1 ELSE used
  /\ UNCHANGED <<messages, saved, turns, canceled, iteration, pending, resumed,
                 work, nextId, tool, rules, refused, ran>>

(***************************************************************************)
(* The model's response.                                                   *)
(***************************************************************************)
ChatFails == phase = "chatting" /\ Abort

\* A final answer is recorded and the session saved.
Answer ==
  /\ phase = "chatting"
  /\ messages' = Append(messages, Final)
  /\ saved' = messages'
  /\ phase' = "idle"
  /\ UNCHANGED <<situation, turns, canceled, iteration, used, pending, resumed,
                 work, nextId, tool, rules, refused, ran>>

Reason ==
  /\ phase = "chatting"
  /\ messages' = Append(messages, Reasoning)
  /\ phase' = "top"
  /\ iteration' = iteration + 1
  /\ UNCHANGED <<situation, saved, turns, canceled, used, pending, resumed,
                 work, nextId, tool, rules, refused, ran>>

RequiresApproval(t) == t \in Gated /\ ~SkipApproval

\* processResponse records a call before it looks at the context.
CallFreely(t) ==
  /\ phase = "chatting" /\ nextId \in Calls
  /\ ~RequiresApproval(t)
  /\ messages' = Append(messages, Call(nextId))
  /\ queue' = <<nextId>>
  /\ phase' = "executing"
  /\ nextId' = nextId + 1
  /\ tool' = [tool EXCEPT ![nextId] = t]
  /\ UNCHANGED <<situation, saved, turns, canceled, iteration, used, pending,
                 resumed, running, finished, rules, refused, ran>>

\* ErrWaitingForApproval: the call is pending and not recorded.
AskApproval(t) ==
  /\ phase = "chatting" /\ nextId \in Calls
  /\ RequiresApproval(t)
  /\ pending' = nextId
  /\ phase' = "waiting"
  /\ nextId' = nextId + 1
  /\ tool' = [tool EXCEPT ![nextId] = t]
  /\ UNCHANGED <<conversation, turns, canceled, iteration, used, resumed, work, rules,
                 refused, ran>>

\* Beyond the bound a call is made and answered in one step and nothing of it
\* kept but that a call that was asked about counts no iteration: there is no
\* end of calls.
CallMore(t) ==
  /\ phase = "chatting" /\ nextId \notin Calls
  /\ phase' = "top"
  /\ iteration' = IF RequiresApproval(t) THEN iteration ELSE iteration + 1
  /\ UNCHANGED <<conversation, turns, canceled, used, pending, resumed, work, nextId,
                 tool, rules, refused, ran>>

NewCalls(n) == [i \in 1 .. n |-> nextId + i - 1]

AllSubAgentDispatch(b) == \A i \in DOMAIN b : b[i] \in SubAgents

\* Every call of a batch is recorded before the first one runs; the approval
\* check does not look at batches.
CallBatch(b) ==
  /\ phase = "chatting" /\ nextId + Len(b) - 1 \in Calls
  /\ messages' = messages \o [i \in 1 .. Len(b) |-> Call(nextId + i - 1)]
  /\ queue' = NewCalls(Len(b))
  /\ phase' = IF Len(b) > 1 /\ AllSubAgentDispatch(b) THEN "dispatching" ELSE "executing"
  /\ finished' = {}
  /\ nextId' = nextId + Len(b)
  /\ tool' = [c \in Calls |-> IF c \in nextId .. nextId + Len(b) - 1
                              THEN b[c - nextId + 1] ELSE tool[c]]
  /\ UNCHANGED <<situation, saved, turns, canceled, iteration, used, pending,
                 resumed, running, rules, refused, ran>>

(***************************************************************************)
(* The approval workflow.  It holds the turn until it has resumed the loop *)
(* with the pending call or without it.                                    *)
(***************************************************************************)
\* Defect: Resume does not clear the pending call.
ResumeKeepingPending ==
  /\ messages' = Append(messages, Call(pending))
  /\ queue' = <<pending>>
  /\ phase' = "executing"
  /\ resumed' = TRUE
  /\ UNCHANGED <<situation, saved, turns, canceled, iteration, used, pending, running,
                 finished, nextId, tool, refused, ran>>

\* Resume with the call still pending: it is recorded and queued.  The loop
\* re-enters the iteration that asked.
Resume ==
  /\ messages' = Append(messages, Call(pending))
  /\ queue' = <<pending>>
  /\ phase' = "executing"
  /\ resumed' = TRUE
  /\ pending' = NoCall
  /\ UNCHANGED <<situation, saved, turns, canceled, iteration, used, running,
                 finished, nextId, tool, refused, ran>>

\* CancelPendingToolCall, then Resume without a pending call.
Refuse ==
  /\ messages' = Append(messages, Result(pending))
  /\ pending' = NoCall
  /\ phase' = "top"
  /\ refused' = refused \cup {pending}
  /\ UNCHANGED <<situation, saved, turns, canceled, iteration, used, resumed, work,
                 nextId, tool, ran>>

\* The first matching rule: session rules before permission rules.
RuleFor(t) == IF SessionRules[t] # "none" THEN SessionRules[t] ELSE rules[t]

RuleDecides ==
  /\ phase = "waiting"
  /\ \/ RuleFor(tool[pending]) = "allow" /\ Resume
     \/ RuleFor(tool[pending]) = "deny"  /\ Refuse
  /\ UNCHANGED rules

\* Without a matching rule a terminal shows the dialog.
Undecided == phase = "waiting" /\ RuleFor(tool[pending]) = "none"

\* "Yes"; or stdin is no terminal and nobody can be asked; or the dialog
\* returns an error, Ctrl+C among them.
Proceed ==
  /\ Undecided
  /\ Resume
  /\ UNCHANGED rules

\* "Always" puts an allow rule in front of permRules, saved or not.
SayAlways ==
  /\ Undecided
  /\ Resume
  /\ rules' = [rules EXCEPT ![tool[pending]] = "allow"]

SayNo ==
  /\ Undecided
  /\ Refuse
  /\ UNCHANGED rules

Decide == RuleDecides \/ Proceed \/ SayAlways \/ SayNo

(***************************************************************************)
(* Executing the recorded calls.                                           *)
(***************************************************************************)
\* The response is processed.  Only the loop's own path counts an iteration.
NextIteration ==
  /\ phase' = "top"
  /\ iteration' = IF resumed THEN iteration ELSE iteration + 1
  /\ resumed' = FALSE

\* The context is looked at before every call, in sequence and in dispatch.
StopBetweenCalls ==
  /\ phase \in {"executing", "dispatching"} /\ canceled
  /\ phase = "executing" => queue[1] \notin running
  /\ phase = "dispatching" =>
       \E i \in DOMAIN queue : queue[i] \notin running \cup finished
  /\ Abort

StartTool ==
  /\ phase = "executing" /\ ~canceled
  /\ queue[1] \notin running
  /\ running' = running \cup {queue[1]}
  /\ UNCHANGED <<conversation, turns, phase, canceled, iteration, used, pending,
                 resumed, queue, finished, nextId, tool, rules, refused, ran>>

\* Defect: a tool that fails leaves no result.
FinishToolUnlessItFails ==
  /\ phase = "executing" /\ queue[1] \in running
  /\ messages' \in {messages, Append(messages, Result(queue[1]))}
  /\ running' = running \ {queue[1]}
  /\ ran' = ran \cup {queue[1]}
  /\ queue' = Tail(queue)
  /\ IF Len(queue) = 1 THEN NextIteration ELSE UNCHANGED <<phase, iteration, resumed>>
  /\ UNCHANGED <<situation, saved, turns, canceled, used, pending, finished, nextId,
                 tool, rules, refused>>

\* A result, an error or a failure of the tool: each becomes the call's result.
FinishTool ==
  /\ phase = "executing" /\ queue[1] \in running
  /\ messages' = Append(messages, Result(queue[1]))
  /\ running' = running \ {queue[1]}
  /\ ran' = ran \cup {queue[1]}
  /\ queue' = Tail(queue)
  /\ IF Len(queue) = 1 THEN NextIteration ELSE UNCHANGED <<phase, iteration, resumed>>
  /\ UNCHANGED <<situation, saved, turns, canceled, used, pending, finished, nextId,
                 tool, rules, refused>>

\* The next call of a parallel batch gets a goroutine.
Dispatch ==
  /\ phase = "dispatching" /\ ~canceled
  /\ \E i \in DOMAIN queue :
       /\ \A j \in 1 .. i - 1 : queue[j] \in running \cup finished
       /\ queue[i] \notin running \cup finished
       /\ running' = running \cup {queue[i]}
  /\ UNCHANGED <<conversation, turns, phase, canceled, iteration, used, pending,
                 resumed, queue, finished, nextId, tool, rules, refused, ran>>

\* Defect: each goroutine records its own result.
FinishSubAgentRecording(c) ==
  /\ c \in running
  /\ ~(phase = "executing" /\ queue[1] = c)
  /\ running' = running \ {c}
  /\ messages' = Append(messages, Result(c))
  /\ finished' = finished \cup {c}
  /\ ran' = ran \cup {c}
  /\ UNCHANGED <<situation, saved, turns, phase, canceled, iteration, used, pending,
                 resumed, queue, nextId, tool, rules, refused>>

\* A subagent returns.  Its goroutine may have outlived the turn that started
\* it: then its result goes nowhere.
FinishSubAgent(c) ==
  /\ c \in running
  /\ ~(phase = "executing" /\ queue[1] = c)
  /\ running' = running \ {c}
  /\ finished' = IF phase = "dispatching" /\ \E i \in DOMAIN queue : queue[i] = c
                 THEN finished \cup {c} ELSE finished
  /\ ran' = ran \cup {c}
  /\ UNCHANGED <<conversation, turns, phase, canceled, iteration, used, pending,
                 resumed, queue, nextId, tool, rules, refused>>

\* wg.Wait returned: the results are recorded in the order of the calls.
Join ==
  /\ phase = "dispatching"
  /\ \A i \in DOMAIN queue : queue[i] \in finished
  /\ messages' = messages \o [i \in 1 .. Len(queue) |-> Result(queue[i])]
  /\ queue' = <<>> /\ finished' = {}
  /\ NextIteration
  /\ UNCHANGED <<situation, saved, turns, canceled, used, pending, running, nextId,
                 tool, rules, refused, ran>>

Chat == \/ ChatFails \/ Answer \/ Reason
        \/ \E t \in Tools : CallFreely(t) \/ AskApproval(t) \/ CallMore(t)
        \/ \E b \in Batches : CallBatch(b)
Execute == StopBetweenCalls \/ StartTool \/ FinishTool \/ Dispatch \/ Join
Loop == GiveUp \/ Prompt \/ Chat \/ Decide \/ Execute

Next == \/ StartTurn \/ Cancel \/ Loop
        \/ \E c \in Calls : FinishSubAgent(c)

Spec == Init /\ [][Next]_vars

\* The scheduler runs the loop, the model's backend and the tools return, and
\* the user answers the dialog.
FairSpec == /\ Spec
            /\ WF_vars(Loop)
            /\ \A c \in Calls : WF_vars(FinishSubAgent(c))
-----------------------------------------------------------------------------
Kinds(k) == {i \in DOMAIN messages : messages[i].kind = k}

\* The types of the variables.
TypeOK ==
  /\ messages \in Seq(Message) /\ situation \in BOOLEAN /\ saved \in Seq(Message)
  /\ turns \in 0 .. MaxTurns
  /\ phase \in {"idle", "top", "chatting", "waiting", "executing", "dispatching"}
  /\ canceled \in BOOLEAN /\ resumed \in BOOLEAN
  /\ iteration \in 0 .. MaxIterations /\ used \in 0 .. TokenBudget
  /\ pending \in Calls \cup {NoCall}
  /\ queue \in Seq(Calls)
  /\ running \subseteq Calls /\ finished \subseteq Calls
  /\ refused \subseteq Calls /\ ran \subseteq Calls
  /\ nextId \in 1 .. MaxCalls + 1
  /\ tool \in [Calls -> Tools \cup {"none"}]
  /\ rules \in [Gated -> {"none", "allow", "deny"}]

\* The results in the conversation stand in the order in which the model made
\* the calls and no call has two, whatever ran in parallel, was refused or was
\* left behind by an interrupted turn (processResponse, react.go:483-534).
ResultsInCallOrder ==
  \A i, j \in Kinds("result") : i < j => messages[i].id < messages[j].id

\* A call the user or a rule refused is not recorded as a call and its tool
\* never runs, though the loop that proposed it goes on (react.go:296-313,
\* agent.go:1107-1110).
RefusedNeverRuns ==
  refused \cap (Recorded \cup running \cup ran) = {}

\* When the model is called, every call of this turn has its result behind it:
\* no path of processResponse or Resume goes on to the next prompt with a call
\* unanswered (react.go:434-551).
TurnIsAnswered ==
  phase = "chatting" =>
    \A i \in Kinds("call") :
      (\A j \in Kinds("user") : j < i) =>
        \E k \in Kinds("result") : k > i /\ messages[k].id = messages[i].id

\* A turn with a token budget ends, though the model may call gated tools for
\* ever and a call that is approved or refused counts no iteration
\* (SetTokenBudget, react.go:212-215; Resume, react.go:252-275).
TurnEnds == (phase # "idle") ~> (phase = "idle")

(***************************************************************************)
(* The loop implements the promise about tool calls.                       *)
(***************************************************************************)
Life == [c \in Calls |->
  IF c >= nextId THEN "unseen"
  ELSE IF c = pending THEN "asked"
  ELSE IF c \in refused THEN "refused"
  ELSE IF c \in Answered THEN "answered"
  ELSE IF c \in ran THEN "ran"
  ELSE IF c \in running THEN "running"
  ELSE "open"]

Promise == INSTANCE ToolCalls WITH life <- Life

\* Every step of the loop keeps or advances the promise.
KeepsPromise == Promise!Spec
=============================================================================
