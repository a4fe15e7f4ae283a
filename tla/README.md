# A verification model of klein-cli

klein is a coding agent: a REPL or a messaging gateway hands a user's prompt to
an `Agent`, which loops between a language model and tools until it has an
answer. This directory holds TLA+ modules of the parts of it whose correctness
depends on the order of events, TLC configurations that model-check them on
small instances, and TLAPS proofs that the safety properties hold for instances of
any size.

Source paths are relative to the repository; `DESIGN.md:291` stands for
`doc/DESIGN.md` line 291, and a file named without a directory is the only one
of that name in the component it is mentioned with.

    tlasany M.tla                          parse a module
    tlc -workers 2 -config X.cfg M         model-check (table in section 4)
    tlapm M.tla                            check the proofs of a module *Proofs

Contents: 1 the system - 2 the plan - 3 the modules - 4 the runs - 5 fairness -
6 the proofs - 7 where the code and its documentation part - 8 what is left out.


## 1. The system

### Components, their state and what makes them correct

**Agent and its ReAct loop** (`internal/app/agent.go`,
`pkg/agent/react/react.go`). State: the conversation, the iteration counter, the
token count, one pending tool call. Operations: `Agent.Invoke`, `ReAct.Run`,
`Resume`, `CancelPendingToolCall`, the approval dialog. Hard: a call that needs
approval suspends one iteration across three functions; a batch of subagent
dispatches runs in parallel while the loop owns the conversation; an interrupt
can come anywhere and the goroutines it abandons live on. Correct when every
call is refused or recorded once, runs at most once and only if it may, is
answered once and in order, and the model is not called again before.

**Background agents** (`internal/app/agent_runs.go`). State: a registry of runs
under one lock, each run's status and `notified` flag under its own, a `done`
channel. Operations: `StartBackgroundAgent`, the run's goroutine,
`StopAgentRun`, `drainAgentNotifications` / `releaseAgentNotifications` by
turns, `CancelAll`. Hard: launches, completions, stops, drains and failing turns
interleave at the grain of single locks, and `AgentStop` waits with no lock.
Correct when an outcome reaches the conversation exactly once, is recorded
before anyone waiting is woken, and a wait ends.

**Message state, the session file and the model clients** (`pkg/agent/state`,
`internal/infra/message.go`, `pkg/client`). State: the list of messages, the
file. Operations: the prompts that open a turn, append, `CleanupMandatory`,
`CompactIfNeeded`, `Clear`, `SaveToFile`, `LoadFromFile`; each client makes a
request of the list in its own way. Hard: cleanup and compaction rewrite the
list between any two model calls, over histories with halves of call/result
pairs; saves are neither atomic nor frequent. Correct when the model is told all
that was said, in pairs that its vendor accepts, under the prompts of the
running turn, and what was saved survives.

**App-server client** (`pkg/agentserver/runner.go`). With the codex or
app-server backend a whole turn is delegated to another process by JSON-RPC.
State: the runner's lock, a subscription, a goroutine per `turn/start`. Hard:
the id of a turn may come after its caller has given up; whoever gets it must
stop the turn, once; notifications of an old turn arrive in the subscription of
a new one. Correct when no abandoned turn keeps running, and a turn returns its
own outcome.

**Agent server** (`internal/connectrpc/server.go`) and **gateway**
(`internal/gateway`). The server has two tables (session id to agent, peer key
to session id) and agents with their session files; the gateway has a map from
peers to sessions, each with a lock. Every inbound message has a goroutine.
Hard: lookups and updates of the maps are separate critical sections, in two
processes that restart independently. Correct when an agent runs one turn at a
time, for its own peer; none leaks; history survives whatever is not `!clear`,
and does not survive that.

**File tools and plan mode** (`internal/tool/filesystem_tool_manager.go`,
`plan_tool_manager.go`, `plan_mode_guard.go`). State: a table of read times and
one mode, both shared by a turn and its subagents, and files that everybody
else writes too. Hard: a call checks, loads, writes and records in steps without
a lock. Correct when a save made between calls is not overwritten unseen and the
session never refuses its own writes. What plan mode promises, the subagents
that share it can undo (section 7).

**Scheduler** (`internal/tool/schedule_tool_manager.go`,
`internal/gateway/schedules.go`). State: a store file that several processes
rewrite, the scheduler's last file time, one goroutine per schedule. Hard: a
mutex in each process but none between them, times that tell of changes, and
cancels that meet expired timers and a full bus. Correct when each schedule has
one goroutine, saved schedules stay and every change becomes active.

**Task list** (`internal/tool/task_tool_manager.go`,
`internal/repository/task.go`). State: a slice of tasks with two-way links, a
file. Hard: a call reads and sets under locks of their own, writes the other sides
of its links without one and may fail half-way; a save empties the file first.
Correct when links agree, blockers come first and what was answered stays.

**Names** (`internal/skill`, `internal/plugin`, `internal/app/plugins.go`).
State: one table of definitions, one of commands, the sets of contested names.
Hard: files of five directories and plugins in random order compete for bare
names. Correct when who has a name does not depend on the order, and a name that
is listed leads to what was listed.

**Permissions** (`internal/permission`, the approval workflow, `InvokeCommand`).
State: three files; per session two slices of rules (`permRules.Rules`, which
Always prepends to, and `sessionRules.Rules`, which a plugin command appends to and
cuts off) and one sandbox. Hard: sessions share the files while their saves
overlap, and goroutines start when the sandbox is another. Correct when no call that
reaches the approval workflow goes unasked that nobody allowed, no decision is lost,
and no background agent outgrows the sandbox it was sent off in.

**Long-term memory** (`internal/tool/memorydb`). State: one SQLite file with
versions that supersede each other, opened by several processes. Hard: deferred
transactions that read first and write later, and a `Recall` that writes too. Correct
when versions are a line, feedback stays, and what was forgotten stays forgotten.

**The rest**: the REPL with `/goal` and `/loop`, deferred tools, the todo list,
stored tool results, MCP, configuration, review, researcher, the command line.
These read files, convert data or do I/O.

### How they interact

    Discord / scheduler                    terminal
          |  messages                          |  lines
       gateway  -- Connect RPC -->  agent server      REPL, /goal, /loop
                                        \               /
                                         Agent.Invoke  (one turn)
                 drains outcomes   /        |           \  app-server backend
        background agents <-------        ReAct            Runner -- JSON-RPC --> server
                 Task, AgentStop  \     /   |   \
                                   tools  clients  message state -- session file
                                     |
          files, plan mode, task list, schedule store, memory, permissions, names

The calls go down. What comes back up by itself: completions of background
runs (picked up by the next turn), notifications of the app-server (a
subscription), schedules (messages on the bus), and interrupts (contexts). What
several callers share without a common lock: the read times and the task list
(a turn and its subagents), the schedule store, the permission files and the
memory (several processes).

Every component is listed in `PROJECT.json` with its status, the hazards of most
weight at the line where they bite. The hazards chose the properties.


## 2. The plan

The order is by what a fault would cost and how far a test is from reaching it.
All modules of the plan are written and checked.

| | modules | abstract specification | proved, besides types | with TLC only |
|-|---------|------------------------|----------------------|---------------|
| 1 | `AgentRuns` | `OutcomeMailbox` | delivery, nothing lost, refinement | `OutcomeArrives`, `StopReturns` |
| 2 | `ReAct` | `ToolCalls` | order, refusal, answers, refinement | `TurnEnds` |
| 3 | `Compaction`, `Requests`, `MessageState` | | saves, recent results, prompts, what is told, pairs | |
| 4 | `TurnRunner` | | one interrupt, own outcome, quiet threads | `AbandonedStops`, `HolderReturns` |
| 5 | `AgentServer`, `Gateway` | | one turn per agent, own agent, no leak, lock, history, quiet peers | |
| 6 | `FileTools`, `PlanMode`, `Workspace` | | others' edits, own writes | |
| 7 | `Scheduler` | | one job, one late message, saves, drift | `ChangesBecomeActive` |
| 8 | `TaskList` | | links, order, answers | |
| 9 | `Names` | | bare names, local names, listed names in lower case | |
| 10 | `Permissions` | | approval workflow, decisions, bound of background agents | |
| 11 | `MemoryStore` | | lines, feedback, forgetting | |

Every invariant that a passing run checks is a theorem as well; what remains
with TLC is liveness. Left to prove: nothing that the runs ask, but promises of
the kind of `OutcomeMailbox` could be stated for the gateway (a conversation
per peer), the schedule store and the memory (a map that is written atomically)
and proved to be kept.

Compositions: `Gateway` extends `AgentServer`; `Workspace` puts `FileTools`
and `PlanMode` under a turn and its subagents; `MessageState` runs under
`Requests`, which extends `Compaction`; `ReAct` and `AgentRuns` state their
promises by `INSTANCE`. What is left to compose is `Scheduler` with the bus of
`Gateway`, and the goal and loop drivers over `ReAct` (section 8).

Modules with proofs are written without RECURSIVE operators, with named
assumptions on constants and one action per operation. Definitions under a
comment that begins with "Defect:" or "A mutant:" are not part of any
specification: each is a plausible bug put in place of the definition after it,
to see that a property notices.


## 3. The modules

### AgentRuns and OutcomeMailbox

`OutcomeMailbox` is the promise: a run ends once, its outcome enters the
conversation once. `AgentRuns` is the code: every action is one critical section
or one step without a lock.

| action | code |
|--------|------|
| `ReserveId`, `Register` | `StartBackgroundAgent`: `nextID`, then the entry in the registry; another launch may come between |
| `Finish`, `CloseDone` | the goroutine: `finish`, then the deferred `close(done)` and `cancel()` |
| `BeginTurn`, `TakeNotification` | `drainAgentNotifications`: a snapshot of the registry, then one run's lock after the other |
| `Deliver` | `ReAct.Run` adds the message that carries the outcomes |
| `AbortTurn`, `Release` | a failing `Invoke` returns its claims one by one |
| `StopFinished`, `StopRunning`, `StopCancel`, `StopReturn` | `StopAgentRun`: status, `cancel()`, `<-run.done`, status again |
| `CancelAll` | the REPL returns |

`delivered` is history: nothing in the code counts deliveries. What a
subagent does between its start and its end is only whether it calls
`AgentStop`; `Stoppers` are the runs whose tools include it.

### ReAct and ToolCalls

`phase` is the place in `runInternal`; a response is a choice of `Answer`,
`Reason`, one call, or a batch. `queue` holds recorded calls without a result,
`running` those whose tool executes (also on goroutines that outlive the turn),
`finished` parallel results that wait for `wg.Wait`. `RuleDecides`, `Proceed`,
`SayAlways` and `SayNo` are the outcomes of the approval workflow
(`agent.go:1100-1180`); each either calls `Resume` or `CancelPendingToolCall` and
`Resume`. A dialog that fails is a `Proceed`. `refused` is history.

A tool stands for a tool with one class of arguments, so a permission rule is a
value per tool. A model call costs one token; the budget is the real one's
control, not its size. `MaxCalls` bounds the calls that are followed one by one;
beyond it `CallMore` makes and answers calls without an end, gated ones among them,
so that it is not this bound that ends a turn. `situation` says whether the
conversation ends in the advisor's message. `ToolCalls` is the promise: asked,
refused or opened, run once, answered once.

### Compaction, Requests and MessageState

`Compaction` holds the pure functions over messages reduced to kind, id, turn
and, for a summary, what it tells of. A call ends with a text, with images or with an
error, whose text a message keeps apart from its `Result`: the summary is written
from `Result` and does not tell it (`WrittenOut`). `Reload` is what a save and a load
make of a message: a compact boundary comes back as an ordinary system message, a
result without its images.
`Requests` is what the Anthropic, OpenAI and Gemini clients make of a
conversation: roles, calls and results, for OpenAI the empty output of an error and
the user's message with images behind a result, and for Gemini the one system
message that becomes the instruction.

`MessageState` is the conversation's life. A turn opens (`Open`) with the
prompts that changed, asks (`Ask`) and appends: a call with its result, a batch
of calls followed by its results (`AddPair`, `AddBatch`), a result without a
call (`AddRefusal`), a call without a result (`AddInterrupted`). `Open` and
`Ask` include the cleanup. `CompactIfNeeded` rewrites with a summary or, when
the model gives none, with counts; whether the token threshold is reached is a
free choice. The plan that clears its context is `ClearContext`. A save is
`Truncate` and then `Write`, the process may crash in between, and `Restart`
loads what is there. A turn opens with three prompts (memory, catalog, role), each
of which may be missing (`NoPrompt`). The constants 5, 5, 10 and 5 of the code are `KeepTurns`,
`KeepBlocks`, `KeepMessages` and `Margin`. `ModelIsTold` and `PairsAreSent` look
at the requests that each client would send in every state in the middle of a
turn; OpenAI's client keeps the conversation from being compacted, so that for
it this covers more states than there are.

### TurnRunner

`pc` is the place of each `RunTurn` call, `call` the goroutine of its
`turn/start`. The connection is two FIFO streams; responses and notifications
share one, which is what the ordering of "completed" and the answer to an
interrupt rests on. The server is outside the repository. It is modelled from
how `runner.go` uses it: one turn per thread, a second one refused;
`turn/interrupt` answered once the turn has ended; notifications in order.
`shadowed` marks turns that subscribed while the thread was not quiet.

### AgentServer and Gateway

`AgentServer` has the tables, agents and files, one operator per critical
section. `Gateway` strings them together per message: `handler[m]` is the
message's goroutine, with the session and the agent it has found so far as
locals. `ServerRestarts` fails the requests in flight and forgets the tables;
`GatewayRestarts` forgets the map and the locks and leaves requests running as
`orphans`. A conversation is the set of turns it remembers. History variables:
`alone` (peers that never had two messages in hand), `crossed` (an id of an
earlier server run has been honoured), `kept` and `forgotten` (turns answered,
turns cleared).

### FileTools, PlanMode and Workspace

A file's content is a version number, 0 for no file. The clock that stamps files
is coarser than `time.Now()`, so a tick may hold several steps. A call's place
is "stat" (Write asks whether the file exists), "validate", "load", "write",
"record" or "idle"; every place can fail, and a `MultiEdit` goes on with the next
file after a failure. `WriteBack` may leave an emptied file. `SaveOutside` is
everybody else: a new file, or an older one moved into place with its old time.
`marks` is history: "quiet" (saved from outside while no call was on the file
and later than the recorded time), "seen" and "settled".

`PlanMode` is the flag with its two tools. `Workspace` has callers that share
the read times and the flag: one is the turn, whose calls pass the guard when
they begin; the others are background subagents, which have no guard and the
same plan tools. Plan mode is in the model because it decides which calls are made;
no property is stated of it.

### Scheduler

`LoadEntries`, `WriteTemp` and `Rename` are a call of the Schedule tools, which
holds its process's mutex all the while; `GiveUp` is its failure or the
process's end. The gateway's scheduler loads once (`Boot`), takes the file's
time (`FirstStat`), and then polls (`Poll`, `Reload`). A job is a goroutine in
one of the `Slots` of its name, so that a cancelled one may live beside its
replacement: its timer expires, it sends when the bus has room, or it quits.
`Dispatch` takes a message from the bus. `missed` is history: why the
scheduler need not notice what the store has: a load that failed, a rename between
the first load and the first `Stat`, a file no newer than the one before.
`unsure` has the names that a save from an outdated load may have undone.

### TaskList

A call (`Create`, `Update`) reads the list and validates. `LinkNext` puts one link in
the call's copy and its other side into the shared list, in place; `Apply` writes the
rest, the call's copy of the task over them, and sets the list; `ApplyFails` stops at
an unknown id with the links before it done. `Half` has the links of which a call
under way has written one side only. `Encode`, `Truncate` and `Written` are the save,
which may take another call's half links with it (`torn`); after a restart from
such a file they stay half. What follows after a call wrote to a list that another had changed since it was read depends
on which backing arrays `append` has shared (`Grow` is an `append` that shows
nowhere yet); the model says so (`raced`) and ends there. `Restart` loads what the file holds, or nothing when it is torn.
`halves` and `afterStart` are the exceptions of the properties, each added by
the step that makes them.

### Names

`Files` and `Commands` are there or not as the process starts: any subset, with
broken ones. `LocalDefinition` is the result of the ladder (binary, user,
project directories) and of the merge of skills, roles and agents; each
`Register` adds one plugin's agents, skills and commands and contests names with
those before it. Marketplace plugins come in any order. The lookups
(`ResolveSubagent`, `LookupStartup`, `LookupInvocable`, `Slash`, `ReadSkill`)
are operators over the tables, and the properties compare them with what is
listed.

### Permissions

A session starts with the rules of three files and the tools of the command
line. A gated call is asked about or not by the first rule that matches; Always
prepends a rule in memory and loads, extends and writes the project's file in
steps that other sessions interleave with. The calls are those that reach the
workflow; batches, background agents and failed dialogs go round it (`ReAct` has
them). `Roles` are the `tools:` of the definitions turns run under, which
`Exposed` takes for a turn's tools where no sandbox stands. A plugin command narrows the sandbox
and appends its rules, and puts both back when it ends. A background agent
resolves its tools when it is sent off and again when its goroutine runs. Which
calls a pattern matches, and which pattern is inferred for a call, are constants
of the instance; one of its three calls is not matched by the pattern that is
inferred from it, as happens in the code.

### MemoryStore

A row is a version of a memory. `Begin` opens a deferred transaction whose
snapshot is the row it reads; `Commit` fails once another process has committed
(`Overtaken`), as SQLite does with a stale snapshot. `Autocommit` is a single
statement, `RecordAccess` one of those by which `Recall` counts accesses. `ReadVersion` and `Migrate` are the steps of `Open`; the version is
read outside the transaction, so the second of two first processes goes without
memory. `origin`, `given` and `dropped` are history.


## 4. The runs

| run | module, cfg | instance | states | shows |
|-----|-------------|----------|--------|-------|
| `agent_runs` | `MCAgentRuns`, `AgentRuns` | turns one after another, 2 runs, all may stop | 12 938 | implements the mailbox; outcomes arrive, AgentStop returns |
| `react_turns` | `MCReAct`, `ReActTurns` | 2 turns, 4 calls and any number beyond, a gated tool, parallel and mixed batch, interrupts, budget 3 | 209 984 | order, answers, promise, termination |
| `message_state` | `MCMessageState`, `MessageState` | 3 turns, 6 messages or calls, errors, images, halves, 1 restart | 843 685 | what each model is told and under which prompts, pairs, saves, recent results |
| `turn_runner` | `MCTurnRunner`, `TurnRunner` | 2 turns, the first may be given up | 122 003 | stopped once, own outcome, no thread left taken, callers return |
| `gateway_sessions` | `MCGateway`, `Gateway` | peers with 3 and 1 messages, 1 mishap | 825 099 | one turn per agent, history and clear, quiet peers are served |
| `gateway_isolation` | `MCGateway`, `GatewayIsolation` | the same | - | violation: a stale id names another peer's session |
| `workspace_files` | `MCWorkspace`, `Workspace` | a turn and a subagent, 2 files, 3 calls, 3 versions, 2 ticks | 942 176 | saves made between calls survive, own writes pass |
| `scheduler` | `MCScheduler`, `Scheduler` | 2 processes, 2 names, 2 calls, 2 ticks, 1 fault | 339 673 | one job each, saves stay, changes are noticed and become active |
| `task_list` | `MCTaskList`, `TaskList` | 2 callers, 3 tasks, 3 calls, 1 fault | 1 363 048 | links, order, answers |
| `names` | `MCNames`, `Names` | 11 files, 3 commands, 3 plugins | 83 072 | names do not depend on the order, local names win, listed names in lower case answer |
| `permissions` | `MCPermissions`, `Permissions` | 2 sessions, 3 starts, 2 Always, 1 background agent | 505 970 | calls of the workflow are asked about, decisions stand, agents keep to their sandbox |
| `memory_store` | `MCMemoryStore`, `MemoryStore` | 3 processes, 3 rows, 2 credits, 2 forgets | 1 020 767 | lines, feedback, forgetting |

Why these bounds are enough.

* *AgentRuns.* Every race of the safety part is between two drains, a drain and
  a finishing run, or a stop and a finishing run. The run is there for the
  liveness, which needs one turn that comes again and two runs that can wait for
  each other; with two overlapping turns one may for ever claim what the
  other waits for and fail. The proofs cover overlapping turns and any number.
* *ReAct.* Four calls hold a batch and two single calls, or two batches, in two
  turns, so a goroutine of the first can end in the second. Two iterations reach
  the limit; a budget of three bites before it when approvals leave the counter
  alone: `CallMore` lets the model ask for gated tools for ever, and a turn that
  does not look at its budget does not end. The proofs lift safety to any tools,
  batches and limits.
* *MessageState.* With `KeepTurns` at two and `KeepBlocks`, `KeepMessages` and
  `Margin` at one, six items hold two compactions with a cleanup between and a
  split among halves. The algorithms compare positions with these constants
  only, so small ones place every boundary. Seven items were run once
  (3 945 145 states).
* *TurnRunner.* A fault needs one turn given up and one that follows on its
  thread or another. `Speech` lets a turn say something, fail, or meet an error
  that the server retries; each kind once.
* *Gateway.* Two prompts of one peer race to start a session, a third message
  clears it in between, another peer's message exists so that agents can be
  mixed up. `MaxMishaps = 1`: one expiry or one restart of either process.
* *Workspace.* A loss needs a read, a save from outside and a write, with another
  caller's record between: three calls, and a tick in which something happens
  after the record and one in which it does not. One of the two files is
  blacklisted, and a batch names a file twice.
* *Scheduler.* An outdated save needs two processes with a call each, and a
  missed change one call at the wrong moment. Two slots are a goroutine and its
  replacement, and a bus of one message is full after one. `Static` has one of
  the names, with `run_at_start`.
* *TaskList.* The list starts with a task in progress and one that waits for
  it; three calls of two callers race for it, create a third task, link in both
  directions while another call saves, and name an unknown id. One fault is a failed
  save or a restart.
* *Names.* The eleven files put a role, a skill and an agent in each other's way at
  several places of the ladder, in lower and upper case, broken and with modes,
  and in the three plugins, two of which have one name and one of which may be broken.
* *Permissions.* Two sessions overlap, and a third start reads what they saved;
  two answers make two saves. The project's file denies what the local file
  allows, or the local file is malformed; of the three calls two share a pattern,
  and one is not matched by its own. Agents that declare no tools are left to the
  proof.
* *MemoryStore.* Three processes are two that race and one that changes the row
  between; three rows are two revisions of one memory or a race for one.

Symmetry is used where all properties of a run are invariants and its
definitions treat the values alike: the prompts of a peer (`Gateway`), the
callers (`TaskList`), the sessions (`Permissions`), the processes and credits
(`MemoryStore`).

Deadlock is checked in `Gateway`, where a `Terminated` step stutters once all
messages are handled: a message that waits for ever for a lock is an error there.
(In `MemoryStore` it is not switched off either: a process can always end.)
`CHECK_DEADLOCK FALSE` is set elsewhere because those systems stop by their
bounds: no more turns, ids or calls, or a REPL that has returned.


## 5. Fairness

* `AgentRuns`: weak fairness for steps that are simply the next statement of a
  goroutine (`Register`, `CloseDone`, taking and releasing, a stop's cancel and
  return). Strong fairness for `Finish` and `EndTurn`: a run or a turn keeps
  re-entering "acting" around its own stops, and its loop is bounded by
  `maxIterations`. Strong fairness for `Deliver`: not every turn may fail
  before `Run`. That turns keep coming is an assumption on the user, and
  `OutcomeArrives` says so; it and `StopReturns` except runs that have come to wait
  for one another (section 7).
* `ReAct`: weak fairness of the loop and of each subagent: the model, the tools
  and the user's dialog answer. `TurnEnds` is checked with a token budget, since
  without one a model that only asks for approval never exhausts its
  iterations (section 7).
* `TurnRunner`: weak fairness of callers, the start goroutines, delivery and the
  server's reading. A server ends a turn it was asked to stop or that has failed;
  no other turn need ever end, so the properties cannot lean on that.
* `Scheduler`: weak fairness of the scheduler's own steps (its ticker ticks), of
  the dispatch of bus messages, and of cancelled goroutines whose timer or context
  is ready; strong fairness of a cancelled goroutine's send, because Go serves
  senders on a channel in order while others keep filling it. Nothing is assumed
  of the tools, of the clock, of a restart, or of live timers.
* The other modules check safety only. The gateway's handlers have no loops, so
  deadlock checking is what liveness would add; a call of a file tool, a task or
  a transaction is a fixed number of steps.


## 6. The proofs

All theorems hold for every value of the constants under the named assumptions
of the modules, which TLC evaluates in the runs. `PROJECT.json` lists them. The
argument has the same form everywhere: an inductive invariant that names what
the property leans on, one lemma per action or per conjunct, and theorems that
follow from it. Each invariant was checked with TLC on the instance of section 4
before it was proved; most of their conjuncts are there because TLC or the
prover showed a step that breaks the property alone. An invariant that one
module is about is called `Inv`; where a proof module is about two components,
or about one in two stages, each stage has an invariant with a name of its own.

The numbers and sequences in the models ask for inductions (a last boundary, a
first rule that matches, the counts of a scan). The library's induction theorems
take an operator, which the provers cannot instantiate; these lemmas take a
least counterexample of a concrete set instead, by `NatLessThanWellFounded` and
`WFMin` (`LastOfPositions`, `LeastNumber` and the lemmas that cite them).

**AgentRunsProofs** assumes only that the number of runs is a natural number,
turns are not runs, and stoppers are runs. `NoOutcomeLost` is not inductive
alone: that a claimed run is finished, that `todo` is registered, and
that ids are fresh are needed. The invariant is

    TypeOK, IdsAreFresh, RunStates, ActorStates, NoOutcomeLost, DeliveredOnce

where `RunStates` ties a run's status to the place of its goroutine and to the
sets that name it, and `ActorStates` says drains and stops concern registered
runs. Theorems: `TypeCorrect`, `OutcomesDeliveredOnce`, `OutcomesNeverLost`,
`DoneImpliesRecorded` (from `RunStates`), and `AgentRunsImplementsMailbox`:
`Finish` is the mailbox's `Finish`, `Deliver` its `Tell` of the claimed runs,
`Register` its `Launch`, every other step a stutter. Turns may overlap.

**ReActProofs** assumes gated tools and subagents are tools, batches are
non-empty sequences of tools, and rules are rules. The invariant is
`TypeOK, Phases, Admission, Order, OpenIsQueued`:

* `Phases` - which phases have a pending call, a queue, an iteration left;
* `Admission` - only recorded calls are queued, run or have run, and none of them was
  refused; gives `RefusedNeverRuns`;
* `Order` - what is still to be answered is newer than all that is answered;
  gives `ResultsInCallOrder`, which is not inductive without it;
* `OpenIsQueued` - an unanswered call of the running turn is in the queue; gives
  `TurnIsAnswered`, as the queue is empty when the model is called.

`ReActKeepsPromise` is the refinement: every step is a step of `ToolCalls` or a
stutter. It needs `Progress`: what runs has not returned, and what is queued has
not run, unless it is a finished call of a parallel batch. A call that needs
approval is `Ask`, and `Admit` or `Refuse` after the dialog; a free call or a batch
is `Open`; a sequential tool is answered as it returns (`ReturnAnswered`), those
of a parallel batch all at once in `Join` (`Answer`), and a goroutine that
outlives its turn just returns (`Return`). A turn that leaves calls open is a
stutter, since the promise does not say that all are answered: that is
`TurnIsAnswered`.

**SessionProofs** is about what one session keeps, in three parts.

`Workspace`, for any callers, files, batches and bounds. `QuietEditSurvives`
needs `FileFits`: while somebody else's edit is unread, its time is after the
recorded one, so that validation stops every call that would overwrite it, and
an edit past validation has loaded what it will replace. `PastTimes` - no time is
ahead of the clock - gives `OwnWritesNeverRefuse`: what the session records is
never older than what it wrote.

`MessageState`, for any sizes of compaction, turns, prompts and restarts:
`StateInv`. `Proper` is the shape of a conversation: the turns of its messages
follow one another, every user message opens a new one, only the first
message is a boundary, a stub is of an old turn. Compaction leans on this shape
(it takes the last boundary for the only one) and must keep it, and so must the
contents of the file, since a restart goes on from there. `RecentTurnsIntact`
follows: what lies before the `KeepTurns`-th last user message is older than the
last `KeepTurns` turns, also after compaction has removed user messages, since
with fewer of them the boundary lies further back. `SaidIsTold` says that what was
added is carried by the list, as it was or in the summary, but for what errors say
once they are summarised; `RequestsTell` takes it through the three clients, of which
OpenAI's tells of no error what it says, to `ModelIsTold`. `OpeningIsLast` holds for the
prompts from the moment the turn opens, the position of a prompt being the last of
its marker, and gives `PromptsAreCurrent`: a statement about each marker by itself,
which needs that the markers of one turn differ and says nothing of the order in
which the prompts of several roles stand.

`PairsAreSent` needs a third invariant, `PairsInv`, and an argument that was not
expected. The scans of `isSafeSplitPoint` count a complete pair as unpaired
(section 7), so that a split they let pass has no calls in front of it but those
that follow lone results (`NoCallLeft`, by a least counterexample over the fold).
A split that divides a pair therefore leaves a result without a call in the
summarised part. `SummaryFits` carries this along: a result whose call is only in
the summary has company there, the result of a call that is told nowhere, however
often the conversation is compacted, saved and reloaded. So a conversation in which
all calls have results, and all results calls, is not divided. `PairsFit` is the
order of what is left, and `Numbered` that new ids are new.

**TurnRunnerProofs** holds for any number of turns and threads, any answers of the
server and any order of its notifications within the streams: `TurnInv`.

* `LockFits` - who is where in `RunTurn` holds the lock, and the subscription;
* `OneAnswer` - a start is answered once, and not before it was read;
* `DutyFits` - who has the duty to stop a turn: its caller once it has the answer,
  the goroutine when the caller has handed over without one. An interrupt
  ends the duty, which gives `InterruptedOnce`; without the chain of places
  in it each of the two could stop what the other has stopped;
* `AllTrue` - notifications on their way say what is so;
* `Alone`, `FirstIn`, `NeverRefused` - a turn that found its thread quiet has it to
  itself, also in the streams; gives `QuietThreadAccepts` and `OwnOutcome`.

**GatewayProofs** assumes that every message has a peer, that clears are
messages and that the bound on mishaps is a number: peers, messages, restarts
and expiries are any. `OneTurnPerAgent` needs a chain of facts, each a conjunct
of the invariant besides `TypeOK` and the theorems' own properties:

* `IdsAreOwn` - an id of the running server names one gateway session;
* `HandlersKnow` - what a handler holds in its locals still exists, and the
  agent it registers or drops is the one it means;
* `AgentsAreDistinct` - an agent is in the table under one id, not before its
  registration, and turns on one agent came by one id;
* `LockIsHeld` - whoever is in a turn holds the lock of its session.

Two turns on one agent then share an id, a session and a lock that has one
holder. `TablesAgree` (key table and session table are inverse) gives
`OneLiveAgent`; `SessionsAreOwn` (an id of the running server leads to an agent
of the peer that asked for it) gives `OwnAgent`. None of it holds for ids of an
earlier run of the server, which is what `gateway_isolation` shows.

`HistorySurvives` and `QuietPeerIsServed` are about peers that send one message
at a time, and rest on a second invariant over the first, `QuietInv`. `Alone`: the
peer has one message in hand, and while that starts or clears a session there
is none in the map. `Served`: the session it has is known to the server unless the
server has restarted. `Remembered`: its file, its agent in the table and the
agent about to be registered each have all turns that were kept and none that
were forgotten. `Unread` and `Rightful` say that a turn that has not begun is in
nobody's history, and that a handler's agent is its peer's.

**StoreProofs** is about the two stores that processes share.

`Scheduler`, for any processes, names, values and bounds: `OneJobPerSchedule` is
inductive with the types. `SavedSchedulesStay` needs `SavedInv`: what a call is
about to write agrees with what was saved last, but for its own name and those
others have saved since its load. `DriftIsNoticed` needs `SeenInv`: at each place
of the scheduler, what it knows of the store unless it has missed a change.
`LateInv` gives the bound of one late message.

`MemoryStore`, for any processes and transactions: `SnapshotsHold` - a
transaction that may still commit has read the row as it is - makes revisions
supersede the one version that is not superseded; `OriginsAreIds` and
`LinksPoint` keep the links within the table.

**TaskListProofs**, for any tasks, links, requests and callers: the invariant
says of every list the process may go on with - in memory, in the file, encoded
by a call - that it is sound but for the links it has one side of (`ListsAreSound`),
that the copy a call has read still holds when nothing has passed it, but for the
links it has written itself, of which the list has the other side (`CopiesHold`,
`LinksAreKnown`), and that a list about to be written has the call's own work and
what was answered before (`WorkIsKept`, `AnswersKept`).

**PluginProofs** is about the names and the rights that plugins bring.

`Names`, for any files, commands and plugins. `BareNamesAreUnambiguous` holds with
one more fact, that a name of several owners means nothing; that a name is free
can only end. `LookupInv` says what every key of the table leads to: a file of that
name, and for a local file what the name meant before the plugins came, which is
also what ReadSkill's own table still holds. `LocalNamesWin` and
`ListedNamesAnswer` compare two tables made at different times by different
code, and follow from it. Listed names in upper case, plugins' skills, and local
names whose role, agent and skill rank in a circle are outside their statements.

`Permissions`, for any sessions, rules, patterns, plugin commands, roles and
definitions, and the calls that reach the approval workflow.
`RunKeepsToBound` needs `SandboxFits` (the sandbox is at any moment that of the
running turn) and `SnapshotsFit` (what a launched run carries is what its
definition and the sandbox at its launch allow), with the lemmas `ResolveNarrows` and `WorkNarrows`
about resolving twice. `UnaskedIsGranted` and `DecisionsStand` need
`RightsInv`: `GrantsFit` - every rule that allows comes from the files as they were
or from an answer - and `Remembers` - a session decides by the rules it has found,
under those it was told since. The first rule that matches decides, so the
lemmas are about prepending, appending and cutting off (`Check` of a
concatenation). For what holds after a restart, `FileFits`: until a save goes
wrong, the project's file is whole, or one session is writing it and what that
one has read was whole.

Proved and in no run: the type invariants of all modules but `TaskList` and
`MemoryStore`, whose own are part of their `Inv`; `DeliveredOnce`,
`NoOutcomeLost`, `DoneIsRecorded`, `RefusedNeverRuns`, `OwnAgent`, `OneLiveAgent`,
`LockIsReleased`, `CancelledSendsOnce`. TLC checked each on the instances of
section 4 before it was proved.

Model-checked only: liveness (`OutcomeArrives`, `StopReturns`, `TurnEnds`,
`AbandonedStops`, `HolderReturns`, `ChangesBecomeActive`), which the prover does
not handle under fairness. `PeersAreIsolated` is refuted, and so has no theorem.
What a theorem does not say is that the code is as the model has it: the
abstractions of section 3 apply to the proofs as to the runs.


## 7. Where the code and its documentation part

One disagreement is a run that TLC refutes, with the quotation in
`PROJECT.json`: session ids repeat after a restart of the agent server
(`server.go:134`) while the gateway goes on using those of the run before, so that
histories of two peers meet, against DESIGN.md:291-293. Everything else met while
modelling is built into the models as the code has it, and the properties are
stated so that they hold. Not all of it is a fault; all of it is easily missed.

*Agent and background runs*

* A run whose tools include `AgentStop` may stop itself, or two each other, and
  waits for ever (`agent_runs.go:400`).
* Calls that went through approval do not count as iterations
  (`react.go:252-275`, `403`), though `CONFIGS.md:248` bounds them.
* README.md:232-235 lists Write, Edit and MultiEdit under interactive approval. Three
  kinds of calls are made without it: those of a batch (`react.go:389`), those of
  background agents (`agent_runs.go:304`), and those whose dialog fails, by Ctrl+C for
  one (`agent.go:1150`). The models have all three; no property says that a gated call
  is asked about, and `UnaskedIsGranted` speaks of the calls that reach the workflow.

*Conversation and requests*

* What an error says, refusals and failures of tools, is kept apart from the result
  (`react.go:300-304`, `563-566`, `581`, "let the LLM see the error message"). OpenAI's
  client sends the result only, so that its model gets an empty output
  (`openai/client.go:524-527`), and so does the text that is to be summarised
  (`compaction.go:398-407`, `519-531`): `ModelIsTold` claims of neither that errors
  are told.
* The images of a result are saved with it and not loaded again (`message.go:156-161`),
  so that after a restart only its text is sent (`Reload`).
* A refused call leaves a result without a call (`react.go:296-313`) and an
  interrupted one a call without a result that the next prompt sends
  (`react.go:448`). `PairsAreSent` holds for histories without either. The scans
  for a split count calls and results and do not match ids.
* The first scan of `isSafeSplitPoint` goes backwards and meets a result before
  its call, the second goes forwards and takes off calls that come after results:
  a complete pair counts as unpaired in both (`compaction.go:459-487`). In a
  history without halves a split is let pass only with no call in front of it
  and no result behind it, so that, once tools have been used since the last
  boundary, only the split between blocks removes anything. This errs on the
  safe side, and the proof of `PairsAreSent` rests on it.
* A plan approved with "clear planning context" clears its own call, so that the
  next request holds a lone result (`agent.go:168-178`,
  `plan_tool_manager.go:163`).
* The situation message that the advisor adds is removed by the cleanup before
  the model is called (`react.go:340-357`, against `iteration_advisor.go:13-16`),
  and so are the files "restored after compaction" (`agent.go:1700-1731`).
* `CompactIfNeeded` may answer true without having removed anything.
* A summary that could not be made, for an error or a Ctrl+C, replaces the older
  messages and the previous summary by counts (`compaction.go:326-331`).
* A compact boundary is loaded as an ordinary system message (`message.go:169`),
  so that after a restart its summary is lost at the next compaction.
* Compaction passes over system prompts: role, memory and catalog prompts in the
  older part are gone for the rest of the turn, and the context that the REPL
  injects once (`repl.go:374`) for the rest of the process. Gemini is sent the last
  system message only. After roles A, B, A nothing is given again, since A's prompt is
  found under its own marker (`agent.go:980-988`): the last role prompt is B's, and
  the only one that Gemini is sent. `PromptsAreCurrent` speaks of each marker by itself.
* A crash in `SaveToFile` leaves a torn file, and the session starts empty over
  it (`message.go:84`): `Truncate` and `Restart`.

*App-server client*

* `RunTurn` waits for its lock without looking at the context (`runner.go:179`).
* A turn left behind on a thread ends the next one: `classifyNote` does not look
  at the turn's id, against DESIGN.md:541-544. `OwnOutcome` is about quiet threads.

*Gateway and agent server*

* Two quick messages of a peer without a session start two sessions; the one
  registered first may be stored last and is then unknown to the server until
  the peer has been silent for the timeout (`session.go:113`). The gateway's
  history properties are about peers that send one message at a time.
* `!clear` with no session in the gateway's map, or with one the server has
  forgotten, clears nothing and reports that it did (`session.go:137-148`); it does
  not wait for a running turn, which then saves what was cleared.
* The comment at `server.go:159` says the file keeps the history; `ClearHistory`
  deletes it.

*Files and plans*

* The read times are one table for a session: a subagent's read lets the turn
  overwrite what it has not seen, where DESIGN.md:309 speaks of concurrent edits. A
  save during a call, or in the tick of the last record, is not noticed.
* `MultiEdit` is described as an atomic batch and applies its edits one by one,
  going on after a failure (`filesystem_tool_manager.go:793`). Write does not ask the
  blacklist; Read and Edit do.
* A rejected plan leaves plan mode and so opens writes
  (`plan_tool_manager.go:168`). Subagents are not guarded, and have the same plan
  tools: one may set plan mode while a call of the turn is writing, or close the
  turn's plan. The guard looks once, as a call begins. Of a turn that plans nothing is
  left to claim but that guard, and no property repeats it.

*Scheduler*

* "Within ~20s" fails in three ways: a store that could not be read is taken for
  an empty one and its time for seen (`schedules.go:128`), a change between the
  first load and the first `Stat`, and a file that is no newer than the one
  before (`missed`).
* Each process has its own mutex, so that a save of one may undo another's
  (`schedule_tool_manager.go:133`). A store entry that is disabled does not override
  a schedule of the settings with its name.

*Task list*

* An unknown id leaves the links written before it, and a link of a task to itself
  has one side only (`task_tool_manager.go:246`). A deleted blocker blocks for ever.
* The other sides of links are written one by one into the slice that the repository
  shares out, without its lock (`task_tool_manager.go:243-262`), while the save of
  another call encodes it (`task.go:132-134`): the file may hold half a link, and when
  the process ends before the first call saves, it stays half.
* Calls that overlap lose one another's changes; the torn file of a crash is an
  empty list at the next start (`task.go:141`).

*Names*

* A skill of a plugin carries no plugin's name, so that an agent of another
  plugin loses its bare name to it silently or not, as the random order of the
  marketplace has it (`plugins.go:91`).
* Names of agents with upper-case letters are listed and cannot be reached;
  `/plugin:agent` runs whatever the bare name means (`plugins.go:76`); ReadSkill
  does not know the plugins' skills that the prompt lists (`skill.go:522-545`);
  commands of plugins come before the REPL's own, such as `/clear`.
* One malformed `SKILL.md` or `ROLE.md` hides all skills and roles. Two plugins
  of one name overwrite each other's scoped names.

*Permissions*

* The pattern inferred for Always may not match its own call, which is asked about
  again (CONFIGS.md:383); `AlwaysIsRemembered` speaks of what the rule covers.
* An Always outranks in memory the rules that outrank it after a restart.
* A permission file that does not parse counts as empty and is then overwritten;
  two sessions that save at once lose each other's rules (`rules.go:148`).
* The tools of a plugin command take the place of `--allowed-tools` for its turn,
  be they narrower or wider. A background agent whose goroutine starts during
  another plugin command is narrowed to that command's tools.
* The `tools:` of a definition are a cap on its turn, "in any mode" (`skill.go:80-82`,
  `plugins.go:172-173`). The background agents of that turn are bounded by the sandbox
  and by their own definition only (`agent.go:358-372`): where no sandbox stands, a
  turn whose cap has the Task tool may send off an agent with every other tool.

*Long-term memory*

* Forget of a version that is superseded answers success and leaves the current
  one. Reinforce of an old id does not reach its successor.
* A writer that another process overtakes between its read and its write does not wait
  but fails (`SQLITE_BUSY_SNAPSHOT`), against "waits rather than errors"
  (`main.go:397-398`); for Reinforce the tool then answers "Not found"
  (`manager.go:208-216`) for a memory that is there. `FeedbackStays` counts what was
  committed. A `Recall` elsewhere overtakes too, since it counts accesses.
* Of two processes that open a new store at once, the second goes without memory
  until its next start (`Migrate`).


## 8. What is left out, and why

* *Inside the modelled parts.* Token counting, texts of prompts and summaries,
  the bytes of images, event streams, rendering; `AgentList`, `AgentOutput`,
  `GetConversationPreview`, `ScheduleList`, `TaskGet` and other operations that only
  read; how `Recall` ranks; `GetValidConversationHistory`, which nothing outside tests
  calls. In the gateway: `!skill`, prompt enrichment, the capacity of the bus, and
  peers whose sanitised names collide. In the runner: the handshake, tool and
  approval callbacks, the death of the server process, servers without
  `turn/interrupt`. In the clients: streaming, thinking, tool schemas. In the
  file tools: matching of strings, paging, path resolution. Cron expressions,
  time zones, the parsing of skill and plugin files, and the matching of patterns are
  constants of the instances.
* *The goal and loop drivers.* Every round is a turn as `ReAct` has it, followed by
  a judgement of a model that may answer anything; their bounds are counters.
  They are the next thing to compose with `ReAct`.
* *Components not modelled* are listed with their reasons in `PROJECT.json`:
  requests to the network and their conversion (web, PDF, market, review,
  researcher), settings and the command line, the REPL's input and output, MCP,
  generated code. They convert data, do I/O, or keep no state that outlives a
  call. They are most of the lines of the repository; the definitions here stand
  for about an eighth of it.
