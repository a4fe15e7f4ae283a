------------------------------ MODULE AgentRuns -----------------------------
(***************************************************************************)
(* Background agents (internal/app/agent_runs.go) and the turns that start *)
(* them, stop them and carry their outcomes into the conversation          *)
(* (Agent.Invoke, internal/app/agent.go).                                  *)
(*                                                                         *)
(* A run is a goroutine that executes a subagent with a context of its     *)
(* own.  The registry maps ids to runs under registry.mu; each run guards  *)
(* its status and its notified flag with its own lock.  Turns drain the    *)
(* finished runs' outcomes in front of their message: the drain visits the *)
(* runs one lock at a time and claims what it finds, the claim becomes a   *)
(* delivery when the turn enters ReAct.Run, and a turn that fails before   *)
(* that releases its claims one by one.  AgentStop cancels a run and waits *)
(* for its goroutine without a lock and without a context.                 *)
(*                                                                         *)
(* Several turns may be inside Invoke at once: the Connect server holds no *)
(* lock around Invoke and the two drains are meant to be able to race.     *)
(***************************************************************************)
EXTENDS Naturals

CONSTANTS MaxRuns,   \* bound on the runs started: ids are agent-1 .. agent-MaxRuns
          Turns,     \* goroutines that execute Agent.Invoke
          Stoppers,  \* the runs whose tool list includes AgentStop
          NoRun      \* "not waiting on any run"

Runs    == 1 .. MaxRuns
Callers == Runs \cup Turns

ASSUME RunsAssumption  == MaxRuns \in Nat
ASSUME ActorAssumption == /\ Turns \cap Runs = {}
                          /\ NoRun \notin Runs
                          /\ Stoppers \subseteq Runs

VARIABLES
  up,        \* the front end still takes turns
  seq,       \* ids handed out by nextID
  reserved,  \* ids handed out whose run is not in the registry yet
  registry,  \* the keys of agentRunRegistry.runs
  status,    \* agentRun.status, "absent" before the run exists
  canceled,  \* runs whose context is canceled
  done,      \* runs whose done channel is closed
  notified,  \* runs whose notified flag is set
  pc,        \* where each goroutine (run or turn) is
  todo,      \* runs a turn's drain has snapshotted and not visited yet
  claimed,   \* runs a turn's drain has claimed
  target,    \* the run whose stop a goroutine is carrying out
  reply,     \* the status the goroutine's last AgentStop reported
  delivered  \* history: how often a run's outcome entered the conversation

vars == <<up, seq, reserved, registry, status, canceled, done, notified, pc,
          todo, claimed, target, reply, delivered>>

Terminal == {"completed", "failed", "killed"}

\* Inside runSubagent: the goroutine has not recorded an outcome yet.
Working(r) == pc[r] \in {"acting", "stopChecked", "stopping"}
-----------------------------------------------------------------------------
Init ==
  /\ up = TRUE
  /\ seq = 0
  /\ reserved = {}
  /\ registry = {}
  /\ status = [r \in Runs |-> "absent"]
  /\ canceled = {}
  /\ done = {}
  /\ notified = {}
  /\ pc = [c \in Callers |-> IF c \in Runs THEN "absent" ELSE "idle"]
  /\ todo = [t \in Turns |-> {}]
  /\ claimed = [t \in Turns |-> {}]
  /\ target = [c \in Callers |-> NoRun]
  /\ reply = [c \in Callers |-> "none"]
  /\ delivered = [r \in Runs |-> 0]

(***************************************************************************)
(* Starting a run.  nextID runs under registry.mu; the transcript is       *)
(* opened with the lock free, so another launch can come in between, and a *)
(* batch of Task calls launches from goroutines that may outlive the turn. *)
(***************************************************************************)
ReserveId ==
  /\ \E t \in Turns : pc[t] = "acting"
  /\ seq < MaxRuns
  /\ seq' = seq + 1
  /\ reserved' = reserved \cup {seq + 1}
  /\ UNCHANGED <<up, registry, status, canceled, done, notified, pc, todo,
                 claimed, target, reply, delivered>>

Register(r) ==
  /\ r \in reserved
  /\ reserved' = reserved \ {r}
  /\ registry' = registry \cup {r}
  /\ status' = [status EXCEPT ![r] = "running"]
  /\ pc' = [pc EXCEPT ![r] = "acting"]
  /\ UNCHANGED <<up, seq, canceled, done, notified, todo, claimed, target,
                 reply, delivered>>

(***************************************************************************)
(* The run's goroutine.  runSubagent returns nil or an error; an error     *)
(* counts as a kill exactly when the run's context is canceled by then.    *)
(* The deferred close(done) and cancel() follow in a step of their own.    *)
(***************************************************************************)
Finish(r, outcome) ==
  /\ pc[r] = "acting"
  /\ \/ outcome = "completed"
     \/ outcome = "killed" /\ r \in canceled
     \/ outcome = "failed" /\ r \notin canceled
  /\ status' = [status EXCEPT ![r] = outcome]
  /\ pc' = [pc EXCEPT ![r] = "finished"]
  /\ UNCHANGED <<up, seq, reserved, registry, canceled, done, notified, todo,
                 claimed, target, reply, delivered>>

\* Defect: the path of a killed run returns without closing done.
CloseDoneUnlessKilled(r) ==
  /\ pc[r] = "finished"
  /\ pc' = [pc EXCEPT ![r] = "exited"]
  /\ done' = IF status[r] = "killed" THEN done ELSE done \cup {r}
  /\ UNCHANGED <<up, seq, reserved, registry, status, canceled, notified, todo,
                 claimed, target, reply, delivered>>

CloseDone(r) ==
  /\ pc[r] = "finished"
  /\ pc' = [pc EXCEPT ![r] = "exited"]
  /\ done' = done \cup {r}
  /\ canceled' = canceled \cup {r}
  /\ UNCHANGED <<up, seq, reserved, registry, status, notified, todo, claimed,
                 target, reply, delivered>>

(***************************************************************************)
(* A turn: Agent.Invoke from the drain to its return.                      *)
(***************************************************************************)
BeginTurn(t) ==
  /\ up
  /\ pc[t] = "idle"
  /\ pc' = [pc EXCEPT ![t] = "draining"]
  /\ todo' = [todo EXCEPT ![t] = registry]
  /\ UNCHANGED <<up, seq, reserved, registry, status, canceled, done, notified,
                 claimed, target, reply, delivered>>

\* takeNotification hands out an outcome only of a finished run nobody holds.
Takable(r) == r \notin notified /\ status[r] # "running"

TakeNotification(t, r) ==
  /\ pc[t] = "draining"
  /\ r \in todo[t]
  /\ todo' = [todo EXCEPT ![t] = @ \ {r}]
  /\ IF Takable(r)
       THEN /\ notified' = notified \cup {r}
            /\ claimed' = [claimed EXCEPT ![t] = @ \cup {r}]
       ELSE UNCHANGED <<notified, claimed>>
  /\ UNCHANGED <<up, seq, reserved, registry, status, canceled, done, pc,
                 target, reply, delivered>>

\* Run adds the user message with the notifications in front of it; on the
\* codex path the exchange is recorded when the codex turn succeeds.
Deliver(t) ==
  /\ pc[t] = "draining"
  /\ todo[t] = {}
  /\ pc' = [pc EXCEPT ![t] = "acting"]
  /\ delivered' = [r \in Runs |->
                     IF r \in claimed[t] THEN delivered[r] + 1 ELSE delivered[r]]
  /\ claimed' = [claimed EXCEPT ![t] = {}]
  /\ UNCHANGED <<up, seq, reserved, registry, status, canceled, done, notified,
                 todo, target, reply>>

\* An error return before Run (client construction, a failed codex turn).
AbortTurn(t) ==
  /\ pc[t] = "draining"
  /\ todo[t] = {}
  /\ pc' = [pc EXCEPT ![t] = "releasing"]
  /\ UNCHANGED <<up, seq, reserved, registry, status, canceled, done, notified,
                 todo, claimed, target, reply, delivered>>

\* Defect: the release drops the claim and leaves the flag set.
ReleaseFlagSet(t, r) ==
  /\ pc[t] = "releasing"
  /\ r \in claimed[t]
  /\ claimed' = [claimed EXCEPT ![t] = @ \ {r}]
  /\ UNCHANGED <<up, seq, reserved, registry, status, canceled, done, notified,
                 pc, todo, target, reply, delivered>>

Release(t, r) ==
  /\ pc[t] = "releasing"
  /\ r \in claimed[t]
  /\ notified' = notified \ {r}
  /\ claimed' = [claimed EXCEPT ![t] = @ \ {r}]
  /\ UNCHANGED <<up, seq, reserved, registry, status, canceled, done, pc, todo,
                 target, reply, delivered>>

\* Invoke returns: after ReAct.Run ended, however it ended, or with every
\* claim of an aborted turn released.
EndTurn(t) ==
  /\ \/ pc[t] = "acting"
     \/ pc[t] = "releasing" /\ claimed[t] = {}
  /\ pc' = [pc EXCEPT ![t] = "idle"]
  /\ UNCHANGED <<up, seq, reserved, registry, status, canceled, done, notified,
                 todo, claimed, target, reply, delivered>>

(***************************************************************************)
(* AgentStop, called by a turn or, when its tools include it, by a run.    *)
(***************************************************************************)
MayStop(c) == c \in Turns \cup Stoppers /\ pc[c] = "acting"

StopFinished(c, r) ==
  /\ MayStop(c)
  /\ r \in registry
  /\ status[r] # "running"
  /\ reply' = [reply EXCEPT ![c] = status[r]]
  /\ UNCHANGED <<up, seq, reserved, registry, status, canceled, done, notified,
                 pc, todo, claimed, target, delivered>>

StopRunning(c, r) ==
  /\ MayStop(c)
  /\ r \in registry
  /\ status[r] = "running"
  /\ target' = [target EXCEPT ![c] = r]
  /\ pc' = [pc EXCEPT ![c] = "stopChecked"]
  /\ UNCHANGED <<up, seq, reserved, registry, status, canceled, done, notified,
                 todo, claimed, reply, delivered>>

\* Defect: the stopper records the outcome itself.
StopMarkingKilled(c) ==
  /\ pc[c] = "stopChecked"
  /\ canceled' = canceled \cup {target[c]}
  /\ status' = [status EXCEPT ![target[c]] = "killed"]
  /\ pc' = [pc EXCEPT ![c] = "stopping"]
  /\ UNCHANGED <<up, seq, reserved, registry, done, notified, todo, claimed,
                 target, reply, delivered>>

StopCancel(c) ==
  /\ pc[c] = "stopChecked"
  /\ canceled' = canceled \cup {target[c]}
  /\ pc' = [pc EXCEPT ![c] = "stopping"]
  /\ UNCHANGED <<up, seq, reserved, registry, status, done, notified, todo,
                 claimed, target, reply, delivered>>

StopReturn(c) ==
  /\ pc[c] = "stopping"
  /\ target[c] \in done
  /\ reply' = [reply EXCEPT ![c] = status[target[c]]]
  /\ target' = [target EXCEPT ![c] = NoRun]
  /\ pc' = [pc EXCEPT ![c] = "acting"]
  /\ UNCHANGED <<up, seq, reserved, registry, status, canceled, done, notified,
                 todo, claimed, delivered>>

\* StartInteractiveMode returns, between two turns, and its deferred call
\* cancels every run that is still running.
CancelAll ==
  /\ up
  /\ \A t \in Turns : pc[t] = "idle"
  /\ up' = FALSE
  /\ canceled' = canceled \cup {r \in registry : status[r] = "running"}
  /\ UNCHANGED <<seq, reserved, registry, status, done, notified, pc, todo,
                 claimed, target, reply, delivered>>
-----------------------------------------------------------------------------
RunStep(r) == \/ Register(r)
              \/ \E o \in Terminal : Finish(r, o)
              \/ CloseDone(r)

TurnStep(t) == \/ BeginTurn(t)
               \/ \E r \in Runs : TakeNotification(t, r)
               \/ Deliver(t)
               \/ AbortTurn(t)
               \/ \E r \in Runs : Release(t, r)
               \/ EndTurn(t)

StopStep(c) == \/ \E r \in Runs : StopFinished(c, r) \/ StopRunning(c, r)
               \/ StopCancel(c)
               \/ StopReturn(c)

Next == \/ ReserveId
        \/ \E r \in Runs : RunStep(r)
        \/ \E t \in Turns : TurnStep(t)
        \/ \E c \in Callers : StopStep(c)
        \/ CancelAll

Spec == Init /\ [][Next]_vars

(***************************************************************************)
(* Fairness.  Goroutines that can take a step take it.  runSubagent        *)
(* returns because its ReAct loop is bounded by maxIterations and its      *)
(* calls end; since a run can leave and re-enter "acting" around its own   *)
(* AgentStop calls, that is strong fairness.  For the same reason a turn's *)
(* end is strongly fair.  That turns keep coming, and that not every one   *)
(* of them aborts before Run, is an assumption on the user.                *)
(***************************************************************************)
RunFairness(r) == /\ WF_vars(Register(r))
                  /\ SF_vars(\E o \in Terminal : Finish(r, o))
                  /\ WF_vars(CloseDone(r))

TurnFairness(t) == /\ WF_vars(BeginTurn(t))
                   /\ WF_vars(\E r \in Runs : TakeNotification(t, r))
                   /\ SF_vars(Deliver(t))
                   /\ WF_vars(\E r \in Runs : Release(t, r))
                   /\ SF_vars(EndTurn(t))

StopFairness(c) == WF_vars(StopCancel(c)) /\ WF_vars(StopReturn(c))

FairSpec == /\ Spec
            /\ \A r \in Runs : RunFairness(r)
            /\ \A t \in Turns : TurnFairness(t)
            /\ \A c \in Callers : StopFairness(c)
-----------------------------------------------------------------------------
RunPC  == {"absent", "acting", "stopChecked", "stopping", "finished", "exited"}
TurnPC == {"idle", "draining", "releasing", "acting", "stopChecked", "stopping"}

TypeOK ==
  /\ up \in BOOLEAN
  /\ seq \in 0 .. MaxRuns
  /\ reserved \subseteq Runs
  /\ registry \subseteq Runs
  /\ status \in [Runs -> {"absent", "running"} \cup Terminal]
  /\ canceled \subseteq Runs
  /\ done \subseteq Runs
  /\ notified \subseteq Runs
  /\ pc \in [Callers -> RunPC \cup TurnPC]
  /\ \A r \in Runs : pc[r] \in RunPC
  /\ \A t \in Turns : pc[t] \in TurnPC
  /\ todo \in [Turns -> SUBSET Runs]
  /\ claimed \in [Turns -> SUBSET Runs]
  /\ target \in [Callers -> Runs \cup {NoRun}]
  /\ reply \in [Callers -> {"none"} \cup Terminal]
  /\ delivered \in [Runs -> Nat]

(***************************************************************************)
(* agent_runs.go:54-58 and 80-82: an outcome is handed to the conversation *)
(* once.  However drains, releases, stops and completions interleave, no   *)
(* run's outcome is delivered twice.                                       *)
(***************************************************************************)
DeliveredOnce == \A r \in Runs : delivered[r] <= 1

(***************************************************************************)
(* agent_runs.go:427-431: a claim that is not released is a result lost    *)
(* for good.  The notified flag is set exactly while the outcome is held   *)
(* by one turn that can still deliver or release it, or after delivery; so *)
(* a finished run no turn holds is always there for the next drain.        *)
(***************************************************************************)
Holders(r) == {t \in Turns : r \in claimed[t]}

NoOutcomeLost ==
  \A r \in Runs :
    /\ r \in notified <=> (delivered[r] > 0 \/ Holders(r) # {})
    /\ Holders(r) # {} => delivered[r] = 0
    /\ \A t, u \in Holders(r) : t = u

(***************************************************************************)
(* agent_runs.go:402-404: AgentStop "reports what actually happened".  A   *)
(* closed done channel, which is what AgentStop and AgentOutput wait for,  *)
(* implies a recorded outcome, and a caller's answer is never "running".   *)
(***************************************************************************)
DoneIsRecorded == \A r \in done : status[r] \in Terminal

(***************************************************************************)
(* agent_runs.go:183, "collision-free id": launches that overlap between   *)
(* taking an id and registering the run never share or reuse an id, so no  *)
(* run is overwritten in the registry.                                     *)
(***************************************************************************)
IdsAreFresh == /\ reserved \cap registry = {}
               /\ reserved \cup registry = 1 .. seq

\* Runs that wait, in AgentStop, for one another or for themselves.
WaitInCircle ==
  \E circle \in (SUBSET Runs) \ {{}} :
    \A r \in circle : pc[r] = "stopping" /\ target[r] \in circle

(***************************************************************************)
(* agent.go:336, "It will be delivered to you automatically in a later     *)
(* turn": as long as turns keep coming, every run that was started ends    *)
(* and its outcome reaches the conversation, though it may stop others, be *)
(* stopped by them and finish meanwhile - unless some runs come to wait    *)
(* for one another in AgentStop, which the code does not prevent.          *)
(***************************************************************************)
OutcomeArrives ==
  \A r \in Runs : r \in registry ~> (delivered[r] = 1 \/ ~up \/ WaitInCircle)

(***************************************************************************)
(* agent_run_tool_manager.go:144, "Stop a running background agent by id":  *)
(* a turn's AgentStop returns, whatever the run is doing, with the same    *)
(* exception.                                                              *)
(***************************************************************************)
StopReturns ==
  \A t \in Turns :
    pc[t] = "stopping" ~> (pc[t] # "stopping" \/ WaitInCircle)

\* AgentRuns implements OutcomeMailbox: a status is the mailbox's outcome and
\* the delivered runs are the ones the conversation was told about.
Mailbox == INSTANCE OutcomeMailbox WITH
             Outcomes <- Terminal,
             ended    <- status,
             told     <- {r \in Runs : delivered[r] > 0}

ImplementsMailbox == Mailbox!Spec
=============================================================================
