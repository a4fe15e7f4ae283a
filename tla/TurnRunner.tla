------------------------------ MODULE TurnRunner ------------------------------
(***************************************************************************)
(* The client of an app-server (pkg/agentserver/runner.go): RunTurn starts *)
(* a turn on a thread of the server, reads notifications until the turn    *)
(* ends, and stops the turn on the server when the caller gives up.        *)
(*                                                                         *)
(* turn/start travels on a goroutine of its own.  A caller that gives up   *)
(* waits a grace period for the turn's id; when the answer comes later     *)
(* still, the goroutine stops the turn.  The connection is a pair of FIFO  *)
(* streams; responses and notifications share one.  The server and the     *)
(* JSON-RPC client are outside the repository and modelled from how        *)
(* runner.go uses them: a thread runs one turn at a time, turn/interrupt   *)
(* is answered when the turn has ended.                                    *)
(*                                                                         *)
(* A thread is named by the turn that started it, 0 is one this process    *)
(* started before.  NoThread also stands for a thread of another process.  *)
(***************************************************************************)
EXTENDS Integers, Sequences

CONSTANTS MaxTurns,   \* bound: calls of RunTurn
          MayCancel,  \* bound: those whose context may be canceled
          Speech,     \* bound: <<turn, kind>>: what a turn may notify before it ends
          NoTurn, NoThread

Turns   == 1 .. MaxTurns
Threads == 0 .. MaxTurns

ASSUME TurnRunnerAssumption ==
  /\ MaxTurns \in Nat /\ NoTurn \notin Turns /\ NoThread \notin Threads
  /\ MayCancel \subseteq Turns /\ Speech \subseteq Turns \X {"text", "retry", "fatal"}

VARIABLES
  pc,         \* where each call of RunTurn is
  canceled,   \* whose context is canceled
  thread,     \* the thread of each turn
  known,      \* threads an earlier call returned with its answer
  holder,     \* who holds Runner.mu
  sub,        \* the turn that has a notification subscription
  inbox,      \* its notifications
  final,      \* runTurn's final: the turn whose text was read last
  call,       \* the goroutine of each turn/start
  done,       \* startTurn's buffered channel
  abandoned,  \* startTurn's flag: the goroutine cleans up
  confirmed,  \* the answer to turn/interrupt has arrived
  outcome,    \* how RunTurn returned
  text,       \* whose text it returned
  toServer, toClient,   \* the two streams
  srv,        \* the turns at the server
  said,       \* what each turn has notified (one of a kind)
  parked,     \* the interrupts the server has not answered
  interrupts, \* history: turn/interrupt requests sent for each turn
  shadowed    \* history: the thread was not quiet when RunTurn subscribed

caller == <<pc, canceled, thread, known, holder, sub, inbox, final, outcome, text, shadowed>>
starter == <<call, done, abandoned, confirmed, interrupts>>
server == <<srv, said, parked>>
vars == <<caller, starter, toServer, toClient, server>>

Message == [kind : {"start", "interrupt"}, turn : Turns]
Notes   == {"text", "retry", "fatal", "completed", "failed"}
Note    == [kind : Notes, turn : Turns]
Reply   == [kind : {"ack", "refusal", "stopped"}, turn : Turns]

Send(kind, t) == toServer' = Append(toServer, [kind |-> kind, turn |-> t])
Emit(kind, t) == toClient' = Append(toClient, [kind |-> kind, turn |-> t])

Elements(s) == {s[i] : i \in DOMAIN s}

\* No turn of the thread is under way or has something left to say.
Quiet(th) ==
  \A u \in Turns : thread[u] = th =>
    /\ srv[u] \in {"none", "ended"}
    /\ [kind |-> "start", turn |-> u] \notin Elements(toServer)
    /\ \A m \in Elements(toClient) : m.turn = u => m.kind \notin Notes

Init ==
  /\ pc = [t \in Turns |-> "idle"] /\ canceled = {}
  /\ thread = [t \in Turns |-> NoThread] /\ known = {0}
  /\ holder = NoTurn /\ sub = NoTurn /\ inbox = <<>> /\ final = NoTurn
  /\ call = [t \in Turns |-> "none"] /\ done = [t \in Turns |-> "empty"]
  /\ abandoned = {} /\ confirmed = {}
  /\ outcome = [t \in Turns |-> "none"] /\ text = [t \in Turns |-> NoTurn]
  /\ toServer = <<>> /\ toClient = <<>>
  /\ srv = [t \in Turns |-> "none"] /\ said = [t \in Turns |-> {}] /\ parked = {}
  /\ interrupts = [t \in Turns |-> 0] /\ shadowed = {}
-----------------------------------------------------------------------------
(***************************************************************************)
(* The caller of RunTurn.                                                  *)
(***************************************************************************)
\* A session calls RunTurn with the thread it has saved, or none.
Call(t, th) ==
  /\ pc[t] = "idle" /\ \A u \in 1 .. t - 1 : pc[u] # "idle"
  /\ pc' = [pc EXCEPT ![t] = "locking"]
  /\ thread' = [thread EXCEPT ![t] = th]
  /\ UNCHANGED <<canceled, known, holder, sub, inbox, final, outcome, text, shadowed,
                 starter, toServer, toClient, server>>

Cancel(t) ==
  /\ t \in MayCancel
  /\ pc[t] \notin {"idle", "returned"} /\ t \notin canceled
  /\ canceled' = canceled \cup {t}
  /\ UNCHANGED <<pc, thread, known, holder, sub, inbox, final, outcome, text, shadowed,
                 starter, toServer, toClient, server>>

\* Defect: RunTurn does not serialise.
LockShared(t) ==
  /\ pc[t] = "locking"
  /\ holder' = t
  /\ pc' = [pc EXCEPT ![t] = "locked"]
  /\ UNCHANGED <<canceled, thread, known, sub, inbox, final, outcome, text, shadowed,
                 starter, toServer, toClient, server>>

\* Runner.mu; the wait does not look at the context.
Lock(t) ==
  /\ pc[t] = "locking" /\ holder = NoTurn
  /\ holder' = t
  /\ pc' = [pc EXCEPT ![t] = "locked"]
  /\ UNCHANGED <<canceled, thread, known, sub, inbox, final, outcome, text, shadowed,
                 starter, toServer, toClient, server>>

\* RunTurn returns: the subscription is closed, then the lock released.
Return(t, how) ==
  /\ pc' = [pc EXCEPT ![t] = "returned"]
  /\ outcome' = [outcome EXCEPT ![t] = how]
  /\ holder' = NoTurn /\ sub' = NoTurn /\ inbox' = <<>> /\ final' = NoTurn

\* thread/start, on the caller's context.
StartThread(t) ==
  /\ pc[t] = "locked" /\ thread[t] = NoThread
  /\ \/ /\ thread' = [thread EXCEPT ![t] = t]
        /\ UNCHANGED <<pc, outcome, holder, sub, inbox, final>>
     \/ Return(t, "notStarted") /\ UNCHANGED thread
  /\ UNCHANGED <<canceled, known, text, shadowed, starter, toServer, toClient, server>>

\* runTurn subscribes before it starts the turn.
Subscribe(t) ==
  /\ pc[t] = "locked" /\ thread[t] # NoThread
  /\ sub' = t /\ inbox' = <<>> /\ final' = NoTurn
  /\ shadowed' = IF Quiet(thread[t]) THEN shadowed ELSE shadowed \cup {t}
  /\ pc' = [pc EXCEPT ![t] = "subscribed"]
  /\ UNCHANGED <<canceled, thread, known, holder, outcome, text, starter, toServer,
                 toClient, server>>

\* startTurn: nothing is started for a canceled context.
SendStart(t) ==
  /\ pc[t] = "subscribed"
  /\ IF t \in canceled
     THEN Return(t, "notStarted") /\ UNCHANGED <<call, toServer>>
     ELSE /\ Send("start", t)
          /\ call' = [call EXCEPT ![t] = "pending"]
          /\ pc' = [pc EXCEPT ![t] = "starting"]
          /\ UNCHANGED <<outcome, holder, sub, inbox, final>>
  /\ UNCHANGED <<canceled, thread, known, text, shadowed, done, abandoned, confirmed,
                 interrupts, toClient, server>>

\* interruptTurn on the way out.
Interrupt(t) ==
  /\ Send("interrupt", t)
  /\ interrupts' = [interrupts EXCEPT ![t] = @ + 1]

\* The first select of startTurn.
AwaitStart(t) ==
  /\ pc[t] = "starting"
  /\ \/ /\ done[t] = "acked"
        /\ pc' = [pc EXCEPT ![t] = "draining"]
        /\ UNCHANGED <<outcome, holder, sub, inbox, final>>
     \/ done[t] = "refused" /\ Return(t, "refused")
     \/ /\ t \in canceled
        /\ pc' = [pc EXCEPT ![t] = "grace"]
        /\ UNCHANGED <<outcome, holder, sub, inbox, final>>
  /\ UNCHANGED <<canceled, thread, known, text, shadowed, starter, toServer, toClient,
                 server>>

\* The answer is there after all: an id to interrupt with, or a refusal.
StopStarted(t) ==
  \/ /\ done[t] = "acked"
     /\ pc' = [pc EXCEPT ![t] = "interrupting"]
     /\ Interrupt(t)
     /\ UNCHANGED <<outcome, holder, sub, inbox, final>>
  \/ /\ done[t] = "refused"
     /\ Return(t, "refused")
     /\ UNCHANGED <<toServer, interrupts>>

\* The second select: the answer in the grace period, or the timer.
AwaitGrace(t) ==
  /\ pc[t] = "grace"
  /\ \/ StopStarted(t) /\ UNCHANGED abandoned
     \/ /\ abandoned' = abandoned \cup {t}
        /\ pc' = [pc EXCEPT ![t] = "recheck"]
        /\ UNCHANGED <<outcome, holder, sub, inbox, final, toServer, interrupts>>
  /\ UNCHANGED <<canceled, thread, known, text, shadowed, call, done, confirmed, toClient,
                 server>>

\* Defect: the last look into the channel is missing.
RecheckNot(t) ==
  /\ pc[t] = "recheck"
  /\ Return(t, "abandoned")
  /\ UNCHANGED <<canceled, thread, known, text, shadowed, starter, toServer, toClient, server>>

\* The answer may have landed between the timer and the handover.
Recheck(t) ==
  /\ pc[t] = "recheck"
  /\ \/ StopStarted(t)
     \/ /\ done[t] = "empty"
        /\ Return(t, "abandoned")
        /\ UNCHANGED <<toServer, interrupts>>
  /\ UNCHANGED <<canceled, thread, known, text, shadowed, call, done, abandoned, confirmed,
                 toClient, server>>

\* Defect: a transient error the server retries ends the turn.
StatusHasty(m, th) ==
  IF thread[m.turn] # th \/ m.kind = "text" THEN "continue"
  ELSE IF m.kind = "completed" THEN "done" ELSE "failed"

\* classifyNote: what a notification says of the turn on a thread.  It looks at
\* the thread of a notification, not at its turn.
Status(m, th) ==
  IF thread[m.turn] # th \/ m.kind \in {"text", "retry"} THEN "continue"
  ELSE IF m.kind = "completed" THEN "done" ELSE "failed"

\* One notification of runTurn's loop.
ReadNote(t) ==
  /\ pc[t] = "draining" /\ inbox # <<>>
  /\ LET m == Head(inbox) IN
       \/ /\ Status(m, thread[t]) = "continue"
          /\ inbox' = Tail(inbox)
          /\ final' = IF m.kind = "text" /\ thread[m.turn] = thread[t] THEN m.turn ELSE final
          /\ UNCHANGED <<pc, outcome, holder, sub, text, known>>
       \/ /\ Status(m, thread[t]) = "done"
          /\ Return(t, "answered")
          /\ text' = [text EXCEPT ![t] = final]
          /\ known' = known \cup {thread[t]}
       \/ /\ Status(m, thread[t]) = "failed"
          /\ Return(t, "failed")
          /\ UNCHANGED <<text, known>>
  /\ UNCHANGED <<canceled, thread, shadowed, starter, toServer, toClient, server>>

\* Defect: the notifications are read without the caller's context.
GiveUpNever(t) == FALSE /\ UNCHANGED vars

\* The context ends while the turn runs.
GiveUp(t) ==
  /\ pc[t] = "draining" /\ t \in canceled
  /\ pc' = [pc EXCEPT ![t] = "interrupting"]
  /\ Interrupt(t)
  /\ UNCHANGED <<canceled, thread, known, holder, sub, inbox, final, outcome, text, shadowed,
                 call, done, abandoned, confirmed, toClient, server>>

\* interruptTurn waits for the server's answer or ten seconds.
AwaitStop(t) ==
  /\ pc[t] = "interrupting"
  /\ \/ t \in confirmed /\ Return(t, "stopped")
     \/ Return(t, "unconfirmed")
  /\ UNCHANGED <<canceled, thread, known, text, shadowed, starter, toServer, toClient, server>>

(***************************************************************************)
(* The goroutine of turn/start, when the call returns.                     *)
(***************************************************************************)
\* Defect: the answer goes to the channel whether or not it is read.
LandAlways(t) ==
  /\ call[t] \in {"acked", "refused"}
  /\ call' = [call EXCEPT ![t] = "over"]
  /\ done' = [done EXCEPT ![t] = call[t]]
  /\ IF t \in abandoned /\ call[t] = "acked" THEN Interrupt(t)
     ELSE UNCHANGED <<toServer, interrupts>>
  /\ UNCHANGED <<caller, abandoned, confirmed, toClient, server>>

\* To the caller if it still waits; a late id is used to stop the turn.
Land(t) ==
  /\ call[t] \in {"acked", "refused"}
  /\ call' = [call EXCEPT ![t] = "over"]
  /\ IF t \notin abandoned
     THEN /\ done' = [done EXCEPT ![t] = call[t]]
          /\ UNCHANGED <<toServer, interrupts>>
     ELSE /\ UNCHANGED done
          /\ IF call[t] = "acked" THEN Interrupt(t) ELSE UNCHANGED <<toServer, interrupts>>
  /\ UNCHANGED <<caller, abandoned, confirmed, toClient, server>>

(***************************************************************************)
(* The JSON-RPC client reads one message of the server.                    *)
(***************************************************************************)
Deliver ==
  /\ toClient # <<>>
  /\ toClient' = Tail(toClient)
  /\ LET m == Head(toClient) IN
       /\ call' = [call EXCEPT ![m.turn] = CASE m.kind = "ack" -> "acked"
                                            [] m.kind = "refusal" -> "refused"
                                            [] OTHER -> @]
       /\ confirmed' = IF m.kind = "stopped" THEN confirmed \cup {m.turn} ELSE confirmed
       /\ inbox' = IF m.kind \in Notes /\ sub # NoTurn THEN Append(inbox, m) ELSE inbox
  /\ UNCHANGED <<pc, canceled, thread, known, holder, sub, final, outcome, text, shadowed,
                 done, abandoned, interrupts, toServer, server>>
-----------------------------------------------------------------------------
(***************************************************************************)
(* The app-server.                                                         *)
(***************************************************************************)
Active(u) == srv[u] \in {"running", "failing"}

\* One turn at a time on a thread.
ReadStart ==
  /\ toServer # <<>> /\ Head(toServer).kind = "start"
  /\ toServer' = Tail(toServer)
  /\ LET t == Head(toServer).turn IN
       IF \E u \in Turns : thread[u] = thread[t] /\ Active(u)
       THEN Emit("refusal", t) /\ UNCHANGED srv
       ELSE Emit("ack", t) /\ srv' = [srv EXCEPT ![t] = "running"]
  /\ UNCHANGED <<caller, starter, said, parked>>

\* The answer to an interrupt waits until the turn has ended.
ReadInterrupt ==
  /\ toServer # <<>> /\ Head(toServer).kind = "interrupt"
  /\ toServer' = Tail(toServer)
  /\ LET t == Head(toServer).turn IN
       IF Active(t) THEN parked' = parked \cup {t} /\ UNCHANGED toClient
                    ELSE Emit("stopped", t) /\ UNCHANGED parked
  /\ UNCHANGED <<caller, starter, srv, said>>

\* A message, an error the server retries itself, or one that fails the turn.
Speak(t, kind) ==
  /\ srv[t] = "running" /\ kind \notin said[t] /\ <<t, kind>> \in Speech
  /\ Emit(kind, t)
  /\ said' = [said EXCEPT ![t] = @ \cup {kind}]
  /\ srv' = IF kind = "fatal" THEN [srv EXCEPT ![t] = "failing"] ELSE srv
  /\ UNCHANGED <<caller, starter, toServer, parked>>

\* turn/completed, and the answer to a parked interrupt after it.
End(t) ==
  /\ Active(t)
  /\ \E kind \in {"completed", "failed"} :
       /\ srv[t] = "failing" => kind = "failed"
       /\ toClient' = toClient \o <<[kind |-> kind, turn |-> t]>> \o
            (IF t \in parked THEN <<[kind |-> "stopped", turn |-> t]>> ELSE <<>>)
  /\ srv' = [srv EXCEPT ![t] = "ended"]
  /\ parked' = parked \ {t}
  /\ UNCHANGED <<caller, starter, said, toServer>>
-----------------------------------------------------------------------------
\* What a caller does of itself once it has called.
Caller(t) == \/ Lock(t) \/ StartThread(t) \/ Subscribe(t) \/ SendStart(t)
             \/ AwaitStart(t) \/ AwaitGrace(t) \/ Recheck(t)
             \/ ReadNote(t) \/ GiveUp(t) \/ AwaitStop(t)

Server == \/ ReadStart \/ ReadInterrupt
          \/ \E t \in Turns : End(t) \/ \E k \in {"text", "retry", "fatal"} : Speak(t, k)

Next == \/ \E t \in Turns : \/ \E th \in known \cup {NoThread} : Call(t, th)
                           \/ Cancel(t) \/ Caller(t) \/ Land(t)
        \/ Deliver \/ Server

Spec == Init /\ [][Next]_vars

\* Goroutines are scheduled, timers fire, the connection carries messages; the
\* server reads its requests and ends a turn it was asked to stop or has failed,
\* but no other turn need ever end.
FairSpec ==
  /\ Spec
  /\ WF_vars(Deliver) /\ WF_vars(ReadStart) /\ WF_vars(ReadInterrupt)
  /\ \A t \in Turns : /\ WF_vars(Caller(t)) /\ WF_vars(Land(t))
                      /\ WF_vars((t \in parked \/ srv[t] = "failing") /\ End(t))
-----------------------------------------------------------------------------
Outcomes == {"none", "notStarted", "refused", "abandoned", "answered", "failed", "stopped",
             "unconfirmed"}

\* The types, and that the subscription belongs to the holder of the lock.
TypeOK ==
  /\ pc \in [Turns -> {"idle", "locking", "locked", "subscribed", "starting", "grace",
                       "recheck", "draining", "interrupting", "returned"}]
  /\ canceled \subseteq Turns /\ thread \in [Turns -> Threads \cup {NoThread}]
  /\ known \subseteq Threads
  /\ holder \in Turns \cup {NoTurn} /\ sub \in {NoTurn, holder}
  /\ inbox \in Seq(Note) /\ final \in Turns \cup {NoTurn}
  /\ call \in [Turns -> {"none", "pending", "acked", "refused", "over"}]
  /\ done \in [Turns -> {"empty", "acked", "refused"}]
  /\ abandoned \subseteq Turns /\ confirmed \subseteq Turns
  /\ outcome \in [Turns -> Outcomes] /\ text \in [Turns -> Turns \cup {NoTurn}]
  /\ toServer \in Seq(Message) /\ toClient \in Seq(Note \cup Reply)
  /\ srv \in [Turns -> {"none", "running", "failing", "ended"}]
  /\ said \in [Turns -> SUBSET Notes] /\ parked \subseteq Turns
  /\ interrupts \in [Turns -> Nat] /\ shadowed \subseteq Turns

\* The duty to stop a turn passes from the caller to the goroutine so that never
\* both interrupt it (startTurn, runner.go:309-311).
InterruptedOnce == \A t \in Turns : interrupts[t] <= 1

\* On a quiet thread RunTurn returns what its own turn said and only when that
\* turn has ended or failed: not at an error the server retries, nor at the end
\* of a turn of another thread (classifyNote, runner.go:456-493).
OwnOutcome ==
  \A t \in Turns \ shadowed :
    /\ outcome[t] = "answered" => srv[t] = "ended" /\ text[t] \in {t, NoTurn}
    /\ outcome[t] = "failed" => srv[t] \in {"failing", "ended"}

\* A turn on a quiet thread is never refused: turns are serialised and the
\* interrupt waits for the answer (runner.go:79-81, 397-400).
QuietThreadAccepts == \A t \in Turns : outcome[t] = "refused" => t \in shadowed

\* A turn whose caller gave up does not go on holding its thread, though its id
\* may arrive at any time (startTurn, runner.go:340-373).
AbandonedStops ==
  \A t \in Turns :
    (outcome[t] \in {"abandoned", "unconfirmed", "stopped"} /\ srv[t] = "running")
      ~> srv[t] # "running"

\* The holder of the lock returns once its context is canceled, whatever the
\* server does (startTurnGrace, interruptTimeout).
HolderReturns ==
  \A t \in Turns : (holder = t /\ t \in canceled) ~> pc[t] = "returned"
=============================================================================
