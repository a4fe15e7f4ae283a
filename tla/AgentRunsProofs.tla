--------------------------- MODULE AgentRunsProofs --------------------------
(***************************************************************************)
(* Proofs about AgentRuns for any number of runs and turns: type           *)
(* correctness, that outcomes are claimed, released and delivered without  *)
(* loss or repetition, and that AgentRuns implements OutcomeMailbox.       *)
(***************************************************************************)
EXTENDS AgentRuns, TLAPS

\* A run exists from its registration on, and is "running" exactly while its
\* goroutine has not recorded an outcome.
RunStates ==
  \A r \in Runs :
    /\ r \notin registry => status[r] = "absent" /\ pc[r] = "absent"
    /\ r \in registry => pc[r] # "absent"
    /\ r \in registry => (status[r] = "running" <=> Working(r))
    /\ r \in registry => (status[r] \in Terminal <=> pc[r] \in {"finished", "exited"})
    /\ r \in done => pc[r] = "exited"
    /\ r \in notified => status[r] \in Terminal

\* Drains visit registered runs only, and a stopper knows whom it stops.
ActorStates ==
  /\ \A t \in Turns : todo[t] \subseteq registry
  /\ \A c \in Callers : pc[c] \in {"stopChecked", "stopping"} => target[c] \in registry

Inv == /\ TypeOK
       /\ IdsAreFresh
       /\ RunStates
       /\ ActorStates
       /\ NoOutcomeLost
       /\ DeliveredOnce
-----------------------------------------------------------------------------
LEMMA CallersAreDisjoint ==
  \A r \in Runs, t \in Turns : r # t
BY ActorAssumption

LEMMA InitInv == Init => Inv
<1> SUFFICES ASSUME Init PROVE Inv
  OBVIOUS
<1> USE DEF Init, Callers
<1>1. TypeOK
  <2>1. seq \in 0 .. MaxRuns /\ delivered \in [Runs -> Nat]
    BY RunsAssumption
  <2>2. pc \in [Callers -> RunPC \cup TurnPC]
    BY DEF RunPC, TurnPC
  <2>3. (\A r \in Runs : pc[r] \in RunPC) /\ (\A t \in Turns : pc[t] \in TurnPC)
    BY CallersAreDisjoint DEF RunPC, TurnPC
  <2>4. /\ status \in [Runs -> {"absent", "running"} \cup Terminal]
        /\ reply \in [Callers -> {"none"} \cup Terminal]
        /\ target \in [Callers -> Runs \cup {NoRun}]
    OBVIOUS
  <2> QED
    BY <2>1, <2>2, <2>3, <2>4 DEF TypeOK
<1>2. IdsAreFresh
  BY DEF IdsAreFresh
<1>3. RunStates /\ ActorStates
  BY CallersAreDisjoint DEF RunStates, ActorStates, Working, Terminal
<1>4. NoOutcomeLost /\ DeliveredOnce
  BY DEF NoOutcomeLost, DeliveredOnce, Holders
<1> QED
  BY <1>1, <1>2, <1>3, <1>4 DEF Inv

LEMMA TypeStep == Inv /\ [Next]_vars => (TypeOK)'
<1> SUFFICES ASSUME Inv, [Next]_vars PROVE (TypeOK)'
  OBVIOUS
<1> USE DEF Inv, TypeOK, Terminal, RunPC, TurnPC, Callers, MayStop, Takable
<1>1. ASSUME ReserveId PROVE (TypeOK)'
  BY <1>1, RunsAssumption DEF ReserveId, Runs
<1>2. ASSUME NEW r \in Runs, Register(r) PROVE (TypeOK)'
  BY <1>2, CallersAreDisjoint DEF Register
<1>3. ASSUME NEW r \in Runs, NEW o \in Terminal, Finish(r, o) PROVE (TypeOK)'
  BY <1>3, CallersAreDisjoint DEF Finish
<1>4. ASSUME NEW r \in Runs, CloseDone(r) PROVE (TypeOK)'
  BY <1>4, CallersAreDisjoint DEF CloseDone
<1>5. ASSUME NEW t \in Turns, BeginTurn(t) PROVE (TypeOK)'
  BY <1>5, CallersAreDisjoint DEF BeginTurn
<1>6. ASSUME NEW t \in Turns, NEW r \in Runs, TakeNotification(t, r) PROVE (TypeOK)'
  <2>1. CASE Takable(r)
    BY <1>6, <2>1 DEF TakeNotification
  <2>2. CASE ~ Takable(r)
    BY <1>6, <2>2 DEF TakeNotification
  <2> QED
    BY <2>1, <2>2
<1>7. ASSUME NEW t \in Turns, Deliver(t) PROVE (TypeOK)'
  BY <1>7, CallersAreDisjoint DEF Deliver
<1>8. ASSUME NEW t \in Turns, AbortTurn(t) PROVE (TypeOK)'
  BY <1>8, CallersAreDisjoint DEF AbortTurn
<1>9. ASSUME NEW t \in Turns, NEW r \in Runs, Release(t, r) PROVE (TypeOK)'
  BY <1>9, CallersAreDisjoint DEF Release
<1>10. ASSUME NEW t \in Turns, EndTurn(t) PROVE (TypeOK)'
  BY <1>10, CallersAreDisjoint DEF EndTurn
<1>11. ASSUME NEW c \in Callers, NEW r \in Runs, StopFinished(c, r) PROVE (TypeOK)'
  <2>1. status[r] \in Terminal
    BY <1>11 DEF StopFinished, RunStates, Working
  <2> QED
    BY <1>11, <2>1 DEF StopFinished
<1>12. ASSUME NEW c \in Callers, NEW r \in Runs, StopRunning(c, r) PROVE (TypeOK)'
  BY <1>12, CallersAreDisjoint DEF StopRunning
<1>13. ASSUME NEW c \in Callers, StopCancel(c) PROVE (TypeOK)'
  <2>1. target[c] \in Runs
    BY <1>13 DEF StopCancel, ActorStates
  <2> QED
    BY <1>13, <2>1, CallersAreDisjoint DEF StopCancel
<1>14. ASSUME NEW c \in Callers, StopReturn(c) PROVE (TypeOK)'
  <2>1. target[c] \in Runs /\ status[target[c]] \in Terminal
    BY <1>14 DEF StopReturn, ActorStates, RunStates
  <2> QED
    BY <1>14, <2>1, CallersAreDisjoint DEF StopReturn
<1>15. ASSUME CancelAll PROVE (TypeOK)'
  BY <1>15, CallersAreDisjoint DEF CancelAll
<1>16. CASE UNCHANGED vars
  BY <1>16 DEF vars
<1> QED
  BY <1>1, <1>2, <1>3, <1>4, <1>5, <1>6, <1>7, <1>8, <1>9, <1>10, <1>11, <1>12, <1>13, <1>14, <1>15, <1>16 DEF Next, RunStep, TurnStep, StopStep

LEMMA IdsStep == Inv /\ [Next]_vars => (IdsAreFresh)'
<1> SUFFICES ASSUME Inv, [Next]_vars PROVE (IdsAreFresh)'
  OBVIOUS
<1> USE DEF Inv, TypeOK, IdsAreFresh
<1>1. ASSUME ReserveId PROVE (IdsAreFresh)'
  BY <1>1 DEF ReserveId
<1>2. ASSUME NEW r \in Runs, Register(r) PROVE (IdsAreFresh)'
  BY <1>2 DEF Register
<1>3. ASSUME NEW r \in Runs, NEW o \in Terminal, Finish(r, o) PROVE (IdsAreFresh)'
  BY <1>3 DEF Finish
<1>4. ASSUME NEW r \in Runs, CloseDone(r) PROVE (IdsAreFresh)'
  BY <1>4 DEF CloseDone
<1>5. ASSUME NEW t \in Turns, BeginTurn(t) PROVE (IdsAreFresh)'
  BY <1>5 DEF BeginTurn
<1>6. ASSUME NEW t \in Turns, NEW r \in Runs, TakeNotification(t, r) PROVE (IdsAreFresh)'
  BY <1>6 DEF TakeNotification
<1>7. ASSUME NEW t \in Turns, Deliver(t) PROVE (IdsAreFresh)'
  BY <1>7 DEF Deliver
<1>8. ASSUME NEW t \in Turns, AbortTurn(t) PROVE (IdsAreFresh)'
  BY <1>8 DEF AbortTurn
<1>9. ASSUME NEW t \in Turns, NEW r \in Runs, Release(t, r) PROVE (IdsAreFresh)'
  BY <1>9 DEF Release
<1>10. ASSUME NEW t \in Turns, EndTurn(t) PROVE (IdsAreFresh)'
  BY <1>10 DEF EndTurn
<1>11. ASSUME NEW c \in Callers, NEW r \in Runs, StopFinished(c, r) PROVE (IdsAreFresh)'
  BY <1>11 DEF StopFinished
<1>12. ASSUME NEW c \in Callers, NEW r \in Runs, StopRunning(c, r) PROVE (IdsAreFresh)'
  BY <1>12 DEF StopRunning
<1>13. ASSUME NEW c \in Callers, StopCancel(c) PROVE (IdsAreFresh)'
  BY <1>13 DEF StopCancel
<1>14. ASSUME NEW c \in Callers, StopReturn(c) PROVE (IdsAreFresh)'
  BY <1>14 DEF StopReturn
<1>15. ASSUME CancelAll PROVE (IdsAreFresh)'
  BY <1>15 DEF CancelAll
<1>16. CASE UNCHANGED vars
  BY <1>16 DEF vars
<1> QED
  BY <1>1, <1>2, <1>3, <1>4, <1>5, <1>6, <1>7, <1>8, <1>9, <1>10, <1>11, <1>12, <1>13, <1>14, <1>15, <1>16 DEF Next, RunStep, TurnStep, StopStep

LEMMA RunStatesStep == Inv /\ [Next]_vars => (RunStates)'
<1> SUFFICES ASSUME Inv, [Next]_vars PROVE (RunStates)'
  OBVIOUS
<1> USE DEF Inv, TypeOK, RunStates, ActorStates, Working, Terminal, Callers, Takable, MayStop
<1>1. ASSUME ReserveId PROVE (RunStates)'
  BY <1>1, CallersAreDisjoint DEF ReserveId
<1>2. ASSUME NEW r \in Runs, Register(r) PROVE (RunStates)'
  <2>1. r \notin registry /\ r \notin done /\ r \notin notified
    BY <1>2 DEF Register, IdsAreFresh
  <2> QED
    BY <1>2, <2>1, CallersAreDisjoint DEF Register
<1>3. ASSUME NEW r \in Runs, NEW o \in Terminal, Finish(r, o) PROVE (RunStates)'
  BY <1>3, CallersAreDisjoint DEF Finish
<1>4. ASSUME NEW r \in Runs, CloseDone(r) PROVE (RunStates)'
  BY <1>4, CallersAreDisjoint DEF CloseDone
<1>5. ASSUME NEW t \in Turns, BeginTurn(t) PROVE (RunStates)'
  BY <1>5, CallersAreDisjoint DEF BeginTurn
<1>6. ASSUME NEW t \in Turns, NEW r \in Runs, TakeNotification(t, r) PROVE (RunStates)'
  <2>1. CASE Takable(r)
    <3>1. status[r] \in Terminal
      BY <1>6, <2>1 DEF TakeNotification, RunPC
    <3> QED
      BY <1>6, <2>1, <3>1 DEF TakeNotification
  <2>2. CASE ~ Takable(r)
    BY <1>6, <2>2 DEF TakeNotification
  <2> QED
    BY <2>1, <2>2
<1>7. ASSUME NEW t \in Turns, Deliver(t) PROVE (RunStates)'
  BY <1>7, CallersAreDisjoint DEF Deliver
<1>8. ASSUME NEW t \in Turns, AbortTurn(t) PROVE (RunStates)'
  BY <1>8, CallersAreDisjoint DEF AbortTurn
<1>9. ASSUME NEW t \in Turns, NEW r \in Runs, Release(t, r) PROVE (RunStates)'
  BY <1>9, CallersAreDisjoint DEF Release
<1>10. ASSUME NEW t \in Turns, EndTurn(t) PROVE (RunStates)'
  BY <1>10, CallersAreDisjoint DEF EndTurn
<1>11. ASSUME NEW c \in Callers, NEW r \in Runs, StopFinished(c, r) PROVE (RunStates)'
  BY <1>11, CallersAreDisjoint DEF StopFinished
<1>12. ASSUME NEW c \in Callers, NEW r \in Runs, StopRunning(c, r) PROVE (RunStates)'
  BY <1>12, CallersAreDisjoint DEF StopRunning
<1>13. ASSUME NEW c \in Callers, StopCancel(c) PROVE (RunStates)'
  BY <1>13, CallersAreDisjoint DEF StopCancel
<1>14. ASSUME NEW c \in Callers, StopReturn(c) PROVE (RunStates)'
  BY <1>14, CallersAreDisjoint DEF StopReturn
<1>15. ASSUME CancelAll PROVE (RunStates)'
  BY <1>15, CallersAreDisjoint DEF CancelAll
<1>16. CASE UNCHANGED vars
  BY <1>16 DEF vars
<1> QED
  BY <1>1, <1>2, <1>3, <1>4, <1>5, <1>6, <1>7, <1>8, <1>9, <1>10, <1>11, <1>12, <1>13, <1>14, <1>15, <1>16 DEF Next, RunStep, TurnStep, StopStep

LEMMA ActorStep == Inv /\ [Next]_vars => (ActorStates)'
<1> SUFFICES ASSUME Inv, [Next]_vars PROVE (ActorStates)'
  OBVIOUS
<1> USE DEF Inv, TypeOK, ActorStates, RunStates, Callers, MayStop
<1>1. ASSUME ReserveId PROVE (ActorStates)'
  BY <1>1, CallersAreDisjoint DEF ReserveId
<1>2. ASSUME NEW r \in Runs, Register(r) PROVE (ActorStates)'
  BY <1>2, CallersAreDisjoint DEF Register
<1>3. ASSUME NEW r \in Runs, NEW o \in Terminal, Finish(r, o) PROVE (ActorStates)'
  BY <1>3, CallersAreDisjoint DEF Finish
<1>4. ASSUME NEW r \in Runs, CloseDone(r) PROVE (ActorStates)'
  BY <1>4, CallersAreDisjoint DEF CloseDone
<1>5. ASSUME NEW t \in Turns, BeginTurn(t) PROVE (ActorStates)'
  BY <1>5, CallersAreDisjoint DEF BeginTurn
<1>6. ASSUME NEW t \in Turns, NEW r \in Runs, TakeNotification(t, r) PROVE (ActorStates)'
  BY <1>6, CallersAreDisjoint DEF TakeNotification
<1>7. ASSUME NEW t \in Turns, Deliver(t) PROVE (ActorStates)'
  BY <1>7, CallersAreDisjoint DEF Deliver
<1>8. ASSUME NEW t \in Turns, AbortTurn(t) PROVE (ActorStates)'
  BY <1>8, CallersAreDisjoint DEF AbortTurn
<1>9. ASSUME NEW t \in Turns, NEW r \in Runs, Release(t, r) PROVE (ActorStates)'
  BY <1>9, CallersAreDisjoint DEF Release
<1>10. ASSUME NEW t \in Turns, EndTurn(t) PROVE (ActorStates)'
  BY <1>10, CallersAreDisjoint DEF EndTurn
<1>11. ASSUME NEW c \in Callers, NEW r \in Runs, StopFinished(c, r) PROVE (ActorStates)'
  BY <1>11, CallersAreDisjoint DEF StopFinished
<1>12. ASSUME NEW c \in Callers, NEW r \in Runs, StopRunning(c, r) PROVE (ActorStates)'
  BY <1>12, CallersAreDisjoint DEF StopRunning
<1>13. ASSUME NEW c \in Callers, StopCancel(c) PROVE (ActorStates)'
  BY <1>13, CallersAreDisjoint DEF StopCancel
<1>14. ASSUME NEW c \in Callers, StopReturn(c) PROVE (ActorStates)'
  BY <1>14, CallersAreDisjoint DEF StopReturn
<1>15. ASSUME CancelAll PROVE (ActorStates)'
  BY <1>15, CallersAreDisjoint DEF CancelAll
<1>16. CASE UNCHANGED vars
  BY <1>16 DEF vars
<1> QED
  BY <1>1, <1>2, <1>3, <1>4, <1>5, <1>6, <1>7, <1>8, <1>9, <1>10, <1>11, <1>12, <1>13, <1>14, <1>15, <1>16 DEF Next, RunStep, TurnStep, StopStep

LEMMA LostStep == Inv /\ [Next]_vars => (NoOutcomeLost)'
<1> SUFFICES ASSUME Inv, [Next]_vars PROVE (NoOutcomeLost)'
  OBVIOUS
<1> USE DEF Inv, TypeOK, RunStates, NoOutcomeLost, DeliveredOnce, Holders, Takable
<1>1. ASSUME ReserveId PROVE (NoOutcomeLost)'
  BY <1>1 DEF ReserveId
<1>2. ASSUME NEW r \in Runs, Register(r) PROVE (NoOutcomeLost)'
  BY <1>2 DEF Register
<1>3. ASSUME NEW r \in Runs, NEW o \in Terminal, Finish(r, o) PROVE (NoOutcomeLost)'
  BY <1>3 DEF Finish
<1>4. ASSUME NEW r \in Runs, CloseDone(r) PROVE (NoOutcomeLost)'
  BY <1>4 DEF CloseDone
<1>5. ASSUME NEW t \in Turns, BeginTurn(t) PROVE (NoOutcomeLost)'
  BY <1>5 DEF BeginTurn
<1>6. ASSUME NEW t \in Turns, NEW r \in Runs, TakeNotification(t, r) PROVE (NoOutcomeLost)'
  BY SMTT(30), <1>6 DEF TakeNotification
<1>7. ASSUME NEW t \in Turns, Deliver(t) PROVE (NoOutcomeLost)'
  BY <1>7 DEF Deliver
<1>8. ASSUME NEW t \in Turns, AbortTurn(t) PROVE (NoOutcomeLost)'
  BY <1>8 DEF AbortTurn
<1>9. ASSUME NEW t \in Turns, NEW r \in Runs, Release(t, r) PROVE (NoOutcomeLost)'
  BY <1>9 DEF Release
<1>10. ASSUME NEW t \in Turns, EndTurn(t) PROVE (NoOutcomeLost)'
  BY <1>10 DEF EndTurn
<1>11. ASSUME NEW c \in Callers, NEW r \in Runs, StopFinished(c, r) PROVE (NoOutcomeLost)'
  BY <1>11 DEF StopFinished
<1>12. ASSUME NEW c \in Callers, NEW r \in Runs, StopRunning(c, r) PROVE (NoOutcomeLost)'
  BY <1>12 DEF StopRunning
<1>13. ASSUME NEW c \in Callers, StopCancel(c) PROVE (NoOutcomeLost)'
  BY <1>13 DEF StopCancel
<1>14. ASSUME NEW c \in Callers, StopReturn(c) PROVE (NoOutcomeLost)'
  BY <1>14 DEF StopReturn
<1>15. ASSUME CancelAll PROVE (NoOutcomeLost)'
  BY <1>15 DEF CancelAll
<1>16. CASE UNCHANGED vars
  BY <1>16 DEF vars
<1> QED
  BY <1>1, <1>2, <1>3, <1>4, <1>5, <1>6, <1>7, <1>8, <1>9, <1>10, <1>11, <1>12, <1>13, <1>14, <1>15, <1>16 DEF Next, RunStep, TurnStep, StopStep

LEMMA OnceStep == Inv /\ [Next]_vars => (DeliveredOnce)'
<1> SUFFICES ASSUME Inv, [Next]_vars PROVE (DeliveredOnce)'
  OBVIOUS
<1> USE DEF Inv, TypeOK, NoOutcomeLost, DeliveredOnce, Holders
<1>1. ASSUME ReserveId PROVE (DeliveredOnce)'
  BY <1>1 DEF ReserveId
<1>2. ASSUME NEW r \in Runs, Register(r) PROVE (DeliveredOnce)'
  BY <1>2 DEF Register
<1>3. ASSUME NEW r \in Runs, NEW o \in Terminal, Finish(r, o) PROVE (DeliveredOnce)'
  BY <1>3 DEF Finish
<1>4. ASSUME NEW r \in Runs, CloseDone(r) PROVE (DeliveredOnce)'
  BY <1>4 DEF CloseDone
<1>5. ASSUME NEW t \in Turns, BeginTurn(t) PROVE (DeliveredOnce)'
  BY <1>5 DEF BeginTurn
<1>6. ASSUME NEW t \in Turns, NEW r \in Runs, TakeNotification(t, r) PROVE (DeliveredOnce)'
  BY <1>6 DEF TakeNotification
<1>7. ASSUME NEW t \in Turns, Deliver(t) PROVE (DeliveredOnce)'
  BY <1>7 DEF Deliver
<1>8. ASSUME NEW t \in Turns, AbortTurn(t) PROVE (DeliveredOnce)'
  BY <1>8 DEF AbortTurn
<1>9. ASSUME NEW t \in Turns, NEW r \in Runs, Release(t, r) PROVE (DeliveredOnce)'
  BY <1>9 DEF Release
<1>10. ASSUME NEW t \in Turns, EndTurn(t) PROVE (DeliveredOnce)'
  BY <1>10 DEF EndTurn
<1>11. ASSUME NEW c \in Callers, NEW r \in Runs, StopFinished(c, r) PROVE (DeliveredOnce)'
  BY <1>11 DEF StopFinished
<1>12. ASSUME NEW c \in Callers, NEW r \in Runs, StopRunning(c, r) PROVE (DeliveredOnce)'
  BY <1>12 DEF StopRunning
<1>13. ASSUME NEW c \in Callers, StopCancel(c) PROVE (DeliveredOnce)'
  BY <1>13 DEF StopCancel
<1>14. ASSUME NEW c \in Callers, StopReturn(c) PROVE (DeliveredOnce)'
  BY <1>14 DEF StopReturn
<1>15. ASSUME CancelAll PROVE (DeliveredOnce)'
  BY <1>15 DEF CancelAll
<1>16. CASE UNCHANGED vars
  BY <1>16 DEF vars
<1> QED
  BY <1>1, <1>2, <1>3, <1>4, <1>5, <1>6, <1>7, <1>8, <1>9, <1>10, <1>11, <1>12, <1>13, <1>14, <1>15, <1>16 DEF Next, RunStep, TurnStep, StopStep

-----------------------------------------------------------------------------
LEMMA Invariance == Spec => []Inv
<1>1. Inv /\ [Next]_vars => Inv'
  BY TypeStep, IdsStep, RunStatesStep, ActorStep, LostStep, OnceStep DEF Inv
<1> QED
  BY InitInv, <1>1, PTL DEF Spec

(***************************************************************************)
(* agentRun's fields and the drains' bookkeeping keep their types.         *)
(***************************************************************************)
THEOREM TypeCorrect == Spec => []TypeOK
<1>1. Inv => TypeOK
  BY DEF Inv
<1> QED
  BY Invariance, <1>1, PTL

(***************************************************************************)
(* No outcome is delivered twice, whatever the number of turns that drain  *)
(* at the same time (takeNotification, drainNotifications' restore).       *)
(***************************************************************************)
THEOREM OutcomesDeliveredOnce == Spec => []DeliveredOnce
<1>1. Inv => DeliveredOnce
  BY DEF Inv
<1> QED
  BY Invariance, <1>1, PTL

(***************************************************************************)
(* No outcome is lost: a set notified flag always has a holder that will   *)
(* deliver or release it, or a delivery behind it.                         *)
(***************************************************************************)
THEOREM OutcomesNeverLost == Spec => []NoOutcomeLost
<1>1. Inv => NoOutcomeLost
  BY DEF Inv
<1> QED
  BY Invariance, <1>1, PTL

(***************************************************************************)
(* AgentStop and a blocking AgentOutput, which wait on the done channel,   *)
(* read a recorded outcome.                                                *)
(***************************************************************************)
THEOREM DoneImpliesRecorded == Spec => []DoneIsRecorded
<1>1. Inv => DoneIsRecorded
  BY DEF Inv, TypeOK, RunStates, DoneIsRecorded
<1> QED
  BY Invariance, <1>1, PTL
-----------------------------------------------------------------------------
(***************************************************************************)
(* The refinement: an initial state is a mailbox's initial state and every *)
(* step is a mailbox step or leaves the mailbox unchanged.                 *)
(***************************************************************************)
LEMMA MailboxInit == Init => Mailbox!Init
BY DEF Init, Mailbox!Init

LEMMA MailboxStep == Inv /\ [Next]_vars => [Mailbox!Next]_<<status, {r \in Runs : delivered[r] > 0}>>
<1> DEFINE told == {r \in Runs : delivered[r] > 0}
           box == <<status, told>>
<1> SUFFICES ASSUME Inv, [Next]_vars PROVE [Mailbox!Next]_box
  BY DEF Mailbox!mailbox
<1> USE DEF Inv, TypeOK
<1>1. ASSUME NEW r \in Runs, Register(r) PROVE Mailbox!Launch(r)
  BY <1>1 DEF Register, Mailbox!Launch, IdsAreFresh, RunStates
<1>2. ASSUME NEW r \in Runs, NEW o \in Terminal, Finish(r, o) PROVE Mailbox!Finish(r, o)
  BY <1>2 DEF Finish, Mailbox!Finish, RunStates, Working
<1>3. ASSUME NEW t \in Turns, Deliver(t) PROVE Mailbox!Tell(claimed[t])
  <2>1. \A r \in claimed[t] : r \in notified /\ delivered[r] = 0
    BY DEF NoOutcomeLost, Holders
  <2>2. \A r \in claimed[t] : status[r] \in Terminal
    BY <2>1 DEF RunStates
  <2>3. told' = told \cup claimed[t]
    BY <1>3, <2>1 DEF Deliver
  <2> QED
    BY <1>3, <2>1, <2>2, <2>3 DEF Deliver, Mailbox!Tell
<1>4. ASSUME UNCHANGED <<status, delivered>> PROVE UNCHANGED box
  BY <1>4
<1>5. CASE UNCHANGED vars
  BY <1>4, <1>5 DEF vars
<1>6. CASE ReserveId \/ CancelAll
  BY <1>4, <1>6 DEF ReserveId, CancelAll
<1>7. ASSUME NEW r \in Runs, CloseDone(r) PROVE UNCHANGED box
  BY <1>4, <1>7 DEF CloseDone
<1>8. ASSUME NEW t \in Turns, TurnStep(t), ~ Deliver(t) PROVE UNCHANGED box
  BY <1>4, <1>8 DEF TurnStep, BeginTurn, TakeNotification, AbortTurn, Release, EndTurn
<1>9. ASSUME NEW c \in Callers, StopStep(c) PROVE UNCHANGED box
  BY <1>4, <1>9 DEF StopStep, StopFinished, StopRunning, StopCancel, StopReturn
<1>10. ASSUME NEW t \in Turns, Deliver(t) PROVE Mailbox!Next
  <2>1. claimed[t] \in SUBSET Runs
    OBVIOUS
  <2>2. Mailbox!Tell(claimed[t])
    BY <1>3, <1>10
  <2> QED
    BY <2>1, <2>2 DEF Mailbox!Next, Mailbox!Tell
<1> QED
  BY <1>1, <1>2, <1>5, <1>6, <1>7, <1>8, <1>9, <1>10 DEF Next, RunStep, Mailbox!Next

(***************************************************************************)
(* Claims, releases, stops and drains together implement the mailbox: one  *)
(* outcome per run, told to the conversation at most once.                 *)
(***************************************************************************)
THEOREM AgentRunsImplementsMailbox == Spec => ImplementsMailbox
<1>1. Init => Mailbox!Init
  BY MailboxInit
<1>2. Inv /\ [Next]_vars => [Mailbox!Next]_Mailbox!mailbox
  BY MailboxStep DEF Mailbox!mailbox
<1> QED
  BY Invariance, <1>1, <1>2, PTL DEF Spec, ImplementsMailbox, Mailbox!Spec
=============================================================================
