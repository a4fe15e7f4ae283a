--------------------------- MODULE TurnRunnerProofs ---------------------------
(***************************************************************************)
(* The client of an app-server, for any number of turns and threads: a     *)
(* turn is interrupted at most once, a turn on a quiet thread is never     *)
(* refused, and RunTurn returns what its own turn said.                    *)
(***************************************************************************)
EXTENDS TurnRunner, SequenceTheorems, TLAPS

Answers == {"ack", "refusal"}

\* Before turn/start has been sent, and while RunTurn has the lock.
Early      == {"idle", "locking", "locked", "subscribed"}
Subscribed == {"subscribed", "starting", "grace", "recheck", "draining", "interrupting"}
Held       == {"locked"} \cup Subscribed

\* No two messages of these kinds are about one turn.
OneOf(s, kinds) ==
  \A i, j \in DOMAIN s :
    s[i].kind \in kinds /\ s[j].kind \in kinds /\ s[i].turn = s[j].turn => i = j

Mentions(s, kinds, t) == \E m \in Elements(s) : m.kind \in kinds /\ m.turn = t

\* The start of t comes before that of u.
Ahead(s, t, u) ==
  \A i, j \in DOMAIN s :
    /\ s[i].kind = "start" /\ s[i].turn = t
    /\ s[j].kind = "start" /\ s[j].turn = u
    => i < j
-----------------------------------------------------------------------------
(* The streams.                                                            *)

LEMMA ElementsOfAppend ==
  ASSUME NEW S, NEW s \in Seq(S), NEW e \in S
  PROVE  Elements(Append(s, e)) = Elements(s) \cup {e}
  <1> DEFINE later == Append(s, e)
  <1>1. /\ DOMAIN s = 1 .. Len(s) /\ Len(s) \in Nat /\ DOMAIN later = 1 .. Len(s) + 1
        /\ \A i \in 1 .. Len(s) : later[i] = s[i]
        /\ later[Len(s) + 1] = e
    BY AppendProperties
  <1> HIDE DEF later
  <1>2. \A i \in DOMAIN later : i \in DOMAIN s \/ i = Len(s) + 1
    BY <1>1
  <1>3. Len(s) + 1 \in DOMAIN later /\ \A i \in DOMAIN s : i \in DOMAIN later
    BY <1>1
  <1>4. Elements(later) = Elements(s) \cup {e}
    BY <1>1, <1>2, <1>3 DEF Elements
  <1> QED
    BY <1>4 DEF later

LEMMA ElementsOfTail ==
  ASSUME NEW S, NEW s \in Seq(S), s # <<>>
  PROVE  Elements(s) = {Head(s)} \cup Elements(Tail(s))
  <1> DEFINE rest == Tail(s)
  <1>1. /\ Len(s) \in Nat \ {0} /\ DOMAIN s = 1 .. Len(s) /\ Head(s) = s[1]
        /\ DOMAIN rest = 1 .. Len(s) - 1
        /\ \A i \in 1 .. Len(s) - 1 : rest[i] = s[i + 1]
    BY HeadTailProperties, EmptySeq, LenProperties
  <1> HIDE DEF rest
  <1>2. ASSUME NEW i \in DOMAIN s PROVE s[i] \in {Head(s)} \cup Elements(rest)
    <2>1. CASE i = 1
      BY <1>1, <2>1
    <2>2. CASE i # 1
      <3>1. i - 1 \in 1 .. Len(s) - 1 /\ (i - 1) + 1 = i
        BY <1>1, <2>2
      <3>2. s[i] = rest[i - 1]
        BY <1>1, <3>1
      <3> QED
        BY <1>1, <3>1, <3>2 DEF Elements
    <2> QED
      BY <2>1, <2>2
  <1>3. ASSUME NEW i \in DOMAIN rest PROVE rest[i] \in Elements(s)
    <2>1. i + 1 \in DOMAIN s
      BY <1>1
    <2> QED
      BY <1>1, <2>1 DEF Elements
  <1>4. Head(s) \in Elements(s)
    BY <1>1 DEF Elements
  <1>5. Elements(s) = {Head(s)} \cup Elements(rest)
    BY <1>2, <1>3, <1>4 DEF Elements
  <1> QED
    BY <1>5 DEF rest

\* What a stream mentions, when messages come and go.
LEMMA MentionsOfAppend ==
  ASSUME NEW S, NEW s \in Seq(S), NEW e \in S, NEW kinds, NEW t
  PROVE  Mentions(Append(s, e), kinds, t) <=>
           Mentions(s, kinds, t) \/ (e.kind \in kinds /\ e.turn = t)
  BY ElementsOfAppend DEF Mentions

LEMMA MentionsOfTail ==
  ASSUME NEW S, NEW s \in Seq(S), s # <<>>, NEW kinds, NEW t
  PROVE  Mentions(s, kinds, t) <=>
           Mentions(Tail(s), kinds, t) \/ (Head(s).kind \in kinds /\ Head(s).turn = t)
  BY ElementsOfTail DEF Mentions

LEMMA MentionsOfNone == \A kinds, t : ~Mentions(<<>>, kinds, t)
  BY DEF Mentions, Elements

\* One message of a kind for each turn.
LEMMA OneOfAppend ==
  ASSUME NEW S, NEW s \in Seq(S), NEW e \in S, NEW kinds, OneOf(s, kinds),
         e.kind \in kinds => ~Mentions(s, kinds, e.turn)
  PROVE  OneOf(Append(s, e), kinds)
  <1> DEFINE later == Append(s, e)
  <1>1. /\ DOMAIN s = 1 .. Len(s) /\ Len(s) \in Nat /\ DOMAIN later = 1 .. Len(s) + 1
        /\ \A i \in 1 .. Len(s) : later[i] = s[i]
        /\ later[Len(s) + 1] = e
    BY AppendProperties
  <1> HIDE DEF later
  <1> SUFFICES ASSUME NEW i \in DOMAIN later, NEW j \in DOMAIN later,
                      later[i].kind \in kinds, later[j].kind \in kinds,
                      later[i].turn = later[j].turn
               PROVE  i = j
    BY DEF OneOf, later
  <1>2. ASSUME NEW k \in DOMAIN s, s[k].kind \in kinds, e.kind \in kinds
        PROVE  s[k].turn # e.turn
    BY <1>2 DEF Mentions, Elements
  <1>3. /\ i \in DOMAIN s \/ i = Len(s) + 1
        /\ j \in DOMAIN s \/ j = Len(s) + 1
    BY <1>1
  <1>4. CASE i \in DOMAIN s /\ j \in DOMAIN s
    BY <1>1, <1>4 DEF OneOf
  <1>5. CASE i \in DOMAIN s /\ j = Len(s) + 1
    BY <1>1, <1>2, <1>5
  <1>6. CASE j \in DOMAIN s /\ i = Len(s) + 1
    BY <1>1, <1>2, <1>6
  <1> QED
    BY <1>3, <1>4, <1>5, <1>6

LEMMA OneOfTail ==
  ASSUME NEW S, NEW s \in Seq(S), s # <<>>, NEW kinds, OneOf(s, kinds)
  PROVE  /\ OneOf(Tail(s), kinds)
         /\ Head(s).kind \in kinds => ~Mentions(Tail(s), kinds, Head(s).turn)
  <1> DEFINE rest == Tail(s)
  <1>1. /\ Len(s) \in Nat \ {0} /\ DOMAIN s = 1 .. Len(s) /\ Head(s) = s[1]
        /\ DOMAIN rest = 1 .. Len(s) - 1
        /\ \A i \in 1 .. Len(s) - 1 : rest[i] = s[i + 1]
    BY HeadTailProperties, EmptySeq, LenProperties
  <1> HIDE DEF rest
  <1>2. \A i \in DOMAIN rest : i + 1 \in DOMAIN s /\ rest[i] = s[i + 1] /\ i + 1 # 1
    BY <1>1
  <1>3. OneOf(rest, kinds)
    <2> SUFFICES ASSUME NEW i \in DOMAIN rest, NEW j \in DOMAIN rest,
                        rest[i].kind \in kinds, rest[j].kind \in kinds,
                        rest[i].turn = rest[j].turn
                 PROVE  i = j
      BY DEF OneOf
    <2>1. i + 1 = j + 1
      BY <1>2 DEF OneOf
    <2> QED
      BY <1>1, <2>1
  <1>4. Head(s).kind \in kinds => ~Mentions(rest, kinds, Head(s).turn)
    BY <1>1, <1>2 DEF OneOf, Mentions, Elements
  <1> QED
    BY <1>3, <1>4 DEF rest

\* The order of two starts.
LEMMA AheadOfAppend ==
  ASSUME NEW S, NEW s \in Seq(S), NEW e \in S, NEW t, NEW u, t # u, Ahead(s, t, u),
         e.kind = "start" /\ e.turn = t => ~Mentions(s, {"start"}, u)
  PROVE  Ahead(Append(s, e), t, u)
  <1> DEFINE later == Append(s, e)
  <1>1. /\ DOMAIN s = 1 .. Len(s) /\ Len(s) \in Nat /\ DOMAIN later = 1 .. Len(s) + 1
        /\ \A i \in 1 .. Len(s) : later[i] = s[i]
        /\ later[Len(s) + 1] = e
    BY AppendProperties
  <1> HIDE DEF later
  <1> SUFFICES ASSUME NEW i \in DOMAIN later, NEW j \in DOMAIN later,
                      later[i].kind = "start", later[i].turn = t,
                      later[j].kind = "start", later[j].turn = u
               PROVE  i < j
    BY DEF Ahead, later
  <1>2. /\ i \in DOMAIN s \/ i = Len(s) + 1
        /\ j \in DOMAIN s \/ j = Len(s) + 1
    BY <1>1
  <1>3. CASE i \in DOMAIN s /\ j \in DOMAIN s
    BY <1>1, <1>3 DEF Ahead
  <1>4. CASE i \in DOMAIN s /\ j = Len(s) + 1
    BY <1>1, <1>4
  <1>5. CASE j \in DOMAIN s /\ i = Len(s) + 1
    <2>1. e.kind = "start" /\ e.turn = t /\ s[j].kind = "start" /\ s[j].turn = u
      BY <1>1, <1>5
    <2> QED
      BY <1>5, <2>1 DEF Mentions, Elements
  <1>6. CASE i = Len(s) + 1 /\ j = Len(s) + 1
    BY <1>1, <1>6
  <1> QED
    BY <1>2, <1>3, <1>4, <1>5, <1>6

LEMMA AheadOfTail ==
  ASSUME NEW S, NEW s \in Seq(S), s # <<>>, NEW t, NEW u, Ahead(s, t, u)
  PROVE  /\ Ahead(Tail(s), t, u)
         /\ Mentions(s, {"start"}, t) => ~(Head(s).kind = "start" /\ Head(s).turn = u)
  <1> DEFINE rest == Tail(s)
  <1>1. /\ Len(s) \in Nat \ {0} /\ DOMAIN s = 1 .. Len(s) /\ Head(s) = s[1]
        /\ DOMAIN rest = 1 .. Len(s) - 1
        /\ \A i \in 1 .. Len(s) - 1 : rest[i] = s[i + 1]
    BY HeadTailProperties, EmptySeq, LenProperties
  <1> HIDE DEF rest
  <1>2. \A i \in DOMAIN rest : i + 1 \in DOMAIN s /\ rest[i] = s[i + 1] /\ i \in Int
    BY <1>1
  <1>3. Ahead(rest, t, u)
    <2> SUFFICES ASSUME NEW i \in DOMAIN rest, NEW j \in DOMAIN rest,
                        rest[i].kind = "start", rest[i].turn = t,
                        rest[j].kind = "start", rest[j].turn = u
                 PROVE  i < j
      BY DEF Ahead
    <2>1. i + 1 < j + 1
      BY <1>2 DEF Ahead
    <2> QED
      BY <1>2, <2>1
  <1>4. Mentions(s, {"start"}, t) => ~(Head(s).kind = "start" /\ Head(s).turn = u)
    <2> SUFFICES ASSUME NEW i \in DOMAIN s, s[i].kind = "start", s[i].turn = t,
                        s[1].kind = "start", s[1].turn = u
                 PROVE  FALSE
      BY <1>1 DEF Mentions, Elements
    <2>1. i < 1
      BY <1>1 DEF Ahead
    <2> QED
      BY <1>1, <2>1
  <1> QED
    BY <1>3, <1>4 DEF rest
-----------------------------------------------------------------------------
(* The invariant.                                                          *)

\* The lock, the subscription, and the thread that a subscribed turn has.
LockFits ==
  /\ \A t \in Turns : pc[t] \in Held <=> holder = t
  /\ \A t \in Turns : pc[t] \in Subscribed => sub = t /\ thread[t] # NoThread
  /\ sub # NoTurn => pc[sub] \in Subscribed

\* turn/start is answered once.
AnsweredOnce(t) ==
  /\ Mentions(toServer, {"start"}, t) => /\ call[t] = "pending" /\ srv[t] = "none"
                                         /\ ~Mentions(toClient, Answers, t)
  /\ Mentions(toClient, Answers, t) => call[t] = "pending"

OneAnswer == /\ OneOf(toServer, {"start"}) /\ OneOf(toClient, Answers)
             /\ \A t \in Turns : AnsweredOnce(t)

\* Who has, or has had, the duty to stop a turn: its caller, once it has the
\* answer, or the goroutine, when the caller has handed over without one.
DutyFits(t) ==
  /\ pc[t] \in Early => call[t] = "none"
  /\ pc[t] \in Subscribed \ {"subscribed"} => call[t] # "none"
  /\ call[t] = "none" => /\ srv[t] = "none" /\ done[t] = "empty" /\ t \notin abandoned
                         /\ interrupts[t] = 0
  /\ done[t] # "empty" => call[t] = "over"
  /\ pc[t] \in {"starting", "grace", "draining"} => t \notin abandoned
  /\ pc[t] = "draining" => done[t] = "acked"
  /\ interrupts[t] <= 1
  /\ interrupts[t] = 1 => /\ call[t] = "over"
                          /\ \/ pc[t] \in {"interrupting", "returned"}
                             \/ done[t] = "empty" /\ t \in abandoned

\* What notifications say of the server is so.
True(m) ==
  /\ m.kind \in Notes => srv[m.turn] # "none"
  /\ m.kind \in {"completed", "failed"} => srv[m.turn] = "ended"
  /\ m.kind = "fatal" => srv[m.turn] \in {"failing", "ended"}

AllTrue == /\ \A m \in Elements(toClient) : True(m)
           /\ \A m \in Elements(inbox) : True(m)

\* No other turn of the thread is under way or has anything left to say.
Silent(u) == /\ ~Active(u) /\ ~Mentions(toServer, {"start"}, u)
             /\ ~Mentions(toClient, Notes, u) /\ ~Mentions(inbox, Notes, u)

\* A turn that found its thread quiet has it to itself while it is subscribed;
Alone(t) ==
  t \notin shadowed /\ sub = t =>
    /\ final \in {t, NoTurn}
    /\ \A u \in Turns \ {t} : thread[u] = thread[t] => Silent(u)

\* and also when its caller has left and its start is still on the way.
FirstIn(t) ==
  t \notin shadowed /\ Mentions(toServer, {"start"}, t) =>
    \A u \in Turns \ {t} : thread[u] = thread[t] => ~Active(u) /\ Ahead(toServer, t, u)

NeverRefused(t) ==
  t \notin shadowed => /\ call[t] # "refused" /\ done[t] # "refused" /\ outcome[t] # "refused"
                       /\ ~Mentions(toClient, {"refusal"}, t)

TurnInv == /\ TypeOK /\ LockFits /\ OneAnswer
           /\ \A t \in Turns : DutyFits(t)
           /\ AllTrue
           /\ \A t \in Turns : Alone(t) /\ FirstIn(t) /\ NeverRefused(t)
           /\ OwnOutcome
-----------------------------------------------------------------------------
\* The messages that are sent, and their kinds.
LEMMA MessageFacts ==
  /\ \A t \in Turns, k \in {"start", "interrupt"} : [kind |-> k, turn |-> t] \in Message
  /\ \A t \in Turns, k \in Notes : [kind |-> k, turn |-> t] \in Note \cup Reply
  /\ \A t \in Turns, k \in {"ack", "refusal", "stopped"} :
       [kind |-> k, turn |-> t] \in Note \cup Reply
  /\ \A m \in Message : m.kind \in {"start", "interrupt"} /\ m.turn \in Turns
  /\ \A m \in Note \cup Reply : m.turn \in Turns
  /\ \A m \in Note \cup Reply : m.kind \in Notes => m \in Note
  /\ \A m \in Note : m.kind \in Notes /\ m.turn \in Turns
  /\ Turns \subseteq Threads /\ NoTurn \notin Turns /\ NoThread \notin Threads
  BY TurnRunnerAssumption DEF Message, Note, Reply, Turns, Threads

LEMMA InitTurns == Init => TurnInv
  <1> SUFFICES ASSUME Init PROVE TurnInv
    OBVIOUS
  <1>1. /\ Elements(toServer) = {} /\ Elements(toClient) = {} /\ Elements(inbox) = {}
        /\ OneOf(toServer, {"start"}) /\ OneOf(toClient, Answers)
    BY DEF Init, Elements, OneOf
  <1>2. TypeOK
    BY TurnRunnerAssumption DEF Init, TypeOK, Threads, Outcomes
  <1>3. LockFits
    BY MessageFacts DEF Init, LockFits, Held, Subscribed
  <1>4. OneAnswer /\ \A t \in Turns : DutyFits(t) /\ FirstIn(t)
    BY <1>1 DEF Init, OneAnswer, AnsweredOnce, DutyFits, FirstIn, Mentions, Early,
                     Subscribed
  <1>5. \A t \in Turns : Alone(t) /\ NeverRefused(t)
    BY <1>1, MessageFacts DEF Init, Alone, NeverRefused, Mentions
  <1>6. AllTrue /\ OwnOutcome
    BY <1>1 DEF AllTrue, OwnOutcome, Init
  <1> QED
    BY <1>2, <1>3, <1>4, <1>5, <1>6 DEF TurnInv
-----------------------------------------------------------------------------
\* A request is sent, a message is taken or delivered: the types of the streams.
LEMMA SendIsTyped ==
  ASSUME TypeOK, NEW t \in Turns, NEW kind \in {"start", "interrupt"}, Send(kind, t)
  PROVE  toServer' \in Seq(Message)
  <1>1. toServer \in Seq(Message) /\ [kind |-> kind, turn |-> t] \in Message
    BY MessageFacts DEF TypeOK
  <1> QED
    BY <1>1, AppendProperties DEF Send

LEMMA EmitIsTyped ==
  ASSUME TypeOK, NEW t \in Turns, NEW kind \in Notes \cup {"ack", "refusal", "stopped"},
         Emit(kind, t)
  PROVE  toClient' \in Seq(Note \cup Reply)
  <1>1. toClient \in Seq(Note \cup Reply) /\ [kind |-> kind, turn |-> t] \in Note \cup Reply
    BY MessageFacts DEF TypeOK
  <1> QED
    BY <1>1, AppendProperties DEF Emit

\* What the server sends when a turn ends: the end, and the answer to an interrupt.
Ended(t, kind) == [kind |-> kind, turn |-> t]
Stopped(t) == [kind |-> "stopped", turn |-> t]

LEMMA EndSays ==
  ASSUME TypeOK, NEW t \in Turns, End(t)
  PROVE  /\ toClient' \in Seq(Note \cup Reply)
         /\ \E kind \in {"completed", "failed"} :
              /\ Append(toClient, Ended(t, kind)) \in Seq(Note \cup Reply)
              /\ \/ toClient' = Append(toClient, Ended(t, kind))
                 \/ toClient' = Append(Append(toClient, Ended(t, kind)), Stopped(t))
  <1>1. PICK kind \in {"completed", "failed"} :
          toClient' = (toClient \o <<[kind |-> kind, turn |-> t]>>) \o
            (IF t \in parked THEN <<[kind |-> "stopped", turn |-> t]>> ELSE <<>>)
    BY DEF End
  <1> DEFINE one == Append(toClient, Ended(t, kind))
  <1>2. Ended(t, kind) \in Note \cup Reply /\ Stopped(t) \in Note \cup Reply
    BY MessageFacts DEF Notes, Ended, Stopped
  <1>3. toClient \in Seq(Note \cup Reply)
    BY DEF TypeOK
  <1>4. toClient \o <<Ended(t, kind)>> = one /\ one \in Seq(Note \cup Reply)
    BY <1>2, <1>3, AppendIsConcat, AppendProperties
  <1>5. toClient' = one \o (IF t \in parked THEN <<Stopped(t)>> ELSE <<>>)
    BY <1>1, <1>4 DEF Ended, Stopped
  <1> HIDE DEF one
  <1>6. one \o <<Stopped(t)>> = Append(one, Stopped(t)) /\ one \o <<>> = one
    BY <1>2, <1>4, AppendIsConcat, ConcatEmptySeq
  <1>7. toClient' = one \/ toClient' = Append(one, Stopped(t))
    BY <1>5, <1>6
  <1>8. one \in Seq(Note \cup Reply) /\ Append(one, Stopped(t)) \in Seq(Note \cup Reply)
    BY <1>2, <1>4, AppendProperties
  <1> QED
    BY <1>7, <1>8 DEF one

\* RunTurn returns.
LEMMA ReturnIsTyped ==
  ASSUME TypeOK, NEW t \in Turns, NEW how \in Outcomes, Return(t, how)
  PROVE  /\ pc' \in [Turns -> {"idle", "locking", "locked", "subscribed", "starting", "grace",
                               "recheck", "draining", "interrupting", "returned"}]
         /\ outcome' \in [Turns -> Outcomes]
         /\ holder' \in Turns \cup {NoTurn} /\ sub' \in {NoTurn, holder'}
         /\ inbox' \in Seq(Note) /\ final' \in Turns \cup {NoTurn}
  BY DEF TypeOK, Return

\* The types are kept.
LEMMA TypeStep == TypeOK /\ LockFits /\ [Next]_vars => TypeOK'
  <1> SUFFICES ASSUME TypeOK, LockFits, [Next]_vars PROVE TypeOK'
    OBVIOUS
  <1> USE DEF TypeOK
  <1>1. ASSUME NEW t \in Turns, NEW th \in known \cup {NoThread}, Call(t, th) PROVE TypeOK'
    BY <1>1 DEF Call, starter, server
  <1>2. ASSUME NEW t \in Turns, Cancel(t) PROVE TypeOK'
    BY <1>2 DEF Cancel, starter, server
  <1>3. ASSUME NEW t \in Turns, Lock(t) PROVE TypeOK'
    BY <1>3 DEF Lock, starter, server
  <1>4. ASSUME NEW t \in Turns, StartThread(t) PROVE TypeOK'
    <2>1. CASE Return(t, "notStarted") /\ UNCHANGED thread
      BY <1>4, <2>1, ReturnIsTyped DEF StartThread, starter, server, Outcomes
    <2>2. CASE /\ thread' = [thread EXCEPT ![t] = t]
               /\ UNCHANGED <<pc, outcome, holder, sub, inbox, final>>
      BY <1>4, <2>2, MessageFacts DEF StartThread, starter, server
    <2> QED
      BY <1>4, <2>1, <2>2 DEF StartThread
  <1>5. ASSUME NEW t \in Turns, Subscribe(t) PROVE TypeOK'
    <2>1. holder = t
      BY <1>5 DEF Subscribe, LockFits, Held
    <2> QED
      BY <1>5, <2>1, EmptySeq DEF Subscribe, starter, server
  <1>6. ASSUME NEW t \in Turns, SendStart(t) PROVE TypeOK'
    <2>1. CASE t \in canceled
      BY <1>6, <2>1, ReturnIsTyped DEF SendStart, starter, server, Outcomes
    <2>2. CASE t \notin canceled
      BY <1>6, <2>2, SendIsTyped DEF SendStart, starter, server
    <2> QED
      BY <2>1, <2>2
  <1>7. ASSUME NEW t \in Turns, AwaitStart(t) PROVE TypeOK'
    <2>1. CASE Return(t, "refused")
      BY <1>7, <2>1, ReturnIsTyped DEF AwaitStart, starter, server, Outcomes
    <2>2. CASE /\ \E place \in {"draining", "grace"} : pc' = [pc EXCEPT ![t] = place]
               /\ UNCHANGED <<outcome, holder, sub, inbox, final>>
      BY <1>7, <2>2 DEF AwaitStart, starter, server
    <2> QED
      BY <1>7, <2>1, <2>2 DEF AwaitStart
  <1>8. ASSUME NEW t \in Turns, StopStarted(t)
        PROVE  /\ toServer' \in Seq(Message) /\ interrupts' \in [Turns -> Nat]
               /\ pc' \in [Turns -> {"idle", "locking", "locked", "subscribed", "starting",
                              "grace", "recheck", "draining", "interrupting", "returned"}]
               /\ outcome' \in [Turns -> Outcomes]
               /\ holder' \in Turns \cup {NoTurn} /\ sub' \in {NoTurn, holder'}
               /\ inbox' \in Seq(Note) /\ final' \in Turns \cup {NoTurn}
    <2>1. CASE Interrupt(t) /\ pc' = [pc EXCEPT ![t] = "interrupting"]
               /\ UNCHANGED <<outcome, holder, sub, inbox, final>>
      BY <2>1, SendIsTyped DEF Interrupt
    <2>2. CASE Return(t, "refused") /\ UNCHANGED <<toServer, interrupts>>
      BY <2>2, ReturnIsTyped DEF Outcomes
    <2> QED
      BY <1>8, <2>1, <2>2 DEF StopStarted
  <1>9. ASSUME NEW t \in Turns, AwaitGrace(t) PROVE TypeOK'
    <2>1. CASE StopStarted(t) /\ UNCHANGED abandoned
      BY <1>8, <1>9, <2>1 DEF AwaitGrace, server
    <2>2. CASE /\ abandoned' = abandoned \cup {t} /\ pc' = [pc EXCEPT ![t] = "recheck"]
               /\ UNCHANGED <<outcome, holder, sub, inbox, final, toServer, interrupts>>
      BY <1>9, <2>2 DEF AwaitGrace, server
    <2> QED
      BY <1>9, <2>1, <2>2 DEF AwaitGrace
  <1>10. ASSUME NEW t \in Turns, Recheck(t) PROVE TypeOK'
    <2>1. CASE StopStarted(t)
      BY <1>8, <1>10, <2>1 DEF Recheck, server
    <2>2. CASE Return(t, "abandoned") /\ UNCHANGED <<toServer, interrupts>>
      BY <1>10, <2>2, ReturnIsTyped DEF Recheck, server, Outcomes
    <2> QED
      BY <1>10, <2>1, <2>2 DEF Recheck
  <1>11. ASSUME NEW t \in Turns, ReadNote(t) PROVE TypeOK'
    <2> DEFINE m == Head(inbox)
    <2>1. /\ inbox # <<>> /\ m \in Note /\ Tail(inbox) \in Seq(Note)
          /\ thread[t] # NoThread /\ pc[t] = "draining"
      BY <1>11, HeadTailProperties DEF ReadNote, LockFits, Subscribed
    <2>2. CASE /\ inbox' = Tail(inbox)
               /\ final' = IF m.kind = "text" /\ thread[m.turn] = thread[t] THEN m.turn
                           ELSE final
               /\ UNCHANGED <<pc, outcome, holder, sub, text, known>>
      <3>1. m.turn \in Turns
        BY <2>1, MessageFacts
      <3> QED
        BY <1>11, <2>1, <2>2, <3>1 DEF ReadNote, starter, server
    <2>3. CASE /\ Return(t, "answered") /\ text' = [text EXCEPT ![t] = final]
               /\ known' = known \cup {thread[t]}
      BY <1>11, <2>1, <2>3, ReturnIsTyped DEF ReadNote, starter, server, Outcomes
    <2>4. CASE Return(t, "failed") /\ UNCHANGED <<text, known>>
      BY <1>11, <2>4, ReturnIsTyped DEF ReadNote, starter, server, Outcomes
    <2> QED
      BY <1>11, <2>2, <2>3, <2>4 DEF ReadNote
  <1>12. ASSUME NEW t \in Turns, GiveUp(t) PROVE TypeOK'
    BY <1>12, SendIsTyped DEF GiveUp, Interrupt, server
  <1>13. ASSUME NEW t \in Turns, AwaitStop(t) PROVE TypeOK'
    <2>1. PICK how \in {"stopped", "unconfirmed"} : Return(t, how)
      BY <1>13 DEF AwaitStop
    <2> QED
      BY <1>13, <2>1, ReturnIsTyped DEF AwaitStop, starter, server, Outcomes
  <1>14. ASSUME NEW t \in Turns, Land(t) PROVE TypeOK'
    <2>1. toServer' \in Seq(Message) /\ interrupts' \in [Turns -> Nat]
      BY SMTT(30), <1>14, SendIsTyped DEF Land, Interrupt
    <2>2. /\ call' \in [Turns -> {"none", "pending", "acked", "refused", "over"}]
          /\ done' \in [Turns -> {"empty", "acked", "refused"}]
      BY <1>14 DEF Land
    <2> QED
      BY <1>14, <2>1, <2>2 DEF Land, caller, server
  <1>15. CASE Deliver
    <2> DEFINE m == Head(toClient)
    <2>1. m \in Note \cup Reply /\ Tail(toClient) \in Seq(Note \cup Reply)
      BY <1>15, HeadTailProperties DEF Deliver
    <2>2. m.turn \in Turns /\ (m.kind \in Notes => m \in Note)
      BY <2>1, MessageFacts
    <2>3. inbox' \in Seq(Note)
      BY <1>15, <2>2, AppendProperties DEF Deliver
    <2>4. call' \in [Turns -> {"none", "pending", "acked", "refused", "over"}]
      BY <1>15 DEF Deliver
    <2> QED
      BY <1>15, <2>1, <2>2, <2>3, <2>4 DEF Deliver, server
  <1>16. CASE ReadStart
    <2> DEFINE t == Head(toServer).turn
    <2>1. Tail(toServer) \in Seq(Message) /\ t \in Turns
      BY <1>16, HeadTailProperties, MessageFacts DEF ReadStart
    <2>2. toClient' \in Seq(Note \cup Reply)
      BY <1>16, <2>1, EmitIsTyped DEF ReadStart
    <2> QED
      BY <1>16, <2>1, <2>2 DEF ReadStart, caller, starter
  <1>17. CASE ReadInterrupt
    <2> DEFINE t == Head(toServer).turn
    <2>1. Tail(toServer) \in Seq(Message) /\ t \in Turns
      BY <1>17, HeadTailProperties, MessageFacts DEF ReadInterrupt
    <2>2. toClient' \in Seq(Note \cup Reply)
      BY <1>17, <2>1, EmitIsTyped DEF ReadInterrupt
    <2> QED
      BY <1>17, <2>1, <2>2 DEF ReadInterrupt, caller, starter
  <1>18. ASSUME NEW t \in Turns, NEW k \in {"text", "retry", "fatal"}, Speak(t, k)
         PROVE  TypeOK'
    <2>1. toClient' \in Seq(Note \cup Reply)
      BY <1>18, EmitIsTyped DEF Speak, Notes
    <2>2. /\ srv' \in [Turns -> {"none", "running", "failing", "ended"}]
          /\ said' \in [Turns -> SUBSET Notes]
      BY <1>18 DEF Speak, Notes
    <2> QED
      BY <1>18, <2>1, <2>2 DEF Speak, caller, starter
  <1>19. ASSUME NEW t \in Turns, End(t) PROVE TypeOK'
    <2>1. toClient' \in Seq(Note \cup Reply)
      BY <1>19, EndSays
    <2> QED
      BY <1>19, <2>1 DEF End, caller, starter
  <1>20. CASE UNCHANGED vars
    BY <1>20 DEF vars, caller, starter, server
  <1> QED
    BY <1>1, <1>2, <1>3, <1>4, <1>5, <1>6, <1>7, <1>9, <1>10, <1>11, <1>12, <1>13, <1>14,
       <1>15, <1>16, <1>17, <1>18, <1>19, <1>20 DEF Next, Caller, Server
-----------------------------------------------------------------------------
\* Whoever has the lock goes on within it or gives it back.
GoesOn(t, place) == /\ pc' = [pc EXCEPT ![t] = place]
                    /\ UNCHANGED <<holder, sub, inbox, final, outcome, thread>>

LEMMA HolderSteps ==
  ASSUME NEW t \in Turns,
         \/ SendStart(t) \/ AwaitStart(t) \/ AwaitGrace(t) \/ Recheck(t)
         \/ GiveUp(t) \/ AwaitStop(t)
  PROVE  /\ pc[t] \in Subscribed
         /\ UNCHANGED <<thread, shadowed, text, known>>
         /\ \/ \E place \in Subscribed \ {"subscribed"} : GoesOn(t, place)
            \/ \E how \in {"notStarted", "refused", "abandoned", "stopped", "unconfirmed"} :
                 /\ Return(t, how)
                 /\ how = "refused" => done[t] = "refused"
  <1> USE DEF GoesOn, Subscribed
  <1>1. CASE SendStart(t)
    BY <1>1 DEF SendStart
  <1>2. CASE AwaitStart(t)
    BY <1>2 DEF AwaitStart
  <1>3. CASE AwaitGrace(t)
    BY <1>3 DEF AwaitGrace, StopStarted
  <1>4. CASE Recheck(t)
    BY <1>4 DEF Recheck, StopStarted
  <1>5. CASE GiveUp(t)
    BY <1>5 DEF GiveUp
  <1>6. CASE AwaitStop(t)
    BY <1>6 DEF AwaitStop
  <1> QED
    BY <1>1, <1>2, <1>3, <1>4, <1>5, <1>6

LEMMA LockStep == TypeOK /\ LockFits /\ [Next]_vars => LockFits'
  <1> SUFFICES ASSUME TypeOK, LockFits, [Next]_vars PROVE LockFits'
    OBVIOUS
  <1>1. /\ DOMAIN pc = Turns /\ DOMAIN thread = Turns
        /\ pc \in [Turns -> {"idle", "locking", "locked", "subscribed", "starting", "grace",
                             "recheck", "draining", "interrupting", "returned"}]
        /\ NoTurn \notin Turns /\ NoThread \notin Threads /\ Turns \subseteq Threads
    BY MessageFacts DEF TypeOK
  <1>2. /\ \A t \in Turns : pc[t] \in Held <=> holder = t
        /\ \A t \in Turns : pc[t] \in Subscribed => sub = t /\ thread[t] # NoThread
        /\ sub # NoTurn => pc[sub] \in Subscribed
        /\ sub \in {NoTurn, holder} /\ holder \in Turns \cup {NoTurn}
    BY DEF LockFits, TypeOK
  <1>3. CASE UNCHANGED <<pc, holder, sub, thread>>
    BY <1>2, <1>3 DEF LockFits
  <1>4. ASSUME NEW t \in Turns, NEW how, pc[t] \in Held, Return(t, how), UNCHANGED thread
        PROVE  LockFits'
    BY <1>1, <1>2, <1>4 DEF LockFits, Return, Held, Subscribed
  <1>5. ASSUME NEW t \in Turns, NEW place \in Subscribed, pc[t] \in Subscribed,
               GoesOn(t, place)
        PROVE  LockFits'
    BY <1>1, <1>2, <1>5 DEF LockFits, GoesOn, Held, Subscribed
  <1>6. ASSUME NEW t \in Turns, NEW th \in known \cup {NoThread}, Call(t, th) PROVE LockFits'
    BY <1>1, <1>2, <1>6 DEF Call, LockFits, Held, Subscribed
  <1>7. ASSUME NEW t \in Turns, Lock(t) PROVE LockFits'
    BY <1>1, <1>2, <1>7 DEF Lock, LockFits, Held, Subscribed
  <1>8. ASSUME NEW t \in Turns, StartThread(t) PROVE LockFits'
    <2>1. CASE Return(t, "notStarted") /\ UNCHANGED thread
      BY <1>4, <1>8, <2>1 DEF StartThread, Held
    <2>2. CASE /\ thread' = [thread EXCEPT ![t] = t]
               /\ UNCHANGED <<pc, outcome, holder, sub, inbox, final>>
      <3>1. t # NoThread
        BY <1>1
      <3> QED
        BY <1>1, <1>2, <2>2, <3>1 DEF LockFits
    <2> QED
      BY <1>8, <2>1, <2>2 DEF StartThread
  <1>9. ASSUME NEW t \in Turns, Subscribe(t) PROVE LockFits'
    BY <1>1, <1>2, <1>9 DEF Subscribe, LockFits, Held, Subscribed
  <1>10. ASSUME NEW t \in Turns, ReadNote(t) PROVE LockFits'
    <2>1. pc[t] \in Held /\ UNCHANGED thread
      BY <1>10 DEF ReadNote, Held, Subscribed
    <2>2. \/ Return(t, "answered") \/ Return(t, "failed")
          \/ UNCHANGED <<pc, holder, sub>>
      BY <1>10 DEF ReadNote
    <2> QED
      BY <1>3, <1>4, <2>1, <2>2
  <1>11. ASSUME NEW t \in Turns,
                \/ SendStart(t) \/ AwaitStart(t) \/ AwaitGrace(t) \/ Recheck(t)
                \/ GiveUp(t) \/ AwaitStop(t)
         PROVE  LockFits'
    BY <1>4, <1>5, <1>11, HolderSteps DEF Held
  <1>12. ASSUME NEW t \in Turns, Cancel(t) \/ Land(t) PROVE LockFits'
    BY <1>3, <1>12 DEF Cancel, Land, caller
  <1>13. CASE Deliver \/ Server
    BY <1>3, <1>13 DEF Deliver, Server, ReadStart, ReadInterrupt, End, Speak, caller
  <1>14. CASE UNCHANGED vars
    BY <1>3, <1>14 DEF vars, caller
  <1> QED
    BY <1>6, <1>7, <1>8, <1>9, <1>10, <1>11, <1>12, <1>13, <1>14 DEF Next, Caller
-----------------------------------------------------------------------------
\* An interrupt starts nothing.
StartsStay == /\ OneOf(toServer, {"start"}) => OneOf(toServer', {"start"})
              /\ \A u \in Turns : Mentions(toServer', {"start"}, u) <=>
                                    Mentions(toServer, {"start"}, u)
              /\ \A u, w \in Turns : u # w /\ Ahead(toServer, u, w) => Ahead(toServer', u, w)

LEMMA InterruptStartsNothing ==
  ASSUME TypeOK, NEW t \in Turns, Interrupt(t) \/ UNCHANGED toServer
  PROVE  StartsStay
  <1>1. CASE UNCHANGED toServer
    BY <1>1 DEF StartsStay
  <1>2. CASE Interrupt(t)
    <2> DEFINE e == [kind |-> "interrupt", turn |-> t]
    <2>1. /\ toServer \in Seq(Message) /\ e \in Message /\ e.kind \notin {"start"}
          /\ toServer' = Append(toServer, e)
      BY <1>2, MessageFacts DEF TypeOK, Interrupt, Send
    <2> HIDE DEF e
    <2> QED
      BY <2>1, OneOfAppend, MentionsOfAppend, AheadOfAppend DEF StartsStay
  <1> QED
    BY <1>1, <1>2

\* The callers and their goroutines, but for SendStart, start nothing.
LEMMA CallersStartNothing ==
  ASSUME TypeOK, NEW t \in Turns,
         \/ AwaitStart(t) \/ AwaitGrace(t) \/ Recheck(t) \/ GiveUp(t) \/ AwaitStop(t)
         \/ Land(t)
  PROVE  StartsStay
  BY InterruptStartsNothing
     DEF AwaitStart, AwaitGrace, Recheck, StopStarted, GiveUp, AwaitStop, Land

\* What a turn notifies is no answer to its start.
AnswersStay(t) ==
  /\ OneOf(toClient, Answers) => OneOf(toClient', Answers)
  /\ \A u \in Turns : /\ Mentions(toClient', Answers, u) <=> Mentions(toClient, Answers, u)
                      /\ Mentions(toClient', {"refusal"}, u) <=>
                           Mentions(toClient, {"refusal"}, u)
                      /\ Mentions(toClient', Notes, u) <=>
                           Mentions(toClient, Notes, u) \/ u = t

LEMMA SpeechAnswersNothing ==
  ASSUME TypeOK, NEW t \in Turns,
         End(t) \/ \E k \in {"text", "retry", "fatal"} : Speak(t, k)
  PROVE  AnswersStay(t)
  <1>1. toClient \in Seq(Note \cup Reply)
    BY DEF TypeOK
  <1>2. ASSUME NEW kind \in Notes, toClient' = Append(toClient, Ended(t, kind))
        PROVE  AnswersStay(t)
    <2> DEFINE e == Ended(t, kind)
    <2>1. /\ e \in Note \cup Reply /\ e.kind \in Notes /\ e.turn = t
          /\ e.kind \notin Answers /\ e.kind \notin {"refusal"}
      BY MessageFacts DEF Ended, Notes, Answers
    <2> HIDE DEF e
    <2>2. toClient' = Append(toClient, e)
      BY <1>2 DEF e
    <2>3. OneOf(toClient, Answers) => OneOf(toClient', Answers)
      BY <1>1, <2>1, <2>2, OneOfAppend
    <2>4. \A kinds, u : Mentions(toClient', kinds, u) <=>
                          Mentions(toClient, kinds, u) \/ (e.kind \in kinds /\ e.turn = u)
      BY <1>1, <2>1, <2>2, MentionsOfAppend
    <2> QED
      BY <2>1, <2>3, <2>4 DEF AnswersStay
  <1>3. ASSUME NEW kind \in Notes, Append(toClient, Ended(t, kind)) \in Seq(Note \cup Reply),
               toClient' = Append(Append(toClient, Ended(t, kind)), Stopped(t))
        PROVE  AnswersStay(t)
    <2> DEFINE e == Ended(t, kind)
               b == Stopped(t)
               one == Append(toClient, e)
    <2>1. /\ e \in Note \cup Reply /\ e.kind \in Notes /\ e.turn = t
          /\ e.kind \notin Answers /\ e.kind \notin {"refusal"}
          /\ b \in Note \cup Reply /\ b.kind \notin Notes \cup Answers
          /\ b.kind \notin {"refusal"}
      BY MessageFacts DEF Ended, Stopped, Notes, Answers
    <2>2. toClient' = Append(one, b) /\ one \in Seq(Note \cup Reply)
      BY <1>3
    <2> HIDE DEF e, b
    <2>3. OneOf(toClient, Answers) => OneOf(one, Answers)
      BY <1>1, <2>1, OneOfAppend
    <2>4. \A kinds, u : Mentions(one, kinds, u) <=>
                          Mentions(toClient, kinds, u) \/ (e.kind \in kinds /\ e.turn = u)
      BY <1>1, <2>1, MentionsOfAppend
    <2> HIDE DEF one
    <2>5. OneOf(one, Answers) => OneOf(toClient', Answers)
      BY <2>1, <2>2, OneOfAppend
    <2>6. \A kinds, u : Mentions(toClient', kinds, u) <=>
                          Mentions(one, kinds, u) \/ (b.kind \in kinds /\ b.turn = u)
      BY <2>1, <2>2, MentionsOfAppend
    <2> QED
      BY <2>1, <2>3, <2>4, <2>5, <2>6 DEF AnswersStay
  <1>4. CASE End(t)
    BY <1>2, <1>3, <1>4, EndSays DEF Notes
  <1>5. ASSUME NEW k \in {"text", "retry", "fatal"}, Speak(t, k) PROVE AnswersStay(t)
    BY <1>2, <1>5 DEF Speak, Emit, Ended, Notes
  <1> QED
    BY <1>4, <1>5

LEMMA AnswerStep == TypeOK /\ OneAnswer /\ (\A t \in Turns : DutyFits(t)) /\ [Next]_vars
                    => OneAnswer'
  <1> SUFFICES ASSUME TypeOK, OneAnswer, \A t \in Turns : DutyFits(t), [Next]_vars
               PROVE  OneAnswer'
    OBVIOUS
  <1>1. /\ toServer \in Seq(Message) /\ toClient \in Seq(Note \cup Reply)
        /\ call \in [Turns -> {"none", "pending", "acked", "refused", "over"}]
        /\ srv \in [Turns -> {"none", "running", "failing", "ended"}]
    BY DEF TypeOK
  <1>2. /\ OneOf(toServer, {"start"}) /\ OneOf(toClient, Answers)
        /\ \A u \in Turns : AnsweredOnce(u)
    BY DEF OneAnswer
  <1>3. CASE UNCHANGED <<toServer, toClient, call, srv>>
    BY <1>2, <1>3 DEF OneAnswer, AnsweredOnce
  <1>4. ASSUME StartsStay, UNCHANGED <<toClient, srv>>,
               \A u \in Turns : call[u] = "pending" => call'[u] = "pending"
        PROVE  OneAnswer'
    BY <1>2, <1>4 DEF OneAnswer, AnsweredOnce, StartsStay
  <1>5. ASSUME NEW t \in Turns,
               Cancel(t) \/ Lock(t) \/ StartThread(t) \/ Subscribe(t) \/ ReadNote(t)
               \/ \E th \in known \cup {NoThread} : Call(t, th)
        PROVE  OneAnswer'
    BY <1>3, <1>5 DEF Cancel, Lock, StartThread, Subscribe, ReadNote, Call, starter, server
  <1>6. ASSUME NEW t \in Turns, SendStart(t) PROVE OneAnswer'
    <2>1. CASE t \in canceled
      BY <1>3, <1>6, <2>1 DEF SendStart, server
    <2>2. CASE t \notin canceled
      <3> DEFINE e == [kind |-> "start", turn |-> t]
      <3>1. /\ e \in Message /\ e.kind = "start" /\ e.turn = t
            /\ toServer' = Append(toServer, e) /\ UNCHANGED <<toClient, srv>>
            /\ call' = [call EXCEPT ![t] = "pending"]
        BY <1>6, <2>2, MessageFacts DEF SendStart, Send, server
      <3>2. call[t] = "none" /\ srv[t] = "none"
        BY <1>6 DEF SendStart, DutyFits, Early
      <3>3. ~Mentions(toServer, {"start"}, t) /\ ~Mentions(toClient, Answers, t)
        BY <1>2, <3>2 DEF AnsweredOnce
      <3> HIDE DEF e
      <3>4. OneOf(toServer', {"start"})
        BY <1>1, <1>2, <3>1, <3>3, OneOfAppend
      <3>5. \A u : Mentions(toServer', {"start"}, u) <=>
                     Mentions(toServer, {"start"}, u) \/ t = u
        BY <1>1, <3>1, MentionsOfAppend
      <3>6. \A u \in Turns : call'[u] = IF u = t THEN "pending" ELSE call[u]
        BY <1>1, <3>1
      <3> QED
        BY <1>2, <3>1, <3>2, <3>3, <3>4, <3>5, <3>6 DEF OneAnswer, AnsweredOnce
    <2> QED
      BY <2>1, <2>2
  <1>7. ASSUME NEW t \in Turns,
               AwaitStart(t) \/ AwaitGrace(t) \/ Recheck(t) \/ GiveUp(t) \/ AwaitStop(t)
        PROVE  OneAnswer'
    <2>1. UNCHANGED <<toClient, srv, call>>
      BY <1>7 DEF AwaitStart, AwaitGrace, Recheck, GiveUp, AwaitStop, starter, server
    <2> QED
      BY <1>4, <1>7, <2>1, CallersStartNothing
  <1>8. ASSUME NEW t \in Turns, Land(t) PROVE OneAnswer'
    <2>1. /\ UNCHANGED <<toClient, srv>> /\ call' = [call EXCEPT ![t] = "over"]
          /\ call[t] # "pending"
      BY <1>8 DEF Land, server
    <2> QED
      BY <1>1, <1>4, <1>8, <2>1, CallersStartNothing
  <1>9. CASE Deliver
    <2> DEFINE m == Head(toClient)
    <2>1. /\ toClient # <<>> /\ toClient' = Tail(toClient) /\ UNCHANGED <<toServer, srv>>
          /\ call' = [call EXCEPT ![m.turn] = CASE m.kind = "ack" -> "acked"
                                                [] m.kind = "refusal" -> "refused"
                                                [] OTHER -> @]
          /\ m.turn \in Turns
      BY <1>9, <1>1, MessageFacts, HeadTailProperties DEF Deliver, server
    <2> HIDE DEF m
    <2>2. OneOf(toClient', Answers) /\ (m.kind \in Answers => ~Mentions(toClient', Answers, m.turn))
      BY <1>1, <1>2, <2>1, OneOfTail DEF m
    <2>3. \A u : Mentions(toClient, Answers, u) <=>
                   Mentions(toClient', Answers, u) \/ (m.kind \in Answers /\ m.turn = u)
      BY <1>1, <2>1, MentionsOfTail DEF m
    <2>4. \A u \in Turns : u # m.turn \/ m.kind \notin Answers => call'[u] = call[u]
      BY <1>1, <2>1 DEF Answers
    <2> QED
      BY <1>2, <2>1, <2>2, <2>3, <2>4 DEF OneAnswer, AnsweredOnce
  <1>10. CASE ReadStart
    <2> DEFINE t == Head(toServer).turn
    <2>1. /\ toServer # <<>> /\ Head(toServer).kind = "start" /\ toServer' = Tail(toServer)
          /\ t \in Turns /\ UNCHANGED call
      BY <1>1, <1>10, MessageFacts, HeadTailProperties DEF ReadStart, starter
    <2>2. PICK kind \in Answers : Emit(kind, t)
      BY <1>10 DEF ReadStart, Answers
    <2> DEFINE e == [kind |-> kind, turn |-> t]
    <2>3. /\ e \in Note \cup Reply /\ toClient' = Append(toClient, e)
          /\ e.kind = kind /\ e.turn = t
      BY <2>1, <2>2, MessageFacts DEF Emit, Answers
    <2>4. \A u \in Turns : u # t => srv'[u] = srv[u]
      BY <1>1, <1>10 DEF ReadStart
    <2> HIDE DEF t, e
    <2>5. OneOf(toServer', {"start"}) /\ ~Mentions(toServer', {"start"}, t)
      BY <1>1, <1>2, <2>1, OneOfTail DEF t
    <2>6. \A u : Mentions(toServer, {"start"}, u) <=>
                   Mentions(toServer', {"start"}, u) \/ t = u
      BY <1>1, <2>1, MentionsOfTail DEF t
    <2>7. ~Mentions(toClient, Answers, t) /\ call[t] = "pending"
      BY <1>2, <2>1, <2>6 DEF AnsweredOnce
    <2>8. OneOf(toClient', Answers)
      BY <1>1, <1>2, <2>3, <2>7, OneOfAppend
    <2>9. \A u : Mentions(toClient', Answers, u) <=> Mentions(toClient, Answers, u) \/ t = u
      BY <1>1, <2>3, MentionsOfAppend
    <2> QED
      BY <1>2, <2>1, <2>4, <2>5, <2>6, <2>7, <2>8, <2>9 DEF OneAnswer, AnsweredOnce
  <1>11. CASE ReadInterrupt
    <2> DEFINE t == Head(toServer).turn
    <2>1. /\ toServer # <<>> /\ Head(toServer).kind = "interrupt" /\ toServer' = Tail(toServer)
          /\ t \in Turns /\ UNCHANGED <<call, srv>>
      BY <1>1, <1>11, MessageFacts, HeadTailProperties DEF ReadInterrupt, starter
    <2> DEFINE e == [kind |-> "stopped", turn |-> t]
    <2>2. /\ e \in Note \cup Reply /\ e.kind \notin Answers
          /\ toClient' = toClient \/ toClient' = Append(toClient, e)
      BY <1>11, <2>1, MessageFacts DEF ReadInterrupt, Emit, Answers
    <2> HIDE DEF t, e
    <2>3. /\ OneOf(toServer', {"start"})
          /\ \A u : Mentions(toServer', {"start"}, u) <=> Mentions(toServer, {"start"}, u)
      BY <1>1, <1>2, <2>1, OneOfTail, MentionsOfTail
    <2>4. /\ OneOf(toClient', Answers)
          /\ \A u : Mentions(toClient', Answers, u) <=> Mentions(toClient, Answers, u)
      <3>1. CASE toClient' = toClient
        BY <1>2, <3>1
      <3>2. CASE toClient' = Append(toClient, e)
        <4>1. OneOf(toClient', Answers)
          BY <1>1, <1>2, <2>2, <3>2, OneOfAppend
        <4>2. \A u : Mentions(toClient', Answers, u) <=> Mentions(toClient, Answers, u)
          BY <1>1, <2>2, <3>2, MentionsOfAppend
        <4> QED
          BY <4>1, <4>2
      <3> QED
        BY <2>2, <3>1, <3>2
    <2> QED
      BY <1>2, <2>1, <2>3, <2>4 DEF OneAnswer, AnsweredOnce
  <1>12. ASSUME NEW t \in Turns,
                End(t) \/ \E k \in {"text", "retry", "fatal"} : Speak(t, k)
         PROVE  OneAnswer'
    <2>1. /\ UNCHANGED <<toServer, call>>
          /\ \A u \in Turns : srv[u] = "none" => srv'[u] = "none"
      BY <1>1, <1>12 DEF End, Speak, Active, starter
    <2>2. AnswersStay(t)
      BY <1>12, SpeechAnswersNothing
    <2> QED
      BY <1>2, <2>1, <2>2 DEF OneAnswer, AnsweredOnce, AnswersStay
  <1>13. CASE UNCHANGED vars
    BY <1>3, <1>13 DEF vars, caller, starter, server
  <1> QED
    BY <1>5, <1>6, <1>7, <1>8, <1>9, <1>10, <1>11, <1>12, <1>13 DEF Next, Caller, Server
-----------------------------------------------------------------------------
\* The duty to interrupt a turn passes on without being done twice.
LEMMA DutyStep == TypeOK /\ LockFits /\ OneAnswer /\ (\A t \in Turns : DutyFits(t)) /\ [Next]_vars
                  => \A t \in Turns : DutyFits(t)'
  <1> SUFFICES ASSUME TypeOK, OneAnswer, LockFits, \A t \in Turns : DutyFits(t), [Next]_vars,
                      NEW u \in Turns
               PROVE  DutyFits(u)'
    OBVIOUS
  <1>1. /\ pc \in [Turns -> {"idle", "locking", "locked", "subscribed", "starting", "grace",
                             "recheck", "draining", "interrupting", "returned"}]
        /\ call \in [Turns -> {"none", "pending", "acked", "refused", "over"}]
        /\ done \in [Turns -> {"empty", "acked", "refused"}] /\ interrupts \in [Turns -> Nat]
        /\ srv \in [Turns -> {"none", "running", "failing", "ended"}]
    BY DEF TypeOK
  <1>2. DutyFits(u)
    OBVIOUS
  <1>3. CASE /\ pc'[u] = pc[u] /\ call'[u] = call[u] /\ done'[u] = done[u]
             /\ interrupts'[u] = interrupts[u] /\ (srv[u] = "none" => srv'[u] = "none")
             /\ u \in abandoned' <=> u \in abandoned
    BY <1>2, <1>3 DEF DutyFits
  <1>4. ASSUME NEW t \in Turns, NEW how, Return(t, how), pc[t] \notin {"idle", "locking"},
               UNCHANGED <<call, done, interrupts, srv, abandoned>>, pc[t] \in Held
        PROVE  DutyFits(u)'
    <2>1. pc' = [pc EXCEPT ![t] = "returned"]
      BY <1>4 DEF Return
    <2> QED
      BY <1>1, <1>2, <1>4, <2>1 DEF DutyFits, Early, Subscribed
  <1>5. ASSUME NEW t \in Turns, StopStarted(t), pc[t] \in {"grace", "recheck"},
               UNCHANGED <<call, done, abandoned, srv>>
        PROVE  DutyFits(u)'
    <2>1. CASE /\ done[t] = "acked" /\ pc' = [pc EXCEPT ![t] = "interrupting"]
               /\ interrupts' = [interrupts EXCEPT ![t] = @ + 1]
      <3>1. call[t] = "over" /\ interrupts[t] = 0
        BY <1>1, <1>5, <2>1 DEF DutyFits
      <3> QED
        BY <1>1, <1>2, <1>5, <2>1, <3>1 DEF DutyFits, Early, Subscribed
    <2>2. CASE Return(t, "refused") /\ UNCHANGED interrupts
      BY <1>4, <1>5, <2>2 DEF Held, Subscribed
    <2> QED
      BY <1>5, <2>1, <2>2 DEF StopStarted, Interrupt
  <1>6. ASSUME NEW t \in Turns, NEW th \in known \cup {NoThread}, Call(t, th)
        PROVE  DutyFits(u)'
    BY <1>1, <1>2, <1>6 DEF Call, starter, server, DutyFits, Early, Subscribed
  <1>7. ASSUME NEW t \in Turns, Cancel(t) PROVE DutyFits(u)'
    BY <1>3, <1>7 DEF Cancel, starter, server
  <1>8. ASSUME NEW t \in Turns, Lock(t) \/ Subscribe(t) PROVE DutyFits(u)'
    BY <1>1, <1>2, <1>8 DEF Lock, Subscribe, starter, server, DutyFits, Early, Subscribed
  <1>9. ASSUME NEW t \in Turns, StartThread(t) PROVE DutyFits(u)'
    <2>1. CASE Return(t, "notStarted")
      BY <1>4, <1>9, <2>1 DEF StartThread, starter, server, Held
    <2>2. CASE UNCHANGED pc
      BY <1>3, <1>9, <2>2 DEF StartThread, starter, server
    <2> QED
      BY <1>9, <2>1, <2>2 DEF StartThread
  <1>10. ASSUME NEW t \in Turns, SendStart(t) PROVE DutyFits(u)'
    <2>1. CASE t \in canceled
      BY <1>4, <1>10, <2>1 DEF SendStart, server, Held, Subscribed
    <2>2. CASE t \notin canceled
      <3>1. /\ pc[t] = "subscribed" /\ pc' = [pc EXCEPT ![t] = "starting"]
            /\ call' = [call EXCEPT ![t] = "pending"]
            /\ UNCHANGED <<done, abandoned, interrupts, srv>>
        BY <1>10, <2>2 DEF SendStart, server
      <3>2. call[t] = "none" /\ done[t] = "empty" /\ t \notin abandoned /\ interrupts[t] = 0
        BY <3>1 DEF DutyFits, Early, Subscribed
      <3> QED
        BY <1>1, <1>2, <3>1, <3>2 DEF DutyFits, Early, Subscribed
    <2> QED
      BY <2>1, <2>2
  <1>11. ASSUME NEW t \in Turns, AwaitStart(t) PROVE DutyFits(u)'
    <2>1. /\ pc[t] = "starting" /\ UNCHANGED <<call, done, abandoned, interrupts, srv>>
          /\ t \notin abandoned
      BY <1>11 DEF AwaitStart, starter, server, DutyFits
    <2>2. CASE Return(t, "refused")
      BY <1>4, <2>1, <2>2 DEF Held, Subscribed
    <2>3. CASE done[t] = "acked" /\ pc' = [pc EXCEPT ![t] = "draining"]
      BY <1>1, <1>2, <2>1, <2>3 DEF DutyFits, Early, Subscribed
    <2>4. CASE pc' = [pc EXCEPT ![t] = "grace"]
      BY <1>1, <1>2, <2>1, <2>4 DEF DutyFits, Early, Subscribed
    <2> QED
      BY <1>11, <2>2, <2>3, <2>4 DEF AwaitStart
  <1>12. ASSUME NEW t \in Turns, AwaitGrace(t) PROVE DutyFits(u)'
    <2>1. pc[t] = "grace" /\ UNCHANGED <<call, done, srv>>
      BY <1>12 DEF AwaitGrace, server
    <2>2. CASE StopStarted(t) /\ UNCHANGED abandoned
      BY <1>5, <2>1, <2>2
    <2>3. CASE /\ abandoned' = abandoned \cup {t} /\ pc' = [pc EXCEPT ![t] = "recheck"]
               /\ UNCHANGED interrupts
      <3>1. call[t] # "none"
        BY <2>1 DEF DutyFits, Subscribed
      <3> QED
        BY <1>1, <1>2, <2>1, <2>3, <3>1 DEF DutyFits, Early, Subscribed
    <2> QED
      BY <1>12, <2>2, <2>3 DEF AwaitGrace
  <1>13. ASSUME NEW t \in Turns, Recheck(t) PROVE DutyFits(u)'
    <2>1. pc[t] = "recheck" /\ UNCHANGED <<call, done, abandoned, srv>>
      BY <1>13 DEF Recheck, server
    <2>2. CASE StopStarted(t)
      BY <1>5, <2>1, <2>2
    <2>3. CASE Return(t, "abandoned") /\ UNCHANGED interrupts
      BY <1>4, <2>1, <2>3 DEF Held, Subscribed
    <2> QED
      BY <1>13, <2>2, <2>3 DEF Recheck
  <1>14. ASSUME NEW t \in Turns, ReadNote(t) PROVE DutyFits(u)'
    <2>1. pc[t] = "draining" /\ UNCHANGED <<call, done, abandoned, interrupts, srv>>
      BY <1>14 DEF ReadNote, starter, server
    <2>2. CASE Return(t, "answered") \/ Return(t, "failed")
      BY <1>4, <2>1, <2>2 DEF Held, Subscribed
    <2>3. CASE UNCHANGED pc
      BY <1>3, <2>1, <2>3
    <2> QED
      BY <1>14, <2>2, <2>3 DEF ReadNote
  <1>15. ASSUME NEW t \in Turns, GiveUp(t) PROVE DutyFits(u)'
    <2>1. /\ pc[t] = "draining" /\ pc' = [pc EXCEPT ![t] = "interrupting"]
          /\ UNCHANGED <<call, done, abandoned, srv>>
          /\ interrupts' = [interrupts EXCEPT ![t] = @ + 1]
      BY <1>15 DEF GiveUp, Interrupt, server
    <2>2. done[t] = "acked" /\ call[t] = "over" /\ interrupts[t] = 0
      BY <1>1, <2>1 DEF DutyFits
    <2> QED
      BY <1>1, <1>2, <2>1, <2>2 DEF DutyFits, Early, Subscribed
  <1>16. ASSUME NEW t \in Turns, AwaitStop(t) PROVE DutyFits(u)'
    <2>1. pc[t] = "interrupting" /\ UNCHANGED <<call, done, abandoned, interrupts, srv>>
      BY <1>16 DEF AwaitStop, starter, server
    <2>2. Return(t, "stopped") \/ Return(t, "unconfirmed")
      BY <1>16 DEF AwaitStop
    <2> QED
      BY <1>4, <2>1, <2>2 DEF Held, Subscribed
  <1>17. ASSUME NEW t \in Turns, Land(t) PROVE DutyFits(u)'
    <2>1. /\ call[t] \in {"acked", "refused"} /\ call' = [call EXCEPT ![t] = "over"]
          /\ UNCHANGED <<pc, abandoned, srv>>
      BY <1>17 DEF Land, caller, server
    <2>2. done[t] = "empty" /\ interrupts[t] = 0 /\ pc[t] \notin Early
      BY <1>1, <2>1 DEF DutyFits
    <2>3. CASE t \notin abandoned
      <3>1. done' = [done EXCEPT ![t] = call[t]] /\ UNCHANGED interrupts
        BY <1>17, <2>3 DEF Land
      <3> QED
        BY <1>1, <1>2, <2>1, <2>2, <2>3, <3>1 DEF DutyFits
    <2>4. CASE t \in abandoned
      <3>1. /\ UNCHANGED done
            /\ \/ UNCHANGED interrupts
               \/ interrupts' = [interrupts EXCEPT ![t] = @ + 1]
        BY <1>17, <2>4 DEF Land, Interrupt
      <3> QED
        BY <1>1, <1>2, <2>1, <2>2, <2>4, <3>1 DEF DutyFits
    <2> QED
      BY <2>3, <2>4
  <1>18. CASE Deliver
    <2> DEFINE m == Head(toClient)
    <2>1. /\ m.turn \in Turns /\ m \in Elements(toClient)
          /\ UNCHANGED <<pc, done, abandoned, interrupts, srv>>
          /\ call' = [call EXCEPT ![m.turn] = CASE m.kind = "ack" -> "acked"
                                                [] m.kind = "refusal" -> "refused"
                                                [] OTHER -> @]
      BY <1>18, MessageFacts, HeadTailProperties, ElementsOfTail DEF Deliver, server, TypeOK
    <2> HIDE DEF m
    <2>2. CASE m.kind \in Answers /\ m.turn = u
      <3>1. call[u] = "pending"
        BY <2>1, <2>2 DEF OneAnswer, AnsweredOnce, Mentions
      <3>2. call'[u] \in {"acked", "refused"}
        BY <1>1, <2>1, <2>2 DEF Answers
      <3> QED
        BY <1>2, <2>1, <3>1, <3>2 DEF DutyFits, Early, Subscribed
    <2>3. CASE ~(m.kind \in Answers /\ m.turn = u)
      <3>1. call'[u] = call[u]
        BY <1>1, <2>1, <2>3 DEF Answers
      <3> QED
        BY <1>3, <2>1, <3>1
    <2> QED
      BY <2>2, <2>3
  <1>19. CASE ReadStart
    <2> DEFINE t == Head(toServer).turn
    <2>1. /\ UNCHANGED <<pc, call, done, abandoned, interrupts>>
          /\ srv' = srv \/ srv' = [srv EXCEPT ![t] = "running"]
      BY <1>19 DEF ReadStart, caller, starter
    <2>2. Mentions(toServer, {"start"}, t) /\ t \in Turns
      <3>1. toServer \in Seq(Message) /\ toServer # <<>> /\ Head(toServer).kind = "start"
        BY <1>19 DEF ReadStart, TypeOK
      <3>2. Head(toServer) \in Message
        BY <3>1, HeadTailProperties
      <3>3. Mentions(toServer, {"start"}, t)
        BY <3>1, MentionsOfTail
      <3> QED
        BY <3>2, <3>3, MessageFacts
    <2>3. call[t] = "pending"
      BY <2>2 DEF OneAnswer, AnsweredOnce
    <2> HIDE DEF t
    <2> QED
      BY <1>1, <1>2, <1>3, <2>1, <2>2, <2>3 DEF DutyFits
  <1>20. CASE ReadInterrupt
    BY <1>3, <1>20 DEF ReadInterrupt, caller, starter
  <1>21. ASSUME NEW t \in Turns,
                End(t) \/ \E k \in {"text", "retry", "fatal"} : Speak(t, k)
         PROVE  DutyFits(u)'
    <2>1. srv[u] = "none" => srv'[u] = "none"
      BY <1>1, <1>21 DEF End, Speak, Active
    <2> QED
      BY <1>3, <1>21, <2>1 DEF End, Speak, caller, starter
  <1>22. CASE UNCHANGED vars
    BY <1>3, <1>22 DEF vars, caller, starter, server
  <1> QED
    BY <1>6, <1>7, <1>8, <1>9, <1>10, <1>11, <1>12, <1>13, <1>14, <1>15, <1>16, <1>17,
       <1>18, <1>19, <1>20, <1>21, <1>22 DEF Next, Caller, Server
-----------------------------------------------------------------------------
\* A turn only goes forward at the server.
Forward(u) ==
  /\ srv[u] # "none" => srv'[u] # "none"
  /\ srv[u] = "ended" => srv'[u] = "ended"
  /\ srv[u] = "failing" => srv'[u] \in {"failing", "ended"}

LEMMA GoesForward ==
  ASSUME TypeOK, OneAnswer, [Next]_vars
  PROVE  \A u \in Turns : Forward(u)
  <1>1. srv \in [Turns -> {"none", "running", "failing", "ended"}]
    BY DEF TypeOK
  <1>2. CASE UNCHANGED srv
    BY <1>2 DEF Forward
  <1>3. CASE ReadStart
    <2>1. toServer \in Seq(Message) /\ toServer # <<>> /\ Head(toServer).kind = "start"
      BY <1>3 DEF ReadStart, TypeOK
    <2>2. Head(toServer).turn \in Turns
      BY <2>1, HeadTailProperties, MessageFacts
    <2>3. srv[Head(toServer).turn] = "none"
      BY <2>1, <2>2, MentionsOfTail DEF OneAnswer, AnsweredOnce
    <2>4. srv' = srv \/ srv' = [srv EXCEPT ![Head(toServer).turn] = "running"]
      BY <1>3 DEF ReadStart
    <2> QED
      BY <1>1, <2>2, <2>3, <2>4 DEF Forward
  <1>4. ASSUME NEW t \in Turns,
               End(t) \/ \E k \in {"text", "retry", "fatal"} : Speak(t, k)
        PROVE  \A u \in Turns : Forward(u)
    BY <1>1, <1>4 DEF End, Speak, Active, Forward
  <1>5. ASSUME NEW t \in Turns,
               \/ Cancel(t) \/ Caller(t) \/ Land(t)
               \/ \E th \in known \cup {NoThread} : Call(t, th)
        PROVE  UNCHANGED srv
    BY <1>5 DEF Cancel, Caller, Lock, StartThread, Subscribe, SendStart, AwaitStart, AwaitGrace,
                Recheck, ReadNote, GiveUp, AwaitStop, Land, Call, server
  <1>6. Deliver \/ ReadInterrupt \/ UNCHANGED vars => UNCHANGED srv
    BY DEF Deliver, ReadInterrupt, vars, server
  <1> QED
    BY <1>2, <1>3, <1>4, <1>5, <1>6 DEF Next, Server

LEMMA StaysTrue ==
  ASSUME TypeOK, OneAnswer, [Next]_vars, NEW m \in Note \cup Reply, True(m)
  PROVE  True(m)'
  BY GoesForward, MessageFacts DEF True, Forward

\* Streams that grow by what is true stay truthful.
LEMMA TruthfulStays ==
  ASSUME TypeOK, OneAnswer, [Next]_vars, NEW s \in Seq(Note \cup Reply),
         \A m \in Elements(s) : True(m)
  PROVE  \A m \in Elements(s) : True(m)'
  <1>1. \A i \in DOMAIN s : s[i] \in Note \cup Reply
    BY LenProperties, ElementOfSeq
  <1> QED
    BY <1>1, StaysTrue DEF Elements

LEMMA TruthStep == TypeOK /\ OneAnswer /\ AllTrue /\ [Next]_vars => AllTrue'
  <1> SUFFICES ASSUME TypeOK, OneAnswer, AllTrue, [Next]_vars PROVE AllTrue'
    OBVIOUS
  <1>1. /\ toClient \in Seq(Note \cup Reply) /\ inbox \in Seq(Note)
        /\ inbox \in Seq(Note \cup Reply)
        /\ srv \in [Turns -> {"none", "running", "failing", "ended"}]
    BY SeqMonotonic DEF TypeOK
  <1>2. /\ \A m \in Elements(toClient) : True(m)'
        /\ \A m \in Elements(inbox) : True(m)'
    BY <1>1, TruthfulStays DEF AllTrue
  <1>3. CASE /\ \A m \in Elements(toClient') : m \in Elements(toClient) \/ True(m)'
             /\ \A m \in Elements(inbox') :
                  m \in Elements(inbox) \/ m \in Elements(toClient)
    BY <1>2, <1>3 DEF AllTrue, True
  <1>4. Elements(<<>>) = {}
    BY DEF Elements
  <1>5. ASSUME NEW t \in Turns, NEW how, Return(t, how), UNCHANGED toClient PROVE AllTrue'
    BY <1>3, <1>4, <1>5 DEF Return
  <1>6. CASE UNCHANGED <<toClient, inbox>>
    BY <1>3, <1>6
  <1>7. ASSUME NEW t \in Turns,
               \/ Cancel(t) \/ Lock(t) \/ GiveUp(t) \/ Land(t)
               \/ \E th \in known \cup {NoThread} : Call(t, th)
        PROVE  AllTrue'
    BY <1>6, <1>7 DEF Cancel, Lock, GiveUp, Land, Call, caller
  <1>8. ASSUME NEW t \in Turns,
               SendStart(t) \/ AwaitStart(t) \/ AwaitGrace(t) \/ Recheck(t) \/ AwaitStop(t)
        PROVE  AllTrue'
    <2>1. UNCHANGED toClient
      BY <1>8 DEF SendStart, AwaitStart, AwaitGrace, Recheck, AwaitStop
    <2> QED
      BY <1>5, <1>6, <1>8, <2>1, HolderSteps DEF GoesOn
  <1>9. ASSUME NEW t \in Turns, StartThread(t) PROVE AllTrue'
    BY <1>5, <1>6, <1>9 DEF StartThread
  <1>10. ASSUME NEW t \in Turns, Subscribe(t) PROVE AllTrue'
    BY <1>3, <1>4, <1>10 DEF Subscribe
  <1>11. ASSUME NEW t \in Turns, ReadNote(t) PROVE AllTrue'
    <2>1. inbox # <<>> /\ UNCHANGED toClient
      BY <1>11 DEF ReadNote
    <2>2. CASE inbox' = Tail(inbox)
      BY <1>1, <1>3, <2>1, <2>2, ElementsOfTail
    <2> QED
      BY <1>5, <1>11, <2>1, <2>2 DEF ReadNote
  <1>12. CASE Deliver
    <2>1. /\ toClient # <<>> /\ toClient' = Tail(toClient)
          /\ Head(toClient) \in Note \cup Reply
          /\ inbox' = IF Head(toClient).kind \in Notes /\ sub # NoTurn
                      THEN Append(inbox, Head(toClient)) ELSE inbox
      BY <1>1, <1>12, HeadTailProperties DEF Deliver
    <2>2. Elements(toClient) = {Head(toClient)} \cup Elements(toClient')
      BY <1>1, <2>1, ElementsOfTail
    <2>3. Elements(inbox') \subseteq Elements(inbox) \cup {Head(toClient)}
      BY <1>1, <2>1, ElementsOfAppend
    <2> QED
      BY <1>3, <2>2, <2>3
  <1>13. ASSUME NEW e \in Note \cup Reply, True(e)', toClient' = Append(toClient, e),
                UNCHANGED inbox
         PROVE  AllTrue'
    <2>1. Elements(toClient') = Elements(toClient) \cup {e}
      BY <1>1, <1>13, ElementsOfAppend
    <2> QED
      BY <1>3, <1>13, <2>1
  <1>14. CASE ReadStart \/ ReadInterrupt
    <2>1. PICK t \in Turns : UNCHANGED toClient \/ Emit("ack", t) \/ Emit("refusal", t)
                             \/ Emit("stopped", t)
      <3>1. toServer \in Seq(Message) /\ toServer # <<>>
        BY <1>14 DEF ReadStart, ReadInterrupt, TypeOK
      <3>2. Head(toServer).turn \in Turns
        BY <3>1, HeadTailProperties, MessageFacts
      <3> QED
        BY <1>14, <3>2 DEF ReadStart, ReadInterrupt
    <2>2. UNCHANGED inbox
      BY <1>14 DEF ReadStart, ReadInterrupt, caller
    <2>3. ASSUME NEW k \in {"ack", "refusal", "stopped"}, Emit(k, t) PROVE AllTrue'
      <3> DEFINE e == [kind |-> k, turn |-> t]
      <3>1. e \in Note \cup Reply /\ e.kind \notin Notes /\ toClient' = Append(toClient, e)
        BY <2>3, MessageFacts DEF Emit, Notes
      <3>2. True(e)'
        BY <3>1 DEF True, Notes
      <3> HIDE DEF e
      <3> QED
        BY <1>13, <2>2, <3>1, <3>2
    <2> QED
      BY <1>6, <2>1, <2>2, <2>3
  <1>15. ASSUME NEW t \in Turns, NEW k \in {"text", "retry", "fatal"}, Speak(t, k)
         PROVE  AllTrue'
    <2> DEFINE e == [kind |-> k, turn |-> t]
    <2>1. /\ e \in Note \cup Reply /\ e.kind = k /\ e.turn = t
          /\ toClient' = Append(toClient, e) /\ UNCHANGED inbox
          /\ srv[t] = "running" /\ srv' = IF k = "fatal" THEN [srv EXCEPT ![t] = "failing"]
                                          ELSE srv
      BY <1>15, MessageFacts DEF Speak, Emit, Notes, caller
    <2>2. True(e)'
      BY <1>1, <2>1 DEF True, Notes
    <2> HIDE DEF e
    <2> QED
      BY <1>13, <2>1, <2>2
  <1>16. ASSUME NEW t \in Turns, End(t) PROVE AllTrue'
    <2>1. PICK kind \in {"completed", "failed"} :
            /\ Append(toClient, Ended(t, kind)) \in Seq(Note \cup Reply)
            /\ \/ toClient' = Append(toClient, Ended(t, kind))
               \/ toClient' = Append(Append(toClient, Ended(t, kind)), Stopped(t))
      BY <1>16, EndSays
    <2>2. /\ Ended(t, kind) \in Note \cup Reply /\ Stopped(t) \in Note \cup Reply
          /\ UNCHANGED inbox /\ srv' = [srv EXCEPT ![t] = "ended"]
      BY <1>16, MessageFacts DEF Ended, Stopped, End, Notes, caller
    <2>3. True(Ended(t, kind))' /\ True(Stopped(t))'
      BY <1>1, <2>2 DEF True, Ended, Stopped, Notes
    <2>4. \A m \in Elements(toClient') : \/ m \in Elements(toClient)
                                         \/ m \in {Ended(t, kind), Stopped(t)}
      <3> DEFINE one == Append(toClient, Ended(t, kind))
      <3>1. Elements(one) = Elements(toClient) \cup {Ended(t, kind)}
        BY <1>1, <2>2, ElementsOfAppend
      <3>2. one \in Seq(Note \cup Reply) /\ (toClient' = one \/ toClient' = Append(one, Stopped(t)))
        BY <2>1
      <3> HIDE DEF one
      <3>3. Elements(Append(one, Stopped(t))) = Elements(one) \cup {Stopped(t)}
        BY <2>2, <3>2, ElementsOfAppend
      <3> QED
        BY <3>1, <3>2, <3>3
    <2> QED
      BY <1>3, <2>2, <2>3, <2>4
  <1>17. CASE UNCHANGED vars
    BY <1>6, <1>17 DEF vars, caller
  <1> QED
    BY <1>7, <1>8, <1>9, <1>10, <1>11, <1>12, <1>14, <1>15, <1>16, <1>17
       DEF Next, Caller, Server
-----------------------------------------------------------------------------
\* The answers of the server to requests are no notifications.
LEMMA RepliesNotifyNothing ==
  ASSUME TypeOK, ReadStart \/ ReadInterrupt, NEW u \in Turns
  PROVE  Mentions(toClient', Notes, u) <=> Mentions(toClient, Notes, u)
  <1>1. /\ toServer \in Seq(Message) /\ toServer # <<>>
        /\ toClient \in Seq(Note \cup Reply)
    BY DEF ReadStart, ReadInterrupt, TypeOK
  <1>2. Head(toServer).turn \in Turns
    BY <1>1, HeadTailProperties, MessageFacts
  <1>3. ASSUME NEW k \in {"ack", "refusal", "stopped"}, Emit(k, Head(toServer).turn)
        PROVE  Mentions(toClient', Notes, u) <=> Mentions(toClient, Notes, u)
    <2> DEFINE e == [kind |-> k, turn |-> Head(toServer).turn]
    <2>1. e \in Note \cup Reply /\ e.kind \notin Notes /\ toClient' = Append(toClient, e)
      BY <1>2, <1>3, MessageFacts DEF Emit, Notes
    <2> HIDE DEF e
    <2> QED
      BY <1>1, <2>1, MentionsOfAppend
  <1> QED
    BY <1>3 DEF ReadStart, ReadInterrupt

\* A turn that is silent remains so until its start is sent.
LEMMA SilentStays ==
  ASSUME TypeOK, OneAnswer, LockFits, [Next]_vars, NEW u \in Turns, Silent(u), ~SendStart(u)
  PROVE  Silent(u)'
  <1>1. /\ toServer \in Seq(Message) /\ toClient \in Seq(Note \cup Reply)
        /\ inbox \in Seq(Note)
        /\ srv \in [Turns -> {"none", "running", "failing", "ended"}]
        /\ ~Active(u) /\ ~Mentions(toServer, {"start"}, u)
        /\ ~Mentions(toClient, Notes, u) /\ ~Mentions(inbox, Notes, u)
    BY DEF TypeOK, Silent
  <1>2. ASSUME ~Mentions(toServer', {"start"}, u), ~Mentions(toClient', Notes, u),
               ~Mentions(inbox', Notes, u), srv'[u] = srv[u]
        PROVE  Silent(u)'
    BY <1>1, <1>2 DEF Silent, Active
  <1>3. ~Mentions(<<>>, Notes, u)
    BY MentionsOfNone
  <1>4. ASSUME StartsStay, UNCHANGED <<toClient, srv>>, inbox' \in {inbox, <<>>}
        PROVE  Silent(u)'
    BY <1>1, <1>2, <1>3, <1>4 DEF StartsStay
  <1>5. CASE UNCHANGED <<toServer, toClient, srv>> /\ inbox' \in {inbox, <<>>}
    BY <1>1, <1>2, <1>3, <1>5
  <1>6. ASSUME NEW t \in Turns,
               \/ Cancel(t) \/ Lock(t) \/ StartThread(t) \/ Subscribe(t)
               \/ \E th \in known \cup {NoThread} : Call(t, th)
        PROVE  Silent(u)'
    BY <1>5, <1>6 DEF Cancel, Lock, StartThread, Subscribe, Call, Return, server
  <1>7. ASSUME NEW t \in Turns,
               AwaitStart(t) \/ AwaitGrace(t) \/ Recheck(t) \/ GiveUp(t) \/ AwaitStop(t)
        PROVE  Silent(u)'
    <2>1. UNCHANGED <<toClient, srv>>
      BY <1>7 DEF AwaitStart, AwaitGrace, Recheck, GiveUp, AwaitStop, server
    <2>2. inbox' \in {inbox, <<>>}
      BY <1>7, HolderSteps DEF GoesOn, Return
    <2> QED
      BY <1>4, <1>7, <2>1, <2>2, CallersStartNothing
  <1>8. ASSUME NEW t \in Turns, SendStart(t) PROVE Silent(u)'
    <2>1. CASE t \in canceled
      BY <1>5, <1>8, <2>1 DEF SendStart, Return, server
    <2>2. CASE t \notin canceled
      <3> DEFINE e == [kind |-> "start", turn |-> t]
      <3>1. e \in Message /\ toServer' = Append(toServer, e) /\ e.turn # u
        BY <1>8, <2>2, MessageFacts DEF SendStart, Send
      <3> HIDE DEF e
      <3>2. ~Mentions(toServer', {"start"}, u)
        BY <1>1, <3>1, MentionsOfAppend
      <3>3. UNCHANGED <<toClient, srv, inbox>>
        BY <1>8, <2>2 DEF SendStart, server
      <3> QED
        BY <1>1, <1>2, <3>2, <3>3
    <2> QED
      BY <2>1, <2>2
  <1>9. ASSUME NEW t \in Turns, ReadNote(t) PROVE Silent(u)'
    <2>1. inbox # <<>> /\ UNCHANGED <<toServer, toClient, srv>>
      BY <1>9 DEF ReadNote, server
    <2>2. inbox' = <<>> \/ inbox' = Tail(inbox)
      BY <1>9 DEF ReadNote, Return
    <2>3. ~Mentions(Tail(inbox), Notes, u)
      BY <1>1, <2>1, MentionsOfTail
    <2>4. ~Mentions(inbox', Notes, u)
      BY <1>3, <2>2, <2>3
    <2> QED
      BY <1>1, <1>2, <2>1, <2>4
  <1>10. ASSUME NEW t \in Turns, Land(t) PROVE Silent(u)'
    <2>1. UNCHANGED <<toClient, srv, inbox>>
      BY <1>10 DEF Land, caller, server
    <2> QED
      BY <1>4, <1>10, <2>1, CallersStartNothing
  <1>11. CASE Deliver
    <2> DEFINE m == Head(toClient)
    <2>1. /\ toClient # <<>> /\ toClient' = Tail(toClient) /\ m \in Note \cup Reply
          /\ m.kind \in Notes => m \in Note
          /\ UNCHANGED <<toServer, srv>>
          /\ inbox' = IF m.kind \in Notes /\ sub # NoTurn THEN Append(inbox, m) ELSE inbox
      BY <1>1, <1>11, HeadTailProperties, MessageFacts DEF Deliver, server
    <2> HIDE DEF m
    <2>2. ~Mentions(toClient', Notes, u) /\ ~(m.kind \in Notes /\ m.turn = u)
      BY <1>1, <2>1, MentionsOfTail DEF m
    <2>3. ~Mentions(inbox', Notes, u)
      BY <1>1, <2>1, <2>2, MentionsOfAppend
    <2> QED
      BY <1>1, <1>2, <2>1, <2>2, <2>3
  <1>12. CASE ReadStart \/ ReadInterrupt
    <2>1. /\ toServer # <<>> /\ toServer' = Tail(toServer) /\ UNCHANGED inbox
      BY <1>12 DEF ReadStart, ReadInterrupt, caller
    <2>2. /\ ~Mentions(toServer', {"start"}, u)
          /\ ~(Head(toServer).kind = "start" /\ Head(toServer).turn = u)
      BY <1>1, <2>1, MentionsOfTail
    <2>3. srv'[u] = srv[u]
      BY <1>1, <1>12, <2>2 DEF ReadStart, ReadInterrupt
    <2> QED
      BY <1>1, <1>2, <1>12, <2>1, <2>2, <2>3, RepliesNotifyNothing
  <1>13. ASSUME NEW t \in Turns,
                End(t) \/ \E k \in {"text", "retry", "fatal"} : Speak(t, k)
         PROVE  Silent(u)'
    <2>1. Active(t) /\ UNCHANGED <<toServer, inbox>> /\ (t # u => srv'[u] = srv[u])
      BY <1>1, <1>13 DEF End, Speak, Active, caller
    <2>2. AnswersStay(t)
      BY <1>13, SpeechAnswersNothing
    <2> QED
      BY <1>1, <1>2, <2>1, <2>2 DEF AnswersStay
  <1>14. CASE UNCHANGED vars
    BY <1>5, <1>14 DEF vars, caller, server
  <1> QED
    BY <1>6, <1>7, <1>8, <1>9, <1>10, <1>11, <1>12, <1>13, <1>14 DEF Next, Caller, Server

\* A turn that has not been started is silent.
LEMMA EarlyIsSilent ==
  ASSUME TypeOK, OneAnswer, AllTrue, NEW u \in Turns, DutyFits(u), pc[u] \in Early
  PROVE  Silent(u)
  <1>1. call[u] = "none" /\ srv[u] = "none"
    BY DEF DutyFits
  <1>2. ~Mentions(toServer, {"start"}, u)
    BY <1>1 DEF OneAnswer, AnsweredOnce
  <1>3. ~Mentions(toClient, Notes, u) /\ ~Mentions(inbox, Notes, u)
    BY <1>1 DEF AllTrue, True, Mentions
  <1> QED
    BY <1>1, <1>2, <1>3 DEF Silent, Active

\* Every turn's thread but that of a caller on its way to the lock or in StartThread.
LEMMA ThreadStays ==
  ASSUME TypeOK, [Next]_vars, NEW u \in Turns, pc[u] \notin {"idle", "locked"}
  PROVE  thread'[u] = thread[u]
  <1>1. thread \in [Turns -> Threads \cup {NoThread}]
    BY DEF TypeOK
  <1>2. ASSUME NEW t \in Turns, NEW th \in known \cup {NoThread}, Call(t, th)
        PROVE  thread'[u] = thread[u]
    BY <1>1, <1>2 DEF Call
  <1>3. ASSUME NEW t \in Turns, Caller(t) PROVE thread'[u] = thread[u]
    BY <1>1, <1>3, HolderSteps DEF Caller, Lock, StartThread, Subscribe, ReadNote
  <1>4. ASSUME NEW t \in Turns, Cancel(t) \/ Land(t) PROVE UNCHANGED thread
    BY <1>4 DEF Cancel, Land, caller
  <1>5. Deliver \/ Server \/ UNCHANGED vars => UNCHANGED thread
    BY DEF Deliver, Server, ReadStart, ReadInterrupt, End, Speak, vars, caller
  <1> QED
    BY <1>2, <1>3, <1>4, <1>5 DEF Next

\* A turn has its thread to itself until it returns.
LEMMA AloneStep ==
  ASSUME TurnInv, [Next]_vars, NEW t \in Turns
  PROVE  Alone(t)'
  <1> SUFFICES ASSUME t \notin shadowed', sub' = t
               PROVE  /\ final' \in {t, NoTurn}
                      /\ \A u \in Turns \ {t} : thread'[u] = thread'[t] => Silent(u)'
    BY DEF Alone
  <1>1. /\ TypeOK /\ LockFits /\ OneAnswer /\ AllTrue /\ \A u \in Turns : DutyFits(u)
        /\ NoTurn \notin Turns
    BY MessageFacts DEF TurnInv
  <1>2. CASE sub # t
    <2>1. Subscribe(t)
      <3>1. ASSUME NEW u \in Turns, Caller(u), ~Subscribe(u) PROVE sub' \in {sub, NoTurn}
        BY <3>1, HolderSteps DEF Caller, Lock, StartThread, ReadNote, Return, GoesOn
      <3>2. ASSUME NEW u \in Turns,
                   Cancel(u) \/ Land(u) \/ \E th \in known \cup {NoThread} : Call(u, th)
            PROVE  UNCHANGED sub
        BY <3>2 DEF Cancel, Land, Call, caller
      <3>3. Deliver \/ Server \/ UNCHANGED vars => UNCHANGED sub
        BY DEF Deliver, Server, ReadStart, ReadInterrupt, End, Speak, vars, caller
      <3>4. \A u \in Turns : Subscribe(u) => u = t
        BY DEF Subscribe
      <3> QED
        BY <1>1, <1>2, <3>1, <3>2, <3>3, <3>4 DEF Next
    <2>2. /\ Quiet(thread[t]) /\ final' = NoTurn /\ inbox' = <<>>
          /\ UNCHANGED <<thread, srv, toServer, toClient>>
      BY <2>1 DEF Subscribe, server
    <2>3. ASSUME NEW u \in Turns, thread[u] = thread[t] PROVE Silent(u)'
      <3>1. /\ srv[u] \in {"none", "ended"}
            /\ [kind |-> "start", turn |-> u] \notin Elements(toServer)
            /\ ~Mentions(toClient, Notes, u)
        BY <2>2, <2>3 DEF Quiet, Mentions
      <3>2. ~Mentions(toServer, {"start"}, u)
        <4>1. \A m \in Elements(toServer) : m \in Message
          BY <1>1, LenProperties, ElementOfSeq DEF TypeOK, Elements
        <4> QED
          BY <3>1, <4>1 DEF Mentions, Message
      <3> QED
        BY <2>2, <3>1, <3>2, MentionsOfNone DEF Silent, Active
    <2> QED
      BY <2>2, <2>3
  <1>3. CASE sub = t
    <2>1. /\ t \notin shadowed /\ pc[t] \in Subscribed /\ holder = t
          /\ \A u \in Turns : pc[u] \in Held => u = t
      <3>1. pc[t] \in Subscribed
        BY <1>1, <1>3 DEF LockFits
      <3>2. \A u \in Turns : pc[u] \in Held <=> holder = u
        BY <1>1 DEF LockFits
      <3>3. shadowed \subseteq shadowed'
        <4>1. \A u \in Turns : ~Subscribe(u)
          BY <1>3, <3>1, <3>2 DEF Subscribe, Held, Subscribed
        <4>2. ASSUME NEW u \in Turns, Caller(u), ~Subscribe(u) PROVE UNCHANGED shadowed
          BY <4>2, HolderSteps DEF Caller, Lock, StartThread, ReadNote
        <4>3. ASSUME NEW u \in Turns,
                     Cancel(u) \/ Land(u) \/ \E th \in known \cup {NoThread} : Call(u, th)
              PROVE  UNCHANGED shadowed
          BY <4>3 DEF Cancel, Land, Call, caller
        <4>4. Deliver \/ Server \/ UNCHANGED vars => UNCHANGED shadowed
          BY DEF Deliver, Server, ReadStart, ReadInterrupt, End, Speak, vars, caller
        <4> QED
          BY <4>1, <4>2, <4>3, <4>4 DEF Next
      <3> QED
        BY <3>1, <3>2, <3>3 DEF Held
    <2>2. /\ final \in {t, NoTurn}
          /\ \A u \in Turns \ {t} : thread[u] = thread[t] => Silent(u)
      BY <1>3, <2>1 DEF TurnInv, Alone
    <2>3. ASSUME NEW u \in Turns \ {t}, thread'[u] = thread'[t] PROVE Silent(u)'
      <3>1. ~SendStart(u) /\ pc[u] # "locked"
        BY <2>1, <2>3 DEF SendStart, Held, Subscribed
      <3>2. thread'[t] = thread[t]
        BY <1>1, <2>1, ThreadStays DEF Subscribed
      <3>3. CASE pc[u] = "idle"
        BY <1>1, <2>3, <3>1, <3>3, EarlyIsSilent, SilentStays DEF Early
      <3>4. CASE pc[u] # "idle"
        <4>1. thread[u] = thread[t]
          BY <1>1, <2>3, <3>1, <3>2, <3>4, ThreadStays
        <4> QED
          BY <1>1, <2>2, <2>3, <3>1, <4>1, SilentStays
      <3> QED
        BY <3>3, <3>4
    <2>4. final' \in {t, NoTurn}
      <3>1. CASE ReadNote(t)
        <4> DEFINE m == Head(inbox)
        <4>1. /\ inbox \in Seq(Note) /\ inbox # <<>>
              /\ \/ final' = NoTurn \/ final' = final
                 \/ final' = m.turn /\ thread[m.turn] = thread[t] /\ m.kind = "text"
          BY <1>1, <3>1 DEF ReadNote, Return, TypeOK
        <4>2. m.kind \in Notes /\ m.turn \in Turns
          BY <4>1, HeadTailProperties, MessageFacts
        <4>3. Mentions(inbox, Notes, m.turn)
          BY <4>1, <4>2, MentionsOfTail
        <4> HIDE DEF m
        <4>4. thread[m.turn] = thread[t] => m.turn = t
          BY <2>2, <4>2, <4>3 DEF Silent
        <4> QED
          BY <2>2, <4>1, <4>4
      <3>2. CASE final' \in {final, NoTurn}
        BY <2>2, <3>2
      <3>3. ASSUME NEW u \in Turns, Caller(u), ~ReadNote(t) PROVE final' \in {final, NoTurn}
        <4>1. ~ReadNote(u)
          BY <2>1, <3>3 DEF ReadNote, Held, Subscribed
        <4> QED
          BY <3>3, <4>1, HolderSteps DEF Caller, Lock, StartThread, Subscribe, Return, GoesOn
      <3>4. ASSUME NEW u \in Turns,
                   Cancel(u) \/ Land(u) \/ \E th \in known \cup {NoThread} : Call(u, th)
            PROVE  UNCHANGED final
        BY <3>4 DEF Cancel, Land, Call, caller
      <3>5. Deliver \/ Server \/ UNCHANGED vars => UNCHANGED final
        BY DEF Deliver, Server, ReadStart, ReadInterrupt, End, Speak, vars, caller
      <3> QED
        BY <3>1, <3>2, <3>3, <3>4, <3>5 DEF Next
    <2> QED
      BY <2>3, <2>4
  <1> QED
    BY <1>2, <1>3

\* A turn that was on a quiet thread was so all the time.
LEMMA ShadowedGrows == TypeOK /\ [Next]_vars => shadowed \subseteq shadowed'
  <1> SUFFICES ASSUME TypeOK, [Next]_vars PROVE shadowed \subseteq shadowed'
    OBVIOUS
  <1>1. ASSUME NEW u \in Turns, Caller(u) PROVE shadowed \subseteq shadowed'
    BY <1>1, HolderSteps DEF Caller, Lock, StartThread, ReadNote, Subscribe
  <1>2. ASSUME NEW u \in Turns,
               Cancel(u) \/ Land(u) \/ \E th \in known \cup {NoThread} : Call(u, th)
        PROVE  UNCHANGED shadowed
    BY <1>2 DEF Cancel, Land, Call, caller
  <1>3. Deliver \/ Server \/ UNCHANGED vars => UNCHANGED shadowed
    BY DEF Deliver, Server, ReadStart, ReadInterrupt, End, Speak, vars, caller
  <1> QED
    BY <1>1, <1>2, <1>3 DEF Next

\* Each kind of step, by what it does to the requests on their way.
LEMMA RequestSteps ==
  ASSUME TypeOK, [Next]_vars
  PROVE  \/ StartsStay /\ \A u \in Turns : Active(u)' => Active(u)
         \/ \E t \in Turns : SendStart(t) /\ t \notin canceled
         \/ ReadStart
         \/ ReadInterrupt
  <1>1. UNCHANGED toServer => StartsStay
    BY DEF StartsStay
  <1>2. UNCHANGED srv => \A u \in Turns : Active(u)' => Active(u)
    BY DEF Active
  <1>3. ASSUME NEW t \in Turns,
               \/ Cancel(t) \/ Lock(t) \/ StartThread(t) \/ Subscribe(t) \/ ReadNote(t)
               \/ \E th \in known \cup {NoThread} : Call(t, th)
        PROVE  UNCHANGED <<toServer, srv>>
    BY <1>3 DEF Cancel, Lock, StartThread, Subscribe, ReadNote, Call, server
  <1>4. ASSUME NEW t \in Turns,
               \/ AwaitStart(t) \/ AwaitGrace(t) \/ Recheck(t) \/ GiveUp(t) \/ AwaitStop(t)
               \/ Land(t)
        PROVE  StartsStay /\ UNCHANGED srv
    BY <1>4, CallersStartNothing
       DEF AwaitStart, AwaitGrace, Recheck, GiveUp, AwaitStop, Land, server
  <1>5. ASSUME NEW t \in Turns, SendStart(t), t \in canceled PROVE UNCHANGED <<toServer, srv>>
    BY <1>5 DEF SendStart, server
  <1>6. Deliver \/ UNCHANGED vars => UNCHANGED <<toServer, srv>>
    BY DEF Deliver, server, vars
  <1>7. ASSUME NEW t \in Turns,
               End(t) \/ \E k \in {"text", "retry", "fatal"} : Speak(t, k)
        PROVE  UNCHANGED toServer /\ \A u \in Turns : Active(u)' => Active(u)
    <2>1. srv \in [Turns -> {"none", "running", "failing", "ended"}]
      BY DEF TypeOK
    <2> QED
      BY <1>7, <2>1 DEF End, Speak, Active
  <1> QED
    BY <1>1, <1>2, <1>3, <1>4, <1>5, <1>6, <1>7 DEF Next, Caller, Server

\* A start that was sent on a quiet thread stays ahead of those of its rivals.
LEMMA FirstInStep ==
  ASSUME TurnInv, [Next]_vars, NEW t \in Turns
  PROVE  FirstIn(t)'
  <1> SUFFICES ASSUME t \notin shadowed', Mentions(toServer', {"start"}, t),
                      NEW u \in Turns \ {t}, thread'[u] = thread'[t]
               PROVE  ~Active(u)' /\ Ahead(toServer', t, u)
    BY DEF FirstIn
  <1>1. /\ TypeOK /\ LockFits /\ OneAnswer /\ AllTrue /\ \A w \in Turns : DutyFits(w)
        /\ toServer \in Seq(Message) /\ srv \in [Turns -> {"none", "running", "failing", "ended"}]
        /\ t \notin shadowed
    BY ShadowedGrows DEF TurnInv, TypeOK
  <1>2. CASE Silent(u)' /\ ~Mentions(toServer', {"start"}, u)
    BY <1>2 DEF Silent, Ahead, Mentions, Elements
  <1>3. CASE ~Mentions(toServer, {"start"}, t)
    <2>1. SendStart(t) /\ t \notin canceled
      <3>1. ~StartsStay
        BY <1>3 DEF StartsStay
      <3>2. CASE ReadStart \/ ReadInterrupt
        <4>1. toServer # <<>> /\ toServer' = Tail(toServer)
          BY <3>2 DEF ReadStart, ReadInterrupt
        <4> QED
          BY <1>1, <1>3, <4>1, MentionsOfTail
      <3>3. ASSUME NEW w \in Turns, SendStart(w), w \notin canceled PROVE w = t
        <4> DEFINE e == [kind |-> "start", turn |-> w]
        <4>1. e \in Message /\ toServer' = Append(toServer, e) /\ e.turn = w
          BY <3>3, MessageFacts DEF SendStart, Send
        <4> HIDE DEF e
        <4> QED
          BY <1>1, <1>3, <4>1, MentionsOfAppend
      <3> QED
        BY <1>1, <3>1, <3>2, <3>3, RequestSteps
    <2>2. sub = t /\ UNCHANGED thread
      BY <1>1, <2>1 DEF SendStart, LockFits, Subscribed
    <2>3. Silent(u)
      BY <1>1, <2>2 DEF TurnInv, Alone
    <2>4. ~SendStart(u)
      BY <1>1, <2>1 DEF SendStart, LockFits, Held, Subscribed
    <2>5. Silent(u)'
      BY <1>1, <2>3, <2>4, SilentStays
    <2> QED
      BY <1>2, <2>5 DEF Silent
  <1>4. CASE Mentions(toServer, {"start"}, t)
    <2>1. call[t] = "pending" /\ pc[t] \notin Early
      BY <1>1, <1>4 DEF OneAnswer, AnsweredOnce, DutyFits
    <2>2. thread'[t] = thread[t]
      BY <1>1, <2>1, ThreadStays DEF Early
    <2>3. CASE pc[u] \in {"idle", "locked"}
      <3>1. Silent(u)'
        BY <1>1, <2>3, EarlyIsSilent, SilentStays DEF Early, SendStart
      <3> QED
        BY <1>2, <3>1 DEF Silent
    <2>4. CASE pc[u] \notin {"idle", "locked"}
      <3>1. thread[u] = thread[t]
        BY <1>1, <2>2, <2>4, ThreadStays
      <3>2. ~Active(u) /\ Ahead(toServer, t, u)
        BY <1>1, <1>4, <3>1 DEF TurnInv, FirstIn
      <3>3. CASE StartsStay /\ \A w \in Turns : Active(w)' => Active(w)
        BY <3>2, <3>3 DEF StartsStay
      <3>4. ASSUME NEW w \in Turns, SendStart(w), w \notin canceled
            PROVE  ~Active(u)' /\ Ahead(toServer', t, u)
        <4> DEFINE e == [kind |-> "start", turn |-> w]
        <4>1. /\ e \in Message /\ toServer' = Append(toServer, e) /\ e.turn = w
              /\ UNCHANGED srv
          BY <3>4, MessageFacts DEF SendStart, Send, server
        <4>2. w # t
          BY <2>1, <3>4 DEF SendStart, Early
        <4> HIDE DEF e
        <4>3. Ahead(toServer', t, u)
          BY <1>1, <3>2, <4>1, <4>2, AheadOfAppend
        <4> QED
          BY <3>2, <4>1, <4>3 DEF Active
      <3>5. CASE ReadStart \/ ReadInterrupt
        <4>1. toServer # <<>> /\ toServer' = Tail(toServer)
          BY <3>5 DEF ReadStart, ReadInterrupt
        <4>2. /\ Ahead(toServer', t, u)
              /\ ~(Head(toServer).kind = "start" /\ Head(toServer).turn = u)
          BY <1>1, <1>4, <3>2, <4>1, AheadOfTail
        <4>3. srv'[u] = srv[u]
          BY <1>1, <3>5, <4>2 DEF ReadStart, ReadInterrupt
        <4> QED
          BY <3>2, <4>2, <4>3 DEF Active
      <3> QED
        BY <1>1, <3>3, <3>4, <3>5, RequestSteps
    <2> QED
      BY <2>3, <2>4
  <1> QED
    BY <1>3, <1>4

\* A turn on a quiet thread is not refused on the way.
LEMMA NeverRefusedStep ==
  ASSUME TurnInv, [Next]_vars, NEW t \in Turns
  PROVE  NeverRefused(t)'
  <1> SUFFICES ASSUME t \notin shadowed'
               PROVE  /\ call'[t] # "refused" /\ done'[t] # "refused" /\ outcome'[t] # "refused"
                      /\ ~Mentions(toClient', {"refusal"}, t)
    BY DEF NeverRefused
  <1>1. /\ TypeOK /\ OneAnswer /\ t \notin shadowed
        /\ toServer \in Seq(Message) /\ toClient \in Seq(Note \cup Reply)
        /\ call \in [Turns -> {"none", "pending", "acked", "refused", "over"}]
        /\ done \in [Turns -> {"empty", "acked", "refused"}] /\ outcome \in [Turns -> Outcomes]
    BY ShadowedGrows DEF TurnInv, TypeOK
  <1>2. /\ call[t] # "refused" /\ done[t] # "refused" /\ outcome[t] # "refused"
        /\ ~Mentions(toClient, {"refusal"}, t)
    BY <1>1 DEF TurnInv, NeverRefused
  <1>3. ASSUME NEW u \in Turns,
               Cancel(u) \/ \E th \in known \cup {NoThread} : Call(u, th)
        PROVE  UNCHANGED <<call, done, outcome, toClient>>
    BY <1>3 DEF Cancel, Call, starter
  <1>4. ASSUME NEW u \in Turns, Caller(u)
        PROVE  /\ UNCHANGED <<done, toClient>> /\ call'[t] # "refused"
               /\ outcome'[t] # "refused"
    <2>1. UNCHANGED <<done, toClient>>
      BY <1>4 DEF Caller, Lock, StartThread, Subscribe, SendStart, AwaitStart, AwaitGrace,
                  Recheck, ReadNote, GiveUp, AwaitStop, starter
    <2>2. call' = call \/ call' = [call EXCEPT ![u] = "pending"]
      BY <1>4 DEF Caller, Lock, StartThread, Subscribe, SendStart, AwaitStart, AwaitGrace,
                  Recheck, ReadNote, GiveUp, AwaitStop, starter
    <2> SUFFICES outcome'[t] # "refused"
      BY <1>1, <1>2, <2>1, <2>2
    <2>3. ASSUME NEW how, Return(u, how), how # "refused" \/ u # t
          PROVE  outcome'[t] # "refused"
      BY <1>1, <1>2, <2>3 DEF Return
    <2>4. CASE Lock(u) \/ Subscribe(u)
      BY <1>2, <2>4 DEF Lock, Subscribe
    <2>5. CASE StartThread(u)
      <3>1. Return(u, "notStarted") \/ UNCHANGED outcome
        BY <2>5 DEF StartThread
      <3> QED
        BY <1>2, <2>3, <3>1
    <2>6. CASE ReadNote(u)
      <3>1. Return(u, "answered") \/ Return(u, "failed") \/ UNCHANGED outcome
        BY <2>6 DEF ReadNote
      <3> QED
        BY <1>2, <2>3, <3>1
    <2>7. CASE \/ SendStart(u) \/ AwaitStart(u) \/ AwaitGrace(u) \/ Recheck(u)
               \/ GiveUp(u) \/ AwaitStop(u)
      <3>1. \/ UNCHANGED outcome
            \/ \E how : Return(u, how) /\ (how = "refused" => done[u] = "refused")
        BY <2>7, HolderSteps DEF GoesOn
      <3>2. \/ UNCHANGED outcome
            \/ \E how : Return(u, how) /\ (how # "refused" \/ u # t)
        BY <1>2, <3>1
      <3> QED
        BY <1>2, <2>3, <3>2
    <2> QED
      BY <1>4, <2>4, <2>5, <2>6, <2>7 DEF Caller
  <1>5. ASSUME NEW u \in Turns, Land(u)
        PROVE  /\ UNCHANGED <<outcome, toClient>> /\ call'[t] # "refused"
               /\ done'[t] # "refused"
    BY <1>1, <1>2, <1>5 DEF Land, caller
  <1>6. CASE Deliver
    <2> DEFINE m == Head(toClient)
    <2>1. /\ toClient # <<>> /\ toClient' = Tail(toClient) /\ UNCHANGED <<done, outcome>>
          /\ call' = [call EXCEPT ![m.turn] = CASE m.kind = "ack" -> "acked"
                                                [] m.kind = "refusal" -> "refused"
                                                [] OTHER -> @]
      BY <1>6 DEF Deliver
    <2> HIDE DEF m
    <2>2. ~Mentions(toClient', {"refusal"}, t) /\ ~(m.kind = "refusal" /\ m.turn = t)
      BY <1>1, <1>2, <2>1, MentionsOfTail DEF m
    <2>3. call'[t] # "refused"
      BY <1>1, <1>2, <2>1, <2>2
    <2> QED
      BY <1>2, <2>1, <2>2, <2>3
  <1>7. CASE ReadStart
    <2> DEFINE x == Head(toServer).turn
    <2>1. /\ toServer # <<>> /\ Head(toServer).kind = "start"
          /\ UNCHANGED <<call, done, outcome>>
      BY <1>7 DEF ReadStart, caller, starter
    <2>2. x \in Turns /\ Mentions(toServer, {"start"}, x)
      BY <1>1, <2>1, HeadTailProperties, MessageFacts, MentionsOfTail
    <2>3. x = t => ~\E u \in Turns : thread[u] = thread[x] /\ Active(u)
      BY <1>1, <2>2 DEF TurnInv, FirstIn, OneAnswer, AnsweredOnce, Active
    <2>4. PICK k \in Answers : Emit(k, x) /\ (x = t => k # "refusal")
      BY <1>7, <2>3 DEF ReadStart, Answers
    <2> DEFINE e == [kind |-> k, turn |-> x]
    <2>5. e \in Note \cup Reply /\ toClient' = Append(toClient, e) /\ e.kind = k /\ e.turn = x
      BY <2>2, <2>4, MessageFacts DEF Emit, Answers
    <2> HIDE DEF e, x
    <2>6. ~Mentions(toClient', {"refusal"}, t)
      BY <1>1, <1>2, <2>4, <2>5, MentionsOfAppend
    <2> QED
      BY <1>2, <2>1, <2>6
  <1>8. CASE ReadInterrupt
    <2> DEFINE x == Head(toServer).turn
               e == [kind |-> "stopped", turn |-> x]
    <2>1. toServer # <<>> /\ UNCHANGED <<call, done, outcome>>
      BY <1>8 DEF ReadInterrupt, caller, starter
    <2>2. x \in Turns
      BY <1>1, <2>1, HeadTailProperties, MessageFacts
    <2>3. /\ e \in Note \cup Reply /\ e.kind \notin {"refusal"}
          /\ toClient' = toClient \/ toClient' = Append(toClient, e)
      BY <1>8, <2>2, MessageFacts DEF ReadInterrupt, Emit
    <2> HIDE DEF e
    <2>4. ~Mentions(Append(toClient, e), {"refusal"}, t)
      BY <1>1, <1>2, <2>3, MentionsOfAppend
    <2>5. ~Mentions(toClient', {"refusal"}, t)
      BY <1>2, <2>3, <2>4
    <2> QED
      BY <1>2, <2>1, <2>5
  <1>9. ASSUME NEW u \in Turns,
               End(u) \/ \E k \in {"text", "retry", "fatal"} : Speak(u, k)
        PROVE  UNCHANGED <<call, done, outcome>> /\ ~Mentions(toClient', {"refusal"}, t)
    <2>1. UNCHANGED <<call, done, outcome>>
      BY <1>9 DEF End, Speak, caller, starter
    <2>2. AnswersStay(u)
      BY <1>1, <1>9, SpeechAnswersNothing
    <2> QED
      BY <1>2, <2>1, <2>2 DEF AnswersStay
  <1>10. CASE UNCHANGED vars
    BY <1>2, <1>10 DEF vars, caller, starter
  <1> QED
    BY <1>2, <1>3, <1>4, <1>5, <1>6, <1>7, <1>8, <1>9, <1>10 DEF Next, Server

\* What RunTurn returned stays true, and it returns only what is.
LEMMA OwnOutcomeStep == TurnInv /\ [Next]_vars => OwnOutcome'
  <1> SUFFICES ASSUME TurnInv, [Next]_vars, NEW t \in Turns \ shadowed'
               PROVE  /\ outcome'[t] = "answered" =>
                           srv'[t] = "ended" /\ text'[t] \in {t, NoTurn}
                      /\ outcome'[t] = "failed" => srv'[t] \in {"failing", "ended"}
    BY DEF OwnOutcome
  <1>1. /\ TypeOK /\ OneAnswer /\ LockFits /\ AllTrue /\ t \notin shadowed
        /\ outcome \in [Turns -> Outcomes] /\ text \in [Turns -> Turns \cup {NoTurn}]
        /\ inbox \in Seq(Note)
    BY ShadowedGrows DEF TurnInv, TypeOK
  <1>2. Forward(t)
    BY <1>1, GoesForward
  <1>3. /\ outcome[t] = "answered" => srv[t] = "ended" /\ text[t] \in {t, NoTurn}
        /\ outcome[t] = "failed" => srv[t] \in {"failing", "ended"}
    BY <1>1 DEF TurnInv, OwnOutcome
  <1>4. CASE outcome'[t] \in {outcome[t], "notStarted", "refused", "abandoned", "stopped",
                              "unconfirmed"} /\ text'[t] = text[t]
    BY <1>2, <1>3, <1>4 DEF Forward
  <1>5. CASE ReadNote(t)
    <2> DEFINE m == Head(inbox)
    <2>1. inbox # <<>> /\ pc[t] = "draining" /\ UNCHANGED srv
      BY <1>5 DEF ReadNote, server
    <2>2. m \in Note /\ m.kind \in Notes /\ m.turn \in Turns /\ m \in Elements(inbox)
      BY <1>1, <2>1, HeadTailProperties, MessageFacts, ElementsOfTail
    <2>3. True(m) /\ Mentions(inbox, Notes, m.turn)
      BY <1>1, <2>2 DEF AllTrue, Mentions
    <2>4. /\ final \in {t, NoTurn}
          /\ \A u \in Turns \ {t} : thread[u] = thread[t] => ~Mentions(inbox, Notes, u)
      BY <1>1, <2>1 DEF TurnInv, Alone, Silent, LockFits, Subscribed
    <2>5. CASE Status(m, thread[t]) = "continue" /\ UNCHANGED <<outcome, text>>
      BY <1>4, <2>5
    <2>6. CASE /\ Status(m, thread[t]) = "done" /\ Return(t, "answered")
               /\ text' = [text EXCEPT ![t] = final]
      <3>1. m.kind = "completed" /\ thread[m.turn] = thread[t]
        BY <2>6 DEF Status
      <3>2. m.turn = t
        BY <2>2, <2>3, <2>4, <3>1
      <3>3. srv'[t] = "ended" /\ text'[t] \in {t, NoTurn} /\ outcome'[t] = "answered"
        BY <1>1, <2>1, <2>3, <2>4, <2>6, <3>1, <3>2 DEF True, Return
      <3> QED
        BY <3>3
    <2>7. CASE /\ Status(m, thread[t]) = "failed" /\ Return(t, "failed")
      <3>1. m.kind \in {"fatal", "failed"} /\ thread[m.turn] = thread[t]
        BY <2>2, <2>7 DEF Status, Notes
      <3>2. m.turn = t
        BY <2>2, <2>3, <2>4, <3>1
      <3>3. srv'[t] \in {"failing", "ended"} /\ outcome'[t] = "failed"
        BY <1>1, <2>1, <2>3, <2>7, <3>1, <3>2 DEF True, Return
      <3> QED
        BY <3>3
    <2> QED
      BY <1>5, <2>5, <2>6, <2>7 DEF ReadNote
  <1>6. ASSUME NEW u \in Turns, Caller(u), ~ReadNote(t) PROVE <1>4!1
    <2>1. CASE ReadNote(u)
      <3>1. u # t
        BY <1>6, <2>1
      <3> QED
        BY <1>1, <2>1, <3>1 DEF ReadNote, Return
    <2>2. CASE ~ReadNote(u)
      <3>1. UNCHANGED text
        BY <1>6, <2>2, HolderSteps DEF Caller, Lock, StartThread, Subscribe
      <3>2. \/ UNCHANGED outcome
            \/ \E how \in {"notStarted", "refused", "abandoned", "stopped", "unconfirmed"} :
                 outcome' = [outcome EXCEPT ![u] = how]
        BY <1>6, <2>2, HolderSteps DEF Caller, Lock, StartThread, Subscribe, Return, GoesOn
      <3> QED
        BY <1>1, <3>1, <3>2
    <2> QED
      BY <2>1, <2>2
  <1>7. ASSUME NEW u \in Turns,
               Cancel(u) \/ Land(u) \/ \E th \in known \cup {NoThread} : Call(u, th)
        PROVE  UNCHANGED <<outcome, text>>
    BY <1>7 DEF Cancel, Land, Call, caller
  <1>8. Deliver \/ Server \/ UNCHANGED vars => UNCHANGED <<outcome, text>>
    BY DEF Deliver, Server, ReadStart, ReadInterrupt, End, Speak, vars, caller
  <1> QED
    BY <1>4, <1>5, <1>6, <1>7, <1>8 DEF Next
-----------------------------------------------------------------------------
LEMMA TurnStep == TurnInv /\ [Next]_vars => TurnInv'
  <1> SUFFICES ASSUME TurnInv, [Next]_vars PROVE TurnInv'
    OBVIOUS
  <1>1. TypeOK' /\ LockFits' /\ OneAnswer' /\ (\A t \in Turns : DutyFits(t)') /\ AllTrue'
    BY TypeStep, LockStep, AnswerStep, DutyStep, TruthStep DEF TurnInv
  <1>2. \A t \in Turns : Alone(t)' /\ FirstIn(t)' /\ NeverRefused(t)'
    BY AloneStep, FirstInStep, NeverRefusedStep
  <1> QED
    BY <1>1, <1>2, OwnOutcomeStep DEF TurnInv

LEMMA TurnInvHolds == Spec => []TurnInv
  BY InitTurns, TurnStep, PTL DEF Spec

\* The types, for any number of turns.
THEOREM TurnTypes == Spec => []TypeOK
  <1>1. TurnInv => TypeOK
    BY DEF TurnInv
  <1> QED
    BY <1>1, TurnInvHolds, PTL

(***************************************************************************)
(* A turn is interrupted at most once, by its caller or by the goroutine   *)
(* that it left behind, whenever the turn's id arrives (startTurn).        *)
(***************************************************************************)
THEOREM NoSecondInterrupt == Spec => []InterruptedOnce
  <1>1. TurnInv => InterruptedOnce
    BY DEF TurnInv, DutyFits, InterruptedOnce
  <1> QED
    BY <1>1, TurnInvHolds, PTL

(***************************************************************************)
(* RunTurn returns an answer, or a failure, only when its own turn has     *)
(* ended with it, and no other turn's text (classifyNote).                 *)
(***************************************************************************)
THEOREM OutcomesAreOwn == Spec => []OwnOutcome
  <1>1. TurnInv => OwnOutcome
    BY DEF TurnInv
  <1> QED
    BY <1>1, TurnInvHolds, PTL

(***************************************************************************)
(* A turn that finds its thread quiet is never refused, whoever gave up    *)
(* before it and whoever calls after (Runner.mu, interruptTurn).           *)
(***************************************************************************)
THEOREM QuietThreadsAccept == Spec => []QuietThreadAccepts
  <1>1. TurnInv => QuietThreadAccepts
    BY DEF TurnInv, NeverRefused, QuietThreadAccepts
  <1> QED
    BY <1>1, TurnInvHolds, PTL
=============================================================================
