--------------------------- MODULE GatewayProofs ---------------------------
(***************************************************************************)
(* Proofs about Gateway for any number of peers, messages, restarts and    *)
(* expired sessions: type correctness, that no two turns run on one agent, *)
(* that a turn runs on an agent of its own peer, that the server reaches   *)
(* one agent per peer, that a session's lock is always released, and that  *)
(* a peer that sends one message at a time is served and remembered.       *)
(*                                                                         *)
(* The first five rest on Inv: an agent has one id, an id one session, and *)
(* a session one holder of its lock.  The last two rest on QuietInv, which *)
(* speaks of peers that are alone: the session they go by is known to the  *)
(* server (Served), no two of their messages are in hand (Alone), and the  *)
(* file and the agent behind that session continue the same conversation   *)
(* (Remembered).                                                           *)
(***************************************************************************)
EXTENDS Gateway, SequenceTheorems, FiniteSetTheorems, TLAPS

\* Where a handler knows its gateway session, and where its agent.
WithSession == {"store", "lock", "invoke", "running", "clear", "clearing", "dropping"}
WithAgent == {"register", "running", "clearing", "dropping"}

\* A gateway session that the running server has issued: its id is one of
\* those it has counted, and no other session has it.
IdsAreOwn ==
  \A k \in DOMAIN started :
    started[k].run = serverRun =>
      /\ started[k].id <= nextID
      /\ \A l \in DOMAIN started :
           started[l].run = serverRun /\ started[l].id = started[k].id => l = k

\* What a handler has found is there, and an agent that is being registered
\* or dropped is the one its handler thinks it is.
Knows(m) ==
  /\ handler[m].at \in WithSession => Session(m) \in DOMAIN started
  /\ handler[m].at \in WithAgent => AgentOf(m) \in DOMAIN agents
  /\ At(m, "register") => agents[AgentOf(m)].peer = PeerOf[m]
  /\ At(m, "clearing") \/ At(m, "dropping") =>
       /\ IdOf(m) <= nextID
       /\ Known(IdOf(m)) => sessions[IdOf(m)] = AgentOf(m)

HandlersKnow == \A m \in Messages : Knows(m)

\* An agent has one id: it is in the table once, not before its registration,
\* and a turn that still runs on it has found it under that id.
AgentsAreDistinct ==
  /\ \A i, j \in DOMAIN sessions : sessions[i] = sessions[j] => i = j
  /\ \A m \in Messages : At(m, "register") =>
       /\ \A i \in DOMAIN sessions : sessions[i] # AgentOf(m)
       /\ \A o \in Messages \ {m} :
            At(o, "register") \/ At(o, "running") => AgentOf(o) # AgentOf(m)
  /\ \A m \in Messages : At(m, "running") =>
       /\ \A i \in DOMAIN sessions : sessions[i] = AgentOf(m) => i = IdOf(m)
       /\ \A o \in Messages :
            At(o, "running") /\ AgentOf(o) = AgentOf(m) => IdOf(o) = IdOf(m)

\* The two tables of the server agree.
TablesAgree ==
  /\ \A id \in DOMAIN sessions : keyToSession[agents[sessions[id]].peer] = id
  /\ \A p \in Peers : keyToSession[p] # 0 =>
       /\ Known(keyToSession[p])
       /\ agents[sessions[keyToSession[p]]].peer = p

\* A handler that runs or is about to run a turn holds its session's lock.
LockIsHeld ==
  \A m \in Messages :
    At(m, "invoke") \/ At(m, "running") => m \in holder[Session(m)]

\* An id of the running server leads to an agent of the peer that asked for it.
Owned(k, p) ==
  started[k].run = serverRun /\ Known(started[k].id) =>
    agents[sessions[started[k].id]].peer = p

SessionsAreOwn ==
  /\ \A m \in Messages : handler[m].at \in WithSession => Owned(Session(m), PeerOf[m])
  /\ \A p \in Peers : current[p] # 0 => Owned(current[p], p)


Inv == /\ TypeOK
       /\ IdsAreOwn
       /\ HandlersKnow
       /\ AgentsAreDistinct
       /\ TablesAgree
       /\ LockIsReleased
       /\ LockIsHeld
       /\ SessionsAreOwn
       /\ OwnAgent
-----------------------------------------------------------------------------

\* What the types of the tables say about their domains and entries.
LEMMA Tables ==
  ASSUME TypeOK
  PROVE  /\ Len(started) \in Nat /\ DOMAIN started = 1..Len(started)
         /\ Len(agents) \in Nat /\ DOMAIN agents = 1..Len(agents)
         /\ \A k \in DOMAIN started :
              started[k].id \in Nat \ {0} /\ started[k].run \in 1..serverRun
         /\ \A a \in DOMAIN agents : agents[a] \in Agent
         /\ holder \in Seq(SUBSET Messages) /\ Len(holder) = Len(started)
<1>1. Len(started) \in Nat /\ DOMAIN started = 1..Len(started)
  BY LenProperties DEF TypeOK
<1>2. Len(agents) \in Nat /\ DOMAIN agents = 1..Len(agents)
  BY LenProperties DEF TypeOK
<1>3. \A k \in DOMAIN started : started[k].id \in Nat \ {0} /\ started[k].run \in 1..serverRun
  <2> SUFFICES ASSUME NEW k \in DOMAIN started
               PROVE  started[k].id \in Nat \ {0} /\ started[k].run \in 1..serverRun
    OBVIOUS
  <2>1. started \in Seq([id : Nat \ {0}, run : 1..serverRun]) /\ k \in 1..Len(started)
    BY <1>1 DEF TypeOK
  <2>2. started[k] \in [id : Nat \ {0}, run : 1..serverRun]
    BY <2>1, ElementOfSeq
  <2> QED
    BY <2>2
<1>4. \A a \in DOMAIN agents : agents[a] \in Agent
  BY <1>2, ElementOfSeq DEF TypeOK
<1>5. holder \in Seq(SUBSET Messages) /\ Len(holder) = Len(started)
  <2>1. holder \in [1..Len(started) -> SUBSET Messages]
    BY <1>1 DEF TypeOK
  <2>2. holder \in Seq(SUBSET Messages)
    BY <1>1, <2>1, SeqDef
  <2> QED
    BY <1>1, <2>1, <2>2, LenProperties
<1> QED
  BY <1>1, <1>2, <1>3, <1>4, <1>5

\* There is room for another mishap before the processes have started as
\* often as the bound allows.
LEMMA RestartsAreBounded ==
  ASSUME TypeOK, Mishaps < MaxMishaps
  PROVE  serverRun + 1 \in 1..(MaxMishaps + 1) /\ gatewayRun + 1 \in 1..(MaxMishaps + 1)
<1>1. DOMAIN started = 1..Len(started) /\ Len(started) \in Nat
  BY Tables
<1>2. IsFiniteSet(1..Len(started))
  BY <1>1, FS_Interval
<1>3. expired \in SUBSET (1..Len(started))
  BY <1>1 DEF TypeOK
<1>4. Cardinality(expired) \in Nat
  BY <1>2, <1>3, FS_Subset, FS_CardinalityType
<1> QED
  BY <1>4, GatewayAssumption DEF TypeOK, Mishaps

\* A new agent, or a new conversation of an agent, leaves the others alone.
LEMMA AgentAppended ==
  ASSUME TypeOK, NEW e \in Agent
  PROVE  /\ Append(agents, e) \in Seq(Agent)
         /\ Len(Append(agents, e)) = Len(agents) + 1
         /\ DOMAIN Append(agents, e) = 1..(Len(agents) + 1)
         /\ \A a \in DOMAIN agents : Append(agents, e)[a] = agents[a]
         /\ Append(agents, e)[Len(agents) + 1] = e
<1>1. agents \in Seq(Agent)
  BY DEF TypeOK
<1>2. DOMAIN agents = 1..Len(agents)
  BY Tables
<1>3. /\ Append(agents, e) \in Seq(Agent)
      /\ Len(Append(agents, e)) = Len(agents) + 1
      /\ \A i \in 1..Len(agents) : Append(agents, e)[i] = agents[i]
      /\ Append(agents, e)[Len(agents) + 1] = e
  BY <1>1, AppendProperties
<1>4. DOMAIN Append(agents, e) = 1..Len(Append(agents, e))
  BY <1>3, LenProperties
<1> QED
  BY <1>2, <1>3, <1>4

LEMMA AgentChanged ==
  ASSUME TypeOK, NEW a \in DOMAIN agents, NEW h \in SUBSET Messages,
         agents' = [agents EXCEPT ![a].history = h]
  PROVE  /\ agents' \in Seq(Agent)
         /\ Len(agents') = Len(agents)
         /\ DOMAIN agents' = DOMAIN agents
         /\ \A b \in DOMAIN agents : agents'[b].peer = agents[b].peer
<1> DEFINE e == [agents[a] EXCEPT !.history = h]
<1>1. agents \in Seq(Agent) /\ DOMAIN agents = 1..Len(agents) /\ agents[a] \in Agent
  BY Tables DEF TypeOK
<1>2. e \in Agent /\ e.peer = agents[a].peer
  BY <1>1 DEF Agent
<1>3. agents' = [agents EXCEPT ![a] = e]
  BY <1>1
<1>4. agents' \in Seq(Agent) /\ Len(agents') = Len(agents)
  BY <1>1, <1>2, <1>3, ExceptSeq
<1>5. DOMAIN agents' = DOMAIN agents
  BY <1>3
<1>6. \A b \in DOMAIN agents : agents'[b].peer = agents[b].peer
  BY <1>2, <1>3
<1> QED
  BY <1>4, <1>5, <1>6

LEMMA SessionAppended ==
  ASSUME TypeOK,
         started' = Append(started, [id |-> NewID, run |-> serverRun]),
         holder' = Append(holder, {})
  PROVE  /\ started' \in Seq([id : Nat \ {0}, run : 1..serverRun])
         /\ Len(started') = Len(started) + 1
         /\ DOMAIN started' = 1..(Len(started) + 1)
         /\ \A k \in DOMAIN started : started'[k] = started[k]
         /\ started'[Len(started) + 1] = [id |-> NewID, run |-> serverRun]
         /\ holder' \in [DOMAIN started' -> SUBSET Messages]
         /\ \A k \in DOMAIN started : holder'[k] = holder[k]
         /\ holder'[Len(started) + 1] = {}
<1> DEFINE e == [id |-> NewID, run |-> serverRun]
<1>1. e \in [id : Nat \ {0}, run : 1..serverRun]
  BY GatewayAssumption DEF TypeOK, NewID
<1>2. started \in Seq([id : Nat \ {0}, run : 1..serverRun])
  BY DEF TypeOK
<1>3. DOMAIN started = 1..Len(started)
  BY Tables
<1>4. /\ started' \in Seq([id : Nat \ {0}, run : 1..serverRun])
      /\ Len(started') = Len(started) + 1
      /\ \A i \in 1..Len(started) : started'[i] = started[i]
      /\ started'[Len(started) + 1] = e
  BY <1>1, <1>2, AppendProperties
<1>5. DOMAIN started' = 1..(Len(started) + 1)
  BY <1>4, LenProperties
<1>6. holder \in Seq(SUBSET Messages) /\ Len(holder) = Len(started)
  BY Tables
<1>7. /\ holder' \in Seq(SUBSET Messages)
      /\ Len(holder') = Len(started) + 1
      /\ \A i \in 1..Len(started) : holder'[i] = holder[i]
      /\ holder'[Len(started) + 1] = {}
  <2>1. {} \in SUBSET Messages
    OBVIOUS
  <2> QED
    BY <1>6, <2>1, AppendProperties
<1>8. holder' \in [1..(Len(started) + 1) -> SUBSET Messages]
  BY <1>7, LenProperties
<1> QED
  BY <1>3, <1>4, <1>5, <1>7, <1>8

\* No step takes an agent or a gateway session away, or gives it to another.
LEMMA AgentsStay ==
  ASSUME Inv, [Next]_vars
  PROVE  /\ agents' \in Seq(Agent)
         /\ Len(agents) <= Len(agents')
         /\ \A a \in DOMAIN agents : a \in DOMAIN agents' /\ agents'[a].peer = agents[a].peer
<1> DEFINE Goal == /\ agents' \in Seq(Agent)
                   /\ Len(agents) <= Len(agents')
                   /\ \A a \in DOMAIN agents : a \in DOMAIN agents' /\ agents'[a].peer = agents[a].peer
<1>1. TypeOK /\ HandlersKnow /\ DOMAIN agents = 1..Len(agents) /\ Len(agents) \in Nat
  BY Tables DEF Inv
<1>2. ASSUME NEW a \in DOMAIN agents, NEW h \in SUBSET Messages,
             agents' = [agents EXCEPT ![a].history = h]
      PROVE  Goal
  <2>1. TypeOK
    BY <1>1
  <2>2. /\ agents' \in Seq(Agent) /\ Len(agents') = Len(agents) /\ DOMAIN agents' = DOMAIN agents
        /\ \A b \in DOMAIN agents : agents'[b].peer = agents[b].peer
    BY <1>2, <2>1, AgentChanged
  <2> QED
    BY <1>1, <2>2
<1>3. CASE UNCHANGED agents
  BY <1>1, <1>3 DEF TypeOK
<1>4. ASSUME NEW m \in Messages, StartLoad(m) PROVE Goal
  <2>1. [peer |-> PeerOf[m], history |-> file[PeerOf[m]]] \in Agent
    BY <1>1, GatewayAssumption DEF TypeOK, Agent
  <2> QED
    BY <1>1, <1>4, <2>1, AgentAppended DEF StartLoad, BuildAgent
<1>5. ASSUME NEW m \in Messages, Invoke(m) PROVE Goal
  <2> DEFINE a == sessions[IdOf(m)]
             h == agents[a].history \cup {m}
  <2>1. a \in DOMAIN agents
    BY <1>1, <1>5 DEF Invoke, Known, TypeOK
  <2>2. h \in SUBSET Messages
    BY <1>1, <2>1, Tables DEF Agent
  <2>3. agents' = [agents EXCEPT ![a].history = h]
    BY <1>5 DEF Invoke, AddPrompt
  <2> QED
    BY <1>2, <2>1, <2>2, <2>3
<1>6. ASSUME NEW m \in Messages, EndTurn(m) PROVE Goal
  <2> DEFINE a == AgentOf(m)
             h == agents[a].history \cup {m}
  <2>1. a \in DOMAIN agents
    BY <1>1, <1>6 DEF EndTurn, At, HandlersKnow, Knows, WithAgent
  <2>2. h \in SUBSET Messages
    BY <1>1, <2>1, Tables DEF Agent
  <2>3. agents' = [agents EXCEPT ![a].history = h]
    BY <1>6 DEF EndTurn, AddAnswer
  <2> QED
    BY <1>2, <2>1, <2>2, <2>3
<1>7. ASSUME NEW m \in Messages, ClearAgent(m) PROVE Goal
  <2>1. AgentOf(m) \in DOMAIN agents
    BY <1>1, <1>7 DEF ClearAgent, At, HandlersKnow, Knows, WithAgent
  <2>2. agents' = [agents EXCEPT ![AgentOf(m)].history = {}]
    BY <1>7 DEF ClearAgent, ClearHistory
  <2> QED
    BY <1>2, <2>1, <2>2, {} \in SUBSET Messages
<1>8. ASSUME NEW m \in Messages,
             \/ Lookup(m) \/ Expire(m) \/ StartFails(m) \/ StartRegister(m) \/ Store(m)
             \/ LockInvoke(m) \/ InvokeUnknown(m) \/ FailTurn(m)
             \/ TakeClear(m) \/ AskClear(m) \/ DropAgent(m)
      PROVE  UNCHANGED agents
  BY <1>8 DEF Lookup, Expire, StartFails, StartRegister, RegisterAgent, Store, LockInvoke,
     InvokeUnknown, FailTurn, TakeClear, AskClear, DropAgent, DropSession, serverVars
<1>9. ASSUME NEW p \in Peers, BecomeInactive(p) PROVE UNCHANGED agents
  BY <1>9 DEF BecomeInactive, serverVars
<1>10. ASSUME ServerRestarts \/ GatewayRestarts \/ UNCHANGED vars PROVE UNCHANGED agents
  BY <1>10 DEF ServerRestarts, RestartServer, GatewayRestarts, vars, serverVars
<1> QED
  BY <1>3, <1>4, <1>5, <1>6, <1>7, <1>8, <1>9, <1>10
     DEF Next, Handle, GetOrCreateSession, HandleInbound, HandleClear, Terminated

LEMMA SessionsStay ==
  ASSUME Inv, [Next]_vars
  PROVE  /\ serverRun' \in 1..(MaxMishaps + 1)
         /\ started' \in Seq([id : Nat \ {0}, run : 1..serverRun'])
         /\ Len(started) <= Len(started')
         /\ \A k \in DOMAIN started : k \in DOMAIN started' /\ started'[k] = started[k]
<1>1. TypeOK /\ DOMAIN started = 1..Len(started) /\ Len(started) \in Nat
  BY Tables DEF Inv
<1>2. CASE UNCHANGED <<serverRun, started>>
  BY <1>1, <1>2 DEF TypeOK
<1>3. ASSUME NEW m \in Messages, StartRegister(m) PROVE UNCHANGED serverRun
  BY <1>3 DEF StartRegister, RegisterAgent
<1>4. ASSUME NEW m \in Messages, StartRegister(m)
      PROVE  /\ started' \in Seq([id : Nat \ {0}, run : 1..serverRun])
             /\ Len(started) <= Len(started')
             /\ \A k \in DOMAIN started : k \in DOMAIN started' /\ started'[k] = started[k]
  <2>1. started' = Append(started, [id |-> NewID, run |-> serverRun]) /\ holder' = Append(holder, {})
    BY <1>4 DEF StartRegister
  <2> QED
    BY <1>1, <2>1, SessionAppended
<1>5. ASSUME ServerRestarts
      PROVE  serverRun' \in 1..(MaxMishaps + 1) /\ started' \in Seq([id : Nat \ {0}, run : 1..serverRun'])
  <2>1. serverRun' = serverRun + 1 /\ started' = started /\ Mishaps < MaxMishaps
    BY <1>5 DEF ServerRestarts, RestartServer
  <2>2. [id : Nat \ {0}, run : 1..serverRun] \subseteq [id : Nat \ {0}, run : 1..serverRun']
    BY <1>1, <2>1, GatewayAssumption DEF TypeOK
  <2>3. started \in Seq([id : Nat \ {0}, run : 1..serverRun'])
    BY <1>1, <2>2, SeqMonotonic DEF TypeOK
  <2> QED
    BY <1>1, <2>1, <2>3, RestartsAreBounded
<1>6. ASSUME NEW m \in Messages,
             \/ Lookup(m) \/ Expire(m) \/ StartLoad(m) \/ StartFails(m) \/ Store(m)
             \/ HandleInbound(m) \/ HandleClear(m)
      PROVE  UNCHANGED <<serverRun, started>>
  BY <1>6 DEF Lookup, Expire, StartLoad, BuildAgent, StartFails, Store, HandleInbound, LockInvoke, Invoke,
     AddPrompt, InvokeUnknown, EndTurn, AddAnswer, FailTurn, HandleClear, TakeClear, AskClear, ClearAgent,
     ClearHistory, DropAgent, DropSession, serverVars, mapVars
<1>7. ASSUME NEW p \in Peers, BecomeInactive(p) PROVE UNCHANGED <<serverRun, started>>
  BY <1>7 DEF BecomeInactive, serverVars
<1>8. ASSUME GatewayRestarts \/ UNCHANGED vars PROVE UNCHANGED <<serverRun, started>>
  BY <1>8 DEF GatewayRestarts, vars, serverVars, mapVars
<1>9. ASSUME ServerRestarts PROVE UNCHANGED started
  BY <1>9 DEF ServerRestarts
<1>10. \/ UNCHANGED <<serverRun, started>>
       \/ ServerRestarts
       \/ \E m \in Messages : StartRegister(m)
  BY <1>6, <1>7, <1>8 DEF Next, Handle, GetOrCreateSession, Terminated
<1>11. CASE ServerRestarts
  BY <1>1, <1>5, <1>9, <1>11
<1>12. CASE \E m \in Messages : StartRegister(m)
  <2> PICK m \in Messages : StartRegister(m)
    BY <1>12
  <2>1. serverRun' = serverRun
    BY <1>3
  <2>2. serverRun \in 1..(MaxMishaps + 1)
    BY <1>1 DEF TypeOK
  <2> QED
    BY <1>4, <2>1, <2>2
<1> QED
  BY <1>2, <1>10, <1>11, <1>12

\* TypeOK in the parts that a step disturbs one at a time.
ServerTypes ==
  /\ nextID \in Nat
  /\ \A id \in DOMAIN sessions : id \in 1..nextID /\ sessions[id] \in DOMAIN agents
  /\ keyToSession \in [Peers -> 0..nextID]
  /\ file \in [Peers -> SUBSET Messages]

MapTypes ==
  /\ gatewayRun \in 1..(MaxMishaps + 1)
  /\ current \in [Peers -> 0..Len(started)]
  /\ expired \subseteq DOMAIN started
  /\ holder \in [DOMAIN started -> SUBSET Messages]

HandlerTypes ==
  handler \in [Messages -> [at : Places, session : 0..Len(started), agent : 0..Len(agents)]]

HistoryTypes ==
  /\ orphans \subseteq Messages /\ alone \subseteq Peers /\ crossed \in BOOLEAN
  /\ kept \in [Peers -> SUBSET Messages] /\ forgotten \in [Peers -> SUBSET Messages]

\* What every step may rely on.
LEMMA Facts ==
  ASSUME Inv
  PROVE  /\ ServerTypes /\ MapTypes /\ HandlerTypes /\ HistoryTypes
         /\ Len(started) \in Nat /\ DOMAIN started = 1..Len(started)
         /\ Len(agents) \in Nat /\ DOMAIN agents = 1..Len(agents)
         /\ serverRun \in 1..(MaxMishaps + 1)
         /\ \A k \in DOMAIN started :
              started[k].id \in Nat \ {0} /\ started[k].run \in 1..serverRun
         /\ \A a \in DOMAIN agents :
              agents[a].peer \in Peers /\ agents[a].history \in SUBSET Messages
         /\ \A m \in Messages : PeerOf[m] \in Peers
<1>1. TypeOK
  BY DEF Inv
<1>2. ServerTypes /\ MapTypes /\ HandlerTypes /\ HistoryTypes /\ serverRun \in 1..(MaxMishaps + 1)
  BY <1>1 DEF TypeOK, ServerTypes, MapTypes, HandlerTypes, HistoryTypes
<1>3. \A a \in DOMAIN agents : agents[a].peer \in Peers /\ agents[a].history \in SUBSET Messages
  BY <1>1, Tables DEF Agent
<1> QED
  BY <1>1, <1>2, <1>3, Tables, GatewayAssumption

\* The table of sessions after StartRegister and after DropAgent.
LEMMA Registered ==
  ASSUME ServerTypes, NEW p \in Peers, NEW a, RegisterAgent(p, a)
  PROVE  /\ NewID \notin DOMAIN sessions
         /\ DOMAIN sessions' = (DOMAIN sessions \ {keyToSession[p]}) \cup {NewID}
         /\ sessions'[NewID] = a
         /\ \A id \in DOMAIN sessions \ {keyToSession[p]} : sessions'[id] = sessions[id]
         /\ nextID' = NewID /\ NewID = nextID + 1
         /\ keyToSession' = [keyToSession EXCEPT ![p] = NewID]
<1>1. NewID = nextID + 1 /\ NewID \notin DOMAIN sessions
  BY DEF NewID, ServerTypes
<1>2. sessions' = [id \in (DOMAIN sessions \ {keyToSession[p]}) \cup {NewID} |->
                    IF id = NewID THEN a ELSE Restrict(sessions, DOMAIN sessions \ {keyToSession[p]})[id]]
  BY DEF RegisterAgent, Entered, Restrict
<1>3. \A id \in DOMAIN sessions \ {keyToSession[p]} : sessions'[id] = sessions[id]
  BY <1>1, <1>2 DEF Restrict
<1> QED
  BY <1>1, <1>2, <1>3 DEF RegisterAgent

LEMMA Dropped ==
  ASSUME NEW id, NEW p, DropSession(id, p)
  PROVE  /\ DOMAIN sessions' = DOMAIN sessions \ {id}
         /\ \A i \in DOMAIN sessions' : sessions'[i] = sessions[i]
         /\ keyToSession' = [keyToSession EXCEPT ![p] = IF @ = id THEN 0 ELSE @]
BY DEF DropSession, Restrict

\* The table of agents after StartSession has built one.
LEMMA Built ==
  ASSUME Inv, NEW p \in Peers, BuildAgent(p)
  PROVE  /\ Len(agents') = Len(agents) + 1 /\ NewAgent = Len(agents) + 1
         /\ DOMAIN agents' = 1..(Len(agents) + 1)
         /\ \A a \in DOMAIN agents : agents'[a] = agents[a]
         /\ agents'[NewAgent].peer = p
         /\ UNCHANGED <<serverRun, nextID, sessions, keyToSession, file>>
<1> DEFINE e == [peer |-> p, history |-> file[p]]
<1>1. TypeOK /\ e \in Agent
  BY DEF Inv, TypeOK, Agent
<1>2. agents' = Append(agents, e) /\ NewAgent = Len(agents) + 1
  BY DEF BuildAgent, NewAgent
<1> QED
  BY <1>1, <1>2, AgentAppended DEF BuildAgent

\* The ways in which a handler moves on.
LEMMA Moved ==
  ASSUME Inv, UNCHANGED <<started, agents>>,
         NEW m \in Messages, NEW k \in 0..Len(started), NEW a \in 0..Len(agents),
         \/ \E at \in Places : Go(m, at) \/ GoWithSession(m, at, k) \/ GoWithAgent(m, at, a)
         \/ Return(m)
  PROVE  HandlerTypes'
<1>1. HandlerTypes /\ Len(started) \in Nat /\ Len(agents) \in Nat
  BY Facts
<1>2. CASE Return(m)
  BY <1>1, <1>2 DEF HandlerTypes, Return, Finished, Places
<1>3. ASSUME NEW at \in Places, Go(m, at) PROVE HandlerTypes'
  BY <1>1, <1>3 DEF HandlerTypes, Go
<1>4. ASSUME NEW at \in Places, GoWithSession(m, at, k) PROVE HandlerTypes'
  BY <1>1, <1>4 DEF HandlerTypes, GoWithSession
<1>5. ASSUME NEW at \in Places, GoWithAgent(m, at, a) PROVE HandlerTypes'
  BY <1>1, <1>5 DEF HandlerTypes, GoWithAgent
<1> QED
  BY <1>2, <1>3, <1>4, <1>5

\* A handler that returns leaves the others where they are.
LEMMA Returned ==
  ASSUME Inv, NEW m \in Messages, Return(m)
  PROVE  handler'[m] = Finished /\ \A o \in Messages \ {m} : handler'[o] = handler[o]
BY Facts DEF Return, HandlerTypes

LEMMA ServerTypesStep == Inv /\ [Next]_vars => (ServerTypes)'
<1> SUFFICES ASSUME Inv, [Next]_vars PROVE (ServerTypes)'
  OBVIOUS
<1> USE DEF ServerTypes, serverVars
<1>1. ASSUME NEW m \in Messages, Lookup(m) PROVE (ServerTypes)'
  BY <1>1, Facts, AgentsStay DEF Lookup, Go, GoWithSession, Take
<1>2. ASSUME NEW m \in Messages, Expire(m) PROVE (ServerTypes)'
  BY <1>2, Facts, AgentsStay DEF Expire, Go
<1>3. ASSUME NEW m \in Messages, StartLoad(m) PROVE (ServerTypes)'
  BY <1>3, Facts, AgentsStay DEF StartLoad, GoWithAgent, BuildAgent, NewAgent
<1>4. ASSUME NEW m \in Messages, StartFails(m) PROVE (ServerTypes)'
  BY <1>4, Facts, AgentsStay DEF StartFails, Return
<1>5. ASSUME NEW m \in Messages, StartRegister(m) PROVE (ServerTypes)'
  <2>1. RegisterAgent(PeerOf[m], AgentOf(m)) /\ AgentOf(m) \in DOMAIN agents /\ PeerOf[m] \in Peers
    BY <1>5, Facts DEF StartRegister, At, Inv, HandlersKnow, Knows, WithAgent
  <2>2. UNCHANGED <<agents, file>>
    BY <2>1 DEF RegisterAgent
  <2>3. ServerTypes
    BY Facts
  <2>4. /\ DOMAIN sessions' = (DOMAIN sessions \ {keyToSession[PeerOf[m]]}) \cup {NewID}
        /\ sessions'[NewID] = AgentOf(m)
        /\ \A id \in DOMAIN sessions \ {keyToSession[PeerOf[m]]} : sessions'[id] = sessions[id]
        /\ nextID' = NewID /\ NewID = nextID + 1
        /\ keyToSession' = [keyToSession EXCEPT ![PeerOf[m]] = NewID]
    BY <2>1, <2>3, Registered
  <2>5. nextID' \in Nat /\ keyToSession' \in [Peers -> 0..nextID'] /\ file' \in [Peers -> SUBSET Messages]
    <3>1. nextID \in Nat /\ keyToSession \in [Peers -> 0..nextID] /\ file' \in [Peers -> SUBSET Messages]
      BY <2>2, <2>3
    <3>2. nextID' = nextID + 1 /\ keyToSession' = [keyToSession EXCEPT ![PeerOf[m]] = nextID + 1]
      BY <2>4
    <3> QED
      BY <2>1, <3>1, <3>2
  <2>6. \A id \in DOMAIN sessions' : id \in 1..nextID' /\ sessions'[id] \in DOMAIN agents'
    BY <2>1, <2>2, <2>3, <2>4
  <2> QED
    BY <2>5, <2>6
<1>6. ASSUME NEW m \in Messages, Store(m) PROVE (ServerTypes)'
  BY <1>6, Facts, AgentsStay DEF Store, Go
<1>7. ASSUME NEW m \in Messages, LockInvoke(m) PROVE (ServerTypes)'
  BY <1>7, Facts, AgentsStay DEF LockInvoke, Go
<1>8. ASSUME NEW m \in Messages, Invoke(m) PROVE (ServerTypes)'
  BY <1>8, Facts, AgentsStay DEF Invoke, GoWithAgent, AddPrompt
<1>9. ASSUME NEW m \in Messages, InvokeUnknown(m) PROVE (ServerTypes)'
  BY <1>9, Facts, AgentsStay DEF InvokeUnknown, Return, Unlock
<1>10. ASSUME NEW m \in Messages, EndTurn(m) PROVE (ServerTypes)'
  BY <1>10, Facts, AgentsStay DEF EndTurn, Return, Unlock, AddAnswer
<1>11. ASSUME NEW m \in Messages, FailTurn(m) PROVE (ServerTypes)'
  BY <1>11, Facts, AgentsStay DEF FailTurn, Return, Unlock
<1>12. ASSUME NEW m \in Messages, TakeClear(m) PROVE (ServerTypes)'
  BY <1>12, Facts, AgentsStay DEF TakeClear, Return, GoWithSession, Take
<1>13. ASSUME NEW m \in Messages, AskClear(m) PROVE (ServerTypes)'
  BY <1>13, Facts, AgentsStay DEF AskClear, GoWithAgent, Return
<1>14. ASSUME NEW m \in Messages, ClearAgent(m) PROVE (ServerTypes)'
  BY <1>14, Facts, AgentsStay DEF ClearAgent, Go, ClearHistory
<1>15. ASSUME NEW m \in Messages, DropAgent(m) PROVE (ServerTypes)'
  <2> DEFINE p == agents[AgentOf(m)].peer
  <2>1. DropSession(IdOf(m), p)
    BY <1>15 DEF DropAgent
  <2>2. UNCHANGED <<nextID, agents, file>>
    BY <2>1 DEF DropSession
  <2>3. ServerTypes
    BY Facts
  <2>4. /\ DOMAIN sessions' = DOMAIN sessions \ {IdOf(m)}
        /\ \A i \in DOMAIN sessions' : sessions'[i] = sessions[i]
        /\ keyToSession' = [keyToSession EXCEPT ![p] = IF @ = IdOf(m) THEN 0 ELSE @]
    BY <2>1, Dropped
  <2>5. keyToSession' \in [Peers -> 0..nextID']
    <3>1. nextID' = nextID /\ nextID \in Nat /\ keyToSession \in [Peers -> 0..nextID]
      BY <2>2, <2>3
    <3>2. p \in Peers
      BY <1>15, Facts DEF DropAgent, At, Inv, HandlersKnow, Knows, WithAgent
    <3> QED
      BY <2>4, <3>1, <3>2
  <2> QED
    BY <2>2, <2>3, <2>4, <2>5
<1>16. ASSUME NEW p \in Peers, BecomeInactive(p) PROVE (ServerTypes)'
  BY <1>16, Facts, AgentsStay DEF BecomeInactive
<1>17. ASSUME ServerRestarts PROVE (ServerTypes)'
  BY <1>17, Facts, AgentsStay DEF ServerRestarts, RestartServer
<1>18. ASSUME GatewayRestarts PROVE (ServerTypes)'
  BY <1>18, Facts, AgentsStay DEF GatewayRestarts
<1>19. CASE UNCHANGED vars
  BY <1>19, Facts DEF vars, serverVars, mapVars, processVars, historyVars
<1> QED
  BY <1>1, <1>2, <1>3, <1>4, <1>5, <1>6, <1>7, <1>8, <1>9, <1>10, <1>11, <1>12, <1>13, <1>14, <1>15, <1>16, <1>17, <1>18, <1>19
     DEF Next, Handle, GetOrCreateSession, HandleInbound, HandleClear, Terminated

LEMMA MapTypesStep == Inv /\ [Next]_vars => (MapTypes)'
<1> SUFFICES ASSUME Inv, [Next]_vars PROVE (MapTypes)'
  OBVIOUS
<1> USE DEF MapTypes, serverVars, mapVars, processVars
<1>1. ASSUME NEW m \in Messages, Lookup(m) PROVE (MapTypes)'
  BY <1>1, Facts DEF Lookup, Go, GoWithSession, Take
<1>2. ASSUME NEW m \in Messages, Expire(m) PROVE (MapTypes)'
  BY <1>2, Facts DEF Expire, Go
<1>3. ASSUME NEW m \in Messages, StartLoad(m) PROVE (MapTypes)'
  BY <1>3, Facts DEF StartLoad, GoWithAgent, BuildAgent, NewAgent
<1>4. ASSUME NEW m \in Messages, StartFails(m) PROVE (MapTypes)'
  BY <1>4, Facts DEF StartFails, Return
<1>5. ASSUME NEW m \in Messages, StartRegister(m) PROVE (MapTypes)'
  <2>1. /\ DOMAIN started' = 1..(Len(started) + 1) /\ Len(started') = Len(started) + 1
        /\ holder' \in [DOMAIN started' -> SUBSET Messages]
    BY <1>5, SessionAppended DEF StartRegister, Inv
  <2> QED
    BY <1>5, <2>1, Facts DEF StartRegister
<1>6. ASSUME NEW m \in Messages, Store(m) PROVE (MapTypes)'
  <2>1. Session(m) \in 0..Len(started)
    BY Facts DEF HandlerTypes, Session
  <2> QED
    BY <1>6, <2>1, Facts DEF Store
<1>7. ASSUME NEW m \in Messages, LockInvoke(m) PROVE (MapTypes)'
  BY <1>7, Facts DEF LockInvoke, Go
<1>8. ASSUME NEW m \in Messages, Invoke(m) PROVE (MapTypes)'
  BY <1>8, Facts DEF Invoke, GoWithAgent, AddPrompt
<1>9. ASSUME NEW m \in Messages, InvokeUnknown(m) PROVE (MapTypes)'
  BY <1>9, Facts DEF InvokeUnknown, Return, Unlock
<1>10. ASSUME NEW m \in Messages, EndTurn(m) PROVE (MapTypes)'
  BY <1>10, Facts DEF EndTurn, Return, Unlock, AddAnswer
<1>11. ASSUME NEW m \in Messages, FailTurn(m) PROVE (MapTypes)'
  BY <1>11, Facts DEF FailTurn, Return, Unlock
<1>12. ASSUME NEW m \in Messages, TakeClear(m) PROVE (MapTypes)'
  BY <1>12, Facts DEF TakeClear, Return, GoWithSession, Take
<1>13. ASSUME NEW m \in Messages, AskClear(m) PROVE (MapTypes)'
  BY <1>13, Facts DEF AskClear, GoWithAgent, Return
<1>14. ASSUME NEW m \in Messages, ClearAgent(m) PROVE (MapTypes)'
  BY <1>14, Facts DEF ClearAgent, Go, ClearHistory
<1>15. ASSUME NEW m \in Messages, DropAgent(m) PROVE (MapTypes)'
  BY <1>15, Facts DEF DropAgent, Return
<1>16. ASSUME NEW p \in Peers, BecomeInactive(p) PROVE (MapTypes)'
  BY <1>16, Facts DEF BecomeInactive
<1>17. ASSUME ServerRestarts PROVE (MapTypes)'
  BY <1>17, Facts DEF ServerRestarts, RestartServer
<1>18. ASSUME GatewayRestarts PROVE (MapTypes)'
  <2>1. gatewayRun' \in 1..(MaxMishaps + 1)
    BY <1>18, RestartsAreBounded DEF GatewayRestarts, Inv
  <2> QED
    BY <1>18, <2>1, Facts DEF GatewayRestarts
<1>19. CASE UNCHANGED vars
  BY <1>19, Facts DEF vars, serverVars, mapVars, processVars, historyVars
<1> QED
  BY <1>1, <1>2, <1>3, <1>4, <1>5, <1>6, <1>7, <1>8, <1>9, <1>10, <1>11, <1>12, <1>13, <1>14, <1>15, <1>16, <1>17, <1>18, <1>19
     DEF Next, Handle, GetOrCreateSession, HandleInbound, HandleClear, Terminated

LEMMA HandlerTypesStep == Inv /\ [Next]_vars => (HandlerTypes)'
<1> SUFFICES ASSUME Inv, [Next]_vars PROVE (HandlerTypes)'
  OBVIOUS
<1> USE DEF HandlerTypes, Places, Finished, mapVars, serverVars
<1>1. ASSUME NEW m \in Messages, Lookup(m) PROVE (HandlerTypes)'
  <2> DEFINE k == current[PeerOf[m]]
  <2>1. k \in 0..Len(started) /\ UNCHANGED <<started, agents>>
    BY <1>1, Facts DEF MapTypes, Lookup
  <2>2. \/ \E at \in Places : Go(m, at)
        \/ \E at \in Places : GoWithSession(m, at, k)
        \/ Return(m)
    BY <1>1 DEF Lookup
  <2> QED
    BY <2>1, <2>2, Facts, Moved
<1>2. ASSUME NEW m \in Messages, Expire(m) PROVE (HandlerTypes)'
  BY ZenonT(40), <1>2, Facts, AgentsStay, SessionsStay DEF Expire, Go
<1>3. ASSUME NEW m \in Messages, StartLoad(m) PROVE (HandlerTypes)'
  <2>1. Len(agents') = Len(agents) + 1 /\ NewAgent = Len(agents) + 1
    BY <1>3, Facts, Built DEF StartLoad
  <2> QED
    BY <1>3, <2>1, Facts DEF StartLoad, GoWithAgent
<1>4. ASSUME NEW m \in Messages, StartFails(m) PROVE (HandlerTypes)'
  BY <1>4, Facts, AgentsStay, SessionsStay DEF StartFails, Return
<1>5. ASSUME NEW m \in Messages, StartRegister(m) PROVE (HandlerTypes)'
  <2>1. Len(started') = Len(started) + 1 /\ UNCHANGED agents
    BY <1>5, SessionAppended DEF StartRegister, RegisterAgent, Inv
  <2>2. Return(m) \/ GoWithSession(m, "store", Len(started) + 1)
    BY <1>5 DEF StartRegister
  <2>3. CASE Return(m)
    BY <2>1, <2>3, Facts DEF Return
  <2>4. CASE GoWithSession(m, "store", Len(started) + 1)
    <3>1. /\ handler \in [Messages -> [at : Places, session : 0..Len(started), agent : 0..Len(agents)]]
          /\ Len(started) \in Nat
      BY Facts
    <3>2. handler' \in [Messages -> [at : Places, session : 0..(Len(started) + 1), agent : 0..Len(agents)]]
      BY <2>4, <3>1 DEF GoWithSession
    <3> QED
      BY <2>1, <3>2
  <2> QED
    BY <2>2, <2>3, <2>4
<1>6. ASSUME NEW m \in Messages, Store(m) PROVE (HandlerTypes)'
  BY ZenonT(40), <1>6, Facts, AgentsStay, SessionsStay DEF Store, Go
<1>7. ASSUME NEW m \in Messages, LockInvoke(m) PROVE (HandlerTypes)'
  BY ZenonT(40), <1>7, Facts, AgentsStay, SessionsStay DEF LockInvoke, Go
<1>8. ASSUME NEW m \in Messages, Invoke(m) PROVE (HandlerTypes)'
  <2>1. Known(IdOf(m)) => sessions[IdOf(m)] \in 0..Len(agents)
    BY Facts DEF ServerTypes, Known
  <2>2. UNCHANGED started /\ Len(agents') = Len(agents)
    BY <1>8, Facts, AgentsStay DEF Invoke, AddPrompt
  <2> QED
    BY ZenonT(40), <1>8, <2>1, <2>2, Facts DEF Invoke, GoWithAgent
<1>9. ASSUME NEW m \in Messages, InvokeUnknown(m) PROVE (HandlerTypes)'
  BY <1>9, Facts, AgentsStay, SessionsStay DEF InvokeUnknown, Return, Unlock
<1>10. ASSUME NEW m \in Messages, EndTurn(m) PROVE (HandlerTypes)'
  BY <1>10, Facts, AgentsStay, SessionsStay DEF EndTurn, Return, Unlock, AddAnswer
<1>11. ASSUME NEW m \in Messages, FailTurn(m) PROVE (HandlerTypes)'
  BY <1>11, Facts, AgentsStay, SessionsStay DEF FailTurn, Return, Unlock
<1>12. ASSUME NEW m \in Messages, TakeClear(m) PROVE (HandlerTypes)'
  <2> DEFINE k == current[PeerOf[m]]
  <2>1. k \in 0..Len(started) /\ UNCHANGED <<started, agents>>
    BY <1>12, Facts DEF MapTypes, TakeClear
  <2>2. \/ \E at \in Places : Go(m, at)
        \/ \E at \in Places : GoWithSession(m, at, k)
        \/ Return(m)
    BY <1>12 DEF TakeClear
  <2> QED
    BY <2>1, <2>2, Facts, Moved
<1>13. ASSUME NEW m \in Messages, AskClear(m) PROVE (HandlerTypes)'
  <2> DEFINE a == sessions[IdOf(m)]
  <2>1. Known(IdOf(m)) => a \in 0..Len(agents)
    BY Facts DEF ServerTypes, Known
  <2>2. \/ Known(IdOf(m)) /\ GoWithAgent(m, "clearing", a)
        \/ Return(m)
    BY <1>13 DEF AskClear
  <2>3. UNCHANGED <<started, agents>>
    BY <1>13 DEF AskClear
  <2> QED
    BY <2>1, <2>2, <2>3, Facts, Moved
<1>14. ASSUME NEW m \in Messages, ClearAgent(m) PROVE (HandlerTypes)'
  <2>1. Len(agents') \in Nat /\ Len(agents') >= Len(agents) /\ UNCHANGED started
    BY <1>14, Facts, AgentsStay, LenProperties DEF ClearAgent
  <2> QED
    BY SMTT(30), <1>14, <2>1, Facts DEF ClearAgent, Go
<1>15. ASSUME NEW m \in Messages, DropAgent(m) PROVE (HandlerTypes)'
  BY <1>15, Facts, AgentsStay, SessionsStay DEF DropAgent, Return
<1>16. ASSUME NEW p \in Peers, BecomeInactive(p) PROVE (HandlerTypes)'
  BY <1>16, Facts, AgentsStay, SessionsStay DEF BecomeInactive
<1>17. ASSUME ServerRestarts PROVE (HandlerTypes)'
  BY <1>17, Facts, AgentsStay, SessionsStay DEF ServerRestarts, RestartServer
<1>18. ASSUME GatewayRestarts PROVE (HandlerTypes)'
  BY <1>18, Facts, AgentsStay, SessionsStay DEF GatewayRestarts
<1>19. CASE UNCHANGED vars
  BY <1>19, Facts DEF vars, serverVars, mapVars, processVars, historyVars
<1> QED
  BY <1>1, <1>2, <1>3, <1>4, <1>5, <1>6, <1>7, <1>8, <1>9, <1>10, <1>11, <1>12, <1>13, <1>14, <1>15, <1>16, <1>17, <1>18, <1>19
     DEF Next, Handle, GetOrCreateSession, HandleInbound, HandleClear, Terminated

LEMMA HistoryTypesStep == Inv /\ [Next]_vars => (HistoryTypes)'
<1> SUFFICES ASSUME Inv, [Next]_vars PROVE (HistoryTypes)'
  OBVIOUS
<1> USE DEF HistoryTypes, processVars, historyVars
<1>1. ASSUME NEW m \in Messages, Lookup(m) PROVE (HistoryTypes)'
  BY <1>1, Facts DEF Lookup, Go, GoWithSession, Take
<1>2. ASSUME NEW m \in Messages, Expire(m) PROVE (HistoryTypes)'
  BY <1>2, Facts DEF Expire, Go
<1>3. ASSUME NEW m \in Messages, StartLoad(m) PROVE (HistoryTypes)'
  BY <1>3, Facts DEF StartLoad, GoWithAgent, BuildAgent, NewAgent
<1>4. ASSUME NEW m \in Messages, StartFails(m) PROVE (HistoryTypes)'
  BY <1>4, Facts DEF StartFails, Return
<1>5. ASSUME NEW m \in Messages, StartRegister(m) PROVE (HistoryTypes)'
  BY <1>5, Facts DEF StartRegister, Return, GoWithSession
<1>6. ASSUME NEW m \in Messages, Store(m) PROVE (HistoryTypes)'
  BY <1>6, Facts DEF Store, Go
<1>7. ASSUME NEW m \in Messages, LockInvoke(m) PROVE (HistoryTypes)'
  BY <1>7, Facts DEF LockInvoke, Go
<1>8. ASSUME NEW m \in Messages, Invoke(m) PROVE (HistoryTypes)'
  BY <1>8, Facts DEF Invoke, GoWithAgent, AddPrompt
<1>9. ASSUME NEW m \in Messages, InvokeUnknown(m) PROVE (HistoryTypes)'
  BY <1>9, Facts DEF InvokeUnknown, Return, Unlock
<1>10. ASSUME NEW m \in Messages, EndTurn(m) PROVE (HistoryTypes)'
  BY <1>10, Facts DEF EndTurn, Return, Unlock, AddAnswer
<1>11. ASSUME NEW m \in Messages, FailTurn(m) PROVE (HistoryTypes)'
  BY <1>11, Facts DEF FailTurn, Return, Unlock
<1>12. ASSUME NEW m \in Messages, TakeClear(m) PROVE (HistoryTypes)'
  BY <1>12, Facts DEF TakeClear, Return, GoWithSession, Take
<1>13. ASSUME NEW m \in Messages, AskClear(m) PROVE (HistoryTypes)'
  BY <1>13, Facts DEF AskClear, GoWithAgent, Return
<1>14. ASSUME NEW m \in Messages, ClearAgent(m) PROVE (HistoryTypes)'
  <2>1. agents[AgentOf(m)].history \in SUBSET Messages /\ agents[AgentOf(m)].peer \in Peers
    BY <1>14, Facts DEF ClearAgent, At, Inv, HandlersKnow, Knows, WithAgent
  <2> QED
    BY <1>14, <2>1, Facts DEF ClearAgent
<1>15. ASSUME NEW m \in Messages, DropAgent(m) PROVE (HistoryTypes)'
  BY <1>15, Facts DEF DropAgent, Return
<1>16. ASSUME NEW p \in Peers, BecomeInactive(p) PROVE (HistoryTypes)'
  BY <1>16, Facts DEF BecomeInactive
<1>17. ASSUME ServerRestarts PROVE (HistoryTypes)'
  BY <1>17, Facts DEF ServerRestarts, RestartServer
<1>18. ASSUME GatewayRestarts PROVE (HistoryTypes)'
  BY <1>18, Facts DEF GatewayRestarts
<1>19. CASE UNCHANGED vars
  BY <1>19, Facts DEF vars, serverVars, mapVars, processVars, historyVars
<1> QED
  BY <1>1, <1>2, <1>3, <1>4, <1>5, <1>6, <1>7, <1>8, <1>9, <1>10, <1>11, <1>12, <1>13, <1>14, <1>15, <1>16, <1>17, <1>18, <1>19
     DEF Next, Handle, GetOrCreateSession, HandleInbound, HandleClear, Terminated

LEMMA TypeStep == Inv /\ [Next]_vars => TypeOK'
<1> SUFFICES ASSUME Inv, [Next]_vars PROVE TypeOK'
  OBVIOUS
<1>1. ServerTypes' /\ MapTypes' /\ HandlerTypes' /\ HistoryTypes'
  BY ServerTypesStep, MapTypesStep, HandlerTypesStep, HistoryTypesStep
<1> QED
  BY <1>1, AgentsStay, SessionsStay DEF TypeOK, ServerTypes, MapTypes, HandlerTypes, HistoryTypes

\* Only StartSession, ClearSession and a restart change the server's tables.
LEMMA TablesStay ==
  ASSUME [Next]_vars
  PROVE  \/ UNCHANGED <<serverRun, nextID, sessions, keyToSession, started>>
         \/ \E m \in Messages : StartRegister(m) \/ DropAgent(m)
         \/ ServerRestarts
<1> DEFINE Same == UNCHANGED <<serverRun, nextID, sessions, keyToSession, started>>
<1>1. ASSUME NEW m \in Messages,
             \/ Lookup(m) \/ Expire(m) \/ StartLoad(m) \/ StartFails(m) \/ Store(m)
             \/ HandleInbound(m)
             \/ TakeClear(m) \/ AskClear(m) \/ ClearAgent(m)
      PROVE  Same
  BY <1>1 DEF Lookup, Expire, StartLoad, BuildAgent, StartFails, Store, HandleInbound, LockInvoke, Invoke,
     AddPrompt, InvokeUnknown, EndTurn, AddAnswer, FailTurn, TakeClear, AskClear, ClearAgent,
     ClearHistory, serverVars, mapVars
<1>2. ASSUME NEW p \in Peers, BecomeInactive(p) PROVE Same
  BY <1>2 DEF BecomeInactive, serverVars
<1>3. ASSUME GatewayRestarts \/ UNCHANGED vars PROVE Same
  BY <1>3 DEF GatewayRestarts, vars, serverVars, mapVars
<1> QED
  BY <1>1, <1>2, <1>3 DEF Next, Handle, GetOrCreateSession, HandleClear, Terminated

LEMMA IdsStep == Inv /\ [Next]_vars => IdsAreOwn'
<1> SUFFICES ASSUME Inv, [Next]_vars PROVE IdsAreOwn'
  OBVIOUS
<1>1. IdsAreOwn /\ ServerTypes /\ TypeOK
  BY Facts DEF Inv
<1>2. CASE UNCHANGED <<serverRun, nextID, sessions, keyToSession, started>>
  BY <1>1, <1>2 DEF IdsAreOwn
<1>3. ASSUME NEW m \in Messages, StartRegister(m) PROVE IdsAreOwn'
  <2>1. /\ DOMAIN started' = 1..(Len(started) + 1)
        /\ \A k \in DOMAIN started : started'[k] = started[k]
        /\ started'[Len(started) + 1] = [id |-> NewID, run |-> serverRun]
    BY <1>1, <1>3, SessionAppended DEF StartRegister
  <2>2. serverRun' = serverRun /\ nextID' = nextID + 1 /\ NewID = nextID + 1 /\ nextID \in Nat
    BY <1>1, <1>3 DEF StartRegister, RegisterAgent, NewID, ServerTypes
  <2>3. DOMAIN started = 1..Len(started) /\ Len(started) \in Nat
    BY Facts
  <2>4. \A k \in DOMAIN started : started[k].id \in Nat
    BY Facts
  <2> QED
    BY <1>1, <2>1, <2>2, <2>3, <2>4 DEF IdsAreOwn
<1>4. ASSUME NEW m \in Messages, DropAgent(m) PROVE IdsAreOwn'
  BY <1>1, <1>4 DEF DropAgent, DropSession, mapVars, IdsAreOwn
<1>5. CASE ServerRestarts
  <2>1. serverRun' = serverRun + 1 /\ started' = started
    BY <1>5 DEF ServerRestarts, RestartServer
  <2>2. \A k \in DOMAIN started : started[k].run \in 1..serverRun
    BY Facts
  <2>3. serverRun \in Nat
    BY Facts, GatewayAssumption
  <2> QED
    BY <2>1, <2>2, <2>3 DEF IdsAreOwn
<1> QED
  BY <1>2, <1>3, <1>4, <1>5, TablesStay

LEMMA TablesAgreeStep == Inv /\ [Next]_vars => TablesAgree'
<1> SUFFICES ASSUME Inv, [Next]_vars PROVE TablesAgree'
  OBVIOUS
<1>1. TablesAgree /\ ServerTypes /\ HandlersKnow
  BY Facts DEF Inv
<1>2. \A a \in DOMAIN agents : a \in DOMAIN agents' /\ agents'[a].peer = agents[a].peer /\ agents[a].peer \in Peers
  BY Facts, AgentsStay
<1>3. CASE UNCHANGED <<serverRun, nextID, sessions, keyToSession, started>>
  BY <1>1, <1>2, <1>3 DEF TablesAgree, Known, ServerTypes
<1>4. ASSUME NEW m \in Messages, StartRegister(m) PROVE TablesAgree'
  <2> DEFINE p == PeerOf[m]
             old == keyToSession[p]
  <2>1. RegisterAgent(p, AgentOf(m)) /\ AgentOf(m) \in DOMAIN agents /\ agents[AgentOf(m)].peer = p /\ p \in Peers
    BY <1>1, <1>4, Facts DEF StartRegister, At, HandlersKnow, Knows, WithAgent
  <2>2. /\ NewID \notin DOMAIN sessions
        /\ DOMAIN sessions' = (DOMAIN sessions \ {old}) \cup {NewID}
        /\ sessions'[NewID] = AgentOf(m)
        /\ \A id \in DOMAIN sessions \ {old} : sessions'[id] = sessions[id]
        /\ keyToSession' = [keyToSession EXCEPT ![p] = NewID]
    BY <1>1, <2>1, Registered
  <2>3. keyToSession'[p] = NewID /\ \A q \in Peers \ {p} : keyToSession'[q] = keyToSession[q]
    BY <1>1, <2>1, <2>2 DEF ServerTypes
  <2>4. \A id \in DOMAIN sessions \ {old} : agents[sessions[id]].peer \in Peers \ {p}
    BY <1>1, <1>2 DEF TablesAgree, ServerTypes
  <2>5. ASSUME NEW id \in DOMAIN sessions' PROVE keyToSession'[agents'[sessions'[id]].peer] = id
    BY <1>1, <1>2, <2>1, <2>2, <2>3, <2>4 DEF TablesAgree, ServerTypes
  <2>6. ASSUME NEW q \in Peers, keyToSession'[q] # 0
        PROVE  keyToSession'[q] \in DOMAIN sessions' /\ agents'[sessions'[keyToSession'[q]]].peer = q
    <3>1. CASE q = p
      BY <1>2, <2>1, <2>2, <2>3, <3>1
    <3>2. CASE q # p
      <4> DEFINE id == keyToSession[q]
      <4>1. id \in DOMAIN sessions /\ agents[sessions[id]].peer = q /\ sessions[id] \in DOMAIN agents
        BY <1>1, <2>3, <2>6, <3>2 DEF TablesAgree, Known, ServerTypes
      <4>2. id # old
        BY <1>1, <2>1, <3>2, <4>1 DEF TablesAgree, Known, ServerTypes
      <4> QED
        BY <1>2, <2>2, <2>3, <3>2, <4>1, <4>2
    <3> QED
      BY <3>1, <3>2
  <2> QED
    BY <2>5, <2>6 DEF TablesAgree, Known
<1>5. ASSUME NEW m \in Messages, DropAgent(m) PROVE TablesAgree'
  <2> DEFINE p == agents[AgentOf(m)].peer
  <2>1. DropSession(IdOf(m), p) /\ AgentOf(m) \in DOMAIN agents /\ p \in Peers
    BY <1>1, <1>2, <1>5 DEF DropAgent, At, HandlersKnow, Knows, WithAgent
  <2>2. Known(IdOf(m)) => sessions[IdOf(m)] = AgentOf(m)
    BY <1>1, <1>5 DEF DropAgent, HandlersKnow, Knows
  <2>3. /\ DOMAIN sessions' = DOMAIN sessions \ {IdOf(m)}
        /\ \A i \in DOMAIN sessions' : sessions'[i] = sessions[i]
        /\ keyToSession' = [keyToSession EXCEPT ![p] = IF @ = IdOf(m) THEN 0 ELSE @]
    BY <2>1, Dropped
  <2>4. /\ keyToSession[p] = IdOf(m) => keyToSession'[p] = 0
        /\ keyToSession[p] # IdOf(m) => keyToSession'[p] = keyToSession[p]
        /\ \A q \in Peers \ {p} : keyToSession'[q] = keyToSession[q]
    BY <1>1, <2>1, <2>3 DEF ServerTypes
  <2>5. ASSUME NEW id \in DOMAIN sessions' PROVE keyToSession'[agents'[sessions'[id]].peer] = id
    <3>1. id \in DOMAIN sessions /\ id # IdOf(m) /\ sessions'[id] = sessions[id] /\ sessions[id] \in DOMAIN agents
      BY <1>1, <2>3 DEF ServerTypes
    <3>2. keyToSession[agents[sessions[id]].peer] = id /\ agents[sessions[id]].peer \in Peers
      BY <1>1, <1>2, <3>1 DEF TablesAgree
    <3> QED
      BY <1>2, <2>4, <3>1, <3>2
  <2>6. ASSUME NEW q \in Peers, keyToSession'[q] # 0
        PROVE  keyToSession'[q] \in DOMAIN sessions' /\ agents'[sessions'[keyToSession'[q]]].peer = q
    <3> DEFINE id == keyToSession[q]
    <3>1. keyToSession'[q] = id /\ id # 0
      BY <2>4, <2>6
    <3>2. id \in DOMAIN sessions /\ agents[sessions[id]].peer = q /\ sessions[id] \in DOMAIN agents
      BY <1>1, <3>1 DEF TablesAgree, Known, ServerTypes
    <3>3. id # IdOf(m)
      BY <2>2, <2>4, <2>6, <3>1, <3>2 DEF Known
    <3> QED
      BY <1>2, <2>3, <3>1, <3>2, <3>3
  <2> QED
    BY <2>5, <2>6 DEF TablesAgree, Known
<1>6. CASE ServerRestarts
  BY <1>6 DEF ServerRestarts, RestartServer, TablesAgree
<1> QED
  BY <1>3, <1>4, <1>5, <1>6, TablesStay

\* A handler that neither has the lock nor takes it.
LEMMA LocksUntouched ==
  ASSUME Inv, NEW m \in Messages, UNCHANGED holder,
         ~ At(m, "invoke"), ~ At(m, "running"),
         handler'[m].at \notin {"invoke", "running"},
         \A o \in Messages \ {m} : handler'[o] = handler[o]
  PROVE  LockIsReleased' /\ LockIsHeld'
BY Facts DEF Inv, MapTypes, LockIsReleased, LockIsHeld, At, Session

\* A turn that ends, or never starts, unlocks.
LEMMA LockReturned ==
  ASSUME Inv, NEW m \in Messages, Return(m), Unlock(m),
         At(m, "invoke") \/ At(m, "running")
  PROVE  LockIsReleased' /\ LockIsHeld'
<1>1. /\ handler'[m].at = "done"
      /\ \A o \in Messages \ {m} : handler'[o] = handler[o]
  BY Returned DEF Finished
<1>2. LockIsReleased /\ LockIsHeld /\ MapTypes
  BY Facts DEF Inv
<1>3. Session(m) \in DOMAIN holder /\ DOMAIN holder' = DOMAIN holder
  BY <1>2, Facts DEF Unlock, Inv, HandlersKnow, Knows, WithSession, At, MapTypes
<1>4. holder[Session(m)] = {m}
  BY <1>2, <1>3 DEF LockIsReleased, LockIsHeld
<1>5. holder'[Session(m)] = {} /\ \A k \in DOMAIN holder \ {Session(m)} : holder'[k] = holder[k]
  BY <1>3, <1>4 DEF Unlock
<1>6. \A o \in Messages \ {m} : At(o, "invoke") \/ At(o, "running") => Session(o) # Session(m)
  BY <1>2, <1>4 DEF LockIsHeld
<1>7. LockIsReleased'
  BY <1>1, <1>2, <1>3, <1>5 DEF LockIsReleased, At, Session, MapTypes
<1>8. LockIsHeld'
  <2> SUFFICES ASSUME NEW o \in Messages, handler'[o].at \in {"invoke", "running"}
               PROVE  o \in holder'[handler'[o].session]
    BY DEF LockIsHeld, At, Session
  <2>1. o # m /\ handler'[o] = handler[o]
    BY <1>1
  <2>2. Session(o) \in DOMAIN holder
    BY <2>1, Facts DEF Inv, HandlersKnow, Knows, WithSession, MapTypes, Session
  <2> QED
    BY <1>2, <1>5, <1>6, <2>1, <2>2 DEF LockIsHeld, At, Session
<1> QED
  BY <1>7, <1>8

LEMMA LocksStep == Inv /\ [Next]_vars => LockIsReleased' /\ LockIsHeld'
<1> SUFFICES ASSUME Inv, [Next]_vars PROVE LockIsReleased' /\ LockIsHeld'
  OBVIOUS
<1> DEFINE Goal == LockIsReleased' /\ LockIsHeld'
<1>0. LockIsReleased /\ LockIsHeld /\ MapTypes /\ HandlersKnow
  BY Facts DEF Inv
<1>1. ASSUME NEW m \in Messages, Lookup(m) PROVE Goal
  <2>1. /\ handler'[m].at \in {"load", "expire", "lock"}
        /\ \A o \in Messages \ {m} : handler'[o] = handler[o]
    BY <1>1, Facts DEF Lookup, Go, GoWithSession, HandlerTypes
  <2> QED
    BY <1>1, <2>1, LocksUntouched DEF Lookup, At, mapVars
<1>2. ASSUME NEW m \in Messages, Expire(m) PROVE Goal
  <2>1. /\ handler'[m].at = "load"
        /\ \A o \in Messages \ {m} : handler'[o] = handler[o]
    BY <1>2, Facts DEF Expire, Go, HandlerTypes
  <2> QED
    BY <1>2, <2>1, LocksUntouched DEF Expire, At
<1>3. ASSUME NEW m \in Messages, StartLoad(m) PROVE Goal
  <2>1. /\ handler'[m].at = "register"
        /\ \A o \in Messages \ {m} : handler'[o] = handler[o]
    BY <1>3, Facts DEF StartLoad, GoWithAgent, HandlerTypes
  <2> QED
    BY <1>3, <2>1, LocksUntouched DEF StartLoad, At, mapVars
<1>4. ASSUME NEW m \in Messages, StartFails(m) PROVE Goal
  BY <1>4, Returned, LocksUntouched DEF StartFails, At, Finished, mapVars
<1>5. ASSUME NEW m \in Messages, StartRegister(m) PROVE Goal
  <2>1. /\ handler'[m].at \in {"done", "store"}
        /\ \A o \in Messages \ {m} : handler'[o] = handler[o]
    BY <1>5, Facts DEF StartRegister, Return, GoWithSession, HandlerTypes, Finished
  <2>2. /\ \A k \in DOMAIN started : holder'[k] = holder[k]
        /\ holder'[Len(started) + 1] = {}
        /\ DOMAIN holder' = 1..(Len(started) + 1)
    BY <1>5, SessionAppended DEF StartRegister, Inv
  <2>3. DOMAIN holder = DOMAIN started /\ DOMAIN started = 1..Len(started) /\ Len(started) \in Nat
    BY <1>0, Facts DEF MapTypes
  <2>4. LockIsReleased'
    <3> SUFFICES ASSUME NEW k \in DOMAIN holder', NEW o \in holder'[k]
                 PROVE  /\ holder'[k] = {o} /\ handler'[o].session = k
                        /\ handler'[o].at \in {"invoke", "running"}
      BY DEF LockIsReleased, At, Session
    <3>1. k \in DOMAIN holder /\ o \in holder[k] /\ holder'[k] = holder[k]
      BY <2>2, <2>3
    <3>2. o \in Messages /\ holder[k] = {o} /\ Session(o) = k /\ (At(o, "invoke") \/ At(o, "running"))
      BY <1>0, <3>1 DEF LockIsReleased, MapTypes
    <3>3. o # m
      BY <1>5, <3>2 DEF StartRegister, At
    <3> QED
      BY <2>1, <3>1, <3>2, <3>3 DEF At, Session
  <2>5. LockIsHeld'
    <3> SUFFICES ASSUME NEW o \in Messages, handler'[o].at \in {"invoke", "running"}
                 PROVE  o \in holder'[handler'[o].session]
      BY DEF LockIsHeld, At, Session
    <3>1. handler'[o] = handler[o]
      BY <2>1
    <3>2. Session(o) \in DOMAIN started /\ o \in holder[Session(o)]
      BY <1>0, <3>1 DEF HandlersKnow, Knows, WithSession, LockIsHeld, At
    <3> QED
      BY <2>2, <3>1, <3>2 DEF Session
  <2> QED
    BY <2>4, <2>5
<1>6. ASSUME NEW m \in Messages, Store(m) PROVE Goal
  <2>1. /\ handler'[m].at = "lock"
        /\ \A o \in Messages \ {m} : handler'[o] = handler[o]
    BY <1>6, Facts DEF Store, Go, HandlerTypes
  <2> QED
    BY <1>6, <2>1, LocksUntouched DEF Store, At
<1>7. ASSUME NEW m \in Messages, LockInvoke(m) PROVE Goal
  <2> DEFINE k == Session(m)
  <2>1. /\ handler'[m].at = "invoke" /\ handler'[m].session = k
        /\ \A o \in Messages \ {m} : handler'[o] = handler[o]
    BY <1>7, Facts DEF LockInvoke, Go, HandlerTypes, Session
  <2>2. k \in DOMAIN holder
    BY <1>0, <1>7 DEF LockInvoke, At, HandlersKnow, Knows, WithSession, MapTypes
  <2>3. /\ holder[k] = {} /\ holder'[k] = {m} /\ DOMAIN holder' = DOMAIN holder
        /\ \A l \in DOMAIN holder \ {k} : holder'[l] = holder[l]
    BY <1>7, <2>2 DEF LockInvoke
  <2>4. ~ At(m, "invoke") /\ ~ At(m, "running")
    BY <1>7 DEF LockInvoke, At
  <2>5. LockIsReleased'
    <3> SUFFICES ASSUME NEW l \in DOMAIN holder', NEW o \in holder'[l]
                 PROVE  /\ holder'[l] = {o} /\ handler'[o].session = l
                        /\ handler'[o].at \in {"invoke", "running"}
      BY DEF LockIsReleased, At, Session
    <3>1. CASE l = k
      BY <2>1, <2>3, <3>1
    <3>2. CASE l # k
      <4>1. o \in Messages /\ holder[l] = {o} /\ Session(o) = l /\ (At(o, "invoke") \/ At(o, "running"))
        BY <1>0, <2>3, <3>2 DEF LockIsReleased, MapTypes
      <4> QED
        BY <2>1, <2>3, <2>4, <3>2, <4>1 DEF At, Session
    <3> QED
      BY <3>1, <3>2
  <2>6. LockIsHeld'
    <3> SUFFICES ASSUME NEW o \in Messages, handler'[o].at \in {"invoke", "running"}
                 PROVE  o \in holder'[handler'[o].session]
      BY DEF LockIsHeld, At, Session
    <3>1. CASE o = m
      BY <2>1, <2>3, <3>1
    <3>2. CASE o # m
      <4>1. handler'[o] = handler[o] /\ o \in holder[Session(o)] /\ Session(o) \in DOMAIN holder
        BY <1>0, <2>1, <3>2 DEF LockIsHeld, At, HandlersKnow, Knows, WithSession, MapTypes
      <4> QED
        BY <2>3, <4>1 DEF Session
    <3> QED
      BY <3>1, <3>2
  <2> QED
    BY <2>5, <2>6
<1>8. ASSUME NEW m \in Messages, Invoke(m) PROVE Goal
  <2>1. /\ handler'[m].at = "running" /\ handler'[m].session = Session(m)
        /\ \A o \in Messages \ {m} : handler'[o] = handler[o]
    BY <1>8, Facts DEF Invoke, GoWithAgent, HandlerTypes, Session
  <2>2. UNCHANGED holder /\ At(m, "invoke")
    BY <1>8 DEF Invoke, mapVars
  <2>3. \A o \in Messages : handler'[o].session = Session(o)
    BY <2>1 DEF Session
  <2>4. \A o \in Messages :
          handler'[o].at \in {"invoke", "running"} <=> (At(o, "invoke") \/ At(o, "running"))
    BY <2>1, <2>2 DEF At
  <2> QED
    BY <1>0, <2>2, <2>3, <2>4 DEF LockIsReleased, LockIsHeld, MapTypes, At, Session
<1>9. ASSUME NEW m \in Messages, InvokeUnknown(m) PROVE Goal
  BY <1>9, LockReturned DEF InvokeUnknown
<1>10. ASSUME NEW m \in Messages, EndTurn(m) PROVE Goal
  BY <1>10, LockReturned DEF EndTurn
<1>11. ASSUME NEW m \in Messages, FailTurn(m) PROVE Goal
  BY <1>11, LockReturned DEF FailTurn
<1>12. ASSUME NEW m \in Messages, TakeClear(m) PROVE Goal
  <2>1. /\ handler'[m].at \in {"done", "clear"}
        /\ \A o \in Messages \ {m} : handler'[o] = handler[o]
    BY <1>12, Facts DEF TakeClear, Return, GoWithSession, HandlerTypes, Finished
  <2> QED
    BY <1>12, <2>1, LocksUntouched DEF TakeClear, At
<1>13. ASSUME NEW m \in Messages, AskClear(m) PROVE Goal
  <2>1. /\ handler'[m].at \in {"done", "clearing"}
        /\ \A o \in Messages \ {m} : handler'[o] = handler[o]
    BY <1>13, Facts DEF AskClear, Return, GoWithAgent, HandlerTypes, Finished
  <2> QED
    BY <1>13, <2>1, LocksUntouched DEF AskClear, At, mapVars
<1>14. ASSUME NEW m \in Messages, ClearAgent(m) PROVE Goal
  <2>1. /\ handler'[m].at = "dropping"
        /\ \A o \in Messages \ {m} : handler'[o] = handler[o]
    BY <1>14, Facts DEF ClearAgent, Go, HandlerTypes
  <2> QED
    BY <1>14, <2>1, LocksUntouched DEF ClearAgent, At, mapVars
<1>15. ASSUME NEW m \in Messages, DropAgent(m) PROVE Goal
  BY <1>15, Returned, LocksUntouched DEF DropAgent, At, Finished, mapVars
<1>16. ASSUME NEW p \in Peers, BecomeInactive(p) PROVE Goal
  BY <1>0, <1>16 DEF BecomeInactive, LockIsReleased, LockIsHeld, At, Session
<1>17. CASE ServerRestarts
  BY <1>0, <1>17, Facts DEF ServerRestarts, Finished, OnServer, HandlersKnow, Knows, WithSession,
     MapTypes, LockIsReleased, LockIsHeld, At, Session
<1>18. CASE GatewayRestarts
  BY <1>0, <1>18, Facts DEF GatewayRestarts, InHand, Finished, OnServer, HandlersKnow, Knows, WithSession,
     MapTypes, LockIsReleased, LockIsHeld, At, Session
<1>19. CASE UNCHANGED vars
  BY <1>0, <1>19 DEF vars, mapVars, LockIsReleased, LockIsHeld, At, Session
<1> QED
  BY <1>1, <1>2, <1>3, <1>4, <1>5, <1>6, <1>7, <1>8, <1>9, <1>10, <1>11, <1>12, <1>13, <1>14, <1>15, <1>16, <1>17, <1>18, <1>19
     DEF Next, Handle, GetOrCreateSession, HandleInbound, HandleClear, Terminated

\* A step of one handler is none of another's.
LEMMA OwnStep ==
  ASSUME Inv, NEW m \in Messages, Handle(m), NEW o \in Messages \ {m}
  PROVE  handler'[o] = handler[o]
BY Facts DEF HandlerTypes, Handle, GetOrCreateSession, HandleInbound, HandleClear,
   Lookup, Expire, StartLoad, StartFails, StartRegister, Store, LockInvoke, Invoke, InvokeUnknown, EndTurn,
   FailTurn, TakeClear, AskClear, ClearAgent, DropAgent, Go, GoWithSession, GoWithAgent, Return

\* What a handler knows stays true while it waits.
LEMMA StillKnows ==
  ASSUME Inv, [Next]_vars, NEW o \in Messages, handler'[o] = handler[o]
  PROVE  Knows(o)'
<1>1. Knows(o) /\ ServerTypes
  BY Facts DEF Inv, HandlersKnow
<1>2. /\ handler[o].at \in WithSession =>
           Session(o) \in DOMAIN started' /\ started'[Session(o)] = started[Session(o)]
      /\ handler[o].at \in WithAgent =>
           AgentOf(o) \in DOMAIN agents' /\ agents'[AgentOf(o)].peer = agents[AgentOf(o)].peer
  BY <1>1, AgentsStay, SessionsStay DEF Knows
<1>3. ASSUME At(o, "clearing") \/ At(o, "dropping")
      PROVE  /\ IdOf(o) <= nextID'
             /\ IdOf(o) \in DOMAIN sessions' => sessions'[IdOf(o)] = AgentOf(o)
  <2>1. IdOf(o) <= nextID /\ (IdOf(o) \in DOMAIN sessions => sessions[IdOf(o)] = AgentOf(o))
    BY <1>1, <1>3 DEF Knows, Known
  <2>2. IdOf(o) \in Nat
    BY <1>1, <1>3, Facts DEF Knows, At, WithSession, IdOf
  <2>3. CASE UNCHANGED <<serverRun, nextID, sessions, keyToSession, started>>
    BY <2>1, <2>3
  <2>4. ASSUME NEW m \in Messages, StartRegister(m)
        PROVE  /\ IdOf(o) <= nextID'
               /\ IdOf(o) \in DOMAIN sessions' => sessions'[IdOf(o)] = AgentOf(o)
    <3>1. RegisterAgent(PeerOf[m], AgentOf(m)) /\ PeerOf[m] \in Peers
      BY <2>4, Facts DEF StartRegister
    <3>2. /\ DOMAIN sessions' = (DOMAIN sessions \ {keyToSession[PeerOf[m]]}) \cup {NewID}
          /\ \A id \in DOMAIN sessions \ {keyToSession[PeerOf[m]]} : sessions'[id] = sessions[id]
          /\ nextID' = nextID + 1 /\ NewID = nextID + 1
      BY <1>1, <3>1, Registered
    <3>3. nextID \in Nat
      BY <1>1 DEF ServerTypes
    <3>4. IdOf(o) <= nextID' /\ IdOf(o) # NewID
      BY <2>1, <2>2, <3>2, <3>3
    <3> QED
      BY <2>1, <3>2, <3>4
  <2>5. ASSUME NEW m \in Messages, DropAgent(m)
        PROVE  /\ IdOf(o) <= nextID'
               /\ IdOf(o) \in DOMAIN sessions' => sessions'[IdOf(o)] = AgentOf(o)
    <3>1. DropSession(IdOf(m), agents[AgentOf(m)].peer)
      BY <2>5 DEF DropAgent
    <3>2. nextID' = nextID
      BY <3>1 DEF DropSession
    <3>3. DOMAIN sessions' \subseteq DOMAIN sessions /\ \A i \in DOMAIN sessions' : sessions'[i] = sessions[i]
      BY <3>1, Dropped
    <3> QED
      BY <2>1, <3>2, <3>3
  <2>6. CASE ServerRestarts
    BY <1>3, <2>6 DEF ServerRestarts, OnServer, Finished, At
  <2> QED
    BY <2>3, <2>4, <2>5, <2>6, TablesStay
<1>4. At(o, "clearing") \/ At(o, "dropping") => started'[Session(o)] = started[Session(o)]
  BY <1>2 DEF At, WithSession
<1> QED
  BY <1>1, <1>2, <1>3, <1>4 DEF Knows, At, Session, AgentOf, IdOf, Known, WithSession, WithAgent

LEMMA KnowStep == Inv /\ [Next]_vars => HandlersKnow'
<1> SUFFICES ASSUME Inv, [Next]_vars, NEW m \in Messages, handler'[m] # handler[m]
             PROVE  Knows(m)'
  BY StillKnows DEF HandlersKnow
<1> DEFINE place == handler'[m].at
           session == handler'[m].session
           agent == handler'[m].agent
<1>0. HandlerTypes /\ Knows(m) /\ ServerTypes /\ MapTypes
  BY Facts DEF Inv, HandlersKnow
<1>1. SUFFICES ASSUME place \in WithSession \cup WithAgent
               PROVE  /\ place \in WithSession => session \in DOMAIN started'
                      /\ place \in WithAgent => agent \in DOMAIN agents'
                      /\ place = "register" => agents'[agent].peer = PeerOf[m]
                      /\ place \in {"clearing", "dropping"} =>
                           /\ started'[session].id <= nextID'
                           /\ started'[session].id \in DOMAIN sessions' =>
                                sessions'[started'[session].id] = agent
  BY DEF Knows, At, Session, AgentOf, IdOf, Known, WithSession, WithAgent
<1>2. CASE Lookup(m)
  <2>1. place = "lock" /\ session = current[PeerOf[m]] /\ current[PeerOf[m]] # 0
    BY <1>0, <1>1, <1>2 DEF Lookup, Go, GoWithSession, HandlerTypes, WithSession, WithAgent
  <2>2. session \in DOMAIN started
    BY <1>0, <2>1, Facts DEF MapTypes
  <2> QED
    BY <2>1, <2>2, SessionsStay DEF WithAgent
<1>3. CASE StartLoad(m)
  <2>1. place = "register" /\ agent = NewAgent
    BY <1>0, <1>3 DEF StartLoad, GoWithAgent, HandlerTypes
  <2>2. NewAgent \in DOMAIN agents' /\ agents'[NewAgent].peer = PeerOf[m]
    BY <1>3, Facts, Built DEF StartLoad
  <2> QED
    BY <2>1, <2>2 DEF WithSession
<1>4. CASE StartRegister(m)
  <2>1. place = "store" /\ session = Len(started) + 1
    BY <1>0, <1>1, <1>4 DEF StartRegister, Return, Finished, GoWithSession, HandlerTypes, WithSession, WithAgent
  <2>2. Len(started) + 1 \in DOMAIN started'
    BY <1>4, Facts, SessionAppended DEF StartRegister, Inv
  <2> QED
    BY <2>1, <2>2 DEF WithAgent
<1>5. CASE Store(m) \/ LockInvoke(m)
  <2>1. place \in {"lock", "invoke"} /\ session = Session(m) /\ handler[m].at \in WithSession
    BY <1>0, <1>5 DEF Store, LockInvoke, Go, At, Session, HandlerTypes, WithSession
  <2> QED
    BY <1>0, <2>1, SessionsStay DEF Knows, WithAgent
<1>6. CASE Invoke(m)
  <2>1. place = "running" /\ session = Session(m) /\ agent = sessions[IdOf(m)]
    BY <1>0, <1>6 DEF Invoke, GoWithAgent, Session, HandlerTypes
  <2>2. Session(m) \in DOMAIN started /\ sessions[IdOf(m)] \in DOMAIN agents
    BY <1>0, <1>6 DEF Invoke, At, Knows, WithSession, Known, ServerTypes
  <2> QED
    BY <2>1, <2>2, SessionsStay, AgentsStay
<1>7. CASE TakeClear(m)
  <2>1. place = "clear" /\ session = current[PeerOf[m]] /\ current[PeerOf[m]] # 0
    BY <1>0, <1>1, <1>7 DEF TakeClear, Return, Finished, GoWithSession, HandlerTypes, WithSession, WithAgent
  <2>2. session \in DOMAIN started
    BY <1>0, <2>1, Facts DEF MapTypes
  <2> QED
    BY <2>1, <2>2, SessionsStay DEF WithAgent
<1>8. CASE AskClear(m)
  <2>1. place = "clearing" /\ session = Session(m) /\ agent = sessions[IdOf(m)] /\ Known(IdOf(m))
    BY <1>0, <1>1, <1>8 DEF AskClear, Return, Finished, GoWithAgent, Session, HandlerTypes, WithSession, WithAgent
  <2>2. Session(m) \in DOMAIN started /\ sessions[IdOf(m)] \in DOMAIN agents /\ IdOf(m) \in 1..nextID
    BY <1>0, <1>8, <2>1 DEF AskClear, At, Knows, WithSession, Known, ServerTypes
  <2>3. UNCHANGED <<nextID, sessions, started, agents>> /\ nextID \in Nat
    BY <1>0, <1>8 DEF AskClear, serverVars, mapVars, ServerTypes
  <2> QED
    BY <2>1, <2>2, <2>3 DEF IdOf
<1>9. CASE ClearAgent(m)
  <2>1. place = "dropping" /\ session = Session(m) /\ agent = AgentOf(m)
    BY <1>0, <1>9 DEF ClearAgent, Go, Session, AgentOf, HandlerTypes
  <2>2. /\ Session(m) \in DOMAIN started /\ AgentOf(m) \in DOMAIN agents
        /\ IdOf(m) <= nextID
        /\ IdOf(m) \in DOMAIN sessions => sessions[IdOf(m)] = AgentOf(m)
    BY <1>0, <1>9 DEF ClearAgent, At, Knows, WithSession, WithAgent, Known
  <2>3. UNCHANGED <<nextID, sessions, started>>
    BY <1>9 DEF ClearAgent, ClearHistory, mapVars
  <2> QED
    BY <2>1, <2>2, <2>3, AgentsStay DEF IdOf
<1>10. CASE \/ Expire(m) \/ StartFails(m) \/ InvokeUnknown(m) \/ EndTurn(m) \/ FailTurn(m) \/ DropAgent(m)
            \/ ServerRestarts \/ GatewayRestarts
  <2>1. place \in {"load", "done"}
    BY <1>0, <1>10 DEF Expire, StartFails, InvokeUnknown, EndTurn, FailTurn, DropAgent, ServerRestarts,
       GatewayRestarts, Go, Return, Finished, HandlerTypes
  <2> QED
    BY <1>1, <2>1 DEF WithSession, WithAgent
<1>11. ~ UNCHANGED vars /\ \A p \in Peers : ~ BecomeInactive(p)
  BY DEF vars, BecomeInactive
<1>12. Handle(m) \/ ServerRestarts \/ GatewayRestarts
  BY <1>11, OwnStep DEF Next, Terminated
<1> QED
  BY <1>2, <1>3, <1>4, <1>5, <1>6, <1>7, <1>8, <1>9, <1>10, <1>12
     DEF Handle, GetOrCreateSession, HandleInbound, HandleClear

\* Sessions that go, and handlers that leave the server, take no agent twice.
LEMMA DistinctShrinks ==
  ASSUME Inv, [Next]_vars,
         DOMAIN sessions' \subseteq DOMAIN sessions,
         \A i \in DOMAIN sessions' : sessions'[i] = sessions[i],
         \A o \in Messages :
           handler'[o] = handler[o] \/ handler'[o].at \notin {"register", "running"}
  PROVE  AgentsAreDistinct'
<1>1. AgentsAreDistinct /\ HandlersKnow
  BY DEF Inv
<1>2. \A o \in Messages : At(o, "running") => started'[Session(o)] = started[Session(o)]
  BY <1>1, SessionsStay DEF HandlersKnow, Knows, At, WithSession
<1> QED
  BY <1>1, <1>2 DEF AgentsAreDistinct, At, Session, AgentOf, IdOf

LEMMA DistinctStep == Inv /\ [Next]_vars => AgentsAreDistinct'
<1> SUFFICES ASSUME Inv, [Next]_vars PROVE AgentsAreDistinct'
  OBVIOUS
<1>0. AgentsAreDistinct /\ HandlersKnow /\ HandlerTypes /\ ServerTypes
  BY Facts DEF Inv
<1>1. ASSUME NEW m \in Messages, StartLoad(m) PROVE AgentsAreDistinct'
  <2>1. /\ handler'[m].at = "register" /\ handler'[m].agent = NewAgent
        /\ \A o \in Messages \ {m} : handler'[o] = handler[o]
        /\ UNCHANGED <<sessions, started>>
    BY <1>0, <1>1 DEF StartLoad, GoWithAgent, BuildAgent, HandlerTypes, mapVars
  <2>2. NewAgent \notin DOMAIN agents
    BY <1>1, Facts, Built DEF StartLoad
  <2>3. \A i \in DOMAIN sessions : sessions[i] # NewAgent
    BY <1>0, <2>2 DEF ServerTypes
  <2>4. \A o \in Messages : At(o, "register") \/ At(o, "running") => AgentOf(o) # NewAgent
    BY <1>0, <2>2 DEF HandlersKnow, Knows, At, WithAgent
  <2> QED
    BY <1>0, <2>1, <2>3, <2>4 DEF AgentsAreDistinct, At, Session, AgentOf, IdOf
<1>2. ASSUME NEW m \in Messages, StartRegister(m) PROVE AgentsAreDistinct'
  <2> DEFINE old == keyToSession[PeerOf[m]]
  <2>1. /\ handler'[m].at \in {"store", "done"}
        /\ \A o \in Messages \ {m} : handler'[o] = handler[o]
    BY <1>0, <1>2 DEF StartRegister, Return, Finished, GoWithSession, HandlerTypes
  <2>2. RegisterAgent(PeerOf[m], AgentOf(m)) /\ PeerOf[m] \in Peers /\ At(m, "register")
    BY <1>2, Facts DEF StartRegister
  <2>3. /\ NewID \notin DOMAIN sessions
        /\ DOMAIN sessions' = (DOMAIN sessions \ {old}) \cup {NewID}
        /\ sessions'[NewID] = AgentOf(m)
        /\ \A i \in DOMAIN sessions \ {old} : sessions'[i] = sessions[i]
    BY <1>0, <2>2, Registered
  <2>4. /\ \A i \in DOMAIN sessions : sessions[i] # AgentOf(m)
        /\ \A o \in Messages \ {m} :
             At(o, "register") \/ At(o, "running") => AgentOf(o) # AgentOf(m)
    BY <1>0, <2>2 DEF AgentsAreDistinct
  <2>5. \A o \in Messages : At(o, "running") => started'[Session(o)] = started[Session(o)]
    BY <1>0, SessionsStay DEF HandlersKnow, Knows, At, WithSession
  <2>6. \A i, j \in DOMAIN sessions' : sessions'[i] = sessions'[j] => i = j
    BY <1>0, <2>3, <2>4 DEF AgentsAreDistinct
  <2>7. ASSUME NEW o \in Messages, handler'[o].at = "register"
        PROVE  /\ \A i \in DOMAIN sessions' : sessions'[i] # handler'[o].agent
               /\ \A q \in Messages \ {o} :
                    handler'[q].at \in {"register", "running"} => handler'[q].agent # handler'[o].agent
    BY <1>0, <2>1, <2>3, <2>4, <2>7 DEF AgentsAreDistinct, At, AgentOf
  <2>8. ASSUME NEW o \in Messages, handler'[o].at = "running"
        PROVE  /\ \A i \in DOMAIN sessions' :
                    sessions'[i] = handler'[o].agent => i = started'[handler'[o].session].id
               /\ \A q \in Messages :
                    handler'[q].at = "running" /\ handler'[q].agent = handler'[o].agent =>
                      started'[handler'[q].session].id = started'[handler'[o].session].id
    BY <1>0, <2>1, <2>3, <2>4, <2>5, <2>8 DEF AgentsAreDistinct, At, AgentOf, Session, IdOf
  <2> QED
    BY <2>6, <2>7, <2>8 DEF AgentsAreDistinct, At, AgentOf, Session, IdOf
<1>3. ASSUME NEW m \in Messages, Invoke(m) PROVE AgentsAreDistinct'
  <2>1. /\ handler'[m].at = "running"
        /\ handler'[m].session = Session(m) /\ handler'[m].agent = sessions[IdOf(m)]
        /\ \A o \in Messages \ {m} : handler'[o] = handler[o]
        /\ UNCHANGED <<sessions, started>>
    BY <1>0, <1>3 DEF Invoke, GoWithAgent, AddPrompt, HandlerTypes, Session, mapVars
  <2>2. IdOf(m) \in DOMAIN sessions
    BY <1>3 DEF Invoke, Known
  <2>3. ASSUME NEW o \in Messages, handler'[o].at = "register"
        PROVE  /\ \A i \in DOMAIN sessions' : sessions'[i] # handler'[o].agent
               /\ \A q \in Messages \ {o} :
                    handler'[q].at \in {"register", "running"} => handler'[q].agent # handler'[o].agent
    BY <1>0, <2>1, <2>2, <2>3 DEF AgentsAreDistinct, At, AgentOf
  <2>4. ASSUME NEW o \in Messages, handler'[o].at = "running"
        PROVE  /\ \A i \in DOMAIN sessions' :
                    sessions'[i] = handler'[o].agent => i = started'[handler'[o].session].id
               /\ \A q \in Messages :
                    handler'[q].at = "running" /\ handler'[q].agent = handler'[o].agent =>
                      started'[handler'[q].session].id = started'[handler'[o].session].id
    BY <1>0, <2>1, <2>2, <2>4 DEF AgentsAreDistinct, At, AgentOf, Session, IdOf
  <2> QED
    BY <1>0, <2>1, <2>3, <2>4 DEF AgentsAreDistinct, At, AgentOf, Session, IdOf
<1>4. ASSUME NEW m \in Messages, HandleClear(m) PROVE AgentsAreDistinct'
  <2>1. handler'[m].at \in {"clear", "clearing", "dropping", "done"}
    BY <1>0, <1>4 DEF HandleClear, TakeClear, AskClear, ClearAgent, DropAgent, Go, Return, Finished,
       GoWithSession, GoWithAgent, HandlerTypes
  <2>2. \A o \in Messages \ {m} : handler'[o] = handler[o]
    BY <1>4, OwnStep DEF Handle
  <2>3. CASE DropAgent(m)
    <3>1. DropSession(IdOf(m), agents[AgentOf(m)].peer)
      BY <2>3 DEF DropAgent
    <3>2. DOMAIN sessions' \subseteq DOMAIN sessions /\ \A i \in DOMAIN sessions' : sessions'[i] = sessions[i]
      BY <3>1, Dropped
    <3> QED
      BY <2>1, <2>2, <3>2, DistinctShrinks
  <2>4. CASE ~ DropAgent(m)
    <3>1. UNCHANGED sessions
      BY <1>4, <2>4 DEF HandleClear, TakeClear, AskClear, ClearAgent, ClearHistory, serverVars
    <3> QED
      BY <2>1, <2>2, <3>1, DistinctShrinks
  <2> QED
    BY <2>3, <2>4
<1>5. ASSUME NEW m \in Messages,
             \/ Lookup(m) \/ Expire(m) \/ StartFails(m) \/ Store(m)
             \/ LockInvoke(m) \/ InvokeUnknown(m) \/ EndTurn(m) \/ FailTurn(m)
      PROVE  AgentsAreDistinct'
  <2>1. handler'[m].at \in {"expire", "load", "lock", "invoke", "done"}
    BY <1>0, <1>5 DEF Lookup, Expire, StartFails, Store, LockInvoke, InvokeUnknown, EndTurn, FailTurn,
       Go, Return, Finished, GoWithSession, HandlerTypes
  <2>2. \A o \in Messages \ {m} : handler'[o] = handler[o]
    BY <1>5, OwnStep DEF Handle, GetOrCreateSession, HandleInbound
  <2>3. UNCHANGED sessions
    BY <1>5 DEF Lookup, Expire, StartFails, Store, LockInvoke, InvokeUnknown, EndTurn, AddAnswer, FailTurn,
       serverVars
  <2> QED
    BY <2>1, <2>2, <2>3, DistinctShrinks
<1>6. CASE ServerRestarts
  BY <1>0, <1>6, DistinctShrinks DEF ServerRestarts, RestartServer, Finished, HandlerTypes
<1>7. CASE GatewayRestarts
  BY <1>0, <1>7, DistinctShrinks DEF GatewayRestarts, Finished, serverVars, HandlerTypes
<1>8. ASSUME (\E p \in Peers : BecomeInactive(p)) \/ UNCHANGED vars PROVE AgentsAreDistinct'
  BY <1>8, DistinctShrinks DEF BecomeInactive, vars, serverVars
<1> QED
  BY <1>1, <1>2, <1>3, <1>4, <1>5, <1>6, <1>7, <1>8
     DEF Next, Handle, GetOrCreateSession, HandleInbound, Terminated

\* Owned after a step.
OwnedNext(k, p) ==
  started'[k].run = serverRun' /\ started'[k].id \in DOMAIN sessions' =>
    agents'[sessions'[started'[k].id]].peer = p

\* Whose agent a session of the running server leads to never changes.
LEMMA StillOwned ==
  ASSUME Inv, [Next]_vars, NEW k \in DOMAIN started, NEW p \in Peers, Owned(k, p)
  PROVE  OwnedNext(k, p)
<1> DEFINE id == started[k].id
<1>1. started'[k] = started[k]
  BY SessionsStay
<1>2. id \in Nat /\ started[k].run \in 1..serverRun /\ serverRun \in Nat
  BY Facts, GatewayAssumption
<1>3. ServerTypes /\ IdsAreOwn
  BY Facts DEF Inv
<1>4. SUFFICES ASSUME started[k].run = serverRun', id \in DOMAIN sessions'
               PROVE  agents'[sessions'[id]].peer = p
  BY <1>1 DEF OwnedNext
<1>5. serverRun' # serverRun + 1
  BY <1>2, <1>4
<1>6. ~ ServerRestarts
  BY <1>5 DEF ServerRestarts, RestartServer
<1>7. serverRun' = serverRun /\ id \in DOMAIN sessions /\ sessions'[id] = sessions[id]
  <2>1. CASE UNCHANGED <<serverRun, nextID, sessions, keyToSession, started>>
    BY <1>4, <2>1
  <2>2. ASSUME NEW m \in Messages, StartRegister(m)
        PROVE  serverRun' = serverRun /\ id \in DOMAIN sessions /\ sessions'[id] = sessions[id]
    <3>1. RegisterAgent(PeerOf[m], AgentOf(m)) /\ PeerOf[m] \in Peers
      BY <2>2, Facts DEF StartRegister
    <3>2. /\ DOMAIN sessions' = (DOMAIN sessions \ {keyToSession[PeerOf[m]]}) \cup {NewID}
          /\ \A i \in DOMAIN sessions \ {keyToSession[PeerOf[m]]} : sessions'[i] = sessions[i]
          /\ NewID = nextID + 1
      BY <1>3, <3>1, Registered
    <3>3. serverRun' = serverRun
      BY <3>1 DEF RegisterAgent
    <3>4. id <= nextID /\ nextID \in Nat
      BY <1>3, <1>4, <3>3 DEF IdsAreOwn, ServerTypes
    <3>5. id # NewID
      BY <1>2, <3>2, <3>4
    <3> QED
      BY <1>4, <3>2, <3>3, <3>5
  <2>3. ASSUME NEW m \in Messages, DropAgent(m)
        PROVE  serverRun' = serverRun /\ id \in DOMAIN sessions /\ sessions'[id] = sessions[id]
    <3>1. DropSession(IdOf(m), agents[AgentOf(m)].peer)
      BY <2>3 DEF DropAgent
    <3>2. serverRun' = serverRun
      BY <3>1 DEF DropSession
    <3> QED
      BY <1>4, <3>1, <3>2, Dropped
  <2> QED
    BY <1>6, <2>1, <2>2, <2>3, TablesStay
<1>8. agents[sessions[id]].peer = p /\ sessions[id] \in DOMAIN agents
  BY <1>3, <1>4, <1>7 DEF Owned, Known, ServerTypes
<1> QED
  BY <1>7, <1>8, AgentsStay

LEMMA OwnedStep == Inv /\ [Next]_vars => SessionsAreOwn'
<1> SUFFICES ASSUME Inv, [Next]_vars PROVE SessionsAreOwn'
  OBVIOUS
<1>0. SessionsAreOwn /\ HandlersKnow /\ HandlerTypes /\ MapTypes /\ DOMAIN started = 1..Len(started)
  BY Facts DEF Inv
<1>1. \A p \in Peers : current[p] # 0 => current[p] \in DOMAIN started /\ Owned(current[p], p)
  BY <1>0 DEF SessionsAreOwn, MapTypes
<1>2. \A m \in Messages : handler[m].at \in WithSession =>
        Session(m) \in DOMAIN started /\ Owned(Session(m), PeerOf[m])
  BY <1>0 DEF SessionsAreOwn, HandlersKnow, Knows
<1>3. ASSUME NEW m \in Messages, handler'[m].at \in WithSession
      PROVE  OwnedNext(handler'[m].session, PeerOf[m])
  <2>1. CASE handler[m].at \in WithSession /\ handler'[m].session = Session(m)
    BY <1>2, <2>1, StillOwned, Facts
  <2>2. CASE current[PeerOf[m]] # 0 /\ handler'[m].session = current[PeerOf[m]]
    BY <1>1, <2>2, StillOwned, Facts
  <2>3. CASE StartRegister(m)
    <3>1. handler'[m].session = Len(started) + 1
      BY <1>0, <1>3, <2>3 DEF StartRegister, Return, Finished, GoWithSession, HandlerTypes, WithSession
    <3>2. started'[Len(started) + 1] = [id |-> NewID, run |-> serverRun]
      BY <2>3, SessionAppended DEF StartRegister, Inv
    <3>3. RegisterAgent(PeerOf[m], AgentOf(m)) /\ PeerOf[m] \in Peers
      BY <2>3, Facts DEF StartRegister
    <3>4. sessions'[NewID] = AgentOf(m)
      BY <3>3, Facts, Registered
    <3>5. AgentOf(m) \in DOMAIN agents /\ agents[AgentOf(m)].peer = PeerOf[m]
      BY <1>0, <2>3 DEF StartRegister, At, HandlersKnow, Knows, WithAgent
    <3>6. agents' = agents
      BY <3>3 DEF RegisterAgent
    <3> QED
      BY <3>1, <3>2, <3>4, <3>5, <3>6 DEF OwnedNext
  <2>4. CASE Handle(m) /\ ~ StartRegister(m)
    <3>1. \/ handler[m].at \in WithSession /\ handler'[m].session = Session(m)
          \/ current[PeerOf[m]] # 0 /\ handler'[m].session = current[PeerOf[m]]
      BY <1>0, <1>3, <2>4 DEF HandlerTypes, Handle, GetOrCreateSession, HandleInbound, HandleClear,
         Lookup, Expire, StartLoad, StartFails, Store, LockInvoke, Invoke, InvokeUnknown, EndTurn, FailTurn,
         TakeClear, AskClear, ClearAgent, DropAgent, Go, GoWithSession, GoWithAgent, Return, Finished,
         At, Session, WithSession
    <3> QED
      BY <2>1, <2>2, <3>1
  <2>5. CASE ServerRestarts \/ GatewayRestarts
    <3>1. handler'[m] = handler[m]
      BY <1>3, <2>5 DEF ServerRestarts, GatewayRestarts, Finished, WithSession
    <3> QED
      BY <1>3, <2>1, <3>1 DEF Session
  <2>6. CASE handler'[m] = handler[m]
    BY <1>3, <2>1, <2>6 DEF Session
  <2>7. ASSUME (\E p \in Peers : BecomeInactive(p)) \/ UNCHANGED vars PROVE handler'[m] = handler[m]
    BY <2>7 DEF BecomeInactive, vars
  <2> QED
    BY <2>3, <2>4, <2>5, <2>6, <2>7, OwnStep DEF Next, Terminated
<1>4. ASSUME NEW p \in Peers, current'[p] # 0 PROVE OwnedNext(current'[p], p)
  <2>1. CASE current'[p] = current[p]
    BY <1>1, <1>4, <2>1, StillOwned
  <2>2. ASSUME NEW m \in Messages, Store(m), p = PeerOf[m] PROVE OwnedNext(current'[p], p)
    <3>1. current'[p] = Session(m) /\ handler[m].at \in WithSession
      BY <1>0, <2>2 DEF Store, At, MapTypes, WithSession
    <3> QED
      BY <1>2, <2>2, <3>1, StillOwned
  <2>3. ASSUME NEW m \in Messages, Handle(m), ~ (Store(m) /\ p = PeerOf[m]) PROVE current'[p] = current[p]
    BY <1>0, <1>4, <2>3 DEF MapTypes, Handle, GetOrCreateSession, HandleInbound, HandleClear,
       Lookup, Expire, StartLoad, StartFails, StartRegister, Store, LockInvoke, Invoke, InvokeUnknown,
       EndTurn, FailTurn, TakeClear, AskClear, ClearAgent, DropAgent, mapVars
  <2>4. ASSUME (\E q \in Peers : BecomeInactive(q)) \/ ServerRestarts \/ GatewayRestarts \/ UNCHANGED vars
        PROVE  current'[p] = current[p]
    BY <1>4, <2>4 DEF BecomeInactive, ServerRestarts, GatewayRestarts, vars, mapVars
  <2> QED
    BY <2>1, <2>2, <2>3, <2>4 DEF Next, Terminated
<1> QED
  BY <1>3, <1>4 DEF SessionsAreOwn, Session, Owned, OwnedNext, Known

LEMMA OwnAgentStep == Inv /\ [Next]_vars => OwnAgent'
<1> SUFFICES ASSUME Inv, [Next]_vars, NEW m \in Messages,
                    handler'[m].at = "running",
                    started'[handler'[m].session].run = serverRun'
             PROVE  agents'[handler'[m].agent].peer = PeerOf[m]
  BY DEF OwnAgent, At, Fresh, AgentOf, Session
<1>1. HandlersKnow /\ HandlerTypes /\ SessionsAreOwn /\ OwnAgent /\ ServerTypes
  BY Facts DEF Inv
<1>2. CASE handler'[m] = handler[m]
  <2>1. /\ AgentOf(m) \in DOMAIN agents /\ Session(m) \in DOMAIN started
        /\ At(m, "running")
    BY <1>1, <1>2 DEF HandlersKnow, Knows, At, WithSession, WithAgent
  <2>2. started'[Session(m)] = started[Session(m)]
    BY <2>1, SessionsStay
  <2>3. ~ ServerRestarts
    BY <1>2 DEF ServerRestarts, OnServer, Finished
  <2>4. serverRun' = serverRun
    BY <2>3, TablesStay DEF StartRegister, RegisterAgent, DropAgent, DropSession
  <2>5. agents[AgentOf(m)].peer = PeerOf[m]
    BY <1>1, <1>2, <2>1, <2>2, <2>4 DEF OwnAgent, Fresh, Session
  <2> QED
    BY <1>2, <2>1, <2>5, AgentsStay DEF AgentOf
<1>3. CASE Invoke(m)
  <2>1. /\ At(m, "invoke") /\ Known(IdOf(m))
        /\ handler'[m].agent = sessions[IdOf(m)] /\ handler'[m].session = Session(m)
        /\ UNCHANGED <<serverRun, started>>
    BY <1>1, <1>3 DEF Invoke, AddPrompt, GoWithAgent, HandlerTypes, Session, mapVars
  <2>2. Owned(Session(m), PeerOf[m]) /\ sessions[IdOf(m)] \in DOMAIN agents
    BY <1>1, <2>1 DEF SessionsAreOwn, At, WithSession, ServerTypes, Known
  <2>3. agents[sessions[IdOf(m)]].peer = PeerOf[m]
    BY <2>1, <2>2 DEF Owned, IdOf
  <2> QED
    BY <2>1, <2>2, <2>3, AgentsStay
<1>4. CASE Handle(m) /\ ~ Invoke(m)
  <2>1. handler'[m].at # "running"
    BY <1>1, <1>4 DEF HandlerTypes, Handle, GetOrCreateSession, HandleInbound, HandleClear, Lookup, Expire,
       StartLoad, StartFails, StartRegister, Store, LockInvoke, InvokeUnknown, EndTurn, FailTurn, TakeClear,
       AskClear, ClearAgent, DropAgent, Go, GoWithSession, GoWithAgent, Return, Finished
  <2> QED
    BY <2>1
<1>5. CASE ServerRestarts \/ GatewayRestarts
  BY <1>2, <1>5 DEF ServerRestarts, GatewayRestarts, Finished
<1>6. ASSUME (\E p \in Peers : BecomeInactive(p)) \/ UNCHANGED vars PROVE handler'[m] = handler[m]
  BY <1>6 DEF BecomeInactive, vars
<1> QED
  BY <1>2, <1>3, <1>4, <1>5, <1>6, OwnStep DEF Next, Terminated

LEMMA InitInv == Init => Inv
<1> SUFFICES ASSUME Init PROVE Inv
  OBVIOUS
<1> USE DEF Init, ServerInit
<1>1. TypeOK
  <2>1. /\ started = <<>> /\ holder = <<>> /\ agents = <<>> /\ expired = {}
        /\ DOMAIN started = {} /\ Len(started) = 0 /\ Len(agents) = 0
    OBVIOUS
  <2>2. agents \in Seq(Agent) /\ started \in Seq([id : Nat \ {0}, run : 1..serverRun])
    BY <2>1, EmptySeq
  <2>3. holder \in [DOMAIN started -> SUBSET Messages]
    BY <2>1
  <2>4. serverRun \in 1..(MaxMishaps + 1) /\ gatewayRun \in 1..(MaxMishaps + 1) /\ nextID \in Nat
    BY GatewayAssumption
  <2>5. keyToSession \in [Peers -> 0..nextID] /\ file \in [Peers -> SUBSET Messages]
    OBVIOUS
  <2>6. current \in [Peers -> 0..Len(started)] /\ expired \subseteq DOMAIN started
    BY <2>1
  <2>7. handler \in [Messages -> [at : Places, session : 0..Len(started), agent : 0..Len(agents)]]
    BY <2>1 DEF Places
  <2>8. kept \in [Peers -> SUBSET Messages] /\ forgotten \in [Peers -> SUBSET Messages]
    OBVIOUS
  <2> QED
    BY <2>2, <2>3, <2>4, <2>5, <2>6, <2>7, <2>8 DEF TypeOK
<1>2. IdsAreOwn
  BY DEF IdsAreOwn
<1>3. HandlersKnow
  BY DEF HandlersKnow, Knows, WithSession, WithAgent, At
<1>4. AgentsAreDistinct
  BY DEF AgentsAreDistinct, At
<1>5. TablesAgree
  BY DEF TablesAgree
<1>6. LockIsReleased /\ LockIsHeld
  BY DEF LockIsReleased, LockIsHeld, At
<1>7. SessionsAreOwn
  BY DEF SessionsAreOwn, WithSession
<1>8. OwnAgent
  BY DEF OwnAgent, At
<1> QED
  BY <1>1, <1>2, <1>3, <1>4, <1>5, <1>6, <1>7, <1>8 DEF Inv

LEMMA Invariance == Spec => []Inv
<1>1. Inv /\ [Next]_vars => Inv'
  BY TypeStep, IdsStep, KnowStep, DistinctStep, TablesAgreeStep, LocksStep, OwnedStep, OwnAgentStep DEF Inv
<1> QED
  BY InitInv, <1>1, PTL DEF Spec
-----------------------------------------------------------------------------
(***************************************************************************)
(* The tables of gateway and server and the handlers' locals keep their    *)
(* types; no table points at an entry that is not there.                   *)
(***************************************************************************)
THEOREM TypeCorrect == Spec => []TypeOK
<1>1. Inv => TypeOK
  BY DEF Inv
<1> QED
  BY Invariance, <1>1, PTL

(***************************************************************************)
(* No two turns run at once on one agent (session.go:35-37), for ids that  *)
(* the running server has issued: two such turns would have found the      *)
(* agent under one id, hence in one session, whose lock both would hold.   *)
(***************************************************************************)
THEOREM TurnsExcludeEachOther == Spec => []OneTurnPerAgent
<1>1. Inv => OneTurnPerAgent
  <2> SUFFICES ASSUME Inv, NEW m \in Messages, NEW o \in Messages,
                      m # o, At(m, "running"), At(o, "running"), Fresh(m), Fresh(o),
                      AgentOf(m) = AgentOf(o)
               PROVE  FALSE
    BY DEF OneTurnPerAgent
  <2>1. IdOf(m) = IdOf(o)
    BY DEF Inv, AgentsAreDistinct
  <2>2. Session(m) \in DOMAIN started /\ Session(o) \in DOMAIN started
    BY DEF Inv, HandlersKnow, Knows, At, WithSession
  <2>3. Session(m) = Session(o)
    BY <2>1, <2>2 DEF Inv, IdsAreOwn, Fresh, IdOf
  <2>4. m \in holder[Session(m)] /\ o \in holder[Session(m)]
    BY <2>3 DEF Inv, LockIsHeld
  <2>5. Session(m) \in DOMAIN holder
    BY <2>2 DEF Inv, TypeOK
  <2> QED
    BY <2>4, <2>5 DEF Inv, LockIsReleased
<1> QED
  BY Invariance, <1>1, PTL

(***************************************************************************)
(* A session's lock has at most one holder, a message that is about to run *)
(* its turn or runs it, however turns, agents and processes end            *)
(* (gateway.go:139).                                                       *)
(***************************************************************************)
THEOREM LocksAreReleased == Spec => []LockIsReleased
<1>1. Inv => LockIsReleased
  BY DEF Inv
<1> QED
  BY Invariance, <1>1, PTL

(***************************************************************************)
(* The server reaches exactly one agent for each peer it knows, the one    *)
(* under the id in its key table (server.go:33-35).                        *)
(***************************************************************************)
THEOREM OneAgentPerPeer == Spec => []OneLiveAgent
<1>1. Inv => OneLiveAgent
  <2> SUFFICES ASSUME Inv, NEW p \in Peers
               PROVE  {id \in DOMAIN sessions : agents[sessions[id]].peer = p} = {keyToSession[p]} \ {0}
    BY DEF OneLiveAgent
  <2>1. \A id \in DOMAIN sessions : agents[sessions[id]].peer = p => id = keyToSession[p] /\ id # 0
    BY Facts DEF Inv, TablesAgree, ServerTypes
  <2>2. keyToSession[p] # 0 =>
          keyToSession[p] \in DOMAIN sessions /\ agents[sessions[keyToSession[p]]].peer = p
    BY DEF Inv, TablesAgree, Known
  <2> QED
    BY <2>1, <2>2
<1> QED
  BY Invariance, <1>1, PTL

(***************************************************************************)
(* A turn that goes by an id of the running server runs on an agent of its *)
(* own peer.  The run that finds PeersAreIsolated violated is the case the *)
(* theorem excludes: an id of an earlier run of the server.                *)
(***************************************************************************)
THEOREM TurnsRunOnOwnAgent == Spec => []OwnAgent
<1>1. Inv => OwnAgent
  BY DEF Inv
<1> QED
  BY Invariance, <1>1, PTL
-----------------------------------------------------------------------------
(* Peers that send one message at a time.                                  *)

\* Requests on the server that go on with an agent of theirs: unless an id of
\* an earlier run was honoured, it is the running server's id that led to it.
WithPeer == {"running", "clearing", "dropping"}

Rightful(m) ==
  handler[m].at \in WithPeer =>
    /\ Fresh(m) /\ agents[AgentOf(m)].peer = PeerOf[m]
    /\ Known(IdOf(m)) => sessions[IdOf(m)] = AgentOf(m)

\* Nobody has heard of a message whose turn has not begun.
Unread(m) ==
  handler[m].at \notin {"running", "done"} =>
    /\ \A a \in DOMAIN agents : m \notin agents[a].history
    /\ \A p \in Peers : m \notin file[p] /\ m \notin forgotten[p]

\* A quiet peer has one message in hand, and while that starts a session or
\* clears one no other is to be found.
Between == {"load", "register", "store", "clear", "clearing", "dropping"}

Alone(p) ==
  \A m \in Messages : PeerOf[m] = p /\ InHand(m) =>
    /\ \A o \in Messages : PeerOf[o] = p /\ InHand(o) => o = m
    /\ handler[m].at \in Between => current[p] = 0

\* The session it has, or is about to have, is known to the server.
Served(p) ==
  /\ current[p] # 0 /\ started[current[p]].run = serverRun => Known(started[current[p]].id)
  /\ \A m \in Messages :
       PeerOf[m] = p /\ handler[m].at \in WithSession /\ Fresh(m) => Known(IdOf(m))

\* A conversation has the turns that were kept, and none that were forgotten.
Continues(p, turns) == kept[p] \subseteq turns /\ forgotten[p] \cap turns = {}

Remembered(p) ==
  /\ Continues(p, file[p])
  /\ \A id \in DOMAIN sessions :
       agents[sessions[id]].peer = p => Continues(p, agents[sessions[id]].history)
  /\ \A m \in Messages : PeerOf[m] = p =>
       /\ At(m, "register") => Continues(p, agents[AgentOf(m)].history)
       /\ At(m, "running") => m \notin forgotten[p]

QuietInv ==
  /\ \A m \in Messages : Unread(m)
  /\ \A p \in alone : Alone(p)
  /\ ~crossed => /\ \A m \in Messages : Rightful(m)
                 /\ \A p \in alone : Served(p) /\ Remembered(p)
-----------------------------------------------------------------------------
\* The steps that take a handler further, and what it goes on with.
LEMMA Moves ==
  ASSUME Inv, [Next]_vars, NEW m \in Messages
  PROVE  \/ handler'[m] = handler[m]
         \/ Handle(m) /\ \A o \in Messages \ {m} : handler'[o] = handler[o]
         \/ (ServerRestarts \/ GatewayRestarts) /\ handler'[m] = Finished
<1>1. ASSUME NEW o \in Messages, Handle(o) PROVE \A x \in Messages \ {o} : handler'[x] = handler[x]
  BY <1>1, OwnStep
<1>2. ASSUME ServerRestarts \/ GatewayRestarts
      PROVE  handler'[m] = handler[m] \/ handler'[m] = Finished
  BY <1>2 DEF ServerRestarts, GatewayRestarts
<1>3. ASSUME (\E p \in Peers : BecomeInactive(p)) \/ UNCHANGED vars PROVE handler'[m] = handler[m]
  BY <1>3 DEF BecomeInactive, vars
<1> QED
  BY <1>1, <1>2, <1>3 DEF Next, Terminated

LEMMA Transitions ==
  ASSUME Inv, NEW m \in Messages
  PROVE  /\ Lookup(m) => /\ At(m, "inbox")
                         /\ \/ handler'[m].at = "load" /\ current[PeerOf[m]] = 0
                            \/ handler'[m].at = "expire"
                            \/ /\ handler'[m].at = "lock" /\ current[PeerOf[m]] # 0
                               /\ handler'[m].session = current[PeerOf[m]]
         /\ Expire(m) => At(m, "expire") /\ handler'[m].at = "load"
         /\ StartLoad(m) => /\ At(m, "load") /\ handler'[m].at = "register"
                            /\ handler'[m].agent = NewAgent
         /\ StartRegister(m) => /\ At(m, "register")
                                /\ \/ handler'[m].at = "done"
                                   \/ /\ handler'[m].at = "store"
                                      /\ handler'[m].session = Len(started) + 1
         /\ Store(m) => /\ At(m, "store") /\ handler'[m].at = "lock"
                        /\ handler'[m].session = Session(m)
         /\ LockInvoke(m) => /\ At(m, "lock") /\ handler'[m].at = "invoke"
                             /\ handler'[m].session = Session(m)
         /\ Invoke(m) => /\ At(m, "invoke") /\ handler'[m].at = "running"
                         /\ handler'[m].session = Session(m)
                         /\ handler'[m].agent = sessions[IdOf(m)]
         /\ EndTurn(m) => At(m, "running") /\ handler'[m].at = "done"
         /\ TakeClear(m) => /\ At(m, "inbox")
                            /\ \/ handler'[m].at = "done"
                               \/ /\ handler'[m].at = "clear" /\ current[PeerOf[m]] # 0
                                  /\ handler'[m].session = current[PeerOf[m]]
         /\ AskClear(m) => /\ At(m, "clear")
                           /\ \/ handler'[m].at = "done"
                              \/ /\ handler'[m].at = "clearing" /\ Known(IdOf(m))
                                 /\ handler'[m].session = Session(m)
                                 /\ handler'[m].agent = sessions[IdOf(m)]
         /\ ClearAgent(m) => /\ At(m, "clearing") /\ handler'[m].at = "dropping"
                             /\ handler'[m].session = Session(m)
                             /\ handler'[m].agent = AgentOf(m)
         /\ DropAgent(m) => At(m, "dropping") /\ handler'[m].at = "done"
         /\ StartFails(m) \/ InvokeUnknown(m) \/ FailTurn(m) =>
              InHand(m) /\ handler'[m].at = "done"
<1> USE DEF Go, GoWithSession, GoWithAgent, Return, Finished, HandlerTypes, Session, AgentOf
<1>0. HandlerTypes
  BY Facts
<1>1. Lookup(m) => /\ At(m, "inbox")
                   /\ \/ handler'[m].at = "load" /\ current[PeerOf[m]] = 0
                      \/ handler'[m].at = "expire"
                      \/ /\ handler'[m].at = "lock" /\ current[PeerOf[m]] # 0
                         /\ handler'[m].session = current[PeerOf[m]]
  BY <1>0 DEF Lookup
<1>2. /\ Expire(m) => At(m, "expire") /\ handler'[m].at = "load"
      /\ StartLoad(m) => /\ At(m, "load") /\ handler'[m].at = "register"
                         /\ handler'[m].agent = NewAgent
      /\ Store(m) => /\ At(m, "store") /\ handler'[m].at = "lock"
                     /\ handler'[m].session = Session(m)
      /\ LockInvoke(m) => /\ At(m, "lock") /\ handler'[m].at = "invoke"
                          /\ handler'[m].session = Session(m)
  BY <1>0 DEF Expire, StartLoad, Store, LockInvoke
<1>3. StartRegister(m) => /\ At(m, "register")
                          /\ \/ handler'[m].at = "done"
                             \/ /\ handler'[m].at = "store"
                                /\ handler'[m].session = Len(started) + 1
  BY <1>0 DEF StartRegister
<1>4. Invoke(m) => /\ At(m, "invoke") /\ handler'[m].at = "running"
                   /\ handler'[m].session = Session(m)
                   /\ handler'[m].agent = sessions[IdOf(m)]
  BY <1>0 DEF Invoke
<1>5. /\ EndTurn(m) => At(m, "running") /\ handler'[m].at = "done"
      /\ DropAgent(m) => At(m, "dropping") /\ handler'[m].at = "done"
      /\ StartFails(m) \/ InvokeUnknown(m) \/ FailTurn(m) => InHand(m) /\ handler'[m].at = "done"
  BY <1>0 DEF EndTurn, DropAgent, StartFails, InvokeUnknown, FailTurn, InHand, At
<1>6. TakeClear(m) => /\ At(m, "inbox")
                      /\ \/ handler'[m].at = "done"
                         \/ /\ handler'[m].at = "clear" /\ current[PeerOf[m]] # 0
                            /\ handler'[m].session = current[PeerOf[m]]
  BY <1>0 DEF TakeClear
<1>7. AskClear(m) => /\ At(m, "clear")
                     /\ \/ handler'[m].at = "done"
                        \/ /\ handler'[m].at = "clearing" /\ Known(IdOf(m))
                           /\ handler'[m].session = Session(m)
                           /\ handler'[m].agent = sessions[IdOf(m)]
  BY <1>0 DEF AskClear
<1>8. ClearAgent(m) => /\ At(m, "clearing") /\ handler'[m].at = "dropping"
                       /\ handler'[m].session = Session(m)
                       /\ handler'[m].agent = AgentOf(m)
  BY <1>0 DEF ClearAgent
<1> QED
  BY <1>1, <1>2, <1>3, <1>4, <1>5, <1>6, <1>7, <1>8

\* A conversation that changes leaves the others alone.
LEMMA HistorySet ==
  ASSUME Inv, NEW a \in DOMAIN agents, NEW h, agents' = [agents EXCEPT ![a].history = h]
  PROVE  /\ DOMAIN agents' = DOMAIN agents
         /\ agents'[a].history = h
         /\ \A b \in DOMAIN agents : /\ agents'[b].peer = agents[b].peer
                                     /\ b # a => agents'[b].history = agents[b].history
<1>1. \A b \in DOMAIN agents : agents[b] \in [peer : Peers, history : SUBSET Messages]
  BY Tables DEF Inv, Agent
<1> QED
  BY <1>1

\* The agent a request on the server goes on with is one of the agents.
LEMMA AgentIsThere ==
  ASSUME Inv, NEW m \in Messages, handler[m].at \in WithAgent
  PROVE  AgentOf(m) \in DOMAIN agents
BY DEF Inv, HandlersKnow, Knows

\* Where what is remembered comes from.
LEMMA HistoriesGrow ==
  ASSUME Inv, [Next]_vars, NEW x \in Messages
  PROVE  /\ \A a \in DOMAIN agents' : x \in agents'[a].history =>
              \/ \E b \in DOMAIN agents : x \in agents[b].history
              \/ \E p \in Peers : x \in file[p]
              \/ Invoke(x) \/ EndTurn(x)
         /\ \A p \in Peers : x \in file'[p] =>
              \/ \E b \in DOMAIN agents : x \in agents[b].history
              \/ x \in file[p] \/ EndTurn(x)
         /\ \A p \in Peers : x \in forgotten'[p] =>
              \/ \E b \in DOMAIN agents : x \in agents[b].history
              \/ x \in forgotten[p]
<1> DEFINE Grown ==
         /\ \A a \in DOMAIN agents' : x \in agents'[a].history =>
              \/ \E b \in DOMAIN agents : x \in agents[b].history
              \/ \E p \in Peers : x \in file[p]
              \/ Invoke(x) \/ EndTurn(x)
         /\ \A p \in Peers : x \in file'[p] =>
              \/ \E b \in DOMAIN agents : x \in agents[b].history
              \/ x \in file[p] \/ EndTurn(x)
         /\ \A p \in Peers : x \in forgotten'[p] =>
              \/ \E b \in DOMAIN agents : x \in agents[b].history
              \/ x \in forgotten[p]
<1>0. /\ file \in [Peers -> SUBSET Messages] /\ forgotten \in [Peers -> SUBSET Messages]
      /\ DOMAIN agents = 1..Len(agents) /\ \A a \in DOMAIN agents : agents[a].peer \in Peers
      /\ \A m \in Messages : PeerOf[m] \in Peers
  BY Facts DEF ServerTypes, HistoryTypes
<1>1. CASE UNCHANGED <<agents, file, forgotten>>
  BY <1>1
<1>2. ASSUME NEW m \in Messages, StartLoad(m) PROVE Grown
  <2>1. /\ DOMAIN agents' = 1..(Len(agents) + 1) /\ NewAgent = Len(agents) + 1
        /\ \A a \in DOMAIN agents : agents'[a] = agents[a]
        /\ UNCHANGED <<file, forgotten>>
    BY <1>0, <1>2, Built DEF StartLoad, historyVars
  <2>2. agents'[NewAgent].history = file[PeerOf[m]]
    <3>1. [peer |-> PeerOf[m], history |-> file[PeerOf[m]]] \in Agent
      BY <1>0 DEF Agent
    <3> QED
      BY <1>2, <3>1, AgentAppended DEF StartLoad, BuildAgent, NewAgent, Inv
  <2>3. \A a \in DOMAIN agents' : a \in DOMAIN agents \/ a = NewAgent
    BY <1>0, <2>1, Facts
  <2> QED
    BY <1>0, <2>1, <2>2, <2>3
<1>3. ASSUME NEW m \in Messages, Invoke(m) PROVE Grown
  <2> DEFINE a == sessions[IdOf(m)]
             h == agents[a].history \cup {m}
  <2>1. a \in DOMAIN agents /\ agents' = [agents EXCEPT ![a].history = h]
        /\ UNCHANGED <<file, forgotten>>
    BY <1>3, Facts DEF Invoke, Known, ServerTypes, AddPrompt
  <2>2. /\ DOMAIN agents' = DOMAIN agents /\ agents'[a].history = h
        /\ \A b \in DOMAIN agents : b # a => agents'[b].history = agents[b].history
    BY <2>1, HistorySet
  <2> HIDE DEF a
  <2> QED
    BY <1>3, <2>1, <2>2
<1>4. ASSUME NEW m \in Messages, EndTurn(m) PROVE Grown
  <2> DEFINE a == AgentOf(m)
             h == agents[a].history \cup {m}
  <2>1. a \in DOMAIN agents /\ agents' = [agents EXCEPT ![a].history = h]
        /\ file' = [file EXCEPT ![agents[a].peer] = h] /\ UNCHANGED forgotten
    BY <1>4, AgentIsThere DEF EndTurn, At, WithAgent, AddAnswer
  <2>2. /\ DOMAIN agents' = DOMAIN agents /\ agents'[a].history = h
        /\ \A b \in DOMAIN agents : b # a => agents'[b].history = agents[b].history
    BY <2>1, HistorySet
  <2> HIDE DEF a
  <2> QED
    BY <1>0, <1>4, <2>1, <2>2
<1>5. ASSUME NEW m \in Messages, ClearAgent(m) PROVE Grown
  <2> DEFINE a == AgentOf(m)
  <2>1. /\ a \in DOMAIN agents /\ agents' = [agents EXCEPT ![a].history = {}]
        /\ file' = [file EXCEPT ![agents[a].peer] = {}]
        /\ forgotten' = [forgotten EXCEPT ![agents[a].peer] = @ \cup agents[a].history]
    BY <1>5, AgentIsThere DEF ClearAgent, At, WithAgent, ClearHistory
  <2>2. /\ DOMAIN agents' = DOMAIN agents /\ agents'[a].history = {}
        /\ \A b \in DOMAIN agents : b # a => agents'[b].history = agents[b].history
    BY <2>1, HistorySet
  <2> HIDE DEF a
  <2> QED
    BY <1>0, <2>1, <2>2
<1>6. ASSUME NEW m \in Messages,
             \/ Lookup(m) \/ Expire(m) \/ StartFails(m) \/ StartRegister(m) \/ Store(m)
             \/ LockInvoke(m) \/ InvokeUnknown(m) \/ FailTurn(m)
             \/ TakeClear(m) \/ AskClear(m) \/ DropAgent(m)
      PROVE  UNCHANGED <<agents, file, forgotten>>
  BY <1>6 DEF Lookup, Take, Expire, StartFails, StartRegister, RegisterAgent, Store, LockInvoke,
     InvokeUnknown, FailTurn, TakeClear, AskClear, DropAgent, DropSession, serverVars, historyVars
<1>7. ASSUME \/ \E p \in Peers : BecomeInactive(p)
             \/ ServerRestarts \/ GatewayRestarts \/ UNCHANGED vars
      PROVE  UNCHANGED <<agents, file, forgotten>>
  BY <1>7 DEF BecomeInactive, ServerRestarts, RestartServer, GatewayRestarts, vars, serverVars, historyVars
<1> QED
  BY <1>1, <1>2, <1>3, <1>4, <1>5, <1>6, <1>7
     DEF Next, Handle, GetOrCreateSession, HandleInbound, HandleClear, Terminated

\* A turn begins once.
LEMMA UnreadStep ==
  ASSUME Inv, [Next]_vars, NEW m \in Messages, Unread(m)
  PROVE  Unread(m)'
<1> SUFFICES ASSUME handler'[m].at \notin {"running", "done"}
             PROVE  /\ \A a \in DOMAIN agents' : m \notin agents'[a].history
                    /\ \A p \in Peers : m \notin file'[p] /\ m \notin forgotten'[p]
  BY DEF Unread
<1>1. ~Invoke(m) /\ ~EndTurn(m)
  BY Transitions
<1>2. handler[m].at \notin {"running", "done"}
  <2>1. CASE Handle(m)
    BY <2>1, Transitions DEF Handle, GetOrCreateSession, HandleInbound, HandleClear, At, InHand
  <2> QED
    BY <2>1, Moves DEF Finished
<1> QED
  BY <1>1, <1>2, HistoriesGrow DEF Unread

\* A peer that is still quiet had nothing in hand when it sent a message.
LEMMA TakenAlone ==
  ASSUME NEW m \in Messages, Take(m), PeerOf[m] \in alone'
  PROVE  \A o \in Messages \ {m} : PeerOf[o] = PeerOf[m] => ~InHand(o)
BY DEF Take

LEMMA StillAlone == [Next]_vars => alone' \subseteq alone
<1> SUFFICES ASSUME [Next]_vars PROVE alone' \subseteq alone
  OBVIOUS
<1>1. ASSUME NEW m \in Messages, Lookup(m) \/ TakeClear(m) PROVE alone' \subseteq alone
  BY <1>1 DEF Lookup, TakeClear, Take
<1>2. ASSUME NEW m \in Messages,
             \/ Expire(m) \/ StartLoad(m) \/ StartFails(m) \/ StartRegister(m) \/ Store(m)
             \/ HandleInbound(m) \/ AskClear(m) \/ ClearAgent(m) \/ DropAgent(m)
      PROVE  alone' = alone
  BY <1>2 DEF Expire, StartLoad, StartFails, StartRegister, Store, HandleInbound, LockInvoke, Invoke,
     InvokeUnknown, EndTurn, FailTurn, AskClear, ClearAgent, DropAgent, historyVars
<1>3. ASSUME \/ \E p \in Peers : BecomeInactive(p)
             \/ ServerRestarts \/ GatewayRestarts \/ UNCHANGED vars
      PROVE  alone' = alone
  BY <1>3 DEF BecomeInactive, ServerRestarts, GatewayRestarts, vars, historyVars
<1> QED
  BY <1>1, <1>2, <1>3 DEF Next, Handle, GetOrCreateSession, HandleClear, Terminated

\* Whoever changes what the gateway's map has for a peer.
LEMMA CurrentChanges ==
  ASSUME Inv, [Next]_vars, NEW p \in Peers, current'[p] # current[p]
  PROVE  \/ current'[p] = 0
         \/ \E m \in Messages : PeerOf[m] = p /\ Store(m) /\ current'[p] = Session(m)
<1>0. current \in [Peers -> 0..Len(started)] /\ \A m \in Messages : PeerOf[m] \in Peers
  BY Facts DEF MapTypes
<1>1. ASSUME NEW m \in Messages, Store(m)
      PROVE  PeerOf[m] = p /\ current'[p] = Session(m)
  BY <1>0, <1>1 DEF Store
<1>2. ASSUME NEW m \in Messages, Expire(m) \/ TakeClear(m) PROVE current'[p] = 0
  BY <1>0, <1>2 DEF Expire, TakeClear
<1>3. ASSUME NEW m \in Messages,
             \/ Lookup(m) \/ StartLoad(m) \/ StartFails(m) \/ StartRegister(m)
             \/ HandleInbound(m) \/ AskClear(m) \/ ClearAgent(m) \/ DropAgent(m)
      PROVE  FALSE
  BY <1>3 DEF Lookup, StartLoad, StartFails, StartRegister, HandleInbound, LockInvoke, Invoke,
     InvokeUnknown, EndTurn, FailTurn, AskClear, ClearAgent, DropAgent, mapVars
<1>4. ASSUME \/ \E q \in Peers : BecomeInactive(q)
             \/ ServerRestarts \/ UNCHANGED vars
      PROVE  FALSE
  BY <1>4 DEF BecomeInactive, ServerRestarts, vars, mapVars
<1>5. GatewayRestarts => current'[p] = 0
  BY DEF GatewayRestarts
<1> QED
  BY <1>1, <1>2, <1>3, <1>4, <1>5 DEF Next, Handle, GetOrCreateSession, HandleClear, Terminated

LEMMA AloneStep ==
  ASSUME Inv, [Next]_vars, NEW p \in Peers, p \in alone', Alone(p)
  PROVE  Alone(p)'
<1> SUFFICES ASSUME NEW m \in Messages, PeerOf[m] = p, handler'[m].at \notin {"inbox", "done"}
             PROVE  /\ \A o \in Messages :
                         PeerOf[o] = p /\ handler'[o].at \notin {"inbox", "done"} => o = m
                    /\ handler'[m].at \in Between => current'[p] = 0
  BY DEF Alone, InHand
<1>1. ASSUME NEW x \in Messages, handler'[x].at \notin {"inbox", "done"}
      PROVE  InHand(x) \/ (Take(x) /\ Handle(x))
  <2>1. CASE Handle(x)
    <3>1. Lookup(x) \/ TakeClear(x) => Take(x)
      BY DEF Lookup, TakeClear
    <3> QED
      BY <1>1, <2>1, <3>1, Transitions
         DEF Handle, GetOrCreateSession, HandleInbound, HandleClear, At, InHand
  <2> QED
    BY <1>1, <2>1, Moves DEF Finished, InHand
<1>2. ASSUME NEW o \in Messages, PeerOf[o] = p, handler'[o].at \notin {"inbox", "done"}, o # m
      PROVE  FALSE
  <2>1. ~(InHand(m) /\ InHand(o))
    BY <1>2 DEF Alone
  <2>2. ASSUME NEW x \in Messages, NEW y \in Messages, x # y, PeerOf[x] = p, PeerOf[y] = p,
               Take(x), Handle(x), handler'[y].at \notin {"inbox", "done"}
        PROVE  FALSE
    <3>1. ~InHand(y)
      BY <2>2, TakenAlone
    <3>2. handler'[y] = handler[y]
      BY <2>2, OwnStep
    <3> QED
      BY <2>2, <3>1, <3>2 DEF InHand
  <2> QED
    BY <1>1, <1>2, <2>1, <2>2
<1>3. ASSUME handler'[m].at \in Between PROVE current'[p] = 0
  <2>1. CASE handler'[m] = handler[m]
    <3>1. InHand(m) /\ current[p] = 0
      BY <1>3, <2>1 DEF Alone, InHand, Between
    <3>2. ASSUME NEW o \in Messages, PeerOf[o] = p, Store(o) PROVE FALSE
      <4>1. At(o, "store") /\ handler'[o].at = "lock"
        BY <3>2, Transitions
      <4> QED
        BY <2>1, <3>1, <3>2, <4>1 DEF Alone, At, InHand
    <3> QED
      BY <3>1, <3>2, CurrentChanges
  <2>2. CASE Handle(m)
    <3>1. current[p] = 0 \/ Expire(m) \/ TakeClear(m)
      BY <1>3, <2>2, Transitions
         DEF Handle, GetOrCreateSession, HandleInbound, HandleClear, At, Between, Alone, InHand
    <3>2. ~Store(m)
      BY <1>3, Transitions DEF Between
    <3>3. \A o \in Messages : Store(o) => o = m
      <4> SUFFICES ASSUME NEW o \in Messages, Store(o), o # m PROVE FALSE
        OBVIOUS
      <4>1. At(o, "store") /\ handler'[o].at = "lock" /\ handler'[o] = handler[o]
        BY <2>2, Transitions, OwnStep
      <4> QED
        BY <4>1 DEF At
    <3>4. Expire(m) \/ TakeClear(m) => current'[p] = 0
      BY Facts DEF Expire, TakeClear, MapTypes
    <3> QED
      BY <3>1, <3>2, <3>3, <3>4, CurrentChanges
  <2>3. handler'[m] # Finished
    BY <1>3 DEF Finished, Between
  <2> QED
    BY <2>1, <2>2, <2>3, Moves
<1> QED
  BY <1>2, <1>3

\* An id of the running server that is known goes on leading to its agent.
LEMMA StillThere ==
  ASSUME Inv, [Next]_vars, NEW k \in DOMAIN started,
         started[k].run = serverRun', started[k].id \in DOMAIN sessions'
  PROVE  /\ UNCHANGED serverRun /\ started[k].id \in DOMAIN sessions
         /\ sessions'[started[k].id] = sessions[started[k].id]
<1> DEFINE id == started[k].id
<1>1. id \in Nat /\ started[k].run \in 1..serverRun /\ serverRun \in Nat /\ ServerTypes /\ IdsAreOwn
  BY Facts, GatewayAssumption DEF Inv
<1>2. ~ServerRestarts
  BY <1>1 DEF ServerRestarts, RestartServer
<1>3. CASE UNCHANGED <<serverRun, nextID, sessions, keyToSession, started>>
  BY <1>3
<1>4. ASSUME NEW m \in Messages, StartRegister(m)
      PROVE  serverRun' = serverRun /\ id \in DOMAIN sessions /\ sessions'[id] = sessions[id]
  <2>1. RegisterAgent(PeerOf[m], AgentOf(m)) /\ PeerOf[m] \in Peers
    BY <1>4, Facts DEF StartRegister
  <2>2. /\ DOMAIN sessions' = (DOMAIN sessions \ {keyToSession[PeerOf[m]]}) \cup {NewID}
        /\ \A i \in DOMAIN sessions \ {keyToSession[PeerOf[m]]} : sessions'[i] = sessions[i]
        /\ NewID = nextID + 1
    BY <1>1, <2>1, Registered
  <2>3. serverRun' = serverRun
    BY <2>1 DEF RegisterAgent
  <2>4. id <= nextID /\ nextID \in Nat
    BY <1>1, <2>3 DEF IdsAreOwn, ServerTypes
  <2>5. id # NewID
    BY <1>1, <2>2, <2>4
  <2> QED
    BY <2>2, <2>3, <2>5
<1>5. ASSUME NEW m \in Messages, DropAgent(m)
      PROVE  serverRun' = serverRun /\ id \in DOMAIN sessions /\ sessions'[id] = sessions[id]
  <2>1. DropSession(IdOf(m), agents[AgentOf(m)].peer)
    BY <1>5 DEF DropAgent
  <2>2. serverRun' = serverRun
    BY <2>1 DEF DropSession
  <2> QED
    BY <2>1, <2>2, Dropped
<1> QED
  BY <1>2, <1>3, <1>4, <1>5, TablesStay

\* The flag of crossed ids only ever rises.
LEMMA StillUncrossed == [Next]_vars /\ ~crossed' => ~crossed
<1> SUFFICES ASSUME [Next]_vars, crossed PROVE crossed'
  OBVIOUS
<1>1. ASSUME NEW m \in Messages, Handle(m) PROVE crossed'
  BY <1>1 DEF Handle, GetOrCreateSession, HandleInbound, HandleClear, Lookup, TakeClear, Take, Expire,
     StartLoad, StartFails, StartRegister, Store, LockInvoke, Invoke, InvokeUnknown, EndTurn, FailTurn,
     AskClear, ClearAgent, DropAgent, historyVars
<1>2. ASSUME \/ \E p \in Peers : BecomeInactive(p)
             \/ ServerRestarts \/ GatewayRestarts \/ UNCHANGED vars
      PROVE  crossed'
  BY <1>2 DEF BecomeInactive, ServerRestarts, GatewayRestarts, vars, historyVars
<1> QED
  BY <1>1, <1>2 DEF Next, Terminated

\* An id that was honoured, of the running server, led to an agent of the peer.
LEMMA RightfulStep ==
  ASSUME Inv, [Next]_vars, ~crossed', NEW m \in Messages, Rightful(m)
  PROVE  Rightful(m)'
<1> SUFFICES ASSUME handler'[m].at \in WithPeer
             PROVE  /\ started'[handler'[m].session].run = serverRun'
                    /\ agents'[handler'[m].agent].peer = PeerOf[m]
                    /\ started'[handler'[m].session].id \in DOMAIN sessions' =>
                         sessions'[started'[handler'[m].session].id] = handler'[m].agent
  BY DEF Rightful, Fresh, IdOf, Session, AgentOf, Known
<1>0. HandlersKnow /\ SessionsAreOwn /\ ServerTypes /\ HandlerTypes
  BY Facts DEF Inv
<1>1. ASSUME handler[m].at \in WithSession PROVE Session(m) \in DOMAIN started
  BY <1>0, <1>1 DEF HandlersKnow, Knows
<1>2. ASSUME handler[m].at \in WithPeer, ~ServerRestarts,
             handler'[m].session = Session(m), handler'[m].agent = AgentOf(m)
      PROVE  /\ started'[handler'[m].session].run = serverRun'
             /\ agents'[handler'[m].agent].peer = PeerOf[m]
             /\ started'[handler'[m].session].id \in DOMAIN sessions' =>
                  sessions'[started'[handler'[m].session].id] = handler'[m].agent
  <2>1. Session(m) \in DOMAIN started /\ AgentOf(m) \in DOMAIN agents
    BY <1>1, <1>2, AgentIsThere DEF WithPeer, WithSession, WithAgent
  <2>2. /\ started[Session(m)].run = serverRun /\ agents[AgentOf(m)].peer = PeerOf[m]
        /\ started[Session(m)].id \in DOMAIN sessions => sessions[started[Session(m)].id] = AgentOf(m)
    BY <1>2 DEF Rightful, Fresh, Known, IdOf
  <2>3. started'[Session(m)] = started[Session(m)]
    BY <2>1, SessionsStay
  <2>4. serverRun' = serverRun
    BY <1>2, TablesStay DEF StartRegister, RegisterAgent, DropAgent, DropSession
  <2>5. agents'[AgentOf(m)].peer = PeerOf[m]
    BY <2>1, <2>2, AgentsStay
  <2> QED
    BY <1>2, <2>1, <2>2, <2>3, <2>4, <2>5, StillThere
<1>3. CASE Invoke(m) \/ AskClear(m)
  <2>1. /\ handler[m].at \in WithSession /\ Known(IdOf(m))
        /\ handler'[m].session = Session(m) /\ handler'[m].agent = sessions[IdOf(m)]
    BY <1>3, Transitions DEF Invoke, WithPeer, At, WithSession
  <2>2. UNCHANGED <<serverRun, started, sessions>>
    BY <1>3 DEF Invoke, AddPrompt, AskClear, serverVars, mapVars
  <2>3. started[Session(m)].run = serverRun
    BY <1>3, <2>1 DEF Invoke, AskClear, Fresh
  <2>4. agents[sessions[IdOf(m)]].peer = PeerOf[m] /\ sessions[IdOf(m)] \in DOMAIN agents
    BY <1>0, <2>1, <2>3 DEF SessionsAreOwn, Owned, IdOf, ServerTypes, Known
  <2> QED
    BY <2>1, <2>2, <2>3, <2>4, AgentsStay DEF IdOf
<1>4. CASE ClearAgent(m)
  <2>1. /\ At(m, "clearing") /\ handler'[m].session = Session(m) /\ handler'[m].agent = AgentOf(m)
        /\ handler'[m] # handler[m]
    BY <1>4, Transitions DEF At
  <2>2. ~ServerRestarts
    <3>1. ServerRestarts => handler'[m] = Finished
      BY <2>1 DEF ServerRestarts, At, OnServer
    <3> QED
      BY <3>1 DEF Finished, WithPeer
  <2> QED
    BY <1>2, <2>1, <2>2 DEF At, WithPeer
<1>5. CASE handler'[m] = handler[m]
  <2>1. ~ServerRestarts
    BY <1>5 DEF ServerRestarts, OnServer, WithPeer, Finished
  <2> QED
    BY <1>2, <1>5, <2>1 DEF Session, AgentOf
<1>6. Handle(m) => Invoke(m) \/ AskClear(m) \/ ClearAgent(m)
  BY Transitions DEF Handle, GetOrCreateSession, HandleInbound, HandleClear, WithPeer
<1>7. handler'[m] # Finished
  BY DEF Finished, WithPeer
<1> QED
  BY <1>3, <1>4, <1>5, <1>6, <1>7, Moves

\* Who is about to take a session of the server away.
LEMMA StillKnown ==
  ASSUME Inv, [Next]_vars, ~crossed, \A m \in Messages : Rightful(m),
         NEW p \in Peers, NEW k \in DOMAIN started, Owned(k, p),
         started'[k].run = serverRun',
         started[k].run = serverRun => Known(started[k].id)
  PROVE  \/ started'[k].id \in DOMAIN sessions'
         \/ \E m \in Messages : PeerOf[m] = p /\ (StartRegister(m) \/ DropAgent(m))
<1> DEFINE id == started[k].id
<1>0. /\ ServerTypes /\ TablesAgree /\ started'[k] = started[k]
      /\ started[k].run \in 1..serverRun /\ serverRun \in Nat
  BY Facts, SessionsStay DEF Inv
<1>1. ~ServerRestarts
  BY <1>0 DEF ServerRestarts, RestartServer
<1>2. UNCHANGED serverRun /\ id \in DOMAIN sessions /\ agents[sessions[id]].peer = p
  <2>1. UNCHANGED serverRun
    BY <1>1, TablesStay DEF StartRegister, RegisterAgent, DropAgent, DropSession
  <2> QED
    BY <1>0, <2>1 DEF Known, Owned
<1>3. CASE UNCHANGED sessions
  BY <1>0, <1>2, <1>3
<1>4. ASSUME NEW m \in Messages, StartRegister(m), PeerOf[m] # p PROVE id \in DOMAIN sessions'
  <2>1. RegisterAgent(PeerOf[m], AgentOf(m)) /\ PeerOf[m] \in Peers
    BY <1>4, Facts DEF StartRegister
  <2>2. DOMAIN sessions' = (DOMAIN sessions \ {keyToSession[PeerOf[m]]}) \cup {NewID}
    BY <1>0, <2>1, Registered
  <2>3. id # keyToSession[PeerOf[m]]
    BY <1>2, <1>4, <2>1, <1>0, Facts DEF TablesAgree, ServerTypes
  <2> QED
    BY <1>2, <2>2, <2>3
<1>5. ASSUME NEW m \in Messages, DropAgent(m), PeerOf[m] # p PROVE id \in DOMAIN sessions'
  <2>1. /\ At(m, "dropping") /\ DropSession(IdOf(m), agents[AgentOf(m)].peer)
        /\ agents[AgentOf(m)].peer = PeerOf[m]
        /\ Known(IdOf(m)) => sessions[IdOf(m)] = AgentOf(m)
    BY <1>5 DEF DropAgent, Rightful, At, WithPeer
  <2>2. id # IdOf(m)
    BY <1>2, <1>5, <2>1 DEF Known
  <2>3. DOMAIN sessions' = DOMAIN sessions \ {IdOf(m)}
    BY <2>1, Dropped
  <2> QED
    BY <1>2, <2>2, <2>3
<1> QED
  BY <1>0, <1>1, <1>3, <1>4, <1>5, TablesStay

\* What a quiet peer's messages go by is known.
LEMMA ServedStep ==
  ASSUME Inv, [Next]_vars, ~crossed, \A m \in Messages : Rightful(m),
         NEW p \in Peers, Alone(p), Served(p)
  PROVE  Served(p)'
<1> DEFINE Reached(k) == started'[k].run = serverRun' => started'[k].id \in DOMAIN sessions'
<1>0. /\ SessionsAreOwn /\ HandlersKnow /\ HandlerTypes /\ MapTypes /\ ServerTypes
      /\ DOMAIN started = 1..Len(started)
  BY Facts DEF Inv
<1>1. SUFFICES ASSUME TRUE
               PROVE  /\ current'[p] # 0 => Reached(current'[p])
                      /\ \A m \in Messages : PeerOf[m] = p /\ handler'[m].at \in WithSession
                                             => Reached(handler'[m].session)
  BY DEF Served, Known, Fresh, IdOf, Session
<1> HIDE DEF Reached
<1>2. /\ current[p] # 0 => /\ current[p] \in DOMAIN started /\ Owned(current[p], p)
                           /\ started[current[p]].run = serverRun => Known(started[current[p]].id)
      /\ \A m \in Messages : PeerOf[m] = p /\ handler[m].at \in WithSession =>
           /\ Session(m) \in DOMAIN started /\ Owned(Session(m), p)
           /\ started[Session(m)].run = serverRun => Known(started[Session(m)].id)
  BY <1>0 DEF SessionsAreOwn, MapTypes, HandlersKnow, Knows, Served, Fresh, IdOf
<1>3. ASSUME NEW k \in DOMAIN started, Owned(k, p),
             started[k].run = serverRun => Known(started[k].id),
             \A m \in Messages : PeerOf[m] = p => ~StartRegister(m) /\ ~DropAgent(m)
      PROVE  Reached(k)
  BY <1>3, StillKnown DEF Reached
<1>4. ASSUME NEW m \in Messages, PeerOf[m] = p, StartRegister(m) \/ DropAgent(m)
      PROVE  current[p] = 0 /\ InHand(m)
  <2>1. handler[m].at \in Between /\ InHand(m)
    BY <1>4, Transitions DEF At, Between, InHand
  <2> QED
    BY <1>4, <2>1 DEF Alone
<1>5. ASSUME current'[p] # 0 PROVE Reached(current'[p])
  <2>1. CASE current'[p] = current[p]
    BY <1>2, <1>3, <1>4, <1>5, <2>1
  <2>2. ASSUME NEW m \in Messages, PeerOf[m] = p, Store(m), current'[p] = Session(m)
        PROVE  Reached(current'[p])
    <3>1. At(m, "store") /\ handler'[m].at = "lock"
      BY <2>2, Transitions
    <3>2. ASSUME NEW o \in Messages, StartRegister(o) \/ DropAgent(o) PROVE FALSE
      <4>1. At(o, "register") \/ At(o, "dropping")
        BY <3>2, Transitions
      <4>2. o # m /\ handler'[m] # handler[m]
        BY <3>1, <4>1 DEF At
      <4> QED
        BY <3>2, <4>2, OwnStep DEF Handle, GetOrCreateSession, HandleClear
    <3> QED
      BY <1>2, <1>3, <2>2, <3>1, <3>2 DEF At, WithSession
  <2> QED
    BY <1>5, <2>1, <2>2, CurrentChanges
<1>6. ASSUME NEW m \in Messages, PeerOf[m] = p, handler'[m].at \in WithSession
      PROVE  Reached(handler'[m].session)
  <2>1. CASE handler'[m] = handler[m]
    <3>1. handler[m].at \in WithSession /\ handler'[m].session = Session(m) /\ InHand(m)
      BY <1>6, <2>1 DEF Session, WithSession, InHand
    <3>2. ASSUME NEW o \in Messages, PeerOf[o] = p, StartRegister(o) \/ DropAgent(o) PROVE FALSE
      <4>1. o = m
        BY <1>4, <1>6, <3>1, <3>2 DEF Alone
      <4>2. At(m, "register") \/ (At(m, "dropping") /\ handler'[m].at = "done")
        BY <3>2, <4>1, Transitions
      <4> QED
        BY <1>6, <2>1, <4>2 DEF At, WithSession
    <3> QED
      BY <1>2, <1>3, <1>6, <3>1, <3>2
  <2>2. CASE StartRegister(m)
    <3>1. handler'[m].session = Len(started) + 1
      BY <1>6, <2>2, Transitions DEF WithSession
    <3>2. started'[Len(started) + 1] = [id |-> NewID, run |-> serverRun]
      BY <2>2, SessionAppended DEF StartRegister, Inv
    <3>3. RegisterAgent(PeerOf[m], AgentOf(m)) /\ PeerOf[m] \in Peers
      BY <2>2, Facts DEF StartRegister
    <3>4. NewID \in DOMAIN sessions'
      BY <1>0, <3>3, Registered
    <3> QED
      BY <3>1, <3>2, <3>4 DEF Reached
  <2>3. CASE Handle(m) /\ ~StartRegister(m)
    <3>1. ASSUME NEW o \in Messages, PeerOf[o] = p, StartRegister(o) \/ DropAgent(o) PROVE FALSE
      <4>1. CASE o = m
        BY <1>6, <2>3, <3>1, <4>1, Transitions DEF WithSession
      <4>2. CASE o # m
        <5>1. handler'[o] = handler[o] /\ handler'[o].at # handler[o].at
          BY <2>3, <3>1, <4>2, OwnStep, Transitions DEF At
        <5> QED
          BY <5>1
      <4> QED
        BY <4>1, <4>2
    <3>2. \/ handler[m].at \in WithSession /\ handler'[m].session = Session(m)
          \/ current[p] # 0 /\ handler'[m].session = current[p]
      BY <1>6, <2>3, Transitions
         DEF Handle, GetOrCreateSession, HandleInbound, HandleClear, At, WithSession
    <3> QED
      BY <1>2, <1>3, <1>6, <3>1, <3>2
  <2>4. handler'[m] # Finished
    BY <1>6 DEF Finished, WithSession
  <2> QED
    BY <2>1, <2>2, <2>3, <2>4, Moves
<1> QED
  BY <1>5, <1>6

\* The agent of a quiet peer is the one its turn or its !clear goes on with.
LEMMA OwnLiveAgent ==
  ASSUME Inv, NEW m \in Messages, handler[m].at \in WithPeer, Rightful(m), Served(PeerOf[m]),
         NEW id \in DOMAIN sessions, agents[sessions[id]].peer = PeerOf[m]
  PROVE  sessions[id] = AgentOf(m)
<1>1. Known(IdOf(m)) /\ sessions[IdOf(m)] = AgentOf(m) /\ agents[AgentOf(m)].peer = PeerOf[m]
  BY DEF Rightful, Served, WithPeer, WithSession
<1>2. keyToSession[PeerOf[m]] = id /\ keyToSession[PeerOf[m]] = IdOf(m)
  BY <1>1 DEF Inv, TablesAgree, Known
<1> QED
  BY <1>1, <1>2

\* Remembered after a step, in parts.
LivesOn(p) ==
  \A id \in DOMAIN sessions :
    agents[sessions[id]].peer = p => Continues(p, agents[sessions[id]].history)

Begins(p) ==
  \A m \in Messages : PeerOf[m] = p =>
    /\ At(m, "register") => Continues(p, agents[AgentOf(m)].history)
    /\ At(m, "running") => m \notin forgotten[p]

\* Neither conversations nor what is remembered of them change.
LEMMA NothingSaid ==
  ASSUME Inv, NEW p \in Peers, Remembered(p), UNCHANGED <<agents, file, kept, forgotten>>,
         DOMAIN sessions' \subseteq DOMAIN sessions,
         \A i \in DOMAIN sessions' : sessions'[i] = sessions[i],
         \A m \in Messages : handler'[m].at \in {"register", "running"} => handler'[m] = handler[m]
  PROVE  Remembered(p)'
BY DEF Remembered, Continues, At, AgentOf

LEMMA RememberedStep ==
  ASSUME Inv, [Next]_vars, \A m \in Messages : Rightful(m) /\ Unread(m),
         NEW p \in Peers, Alone(p), Served(p), Remembered(p)
  PROVE  Remembered(p)'
<1>0. /\ HandlersKnow /\ ServerTypes /\ HistoryTypes /\ AgentsAreDistinct /\ HandlerTypes
      /\ DOMAIN agents = 1..Len(agents) /\ Len(agents) \in Nat
      /\ \A m \in Messages : PeerOf[m] \in Peers
      /\ file \in [Peers -> SUBSET Messages]
      /\ kept \in [Peers -> SUBSET Messages] /\ forgotten \in [Peers -> SUBSET Messages]
  BY Facts DEF Inv, ServerTypes, HistoryTypes
<1>1. ASSUME NEW m \in Messages, StartLoad(m) PROVE Remembered(p)'
  <2>1. /\ UNCHANGED <<sessions, file, kept, forgotten>>
        /\ \A a \in DOMAIN agents : agents'[a] = agents[a]
    BY <1>0, <1>1, Built DEF StartLoad, historyVars
  <2>2. agents'[NewAgent].history = file[PeerOf[m]]
    <3>1. [peer |-> PeerOf[m], history |-> file[PeerOf[m]]] \in Agent
      BY <1>0 DEF Agent
    <3> QED
      BY <1>1, <3>1, AgentAppended DEF StartLoad, BuildAgent, NewAgent, Inv
  <2>3. /\ handler'[m].at = "register" /\ handler'[m].agent = NewAgent
        /\ \A o \in Messages \ {m} : handler'[o] = handler[o]
    BY <1>1, Transitions, OwnStep DEF Handle, GetOrCreateSession
  <2>4. \A id \in DOMAIN sessions : sessions[id] \in DOMAIN agents
    BY <1>0 DEF ServerTypes
  <2>5. Continues(p, file[p])' /\ LivesOn(p)'
    BY <2>1, <2>4 DEF Remembered, Continues, LivesOn
  <2>6. ASSUME NEW o \in Messages, PeerOf[o] = p
        PROVE  /\ handler'[o].at = "register" => Continues(p, agents'[handler'[o].agent].history)
               /\ handler'[o].at = "running" => o \notin forgotten[p]
    <3>1. CASE o = m
      BY <2>2, <2>3, <2>6, <3>1 DEF Remembered
    <3>2. CASE o # m
      <4>1. At(o, "register") => AgentOf(o) \in DOMAIN agents
        BY AgentIsThere DEF At, WithAgent
      <4> QED
        BY <2>1, <2>3, <2>6, <3>2, <4>1 DEF Remembered, At, AgentOf
    <3> QED
      BY <3>1, <3>2
  <2>7. Begins(p)'
    BY <2>1, <2>6 DEF Begins, Continues, At, AgentOf
  <2> QED
    BY <2>5, <2>7 DEF Remembered, LivesOn, Begins
<1>2. ASSUME NEW m \in Messages, StartRegister(m) PROVE Remembered(p)'
  <2>1. /\ RegisterAgent(PeerOf[m], AgentOf(m)) /\ PeerOf[m] \in Peers /\ At(m, "register")
        /\ UNCHANGED <<agents, file, kept, forgotten>>
    BY <1>2, Facts DEF StartRegister, RegisterAgent, historyVars
  <2>2. /\ DOMAIN sessions' = (DOMAIN sessions \ {keyToSession[PeerOf[m]]}) \cup {NewID}
        /\ sessions'[NewID] = AgentOf(m)
        /\ \A id \in DOMAIN sessions \ {keyToSession[PeerOf[m]]} : sessions'[id] = sessions[id]
    BY <1>0, <2>1, Registered
  <2>3. agents[AgentOf(m)].peer = PeerOf[m]
    BY <1>0, <2>1 DEF HandlersKnow, Knows
  <2>4. PeerOf[m] = p => Continues(p, agents[AgentOf(m)].history)
    BY <2>1 DEF Remembered
  <2>5. LivesOn(p)'
    BY <2>1, <2>2, <2>3, <2>4 DEF LivesOn, Remembered, Continues
  <2>6. \A o \in Messages : handler'[o].at \in {"register", "running"} => handler'[o] = handler[o]
    BY <1>2, Transitions, OwnStep DEF Handle, GetOrCreateSession
  <2>7. Begins(p)' /\ Continues(p, file[p])'
    BY <2>1, <2>6 DEF Begins, Remembered, Continues, At, AgentOf
  <2> QED
    BY <2>5, <2>7 DEF Remembered, LivesOn, Begins
<1>3. ASSUME NEW m \in Messages, Invoke(m) PROVE Remembered(p)'
  <2> DEFINE a == sessions[IdOf(m)]
             h == agents[a].history \cup {m}
  <2>1. /\ a \in DOMAIN agents /\ agents' = [agents EXCEPT ![a].history = h]
        /\ UNCHANGED <<sessions, file, kept, forgotten>>
    BY <1>3, Facts DEF Invoke, Known, ServerTypes, AddPrompt
  <2>2. /\ DOMAIN agents' = DOMAIN agents /\ agents'[a].history = h
        /\ \A b \in DOMAIN agents :
             /\ agents'[b].peer = agents[b].peer
             /\ b # a => agents'[b].history = agents[b].history
    BY <2>1, HistorySet
  <2>3. m \notin forgotten[p]
    BY <1>3 DEF Invoke, At, Unread
  <2>4. \A b \in DOMAIN agents :
          Continues(p, agents[b].history) => Continues(p, agents'[b].history)
    BY <2>2, <2>3 DEF Continues
  <2>5. \A id \in DOMAIN sessions : sessions[id] \in DOMAIN agents
    BY <1>0 DEF ServerTypes
  <2> HIDE DEF a
  <2>6. LivesOn(p)' /\ Continues(p, file[p])'
    BY <2>1, <2>2, <2>4, <2>5 DEF LivesOn, Remembered, Continues
  <2>7. /\ handler'[m].at = "running"
        /\ \A o \in Messages \ {m} : handler'[o] = handler[o]
    BY <1>3, Transitions, OwnStep DEF Handle, HandleInbound
  <2>8. \A o \in Messages : At(o, "register") => AgentOf(o) \in DOMAIN agents
    BY AgentIsThere DEF At, WithAgent
  <2>9. ASSUME NEW o \in Messages, PeerOf[o] = p
        PROVE  /\ handler'[o].at = "register" => Continues(p, agents'[handler'[o].agent].history)
               /\ handler'[o].at = "running" => o \notin forgotten[p]
    BY <2>3, <2>4, <2>7, <2>8, <2>9 DEF Remembered, At, AgentOf
  <2>10. Begins(p)'
    BY <2>1, <2>9 DEF Begins, Continues, At, AgentOf
  <2> QED
    BY <2>6, <2>10 DEF Remembered, LivesOn, Begins
<1>4. ASSUME NEW m \in Messages, NEW q \in Peers, q = PeerOf[m], q # p, NEW h \in SUBSET Messages,
             handler[m].at \in WithPeer,
             agents' = [agents EXCEPT ![AgentOf(m)].history = h],
             file' = [file EXCEPT ![q] = h], UNCHANGED sessions,
             kept'[p] = kept[p], forgotten'[p] = forgotten[p],
             \A o \in Messages \ {m} : handler'[o] = handler[o],
             handler'[m].at \in {"done", "dropping"}
      PROVE  Remembered(p)'
  <2> DEFINE a == AgentOf(m)
  <2>1. a \in DOMAIN agents /\ agents[a].peer = q
    BY <1>4, AgentIsThere DEF Rightful, WithPeer, WithAgent
  <2>2. \A b \in DOMAIN agents :
          /\ agents'[b].peer = agents[b].peer
          /\ b # a => agents'[b].history = agents[b].history
    BY <1>4, <2>1, HistorySet
  <2>3. \A id \in DOMAIN sessions : sessions[id] \in DOMAIN agents
    BY <1>0 DEF ServerTypes
  <2>4. \A o \in Messages : At(o, "register") =>
          AgentOf(o) \in DOMAIN agents /\ agents[AgentOf(o)].peer = PeerOf[o]
    BY <1>0 DEF HandlersKnow, Knows, At, WithAgent
  <2> HIDE DEF a
  <2>5. LivesOn(p)'
    BY <1>4, <2>1, <2>2, <2>3 DEF LivesOn, Remembered, Continues
  <2>6. Continues(p, file[p])'
    BY <1>0, <1>4 DEF Remembered, Continues
  <2>7. ASSUME NEW o \in Messages, PeerOf[o] = p
        PROVE  /\ handler'[o].at = "register" => Continues(p, agents'[handler'[o].agent].history)
               /\ handler'[o].at = "running" => o \notin forgotten[p]
    BY <1>4, <2>1, <2>2, <2>4, <2>7 DEF Remembered, At, AgentOf
  <2>8. Begins(p)'
    BY <1>4, <2>7 DEF Begins, Continues, At, AgentOf
  <2> QED
    BY <2>5, <2>6, <2>8 DEF Remembered, LivesOn, Begins
<1>5. ASSUME NEW m \in Messages, PeerOf[m] = p, NEW h \in SUBSET Messages,
             handler[m].at \in WithPeer,
             agents' = [agents EXCEPT ![AgentOf(m)].history = h],
             file' = [file EXCEPT ![p] = h], UNCHANGED sessions,
             kept'[p] \subseteq h, forgotten'[p] \cap h = {},
             \A o \in Messages \ {m} : handler'[o] = handler[o],
             handler'[m].at \in {"done", "dropping"}
      PROVE  Remembered(p)'
  <2> DEFINE a == AgentOf(m)
  <2>1. a \in DOMAIN agents /\ InHand(m)
    BY <1>5, AgentIsThere DEF WithPeer, WithAgent, InHand
  <2>2. /\ agents'[a].history = h
        /\ \A b \in DOMAIN agents : agents'[b].peer = agents[b].peer
    BY <1>5, <2>1, HistorySet
  <2>3. \A id \in DOMAIN sessions : sessions[id] \in DOMAIN agents
    BY <1>0 DEF ServerTypes
  <2>4. \A id \in DOMAIN sessions : agents[sessions[id]].peer = p => sessions[id] = a
    BY <1>5, OwnLiveAgent
  <2> HIDE DEF a
  <2>5. LivesOn(p)'
    BY <1>5, <2>2, <2>3, <2>4 DEF LivesOn, Continues
  <2>6. Continues(p, file[p])'
    BY <1>0, <1>5 DEF Continues
  <2>7. ASSUME NEW o \in Messages, PeerOf[o] = p
        PROVE  handler'[o].at \notin {"register", "running"}
    <3>1. CASE o = m
      BY <1>5, <3>1
    <3>2. CASE o # m
      BY <1>5, <2>1, <2>7, <3>2 DEF Alone, InHand
    <3> QED
      BY <3>1, <3>2
  <2>8. Begins(p)'
    BY <2>7 DEF Begins, At
  <2> QED
    BY <2>5, <2>6, <2>8 DEF Remembered, LivesOn, Begins
<1>6. ASSUME NEW m \in Messages, EndTurn(m) PROVE Remembered(p)'
  <2> DEFINE a == AgentOf(m)
             q == PeerOf[m]
             h == agents[a].history \cup {m}
  <2>1. /\ handler[m].at = "running" /\ handler'[m].at = "done"
        /\ \A o \in Messages \ {m} : handler'[o] = handler[o]
    BY <1>6, Transitions, OwnStep DEF Handle, HandleInbound, At
  <2>2. a \in DOMAIN agents /\ agents[a].peer = q /\ Fresh(m) /\ h \in SUBSET Messages /\ q \in Peers
    BY <2>1, AgentIsThere, Facts DEF Rightful, WithPeer, WithAgent
  <2>3. /\ agents' = [agents EXCEPT ![a].history = h] /\ file' = [file EXCEPT ![q] = h]
        /\ kept' = [kept EXCEPT ![q] = @ \cup {m}] /\ UNCHANGED <<sessions, forgotten>>
    BY <1>6, <2>2 DEF EndTurn, AddAnswer
  <2>4. CASE q # p
    BY <1>0, <1>4, <2>1, <2>2, <2>3, <2>4 DEF WithPeer
  <2>5. CASE q = p
    <3>1. Known(IdOf(m)) /\ sessions[IdOf(m)] = a
      BY <2>1, <2>2, <2>5 DEF Rightful, Served, WithPeer, WithSession
    <3>2. Continues(p, agents[a].history) /\ m \notin forgotten[p]
      BY <2>1, <2>2, <2>5, <3>1 DEF Remembered, Known, At
    <3>3. kept'[p] \subseteq h /\ forgotten'[p] \cap h = {}
      BY <1>0, <2>3, <2>5, <3>2 DEF Continues
    <3> HIDE DEF a, h
    <3>4. handler[m].at \in WithPeer /\ file' = [file EXCEPT ![p] = h] /\ PeerOf[m] = p
      BY <2>1, <2>3, <2>5 DEF WithPeer
    <3> QED
      BY <1>5, <2>1, <2>2, <2>3, <3>3, <3>4 DEF a
  <2> QED
    BY <2>4, <2>5
<1>7. ASSUME NEW m \in Messages, ClearAgent(m) PROVE Remembered(p)'
  <2> DEFINE a == AgentOf(m)
             q == PeerOf[m]
  <2>1. /\ handler[m].at = "clearing" /\ handler'[m].at = "dropping"
        /\ \A o \in Messages \ {m} : handler'[o] = handler[o]
    BY <1>7, Transitions, OwnStep DEF Handle, HandleClear, At
  <2>2. a \in DOMAIN agents /\ agents[a].peer = q /\ q \in Peers /\ {} \in SUBSET Messages
    BY <2>1, AgentIsThere, Facts DEF Rightful, WithPeer, WithAgent
  <2>3. /\ agents' = [agents EXCEPT ![a].history = {}] /\ file' = [file EXCEPT ![q] = {}]
        /\ kept' = [kept EXCEPT ![q] = {}]
        /\ forgotten' = [forgotten EXCEPT ![q] = @ \cup agents[a].history]
        /\ UNCHANGED sessions
    BY <1>7, <2>2 DEF ClearAgent, ClearHistory
  <2>4. CASE q # p
    BY <1>0, <1>4, <2>1, <2>2, <2>3, <2>4 DEF WithPeer
  <2>5. CASE q = p
    BY <1>0, <1>5, <2>1, <2>2, <2>3, <2>5 DEF WithPeer
  <2> QED
    BY <2>4, <2>5
<1>8. ASSUME NEW m \in Messages,
             \/ Lookup(m) \/ Expire(m) \/ StartFails(m) \/ Store(m)
             \/ LockInvoke(m) \/ InvokeUnknown(m) \/ FailTurn(m) \/ TakeClear(m) \/ AskClear(m)
      PROVE  Remembered(p)'
  <2>1. UNCHANGED <<agents, file, kept, forgotten, sessions>>
    BY <1>8 DEF Lookup, Take, Expire, StartFails, Store, LockInvoke, InvokeUnknown, FailTurn,
       TakeClear, AskClear, serverVars, historyVars
  <2>2. \A o \in Messages : handler'[o].at \in {"register", "running"} => handler'[o] = handler[o]
    BY <1>8, Transitions, OwnStep DEF Handle, GetOrCreateSession, HandleInbound, HandleClear
  <2> QED
    BY <2>1, <2>2, NothingSaid
<1>9. ASSUME NEW m \in Messages, DropAgent(m) PROVE Remembered(p)'
  <2>1. UNCHANGED <<agents, file, kept, forgotten>>
    BY <1>9 DEF DropAgent, DropSession, historyVars
  <2>2. \A o \in Messages : handler'[o].at \in {"register", "running"} => handler'[o] = handler[o]
    BY <1>9, Transitions, OwnStep DEF Handle, HandleClear
  <2>3. DOMAIN sessions' \subseteq DOMAIN sessions /\ \A i \in DOMAIN sessions' : sessions'[i] = sessions[i]
    BY <1>9, Dropped DEF DropAgent
  <2> QED
    BY <2>1, <2>2, <2>3, NothingSaid
<1>10. CASE ServerRestarts \/ GatewayRestarts
  <2>1. UNCHANGED <<agents, file, kept, forgotten>>
    BY <1>10 DEF ServerRestarts, RestartServer, GatewayRestarts, serverVars, historyVars
  <2>2. DOMAIN sessions' \subseteq DOMAIN sessions /\ \A i \in DOMAIN sessions' : sessions'[i] = sessions[i]
    BY <1>10 DEF ServerRestarts, RestartServer, GatewayRestarts, serverVars
  <2>3. \A o \in Messages : handler'[o] = handler[o] \/ handler'[o] = Finished
    BY <1>10 DEF ServerRestarts, GatewayRestarts
  <2>4. \A o \in Messages : handler'[o].at \in {"register", "running"} => handler'[o] = handler[o]
    BY <2>3 DEF Finished
  <2> QED
    BY <2>1, <2>2, <2>4, NothingSaid
<1>11. ASSUME (\E q \in Peers : BecomeInactive(q)) \/ UNCHANGED vars PROVE Remembered(p)'
  BY <1>11, NothingSaid DEF BecomeInactive, vars, serverVars, historyVars
<1> QED
  BY <1>1, <1>2, <1>3, <1>6, <1>7, <1>8, <1>9, <1>10, <1>11
     DEF Next, Handle, GetOrCreateSession, HandleInbound, HandleClear, Terminated

\* At the start nobody has said anything.
LEMMA InitQuiet == Init => QuietInv
<1> SUFFICES ASSUME Init PROVE QuietInv
  OBVIOUS
<1>1. /\ agents = <<>> /\ DOMAIN sessions = {} /\ file = [q \in Peers |-> {}]
      /\ current = [q \in Peers |-> 0] /\ alone = Peers
      /\ kept = [q \in Peers |-> {}] /\ forgotten = [q \in Peers |-> {}]
      /\ \A m \in Messages : handler[m].at = "inbox"
  BY DEF Init, ServerInit
<1>2. \A m \in Messages : Unread(m) /\ Rightful(m)
  BY <1>1 DEF Unread, Rightful, WithPeer
<1>3. \A p \in Peers : Alone(p) /\ Served(p) /\ Remembered(p)
  BY <1>1 DEF Alone, InHand, Served, WithSession, Remembered, Continues, At
<1> QED
  BY <1>1, <1>2, <1>3 DEF QuietInv

LEMMA QuietStep == Inv /\ QuietInv /\ [Next]_vars => QuietInv'
<1> SUFFICES ASSUME Inv, QuietInv, [Next]_vars PROVE QuietInv'
  OBVIOUS
<1>1. /\ \A m \in Messages : Unread(m)
      /\ \A p \in alone : p \in Peers /\ Alone(p)
      /\ ~crossed => /\ \A m \in Messages : Rightful(m)
                     /\ \A p \in alone : Served(p) /\ Remembered(p)
  BY Facts DEF QuietInv, HistoryTypes
<1>2. \A m \in Messages : Unread(m)'
  BY <1>1, UnreadStep
<1>3. \A p \in alone' : p \in alone /\ Alone(p)'
  BY <1>1, StillAlone, AloneStep
<1>4. ASSUME ~crossed'
      PROVE  /\ \A m \in Messages : Rightful(m)'
             /\ \A p \in alone' : Served(p)' /\ Remembered(p)'
  <2>1. ~crossed
    BY <1>4, StillUncrossed
  <2>2. \A m \in Messages : Rightful(m)'
    BY <1>1, <1>4, <2>1, RightfulStep
  <2>3. ASSUME NEW p \in alone' PROVE Served(p)' /\ Remembered(p)'
    <3>1. p \in Peers /\ Alone(p) /\ Served(p) /\ Remembered(p) /\ \A m \in Messages : Rightful(m)
      BY <1>1, <1>3, <2>1
    <3> QED
      BY <1>1, <2>1, <3>1, ServedStep, RememberedStep
  <2> QED
    BY <2>2, <2>3
<1> QED
  BY <1>2, <1>3, <1>4 DEF QuietInv

LEMMA QuietInvariance == Spec => []QuietInv
  BY InitQuiet, QuietStep, Invariance, PTL DEF Spec

(***************************************************************************)
(* A peer that sends one message at a time finds every turn answered since *)
(* its last !clear, in the session file and in the agent it will reach,    *)
(* and none from before, through expiry, eviction and restarts of either   *)
(* process, until an id of an earlier run of the server is honoured        *)
(* (session.go:88-90, server.go:127).                                      *)
(***************************************************************************)
THEOREM HistoryOutlives == Spec => []HistorySurvives
<1>1. QuietInv => HistorySurvives
  BY DEF QuietInv, HistorySurvives, TurnsAreKept, ClearedIsGone, Remembered, Continues
<1> QED
  BY <1>1, QuietInvariance, PTL

(***************************************************************************)
(* Such a peer is never told that its session does not exist, unless the   *)
(* server was restarted under it (handleInbound).                          *)
(***************************************************************************)
THEOREM QuietPeersAreServed == Spec => []QuietPeerIsServed
<1>1. QuietInv => QuietPeerIsServed
  BY DEF QuietInv, QuietPeerIsServed, Served, At, WithSession
<1> QED
  BY <1>1, QuietInvariance, PTL
=============================================================================
