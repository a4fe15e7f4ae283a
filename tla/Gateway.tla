------------------------------ MODULE Gateway ------------------------------
(***************************************************************************)
(* The messaging gateway (internal/gateway) over the agent server: every   *)
(* message of a peer is handled in a goroutine of its own, which finds or  *)
(* starts the peer's session, waits for the session's lock and invokes the *)
(* agent; !clear is handled without that lock.  Sessions expire, and       *)
(* either process may be restarted on its own.                             *)
(*                                                                         *)
(* A handler's place in its code, handler[m].at:                           *)
(*   "inbox"     the message has not been taken from the bus               *)
(*   "expire"    GetOrCreateSession has found an expired session           *)
(*   "load", "register"  in StartSession on the server                     *)
(*   "store"     StartSession has answered                                 *)
(*   "lock", "invoke"    waiting for the session's lock, holding it        *)
(*   "running"   in Agent.Invoke on the server                             *)
(*   "clear", "clearing", "dropping"  a !clear before ClearSession, and in *)
(*               it on the server                                          *)
(*   "done"                                                                *)
(***************************************************************************)
EXTENDS AgentServer

CONSTANTS PeerOf,       \* message -> the peer that sent it
          Clears,       \* the messages that are the command !clear
          MaxMishaps    \* bound: restarts and sessions that expire, in all

ASSUME GatewayAssumption ==
  /\ PeerOf \in [Messages -> Peers]
  /\ Clears \subseteq Messages
  /\ MaxMishaps \in Nat

VARIABLES
  current,    \* SessionManager.sessions: peer -> gateway session, or 0
  started,    \* every gateway session: its server session id, and the
              \*   run of the server that issued the id
  expired,    \* gateway sessions inactive beyond the timeout
  holder,     \* gateway session -> the messages that hold invokeMu
  handler,    \* a goroutine's place and locals: gateway session and agent
  gatewayRun, \* how many times the gateway process has started
  orphans,    \* requests on the server whose gateway is gone
  \* History of the run, which no guard reads:
  alone,      \* peers that never had two messages in hand at once
  crossed,    \* an id of an earlier server run has been honoured
  kept,       \* peer -> turns answered since it was last cleared
  forgotten   \* peer -> turns of a conversation that has been cleared

mapVars == <<current, started, expired, holder>>
processVars == <<gatewayRun, orphans>>
historyVars == <<alone, crossed, kept, forgotten>>
vars == <<serverVars, mapVars, handler, processVars, historyVars>>

Prompts == Messages \ Clears
Places == {"inbox", "expire", "load", "register", "store", "lock", "invoke",
           "running", "clear", "clearing", "dropping", "done"}
OnServer == {"load", "register", "running", "clearing", "dropping"}

At(m, place) == handler[m].at = place
Session(m) == handler[m].session
AgentOf(m) == handler[m].agent
IdOf(m) == started[Session(m)].id
Fresh(m) == started[Session(m)].run = serverRun
InHand(m) == handler[m].at \notin {"inbox", "done"}

Init ==
  /\ ServerInit
  /\ current = [p \in Peers |-> 0]
  /\ started = <<>>
  /\ expired = {}
  /\ holder = <<>>
  /\ handler = [m \in Messages |-> [at |-> "inbox", session |-> 0, agent |-> 0]]
  /\ gatewayRun = 1
  /\ orphans = {}
  /\ alone = Peers
  /\ crossed = FALSE
  /\ kept = [p \in Peers |-> {}]
  /\ forgotten = [p \in Peers |-> {}]

(***************************************************************************)
(* The steps of a handler: on to the next place, with a session or an      *)
(* agent it has found, or out of its function.                             *)
(***************************************************************************)
Finished == [at |-> "done", session |-> 0, agent |-> 0]

Go(m, to) == handler' = [handler EXCEPT ![m].at = to]
GoWithSession(m, to, k) == handler' = [handler EXCEPT ![m].at = to, ![m].session = k]
GoWithAgent(m, to, a) == handler' = [handler EXCEPT ![m].at = to, ![m].agent = a]
Return(m) == handler' = [handler EXCEPT ![m] = Finished]

Unlock(m) == holder' = [holder EXCEPT ![Session(m)] = @ \ {m}]

\* A message is taken in hand: does its peer still have another?
Take(m) ==
  /\ alone' = IF \E o \in Messages \ {m} : PeerOf[o] = PeerOf[m] /\ InHand(o)
                THEN alone \ {PeerOf[m]} ELSE alone
  /\ UNCHANGED <<crossed, kept, forgotten>>

(***************************************************************************)
(* GetOrCreateSession.  Nothing holds a lock from one step to the next:    *)
(* two messages of a peer may both start a session, and the one that finds *)
(* its session expired deletes whatever the map holds by then.             *)
(***************************************************************************)
Lookup(m) ==
  LET k == current[PeerOf[m]]
  IN /\ m \in Prompts /\ At(m, "inbox")
     /\ \/ k = 0 /\ Go(m, "load")
        \/ k \in expired /\ Go(m, "expire")
        \/ k \notin expired \cup {0} /\ GoWithSession(m, "lock", k)
     /\ Take(m)
     /\ UNCHANGED <<serverVars, mapVars, processVars>>

Expire(m) ==
  /\ At(m, "expire")
  /\ Go(m, "load")
  /\ current' = [current EXCEPT ![PeerOf[m]] = 0]
  /\ UNCHANGED <<serverVars, started, expired, holder, processVars, historyVars>>

StartLoad(m) ==
  /\ At(m, "load")
  /\ GoWithAgent(m, "register", NewAgent)
  /\ BuildAgent(PeerOf[m])
  /\ UNCHANGED <<mapVars, processVars, historyVars>>

\* The agent cannot be built: the handler returns without a reply.
StartFails(m) ==
  /\ At(m, "load")
  /\ Return(m)
  /\ UNCHANGED <<serverVars, mapVars, processVars, historyVars>>

StartRegister(m) ==
  /\ At(m, "register")
  /\ RegisterAgent(PeerOf[m], AgentOf(m))
  /\ IF m \in orphans THEN Return(m) ELSE GoWithSession(m, "store", Len(started) + 1)
  /\ started' = Append(started, [id |-> NewID, run |-> serverRun])
  /\ holder' = Append(holder, {})
  /\ UNCHANGED <<current, expired, processVars, historyVars>>

Store(m) ==
  /\ At(m, "store")
  /\ Go(m, "lock")
  /\ current' = [current EXCEPT ![PeerOf[m]] = Session(m)]
  /\ UNCHANGED <<serverVars, started, expired, holder, processVars, historyVars>>

(***************************************************************************)
(* handleInbound from LockInvoke on.  A session unknown to the server is   *)
(* answered with an error, as is a turn that fails.                        *)
(***************************************************************************)
\* A mutant: the session's lock is not waited for.
LockInvokeShared(m) ==
  /\ At(m, "lock")
  /\ Go(m, "invoke")
  /\ holder' = [holder EXCEPT ![Session(m)] = @ \cup {m}]
  /\ UNCHANGED <<serverVars, current, started, expired, processVars, historyVars>>

LockInvoke(m) ==
  /\ At(m, "lock")
  /\ holder[Session(m)] = {}
  /\ Go(m, "invoke")
  /\ holder' = [holder EXCEPT ![Session(m)] = {m}]
  /\ UNCHANGED <<serverVars, current, started, expired, processVars, historyVars>>

Invoke(m) ==
  /\ At(m, "invoke")
  /\ Known(IdOf(m))
  /\ GoWithAgent(m, "running", sessions[IdOf(m)])
  /\ AddPrompt(sessions[IdOf(m)], m)
  /\ crossed' = (crossed \/ ~Fresh(m))
  /\ UNCHANGED <<mapVars, processVars, alone, kept, forgotten>>

InvokeUnknown(m) ==
  /\ At(m, "invoke")
  /\ ~Known(IdOf(m))
  /\ Return(m)
  /\ Unlock(m)
  /\ UNCHANGED <<serverVars, current, started, expired, processVars, historyVars>>

EndTurn(m) ==
  /\ At(m, "running")
  /\ Return(m)
  /\ Unlock(m)
  /\ AddAnswer(AgentOf(m), m)
  /\ kept' = [kept EXCEPT ![PeerOf[m]] = @ \cup {m}]
  /\ UNCHANGED <<current, started, expired, processVars, alone, crossed, forgotten>>

FailTurn(m) ==
  /\ At(m, "running")
  /\ Return(m)
  /\ Unlock(m)
  /\ UNCHANGED <<serverVars, current, started, expired, processVars, historyVars>>

(***************************************************************************)
(* !clear: the session leaves the gateway's map first, then the server is  *)
(* told.  With no session in the map nothing is asked of the server; an    *)
(* error of the server is dropped.                                         *)
(***************************************************************************)
\* A mutant: the gateway goes on using the session it has cleared.
TakeClearKeeping(m) ==
  LET k == current[PeerOf[m]]
  IN /\ m \in Clears /\ At(m, "inbox")
     /\ IF k = 0 THEN Return(m) ELSE GoWithSession(m, "clear", k)
     /\ Take(m)
     /\ UNCHANGED <<serverVars, mapVars, processVars>>

TakeClear(m) ==
  LET k == current[PeerOf[m]]
  IN /\ m \in Clears /\ At(m, "inbox")
     /\ IF k = 0 THEN Return(m) ELSE GoWithSession(m, "clear", k)
     /\ current' = [current EXCEPT ![PeerOf[m]] = 0]
     /\ Take(m)
     /\ UNCHANGED <<serverVars, started, expired, holder, processVars>>

AskClear(m) ==
  /\ At(m, "clear")
  /\ IF Known(IdOf(m)) THEN GoWithAgent(m, "clearing", sessions[IdOf(m)]) ELSE Return(m)
  /\ crossed' = (crossed \/ (Known(IdOf(m)) /\ ~Fresh(m)))
  /\ UNCHANGED <<serverVars, mapVars, processVars, alone, kept, forgotten>>

ClearAgent(m) ==
  LET a == AgentOf(m)
      p == agents[a].peer
  IN /\ At(m, "clearing")
     /\ Go(m, "dropping")
     /\ ClearHistory(a)
     /\ kept' = [kept EXCEPT ![p] = {}]
     /\ forgotten' = [forgotten EXCEPT ![p] = @ \cup agents[a].history]
     /\ UNCHANGED <<mapVars, processVars, alone, crossed>>

DropAgent(m) ==
  /\ At(m, "dropping")
  /\ Return(m)
  /\ DropSession(IdOf(m), agents[AgentOf(m)].peer)
  /\ UNCHANGED <<mapVars, processVars, historyVars>>

\* What has gone wrong so far, in either process or for want of messages.
Mishaps == (serverRun - 1) + (gatewayRun - 1) + Cardinality(expired)

(***************************************************************************)
(* Half an hour without a message: only taking a message in hand counts as *)
(* activity, so a session may expire under a running turn.                 *)
(***************************************************************************)
BecomeInactive(p) ==
  /\ current[p] \notin expired \cup {0}
  /\ Mishaps < MaxMishaps
  /\ expired' = expired \cup {current[p]}
  /\ UNCHANGED <<serverVars, current, started, holder, handler, processVars, historyVars>>

(***************************************************************************)
(* Either process is restarted, the other runs on.  Requests on a dead     *)
(* server fail; the requests of a dead gateway go on at the server.        *)
(***************************************************************************)
ServerRestarts ==
  /\ Mishaps < MaxMishaps
  /\ RestartServer
  /\ LET failing == {m \in Messages : handler[m].at \in OnServer}
     IN /\ handler' = [m \in Messages |-> IF m \in failing THEN Finished ELSE handler[m]]
        /\ holder' = [k \in DOMAIN holder |-> holder[k] \ failing]
  /\ UNCHANGED <<current, started, expired, processVars, historyVars>>

GatewayRestarts ==
  /\ Mishaps < MaxMishaps
  /\ gatewayRun' = gatewayRun + 1
  /\ current' = [p \in Peers |-> 0]
  /\ LET lost == {m \in Messages : InHand(m) /\ handler[m].at \notin OnServer}
     IN /\ handler' = [m \in Messages |-> IF m \in lost THEN Finished ELSE handler[m]]
        /\ holder' = [k \in DOMAIN holder |-> holder[k] \ lost]
  /\ orphans' = orphans \cup {m \in Messages : handler[m].at \in OnServer}
  /\ UNCHANGED <<serverVars, started, expired, historyVars>>

GetOrCreateSession(m) ==
  Lookup(m) \/ Expire(m) \/ StartLoad(m) \/ StartFails(m) \/ StartRegister(m) \/ Store(m)
HandleInbound(m) ==
  LockInvoke(m) \/ Invoke(m) \/ InvokeUnknown(m) \/ EndTurn(m) \/ FailTurn(m)
HandleClear(m) == TakeClear(m) \/ AskClear(m) \/ ClearAgent(m) \/ DropAgent(m)

Handle(m) == GetOrCreateSession(m) \/ HandleInbound(m) \/ HandleClear(m)

Terminated == (\A m \in Messages : At(m, "done")) /\ UNCHANGED vars

Next ==
  \/ \E m \in Messages : Handle(m)
  \/ \E p \in Peers : BecomeInactive(p)
  \/ ServerRestarts
  \/ GatewayRestarts
  \/ Terminated

Spec == Init /\ [][Next]_vars

-----------------------------------------------------------------------------
(***************************************************************************)
(* Properties.                                                             *)
(***************************************************************************)
TypeOK ==
  /\ serverRun \in 1..(MaxMishaps + 1) /\ gatewayRun \in 1..(MaxMishaps + 1)
  /\ nextID \in Nat
  /\ agents \in Seq(Agent)
  /\ \A id \in DOMAIN sessions : id \in 1..nextID /\ sessions[id] \in DOMAIN agents
  /\ keyToSession \in [Peers -> 0..nextID]
  /\ file \in [Peers -> SUBSET Messages]
  /\ started \in Seq([id : Nat \ {0}, run : 1..serverRun])
  /\ current \in [Peers -> 0..Len(started)]
  /\ expired \subseteq DOMAIN started
  /\ holder \in [DOMAIN started -> SUBSET Messages]
  /\ handler \in [Messages -> [at : Places, session : 0..Len(started), agent : 0..Len(agents)]]
  /\ orphans \subseteq Messages /\ alone \subseteq Peers /\ crossed \in BOOLEAN
  /\ kept \in [Peers -> SUBSET Messages] /\ forgotten \in [Peers -> SUBSET Messages]

(***************************************************************************)
(* An agent and its message state are not safe for concurrent use          *)
(* (session.go:35-37): no two turns run on one agent, as long as the ids   *)
(* they go by were issued by the server that is running.                   *)
(***************************************************************************)
OneTurnPerAgent ==
  \A m, o \in Messages :
    /\ m # o
    /\ At(m, "running") /\ At(o, "running")
    /\ Fresh(m) /\ Fresh(o)
    => AgentOf(m) # AgentOf(o)

(***************************************************************************)
(* A turn that goes by an id of the running server is run by an agent of   *)
(* its own peer.                                                           *)
(***************************************************************************)
OwnAgent ==
  \A m \in Messages :
    At(m, "running") /\ Fresh(m) => agents[AgentOf(m)].peer = PeerOf[m]

(***************************************************************************)
(* A peer that reconnects replaces its session instead of leaking an agent *)
(* (server.go:33-35): the server reaches one agent per peer, the one its   *)
(* key table names.                                                        *)
(***************************************************************************)
OneLiveAgent ==
  \A p \in Peers :
    {id \in DOMAIN sessions : agents[sessions[id]].peer = p} = {keyToSession[p]} \ {0}

(***************************************************************************)
(* History survives expiry, eviction and restarts through the session file *)
(* (session.go:88-90, server.go:127), and what a !clear has cleared comes  *)
(* back neither in the file nor in the agent that the next message will    *)
(* find: a peer that sends one message at a time finds every turn answered *)
(* since its last !clear and none from before it.                          *)
(***************************************************************************)
TurnsAreKept(p) == kept[p] \subseteq file[p]

ClearedIsGone(p) ==
  /\ forgotten[p] \cap file[p] = {}
  /\ \A id \in DOMAIN sessions :
       agents[sessions[id]].peer = p => forgotten[p] \cap agents[sessions[id]].history = {}

HistorySurvives ==
  \A p \in alone : ~crossed => TurnsAreKept(p) /\ ClearedIsGone(p)

(***************************************************************************)
(* A peer that sends one message at a time is never told that its session  *)
(* does not exist, unless the server was restarted under it.               *)
(***************************************************************************)
QuietPeerIsServed ==
  \A m \in Messages :
    PeerOf[m] \in alone /\ ~crossed /\ At(m, "invoke") /\ Fresh(m) => Known(IdOf(m))

(***************************************************************************)
(* invokeMu is held by a message in hand, which runs or is about to run    *)
(* its turn: whatever way a turn or its server ends, the next message of   *)
(* the session gets the lock.                                              *)
(***************************************************************************)
LockIsReleased ==
  \A k \in DOMAIN holder : \A m \in holder[k] :
    holder[k] = {m} /\ Session(m) = k /\ (At(m, "invoke") \/ At(m, "running"))

(***************************************************************************)
(* doc/DESIGN.md:291-293: message history is never shared between peers.   *)
(***************************************************************************)
PeersAreIsolated ==
  \A a \in DOMAIN agents : \A m \in agents[a].history : PeerOf[m] = agents[a].peer
=============================================================================
