---------------------------- MODULE AgentServer ----------------------------
(***************************************************************************)
(* The Connect agent server (internal/connectrpc/server.go): the table of  *)
(* sessions, the agents behind them and the session files they load and    *)
(* save.  Each operator is one critical section of a request handler, or   *)
(* the stretch between two of them; the module Gateway strings them        *)
(* together in the order in which the handlers of a client run them.       *)
(*                                                                         *)
(* A conversation is the set of turns it remembers.  A session id is the   *)
(* counter that numbers it ("session-%d"), 0 stands for none.              *)
(***************************************************************************)
EXTENDS Naturals, Sequences, FiniteSets, Functions

CONSTANTS Peers,     \* persistence keys: one conversation each
          Messages   \* turns that conversations may remember

VARIABLES
  serverRun,     \* how many times the server process has started
  nextID,        \* the counter of StartSession
  sessions,      \* session id -> position of its agent in agents
  keyToSession,  \* peer -> the session id of its agent, or 0
  agents,        \* every agent ever built: whose it is and what it remembers
  file           \* peer -> the turns of its session file, empty when absent

serverVars == <<serverRun, nextID, sessions, keyToSession, agents, file>>

Agent == [peer : Peers, history : SUBSET Messages]

ServerInit ==
  /\ serverRun = 1
  /\ nextID = 0
  /\ sessions = [id \in {} |-> 0]
  /\ keyToSession = [p \in Peers |-> 0]
  /\ agents = <<>>
  /\ file = [p \in Peers |-> {}]

(***************************************************************************)
(* StartSession, before its critical section: a new agent, and             *)
(* EnablePersistence, which loads the peer's session file into it.         *)
(***************************************************************************)
BuildAgent(p) ==
  /\ agents' = Append(agents, [peer |-> p, history |-> file[p]])
  /\ UNCHANGED <<serverRun, nextID, sessions, keyToSession, file>>

\* The agent that BuildAgent adds.
NewAgent == Len(agents) + 1

(***************************************************************************)
(* StartSession, under the lock: the peer's earlier session is evicted and *)
(* the agent a is entered under the next id.                               *)
(***************************************************************************)
NewID == nextID + 1

Entered(table, a) == [id \in DOMAIN table \cup {NewID} |-> IF id = NewID THEN a ELSE table[id]]

RegisterAgent(p, a) ==
  /\ nextID' = NewID
  /\ sessions' = Entered(Restrict(sessions, DOMAIN sessions \ {keyToSession[p]}), a)
  /\ keyToSession' = [keyToSession EXCEPT ![p] = NewID]
  /\ UNCHANGED <<serverRun, agents, file>>

(***************************************************************************)
(* getSession.                                                             *)
(***************************************************************************)
Known(id) == id \in DOMAIN sessions

(***************************************************************************)
(* Agent.Invoke as the session sees it: the prompt is in the history from  *)
(* the first model call on; the file is written when the turn has          *)
(* succeeded and not when it has failed.                                   *)
(***************************************************************************)
AddPrompt(a, m) ==
  /\ agents' = [agents EXCEPT ![a].history = @ \cup {m}]
  /\ UNCHANGED <<serverRun, nextID, sessions, keyToSession, file>>

AddAnswer(a, m) ==
  LET history == agents[a].history \cup {m}
  IN /\ agents' = [agents EXCEPT ![a].history = history]
     /\ file' = [file EXCEPT ![agents[a].peer] = history]
     /\ UNCHANGED <<serverRun, nextID, sessions, keyToSession>>

(***************************************************************************)
(* ClearSession: Agent.ClearHistory empties the memory and removes the     *)
(* file; then, under the lock, the session goes.                           *)
(***************************************************************************)
\* A mutant: the session file stays for the next StartSession.
ClearHistoryInMemory(a) ==
  /\ agents' = [agents EXCEPT ![a].history = {}]
  /\ UNCHANGED <<serverRun, nextID, sessions, keyToSession, file>>

ClearHistory(a) ==
  /\ agents' = [agents EXCEPT ![a].history = {}]
  /\ file' = [file EXCEPT ![agents[a].peer] = {}]
  /\ UNCHANGED <<serverRun, nextID, sessions, keyToSession>>

DropSession(id, p) ==
  /\ sessions' = Restrict(sessions, DOMAIN sessions \ {id})
  /\ keyToSession' = [keyToSession EXCEPT ![p] = IF @ = id THEN 0 ELSE @]
  /\ UNCHANGED <<serverRun, nextID, agents, file>>

(***************************************************************************)
(* A new process on the same session files.                                *)
(***************************************************************************)
RestartServer ==
  /\ serverRun' = serverRun + 1
  /\ nextID' = 0
  /\ sessions' = [id \in {} |-> 0]
  /\ keyToSession' = [p \in Peers |-> 0]
  /\ UNCHANGED <<agents, file>>
=============================================================================
