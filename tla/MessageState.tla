----------------------------- MODULE MessageState ----------------------------
(***************************************************************************)
(* The life of one conversation: the turns that open with prompts and      *)
(* append to it, the cleanup and compaction that rewrite it, the session   *)
(* file it is saved to after a successful turn, and the process that can   *)
(* die at any moment (pkg/agent/state, internal/infra/message.go,          *)
(* Agent.Invoke).  What a client would make of it is in Requests.          *)
(***************************************************************************)
EXTENDS Requests

CONSTANTS MaxIds,    \* bound: messages and calls added in all
          MaxTurns,  \* bound: turns
          Markers,   \* what the prompts of a turn are recognised by
          Texts,     \* what they say
          Openings,  \* the memory, catalog and role that a turn may open with
          Endings,   \* how the calls of a response may end, in order
          Orphans,   \* whether turns are interrupted and calls refused
          Restarts   \* bound: how often the process restarts

Ids == 1 .. MaxIds

Prompts == {NoPrompt} \cup {Prompt(marker, text) : marker \in Markers, text \in Texts}

\* The markers are constants of the code and the role's name is in its own.
ASSUME PromptsAssumption ==
  /\ NoPrompt.marker \notin Markers
  /\ Openings \subseteq Prompts \X Prompts \X Prompts
  /\ \A o \in Openings : \A k, l \in 1 .. 3 :
       k # l /\ o[k].marker = o[l].marker => o[k] = NoPrompt

ASSUME BoundsAssumption ==
  /\ MaxIds \in Nat /\ MaxTurns \in Nat /\ Orphans \in BOOLEAN /\ Restarts \in Nat
  /\ Endings \subseteq Seq(Outcomes)

VARIABLES
  messages,   \* MessageState.Messages
  file,       \* the session file: "none", "torn", or the messages in it
  at,         \* "between" turns, "opening" one, "in" it, "saving", or "down"
  opening,    \* the prompts that the running turn opens with
  turn,       \* turns started
  nextId,
  restarts,
  added,      \* history: contents added and not given up since
  compacted,  \* history: the conversation was rewritten during this turn
  kept        \* history: contents covered by the last complete save

vars == <<messages, file, at, opening, turn, nextId, restarts, added, compacted, kept>>

NoFile == <<"none">>
Torn   == <<"torn">>
Stored(ms) == <<"stored", ms>>
Stores(f)  == f[1] = "stored"
-----------------------------------------------------------------------------
Init == /\ messages = <<>> /\ file = NoFile
        /\ at = "between" /\ opening = <<>> /\ turn = 0 /\ nextId = 1 /\ restarts = 0
        /\ added = {} /\ compacted = FALSE /\ kept = {}

Add(ms, n) == /\ messages' = messages \o ms
              /\ added' = added \cup Carried(ms)
              /\ nextId' = nextId + n

Fits(n) == nextId + n - 1 \in Ids

\* A mutant: a prompt that was ever given is not given again.
InjectOnce(ms, prompt) ==
  IF prompt = NoPrompt \/ prompt \in {ms[i] : i \in DOMAIN ms} THEN ms ELSE Append(ms, prompt)

\* Invoke adds a prompt unless the last with its marker is the same.
Inject(ms, prompt) ==
  LET last == LastPos(ms, LAMBDA m : m.kind = "prompt" /\ m.marker = prompt.marker)
  IN IF prompt = NoPrompt \/ (last > 0 /\ ms[last] = prompt) THEN ms ELSE Append(ms, prompt)

\* Invoke cleans up and then injects the memory, the catalog and the role.
Open ==
  /\ at = "between" /\ turn < MaxTurns /\ Fits(1)
  /\ \E prompts \in Openings :
       /\ opening' = prompts
       /\ messages' = Inject(Inject(Inject(CleanupMandatory(messages), prompts[1]),
                                    prompts[2]), prompts[3])
  /\ turn' = turn + 1
  /\ at' = "opening" /\ compacted' = FALSE
  /\ UNCHANGED <<file, nextId, restarts, added, kept>>

\* Run appends the user's message; the loop's first round cleans up.
Ask ==
  /\ at = "opening"
  /\ LET user == Plain("user", nextId, turn)
     IN /\ messages' = CleanupMandatory(Append(messages, user))
        /\ added' = added \cup Content(user)
  /\ nextId' = nextId + 1
  /\ at' = "in"
  /\ UNCHANGED <<file, opening, turn, restarts, compacted, kept>>

\* A tool call of an iteration with its result.
AddPair ==
  /\ at = "in" /\ Fits(1)
  /\ \E outcome \in Outcomes :
       /\ <<outcome>> \in Endings
       /\ Add(<<Plain("call", nextId, turn), Plain(outcome, nextId, turn)>>, 1)
  /\ UNCHANGED <<file, at, opening, turn, restarts, compacted, kept>>

\* A batch records its calls first and then their results.
AddBatch ==
  /\ at = "in" /\ Fits(2)
  /\ \E first, second \in Outcomes :
       /\ <<first, second>> \in Endings
       /\ Add(<<Plain("call", nextId, turn), Plain("call", nextId + 1, turn),
                Plain(first, nextId, turn), Plain(second, nextId + 1, turn)>>, 2)
  /\ UNCHANGED <<file, at, opening, turn, restarts, compacted, kept>>

\* A refused call leaves a result alone, an error.
AddRefusal ==
  /\ Orphans /\ at = "in" /\ Fits(1)
  /\ Add(<<Plain("error", nextId, turn)>>, 1)
  /\ UNCHANGED <<file, at, opening, turn, restarts, compacted, kept>>

\* An interrupt between recording a call and running it leaves the call alone
\* and ends the turn.
AddInterrupted ==
  /\ Orphans /\ at = "in" /\ Fits(1)
  /\ Add(<<Plain("call", nextId, turn)>>, 1)
  /\ at' = "between"
  /\ UNCHANGED <<file, opening, turn, restarts, compacted, kept>>

\* The turn fails: nothing is saved.
FailTurn ==
  /\ at = "in"
  /\ at' = "between"
  /\ UNCHANGED <<messages, file, opening, turn, nextId, restarts, added, compacted, kept>>

\* What a compaction gives up: all it replaces if the model gives no summary,
\* and else what errors say and system messages that are no boundary, such as a
\* reloaded summary.
GivenUp(ms, summarised) ==
  LET old == SubSeq(ms, 1, Replaced(ms))
  IN IF summarised
     THEN Errors(Carried(old))
            \cup Tells(old, {i \in DOMAIN old : old[i].kind \in {"system", "prompt"}})
     ELSE Carried(old)

\* A mutant: compaction clears the state with Clear, which removes the file.
CompactClearing ==
  /\ at \in {"opening", "in"}
  /\ \E summarised \in BOOLEAN :
       /\ messages' = Compact(messages, summarised)
       /\ added' = added \ GivenUp(messages, summarised)
  /\ file' = NoFile
  /\ compacted' = TRUE
  /\ UNCHANGED <<at, opening, turn, nextId, restarts, kept>>

\* CompactIfNeeded above its threshold, before the user's message is added or
\* at the head of an iteration.  The file is left alone.
CompactIfNeeded ==
  /\ at \in {"opening", "in"} /\ Replaced(messages) > 0
  /\ \E summarised \in BOOLEAN :
       /\ messages' = Compact(messages, summarised)
       /\ added' = added \ GivenUp(messages, summarised)
  /\ compacted' = TRUE
  /\ UNCHANGED <<file, at, opening, turn, nextId, restarts, kept>>

\* The final answer; SaveToFile truncates the file and writes it.
EndTurn ==
  /\ at = "in" /\ Fits(1)
  /\ Add(<<Plain("assistant", nextId, turn)>>, 1)
  /\ at' = "saving"
  /\ UNCHANGED <<file, opening, turn, restarts, compacted, kept>>

Truncate ==
  /\ at = "saving" /\ file # Torn
  /\ file' = Torn
  /\ UNCHANGED <<messages, at, opening, turn, nextId, restarts, added, compacted, kept>>

Write ==
  /\ at = "saving" /\ file = Torn
  /\ file' = Stored(messages)
  /\ kept' = Carried(messages)
  /\ at' = "between"
  /\ UNCHANGED <<messages, opening, turn, nextId, restarts, added, compacted>>

Forget == /\ file' = NoFile
          /\ kept' = {}

\* ClearHistory between turns.
Clear ==
  /\ at = "between" /\ messages # <<>>
  /\ Forget
  /\ messages' = <<>> /\ added' = {}
  /\ UNCHANGED <<at, opening, turn, nextId, restarts, compacted>>

\* The plan is approved with "clear planning context": the call that asked is
\* cleared with the rest and its result is added afterwards.
ClearContext ==
  /\ at = "in" /\ Fits(1)
  /\ Forget
  /\ LET answer == <<Plain("result", nextId, turn)>>
     IN messages' = answer /\ added' = Carried(answer)
  /\ nextId' = nextId + 1
  /\ compacted' = TRUE
  /\ UNCHANGED <<at, opening, turn, restarts>>

Crash ==
  /\ at # "down" /\ restarts < Restarts
  /\ at' = "down"
  /\ messages' = <<>>
  /\ UNCHANGED <<file, opening, turn, nextId, restarts, added, compacted, kept>>

\* LoadFromFile; a file that cannot be parsed is logged and the session starts
\* empty over it, so that a crash in the middle of a save costs the history.
Restart ==
  /\ at = "down"
  /\ messages' = IF Stores(file) THEN Reload(file[2]) ELSE <<>>
  /\ kept'  = IF Stores(file) THEN kept ELSE {}
  /\ added' = {c \in kept' : c[1] # "prompt"}
  /\ at' = "between"
  /\ restarts' = restarts + 1
  /\ UNCHANGED <<file, opening, turn, nextId, compacted>>

Next == \/ Open \/ Ask \/ AddPair \/ AddBatch \/ AddRefusal \/ AddInterrupted
        \/ FailTurn \/ CompactIfNeeded \/ EndTurn \/ Truncate \/ Write
        \/ Clear \/ ClearContext \/ Crash \/ Restart

Spec == Init /\ [][Next]_vars
-----------------------------------------------------------------------------
\* What a message can tell, and the messages there are.
Contents == {"user", "assistant", "call", "result", "error"} \X Ids
              \cup {<<"prompt", marker, text>> : marker \in Markers, text \in Texts}
Message ==
  [kind : {"user", "assistant", "call"} \cup Results, id : Ids, turn : 0 .. MaxTurns,
   covers : {{}}]
    \cup [kind : {"boundary", "system"}, id : {0}, turn : {0}, covers : SUBSET Contents]
    \cup (Prompts \ {NoPrompt})

\* The types of the variables.
TypeOK ==
  /\ messages \in Seq(Message)
  /\ at \in {"between", "opening", "in", "saving", "down"}
  /\ opening \in Openings \cup {<<>>} /\ compacted \in BOOLEAN
  /\ nextId \in 1 .. MaxIds + 1 /\ turn \in 0 .. MaxTurns
  /\ restarts \in 0 .. Restarts
  /\ file \in {NoFile, Torn} \/ (file[2] \in Seq(Message) /\ file = Stored(file[2]))
  /\ added \subseteq Contents /\ kept \subseteq Contents

\* The last prompt with the marker of p, if there is one, is p.
LastIs(ms, p) ==
  LET all == {i \in DOMAIN ms : ms[i].kind = "prompt" /\ ms[i].marker = p.marker}
  IN all # {} => \E i \in all : ms[i] = p /\ \A j \in all : j <= i

\* What system messages tell that are not the last one.
Overridden(ms) ==
  Tells(ms, {i \in DOMAIN ms : IsSystem(ms[i])}) \ Instruction(ms)

(***************************************************************************)
(* A model that is called in the middle of a turn is told all that was     *)
(* said, as it was or by the summary, however often the conversation was   *)
(* compacted and whichever vendor it is sent to: only a summary that could *)
(* not be made and a reloaded one that is compacted once more are lost,    *)
(* and what errors say once they are compacted.  It is told the prompts    *)
(* that the turn opened with as long as the turn was not compacted.        *)
(* Gemini is told one system message, the last.  OpenAI is told that a     *)
(* call has failed by an empty output and never what the error says, which *)
(* react.go:563-564 means it to see (performCompaction,                    *)
(* compaction.go:259-371; openai/client.go:518-527;                        *)
(* gemini/client.go:318-374).                                              *)
(***************************************************************************)
Withheld(client) ==
  CASE client = "gemini" -> Overridden(messages)
    [] client = "openai" -> Errors(added)
    [] OTHER -> {}

ModelIsTold ==
  at = "in" =>
    \A client \in Clients :
      (added \cup IF compacted THEN {} ELSE Carried(opening)) \ Withheld(client)
      \subseteq Told(Request(client, messages))

(***************************************************************************)
(* Of each kind of prompt - the memory, the catalog, one for each role -   *)
(* the last in the conversation says what it says now in the running turn, *)
(* if it has not been compacted away: a memory that changes back, or a     *)
(* role whose text does, is given again.  Each role has a marker of its    *)
(* own (agent.go:980): after the roles A, B and A the last role prompt is  *)
(* B's, and the property says nothing against that (Invoke,                *)
(* agent.go:945-993).                                                      *)
(***************************************************************************)
PromptsAreCurrent ==
  at = "in" => \A p \in DOMAIN opening : LastIs(messages, opening[p])

(***************************************************************************)
(* What a save put into the session file stays there until the next save   *)
(* begins or the history is cleared: compaction rewrites memory only       *)
(* (clearInMemory, state.go:66-73).                                        *)
(***************************************************************************)
SavedStays ==
  Stores(file) \/ file = NoFile => kept \subseteq (IF Stores(file) THEN Carried(file[2]) ELSE {})

(***************************************************************************)
(* As long as the history has no call without a result and no result       *)
(* without a call, no request has one either, however the conversation was *)
(* split (findSafeSplitPoint, compaction.go:430-445; anthropic/util.go,    *)
(* openai/client.go:473-563).                                              *)
(***************************************************************************)
PairsAreSent ==
  at = "in" /\ (\A c \in Ids : <<"call", c>> \in added <=> <<"result", c>> \in added) =>
    \A client \in Clients \ {"gemini"} : Paired(Request(client, messages))

(***************************************************************************)
(* Cleanup clears no result of the last KeepTurns turns, whatever          *)
(* compaction removed from the conversation since (keepRecentTurns,        *)
(* compaction.go:24-33).                                                   *)
(***************************************************************************)
RecentTurnsIntact ==
  \A i \in DOMAIN messages : messages[i].kind = "stub" => messages[i].turn <= turn - KeepTurns
=============================================================================
