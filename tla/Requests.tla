------------------------------- MODULE Requests ------------------------------
(***************************************************************************)
(* What the clients of the three vendors make of a conversation: the       *)
(* request that a model is called with (pkg/client): its items, each at    *)
(* the position of the message it stands for.  An item has a role,         *)
(* is a text, a call or a result, and tells what its message tells, or     *)
(* less; it may have a user's message with images behind it.  The          *)
(* instruction is Gemini's, whose other items are all texts.               *)
(***************************************************************************)
EXTENDS Compaction

Clients == {"anthropic", "openai", "gemini"}

Item(role, part, m) ==
  [role |-> role, part |-> part, id |-> m.id, tells |-> Content(m), images |-> FALSE]

\* toAnthropicMessages: system messages become the user's.
ToAnthropic(m) ==
  CASE m.kind = "user"      -> Item("user", "text", m)
    [] m.kind = "assistant" -> Item("assistant", "text", m)
    [] m.kind \in Systems   -> Item("user", "text", m)
    [] m.kind = "call"      -> Item("assistant", "call", m)
    [] m.kind \in Results   -> Item("user", "result", m)

\* convertMessagesToResponsesInputItems: the output of a call is its Result,
\* which an error leaves empty, and images follow in a message of the user.
ToOpenAI(m) ==
  CASE m.kind = "user"      -> Item("user", "text", m)
    [] m.kind = "assistant" -> Item("assistant", "text", m)
    [] m.kind \in Systems   -> Item("system", "text", m)
    [] m.kind = "call"      -> Item("assistant", "call", m)
    [] m.kind \in Results   -> [Item("tool", "result", m) EXCEPT
                                 !.tells = @ \ Errors(@), !.images = m.kind = "image"]

\* The contents of GeminiClient.ChatWithToolChoice: calls and results are
\* texts, and system messages are passed over.
ToGemini(m) ==
  CASE m.kind \in {"user"} \cup Results      -> Item("user", "text", m)
    [] m.kind \in {"assistant", "call"} -> Item("model", "text", m)

IsSystem(m) == m.kind \in Systems

\* The last system message is Gemini's instruction, the others are dropped.
Instruction(ms) ==
  LET last == LastPos(ms, IsSystem) IN IF last = 0 THEN {} ELSE Content(ms[last])

Request(client, ms) ==
  CASE client = "anthropic" ->
         [instruction |-> {}, items |-> [i \in DOMAIN ms |-> ToAnthropic(ms[i])]]
    [] client = "openai" ->
         [instruction |-> {}, items |-> [i \in DOMAIN ms |-> ToOpenAI(ms[i])]]
    [] client = "gemini" ->
         [instruction |-> Instruction(ms),
          items |-> [i \in {j \in DOMAIN ms : ~IsSystem(ms[j])} |-> ToGemini(ms[i])]]

\* All that the model is told.
Told(request) ==
  request.instruction
    \cup UNION {request.items[i].tells : i \in DOMAIN request.items}

\* Each call has its result in the same exchange: between the two stand only
\* calls, results and, with OpenAI, the images of results.
Paired(request) ==
  LET items == request.items
      Exchange(i, j) == \A k \in i .. j : items[k].part \in {"call", "result"}
      Answers(j, i) == items[j].part = "result" /\ items[j].id = items[i].id
  IN /\ \A i \in DOMAIN items : items[i].part = "call" =>
          \E j \in DOMAIN items : i < j /\ Answers(j, i) /\ Exchange(i, j)
     /\ \A j \in DOMAIN items : items[j].part = "result" =>
          \E i \in DOMAIN items : i < j /\ items[i].part = "call" /\ Answers(j, i)
=============================================================================
