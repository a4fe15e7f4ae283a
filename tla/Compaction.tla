------------------------------ MODULE Compaction -----------------------------
(***************************************************************************)
(* The pure operations on a conversation (pkg/agent/state/compaction.go,   *)
(* state.go) and its round trip through the session file                   *)
(* (internal/infra/message.go), over messages reduced to their kind, an    *)
(* id that a call shares with its result, the turn they belong to and, for *)
(* a summary, the messages it tells of.                                    *)
(***************************************************************************)
EXTENDS Integers, Sequences, FiniteSets, SequencesExt

CONSTANTS KeepTurns,     \* keepRecentTurns, 5 in the code
          KeepBlocks,    \* preserveRecentBlocks, 5
          KeepMessages,  \* preserveRecent and minMessagesToPreserve, 10
          Margin         \* what block compaction must remove, 5

ASSUME SizesAssumption == /\ KeepTurns \in Nat \ {0} /\ KeepBlocks \in Nat \ {0}
                          /\ KeepMessages \in Nat /\ Margin \in Nat

\* How a call may end: with a text, with images, or with an error, which the
\* message keeps apart from its Result.
Outcomes == {"result", "image", "error"}

\* A stub is a result whose large text or images CleanupMandatory has cleared.
Results == Outcomes \cup {"stub"}

Plain(kind, id, turn) == [kind |-> kind, id |-> id, turn |-> turn, covers |-> {}]
Boundary(covers)      == [kind |-> "boundary", id |-> 0, turn |-> 0, covers |-> covers]
\* A system message that a turn opens with: the memory, the skill catalog or
\* the role, recognised by its marker.
Prompt(marker, text)  == [kind |-> "prompt", id |-> 0, turn |-> 0, marker |-> marker,
                          covers |-> {<<"prompt", marker, text>>}]
\* There is no memory, or no catalog, or the role has no text.
NoPrompt == [kind |-> "prompt", id |-> 0, turn |-> 0, marker |-> "none", covers |-> {}]

\* A boundary is a system message too, and reloaded it is nothing else.
Systems == {"boundary", "system", "prompt"}

\* What the model can learn of a message: what a summary tells of, or that a
\* call has its result and what the error says, or the message itself.
Content(m) ==
  CASE m.kind \in Systems -> m.covers
    [] m.kind = "error"   -> {<<"result", m.id>>, <<"error", m.id>>}
    [] m.kind \in Results \ {"error"} -> {<<"result", m.id>>}
    [] OTHER -> {<<m.kind, m.id>>}

\* What errors say; the field Result of an error's message is empty.
Errors(contents) == {c \in contents : c[1] = "error"}

Tells(ms, positions) == UNION {Content(ms[i]) : i \in positions}
Carried(ms) == Tells(ms, DOMAIN ms)
-----------------------------------------------------------------------------
\* The last position with a property, 0 if there is none.
LastPos(ms, P(_)) == LET at == {i \in DOMAIN ms : P(ms[i])}
                     IN IF at = {} THEN 0 ELSE CHOOSE i \in at : \A j \in at : j <= i

IsUser(m) == m.kind = "user"
UsersFrom(ms, i) == {j \in i .. Len(ms) : IsUser(ms[j])}

\* Defect: the boundary is looked for one user turn too late.
TurnBoundaryLate(ms) ==
  {i \in DOMAIN ms : IsUser(ms[i]) /\ Cardinality(UsersFrom(ms, i)) = KeepTurns - 1}

\* findTurnBoundary: the user message that opens the KeepTurns-th last turn.
TurnBoundary(ms) ==
  {i \in DOMAIN ms : IsUser(ms[i]) /\ Cardinality(UsersFrom(ms, i)) = KeepTurns}

\* CleanupMandatory: the results before the boundary are stubbed.  An error
\* stays.
CleanupMandatory(ms) ==
  [i \in DOMAIN ms |-> IF /\ ms[i].kind \in {"result", "image"}
                          /\ \E b \in TurnBoundary(ms) : i < b
                       THEN [ms[i] EXCEPT !.kind = "stub"] ELSE ms[i]]
-----------------------------------------------------------------------------
\* The two scans of isSafeSplitPoint, each in the order in which it runs.
UnpairedCalls(older) ==
  FoldRight(LAMBDA m, n : IF m.kind = "call" THEN n + 1
                          ELSE IF m.kind \in Results /\ n > 0 THEN n - 1 ELSE n,
            older, 0)
UnpairedResults(recent) ==
  FoldLeft(LAMBDA n, m : IF m.kind \in Results THEN n + 1
                         ELSE IF m.kind = "call" /\ n > 0 THEN n - 1 ELSE n,
           0, recent)

\* Defect: a split point is any point.
AnySplitPoint(ms, s) == s > 0 /\ s < Len(ms)

\* A split after the first s messages.
IsSafeSplitPoint(ms, s) ==
  /\ s > 0 /\ s < Len(ms)
  /\ UnpairedCalls(SubSeq(ms, 1, s)) = 0
  /\ UnpairedResults(SubSeq(ms, s + 1, Len(ms))) = 0

\* findSafeSplitPoint: the last safe point that keeps KeepMessages, else 0.
FindSafeSplitPoint(ms) ==
  LET safe == {s \in 1 .. Len(ms) - KeepMessages : IsSafeSplitPoint(ms, s)}
  IN IF safe = {} THEN 0 ELSE CHOOSE s \in safe : \A t \in safe : t <= s

\* findConversationBlocksToPreserve, as the number of messages it leaves out:
\* those before the KeepBlocks-th last user message.
BeforeBlocks(ms) ==
  LET starts == {i \in DOMAIN ms :
                   IsUser(ms[i]) /\ Cardinality(UsersFrom(ms, i)) = KeepBlocks}
  IN IF starts = {} THEN 0 ELSE (CHOOSE i \in starts : TRUE) - 1

\* Where performCompaction splits the messages behind the last boundary.
SplitPoint(eligible) ==
  LET older == BeforeBlocks(eligible)
      kept  == Len(eligible) - older
  IN IF kept >= KeepMessages /\ kept > 0 /\ kept < Len(eligible) - Margin
     THEN older ELSE FindSafeSplitPoint(eligible)

\* What is written out for the summary: user and assistant messages, names of
\* tools and the Result of results.  Other system messages are passed over.
WrittenOut(older) ==
  LET told == Tells(older, {j \in DOMAIN older : older[j].kind \notin Systems})
  IN told \ Errors(told)

\* Defect: the previous summary is not passed on to the next.
SummariseAfresh(ms, last, older) == WrittenOut(older)

\* The summary tells of the previous summary and of what it replaces.
Summarise(ms, last, older) ==
  (IF last = 0 THEN {} ELSE ms[last].covers) \cup WrittenOut(older)

LastBoundary(ms) == LastPos(ms, LAMBDA m : m.kind = "boundary")

\* How many messages a compaction replaces, the last boundary included.
Replaced(ms) ==
  LET last  == LastBoundary(ms)
      split == SplitPoint(SubSeq(ms, last + 1, Len(ms)))
  IN IF split = 0 THEN 0 ELSE last + split

\* performCompaction: all up to the split becomes one boundary message.  When
\* the model cannot be asked for a summary, the boundary holds counts only.
Compact(ms, summarised) ==
  LET last == LastBoundary(ms)
      n    == Replaced(ms)
  IN IF n = 0 THEN ms
     ELSE <<Boundary(IF summarised THEN Summarise(ms, last, SubSeq(ms, last + 1, n))
                                   ELSE {})>>
            \o SubSeq(ms, n + 1, Len(ms))
-----------------------------------------------------------------------------
\* Save and Load: a system message of unknown source is read back as a plain
\* system message, and a result without its images.
Reload(ms) ==
  [i \in DOMAIN ms |-> CASE ms[i].kind = "boundary" -> [ms[i] EXCEPT !.kind = "system"]
                         [] ms[i].kind = "image"    -> [ms[i] EXCEPT !.kind = "result"]
                         [] OTHER -> ms[i]]
=============================================================================
