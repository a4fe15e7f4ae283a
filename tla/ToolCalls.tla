------------------------------ MODULE ToolCalls ------------------------------
(***************************************************************************)
(* What a conversation promises about the tool calls of its model: a call  *)
(* is refused or opened once, an open call runs at most once, and its one  *)
(* answer comes after it ran.  A turn may end and leave calls open.        *)
(***************************************************************************)
EXTENDS Naturals

CONSTANT Calls

VARIABLE life   \* how far each call has come

Lives == {"unseen", "asked", "refused", "open", "running", "ran", "answered"}

Init == life = [c \in Calls |-> "unseen"]

Move(S, from, to) == /\ S # {}
                     /\ \A c \in S : life[c] \in from
                     /\ life' = [c \in Calls |-> IF c \in S THEN to ELSE life[c]]

Ask(c)    == Move({c}, {"unseen"}, "asked")
Refuse(c) == Move({c}, {"asked"}, "refused")
Open(S)   == Move(S, {"unseen"}, "open")
Admit(c)  == Move({c}, {"asked"}, "open")
Run(c)    == Move({c}, {"open"}, "running")
Return(c) == Move({c}, {"running"}, "ran")
Answer(S) == Move(S, {"ran"}, "answered")
\* A sequential call is answered in the step in which its tool returns.
ReturnAnswered(c) == Move({c}, {"running"}, "answered")

Next == \/ \E c \in Calls : \/ Ask(c) \/ Refuse(c) \/ Admit(c)
                            \/ Run(c) \/ Return(c) \/ ReturnAnswered(c)
        \/ \E S \in SUBSET Calls : Open(S) \/ Answer(S)

Spec == Init /\ [][Next]_life
=============================================================================
