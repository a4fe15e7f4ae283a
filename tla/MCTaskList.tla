----------------------------- MODULE MCTaskList -----------------------------
(* A small instance of TaskList for TLC. *)
EXTENDS TaskList, TLC

CONSTANTS turn, sub, a, b, c

TwoCallers == {turn, sub}
Symmetry   == Permutations(TwoCallers)
ThreeTasks == {a, b, c}

\* What an earlier session left: a is being worked on, and b waits for it.
AWaitedFor == {[NoTasks EXCEPT
  ![a] = [status |-> "in_progress", by |-> {}, blocks |-> {b}],
  ![b] = [status |-> "pending", by |-> {a}, blocks |-> {}]]}

SomeCreates == {<<a>>}

Ask(status, by, blocks) == [status |-> status, by |-> by, blocks |-> blocks]
\* Each status; both kinds of link; a start that links too; known ids before
\* an unknown one, in either list.
SomeUpdates ==
  {Ask(s, <<>>, <<>>) : s \in Statuses}
  \cup {Ask("none", <<a>>, <<b>>), Ask("in_progress", <<b>>, <<>>),
        Ask("none", <<b, Unknown>>, <<>>), Ask("none", <<a>>, <<b, Unknown>>)}
=============================================================================
