----------------------------- MODULE MCAgentRuns ----------------------------
(* A small instance of AgentRuns for TLC: an agent takes its turns one     *)
(* after another, and its runs may stop each other.                        *)
EXTENDS AgentRuns

CONSTANTS t1

OneTurn == {t1}
AllRuns == Runs
=============================================================================
