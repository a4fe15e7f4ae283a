------------------------------- MODULE MCReAct -------------------------------
(* Small instances of ReAct for TLC: one gated tool and the free subagent    *)
(* dispatch.                                                                 *)
EXTENDS ReAct

AllTools   == {"Write", "Task"}
GatedTools == {"Write"}
TaskTools  == {"Task"}
NoRules    == [t \in GatedTools |-> "none"]
AnyRules   == [GatedTools -> {"none", "allow", "deny"}]
OnlyNone   == {NoRules}

\* A parallel batch, and a mixed one that holds a gated call.
TwoBatches == {<<"Task", "Task">>, <<"Write", "Task">>}
NoBatches  == {}
=============================================================================
