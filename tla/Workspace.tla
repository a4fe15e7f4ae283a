----------------------------- MODULE Workspace -----------------------------
(***************************************************************************)
(* One session at work on its files: a turn, whose tools are behind the    *)
(* plan-mode guard (Agent.Invoke), and the background subagents that share *)
(* the same managers without that guard (buildSubAgentToolManager), the    *)
(* plan tools included.  The guard looks once, when a call begins, and a   *)
(* subagent may open and close the turn's plan: plan mode promises less    *)
(* than its tools say, and no property is stated of it.                    *)
(***************************************************************************)
EXTENDS FileTools, PlanMode

CONSTANTS Turn,         \* the caller that is the session's turn
          Batches       \* the files that a MultiEdit may name, in order

ASSUME WorkspaceAssumption == Turn \in Callers /\ Batches \subseteq Seq(Files)

workVars == <<fileVars, mode>>

WorkTypeOK == FilesTypeOK /\ PlanTypeOK

WorkInit == FilesInit /\ PlanInit

FilesFor(tool) == IF tool = "MultiEdit" THEN Batches ELSE {<<f>> : f \in Files}

\* A caller's model asks for a file tool; the guard is only the turn's.
CallTool(c, tool) ==
  /\ c = Turn => ~Blocked(tool)
  /\ \E files \in FilesFor(tool) : Begin(c, tool, files)
  /\ UNCHANGED mode

\* EnterPlanMode and ExitPlanMode are tool calls like others: a caller that
\* is busy with a file makes none.
PlanTool(c) ==
  /\ At(c, "idle") /\ Counts
  /\ EnterPlanMode \/ ExitPlanMode
  /\ UNCHANGED <<disk, readTime, call, clock, versions, marks, lost>>

NewTurn ==
  /\ At(Turn, "idle")
  /\ ResetPlan
  /\ UNCHANGED fileVars

WorkNext ==
  \/ \E c \in Callers :
       \/ \E tool \in Tools : CallTool(c, tool)
       \/ PlanTool(c)
       \/ CallStep(c) /\ UNCHANGED mode
  \/ NewTurn
  \/ Outside /\ UNCHANGED mode

WorkSpec == WorkInit /\ [][WorkNext]_workVars
=============================================================================
