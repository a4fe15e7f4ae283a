------------------------------ MODULE PlanMode ------------------------------
(***************************************************************************)
(* Plan mode (internal/tool/plan_tool_manager, plan_mode_guard): one state *)
(* per agent, set by the tools EnterPlanMode and ExitPlanMode, and a guard *)
(* in front of the turn's tools that refuses those that write.             *)
(***************************************************************************)
EXTENDS Naturals

VARIABLE mode

PlanTypeOK == mode \in {"off", "active", "approved"}
PlanInit == mode = "off"

\* PlanModeGuard.CallTool and blockedInPlanMode.
Blocked(tool) == mode = "active" /\ tool \in {"Write", "Edit", "MultiEdit"}

\* Invoke and InvokeWithOptions begin with it.
ResetPlan == mode' = "off"

EnterPlanMode == mode' = "active"

\* ExitPlanMode: without a handler the plan is approved.  The handler may
\* approve, reject or fail; a rejected plan leaves plan mode as well.
ExitPlanMode == mode' \in {"approved", "off", mode}
=============================================================================
