--------------------------- MODULE OutcomeMailbox ---------------------------
(***************************************************************************)
(* What the background agents of one session promise to the conversation,  *)
(* without saying how: a launched run ends exactly once, with one outcome, *)
(* and that outcome enters the conversation at most once, together with    *)
(* any other outcomes that happen to be ready.  The locks, the per-run     *)
(* notified flag, the provisional claims and their release all belong to   *)
(* AgentRuns, which implements this module.                                *)
(***************************************************************************)
CONSTANTS Runs,      \* identifiers of background runs
          Outcomes   \* the ways a run can end

VARIABLES ended,     \* [Runs -> outcome, or "absent" / "running" before it]
          told       \* the runs whose outcome the conversation holds

mailbox == <<ended, told>>

Init == /\ ended = [r \in Runs |-> "absent"]
        /\ told = {}

Launch(r) == /\ ended[r] = "absent"
             /\ ended' = [ended EXCEPT ![r] = "running"]
             /\ UNCHANGED told

Finish(r, o) == /\ ended[r] = "running"
                /\ ended' = [ended EXCEPT ![r] = o]
                /\ UNCHANGED told

\* One turn tells the conversation about a set of finished runs it was never
\* told about before.
Tell(S) == /\ \A r \in S : ended[r] \in Outcomes
           /\ S \cap told = {}
           /\ told' = told \cup S
           /\ UNCHANGED ended

Next == \/ \E r \in Runs : Launch(r)
        \/ \E r \in Runs, o \in Outcomes : Finish(r, o)
        \/ \E S \in SUBSET Runs : Tell(S)

Spec == Init /\ [][Next]_mailbox
=============================================================================
