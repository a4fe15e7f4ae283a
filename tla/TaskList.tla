------------------------------ MODULE TaskList ------------------------------
(***************************************************************************)
(* The session's task list (internal/tool/task_tool_manager.go) over its   *)
(* repository (internal/repository/task.go): tasks with two-way dependency *)
(* links, kept in memory and saved as a whole by every change.  The turn   *)
(* and its subagents share one manager; the repository's lock covers a     *)
(* single read or write of the slice, not a call.                          *)
(*                                                                         *)
(* A call's place, call[c].at:                                             *)
(*   "idle"     no call under way                                          *)
(*   "ready"    it has read the list and checked its request, and writes   *)
(*              the other sides of its links one by one, in place            *)
(*   "applied"  SetItems is done, Save is next                             *)
(*   "encoded"  Save holds the JSON of the list as it was                  *)
(*   "emptied"  WriteFile has truncated the file                           *)
(*                                                                         *)
(* Once a call writes to a list that another has changed since it was      *)
(* read, the outcome depends on which backing arrays append has shared;    *)
(* the model ends there, with raced.  One step reads and checks a request, *)
(* one encodes the list, and one writes a link: what tears within these    *)
(* is left out.                                                            *)
(***************************************************************************)
EXTENDS Naturals, Sequences, SequencesExt

CONSTANTS Callers,    \* the turn and the subagents
          Tasks,      \* ids that newID may give
          Unknown,    \* an id that no task has
          Lists,      \* the lists an earlier session may have left
          Creates,    \* requests of TaskCreate: blocked_by
          Updates,    \* requests of TaskUpdate: status, add_blocked_by, add_blocks
          MaxCalls,   \* bound: calls, of all callers together
          MaxFaults   \* bound: writes that fail and ends of the process

Statuses == {"pending", "in_progress", "completed", "deleted"}
Terminal == {"completed", "deleted"}
Started  == {"in_progress", "completed"}
Item == [status : Statuses \cup {"absent"}, by : SUBSET Tasks, blocks : SUBSET Tasks]

NoTask == [status |-> "absent", by |-> {}, blocks |-> {}]
NoTasks == [t \in Tasks |-> NoTask]
Ids == Tasks \cup {Unknown}

Listed(list) == {t \in Tasks : list[t].status # "absent"}

\* A task is blocked by tasks of the list only; one that is not there has no
\* links.
Closed(list) ==
  \A t \in Tasks :
    /\ list[t].by \subseteq Listed(list)
    /\ t \notin Listed(list) => list[t].by \cup list[t].blocks = {}

\* Both sides of every link are there, but for these pairs.
Agree(list, but) ==
  \A t, u \in Tasks :
    (u \in list[t].blocks <=> t \in list[u].by) \/ <<t, u>> \in but

\* A task that was started has only completed blockers, but for these pairs.
InOrder(list, but) ==
  \A t \in Tasks :
    list[t].status \in Started =>
      \A b \in list[t].by : list[b].status = "completed" \/ <<b, t>> \in but

\* The tasks are in the list, and completed or deleted if they were.
Stand(tasks, list) ==
  \A t \in Tasks :
    tasks[t] # "absent" =>
      /\ t \in Listed(list)
      /\ tasks[t] \in Terminal => list[t].status = tasks[t]

ASSUME TaskListAssumption ==
  /\ Unknown \notin Tasks
  /\ Lists \subseteq [Tasks -> Item]
  /\ \A list \in Lists : Closed(list) /\ Agree(list, {}) /\ InOrder(list, {})
  /\ Creates \subseteq Seq(Ids)
  /\ Updates \subseteq [status : Statuses \cup {"none"}, by : Seq(Ids), blocks : Seq(Ids)]
  /\ MaxCalls \in Nat /\ MaxFaults \in Nat

VARIABLES
  items,   \* taskStore.Items, by id
  file,    \* the saved list, whether the file holds it, and its torn links
  call,    \* a call's place, its task, that task's copy, the tasks it has still
           \*   to link, whether an unknown id ends it, the links it has written
           \*   one side of, the list that Save has encoded and its torn links
  \* History of the run, which no guard reads but for the bounds and the end:
  calls, faults,
  behind,  \* callers whose copy of the list is out of date
  raced,   \* one of them has written
  overtaken,  \* callers whose encoded list is older than the file's
  outdated,   \* the file holds such a list
  answered,   \* task -> its status in the last call that answered PASS for it
  lost,       \* the process ended with a file that was empty or outdated
  halves,     \* pairs left one-sided by a failed call, a link to itself, or a
              \*   restart from a list with torn links
  afterStart  \* pairs that were linked when the blocked task had been started

vars == <<items, file, call, calls, faults, behind, raced, overtaken, outdated,
          answered, lost, halves, afterStart>>

NoCall == [at |-> "idle", id |-> Unknown, item |-> NoTask, by |-> {}, blocks |-> {},
           fails |-> FALSE, half |-> {}, list |-> NoTasks, torn |-> {}]

Places == {"idle", "ready", "applied", "encoded", "emptied"}
At(c, place) == call[c].at = place

\* The pairs that calls under way have written one side of.
Half == UNION {call[c].half : c \in Callers}

CallRecord ==
  [at : Places, id : Ids, item : Item, by : SUBSET Tasks, blocks : SUBSET Tasks,
   fails : BOOLEAN, half : SUBSET (Tasks \X Tasks), list : [Tasks -> Item],
   torn : SUBSET (Tasks \X Tasks)]

TypeOK ==
  /\ items \in [Tasks -> Item]
  /\ file \in [whole : BOOLEAN, items : [Tasks -> Item], torn : SUBSET (Tasks \X Tasks)]
  /\ call \in [Callers -> CallRecord]
  /\ \A c \in Callers : At(c, "idle") \/ call[c].id \in Tasks
  /\ calls \in 0..MaxCalls /\ faults \in 0..MaxFaults
  /\ behind \subseteq Callers /\ overtaken \subseteq Callers
  /\ raced \in BOOLEAN /\ outdated \in BOOLEAN /\ lost \in BOOLEAN
  /\ answered \in [Tasks -> Statuses \cup {"absent"}]
  /\ halves \cup afterStart \subseteq Tasks \X Tasks

Init ==
  /\ items \in Lists
  /\ file = [whole |-> TRUE, items |-> items, torn |-> {}]
  /\ call = [c \in Callers |-> NoCall]
  /\ calls = 0 /\ faults = 0
  /\ behind = {} /\ raced = FALSE
  /\ overtaken = {} /\ outdated = FALSE
  /\ answered = [t \in Tasks |-> items[t].status] /\ lost = FALSE
  /\ halves = {} /\ afterStart = {}

(***************************************************************************)
(* The helpers of the handlers.                                            *)
(***************************************************************************)

\* validateTransition
Allowed(from, to) ==
  \/ from = to
  \/ from = "pending" /\ to \in {"in_progress", "deleted"}
  \/ from = "in_progress" /\ to \in {"completed", "pending", "deleted"}

\* A mutant: a deleted blocker counts as done.
BlockersGone(item) ==
  \A b \in item.by : items[b].status \in {"completed", "deleted", "absent"}

\* checkBlockers
BlockersDone(item) == \A b \in item.by : items[b].status \in {"completed", "absent"}

\* The ids a loop over a list of links handles before it meets an unknown one.
Known(ids) ==
  {ids[i] : i \in {k \in DOMAIN ids : \A j \in 1..k : ids[j] \in Listed(items)}}

AllKnown(ids) == ToSet(ids) \subseteq Listed(items)

\* A mutant: only add_blocked_by writes the other side.
ReverseLinksOfBlockers(id, by, blocks) ==
  [t \in Tasks |-> [items[t] EXCEPT
     !.blocks = IF t \in by THEN @ \cup {id} ELSE @]]

\* Each task that is named gets the link back, in the shared list.
ReverseLinks(id, by, blocks) ==
  [t \in Tasks |->
     [status |-> items[t].status,
      by     |-> items[t].by \cup (IF t \in blocks THEN {id} ELSE {}),
      blocks |-> items[t].blocks \cup (IF t \in by THEN {id} ELSE {})]]

Pairs(id, by, blocks) == (by \X {id}) \cup ({id} \X blocks)

(***************************************************************************)
(* A call.                                                                 *)
(***************************************************************************)
Begin(c, id, item, by, blocks, fails) ==
  /\ ~raced /\ At(c, "idle")
  /\ calls < MaxCalls /\ calls' = calls + 1
  /\ call' = [call EXCEPT ![c] = [at |-> "ready", id |-> id, item |-> item, by |-> by,
                                  blocks |-> blocks, fails |-> fails, half |-> {},
                                  list |-> NoTasks, torn |-> {}]]
  /\ behind' = behind \ {c}
  /\ UNCHANGED <<items, file, faults, raced, overtaken, outdated, answered, lost,
                 halves, afterStart>>

\* newID does not repeat.
Fresh(id) ==
  /\ id \notin Listed(items) /\ answered[id] = "absent"
  /\ \A d \in Callers : call[d].id # id
  /\ \A t \in Tasks : id \notin items[t].blocks

\* handleCreate; an unknown blocker is refused at once.
Create(c) ==
  \E id \in Tasks, by \in Creates :
    /\ Fresh(id)
    /\ AllKnown(by)
    /\ Begin(c, id, [status |-> "pending", by |-> {}, blocks |-> {}], ToSet(by), {}, FALSE)

\* handleUpdate up to its links; what is refused here changes nothing.  Ids are
\* looked up in the list that was read, so it is settled which links are written
\* before an unknown id.
Update(c) ==
  \E id \in Listed(items), request \in Updates :
    LET item == items[id]
        status == IF request.status = "none" THEN item.status ELSE request.status
    IN /\ Allowed(item.status, status)
       /\ request.status = "in_progress" => BlockersDone(item)
       /\ Begin(c, id, [item EXCEPT !.status = status], Known(request.by),
                IF AllKnown(request.by) THEN Known(request.blocks) ELSE {},
                ~AllKnown(request.by) \/ ~AllKnown(request.blocks))

\* What a write to the shared list means for the calls that have read it.
Overwrites(c) ==
  /\ raced' = (c \in behind)
  /\ behind' = behind \cup {d \in Callers \ {c} : At(d, "ready")}

\* The new task behind the end of the list, or a link behind the end of the
\* copy's: nothing to be seen, but other calls' slices may share the array.
Grow(c) ==
  /\ ~raced /\ At(c, "ready")
  /\ call[c].id \notin Listed(items) \/ call[c].by \cup call[c].blocks # {}
  /\ Overwrites(c)
  /\ UNCHANGED <<items, file, call, calls, faults, overtaken, outdated, answered, lost,
                 halves, afterStart>>

\* A call that has put links in its task's copy, and their other sides in the list.
Linked(r, by, blocks) ==
  [r EXCEPT !.item = [status |-> r.item.status, by |-> r.item.by \cup by,
                      blocks |-> r.item.blocks \cup blocks],
            !.by = r.by \ by, !.blocks = r.blocks \ blocks,
            !.half = r.half \cup Pairs(r.id, by, blocks)]

Link(c, by, blocks) ==
  LET id == call[c].id
  IN /\ ~raced /\ At(c, "ready")
     /\ items' = ReverseLinks(id, by, blocks)
     /\ call' = [call EXCEPT ![c] = Linked(call[c], by, blocks)]
     /\ Overwrites(c)
     /\ afterStart' = afterStart \cup {p \in Pairs(id, {}, blocks) :
                                         items[p[2]].status \in Started}
     /\ UNCHANGED <<file, calls, faults, overtaken, outdated, answered, lost, halves>>

\* The next link; the blockers come first, the order among them is left open.
LinkNext(c) ==
  \/ \E b \in call[c].by : Link(c, {b}, {})
  \/ call[c].by = {} /\ \E b \in call[c].blocks : Link(c, {}, {b})

\* The rest of the links, the task's own copy over them, and SetItems.  A new
\* task whose append has copied the list has all its links in the rest.
Apply(c) ==
  LET id == call[c].id
      by == call[c].by
      blocks == call[c].blocks
      item == [status |-> call[c].item.status, by |-> call[c].item.by \cup by,
               blocks |-> call[c].item.blocks \cup blocks]
      pairs == call[c].half \cup Pairs(id, by, blocks)
  IN /\ ~raced /\ At(c, "ready") /\ ~call[c].fails
     /\ items' = [ReverseLinks(id, by, blocks) EXCEPT ![id] = item]
     /\ call' = [call EXCEPT ![c] = [@ EXCEPT !.at = "applied", !.by = {}, !.blocks = {},
                                              !.half = {}]]
     /\ Overwrites(c)
     /\ halves' = halves \cup {p \in pairs : p[1] = p[2]}
     /\ afterStart' = afterStart \cup {p \in pairs : items'[p[2]].status \in Started}
     /\ UNCHANGED <<file, calls, faults, overtaken, outdated, answered, lost>>

\* An unknown id ends the call with an error, after the links before it.
ApplyFails(c) ==
  LET id == call[c].id
      by == call[c].by
      blocks == call[c].blocks
  IN /\ ~raced /\ At(c, "ready") /\ call[c].fails
     /\ items' = ReverseLinks(id, by, blocks)
     /\ call' = [call EXCEPT ![c] = NoCall]
     /\ IF items' = items THEN UNCHANGED <<raced, behind>> ELSE Overwrites(c)
     /\ halves' = halves \cup call[c].half \cup Pairs(id, by, blocks)
     /\ afterStart' = afterStart \cup {p \in Pairs(id, {}, blocks) :
                                         items[p[2]].status \in Started}
     /\ UNCHANGED <<file, calls, faults, overtaken, outdated, answered, lost>>

\* A mutant: the answer does not wait for the file.
EncodeAnswering(c) ==
  /\ ~raced /\ At(c, "applied")
  /\ call' = [call EXCEPT ![c] = [@ EXCEPT !.at = "encoded", !.list = items, !.torn = Half]]
  /\ answered' = [answered EXCEPT ![call[c].id] = call[c].item.status]
  /\ overtaken' = overtaken \ {c}
  /\ UNCHANGED <<items, file, calls, faults, behind, raced, outdated, lost,
                 halves, afterStart>>

\* Save: MarshalIndent under the lock, then WriteFile without it.  The lock does
\* not keep other calls from writing links: those under way are torn.
Encode(c) ==
  /\ ~raced /\ At(c, "applied")
  /\ call' = [call EXCEPT ![c] = [@ EXCEPT !.at = "encoded", !.list = items, !.torn = Half]]
  /\ overtaken' = overtaken \ {c}
  /\ UNCHANGED <<items, file, calls, faults, behind, raced, outdated, answered, lost,
                 halves, afterStart>>

Truncate(c) ==
  /\ ~raced /\ At(c, "encoded")
  /\ file' = [file EXCEPT !.whole = FALSE]
  /\ call' = [call EXCEPT ![c].at = "emptied"]
  /\ UNCHANGED <<items, calls, faults, behind, raced, overtaken, outdated, answered,
                 lost, halves, afterStart>>

\* The answer is PASS.  A file that another call has written since it was
\* emptied may keep the end of the longer list.
Written(c) ==
  LET id == call[c].id IN
  /\ ~raced /\ At(c, "emptied")
  /\ \E whole \in {TRUE, ~file.whole} : file' =
       [whole |-> whole, items |-> call[c].list, torn |-> call[c].torn]
  /\ call' = [call EXCEPT ![c] = NoCall]
  /\ answered' = [answered EXCEPT ![id] = call[c].item.status]
  /\ outdated' = (c \in overtaken)
  /\ overtaken' = overtaken \cup {d \in Callers \ {c} : At(d, "encoded") \/ At(d, "emptied")}
  /\ UNCHANGED <<items, calls, faults, behind, raced, lost, halves, afterStart>>

\* The call answers an error; the list in memory has changed all the same.
SaveFails(c) ==
  /\ ~raced /\ call[c].at \in {"encoded", "emptied"}
  /\ faults < MaxFaults /\ faults' = faults + 1
  /\ \/ UNCHANGED file
     \/ At(c, "emptied") /\ file' = [file EXCEPT !.whole = FALSE]
  /\ call' = [call EXCEPT ![c] = NoCall]
  /\ UNCHANGED <<items, calls, behind, raced, overtaken, outdated, answered,
                 lost, halves, afterStart>>

\* The process ends; the next one loads the file, and goes on with an empty
\* list when Load cannot parse it.
Restart ==
  /\ ~raced /\ faults < MaxFaults /\ faults' = faults + 1
  /\ items' = IF file.whole THEN file.items ELSE NoTasks
  /\ call' = [c \in Callers |-> NoCall]
  /\ behind' = {} /\ overtaken' = {}
  /\ lost' = (lost \/ outdated \/ ~file.whole)
  /\ halves' = halves \cup file.torn
  /\ UNCHANGED <<file, calls, raced, outdated, answered, afterStart>>

Next ==
  \/ \E c \in Callers :
       \/ Create(c) \/ Update(c)
       \/ Grow(c) \/ LinkNext(c) \/ Apply(c) \/ ApplyFails(c)
       \/ Encode(c) \/ Truncate(c) \/ Written(c) \/ SaveFails(c)
  \/ Restart

Spec == Init /\ [][Next]_vars
-----------------------------------------------------------------------------
(***************************************************************************)
(* The two sides of a dependency agree: whoever is listed as blocked by a  *)
(* task is listed among those that it blocks.  Not so the links a call is  *)
(* writing, and what becomes of them: those written before the call met an *)
(* unknown id, and after a restart those that the save it starts from took *)
(* from another call half-written (no lock covers both sides of a link);   *)
(* nor a link of a task to itself, whose copy overwrites the link back.    *)
(***************************************************************************)
LinksAgree == raced \/ Agree(items, halves \cup Half)

(***************************************************************************)
(* A task is started only when all its blockers are completed, and they    *)
(* stay so: a started or completed task has no other blockers than those   *)
(* linked after its start.                                                 *)
(***************************************************************************)
BlockersComeFirst == raced \/ InOrder(items, afterStart)

(***************************************************************************)
(* What a call has answered PASS for stays: the task is in the list, and   *)
(* completed or deleted if it was, whatever calls, failed calls, failed    *)
(* writes and restarts follow - but for calls that race, and restarts with *)
(* a file that a write had emptied, or an older list had replaced.         *)
(***************************************************************************)
AnswersStand == raced \/ lost \/ Stand(answered, items)
=============================================================================
