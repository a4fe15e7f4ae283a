----------------------------- MODULE Scheduler -----------------------------
(***************************************************************************)
(* Recurring schedules.  The Schedule* tools of several processes (the     *)
(* agent server, a REPL) rewrite one store file (internal/tool/            *)
(* schedule_tool_manager.go); the gateway's scheduler polls it and keeps   *)
(* one goroutine per wanted schedule (internal/gateway/schedules.go).      *)
(*                                                                         *)
(* What a schedule says (cron, prompt, channel...) is a value; two         *)
(* schedules with one value have the same scheduleSig.  File times are     *)
(* ticks of the clock that stamps files.  A store that is absent has time  *)
(* 0 and no entries.                                                       *)
(*                                                                         *)
(* The scheduler's place, pc: "boot" before the first reconcile; "stat"    *)
(* before the first Stat; "poll" waiting for the ticker; "load" before a   *)
(* later reconcile.                                                        *)
(***************************************************************************)
EXTENDS Naturals

CONSTANTS Names, Values,
          Asked,        \* those of the values that the tools are asked for
          None,         \* no such schedule
          Static,       \* name -> what the settings say of it, or None
          RunAtStart,   \* the static schedules with run_at_start
          Writers,      \* processes with schedule tools, each with its mutex
          Slots,        \* goroutines that one name may have at a time
          BusSize,      \* capacity of the bus's inbound channel
          MaxTime,      \* bound: ticks of the file clock
          MaxCalls,     \* bound: calls of the tools, of all processes
          MaxFaults     \* bound: loads of the scheduler that fail and
                        \*   restarts of the gateway, together

Entries == [Names -> Values \cup {None}]

ASSUME SchedulerAssumption ==
  /\ None \notin Values /\ None \notin Names /\ Slots # {} /\ Asked \subseteq Values
  /\ Static \in Entries /\ RunAtStart \subseteq Names
  /\ BusSize \in Nat \ {0} /\ MaxTime \in Nat \ {0}
  /\ MaxCalls \in Nat /\ MaxFaults \in Nat

VARIABLES
  store,    \* the file: its entries and its modification time
  clock,
  call,     \* process -> its tool call: place, name, what it will write, and
            \*   the time of its temporary file
  pc, lastMod,
  running,  \* Scheduler.running: name -> signature of its job, or None
  owner,    \* name -> the goroutine that reconcile started last for it
  at,       \* goroutine -> its place in runOne
  live,     \* goroutines whose context is not cancelled
  inbox,    \* how many messages wait in bus.Inbound
  \* History of the run, which no guard reads but for the bounds:
  calls, faults,
  acked,    \* name -> what the last call that saved it asked for
  passed,   \* process -> names others have saved since its call loaded
  unsure,   \* names that a save from an outdated load may have undone
  missed,   \* why the scheduler need not notice the store's content
  late      \* goroutine -> messages it has sent since it was cancelled

toolVars == <<store, clock, call, calls, acked, passed, unsure>>
schedVars == <<pc, lastMod, running, owner, faults>>
jobVars == <<at, live, inbox, late>>
vars == <<toolVars, schedVars, missed, jobVars>>

Jobs == Names \X Slots
Nothing == [n \in Names |-> None]
Idle == [at |-> "idle", name |-> None, entries |-> Nothing, time |-> 0]
Times == 0..MaxTime
Busy(w) == call[w].at # "idle"

TypeOK ==
  /\ store \in [entries : Entries, modified : Times]
  /\ clock \in 1..MaxTime
  /\ call \in [Writers -> [at : {"idle", "saving", "renaming"},
                           name : Names \cup {None}, entries : Entries,
                           time : Times]]
  /\ \A w \in Writers : Busy(w) => call[w].name \in Names
  /\ pc \in {"boot", "stat", "poll", "load"} /\ lastMod \in Times
  /\ running \in Entries /\ owner \in [Names -> Slots]
  /\ at \in [Jobs -> {"none", "waiting", "due", "firing"}]
  /\ live \subseteq {j \in Jobs : at[j] # "none"}
  /\ inbox \in 0..BusSize
  /\ calls \in 0..MaxCalls /\ faults \in 0..MaxFaults
  /\ acked \in Entries /\ passed \in [Writers -> SUBSET Names]
  /\ unsure \subseteq Names
  /\ missed \subseteq {"unread", "at start", "old time"}
  /\ late \in [Jobs -> Nat]

\* No store yet, or the one that earlier runs have left.
FirstStores == {[entries |-> Nothing, modified |-> 0]}
               \cup [entries : [Names -> Asked \cup {None}], modified : {1}]

Init ==
  /\ store \in FirstStores /\ clock = 1
  /\ call = [w \in Writers |-> Idle]
  /\ pc = "boot" /\ lastMod = 0
  /\ running = Nothing /\ owner = [n \in Names |-> CHOOSE s \in Slots : TRUE]
  /\ at = [j \in Jobs |-> "none"] /\ live = {} /\ inbox = 0
  /\ calls = 0 /\ faults = 0
  /\ acked = store.entries /\ passed = [w \in Writers |-> {}] /\ unsure = {}
  /\ missed = {} /\ late = [j \in Jobs |-> 0]

(***************************************************************************)
(* The tools.  A call holds its process's mutex from the load to the       *)
(* rename, so a process has one call here at a time.                       *)
(***************************************************************************)

\* A mutant: a store that cannot be read is taken for an empty one.
ToolReadsAnyhow == {store.entries, Nothing}

\* A load that fails ends the call with an error and changes nothing.
ToolReads == {store.entries}

\* ScheduleCreate with a value, ScheduleDelete with None.
LoadEntries(w, n, v) ==
  /\ call[w].at = "idle" /\ calls < MaxCalls
  /\ \E found \in ToolReads :
       /\ v = None => found[n] # None
       /\ call' = [call EXCEPT ![w] = [at |-> "saving", name |-> n, time |-> 0,
                                       entries |-> [found EXCEPT ![n] = v]]]
  /\ calls' = calls + 1
  /\ passed' = [passed EXCEPT ![w] = {}]
  /\ UNCHANGED <<store, clock, acked, unsure, schedVars, missed, jobVars>>

\* atomicWriteFile writes a temporary file, whose time is the store's once
\* it is renamed.
WriteTemp(w) ==
  /\ call[w].at = "saving"
  /\ call' = [call EXCEPT ![w].at = "renaming", ![w].time = clock]
  /\ UNCHANGED <<store, clock, calls, acked, passed, unsure, schedVars, missed,
                 jobVars>>

Rename(w) ==
  LET n == call[w].name IN
  /\ call[w].at = "renaming"
  /\ store' = [entries |-> call[w].entries, modified |-> call[w].time]
  /\ call' = [call EXCEPT ![w] = Idle]
  /\ acked' = [acked EXCEPT ![n] = call[w].entries[n]]
  /\ passed' = [u \in Writers |->
                  IF u # w /\ Busy(u) THEN passed[u] \cup {n} ELSE {}]
  /\ unsure' = (unsure \cup passed[w]) \ {n}
  /\ missed' = missed
       \cup (IF pc = "stat" THEN {"at start"} ELSE {})
       \cup (IF call[w].time <= store.modified THEN {"old time"} ELSE {})
  /\ UNCHANGED <<clock, calls, schedVars, jobVars>>

\* Writing the temporary file fails, or the rename, or the process dies.
GiveUp(w) ==
  /\ Busy(w)
  /\ call' = [call EXCEPT ![w] = Idle]
  /\ passed' = [passed EXCEPT ![w] = {}]
  /\ UNCHANGED <<store, clock, calls, acked, unsure, schedVars, missed, jobVars>>

Tick ==
  /\ clock < MaxTime /\ clock' = clock + 1
  /\ UNCHANGED <<store, call, calls, acked, passed, unsure, schedVars, missed,
                 jobVars>>

(***************************************************************************)
(* The scheduler's goroutine.                                              *)
(***************************************************************************)

\* desired, and reconcile's choice: the store goes before the settings.
Wanted(found) == [n \in Names |-> IF found[n] # None THEN found[n] ELSE Static[n]]

Free(n) == {s \in Slots : at[<<n, s>>] = "none"}

\* A mutant: a changed job is replaced without being cancelled.
CancelRemoved(n, wanted) == running[n] # None /\ wanted[n] = None

Cancelled(n, wanted) == running[n] # None /\ wanted[n] # running[n]

\* Jobs that are gone or changed are cancelled, and then new ones started.
Reconcile(found) ==
  LET wanted == Wanted(found)
      new == {n \in Names : wanted[n] # None /\ wanted[n] # running[n]}
      gone == {n \in Names : Cancelled(n, wanted)}
      fresh == [n \in new |-> CHOOSE s \in Free(n) : TRUE]
      started == {<<n, fresh[n]>> : n \in new}
      first(n) == IF n \in RunAtStart /\ found[n] = None THEN "firing"
                                                         ELSE "waiting"
  IN /\ \A n \in new : Free(n) # {}
     /\ running' = wanted
     /\ owner' = [n \in Names |-> IF n \in new THEN fresh[n] ELSE owner[n]]
     /\ live' = (live \ {<<n, owner[n]>> : n \in gone}) \cup started
     /\ at' = [j \in Jobs |-> IF j \in started THEN first(j[1]) ELSE at[j]]
     /\ late' = [j \in Jobs |-> IF j \in started THEN 0 ELSE late[j]]
     /\ UNCHANGED inbox

\* If loadScheduleStore fails, the schedules of the settings alone are wanted.
LoadAndReconcile ==
  LET ahead == IF store.modified < lastMod THEN {"old time"} ELSE {} IN
  \/ /\ Reconcile(store.entries)
     /\ missed' = ahead /\ UNCHANGED faults
  \/ /\ faults < MaxFaults /\ faults' = faults + 1
     /\ Reconcile(Nothing)
     /\ missed' = ahead \cup {"unread"}

Boot ==
  /\ pc = "boot" /\ pc' = "stat"
  /\ LoadAndReconcile
  /\ UNCHANGED <<toolVars, lastMod>>

\* A mutant: the scheduler remembers when it looked, not the file's time.
FirstStatNow ==
  /\ pc = "stat" /\ pc' = "poll"
  /\ lastMod' = clock
  /\ UNCHANGED <<toolVars, running, owner, faults, missed, jobVars>>

FirstStat ==
  /\ pc = "stat" /\ pc' = "poll"
  /\ lastMod' = store.modified
  /\ UNCHANGED <<toolVars, running, owner, faults, missed, jobVars>>

\* A mutant: times are compared in a unit that is too coarse.
PollCoarsely ==
  /\ pc = "poll" /\ store.modified > lastMod + 1
  /\ lastMod' = store.modified /\ pc' = "load"
  /\ UNCHANGED <<toolVars, running, owner, faults, missed, jobVars>>

Poll ==
  /\ pc = "poll" /\ store.modified > lastMod
  /\ lastMod' = store.modified /\ pc' = "load"
  /\ UNCHANGED <<toolVars, running, owner, faults, missed, jobVars>>

Reload ==
  /\ pc = "load" /\ pc' = "poll"
  /\ LoadAndReconcile
  /\ UNCHANGED <<toolVars, lastMod>>

\* The gateway's process ends, its goroutines and its bus with it, and is
\* started again.
Restart ==
  /\ faults < MaxFaults /\ faults' = faults + 1
  /\ pc' = "boot"
  /\ running' = Nothing /\ lastMod' = 0 /\ missed' = {}
  /\ at' = [j \in Jobs |-> "none"] /\ live' = {} /\ inbox' = 0
  /\ UNCHANGED <<toolVars, owner, late>>

(***************************************************************************)
(* runOne, one goroutine for each job, and the gateway that takes what     *)
(* they send.                                                              *)
(***************************************************************************)
JobGoesOn(j, from, to) ==
  /\ at[j] = from /\ at' = [at EXCEPT ![j] = to]
  /\ UNCHANGED <<toolVars, schedVars, missed>>

\* The timer of a goroutine whose context is done is not waited for: nextWait
\* is never zero, and a goroutine that select finds ready runs before it ends.
Expire(j) ==
  /\ j \in live
  /\ JobGoesOn(j, "waiting", "due")
  /\ UNCHANGED <<live, inbox, late>>

\* select takes either case when both are ready.
Fire(j) ==
  /\ JobGoesOn(j, "due", "firing")
  /\ UNCHANGED <<live, inbox, late>>

\* fire blocks while the channel is full, and looks at no context.
Send(j) ==
  /\ JobGoesOn(j, "firing", "waiting")
  /\ inbox < BusSize /\ inbox' = inbox + 1
  /\ late' = [late EXCEPT ![j] = IF j \in live THEN 0 ELSE @ + 1]
  /\ UNCHANGED live

Quit(j) ==
  /\ j \notin live /\ at[j] \in {"waiting", "due"}
  /\ JobGoesOn(j, at[j], "none")
  /\ UNCHANGED <<live, inbox, late>>

Dispatch ==
  /\ inbox > 0 /\ inbox' = inbox - 1
  /\ UNCHANGED <<toolVars, schedVars, missed, at, live, late>>

JobStep(j) == Expire(j) \/ Fire(j) \/ Send(j) \/ Quit(j)

Next ==
  \/ \E w \in Writers :
       \/ \E n \in Names, v \in Asked \cup {None} : LoadEntries(w, n, v)
       \/ WriteTemp(w) \/ Rename(w) \/ GiveUp(w)
  \/ Tick
  \/ Boot \/ FirstStat \/ Poll \/ Reload \/ Restart
  \/ \E j \in Jobs : JobStep(j)
  \/ Dispatch

Spec == Init /\ [][Next]_vars

(***************************************************************************)
(* Fairness: the ticker ticks, Run takes messages while the gateway lives, *)
(* and goroutines that were cancelled and can take a step take it; Go's    *)
(* channels serve blocked senders in order, so one that waits for room on  *)
(* the bus gets it.  Nothing is assumed of the tools, of the clock, of a   *)
(* start after an end, or of the timers.                                   *)
(***************************************************************************)
SchedulerStep == Boot \/ FirstStat \/ Poll \/ Reload

FairSpec ==
  /\ Spec
  /\ WF_vars(SchedulerStep) /\ WF_vars(Dispatch)
  /\ WF_vars(\E j \in Jobs \ live : Fire(j) \/ Quit(j))
  /\ SF_vars(\E j \in Jobs \ live : Send(j))
-----------------------------------------------------------------------------
(***************************************************************************)
(* schedules.go:157-173: a name has at most one goroutine whose context is *)
(* not cancelled, the one that reconcile started last, and it has one      *)
(* exactly while the scheduler takes the schedule for running: no schedule *)
(* runs twice, and none runs on after it was removed or changed.           *)
(***************************************************************************)
OneJobPerSchedule ==
  live = {<<n, owner[n]>> : n \in {m \in Names : running[m] # None}}

(***************************************************************************)
(* A goroutine that was cancelled sends at most one more message, even     *)
(* when the cancel meets a timer that has just expired, or a full bus.     *)
(***************************************************************************)
CancelledSendsOnce == \A j \in Jobs : late[j] <= 1

(***************************************************************************)
(* schedule_tool_manager.go:133 and 239-241: what a tool has saved stays   *)
(* as it was saved, whatever other calls, failures and crashes follow,     *)
(* unless two processes' calls overlapped: a mutex is no use between them. *)
(***************************************************************************)
SavedSchedulesStay ==
  \A n \in Names \ unsure : store.entries[n] = acked[n]

(***************************************************************************)
(* While the scheduler waits for its ticker, its jobs are those of the     *)
(* store or the store's time tells it to look again - but for the three    *)
(* ways the code has of not noticing: the last load failed, the store was  *)
(* replaced between the first load and the first Stat, or by a file that   *)
(* is no newer than the one before.                                        *)
(***************************************************************************)
InStep == running = Wanted(store.entries)

DriftIsNoticed ==
  pc = "poll" /\ ~InStep => store.modified > lastMod \/ missed # {}

(***************************************************************************)
(* schedule_tool_manager.go:160 and 213, "It becomes active within ~20s",  *)
(* "Stops within ~20s": the scheduler gets in step with every change, if   *)
(* none of those three happened and the gateway goes on.                   *)
(***************************************************************************)
ChangesBecomeActive ==
  ~InStep ~> (InStep \/ missed # {})
=============================================================================
