----------------------------- MODULE StoreProofs ----------------------------
(***************************************************************************)
(* Proofs about the two stores that processes share on disk, for any       *)
(* processes, names, values and bounds: the schedule file with the         *)
(* scheduler that follows it, and the memory database.                     *)
(*                                                                         *)
(* Scheduler: type correctness, one goroutine per schedule, at most one    *)
(* message after a cancel, that saved schedules stay, and that no change   *)
(* of the store goes unnoticed but in the three ways that are named.       *)
(*                                                                         *)
(* MemoryStore: however the transactions of the processes overlap, the     *)
(* versions of a memory are a line, feedback stays with it and what was    *)
(* forgotten stays forgotten.  The argument rests on SnapshotsHold: a      *)
(* transaction that may still commit has read the row as it is.  So a      *)
(* revision supersedes the only version that is not superseded, and it     *)
(* inherits all that this version has learned.                             *)
(***************************************************************************)
EXTENDS Scheduler, MemoryStore, SequenceTheorems, TLAPS

(***************************************************************************)
(* Scheduler.                                                              *)
(***************************************************************************)
\* A job that is live, or about to send, has sent nothing since its cancel.
LateInv ==
  \A j \in Jobs : /\ late[j] \in {0, 1}
                  /\ j \in live \/ at[j] \in {"due", "firing"} => late[j] = 0

\* What a call is about to write agrees with what was saved last of every
\* name but its own and those saved by others since it loaded.
SavedInv ==
  /\ \A n \in Names \ unsure : store.entries[n] = acked[n]
  /\ \A w \in Writers :
       Busy(w) => \A n \in Names \ (unsure \cup passed[w]) :
                    n # call[w].name => call[w].entries[n] = acked[n]

\* What the scheduler knows at each place, unless it may have missed a change.
SeenInv ==
  /\ pc = "boot" => lastMod = 0
  /\ missed = {} =>
       /\ pc = "stat" => InStep
       /\ pc \in {"poll", "load"} => lastMod <= store.modified
       /\ pc = "poll" /\ lastMod = store.modified => InStep

Inv == TypeOK /\ OneJobPerSchedule /\ LateInv /\ SavedInv /\ SeenInv
-----------------------------------------------------------------------------
LEMMA Bounds ==
  /\ BusSize \in Nat /\ MaxTime \in Nat /\ MaxCalls \in Nat /\ MaxFaults \in Nat
  /\ \A t \in Times : t \in Nat
  /\ \A t \in 1..MaxTime : t \in Times
  /\ 0 \in Times /\ 0 \in 0..BusSize
BY SchedulerAssumption DEF Times

LEMMA NothingIsTyped == Nothing \in Entries
BY DEF Nothing, Entries

LEMMA WantedIsTyped == \A found \in Entries : Wanted(found) \in Entries
BY SchedulerAssumption DEF Wanted, Entries

LEMMA InitInv == Init => Inv
<1> SUFFICES ASSUME Init PROVE Inv
  OBVIOUS
<1> USE DEF Init
<1>1. store \in [entries : Entries, modified : Times]
  BY NothingIsTyped, SchedulerAssumption DEF FirstStores, Times, Entries
<1>2. call \in [Writers -> [at : {"idle", "saving", "renaming"},
                            name : Names \cup {None}, entries : Entries,
                            time : Times]]
  BY NothingIsTyped, SchedulerAssumption DEF Idle, Times
<1>3. \A w \in Writers : ~Busy(w)
  BY DEF Busy, Idle
<1>4. TypeOK
  BY <1>1, <1>2, <1>3, NothingIsTyped, SchedulerAssumption DEF TypeOK, Times
<1>5. OneJobPerSchedule
  BY DEF OneJobPerSchedule, Nothing
<1>6. LateInv /\ SavedInv /\ SeenInv
  BY <1>3 DEF LateInv, SavedInv, SeenInv
<1> QED
  BY <1>4, <1>5, <1>6 DEF Inv
-----------------------------------------------------------------------------
(***************************************************************************)
(* The steps of the tools.                                                 *)
(***************************************************************************)
CallRecords == [at : {"idle", "saving", "renaming"}, name : Names \cup {None},
                entries : Entries, time : Times]

\* TypeOK as the proofs use it.
LEMMA TypeFacts ==
  TypeOK <=>
    /\ store \in [entries : Entries, modified : Times]
    /\ clock \in 1..MaxTime
    /\ call \in [Writers -> CallRecords]
    /\ \A w \in Writers : Busy(w) => call[w].name \in Names
    /\ pc \in {"boot", "stat", "poll", "load"} /\ lastMod \in Times
    /\ running \in Entries /\ owner \in [Names -> Slots]
    /\ at \in [Jobs -> {"none", "waiting", "due", "firing"}]
    /\ live \subseteq {j \in Jobs : at[j] # "none"}
    /\ inbox \in 0..BusSize
    /\ calls \in 0..MaxCalls /\ faults \in 0..MaxFaults
    /\ acked \in Entries /\ passed \in [Writers -> SUBSET Names]
    /\ unsure \subseteq Names
    /\ missed \subseteq {"unread", "at start", "old time"}
    /\ late \in [Jobs -> Nat]
BY DEF TypeOK, CallRecords

LEMMA IdleIsTyped == Idle \in CallRecords
BY NothingIsTyped, SchedulerAssumption DEF Idle, Times, CallRecords

LEMMA LoadEntriesKeeps ==
  ASSUME Inv, NEW w \in Writers, NEW n \in Names, NEW v \in Asked \cup {None},
         LoadEntries(w, n, v)
  PROVE  Inv'
<1> DEFINE saved == [store.entries EXCEPT ![n] = v]
           c == [at |-> "saving", name |-> n, time |-> 0, entries |-> saved]
<1>1. /\ TypeOK /\ OneJobPerSchedule /\ LateInv /\ SavedInv /\ SeenInv
      /\ call' = [call EXCEPT ![w] = c]
      /\ calls < MaxCalls /\ calls' = calls + 1
      /\ passed' = [passed EXCEPT ![w] = {}]
      /\ UNCHANGED <<store, clock, acked, unsure, schedVars, missed, jobVars>>
  BY DEF Inv, LoadEntries, ToolReads
<1>2. saved \in Entries /\ \A m \in Names : m # n => saved[m] = store.entries[m]
  <2>1. store.entries \in Entries
    BY <1>1, TypeFacts
  <2>2. v \in Values \cup {None}
    BY SchedulerAssumption
  <2> QED
    BY <2>1, <2>2 DEF Entries
<1> HIDE DEF saved
<1>3. c \in CallRecords
  BY <1>2, SchedulerAssumption DEF CallRecords, Times
<1>4. \A u \in Writers : /\ call'[u] = IF u = w THEN c ELSE call[u]
                         /\ u # w => passed'[u] = passed[u]
  BY <1>1, TypeFacts
<1>5. TypeOK'
  <2> HIDE DEF c
  <2>1. call' \in [Writers -> CallRecords]
    BY <1>1, <1>3, TypeFacts
  <2>2. c.name = n
    BY DEF c
  <2>3. \A u \in Writers : Busy(u)' => call'[u].name \in Names
    BY <1>1, <1>4, <2>2, TypeFacts DEF Busy
  <2>4. calls \in 0..MaxCalls
    BY <1>1, TypeFacts
  <2>5. calls' \in 0..MaxCalls
    BY <1>1, <2>4, SchedulerAssumption
  <2>6. passed' \in [Writers -> SUBSET Names]
    BY <1>1, TypeFacts
  <2> QED
    BY <1>1, <2>1, <2>3, <2>5, <2>6 DEF TypeOK, CallRecords, schedVars, jobVars
<1>6. OneJobPerSchedule' /\ LateInv' /\ SeenInv'
  BY <1>1 DEF OneJobPerSchedule, LateInv, SeenInv, InStep, Wanted, schedVars, jobVars
<1>7. SavedInv'
  BY <1>1, <1>2, <1>4 DEF SavedInv, Busy
<1> QED
  BY <1>5, <1>6, <1>7 DEF Inv

LEMMA WriteTempKeeps ==
  ASSUME Inv, NEW w \in Writers, WriteTemp(w)
  PROVE  Inv'
<1>1. /\ TypeOK /\ OneJobPerSchedule /\ LateInv /\ SavedInv /\ SeenInv
      /\ call[w].at = "saving"
      /\ call' = [call EXCEPT ![w].at = "renaming", ![w].time = clock]
      /\ UNCHANGED <<store, clock, calls, acked, passed, unsure, schedVars,
                     missed, jobVars>>
  BY DEF Inv, WriteTemp
<1>2. call \in [Writers -> CallRecords] /\ clock \in Times
  BY <1>1, TypeFacts, Bounds
<1>3. call' = [call EXCEPT ![w] = [call[w] EXCEPT !.at = "renaming", !.time = clock]]
  BY <1>1, <1>2 DEF CallRecords
<1>4. [call[w] EXCEPT !.at = "renaming", !.time = clock] \in CallRecords
  <2>1. call[w] \in CallRecords
    BY <1>2
  <2>2. "renaming" \in {"idle", "saving", "renaming"}
    OBVIOUS
  <2> QED
    BY <1>2, <2>1, <2>2 DEF CallRecords
<1>5. call' \in [Writers -> CallRecords]
  BY <1>2, <1>3, <1>4
<1>6. \A u \in Writers : /\ call'[u].entries = call[u].entries
                         /\ call'[u].name = call[u].name
                         /\ Busy(u)' <=> Busy(u)
  BY <1>1, <1>2 DEF Busy, CallRecords
<1>7. TypeOK'
  BY <1>1, <1>5, <1>6 DEF TypeOK, CallRecords, schedVars, jobVars
<1>8. OneJobPerSchedule' /\ LateInv' /\ SeenInv'
  BY <1>1 DEF OneJobPerSchedule, LateInv, SeenInv, InStep, Wanted, schedVars, jobVars
<1>9. SavedInv'
  BY ZenonT(40), <1>1, <1>6 DEF SavedInv
<1> QED
  BY <1>7, <1>8, <1>9 DEF Inv

LEMMA RenameKeeps ==
  ASSUME Inv, NEW w \in Writers, Rename(w)
  PROVE  Inv'
<1> USE DEF Inv, schedVars, jobVars
<1> DEFINE n == call[w].name
<1>1. /\ n \in Names /\ Busy(w)
      /\ call[w].entries \in Entries /\ call[w].time \in Times
  BY DEF Rename, TypeOK, Busy
<1>2. /\ store' = [entries |-> call[w].entries, modified |-> call[w].time]
      /\ call' = [call EXCEPT ![w] = Idle]
      /\ acked' = [acked EXCEPT ![n] = call[w].entries[n]]
      /\ unsure' = (unsure \cup passed[w]) \ {n}
      /\ \A u \in Writers : passed'[u] = IF u # w /\ Busy(u) THEN passed[u] \cup {n} ELSE {}
      /\ UNCHANGED <<clock, calls, schedVars, jobVars>>
  BY DEF Rename
<1>3. /\ missed \subseteq missed'
      /\ pc = "stat" => missed' # {}
      /\ call[w].time <= store.modified => missed' # {}
      /\ missed' \subseteq {"unread", "at start", "old time"}
  BY DEF Rename, TypeOK
<1>4. \A u \in Writers : call'[u] = IF u = w THEN Idle ELSE call[u]
  BY <1>2 DEF TypeOK
<1>5. ~Busy(w)'
  BY <1>4 DEF Busy, Idle
<1>6. TypeOK'
  <2>1. Idle \in [at : {"idle", "saving", "renaming"}, name : Names \cup {None},
                  entries : Entries, time : Times]
    BY NothingIsTyped, SchedulerAssumption DEF Idle, Times
  <2>2. call' \in [Writers -> [at : {"idle", "saving", "renaming"},
                               name : Names \cup {None}, entries : Entries,
                               time : Times]]
    BY <1>2, <2>1 DEF TypeOK
  <2>3. \A u \in Writers : Busy(u)' => call'[u].name \in Names
    BY <1>4, <1>5 DEF TypeOK, Busy
  <2>4. /\ passed' \in [Writers -> SUBSET Names]
        /\ unsure' \subseteq Names
    <3>1. passed' = [u \in Writers |->
                       IF u # w /\ Busy(u) THEN passed[u] \cup {n} ELSE {}]
      BY DEF Rename
    <3>2. \A u \in Writers : passed[u] \subseteq Names
      BY TypeFacts
    <3>3. unsure \subseteq Names
      BY TypeFacts
    <3> QED
      BY <1>1, <1>2, <3>1, <3>2, <3>3
  <2>5. acked' \in Entries /\ store' \in [entries : Entries, modified : Times]
    BY <1>1, <1>2 DEF TypeOK, Entries
  <2> QED
    BY <1>2, <1>3, <2>2, <2>3, <2>4, <2>5 DEF TypeOK
<1>7. OneJobPerSchedule' /\ LateInv'
  BY <1>2 DEF OneJobPerSchedule, LateInv
<1>8. SavedInv'
  <2>1. \A m \in Names : acked'[m] = IF m = n THEN call[w].entries[n] ELSE acked[m]
    BY <1>2 DEF TypeOK, Entries
  <2>2. \A m \in Names \ unsure' : store'.entries[m] = acked'[m]
    <3> SUFFICES ASSUME NEW m \in Names \ unsure' PROVE call[w].entries[m] = acked'[m]
      BY <1>2
    <3>1. CASE m = n
      BY <2>1, <3>1
    <3>2. CASE m # n
      BY <1>1, <1>2, <2>1, <3>2 DEF SavedInv
    <3> QED
      BY <3>1, <3>2
  <2>3. ASSUME NEW u \in Writers, Busy(u)', NEW m \in Names \ (unsure' \cup passed'[u]),
               m # call'[u].name
        PROVE  call'[u].entries[m] = acked'[m]
    <3>1. u # w /\ call'[u] = call[u] /\ Busy(u)
      BY <1>4, <1>5, <2>3 DEF Busy
    <3>2. m # n /\ m \notin unsure /\ m \notin passed[u]
      BY <1>2, <2>3, <3>1
    <3> QED
      BY <2>1, <2>3, <3>1, <3>2 DEF SavedInv
  <2> QED
    BY <2>2, <2>3 DEF SavedInv
<1>9. SeenInv'
  <2>1. /\ pc' = pc /\ lastMod' = lastMod
        /\ store'.modified = call[w].time
    BY <1>2
  <2>2. store.modified \in Nat /\ call[w].time \in Nat /\ lastMod \in Nat
    BY <1>1, TypeFacts, Bounds
  <2>3. missed' = {} => missed = {} /\ pc # "stat" /\ store.modified < call[w].time
    BY <1>3, <2>2
  <2> QED
    BY <2>1, <2>2, <2>3 DEF SeenInv
<1> QED
  BY <1>6, <1>7, <1>8, <1>9

LEMMA GiveUpKeeps ==
  ASSUME Inv, NEW w \in Writers, GiveUp(w)
  PROVE  Inv'
<1> USE DEF Inv, GiveUp, schedVars, jobVars
<1>1. \A u \in Writers : /\ call'[u] = IF u = w THEN Idle ELSE call[u]
                         /\ passed'[u] = IF u = w THEN {} ELSE passed[u]
  BY DEF TypeOK
<1>2. ~Busy(w)'
  BY <1>1 DEF Busy, Idle
<1>3. Idle \in [at : {"idle", "saving", "renaming"}, name : Names \cup {None},
                entries : Entries, time : Times]
  BY NothingIsTyped, SchedulerAssumption DEF Idle, Times
<1>4. TypeOK'
  <2>1. call' \in [Writers -> [at : {"idle", "saving", "renaming"},
                               name : Names \cup {None}, entries : Entries,
                               time : Times]]
    BY <1>3 DEF TypeOK
  <2>2. \A u \in Writers : Busy(u)' => call'[u].name \in Names
    BY <1>1, <1>2 DEF TypeOK, Busy
  <2>3. passed' \in [Writers -> SUBSET Names]
    BY DEF TypeOK
  <2> QED
    BY <2>1, <2>2, <2>3 DEF TypeOK
<1>5. OneJobPerSchedule' /\ LateInv' /\ SeenInv'
  BY DEF OneJobPerSchedule, LateInv, SeenInv, InStep, Wanted
<1>6. SavedInv'
  BY <1>1, <1>2 DEF SavedInv, Busy
<1> QED
  BY <1>4, <1>5, <1>6
-----------------------------------------------------------------------------
(***************************************************************************)
(* The scheduler's steps.                                                  *)
(***************************************************************************)

\* All that a reconcile of the entries it has found does to the jobs.
LEMMA ReconcileKeeps ==
  ASSUME TypeOK, OneJobPerSchedule, LateInv,
         NEW found \in Entries, Reconcile(found)
  PROVE  /\ running' = Wanted(found)
         /\ running' \in Entries /\ owner' \in [Names -> Slots]
         /\ at' \in [Jobs -> {"none", "waiting", "due", "firing"}]
         /\ live' \subseteq {j \in Jobs : at'[j] # "none"}
         /\ late' \in [Jobs -> Nat] /\ inbox' = inbox
         /\ OneJobPerSchedule' /\ LateInv'
<1> DEFINE wanted == Wanted(found)
           new == {n \in Names : wanted[n] # None /\ wanted[n] # running[n]}
           gone == {n \in Names : Cancelled(n, wanted)}
           fresh == [n \in new |-> CHOOSE s \in Free(n) : TRUE]
           started == {<<n, fresh[n]>> : n \in new}
           first(n) == IF n \in RunAtStart /\ found[n] = None THEN "firing" ELSE "waiting"
<1>1. /\ \A n \in new : Free(n) # {}
      /\ running' = wanted
      /\ owner' = [n \in Names |-> IF n \in new THEN fresh[n] ELSE owner[n]]
      /\ live' = (live \ {<<n, owner[n]>> : n \in gone}) \cup started
      /\ at' = [j \in Jobs |-> IF j \in started THEN first(j[1]) ELSE at[j]]
      /\ late' = [j \in Jobs |-> IF j \in started THEN 0 ELSE late[j]]
      /\ inbox' = inbox
  BY DEF Reconcile
<1>2. \A n \in new : fresh[n] \in Slots /\ at[<<n, fresh[n]>>] = "none"
  <2>1. \A n \in new : fresh[n] \in Free(n)
    BY <1>1
  <2> QED
    BY <2>1 DEF Free
<1>3. wanted \in Entries
  BY WantedIsTyped
<1>5. /\ at \in [Jobs -> {"none", "waiting", "due", "firing"}]
      /\ live \subseteq {j \in Jobs : at[j] # "none"}
      /\ late \in [Jobs -> Nat] /\ owner \in [Names -> Slots]
  BY TypeFacts
<1>6. \A n \in gone : running[n] # None /\ wanted[n] # running[n]
  BY DEF Cancelled
<1>7. \A n \in Names \ gone : running[n] # None => wanted[n] = running[n]
  BY DEF Cancelled
<1> HIDE DEF wanted, new, gone, fresh, started, first
<1>8. \A n \in Names : n \in new <=> wanted[n] # None /\ wanted[n] # running[n]
  BY DEF new
<1>9. new \subseteq Names /\ gone \subseteq Names
  BY DEF new, gone
<1>4. started \subseteq Jobs
  <2>1. \A n \in new : <<n, fresh[n]>> \in Jobs
    BY <1>2, <1>9 DEF Jobs
  <2> QED
    BY <2>1 DEF started
<1>10. \A n : first(n) \in {"waiting", "firing"}
  BY DEF first
<1>11. at' \in [Jobs -> {"none", "waiting", "due", "firing"}]
  BY <1>1, <1>5, <1>10
<1>12. live' \subseteq {j \in Jobs : at'[j] # "none"}
  <2> SUFFICES ASSUME NEW j \in live' PROVE j \in Jobs /\ at'[j] # "none"
    OBVIOUS
  <2>1. CASE j \in started
    BY <1>1, <1>4, <1>10, <2>1
  <2>2. CASE j \notin started
    BY <1>1, <1>5, <2>2
  <2> QED
    BY <2>1, <2>2
<1>13. OneJobPerSchedule'
  <2>1. \A n \in Names : owner'[n] = IF n \in new THEN fresh[n] ELSE owner[n]
    BY <1>1
  <2>2. ASSUME NEW n \in Names, running'[n] # None
        PROVE  <<n, owner'[n]>> \in live'
    <3>1. CASE n \in new
      BY <1>1, <2>1, <3>1 DEF started
    <3>2. CASE n \notin new
      <4>1. wanted[n] = running[n] /\ n \notin gone
        BY <1>1, <1>6, <1>8, <2>2, <3>2
      <4>2. <<n, owner[n]>> \in live
        BY <1>1, <2>2, <4>1 DEF OneJobPerSchedule
      <4>3. \A m \in gone : <<m, owner[m]>> # <<n, owner[n]>>
        BY <4>1
      <4> QED
        BY <1>1, <2>1, <3>2, <4>2, <4>3
    <3> QED
      BY <3>1, <3>2
  <2>3. ASSUME NEW j \in live'
        PROVE  \E n \in Names : running'[n] # None /\ j = <<n, owner'[n]>>
    <3>1. CASE j \in started
      <4>1. PICK n \in new : j = <<n, fresh[n]>>
        BY <3>1 DEF started
      <4> QED
        BY <1>1, <1>8, <1>9, <2>1, <4>1
    <3>2. CASE j \notin started
      <4>1. j \in live /\ \A m \in gone : j # <<m, owner[m]>>
        BY <1>1, <3>2
      <4>2. PICK n \in Names : running[n] # None /\ j = <<n, owner[n]>>
        BY <4>1 DEF OneJobPerSchedule
      <4>3. n \notin gone
        BY <4>1, <4>2
      <4>4. wanted[n] = running[n]
        BY <1>7, <4>2, <4>3
      <4> QED
        BY <1>1, <1>8, <2>1, <4>2, <4>4
    <3> QED
      BY <3>1, <3>2
  <2> QED
    BY <2>2, <2>3 DEF OneJobPerSchedule
<1>14. LateInv'
  <2> SUFFICES ASSUME NEW j \in Jobs
               PROVE  /\ late'[j] \in {0, 1}
                      /\ j \in live' \/ at'[j] \in {"due", "firing"} => late'[j] = 0
    BY DEF LateInv
  <2>1. CASE j \in started
    BY <1>1, <2>1
  <2>2. CASE j \notin started
    BY <1>1, <2>2 DEF LateInv
  <2> QED
    BY <2>1, <2>2
<1>15. owner' \in [Names -> Slots] /\ late' \in [Jobs -> Nat]
  BY <1>1, <1>2, <1>5
<1> QED
  BY <1>1, <1>3, <1>11, <1>12, <1>13, <1>14, <1>15 DEF wanted

LEMMA LoadAndReconcileKeeps ==
  ASSUME Inv, LoadAndReconcile, UNCHANGED <<toolVars, lastMod>>,
         pc' \in {"stat", "poll"}, pc = "boot" => pc' = "stat"
  PROVE  Inv'
<1>1. /\ TypeOK /\ OneJobPerSchedule /\ LateInv /\ SavedInv /\ SeenInv
      /\ UNCHANGED <<store, clock, call, calls, acked, passed, unsure, lastMod>>
  BY DEF Inv, toolVars
<1>2. PICK found \in Entries :
        /\ Reconcile(found)
        /\ missed' \subseteq {"unread", "old time"}
        /\ missed' = {} => found = store.entries /\ ~(store.modified < lastMod)
        /\ faults' \in 0..MaxFaults
  <2>1. store.entries \in Entries /\ faults \in 0..MaxFaults
    BY <1>1, TypeFacts
  <2>2. CASE Reconcile(store.entries) /\ UNCHANGED faults
             /\ missed' = IF store.modified < lastMod THEN {"old time"} ELSE {}
    BY <2>1, <2>2
  <2>3. CASE /\ faults < MaxFaults /\ faults' = faults + 1
             /\ Reconcile(Nothing)
             /\ missed' = (IF store.modified < lastMod THEN {"old time"} ELSE {})
                          \cup {"unread"}
    <3>1. faults' \in 0..MaxFaults
      <4>1. faults < MaxFaults /\ faults' = faults + 1
        BY <2>3
      <4>2. MaxFaults \in Nat
        BY Bounds
      <4> QED
        BY <2>1, <4>1, <4>2
    <3> QED
      BY <2>3, <3>1, NothingIsTyped
  <2> QED
    BY <2>2, <2>3 DEF LoadAndReconcile
<1>3. /\ running' = Wanted(found)
      /\ running' \in Entries /\ owner' \in [Names -> Slots]
      /\ at' \in [Jobs -> {"none", "waiting", "due", "firing"}]
      /\ live' \subseteq {j \in Jobs : at'[j] # "none"}
      /\ late' \in [Jobs -> Nat] /\ inbox' = inbox
      /\ OneJobPerSchedule' /\ LateInv'
  BY <1>1, <1>2, ReconcileKeeps
<1>4. TypeOK'
  BY <1>1, <1>2, <1>3, TypeFacts DEF TypeOK, CallRecords, Busy
<1>5. SavedInv'
  BY <1>1 DEF SavedInv, Busy
<1>6. SeenInv'
  <2>1. lastMod \in Nat /\ store.modified \in Nat
    BY <1>1, TypeFacts, Bounds
  <2>2. missed' = {} => running' = Wanted(store.entries) /\ lastMod <= store.modified
    BY <1>2, <1>3, <2>1
  <2> QED
    BY <1>1, <2>1, <2>2 DEF SeenInv, InStep, Wanted
<1> QED
  BY <1>3, <1>4, <1>5, <1>6 DEF Inv

LEMMA FirstStatKeeps == Inv /\ FirstStat => Inv'
<1> SUFFICES ASSUME Inv, FirstStat PROVE Inv'
  OBVIOUS
<1>1. /\ TypeOK /\ OneJobPerSchedule /\ LateInv /\ SavedInv /\ SeenInv
      /\ pc = "stat" /\ pc' = "poll" /\ lastMod' = store.modified
      /\ UNCHANGED <<store, clock, call, calls, acked, passed, unsure, running,
                     owner, faults, missed, at, live, inbox, late>>
  BY DEF Inv, FirstStat, toolVars, jobVars
<1>2. store.modified \in Times
  BY <1>1, TypeFacts
<1>3. TypeOK'
  BY <1>1, <1>2, TypeFacts DEF TypeOK, CallRecords, Busy
<1>4. OneJobPerSchedule' /\ LateInv' /\ SavedInv'
  BY <1>1 DEF OneJobPerSchedule, LateInv, SavedInv, Busy
<1>5. SeenInv'
  BY <1>1, <1>2 DEF SeenInv, InStep, Wanted, Times
<1> QED
  BY <1>3, <1>4, <1>5 DEF Inv

LEMMA PollKeeps == Inv /\ Poll => Inv'
<1> SUFFICES ASSUME Inv, Poll PROVE Inv'
  OBVIOUS
<1>1. /\ TypeOK /\ OneJobPerSchedule /\ LateInv /\ SavedInv /\ SeenInv
      /\ pc = "poll" /\ pc' = "load" /\ lastMod' = store.modified
      /\ UNCHANGED <<store, clock, call, calls, acked, passed, unsure, running,
                     owner, faults, missed, at, live, inbox, late>>
  BY DEF Inv, Poll, toolVars, jobVars
<1>2. store.modified \in Times
  BY <1>1, TypeFacts
<1>3. TypeOK'
  BY <1>1, <1>2, TypeFacts DEF TypeOK, CallRecords, Busy
<1>4. OneJobPerSchedule' /\ LateInv' /\ SavedInv'
  BY <1>1 DEF OneJobPerSchedule, LateInv, SavedInv, Busy
<1>5. SeenInv'
  BY <1>1, <1>2 DEF SeenInv, InStep, Wanted, Times
<1> QED
  BY <1>3, <1>4, <1>5 DEF Inv

LEMMA RestartKeeps == Inv /\ Restart => Inv'
<1> SUFFICES ASSUME Inv, Restart PROVE Inv'
  OBVIOUS
<1>1. /\ TypeOK /\ OneJobPerSchedule /\ LateInv /\ SavedInv /\ SeenInv
      /\ faults < MaxFaults /\ faults' = faults + 1
      /\ pc' = "boot" /\ running' = Nothing /\ lastMod' = 0 /\ missed' = {}
      /\ at' = [j \in Jobs |-> "none"] /\ live' = {} /\ inbox' = 0
      /\ UNCHANGED <<store, clock, call, calls, acked, passed, unsure, owner, late>>
  BY DEF Inv, Restart, toolVars
<1>2. faults' \in 0..MaxFaults
  <2>1. faults \in 0..MaxFaults
    BY <1>1, TypeFacts
  <2> QED
    BY <1>1, <2>1, SchedulerAssumption
<1>3. TypeOK'
  <2>1. /\ 0 \in Times /\ 0 \in 0..BusSize
        /\ at' \in [Jobs -> {"none", "waiting", "due", "firing"}]
        /\ running' \in Entries
    BY <1>1, Bounds, NothingIsTyped
  <2> QED
    BY <1>1, <1>2, <2>1, TypeFacts DEF TypeOK, CallRecords, Busy
<1>4. OneJobPerSchedule'
  BY <1>1 DEF OneJobPerSchedule, Nothing
<1>5. LateInv' /\ SavedInv' /\ SeenInv'
  BY <1>1 DEF LateInv, SavedInv, SeenInv, Busy
<1> QED
  BY <1>3, <1>4, <1>5 DEF Inv
-----------------------------------------------------------------------------
(***************************************************************************)
(* The steps of the jobs.                                                  *)
(***************************************************************************)
LEMMA JobStepKeeps ==
  ASSUME Inv, NEW j \in Jobs, JobStep(j)
  PROVE  Inv'
<1>1. /\ TypeOK /\ OneJobPerSchedule /\ LateInv /\ SavedInv /\ SeenInv
      /\ UNCHANGED <<store, clock, call, calls, acked, passed, unsure, pc, lastMod,
                     running, owner, faults, missed, live>>
  BY DEF Inv, JobStep, Expire, Fire, Send, Quit, JobGoesOn, toolVars, schedVars
<1>2. /\ at \in [Jobs -> {"none", "waiting", "due", "firing"}]
      /\ live \subseteq {k \in Jobs : at[k] # "none"}
      /\ late \in [Jobs -> Nat] /\ inbox \in 0..BusSize
  BY <1>1, TypeFacts
<1>3. OneJobPerSchedule' /\ SavedInv' /\ SeenInv'
  BY <1>1 DEF OneJobPerSchedule, SavedInv, SeenInv, Busy, InStep, Wanted
<1>4. ASSUME at' \in [Jobs -> {"none", "waiting", "due", "firing"}],
             live \subseteq {k \in Jobs : at'[k] # "none"},
             late' \in [Jobs -> Nat], inbox' \in 0..BusSize
      PROVE  TypeOK'
  BY <1>1, <1>4, TypeFacts DEF TypeOK, CallRecords, Busy
<1>5. CASE Expire(j)
  <2>1. /\ j \in live /\ at[j] = "waiting" /\ at' = [at EXCEPT ![j] = "due"]
        /\ UNCHANGED <<inbox, late>>
    BY <1>5 DEF Expire, JobGoesOn
  <2> QED
    BY <1>1, <1>2, <1>3, <1>4, <2>1 DEF Inv, LateInv
<1>6. CASE Fire(j)
  <2>1. /\ at[j] = "due" /\ at' = [at EXCEPT ![j] = "firing"]
        /\ UNCHANGED <<inbox, late>>
    BY <1>6 DEF Fire, JobGoesOn
  <2> QED
    BY <1>1, <1>2, <1>3, <1>4, <2>1 DEF Inv, LateInv
<1>7. CASE Send(j)
  <2>1. /\ at[j] = "firing" /\ at' = [at EXCEPT ![j] = "waiting"]
        /\ inbox < BusSize /\ inbox' = inbox + 1
        /\ late' = [late EXCEPT ![j] = IF j \in live THEN 0 ELSE late[j] + 1]
    BY <1>7 DEF Send, JobGoesOn
  <2>2. inbox' \in 0..BusSize
    BY <1>2, <2>1, SchedulerAssumption
  <2>3. late[j] = 0
    BY <1>1, <2>1 DEF LateInv
  <2>4. LateInv'
    BY <1>1, <1>2, <2>1, <2>3 DEF LateInv
  <2>5. late' \in [Jobs -> Nat]
    BY <1>2, <2>1, <2>3
  <2> QED
    BY <1>1, <1>2, <1>3, <1>4, <2>1, <2>2, <2>4, <2>5 DEF Inv
<1>8. CASE Quit(j)
  <2>1. /\ j \notin live /\ at' = [at EXCEPT ![j] = "none"]
        /\ UNCHANGED <<inbox, late>>
    BY <1>8 DEF Quit, JobGoesOn
  <2> QED
    BY <1>1, <1>2, <1>3, <1>4, <2>1 DEF Inv, LateInv
<1> QED
  BY <1>5, <1>6, <1>7, <1>8 DEF JobStep

\* A message leaves the bus, a tick of the clock, or nothing at all.
LEMMA OthersKeep ==
  ASSUME Inv, Dispatch \/ Tick \/ UNCHANGED vars
  PROVE  Inv'
<1>1. /\ TypeOK /\ OneJobPerSchedule /\ LateInv /\ SavedInv /\ SeenInv
      /\ UNCHANGED <<store, call, calls, acked, passed, unsure, pc, lastMod,
                     running, owner, faults, missed, at, live, late>>
  BY DEF Inv, Dispatch, Tick, vars, toolVars, schedVars, jobVars
<1>2. inbox' \in 0..BusSize /\ clock' \in 1..MaxTime
  <2>1. inbox \in 0..BusSize /\ clock \in 1..MaxTime
    BY <1>1, TypeFacts
  <2>2. CASE Dispatch
    BY <2>1, <2>2, SchedulerAssumption DEF Dispatch, toolVars
  <2>3. CASE Tick
    BY <2>1, <2>3, SchedulerAssumption DEF Tick, jobVars
  <2>4. CASE UNCHANGED vars
    BY <2>1, <2>4 DEF vars, toolVars, jobVars
  <2> QED
    BY <2>2, <2>3, <2>4
<1>3. TypeOK'
  BY <1>1, <1>2, TypeFacts DEF TypeOK, CallRecords, Busy
<1>4. OneJobPerSchedule' /\ LateInv' /\ SavedInv' /\ SeenInv'
  BY <1>1 DEF OneJobPerSchedule, LateInv, SavedInv, SeenInv, Busy, InStep, Wanted
<1> QED
  BY <1>3, <1>4 DEF Inv
-----------------------------------------------------------------------------
LEMMA NextInv == Inv /\ [Next]_vars => Inv'
<1> SUFFICES ASSUME Inv, [Next]_vars PROVE Inv'
  OBVIOUS
<1>1. ASSUME NEW w \in Writers,
             \/ \E n \in Names, v \in Asked \cup {None} : LoadEntries(w, n, v)
             \/ WriteTemp(w) \/ Rename(w) \/ GiveUp(w)
      PROVE  Inv'
  BY <1>1, LoadEntriesKeeps, WriteTempKeeps, RenameKeeps, GiveUpKeeps
<1>2. CASE Boot
  BY <1>2, LoadAndReconcileKeeps DEF Boot
<1>3. CASE Reload
  BY <1>3, LoadAndReconcileKeeps DEF Reload
<1>4. CASE FirstStat \/ Poll \/ Restart
  BY <1>4, FirstStatKeeps, PollKeeps, RestartKeeps
<1>5. CASE \E j \in Jobs : JobStep(j)
  BY <1>5, JobStepKeeps
<1>6. CASE Dispatch \/ Tick \/ UNCHANGED vars
  BY <1>6, OthersKeep
<1> QED
  BY <1>1, <1>2, <1>3, <1>4, <1>5, <1>6 DEF Next

LEMMA InvHolds == Spec => []Inv
<1>1. Init => Inv
  BY InitInv
<1>2. Inv /\ [Next]_vars => Inv'
  BY NextInv
<1> QED
  BY <1>1, <1>2, PTL DEF Spec

\* The types of the variables.
THEOREM SchedulerTypes == Spec => []TypeOK
<1>1. Inv => TypeOK
  BY DEF Inv
<1> QED
  BY <1>1, InvHolds, PTL

\* However often the store changes and loads fail, a schedule has one
\* goroutine that is not cancelled if the scheduler takes it for running, and
\* none otherwise.
THEOREM OneJob == Spec => []OneJobPerSchedule
<1>1. Inv => OneJobPerSchedule
  BY DEF Inv
<1> QED
  BY <1>1, InvHolds, PTL

\* A cancelled goroutine sends one message more at most.
THEOREM OneLateMessage == Spec => []CancelledSendsOnce
<1>1. Inv => CancelledSendsOnce
  BY DEF Inv, LateInv, CancelledSendsOnce
<1> QED
  BY <1>1, InvHolds, PTL

\* What a tool has saved stays unless calls of two processes overlap.
THEOREM SavedStays == Spec => []SavedSchedulesStay
<1>1. Inv => SavedSchedulesStay
  BY DEF Inv, SavedInv, SavedSchedulesStay
<1> QED
  BY <1>1, InvHolds, PTL

\* The scheduler is in step with the store, or the store's time tells it so,
\* but for the three ways of missing a change.
THEOREM NoSilentDrift == Spec => []DriftIsNoticed
<1>1. Inv => DriftIsNoticed
  <2> SUFFICES ASSUME Inv, pc = "poll", ~InStep, missed = {}
               PROVE  store.modified > lastMod
    BY DEF DriftIsNoticed
  <2>1. lastMod \in Nat /\ store.modified \in Nat
    BY TypeFacts, Bounds DEF Inv
  <2> QED
    BY <2>1 DEF Inv, SeenInv
<1> QED
  BY <1>1, InvHolds, PTL

(***************************************************************************)
(* MemoryStore.                                                            *)
(***************************************************************************)
\* Origins and what history says of them are ids of the table.
OriginsAreIds ==
  /\ \A i \in Ids : origin[i] \in 1 .. i
  /\ \A g \in given : g[1] \in Ids
  /\ dropped \subseteq Ids

\* A link to the older version points back, one to the newer ahead.
LinksPoint ==
  \A i \in Ids : /\ rows[i].supersedes \in 0 .. (i - 1)
                 /\ rows[i].supersededBy \in {0} \cup (i + 1) .. Len(rows)

\* What a transaction has read is still so, unless another has committed.
SnapshotsHold ==
  \A p \in Procs :
    tx[p].op # "none" /\ ~tx[p].stale =>
      /\ tx[p].id \in Ids /\ tx[p].row = rows[tx[p].id]
      /\ tx[p].op = "revise" => Active(tx[p].row)

MemoryInv == /\ MemoryTypeOK /\ OriginsAreIds /\ LinksPoint /\ SnapshotsHold
             /\ ChainsAreLines /\ FeedbackStays /\ ForgottenStays
-----------------------------------------------------------------------------
\* The invariant holds of the empty table (Open).
LEMMA InitMemory == MemoryInit => MemoryInv
  <1> SUFFICES ASSUME MemoryInit PROVE MemoryInv
    OBVIOUS
  <1>1. Ids = {} /\ Len(rows) = 0 /\ rows \in Seq(RowType) /\ origin \in Seq(Nat \ {0})
    BY DEF MemoryInit, Ids
  <1>2. NoTx \in [op : {"none", "revise", "reinforce"}, id : Nat, row : RowType, stale : BOOLEAN]
    BY DEF NoTx, Row, RowType
  <1>3. MemoryTypeOK
    BY <1>1, <1>2, BoundsAssumption DEF MemoryInit, MemoryTypeOK, SchemaVersion
  <1>4. SnapshotsHold
    BY DEF MemoryInit, SnapshotsHold, NoTx
  <1> QED
    BY <1>1, <1>3, <1>4 DEF MemoryInv, MemoryInit, OriginsAreIds, LinksPoint, ChainsAreLines, FeedbackStays,
      ForgottenStays, Ids

TxType == [op : {"none", "revise", "reinforce"}, id : Nat, row : RowType, stale : BOOLEAN]

\* Nothing is begun on an idle connection.
LEMMA NoTxType == NoTx \in TxType
  BY DEF NoTx, Row, RowType, TxType

\* After a commit no other transaction may commit, whatever it has read.
LEMMA CommitOvertakes ==
  ASSUME MemoryTypeOK, NEW p \in Procs, Commit(p) \/ Autocommit(p)
  PROVE  tx' \in [Procs -> TxType] /\ SnapshotsHold'
  <1>1. tx \in [Procs -> TxType]
    BY DEF MemoryTypeOK, TxType
  <1>2. \A q \in Procs : [tx[q] EXCEPT !.stale = TRUE] \in TxType
    BY <1>1 DEF TxType
  <1>3. Overtaken(p) \in [Procs -> TxType]
    BY <1>1, <1>2 DEF Overtaken
  <1>4. tx' \in [Procs -> TxType]
    BY <1>3, NoTxType DEF Commit, Autocommit
  <1>5. ASSUME NEW q \in Procs PROVE tx'[q].op = "none" \/ tx'[q].stale
    <2>1. CASE q = p
      BY <2>1, <1>3 DEF Commit, Autocommit, Overtaken, NoTx
    <2>2. CASE q # p
      <3>1. tx'[q] = Overtaken(p)[q]
        BY <2>2, <1>3 DEF Commit, Autocommit
      <3>2. CASE tx[q] = NoTx
        BY <3>1, <3>2 DEF Overtaken, NoTx
      <3>3. CASE tx[q] # NoTx
        <4>1. tx'[q] = [tx[q] EXCEPT !.stale = TRUE]
          BY <3>1, <3>3, <2>2 DEF Overtaken
        <4> QED
          BY <4>1, <1>1 DEF TxType
      <3> QED
        BY <3>2, <3>3
    <2> QED
      BY <2>1, <2>2
  <1> QED
    BY <1>4, <1>5 DEF SnapshotsHold

\* What the invariant says of the table alone.
TableInv == OriginsAreIds /\ LinksPoint /\ ChainsAreLines /\ FeedbackStays /\ ForgottenStays

\* A step that leaves the table and what is known of it alone.
LEMMA TableStays ==
  ASSUME TableInv, UNCHANGED <<rows, origin, given, dropped>>
  PROVE  TableInv'
  BY DEF TableInv, OriginsAreIds, LinksPoint, ChainsAreLines, FeedbackStays, ForgottenStays,
    Ids, Latest

\* Beginning a transaction: what it has read is what there is.
LEMMA BeginKeeps ==
  ASSUME MemoryTypeOK, SnapshotsHold, NEW p \in Procs, NEW id \in Ids,
         NEW op \in {"revise", "reinforce"}, Begin(p, op, id),
         op = "revise" => Active(rows[id]), UNCHANGED rows
  PROVE  tx' \in [Procs -> TxType] /\ SnapshotsHold'
  <1>1. /\ tx \in [Procs -> TxType] /\ rows[id] \in RowType /\ id \in Nat
    BY DEF MemoryTypeOK, TxType, Ids
  <1> DEFINE t == [op |-> op, id |-> id, row |-> rows[id], stale |-> FALSE]
  <1>2. t \in TxType
    BY <1>1 DEF TxType
  <1>3. tx' = [tx EXCEPT ![p] = t]
    BY DEF Begin
  <1>4. tx' \in [Procs -> TxType]
    BY <1>1, <1>2, <1>3
  <1>5. ASSUME NEW q \in Procs, tx'[q].op # "none", ~tx'[q].stale
        PROVE  /\ tx'[q].id \in Ids' /\ tx'[q].row = rows'[tx'[q].id]
               /\ tx'[q].op = "revise" => Active(tx'[q].row)
    <2>1. CASE q = p
      BY <2>1, <1>1, <1>3 DEF Ids
    <2>2. CASE q # p
      <3>1. tx'[q] = tx[q]
        BY <2>2, <1>3, <1>1
      <3> QED
        BY <3>1, <1>5 DEF SnapshotsHold, Ids
    <2> QED
      BY <2>1, <2>2
  <1> QED
    BY <1>4, <1>5 DEF SnapshotsHold, Active, Latest

\* Ending one without a commit.
LEMMA EndKeeps ==
  ASSUME MemoryTypeOK, SnapshotsHold, NEW p \in Procs, tx' = [tx EXCEPT ![p] = NoTx], UNCHANGED rows
  PROVE  tx' \in [Procs -> TxType] /\ SnapshotsHold'
  <1>1. tx \in [Procs -> TxType]
    BY DEF MemoryTypeOK, TxType
  <1>2. tx' \in [Procs -> TxType]
    BY <1>1, NoTxType
  <1>3. \A q \in Procs : tx'[q] = tx[q] \/ tx'[q].op = "none"
    BY <1>1 DEF NoTx
  <1> QED
    BY <1>2, <1>3 DEF SnapshotsHold, Ids
-----------------------------------------------------------------------------
\* Writing a row without its links: feedback that only grows, a mark that is
\* never taken back.
LEMMA RowWritten ==
  ASSUME MemoryTypeOK, TableInv, NEW id \in Ids, NEW row \in RowType,
         row.version = rows[id].version, row.supersedes = rows[id].supersedes,
         row.supersededBy = rows[id].supersededBy,
         rows[id].feedback \subseteq row.feedback, rows[id].forgotten => row.forgotten,
         rows' = [rows EXCEPT ![id] = row], UNCHANGED origin,
         \A g \in given' \ given : g[1] = origin[id] /\ g[2] \in row.feedback,
         rows[id].supersededBy # 0 => given' = given,
         \A i \in dropped' \ dropped : i = origin[id] /\ row.forgotten,
         rows[id].supersededBy # 0 => dropped' = dropped
  PROVE  rows' \in Seq(RowType) /\ Len(rows') = Len(rows) /\ TableInv'
  <1>1. /\ rows \in Seq(RowType) /\ Ids = 1 .. Len(rows) /\ Len(rows) \in Nat
        /\ origin \in Seq(Nat \ {0}) /\ Len(origin) = Len(rows)
    BY DEF MemoryTypeOK, Ids
  <1>2. rows' \in Seq(RowType) /\ Len(rows') = Len(rows) /\ Ids' = Ids
    BY <1>1 DEF Ids
  <1>3. \A i \in Ids : /\ i # id => rows'[i] = rows[i]
                       /\ i = id => rows'[i] = row
    BY <1>1 DEF Ids
  <1>4. \A i \in Ids : /\ rows'[i].version = rows[i].version
                       /\ rows'[i].supersedes = rows[i].supersedes
                       /\ rows'[i].supersededBy = rows[i].supersededBy
                       /\ rows[i].feedback \subseteq rows'[i].feedback
                       /\ rows[i].forgotten => rows'[i].forgotten
                       /\ Latest(rows'[i]) <=> Latest(rows[i])
    BY <1>3 DEF Latest
  <1>5. origin[id] \in Ids
    BY <1>1 DEF TableInv, OriginsAreIds
  <1>6. OriginsAreIds'
    BY <1>2, <1>5 DEF TableInv, OriginsAreIds
  <1>7. LinksPoint'
    BY <1>2, <1>4 DEF TableInv, LinksPoint
  <1>8. ChainsAreLines'
    BY <1>2, <1>4 DEF TableInv, ChainsAreLines
  <1>9. FeedbackStays'
    <2> SUFFICES ASSUME NEW g \in given', NEW j \in Ids, origin[j] = g[1], Latest(rows[j])
                 PROVE  g[2] \in rows'[j].feedback
      BY <1>2, <1>4 DEF FeedbackStays
    <2>1. CASE g \in given
      BY <2>1, <1>4 DEF TableInv, FeedbackStays
    <2>2. CASE g \notin given
      <3>1. Latest(rows[id]) /\ g[1] = origin[id] /\ g[2] \in row.feedback
        BY <2>2 DEF Latest
      <3>2. j = id
        BY <3>1 DEF TableInv, ChainsAreLines
      <3> QED
        BY <3>1, <3>2, <1>3
    <2> QED
      BY <2>1, <2>2
  <1>10. ForgottenStays'
    <2> SUFFICES ASSUME NEW j \in Ids, origin[j] \in dropped', Latest(rows[j])
                 PROVE  rows'[j].forgotten
      BY <1>2, <1>4 DEF ForgottenStays
    <2>1. CASE origin[j] \in dropped
      BY <2>1, <1>4 DEF TableInv, ForgottenStays
    <2>2. CASE origin[j] \notin dropped
      <3>1. Latest(rows[id]) /\ origin[j] = origin[id] /\ row.forgotten
        BY <2>2 DEF Latest
      <3>2. j = id
        BY <3>1 DEF TableInv, ChainsAreLines
      <3> QED
        BY <3>1, <3>2, <1>3
    <2> QED
      BY <2>1, <2>2
  <1> QED
    BY <1>2, <1>6, <1>7, <1>8, <1>9, <1>10 DEF TableInv

\* A new memory is a line of its own.
LEMMA RowAdded ==
  ASSUME MemoryTypeOK, TableInv, rows' = Append(rows, Row(1, 0, {})),
         origin' = Append(origin, Len(rows) + 1), UNCHANGED <<given, dropped>>
  PROVE  /\ rows' \in Seq(RowType) /\ origin' \in Seq(Nat \ {0})
         /\ Len(origin') = Len(rows') /\ TableInv'
  <1> DEFINE n == Len(rows) + 1
  <1> DEFINE row == Row(1, 0, {})
  <1>1. /\ rows \in Seq(RowType) /\ Ids = 1 .. Len(rows) /\ Len(rows) \in Nat
        /\ origin \in Seq(Nat \ {0}) /\ Len(origin) = Len(rows)
    BY DEF MemoryTypeOK, Ids
  <1>2. /\ row \in RowType /\ row.version = 1 /\ row.supersedes = 0 /\ row.supersededBy = 0
        /\ row.feedback = {} /\ row.forgotten = FALSE
    BY DEF Row, RowType
  <1> HIDE DEF row
  <1>3. /\ rows' \in Seq(RowType) /\ Len(rows') = n /\ Ids' = 1 .. n
        /\ rows'[n] = row /\ \A i \in Ids : rows'[i] = rows[i]
    BY <1>1, <1>2 DEF Ids, row
  <1>4. /\ origin' \in Seq(Nat \ {0}) /\ Len(origin') = n
        /\ origin'[n] = n /\ \A i \in Ids : origin'[i] = origin[i]
    <2>1. n \in Nat \ {0} /\ n = Len(origin) + 1 /\ Ids = 1 .. Len(origin)
      BY <1>1
    <2> DEFINE later == Append(origin, n)
    <2>2. /\ later \in Seq(Nat \ {0}) /\ Len(later) = Len(origin) + 1
          /\ later[Len(origin) + 1] = n
          /\ \A i \in 1 .. Len(origin) : later[i] = origin[i]
      BY <1>1, <2>1, AppendProperties
    <2>3. origin' = later
      BY DEF n
    <2> HIDE DEF later
    <2> QED
      BY <2>1, <2>2, <2>3
  <1>5. /\ \A i \in Ids' : i \in Ids \/ i = n
        /\ \A i \in Ids : i \in Ids' /\ i < n /\ i \in Nat
        /\ n \in Nat
    BY <1>1, <1>3
  <1>6. \A i \in Ids : /\ origin[i] \in 1 .. i
                       /\ rows[i].supersedes \in 0 .. (i - 1)
                       /\ rows[i].supersededBy \in {0} \cup (i + 1) .. Len(rows)
    BY DEF TableInv, OriginsAreIds, LinksPoint
  <1>7. OriginsAreIds'
    BY <1>4, <1>5 DEF TableInv, OriginsAreIds
  <1>8. LinksPoint'
    BY <1>1, <1>2, <1>3, <1>5, <1>6 DEF LinksPoint
  <1>9. ChainsAreLines'
    <2>1. \A i, j \in Ids' : rows'[j].supersedes = i <=> rows'[i].supersededBy = j
      BY <1>1, <1>2, <1>3, <1>5, <1>6 DEF TableInv, ChainsAreLines
    <2>2. ASSUME NEW j \in Ids'
          PROVE  LET i == rows'[j].supersedes IN
                   IF i = 0 THEN rows'[j].version = 1
                   ELSE i \in Ids' /\ rows'[j].version = rows'[i].version + 1
                                   /\ origin'[j] = origin'[i]
      BY <1>2, <1>3, <1>4, <1>5, <1>6 DEF TableInv, ChainsAreLines
    <2>3. \A i, j \in Ids' :
            origin'[i] = origin'[j] /\ Latest(rows'[i]) /\ Latest(rows'[j]) => i = j
      BY SMTT(30), <1>3, <1>4, <1>5, <1>6 DEF TableInv, ChainsAreLines
    <2> QED
      BY <2>1, <2>2, <2>3 DEF ChainsAreLines
  <1>10. FeedbackStays' /\ ForgottenStays'
    BY <1>3, <1>4, <1>5 DEF TableInv, FeedbackStays, ForgottenStays, OriginsAreIds
  <1> QED
    BY <1>3, <1>4, <1>7, <1>8, <1>9, <1>10 DEF TableInv

\* A revision of an active row becomes the last of its line.
LEMMA RowRevised ==
  ASSUME MemoryTypeOK, TableInv, NEW id \in Ids, Active(rows[id]),
         rows' = Append([rows EXCEPT ![id].supersededBy = Len(rows) + 1],
                        VersionFrom(rows[id], id)),
         origin' = Append(origin, origin[id]), UNCHANGED <<given, dropped>>
  PROVE  /\ rows' \in Seq(RowType) /\ origin' \in Seq(Nat \ {0})
         /\ Len(origin') = Len(rows') /\ TableInv'
  <1> DEFINE n == Len(rows) + 1
  <1> DEFINE old == [rows[id] EXCEPT !.supersededBy = n]
  <1> DEFINE new == VersionFrom(rows[id], id)
  <1>1. /\ rows \in Seq(RowType) /\ Ids = 1 .. Len(rows) /\ Len(rows) \in Nat
        /\ origin \in Seq(Nat \ {0}) /\ Len(origin) = Len(rows) /\ rows[id] \in RowType
        /\ id \in Nat \ {0}
    BY DEF MemoryTypeOK, Ids
  <1>2. /\ new \in RowType /\ new.version = rows[id].version + 1 /\ new.supersedes = id
        /\ new.supersededBy = 0 /\ new.feedback = rows[id].feedback /\ new.forgotten = FALSE
    BY SMTT(30), <1>1 DEF VersionFrom, Row, RowType
  <1>4. rows' = Append([rows EXCEPT ![id] = old], new)
    OBVIOUS
  <1>0. n \in Nat /\ n = Len(rows) + 1
    BY <1>1
  <1> HIDE DEF n
  <1>3. /\ old \in RowType /\ old.version = rows[id].version
        /\ old.supersedes = rows[id].supersedes /\ old.supersededBy = n
    BY <1>0, <1>1 DEF RowType
  <1> HIDE DEF old, new
  <1>5. /\ rows' \in Seq(RowType) /\ Len(rows') = n /\ Ids' = 1 .. n
        /\ rows'[n] = new /\ rows'[id] = old
        /\ \A i \in Ids : i # id => rows'[i] = rows[i]
    <2> DEFINE written == [rows EXCEPT ![id] = old]
    <2>1. /\ written \in Seq(RowType) /\ Len(written) = Len(rows) /\ written[id] = old
          /\ \A i \in Ids : i # id => written[i] = rows[i]
      BY <1>1, <1>3 DEF Ids
    <2> HIDE DEF written
    <2>2. rows' = Append(written, new)
      BY <1>4 DEF written
    <2>3. /\ rows' \in Seq(RowType) /\ Len(rows') = Len(written) + 1
          /\ rows'[Len(written) + 1] = new
          /\ \A i \in 1 .. Len(written) : rows'[i] = written[i]
      <3>1. written \in Seq(RowType) /\ new \in RowType /\ rows' = Append(written, new)
        BY <1>2, <2>1, <2>2
      <3> DEFINE later == Append(written, new)
      <3>2. /\ later \in Seq(RowType) /\ Len(later) = Len(written) + 1
            /\ later[Len(written) + 1] = new
            /\ \A i \in 1 .. Len(written) : later[i] = written[i]
        BY <3>1, AppendProperties
      <3>3. rows' = later
        BY <3>1
      <3> HIDE DEF later
      <3> QED
        BY <3>2, <3>3
    <2>4. Len(rows') = n /\ Ids' = 1 .. n
      BY <1>0, <1>1, <2>1, <2>3 DEF Ids
    <2> QED
      BY <1>0, <1>1, <2>1, <2>3, <2>4
  <1>6. /\ origin' \in Seq(Nat \ {0}) /\ Len(origin') = n
        /\ origin'[n] = origin[id] /\ \A i \in Ids : origin'[i] = origin[i]
    <2>1. /\ n = Len(origin) + 1 /\ Ids = 1 .. Len(origin)
          /\ origin[id] \in Nat \ {0}
      BY <1>0, <1>1
    <2> DEFINE later == Append(origin, origin[id])
    <2>2. /\ later \in Seq(Nat \ {0}) /\ Len(later) = Len(origin) + 1
          /\ later[Len(origin) + 1] = origin[id]
          /\ \A i \in 1 .. Len(origin) : later[i] = origin[i]
      BY <1>1, <2>1, AppendProperties
    <2>3. origin' = later
      OBVIOUS
    <2> HIDE DEF later
    <2> QED
      BY <2>1, <2>2, <2>3
  <1>7. /\ \A i \in Ids' : i \in Ids \/ i = n
        /\ \A i \in Ids : i \in Ids' /\ i < n /\ i \in Nat
        /\ n \in Nat \ {0} /\ n \in Ids' /\ n \notin Ids
    BY <1>0, <1>1, <1>5
  <1>8. \A i \in Ids : /\ origin[i] \in 1 .. i
                       /\ rows[i].supersedes \in 0 .. (i - 1)
                       /\ rows[i].supersededBy \in {0} \cup (i + 1) .. Len(rows)
    BY DEF TableInv, OriginsAreIds, LinksPoint
  <1>9. /\ \A i \in Ids : /\ rows'[i].version = rows[i].version
                          /\ rows'[i].supersedes = rows[i].supersedes
                          /\ i # id => rows'[i].supersededBy = rows[i].supersededBy
        /\ rows[id].supersededBy = 0 /\ rows[id].forgotten = FALSE
    BY <1>1, <1>3, <1>5 DEF Active, Latest, RowType
  <1>10. \A i \in Ids : Latest(rows'[i]) => i # id /\ Latest(rows[i])
    BY <1>3, <1>5, <1>7, <1>9 DEF Latest
  <1>11. OriginsAreIds'
    BY <1>1, <1>6, <1>7, <1>8 DEF TableInv, OriginsAreIds
  <1>12. LinksPoint'
    <2> SUFFICES ASSUME NEW i \in Ids'
                 PROVE  /\ rows'[i].supersedes \in 0 .. (i - 1)
                        /\ rows'[i].supersededBy \in {0} \cup (i + 1) .. Len(rows')
      BY DEF LinksPoint
    <2>1. CASE i = n
      BY <2>1, <1>0, <1>1, <1>2, <1>5
    <2>2. CASE i = id
      BY <2>2, <1>0, <1>1, <1>3, <1>5, <1>8
    <2>3. CASE i \in Ids /\ i # id
      BY SMTT(30), <2>3, <1>0, <1>1, <1>5, <1>8
    <2> QED
      BY <2>1, <2>2, <2>3, <1>7
  <1>13. ChainsAreLines'
    <2>1. ASSUME NEW i \in Ids', NEW j \in Ids'
          PROVE  rows'[j].supersedes = i <=> rows'[i].supersededBy = j
      <3>1. CASE i \in Ids /\ j \in Ids
        BY <3>1, <1>3, <1>5, <1>7, <1>8, <1>9 DEF TableInv, ChainsAreLines
      <3>2. CASE i \in Ids /\ j = n
        BY <3>2, <1>1, <1>2, <1>3, <1>5, <1>7, <1>8, <1>9
      <3>3. CASE i = n
        BY <3>3, <1>1, <1>2, <1>5, <1>7, <1>8, <1>9
      <3> QED
        BY <3>1, <3>2, <3>3, <1>7
    <2>2. ASSUME NEW j \in Ids'
          PROVE  LET i == rows'[j].supersedes IN
                   IF i = 0 THEN rows'[j].version = 1
                   ELSE i \in Ids' /\ rows'[j].version = rows'[i].version + 1
                                   /\ origin'[j] = origin'[i]
      <3>1. CASE j \in Ids
        <4> DEFINE i == rows[j].supersedes
        <4>1. rows'[j].supersedes = i /\ rows'[j].version = rows[j].version
          BY <3>1, <1>9
        <4>2. IF i = 0 THEN rows[j].version = 1
              ELSE i \in Ids /\ rows[j].version = rows[i].version + 1 /\ origin[j] = origin[i]
          BY <3>1 DEF TableInv, ChainsAreLines
        <4> HIDE DEF i
        <4> QED
          BY <3>1, <4>1, <4>2, <1>6, <1>7, <1>9
      <3>2. CASE j = n
        BY <3>2, <1>1, <1>2, <1>3, <1>5, <1>6, <1>7
      <3> QED
        BY <3>1, <3>2, <1>7
    <2>3. ASSUME NEW i \in Ids', NEW j \in Ids',
                 origin'[i] = origin'[j], Latest(rows'[i]), Latest(rows'[j])
          PROVE  i = j
      <3>1. \A k \in Ids : origin[k] = origin[id] => ~Latest(rows'[k])
        <4>1. Latest(rows[id])
          BY <1>9 DEF Latest
        <4> QED
          BY <4>1, <1>10 DEF TableInv, ChainsAreLines
      <3>2. CASE i \in Ids /\ j \in Ids
        BY <3>2, <2>3, <1>6, <1>10 DEF TableInv, ChainsAreLines
      <3> QED
        BY <3>1, <3>2, <2>3, <1>6, <1>7
    <2> QED
      BY <2>1, <2>2, <2>3 DEF ChainsAreLines
  <1>14. FeedbackStays'
    <2> SUFFICES ASSUME NEW g \in given, NEW j \in Ids', origin'[j] = g[1], Latest(rows'[j])
                 PROVE  g[2] \in rows'[j].feedback
      BY DEF FeedbackStays
    <2>1. CASE j \in Ids
      BY <2>1, <1>5, <1>6, <1>10 DEF TableInv, FeedbackStays
    <2>2. CASE j = n
      BY <2>2, <1>2, <1>5, <1>6, <1>9 DEF TableInv, FeedbackStays, Latest
    <2> QED
      BY <2>1, <2>2, <1>7
  <1>15. ForgottenStays'
    <2> SUFFICES ASSUME NEW j \in Ids', origin'[j] \in dropped, Latest(rows'[j])
                 PROVE  rows'[j].forgotten
      BY DEF ForgottenStays
    <2>1. CASE j \in Ids
      BY <2>1, <1>5, <1>6, <1>10 DEF TableInv, ForgottenStays
    <2>2. CASE j = n
      BY <2>2, <1>6, <1>9 DEF TableInv, ForgottenStays, Latest
    <2> QED
      BY <2>1, <2>2, <1>7
  <1> QED
    BY <1>5, <1>6, <1>11, <1>12, <1>13, <1>14, <1>15 DEF TableInv
-----------------------------------------------------------------------------
\* Each step of a process, and none, preserves the invariant.
LEMMA StepMemory == MemoryInv /\ [MemoryNext]_memoryVars => MemoryInv'
  <1> SUFFICES ASSUME MemoryInv, [MemoryNext]_memoryVars PROVE MemoryInv'
    OBVIOUS
  <1>1. /\ MemoryTypeOK /\ SnapshotsHold /\ TableInv
        /\ rows \in Seq(RowType) /\ Ids = 1 .. Len(rows) /\ Len(rows) \in Nat
        /\ \A i \in Ids : rows[i] \in RowType
    BY DEF MemoryInv, TableInv, MemoryTypeOK, Ids
  <1>2. ASSUME UNCHANGED <<rows, origin, given, dropped, forgets>>,
               tx' \in [Procs -> TxType], SnapshotsHold', schema' \in {0, SchemaVersion},
               opened' \in [Procs -> {"closed", "migrating", "open", "disabled"}]
        PROVE  MemoryInv'
    <2>1. MemoryTypeOK'
      BY <1>1, <1>2 DEF MemoryTypeOK, TxType
    <2>2. TableInv'
      BY <1>1, <1>2, TableStays
    <2> QED
      BY <1>2, <2>1, <2>2 DEF MemoryInv, TableInv
  <1>3. ASSUME NEW p \in Procs, Commit(p) \/ Autocommit(p), UNCHANGED <<schema, opened>>,
               rows' \in Seq(RowType), origin' \in Seq(Nat \ {0}), Len(origin') = Len(rows'),
               TableInv', given' \subseteq (Nat \ {0}) \X Credits, dropped' \subseteq Nat \ {0},
               forgets' \in 0 .. MaxForgets
        PROVE  MemoryInv'
    <2>1. tx' \in [Procs -> TxType] /\ SnapshotsHold'
      BY <1>1, <1>3, CommitOvertakes
    <2>2. MemoryTypeOK'
      BY <1>1, <1>3, <2>1 DEF MemoryTypeOK, TxType
    <2> QED
      BY <1>3, <2>1, <2>2 DEF MemoryInv, TableInv
  <1>4. ASSUME NEW p \in Procs, ReadVersion(p) PROVE MemoryInv'
    <2>1. tx' \in [Procs -> TxType] /\ SnapshotsHold'
      BY <1>1, <1>4 DEF ReadVersion, MemoryTypeOK, TxType, SnapshotsHold, Ids
    <2> QED
      BY <1>1, <1>2, <1>4, <2>1 DEF ReadVersion, MemoryTypeOK
  <1>5. ASSUME NEW p \in Procs, Migrate(p) PROVE MemoryInv'
    <2>1. tx' \in [Procs -> TxType] /\ SnapshotsHold'
      BY <1>1, <1>5 DEF Migrate, MemoryTypeOK, TxType, SnapshotsHold, Ids
    <2> QED
      BY <1>1, <1>2, <1>5, <2>1 DEF Migrate, MemoryTypeOK
  <1>6. ASSUME NEW p \in Procs, Remember(p) PROVE MemoryInv'
    <2>1. /\ rows' = Append(rows, Row(1, 0, {})) /\ origin' = Append(origin, Len(rows) + 1)
          /\ UNCHANGED <<schema, opened, given, dropped, forgets>> /\ Autocommit(p)
      BY <1>6 DEF Remember, Insert
    <2>2. /\ rows' \in Seq(RowType) /\ origin' \in Seq(Nat \ {0})
          /\ Len(origin') = Len(rows') /\ TableInv'
      BY <1>1, <2>1, RowAdded
    <2> QED
      BY <1>1, <1>3, <2>1, <2>2 DEF MemoryTypeOK
  <1>7. ASSUME NEW p \in Procs, ReviseLoad(p) PROVE MemoryInv'
    <2>1. PICK id \in Ids : Active(rows[id]) /\ Begin(p, "revise", id)
      BY <1>7 DEF ReviseLoad
    <2>2. tx' \in [Procs -> TxType] /\ SnapshotsHold'
      BY <1>1, <1>7, <2>1, BeginKeeps DEF ReviseLoad
    <2> QED
      BY <1>1, <1>2, <1>7, <2>2 DEF ReviseLoad, MemoryTypeOK
  <1>8. ASSUME NEW p \in Procs, ReviseWrite(p) PROVE MemoryInv'
    <2> DEFINE id == tx[p].id
    <2>1. id \in Ids /\ tx[p].row = rows[id] /\ Active(rows[id])
      BY <1>1, <1>8 DEF ReviseWrite, Commit, SnapshotsHold
    <2>2. id # 0
      BY <1>1, <2>1
    <2>3. /\ rows' = Append([rows EXCEPT ![id].supersededBy = Len(rows) + 1],
                            VersionFrom(rows[id], id))
          /\ origin' = Append(origin, origin[id])
          /\ UNCHANGED <<schema, opened, given, dropped, forgets>> /\ Commit(p)
      BY <1>8, <2>1, <2>2 DEF ReviseWrite, Insert
    <2> HIDE DEF id
    <2>4. /\ rows' \in Seq(RowType) /\ origin' \in Seq(Nat \ {0})
          /\ Len(origin') = Len(rows') /\ TableInv'
      BY <1>1, <2>1, <2>3, RowRevised
    <2> QED
      BY <1>1, <1>3, <2>3, <2>4 DEF MemoryTypeOK
  <1>9. ASSUME NEW p \in Procs, ReinforceLoad(p) PROVE MemoryInv'
    <2>1. PICK id \in Ids : Begin(p, "reinforce", id)
      BY <1>9 DEF ReinforceLoad
    <2>2. tx' \in [Procs -> TxType] /\ SnapshotsHold'
      BY <1>1, <1>9, <2>1, BeginKeeps DEF ReinforceLoad
    <2> QED
      BY <1>1, <1>2, <1>9, <2>2 DEF ReinforceLoad, MemoryTypeOK
  <1>10. ASSUME NEW p \in Procs, ReinforceWrite(p) PROVE MemoryInv'
    <2> DEFINE id == tx[p].id
    <2>1. id \in Ids /\ tx[p].row = rows[id] /\ rows[id] \in RowType
      BY <1>1, <1>10 DEF ReinforceWrite, Commit, SnapshotsHold
    <2>2. PICK credit \in Credits :
            /\ rows' = [rows EXCEPT ![id].feedback = rows[id].feedback \cup {credit}]
            /\ given' = IF Latest(rows[id]) THEN given \cup {<<origin[id], credit>>} ELSE given
      BY <1>10, <2>1 DEF ReinforceWrite
    <2> DEFINE row == [rows[id] EXCEPT !.feedback = rows[id].feedback \cup {credit}]
    <2> HIDE DEF id
    <2>3. /\ row \in RowType /\ row.version = rows[id].version
          /\ row.supersedes = rows[id].supersedes /\ row.supersededBy = rows[id].supersededBy
          /\ row.feedback = rows[id].feedback \cup {credit} /\ row.forgotten = rows[id].forgotten
      BY <2>1 DEF RowType
    <2>4. rows' = [rows EXCEPT ![id] = row]
      BY <2>2
    <2>5. UNCHANGED <<schema, opened, origin, dropped, forgets>> /\ Commit(p)
      BY <1>10 DEF ReinforceWrite
    <2> HIDE DEF row
    <2>6. /\ \A g \in given' \ given : g[1] = origin[id] /\ g[2] \in row.feedback
          /\ rows[id].supersededBy # 0 => given' = given
      <3>1. CASE rows[id].supersededBy = 0
        <4>1. given' = given \cup {<<origin[id], credit>>}
          BY <2>2, <3>1 DEF Latest
        <4>2. credit \in row.feedback
          BY <2>3
        <4> QED
          BY <4>1, <4>2, <3>1
      <3>2. CASE rows[id].supersededBy # 0
        <4>1. given' = given
          BY <2>2, <3>2 DEF Latest
        <4> QED
          BY <4>1
      <3> QED
        BY <3>1, <3>2
    <2>7. rows' \in Seq(RowType) /\ Len(rows') = Len(rows) /\ TableInv'
      <3>1. /\ \A i \in dropped' \ dropped : i = origin[id] /\ row.forgotten
            /\ rows[id].supersededBy # 0 => dropped' = dropped
            /\ rows[id].feedback \subseteq row.feedback
            /\ rows[id].forgotten => row.forgotten
            /\ UNCHANGED origin
        BY <2>3, <2>5
      <3> QED
        BY <1>1, <2>1, <2>3, <2>4, <2>6, <3>1, RowWritten
    <2>8. given' \subseteq (Nat \ {0}) \X Credits
      BY <1>1, <2>1, <2>2 DEF MemoryTypeOK
    <2> QED
      BY <1>1, <1>3, <2>5, <2>7, <2>8 DEF MemoryTypeOK
  <1>11. ASSUME NEW p \in Procs, Rollback(p) PROVE MemoryInv'
    <2>1. tx' \in [Procs -> TxType] /\ SnapshotsHold'
      BY <1>1, <1>11, EndKeeps DEF Rollback
    <2> QED
      BY <1>1, <1>2, <1>11, <2>1 DEF Rollback, MemoryTypeOK
  <1>12. ASSUME NEW p \in Procs, Exit(p) PROVE MemoryInv'
    <2>1. tx' \in [Procs -> TxType] /\ SnapshotsHold'
      BY <1>1, <1>12, EndKeeps DEF Exit
    <2> QED
      BY <1>1, <1>2, <1>12, <2>1 DEF Exit, MemoryTypeOK
  <1>13. ASSUME NEW p \in Procs, Forget(p) PROVE MemoryInv'
    <2>1. PICK id \in Ids :
            /\ rows' = [rows EXCEPT ![id].forgotten = TRUE]
            /\ dropped' = IF Latest(rows[id]) THEN dropped \cup {origin[id]} ELSE dropped
      BY <1>13 DEF Forget
    <2> DEFINE row == [rows[id] EXCEPT !.forgotten = TRUE]
    <2>2. /\ row \in RowType /\ row.version = rows[id].version
          /\ row.supersedes = rows[id].supersedes /\ row.supersededBy = rows[id].supersededBy
          /\ row.feedback = rows[id].feedback /\ row.forgotten = TRUE
      BY <1>1 DEF RowType
    <2>3. rows' = [rows EXCEPT ![id] = row]
      BY <2>1
    <2>4. /\ UNCHANGED <<schema, opened, origin, given>> /\ Autocommit(p)
          /\ forgets' = forgets + 1 /\ forgets < MaxForgets
      BY <1>13 DEF Forget
    <2> HIDE DEF row
    <2>5. rows' \in Seq(RowType) /\ Len(rows') = Len(rows) /\ TableInv'
      <3>1. /\ \A g \in given' \ given : g[1] = origin[id] /\ g[2] \in row.feedback
            /\ rows[id].supersededBy # 0 => given' = given
            /\ rows[id].feedback \subseteq row.feedback
            /\ rows[id].forgotten => row.forgotten
            /\ UNCHANGED origin
        BY <2>2, <2>4
      <3>2. /\ \A i \in dropped' \ dropped : i = origin[id] /\ row.forgotten
            /\ rows[id].supersededBy # 0 => dropped' = dropped
        BY <2>1, <2>2 DEF Latest
      <3> QED
        BY <1>1, <2>2, <2>3, <2>4, <3>1, <3>2, RowWritten
    <2>6. dropped' \subseteq Nat \ {0} /\ forgets' \in 0 .. MaxForgets
      BY <1>1, <2>1, <2>4, BoundsAssumption DEF MemoryTypeOK
    <2> QED
      BY <1>1, <1>3, <2>4, <2>5, <2>6 DEF MemoryTypeOK
  <1>14. ASSUME NEW p \in Procs, RecordAccess(p) PROVE MemoryInv'
    <2>1. tx' \in [Procs -> TxType] /\ SnapshotsHold'
      BY <1>1, <1>14, CommitOvertakes DEF RecordAccess
    <2> QED
      BY <1>1, <1>2, <1>14, <2>1 DEF RecordAccess, MemoryTypeOK
  <1>15. CASE UNCHANGED memoryVars
    <2>1. tx' \in [Procs -> TxType] /\ SnapshotsHold'
      BY <1>1, <1>15 DEF memoryVars, MemoryTypeOK, TxType, SnapshotsHold, Ids
    <2> QED
      BY <1>1, <1>2, <1>15, <2>1 DEF memoryVars, MemoryTypeOK
  <1> QED
    BY <1>4, <1>5, <1>6, <1>7, <1>8, <1>9, <1>10, <1>11, <1>12, <1>13, <1>14, <1>15
       DEF MemoryNext

(***************************************************************************)
(* The inductive invariant of the memory.                                  *)
(***************************************************************************)
THEOREM MemoryHolds == MemorySpec => []MemoryInv
  BY InitMemory, StepMemory, PTL DEF MemorySpec

(***************************************************************************)
(* The versions of a memory are a line (Revise).                           *)
(***************************************************************************)
THEOREM VersionsAreLines == MemorySpec => []ChainsAreLines
  <1>1. MemoryInv => ChainsAreLines
    BY DEF MemoryInv
  <1> QED
    BY <1>1, MemoryHolds, PTL

(***************************************************************************)
(* Feedback for a current version is never lost (Reinforce, Revise).       *)
(***************************************************************************)
THEOREM FeedbackIsKept == MemorySpec => []FeedbackStays
  <1>1. MemoryInv => FeedbackStays
    BY DEF MemoryInv
  <1> QED
    BY <1>1, MemoryHolds, PTL

(***************************************************************************)
(* What was forgotten in its current version stays so (Forget, Revise).    *)
(***************************************************************************)
THEOREM ForgottenForGood == MemorySpec => []ForgottenStays
  <1>1. MemoryInv => ForgottenStays
    BY DEF MemoryInv
  <1> QED
    BY <1>1, MemoryHolds, PTL
=============================================================================
