---------------------------- MODULE SessionProofs ----------------------------
(***************************************************************************)
(* Proofs about what one session keeps, for any callers, files and bounds. *)
(*                                                                         *)
(* Workspace: an edit that somebody makes while no call is on the file is  *)
(* never overwritten unseen, and the session never refuses its own writes. *)
(* The first of the two needs FileFits: as long as such an edit is unread  *)
(* its time is after the recorded one, so that no call that would          *)
(* overwrite it gets past validateReadWriteSemantics, and an Edit that did *)
(* get past has loaded what it will replace.                               *)
(*                                                                         *)
(* MessageState: what was said is told to the model but for what a summary *)
(* or a client leaves out, each prompt of the running turn is the last of  *)
(* its kind, and the file keeps what was saved.                            *)
(* The invariant needs the shape of a conversation, Proper: compaction     *)
(* relies on its boundary being the first message, and that only old       *)
(* results are stubs rests on the order of the messages' turns, of which   *)
(* each user message opens a new one.  That no request divides a call from *)
(* its result needs PairsInv besides, and what the scan for a split counts *)
(* (NoCallLeft).                                                           *)
(***************************************************************************)
EXTENDS Workspace, MessageState, SequenceTheorems, FiniteSetTheorems,
        NaturalsInduction, WellFoundedInduction, TLAPS

\* What a call is about to do to a file whose content is somebody else's.
CallFits(r, f) ==
  r.at # "idle" /\ Head(r.todo) = f =>
    /\ r.at = "write" /\ r.tool \in Edits => r.got = disk[f].content
    /\ r.at = "write" /\ r.tool \notin Edits => "seen" \in marks[f]
    /\ r.at = "record" => "seen" \in marks[f]

\* Somebody else's edit is there, is newer than the recorded time until a
\* call has seen it, and no call under way overlooks it.
FileFits(f) ==
  "quiet" \in marks[f] =>
    /\ disk[f].content # 0
    /\ "seen" \notin marks[f] => readTime[f] < disk[f].modified
    /\ \A c \in Callers : CallFits(call[c], f)

\* No time is ahead of the clock.
PastTimes == \A f \in Files : disk[f].modified <= clock /\ readTime[f] <= clock

WorkInv == /\ WorkTypeOK /\ PastTimes /\ \A f \in Files : FileFits(f)
           /\ QuietEditSurvives /\ OwnWritesNeverRefuse

CallType == [tool : Tools, todo : Seq(Files), at : Places, got : Versions]
-----------------------------------------------------------------------------
\* At the start nothing is read, written or under way.
LEMMA InitWork == WorkInit => WorkInv
  <1> SUFFICES ASSUME WorkInit PROVE WorkInv
    OBVIOUS
  <1> USE FileToolsAssumption, WorkspaceAssumption
      DEF WorkInit, FilesInit, PlanInit, historyVars
  <1>1. NoCall \in CallType
    BY DEF NoCall, CallType, Tools, Places, Versions
  <1>2. WorkTypeOK
    BY <1>1 DEF WorkTypeOK, FilesTypeOK, PlanTypeOK, CallType, NoCall, At, Versions, Marks
  <1> QED
    BY <1>2 DEF WorkInv, PastTimes, FileFits, QuietEditSurvives, OwnWritesNeverRefuse

\* The types, as the steps below need them.
LEMMA WorkTypes ==
  ASSUME WorkTypeOK
  PROVE  /\ disk \in [Files -> [content : Versions, modified : 0 .. MaxClock]]
         /\ readTime \in [Files -> 0 .. MaxClock]
         /\ call \in [Callers -> CallType]
         /\ \A c \in Callers : call[c].at = "idle" <=> call[c].todo = <<>>
         /\ clock \in 1 .. MaxClock /\ clock \in Nat /\ versions \in Versions
         /\ begun \in 0 .. MaxCalls
         /\ marks \in [Files -> SUBSET Marks] /\ lost \subseteq Files
         /\ mode \in {"off", "active", "approved"}
  BY FileToolsAssumption DEF WorkTypeOK, FilesTypeOK, PlanTypeOK, CallType, At

\* A call under way has a file before it, and Rest takes it to the next.
LEMMA CallUnderWay ==
  ASSUME WorkTypeOK, NEW c \in Callers, ~At(c, "idle")
  PROVE  /\ File(c) \in Files
         /\ Rest(c) \in CallType
         /\ Rest(c).tool = call[c].tool
         /\ Rest(c).at \in {"idle", "validate"}
         /\ Rest(c).at = "idle" <=> Rest(c).todo = <<>>
  <1>1. call[c] \in CallType /\ call[c].todo # <<>>
    BY WorkTypes DEF At
  <1>2. call[c].todo \in Seq(Files) /\ call[c].tool \in Tools
    BY <1>1 DEF CallType
  <1>3. Head(call[c].todo) \in Files /\ Tail(call[c].todo) \in Seq(Files)
    BY <1>1, <1>2, HeadTailProperties
  <1> DEFINE next == IF Tail(call[c].todo) = <<>> THEN "idle" ELSE "validate"
  <1>4. Rest(c) = [NoCall EXCEPT !.tool = call[c].tool, !.todo = Tail(call[c].todo), !.at = next]
    BY DEF Rest
  <1>5. next \in {"idle", "validate"} /\ (next = "idle" <=> Tail(call[c].todo) = <<>>)
    OBVIOUS
  <1> HIDE DEF next
  <1>6. NoCall \in CallType
    BY FileToolsAssumption DEF NoCall, CallType, Tools, Places, Versions
  <1>7. next \in Places
    BY <1>5 DEF Places
  <1>8. /\ Rest(c).tool = call[c].tool /\ Rest(c).todo = Tail(call[c].todo) /\ Rest(c).at = next
        /\ Rest(c) \in CallType
    BY <1>2, <1>3, <1>4, <1>6, <1>7 DEF CallType
  <1> QED
    BY <1>3, <1>5, <1>8 DEF File

\* A step of one call that touches no file.
LEMMA CallMoves ==
  ASSUME WorkInv, NEW c \in Callers, NEW r \in CallType,
         r.at = "idle" <=> r.todo = <<>>,
         call' = [call EXCEPT ![c] = r],
         UNCHANGED <<disk, readTime, clock, versions, marks, lost, mode>>,
         begun' \in 0 .. MaxCalls,
         \A f \in Files : "quiet" \in marks[f] => CallFits(r, f)
  PROVE  WorkInv'
  <1>1. WorkTypeOK
    BY DEF WorkInv
  <1>2. call' \in [Callers -> CallType] /\ call'[c] = r
        /\ \A d \in Callers : d # c => call'[d] = call[d]
    BY <1>1, WorkTypes
  <1>3. WorkTypeOK'
    BY <1>1, <1>2 DEF WorkTypeOK, FilesTypeOK, PlanTypeOK, CallType, At
  <1>4. \A f \in Files : FileFits(f)'
    BY <1>2 DEF WorkInv, FileFits, CallFits
  <1> QED
    BY <1>3, <1>4
    DEF WorkInv, PastTimes, QuietEditSurvives, OwnWritesNeverRefuse, Unchanged

\* An error ends the file's turn in the call (handleEnhancedEdit).
LEMMA GivesUpKeeps ==
  ASSUME WorkInv, NEW c \in Callers, ~At(c, "idle"), GivesUp(c), UNCHANGED mode
  PROVE  WorkInv'
  <1>1. WorkTypeOK /\ begun \in 0 .. MaxCalls
    BY WorkTypes DEF WorkInv
  <1>2. \A f \in Files : CallFits(Rest(c), f)
    BY <1>1, CallUnderWay DEF CallFits
  <1> QED
    BY <1>1, <1>2, CallUnderWay, CallMoves DEF GivesUp, historyVars

\* What Goes makes of a call.
LEMMA GoesOn ==
  ASSUME WorkTypeOK, NEW c \in Callers, NEW place \in Places \ {"idle"}, NEW version \in Versions,
         ~At(c, "idle"), Goes(c, place, version)
  PROVE  \E r \in CallType :
           /\ call' = [call EXCEPT ![c] = r]
           /\ r.tool = call[c].tool /\ r.todo = call[c].todo /\ r.todo # <<>>
           /\ r.at = place /\ r.got = version
  <1>1. call[c] \in CallType /\ call[c].todo # <<>> /\ c \in DOMAIN call
    BY WorkTypes DEF At
  <1> DEFINE r == [call[c] EXCEPT !.at = place, !.got = version]
  <1>2. call' = [call EXCEPT ![c] = r]
    BY <1>1 DEF Goes
  <1>3. /\ r \in CallType /\ r.tool = call[c].tool /\ r.todo = call[c].todo
        /\ r.at = place /\ r.got = version
    BY <1>1 DEF CallType
  <1> QED
    BY <1>1, <1>2, <1>3

\* Stat and validation (handleWriteFile, validateReadWriteSemantics): the call
\* goes on to write only a file that is not there or has been seen.
LEMMA ChecksKeep ==
  ASSUME WorkInv, NEW c \in Callers, StatFile(c) \/ Validate(c), UNCHANGED mode
  PROVE  WorkInv'
  <1>1. WorkTypeOK /\ ~At(c, "idle") /\ begun \in 0 .. MaxCalls
    BY WorkTypes DEF WorkInv, StatFile, Validate, At
  <1>2. 0 \in Versions /\ File(c) \in Files
    BY <1>1, CallUnderWay, FileToolsAssumption DEF Versions
  <1>3. CASE GivesUp(c)
    BY <1>1, <1>3, GivesUpKeeps
  <1>4. CASE ~GivesUp(c)
    <2>1. PICK place \in {"write", "validate", "load"} :
            /\ Goes(c, place, 0)
            /\ UNCHANGED <<disk, readTime, clock, historyVars>>
            /\ place = "write" =>
                 disk[File(c)].content = 0 \/ (Unchanged(File(c)) /\ call[c].tool = "Write")
      <3>1. CASE StatFile(c) /\ disk[File(c)].content = 0
        BY <1>4, <3>1 DEF StatFile
      <3>2. CASE StatFile(c) /\ disk[File(c)].content # 0
        BY <1>4, <3>2 DEF StatFile
      <3>3. CASE Validate(c) /\ call[c].tool = "Write"
        BY <1>4, <3>3 DEF Validate
      <3>4. CASE Validate(c) /\ call[c].tool # "Write"
        BY <1>4, <3>4 DEF Validate
      <3> QED
        BY <3>1, <3>2, <3>3, <3>4
    <2>2. place \in Places \ {"idle"}
      BY DEF Places
    <2>3. PICK r \in CallType :
            /\ call' = [call EXCEPT ![c] = r]
            /\ r.tool = call[c].tool /\ r.todo = call[c].todo /\ r.todo # <<>>
            /\ r.at = place /\ r.got = 0
      BY <1>1, <1>2, <2>1, <2>2, GoesOn
    <2>4. ASSUME NEW f \in Files, "quiet" \in marks[f]
          PROVE  CallFits(r, f)
      <3>1. FileFits(f)
        BY DEF WorkInv
      <3>2. f = File(c) /\ place = "write" => "seen" \in marks[f] /\ call[c].tool = "Write"
        <4> SUFFICES ASSUME f = File(c), place = "write"
                     PROVE  "seen" \in marks[f] /\ call[c].tool = "Write"
          OBVIOUS
        <4>1. disk[f].content # 0 /\ ("seen" \notin marks[f] => readTime[f] < disk[f].modified)
          BY <2>4, <3>1 DEF FileFits
        <4>2. disk[f].modified <= readTime[f] /\ call[c].tool = "Write"
          BY <2>1, <4>1 DEF Unchanged
        <4>3. disk[f].modified \in Nat /\ readTime[f] \in Nat
          BY <1>1, WorkTypes, FileToolsAssumption
        <4> QED
          BY <4>1, <4>2, <4>3
      <3> QED
        BY <2>1, <2>3, <3>2 DEF CallFits, File, Edits
    <2>5. r.at = "idle" <=> r.todo = <<>>
      BY <2>2, <2>3
    <2> QED
      BY <1>1, <2>1, <2>3, <2>4, <2>5, CallMoves DEF historyVars
  <1> QED
    BY <1>3, <1>4

\* ReadFile (handleRead, handleEnhancedEdit): what is there has been seen.
LEMMA LoadKeeps ==
  ASSUME WorkInv, NEW c \in Callers, Load(c), UNCHANGED mode
  PROVE  WorkInv'
  <1>1. WorkTypeOK /\ ~At(c, "idle")
    BY DEF WorkInv, Load, At
  <1>2. CASE GivesUp(c)
    BY <1>1, <1>2, GivesUpKeeps
  <1>3. CASE ~GivesUp(c)
    <2> DEFINE version == disk[File(c)].content
               place == IF call[c].tool = "Read" THEN "record" ELSE "write"
    <2>1. /\ Goes(c, place, version)
          /\ marks' = [marks EXCEPT ![File(c)] = IF version = 0 THEN @ ELSE @ \cup {"seen"}]
          /\ UNCHANGED <<disk, readTime, clock, versions, begun, lost>>
      BY <1>3 DEF Load
    <2>2. place \in Places \ {"idle"} /\ version \in Versions /\ File(c) \in Files
      BY <1>1, CallUnderWay, WorkTypes DEF Places
    <2>3. PICK r \in CallType :
            /\ call' = [call EXCEPT ![c] = r]
            /\ r.tool = call[c].tool /\ r.todo = call[c].todo /\ r.todo # <<>>
            /\ r.at = place /\ r.got = version
      BY <1>1, <2>1, <2>2, GoesOn
    <2>4. /\ call' \in [Callers -> CallType] /\ call'[c] = r
          /\ \A d \in Callers : d # c => call'[d] = call[d]
      BY <1>1, <2>3, WorkTypes
    <2>5. /\ marks' \in [Files -> SUBSET Marks]
          /\ \A f \in Files : /\ marks'[f] \in {marks[f], marks[f] \cup {"seen"}}
                              /\ f = File(c) /\ version # 0 => "seen" \in marks'[f]
      BY <1>1, <2>1, <2>2, WorkTypes DEF Marks
    <2>6. WorkTypeOK'
      <3>1. \A d \in Callers : call'[d].at = "idle" <=> call'[d].todo = <<>>
        BY <1>1, <2>2, <2>3, <2>4, WorkTypes
      <3> QED
        BY <1>1, <2>1, <2>4, <2>5, <3>1 DEF WorkTypeOK, FilesTypeOK, PlanTypeOK, CallType, At
    <2>7. ASSUME NEW f \in Files, "quiet" \in marks'[f]
          PROVE  FileFits(f)'
      <3>1. "quiet" \in marks[f] /\ FileFits(f)
        BY <2>5, <2>7 DEF WorkInv
      <3>2. CallFits(r, f)'
        BY <2>1, <2>3, <2>5, <3>1 DEF CallFits, FileFits, File, Edits
      <3>3. \A d \in Callers : d # c => CallFits(call[d], f)'
        BY <2>1, <2>4, <2>5, <3>1 DEF CallFits, FileFits
      <3> QED
        BY <2>1, <2>4, <2>5, <3>1, <3>2, <3>3 DEF FileFits, CallFits
    <2>8. OwnWritesNeverRefuse'
      BY <2>1, <2>5 DEF WorkInv, OwnWritesNeverRefuse, Unchanged
    <2> QED
      BY <2>1, <2>6, <2>7, <2>8 DEF WorkInv, PastTimes, QuietEditSurvives, FileFits
  <1> QED
    BY <1>2, <1>3

\* The parts of the invariant about files, when one file's content is new:
\* quiet only if it is newer than the recorded time and no call is on the file.
LEMMA ContentIsNew ==
  ASSUME WorkInv, NEW g \in Files, NEW time \in 1 .. MaxClock, time <= clock,
         NEW what \in SUBSET {"quiet", "seen"},
         Puts(g, time, what), UNCHANGED <<readTime, clock>>,
         NEW c \in Callers, NEW r \in CallType, call' = [call EXCEPT ![c] = r],
         \A f \in Files \ {g} : "quiet" \in marks[f] => CallFits(r, f),
         "quiet" \in what => /\ readTime[g] < time
                            /\ \A d \in Callers : call'[d].at # "idle" => Head(call'[d].todo) # g
  PROVE  /\ disk' \in [Files -> [content : Versions, modified : 0 .. MaxClock]]
         /\ marks' \in [Files -> SUBSET Marks] /\ versions' \in Versions
         /\ PastTimes' /\ OwnWritesNeverRefuse' /\ \A f \in Files : FileFits(f)'
  <1>1. WorkTypeOK
    BY DEF WorkInv
  <1> USE FileToolsAssumption
  <1>2. versions \in Nat /\ versions + 1 \in Versions /\ versions + 1 # 0 /\ time \in Nat
    BY <1>1, WorkTypes DEF Puts, Versions
  <1>3. /\ disk' \in [Files -> [content : Versions, modified : 0 .. MaxClock]]
        /\ disk'[g].content # 0 /\ disk'[g].modified = time
        /\ \A f \in Files \ {g} : disk'[f] = disk[f]
    BY <1>1, <1>2, WorkTypes DEF Puts
  <1>4. /\ marks' \in [Files -> SUBSET Marks] /\ marks'[g] = what
        /\ \A f \in Files \ {g} : marks'[f] = marks[f]
    BY <1>1, WorkTypes DEF Puts, Marks
  <1>5. /\ call'[c] = r
        /\ \A d \in Callers : d # c => call'[d] = call[d]
    BY <1>1, WorkTypes
  <1>6. PastTimes'
    BY <1>2, <1>3 DEF WorkInv, PastTimes
  <1>7. OwnWritesNeverRefuse'
    BY <1>3, <1>4 DEF WorkInv, OwnWritesNeverRefuse, Unchanged
  <1>8. ASSUME NEW f \in Files, "quiet" \in marks'[f]
        PROVE  FileFits(f)'
    <2>1. CASE f = g
      <3>1. readTime[g] < time /\ \A d \in Callers : CallFits(call[d], g)'
        BY <1>4, <1>8, <2>1 DEF CallFits
      <3> QED
        BY <1>3, <2>1, <3>1 DEF FileFits
    <2>2. CASE f # g
      <3>1. "quiet" \in marks[f] /\ FileFits(f) /\ CallFits(r, f)
        BY <1>4, <1>8, <2>2 DEF WorkInv
      <3> QED
        BY <1>3, <1>4, <1>5, <2>2, <3>1 DEF FileFits, CallFits
    <2> QED
      BY <2>1, <2>2
  <1> QED
    BY <1>2, <1>3, <1>4, <1>6, <1>7, <1>8 DEF FileFits, Puts

\* WriteFile (handleWriteFile, handleEnhancedEdit): whoever writes has seen
\* what is there, or it is nobody's edit.
LEMMA WriteBackKeeps ==
  ASSUME WorkInv, NEW c \in Callers, WriteBack(c), UNCHANGED mode
  PROVE  WorkInv'
  <1>1. WorkTypeOK /\ ~At(c, "idle")
    BY DEF WorkInv, WriteBack, At
  <1>2. CASE GivesUp(c)
    BY <1>1, <1>2, GivesUpKeeps
  <1>3. CASE ~GivesUp(c)
    <2> USE FileToolsAssumption
    <2>1. File(c) \in Files /\ clock \in 1 .. MaxClock /\ clock <= clock
      BY <1>1, CallUnderWay, WorkTypes
    <2>2. UNCHANGED <<readTime, clock, begun>>
      BY <1>3 DEF WriteBack
    <2>3. PICK what \in SUBSET {"quiet", "seen"}, r \in CallType :
            /\ Puts(File(c), clock, what) /\ what \subseteq {"seen"}
            /\ call' = [call EXCEPT ![c] = r]
            /\ r.tool = call[c].tool /\ (r.at = "idle" <=> r.todo = <<>>)
            /\ (r.at = "record" /\ Head(r.todo) = File(c)) \/ r.at \in {"idle", "validate"}
      <3>1. CASE Puts(File(c), clock, {"seen"}) /\ Goes(c, "record", versions + 1)
        <4>1. versions + 1 \in Versions /\ "record" \in Places \ {"idle"}
          BY <1>1, <3>1, WorkTypes DEF Puts, Versions, Places
        <4>2. PICK r \in CallType :
                /\ call' = [call EXCEPT ![c] = r]
                /\ r.tool = call[c].tool /\ r.todo = call[c].todo /\ r.todo # <<>>
                /\ r.at = "record"
          BY <1>1, <3>1, <4>1, GoesOn
        <4>3. r.at # "idle" /\ Head(r.todo) = File(c)
          BY <4>2 DEF File
        <4> QED
          BY <3>1, <4>2, <4>3
      <3>2. CASE Puts(File(c), clock, {}) /\ call' = [call EXCEPT ![c] = Rest(c)]
        <4>1. /\ Rest(c) \in CallType /\ Rest(c).tool = call[c].tool
              /\ Rest(c).at \in {"idle", "validate"} /\ (Rest(c).at = "idle" <=> Rest(c).todo = <<>>)
          BY <1>1, CallUnderWay
        <4>2. {} \in SUBSET {"quiet", "seen"} /\ {} \subseteq {"seen"}
          OBVIOUS
        <4> QED
          BY <3>2, <4>1, <4>2
      <3> QED
        BY <1>3, <3>1, <3>2 DEF WriteBack
    <2>4. \A f \in Files \ {File(c)} : "quiet" \in marks[f] => CallFits(r, f)
      BY <2>3 DEF CallFits
    <2>5. /\ disk' \in [Files -> [content : Versions, modified : 0 .. MaxClock]]
          /\ marks' \in [Files -> SUBSET Marks] /\ versions' \in Versions
          /\ PastTimes' /\ OwnWritesNeverRefuse' /\ \A f \in Files : FileFits(f)'
      <3> "quiet" \notin what
        BY <2>3
      <3> QED
        BY <2>1, <2>2, <2>3, <2>4, ContentIsNew
    <2>6. lost' = {}
      <3>1. FileFits(File(c)) /\ lost = {}
        BY <2>1 DEF WorkInv, QuietEditSurvives
      <3>2. "quiet" \in marks[File(c)] => CallFits(call[c], File(c))
        BY <3>1 DEF FileFits
      <3>3. ~("quiet" \in marks[File(c)] /\ Overlooks(c))
        BY <1>1, <3>2 DEF CallFits, Overlooks, WriteBack, At, File
      <3> QED
        BY <1>3, <3>1, <3>3 DEF WriteBack
    <2>7. /\ call' \in [Callers -> CallType] /\ call'[c] = r
          /\ \A d \in Callers : d # c => call'[d] = call[d]
      BY <1>1, <2>3, WorkTypes
    <2>8. WorkTypeOK'
      BY <1>1, <2>2, <2>3, <2>5, <2>6, <2>7 DEF WorkTypeOK, FilesTypeOK, PlanTypeOK, CallType, At
    <2> QED
      BY <2>5, <2>6, <2>8 DEF WorkInv, QuietEditSurvives
  <1> QED
    BY <1>2, <1>3

\* recordFileRead: what is recorded as read has been seen, and the clock is
\* not behind any file.
LEMMA RecordKeeps ==
  ASSUME WorkInv, NEW c \in Callers, Record(c), UNCHANGED mode
  PROVE  WorkInv'
  <1>1. WorkTypeOK /\ ~At(c, "idle")
    BY DEF WorkInv, Record, At
  <1> USE FileToolsAssumption
  <1>2. /\ File(c) \in Files /\ clock \in 1 .. MaxClock /\ clock \in 0 .. MaxClock /\ clock # 0
        /\ Rest(c) \in CallType /\ Rest(c).tool = call[c].tool
        /\ Rest(c).at \in {"idle", "validate"} /\ (Rest(c).at = "idle" <=> Rest(c).todo = <<>>)
    BY <1>1, CallUnderWay, WorkTypes
  <1>3. /\ call' \in [Callers -> CallType] /\ call'[c] = Rest(c)
        /\ \A d \in Callers : d # c => call'[d] = call[d]
    BY <1>1, <1>2, WorkTypes DEF Record
  <1>4. /\ readTime' \in [Files -> 0 .. MaxClock] /\ readTime'[File(c)] = clock
        /\ \A f \in Files \ {File(c)} : readTime'[f] = readTime[f]
    BY <1>1, <1>2, WorkTypes DEF Record
  <1>5. /\ marks' \in [Files -> SUBSET Marks]
        /\ marks'[File(c)] \in {marks[File(c)], marks[File(c)] \cup {"settled"}}
        /\ \A f \in Files \ {File(c)} : marks'[f] = marks[f]
    BY <1>1, <1>2, WorkTypes DEF Record, Settles, Marks
  <1>6. UNCHANGED <<disk, clock, versions, begun, lost>>
    BY DEF Record
  <1>7. WorkTypeOK'
    <2>1. \A d \in Callers : (call'[d].at = "idle" <=> call'[d].todo = <<>>)
      BY <1>1, <1>2, <1>3, WorkTypes
    <2>2. /\ disk' \in [Files -> [content : Versions, modified : 0 .. MaxClock]]
          /\ clock' \in 1 .. MaxClock /\ versions' \in Versions
          /\ begun' \in 0 .. MaxCalls /\ lost' \subseteq Files
          /\ mode' \in {"off", "active", "approved"}
      BY <1>1, <1>2, <1>6, WorkTypes
    <2> QED
      BY <1>3, <1>4, <1>5, <2>1, <2>2 DEF WorkTypeOK, FilesTypeOK, PlanTypeOK, CallType, At
  <1>8. PastTimes'
    BY <1>2, <1>4, <1>6 DEF WorkInv, PastTimes
  <1>9. OwnWritesNeverRefuse'
    BY <1>2, <1>4, <1>5, <1>6 DEF WorkInv, PastTimes, OwnWritesNeverRefuse, Unchanged
  <1>10. ASSUME NEW f \in Files, "quiet" \in marks'[f]
         PROVE  FileFits(f)'
    <2>1. "quiet" \in marks[f] /\ FileFits(f) /\ ("seen" \in marks[f] <=> "seen" \in marks'[f])
      BY <1>2, <1>5, <1>10 DEF WorkInv
    <2>2. f = File(c) => "seen" \in marks[f]
      BY <1>1, <2>1 DEF FileFits, CallFits, Record, At, File
    <2>3. CallFits(call[c], f)'
      BY <1>2, <1>3 DEF CallFits
    <2>4. \A d \in Callers : d # c => CallFits(call[d], f)'
      BY <1>3, <1>6, <2>1 DEF FileFits, CallFits
    <2> QED
      <3>1. disk'[f].content # 0
        BY <1>6, <2>1 DEF FileFits
      <3>2. "seen" \notin marks'[f] => readTime'[f] < disk'[f].modified
        BY <1>2, <1>4, <1>6, <2>1, <2>2 DEF FileFits
      <3> QED
        BY <2>3, <2>4, <3>1, <3>2 DEF FileFits
  <1> QED
    BY <1>6, <1>7, <1>8, <1>9, <1>10 DEF WorkInv, QuietEditSurvives, FileFits

\* A call begins at the first place of its tool (PlanModeGuard.CallTool).
LEMMA CallToolKeeps ==
  ASSUME WorkInv, NEW c \in Callers, NEW tool \in Tools, CallTool(c, tool)
  PROVE  WorkInv'
  <1>1. WorkTypeOK /\ begun' \in 0 .. MaxCalls
    BY WorkTypes, FileToolsAssumption DEF WorkInv, CallTool, Begin, Counts
  <1>2. PICK files \in FilesFor(tool) : Begin(c, tool, files)
    BY DEF CallTool
  <1>3. files \in Seq(Files)
    <2>1. \A f \in Files : <<f>> \in Seq(Files)
      OBVIOUS
    <2>2. CASE tool = "MultiEdit"
      BY <2>2, WorkspaceAssumption DEF FilesFor
    <2>3. CASE tool # "MultiEdit"
      BY <2>1, <2>3 DEF FilesFor
    <2> QED
      BY <2>2, <2>3
  <1> DEFINE r == [tool |-> tool, todo |-> files, at |-> FirstPlace(tool), got |-> 0]
  <1>4. FirstPlace(tool) \in {"load", "stat", "validate"}
    BY DEF FirstPlace, Tools, Edits
  <1>5. r \in CallType
    BY <1>3, <1>4, FileToolsAssumption DEF CallType, Places, Versions
  <1>6. /\ call' = [call EXCEPT ![c] = r] /\ (r.at = "idle" <=> r.todo = <<>>)
        /\ UNCHANGED <<disk, readTime, clock, versions, marks, lost, mode>>
    BY <1>2, <1>4 DEF Begin, CallTool
  <1>7. \A f \in Files : "quiet" \in marks[f] => CallFits(r, f)
    BY <1>4 DEF CallFits
  <1> HIDE DEF r
  <1> QED
    BY <1>1, <1>5, <1>6, <1>7, CallMoves

\* EnterPlanMode, ExitPlanMode and the start of a turn touch no file.
LEMMA PlanKeeps ==
  ASSUME WorkInv, (\E c \in Callers : PlanTool(c)) \/ NewTurn
  PROVE  WorkInv'
  <1>1. WorkTypeOK
    BY DEF WorkInv
  <1>2. /\ UNCHANGED <<disk, readTime, call, clock, versions, marks, lost>>
        /\ begun' \in 0 .. MaxCalls
    BY <1>1, WorkTypes, FileToolsAssumption DEF PlanTool, NewTurn, Counts, fileVars, historyVars
  <1>3. mode' \in {"off", "active", "approved"}
    BY <1>1, WorkTypes, WorkspaceAssumption
    DEF PlanTool, NewTurn, EnterPlanMode, ExitPlanMode, ResetPlan
  <1>4. WorkTypeOK'
    BY <1>1, <1>2, <1>3 DEF WorkTypeOK, FilesTypeOK, PlanTypeOK, At
  <1> QED
    BY <1>2, <1>4
    DEF WorkInv, PastTimes, FileFits, CallFits, QuietEditSurvives, OwnWritesNeverRefuse, Unchanged

\* Whatever others do to the files.
LEMMA OutsideKeeps ==
  ASSUME WorkInv, Outside, UNCHANGED mode
  PROVE  WorkInv'
  <1>1. WorkTypeOK
    BY DEF WorkInv
  <1> USE FileToolsAssumption
  <1>2. ASSUME NEW f \in Files, SaveOutside(f)
        PROVE  WorkInv'
    <2>1. PICK time \in {1, clock} :
            Puts(f, time, IF time > readTime[f] /\ \A c \in Callers : ~UsedBy(c, f)
                          THEN {"quiet"} ELSE {})
      BY <1>2 DEF SaveOutside
    <2>2. UNCHANGED <<readTime, call, clock, begun, lost>>
      BY <1>2 DEF SaveOutside
    <2> DEFINE what == IF time > readTime[f] /\ \A c \in Callers : ~UsedBy(c, f)
                       THEN {"quiet"} ELSE {}
    <2>3. time \in 1 .. MaxClock /\ time <= clock /\ what \in SUBSET {"quiet", "seen"}
      BY <1>1, WorkTypes
    <2>4. ASSUME "quiet" \in what
          PROVE  /\ readTime[f] < time
                 /\ \A d \in Callers : call'[d].at # "idle" => Head(call'[d].todo) # f
      <3>1. readTime[f] < time /\ \A d \in Callers : ~UsedBy(d, f)
        BY <1>1, <2>3, <2>4, WorkTypes
      <3>2. ASSUME NEW d \in Callers, call[d].at # "idle"
            PROVE  Head(call[d].todo) # f
        <4>1. call[d].todo \in Seq(Files) /\ call[d].todo # <<>>
          BY <1>1, <3>2, WorkTypes DEF CallType
        <4>2. Head(call[d].todo) = call[d].todo[1] /\ 1 \in DOMAIN call[d].todo
          BY <4>1
        <4>3. f \notin ToSet(call[d].todo)
          BY <3>1, <3>2 DEF UsedBy, At
        <4> QED
          BY <4>2, <4>3 DEF ToSet
      <3> QED
        BY <2>2, <3>1, <3>2
    <2> HIDE DEF what
    <2>5. /\ call[Turn] \in CallType /\ call' = [call EXCEPT ![Turn] = call[Turn]]
          /\ Turn \in Callers
      BY <1>1, <2>2, WorkTypes, WorkspaceAssumption
    <2>6. \A g \in Files \ {f} : "quiet" \in marks[g] => CallFits(call[Turn], g)
      BY WorkspaceAssumption DEF WorkInv, FileFits
    <2>7. Puts(f, time, what)
      BY <2>1 DEF what
    <2>8. /\ disk' \in [Files -> [content : Versions, modified : 0 .. MaxClock]]
          /\ marks' \in [Files -> SUBSET Marks] /\ versions' \in Versions
          /\ PastTimes' /\ OwnWritesNeverRefuse' /\ \A g \in Files : FileFits(g)'
      BY <2>2, <2>3, <2>4, <2>5, <2>6, <2>7, ContentIsNew
    <2>9. WorkTypeOK'
      BY <1>1, <2>2, <2>8 DEF WorkTypeOK, FilesTypeOK, PlanTypeOK, At
    <2> QED
      BY <2>2, <2>8, <2>9 DEF WorkInv, QuietEditSurvives
  <1>3. ASSUME NEW f \in Files, RemoveOutside(f)
        PROVE  WorkInv'
    <2>1. UNCHANGED <<readTime, call, clock, versions, begun, lost>>
      BY <1>3 DEF RemoveOutside
    <2>2. /\ disk' \in [Files -> [content : Versions, modified : 0 .. MaxClock]]
          /\ disk'[f].content = 0 /\ disk'[f].modified = 0
          /\ \A g \in Files \ {f} : disk'[g] = disk[g]
      BY <1>1, <1>3, WorkTypes DEF RemoveOutside, Versions
    <2>3. /\ marks' \in [Files -> SUBSET Marks] /\ marks'[f] = {}
          /\ \A g \in Files \ {f} : marks'[g] = marks[g]
      BY <1>1, <1>3, WorkTypes DEF RemoveOutside
    <2>4. WorkTypeOK'
      BY <1>1, <2>1, <2>2, <2>3 DEF WorkTypeOK, FilesTypeOK, PlanTypeOK, At
    <2>5. PastTimes'
      BY <1>1, <2>1, <2>2, WorkTypes DEF WorkInv, PastTimes
    <2>6. \A g \in Files : FileFits(g)'
      BY <2>1, <2>2, <2>3 DEF WorkInv, FileFits, CallFits
    <2>7. OwnWritesNeverRefuse'
      BY <2>1, <2>2, <2>3 DEF WorkInv, OwnWritesNeverRefuse, Unchanged
    <2> QED
      BY <2>1, <2>4, <2>5, <2>6, <2>7 DEF WorkInv, QuietEditSurvives
  <1>4. CASE Tick
    <2>1. UNCHANGED <<disk, readTime, call, versions, begun, marks, lost>>
      BY <1>4 DEF Tick, historyVars
    <2>2. clock \in Nat /\ clock' \in 1 .. MaxClock /\ clock' = clock + 1
      BY <1>1, <1>4, WorkTypes DEF Tick
    <2>3. WorkTypeOK'
      BY <1>1, <2>1, <2>2 DEF WorkTypeOK, FilesTypeOK, PlanTypeOK, At
    <2>4. PastTimes'
      BY <1>1, <2>1, <2>2, WorkTypes DEF WorkInv, PastTimes
    <2> QED
      BY <2>1, <2>3, <2>4
      DEF WorkInv, FileFits, CallFits, QuietEditSurvives, OwnWritesNeverRefuse, Unchanged
  <1> QED
    BY <1>2, <1>3, <1>4 DEF Outside
-----------------------------------------------------------------------------
LEMMA WorkStep == WorkInv /\ [WorkNext]_workVars => WorkInv'
  <1> SUFFICES ASSUME WorkInv, [WorkNext]_workVars PROVE WorkInv'
    OBVIOUS
  <1>1. ASSUME NEW c \in Callers, NEW tool \in Tools, CallTool(c, tool) PROVE WorkInv'
    BY <1>1, CallToolKeeps
  <1>2. ASSUME NEW c \in Callers, CallStep(c), UNCHANGED mode PROVE WorkInv'
    <2>1. CASE Deny(c)
      BY <1>2, <2>1, GivesUpKeeps DEF Deny
    <2>2. CASE StatFile(c) \/ Validate(c)
      BY <1>2, <2>2, ChecksKeep
    <2>3. CASE Load(c)
      BY <1>2, <2>3, LoadKeeps
    <2>4. CASE WriteBack(c)
      BY <1>2, <2>4, WriteBackKeeps
    <2>5. CASE Record(c)
      BY <1>2, <2>5, RecordKeeps
    <2> QED
      BY <1>2, <2>1, <2>2, <2>3, <2>4, <2>5 DEF CallStep
  <1>3. ASSUME Outside, UNCHANGED mode PROVE WorkInv'
    BY <1>3, OutsideKeeps
  <1>4. CASE UNCHANGED workVars
    BY <1>4
    DEF workVars, fileVars, historyVars, WorkInv, WorkTypeOK, FilesTypeOK, PlanTypeOK, PastTimes,
      FileFits, CallFits, QuietEditSurvives, OwnWritesNeverRefuse, Unchanged, At
  <1> QED
    BY <1>1, <1>2, <1>3, <1>4, PlanKeeps DEF WorkNext

LEMMA WorkHolds == WorkSpec => []WorkInv
  BY InitWork, WorkStep, PTL DEF WorkSpec

\* The variables of the file tools and of plan mode keep their types.
THEOREM WorkspaceTypes == WorkSpec => []WorkTypeOK
  <1>1. WorkInv => WorkTypeOK
    BY DEF WorkInv
  <1> QED
    BY <1>1, WorkHolds, PTL

\* However the calls of a turn and of its subagents overlap with one another
\* and with the edits of others, an edit made while no call was on its file is
\* not overwritten before somebody in the session has read it
\* (validateReadWriteSemantics, recordFileRead).
THEOREM QuietEditsSurvive == WorkSpec => []QuietEditSurvives
  <1>1. WorkInv => QuietEditSurvives
    BY DEF WorkInv
  <1> QED
    BY <1>1, WorkHolds, PTL

\* What a call has written and recorded is never refused to the session's next
\* call as somebody else's (handleWriteFile, handleEnhancedEdit).
THEOREM OwnWritesAreKnown == WorkSpec => []OwnWritesNeverRefuse
  <1>1. WorkInv => OwnWritesNeverRefuse
    BY DEF WorkInv
  <1> QED
    BY <1>1, WorkHolds, PTL
-----------------------------------------------------------------------------
\* What holds of a conversation in its turn t: the turns of its messages
\* follow one another, each user message opens a new one, only the first
\* message can be a boundary, and what is stubbed is old.
Proper(ms, t) ==
  /\ \A i, j \in DOMAIN ms :
       i < j /\ ~IsSystem(ms[i]) /\ ~IsSystem(ms[j]) =>
         /\ ms[i].turn <= ms[j].turn
         /\ IsUser(ms[j]) => ms[i].turn < ms[j].turn
  /\ \A i \in DOMAIN ms : /\ ms[i].turn <= t
                          /\ ms[i].kind = "boundary" => i = 1
                          /\ ms[i].kind = "stub" => ms[i].turn <= t - KeepTurns

\* No message is of the turn t.
Before(ms, t) == \A i \in DOMAIN ms : IsSystem(ms[i]) \/ ms[i].turn < t

\* What was said is still told.
SaidIsTold ==
  /\ at # "down" => added \subseteq Carried(messages)
  /\ at \in {"opening", "in"} /\ ~compacted => Carried(opening) \subseteq Carried(messages)

\* The turn's prompts are the last ones from the moment it opens.
OpeningIsLast ==
  at \in {"opening", "in"} => \A p \in DOMAIN opening : LastIs(messages, opening[p])

StateInv == /\ TypeOK /\ Proper(messages, turn) /\ (Stores(file) => Proper(file[2], turn))
            /\ (at = "opening" => Before(messages, turn) /\ Fits(1))
            /\ (at = "down" => restarts < Restarts)
            /\ SaidIsTold /\ OpeningIsLast /\ SavedStays
-----------------------------------------------------------------------------
\* The greatest of a set of positions.
LEMMA LastOfPositions ==
  ASSUME NEW n \in Nat, NEW S, S \subseteq 0 .. n, S # {}
  PROVE  /\ (CHOOSE i \in S : \A j \in S : j <= i) \in S
         /\ \A j \in S : j <= (CHOOSE i \in S : \A k \in S : k <= i)
  <1> DEFINE T == {n - i : i \in S}
  <1>1. T \subseteq Nat /\ T # {}
    OBVIOUS
  <1>2. PICK x \in T : \A y \in T : ~(<<y, x>> \in OpToRel(<, Nat))
    <2> HIDE DEF T
    <2> QED
      BY <1>1, NatLessThanWellFounded, WFMin, Zenon
  <1>3. \A y \in T : ~(y < x)
    <2> HIDE DEF T
    <2>1. \A y \in T : y \in Nat /\ x \in Nat
      BY <1>1
    <2> QED
      BY <1>2, <2>1, Zenon DEF OpToRel
  <1>4. PICK m \in S : x = n - m
    OBVIOUS
  <1>5. ASSUME NEW j \in S PROVE j <= m
    <2>1. n - j \in T /\ ~(n - j < n - m)
      BY <1>3, <1>4
    <2>2. j \in 0 .. n /\ m \in 0 .. n
      OBVIOUS
    <2> QED
      BY <2>1, <2>2
  <1>6. \E i \in S : \A j \in S : j <= i
    BY <1>5
  <1> QED
    BY <1>6

\* A conversation is a sequence, and its messages are messages.
LEMMA SequenceFacts ==
  ASSUME NEW ms \in Seq(Message)
  PROVE  /\ Len(ms) \in Nat /\ DOMAIN ms = 1 .. Len(ms)
         /\ \A i \in DOMAIN ms : ms[i] \in Message /\ i \in Nat
  OBVIOUS

\* What a message tells, by its kind.
LEMMA ContentFacts ==
  ASSUME NEW m
  PROVE  /\ IsSystem(m) => Content(m) = m.covers
         /\ m.kind = "error" => Content(m) = {<<"result", m.id>>, <<"error", m.id>>}
         /\ m.kind \in Results \ {"error"} => Content(m) = {<<"result", m.id>>}
         /\ m.kind \notin Results /\ ~IsSystem(m) => Content(m) = {<<m.kind, m.id>>}
         /\ m.kind \in Results => ~IsSystem(m)
  <1>1. \A kind \in Results : kind \notin Systems
    BY DEF Results, Outcomes, Systems
  <1>2. "error" \in Results
    BY DEF Results, Outcomes
  <1>3. CASE IsSystem(m)
    BY <1>1, <1>2, <1>3 DEF Content, IsSystem
  <1>4. CASE m.kind \in Results
    BY <1>1, <1>2, <1>4 DEF Content, IsSystem
  <1>5. CASE m.kind \notin Results /\ ~IsSystem(m)
    BY <1>1, <1>2, <1>5 DEF Content, IsSystem
  <1> QED
    BY <1>1, <1>2, <1>3, <1>4, <1>5

LEMMA MessageFacts ==
  ASSUME NEW m \in Message
  PROVE  /\ m.turn \in 0 .. MaxTurns /\ m.turn \in Int
         /\ m.covers \subseteq Contents /\ Content(m) \subseteq Contents
         /\ IsSystem(m) => Content(m) = m.covers
         /\ m.kind = "prompt" <=> m \in Prompts
         /\ m.kind = "prompt" => m.marker \in Markers
  <1> USE BoundsAssumption
  <1>1. CASE m \in Prompts \ {NoPrompt}
    <2>1. PICK marker \in Markers, text \in Texts : m = Prompt(marker, text)
      BY <1>1 DEF Prompts
    <2> QED
      BY <1>1, <2>1, ContentFacts DEF Prompt, Systems, IsSystem, Contents
  <1>2. CASE m \in [kind : {"user", "assistant", "call"} \cup Results, id : Ids,
                   turn : 0 .. MaxTurns, covers : {{}}]
    <2>1. m.kind \notin Systems /\ m.kind # "prompt"
      BY <1>2 DEF Systems, Results, Outcomes
    <2>2. m \notin Prompts
      BY <2>1 DEF Prompts, Prompt, NoPrompt
    <2>3. Content(m) \subseteq Contents
      BY <1>2, <2>1, ContentFacts DEF Contents, Results, Outcomes, IsSystem
    <2> QED
      BY <1>2, <2>1, <2>2, <2>3 DEF IsSystem
  <1>3. CASE m \in [kind : {"boundary", "system"}, id : {0}, turn : {0}, covers : SUBSET Contents]
    <2>1. m.kind \in Systems \ {"prompt"}
      BY <1>3 DEF Systems, Results, Outcomes
    <2>2. m \notin Prompts
      BY <2>1 DEF Prompts, Prompt, NoPrompt
    <2> QED
      BY <1>3, <2>1, <2>2, ContentFacts DEF IsSystem
  <1> QED
    BY <1>1, <1>2, <1>3 DEF Message

\* What a message can be made of.
LEMMA NewMessages ==
  /\ \A kind \in {"user", "assistant", "call"} \cup Outcomes, id \in Ids, t \in 0 .. MaxTurns :
       /\ Plain(kind, id, t) \in Message
       /\ Plain(kind, id, t).kind = kind /\ Plain(kind, id, t).turn = t
       /\ ~IsSystem(Plain(kind, id, t))
  /\ \A covers \in SUBSET Contents :
       /\ Boundary(covers) \in Message
       /\ Boundary(covers).kind = "boundary" /\ Boundary(covers).turn = 0
       /\ Content(Boundary(covers)) = covers
  /\ \A p \in Prompts \ {NoPrompt} :
       p \in Message /\ p.kind = "prompt" /\ p.turn = 0 /\ p.marker \in Markers
  BY DEF Plain, Boundary, Message, Content, Results, Outcomes, Systems, IsSystem, Prompts, Prompt

\* CleanupMandatory changes no message but results, and those only to stubs.
LEMMA Cleaned ==
  ASSUME NEW ms \in Seq(Message)
  PROVE  /\ CleanupMandatory(ms) \in Seq(Message)
         /\ DOMAIN CleanupMandatory(ms) = DOMAIN ms /\ Len(CleanupMandatory(ms)) = Len(ms)
         /\ \A i \in DOMAIN ms :
              LET m == CleanupMandatory(ms)[i]
              IN  \/ m = ms[i]
                  \/ /\ ms[i].kind \in {"result", "image"} /\ m.kind = "stub" /\ m.turn = ms[i].turn
                     /\ m.id = ms[i].id
                     /\ \E b \in TurnBoundary(ms) : i < b
  <1>1. ASSUME NEW m \in Message, m.kind \in {"result", "image"}
        PROVE  /\ [m EXCEPT !.kind = "stub"] \in Message
               /\ [m EXCEPT !.kind = "stub"].kind = "stub"
               /\ [m EXCEPT !.kind = "stub"].turn = m.turn
               /\ [m EXCEPT !.kind = "stub"].id = m.id
    <2>1. m \in [kind : {"user", "assistant", "call"} \cup Results, id : Ids,
                turn : 0 .. MaxTurns, covers : {{}}]
      BY <1>1 DEF Message, Prompts, Prompt
    <2> QED
      BY <2>1 DEF Message, Results, Outcomes
  <1> DEFINE New(i) == CleanupMandatory(ms)[i]
  <1>2. DOMAIN CleanupMandatory(ms) = 1 .. Len(ms)
    BY DEF CleanupMandatory
  <1>3. ASSUME NEW i \in 1 .. Len(ms)
        PROVE  /\ New(i) \in Message
               /\ \/ New(i) = ms[i]
                  \/ /\ ms[i].kind \in {"result", "image"} /\ New(i).kind = "stub"
                     /\ New(i).turn = ms[i].turn /\ New(i).id = ms[i].id
                     /\ \E b \in TurnBoundary(ms) : i < b
    <2>1. ms[i] \in Message
      OBVIOUS
    <2>2. CASE ms[i].kind \in {"result", "image"} /\ \E b \in TurnBoundary(ms) : i < b
      BY <1>1, <2>1, <2>2 DEF CleanupMandatory
    <2>3. CASE ~(ms[i].kind \in {"result", "image"} /\ \E b \in TurnBoundary(ms) : i < b)
      BY <2>1, <2>3 DEF CleanupMandatory
    <2> QED
      BY <2>2, <2>3
  <1>4. CleanupMandatory(ms) = [i \in 1 .. Len(ms) |-> New(i)]
    BY <1>2 DEF CleanupMandatory
  <1>5. CleanupMandatory(ms) \in Seq(Message)
    <2> HIDE DEF New
    <2> QED
      BY <1>3, <1>4
  <1> QED
    BY <1>2, <1>3, <1>5

\* The last boundary, when only the first message can be one.
LEMMA FirstBoundary ==
  ASSUME NEW ms \in Seq(Message), \A i \in DOMAIN ms : ms[i].kind = "boundary" => i = 1
  PROVE  \/ /\ LastBoundary(ms) = 0
            /\ \A i \in DOMAIN ms : ms[i].kind # "boundary"
         \/ LastBoundary(ms) = 1 /\ 1 \in DOMAIN ms /\ ms[1].kind = "boundary"
  <1> DEFINE S == {i \in DOMAIN ms : ms[i].kind = "boundary"}
  <1>1. LastBoundary(ms) = IF S = {} THEN 0 ELSE CHOOSE i \in S : \A j \in S : j <= i
    BY DEF LastBoundary, LastPos
  <1>2. S \subseteq 0 .. Len(ms) /\ Len(ms) \in Nat
    OBVIOUS
  <1>3. CASE S = {}
    BY <1>1, <1>3
  <1>4. CASE S # {}
    <2>1. (CHOOSE i \in S : \A j \in S : j <= i) \in S
      <3> HIDE DEF S
      <3> QED
        BY <1>2, <1>4, LastOfPositions
    <2>2. LastBoundary(ms) \in S
      <3> HIDE DEF S
      <3> QED
        BY <1>1, <1>4, <2>1
    <2> QED
      BY <2>2
  <1> QED
    BY <1>3, <1>4

\* A split point is 0 or leaves at least one message.
LEMMA SplitPointBounds ==
  ASSUME NEW ms \in Seq(Message)
  PROVE  SplitPoint(ms) \in 0 .. Len(ms)
  <1> USE SizesAssumption
  <1>1. FindSafeSplitPoint(ms) \in 0 .. Len(ms)
    <2> DEFINE safe == {s \in 1 .. Len(ms) - KeepMessages : IsSafeSplitPoint(ms, s)}
    <2>1. safe \subseteq 0 .. Len(ms) /\ Len(ms) \in Nat
      OBVIOUS
    <2>2. FindSafeSplitPoint(ms) = IF safe = {} THEN 0 ELSE CHOOSE s \in safe : \A t \in safe : t <= s
      BY DEF FindSafeSplitPoint
    <2> HIDE DEF safe
    <2>3. safe # {} => (CHOOSE s \in safe : \A t \in safe : t <= s) \in safe
      BY <2>1, LastOfPositions
    <2>4. CASE safe = {}
      BY <2>2, <2>4
    <2>5. CASE safe # {}
      <3>1. FindSafeSplitPoint(ms) \in safe
        BY <2>2, <2>3, <2>5
      <3> QED
        BY <2>1, <3>1
    <2> QED
      BY <2>4, <2>5
  <1>2. BeforeBlocks(ms) \in 0 .. Len(ms)
    BY DEF BeforeBlocks
  <1> QED
    BY <1>1, <1>2 DEF SplitPoint

\* A compaction replaces the last boundary and at least one message behind it.
LEMMA ReplacedBounds ==
  ASSUME NEW ms \in Seq(Message), \A i \in DOMAIN ms : ms[i].kind = "boundary" => i = 1
  PROVE  /\ Replaced(ms) \in 0 .. Len(ms)
         /\ Replaced(ms) # 0 => LastBoundary(ms) < Replaced(ms)
  <1> DEFINE last == LastBoundary(ms)
  <1>1. last \in 0 .. Len(ms) /\ Len(ms) \in Nat
    BY FirstBoundary
  <1>2. /\ SubSeq(ms, last + 1, Len(ms)) \in Seq(Message)
        /\ Len(SubSeq(ms, last + 1, Len(ms))) = Len(ms) - last
    <2> HIDE DEF last
    <2> QED
      BY <1>1, SubSeqProperties
  <1>3. SplitPoint(SubSeq(ms, last + 1, Len(ms))) \in 0 .. Len(ms) - last
    BY <1>2, SplitPointBounds
  <1> QED
    BY <1>1, <1>3 DEF Replaced

\* The conversation that performCompaction leaves: one boundary and all that
\* was not replaced.
LEMMA Compacted ==
  ASSUME NEW ms \in Seq(Message), \A i \in DOMAIN ms : ms[i].kind = "boundary" => i = 1,
         Replaced(ms) > 0, NEW summarised \in BOOLEAN
  PROVE  LET n   == Replaced(ms)
             new == Compact(ms, summarised)
         IN  /\ new \in Seq(Message) /\ Len(new) = 1 + Len(ms) - n
             /\ new[1].kind = "boundary" /\ new[1].turn = 0
             /\ \A i \in 2 .. Len(new) : new[i] = ms[i + n - 1] /\ i + n - 1 \in DOMAIN ms
             /\ \A i \in n + 1 .. Len(ms) : new[i + 1 - n] = ms[i] /\ i + 1 - n \in 2 .. Len(new)
             /\ summarised =>
                  \A i \in 1 .. n : ms[i].kind \notin {"system", "prompt"} =>
                    Content(ms[i]) \ Errors(Content(ms[i])) \subseteq Content(new[1])
  <1> DEFINE n == Replaced(ms)
             last == LastBoundary(ms)
             older == SubSeq(ms, last + 1, n)
             rest == SubSeq(ms, n + 1, Len(ms))
             covers == IF summarised THEN Summarise(ms, last, older) ELSE {}
             new == Compact(ms, summarised)
  <1>1. n \in 1 .. Len(ms) /\ last \in {0, 1} /\ last < n /\ Len(ms) \in Nat
    BY FirstBoundary, ReplacedBounds
  <1>2. new = <<Boundary(covers)>> \o rest
    BY <1>1 DEF Compact
  <1>3. /\ older \in Seq(Message) /\ Len(older) = n - last
        /\ \A i \in 1 .. n - last : older[i] = ms[last + i]
    <2> HIDE DEF n, last
    <2> QED
      BY <1>1, SubSeqProperties
  <1>4. /\ rest \in Seq(Message) /\ Len(rest) = Len(ms) - n
        /\ \A i \in 1 .. Len(ms) - n : rest[i] = ms[n + i]
    <2> HIDE DEF n
    <2> QED
      BY <1>1, SubSeqProperties
  <1>5. covers \in SUBSET Contents
    <2>1. last = 1 => ms[last].covers \subseteq Contents
      BY <1>1, MessageFacts, FirstBoundary
    <2>2. \A i \in DOMAIN older : Content(older[i]) \subseteq Contents
      BY <1>3, MessageFacts
    <2> HIDE DEF older, last
    <2> QED
      BY <1>1, <2>1, <2>2 DEF Summarise, WrittenOut, Tells, last
  <1>6. /\ Boundary(covers) \in Message /\ Boundary(covers).kind = "boundary"
        /\ Boundary(covers).turn = 0 /\ Content(Boundary(covers)) = covers
    <2> HIDE DEF covers
    <2> QED
      BY <1>5, NewMessages
  <1>7. /\ new \in Seq(Message) /\ Len(new) = 1 + Len(ms) - n
        /\ new[1] = Boundary(covers) /\ \A i \in 2 .. Len(new) : new[i] = rest[i - 1]
    <2> HIDE DEF covers, rest, n, new
    <2> QED
      BY <1>1, <1>2, <1>4, <1>6
  <1>8. ASSUME summarised, NEW i \in 1 .. n, ms[i].kind \notin {"system", "prompt"}
        PROVE  Content(ms[i]) \ Errors(Content(ms[i])) \subseteq covers
    <2>1. CASE i <= last
      <3>1. last = 1 /\ i = 1 /\ ms[1].kind = "boundary"
        BY <1>1, <2>1, FirstBoundary
      <3>2. Content(ms[i]) = ms[last].covers
        BY <3>1, ContentFacts DEF IsSystem, Systems
      <3> QED
        BY <1>8, <3>1, <3>2 DEF Summarise
    <2>2. CASE i > last
      <3>1. i - last \in DOMAIN older /\ older[i - last] = ms[i]
        BY SMTT(30), <1>1, <1>3, <2>2
      <3>2. ms[i].kind # "boundary"
        BY <1>1, <2>2, FirstBoundary
      <3>3. older[i - last].kind \notin Systems
        BY <1>8, <3>1, <3>2 DEF Systems
      <3>4. Content(older[i - last]) \ Errors(Content(older[i - last]))
              \subseteq Summarise(ms, last, older)
        <4> HIDE DEF older
        <4> QED
          BY <3>1, <3>3 DEF Summarise, WrittenOut, Errors, Tells
      <3> QED
        BY <1>8, <3>1, <3>4
    <2> QED
      BY <1>1, <2>1, <2>2
  <1> HIDE DEF covers, older, rest, n, last, new
  <1>9. ASSUME NEW i \in 2 .. Len(new)
        PROVE  new[i] = ms[i + n - 1] /\ i + n - 1 \in DOMAIN ms
    <2>1. i + n - 1 \in 1 .. Len(ms) /\ i - 1 \in 1 .. Len(ms) - n
      BY <1>1, <1>7
    <2>2. new[i] = rest[i - 1] /\ rest[i - 1] = ms[n + (i - 1)]
      BY <1>4, <1>7, <2>1
    <2>3. n + (i - 1) = i + n - 1
      BY <1>1
    <2> QED
      BY <2>1, <2>2, <2>3
  <1>10. ASSUME NEW i \in n + 1 .. Len(ms)
         PROVE  new[i + 1 - n] = ms[i] /\ i + 1 - n \in 2 .. Len(new)
    <2>1. i + 1 - n \in 2 .. Len(new) /\ i - n \in 1 .. Len(ms) - n
      BY <1>1, <1>7
    <2>2. new[i + 1 - n] = rest[(i + 1 - n) - 1] /\ rest[i - n] = ms[n + (i - n)]
      BY <1>4, <1>7, <2>1
    <2>3. (i + 1 - n) - 1 = i - n /\ n + (i - n) = i
      BY <1>1
    <2> QED
      BY <2>1, <2>2, <2>3
  <1>11. /\ new \in Seq(Message) /\ Len(new) = 1 + Len(ms) - n
         /\ new[1].kind = "boundary" /\ new[1].turn = 0
         /\ summarised =>
              \A i \in 1 .. n : ms[i].kind \notin {"system", "prompt"} =>
                Content(ms[i]) \ Errors(Content(ms[i])) \subseteq Content(new[1])
    BY <1>6, <1>7, <1>8
  <1> QED
    BY <1>9, <1>10, <1>11 DEF n, new

\* From the boundary on there are KeepTurns turns.
LEMMA BoundaryTurn ==
  ASSUME NEW t \in Nat, NEW ms \in Seq(Message), Proper(ms, t), NEW b \in TurnBoundary(ms)
  PROVE  ms[b].turn <= t - KeepTurns + 1
  <1> DEFINE S == UsersFrom(ms, b)
             T == ms[b].turn .. t
             f == [j \in S |-> ms[j].turn]
  <1>1. b \in DOMAIN ms /\ IsUser(ms[b]) /\ Cardinality(S) = KeepTurns
    BY DEF TurnBoundary
  <1>2. /\ S \subseteq DOMAIN ms /\ \A j \in S : j \in Nat /\ j >= b /\ IsUser(ms[j])
        /\ \A j \in DOMAIN ms : ms[j].turn \in Int
    BY <1>1, MessageFacts DEF UsersFrom
  <1>3. \A j \in DOMAIN ms : IsUser(ms[j]) => ~IsSystem(ms[j])
    BY DEF IsUser, IsSystem, Systems
  <1>4. ASSUME NEW i \in S, NEW j \in S, i < j
        PROVE  ms[i].turn < ms[j].turn
    BY <1>2, <1>3, <1>4 DEF Proper
  <1>5. f \in Injection(S, T)
    <2>1. ASSUME NEW j \in S PROVE ms[j].turn \in T
      <3>1. b <= j /\ b \in S /\ ms[j].turn <= t
        BY <1>1, <1>2 DEF UsersFrom, Proper
      <3>2. b < j => ms[b].turn < ms[j].turn
        BY <1>4, <3>1
      <3> QED
        BY <1>1, <1>2, <3>1, <3>2
    <2>2. \A i, j \in S : ms[i].turn = ms[j].turn => i = j
      <3> SUFFICES ASSUME NEW i \in S, NEW j \in S, i # j PROVE ms[i].turn # ms[j].turn
        OBVIOUS
      <3>1. i < j \/ j < i
        BY <1>2
      <3> QED
        BY <1>2, <1>4, <3>1
    <2> HIDE DEF S, T
    <2> QED
      BY <2>1, <2>2 DEF Injection, IsInjective
  <1>6. ms[b].turn \in Int /\ ms[b].turn <= t
    BY <1>1, <1>2 DEF Proper
  <1>7. IsFiniteSet(T) /\ Cardinality(T) = t - ms[b].turn + 1
    BY <1>6, FS_Interval
  <1>8. Cardinality(S) <= Cardinality(T)
    <2> HIDE DEF S, T, f
    <2> QED
      BY <1>5, <1>7, FS_Injection
  <1> QED
    BY <1>1, <1>6, <1>7, <1>8, SizesAssumption

\* Cleanup leaves a conversation proper, tells no less and moves no prompt.
LEMMA CleanedWell ==
  ASSUME NEW t \in Nat, NEW ms \in Seq(Message), Proper(ms, t)
  PROVE  /\ Proper(CleanupMandatory(ms), t)
         /\ Carried(ms) \subseteq Carried(CleanupMandatory(ms))
         /\ \A p : LastIs(ms, p) => LastIs(CleanupMandatory(ms), p)
         /\ Before(ms, t) => Before(CleanupMandatory(ms), t)
  <1> DEFINE new == CleanupMandatory(ms)
  <1>1. /\ DOMAIN new = DOMAIN ms
        /\ \A i \in DOMAIN ms :
             \/ new[i] = ms[i]
             \/ /\ ms[i].kind \in {"result", "image"} /\ new[i].kind = "stub" /\ new[i].turn = ms[i].turn
                /\ new[i].id = ms[i].id /\ \E b \in TurnBoundary(ms) : i < b
    BY Cleaned
  <1> HIDE DEF new
  <1>2. \A i \in DOMAIN ms : ms[i].turn \in Int /\ i \in Nat
    BY MessageFacts
  <1>3. ASSUME NEW i \in DOMAIN ms
        PROVE  /\ new[i].turn = ms[i].turn
               /\ IsSystem(new[i]) <=> IsSystem(ms[i])
               /\ IsUser(new[i]) <=> IsUser(ms[i])
               /\ new[i].kind = "boundary" <=> ms[i].kind = "boundary"
               /\ new[i].kind = "prompt" <=> ms[i].kind = "prompt"
               /\ new[i].kind = "prompt" => new[i] = ms[i]
               /\ Content(new[i]) = Content(ms[i])
    <2>1. {"result", "image", "stub"} \subseteq Results \ {"error"}
      BY DEF Results, Outcomes
    <2>2. Content(new[i]) = Content(ms[i])
      BY <1>1, <2>1, ContentFacts
    <2> QED
      BY <1>1, <2>2 DEF IsSystem, IsUser, Systems
  <1>4. ASSUME NEW i \in DOMAIN ms, new[i].kind = "stub"
        PROVE  ms[i].turn <= t - KeepTurns
    <2>1. CASE new[i] = ms[i]
      BY <1>4, <2>1 DEF Proper
    <2>2. CASE new[i] # ms[i]
      <3>1. PICK b \in TurnBoundary(ms) : i < b
        BY <1>1, <2>2
      <3>2. b \in DOMAIN ms /\ IsUser(ms[b]) /\ ~IsSystem(ms[b])
        BY DEF TurnBoundary, IsUser, IsSystem, Systems
      <3>3. ~IsSystem(ms[i])
        BY <1>1, <2>2 DEF IsSystem, Systems
      <3>4. ms[i].turn < ms[b].turn
        BY <3>1, <3>2, <3>3 DEF Proper
      <3>5. ms[b].turn <= t - KeepTurns + 1
        BY BoundaryTurn
      <3> QED
        BY <1>2, <3>2, <3>4, <3>5, SizesAssumption
    <2> QED
      BY <2>1, <2>2
  <1>5. Proper(new, t)
    BY <1>1, <1>3, <1>4 DEF Proper
  <1>6. Carried(ms) \subseteq Carried(new)
    BY <1>1, <1>3 DEF Carried, Tells
  <1>7. ASSUME NEW p, LastIs(ms, p) PROVE LastIs(new, p)
    <2>1. {i \in DOMAIN new : new[i].kind = "prompt" /\ new[i].marker = p.marker}
            = {i \in DOMAIN ms : ms[i].kind = "prompt" /\ ms[i].marker = p.marker}
      BY <1>1, <1>3
    <2> QED
      BY <1>3, <1>7, <2>1 DEF LastIs
  <1>8. Before(ms, t) => Before(new, t)
    BY <1>1, <1>3 DEF Before
  <1> QED
    BY <1>5, <1>6, <1>7, <1>8 DEF new

\* A proper conversation of one turn is one of a later turn.
LEMMA LaterTurn ==
  ASSUME NEW t \in Nat, NEW u \in Nat, t <= u, NEW ms \in Seq(Message), Proper(ms, t)
  PROVE  Proper(ms, u) /\ (t < u => Before(ms, u))
  <1>1. \A i \in DOMAIN ms : ms[i].turn \in Int
    BY MessageFacts
  <1> QED
    BY <1>1, SizesAssumption DEF Proper, Before

\* Messages of the running turn are added: calls, results and answers.
LEMMA AddedWell ==
  ASSUME NEW t \in Nat, NEW ms \in Seq(Message), Proper(ms, t), NEW new \in Seq(Message),
         \A i \in DOMAIN new : new[i].kind \in {"call", "assistant"} \cup Outcomes /\ new[i].turn = t
  PROVE  /\ ms \o new \in Seq(Message) /\ Proper(ms \o new, t)
         /\ Carried(ms \o new) = Carried(ms) \cup Carried(new)
         /\ \A p : LastIs(ms, p) => LastIs(ms \o new, p)
  <1> DEFINE all == ms \o new
             n == Len(ms)
  <1>1. /\ all \in Seq(Message) /\ Len(all) = n + Len(new) /\ n \in Nat /\ Len(new) \in Nat
        /\ DOMAIN all = 1 .. n + Len(new)
        /\ \A i \in 1 .. n + Len(new) : all[i] = IF i <= n THEN ms[i] ELSE new[i - n]
    BY ConcatProperties
  <1>2. DOMAIN ms = 1 .. n /\ DOMAIN new = 1 .. Len(new)
    OBVIOUS
  <1> HIDE DEF all, n
  <1>3. \A i \in DOMAIN ms : i \in DOMAIN all /\ all[i] = ms[i] /\ ms[i].turn \in Int
    BY <1>1, <1>2, MessageFacts
  <1>4. \A i \in DOMAIN new : i + n \in DOMAIN all /\ all[i + n] = new[i]
    BY <1>1, <1>2
  <1>5. ASSUME NEW i \in DOMAIN all
        PROVE  \/ i \in DOMAIN ms
               \/ /\ i > n /\ i - n \in DOMAIN new /\ all[i] = new[i - n]
                  /\ all[i].kind \in {"call", "assistant"} \cup Outcomes /\ all[i].turn = t
    <2>1. CASE i <= n
      BY <1>1, <1>2, <2>1
    <2>2. CASE ~(i <= n)
      <3>1. i - n \in DOMAIN new /\ all[i] = new[i - n] /\ i > n
        BY <1>1, <1>2, <2>2
      <3> QED
        BY <3>1
    <2> QED
      BY <2>1, <2>2
  <1>6. Proper(all, t)
    <2>1. ASSUME NEW i \in DOMAIN all, NEW j \in DOMAIN all, i < j,
                 ~IsSystem(all[i]), ~IsSystem(all[j])
          PROVE  /\ all[i].turn <= all[j].turn
                 /\ IsUser(all[j]) => all[i].turn < all[j].turn
      <3>1. CASE j \in DOMAIN ms
        <4>1. i \in DOMAIN ms
          BY <1>1, <1>2, <2>1, <3>1
        <4> QED
          BY <1>3, <2>1, <3>1, <4>1 DEF Proper
      <3>2. CASE j \notin DOMAIN ms
        <4>1. all[j].turn = t /\ ~IsUser(all[j])
          BY <1>5, <3>2 DEF IsUser, Outcomes
        <4>2. all[i].turn <= t
          BY <1>3, <1>5 DEF Proper
        <4> QED
          BY <4>1, <4>2
      <3> QED
        BY <3>1, <3>2
    <2>2. ASSUME NEW i \in DOMAIN all
          PROVE  /\ all[i].turn <= t
                 /\ all[i].kind = "boundary" => i = 1
                 /\ all[i].kind = "stub" => all[i].turn <= t - KeepTurns
      <3>1. CASE i \in DOMAIN ms
        BY <1>3, <3>1 DEF Proper
      <3>2. CASE i \notin DOMAIN ms
        <4>1. all[i].kind \in {"call", "assistant"} \cup Outcomes /\ all[i].turn = t
          BY <1>5, <3>2
        <4> QED
          BY <4>1 DEF Outcomes
      <3> QED
        BY <3>1, <3>2
    <2> QED
      BY <2>1, <2>2 DEF Proper
  <1>7. Carried(all) = Carried(ms) \cup Carried(new)
    <2>1. Carried(all) \subseteq Carried(ms) \cup Carried(new)
      BY <1>3, <1>5 DEF Carried, Tells
    <2>2. Carried(ms) \subseteq Carried(all)
      BY <1>3 DEF Carried, Tells
    <2>3. Carried(new) \subseteq Carried(all)
      BY <1>4 DEF Carried, Tells
    <2> QED
      BY <2>1, <2>2, <2>3
  <1>8. ASSUME NEW p, LastIs(ms, p) PROVE LastIs(all, p)
    <2>1. {i \in DOMAIN all : all[i].kind = "prompt" /\ all[i].marker = p.marker}
            = {i \in DOMAIN ms : ms[i].kind = "prompt" /\ ms[i].marker = p.marker}
      BY <1>3, <1>5 DEF Outcomes
    <2> QED
      BY <1>3, <1>8, <2>1 DEF LastIs
  <1> QED
    BY <1>1, <1>6, <1>7, <1>8 DEF all

\* One message is added: a prompt, or the user's message of a turn that has
\* none yet.
LEMMA AppendedWell ==
  ASSUME NEW t \in Nat, NEW ms \in Seq(Message), Proper(ms, t), NEW m \in Message,
         m.kind = "prompt" \/ (m.kind = "user" /\ m.turn = t /\ Before(ms, t))
  PROVE  /\ Append(ms, m) \in Seq(Message) /\ Proper(Append(ms, m), t)
         /\ Carried(Append(ms, m)) = Carried(ms) \cup Content(m)
         /\ \A p : LastIs(ms, p) /\ (m.kind = "prompt" => m.marker # p.marker) =>
                    LastIs(Append(ms, m), p)
         /\ m.kind = "prompt" => LastIs(Append(ms, m), m) /\ (Before(ms, t) => Before(Append(ms, m), t))
  <1> DEFINE all == Append(ms, m)
             n == Len(ms)
  <1>1. /\ all \in Seq(Message) /\ n \in Nat /\ DOMAIN all = 1 .. n + 1 /\ DOMAIN ms = 1 .. n
        /\ \A i \in 1 .. n : all[i] = ms[i]
        /\ all[n + 1] = m
    BY AppendProperties
  <1> HIDE DEF all, n
  <1>2. /\ \A i \in DOMAIN ms : i \in DOMAIN all /\ all[i] = ms[i] /\ ms[i].turn \in Int /\ i < n + 1
        /\ \A i \in DOMAIN all : i \in DOMAIN ms \/ i = n + 1
        /\ n + 1 \in DOMAIN all /\ n + 1 \notin DOMAIN ms
    BY <1>1, MessageFacts
  <1>3. m.kind = "prompt" => m.turn = 0 /\ IsSystem(m)
    <2>1. m.kind = "prompt" => m \in Prompts \ {NoPrompt}
      BY MessageFacts DEF Message, Results, Outcomes
    <2> QED
      BY <2>1, NewMessages DEF IsSystem, Systems
  <1>4. m.kind = "user" => ~IsSystem(m)
    BY DEF IsSystem, Systems
  <1>5. Proper(all, t)
    <2>1. ASSUME NEW i \in DOMAIN all, NEW j \in DOMAIN all, i < j,
                 ~IsSystem(all[i]), ~IsSystem(all[j])
          PROVE  /\ all[i].turn <= all[j].turn
                 /\ IsUser(all[j]) => all[i].turn < all[j].turn
      <3>1. i \in DOMAIN ms
        BY <1>1, <2>1
      <3>2. CASE j \in DOMAIN ms
        BY <1>2, <2>1, <3>1, <3>2 DEF Proper
      <3>3. CASE j = n + 1
        <4>1. all[j] = m /\ m.kind = "user" /\ m.turn = t
          BY <1>1, <1>3, <2>1, <3>3
        <4>2. all[i] = ms[i] /\ ms[i].turn < t /\ ms[i].turn \in Int
          BY <1>2, <2>1, <3>1, <4>1 DEF Before
        <4> QED
          BY <4>1, <4>2
      <3> QED
        BY <1>2, <3>2, <3>3
    <2>2. ASSUME NEW i \in DOMAIN all
          PROVE  /\ all[i].turn <= t
                 /\ all[i].kind = "boundary" => i = 1
                 /\ all[i].kind = "stub" => all[i].turn <= t - KeepTurns
      <3>1. CASE i \in DOMAIN ms
        BY <1>2, <3>1 DEF Proper
      <3>2. CASE i = n + 1
        <4>1. all[i].kind \in {"prompt", "user"} /\ all[i].turn \in {0, t}
          BY <1>1, <1>3, <3>2
        <4> QED
          BY <4>1
      <3> QED
        BY <1>2, <3>1, <3>2
    <2> QED
      BY <2>1, <2>2 DEF Proper
  <1>6. Carried(all) = Carried(ms) \cup Content(m)
    <2>1. Carried(all) \subseteq Carried(ms) \cup Content(m)
      BY <1>1, <1>2 DEF Carried, Tells
    <2>2. Carried(ms) \subseteq Carried(all)
      BY <1>2 DEF Carried, Tells
    <2>3. Content(m) \subseteq Carried(all)
      BY <1>1, <1>2 DEF Carried, Tells
    <2> QED
      BY <2>1, <2>2, <2>3
  <1>7. ASSUME NEW p, LastIs(ms, p), m.kind = "prompt" => m.marker # p.marker
        PROVE  LastIs(all, p)
    <2>1. {i \in DOMAIN all : all[i].kind = "prompt" /\ all[i].marker = p.marker}
            = {i \in DOMAIN ms : ms[i].kind = "prompt" /\ ms[i].marker = p.marker}
      BY <1>1, <1>2, <1>7
    <2> QED
      BY <1>2, <1>7, <2>1 DEF LastIs
  <1>8. ASSUME m.kind = "prompt" PROVE LastIs(all, m)
    <2>1. \A i \in DOMAIN all : i <= n + 1
      BY <1>1
    <2> QED
      BY <1>1, <1>2, <1>8, <2>1 DEF LastIs
  <1>9. ASSUME m.kind = "prompt", Before(ms, t) PROVE Before(all, t)
    BY <1>1, <1>2, <1>3, <1>9 DEF Before
  <1> QED
    BY <1>1, <1>5, <1>6, <1>7, <1>8, <1>9 DEF all

\* Inject leaves a prompt as the last one with its marker.
LEMMA Injected ==
  ASSUME NEW t \in Nat, NEW ms \in Seq(Message), Proper(ms, t), NEW p \in Prompts
  PROVE  LET new == Inject(ms, p)
         IN  /\ new \in Seq(Message) /\ Proper(new, t) /\ LastIs(new, p)
             /\ Carried(ms) \cup Content(p) \subseteq Carried(new)
             /\ Before(ms, t) => Before(new, t)
             /\ \A q : LastIs(ms, q) /\ (p # NoPrompt => p.marker # q.marker) => LastIs(new, q)
  <1> DEFINE S == {i \in DOMAIN ms : ms[i].kind = "prompt" /\ ms[i].marker = p.marker}
             last == IF S = {} THEN 0 ELSE CHOOSE i \in S : \A j \in S : j <= i
             new == Inject(ms, p)
  <1>1. new = IF p = NoPrompt \/ (last > 0 /\ ms[last] = p) THEN ms ELSE Append(ms, p)
    BY DEF Inject, LastPos
  <1>2. S \subseteq 0 .. Len(ms) /\ Len(ms) \in Nat /\ 0 \notin S
    OBVIOUS
  <1> HIDE DEF new
  <1>3. S # {} => last \in S /\ \A j \in S : j <= last
    <2> HIDE DEF S
    <2> QED
      BY <1>2, LastOfPositions
  <1>4. CASE p = NoPrompt
    <2>1. new = ms
      BY <1>1, <1>4
    <2>2. LastIs(ms, p)
      <3>1. \A i \in DOMAIN ms : ms[i].kind = "prompt" => ms[i].marker \in Markers
        BY MessageFacts
      <3> QED
        BY <1>4, <3>1, PromptsAssumption DEF LastIs
    <2>3. Content(p) = {}
      BY <1>4, ContentFacts DEF NoPrompt, IsSystem, Systems
    <2> QED
      BY <1>4, <2>1, <2>2, <2>3 DEF new
  <1>5. CASE p # NoPrompt /\ last > 0 /\ ms[last] = p
    <2>1. new = ms
      BY <1>1, <1>5
    <2>2. last \in S /\ \A j \in S : j <= last
      <3>1. S # {}
        BY <1>5
      <3> HIDE DEF S, last
      <3> QED
        BY <1>3, <3>1
    <2>3. LastIs(ms, p)
      BY <1>5, <2>2 DEF LastIs
    <2>4. Content(p) \subseteq Carried(ms)
      BY <1>5, <2>2 DEF Carried, Tells
    <2> HIDE DEF last
    <2> QED
      BY <2>1, <2>3, <2>4 DEF new
  <1>6. CASE p # NoPrompt /\ ~(last > 0 /\ ms[last] = p)
    <2>1. new = Append(ms, p)
      BY <1>1, <1>6
    <2>2. p \in Message /\ p.kind = "prompt"
      BY <1>6, NewMessages
    <2> HIDE DEF last
    <2> QED
      BY <1>6, <2>1, <2>2, AppendedWell DEF new
  <1> QED
    BY <1>4, <1>5, <1>6

\* A compaction leaves a proper conversation in which the last prompts of the
\* turn are the last or gone, and all is told but what it gives up.
LEMMA CompactedWell ==
  ASSUME NEW t \in Nat, NEW ms \in Seq(Message), Proper(ms, t), Replaced(ms) > 0,
         NEW summarised \in BOOLEAN
  PROVE  LET new == Compact(ms, summarised)
         IN  /\ new \in Seq(Message) /\ Proper(new, t)
             /\ Carried(ms) \ GivenUp(ms, summarised) \subseteq Carried(new)
             /\ Before(ms, t) => Before(new, t)
             /\ \A p : LastIs(ms, p) => LastIs(new, p)
  <1> DEFINE n == Replaced(ms)
             new == Compact(ms, summarised)
             old == SubSeq(ms, 1, n)
  <1>1. \A i \in DOMAIN ms : ms[i].kind = "boundary" => i = 1
    BY DEF Proper
  <1>2. n \in 1 .. Len(ms) /\ Len(ms) \in Nat
    BY <1>1, ReplacedBounds
  <1>3. /\ new \in Seq(Message) /\ Len(new) = 1 + Len(ms) - n
        /\ new[1].kind = "boundary" /\ new[1].turn = 0
        /\ \A i \in 2 .. Len(new) : new[i] = ms[i + n - 1] /\ i + n - 1 \in DOMAIN ms
        /\ \A i \in n + 1 .. Len(ms) : new[i + 1 - n] = ms[i] /\ i + 1 - n \in 2 .. Len(new)
        /\ summarised =>
             \A i \in 1 .. n : ms[i].kind \notin {"system", "prompt"} =>
               Content(ms[i]) \ Errors(Content(ms[i])) \subseteq Content(new[1])
    BY <1>1, Compacted
  <1>4. /\ old \in Seq(Message) /\ DOMAIN old = 1 .. n
        /\ \A i \in 1 .. n : old[i] = ms[i]
    <2> HIDE DEF n
    <2>1. /\ SubSeq(ms, 1, n) \in Seq(Message) /\ Len(SubSeq(ms, 1, n)) = n
          /\ \A i \in 1 .. n : SubSeq(ms, 1, n)[i] = ms[1 + i - 1]
      BY <1>2, SubSeqProperties
    <2> QED
      BY <1>2, <2>1
  <1>5. GivenUp(ms, summarised) =
          IF summarised
          THEN Errors(Carried(old))
                 \cup Tells(old, {i \in DOMAIN old : old[i].kind \in {"system", "prompt"}})
          ELSE Carried(old)
    BY DEF GivenUp
  <1> HIDE DEF n, new, old
  <1>6. DOMAIN new = 1 .. Len(new) /\ DOMAIN ms = 1 .. Len(ms) /\ 1 \in DOMAIN new
    BY <1>2, <1>3
  <1>7. \A i \in DOMAIN ms : ms[i].turn \in Int
    BY MessageFacts
  <1>8. IsSystem(new[1]) /\ new[1].kind = "boundary" /\ new[1].turn = 0
    BY <1>3 DEF IsSystem, Systems
  <1>9. Proper(new, t)
    <2>1. ASSUME NEW i \in DOMAIN new, NEW j \in DOMAIN new, i < j,
                 ~IsSystem(new[i]), ~IsSystem(new[j])
          PROVE  /\ new[i].turn <= new[j].turn
                 /\ IsUser(new[j]) => new[i].turn < new[j].turn
      <3>1. i \in 2 .. Len(new) /\ j \in 2 .. Len(new)
        BY <1>6, <1>8, <2>1
      <3>2. /\ new[i] = ms[i + n - 1] /\ i + n - 1 \in DOMAIN ms
            /\ new[j] = ms[j + n - 1] /\ j + n - 1 \in DOMAIN ms
            /\ i + n - 1 < j + n - 1
        BY <1>2, <1>3, <2>1, <3>1
      <3> QED
        BY <2>1, <3>2 DEF Proper
    <2>2. ASSUME NEW i \in DOMAIN new
          PROVE  /\ new[i].turn <= t
                 /\ new[i].kind = "boundary" => i = 1
                 /\ new[i].kind = "stub" => new[i].turn <= t - KeepTurns
      <3>1. CASE i = 1
        BY <1>8, <3>1
      <3>2. CASE i # 1
        <4>1. i \in 2 .. Len(new)
          BY <1>6, <3>2
        <4>2. new[i] = ms[i + n - 1] /\ i + n - 1 \in DOMAIN ms /\ i + n - 1 # 1
          BY <1>2, <1>3, <4>1
        <4> QED
          BY <4>2 DEF Proper
      <3> QED
        BY <3>1, <3>2
    <2> QED
      BY <2>1, <2>2 DEF Proper
  <1>10. Carried(ms) \ GivenUp(ms, summarised) \subseteq Carried(new)
    <2> SUFFICES ASSUME NEW x \in Carried(ms), x \notin GivenUp(ms, summarised)
                 PROVE  x \in Carried(new)
      OBVIOUS
    <2>1. PICK i \in DOMAIN ms : x \in Content(ms[i])
      BY DEF Carried, Tells
    <2>2. CASE i <= n
      <3>1. i \in DOMAIN old /\ old[i] = ms[i] /\ i \in 1 .. n
        BY <1>2, <1>4, <1>6, <2>2
      <3>2. summarised /\ ms[i].kind \notin {"system", "prompt"}
        BY <1>5, <2>1, <3>1 DEF Carried, Tells
      <3>3. x \notin Errors(Content(ms[i]))
        BY <1>5, <2>1, <3>1, <3>2 DEF Errors, Carried, Tells
      <3>4. x \in Content(new[1])
        BY <1>3, <2>1, <3>1, <3>2, <3>3
      <3> QED
        BY <1>6, <3>4 DEF Carried, Tells
    <2>3. CASE i > n
      <3>1. i \in n + 1 .. Len(ms)
        BY <1>2, <1>6, <2>3
      <3>2. new[i + 1 - n] = ms[i] /\ i + 1 - n \in DOMAIN new
        BY <1>3, <1>6, <3>1
      <3> QED
        BY <2>1, <3>2 DEF Carried, Tells
    <2> QED
      BY <1>2, <1>6, <2>2, <2>3
  <1>11. Before(ms, t) => Before(new, t)
    <2> SUFFICES ASSUME Before(ms, t), NEW i \in DOMAIN new PROVE IsSystem(new[i]) \/ new[i].turn < t
      BY DEF Before
    <2>1. i = 1 \/ (new[i] = ms[i + n - 1] /\ i + n - 1 \in DOMAIN ms)
      BY <1>3, <1>6
    <2> QED
      BY <1>8, <2>1 DEF Before
  <1>12. ASSUME NEW p, LastIs(ms, p) PROVE LastIs(new, p)
    <2> DEFINE A == {i \in DOMAIN ms : ms[i].kind = "prompt" /\ ms[i].marker = p.marker}
               B == {i \in DOMAIN new : new[i].kind = "prompt" /\ new[i].marker = p.marker}
    <2>1. ASSUME NEW i \in B PROVE i + n - 1 \in A /\ i \in Int /\ i + n - 1 > n
      <3>1. i \in 2 .. Len(new)
        BY <1>6, <1>8
      <3> QED
        BY <1>2, <1>3, <3>1
    <2> SUFFICES ASSUME B # {} PROVE \E i \in B : new[i] = p /\ \A j \in B : j <= i
      BY DEF LastIs
    <2>2. A # {}
      BY <2>1
    <2>3. PICK i \in A : ms[i] = p /\ \A j \in A : j <= i
      BY <1>12, <2>2 DEF LastIs
    <2>4. i \in n + 1 .. Len(ms)
      <3>1. PICK j \in B : TRUE
        OBVIOUS
      <3>2. j + n - 1 <= i /\ j + n - 1 > n /\ j \in Int
        BY <2>1, <2>3
      <3> QED
        BY <1>2, <1>6, <3>2
    <2>5. new[i + 1 - n] = ms[i] /\ i + 1 - n \in DOMAIN new
      BY <1>3, <1>6, <2>4
    <2>6. i + 1 - n \in B /\ new[i + 1 - n] = p
      BY <2>3, <2>5
    <2>7. ASSUME NEW j \in B PROVE j <= i + 1 - n
      <3>1. j + n - 1 <= i /\ j \in Int
        BY <2>1, <2>3
      <3> QED
        BY <1>2, <2>4, <3>1
    <2> QED
      BY <2>6, <2>7
  <1> QED
    BY <1>3, <1>9, <1>10, <1>11, <1>12 DEF new

\* A reloaded conversation is the saved one, its boundary a plain message.
LEMMA ReloadedWell ==
  ASSUME NEW t \in Nat, NEW ms \in Seq(Message), Proper(ms, t)
  PROVE  /\ Reload(ms) \in Seq(Message) /\ Proper(Reload(ms), t)
         /\ Carried(Reload(ms)) = Carried(ms)
  <1> DEFINE new == Reload(ms)
             New(i) == new[i]
  <1>0. ASSUME NEW m \in Message, m.kind = "image"
        PROVE  LET r == [m EXCEPT !.kind = "result"]
               IN  r \in Message /\ r.kind = "result" /\ r.turn = m.turn /\ Content(r) = Content(m)
    <2>1. m \in [kind : {"user", "assistant", "call"} \cup Results, id : Ids,
                turn : 0 .. MaxTurns, covers : {{}}]
      BY <1>0 DEF Message, Prompts, Prompt
    <2>2. {"result", "image"} \subseteq Results \ {"error"}
      BY DEF Results, Outcomes
    <2> QED
      BY <1>0, <2>1, <2>2, ContentFacts DEF Message
  <1>1. ASSUME NEW m \in Message, m.kind = "boundary"
        PROVE  LET r == [m EXCEPT !.kind = "system"]
               IN  r \in Message /\ r.kind = "system" /\ r.turn = m.turn /\ Content(r) = Content(m)
    <2>1. m \in [kind : {"boundary", "system"}, id : {0}, turn : {0}, covers : SUBSET Contents]
      BY <1>1 DEF Message, Prompts, Prompt, Results, Outcomes
    <2> QED
      BY <1>1, <2>1, ContentFacts DEF Message, IsSystem, Systems
  <1>2. DOMAIN new = 1 .. Len(ms) /\ DOMAIN ms = 1 .. Len(ms)
    BY DEF Reload
  <1>3. ASSUME NEW i \in DOMAIN ms
        PROVE  /\ new[i] \in Message /\ new[i].turn = ms[i].turn /\ new[i].kind # "boundary"
               /\ Content(new[i]) = Content(ms[i])
               /\ IsSystem(new[i]) <=> IsSystem(ms[i])
               /\ IsUser(new[i]) <=> IsUser(ms[i])
               /\ new[i].kind = "stub" <=> ms[i].kind = "stub"
    <2>1. ms[i] \in Message
      OBVIOUS
    <2>2. CASE ms[i].kind = "boundary"
      <3>1. new[i] = [ms[i] EXCEPT !.kind = "system"]
        BY <2>2 DEF Reload
      <3> QED
        BY <1>1, <2>1, <2>2, <3>1 DEF IsSystem, IsUser, Systems
    <2>3. CASE ms[i].kind = "image"
      <3>1. new[i] = [ms[i] EXCEPT !.kind = "result"]
        BY <2>3 DEF Reload
      <3> QED
        BY <1>0, <2>1, <2>3, <3>1 DEF IsSystem, IsUser, Systems
    <2>4. CASE ms[i].kind \notin {"boundary", "image"}
      BY <2>1, <2>4 DEF Reload
    <2> QED
      BY <2>2, <2>3, <2>4
  <1>4. new = [i \in 1 .. Len(ms) |-> New(i)]
    BY <1>2 DEF Reload
  <1>5. new \in Seq(Message)
    <2>1. \A i \in 1 .. Len(ms) : New(i) \in Message
      BY <1>2, <1>3
    <2> HIDE DEF New, new
    <2> QED
      BY <1>4, <2>1
  <1> HIDE DEF new
  <1>6. Proper(new, t)
    BY <1>2, <1>3 DEF Proper
  <1>7. Carried(new) = Carried(ms)
    BY <1>2, <1>3 DEF Carried, Tells
  <1> QED
    BY <1>5, <1>6, <1>7 DEF new

\* Messages tell what can be told.
LEMMA CarriedIsContents ==
  ASSUME NEW ms \in Seq(Message)
  PROVE  Carried(ms) \subseteq Contents
  BY MessageFacts DEF Carried, Tells
-----------------------------------------------------------------------------
LEMMA InitState == Init => StateInv
  <1> SUFFICES ASSUME Init PROVE StateInv
    OBVIOUS
  <1>1. messages = <<>> /\ DOMAIN messages = {} /\ <<>> \in Seq(Message)
    BY DEF Init
  <1>2. TypeOK
    <2>1. messages \in Seq(Message) /\ opening \in Openings \cup {<<>>}
      BY <1>1 DEF Init
    <2>2. /\ nextId \in 1 .. MaxIds + 1 /\ turn \in 0 .. MaxTurns /\ restarts \in 0 .. Restarts
          /\ at \in {"between", "opening", "in", "saving", "down"}
      BY BoundsAssumption DEF Init
    <2>3. compacted \in BOOLEAN
      BY Zenon DEF Init
    <2>4. file \in {NoFile, Torn} /\ added \subseteq Contents /\ kept \subseteq Contents
      BY DEF Init
    <2> QED
      BY <2>1, <2>2, <2>3, <2>4 DEF TypeOK
  <1> QED
    BY <1>1, <1>2
    DEF Init, StateInv, Proper, SaidIsTold, OpeningIsLast, SavedStays, Stores, NoFile

\* The turn goes on or ends with new messages of its own.
LEMMA AddKeeps ==
  ASSUME StateInv, at = "in", NEW new \in Seq(Message),
         \A i \in DOMAIN new : new[i].kind \in {"call", "assistant"} \cup Outcomes /\ new[i].turn = turn,
         messages' = messages \o new, added' = added \cup Carried(new),
         nextId' \in 1 .. MaxIds + 1, at' \in {"in", "between", "saving"},
         UNCHANGED <<file, opening, turn, restarts, compacted, kept>>
  PROVE  StateInv'
  <1>1. TypeOK /\ turn \in Nat /\ messages \in Seq(Message) /\ Proper(messages, turn)
    BY BoundsAssumption DEF StateInv, TypeOK
  <1>2. /\ messages' \in Seq(Message) /\ Proper(messages', turn)
        /\ Carried(messages') = Carried(messages) \cup Carried(new)
        /\ \A p : LastIs(messages, p) => LastIs(messages', p)
    BY <1>1, AddedWell
  <1>3. Carried(new) \subseteq Contents
    BY CarriedIsContents
  <1>4. TypeOK'
    BY <1>1, <1>2, <1>3 DEF TypeOK
  <1>5. Proper(messages, turn)' /\ (Stores(file) => Proper(file[2], turn))'
    BY <1>2 DEF StateInv, Proper, Stores
  <1>6. SaidIsTold'
    BY <1>2 DEF StateInv, SaidIsTold
  <1>7. OpeningIsLast'
    BY <1>2 DEF StateInv, OpeningIsLast
  <1>8. SavedStays'
    BY DEF StateInv, SavedStays, Stores
  <1> QED
    BY <1>4, <1>5, <1>6, <1>7, <1>8 DEF StateInv

\* The actions that add calls, results and answers.
LEMMA AddingKeeps ==
  ASSUME StateInv, AddPair \/ AddBatch \/ AddRefusal \/ AddInterrupted \/ EndTurn
  PROVE  StateInv'
  <1>1. turn \in 0 .. MaxTurns /\ nextId \in 1 .. MaxIds + 1
    BY DEF StateInv, TypeOK
  <1>2. \A kind \in {"call", "assistant"} \cup Outcomes, id \in Ids :
          LET m == Plain(kind, id, turn) IN m \in Message /\ m.kind = kind /\ m.turn = turn
    BY <1>1, NewMessages
  <1>3. CASE AddPair
    <2> PICK outcome \in Outcomes :
           Add(<<Plain("call", nextId, turn), Plain(outcome, nextId, turn)>>, 1)
      BY <1>3 DEF AddPair
    <2> DEFINE new == <<Plain("call", nextId, turn), Plain(outcome, nextId, turn)>>
    <2>1. nextId \in Ids /\ nextId + 1 \in 1 .. MaxIds + 1
      BY <1>1, <1>3, BoundsAssumption DEF AddPair, Fits, Ids
    <2>4. /\ Plain("call", nextId, turn) \in Message /\ Plain("call", nextId, turn).kind = "call"
          /\ Plain("call", nextId, turn).turn = turn
          /\ Plain(outcome, nextId, turn) \in Message
          /\ Plain(outcome, nextId, turn).kind = outcome /\ Plain(outcome, nextId, turn).turn = turn
      BY <1>2, <2>1
    <2>2. /\ new \in Seq(Message)
          /\ \A i \in DOMAIN new : new[i].kind \in {"call", "assistant"} \cup Outcomes /\ new[i].turn = turn
      BY <2>4
    <2>3. /\ at = "in" /\ at' = at /\ messages' = messages \o new
          /\ added' = added \cup Carried(new) /\ nextId' = nextId + 1
          /\ UNCHANGED <<file, opening, turn, restarts, compacted, kept>>
      BY <1>3 DEF AddPair, Add
    <2> HIDE DEF new
    <2> QED
      BY <2>1, <2>2, <2>3, AddKeeps
  <1>4. CASE AddBatch
    <2> PICK first \in Outcomes, second \in Outcomes :
           Add(<<Plain("call", nextId, turn), Plain("call", nextId + 1, turn),
                 Plain(first, nextId, turn), Plain(second, nextId + 1, turn)>>, 2)
      BY <1>4 DEF AddBatch
    <2> DEFINE new == <<Plain("call", nextId, turn), Plain("call", nextId + 1, turn),
                        Plain(first, nextId, turn), Plain(second, nextId + 1, turn)>>
    <2>1. nextId \in Ids /\ nextId + 1 \in Ids /\ nextId + 2 \in 1 .. MaxIds + 1
      BY <1>1, <1>4, BoundsAssumption DEF AddBatch, Fits, Ids
    <2>4. \A kind \in {"call", first, second}, id \in {nextId, nextId + 1} :
            LET m == Plain(kind, id, turn) IN m \in Message /\ m.kind = kind /\ m.turn = turn
      BY <1>2, <2>1
    <2>2. /\ new \in Seq(Message)
          /\ \A i \in DOMAIN new : new[i].kind \in {"call", "assistant"} \cup Outcomes /\ new[i].turn = turn
      BY <2>4
    <2>3. /\ at = "in" /\ at' = at /\ messages' = messages \o new
          /\ added' = added \cup Carried(new) /\ nextId' = nextId + 2
          /\ UNCHANGED <<file, opening, turn, restarts, compacted, kept>>
      BY <1>4 DEF AddBatch, Add
    <2> HIDE DEF new
    <2> QED
      BY <2>1, <2>2, <2>3, AddKeeps
  <1>5. ASSUME NEW kind \in {"call", "assistant"} \cup Outcomes, at = "in", Fits(1),
               Add(<<Plain(kind, nextId, turn)>>, 1), at' \in {"in", "between", "saving"},
               UNCHANGED <<file, opening, turn, restarts, compacted, kept>>
        PROVE  StateInv'
    <2> DEFINE new == <<Plain(kind, nextId, turn)>>
    <2>1. nextId \in Ids /\ nextId + 1 \in 1 .. MaxIds + 1
      BY <1>1, <1>5, BoundsAssumption DEF Fits, Ids
    <2>2. /\ new \in Seq(Message)
          /\ \A i \in DOMAIN new : new[i].kind \in {"call", "assistant"} \cup Outcomes /\ new[i].turn = turn
      BY <1>2, <2>1
    <2>3. /\ messages' = messages \o new
          /\ added' = added \cup Carried(new) /\ nextId' = nextId + 1
      BY <1>5 DEF Add
    <2> HIDE DEF new
    <2> QED
      BY <1>5, <2>1, <2>2, <2>3, AddKeeps
  <1> QED
    BY <1>3, <1>4, <1>5 DEF AddRefusal, AddInterrupted, EndTurn, Outcomes

\* A turn opens: cleanup, then the memory, the catalog and the role.
LEMMA OpenKeeps ==
  ASSUME StateInv, Open
  PROVE  StateInv'
  <1>1. TypeOK /\ turn \in Nat /\ messages \in Seq(Message) /\ Proper(messages, turn)
        /\ turn + 1 \in 0 .. MaxTurns
    BY BoundsAssumption DEF StateInv, TypeOK, Open
  <1>2. PICK o \in Openings :
          /\ opening' = o
          /\ messages' = Inject(Inject(Inject(CleanupMandatory(messages), o[1]), o[2]), o[3])
    BY DEF Open
  <1>3. /\ DOMAIN o = 1 .. 3 /\ o[1] \in Prompts /\ o[2] \in Prompts /\ o[3] \in Prompts
        /\ o[2] # NoPrompt => o[2].marker # o[1].marker
        /\ o[3] # NoPrompt => o[3].marker # o[1].marker /\ o[3].marker # o[2].marker
    <2>1. o \in Prompts \X Prompts \X Prompts
      BY PromptsAssumption
    <2>2. \A k, l \in 1 .. 3 : k # l /\ o[k].marker = o[l].marker => o[k] = NoPrompt
      BY PromptsAssumption
    <2> QED
      BY <2>1, <2>2
  <1> DEFINE m0 == CleanupMandatory(messages)
             m1 == Inject(m0, o[1])
             m2 == Inject(m1, o[2])
             m3 == Inject(m2, o[3])
             t == turn + 1
  <1>4. m0 \in Seq(Message) /\ Proper(m0, turn) /\ Carried(messages) \subseteq Carried(m0)
    BY <1>1, Cleaned, CleanedWell
  <1>5. t \in Nat /\ turn <= t /\ turn < t
    BY <1>1
  <1> HIDE DEF m0, t
  <1>6. Proper(m0, t) /\ Before(m0, t)
    BY <1>1, <1>4, <1>5, LaterTurn
  <1>7. /\ m1 \in Seq(Message) /\ Proper(m1, t) /\ LastIs(m1, o[1]) /\ Before(m1, t)
        /\ Carried(m0) \cup Content(o[1]) \subseteq Carried(m1)
    BY <1>3, <1>4, <1>5, <1>6, Injected
  <1> HIDE DEF m1
  <1>8. /\ m2 \in Seq(Message) /\ Proper(m2, t) /\ LastIs(m2, o[2]) /\ Before(m2, t)
        /\ Carried(m1) \cup Content(o[2]) \subseteq Carried(m2)
        /\ LastIs(m2, o[1])
    <2>1. /\ m2 \in Seq(Message) /\ Proper(m2, t) /\ LastIs(m2, o[2])
          /\ Carried(m1) \cup Content(o[2]) \subseteq Carried(m2)
          /\ Before(m1, t) => Before(m2, t)
          /\ \A q : LastIs(m1, q) /\ (o[2] # NoPrompt => o[2].marker # q.marker) =>
                     LastIs(m2, q)
      <3>1. t \in Nat /\ m1 \in Seq(Message) /\ Proper(m1, t) /\ o[2] \in Prompts
        BY <1>3, <1>5, <1>7
      <3> QED
        BY <3>1, Injected
    <2> HIDE DEF m2
    <2> QED
      BY <1>3, <1>7, <2>1
  <1> HIDE DEF m2
  <1>9. /\ m3 \in Seq(Message) /\ Proper(m3, t) /\ LastIs(m3, o[3]) /\ Before(m3, t)
        /\ Carried(m2) \cup Content(o[3]) \subseteq Carried(m3)
        /\ LastIs(m3, o[1]) /\ LastIs(m3, o[2])
    <2>1. /\ m3 \in Seq(Message) /\ Proper(m3, t) /\ LastIs(m3, o[3])
          /\ Carried(m2) \cup Content(o[3]) \subseteq Carried(m3)
          /\ Before(m2, t) => Before(m3, t)
          /\ \A q : LastIs(m2, q) /\ (o[3] # NoPrompt => o[3].marker # q.marker) =>
                     LastIs(m3, q)
      <3>1. t \in Nat /\ m2 \in Seq(Message) /\ Proper(m2, t) /\ o[3] \in Prompts
        BY <1>3, <1>5, <1>8
      <3> QED
        BY <3>1, Injected
    <2> HIDE DEF m3
    <2> QED
      BY <1>3, <1>8, <2>1
  <1> HIDE DEF m3
  <1>10. messages' = m3 /\ turn' = t
    BY <1>2 DEF Open, m0, m1, m2, m3, t
  <1>11. /\ at = "between" /\ at' = "opening" /\ compacted' = FALSE
         /\ UNCHANGED <<file, nextId, restarts, added, kept>>
    BY DEF Open
  <1>12. TypeOK'
    BY <1>1, <1>2, <1>9, <1>10, <1>11 DEF TypeOK, t
  <1>13. Proper(messages, turn)' /\ Before(messages, turn)' /\ Fits(1)'
    BY <1>9, <1>10, <1>11 DEF Proper, Before, Open, Fits
  <1>14. (Stores(file) => Proper(file[2], turn))'
    <2> SUFFICES ASSUME Stores(file) PROVE Proper(file[2], t)
      BY <1>10, <1>11 DEF Stores, Proper
    <2>1. file[2] \in Seq(Message) /\ Proper(file[2], turn)
      BY DEF StateInv, TypeOK, Stores, NoFile, Torn
    <2> QED
      BY <1>1, <1>5, <2>1, LaterTurn
  <1>15. SaidIsTold'
    <2>1. Carried(messages) \subseteq Carried(m3)
      BY <1>4, <1>7, <1>8, <1>9
    <2>2. Carried(o) \subseteq Carried(m3)
      <3>1. Carried(o) = Content(o[1]) \cup Content(o[2]) \cup Content(o[3])
        BY <1>3 DEF Carried, Tells
      <3> QED
        BY <1>7, <1>8, <1>9, <3>1
    <2> QED
      BY <1>2, <1>10, <1>11, <2>1, <2>2 DEF StateInv, SaidIsTold
  <1>16. OpeningIsLast'
    <2>1. \A k \in DOMAIN o : LastIs(m3, o[k])
      BY <1>3, <1>9
    <2> QED
      BY <1>2, <1>10, <2>1 DEF OpeningIsLast
  <1>17. SavedStays'
    BY <1>11 DEF StateInv, SavedStays, Stores
  <1> QED
    BY <1>11, <1>12, <1>13, <1>14, <1>15, <1>16, <1>17 DEF StateInv

\* The user's message, and the cleanup of the first round.
LEMMA AskKeeps ==
  ASSUME StateInv, Ask
  PROVE  StateInv'
  <1> DEFINE user == Plain("user", nextId, turn)
             m1 == Append(messages, user)
             m2 == CleanupMandatory(m1)
  <1>1. /\ TypeOK /\ turn \in Nat /\ messages \in Seq(Message) /\ Proper(messages, turn)
        /\ Before(messages, turn) /\ turn \in 0 .. MaxTurns
    BY BoundsAssumption DEF StateInv, TypeOK, Ask
  <1>2. nextId \in Ids /\ nextId + 1 \in 1 .. MaxIds + 1
    BY BoundsAssumption DEF StateInv, TypeOK, Ask, Fits, Ids
  <1>3. user \in Message /\ user.kind = "user" /\ user.turn = turn
    BY <1>1, <1>2, NewMessages
  <1> HIDE DEF user
  <1>4. /\ m1 \in Seq(Message) /\ Proper(m1, turn)
        /\ Carried(m1) = Carried(messages) \cup Content(user)
        /\ \A p : LastIs(messages, p) => LastIs(m1, p)
    BY <1>1, <1>3, AppendedWell
  <1> HIDE DEF m1
  <1>5. /\ m2 \in Seq(Message) /\ Proper(m2, turn) /\ Carried(m1) \subseteq Carried(m2)
        /\ \A p : LastIs(m1, p) => LastIs(m2, p)
    BY <1>1, <1>4, Cleaned, CleanedWell
  <1> HIDE DEF m2
  <1>6. /\ messages' = m2 /\ added' = added \cup Content(user) /\ nextId' = nextId + 1
        /\ at = "opening" /\ at' = "in"
        /\ UNCHANGED <<file, opening, turn, restarts, compacted, kept>>
    BY DEF Ask, m1, m2, user
  <1>7. Content(user) \subseteq Contents
    BY <1>3, MessageFacts
  <1>8. TypeOK'
    BY <1>1, <1>2, <1>5, <1>6, <1>7 DEF TypeOK
  <1>9. Proper(messages, turn)' /\ (Stores(file) => Proper(file[2], turn))'
    BY <1>5, <1>6 DEF StateInv, Proper, Stores
  <1>10. SaidIsTold'
    BY <1>4, <1>5, <1>6 DEF StateInv, SaidIsTold
  <1>11. OpeningIsLast'
    BY <1>4, <1>5, <1>6 DEF StateInv, OpeningIsLast
  <1>12. SavedStays'
    BY <1>6 DEF StateInv, SavedStays, Stores
  <1> QED
    BY <1>6, <1>8, <1>9, <1>10, <1>11, <1>12 DEF StateInv

\* Compaction rewrites the conversation in memory and nothing else.
LEMMA CompactKeeps ==
  ASSUME StateInv, CompactIfNeeded
  PROVE  StateInv'
  <1>1. /\ TypeOK /\ turn \in Nat /\ messages \in Seq(Message) /\ Proper(messages, turn)
        /\ Replaced(messages) > 0
    BY BoundsAssumption DEF StateInv, TypeOK, CompactIfNeeded
  <1>2. PICK summarised \in BOOLEAN :
          /\ messages' = Compact(messages, summarised)
          /\ added' = added \ GivenUp(messages, summarised)
    BY DEF CompactIfNeeded
  <1>3. /\ at \in {"opening", "in"} /\ compacted' = TRUE
        /\ UNCHANGED <<file, at, opening, turn, nextId, restarts, kept>>
    BY DEF CompactIfNeeded
  <1>4. /\ messages' \in Seq(Message) /\ Proper(messages', turn)
        /\ Carried(messages) \ GivenUp(messages, summarised) \subseteq Carried(messages')
        /\ Before(messages, turn) => Before(messages', turn)
        /\ \A p : LastIs(messages, p) => LastIs(messages', p)
    BY <1>1, <1>2, CompactedWell
  <1>5. TypeOK'
    BY <1>1, <1>2, <1>3, <1>4 DEF TypeOK
  <1>6. Proper(messages, turn)' /\ (Stores(file) => Proper(file[2], turn))'
    BY <1>3, <1>4 DEF StateInv, Proper, Stores
  <1>7. (at = "opening" => Before(messages, turn) /\ Fits(1))'
    BY <1>3, <1>4 DEF StateInv, Before, Fits
  <1>8. SaidIsTold'
    BY <1>2, <1>3, <1>4 DEF StateInv, SaidIsTold
  <1>9. OpeningIsLast'
    BY <1>3, <1>4 DEF StateInv, OpeningIsLast
  <1>10. SavedStays'
    BY <1>3 DEF StateInv, SavedStays, Stores
  <1> QED
    BY <1>3, <1>5, <1>6, <1>7, <1>8, <1>9, <1>10 DEF StateInv

\* A turn that fails, and the two steps of a save.
LEMMA SavingKeeps ==
  ASSUME StateInv, FailTurn \/ Truncate \/ Write
  PROVE  StateInv'
  <1>1. TypeOK /\ messages \in Seq(Message)
    BY DEF StateInv, TypeOK
  <1>2. /\ at \in {"in", "saving"} /\ at' \in {"between", "saving"}
        /\ UNCHANGED <<messages, opening, turn, nextId, restarts, added, compacted>>
    BY DEF FailTurn, Truncate, Write
  <1>3. \/ UNCHANGED <<file, kept>>
        \/ file' = Torn /\ kept' = kept
        \/ file' = Stored(messages) /\ kept' = Carried(messages)
    BY DEF FailTurn, Truncate, Write
  <1>4. Carried(messages) \subseteq Contents
    BY <1>1, CarriedIsContents
  <1>5. Stored(messages)[2] = messages /\ Stores(Stored(messages)) /\ ~Stores(Torn) /\ Torn # NoFile
    BY DEF Stored, Stores, Torn, NoFile
  <1>6. TypeOK'
    <2>1. (file \in {NoFile, Torn} \/ (file[2] \in Seq(Message) /\ file = Stored(file[2])))'
      BY <1>1, <1>2, <1>3, <1>5 DEF TypeOK, NoFile, Torn, Stored
    <2> QED
      BY <1>1, <1>2, <1>3, <1>4, <2>1 DEF TypeOK
  <1>7. Proper(messages, turn)' /\ (Stores(file) => Proper(file[2], turn))'
    <2>1. Proper(messages, turn)'
      BY <1>2 DEF StateInv, Proper
    <2>2. (Stores(file) => Proper(file[2], turn))'
      BY <1>2, <1>3, <1>5, <2>1 DEF StateInv, Proper, Stores
    <2> QED
      BY <2>1, <2>2
  <1>8. SaidIsTold' /\ OpeningIsLast'
    BY <1>2 DEF StateInv, SaidIsTold, OpeningIsLast
  <1>9. SavedStays'
    BY <1>3, <1>5 DEF StateInv, SavedStays, Stores
  <1> QED
    BY <1>2, <1>6, <1>7, <1>8, <1>9 DEF StateInv

\* ClearHistory, and the approved plan that clears its own call.
LEMMA ClearKeeps ==
  ASSUME StateInv, Clear \/ ClearContext
  PROVE  StateInv'
  <1>1. TypeOK /\ turn \in 0 .. MaxTurns /\ turn \in Nat
    BY BoundsAssumption DEF StateInv, TypeOK
  <1>2. CASE Clear
    <2>1. /\ messages' = <<>> /\ added' = {} /\ file' = NoFile /\ kept' = {} /\ at = "between"
          /\ UNCHANGED <<at, opening, turn, nextId, restarts, compacted>>
      BY <1>2 DEF Clear, Forget
    <2>2. messages' \in Seq(Message) /\ DOMAIN messages' = {}
      BY <2>1
    <2>3. TypeOK'
      BY <1>1, <2>1, <2>2 DEF TypeOK
    <2>4. Proper(messages, turn)' /\ ~Stores(file)'
      BY <2>1, <2>2 DEF Proper, Stores, NoFile
    <2> QED
      BY <2>1, <2>3, <2>4 DEF StateInv, SaidIsTold, OpeningIsLast, SavedStays
  <1>3. CASE ClearContext
    <2> DEFINE answer == Plain("result", nextId, turn)
    <2>1. nextId \in Ids /\ nextId + 1 \in 1 .. MaxIds + 1
      BY <1>1, <1>3, BoundsAssumption DEF TypeOK, ClearContext, Fits, Ids
    <2>2. answer \in Message /\ answer.kind = "result" /\ answer.turn = turn
      BY <1>1, <2>1, NewMessages DEF Outcomes
    <2>3. /\ messages' = <<answer>> /\ added' = Carried(messages') /\ file' = NoFile /\ kept' = {}
          /\ nextId' = nextId + 1 /\ compacted' = TRUE /\ at = "in"
          /\ UNCHANGED <<at, opening, turn, restarts>>
      BY <1>3 DEF ClearContext, Forget
    <2> HIDE DEF answer
    <2>4. messages' \in Seq(Message) /\ DOMAIN messages' = {1} /\ messages'[1] = answer
      BY <2>2, <2>3
    <2>5. added' \subseteq Contents
      BY <2>3, <2>4, CarriedIsContents
    <2>6. TypeOK'
      BY <1>1, <2>1, <2>3, <2>4, <2>5 DEF TypeOK
    <2>7. Proper(messages, turn)' /\ ~Stores(file)'
      BY <1>1, <2>2, <2>3, <2>4 DEF Proper, Stores, NoFile
    <2>8. \A p : LastIs(messages', p)
      BY <2>2, <2>4 DEF LastIs
    <2>9. OpeningIsLast'
      BY <2>8 DEF OpeningIsLast
    <2> QED
      BY <2>3, <2>6, <2>7, <2>9 DEF StateInv, SaidIsTold, SavedStays
  <1> QED
    BY <1>2, <1>3

\* The process dies, and starts with what the file holds.
LEMMA RestartKeeps ==
  ASSUME StateInv, Crash \/ Restart
  PROVE  StateInv'
  <1>1. TypeOK /\ turn \in Nat
    BY BoundsAssumption DEF StateInv, TypeOK
  <1>2. CASE Crash
    <2>1. /\ at' = "down" /\ messages' = <<>> /\ restarts < Restarts
          /\ UNCHANGED <<file, opening, turn, nextId, restarts, added, compacted, kept>>
      BY <1>2 DEF Crash
    <2>2. messages' \in Seq(Message) /\ DOMAIN messages' = {}
      BY <2>1
    <2>3. TypeOK'
      BY <1>1, <2>1, <2>2 DEF TypeOK
    <2>4. Proper(messages, turn)' /\ (Stores(file) => Proper(file[2], turn))'
      BY <2>1, <2>2 DEF StateInv, Proper, Stores
    <2>5. SavedStays'
      BY <2>1 DEF StateInv, SavedStays, Stores
    <2> QED
      BY <2>1, <2>3, <2>4, <2>5 DEF StateInv, SaidIsTold, OpeningIsLast
  <1>3. CASE Restart
    <2>1. /\ at = "down" /\ at' = "between" /\ restarts' = restarts + 1
          /\ messages' = IF Stores(file) THEN Reload(file[2]) ELSE <<>>
          /\ kept' = IF Stores(file) THEN kept ELSE {}
          /\ added' = {c \in kept' : c[1] # "prompt"}
          /\ UNCHANGED <<file, opening, turn, nextId, compacted>>
      BY <1>3 DEF Restart
    <2>2. restarts' \in 0 .. Restarts
      BY <1>1, <2>1, BoundsAssumption DEF StateInv, TypeOK
    <2>3. messages' \in Seq(Message) /\ Proper(messages', turn) /\ added' \subseteq Carried(messages')
      <3>1. CASE Stores(file)
        <4>1. file[2] \in Seq(Message) /\ Proper(file[2], turn) /\ kept \subseteq Carried(file[2])
          BY <1>1, <3>1 DEF StateInv, TypeOK, SavedStays, Stores, NoFile, Torn
        <4>2. /\ Reload(file[2]) \in Seq(Message) /\ Proper(Reload(file[2]), turn)
              /\ Carried(Reload(file[2])) = Carried(file[2])
          BY <1>1, <4>1, ReloadedWell
        <4>3. messages' = Reload(file[2]) /\ added' \subseteq kept
          BY <2>1, <3>1
        <4> QED
          BY <4>1, <4>2, <4>3
      <3>2. CASE ~Stores(file)
        <4>1. messages' = <<>> /\ DOMAIN messages' = {} /\ added' = {}
          BY <2>1, <3>2
        <4> QED
          BY <4>1 DEF Proper
      <3> QED
        BY <3>1, <3>2
    <2>4. kept' \subseteq kept /\ added' \subseteq kept
      BY <2>1
    <2>5. TypeOK'
      BY <1>1, <2>1, <2>2, <2>3, <2>4 DEF TypeOK
    <2>6. Proper(messages, turn)' /\ (Stores(file) => Proper(file[2], turn))'
      BY <2>1, <2>3 DEF StateInv, Proper, Stores
    <2>7. SaidIsTold' /\ OpeningIsLast'
      BY <2>1, <2>3 DEF SaidIsTold, OpeningIsLast
    <2>8. SavedStays'
      BY <2>1, <2>4 DEF StateInv, SavedStays, Stores
    <2> QED
      BY <2>1, <2>5, <2>6, <2>7, <2>8 DEF StateInv
  <1> QED
    BY <1>2, <1>3

\* No step of the system leaves the invariant.
LEMMA StateStep ==
  ASSUME StateInv, [Next]_vars
  PROVE  StateInv'
  <1>1. CASE UNCHANGED vars
    BY <1>1 DEF StateInv, TypeOK, Proper, Before, Fits, SaidIsTold, OpeningIsLast, SavedStays,
                Stores, vars
  <1>2. CASE Next
    BY <1>2, AddingKeeps, OpenKeeps, AskKeeps, CompactKeeps, SavingKeeps, ClearKeeps, RestartKeeps
    DEF Next
  <1> QED
    BY <1>1, <1>2

\* The invariant holds of every behaviour of a conversation: turns, cleanup,
\* compaction, saves, crashes and restarts.
THEOREM StateHolds == Spec => []StateInv
  <1>1. Init => StateInv
    BY InitState
  <1>2. StateInv /\ [Next]_vars => StateInv'
    BY StateStep
  <1> QED
    BY <1>1, <1>2, PTL DEF Spec

\* The types of the conversation's variables.
THEOREM StateTypes == Spec => []TypeOK
  <1>1. StateInv => TypeOK
    BY DEF StateInv
  <1> QED
    BY <1>1, StateHolds, PTL

\* Whatever compaction and cleanup do to the conversation in memory, what the
\* last complete save wrote is still in the session file (clearInMemory,
\* SaveToFile, LoadFromFile).
THEOREM SavesStay == Spec => []SavedStays
  <1>1. StateInv => SavedStays
    BY DEF StateInv
  <1> QED
    BY <1>1, StateHolds, PTL

\* Cleanup never stubs a result of the last KeepTurns turns, for any sizes of
\* compaction and however much it removed (CleanupMandatory,
\* performCompaction).
THEOREM RecentResultsStay == Spec => []RecentTurnsIntact
  <1>1. StateInv => RecentTurnsIntact
    BY DEF StateInv, Proper, RecentTurnsIntact
  <1> QED
    BY <1>1, StateHolds, PTL

\* While a turn runs, of all prompts with the marker of one that it opened
\* with, the last is that one, even if older ones were reloaded, or come back.
\* Roles differ in their markers, so that of two roles the last need not be
\* the turn's (Invoke).
THEOREM LastPromptsAreCurrent == Spec => []PromptsAreCurrent
  <1>1. StateInv => PromptsAreCurrent
    BY DEF StateInv, OpeningIsLast, PromptsAreCurrent
  <1> QED
    BY <1>1, StateHolds, PTL
-----------------------------------------------------------------------------
\* The item that stands for a message tells what the message tells, or that
\* without what an error says.
LEMMA ItemsTell ==
  ASSUME NEW m \in Message
  PROVE  /\ ToAnthropic(m).tells = Content(m)
         /\ Content(m) \ Errors(Content(m)) \subseteq ToOpenAI(m).tells
         /\ ~IsSystem(m) => ToGemini(m).tells = Content(m)
  <1>1. m.kind \in {"user", "assistant", "call"} \cup Results \cup Systems
    BY DEF Message, Prompts, Prompt, Systems
  <1>2. \A role, part :
          /\ Item(role, part, m).tells = Content(m)
          /\ [Item(role, part, m) EXCEPT !.tells = @ \ Errors(@), !.images = m.kind = "image"].tells
               = Content(m) \ Errors(Content(m))
    BY DEF Item
  <1> QED
    BY <1>1, <1>2 DEF ToAnthropic, ToOpenAI, ToGemini, IsSystem, Systems, Results, Outcomes

\* Every client is told a conversation, Gemini but for the system messages
\* that are not the last and OpenAI but for what errors say.
LEMMA RequestsTell ==
  ASSUME NEW ms \in Seq(Message), NEW client \in Clients
  PROVE  Carried(ms) \ (CASE client = "gemini" -> Overridden(ms)
                          [] client = "openai" -> Errors(Carried(ms))
                          [] OTHER -> {})
           \subseteq Told(Request(client, ms))
  <1> SUFFICES ASSUME NEW i \in DOMAIN ms, NEW c \in Content(ms[i]),
                      client = "gemini" => c \notin Overridden(ms),
                      client = "openai" => c \notin Errors(Carried(ms))
               PROVE  c \in Told(Request(client, ms))
    BY DEF Carried, Tells
  <1>1. ms[i] \in Message
    OBVIOUS
  <1>2. CASE client = "anthropic"
    <2>1. Request(client, ms) =
            [instruction |-> {}, items |-> [j \in DOMAIN ms |-> ToAnthropic(ms[j])]]
      BY <1>2 DEF Request
    <2> QED
      BY <1>1, <2>1, ItemsTell DEF Told
  <1>3. CASE client = "openai"
    <2>1. Request(client, ms) =
            [instruction |-> {}, items |-> [j \in DOMAIN ms |-> ToOpenAI(ms[j])]]
      BY <1>3 DEF Request
    <2>2. c \notin Errors(Content(ms[i]))
      BY <1>3 DEF Errors, Carried, Tells
    <2> QED
      BY <1>1, <2>1, <2>2, ItemsTell DEF Told
  <1>4. CASE client = "gemini"
    <2>1. Request(client, ms) =
            [instruction |-> Instruction(ms),
             items |-> [j \in {k \in DOMAIN ms : ~IsSystem(ms[k])} |-> ToGemini(ms[j])]]
      BY <1>4 DEF Request
    <2>2. CASE IsSystem(ms[i])
      <3>1. c \in Instruction(ms)
        BY <1>4, <2>2 DEF Overridden, Tells
      <3> QED
        BY <2>1, <3>1 DEF Told
    <2>3. CASE ~IsSystem(ms[i])
      BY <1>1, <2>1, <2>3, ItemsTell DEF Told
    <2> QED
      BY <2>2, <2>3
  <1> QED
    BY <1>2, <1>3, <1>4 DEF Clients

\* A model that is called in a turn is told what was said and the turn's
\* prompts, for any sizes of compaction, except for what compactions give up -
\* lost summaries and what the errors that they replace say - the system
\* messages that Gemini drops, and what errors say with OpenAI, which sends
\* the empty Result (performCompaction, toAnthropicMessages,
\* ChatWithToolChoice, convertMessagesToResponsesInputItems).
THEOREM AllIsTold == Spec => []ModelIsTold
  <1>1. StateInv => ModelIsTold
    <2> SUFFICES ASSUME StateInv, at = "in", NEW client \in Clients
                 PROVE  (added \cup IF compacted THEN {} ELSE Carried(opening))
                           \ Withheld(client)
                        \subseteq Told(Request(client, messages))
      BY DEF ModelIsTold
    <2>1. added \cup (IF compacted THEN {} ELSE Carried(opening)) \subseteq Carried(messages)
      BY DEF StateInv, SaidIsTold
    <2>2. messages \in Seq(Message) /\ opening \in Openings \cup {<<>>}
      BY DEF StateInv, TypeOK
    <2>3. Errors(Carried(opening)) = {}
      <3> SUFFICES ASSUME NEW i \in DOMAIN opening, NEW c \in Content(opening[i])
                   PROVE  c[1] # "error"
        BY DEF Errors, Carried, Tells
      <3>1. opening[i] \in Prompts
        BY <2>2, PromptsAssumption
      <3> QED
        BY <3>1, ContentFacts DEF Prompts, Prompt, NoPrompt, IsSystem, Systems
    <2> DEFINE mine == added \cup (IF compacted THEN {} ELSE Carried(opening))
    <2>4. Errors(added) = Errors(mine) /\ mine \subseteq Carried(messages)
      BY <2>1, <2>3 DEF Errors
    <2>5. \A c \in mine : c \in Errors(Carried(messages)) => c \in Errors(mine)
      BY DEF Errors
    <2> HIDE DEF mine
    <2>6. Carried(messages) \ (CASE client = "gemini" -> Overridden(messages)
                                 [] client = "openai" -> Errors(Carried(messages))
                                 [] OTHER -> {})
            \subseteq Told(Request(client, messages))
      BY <2>2, RequestsTell
    <2>7. mine \ Withheld(client) \subseteq Told(Request(client, messages))
      <3>1. CASE client = "gemini"
        BY <2>4, <2>6, <3>1 DEF Withheld
      <3>2. CASE client = "openai"
        BY <2>4, <2>5, <2>6, <3>2 DEF Withheld
      <3>3. CASE client \notin {"gemini", "openai"}
        BY <2>4, <2>6, <3>3 DEF Withheld
      <3> QED
        BY <3>1, <3>2, <3>3
    <2> QED
      BY <2>7 DEF mine
  <1> QED
    BY <1>1, StateHolds, PTL
-----------------------------------------------------------------------------
(***************************************************************************)
(* Calls and their results.  The scan that isSafeSplitPoint makes of the   *)
(* older messages goes from the last to the first, so that a pair counts   *)
(* as an unpaired call.  A split that passes it and still divides a pair   *)
(* has a result without a call in what is summarised: PairsInv says that   *)
(* this result stays with the divided pair for as long as that is told.    *)
(***************************************************************************)

IsCall(m)   == m.kind = "call"
IsResult(m) == m.kind \in Results
IsHalf(m)   == IsCall(m) \/ IsResult(m)
Halves      == {"call", "result"} \X Ids

\* What the summary of a conversation tells, were it reloaded or not.
Summary(ms) == Tells(ms, {i \in DOMAIN ms : ms[i].kind \in {"boundary", "system"}})

\* The message is the given call or result.
IsThe(m, half) == /\ m.id = half[2]
                  /\ (half[1] = "call" /\ IsCall(m)) \/ (half[1] = "result" /\ IsResult(m))

\* No half is there twice, and a result follows its call in one exchange.
PairsFit(ms) ==
  \A i, j \in DOMAIN ms :
    ms[i].id = ms[j].id =>
      /\ (IsCall(ms[i]) /\ IsCall(ms[j])) \/ (IsResult(ms[i]) /\ IsResult(ms[j])) => i = j
      /\ IsCall(ms[i]) /\ IsResult(ms[j]) => i < j /\ \A k \in i .. j : IsHalf(ms[k])

\* The summary is the first message and tells of nothing that is still there,
\* nor of the result of a call that is.  A result whose call is in the summary
\* has company: the result of a call that is not told at all.
SummaryFits(ms) ==
  \A i \in DOMAIN ms :
    /\ ms[i].kind \in {"boundary", "system"} => i = 1
    /\ IsCall(ms[i]) => <<"call", ms[i].id>> \notin Summary(ms)
    /\ IsHalf(ms[i]) => <<"result", ms[i].id>> \notin Summary(ms)
    /\ IsResult(ms[i]) /\ <<"call", ms[i].id>> \in Summary(ms) =>
         \E x \in Ids : <<"result", x>> \in Summary(ms) /\ <<"call", x>> \notin Carried(ms)

Whole(ms) == PairsFit(ms) /\ SummaryFits(ms)

\* The calls and results a conversation tells of have been numbered.
Numbered(ms, n) == \A half \in Halves : half \in Carried(ms) => half[2] < n

PairsInv ==
  /\ Whole(messages) /\ Numbered(messages, nextId)
  /\ at # "down" => Halves \cap Carried(messages) \subseteq added
  /\ Stores(file) => /\ Whole(file[2]) /\ Numbered(file[2], nextId)
                     /\ Halves \cap Carried(file[2]) \subseteq kept
-----------------------------------------------------------------------------
\* What the first scan of isSafeSplitPoint makes of a message and of the count
\* it has got behind it.
CallsStep(m, n) == IF m.kind = "call" THEN n + 1
                   ELSE IF m.kind \in Results /\ n > 0 THEN n - 1 ELSE n
Scan(ms, f, s) == IF s = {} THEN 0 ELSE CallsStep(ms[Min(s)], f[s \ {Min(s)}])

\* A set of numbers that is not empty has a least one.
LEMMA LeastNumber ==
  ASSUME NEW S, S \subseteq Nat, S # {}
  PROVE  \E m \in S : \A k \in S : m <= k
  <1>1. PICK m \in S : \A k \in S : ~(<<k, m>> \in OpToRel(<, Nat))
    BY NatLessThanWellFounded, WFMin, Zenon
  <1>2. \A k \in S : ~(k < m)
    BY <1>1 DEF OpToRel
  <1> QED
    BY <1>2

\* Positions are finitely many.
LEMMA PositionsAreFinite ==
  ASSUME NEW n \in Nat, NEW s, s \subseteq 1 .. n
  PROVE  IsFiniteSet(s) /\ Cardinality(s) \in Nat /\ Cardinality(s) <= n
  <1>1. IsFiniteSet(1 .. n) /\ Cardinality(1 .. n) = n
    BY FS_Interval
  <1>2. IsFiniteSet(s) /\ Cardinality(s) <= Cardinality(1 .. n)
    BY <1>1, FS_Subset
  <1> QED
    BY <1>1, <1>2, FS_CardinalityType

\* The positions of a set, and what is left without the first of them.
LEMMA FirstPosition ==
  ASSUME NEW n \in Nat, NEW s, s \subseteq 1 .. n, s # {}
  PROVE  /\ Min(s) \in s /\ \A k \in s : Min(s) <= k
         /\ IsFiniteSet(s) /\ Cardinality(s) \in Nat
         /\ Cardinality(s \ {Min(s)}) = Cardinality(s) - 1
  <1>1. \E m \in s : \A k \in s : m <= k
    <2>1. s \subseteq Nat
      OBVIOUS
    <2> QED
      BY <2>1, LeastNumber
  <1>2. Min(s) \in s /\ \A k \in s : Min(s) <= k
    BY <1>1 DEF Min
  <1>3. IsFiniteSet(s)
    BY PositionsAreFinite
  <1> QED
    BY <1>2, <1>3, FS_RemoveElement, FS_CardinalityType

\* The scan is a function of the positions that are still to be scanned.
LEMMA ScanIsDefined ==
  ASSUME NEW ms, NEW n \in Nat, DOMAIN ms = 1 .. n
  PROVE  \E f : f = [s \in SUBSET DOMAIN ms |-> Scan(ms, f, s)]
  <1> DEFINE D == SUBSET DOMAIN ms
             Upto(f, k) == /\ f = [s \in D |-> f[s]]
                           /\ \A s \in D : Cardinality(s) <= k => f[s] = Scan(ms, f, s)
             bad == {k \in Nat : ~\E f : Upto(f, k)}
  <1>1. \A s \in D : IsFiniteSet(s) /\ Cardinality(s) \in Nat
    BY PositionsAreFinite
  <1>2. \E f : Upto(f, 0)
    <2> DEFINE f == [s \in D |-> 0]
    <2>1. ASSUME NEW s \in D, Cardinality(s) <= 0 PROVE f[s] = Scan(ms, f, s)
      BY <1>1, <2>1, FS_EmptySet DEF Scan
    <2> QED
      BY <2>1
  <1>3. ASSUME NEW k \in Nat, NEW g, Upto(g, k) PROVE \E f : Upto(f, k + 1)
    <2> DEFINE f == [s \in D |-> IF Cardinality(s) <= k THEN g[s] ELSE Scan(ms, g, s)]
    <2>1. ASSUME NEW s \in D, Cardinality(s) <= k + 1 PROVE f[s] = Scan(ms, f, s)
      <3>1. CASE s = {}
        <4>1. Scan(ms, g, s) = 0 /\ Scan(ms, f, s) = 0
          BY <3>1 DEF Scan
        <4>2. Cardinality(s) = 0
          BY <3>1, FS_EmptySet
        <4>3. Cardinality(s) <= k
          BY <4>2
        <4>4. f[s] = g[s]
          BY <4>3
        <4> QED
          BY <1>3, <4>1, <4>3, <4>4
      <3>2. CASE s # {}
        <4> DEFINE rest == s \ {Min(s)}
        <4>1. rest \in D /\ Cardinality(rest) <= k
          BY SMTT(30), <1>1, <2>1, <3>2, FirstPosition
        <4>2. f[rest] = g[rest]
          BY <4>1
        <4>3. Scan(ms, f, s) = Scan(ms, g, s)
          BY <3>2, <4>2 DEF Scan
        <4>4. f[s] = Scan(ms, g, s)
          BY <1>3
        <4> QED
          BY <4>3, <4>4
      <3> QED
        BY <3>1, <3>2
    <2> QED
      BY <2>1
  <1>4. bad = {}
    <2> SUFFICES ASSUME bad # {} PROVE FALSE
      OBVIOUS
    <2>1. PICK k \in bad : \A j \in bad : k <= j
      <3> HIDE DEF Upto
      <3> QED
        BY LeastNumber
    <2>2. k \in Nat /\ ~\E f : Upto(f, k)
      OBVIOUS
    <2> HIDE DEF Upto
    <2>3. k # 0 /\ k - 1 \in Nat
      BY <1>2, <2>2
    <2>4. k - 1 \notin bad
      BY <2>1, <2>2, <2>3
    <2>5. PICK g : Upto(g, k - 1)
      BY <2>3, <2>4
    <2>6. k - 1 + 1 = k
      BY <2>2
    <2> QED
      BY <1>3, <2>2, <2>3, <2>5, <2>6
  <1>5. PICK f : Upto(f, n)
    <2> HIDE DEF Upto
    <2> QED
      BY <1>4
  <1>6. ASSUME NEW s \in D PROVE Cardinality(s) <= n
    BY PositionsAreFinite
  <1> QED
    BY <1>5, <1>6

\* A count of no unpaired calls: before each call there is a result, since the
\* scan goes from the last message to the first.
LEMMA NoCallLeft ==
  ASSUME NEW ms \in Seq(Message), UnpairedCalls(ms) = 0, NEW c \in DOMAIN ms, IsCall(ms[c])
  PROVE  \E r \in DOMAIN ms : r < c /\ IsResult(ms[r])
  <1> DEFINE n == Len(ms)
             D == SUBSET DOMAIN ms
             G == CHOOSE f : f = [s \in D |-> Scan(ms, f, s)]
             Waits(s) == \E y \in s : IsCall(ms[y]) /\ \A r \in s : r < y => ~IsResult(ms[r])
             Fine(s) == G[s] \in Nat /\ (Waits(s) => G[s] > 0)
             bad == {Cardinality(s) : s \in {t \in D : ~Fine(t)}}
  <1>1. n \in Nat /\ DOMAIN ms = 1 .. n
    OBVIOUS
  <1>2. UnpairedCalls(ms) = G[DOMAIN ms]
    BY DEF UnpairedCalls, FoldRight, MapThenFoldSet, Scan, CallsStep
  <1>3. G = [s \in D |-> Scan(ms, G, s)]
    BY <1>1, ScanIsDefined
  <1> HIDE DEF G
  <1>4. ASSUME NEW s \in D, s # {},
               \A t \in D : Cardinality(t) < Cardinality(s) => Fine(t)
        PROVE  Fine(s)
    <2> DEFINE m == Min(s)
               rest == s \ {m}
    <2>1. /\ m \in s /\ \A k \in s : m <= k
          /\ Cardinality(rest) < Cardinality(s) /\ rest \in D
      <3>1. s \subseteq 1 .. n
        BY <1>1
      <3>2. /\ m \in s /\ \A k \in s : m <= k
            /\ Cardinality(s) \in Nat /\ Cardinality(rest) = Cardinality(s) - 1
        BY <1>1, <1>4, <3>1, FirstPosition
      <3> QED
        BY <1>1, <3>1, <3>2
    <2>2. Fine(rest)
      BY <1>4, <2>1
    <2>3. G[s] = CallsStep(ms[m], G[rest])
      BY <1>3, <1>4 DEF Scan
    <2> HIDE DEF m
    <2>4. G[s] \in Nat
      BY <2>2, <2>3 DEF CallsStep
    <2>5. ASSUME NEW y \in s, IsCall(ms[y]), \A r \in s : r < y => ~IsResult(ms[r])
          PROVE  G[s] > 0
      <3>1. CASE IsCall(ms[m])
        BY <2>2, <2>3, <3>1 DEF CallsStep, IsCall
      <3>2. CASE ~IsCall(ms[m])
        <4>1. y # m /\ y \in rest /\ m < y
          BY <1>1, <2>1, <2>5, <3>2
        <4>2. ~IsResult(ms[m])
          BY <2>1, <2>5, <4>1
        <4>3. G[s] = G[rest]
          BY <2>3, <3>2, <4>2 DEF CallsStep, IsCall, IsResult
        <4>4. Waits(rest)
          BY <2>5, <4>1
        <4> QED
          BY <2>2, <4>3, <4>4
      <3> QED
        BY <3>1, <3>2
    <2> QED
      BY <2>4, <2>5
  <1>5. Fine({})
    <2>1. G[{}] = 0
      BY <1>3 DEF Scan
    <2> QED
      BY <2>1
  <1>6. bad = {}
    <2> SUFFICES ASSUME bad # {} PROVE FALSE
      OBVIOUS
    <2> HIDE DEF Fine
    <2>1. \A s \in D : Cardinality(s) \in Nat
      BY <1>1, PositionsAreFinite
    <2>2. PICK k \in bad : \A j \in bad : k <= j
      <3>1. bad \subseteq Nat
        BY <2>1
      <3> HIDE DEF bad
      <3> QED
        BY <3>1, LeastNumber
    <2>3. PICK s \in D : ~Fine(s) /\ k = Cardinality(s)
      OBVIOUS
    <2>4. ASSUME NEW t \in D, Cardinality(t) < Cardinality(s) PROVE Fine(t)
      <3>1. ASSUME ~Fine(t) PROVE Cardinality(t) \in bad
        BY <3>1
      <3>2. Cardinality(t) \in Nat /\ Cardinality(s) \in Nat
        BY <2>1
      <3> HIDE DEF bad
      <3> QED
        BY <2>2, <2>3, <2>4, <3>1, <3>2
    <2> QED
      BY <1>4, <1>5, <2>3, <2>4
  <1>7. Fine(DOMAIN ms)
    BY <1>6
  <1> QED
    BY <1>2, <1>7
-----------------------------------------------------------------------------
LEMMA HalvesAreNoErrors ==
  ASSUME NEW half \in Halves, NEW contents
  PROVE  half \notin Errors(contents)
  BY DEF Halves, Errors

\* The calls and results that a message tells of.
LEMMA HalvesOfMessages ==
  ASSUME NEW m \in Message
  PROVE  /\ IsHalf(m) => m.id \in Ids
         /\ IsCall(m) => Content(m) = {<<"call", m.id>>}
         /\ IsResult(m) => Content(m) \ Errors(Content(m)) = {<<"result", m.id>>}
         /\ \A half \in Halves : half \in Content(m) =>
              m.kind \in {"boundary", "system"} \/ IsThe(m, half)
  <1>1. CASE m \in Prompts \ {NoPrompt}
    <2>1. PICK marker \in Markers, text \in Texts : m = Prompt(marker, text)
      BY <1>1 DEF Prompts
    <2>2. m.kind = "prompt" /\ Content(m) = {<<"prompt", marker, text>>}
      BY <2>1, ContentFacts DEF Prompt, IsSystem, Systems
    <2>3. \A half \in Halves : half # <<"prompt", marker, text>>
      BY DEF Halves
    <2> QED
      BY <2>2, <2>3 DEF IsHalf, IsCall, IsResult, Results, Outcomes
  <1>2. CASE m \in [kind : {"user", "assistant", "call"} \cup Results, id : Ids,
                   turn : 0 .. MaxTurns, covers : {{}}]
    <2>1. ~IsSystem(m) /\ m.id \in Ids
      BY <1>2 DEF IsSystem, Systems, Results, Outcomes
    <2>2. CASE m.kind \in Results
      <3>1. Content(m) \ Errors(Content(m)) = {<<"result", m.id>>}
        BY <2>2, ContentFacts DEF Errors
      <3>2. ~IsCall(m) /\ IsResult(m)
        BY <2>2 DEF IsCall, IsResult, Results, Outcomes
      <3>3. ASSUME NEW half \in Halves, half \in Content(m) PROVE half = <<"result", m.id>>
        BY <3>1, <3>3, HalvesAreNoErrors
      <3> QED
        BY <2>1, <3>1, <3>2, <3>3 DEF IsHalf, IsThe
    <2>3. CASE m.kind \in {"user", "assistant", "call"}
      <3>1. Content(m) = {<<m.kind, m.id>>} /\ ~IsResult(m)
        BY <2>1, <2>3, ContentFacts DEF IsResult, Results, Outcomes
      <3> QED
        BY <2>1, <2>3, <3>1 DEF IsHalf, IsCall, IsResult, Halves, IsThe
    <2> QED
      BY <1>2, <2>2, <2>3
  <1>3. CASE m \in [kind : {"boundary", "system"}, id : {0}, turn : {0}, covers : SUBSET Contents]
    BY <1>3 DEF IsHalf, IsCall, IsResult, Results, Outcomes
  <1> QED
    BY <1>1, <1>2, <1>3 DEF Message

\* A call or a result is told by its message or by the summary.
LEMMA HalvesTold ==
  ASSUME NEW ms \in Seq(Message), NEW half \in Halves
  PROVE  /\ half \in Carried(ms) <=> half \in Summary(ms) \/ \E i \in DOMAIN ms : IsThe(ms[i], half)
         /\ \A i \in DOMAIN ms :
              half \in Content(ms[i]) =>
                \/ ms[i].kind \in {"boundary", "system"} /\ half \in Summary(ms)
                \/ IsThe(ms[i], half)
         /\ \A i \in DOMAIN ms : IsThe(ms[i], half) =>
              Content(ms[i]) \ Errors(Content(ms[i])) = {half}
  <1>1. half = <<half[1], half[2]>> /\ half[1] \in {"call", "result"}
    BY DEF Halves
  <1>2. ASSUME NEW i \in DOMAIN ms, IsThe(ms[i], half)
        PROVE  Content(ms[i]) \ Errors(Content(ms[i])) = {half}
    <2>1. ms[i] \in Message
      OBVIOUS
    <2>2. CASE IsCall(ms[i])
      <3>1. Content(ms[i]) = {<<"call", ms[i].id>>}
        BY <2>1, <2>2, HalvesOfMessages
      <3>2. ~IsResult(ms[i])
        BY <2>2 DEF IsCall, IsResult, Results, Outcomes
      <3>3. half = <<"call", ms[i].id>>
        BY <1>1, <1>2, <2>2, <3>2 DEF IsThe
      <3> QED
        BY <3>1, <3>3, HalvesAreNoErrors
    <2>3. CASE ~IsCall(ms[i])
      BY <1>1, <1>2, <2>1, <2>3, HalvesOfMessages DEF IsThe
    <2> QED
      BY <2>2, <2>3
  <1>3. ASSUME NEW i \in DOMAIN ms, half \in Content(ms[i])
        PROVE  \/ ms[i].kind \in {"boundary", "system"} /\ half \in Summary(ms)
               \/ IsThe(ms[i], half)
    BY <1>3, HalvesOfMessages DEF Summary, Tells
  <1>4. Summary(ms) \subseteq Carried(ms)
    BY DEF Summary, Carried, Tells
  <1> QED
    BY <1>2, <1>3, <1>4 DEF Carried, Tells

\* What is there is there once.
LEMMA WholeFacts ==
  ASSUME NEW ms \in Seq(Message), Whole(ms), NEW half \in Halves,
         NEW i \in DOMAIN ms, IsThe(ms[i], half)
  PROVE  /\ half \notin Summary(ms)
         /\ \A j \in DOMAIN ms : IsThe(ms[j], half) => i = j
  <1>1. half = <<half[1], half[2]>> /\ half[1] \in {"call", "result"}
    BY DEF Halves
  <1>2. half \notin Summary(ms)
    BY <1>1 DEF Whole, SummaryFits, IsThe, IsHalf
  <1> QED
    BY <1>2 DEF Whole, PairsFit, IsThe

\* The empty conversation is whole.
LEMMA NothingIsWhole == Whole(<<>>) /\ \A half : half \notin Carried(<<>>)
  BY DEF Whole, PairsFit, SummaryFits, Carried, Tells

\* Stubs and reloaded summaries stand where their originals stood.
LEMMA SameShape ==
  ASSUME NEW ms \in Seq(Message), NEW new \in Seq(Message), DOMAIN new = DOMAIN ms, Whole(ms),
         \A i \in DOMAIN ms :
           /\ Content(new[i]) = Content(ms[i]) /\ new[i].id = ms[i].id
           /\ IsCall(new[i]) <=> IsCall(ms[i])
           /\ IsResult(new[i]) <=> IsResult(ms[i])
           /\ new[i].kind \in {"boundary", "system"} <=> ms[i].kind \in {"boundary", "system"}
  PROVE  Whole(new) /\ Carried(new) = Carried(ms)
  <1>1. Summary(new) = Summary(ms) /\ Carried(new) = Carried(ms)
    BY DEF Summary, Carried, Tells
  <1>2. \A i \in DOMAIN ms : IsHalf(new[i]) <=> IsHalf(ms[i])
    BY DEF IsHalf
  <1>3. PairsFit(new)
    <2> SUFFICES ASSUME NEW i \in DOMAIN ms, NEW j \in DOMAIN ms, ms[i].id = ms[j].id
                 PROVE  /\ (IsCall(ms[i]) /\ IsCall(ms[j])) \/ (IsResult(ms[i]) /\ IsResult(ms[j]))
                             => i = j
                        /\ IsCall(ms[i]) /\ IsResult(ms[j]) =>
                             i < j /\ \A k \in i .. j : IsHalf(new[k])
      BY DEF PairsFit
    <2>1. i .. j \subseteq DOMAIN ms
      OBVIOUS
    <2> QED
      BY <1>2, <2>1 DEF Whole, PairsFit
  <1>4. SummaryFits(new)
    BY <1>1, <1>2 DEF Whole, SummaryFits
  <1> QED
    BY <1>1, <1>3, <1>4 DEF Whole

\* Cleanup stubs results and divides nothing.
LEMMA CleanedWhole ==
  ASSUME NEW ms \in Seq(Message), Whole(ms)
  PROVE  Whole(CleanupMandatory(ms)) /\ Carried(CleanupMandatory(ms)) = Carried(ms)
  <1> DEFINE new == CleanupMandatory(ms)
  <1>1. /\ new \in Seq(Message) /\ DOMAIN new = DOMAIN ms
        /\ \A i \in DOMAIN ms :
             \/ new[i] = ms[i]
             \/ ms[i].kind \in {"result", "image"} /\ new[i].kind = "stub" /\ new[i].id = ms[i].id
    BY Cleaned
  <1> HIDE DEF new
  <1>2. ASSUME NEW i \in DOMAIN ms
        PROVE  /\ Content(new[i]) = Content(ms[i]) /\ new[i].id = ms[i].id
               /\ IsCall(new[i]) <=> IsCall(ms[i])
               /\ IsResult(new[i]) <=> IsResult(ms[i])
               /\ new[i].kind \in {"boundary", "system"} <=> ms[i].kind \in {"boundary", "system"}
    <2>1. {"result", "image", "stub"} \subseteq Results \ {"error"}
      BY DEF Results, Outcomes
    <2>2. Content(new[i]) = Content(ms[i])
      BY <1>1, <2>1, ContentFacts
    <2> QED
      BY <1>1, <2>2 DEF IsCall, IsResult, Results, Outcomes
  <1>3. Whole(new) /\ Carried(new) = Carried(ms)
    BY <1>1, <1>2, SameShape
  <1> QED
    BY <1>3 DEF new

\* A save and a load make the boundary a system message.
LEMMA ReloadedWhole ==
  ASSUME NEW ms \in Seq(Message), Proper(ms, turn), turn \in Nat, Whole(ms)
  PROVE  Whole(Reload(ms)) /\ Carried(Reload(ms)) = Carried(ms)
  <1> DEFINE new == Reload(ms)
  <1>1. new \in Seq(Message) /\ DOMAIN new = DOMAIN ms
    BY ReloadedWell DEF Reload
  <1>2. ASSUME NEW i \in DOMAIN ms
        PROVE  /\ Content(new[i]) = Content(ms[i]) /\ new[i].id = ms[i].id
               /\ IsCall(new[i]) <=> IsCall(ms[i])
               /\ IsResult(new[i]) <=> IsResult(ms[i])
               /\ new[i].kind \in {"boundary", "system"} <=> ms[i].kind \in {"boundary", "system"}
    <2>1. CASE ms[i].kind = "boundary"
      <3>1. ms[i] \in [kind : {"boundary", "system"}, id : {0}, turn : {0}, covers : SUBSET Contents]
        <4>1. ms[i] \in Message
          OBVIOUS
        <4> QED
          BY <2>1, <4>1 DEF Message, Prompts, Prompt, Results, Outcomes
      <3>2. new[i] = [ms[i] EXCEPT !.kind = "system"]
        BY <2>1 DEF Reload
      <3> QED
        BY <2>1, <3>1, <3>2, ContentFacts
        DEF IsSystem, Systems, IsCall, IsResult, Results, Outcomes
    <2>2. CASE ms[i].kind = "image"
      <3>1. ms[i] \in Message
        OBVIOUS
      <3>2. ms[i] \in [kind : {"user", "assistant", "call"} \cup Results, id : Ids,
                       turn : 0 .. MaxTurns, covers : {{}}]
        BY <2>2, <3>1 DEF Message, Prompts, Prompt
      <3>3. new[i] = [ms[i] EXCEPT !.kind = "result"]
        BY <2>2 DEF Reload
      <3>4. new[i].kind = "result" /\ new[i].id = ms[i].id
        BY <3>2, <3>3
      <3>5. {"result", "image"} \subseteq Results \ {"error"}
        BY DEF Results, Outcomes
      <3>6. Content(new[i]) = Content(ms[i])
        BY <2>2, <3>4, <3>5, ContentFacts
      <3> QED
        BY <2>2, <3>4, <3>5, <3>6 DEF IsCall, IsResult
    <2>3. CASE ms[i].kind \notin {"boundary", "image"}
      BY <2>3 DEF Reload
    <2> QED
      BY <2>1, <2>2, <2>3
  <1> HIDE DEF new
  <1>3. Whole(new) /\ Carried(new) = Carried(ms)
    BY <1>1, <1>2, SameShape
  <1> QED
    BY <1>3 DEF new

\* New messages whose calls and results have new numbers.
LEMMA AddedWhole ==
  ASSUME NEW ms \in Seq(Message), Whole(ms), NEW n \in Nat, Numbered(ms, n),
         NEW new \in Seq(Message), PairsFit(new),
         \A i \in DOMAIN new : /\ new[i].kind \notin {"boundary", "system"}
                               /\ IsHalf(new[i]) => new[i].id >= n
  PROVE  /\ Whole(ms \o new)
         /\ Carried(ms \o new) = Carried(ms) \cup Carried(new)
         /\ Summary(new) = {}
  <1> DEFINE all == ms \o new
             k == Len(ms)
  <1>1. /\ DOMAIN ms = 1 .. k /\ DOMAIN new = 1 .. Len(new) /\ DOMAIN all = 1 .. k + Len(new)
        /\ k \in Nat /\ Len(new) \in Nat
    OBVIOUS
  <1>2. /\ \A i \in DOMAIN ms : all[i] = ms[i] /\ i \in DOMAIN all
        /\ \A i \in DOMAIN new : all[k + i] = new[i] /\ k + i \in DOMAIN all
        /\ \A i \in DOMAIN all : i \notin DOMAIN ms => i - k \in DOMAIN new /\ all[i] = new[i - k]
    OBVIOUS
  <1> HIDE DEF all, k
  <1>3. Carried(all) = Carried(ms) \cup Carried(new)
    <2>1. \A i \in DOMAIN ms : Content(ms[i]) \subseteq Carried(all)
      BY <1>2 DEF Carried, Tells
    <2>2. \A i \in DOMAIN new : Content(new[i]) \subseteq Carried(all)
      BY <1>2 DEF Carried, Tells
    <2>3. \A i \in DOMAIN all : Content(all[i]) \subseteq Carried(ms) \cup Carried(new)
      BY <1>2 DEF Carried, Tells
    <2> QED
      BY <2>1, <2>2, <2>3 DEF Carried, Tells
  <1>4. Summary(new) = {}
    BY DEF Summary, Tells
  <1>5. Summary(all) = Summary(ms)
    <2>1. \A i \in DOMAIN all : all[i].kind \in {"boundary", "system"} => i \in DOMAIN ms
      BY <1>2
    <2> QED
      BY <1>2, <2>1 DEF Summary, Tells
  <1>6. Summary(ms) \subseteq Carried(ms)
    BY DEF Summary, Carried, Tells
  <1>7. ASSUME NEW i \in DOMAIN ms, IsHalf(ms[i]) PROVE ms[i].id \in Nat /\ ms[i].id < n
    <2>1. ms[i] \in Message /\ ms[i].id \in Ids
      BY <1>7, HalvesOfMessages
    <2>2. PICK half \in Halves : half \in Content(ms[i]) /\ half[2] = ms[i].id
      <3>1. <<"call", ms[i].id>> \in Halves /\ <<"result", ms[i].id>> \in Halves
        BY <2>1 DEF Halves
      <3>2. <<"call", ms[i].id>> \in Content(ms[i]) \/ <<"result", ms[i].id>> \in Content(ms[i])
        BY <1>7, <2>1, HalvesOfMessages DEF IsHalf
      <3> QED
        BY <3>1, <3>2
    <2>3. half \in Carried(ms)
      BY <2>2 DEF Carried, Tells
    <2> QED
      BY <2>1, <2>2, <2>3 DEF Numbered, Ids
  <1>8. ASSUME NEW i \in DOMAIN new, IsHalf(new[i])
        PROVE  /\ new[i].id \in Ids /\ new[i].id >= n
               /\ \A type \in {"call", "result"} : <<type, new[i].id>> \notin Carried(ms)
    <2>1. new[i].id \in Ids /\ new[i].id >= n
      BY <1>8, HalvesOfMessages
    <2> SUFFICES ASSUME NEW type \in {"call", "result"}, <<type, new[i].id>> \in Carried(ms)
                 PROVE  FALSE
      BY <2>1
    <2>2. <<type, new[i].id>> \in Halves
      BY <2>1 DEF Halves
    <2> QED
      BY <2>1, <2>2 DEF Numbered, Ids
  <1>9. PairsFit(all)
    <2> SUFFICES ASSUME NEW i \in DOMAIN all, NEW j \in DOMAIN all, all[i].id = all[j].id,
                        IsHalf(all[i]), IsHalf(all[j])
                 PROVE  /\ (IsCall(all[i]) /\ IsCall(all[j])) \/ (IsResult(all[i]) /\ IsResult(all[j]))
                             => i = j
                        /\ IsCall(all[i]) /\ IsResult(all[j]) =>
                             i < j /\ \A l \in i .. j : IsHalf(all[l])
      BY DEF PairsFit, IsHalf
    <2>1. CASE i \in DOMAIN ms /\ j \in DOMAIN ms
      <3>1. \A l \in i .. j : l \in DOMAIN ms /\ all[l] = ms[l]
        BY <1>1, <1>2, <2>1
      <3> QED
        BY <1>2, <2>1, <3>1 DEF Whole, PairsFit
    <2>2. CASE i \notin DOMAIN ms /\ j \notin DOMAIN ms
      <3>1. /\ i - k \in DOMAIN new /\ all[i] = new[i - k]
            /\ j - k \in DOMAIN new /\ all[j] = new[j - k]
        BY <1>2, <2>2
      <3>2. \A l \in i .. j : l - k \in (i - k) .. (j - k) /\ l - k \in DOMAIN new
                              /\ all[l] = new[l - k]
        <4> SUFFICES ASSUME NEW l \in i .. j
                     PROVE  l - k \in (i - k) .. (j - k) /\ l - k \in DOMAIN new
                            /\ all[l] = new[l - k]
          OBVIOUS
        <4>1. l \in DOMAIN all /\ l \notin DOMAIN ms
          BY <1>1, <2>2
        <4>2. l - k \in DOMAIN new /\ all[l] = new[l - k]
          BY <1>2, <4>1
        <4>3. i \in Int /\ j \in Int /\ l \in Int /\ i <= l /\ l <= j
          BY <1>1
        <4> QED
          BY <1>1, <4>2, <4>3
      <3>3. i - k = j - k => i = j
        BY <1>1
      <3>4. i - k < j - k => i < j
        BY <1>1
      <3> QED
        BY <3>1, <3>2, <3>3, <3>4 DEF PairsFit
    <2>3. CASE i \in DOMAIN ms /\ j \notin DOMAIN ms
      BY <1>2, <1>7, <1>8, <2>3 DEF Ids
    <2>4. CASE i \notin DOMAIN ms /\ j \in DOMAIN ms
      BY <1>2, <1>7, <1>8, <2>4 DEF Ids
    <2> QED
      BY <2>1, <2>2, <2>3, <2>4
  <1>10. SummaryFits(all)
    <2>1. ASSUME NEW i \in DOMAIN ms
          PROVE  /\ all[i].kind \in {"boundary", "system"} => i = 1
                 /\ IsCall(all[i]) => <<"call", all[i].id>> \notin Summary(all)
                 /\ IsHalf(all[i]) => <<"result", all[i].id>> \notin Summary(all)
                 /\ IsResult(all[i]) /\ <<"call", all[i].id>> \in Summary(all) =>
                      \E x \in Ids : <<"result", x>> \in Summary(all) /\ <<"call", x>> \notin Carried(all)
      <3>1. all[i] = ms[i]
        BY <1>2
      <3>2. ASSUME NEW x \in Ids, <<"result", x>> \in Summary(ms), <<"call", x>> \notin Carried(ms)
            PROVE  <<"call", x>> \notin Carried(new)
        <4>1. <<"result", x>> \in Halves /\ <<"call", x>> \in Halves
          BY DEF Halves
        <4>2. x < n
          BY <1>6, <3>2, <4>1 DEF Numbered
        <4>3. SUFFICES ASSUME NEW l \in DOMAIN new, IsThe(new[l], <<"call", x>>) PROVE FALSE
          BY <1>4, <4>1, HalvesTold
        <4> QED
          BY <1>8, <4>2, <4>3 DEF IsThe, IsHalf, Ids
      <3> QED
        BY <1>3, <1>5, <3>1, <3>2 DEF Whole, SummaryFits
    <2>2. ASSUME NEW i \in DOMAIN all, i \notin DOMAIN ms
          PROVE  /\ all[i].kind \notin {"boundary", "system"}
                 /\ IsHalf(all[i]) => /\ <<"call", all[i].id>> \notin Summary(all)
                                      /\ <<"result", all[i].id>> \notin Summary(all)
      <3>1. i - k \in DOMAIN new /\ all[i] = new[i - k]
        BY <1>2, <2>2
      <3> QED
        BY <1>5, <1>6, <1>8, <3>1
    <2>3. \A m : IsCall(m) \/ IsResult(m) => IsHalf(m)
      BY DEF IsHalf
    <2> QED
      BY <2>1, <2>2, <2>3 DEF SummaryFits
  <1> QED
    BY <1>3, <1>4, <1>9, <1>10 DEF Whole, all

\* Where compaction divides a call from its result, what it replaces has a
\* result before its first call: one whose call is not there.
LEMMA DividedPairs ==
  ASSUME NEW ms \in Seq(Message), Whole(ms), Replaced(ms) > 0,
         NEW i \in 1 .. Replaced(ms), NEW j \in DOMAIN ms, j > Replaced(ms),
         IsCall(ms[i]), IsResult(ms[j]), ms[i].id = ms[j].id
  PROVE  \E y \in 1 .. Replaced(ms) :
           IsResult(ms[y]) /\ \A k \in 1 .. y : ~IsCall(ms[k])
  <1> DEFINE n == Replaced(ms)
             last == LastBoundary(ms)
             e == SubSeq(ms, last + 1, Len(ms))
             split == SplitPoint(e)
             older == SubSeq(e, 1, split)
  <1>1. \A l \in DOMAIN ms : ms[l].kind = "boundary" => l = 1
    BY DEF Whole, SummaryFits
  <1>2. n \in 1 .. Len(ms) /\ last \in {0, 1} /\ last < n /\ Len(ms) \in Nat
    BY <1>1, FirstBoundary, ReplacedBounds
  <1>3. \A l \in DOMAIN ms : l <= last => ~IsCall(ms[l])
    BY <1>1, FirstBoundary DEF IsCall
  <1>4. split = n - last
    <2>1. n = IF split = 0 THEN 0 ELSE last + split
      BY DEF Replaced
    <2>2. e \in Seq(Message)
      <3> HIDE DEF last
      <3> QED
        BY <1>2, SubSeqProperties
    <2>3. split \in Nat
      <3> HIDE DEF e
      <3>1. SplitPoint(e) \in 0 .. Len(e)
        BY <2>2, SplitPointBounds
      <3> QED
        BY <3>1
    <2> HIDE DEF n, last, split
    <2> QED
      BY <1>2, <2>1, <2>3
  <1>5. /\ e \in Seq(Message) /\ Len(e) = Len(ms) - last
        /\ \A l \in 1 .. Len(ms) - last : e[l] = ms[last + l]
    <2> HIDE DEF last
    <2> QED
      BY <1>2, SubSeqProperties
  <1> HIDE DEF n, last, e
  <1>6. /\ i \in DOMAIN ms /\ i <= n /\ j > n /\ last < i
        /\ i < j /\ \A l \in i .. j : IsHalf(ms[l])
    <2>1. i \in DOMAIN ms /\ i <= n /\ j > n
      BY <1>2 DEF n
    <2>2. i < j /\ \A l \in i .. j : IsHalf(ms[l])
      BY <2>1 DEF Whole, PairsFit
    <2>3. last < i
      BY <1>2, <1>3, <2>1
    <2> QED
      BY <2>1, <2>2, <2>3
  <1>7. n < Len(ms)
    BY <1>2, <1>6
  <1>8. CASE split = BeforeBlocks(e)
    <2> DEFINE starts == {l \in DOMAIN e : IsUser(e[l]) /\ Cardinality(UsersFrom(e, l)) = KeepBlocks}
    <2>1. BeforeBlocks(e) = IF starts = {} THEN 0 ELSE (CHOOSE l \in starts : TRUE) - 1
      BY DEF BeforeBlocks
    <2> HIDE DEF starts, split
    <2>2. starts # {} /\ (CHOOSE l \in starts : TRUE) \in starts
      BY <1>2, <1>4, <1>8, <2>1
    <2>3. PICK l \in starts : l = CHOOSE k \in starts : TRUE
      BY <2>2
    <2>4. l \in 1 .. Len(e) /\ IsUser(e[l]) /\ split = l - 1
      BY <1>5, <1>8, <2>1, <2>2, <2>3 DEF starts
    <2>5. l = n + 1 - last
      BY <1>2, <1>4, <2>4
    <2>6. e[l] = ms[n + 1]
      BY <1>2, <1>5, <2>4, <2>5
    <2>7. IsHalf(ms[n + 1])
      BY <1>2, <1>6
    <2> QED
      BY <2>4, <2>6, <2>7 DEF IsHalf, IsCall, IsResult, IsUser, Results, Outcomes
  <1>9. CASE split # BeforeBlocks(e)
    <2>1. IsSafeSplitPoint(e, split)
      <3> DEFINE safe == {s \in 1 .. Len(e) - KeepMessages : IsSafeSplitPoint(e, s)}
      <3>1. split = IF safe = {} THEN 0 ELSE CHOOSE s \in safe : \A t \in safe : t <= s
        BY <1>9 DEF SplitPoint, FindSafeSplitPoint
      <3>2. safe \subseteq 0 .. Len(e) /\ Len(e) \in Nat
        BY <1>2, <1>5, SizesAssumption
      <3>3. split # 0
        BY <1>2, <1>4
      <3> HIDE DEF safe, split
      <3>4. split \in safe
        BY <3>1, <3>2, <3>3, LastOfPositions
      <3> QED
        BY <3>4 DEF safe
    <2>2. UnpairedCalls(older) = 0
      BY <2>1 DEF IsSafeSplitPoint
    <2> HIDE DEF split
    <2>3. /\ older \in Seq(Message) /\ DOMAIN older = 1 .. n - last
          /\ \A l \in 1 .. n - last : older[l] = ms[last + l]
      <3>1. /\ older \in Seq(Message) /\ Len(older) = split
            /\ \A l \in 1 .. split : older[l] = e[l]
        BY <1>2, <1>4, <1>5, SubSeqProperties
      <3> QED
        BY <1>2, <1>4, <1>5, <3>1
    <2> HIDE DEF older
    <2> DEFINE C == {l \in DOMAIN older : IsCall(older[l])}
    <2>4. i - last \in C
      BY <1>2, <1>6, <2>3
    <2>5. PICK c \in C : \A l \in C : c <= l
      <3>1. C \subseteq Nat /\ C # {}
        <4>1. DOMAIN older \subseteq Nat
          BY <2>3
        <4>2. C \subseteq DOMAIN older
          OBVIOUS
        <4> HIDE DEF C
        <4> QED
          BY <2>4, <4>1, <4>2
      <3> HIDE DEF C
      <3> QED
        BY <3>1, LeastNumber
    <2>6. PICK r \in DOMAIN older : r < c /\ IsResult(older[r])
      BY <2>2, <2>3, NoCallLeft
    <2>7. last + r \in 1 .. n /\ IsResult(ms[last + r])
      <3>1. r \in 1 .. n - last /\ older[r] = ms[last + r]
        BY <2>3, <2>6
      <3>2. last + r \in 1 .. n
        BY <1>2, <3>1
      <3> QED
        BY <2>6, <3>1, <3>2
    <2>8. ASSUME NEW k \in 1 .. last + r PROVE ~IsCall(ms[k])
      <3>1. CASE k <= last
        BY <1>2, <1>3, <3>1
      <3>2. CASE k > last
        <4>1. k - last \in DOMAIN older /\ k - last < c /\ older[k - last] = ms[k]
          <5>1. k \in Int /\ r \in Int /\ c \in Int /\ k <= last + r /\ r < c /\ r <= n - last
            BY <1>2, <2>3, <2>6
          <5>2. k - last \in 1 .. n - last /\ k - last < c /\ last + (k - last) = k
            BY <1>2, <3>2, <5>1
          <5> QED
            BY <2>3, <5>2
        <4>2. k - last \notin C
          <5>1. c \in Int /\ k - last \in Int
            BY <2>3, <4>1
          <5> HIDE DEF C
          <5> QED
            BY <2>5, <4>1, <5>1
        <4> QED
          BY <4>1, <4>2
      <3> QED
        BY <1>2, <3>1, <3>2
    <2> QED
      BY <2>7, <2>8 DEF n
  <1> QED
    BY <1>8, <1>9

\* What the new boundary tells was told by what it replaces.
LEMMA BoundaryTells ==
  ASSUME NEW ms \in Seq(Message), \A i \in DOMAIN ms : ms[i].kind = "boundary" => i = 1,
         Replaced(ms) > 0, NEW summarised \in BOOLEAN,
         NEW c \in Content(Compact(ms, summarised)[1])
  PROVE  /\ summarised
         /\ \E i \in 1 .. Replaced(ms) :
              ms[i].kind \notin {"system", "prompt"} /\ c \in Content(ms[i])
  <1> DEFINE n == Replaced(ms)
             last == LastBoundary(ms)
             older == SubSeq(ms, last + 1, n)
             rest == SubSeq(ms, n + 1, Len(ms))
             covers == IF summarised THEN Summarise(ms, last, older) ELSE {}
  <1>1. n \in 1 .. Len(ms) /\ last \in {0, 1} /\ last < n /\ Len(ms) \in Nat
    BY FirstBoundary, ReplacedBounds
  <1>2. Compact(ms, summarised) = <<Boundary(covers)>> \o rest
    BY <1>1 DEF Compact
  <1>3. /\ older \in Seq(Message) /\ Len(older) = n - last
        /\ \A i \in 1 .. n - last : older[i] = ms[last + i]
    <2> HIDE DEF n, last
    <2> QED
      BY <1>1, SubSeqProperties
  <1>4. rest \in Seq(Message)
    <2> HIDE DEF n
    <2> QED
      BY <1>1, SubSeqProperties
  <1>5. Compact(ms, summarised)[1] = Boundary(covers)
    <2> HIDE DEF covers, rest
    <2> QED
      BY <1>2, <1>4
  <1>6. c \in covers
    <2>1. Content(Boundary(covers)) = covers
      BY ContentFacts DEF Boundary, IsSystem, Systems
    <2> HIDE DEF covers
    <2> QED
      BY <1>5, <2>1
  <1>7. summarised
    BY <1>6
  <1>8. CASE last = 1 /\ c \in ms[1].covers
    <2>1. ms[1].kind = "boundary"
      BY <1>8, FirstBoundary
    <2>2. c \in Content(ms[1])
      BY <1>8, <2>1, ContentFacts DEF IsSystem, Systems
    <2> QED
      BY <1>1, <1>7, <2>1, <2>2
  <1>9. CASE ~(last = 1 /\ c \in ms[1].covers)
    <2>1. c \in Tells(older, {l \in DOMAIN older : older[l].kind \notin Systems})
      <3> HIDE DEF older, last
      <3> QED
        BY <1>1, <1>6, <1>9 DEF Summarise, WrittenOut
    <2> HIDE DEF older
    <2>2. PICK l \in DOMAIN older : older[l].kind \notin Systems /\ c \in Content(older[l])
      BY <2>1 DEF Tells
    <2> HIDE DEF n, last
    <2>3. last + l \in 1 .. n /\ ms[last + l] = older[l]
      BY <1>1, <1>3
    <2>4. n = Replaced(ms)
      BY DEF n
    <2> QED
      BY <1>7, <2>2, <2>3, <2>4 DEF Systems
  <1> QED
    BY <1>8, <1>9

\* The summary of a compacted conversation is its boundary.
LEMMA CompactedSummary ==
  ASSUME NEW ms \in Seq(Message), Whole(ms), Replaced(ms) > 0, NEW summarised \in BOOLEAN,
         NEW half \in Halves
  PROVE  LET n   == Replaced(ms)
             new == Compact(ms, summarised)
         IN  /\ half \in Summary(new) =>
                  /\ summarised
                  /\ \/ ms[1].kind = "boundary" /\ half \in Summary(ms)
                     \/ \E i \in 1 .. n : IsThe(ms[i], half)
             /\ summarised /\ ms[1].kind = "boundary" /\ half \in Summary(ms) =>
                  half \in Summary(new)
             /\ summarised => \A i \in 1 .. n : IsThe(ms[i], half) => half \in Summary(new)
             /\ \A i \in 2 .. Len(new) : new[i].kind \notin {"boundary", "system"}
  <1> DEFINE n == Replaced(ms)
             new == Compact(ms, summarised)
  <1>1. \A i \in DOMAIN ms : ms[i].kind \in {"boundary", "system"} => i = 1
    BY DEF Whole, SummaryFits
  <1>2. n \in 1 .. Len(ms) /\ Len(ms) \in Nat /\ DOMAIN ms = 1 .. Len(ms)
    BY <1>1, ReplacedBounds
  <1>3. /\ new \in Seq(Message) /\ Len(new) = 1 + Len(ms) - n /\ new[1].kind = "boundary"
        /\ \A i \in 2 .. Len(new) : new[i] = ms[i + n - 1] /\ i + n - 1 \in DOMAIN ms
        /\ summarised =>
             \A i \in 1 .. n : ms[i].kind \notin {"system", "prompt"} =>
               Content(ms[i]) \ Errors(Content(ms[i])) \subseteq Content(new[1])
    BY <1>1, Compacted
  <1>4. half \in Content(new[1]) =>
          summarised /\ \E i \in 1 .. n :
                           ms[i].kind \notin {"system", "prompt"} /\ half \in Content(ms[i])
    BY <1>1, BoundaryTells
  <1> HIDE DEF n, new
  <1>0. DOMAIN new = 1 .. Len(new) /\ Len(new) \in Nat /\ Len(new) >= 1
    BY <1>2, <1>3
  <1>5. \A i \in 2 .. Len(new) : new[i].kind \notin {"boundary", "system"}
    <2> SUFFICES ASSUME NEW i \in 2 .. Len(new) PROVE new[i].kind \notin {"boundary", "system"}
      OBVIOUS
    <2>1. new[i] = ms[i + n - 1] /\ i + n - 1 \in DOMAIN ms
      BY <1>3
    <2>2. i + n - 1 # 1
      BY <1>2
    <2> QED
      BY <1>1, <2>1, <2>2
  <1>6. Summary(new) = Content(new[1])
    <2>1. {i \in DOMAIN new : new[i].kind \in {"boundary", "system"}} = {1}
      <3>1. \A i \in DOMAIN new : i = 1 \/ i \in 2 .. Len(new)
        BY <1>0
      <3> QED
        BY <1>0, <1>3, <1>5, <3>1
    <2> QED
      BY <2>1 DEF Summary, Tells
  <1>7. half \in Summary(new) =>
          /\ summarised
          /\ \/ ms[1].kind = "boundary" /\ half \in Summary(ms)
             \/ \E i \in 1 .. n : IsThe(ms[i], half)
    <2> SUFFICES ASSUME half \in Summary(new)
                 PROVE  /\ summarised
                        /\ \/ ms[1].kind = "boundary" /\ half \in Summary(ms)
                           \/ \E i \in 1 .. n : IsThe(ms[i], half)
      OBVIOUS
    <2>1. PICK i \in 1 .. n : ms[i].kind \notin {"system", "prompt"} /\ half \in Content(ms[i])
      BY <1>4, <1>6
    <2>2. i \in DOMAIN ms
      BY <1>2
    <2>3. \/ ms[i].kind \in {"boundary", "system"} /\ half \in Summary(ms)
          \/ IsThe(ms[i], half)
      BY <2>1, <2>2, HalvesTold
    <2> QED
      BY <1>1, <1>4, <1>6, <2>1, <2>2, <2>3
  <1>8. summarised /\ ms[1].kind = "boundary" /\ half \in Summary(ms) => half \in Summary(new)
    <2>1. {i \in DOMAIN ms : ms[i].kind \in {"boundary", "system"}} \subseteq {1}
      BY <1>1
    <2>2. Summary(ms) \subseteq Content(ms[1])
      BY <2>1 DEF Summary, Tells
    <2>3. 1 \in 1 .. n
      BY <1>2
    <2> SUFFICES ASSUME summarised, ms[1].kind = "boundary", half \in Summary(ms)
                 PROVE  half \in Summary(new)
      OBVIOUS
    <2>4. Content(ms[1]) \ Errors(Content(ms[1])) \subseteq Content(new[1])
      BY <1>3, <2>3
    <2> QED
      BY <1>6, <2>2, <2>4, HalvesAreNoErrors
  <1>9. ASSUME summarised, NEW i \in 1 .. n, IsThe(ms[i], half) PROVE half \in Summary(new)
    <2>1. i \in DOMAIN ms /\ Content(ms[i]) \ Errors(Content(ms[i])) = {half}
      BY <1>2, <1>9, HalvesTold
    <2>2. ms[i].kind \notin {"system", "prompt"}
      BY <1>9 DEF IsThe, IsCall, IsResult, Results, Outcomes
    <2> QED
      BY <1>3, <1>6, <1>9, <2>1, <2>2
  <1> QED
    BY <1>5, <1>7, <1>8, <1>9 DEF n, new

\* Compaction leaves a conversation whole.
LEMMA CompactedWhole ==
  ASSUME NEW ms \in Seq(Message), Whole(ms), Replaced(ms) > 0, NEW summarised \in BOOLEAN
  PROVE  LET new == Compact(ms, summarised)
         IN  /\ Whole(new)
             /\ \A half \in Halves : half \in Carried(new) =>
                  half \in Carried(ms) /\ half \notin GivenUp(ms, summarised)
  <1> DEFINE n == Replaced(ms)
             new == Compact(ms, summarised)
             old == SubSeq(ms, 1, n)
  <1>1. \A i \in DOMAIN ms : ms[i].kind \in {"boundary", "system"} => i = 1
    BY DEF Whole, SummaryFits
  <1>2. n \in 1 .. Len(ms) /\ Len(ms) \in Nat /\ DOMAIN ms = 1 .. Len(ms)
    BY <1>1, ReplacedBounds
  <1>3. /\ new \in Seq(Message) /\ Len(new) = 1 + Len(ms) - n /\ new[1].kind = "boundary"
        /\ \A i \in 2 .. Len(new) : new[i] = ms[i + n - 1] /\ i + n - 1 \in DOMAIN ms
    BY <1>1, Compacted
  <1>4. ASSUME NEW half \in Halves
        PROVE  /\ half \in Summary(new) =>
                    /\ summarised
                    /\ \/ ms[1].kind = "boundary" /\ half \in Summary(ms)
                       \/ \E i \in 1 .. n : IsThe(ms[i], half)
               /\ summarised /\ ms[1].kind = "boundary" /\ half \in Summary(ms) =>
                    half \in Summary(new)
               /\ summarised => \A i \in 1 .. n : IsThe(ms[i], half) => half \in Summary(new)
               /\ \A i \in 2 .. Len(new) : new[i].kind \notin {"boundary", "system"}
    BY CompactedSummary
  <1>5. \A i \in 1 .. n, j \in DOMAIN ms :
          j > n /\ IsCall(ms[i]) /\ IsResult(ms[j]) /\ ms[i].id = ms[j].id =>
            \E y \in 1 .. n : IsResult(ms[y]) /\ \A k \in 1 .. y : ~IsCall(ms[k])
    BY DividedPairs
  <1>6. /\ old \in Seq(Message) /\ DOMAIN old = 1 .. n
        /\ \A i \in 1 .. n : old[i] = ms[i]
    <2> HIDE DEF n
    <2>1. /\ SubSeq(ms, 1, n) \in Seq(Message) /\ Len(SubSeq(ms, 1, n)) = n
          /\ \A i \in 1 .. n : SubSeq(ms, 1, n)[i] = ms[1 + i - 1]
      BY <1>2, SubSeqProperties
    <2> QED
      BY <1>2, <2>1
  <1>7. GivenUp(ms, summarised) =
          IF summarised
          THEN Errors(Carried(old))
                 \cup Tells(old, {i \in DOMAIN old : old[i].kind \in {"system", "prompt"}})
          ELSE Carried(old)
    BY DEF GivenUp
  <1> HIDE DEF n, new, old
  <1>8. ASSUME NEW i \in 2 .. Len(new)
        PROVE  /\ i + n - 1 \in DOMAIN ms /\ i + n - 1 > n /\ new[i] = ms[i + n - 1]
    BY <1>2, <1>3
  <1>9. DOMAIN new = 1 .. Len(new) /\ \A i \in DOMAIN new : i = 1 \/ i \in 2 .. Len(new)
    BY <1>2, <1>3
  <1>10. ~IsHalf(new[1])
    BY <1>3 DEF IsHalf, IsCall, IsResult, Results, Outcomes
  <1>11. PairsFit(new)
    <2> SUFFICES ASSUME NEW i \in DOMAIN new, NEW j \in DOMAIN new, new[i].id = new[j].id,
                        IsHalf(new[i]), IsHalf(new[j])
                 PROVE  /\ (IsCall(new[i]) /\ IsCall(new[j])) \/ (IsResult(new[i]) /\ IsResult(new[j]))
                             => i = j
                        /\ IsCall(new[i]) /\ IsResult(new[j]) =>
                             i < j /\ \A l \in i .. j : IsHalf(new[l])
      BY DEF PairsFit, IsHalf
    <2>1. i \in 2 .. Len(new) /\ j \in 2 .. Len(new)
      BY <1>9, <1>10
    <2>2. /\ i + n - 1 \in DOMAIN ms /\ new[i] = ms[i + n - 1]
          /\ j + n - 1 \in DOMAIN ms /\ new[j] = ms[j + n - 1]
      BY <1>8, <2>1
    <2>3. /\ i + n - 1 = j + n - 1 => i = j
          /\ i + n - 1 < j + n - 1 => i < j
      BY <1>2, <2>1
    <2>4. ASSUME NEW l \in i .. j
          PROVE  l + n - 1 \in (i + n - 1) .. (j + n - 1) /\ new[l] = ms[l + n - 1]
      <3>1. l \in 2 .. Len(new)
        BY <2>1
      <3>2. new[l] = ms[l + n - 1]
        BY <1>8, <3>1
      <3>3. n \in Int /\ i \in Int /\ j \in Int /\ l \in Int /\ i <= l /\ l <= j
        BY <1>2, <2>1
      <3>4. i + n - 1 <= l + n - 1 /\ l + n - 1 <= j + n - 1 /\ l + n - 1 \in Int
        BY <3>3
      <3> QED
        BY <3>2, <3>3, <3>4
    <2> QED
      BY <2>2, <2>3, <2>4 DEF Whole, PairsFit
  <1>12. ASSUME NEW half \in Halves, half \in Carried(new)
         PROVE  /\ half \in Carried(ms)
                /\ \/ half \in Summary(new)
                   \/ \E p \in DOMAIN ms : p > n /\ IsThe(ms[p], half)
    <2>1. half \in Summary(new) \/ \E i \in DOMAIN new : IsThe(new[i], half)
      BY <1>3, <1>12, HalvesTold
    <2>2. CASE half \in Summary(new)
      <3>1. half \in Summary(ms) \/ \E i \in DOMAIN ms : IsThe(ms[i], half)
        BY <1>2, <1>4, <2>2
      <3> QED
        BY <2>2, <3>1, HalvesTold
    <2>3. ASSUME NEW i \in DOMAIN new, IsThe(new[i], half)
          PROVE  \E p \in DOMAIN ms : p > n /\ IsThe(ms[p], half)
      <3>1. i \in 2 .. Len(new)
        BY <1>9, <1>10, <2>3 DEF IsThe, IsHalf
      <3> QED
        BY <1>8, <2>3, <3>1
    <2> QED
      BY <2>1, <2>2, <2>3, HalvesTold
  <1>13. \A i \in 2 .. Len(new) : new[i].kind \notin {"boundary", "system"}
    <2>1. \A i \in 2 .. Len(new) : i + n - 1 # 1
      BY <1>2
    <2> QED
      BY <1>1, <1>8, <2>1
  <1>14. SummaryFits(new)
    <2>1. ASSUME NEW i \in 2 .. Len(new), NEW half \in Halves, IsThe(new[i], half)
          PROVE  half \notin Summary(new)
      <3>1. IsThe(ms[i + n - 1], half) /\ i + n - 1 \in DOMAIN ms /\ i + n - 1 > n
        BY <1>8, <2>1
      <3>2. half \notin Summary(ms) /\ \A j \in DOMAIN ms : IsThe(ms[j], half) => i + n - 1 = j
        BY <3>1, WholeFacts
      <3> QED
        BY <1>2, <1>4, <3>1, <3>2
    <2>2. ASSUME NEW i \in 2 .. Len(new), IsCall(new[i]), <<"result", new[i].id>> \in Summary(new)
          PROVE  FALSE
      <3>1. IsCall(ms[i + n - 1]) /\ i + n - 1 \in DOMAIN ms /\ i + n - 1 > n
            /\ new[i] = ms[i + n - 1]
        BY <1>8, <2>2
      <3>2. new[i].id \in Ids /\ <<"result", new[i].id>> \in Halves
        BY <3>1, HalvesOfMessages DEF IsHalf, Halves
      <3>3. PICK q \in 1 .. n : IsThe(ms[q], <<"result", new[i].id>>)
        <4>1. <<"result", new[i].id>> \notin Summary(ms)
          BY <3>1 DEF Whole, SummaryFits, IsHalf
        <4> QED
          BY <1>4, <2>2, <3>2, <4>1
      <3>4. i + n - 1 < q
        BY <1>2, <3>1, <3>3 DEF Whole, PairsFit, IsThe
      <3> QED
        BY <1>2, <3>1, <3>4
    <2>3. ASSUME NEW i \in 2 .. Len(new), IsResult(new[i]), <<"call", new[i].id>> \in Summary(new)
          PROVE  \E x \in Ids : <<"result", x>> \in Summary(new) /\ <<"call", x>> \notin Carried(new)
      <3> DEFINE p == i + n - 1
      <3>1. IsResult(ms[p]) /\ p \in DOMAIN ms /\ p > n /\ new[i] = ms[p]
        BY <1>8, <2>3
      <3> HIDE DEF p
      <3>2. new[i].id \in Ids /\ <<"call", new[i].id>> \in Halves
        BY <3>1, HalvesOfMessages DEF IsHalf, Halves
      <3>3. summarised
        BY <1>4, <2>3, <3>2
      <3>4. ASSUME NEW q \in DOMAIN ms, IsResult(ms[q]), <<"call", ms[q].id>> \in Summary(ms),
                   ms[1].kind = "boundary"
            PROVE  \E x \in Ids : <<"result", x>> \in Summary(new) /\ <<"call", x>> \notin Carried(new)
        <4>1. PICK x \in Ids : <<"result", x>> \in Summary(ms) /\ <<"call", x>> \notin Carried(ms)
          BY <3>4 DEF Whole, SummaryFits
        <4>2. <<"result", x>> \in Halves /\ <<"call", x>> \in Halves
          BY DEF Halves
        <4> QED
          BY <1>4, <1>12, <3>3, <3>4, <4>1, <4>2
      <3>5. CASE ms[1].kind = "boundary" /\ <<"call", new[i].id>> \in Summary(ms)
        BY <3>1, <3>4, <3>5
      <3>6. ASSUME NEW q \in 1 .. n, IsThe(ms[q], <<"call", new[i].id>>)
            PROVE  \E x \in Ids : <<"result", x>> \in Summary(new) /\ <<"call", x>> \notin Carried(new)
        <4>1. IsCall(ms[q]) /\ ms[q].id = ms[p].id
          BY <3>1, <3>6 DEF IsThe
        <4>2. PICK y \in 1 .. n : IsResult(ms[y]) /\ \A k \in 1 .. y : ~IsCall(ms[k])
          BY <1>5, <3>1, <4>1
        <4> DEFINE x == ms[y].id
        <4>3. y \in DOMAIN ms /\ x \in Ids /\ <<"result", x>> \in Halves /\ <<"call", x>> \in Halves
          BY <1>2, <4>2, HalvesOfMessages DEF IsHalf, Halves
        <4>4. IsThe(ms[y], <<"result", x>>)
          BY <4>2 DEF IsThe
        <4>5. <<"result", x>> \in Summary(new)
          BY <1>4, <3>3, <4>3, <4>4
        <4>6. ASSUME NEW k \in DOMAIN ms, IsThe(ms[k], <<"call", x>>) PROVE FALSE
          <5>1. IsCall(ms[k]) /\ ms[k].id = ms[y].id
            BY <4>6 DEF IsThe
          <5>2. k < y
            <6>1. PairsFit(ms)
              BY DEF Whole
            <6> HIDE DEF x
            <6> QED
              BY <4>2, <4>3, <4>6, <5>1, <6>1 DEF PairsFit
          <5> QED
            BY <1>2, <4>2, <5>1, <5>2
        <4>7. CASE <<"call", x>> \in Carried(new)
          <5>1. <<"call", x>> \in Summary(new)
            <6> DEFINE half == <<"call", x>>
            <6>1. half \in Halves /\ half \in Carried(new) /\ \A k \in DOMAIN ms : ~IsThe(ms[k], half)
              BY <4>3, <4>6, <4>7
            <6> HIDE DEF half
            <6>2. half \in Summary(new)
              BY <1>12, <6>1
            <6> QED
              BY <6>2 DEF half
          <5>2. ms[1].kind = "boundary" /\ <<"call", x>> \in Summary(ms)
            <6> DEFINE half == <<"call", x>>
            <6>1. half \in Halves /\ half \in Summary(new) /\ \A k \in DOMAIN ms : ~IsThe(ms[k], half)
              BY <4>3, <4>6, <5>1
            <6> HIDE DEF half
            <6>2. ms[1].kind = "boundary" /\ half \in Summary(ms)
              BY <1>2, <1>4, <6>1
            <6> QED
              BY <6>2 DEF half
          <5> QED
            BY <3>4, <4>2, <4>3, <5>2
        <4> QED
          BY <4>3, <4>5, <4>7
      <3> QED
        BY <1>4, <2>3, <3>2, <3>5, <3>6
    <2>4. ASSUME NEW i \in DOMAIN new
          PROVE  /\ new[i].kind \in {"boundary", "system"} => i = 1
                 /\ IsCall(new[i]) => <<"call", new[i].id>> \notin Summary(new)
                 /\ IsHalf(new[i]) => <<"result", new[i].id>> \notin Summary(new)
                 /\ IsResult(new[i]) /\ <<"call", new[i].id>> \in Summary(new) =>
                      \E x \in Ids : <<"result", x>> \in Summary(new) /\ <<"call", x>> \notin Carried(new)
      <3>1. CASE i = 1
        BY <1>10, <3>1 DEF IsHalf
      <3>2. CASE i \in 2 .. Len(new)
        <4>1. new[i].kind \notin {"boundary", "system"}
          BY <1>13, <3>2
        <4>2. IsHalf(new[i]) => /\ <<"call", new[i].id>> \in Halves
                                /\ <<"result", new[i].id>> \in Halves
          BY <1>3, <3>2, HalvesOfMessages DEF Halves
        <4>3. IsCall(new[i]) => <<"call", new[i].id>> \notin Summary(new)
          BY <2>1, <3>2, <4>2 DEF IsThe, IsHalf
        <4>4. IsResult(new[i]) => <<"result", new[i].id>> \notin Summary(new)
          BY <2>1, <3>2, <4>2 DEF IsThe, IsHalf
        <4> QED
          BY <2>2, <2>3, <3>2, <4>1, <4>3, <4>4 DEF IsHalf
      <3> QED
        BY <1>9, <3>1, <3>2
    <2> QED
      BY <2>4 DEF SummaryFits
  <1>15. ASSUME NEW half \in Halves, half \in Carried(new)
         PROVE  half \notin GivenUp(ms, summarised)
    <2>1. \/ half \in Summary(new)
          \/ \E p \in DOMAIN ms : p > n /\ IsThe(ms[p], half)
      BY <1>12, <1>15
    <2>2. ASSUME NEW p \in DOMAIN ms, IsThe(ms[p], half), NEW q \in 1 .. n, half \in Content(ms[q])
          PROVE  p = q
      BY <1>2, <2>2, HalvesTold, WholeFacts
    <2>3. CASE summarised
      <3> SUFFICES ASSUME NEW q \in 1 .. n, ms[q].kind \in {"system", "prompt"},
                          half \in Content(ms[q])
                   PROVE  FALSE
        BY <1>6, <1>7, <2>3, HalvesAreNoErrors DEF Tells
      <3>1. ~IsThe(ms[q], half)
        BY DEF IsThe, IsCall, IsResult, Results, Outcomes
      <3>2. q \in DOMAIN ms /\ ms[q].kind = "system" /\ half \in Summary(ms) /\ q = 1
        BY <1>1, <1>2, <3>1, HalvesTold
      <3> QED
        BY <1>2, <1>4, <2>1, <2>2, <3>1, <3>2
    <2>4. CASE ~summarised
      <3> SUFFICES ASSUME NEW q \in 1 .. n, half \in Content(ms[q]) PROVE FALSE
        BY <1>6, <1>7, <2>4 DEF Carried, Tells
      <3> QED
        BY <1>2, <1>4, <2>1, <2>2, <2>4
    <2> QED
      BY <2>3, <2>4
  <1> QED
    BY <1>11, <1>12, <1>14, <1>15 DEF Whole, new

\* The numbers only grow.
LEMMA NumberedLater ==
  ASSUME NEW ms, NEW n \in Nat, NEW k \in Nat, n <= k, Numbered(ms, n)
  PROVE  Numbered(ms, k)
  BY DEF Numbered, Halves, Ids

\* A message that is no call and no result.
LEMMA AppendedWhole ==
  ASSUME NEW ms \in Seq(Message), Whole(ms), NEW n \in Nat, Numbered(ms, n),
         NEW m \in Message, m.kind \notin {"boundary", "system"}, ~IsHalf(m)
  PROVE  /\ Append(ms, m) \in Seq(Message) /\ Whole(Append(ms, m))
         /\ \A half \in Halves : half \in Carried(Append(ms, m)) <=> half \in Carried(ms)
  <1> DEFINE new == <<m>>
  <1>1. /\ new \in Seq(Message) /\ DOMAIN new = {1} /\ new[1] = m
        /\ Append(ms, m) = ms \o new /\ Append(ms, m) \in Seq(Message)
    OBVIOUS
  <1> HIDE DEF new
  <1>2. PairsFit(new)
    BY <1>1 DEF PairsFit, IsHalf
  <1>3. Whole(ms \o new) /\ Carried(ms \o new) = Carried(ms) \cup Carried(new) /\ Summary(new) = {}
    BY <1>1, <1>2, AddedWhole
  <1>4. ASSUME NEW half \in Halves PROVE half \notin Carried(new)
    BY <1>1, <1>3, HalvesTold DEF IsThe, IsHalf
  <1> QED
    BY <1>1, <1>3, <1>4

\* A prompt that a turn opens with.
LEMMA InjectedWhole ==
  ASSUME NEW ms \in Seq(Message), Whole(ms), NEW n \in Nat, Numbered(ms, n), NEW p \in Prompts
  PROVE  /\ Inject(ms, p) \in Seq(Message) /\ Whole(Inject(ms, p))
         /\ \A half \in Halves : half \in Carried(Inject(ms, p)) <=> half \in Carried(ms)
         /\ Numbered(Inject(ms, p), n)
  <1>1. CASE Inject(ms, p) = ms
    BY <1>1
  <1>2. CASE Inject(ms, p) # ms
    <2>1. Inject(ms, p) = Append(ms, p) /\ p # NoPrompt
      BY <1>2 DEF Inject
    <2>2. p \in Message /\ p.kind = "prompt"
      BY <2>1, NewMessages
    <2>3. ~IsHalf(p) /\ p.kind \notin {"boundary", "system"}
      BY <2>2 DEF IsHalf, IsCall, IsResult, Results, Outcomes
    <2> QED
      BY <2>1, <2>2, <2>3, AppendedWhole DEF Numbered
  <1> QED
    BY <1>1, <1>2

\* What the steps start from, and what they must reach.
LEMMA PairsStart ==
  ASSUME StateInv, PairsInv
  PROVE  /\ messages \in Seq(Message) /\ Proper(messages, turn) /\ turn \in Nat
         /\ nextId \in Nat /\ nextId \in 1 .. MaxIds + 1 /\ turn \in 0 .. MaxTurns
         /\ Stores(file) => file[2] \in Seq(Message) /\ Proper(file[2], turn)
  <1>1. TypeOK /\ Proper(messages, turn) /\ (Stores(file) => Proper(file[2], turn))
    BY DEF StateInv
  <1>2. Stores(file) => file[2] \in Seq(Message)
    BY <1>1 DEF TypeOK, Stores, NoFile, Torn
  <1> QED
    BY <1>1, <1>2, BoundsAssumption DEF TypeOK

\* The invariant of the next state, conjunct by conjunct.
LEMMA PairsReached ==
  ASSUME Whole(messages'), Numbered(messages', nextId'),
         at' # "down" => Halves \cap Carried(messages') \subseteq added',
         Stores(file') => /\ Whole(file'[2]) /\ Numbered(file'[2], nextId')
                          /\ Halves \cap Carried(file'[2]) \subseteq kept'
  PROVE  PairsInv'
  BY DEF PairsInv, Stores, Whole, PairsFit, SummaryFits, Numbered, Carried, Summary, Tells

\* A step that leaves the session file alone.
LEMMA FileStays ==
  ASSUME StateInv, PairsInv, UNCHANGED <<file, kept>>, nextId' \in Nat, nextId <= nextId'
  PROVE  Stores(file') => /\ Whole(file'[2]) /\ Numbered(file'[2], nextId')
                          /\ Halves \cap Carried(file'[2]) \subseteq kept'
  BY PairsStart, NumberedLater DEF PairsInv

\* New messages, with new numbers.
LEMMA AddKeepsPairs ==
  ASSUME StateInv, PairsInv, at # "down", NEW new \in Seq(Message), PairsFit(new),
         nextId' \in Nat, nextId <= nextId',
         \A i \in DOMAIN new : /\ new[i].kind \notin {"boundary", "system"}
                               /\ IsHalf(new[i]) => nextId <= new[i].id /\ new[i].id < nextId',
         messages' = messages \o new, added' = added \cup Carried(new), UNCHANGED <<file, kept>>
  PROVE  PairsInv'
  <1>1. /\ messages \in Seq(Message) /\ nextId \in Nat /\ Whole(messages)
        /\ Numbered(messages, nextId) /\ Halves \cap Carried(messages) \subseteq added
    BY PairsStart DEF PairsInv
  <1>2. \A i \in DOMAIN new : IsHalf(new[i]) => new[i].id \in Ids
    BY HalvesOfMessages
  <1>3. /\ Whole(messages \o new) /\ Summary(new) = {}
        /\ Carried(messages \o new) = Carried(messages) \cup Carried(new)
    <2>1. \A i \in DOMAIN new : /\ new[i].kind \notin {"boundary", "system"}
                                /\ IsHalf(new[i]) => new[i].id >= nextId
      BY <1>1, <1>2 DEF Ids
    <2> QED
      BY <1>1, <2>1, AddedWhole
  <1>4. Numbered(messages', nextId')
    <2> SUFFICES ASSUME NEW half \in Halves, half \in Carried(messages')
                 PROVE  half[2] < nextId'
      BY DEF Numbered
    <2>1. CASE half \in Carried(messages)
      BY <1>1, <2>1 DEF Numbered, Halves, Ids
    <2>2. CASE half \in Carried(new)
      BY <1>3, <2>2, HalvesTold DEF IsThe, IsHalf
    <2> QED
      BY <1>3, <2>1, <2>2
  <1> QED
    BY <1>1, <1>3, <1>4, FileStays, PairsReached

\* The actions that add calls, results and answers.
LEMMA AddingKeepsPairs ==
  ASSUME StateInv, PairsInv, AddPair \/ AddBatch \/ AddRefusal \/ AddInterrupted \/ EndTurn
  PROVE  PairsInv'
  <1>1. turn \in 0 .. MaxTurns /\ nextId \in 1 .. MaxIds + 1 /\ nextId \in Nat
    BY PairsStart
  <1>2. \A kind \in {"call", "assistant"} \cup Outcomes, id \in Ids :
          LET m == Plain(kind, id, turn) IN m \in Message /\ m.kind = kind /\ m.id = id
    BY <1>1, NewMessages DEF Plain
  <1>3. CASE AddPair
    <2> PICK outcome \in Outcomes :
           Add(<<Plain("call", nextId, turn), Plain(outcome, nextId, turn)>>, 1)
      BY <1>3 DEF AddPair
    <2> DEFINE new == <<Plain("call", nextId, turn), Plain(outcome, nextId, turn)>>
    <2>1. nextId \in Ids
      BY <1>1, <1>3, BoundsAssumption DEF AddPair, Fits, Ids
    <2>7. /\ Plain("call", nextId, turn) \in Message /\ Plain("call", nextId, turn).kind = "call"
          /\ Plain("call", nextId, turn).id = nextId
          /\ Plain(outcome, nextId, turn) \in Message
          /\ Plain(outcome, nextId, turn).kind = outcome /\ Plain(outcome, nextId, turn).id = nextId
      BY <1>2, <2>1
    <2>2. /\ new \in Seq(Message) /\ DOMAIN new = {1, 2}
          /\ new[1].kind = "call" /\ new[1].id = nextId
          /\ new[2].kind = outcome /\ new[2].id = nextId
      BY <2>7
    <2>3. /\ at # "down" /\ messages' = messages \o new
          /\ added' = added \cup Carried(new) /\ nextId' = nextId + 1
          /\ UNCHANGED <<file, kept>>
      BY <1>3 DEF AddPair, Add
    <2> HIDE DEF new
    <2>4. PairsFit(new)
      BY <2>2 DEF PairsFit, IsHalf, IsCall, IsResult, Results, Outcomes
    <2>5. \A i \in DOMAIN new : /\ new[i].kind \notin {"boundary", "system"}
                                /\ nextId <= new[i].id /\ new[i].id < nextId + 1
      BY <1>1, <2>2 DEF Outcomes
    <2>6. /\ nextId' \in Nat /\ nextId <= nextId'
          /\ \A i \in DOMAIN new : /\ new[i].kind \notin {"boundary", "system"}
                                 /\ nextId <= new[i].id /\ new[i].id < nextId'
      BY <1>1, <2>3, <2>5
    <2> QED
      BY <2>2, <2>3, <2>4, <2>6, AddKeepsPairs
  <1>4. CASE AddBatch
    <2> PICK first \in Outcomes, second \in Outcomes :
           Add(<<Plain("call", nextId, turn), Plain("call", nextId + 1, turn),
                 Plain(first, nextId, turn), Plain(second, nextId + 1, turn)>>, 2)
      BY <1>4 DEF AddBatch
    <2> DEFINE new == <<Plain("call", nextId, turn), Plain("call", nextId + 1, turn),
                        Plain(first, nextId, turn), Plain(second, nextId + 1, turn)>>
    <2>1. nextId \in Ids /\ nextId + 1 \in Ids
      BY <1>1, <1>4, BoundsAssumption DEF AddBatch, Fits, Ids
    <2>7. \A kind \in {"call", first, second}, id \in {nextId, nextId + 1} :
            LET m == Plain(kind, id, turn) IN m \in Message /\ m.kind = kind /\ m.id = id
      BY <1>2, <2>1
    <2>2. /\ new \in Seq(Message) /\ DOMAIN new = 1 .. 4
          /\ new[1].kind = "call" /\ new[1].id = nextId
          /\ new[2].kind = "call" /\ new[2].id = nextId + 1
          /\ new[3].kind = first /\ new[3].id = nextId
          /\ new[4].kind = second /\ new[4].id = nextId + 1
      BY <2>7
    <2>3. /\ at # "down" /\ messages' = messages \o new
          /\ added' = added \cup Carried(new) /\ nextId' = nextId + 2
          /\ UNCHANGED <<file, kept>>
      BY <1>4 DEF AddBatch, Add
    <2> HIDE DEF new
    <2>4. PairsFit(new)
      <3>1. \A i \in 1 .. 4 : IsHalf(new[i])
        BY <2>2 DEF IsHalf, IsCall, IsResult, Results, Outcomes
      <3>2. /\ \A i \in 1 .. 4 : IsCall(new[i]) <=> i \in {1, 2}
            /\ \A i \in 1 .. 4 : IsResult(new[i]) <=> i \in {3, 4}
        BY <2>2 DEF IsHalf, IsCall, IsResult, Results, Outcomes
      <3>3. new[1].id # new[2].id /\ new[3].id # new[4].id
        BY <1>1, <2>2
      <3> QED
        BY <2>2, <3>1, <3>2, <3>3 DEF PairsFit
    <2>5. \A i \in DOMAIN new : /\ new[i].kind \notin {"boundary", "system"}
                                /\ nextId <= new[i].id /\ new[i].id < nextId + 2
      BY <1>1, <2>2 DEF Outcomes
    <2>6. /\ nextId' \in Nat /\ nextId <= nextId'
          /\ \A i \in DOMAIN new : /\ new[i].kind \notin {"boundary", "system"}
                                 /\ nextId <= new[i].id /\ new[i].id < nextId'
      BY <1>1, <2>3, <2>5
    <2> QED
      BY <2>2, <2>3, <2>4, <2>6, AddKeepsPairs
  <1>5. ASSUME NEW kind \in {"call", "assistant"} \cup Outcomes, at = "in", Fits(1),
               Add(<<Plain(kind, nextId, turn)>>, 1), UNCHANGED <<file, kept>>
        PROVE  PairsInv'
    <2> DEFINE new == <<Plain(kind, nextId, turn)>>
    <2>1. nextId \in Ids
      BY <1>1, <1>5, BoundsAssumption DEF Fits, Ids
    <2>2. /\ new \in Seq(Message) /\ DOMAIN new = {1}
          /\ new[1].kind = kind /\ new[1].id = nextId
      BY <1>2, <2>1
    <2>3. /\ messages' = messages \o new
          /\ added' = added \cup Carried(new) /\ nextId' = nextId + 1
      BY <1>5 DEF Add
    <2> HIDE DEF new
    <2>4. PairsFit(new)
      BY <2>2 DEF PairsFit, IsHalf, IsCall, IsResult, Results, Outcomes
    <2>5. \A i \in DOMAIN new : /\ new[i].kind \notin {"boundary", "system"}
                                /\ nextId <= new[i].id /\ new[i].id < nextId + 1
      BY <1>1, <2>2 DEF Outcomes
    <2>6. /\ nextId' \in Nat /\ nextId <= nextId' /\ at # "down" /\ UNCHANGED <<file, kept>>
          /\ \A i \in DOMAIN new : /\ new[i].kind \notin {"boundary", "system"}
                                 /\ nextId <= new[i].id /\ new[i].id < nextId'
      BY <1>1, <1>5, <2>3, <2>5
    <2> QED
      BY <2>2, <2>3, <2>4, <2>6, AddKeepsPairs
  <1> QED
    BY <1>3, <1>4, <1>5 DEF AddRefusal, AddInterrupted, EndTurn, Outcomes

\* Prompts, cleanup and the user's message are no calls and no results.
LEMMA OpeningKeepsPairs ==
  ASSUME StateInv, PairsInv, Open \/ Ask
  PROVE  PairsInv'
  <1>1. /\ messages \in Seq(Message) /\ nextId \in Nat /\ turn \in 0 .. MaxTurns
        /\ Whole(messages) /\ Numbered(messages, nextId)
    BY PairsStart DEF PairsInv
  <1>2. Halves \cap Carried(messages) \subseteq added
    BY DEF PairsInv, Open, Ask
  <1>3. CASE Open
    <2>1. PICK o \in Openings :
            messages' = Inject(Inject(Inject(CleanupMandatory(messages), o[1]), o[2]), o[3])
      BY <1>3 DEF Open
    <2>2. o[1] \in Prompts /\ o[2] \in Prompts /\ o[3] \in Prompts
      BY PromptsAssumption
    <2> DEFINE m0 == CleanupMandatory(messages)
               m1 == Inject(m0, o[1])
               m2 == Inject(m1, o[2])
    <2>3. m0 \in Seq(Message) /\ Whole(m0) /\ Carried(m0) = Carried(messages) /\ Numbered(m0, nextId)
      BY <1>1, Cleaned, CleanedWhole DEF Numbered
    <2> HIDE DEF m0
    <2>4. /\ m1 \in Seq(Message) /\ Whole(m1) /\ Numbered(m1, nextId)
          /\ \A half \in Halves : half \in Carried(m1) <=> half \in Carried(m0)
      BY <1>1, <2>2, <2>3, InjectedWhole
    <2> HIDE DEF m1
    <2>5. /\ m2 \in Seq(Message) /\ Whole(m2) /\ Numbered(m2, nextId)
          /\ \A half \in Halves : half \in Carried(m2) <=> half \in Carried(m1)
      BY <1>1, <2>2, <2>4, InjectedWhole
    <2> HIDE DEF m2
    <2>6. messages' = Inject(m2, o[3])
      BY <2>1 DEF m0, m1, m2
    <2>7. /\ Whole(messages') /\ Numbered(messages', nextId)
          /\ \A half \in Halves : half \in Carried(messages') <=> half \in Carried(m2)
      BY <1>1, <2>2, <2>5, <2>6, InjectedWhole
    <2>8. UNCHANGED <<file, nextId, added, kept>>
      BY <1>3 DEF Open
    <2>9. Halves \cap Carried(messages') \subseteq added'
      BY <1>2, <2>3, <2>4, <2>5, <2>7, <2>8
    <2> QED
      BY <1>1, <2>7, <2>8, <2>9, FileStays, PairsReached
  <1>4. CASE Ask
    <2> DEFINE user == Plain("user", nextId, turn)
               m1 == Append(messages, user)
    <2>1. nextId \in Ids
      BY BoundsAssumption, PairsStart, <1>4 DEF StateInv, Ask, Fits, Ids
    <2>2. user \in Message /\ user.kind = "user"
      BY <1>1, <2>1, NewMessages
    <2>3. messages' = CleanupMandatory(m1) /\ nextId' = nextId + 1 /\ added \subseteq added'
          /\ UNCHANGED <<file, kept>>
      BY <1>4 DEF Ask
    <2> HIDE DEF user
    <2>4. user.kind \notin {"boundary", "system"} /\ ~IsHalf(user)
      BY <2>2 DEF IsHalf, IsCall, IsResult, Results, Outcomes
    <2>5. /\ m1 \in Seq(Message) /\ Whole(m1)
          /\ \A half \in Halves : half \in Carried(m1) <=> half \in Carried(messages)
      BY <1>1, <2>2, <2>4, AppendedWhole
    <2> HIDE DEF m1
    <2>6. Whole(messages') /\ Carried(messages') = Carried(m1)
      BY <2>3, <2>5, CleanedWhole
    <2>7. Numbered(messages', nextId)
      BY <1>1, <2>5, <2>6 DEF Numbered
    <2>8. nextId' \in Nat /\ nextId <= nextId'
      BY <1>1, <2>3
    <2>9. Numbered(messages', nextId')
      BY <1>1, <2>7, <2>8, NumberedLater
    <2>10. Halves \cap Carried(messages') \subseteq added'
      BY <1>2, <2>3, <2>5, <2>6
    <2> QED
      BY <2>3, <2>6, <2>8, <2>9, <2>10, FileStays, PairsReached
  <1> QED
    BY <1>3, <1>4

\* Compaction divides no pair that could be told whole.
LEMMA CompactKeepsPairs ==
  ASSUME StateInv, PairsInv, CompactIfNeeded
  PROVE  PairsInv'
  <1>1. /\ messages \in Seq(Message) /\ nextId \in Nat
        /\ Whole(messages) /\ Numbered(messages, nextId)
        /\ Halves \cap Carried(messages) \subseteq added /\ Replaced(messages) > 0
    BY PairsStart DEF PairsInv, CompactIfNeeded
  <1>2. PICK summarised \in BOOLEAN :
          /\ messages' = Compact(messages, summarised)
          /\ added' = added \ GivenUp(messages, summarised)
    BY DEF CompactIfNeeded
  <1>3. UNCHANGED <<file, nextId, kept>>
    BY DEF CompactIfNeeded
  <1>4. /\ Whole(messages')
        /\ \A half \in Halves : half \in Carried(messages') =>
             half \in Carried(messages) /\ half \notin GivenUp(messages, summarised)
    BY <1>1, <1>2, CompactedWhole
  <1>5. Numbered(messages', nextId')
    BY <1>1, <1>3, <1>4 DEF Numbered
  <1>6. Halves \cap Carried(messages') \subseteq added'
    BY <1>1, <1>2, <1>4
  <1> QED
    BY <1>1, <1>3, <1>4, <1>5, <1>6, FileStays, PairsReached

\* The rest: saves, clears, crashes and restarts.
LEMMA FileKeepsPairs ==
  ASSUME StateInv, PairsInv,
         FailTurn \/ Truncate \/ Write \/ Clear \/ ClearContext \/ Crash \/ Restart
  PROVE  PairsInv'
  <1>1. /\ messages \in Seq(Message) /\ nextId \in Nat /\ nextId \in 1 .. MaxIds + 1
        /\ turn \in 0 .. MaxTurns /\ turn \in Nat
        /\ Stores(file) => file[2] \in Seq(Message) /\ Proper(file[2], turn)
        /\ Whole(messages) /\ Numbered(messages, nextId)
        /\ at # "down" => Halves \cap Carried(messages) \subseteq added
    BY PairsStart DEF PairsInv
  <1>2. ~Stores(NoFile) /\ ~Stores(Torn) /\ Stored(messages)[2] = messages
    BY DEF Stores, NoFile, Torn, Stored
  <1>3. Whole(<<>>) /\ Numbered(<<>>, nextId) /\ Halves \cap Carried(<<>>) = {}
    BY NothingIsWhole DEF Numbered
  <1>4. CASE FailTurn \/ Truncate
    <2>1. UNCHANGED <<messages, nextId, added, kept>> /\ at # "down"
          /\ (file' = file \/ file' = Torn)
      BY <1>4 DEF FailTurn, Truncate
    <2> QED
      BY <1>1, <1>2, <2>1, PairsReached DEF PairsInv
  <1>5. CASE Write
    <2>1. UNCHANGED <<messages, nextId, added>> /\ at # "down"
          /\ file' = Stored(messages) /\ kept' = Carried(messages)
      BY <1>5 DEF Write
    <2> QED
      BY <1>1, <1>2, <2>1, PairsReached
  <1>6. CASE Clear
    <2>1. messages' = <<>> /\ file' = NoFile /\ nextId' = nextId
      BY <1>6 DEF Clear, Forget
    <2> QED
      BY <1>2, <1>3, <2>1, PairsReached
  <1>7. CASE ClearContext
    <2> DEFINE answer == Plain("result", nextId, turn)
    <2>1. nextId \in Ids
      BY <1>1, <1>7, BoundsAssumption DEF ClearContext, Fits, Ids
    <2>2. answer \in Message /\ answer.kind = "result" /\ answer.id = nextId
      BY <1>1, <2>1, NewMessages DEF Plain, Outcomes
    <2>3. /\ messages' = <<answer>> /\ added' = Carried(messages') /\ file' = NoFile
          /\ nextId' = nextId + 1
      BY <1>7 DEF ClearContext, Forget
    <2> HIDE DEF answer
    <2>4. messages' \in Seq(Message) /\ DOMAIN messages' = {1} /\ messages'[1] = answer
      BY <2>2, <2>3
    <2>5. Summary(messages') = {}
      BY <2>2, <2>4 DEF Summary, Tells
    <2>6. Whole(messages')
      BY <2>2, <2>4, <2>5 DEF Whole, PairsFit, SummaryFits, IsCall, IsResult, Results, Outcomes
    <2>7. Numbered(messages', nextId')
      <3> SUFFICES ASSUME NEW half \in Halves, half \in Carried(messages')
                   PROVE  half[2] < nextId'
        BY DEF Numbered
      <3>1. PICK i \in DOMAIN messages' : IsThe(messages'[i], half)
        BY <2>4, <2>5, HalvesTold
      <3>2. half[2] = nextId
        BY <2>2, <2>4, <3>1 DEF IsThe
      <3> QED
        BY <1>1, <2>3, <3>2
    <2> QED
      BY <1>2, <2>3, <2>6, <2>7, PairsReached
  <1>8. CASE Crash
    <2>1. messages' = <<>> /\ at' = "down" /\ UNCHANGED <<file, nextId, kept>>
      BY <1>8 DEF Crash
    <2> QED
      BY <1>1, <1>3, <2>1, FileStays, PairsReached
  <1>9. CASE Restart
    <2>1. /\ messages' = IF Stores(file) THEN Reload(file[2]) ELSE <<>>
          /\ kept' = IF Stores(file) THEN kept ELSE {}
          /\ added' = {c \in kept' : c[1] # "prompt"}
          /\ UNCHANGED <<file, nextId>>
      BY <1>9 DEF Restart
    <2>2. CASE Stores(file)
      <3>1. /\ Whole(file[2]) /\ Numbered(file[2], nextId)
            /\ Halves \cap Carried(file[2]) \subseteq kept
        BY <2>2 DEF PairsInv
      <3>2. Whole(messages') /\ Carried(messages') = Carried(file[2])
        BY <1>1, <2>1, <2>2, <3>1, ReloadedWhole
      <3>3. Numbered(messages', nextId')
        BY <2>1, <3>1, <3>2 DEF Numbered
      <3>4. \A half \in Halves : half[1] # "prompt"
        BY DEF Halves
      <3>5. Halves \cap Carried(messages') \subseteq added'
        BY <2>1, <2>2, <3>1, <3>2, <3>4
      <3> QED
        BY <2>1, <2>2, <3>1, <3>2, <3>3, <3>5, PairsReached
    <2>3. CASE ~Stores(file)
      <3>1. messages' = <<>> /\ file' = file /\ nextId' = nextId
        BY <2>1, <2>3
      <3> QED
        BY <1>3, <2>3, <3>1, PairsReached
    <2> QED
      BY <2>2, <2>3
  <1> QED
    BY <1>4, <1>5, <1>6, <1>7, <1>8, <1>9

\* Pairs are never divided, in memory or in the file.
LEMMA PairsHold == Spec => []PairsInv
  <1>1. Init => PairsInv
    BY NothingIsWhole DEF Init, PairsInv, Numbered, Stores, NoFile
  <1>2. StateInv /\ PairsInv /\ [Next]_vars => PairsInv'
    <2> SUFFICES ASSUME StateInv, PairsInv, [Next]_vars PROVE PairsInv'
      OBVIOUS
    <2>1. CASE UNCHANGED vars
      <3>1. /\ Whole(messages) /\ Numbered(messages, nextId)
            /\ at # "down" => Halves \cap Carried(messages) \subseteq added
            /\ Stores(file) => /\ Whole(file[2]) /\ Numbered(file[2], nextId)
                               /\ Halves \cap Carried(file[2]) \subseteq kept
        BY DEF PairsInv
      <3> QED
        BY <2>1, <3>1, PairsReached DEF vars
    <2>2. CASE Next
      BY <2>2, AddingKeepsPairs, OpeningKeepsPairs, CompactKeepsPairs, FileKeepsPairs DEF Next
    <2> QED
      BY <2>1, <2>2
  <1> QED
    BY <1>1, <1>2, StateHolds, PTL DEF Spec
-----------------------------------------------------------------------------
\* The item of a message is a call or a result if the message is one.
LEMMA ItemsArePaired ==
  ASSUME NEW m \in Message, NEW item \in {ToAnthropic(m), ToOpenAI(m)}
  PROVE  /\ item.id = m.id
         /\ item.part = "call" <=> IsCall(m)
         /\ item.part = "result" <=> IsResult(m)
  <1>1. m.kind \in {"user", "assistant", "call"} \cup Results \cup Systems
    BY DEF Message, Prompts, Prompt, Systems
  <1>2. \A role, part : /\ Item(role, part, m).id = m.id
                        /\ Item(role, part, m).part = part
    BY DEF Item
  <1>4. /\ ToAnthropic(m).id = m.id
        /\ ToAnthropic(m).part = "call" <=> IsCall(m)
        /\ ToAnthropic(m).part = "result" <=> IsResult(m)
    BY <1>1, <1>2 DEF ToAnthropic, Systems, IsCall, IsResult, Results, Outcomes
  <1>5. CASE IsResult(m)
    <2>1. m.kind \notin {"user", "assistant", "call"} \cup Systems
      BY <1>5 DEF IsResult, Results, Outcomes, Systems
    <2>2. ToOpenAI(m) = [Item("tool", "result", m) EXCEPT
                            !.tells = @ \ Errors(@), !.images = m.kind = "image"]
      BY <1>5, <2>1 DEF ToOpenAI, IsResult
    <2>3. ToOpenAI(m).id = m.id /\ ToOpenAI(m).part = "result"
      BY <2>2 DEF Item
    <2>4. ~IsCall(m)
      BY <2>1 DEF IsCall
    <2> QED
      BY <1>4, <1>5, <2>3, <2>4
  <1>6. CASE ~IsResult(m)
    <2>1. /\ ToOpenAI(m).id = m.id
          /\ ToOpenAI(m).part = "call" <=> IsCall(m)
          /\ ToOpenAI(m).part # "result"
      BY <1>1, <1>2, <1>6 DEF ToOpenAI, Systems, IsCall, IsResult
    <2> QED
      BY <1>4, <1>6, <2>1
  <1> QED
    BY <1>5, <1>6

\* A history without halves is sent without halves: however it was split,
\* compacted, stubbed, saved and reloaded, in each request of Anthropic's and
\* OpenAI's clients a call is followed by its result, with only calls, results
\* and the images of results in between, and a result has its call
\* (isSafeSplitPoint, performCompaction).
THEOREM PairsStayWhole == Spec => []PairsAreSent
  <1>1. StateInv /\ PairsInv => PairsAreSent
    <2> SUFFICES ASSUME StateInv, PairsInv, at = "in",
                        \A c \in Ids : <<"call", c>> \in added <=> <<"result", c>> \in added,
                        NEW client \in {"anthropic", "openai"}
                 PROVE  Paired(Request(client, messages))
      BY DEF PairsAreSent, Clients
    <2>1. /\ messages \in Seq(Message) /\ Whole(messages)
          /\ Halves \cap Carried(messages) \subseteq added /\ added \subseteq Carried(messages)
      BY PairsStart DEF PairsInv, StateInv, SaidIsTold
    <2> DEFINE items == Request(client, messages).items
    <2>2. /\ DOMAIN items = DOMAIN messages
          /\ \A i \in DOMAIN messages : items[i] \in {ToAnthropic(messages[i]), ToOpenAI(messages[i])}
      BY DEF Request
    <2> HIDE DEF items
    <2>3. ASSUME NEW i \in DOMAIN messages
          PROVE  /\ items[i].id = messages[i].id
                 /\ items[i].part = "call" <=> IsCall(messages[i])
                 /\ items[i].part = "result" <=> IsResult(messages[i])
                 /\ items[i].part \in {"call", "result"} <=> IsHalf(messages[i])
      <3>1. messages[i] \in Message
        BY <2>1
      <3> QED
        BY <2>2, <3>1, ItemsArePaired DEF IsHalf
    <2>4. \A c \in Ids : <<"call", c>> \in Carried(messages) <=> <<"result", c>> \in Carried(messages)
      BY <2>1 DEF Halves
    <2>5. ASSUME NEW i \in DOMAIN messages, IsHalf(messages[i])
          PROVE  /\ messages[i].id \in Ids
                 /\ <<"call", messages[i].id>> \in Halves /\ <<"result", messages[i].id>> \in Halves
                 /\ <<"call", messages[i].id>> \in Carried(messages)
                 /\ <<"result", messages[i].id>> \in Carried(messages)
                 /\ <<"result", messages[i].id>> \notin Summary(messages)
      <3>1. messages[i].id \in Ids
        <4>1. messages[i] \in Message
          BY <2>1
        <4> QED
          BY <2>5, <4>1, HalvesOfMessages
      <3>2. <<"call", messages[i].id>> \in Halves /\ <<"result", messages[i].id>> \in Halves
        BY <3>1 DEF Halves
      <3>3. \/ IsThe(messages[i], <<"call", messages[i].id>>)
            \/ IsThe(messages[i], <<"result", messages[i].id>>)
        BY <2>5 DEF IsThe, IsHalf
      <3>4. \/ <<"call", messages[i].id>> \in Carried(messages)
            \/ <<"result", messages[i].id>> \in Carried(messages)
        BY <2>1, <3>2, <3>3, HalvesTold
      <3>5. <<"result", messages[i].id>> \notin Summary(messages)
        BY <2>1, <2>5 DEF Whole, SummaryFits
      <3> QED
        BY <2>4, <3>1, <3>2, <3>4, <3>5
    <2>6. ASSUME NEW i \in DOMAIN messages, IsCall(messages[i])
          PROVE  \E j \in DOMAIN messages :
                   /\ i < j /\ IsResult(messages[j]) /\ messages[j].id = messages[i].id
                   /\ \A k \in i .. j : IsHalf(messages[k]) /\ k \in DOMAIN messages
      <3>1. PICK j \in DOMAIN messages : IsThe(messages[j], <<"result", messages[i].id>>)
        BY <2>1, <2>5, <2>6, HalvesTold DEF IsHalf
      <3>2. IsResult(messages[j]) /\ messages[j].id = messages[i].id
        BY <3>1 DEF IsThe
      <3>3. i < j /\ \A k \in i .. j : IsHalf(messages[k])
        BY <2>1, <2>6, <3>2 DEF Whole, PairsFit
      <3>4. \A k \in i .. j : k \in DOMAIN messages
        BY <2>1
      <3> QED
        BY <3>2, <3>3, <3>4
    <2>7. ASSUME NEW j \in DOMAIN messages, IsResult(messages[j])
          PROVE  \E i \in DOMAIN messages :
                   i < j /\ IsCall(messages[i]) /\ messages[j].id = messages[i].id
      <3>1. <<"call", messages[j].id>> \notin Summary(messages)
        <4> SUFFICES ASSUME <<"call", messages[j].id>> \in Summary(messages) PROVE FALSE
          OBVIOUS
        <4>1. PICK x \in Ids : /\ <<"result", x>> \in Summary(messages)
                               /\ <<"call", x>> \notin Carried(messages)
          BY <2>1, <2>7 DEF Whole, SummaryFits
        <4>2. <<"result", x>> \in Carried(messages)
          BY <4>1 DEF Summary, Carried, Tells
        <4> QED
          BY <2>4, <4>1, <4>2
      <3>2. PICK i \in DOMAIN messages : IsThe(messages[i], <<"call", messages[j].id>>)
        BY <2>1, <2>5, <2>7, <3>1, HalvesTold DEF IsHalf
      <3>3. IsCall(messages[i]) /\ messages[i].id = messages[j].id
        BY <3>2 DEF IsThe
      <3> QED
        BY <2>1, <2>7, <3>3 DEF Whole, PairsFit
    <2> QED
      BY <2>2, <2>3, <2>6, <2>7 DEF Paired, items
  <1> QED
    BY <1>1, StateHolds, PairsHold, PTL
=============================================================================
