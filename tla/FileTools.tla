----------------------------- MODULE FileTools -----------------------------
(***************************************************************************)
(* The file tools of one session (internal/tool/filesystem_tool_manager):  *)
(* Read, Write, Edit and MultiEdit over files that people and other        *)
(* programs change too.  One manager, and so one table of read times, is   *)
(* shared by the session's turn and by all its background subagents; no    *)
(* lock is held between the steps of a call.                               *)
(*                                                                         *)
(* A file's content is a version number, 0 for no file.  Times are ticks   *)
(* of the clock that stamps files, which is coarser than time.Now(): what  *)
(* happens within one tick cannot be told apart by ModTime().After().      *)
(*                                                                         *)
(* A call's place in its code, call[c].at:                                 *)
(*   "idle"      no call under way                                         *)
(*   "stat"      Write: before it asks whether the file exists             *)
(*   "validate"  before validateReadWriteSemantics                         *)
(*   "load"      before ReadFile                                           *)
(*   "write"     before WriteFile                                          *)
(*   "record"    before recordFileRead                                     *)
(***************************************************************************)
EXTENDS Naturals, Sequences, SequencesExt

CONSTANTS Callers,      \* the turn and the subagents that use the manager
          Files,        \* files inside the allowed directories
          Blacklisted,  \* those that a blacklist pattern matches
          MaxVersions,  \* bound: contents ever written, by anybody
          MaxClock,     \* bound: ticks of the file clock
          MaxCalls      \* bound: calls, of all callers together

ASSUME FileToolsAssumption ==
  /\ Blacklisted \subseteq Files
  /\ MaxVersions \in Nat /\ MaxClock \in Nat \ {0} /\ MaxCalls \in Nat

VARIABLES
  disk,      \* file -> its content and its modification time
  readTime,  \* fileReadTimestamps: file -> tick, 0 when never recorded
  call,      \* a call's tool, the files it still has to handle, its place,
             \*   and the version it has read or written of the first one
  clock,
  \* History of the run, which no guard reads:
  versions,  \* how many contents have been written
  begun,     \* how many calls have begun
  marks,     \* file -> what is true of its content: see Marks
  lost       \* files whose quiet content a call replaced before it was seen

historyVars == <<versions, begun, marks, lost>>
fileVars == <<disk, readTime, call, clock, historyVars>>

\* "quiet": saved from outside while no call was on the file, a tick or more
\* after the recorded time.  "seen": some caller has read or written it.
\* "settled": written by a call that has recorded it.
Marks == {"quiet", "seen", "settled"}

Edits == {"Edit", "MultiEdit"}
Tools == {"Read", "Write"} \cup Edits
Places == {"idle", "stat", "validate", "load", "write", "record"}
Versions == 0..MaxVersions

File(c) == Head(call[c].todo)
At(c, place) == call[c].at = place
UsedBy(c, f) == ~At(c, "idle") /\ f \in ToSet(call[c].todo)

FilesTypeOK ==
  /\ disk \in [Files -> [content : Versions, modified : 0..MaxClock]]
  /\ readTime \in [Files -> 0..MaxClock]
  /\ call \in [Callers -> [tool : Tools, todo : Seq(Files), at : Places,
                            got : Versions]]
  /\ \A c \in Callers : At(c, "idle") <=> call[c].todo = <<>>
  /\ clock \in 1..MaxClock /\ versions \in Versions
  /\ begun \in 0..MaxCalls
  /\ marks \in [Files -> SUBSET Marks] /\ lost \subseteq Files

NoCall == [tool |-> "Read", todo |-> <<>>, at |-> "idle", got |-> 0]

FilesInit ==
  /\ disk = [f \in Files |-> [content |-> 0, modified |-> 0]]
  /\ readTime = [f \in Files |-> 0]
  /\ call = [c \in Callers |-> NoCall]
  /\ clock = 1 /\ versions = 0 /\ begun = 0
  /\ marks = [f \in Files |-> {}] /\ lost = {}

(***************************************************************************)
(* Steps of a call.                                                        *)
(***************************************************************************)
FirstPlace(tool) ==
  CASE tool = "Read" -> "load" [] tool = "Write" -> "stat"
    [] tool \in Edits -> "validate"

\* The bound on calls.
Counts == begun < MaxCalls /\ begun' = begun + 1

\* A call begins.  Only MultiEdit names several files, or one several times.
Begin(c, tool, files) ==
  /\ At(c, "idle") /\ Counts
  /\ files # <<>> /\ (tool # "MultiEdit" => Len(files) = 1)
  /\ call' = [call EXCEPT ![c] = [tool |-> tool, todo |-> files,
                                  at |-> FirstPlace(tool), got |-> 0]]
  /\ UNCHANGED <<disk, readTime, clock, versions, marks, lost>>

\* The first file is done with, well or badly: a batch goes on with the next.
Rest(c) ==
  LET files == Tail(call[c].todo)
  IN  [NoCall EXCEPT !.tool = call[c].tool, !.todo = files,
                     !.at = IF files = <<>> THEN "idle" ELSE "validate"]

Goes(c, place, version) ==
  call' = [call EXCEPT ![c].at = place, ![c].got = version]

\* An error result: nothing has been touched.
GivesUp(c) ==
  /\ call' = [call EXCEPT ![c] = Rest(c)]
  /\ UNCHANGED <<disk, readTime, clock, historyVars>>

\* isFileBlacklisted, asked by Read and Edit and not by Write.
Denied(c) ==
  /\ call[c].tool # "Write"
  /\ At(c, FirstPlace(call[c].tool)) /\ File(c) \in Blacklisted

Deny(c) == ~At(c, "idle") /\ Denied(c) /\ GivesUp(c)

\* Write: only a file that exists is validated.  Stat may fail otherwise.
StatFile(c) ==
  /\ At(c, "stat")
  /\ \/ GivesUp(c)
     \/ /\ Goes(c, IF disk[File(c)].content = 0 THEN "write"
                   ELSE "validate", 0)
        /\ UNCHANGED <<disk, readTime, clock, historyVars>>

\* A mutant: the modification time is not compared.
OnceRead(f) == readTime[f] # 0

\* validateReadWriteSemantics: the file was read, and has not been modified
\* after that.
Unchanged(f) ==
  /\ readTime[f] # 0
  /\ disk[f].content = 0 \/ disk[f].modified <= readTime[f]

Validate(c) ==
  /\ At(c, "validate") /\ ~Denied(c)
  /\ \/ GivesUp(c)     \* refused, or Stat failed
     \/ /\ Unchanged(File(c))
        /\ Goes(c, IF call[c].tool = "Write" THEN "write" ELSE "load", 0)
        /\ UNCHANGED <<disk, readTime, clock, historyVars>>

\* ReadFile.  Read records the time even when there is no such file; an Edit
\* ends there, as it does when old_string does not occur as it should.
Load(c) ==
  /\ At(c, "load") /\ ~Denied(c)
  /\ LET version == disk[File(c)].content
     IN  \/ GivesUp(c)
         \/ /\ call[c].tool = "Read" \/ version # 0
            /\ Goes(c, IF call[c].tool = "Read" THEN "record" ELSE "write",
                    version)
            /\ marks' = [marks EXCEPT ![File(c)] =
                           IF version = 0 THEN @ ELSE @ \cup {"seen"}]
            /\ UNCHANGED <<disk, readTime, clock, versions, begun, lost>>

\* An Edit keeps what it has loaded; a Write keeps nothing.
Overlooks(c) ==
  IF call[c].tool \in Edits THEN call[c].got # disk[File(c)].content
                            ELSE "seen" \notin marks[File(c)]

Puts(f, time, what) ==
  /\ versions < MaxVersions
  /\ versions' = versions + 1
  /\ disk' = [disk EXCEPT ![f] = [content |-> versions + 1,
                                  modified |-> time]]
  /\ marks' = [marks EXCEPT ![f] = what]

\* WriteFile.  It may fail before it has opened the file, or after it has
\* emptied it: that content is nobody's.
WriteBack(c) ==
  /\ At(c, "write")
  /\ \/ GivesUp(c)
     \/ /\ \/ Puts(File(c), clock, {"seen"}) /\ Goes(c, "record", versions + 1)
           \/ Puts(File(c), clock, {}) /\ call' = [call EXCEPT ![c] = Rest(c)]
        /\ lost' = IF "quiet" \in marks[File(c)] /\ Overlooks(c)
                   THEN lost \cup {File(c)} ELSE lost
        /\ UNCHANGED <<readTime, clock, begun>>

Settles(c) ==
  marks' = [marks EXCEPT ![File(c)] =
              IF call[c].tool # "Read" /\ call[c].got = disk[File(c)].content
              THEN @ \cup {"settled"} ELSE @]

\* A mutant: recordFileRead is left out after a write.
RecordReads(c) ==
  /\ At(c, "record")
  /\ readTime' = IF call[c].tool # "Read" THEN readTime
                 ELSE [readTime EXCEPT ![File(c)] = clock]
  /\ Settles(c)
  /\ call' = [call EXCEPT ![c] = Rest(c)]
  /\ UNCHANGED <<disk, clock, versions, begun, lost>>

\* recordFileRead, with the time of the record and not of the read.
Record(c) ==
  /\ At(c, "record")
  /\ readTime' = [readTime EXCEPT ![File(c)] = clock]
  /\ Settles(c)
  /\ call' = [call EXCEPT ![c] = Rest(c)]
  /\ UNCHANGED <<disk, clock, versions, begun, lost>>

(***************************************************************************)
(* Everybody else: an editor, a shell command, another session's tools.    *)
(***************************************************************************)
\* A file is saved, or an older one is moved over it with its old time.
SaveOutside(f) ==
  /\ \E time \in {1, clock} :
       Puts(f, time, IF time > readTime[f] /\ \A c \in Callers : ~UsedBy(c, f)
                     THEN {"quiet"} ELSE {})
  /\ UNCHANGED <<readTime, call, clock, begun, lost>>

RemoveOutside(f) ==
  /\ disk[f].content # 0
  /\ disk' = [disk EXCEPT ![f] = [content |-> 0, modified |-> 0]]
  /\ marks' = [marks EXCEPT ![f] = {}]
  /\ UNCHANGED <<readTime, call, clock, versions, begun, lost>>

Tick ==
  /\ clock < MaxClock
  /\ clock' = clock + 1
  /\ UNCHANGED <<disk, readTime, call, historyVars>>

CallStep(c) ==
  \/ Deny(c) \/ StatFile(c) \/ Validate(c) \/ Load(c) \/ WriteBack(c)
  \/ Record(c)

Outside == (\E f \in Files : SaveOutside(f) \/ RemoveOutside(f)) \/ Tick

(***************************************************************************)
(* What the read times are for: somebody saves a file while no call is on  *)
(* it, and no tool of the session overwrites that before someone in the    *)
(* session has read it.  (validateReadWriteSemantics, recordFileRead; a    *)
(* save during a call, or within the tick of the last recorded read, is    *)
(* not protected.)                                                         *)
(***************************************************************************)
QuietEditSurvives == lost = {}

(***************************************************************************)
(* The session does not trip over itself: a content that one of its calls  *)
(* wrote and recorded is never taken for someone else's by the next call.  *)
(* ("Update read timestamp after successful write to allow sequential      *)
(* edits", handleWriteFile and handleEnhancedEdit.)                        *)
(***************************************************************************)
OwnWritesNeverRefuse ==
  \A f \in Files : "settled" \in marks[f] => Unchanged(f)
=============================================================================
