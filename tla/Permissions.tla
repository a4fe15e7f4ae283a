---------------------------- MODULE Permissions ----------------------------
(***************************************************************************)
(* Who may do what without a question.  Rules in three files and answers   *)
(* of the user decide about a gated call (internal/permission/rules.go,    *)
(* the approval workflow of internal/app/agent.go); a plugin command       *)
(* grants its tools for one turn (InvokeCommand in internal/app/           *)
(* plugins.go); background agents ask nobody and are held to the sandbox   *)
(* that was in place when they were sent off.                              *)
(*                                                                         *)
(* The calls are those that reach the workflow: single calls of a turn.    *)
(* Calls of a batch, those of background agents and those whose dialog     *)
(* fails run without a verdict (ReAct has them).                           *)
(*                                                                         *)
(* Several sessions, each a process, share the files of a project.  Calls  *)
(* stand for a gated tool and its argument, patterns for the calls they    *)
(* match; InferPattern is a constant, since what it infers need not match  *)
(* the call it was inferred from ("ls" gives "ls *").                      *)
(***************************************************************************)
EXTENDS Naturals, SequencesExt

CONSTANTS Sessions, Runs,
          Tools, Task,        \* the tools there are; the one that delegates
          Calls, ToolOf,      \* gated calls: call -> tool
          Patterns, Matched,  \* pattern -> the calls it matches, of any tool
          Blank,              \* the empty pattern
          InferPattern,       \* call -> pattern
          UserFiles, ProjectFiles, LocalFiles,  \* what they may hold at first
          CliTools,           \* values of --allowed-tools, {} if it is not given
          CommandTools,       \* allowed-tools of plugin commands
          Roles,              \* the tools: of the definitions turns run, {} for none
          Definitions,        \* the tools that agents declare, {} for none
          Malformed,          \* a file that does not parse
          Nil,
          MaxStarts, MaxAlways  \* bounds: sessions started, Always answered

Rule == [tool : Tools, pattern : Patterns, allow : BOOLEAN]
RuleFiles == Seq(Rule) \cup {Malformed}

ASSUME PermissionsAssumption ==
  /\ Task \in Tools /\ ToolOf \in [Calls -> Tools]
  /\ Matched \in [Patterns -> SUBSET Calls]
  /\ Blank \in Patterns /\ Matched[Blank] = Calls
  /\ InferPattern \in [Calls -> Patterns]
  /\ UserFiles \cup ProjectFiles \cup LocalFiles \subseteq RuleFiles
  /\ Malformed \notin Seq(Rule) /\ IsFiniteSet(Tools)
  /\ CliTools \subseteq SUBSET Tools /\ Definitions \subseteq SUBSET Tools
  /\ CommandTools \subseteq (SUBSET Tools) \ {{}} /\ Roles \subseteq SUBSET Tools
  /\ Nil \notin Calls /\ Nil \notin CommandTools /\ Nil \notin Sessions
  /\ MaxStarts \in Nat /\ MaxAlways \in Nat

VARIABLES
  user, project, local,  \* the three permissions files
  mode,          \* how a session runs: not, at a terminal, piped, as a server
  permRules,     \* Agent.permRules
  sessionRules,  \* Agent.sessionRules
  sandbox,       \* Agent.allowedToolsOverride
  command,       \* allowed-tools of the plugin command that runs, or Nil
  previous,      \* what InvokeCommand will put back into the sandbox
  dialog,        \* the question on the screen, and the save that follows it
  run,           \* background agents
  \* History of the run, for the properties only:
  project0,      \* the project's file as it was found
  cli,           \* the tools that a session was started with
  answered,      \* rules a session was told with Always
  saved,         \* those that were written to the file
  damaged,       \* a save lost its race, or was cut off
  known,         \* what had been saved, undamaged, when a session started
  intact,        \* the file was undamaged then
  starts, always

vars == <<user, project, local, mode, permRules, sessionRules, sandbox, command,
          previous, dialog, run, project0, cli, answered, saved, damaged, known,
          intact, starts, always>>

history  == <<project0, cli, known, intact, starts, always>>
settings == <<mode, sandbox, command, previous, sessionRules>>
-----------------------------------------------------------------------------
(* The rules.                                                              *)

Covers(rule, c) == rule.tool = ToolOf[c] /\ c \in Matched[rule.pattern]

\* RuleSet.Check: the first rule that covers the call.
Check(rules, c) ==
  LET i == SelectInSeq(rules, LAMBDA rule : Covers(rule, c))
  IN IF i = 0 THEN "none" ELSE IF rules[i].allow THEN "allow" ELSE "deny"

\* loadFileSilent: a file that does not parse has no rules.
LoadFile(file) == IF file = Malformed THEN <<>> ELSE file

LoadForProject == LoadFile(local) \o LoadFile(project) \o LoadFile(user)

Allow(tool, pattern) == [tool |-> tool, pattern |-> pattern, allow |-> TRUE]
AllowAll(tools) == SetToSeq({Allow(t, Blank) : t \in tools})

\* newSessionRules: only a terminal session asks.
NewSessionRules(m) ==
  IF m = "server" THEN AllowAll({ToolOf[c] : c \in Calls}) ELSE <<>>

\* handleApprovalWorkflow: what becomes of a gated call.
Verdict(s, c) ==
  LET first  == Check(sessionRules[s], c)
      second == Check(permRules[s], c)
  IN IF first # "none" THEN first
     ELSE IF second # "none" THEN second
     ELSE IF mode[s] = "piped" THEN "allow" ELSE "ask"

\* selectToolManager: a sandbox hides the tools it does not name; without one
\* the turn's definition does, if it names any.
Exposed(s, role, tool) ==
  \/ sandbox[s] # {} /\ tool \in sandbox[s]
  \/ sandbox[s] = {} /\ (role = {} \/ tool \in role)
-----------------------------------------------------------------------------
(* Sessions.                                                               *)

Quiet == [at |-> "none", call |-> Nil, base |-> <<>>]
Absent == [at |-> "absent", owner |-> Nil, definition |-> {}, snapshot |-> {},
           tools |-> {}, bound |-> {}]

Init ==
  /\ user \in UserFiles /\ project \in ProjectFiles /\ local \in LocalFiles
  /\ mode = [s \in Sessions |-> "off"]
  /\ permRules = [s \in Sessions |-> <<>>]
  /\ sessionRules = [s \in Sessions |-> <<>>]
  /\ sandbox = [s \in Sessions |-> {}] /\ previous = sandbox
  /\ command = [s \in Sessions |-> Nil]
  /\ dialog = [s \in Sessions |-> Quiet]
  /\ run = [r \in Runs |-> Absent]
  /\ project0 = project /\ cli = sandbox /\ known = sandbox /\ answered = sandbox
  /\ saved = {} /\ damaged = FALSE /\ starts = 0 /\ always = 0
  /\ intact = [s \in Sessions |-> TRUE]

Start(s, m, tools) ==
  /\ mode[s] = "off" /\ starts < MaxStarts
  /\ mode' = [mode EXCEPT ![s] = m]
  /\ permRules' = [permRules EXCEPT ![s] = LoadForProject]
  /\ sessionRules' = [sessionRules EXCEPT ![s] = NewSessionRules(m)]
  /\ sandbox' = [sandbox EXCEPT ![s] = tools]
  /\ cli' = [cli EXCEPT ![s] = tools]
  /\ intact' = [intact EXCEPT ![s] = ~damaged /\ project # Malformed]
  /\ known' = [known EXCEPT ![s] = IF intact'[s] THEN saved ELSE {}]
  /\ starts' = starts + 1
  /\ UNCHANGED <<user, project, local, command, previous, dialog, run, project0,
                 answered, saved, damaged, always>>

\* A process ends, at any moment, and its background agents with it.
Exit(s) ==
  /\ mode[s] # "off"
  /\ mode' = [mode EXCEPT ![s] = "off"]
  /\ permRules' = [permRules EXCEPT ![s] = <<>>]
  /\ sessionRules' = [sessionRules EXCEPT ![s] = <<>>]
  /\ sandbox' = [sandbox EXCEPT ![s] = {}]
  /\ command' = [command EXCEPT ![s] = Nil]
  /\ previous' = [previous EXCEPT ![s] = {}]
  /\ dialog' = [dialog EXCEPT ![s] = Quiet]
  /\ run' = [r \in Runs |-> IF run[r].owner = s THEN Absent ELSE run[r]]
  /\ cli' = [cli EXCEPT ![s] = {}]
  /\ answered' = [answered EXCEPT ![s] = {}]
  /\ known' = [known EXCEPT ![s] = {}]
  /\ intact' = [intact EXCEPT ![s] = TRUE]
  /\ damaged' = (damaged \/ dialog[s].at = "writing")
  /\ UNCHANGED <<user, project, local, project0, saved, starts, always>>
-----------------------------------------------------------------------------
(* The question, and AppendToProjectFile: read, empty, fill.               *)

Ask(s, c) ==
  /\ mode[s] # "off" /\ dialog[s].at = "none"
  /\ (\E role \in Roles : Exposed(s, role, ToolOf[c])) /\ Verdict(s, c) = "ask"
  /\ dialog' = [dialog EXCEPT ![s] = [Quiet EXCEPT !.at = "asked", !.call = c]]
  /\ UNCHANGED <<user, project, local, permRules, run, answered, saved, damaged>>
  /\ UNCHANGED settings /\ UNCHANGED history

\* Yes, No, and a dialog that fails.
AnswerOnce(s) ==
  /\ dialog[s].at = "asked"
  /\ dialog' = [dialog EXCEPT ![s] = Quiet]
  /\ UNCHANGED <<user, project, local, permRules, run, answered, saved, damaged>>
  /\ UNCHANGED settings /\ UNCHANGED history

NewRule(s) == Allow(ToolOf[dialog[s].call], InferPattern[dialog[s].call])

Always(s) ==
  /\ dialog[s].at = "asked"
  /\ always < MaxAlways /\ always' = always + 1
  /\ dialog' = [dialog EXCEPT ![s] = [@ EXCEPT !.at = "saving", !.base = project]]
  /\ answered' = [answered EXCEPT ![s] = @ \cup {NewRule(s)}]
  /\ UNCHANGED <<user, project, local, permRules, run, saved, damaged,
                 project0, cli, known, intact, starts>>
  /\ UNCHANGED settings

\* os.WriteFile empties the file; an empty file does not parse.
Truncate(s) ==
  /\ dialog[s].at = "saving"
  /\ project' = Malformed
  /\ dialog' = [dialog EXCEPT ![s] = [@ EXCEPT !.at = "writing"]]
  /\ damaged' = (\/ damaged \/ project # dialog[s].base
                 \/ \E t \in Sessions : dialog[t].at = "writing")
  /\ UNCHANGED <<user, local, permRules, run, answered, saved>>
  /\ UNCHANGED settings /\ UNCHANGED history

WithRule(base, rule) == Append(LoadFile(base), rule)

\* A mutant: the rule waits for the next start.
NotYet(rules, rule) == rules

\* The rule holds in memory from now on, saved or not, before all others.
InMemory(rules, rule) == <<rule>> \o rules

Remember(s) ==
  /\ permRules' = [permRules EXCEPT ![s] = InMemory(@, NewRule(s))]
  /\ dialog' = [dialog EXCEPT ![s] = Quiet]
  /\ UNCHANGED <<user, local, run, answered>>
  /\ UNCHANGED settings /\ UNCHANGED history

\* Of two processes that fill the file at once, the longer one's end stays.
Fill(s) ==
  /\ dialog[s].at = "writing"
  /\ \/ project' = WithRule(dialog[s].base, NewRule(s))
     \/ project # Malformed /\ project' = Malformed
  /\ saved' = saved \cup {NewRule(s)}
  /\ damaged' = (damaged \/ project # Malformed)
  /\ Remember(s)

SaveFails(s) ==
  /\ dialog[s].at \in {"saving", "writing"}
  /\ damaged' = (damaged \/ dialog[s].at = "writing")
  /\ UNCHANGED <<project, saved>>
  /\ Remember(s)
-----------------------------------------------------------------------------
(* InvokeCommand: a turn with the tools of a plugin command.               *)

BeginCommand(s, tools) ==
  /\ mode[s] \in {"terminal", "piped"} /\ command[s] = Nil /\ dialog[s].at = "none"
  /\ command' = [command EXCEPT ![s] = tools]
  /\ previous' = [previous EXCEPT ![s] = sandbox[s]]
  /\ sandbox' = [sandbox EXCEPT ![s] = tools]
  /\ sessionRules' = [sessionRules EXCEPT ![s] = @ \o AllowAll(tools)]
  /\ UNCHANGED <<user, project, local, mode, permRules, dialog, run, answered,
                 saved, damaged>>
  /\ UNCHANGED history

\* A mutant: the rules of a command outlive it.
AllKept(rules, tools) == rules

\* The rules of the command are the last ones.
CutOff(rules, tools) == SubSeq(rules, 1, Len(rules) - Cardinality(tools))

EndCommand(s) ==
  /\ command[s] # Nil /\ dialog[s].at = "none"
  /\ command' = [command EXCEPT ![s] = Nil]
  /\ sandbox' = [sandbox EXCEPT ![s] = previous[s]]
  /\ previous' = [previous EXCEPT ![s] = {}]
  /\ sessionRules' = [sessionRules EXCEPT ![s] = CutOff(@, command[s])]
  /\ UNCHANGED <<user, project, local, mode, permRules, dialog, run, answered,
                 saved, damaged>>
  /\ UNCHANGED history
-----------------------------------------------------------------------------
(* Background agents.                                                      *)

\* resolveSubagentTools and intersectTools; {} is "no cap" unless refused.
Resolve(wanted, bound) ==
  IF bound = {} THEN wanted ELSE IF wanted = {} THEN bound ELSE wanted \cap bound
Refused(wanted, bound) == bound # {} /\ Resolve(wanted, bound) = {}

\* buildSubAgentToolManager.
Equipped(allowed) == (IF allowed = {} THEN Tools ELSE allowed) \ {Task}

\* What the sandbox should be: the command's tools, else the command line's.
SandboxTools(s) == IF command[s] # Nil THEN command[s] ELSE cli[s]

\* StartBackgroundAgent: the tools are resolved here, and handed over.  The
\* sandbox bounds them, the tools of the turn's definition do not.
Launch(s, r, definition) ==
  /\ mode[s] # "off" /\ run[r] = Absent /\ dialog[s].at = "none"
  /\ (\E role \in Roles : Exposed(s, role, Task)) /\ ~Refused(definition, sandbox[s])
  /\ run' = [run EXCEPT ![r] =
       [at |-> "launched", owner |-> s, definition |-> definition,
        snapshot |-> Resolve(definition, sandbox[s]), tools |-> {},
        bound |-> SandboxTools(s)]]
  /\ UNCHANGED <<user, project, local, permRules, dialog, answered, saved, damaged>>
  /\ UNCHANGED settings /\ UNCHANGED history

\* A mutant: the goroutine resolves the tools of the definition again.
Afresh(r) == run[r].definition

\* What the goroutine asks for: the snapshot, if it has any tools.
Wanted(r) == IF run[r].snapshot = {} THEN run[r].definition ELSE run[r].snapshot

\* runSubagent in the goroutine of the run, whenever it comes to run.
Work(r) ==
  LET s == run[r].owner
      refused == Refused(Wanted(r), sandbox[s])
  IN /\ run[r].at = "launched"
     /\ run' = [run EXCEPT ![r] =
          [@ EXCEPT !.at = IF refused THEN "failed" ELSE "running",
                    !.tools = IF refused THEN {}
                              ELSE Equipped(Resolve(Wanted(r), sandbox[s]))]]
     /\ UNCHANGED <<user, project, local, permRules, dialog, answered, saved,
                    damaged>>
     /\ UNCHANGED settings /\ UNCHANGED history

Next ==
  \/ \E s \in Sessions :
       \/ \E m \in {"terminal", "piped", "server"}, tools \in CliTools :
            Start(s, m, tools)
       \/ \E c \in Calls : Ask(s, c)
       \/ \E tools \in CommandTools : BeginCommand(s, tools)
       \/ \E r \in Runs, d \in Definitions : Launch(s, r, d)
       \/ Exit(s) \/ AnswerOnce(s) \/ Always(s) \/ Truncate(s) \/ Fill(s)
       \/ SaveFails(s) \/ EndCommand(s)
  \/ \E r \in Runs : Work(r)

Spec == Init /\ [][Next]_vars
-----------------------------------------------------------------------------
\* The types of the variables.
RunType == [at : {"absent", "launched", "running", "failed"},
            owner : Sessions \cup {Nil}, definition : SUBSET Tools,
            snapshot : SUBSET Tools, tools : SUBSET Tools, bound : SUBSET Tools]
TypeOK ==
  /\ {user, project, local} \subseteq RuleFiles /\ project0 \in RuleFiles
  /\ mode \in [Sessions -> {"off", "terminal", "piped", "server"}]
  /\ permRules \in [Sessions -> Seq(Rule)] /\ sessionRules \in [Sessions -> Seq(Rule)]
  /\ sandbox \in [Sessions -> SUBSET Tools] /\ previous \in [Sessions -> SUBSET Tools]
  /\ command \in [Sessions -> CommandTools \cup {Nil}]
  /\ dialog \in [Sessions -> [at : {"none", "asked", "saving", "writing"},
                              call : Calls \cup {Nil}, base : RuleFiles]]
  /\ run \in [Runs -> RunType]
  /\ cli \in [Sessions -> SUBSET Tools]
  /\ answered \in [Sessions -> SUBSET Rule] /\ known \in [Sessions -> SUBSET Rule]
  /\ saved \subseteq Rule /\ damaged \in BOOLEAN /\ intact \in [Sessions -> BOOLEAN]
  /\ starts \in 0 .. MaxStarts /\ always \in 0 .. MaxAlways

(***************************************************************************)
(* No call that a terminal session takes through the approval workflow     *)
(* goes unasked unless somebody has allowed it: by hand in one of the      *)
(* files, with Always in this session or in one that saved it, or by       *)
(* running a plugin command that names the tool, and that only while it    *)
(* runs, whatever rules an Always or another command adds meanwhile.  It   *)
(* says nothing of calls that go round the workflow: batches               *)
(* (react.go:389), background agents (agent_runs.go:304) and failed        *)
(* dialogs (agent.go:1150); handleApprovalWorkflow, InvokeCommand.         *)
(***************************************************************************)
ByHand == {rule \in Range(LoadFile(user) \o LoadFile(local) \o LoadFile(project0)) :
             rule.allow}

UnaskedIsGranted ==
  \A s \in Sessions, c \in Calls :
    /\ mode[s] = "terminal" /\ Verdict(s, c) = "allow"
    => \/ command[s] # Nil /\ ToolOf[c] \in command[s]
       \/ \E rule \in ByHand \cup answered[s] \cup saved : Covers(rule, c)

(***************************************************************************)
(* No decision of the user is lost by a later one.  "Rules from            *)
(* higher-priority files override lower-priority ones", and what the       *)
(* program appends comes after what was there: rules found in the local    *)
(* file, then in the project's, decide for any later session, whatever     *)
(* others save - not against a plugin command or an Always of the session  *)
(* itself, nor after a save that went wrong.  And an answer of Always      *)
(* "persists across sessions; also takes effect immediately": no call that *)
(* its rule covers is asked about again, here or in a session that starts  *)
(* later, unless two saves overlap, or one fails or is cut off half-way    *)
(* (LoadForProject, AppendToProjectFile).                                  *)
(***************************************************************************)
HandWrittenStands(s, c) ==
  LET hand == Check(LoadFile(local)
                    \o (IF intact[s] THEN LoadFile(project0) ELSE <<>>), c)
  IN /\ mode[s] \in {"terminal", "piped"} /\ hand # "none"
     /\ ~(command[s] # Nil /\ ToolOf[c] \in command[s])
     /\ ~\E rule \in answered[s] : Covers(rule, c)
     => Verdict(s, c) = hand

AlwaysIsRemembered(s, c) ==
  /\ mode[s] # "off" /\ dialog[s].at \in {"none", "asked"}
  /\ \E rule \in known[s] \cup answered[s] : Covers(rule, c)
  => Verdict(s, c) # "ask"

DecisionsStand ==
  \A s \in Sessions, c \in Calls : HandWrittenStands(s, c) /\ AlwaysIsRemembered(s, c)

(***************************************************************************)
(* A background agent never gets a tool outside the sandbox - the running  *)
(* command's tools, else the command line's - that was in place when it    *)
(* was sent off, or that its definition does not name, or the one that     *)
(* delegates further: however late its goroutine starts, and whatever the  *)
(* session runs by then.  The tools: of the turn's own definition are no   *)
(* part of that bound (plugins.go:172, agent.go:358-372): a turn they cap  *)
(* may send off an agent that they do not (StartBackgroundAgent,           *)
(* resolveSubagentTools).                                                  *)
(***************************************************************************)
RunKeepsToBound ==
  \A r \in Runs :
    run[r].at = "running" =>
      /\ Task \notin run[r].tools
      /\ run[r].bound # {} => run[r].tools \subseteq run[r].bound
      /\ run[r].definition # {} => run[r].tools \subseteq run[r].definition
=============================================================================
