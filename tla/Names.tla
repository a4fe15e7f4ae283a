------------------------------- MODULE Names -------------------------------
(***************************************************************************)
(* What a name means.  Skills, roles and agents are files in five          *)
(* directories and in the binary (internal/skill/loader.go,                *)
(* internal/plugin/agents.go); plugins bring more of them, and commands    *)
(* (internal/plugin/loader.go).  All definitions live in one table, which  *)
(* the Task tool, ReadSkill, Invoke and the slash commands of the REPL     *)
(* look into (internal/app/plugins.go, repl.go).                           *)
(*                                                                         *)
(* Plugins of a marketplace come out of a Go map, so they are registered   *)
(* in any order.  The files are as the start finds them; what is said in   *)
(* them is left out but for the name, the modes, and whether they parse.   *)
(***************************************************************************)
EXTENDS Naturals

CONSTANTS Names,       \* names as they may be written, of plugins as well
          Lower,       \* name -> the name in lower case (strings.ToLower)
          None,        \* no plugin, no definition, no command
          Plugins, PluginName,
          Market,      \* the plugins that a marketplace lists
          Files,       \* definition files there may be
          Commands,    \* plugin commands there may be
          Own, Drivers \* slash commands of the REPL itself; /goal and /loop

Ladder == 0..5         \* where local files lie: 0 is the binary
Modes == {"startup", "subagent", "inline"}
Keys == [plugin : Names \cup {None}, name : Names]
Bare(n) == [plugin |-> None, name |-> n]
Scoped(p, n) == [plugin |-> PluginName[p], name |-> n]

\* The name a file is indexed by: agents keep theirs as it is written.
KeyName(f) == IF f.kind = "agent" THEN f.name ELSE Lower[f.name]

ASSUME NamesAssumption ==
  /\ None \notin Names /\ None \notin Files /\ None \notin Commands
  /\ Lower \in [Names \cup {None} -> Names \cup {None}] /\ Lower[None] = None
  /\ \A n \in Names : Lower[n] \in Names /\ Lower[Lower[n]] = Lower[n]
  /\ PluginName \in [Plugins -> Names] /\ Market \subseteq Plugins
  /\ \A p, q \in Market : PluginName[p] = PluginName[q] => p = q
  /\ Plugins \cap Ladder = {}
  /\ Files \subseteq [kind : {"skill", "role", "agent"}, name : Names,
                      place : Ladder \cup Plugins, modes : SUBSET Modes,
                      broken : BOOLEAN]
  /\ \A f, g \in Files : /\ f.kind = g.kind /\ f.place = g.place
                         /\ KeyName(f) = KeyName(g)
                         => f = g
  /\ Commands \subseteq [plugin : Plugins, name : Names]

VARIABLES
  files,              \* the definition files at this start
  commands,           \* the command files of the plugins at this start
  readable,           \* the table that ReadSkill was given
  definitions,        \* Agent.definitions: key -> file, or None
  ambiguousAgents,
  pluginCommands,     \* Agent.pluginCommands: key -> command, or None
  ambiguousCommands,
  seen,               \* plugins that were loaded, or skipped as broken
  registered          \* those of them that were registered

namesVars == <<files, commands, readable, definitions, ambiguousAgents,
          pluginCommands, ambiguousCommands, seen, registered>>
-----------------------------------------------------------------------------
(* The start without plugins: LoadRolesAndSkills, LoadAgents and           *)
(* mergeDefinitions.                                                       *)

Local(kind) == {f \in files : f.kind = kind /\ f.place \in Ladder}

\* A mutant: the first directory that has the name keeps it.
LowestOf(fs, n) ==
  LET named == {f \in fs : KeyName(f) = n}
  IN IF named = {} THEN None
     ELSE CHOOSE f \in named : \A g \in named : f.place <= g.place

\* The file that a ladder of directories has for a name.
TopOf(fs, n) ==
  LET named == {f \in fs : KeyName(f) = n}
  IN IF named = {} THEN None
     ELSE CHOOSE f \in named : \A g \in named : g.place <= f.place

\* One skill or role that does not parse, and the start does without any.
SkillTable(n) ==
  LET role == TopOf(Local("role"), n)
  IN IF \E f \in Local("role") \cup Local("skill") : f.broken THEN None
     ELSE IF role # None THEN role ELSE TopOf(Local("skill"), n)

\* An agent that does not parse is left out by itself.
LocalAgent(n) == TopOf({f \in Local("agent") : ~f.broken}, n)

\* Who has a name that both tables know: the higher place, else the skill.
LocalDefinition(n) ==
  LET skill == SkillTable(n)
      agent == LocalAgent(n)
  IN IF agent # None /\ (skill = None \/ agent.place > skill.place)
     THEN agent ELSE skill

NamesInit ==
  /\ files \in SUBSET Files /\ commands \in SUBSET Commands
  /\ readable = [n \in Names |-> SkillTable(n)]
  /\ definitions = [k \in Keys |-> IF k.plugin = None
                                   THEN LocalDefinition(k.name) ELSE None]
  /\ pluginCommands = [k \in Keys |-> None]
  /\ ambiguousAgents = {} /\ ambiguousCommands = {}
  /\ seen = {} /\ registered = {}
-----------------------------------------------------------------------------
(* RegisterPlugins, one plugin at a time.                                  *)

Has(p, kind, n) ==
  \E f \in files : f.place = p /\ f.kind = kind /\ KeyName(f) = n
The(p, kind, n) ==
  CHOOSE f \in files : f.place = p /\ f.kind = kind /\ KeyName(f) = n
HasCommand(p, n) == [plugin |-> p, name |-> n] \in commands

\* Definition.PluginName is set for the agents of plugins, not their skills.
PluginOwned(f) == f.kind = "agent" /\ f.place \in Plugins

\* What a bare name means once the plugin's skills are merged.
WithSkills(p, n) ==
  IF definitions[Bare(n)] = None /\ Has(p, "skill", n)
  THEN The(p, "skill", n) ELSE definitions[Bare(n)]

\* Two plugins have claimed the name, and no other agent gets it.
Settled(n) == n \in ambiguousAgents

\* The plugin's agent finds its name in the hands of another plugin's.
Rival(p, n) ==
  /\ Has(p, "agent", n) /\ ~Settled(n)
  /\ WithSkills(p, n) # None /\ PluginOwned(WithSkills(p, n))

\* indexPluginAgents: what a key means once the plugin's agents are indexed.
WithAgents(p, k) ==
  LET n == k.name
      own == Has(p, "agent", n)
  IN IF k.plugin # None
     THEN IF own /\ k.plugin = PluginName[p] THEN The(p, "agent", n)
          ELSE definitions[k]
     ELSE CASE Rival(p, n) -> None
            [] own /\ ~Settled(n) /\ WithSkills(p, n) = None -> The(p, "agent", n)
            [] OTHER -> WithSkills(p, n)

\* A mutant: that several plugins have claimed a name is not remembered.
NeverContested(n) == FALSE

Contested(n) == n \in ambiguousCommands

CommandRival(p, n) ==
  /\ HasCommand(p, n) /\ ~Contested(n) /\ pluginCommands[Bare(n)] # None

\* What a slash command means once the plugin's commands are indexed.
WithCommands(p, k) ==
  LET n == k.name
      mine == [plugin |-> p, name |-> n]
  IN IF ~HasCommand(p, n) THEN pluginCommands[k]
     ELSE IF k.plugin # None
     THEN IF k.plugin = PluginName[p] THEN mine ELSE pluginCommands[k]
     ELSE CASE Contested(n) -> pluginCommands[k]
            [] CommandRival(p, n) -> None
            [] OTHER -> mine

\* Plugins named one by one come after those of the marketplace.
IsNext(p) == p \notin seen /\ (p \in Market \/ Market \subseteq seen)

\* LoadPlugin fails for a plugin with a file that does not parse.
Broken(p) == \E f \in files : f.place = p /\ f.broken

Skip(p) ==
  /\ IsNext(p) /\ Broken(p)
  /\ seen' = seen \cup {p}
  /\ UNCHANGED <<files, commands, readable, definitions, ambiguousAgents,
                 pluginCommands, ambiguousCommands, registered>>

Register(p) ==
  /\ IsNext(p) /\ ~Broken(p)
  /\ seen' = seen \cup {p} /\ registered' = registered \cup {p}
  /\ definitions' = [k \in Keys |-> WithAgents(p, k)]
  /\ ambiguousAgents' = ambiguousAgents \cup {n \in Names : Rival(p, n)}
  /\ pluginCommands' = [k \in Keys |-> WithCommands(p, k)]
  /\ ambiguousCommands' =
       ambiguousCommands \cup {n \in Names : CommandRival(p, n)}
  /\ UNCHANGED <<files, commands, readable>>

NamesNext == \E p \in Plugins : Skip(p) \/ Register(p)

NamesSpec == NamesInit /\ [][NamesNext]_namesVars
-----------------------------------------------------------------------------
(* Looking a name up.                                                      *)

LowerKey(k) == [plugin |-> Lower[k.plugin], name |-> Lower[k.name]]

DefaultModes(kind) ==
  CASE kind = "role" -> {"startup"}
    [] kind = "agent" -> {"subagent"}
    [] kind = "skill" -> {"inline", "subagent"}

Permits(f, mode) ==
  mode \in (IF f.modes # {} THEN f.modes ELSE DefaultModes(f.kind))

\* Agent.ResolveSubagent, for the Task tool.
ResolveSubagent(k) ==
  LET f == definitions[LowerKey(k)]
  IN IF f # None /\ Permits(f, "subagent") THEN f ELSE None

\* Agent.LookupStartup.
LookupStartup(k) ==
  LET f == definitions[LowerKey(k)]
  IN IF f # None /\ Permits(f, "startup") THEN f ELSE None

\* Agent.lookupInvocable.
LookupInvocable(k) ==
  LET f == definitions[LowerKey(k)]
  IN IF f # None /\ (Permits(f, "startup") \/ Permits(f, "inline"))
     THEN f ELSE None

\* A mutant: an agent is listed under its bare name, whoever has that.
BareListing(f) == Bare(f.name)

\* The name that AgentCatalog reports a definition under.
Listing(f) ==
  IF \E k \in Keys : definitions[k] = f /\ k.plugin = None
  THEN CHOOSE k \in Keys : definitions[k] = f /\ k.plugin = None
  ELSE CHOOSE k \in Keys : definitions[k] = f

\* Agent.AgentCatalog: the agents, and what declares to be one.
Catalog ==
  {f \in files : /\ \E k \in Keys : definitions[k] = f
                 /\ Permits(f, "subagent")
                 /\ f.kind = "agent" \/ "subagent" \in f.modes}

\* What the REPL does with a slash command: Command of the model stands for
\* running that command, a file for a turn with that definition.  The turn
\* looks the definition up again by its own name.
Slash(k) ==
  LET f == LookupStartup(k)
      bare == k.plugin = None
      builtin == bare /\ k.name \in Own
  IN IF bare /\ k.name \in Drivers THEN "driver"
     ELSE IF pluginCommands[k] # None THEN pluginCommands[k]
     ELSE IF bare /\ k.name \in ambiguousCommands THEN "ambiguous"
     ELSE IF f # None /\ ~builtin THEN LookupInvocable(Bare(f.name))
     ELSE IF builtin THEN "builtin" ELSE None

\* The skills that the system prompt lists: BuildSkillCatalog.
SkillCatalog == {k \in Keys : definitions[k] # None
                              /\ definitions[k].kind = "skill"}

\* ReadSkill, with the table that was built before the plugins came.
ReadSkill(k) ==
  LET f == IF k.plugin = None THEN readable[Lower[k.name]] ELSE None
  IN IF f # None /\ Permits(f, "inline") THEN f ELSE None
-----------------------------------------------------------------------------
\* The types of the variables.
NamesTypeOK ==
  /\ files \subseteq Files /\ commands \subseteq Commands
  /\ readable \in [Names -> Files \cup {None}]
  /\ definitions \in [Keys -> Files \cup {None}]
  /\ pluginCommands \in [Keys -> Commands \cup {None}]
  /\ ambiguousAgents \subseteq Names /\ ambiguousCommands \subseteq Names
  /\ registered \subseteq seen /\ seen \subseteq Plugins

(***************************************************************************)
(* Whoever comes first, a bare name means the command, or the agent, of    *)
(* the only plugin that has it, and is ambiguous as soon as two have it: a *)
(* third does not get the name that the second one freed.  For agents this *)
(* is said of names that no local file and no skill of a plugin has; under *)
(* its scoped name an agent is always there, unless two plugins have one   *)
(* name (RegisterPlugins, indexPluginAgents).                              *)
(***************************************************************************)
CommandOwners(n) == {p \in registered : HasCommand(p, n)}
AgentOwners(n) == {p \in registered : Has(p, "agent", n)}
IsFree(n) == /\ LocalDefinition(n) = None
             /\ ~\E p \in registered : Has(p, "skill", n)
Several(owners) == \E p, q \in owners : p # q

BareNamesAreUnambiguous ==
  /\ \A n \in Names :
       /\ n \in ambiguousCommands <=> Several(CommandOwners(n))
       /\ \A p \in CommandOwners(n) :
            pluginCommands[Bare(n)] = [plugin |-> p, name |-> n]
              <=> CommandOwners(n) = {p}
       /\ CommandOwners(n) = {} => pluginCommands[Bare(n)] = None
  /\ \A n \in Names : IsFree(n) =>
       /\ n \in ambiguousAgents <=> Several(AgentOwners(n))
       /\ \A p \in AgentOwners(n) :
            definitions[Bare(n)] = The(p, "agent", n) <=> AgentOwners(n) = {p}
       /\ AgentOwners(n) = {} => definitions[Bare(n)] = None
  /\ \A p \in registered, n \in Names :
       /\ Has(p, "agent", n)
       /\ ~Several({q \in registered : PluginName[q] = PluginName[p]})
       => definitions[Scoped(p, n)] = The(p, "agent", n)

(***************************************************************************)
(* A name that a project, personal or built-in file has goes on meaning    *)
(* that file: of these the highest place of the ladder, a role before a    *)
(* skill, and an agent only from a higher place than either.  Where role,  *)
(* agent and skill of one name stand so that each gives way to another, no *)
(* file ranks above all the rest, and nothing is claimed (LoadSkills,      *)
(* mergeDefinitions, RegisterPlugins).                                     *)
(***************************************************************************)
Outranks(f, g) ==
  IF f.kind = "agent" THEN f.place > g.place
  ELSE IF g.kind = "agent" THEN f.place >= g.place
  ELSE IF f.kind = g.kind THEN f.place > g.place ELSE f.kind = "role"

LocalNamesWin ==
  LET fit == {f \in files : /\ f.place \in Ladder /\ ~f.broken
                            /\ \/ f.kind = "agent"
                               \/ ~\E g \in files :
                                     /\ g.kind # "agent" /\ g.place \in Ladder
                                     /\ g.broken}
  IN \A f \in fit :
       LET rivals == {g \in fit \ {f} : KeyName(g) = KeyName(f)}
       IN (\A g \in rivals : Outranks(f, g)) /\ (f.kind # "agent" =>
             \A g \in rivals : g.kind = "role" => f.kind = "role")
          => definitions[Bare(KeyName(f))] = f

(***************************************************************************)
(* A name that the model or the user is shown, when it is in lower case,   *)
(* leads to what it was shown for: the Task tool finds every agent that    *)
(* its description lists, a slash command of the palette runs its          *)
(* definition, if no command of the REPL or of a plugin has the name, and  *)
(* ReadSkill reads the skills that the system prompt lists, those of the   *)
(* plugins excepted: its table is older than they are (AgentCatalog,       *)
(* slashCandidates, BuildSkillCatalog).                                    *)
(***************************************************************************)
ListedNamesAnswer ==
  /\ \A f \in Catalog : LowerKey(Listing(f)) = Listing(f)
                        => ResolveSubagent(Listing(f)) = f
  /\ \A n \in Names :
       LET f == definitions[Bare(n)]
       IN /\ f # None /\ Permits(f, "startup") /\ Lower[n] = n
          /\ n \notin Own \cup Drivers \cup ambiguousCommands
          /\ pluginCommands[Bare(n)] = None
          => Slash(Bare(n)) = f
  /\ \A k \in SkillCatalog :
       /\ Permits(definitions[k], "inline")
       /\ definitions[k].place \in Ladder
       => ReadSkill(k) = definitions[k]
=============================================================================
