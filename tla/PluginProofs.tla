---------------------------- MODULE PluginProofs ----------------------------
(***************************************************************************)
(* What plugins bring with them: names (Names) and rights (Permissions).   *)
(*                                                                         *)
(* Names: who has a bare name does not depend on the order in which        *)
(* plugins are registered, for any plugins, files and commands.            *)
(* BareNamesAreUnambiguous says when a name means the one of an owner; the *)
(* step needs, besides, that a name of several owners means nothing.       *)
(* What a name leads to is always a file of that name, and what a local    *)
(* file has won it keeps (LookupInv), so that what is listed answers.      *)
(*                                                                         *)
(* Rights: a background agent keeps to the tools of the turn that sent it  *)
(* off, for any sessions, tools, plugin commands and definitions.  The     *)
(* sandbox of a session is at any moment that of the turn it runs          *)
(* (SandboxFits), so the tools resolved at the launch are within the bound *)
(* of the run.  They are empty only where neither the definition nor the   *)
(* turn has a bound (SnapshotsFit); otherwise what the goroutine resolves  *)
(* later, under whatever sandbox there is by then, is a part of them.      *)
(*                                                                         *)
(* Decisions: no tool runs unasked unless a rule grants it, and what the   *)
(* user said stands, in the session and after a restart.  Every rule that  *)
(* allows comes from the files as they were or from an answer (GrantsFit); *)
(* a session goes on deciding by the rules it has found (Remembers); and   *)
(* until a save goes wrong the project's file is whole, or one session is  *)
(* writing it and what that one has read was whole (FileFits).             *)
(***************************************************************************)
EXTENDS Names, Permissions, SequenceTheorems, FiniteSetTheorems, TLAPS
-----------------------------------------------------------------------------
(* Names.                                                                  *)

Loaded == files \subseteq Files /\ commands \subseteq Commands
          /\ registered \subseteq seen /\ seen \subseteq Plugins

\* A command's bare name.
CommandIsClear(n) ==
  /\ n \in ambiguousCommands <=> Several(CommandOwners(n))
  /\ \A p \in CommandOwners(n) :
       CommandOwners(n) = {p} => pluginCommands[Bare(n)] = [plugin |-> p, name |-> n]
  /\ CommandOwners(n) = {} \/ Several(CommandOwners(n)) => pluginCommands[Bare(n)] = None

\* An agent's, and its scoped one.
AgentIsClear(n) ==
  IsFree(n) =>
    /\ n \in ambiguousAgents <=> Several(AgentOwners(n))
    /\ \A p \in AgentOwners(n) :
         AgentOwners(n) = {p} => definitions[Bare(n)] = The(p, "agent", n)
    /\ AgentOwners(n) = {} \/ Several(AgentOwners(n)) => definitions[Bare(n)] = None

ScopedIsClear(p, n) ==
  /\ Has(p, "agent", n)
  /\ ~Several({q \in registered : PluginName[q] = PluginName[p]})
  => definitions[Scoped(p, n)] = The(p, "agent", n)

NamesInv == /\ Loaded
            /\ \A n \in Names : CommandIsClear(n) /\ AgentIsClear(n)
            /\ \A p \in registered, n \in Names : ScopedIsClear(p, n)
-----------------------------------------------------------------------------
\* Keys without a plugin, and with one.
LEMMA KeyFacts ==
  /\ \A n \in Names : Bare(n) \in Keys /\ Bare(n).plugin = None /\ Bare(n).name = n
  /\ \A p \in Plugins, n \in Names :
       /\ Scoped(p, n) \in Keys /\ Scoped(p, n).plugin = PluginName[p]
       /\ Scoped(p, n).name = n /\ PluginName[p] # None
  BY NamesAssumption DEF Bare, Scoped, Keys

\* The file that a plugin has for a name is one of the files.
LEMMA TheFile ==
  ASSUME NEW p, NEW kind, NEW n, Has(p, kind, n)
  PROVE  /\ The(p, kind, n) \in files
         /\ The(p, kind, n).place = p /\ The(p, kind, n).kind = kind
  BY DEF Has, The

\* A set with one more element.
LEMMA OneMore ==
  ASSUME NEW S, NEW T, NEW p, T = S \cup {p}, p \notin S
  PROVE  /\ S = {} => T = {p} /\ ~Several(T)
         /\ S # {} => Several(T) /\ \A q : T # {q}
  <1>1. S = {} => T = {p} /\ ~Several(T)
    BY DEF Several
  <1>2. ASSUME NEW r \in S PROVE Several(T) /\ \A q : T # {q}
    <2>1. r # p /\ r \in T /\ p \in T
      BY <1>2
    <2> QED
      BY <2>1 DEF Several
  <1> QED
    BY <1>1, <1>2

\* Several owners are not one.
LEMMA OneOrSeveral == ASSUME NEW S PROVE /\ S = {} \/ Several(S) \/ \E q \in S : S = {q}
                                         /\ \A q : S = {q} => ~Several(S)
                                         /\ S = {} => ~Several(S)
  BY DEF Several

\* The invariant says what the property does.
LEMMA InvIsClear == NamesInv => BareNamesAreUnambiguous
  <1> SUFFICES ASSUME NamesInv PROVE BareNamesAreUnambiguous
    OBVIOUS
  <1>1. ASSUME NEW n \in Names, NEW p \in CommandOwners(n)
        PROVE  pluginCommands[Bare(n)] = [plugin |-> p, name |-> n] <=> CommandOwners(n) = {p}
    <2>1. [plugin |-> p, name |-> n] # None
      BY <1>1, NamesAssumption DEF CommandOwners, HasCommand, NamesInv, Loaded
    <2>2. ASSUME NEW q \in CommandOwners(n), CommandOwners(n) = {q} PROVE p = q
      BY <1>1, <2>2
    <2>3. CommandIsClear(n)
      BY DEF NamesInv
    <2>4. CommandOwners(n) # {p} => Several(CommandOwners(n))
      BY <1>1 DEF Several
    <2> QED
      BY <2>1, <2>3, <2>4, <1>1 DEF CommandIsClear
  <1>2. ASSUME NEW n \in Names, IsFree(n), NEW p \in AgentOwners(n)
        PROVE  definitions[Bare(n)] = The(p, "agent", n) <=> AgentOwners(n) = {p}
    <2>1. The(p, "agent", n) # None
      BY <1>2, TheFile, NamesAssumption DEF AgentOwners, NamesInv, Loaded
    <2>2. AgentIsClear(n)
      BY DEF NamesInv
    <2>3. AgentOwners(n) # {p} => Several(AgentOwners(n))
      BY <1>2 DEF Several
    <2> QED
      BY <1>2, <2>1, <2>2, <2>3 DEF AgentIsClear
  <1>3. \A n \in Names : CommandIsClear(n) /\ AgentIsClear(n)
    BY DEF NamesInv
  <1>4. \A p \in registered, n \in Names : ScopedIsClear(p, n)
    BY DEF NamesInv
  <1>5. \A n \in Names :
          /\ n \in ambiguousCommands <=> Several(CommandOwners(n))
          /\ CommandOwners(n) = {} => pluginCommands[Bare(n)] = None
          /\ IsFree(n) => /\ n \in ambiguousAgents <=> Several(AgentOwners(n))
                          /\ AgentOwners(n) = {} => definitions[Bare(n)] = None
    BY <1>3 DEF CommandIsClear, AgentIsClear
  <1> QED
    BY <1>1, <1>2, <1>4, <1>5 DEF BareNamesAreUnambiguous, ScopedIsClear

\* At the start no plugin is registered.
LEMMA InitNames == NamesInit => NamesInv
  <1> SUFFICES ASSUME NamesInit PROVE NamesInv
    OBVIOUS
  <1>1. Loaded /\ registered = {} /\ ambiguousAgents = {} /\ ambiguousCommands = {}
    BY DEF NamesInit, Loaded
  <1>2. \A n \in Names : pluginCommands[Bare(n)] = None /\ definitions[Bare(n)] = LocalDefinition(n)
    BY KeyFacts DEF NamesInit
  <1>3. \A n \in Names : CommandOwners(n) = {} /\ AgentOwners(n) = {}
    BY <1>1 DEF CommandOwners, AgentOwners
  <1>4. \A n \in Names : CommandIsClear(n) /\ AgentIsClear(n)
    BY <1>1, <1>2, <1>3, OneOrSeveral DEF CommandIsClear, AgentIsClear, IsFree
  <1> QED
    BY <1>1, <1>4 DEF NamesInv
-----------------------------------------------------------------------------
\* Registering a plugin keeps every command's name clear.
LEMMA CommandsStayClear ==
  ASSUME NamesInv, NEW p \in Plugins, Register(p), NEW n \in Names
  PROVE  CommandIsClear(n)'
  <1>1. /\ commands' = commands /\ registered' = registered \cup {p} /\ p \notin registered
        /\ commands \subseteq Commands
    BY DEF Register, IsNext, NamesInv, Loaded
  <1>2. CommandIsClear(n)
    BY DEF NamesInv
  <1>3. /\ pluginCommands'[Bare(n)] = WithCommands(p, Bare(n))
        /\ n \in ambiguousCommands' <=> n \in ambiguousCommands \/ CommandRival(p, n)
    BY KeyFacts DEF Register
  <1>4. CASE ~HasCommand(p, n)
    <2>1. CommandOwners(n)' = CommandOwners(n)
      BY <1>1, <1>4 DEF CommandOwners, HasCommand
    <2>2. /\ pluginCommands'[Bare(n)] = pluginCommands[Bare(n)]
          /\ n \in ambiguousCommands' <=> n \in ambiguousCommands
      BY <1>3, <1>4, KeyFacts DEF WithCommands, CommandRival
    <2> QED
      BY <1>2, <2>1, <2>2 DEF CommandIsClear
  <1>5. CASE HasCommand(p, n)
    <2> DEFINE S == CommandOwners(n)
               T == CommandOwners(n)'
               mine == [plugin |-> p, name |-> n]
    <2>1. T = S \cup {p} /\ p \notin S
      BY <1>1, <1>5 DEF CommandOwners, HasCommand
    <2>2. \A q \in S : [plugin |-> q, name |-> n] # None
      BY <1>1, NamesAssumption DEF CommandOwners, HasCommand
    <2>3. /\ pluginCommands'[Bare(n)] =
               IF Contested(n) THEN pluginCommands[Bare(n)]
               ELSE IF CommandRival(p, n) THEN None ELSE mine
          /\ CommandRival(p, n) <=> ~Contested(n) /\ pluginCommands[Bare(n)] # None
      BY <1>3, <1>5, KeyFacts DEF WithCommands, CommandRival
    <2>4. Contested(n) <=> Several(S)
      BY <1>2 DEF CommandIsClear, Contested
    <2>5. \A q \in S : S = {q} => pluginCommands[Bare(n)] # None
      BY <1>2, <2>2 DEF CommandIsClear
    <2>6. S = {} \/ Several(S) => pluginCommands[Bare(n)] = None
      BY <1>2 DEF CommandIsClear
    <2>7. /\ S = {} => T = {p} /\ ~Several(T)
          /\ S # {} => Several(T) /\ \A q : T # {q}
      BY <2>1, OneMore
    <2>8. S = {} \/ Several(S) \/ \E q \in S : S = {q}
      BY OneOrSeveral
    <2>9. S = {} => ~Several(S)
      BY OneOrSeveral
    <2>10. n \in ambiguousCommands' <=> Several(S) \/ CommandRival(p, n)
      BY <1>3, <2>4 DEF Contested
    <2> HIDE DEF S, T
    <2>11. CASE S = {}
      <3>1. pluginCommands'[Bare(n)] = mine /\ n \notin ambiguousCommands'
        BY <2>11, <2>3, <2>4, <2>6, <2>9, <2>10
      <3> QED
        BY <3>1, <2>11, <2>7 DEF CommandIsClear, T
    <2>12. CASE S # {}
      <3>1. pluginCommands'[Bare(n)] = None /\ n \in ambiguousCommands'
        BY <2>12, <2>3, <2>4, <2>5, <2>6, <2>8, <2>10
      <3> QED
        BY <3>1, <2>12, <2>7 DEF CommandIsClear, T
    <2> QED
      BY <2>11, <2>12
  <1> QED
    BY <1>4, <1>5

\* The same of an agent's name, while it is free.
LEMMA AgentsStayClear ==
  ASSUME NamesInv, NEW p \in Plugins, Register(p), NEW n \in Names
  PROVE  AgentIsClear(n)'
  <1>1. /\ files' = files /\ registered' = registered \cup {p} /\ p \notin registered
        /\ files \subseteq Files /\ registered \subseteq Plugins
    BY DEF Register, IsNext, NamesInv, Loaded
  <1>2. SUFFICES ASSUME IsFree(n)'
                 PROVE  /\ n \in ambiguousAgents' <=> Several(AgentOwners(n)')
                        /\ \A q \in AgentOwners(n)' : AgentOwners(n)' = {q} =>
                             definitions'[Bare(n)] = The(q, "agent", n)
                        /\ AgentOwners(n)' = {} \/ Several(AgentOwners(n)') =>
                             definitions'[Bare(n)] = None
    BY <1>1 DEF AgentIsClear, Several, The
  <1>3. IsFree(n) /\ ~Has(p, "skill", n)
    BY <1>1, <1>2 DEF IsFree, Has, LocalDefinition, SkillTable, LocalAgent, TopOf, Local
  <1>4. AgentIsClear(n)
    BY DEF NamesInv
  <1>5. /\ definitions'[Bare(n)] = WithAgents(p, Bare(n))
        /\ n \in ambiguousAgents' <=> n \in ambiguousAgents \/ Rival(p, n)
        /\ WithSkills(p, n) = definitions[Bare(n)]
    BY <1>3, KeyFacts DEF Register, WithSkills
  <1>6. CASE ~Has(p, "agent", n)
    <2>1. AgentOwners(n)' = AgentOwners(n)
      BY <1>1, <1>6 DEF AgentOwners, Has
    <2>2. /\ definitions'[Bare(n)] = definitions[Bare(n)]
          /\ n \in ambiguousAgents' <=> n \in ambiguousAgents
      BY <1>5, <1>6, KeyFacts DEF WithAgents, Rival
    <2> QED
      BY <1>3, <1>4, <2>1, <2>2 DEF AgentIsClear
  <1>7. CASE Has(p, "agent", n)
    <2> DEFINE S == AgentOwners(n)
               T == AgentOwners(n)'
    <2>1. T = S \cup {p} /\ p \notin S
      BY <1>1, <1>7 DEF AgentOwners, Has
    <2>2. \A q \in S : /\ The(q, "agent", n) # None
                       /\ PluginOwned(The(q, "agent", n))
      BY <1>1, TheFile, NamesAssumption DEF AgentOwners, PluginOwned
    <2>3. /\ definitions'[Bare(n)] =
               IF Rival(p, n) THEN None
               ELSE IF ~Settled(n) /\ definitions[Bare(n)] = None THEN The(p, "agent", n)
               ELSE definitions[Bare(n)]
          /\ Rival(p, n) <=> /\ ~Settled(n) /\ definitions[Bare(n)] # None
                             /\ PluginOwned(definitions[Bare(n)])
      BY <1>5, <1>7, KeyFacts DEF WithAgents, Rival
    <2>4. Settled(n) <=> Several(S)
      BY <1>3, <1>4 DEF AgentIsClear, Settled
    <2>5. \A q \in S : S = {q} => /\ definitions[Bare(n)] # None
                                  /\ PluginOwned(definitions[Bare(n)])
      BY <1>3, <1>4, <2>2 DEF AgentIsClear
    <2>6. S = {} \/ Several(S) => definitions[Bare(n)] = None
      BY <1>3, <1>4 DEF AgentIsClear
    <2>7. /\ S = {} => T = {p} /\ ~Several(T)
          /\ S # {} => Several(T) /\ \A q : T # {q}
      BY <2>1, OneMore
    <2>8. S = {} \/ Several(S) \/ \E q \in S : S = {q}
      BY OneOrSeveral
    <2>9. S = {} => ~Several(S)
      BY OneOrSeveral
    <2>10. n \in ambiguousAgents' <=> Several(S) \/ Rival(p, n)
      BY <1>5, <2>4 DEF Settled
    <2> HIDE DEF S, T
    <2>11. CASE S = {}
      <3>1. definitions'[Bare(n)] = The(p, "agent", n) /\ n \notin ambiguousAgents'
        BY <2>11, <2>3, <2>4, <2>6, <2>9, <2>10
      <3> QED
        BY <3>1, <2>11, <2>7 DEF T
    <2>12. CASE S # {}
      <3>1. definitions'[Bare(n)] = None /\ n \in ambiguousAgents'
        BY <2>12, <2>3, <2>4, <2>5, <2>6, <2>8, <2>10
      <3> QED
        BY <3>1, <2>12, <2>7 DEF T
    <2> QED
      BY <2>11, <2>12
  <1> QED
    BY <1>6, <1>7

\* And of the scoped names of agents.
LEMMA ScopedStayClear ==
  ASSUME NamesInv, NEW p \in Plugins, Register(p), NEW q \in registered', NEW n \in Names
  PROVE  ScopedIsClear(q, n)'
  <1>1. /\ files' = files /\ registered' = registered \cup {p} /\ registered \subseteq Plugins
        /\ q \in Plugins
    BY DEF Register, IsNext, NamesInv, Loaded
  <1>2. SUFFICES ASSUME Has(q, "agent", n),
                        ~Several({r \in registered' : PluginName[r] = PluginName[q]})
                 PROVE  definitions'[Scoped(q, n)] = The(q, "agent", n)
    BY <1>1 DEF ScopedIsClear, Has, The, Scoped, Several
  <1>3. definitions'[Scoped(q, n)] =
          IF Has(p, "agent", n) /\ PluginName[q] = PluginName[p] THEN The(p, "agent", n)
          ELSE definitions[Scoped(q, n)]
    BY <1>1, KeyFacts DEF Register, WithAgents
  <1>4. CASE q = p
    BY <1>2, <1>3, <1>4
  <1>5. CASE q # p
    <2>1. PluginName[q] # PluginName[p]
      BY <1>1, <1>2, <1>5 DEF Several
    <2>2. q \in registered /\ ~Several({r \in registered : PluginName[r] = PluginName[q]})
      BY <1>1, <1>2, <1>5 DEF Several
    <2>3. definitions[Scoped(q, n)] = The(q, "agent", n)
      BY <1>2, <2>2 DEF NamesInv, ScopedIsClear
    <2> QED
      BY <1>3, <2>1, <2>3
  <1> QED
    BY <1>4, <1>5

\* Each plugin, registered or skipped as broken, preserves the invariant.
LEMMA StepNames == NamesInv /\ [NamesNext]_namesVars => NamesInv'
  <1> SUFFICES ASSUME NamesInv, [NamesNext]_namesVars PROVE NamesInv'
    OBVIOUS
  <1>1. ASSUME NEW p \in Plugins, Register(p) PROVE NamesInv'
    <2>1. Loaded'
      BY <1>1 DEF Register, NamesInv, Loaded
    <2> QED
      BY <1>1, <2>1, CommandsStayClear, AgentsStayClear, ScopedStayClear DEF NamesInv
  <1>2. ASSUME UNCHANGED <<files, commands, definitions, ambiguousAgents, pluginCommands,
                           ambiguousCommands, registered>>, Loaded'
        PROVE  NamesInv'
    <2>1. ASSUME NEW n \in Names PROVE CommandIsClear(n)'
      <3>1. CommandIsClear(n)
        BY DEF NamesInv
      <3> QED
        BY <1>2, <3>1 DEF CommandIsClear, CommandOwners, HasCommand, Several
    <2>2. ASSUME NEW n \in Names PROVE AgentIsClear(n)'
      <3>1. IsFree(n)' <=> IsFree(n)
        BY <1>2 DEF IsFree, Has, LocalDefinition, SkillTable, LocalAgent, TopOf, Local
      <3>2. AgentOwners(n)' = AgentOwners(n) /\ \A p : The(p, "agent", n)' = The(p, "agent", n)
        BY <1>2 DEF AgentOwners, Has, The
      <3>3. AgentIsClear(n)
        BY DEF NamesInv
      <3> QED
        BY <1>2, <3>1, <3>2, <3>3 DEF AgentIsClear, Several
    <2>3. ASSUME NEW p \in registered, NEW n \in Names PROVE ScopedIsClear(p, n)'
      <3>1. ScopedIsClear(p, n)
        BY DEF NamesInv
      <3> QED
        BY <1>2, <3>1 DEF ScopedIsClear, Has, The, Several, Scoped
    <2> QED
      BY <1>2, <2>1, <2>2, <2>3 DEF NamesInv
  <1>3. ASSUME NEW p \in Plugins, Skip(p) PROVE NamesInv'
    BY <1>2, <1>3 DEF Skip, NamesInv, Loaded
  <1>4. CASE UNCHANGED namesVars
    BY <1>2, <1>4 DEF namesVars, NamesInv, Loaded
  <1> QED
    BY <1>1, <1>3, <1>4 DEF NamesNext

(***************************************************************************)
(* Bare names are unambiguous, whatever the order in which plugins are     *)
(* registered (RegisterPlugins, indexPluginAgents).                        *)
(***************************************************************************)
THEOREM NamesNeverDependOnOrder == NamesSpec => []BareNamesAreUnambiguous
  BY InvIsClear, InitNames, StepNames, PTL DEF NamesSpec

-----------------------------------------------------------------------------
(* What a name leads to.                                                   *)

\* Every name leads to a file of that name, and a local one to what it meant
\* before the plugins came, which ReadSkill still knows.
NameFits(k) ==
  definitions[k] # None =>
    /\ definitions[k] \in files /\ KeyName(definitions[k]) = k.name
    /\ definitions[k].place \in Ladder =>
         k.plugin = None /\ definitions[k] = LocalDefinition(k.name)

LookupInv ==
  /\ NamesTypeOK /\ readable = [n \in Names |-> SkillTable(n)]
  /\ \A k \in Keys : NameFits(k)
  /\ \A n \in Names : LocalDefinition(n) # None => definitions[Bare(n)] = LocalDefinition(n)

\* What files are.
LEMMA FileFacts ==
  ASSUME NEW f \in Files
  PROVE  /\ f # None /\ f.kind \in {"skill", "role", "agent"} /\ f.name \in Names
         /\ KeyName(f) \in Names /\ Lower[f.name] \in Names
         /\ f.kind = "agent" => KeyName(f) = f.name
         /\ f.kind # "agent" => KeyName(f) = Lower[f.name]
  BY NamesAssumption DEF KeyName

\* A set of numbers has a least one.
LEMMA LeastNumber ==
  ASSUME NEW T, T \subseteq Nat, T # {}
  PROVE  \E x \in T : \A y \in T : x <= y
  <1>1. \E x \in T : \A y \in T : ~(<<y, x>> \in OpToRel(<, Nat))
    BY NatLessThanWellFounded, WFMin, Zenon
  <1>2. PICK x \in T : \A y \in T : ~(<<y, x>> \in OpToRel(<, Nat))
    BY <1>1, Zenon
  <1>3. \A y \in T : ~(y < x)
    BY <1>2, Zenon DEF OpToRel
  <1>4. ASSUME NEW y \in T PROVE x <= y
    BY <1>3, <1>4
  <1> QED
    BY <1>4

\* A ladder has a highest rung.
LEMMA HighestRung ==
  ASSUME NEW S, S \subseteq Ladder, S # {}
  PROVE  \E x \in S : \A y \in S : y <= x
  <1> DEFINE T == {n \in Nat : \A y \in S : y <= n}
  <1>1. T \subseteq Nat /\ 5 \in T
    BY DEF Ladder
  <1>2. PICK m \in T : \A n \in T : m <= n
    BY <1>1, LeastNumber
  <1>3. m \in Nat /\ \A y \in S : y \in Nat /\ y <= m
    BY <1>2 DEF Ladder
  <1>4. CASE m \in S
    BY <1>3, <1>4
  <1>5. CASE m \notin S
    <2>1. \A y \in S : y <= m - 1 /\ m - 1 \in Nat
      BY <1>3, <1>5
    <2>2. m - 1 \in T
      BY <2>1
    <2> QED
      BY <1>2, <1>3, <2>2
  <1> QED
    BY <1>4, <1>5

\* The file that a ladder has for a name: the highest, if any has it.
LEMMA TopFacts ==
  ASSUME NEW fs, fs \subseteq Files, \A f \in fs : f.place \in Ladder, NEW n
  PROVE  /\ TopOf(fs, n) = None => \A f \in fs : KeyName(f) # n
         /\ TopOf(fs, n) # None =>
              /\ TopOf(fs, n) \in fs /\ KeyName(TopOf(fs, n)) = n
              /\ \A g \in fs : KeyName(g) = n => g.place <= TopOf(fs, n).place
  <1> DEFINE named == {f \in fs : KeyName(f) = n}
  <1>1. CASE named = {}
    <2>1. TopOf(fs, n) = None
      BY <1>1 DEF TopOf
    <2> QED
      BY <1>1, <2>1
  <1>2. CASE named # {}
    <2> DEFINE S == {f.place : f \in named}
    <2>1. S \subseteq Ladder /\ S # {}
      BY <1>2
    <2>2. \E x \in S : \A y \in S : y <= x
      BY <2>1, HighestRung
    <2>3. \E f \in named : \A g \in named : g.place <= f.place
      BY <2>2
    <2>4. TopOf(fs, n) = CHOOSE f \in named : \A g \in named : g.place <= f.place
      BY <1>2 DEF TopOf
    <2>5. TopOf(fs, n) \in named /\ \A g \in named : g.place <= TopOf(fs, n).place
      BY <2>3, <2>4
    <2>6. None \notin fs
      BY FileFacts
    <2> QED
      BY <2>5, <2>6
  <1> QED
    BY <1>1, <1>2

\* The tables of the start: skills and roles, agents, and both.
LEMMA LocalFacts ==
  ASSUME files \subseteq Files, NEW n
  PROVE  /\ SkillTable(n) # None =>
              /\ SkillTable(n) \in files /\ KeyName(SkillTable(n)) = n
              /\ SkillTable(n).place \in Ladder /\ SkillTable(n).kind \in {"skill", "role"}
         /\ LocalAgent(n) # None =>
              /\ LocalAgent(n) \in files /\ KeyName(LocalAgent(n)) = n
              /\ LocalAgent(n).place \in Ladder /\ LocalAgent(n).kind = "agent"
         /\ LocalDefinition(n) \in {SkillTable(n), LocalAgent(n)}
  <1>1. \A kind : Local(kind) \subseteq Files /\ \A f \in Local(kind) : f.place \in Ladder
    BY DEF Local
  <1>2. ASSUME NEW kind, NEW t, t = TopOf(Local(kind), n), t # None
        PROVE  t \in files /\ KeyName(t) = n /\ t.place \in Ladder /\ t.kind = kind
    <2>1. t \in Local(kind) /\ KeyName(t) = n
      BY <1>1, <1>2, TopFacts
    <2> QED
      BY <2>1 DEF Local
  <1>3. SkillTable(n) \in {None, TopOf(Local("role"), n), TopOf(Local("skill"), n)}
    BY DEF SkillTable
  <1>4. LocalAgent(n) # None => /\ LocalAgent(n) \in Local("agent")
                                /\ KeyName(LocalAgent(n)) = n
    <2> DEFINE fs == {f \in Local("agent") : ~f.broken}
    <2>1. fs \subseteq Files /\ \A f \in fs : f.place \in Ladder
      BY <1>1
    <2>2. LocalAgent(n) = TopOf(fs, n)
      BY DEF LocalAgent
    <2>3. TopOf(fs, n) # None => TopOf(fs, n) \in fs /\ KeyName(TopOf(fs, n)) = n
      BY <2>1, TopFacts
    <2> QED
      BY <2>2, <2>3
  <1>5. LocalDefinition(n) \in {SkillTable(n), LocalAgent(n)}
    BY DEF LocalDefinition
  <1>6. SkillTable(n) # None =>
          /\ SkillTable(n) \in files /\ KeyName(SkillTable(n)) = n
          /\ SkillTable(n).place \in Ladder /\ SkillTable(n).kind \in {"skill", "role"}
    BY <1>2, <1>3
  <1> QED
    BY <1>4, <1>5, <1>6 DEF Local

\* The start.
LEMMA InitLookup == NamesInit => LookupInv
  <1> SUFFICES ASSUME NamesInit PROVE LookupInv
    OBVIOUS
  <1>1. /\ files \subseteq Files /\ commands \subseteq Commands
        /\ readable = [n \in Names |-> SkillTable(n)]
        /\ definitions = [k \in Keys |-> IF k.plugin = None THEN LocalDefinition(k.name) ELSE None]
        /\ pluginCommands = [k \in Keys |-> None]
        /\ ambiguousAgents = {} /\ ambiguousCommands = {} /\ seen = {} /\ registered = {}
    BY DEF NamesInit
  <1>2. \A n : SkillTable(n) \in Files \cup {None} /\ LocalDefinition(n) \in Files \cup {None}
    BY <1>1, LocalFacts
  <1>3. /\ readable \in [Names -> Files \cup {None}]
        /\ definitions \in [Keys -> Files \cup {None}]
        /\ pluginCommands \in [Keys -> Commands \cup {None}]
    BY <1>1, <1>2
  <1>4. NamesTypeOK
    BY <1>1, <1>3 DEF NamesTypeOK
  <1>5. ASSUME NEW k \in Keys PROVE NameFits(k)
    BY <1>1, LocalFacts DEF NameFits
  <1>6. \A n \in Names : definitions[Bare(n)] = LocalDefinition(n)
    BY <1>1, KeyFacts
  <1> QED
    BY <1>1, <1>4, <1>5, <1>6 DEF LookupInv

\* A plugin takes names that are free, and no others.
LEMMA StepLookup == LookupInv /\ [NamesNext]_namesVars => LookupInv'
  <1> SUFFICES ASSUME LookupInv, [NamesNext]_namesVars PROVE LookupInv'
    OBVIOUS
  <1>1. /\ files \subseteq Files /\ commands \subseteq Commands
        /\ definitions \in [Keys -> Files \cup {None}]
        /\ pluginCommands \in [Keys -> Commands \cup {None}]
        /\ registered \subseteq seen /\ seen \subseteq Plugins
        /\ Plugins \cap Ladder = {}
    BY NamesAssumption DEF LookupInv, NamesTypeOK
  <1>2. ASSUME UNCHANGED files
        PROVE  \A n : SkillTable(n)' = SkillTable(n) /\ LocalDefinition(n)' = LocalDefinition(n)
    BY <1>2 DEF LocalDefinition, SkillTable, LocalAgent, TopOf, Local
  <1>3. ASSUME UNCHANGED <<files, readable, definitions>>, NamesTypeOK' PROVE LookupInv'
    <2>1. \A k \in Keys : NameFits(k)'
      BY <1>2, <1>3 DEF LookupInv, NameFits
    <2> QED
      BY <1>2, <1>3, <2>1 DEF LookupInv
  <1>4. CASE UNCHANGED namesVars
    BY <1>3, <1>4 DEF namesVars, LookupInv, NamesTypeOK
  <1>5. ASSUME NEW p \in Plugins, Skip(p) PROVE LookupInv'
    BY <1>3, <1>5 DEF Skip, LookupInv, NamesTypeOK
  <1>6. ASSUME NEW p \in Plugins, Register(p) PROVE LookupInv'
    <2>1. /\ definitions' = [k \in Keys |-> WithAgents(p, k)]
          /\ pluginCommands' = [k \in Keys |-> WithCommands(p, k)]
          /\ UNCHANGED <<files, commands, readable>>
          /\ seen' = seen \cup {p} /\ registered' = registered \cup {p}
      BY <1>6 DEF Register
    <2>2. \A kind, n : Has(p, kind, n) => /\ The(p, kind, n) \in files
                                         /\ The(p, kind, n).place \notin Ladder
                                         /\ KeyName(The(p, kind, n)) = n
      BY <1>1 DEF Has, The
    <2>3. ASSUME NEW k \in Keys
          PROVE  \/ WithAgents(p, k) = None \/ WithAgents(p, k) = definitions[k]
                 \/ /\ WithAgents(p, k) \in files /\ WithAgents(p, k).place \notin Ladder
                    /\ KeyName(WithAgents(p, k)) = k.name
      <3>1. CASE k.plugin # None
        BY <2>2, <3>1 DEF WithAgents
      <3>2. CASE k.plugin = None
        <4>1. k = Bare(k.name)
          BY <3>2 DEF Bare, Keys
        <4>2. \/ WithSkills(p, k.name) = definitions[k]
              \/ /\ WithSkills(p, k.name) \in files /\ WithSkills(p, k.name).place \notin Ladder
                 /\ KeyName(WithSkills(p, k.name)) = k.name
          BY <2>2, <4>1 DEF WithSkills
        <4>3. \/ WithAgents(p, k) = None \/ WithAgents(p, k) = WithSkills(p, k.name)
              \/ Has(p, "agent", k.name) /\ WithAgents(p, k) = The(p, "agent", k.name)
          BY <3>2 DEF WithAgents
        <4> QED
          BY <2>2, <4>2, <4>3
      <3> QED
        BY <3>1, <3>2
    <2>4. ASSUME NEW k \in Keys PROVE NameFits(k)'
      <3>1. NameFits(k) /\ definitions'[k] = WithAgents(p, k)
        BY <2>1 DEF LookupInv
      <3> QED
        BY <1>2, <2>1, <2>3, <3>1 DEF NameFits
    <2>5. ASSUME NEW n \in Names, LocalDefinition(n) # None
          PROVE  definitions'[Bare(n)] = LocalDefinition(n)
      <3>1. Bare(n) \in Keys /\ Bare(n).plugin = None /\ Bare(n).name = n
        BY KeyFacts
      <3>2. definitions[Bare(n)] = LocalDefinition(n) /\ LocalDefinition(n).place \in Ladder
        BY <1>1, <2>5, LocalFacts DEF LookupInv
      <3>3. WithSkills(p, n) = LocalDefinition(n) /\ ~PluginOwned(LocalDefinition(n))
        BY <1>1, <2>5, <3>2 DEF WithSkills, PluginOwned
      <3>4. WithAgents(p, Bare(n)) = LocalDefinition(n)
        BY <2>5, <3>1, <3>3 DEF WithAgents, Rival
      <3> QED
        BY <2>1, <3>1, <3>4
    <2>6. NamesTypeOK'
      <3>1. \A k \in Keys : WithAgents(p, k) \in Files \cup {None}
        BY <1>1, <2>3
      <3>2. \A k \in Keys : WithCommands(p, k) \in Commands \cup {None}
        BY <1>1 DEF WithCommands, HasCommand
      <3>3. /\ definitions' \in [Keys -> Files \cup {None}]
            /\ pluginCommands' \in [Keys -> Commands \cup {None}]
        BY <2>1, <3>1, <3>2
      <3>4. ambiguousAgents' \subseteq Names /\ ambiguousCommands' \subseteq Names
        BY <1>6 DEF Register, LookupInv, NamesTypeOK
      <3> QED
        BY <2>1, <3>3, <3>4 DEF LookupInv, NamesTypeOK
    <2> QED
      BY <1>2, <2>1, <2>4, <2>5, <2>6 DEF LookupInv
  <1> QED
    BY <1>4, <1>5, <1>6 DEF NamesNext

\* What is listed in lower case is found again.
LEMMA ListedAnswer == LookupInv => ListedNamesAnswer
  <1> SUFFICES ASSUME LookupInv PROVE ListedNamesAnswer
    OBVIOUS
  <1>1. /\ files \subseteq Files /\ None \notin files
        /\ \A k \in Keys : NameFits(k)
        /\ readable = [n \in Names |-> SkillTable(n)]
    BY FileFacts DEF LookupInv, NamesTypeOK
  <1>2. ASSUME NEW f \in Catalog, LowerKey(Listing(f)) = Listing(f)
        PROVE  ResolveSubagent(Listing(f)) = f
    <2>1. f # None /\ Permits(f, "subagent") /\ \E k \in Keys : definitions[k] = f
      BY <1>1 DEF Catalog
    <2>2. definitions[Listing(f)] = f
      BY <2>1 DEF Listing
    <2> QED
      BY <1>2, <2>1, <2>2 DEF ResolveSubagent
  <1>3. ASSUME NEW n \in Names, NEW f, f = definitions[Bare(n)],
               f # None, Permits(f, "startup"), Lower[n] = n,
               n \notin Own \cup Drivers \cup ambiguousCommands,
               pluginCommands[Bare(n)] = None
        PROVE  Slash(Bare(n)) = f
    <2>1. Bare(n) \in Keys /\ Bare(n).plugin = None /\ Bare(n).name = n
      BY KeyFacts
    <2>2. f \in Files /\ KeyName(f) = n
      BY <1>1, <1>3, <2>1 DEF NameFits
    <2>3. Lower[f.name] = n
      BY <1>3, <2>2, FileFacts
    <2>4. LowerKey(Bare(n)) = Bare(n) /\ LowerKey(Bare(f.name)) = Bare(n)
      BY <1>3, <2>3, NamesAssumption DEF LowerKey, Bare
    <2>5. LookupStartup(Bare(n)) = f /\ LookupInvocable(Bare(f.name)) = f
      BY <1>3, <2>4 DEF LookupStartup, LookupInvocable
    <2> QED
      BY <1>3, <2>1, <2>5 DEF Slash
  <1>4. ASSUME NEW k \in SkillCatalog, Permits(definitions[k], "inline"),
               definitions[k].place \in Ladder
        PROVE  ReadSkill(k) = definitions[k]
    <2> DEFINE f == definitions[k]
    <2>1. k \in Keys /\ f # None /\ f.kind = "skill"
      BY <1>4 DEF SkillCatalog
    <2>2. /\ f \in Files /\ KeyName(f) = k.name
          /\ k.plugin = None /\ f = LocalDefinition(k.name)
      BY <1>1, <1>4, <2>1 DEF NameFits
    <2>3. f = SkillTable(k.name)
      BY <1>1, <2>1, <2>2, LocalFacts
    <2>4. k.name \in Names /\ Lower[k.name] = k.name
      BY <2>1, <2>2, FileFacts, NamesAssumption DEF Keys
    <2>5. readable[Lower[k.name]] = f
      BY <1>1, <2>3, <2>4
    <2> QED
      BY <1>4, <2>1, <2>2, <2>5 DEF ReadSkill
  <1> QED
    BY <1>2, <1>3, <1>4 DEF ListedNamesAnswer

\* A local file that outranks its rivals is what the start finds.
LEMMA LocalWins == LookupInv => LocalNamesWin
  <1> DEFINE sound == ~\E g \in files : g.kind # "agent" /\ g.place \in Ladder /\ g.broken
             fit == {f \in files : /\ f.place \in Ladder /\ ~f.broken
                                   /\ f.kind = "agent" \/ sound}
             rivals(f) == {g \in fit \ {f} : KeyName(g) = KeyName(f)}
  <1> SUFFICES ASSUME LookupInv, NEW f \in fit, \A g \in rivals(f) : Outranks(f, g),
                      f.kind # "agent" =>
                        \A g \in rivals(f) : g.kind = "role" => f.kind = "role"
               PROVE  definitions[Bare(KeyName(f))] = f
    BY DEF LocalNamesWin
  <1> DEFINE n == KeyName(f)
  <1>1. files \subseteq Files /\ f \in Files /\ f # None /\ n \in Names
    BY FileFacts DEF LookupInv, NamesTypeOK
  <1>2. ASSUME NEW fs, fs \subseteq fit, f \in fs, \A g \in fs : g.kind = f.kind
        PROVE  TopOf(fs, n) = f
    <2>1. fs \subseteq Files /\ \A g \in fs : g.place \in Ladder
      BY <1>1, <1>2
    <2>2. /\ TopOf(fs, n) \in fs /\ KeyName(TopOf(fs, n)) = n
          /\ f.place <= TopOf(fs, n).place
      BY <1>2, <2>1, TopFacts
    <2>3. ASSUME TopOf(fs, n) # f PROVE f.place > TopOf(fs, n).place
      <3>1. TopOf(fs, n) \in rivals(f) /\ TopOf(fs, n).kind = f.kind
        BY <1>2, <2>2, <2>3
      <3> QED
        BY <3>1 DEF Outranks
    <2>4. f.place \in Nat /\ TopOf(fs, n).place \in Nat
      BY <1>2, <2>1, <2>2 DEF Ladder
    <2> QED
      BY <2>2, <2>3, <2>4
  <1>3. \A kind : /\ Local(kind) \subseteq Files /\ \A g \in Local(kind) : g.place \in Ladder
                  /\ kind # "agent" /\ sound => Local(kind) \subseteq fit
    BY <1>1 DEF Local
  <1> HIDE DEF n
  <1>4. CASE f.kind = "agent"
    <2> DEFINE fs == {g \in Local("agent") : ~g.broken}
    <2>1. fs \subseteq fit /\ f \in fs /\ \A g \in fs : g.kind = f.kind
      BY <1>4 DEF Local
    <2>2. TopOf(fs, n) = f
      BY <1>2, <2>1
    <2>3. LocalAgent(n) = f
      BY <2>2 DEF LocalAgent
    <2>4. ASSUME SkillTable(n) # None PROVE f.place > SkillTable(n).place
      <3> DEFINE s == SkillTable(n)
      <3>1. s \in files /\ KeyName(s) = n /\ s.place \in Ladder /\ s.kind \in {"skill", "role"}
        BY <1>1, <2>4, LocalFacts
      <3>2. ~\E g \in Local("role") \cup Local("skill") : g.broken
        BY <2>4 DEF SkillTable
      <3>3. \A g \in files : g.kind \in {"skill", "role", "agent"}
        BY <1>1, FileFacts
      <3>4. sound /\ ~s.broken
        BY <3>1, <3>2, <3>3 DEF Local
      <3>5. s \in rivals(f)
        BY <1>4, <3>1, <3>4 DEF n
      <3> QED
        BY <1>4, <3>1, <3>5 DEF Outranks
    <2>5. LocalDefinition(n) = f
      BY <1>1, <2>3, <2>4 DEF LocalDefinition
    <2> QED
      BY <1>1, <2>5 DEF LookupInv, n
  <1>5. CASE f.kind # "agent"
    <2>1. sound /\ f.kind \in {"role", "skill"}
      BY <1>1, <1>5, FileFacts
    <2>2. Local(f.kind) \subseteq fit /\ f \in Local(f.kind)
          /\ \A g \in Local(f.kind) : g.kind = f.kind
      BY <1>3, <1>5, <2>1 DEF Local
    <2>3. TopOf(Local(f.kind), n) = f
      BY <1>2, <2>2
    <2>4. ASSUME f.kind = "skill" PROVE TopOf(Local("role"), n) = None
      <3>1. ASSUME TopOf(Local("role"), n) # None PROVE FALSE
        <4> DEFINE g == TopOf(Local("role"), n)
        <4>1. g \in Local("role") /\ KeyName(g) = n
          BY <1>3, <3>1, TopFacts
        <4>2. g \in fit /\ g.kind = "role"
          BY <1>3, <2>1, <4>1 DEF Local
        <4>3. g \in rivals(f)
          BY <2>4, <4>1, <4>2 DEF n
        <4> QED
          BY <2>4, <4>2, <4>3
      <3> QED
        BY <3>1
    <2>5. ~\E g \in Local("role") \cup Local("skill") : g.broken
      BY <2>1 DEF Local
    <2>6. SkillTable(n) = f
      BY <1>1, <2>1, <2>3, <2>4, <2>5 DEF SkillTable
    <2>7. ASSUME LocalAgent(n) # None PROVE ~(LocalAgent(n).place > f.place)
      <3> DEFINE a == LocalAgent(n)
      <3>1. a \in files /\ KeyName(a) = n /\ a.place \in Ladder /\ a.kind = "agent"
        BY <1>1, <2>7, LocalFacts
      <3>2. ~a.broken
        <4> DEFINE fs == {g \in Local("agent") : ~g.broken}
        <4>1. fs \subseteq Files /\ \A g \in fs : g.place \in Ladder
          BY <1>3
        <4>2. LocalAgent(n) = TopOf(fs, n)
          BY DEF LocalAgent
        <4>3. TopOf(fs, n) \in fs
          BY <2>7, <4>1, <4>2, TopFacts
        <4> QED
          BY <4>2, <4>3
      <3>3. a \in rivals(f)
        BY <1>5, <3>1, <3>2 DEF n
      <3>4. f.place >= a.place
        BY <1>5, <3>1, <3>3 DEF Outranks
      <3>5. f.place \in Nat /\ a.place \in Nat
        BY <3>1 DEF Ladder
      <3> QED
        BY <3>4, <3>5
    <2>8. LocalDefinition(n) = f
      BY <1>1, <2>6, <2>7 DEF LocalDefinition
    <2> QED
      BY <1>1, <2>8 DEF LookupInv, n
  <1> QED
    BY <1>4, <1>5

\* The tables hold files under their keys at any time (Agent.definitions).
THEOREM NamesTypes == NamesSpec => []NamesTypeOK
  <1>1. LookupInv => NamesTypeOK
    BY DEF LookupInv
  <1> QED
    BY <1>1, InitLookup, StepLookup, PTL DEF NamesSpec

(***************************************************************************)
(* A name in lower case that the Task tool lists, or the palette and no    *)
(* command has, leads to what it was listed for, and so does one of a      *)
(* local skill in the prompt; nothing is said of other names, nor of the   *)
(* skills of plugins, which ReadSkill does not know (AgentCatalog,         *)
(* slashCandidates, BuildSkillCatalog).                                    *)
(***************************************************************************)
THEOREM ListedNamesLead == NamesSpec => []ListedNamesAnswer
  BY ListedAnswer, InitLookup, StepLookup, PTL DEF NamesSpec

(***************************************************************************)
(* A local file goes on having the name it won, whatever plugins come      *)
(* (mergeDefinitions, RegisterPlugins).                                    *)
(***************************************************************************)
THEOREM LocalNamesStay == NamesSpec => []LocalNamesWin
  BY LocalWins, InitLookup, StepLookup, PTL DEF NamesSpec
-----------------------------------------------------------------------------
(* Rights.                                                                 *)

\* The variables that the tools of background agents depend on.
ToolTypes ==
  /\ sandbox \in [Sessions -> SUBSET Tools]
  /\ previous \in [Sessions -> SUBSET Tools]
  /\ cli \in [Sessions -> SUBSET Tools]
  /\ command \in [Sessions -> CommandTools \cup {Nil}]
  /\ mode \in [Sessions -> {"off", "terminal", "piped", "server"}]
  /\ run \in [Runs -> RunType]

\* A command has narrowed the sandbox and will put the one before it back.
SandboxFits ==
  \A s \in Sessions : /\ sandbox[s] = SandboxTools(s)
                      /\ command[s] # Nil => previous[s] = cli[s]
                      /\ mode[s] = "off" => command[s] = Nil

\* What a launched run carries is what its definition and the sandbox it was sent
\* off in allow.
SnapshotsFit ==
  \A r \in Runs :
    run[r].at = "launched" =>
      /\ run[r].owner \in Sessions
      /\ run[r].snapshot = Resolve(run[r].definition, run[r].bound)
      /\ ~Refused(run[r].definition, run[r].bound)

ToolsInv == ToolTypes /\ SandboxFits /\ SnapshotsFit /\ RunKeepsToBound
-----------------------------------------------------------------------------
\* Resolving never goes beyond what was asked for, nor beyond the bound.
LEMMA ResolveNarrows ==
  ASSUME NEW wanted \in SUBSET Tools, NEW bound \in SUBSET Tools, ~Refused(wanted, bound)
  PROVE  /\ Resolve(wanted, bound) \in SUBSET Tools
         /\ wanted # {} => /\ Resolve(wanted, bound) # {}
                           /\ Resolve(wanted, bound) \subseteq wanted
         /\ bound # {} => /\ Resolve(wanted, bound) # {}
                          /\ Resolve(wanted, bound) \subseteq bound
  BY DEF Resolve, Refused

\* The tools a run gets when its goroutine resolves them again.
LEMMA WorkNarrows ==
  ASSUME NEW definition \in SUBSET Tools, NEW bound \in SUBSET Tools,
         NEW later \in SUBSET Tools, NEW snapshot, NEW wanted,
         snapshot = Resolve(definition, bound), ~Refused(definition, bound),
         wanted = IF snapshot = {} THEN definition ELSE snapshot,
         ~Refused(wanted, later)
  PROVE  LET tools == Equipped(Resolve(wanted, later)) IN
           /\ tools \in SUBSET Tools /\ Task \notin tools
           /\ bound # {} => tools \subseteq bound
           /\ definition # {} => tools \subseteq definition
  <1>1. /\ snapshot \in SUBSET Tools
        /\ definition # {} => snapshot # {} /\ snapshot \subseteq definition
        /\ bound # {} => snapshot # {} /\ snapshot \subseteq bound
    BY ResolveNarrows
  <1>2. wanted \in SUBSET Tools /\ (snapshot # {} => wanted = snapshot)
    BY <1>1
  <1> DEFINE found == Resolve(wanted, later)
  <1>3. found \in SUBSET Tools /\ (wanted # {} => found # {} /\ found \subseteq wanted)
    BY <1>2, ResolveNarrows
  <1> HIDE DEF found
  <1>4. Equipped(found) \in SUBSET Tools /\ Task \notin Equipped(found)
    BY <1>3 DEF Equipped
  <1>5. found # {} => Equipped(found) \subseteq found
    BY DEF Equipped
  <1> QED
    BY <1>1, <1>2, <1>3, <1>4, <1>5 DEF found

\* At the start nothing runs and nothing is narrowed.
LEMMA InitTools == Init => ToolsInv
  <1> SUFFICES ASSUME Init PROVE ToolsInv
    OBVIOUS
  <1>1. Absent \in RunType /\ Absent.at = "absent"
    BY DEF Absent, RunType
  <1> QED
    BY <1>1 DEF Init, ToolsInv, ToolTypes, SandboxFits, SnapshotsFit, RunKeepsToBound, SandboxTools

\* A step that changes neither the sandboxes nor the runs.
LEMMA ToolsStay ==
  ASSUME ToolsInv, UNCHANGED <<mode, sandbox, previous, cli, command, run>>
  PROVE  ToolsInv'
  BY DEF ToolsInv, ToolTypes, SandboxFits, SnapshotsFit, RunKeepsToBound, SandboxTools

\* One that leaves the runs alone.
LEMMA RunsStay ==
  ASSUME ToolsInv, UNCHANGED run
  PROVE  run' \in [Runs -> RunType] /\ SnapshotsFit' /\ RunKeepsToBound'
  BY DEF ToolsInv, ToolTypes, SnapshotsFit, RunKeepsToBound
-----------------------------------------------------------------------------
\* Each step of a session or a run, and none, preserves the invariant.
LEMMA StepTools == ToolsInv /\ [Next]_vars => ToolsInv'
  <1> SUFFICES ASSUME ToolsInv, [Next]_vars PROVE ToolsInv'
    OBVIOUS
  <1>1. /\ sandbox \in [Sessions -> SUBSET Tools] /\ previous \in [Sessions -> SUBSET Tools]
        /\ cli \in [Sessions -> SUBSET Tools] /\ run \in [Runs -> RunType]
        /\ command \in [Sessions -> CommandTools \cup {Nil}]
        /\ \A s \in Sessions : /\ sandbox[s] = SandboxTools(s)
                               /\ command[s] # Nil => previous[s] = cli[s]
                               /\ mode[s] = "off" => command[s] = Nil
        /\ mode \in [Sessions -> {"off", "terminal", "piped", "server"}]
        /\ CliTools \subseteq SUBSET Tools /\ CommandTools \subseteq (SUBSET Tools) \ {{}}
        /\ Definitions \subseteq SUBSET Tools /\ Nil \notin CommandTools
    BY PermissionsAssumption DEF ToolsInv, ToolTypes, SandboxFits
  <1>2. ASSUME NEW s \in Sessions, NEW m \in {"terminal", "piped", "server"},
               NEW tools \in CliTools, Start(s, m, tools)
        PROVE  ToolsInv'
    <2>1. /\ sandbox' = [sandbox EXCEPT ![s] = tools] /\ cli' = [cli EXCEPT ![s] = tools]
          /\ UNCHANGED <<command, previous, run>>
          /\ mode[s] = "off" /\ mode' = [mode EXCEPT ![s] = m]
      BY <1>2 DEF Start
    <2>2. ToolTypes'
      BY <1>1, <2>1 DEF ToolTypes
    <2>3. SandboxFits'
      BY <1>1, <1>2, <2>1 DEF SandboxFits, SandboxTools
    <2> QED
      BY <2>1, <2>2, <2>3, RunsStay DEF ToolsInv
  <1>3. ASSUME NEW s \in Sessions, Exit(s) PROVE ToolsInv'
    <2>1. /\ sandbox' = [sandbox EXCEPT ![s] = {}] /\ cli' = [cli EXCEPT ![s] = {}]
          /\ command' = [command EXCEPT ![s] = Nil] /\ previous' = [previous EXCEPT ![s] = {}]
          /\ mode' = [mode EXCEPT ![s] = "off"]
          /\ run' = [r \in Runs |-> IF run[r].owner = s THEN Absent ELSE run[r]]
      BY <1>3 DEF Exit
    <2>2. Absent \in RunType /\ Absent.at = "absent"
      BY DEF Absent, RunType
    <2>3. ToolTypes'
      BY <1>1, <2>1, <2>2 DEF ToolTypes
    <2>4. SandboxFits'
      BY <1>1, <2>1 DEF SandboxFits, SandboxTools
    <2>5. SnapshotsFit' /\ RunKeepsToBound'
      BY <2>1, <2>2 DEF ToolsInv, SnapshotsFit, RunKeepsToBound
    <2> QED
      BY <2>3, <2>4, <2>5 DEF ToolsInv
  <1>4. ASSUME NEW s \in Sessions, NEW tools \in CommandTools, BeginCommand(s, tools)
        PROVE  ToolsInv'
    <2>1. /\ sandbox' = [sandbox EXCEPT ![s] = tools]
          /\ command[s] = Nil /\ command' = [command EXCEPT ![s] = tools]
          /\ previous' = [previous EXCEPT ![s] = sandbox[s]] /\ UNCHANGED <<mode, cli, run>>
          /\ mode[s] # "off"
      BY <1>4 DEF BeginCommand, history
    <2>2. ToolTypes'
      BY <1>1, <2>1 DEF ToolTypes
    <2>3. SandboxFits'
      BY <1>1, <2>1 DEF SandboxFits, SandboxTools
    <2> QED
      BY <2>1, <2>2, <2>3, RunsStay DEF ToolsInv
  <1>5. ASSUME NEW s \in Sessions, EndCommand(s) PROVE ToolsInv'
    <2>1. /\ sandbox' = [sandbox EXCEPT ![s] = previous[s]]
          /\ command[s] # Nil /\ command' = [command EXCEPT ![s] = Nil]
          /\ previous' = [previous EXCEPT ![s] = {}] /\ UNCHANGED <<mode, cli, run>>
      BY <1>5 DEF EndCommand, history
    <2>2. ToolTypes'
      BY <1>1, <2>1 DEF ToolTypes
    <2>3. SandboxFits'
      BY <1>1, <2>1 DEF SandboxFits, SandboxTools
    <2> QED
      BY <2>1, <2>2, <2>3, RunsStay DEF ToolsInv
  <1>6. ASSUME NEW s \in Sessions, NEW r \in Runs, NEW d \in Definitions, Launch(s, r, d)
        PROVE  ToolsInv'
    <2> DEFINE new == [at |-> "launched", owner |-> s, definition |-> d,
                       snapshot |-> Resolve(d, sandbox[s]), tools |-> {},
                       bound |-> SandboxTools(s)]
    <2>1. /\ run' = [run EXCEPT ![r] = new] /\ ~Refused(d, sandbox[s])
          /\ UNCHANGED <<mode, sandbox, previous, cli, command>>
      BY <1>6 DEF Launch, settings, history
    <2>2. SandboxTools(s) \in SUBSET Tools /\ sandbox[s] = SandboxTools(s) /\ d \in SUBSET Tools
      BY <1>1
    <2>3. Resolve(d, sandbox[s]) \in SUBSET Tools
      BY <2>1, <2>2, ResolveNarrows
    <2>4. /\ new \in RunType /\ new.at = "launched" /\ new.definition = d
          /\ new.owner = s /\ new.snapshot = Resolve(d, new.bound) /\ ~Refused(d, new.bound)
      BY <2>1, <2>2, <2>3 DEF RunType
    <2> HIDE DEF new
    <2>5. ToolTypes' /\ SandboxFits'
      BY <1>1, <2>1, <2>4 DEF ToolTypes, SandboxFits, SandboxTools
    <2>6. \A q \in Runs : run'[q] = IF q = r THEN new ELSE run[q]
      BY <1>1, <2>1
    <2>7. SnapshotsFit' /\ RunKeepsToBound'
      BY <2>4, <2>6 DEF ToolsInv, SnapshotsFit, RunKeepsToBound
    <2> QED
      BY <2>5, <2>7 DEF ToolsInv
  <1>7. ASSUME NEW r \in Runs, Work(r) PROVE ToolsInv'
    <2> DEFINE later == sandbox[run[r].owner]
    <2> DEFINE refused == Refused(Wanted(r), later)
    <2> DEFINE got == IF refused THEN {} ELSE Equipped(Resolve(Wanted(r), later))
    <2> DEFINE new == [run[r] EXCEPT !.at = IF refused THEN "failed" ELSE "running",
                                     !.tools = got]
    <2>1. /\ run[r].at = "launched" /\ run' = [run EXCEPT ![r] = new]
          /\ UNCHANGED <<mode, sandbox, previous, cli, command>>
      BY <1>7 DEF Work, settings, history
    <2>0. run[r].owner \in Sessions
      BY <1>7, <2>1 DEF ToolsInv, SnapshotsFit
    <2>2. /\ run[r] \in RunType /\ later \in SUBSET Tools
          /\ run[r].snapshot = Resolve(run[r].definition, run[r].bound)
          /\ ~Refused(run[r].definition, run[r].bound)
      BY <1>1, <1>7, <2>0, <2>1 DEF ToolsInv, SnapshotsFit
    <2>3. ~refused => /\ got \in SUBSET Tools /\ Task \notin got
                      /\ run[r].bound # {} => got \subseteq run[r].bound
                      /\ run[r].definition # {} => got \subseteq run[r].definition
      BY <2>2, WorkNarrows DEF RunType, Wanted
    <2>4. refused => got = {}
      OBVIOUS
    <2> HIDE DEF got, later
    <2>5. /\ new \in RunType /\ new.at = (IF refused THEN "failed" ELSE "running")
          /\ new.tools = got /\ new.bound = run[r].bound
          /\ new.definition = run[r].definition
      BY <2>2, <2>3, <2>4 DEF RunType
    <2> HIDE DEF new, refused
    <2>6. ToolTypes' /\ SandboxFits'
      BY <1>1, <2>1, <2>5 DEF ToolTypes, SandboxFits, SandboxTools
    <2>7. \A q \in Runs : run'[q] = IF q = r THEN new ELSE run[q]
      BY <1>1, <2>1
    <2>8. SnapshotsFit' /\ RunKeepsToBound'
      BY <2>3, <2>5, <2>7 DEF ToolsInv, SnapshotsFit, RunKeepsToBound
    <2> QED
      BY <2>6, <2>8 DEF ToolsInv
  <1>8. ASSUME NEW s \in Sessions,
               \/ \E c \in Calls : Ask(s, c)
               \/ AnswerOnce(s) \/ Always(s) \/ Truncate(s) \/ Fill(s) \/ SaveFails(s)
        PROVE  ToolsInv'
    <2>1. UNCHANGED <<mode, sandbox, previous, cli, command, run>>
      BY <1>8 DEF Ask, AnswerOnce, Always, Truncate, Fill, SaveFails, Remember, settings, history
    <2> QED
      BY <2>1, ToolsStay
  <1>9. CASE UNCHANGED vars
    BY <1>9, ToolsStay DEF vars
  <1> QED
    BY <1>2, <1>3, <1>4, <1>5, <1>6, <1>7, <1>8, <1>9 DEF Next

(***************************************************************************)
(* No background agent gets a tool that its definition does not name, or   *)
(* that the sandbox in place when it was sent off did not, or the one that *)
(* delegates, whatever sandbox is in place by the time it runs; the tools: *)
(* of the turn's own definition bound it not at all (StartBackgroundAgent, *)
(* resolveSubagentTools, runSubagent).                                     *)
(***************************************************************************)
THEOREM RunsKeepToBound == Spec => []RunKeepsToBound
  <1>1. ToolsInv => RunKeepsToBound
    BY DEF ToolsInv
  <1> QED
    BY <1>1, InitTools, StepTools, PTL DEF Spec
-----------------------------------------------------------------------------
(* The list of rules that decides about a call.                            *)

Decides(rule) == IF rule.allow THEN "allow" ELSE "deny"

\* The first rule of a list that covers a call.
IsFirst(rules, c, i) == /\ i \in 1 .. Len(rules) /\ Covers(rules[i], c)
                        /\ \A j \in 1 .. i - 1 : ~Covers(rules[j], c)

NoneCovers(rules, c) == \A i \in 1 .. Len(rules) : ~Covers(rules[i], c)

\* Check returns what the first rule says that covers the call.
LEMMA CheckFirst ==
  ASSUME NEW rules \in Seq(Rule), NEW c
  PROVE  /\ NoneCovers(rules, c) \/ \E i : IsFirst(rules, c, i)
         /\ NoneCovers(rules, c) => Check(rules, c) = "none"
         /\ \A i : IsFirst(rules, c, i) => Check(rules, c) = Decides(rules[i])
  <1> DEFINE I == {i \in 1 .. Len(rules) : Covers(rules[i], c)}
  <1>1. Len(rules) \in Nat /\ I \subseteq Nat
    BY LenProperties
  <1>2. Check(rules, c) = LET k == IF I # {} THEN Min(I) ELSE 0
                          IN IF k = 0 THEN "none" ELSE Decides(rules[k])
    BY DEF Check, SelectInSeq, Decides
  <1>3. NoneCovers(rules, c) <=> I = {}
    BY DEF NoneCovers
  <1>4. ASSUME NEW i, IsFirst(rules, c, i) PROVE I # {} /\ Min(I) = i /\ i # 0
    <2>1. i \in I /\ i # 0 /\ \A j \in I : i <= j
      BY <1>1, <1>4 DEF IsFirst
    <2>2. \A k \in I : (\A j \in I : k <= j) => k = i
      BY <1>1, <2>1
    <2> HIDE DEF I
    <2> QED
      BY <2>1, <2>2 DEF Min
  <1>5. I # {} => \E i : IsFirst(rules, c, i)
    <2> SUFFICES ASSUME I # {} PROVE \E i : IsFirst(rules, c, i)
      OBVIOUS
    <2>1. PICK i \in I : \A j \in I : i <= j
      BY <1>1, LeastNumber
    <2>2. IsFirst(rules, c, i)
      BY <1>1, <2>1 DEF IsFirst
    <2> QED
      BY <2>2
  <1> HIDE DEF I
  <1> QED
    BY <1>2, <1>3, <1>4, <1>5

\* The same, of a rule one knows to be the first.
LEMMA CheckIs ==
  ASSUME NEW rules \in Seq(Rule), NEW c, NEW i, IsFirst(rules, c, i)
  PROVE  Check(rules, c) = Decides(rules[i])
  BY CheckFirst

\* The lists of two places, one after the other.
LEMMA CheckConcat ==
  ASSUME NEW r \in Seq(Rule), NEW q \in Seq(Rule), NEW c
  PROVE  Check(r \o q, c) = IF Check(r, c) # "none" THEN Check(r, c) ELSE Check(q, c)
  <1> DEFINE both == r \o q
  <1>1. /\ both \in Seq(Rule) /\ Len(both) = Len(r) + Len(q)
        /\ \A i \in 1 .. Len(r) : both[i] = r[i]
        /\ \A i \in 1 .. Len(q) : both[Len(r) + i] = q[i]
        /\ \A i \in Len(r) + 1 .. Len(both) : both[i] = q[i - Len(r)]
        /\ Len(r) \in Nat /\ Len(q) \in Nat
    BY ConcatProperties, LenProperties
  <1> HIDE DEF both
  <1>2. \A rule : Decides(rule) # "none"
    BY DEF Decides
  <1>3. ASSUME NEW i, IsFirst(r, c, i) PROVE IsFirst(both, c, i) /\ both[i] = r[i]
    BY SMTT(30), <1>1, <1>3 DEF IsFirst
  <1>4. ASSUME NoneCovers(r, c), NEW i, IsFirst(q, c, i)
        PROVE  IsFirst(both, c, Len(r) + i) /\ both[Len(r) + i] = q[i]
    <2>1. Len(r) + i \in 1 .. Len(both) /\ both[Len(r) + i] = q[i]
      BY <1>1, <1>4 DEF IsFirst
    <2>2. ASSUME NEW j \in 1 .. Len(r) + i - 1 PROVE ~Covers(both[j], c)
      <3>1. CASE j <= Len(r)
        BY <1>1, <1>4, <2>2, <3>1 DEF NoneCovers
      <3>2. CASE j > Len(r)
        <4>1. j - Len(r) \in 1 .. i - 1 /\ both[j] = q[j - Len(r)]
          BY <1>1, <1>4, <2>2, <3>2 DEF IsFirst
        <4> QED
          BY <1>4, <4>1 DEF IsFirst
      <3> QED
        BY <1>1, <2>2, <3>1, <3>2
    <2> QED
      BY <1>4, <2>1, <2>2 DEF IsFirst
  <1>5. ASSUME NoneCovers(r, c), NoneCovers(q, c) PROVE NoneCovers(both, c)
    <2> SUFFICES ASSUME NEW j \in 1 .. Len(both) PROVE ~Covers(both[j], c)
      BY DEF NoneCovers
    <2>1. CASE j <= Len(r)
      BY <1>1, <1>5, <2>1 DEF NoneCovers
    <2>2. CASE j > Len(r)
      <3>1. j - Len(r) \in 1 .. Len(q) /\ both[j] = q[j - Len(r)]
        BY <1>1, <2>2
      <3> QED
        BY <1>5, <3>1 DEF NoneCovers
    <2> QED
      BY <1>1, <2>1, <2>2
  <1>6. CASE NoneCovers(r, c) /\ NoneCovers(q, c)
    BY <1>1, <1>5, <1>6, CheckFirst DEF both
  <1>7. CASE \E i : IsFirst(r, c, i)
    <2>1. PICK i : IsFirst(r, c, i)
      BY <1>7
    <2>2. IsFirst(both, c, i) /\ both[i] = r[i]
      BY <1>3, <2>1
    <2>3. Check(r, c) = Decides(r[i])
      BY <2>1, CheckIs
    <2>4. Check(both, c) = Decides(r[i])
      BY <1>1, <2>2, CheckIs
    <2> QED
      BY <1>2, <2>3, <2>4 DEF both
  <1>8. CASE NoneCovers(r, c) /\ \E i : IsFirst(q, c, i)
    <2>1. PICK i : IsFirst(q, c, i)
      BY <1>8
    <2>2. IsFirst(both, c, Len(r) + i) /\ both[Len(r) + i] = q[i]
      BY <1>4, <1>8, <2>1
    <2>3. Check(r, c) = "none"
      BY <1>8, CheckFirst
    <2>4. Check(q, c) = Decides(q[i])
      BY <2>1, CheckIs
    <2>5. Check(both, c) = Decides(q[i])
      BY <1>1, <2>2, CheckIs
    <2> QED
      BY <2>3, <2>4, <2>5 DEF both
  <1> QED
    BY <1>6, <1>7, <1>8, CheckFirst

\* A list of one rule, and of none.
LEMMA CheckOne ==
  ASSUME NEW c
  PROVE  /\ Check(<<>>, c) = "none"
         /\ \A rule \in Rule :
              Check(<<rule>>, c) = IF Covers(rule, c) THEN Decides(rule) ELSE "none"
  <1>1. Check(<<>>, c) = "none"
    <2>1. <<>> \in Seq(Rule) /\ Len(<<>>) = 0
      OBVIOUS
    <2>2. NoneCovers(<<>>, c)
      BY <2>1 DEF NoneCovers
    <2> QED
      BY <2>1, <2>2, CheckFirst
  <1>2. ASSUME NEW rule \in Rule
        PROVE  Check(<<rule>>, c) = IF Covers(rule, c) THEN Decides(rule) ELSE "none"
    <2> DEFINE one == <<rule>>
    <2>1. one \in Seq(Rule) /\ Len(one) = 1 /\ one[1] = rule
      OBVIOUS
    <2> HIDE DEF one
    <2>2. CASE Covers(rule, c)
      <3>1. IsFirst(one, c, 1)
        BY <2>1, <2>2 DEF IsFirst
      <3> QED
        BY <2>1, <2>2, <3>1, CheckIs DEF one
    <2>3. CASE ~Covers(rule, c)
      <3>1. NoneCovers(one, c)
        BY <2>1, <2>3 DEF NoneCovers
      <3> QED
        BY <2>1, <2>3, <3>1, CheckFirst DEF one
    <2> QED
      BY <2>2, <2>3
  <1> QED
    BY <1>1, <1>2

\* A rule that covers a call is among those that decide it.
LEMMA CheckDecides ==
  ASSUME NEW rules \in Seq(Rule), NEW c
  PROVE  /\ Check(rules, c) # "none" =>
              \E i \in DOMAIN rules : Covers(rules[i], c) /\ Check(rules, c) = Decides(rules[i])
         /\ (\E i \in DOMAIN rules : Covers(rules[i], c)) => Check(rules, c) # "none"
  <1>1. DOMAIN rules = 1 .. Len(rules)
    BY LenProperties
  <1>2. CASE NoneCovers(rules, c)
    BY <1>1, <1>2, CheckFirst DEF NoneCovers
  <1>3. CASE \E i : IsFirst(rules, c, i)
    <2>1. PICK i : IsFirst(rules, c, i)
      BY <1>3
    <2>2. Check(rules, c) = Decides(rules[i]) /\ i \in DOMAIN rules /\ Covers(rules[i], c)
      BY <1>1, <2>1, CheckIs DEF IsFirst
    <2> QED
      BY <2>2 DEF Decides
  <1> QED
    BY <1>2, <1>3, CheckFirst

\* A rule that allows is a rule.
LEMMA AllowIsRule ==
  ASSUME NEW tool \in Tools, NEW pattern \in Patterns
  PROVE  /\ Allow(tool, pattern) \in Rule /\ Allow(tool, pattern).tool = tool
         /\ Allow(tool, pattern).allow /\ Allow(tool, pattern).pattern = pattern
  BY DEF Allow, Rule

\* The rules of a command: one for each of its tools, which covers every call.
LEMMA AllowAllFacts ==
  ASSUME NEW tools \in SUBSET Tools
  PROVE  /\ AllowAll(tools) \in Seq(Rule) /\ Len(AllowAll(tools)) = Cardinality(tools)
         /\ Cardinality(tools) \in Nat
         /\ \A c \in Calls : Check(AllowAll(tools), c) =
                               IF ToolOf[c] \in tools THEN "allow" ELSE "none"
  <1> DEFINE S == {Allow(t, Blank) : t \in tools}
             f == [t \in tools |-> Allow(t, Blank)]
             rules == AllowAll(tools)
  <1>1. IsFiniteSet(tools) /\ Cardinality(tools) \in Nat
    BY PermissionsAssumption, FS_Subset, FS_CardinalityType
  <1>2. S \subseteq Rule /\ \A t \in tools : Allow(t, Blank).tool = t
    <2>1. Blank \in Patterns
      BY PermissionsAssumption
    <2> QED
      BY <2>1, AllowIsRule
  <1>3. f \in Bijection(tools, S)
    <2>1. f \in [tools -> S] /\ \A a, b \in tools : f[a] = f[b] => a = b
      BY <1>2
    <2>2. \A y \in S : \E t \in tools : f[t] = y
      OBVIOUS
    <2> QED
      BY <2>1, <2>2 DEF Bijection, Injection, Surjection, IsInjective
  <1>4. IsFiniteSet(S) /\ Cardinality(S) = Cardinality(tools)
    BY <1>1, <1>3, FS_Bijection, Zenon DEF ExistsBijection
  <1> HIDE DEF S, f
  <1>5. \E g \in [1 .. Cardinality(S) -> S] : IsInjective(g)
    BY <1>4, FS_CardinalityType, Zenon DEF ExistsBijection, Bijection, Injection
  <1>6. rules \in [1 .. Cardinality(S) -> S] /\ IsInjective(rules)
    BY <1>5 DEF AllowAll, SetToSeq, S
  <1>7. 1 .. Cardinality(S) = 1 .. Cardinality(tools) /\ rules \in Seq(S)
    BY <1>1, <1>4, <1>6
  <1>8. rules \in Seq(Rule) /\ Len(rules) = Cardinality(tools)
    BY <1>1, <1>2, <1>4, <1>6, <1>7
  <1>9. rules \in Surjection(1 .. Cardinality(S), S)
    <2>1. rules \in Injection(1 .. Cardinality(S), S)
      BY <1>6 DEF Injection
    <2>2. Cardinality(1 .. Cardinality(S)) = Cardinality(S)
      BY <1>1, <1>4, FS_Interval
    <2> HIDE DEF rules
    <2> QED
      BY <1>4, <2>1, <2>2, FS_Injection
  <1>10. DOMAIN rules = 1 .. Len(rules) /\ \A i \in 1 .. Len(rules) : rules[i] \in S
    BY <1>1, <1>4, <1>6, <1>8
  <1> HIDE DEF rules
  <1>11. ASSUME NEW c \in Calls
         PROVE  Check(rules, c) = IF ToolOf[c] \in tools THEN "allow" ELSE "none"
    <2>1. \A rule \in S : /\ Covers(rule, c) <=> rule.tool = ToolOf[c]
                          /\ rule.tool \in tools /\ Decides(rule) = "allow"
      BY PermissionsAssumption DEF Covers, Allow, Decides, S
    <2>2. CASE ToolOf[c] \in tools
      <3>1. Allow(ToolOf[c], Blank) \in S /\ Allow(ToolOf[c], Blank).tool = ToolOf[c]
        BY <2>2 DEF S, Allow
      <3>2. PICK i \in 1 .. Cardinality(S) : rules[i] = Allow(ToolOf[c], Blank)
        BY <1>9, <3>1 DEF Surjection
      <3>3. i \in DOMAIN rules /\ Covers(rules[i], c)
        BY <1>4, <1>8, <1>10, <2>1, <3>1, <3>2
      <3>4. Check(rules, c) # "none"
        BY <1>8, <3>3, CheckDecides
      <3>5. PICK j \in DOMAIN rules : Check(rules, c) = Decides(rules[j])
        BY <1>8, <3>4, CheckDecides
      <3> QED
        BY <1>10, <2>1, <2>2, <3>5
    <2>3. CASE ToolOf[c] \notin tools
      <3>1. \A i \in DOMAIN rules : ~Covers(rules[i], c)
        BY <1>10, <2>1, <2>3
      <3>2. Check(rules, c) = "none"
        BY <1>8, <3>1, CheckDecides
      <3> QED
        BY <2>3, <3>2
    <2> QED
      BY <2>2, <2>3
  <1> QED
    BY <1>1, <1>8, <1>11 DEF rules
-----------------------------------------------------------------------------
(* What the decisions of a session rest on.                                *)

\* The rules of a list that allow are among those granted.
Comes(rules, granted) == \A i \in DOMAIN rules : rules[i].allow => rules[i] \in granted
Among(rule, rules) == \E i \in DOMAIN rules : rules[i] = rule

Writing(s) == dialog[s].at = "writing"
Saving(s)  == dialog[s].at \in {"saving", "writing"}

Dialog == [at : {"none", "asked", "saving", "writing"}, call : Calls \cup {Nil},
           base : RuleFiles]

RightsTypes ==
  /\ user \in RuleFiles /\ project \in RuleFiles /\ local \in RuleFiles
  /\ project0 \in RuleFiles
  /\ mode \in [Sessions -> {"off", "terminal", "piped", "server"}]
  /\ permRules \in [Sessions -> Seq(Rule)] /\ sessionRules \in [Sessions -> Seq(Rule)]
  /\ command \in [Sessions -> CommandTools \cup {Nil}]
  /\ dialog \in [Sessions -> Dialog]
  /\ answered \in [Sessions -> SUBSET Rule] /\ known \in [Sessions -> SUBSET Rule]
  /\ saved \subseteq Rule /\ damaged \in BOOLEAN /\ intact \in [Sessions -> BOOLEAN]
  /\ starts \in 0 .. MaxStarts /\ always \in 0 .. MaxAlways

\* A session that does not run has nothing; one at a terminal has the rules of
\* its command and no others besides those of the files.
SessionFits(s) ==
  /\ mode[s] = "off" => dialog[s] = Quiet /\ answered[s] = {}
  /\ mode[s] \in {"off", "server"} => command[s] = Nil
  /\ mode[s] \in {"terminal", "piped"} =>
       sessionRules[s] = IF command[s] = Nil THEN <<>> ELSE AllowAll(command[s])
  /\ dialog[s].at # "none" => dialog[s].call \in Calls
  /\ Saving(s) => NewRule(s) \in answered[s]

\* Nothing allows that nobody granted.
GrantsFit(s) == /\ Comes(permRules[s], ByHand \cup answered[s] \cup saved)
                /\ Comes(LoadFile(dialog[s].base), ByHand \cup saved)

\* The rules that were found decide as they did, and those saved are there.
Whole(file) ==
  /\ \A c \in Calls : Check(LoadFile(project0), c) # "none"
                      => Check(LoadFile(file), c) = Check(LoadFile(project0), c)
  /\ \A rule \in saved : Among(rule, LoadFile(file))

\* Until a save goes wrong the file is whole, or one session writes it, and
\* what that one has read was.
FileFits ==
  ~damaged => /\ (\A s \in Sessions : ~Writing(s)) => Whole(project)
              /\ \A s \in Sessions : Writing(s) =>
                   /\ project = Malformed /\ Whole(dialog[s].base)
                   /\ \A t \in Sessions \ {s} : ~Writing(t)

\* What the files of a session say by hand.
Hand(s, c) == Check(LoadFile(local) \o (IF intact[s] THEN LoadFile(project0) ELSE <<>>), c)

\* A session goes on deciding by the rules it has found, and has those it was
\* told with Always, or is about to save them.
Remembers(s) ==
  mode[s] # "off" =>
    /\ \A c \in Calls :
         /\ Hand(s, c) # "none" /\ ~\E rule \in answered[s] : Covers(rule, c)
         => Check(permRules[s], c) = Hand(s, c)
    /\ \A rule \in known[s] \cup answered[s] :
         Among(rule, permRules[s]) \/ (Saving(s) /\ rule = NewRule(s))

RightsInv ==
  /\ RightsTypes /\ Comes(LoadFile(project), ByHand \cup saved) /\ FileFits
  /\ \A s \in Sessions : SessionFits(s) /\ GrantsFit(s) /\ Remembers(s)

\* A file holds a list of rules.
LEMMA LoadFileType == \A file \in RuleFiles : LoadFile(file) \in Seq(Rule)
  BY DEF LoadFile, RuleFiles

\* The rule of an Always answer.
LEMMA NewRuleType ==
  ASSUME NEW s \in Sessions, dialog[s].call \in Calls
  PROVE  NewRule(s) \in Rule
  <1>1. ToolOf[dialog[s].call] \in Tools /\ InferPattern[dialog[s].call] \in Patterns
    BY PermissionsAssumption
  <1> QED
    BY <1>1, AllowIsRule DEF NewRule

\* Two lists, one after the other.
LEMMA ConcatFacts ==
  ASSUME NEW r \in Seq(Rule), NEW q \in Seq(Rule)
  PROVE  /\ r \o q \in Seq(Rule)
         /\ \A rule : Among(rule, r) \/ Among(rule, q) => Among(rule, r \o q)
         /\ \A granted : Comes(r, granted) /\ Comes(q, granted) => Comes(r \o q, granted)
  <1> DEFINE both == r \o q
  <1>1. /\ both \in Seq(Rule) /\ Len(both) = Len(r) + Len(q)
        /\ \A i \in 1 .. Len(r) : both[i] = r[i]
        /\ \A i \in 1 .. Len(q) : both[Len(r) + i] = q[i]
        /\ \A i \in Len(r) + 1 .. Len(both) : both[i] = q[i - Len(r)]
        /\ Len(r) \in Nat /\ Len(q) \in Nat
    BY ConcatProperties, LenProperties
  <1>2. DOMAIN r = 1 .. Len(r) /\ DOMAIN q = 1 .. Len(q) /\ DOMAIN both = 1 .. Len(both)
    BY <1>1, LenProperties
  <1> HIDE DEF both
  <1>3. ASSUME NEW i \in DOMAIN both
        PROVE  \/ i \in DOMAIN r /\ both[i] = r[i]
               \/ i - Len(r) \in DOMAIN q /\ both[i] = q[i - Len(r)]
    BY <1>1, <1>2
  <1>4. ASSUME NEW rule, Among(rule, r) \/ Among(rule, q) PROVE Among(rule, both)
    <2>1. CASE Among(rule, r)
      <3>1. PICK i \in DOMAIN r : r[i] = rule
        BY <2>1 DEF Among
      <3>2. i \in DOMAIN both /\ both[i] = rule
        BY <1>1, <1>2, <3>1
      <3> QED
        BY <3>2 DEF Among
    <2>2. CASE Among(rule, q)
      <3>1. PICK i \in DOMAIN q : q[i] = rule
        BY <2>2 DEF Among
      <3>2. Len(r) + i \in DOMAIN both /\ both[Len(r) + i] = rule
        BY <1>1, <1>2, <3>1
      <3> QED
        BY <3>2 DEF Among
    <2> QED
      BY <1>4, <2>1, <2>2
  <1>5. ASSUME NEW granted, Comes(r, granted), Comes(q, granted) PROVE Comes(both, granted)
    BY <1>3, <1>5 DEF Comes
  <1> QED
    BY <1>1, <1>4, <1>5 DEF both

\* A list of one.
LEMMA OneFacts ==
  ASSUME NEW rule \in Rule
  PROVE  /\ <<rule>> \in Seq(Rule) /\ Among(rule, <<rule>>)
         /\ \A granted : rule \in granted => Comes(<<rule>>, granted)
  BY DEF Among, Comes

\* What is granted only grows.
LEMMA ComesMore ==
  ASSUME NEW rules, NEW some, NEW more, Comes(rules, some), some \subseteq more
  PROVE  Comes(rules, more)
  BY DEF Comes

\* What a file becomes when a rule is added.
LEMMA WithRuleFacts ==
  ASSUME NEW base \in RuleFiles, NEW rule \in Rule
  PROVE  LET file == WithRule(base, rule) IN
         /\ file \in RuleFiles /\ file # Malformed
         /\ LoadFile(file) = LoadFile(base) \o <<rule>>
  <1>1. LoadFile(base) \in Seq(Rule)
    BY LoadFileType
  <1>2. /\ Append(LoadFile(base), rule) = LoadFile(base) \o <<rule>>
        /\ Append(LoadFile(base), rule) \in Seq(Rule)
    BY <1>1, AppendIsConcat, AppendProperties
  <1>3. Malformed \notin Seq(Rule)
    BY PermissionsAssumption
  <1> QED
    BY <1>2, <1>3 DEF WithRule, RuleFiles, LoadFile

\* The rules of all three files are there by hand.
LEMMA HandFacts ==
  ASSUME RightsTypes
  PROVE  /\ Comes(LoadFile(user), ByHand) /\ Comes(LoadFile(local), ByHand)
         /\ Comes(LoadFile(project0), ByHand)
  <1> DEFINE u == LoadFile(user)
             l == LoadFile(local)
             p == LoadFile(project0)
             all == u \o l \o p
  <1>1. u \in Seq(Rule) /\ l \in Seq(Rule) /\ p \in Seq(Rule)
    BY LoadFileType DEF RightsTypes
  <1>2. ByHand = {rule \in Range(all) : rule.allow}
    BY DEF ByHand
  <1> HIDE DEF u, l, p
  <1>3. u \o l \in Seq(Rule) /\ \A rule : Among(rule, u) \/ Among(rule, l) => Among(rule, u \o l)
    BY <1>1, ConcatFacts
  <1>4. \A rule : Among(rule, u \o l) \/ Among(rule, p) => Among(rule, all)
    BY <1>1, <1>3, ConcatFacts
  <1>5. \A rule : Among(rule, u) \/ Among(rule, l) \/ Among(rule, p) => Among(rule, all)
    BY <1>3, <1>4
  <1> HIDE DEF all
  <1>6. \A rule : Among(rule, all) /\ rule.allow => rule \in ByHand
    BY <1>2 DEF Among, Range
  <1>7. ASSUME NEW rules, \A rule : Among(rule, rules) => Among(rule, all)
        PROVE  Comes(rules, ByHand)
    BY <1>6, <1>7 DEF Among, Comes
  <1> QED
    BY <1>5, <1>7 DEF u, l, p

\* What is said of a session stays true while the session stands still.
LEMMA SessionStays ==
  ASSUME RightsInv, NEW t \in Sessions, UNCHANGED <<user, local, project0>>,
         saved \subseteq saved',
         mode'[t] = mode[t], command'[t] = command[t], dialog'[t] = dialog[t],
         answered'[t] = answered[t], permRules'[t] = permRules[t],
         sessionRules'[t] = sessionRules[t], known'[t] = known[t], intact'[t] = intact[t]
  PROVE  SessionFits(t)' /\ GrantsFit(t)' /\ Remembers(t)'
  <1>1. SessionFits(t) /\ GrantsFit(t) /\ Remembers(t)
    BY DEF RightsInv
  <1>2. SessionFits(t)'
    BY <1>1 DEF SessionFits, Saving, NewRule
  <1>3. GrantsFit(t)'
    <2>1. ByHand' = ByHand
      BY DEF ByHand
    <2>2. /\ ByHand \cup answered[t] \cup saved \subseteq ByHand \cup answered[t] \cup saved'
          /\ ByHand \cup saved \subseteq ByHand \cup saved'
      OBVIOUS
    <2> QED
      BY <1>1, <2>1, <2>2, ComesMore DEF GrantsFit
  <1>4. Remembers(t)'
    <2>1. \A c : Hand(t, c)' = Hand(t, c)
      BY DEF Hand
    <2>2. NewRule(t)' = NewRule(t) /\ (Saving(t)' <=> Saving(t))
      BY DEF NewRule, Saving
    <2> QED
      BY <1>1, <2>1, <2>2 DEF Remembers
  <1> QED
    BY <1>2, <1>3, <1>4

\* So is what is said of the file, while its writers are the same.
LEMMA FileStays ==
  ASSUME RightsInv, UNCHANGED <<project0, project, saved>>, damaged => damaged',
         \A t \in Sessions : /\ Writing(t)' <=> Writing(t)
                             /\ Writing(t) => dialog'[t] = dialog[t]
  PROVE  FileFits'
  <1>1. \A file : Whole(file)' <=> Whole(file)
    BY DEF Whole
  <1> QED
    BY <1>1 DEF RightsInv, FileFits

\* A step that leaves all of it alone.
LEMMA RightsStay ==
  ASSUME RightsInv,
         UNCHANGED <<user, project, local, project0, mode, permRules, sessionRules, command,
                     dialog, answered, known, saved, damaged, intact, starts, always>>
  PROVE  RightsInv'
  <1>1. RightsTypes'
    BY DEF RightsInv, RightsTypes
  <1>2. FileFits'
    BY FileStays DEF Writing
  <1>3. Comes(LoadFile(project), ByHand \cup saved)'
    BY DEF RightsInv, ByHand
  <1>4. \A t \in Sessions : SessionFits(t)' /\ GrantsFit(t)' /\ Remembers(t)'
    BY SessionStays
  <1> QED
    BY <1>1, <1>2, <1>3, <1>4 DEF RightsInv

\* No session runs, and the files are as they were found.
LEMMA InitRights == Init => RightsInv
  <1> SUFFICES ASSUME Init PROVE RightsInv
    OBVIOUS
  <1>1. /\ user \in RuleFiles /\ project \in RuleFiles /\ local \in RuleFiles
        /\ MaxStarts \in Nat /\ MaxAlways \in Nat
    BY PermissionsAssumption DEF Init
  <1>2. <<>> \in Seq(Rule) /\ <<>> \in RuleFiles /\ LoadFile(<<>>) = <<>>
    BY DEF RuleFiles, LoadFile
  <1>3. /\ project0 = project /\ saved = {} /\ damaged = FALSE /\ starts = 0 /\ always = 0
        /\ mode = [s \in Sessions |-> "off"] /\ permRules = [s \in Sessions |-> <<>>]
        /\ sessionRules = [s \in Sessions |-> <<>>] /\ command = [s \in Sessions |-> Nil]
        /\ dialog = [s \in Sessions |-> Quiet] /\ answered = [s \in Sessions |-> {}]
        /\ known = [s \in Sessions |-> {}] /\ intact = [s \in Sessions |-> TRUE]
    BY DEF Init
  <1>4. RightsTypes
    <2>1. Quiet \in Dialog
      BY <1>2 DEF Quiet, Dialog
    <2>2. permRules \in [Sessions -> Seq(Rule)] /\ sessionRules \in [Sessions -> Seq(Rule)]
      BY <1>2, <1>3
    <2>3. dialog \in [Sessions -> Dialog] /\ intact \in [Sessions -> BOOLEAN]
      BY <1>3, <2>1
    <2>4. answered \in [Sessions -> SUBSET Rule] /\ known \in [Sessions -> SUBSET Rule]
      BY <1>3
    <2>5. /\ mode \in [Sessions -> {"off", "terminal", "piped", "server"}]
          /\ command \in [Sessions -> CommandTools \cup {Nil}]
      BY <1>3
    <2>6. saved \subseteq Rule /\ damaged \in BOOLEAN
      BY <1>3
    <2>7. starts \in 0 .. MaxStarts /\ always \in 0 .. MaxAlways /\ project0 \in RuleFiles
      BY <1>1, <1>3
    <2> QED
      BY <1>1, <2>2, <2>3, <2>4, <2>5, <2>6, <2>7 DEF RightsTypes
  <1>5. Comes(LoadFile(project), ByHand \cup saved)
    BY <1>3, <1>4, HandFacts, ComesMore
  <1>6. FileFits
    BY <1>3 DEF FileFits, Writing, Quiet, Whole
  <1>7. ASSUME NEW s \in Sessions PROVE SessionFits(s) /\ GrantsFit(s) /\ Remembers(s)
    <2>1. \A granted : Comes(<<>>, granted)
      BY DEF Comes
    <2> QED
      BY <1>2, <1>3, <2>1 DEF SessionFits, Saving, GrantsFit, Remembers, Quiet
  <1> QED
    BY <1>4, <1>5, <1>6, <1>7 DEF RightsInv

\* The dialog of a session that is not asked, and of one that is.
LEMMA DialogFacts ==
  /\ Quiet \in Dialog /\ Quiet.at = "none" /\ Quiet.base = <<>>
  /\ \A c \in Calls : LET asked == [Quiet EXCEPT !.at = "asked", !.call = c] IN
       asked \in Dialog /\ asked.at = "asked" /\ asked.call = c /\ asked.base = <<>>
  <1>1. <<>> \in RuleFiles
    BY DEF RuleFiles
  <1>2. Quiet \in Dialog /\ Quiet.at = "none" /\ Quiet.base = <<>>
    BY <1>1 DEF Quiet, Dialog
  <1>3. ASSUME NEW c \in Calls
        PROVE  LET asked == [Quiet EXCEPT !.at = "asked", !.call = c] IN
                 asked \in Dialog /\ asked.at = "asked" /\ asked.call = c /\ asked.base = <<>>
    BY <1>2 DEF Dialog
  <1> QED
    BY <1>2, <1>3

\* A question on the screen, or none, in the place of another.
LEMMA DialogRights ==
  ASSUME RightsInv, NEW s \in Sessions, AnswerOnce(s) \/ \E c \in Calls : Ask(s, c)
  PROVE  RightsInv'
  <1>0. SessionFits(s) /\ GrantsFit(s) /\ Remembers(s)
    BY DEF RightsInv
  <1>1. PICK d \in Dialog : /\ dialog' = [dialog EXCEPT ![s] = d] /\ d.base = <<>>
                            /\ d.at \in {"none", "asked"}
                            /\ d.at = "asked" => d.call \in Calls /\ mode[s] # "off"
                            /\ d.at = "none" => d = Quiet
    <2>1. CASE AnswerOnce(s)
      BY <2>1, DialogFacts DEF AnswerOnce
    <2>2. CASE \E c \in Calls : Ask(s, c)
      <3>1. PICK c \in Calls : Ask(s, c)
        BY <2>2
      <3> DEFINE asked == [Quiet EXCEPT !.at = "asked", !.call = c]
      <3>2. dialog' = [dialog EXCEPT ![s] = asked] /\ mode[s] # "off"
        BY <3>1 DEF Ask
      <3>3. asked \in Dialog /\ asked.at = "asked" /\ asked.call = c /\ asked.base = <<>>
        BY DialogFacts
      <3> HIDE DEF asked
      <3> QED
        BY <3>2, <3>3
    <2> QED
      BY <2>1, <2>2
  <1>2. /\ UNCHANGED <<user, project, local, project0, mode, permRules, sessionRules, command,
                       answered, known, saved, damaged, intact, starts, always>>
        /\ dialog[s].at \in {"none", "asked"} /\ (mode[s] = "off" => d = Quiet)
    <2>1. dialog[s].at \in {"none", "asked"}
      BY DEF AnswerOnce, Ask
    <2>2. mode[s] = "off" => d = Quiet
      BY <1>1
    <2>3. UNCHANGED <<user, project, local, project0, mode, permRules, sessionRules, command,
                      answered, known, saved, damaged, intact, starts, always>>
      BY DEF AnswerOnce, Ask, settings, history
    <2> QED
      BY <2>1, <2>2, <2>3
  <1>3. RightsTypes /\ dialog \in [Sessions -> Dialog]
    BY DEF RightsInv, RightsTypes
  <1>4. dialog'[s] = d /\ \A t \in Sessions \ {s} : dialog'[t] = dialog[t]
    BY <1>1, <1>3
  <1>5. RightsTypes'
    BY <1>1, <1>2, <1>3 DEF RightsTypes
  <1>6. Comes(LoadFile(project), ByHand \cup saved)'
    BY <1>2 DEF RightsInv, ByHand
  <1>7. FileFits'
    <2>1. \A t \in Sessions : /\ Writing(t)' <=> Writing(t)
                              /\ Writing(t) => dialog'[t] = dialog[t]
      <3>1. ~Writing(s) /\ ~Writing(s)'
        BY <1>1, <1>2, <1>4 DEF Writing
      <3>2. \A t \in Sessions \ {s} : Writing(t)' <=> Writing(t)
        BY <1>4 DEF Writing
      <3> QED
        BY <1>4, <3>1, <3>2
    <2> QED
      BY <1>2, <2>1, FileStays
  <1>8. SessionFits(s)' /\ GrantsFit(s)' /\ Remembers(s)'
    <2>1. dialog'[s].at \in {"none", "asked"} /\ ~Saving(s) /\ ~Saving(s)'
      BY <1>1, <1>2, <1>4 DEF Saving
    <2>2. SessionFits(s)'
      BY <1>0, <1>1, <1>2, <1>4, <2>1 DEF SessionFits
    <2>3. GrantsFit(s)'
      <3>1. LoadFile(<<>>) = <<>> /\ \A granted : Comes(<<>>, granted)
        BY DEF LoadFile, Comes
      <3>2. Comes(permRules[s], ByHand \cup answered[s] \cup saved)'
        BY <1>0, <1>2 DEF GrantsFit, ByHand
      <3> QED
        BY <1>1, <1>4, <3>1, <3>2 DEF GrantsFit
    <2>4. Remembers(s)'
      <3>1. \A c : Hand(s, c)' = Hand(s, c)
        BY <1>2 DEF Hand
      <3> QED
        BY <1>0, <1>2, <2>1, <3>1 DEF Remembers
    <2> QED
      BY <2>2, <2>3, <2>4
  <1>9. \A t \in Sessions \ {s} : SessionFits(t)' /\ GrantsFit(t)' /\ Remembers(t)'
    BY <1>2, <1>4, SessionStays
  <1> QED
    BY <1>5, <1>6, <1>7, <1>8, <1>9 DEF RightsInv

\* The session has been told Always and is about to save the rule.
LEMMA AlwaysRights == ASSUME RightsInv, NEW s \in Sessions, Always(s) PROVE RightsInv'
  <1> DEFINE d == [dialog[s] EXCEPT !.at = "saving", !.base = project]
             new == NewRule(s)
  <1>1. /\ RightsTypes /\ dialog \in [Sessions -> Dialog] /\ dialog[s] \in Dialog
        /\ project \in RuleFiles /\ answered \in [Sessions -> SUBSET Rule]
        /\ always \in 0 .. MaxAlways /\ MaxAlways \in Nat
        /\ SessionFits(s) /\ GrantsFit(s) /\ Remembers(s)
    BY PermissionsAssumption DEF RightsInv, RightsTypes
  <1>2. /\ dialog[s].at = "asked" /\ always < MaxAlways /\ always' = always + 1
        /\ dialog' = [dialog EXCEPT ![s] = d]
        /\ answered' = [answered EXCEPT ![s] = @ \cup {new}]
        /\ UNCHANGED <<user, project, local, project0, mode, permRules, sessionRules, command,
                       known, saved, damaged, intact, starts>>
    BY DEF Always, settings
  <1>3. d \in Dialog /\ d.at = "saving" /\ d.base = project /\ d.call = dialog[s].call
    BY <1>1 DEF Dialog
  <1>4. mode[s] # "off" /\ d.call \in Calls /\ new \in Rule
    BY <1>1, <1>2, <1>3, DialogFacts, NewRuleType DEF SessionFits
  <1> HIDE DEF d
  <1>5. /\ dialog'[s] = d /\ answered'[s] = answered[s] \cup {new}
        /\ \A t \in Sessions \ {s} : dialog'[t] = dialog[t] /\ answered'[t] = answered[t]
    BY <1>1, <1>2
  <1>6. NewRule(s)' = new
    BY <1>3, <1>5 DEF NewRule
  <1> HIDE DEF new
  <1>7. RightsTypes'
    <2>1. dialog' \in [Sessions -> Dialog] /\ answered' \in [Sessions -> SUBSET Rule]
      BY <1>1, <1>2, <1>3, <1>4
    <2>2. always' \in 0 .. MaxAlways
      BY <1>1, <1>2
    <2> QED
      BY <1>1, <1>2, <2>1, <2>2 DEF RightsTypes
  <1>8. Comes(LoadFile(project), ByHand \cup saved)'
    BY <1>2 DEF RightsInv, ByHand
  <1>9. FileFits'
    <2>1. ~Writing(s) /\ ~Writing(s)'
      BY <1>2, <1>3, <1>5 DEF Writing
    <2>2. \A t \in Sessions \ {s} : Writing(t)' <=> Writing(t)
      BY <1>5 DEF Writing
    <2> QED
      BY <1>2, <1>5, <2>1, <2>2, FileStays
  <1>10. SessionFits(s)' /\ GrantsFit(s)' /\ Remembers(s)'
    <2>1. Saving(s)' /\ ~Saving(s)
      BY <1>2, <1>3, <1>5 DEF Saving
    <2>2. SessionFits(s)'
      BY <1>1, <1>2, <1>3, <1>4, <1>5, <1>6 DEF SessionFits
    <2>3. GrantsFit(s)'
      <3>1. ByHand' = ByHand
        BY <1>2 DEF ByHand
      <3>2. Comes(permRules[s], ByHand \cup answered'[s] \cup saved)
        BY <1>1, <1>5, ComesMore DEF GrantsFit
      <3>3. Comes(LoadFile(project), ByHand \cup saved)
        BY DEF RightsInv
      <3> QED
        BY <1>2, <1>3, <1>5, <3>1, <3>2, <3>3 DEF GrantsFit
    <2>4. Remembers(s)'
      <3>1. \A c : Hand(s, c)' = Hand(s, c)
        BY <1>2 DEF Hand
      <3>2. \A rule \in known[s] \cup answered[s] : Among(rule, permRules[s])
        BY <1>1, <1>4, <2>1 DEF Remembers
      <3>3. \A c \in Calls : /\ Hand(s, c) # "none" /\ ~\E rule \in answered[s] : Covers(rule, c)
                             => Check(permRules[s], c) = Hand(s, c)
        BY <1>1, <1>4 DEF Remembers
      <3> QED
        BY <1>2, <1>5, <1>6, <2>1, <3>1, <3>2, <3>3 DEF Remembers
    <2> QED
      BY <2>2, <2>3, <2>4
  <1>11. \A t \in Sessions \ {s} : SessionFits(t)' /\ GrantsFit(t)' /\ Remembers(t)'
    BY <1>2, <1>5, SessionStays
  <1> QED
    BY <1>7, <1>8, <1>9, <1>10, <1>11 DEF RightsInv

\* The file is emptied.
LEMMA TruncateRights == ASSUME RightsInv, NEW s \in Sessions, Truncate(s) PROVE RightsInv'
  <1> DEFINE d == [dialog[s] EXCEPT !.at = "writing"]
  <1>1. /\ RightsTypes /\ dialog \in [Sessions -> Dialog] /\ dialog[s] \in Dialog
        /\ SessionFits(s) /\ GrantsFit(s) /\ Remembers(s)
    BY DEF RightsInv, RightsTypes
  <1>2. /\ dialog[s].at = "saving" /\ project' = Malformed
        /\ dialog' = [dialog EXCEPT ![s] = d]
        /\ UNCHANGED <<user, local, project0, mode, permRules, sessionRules, command,
                       answered, known, saved, intact, starts, always>>
    BY DEF Truncate, settings, history
  <1>3. damaged' = (damaged \/ project # dialog[s].base \/ \E t \in Sessions : Writing(t))
    BY DEF Truncate, Writing
  <1>4. d \in Dialog /\ d.at = "writing" /\ d.base = dialog[s].base /\ d.call = dialog[s].call
    BY <1>1 DEF Dialog
  <1> HIDE DEF d
  <1>5. dialog'[s] = d /\ \A t \in Sessions \ {s} : dialog'[t] = dialog[t]
    BY <1>1, <1>2
  <1>6. RightsTypes'
    <2>1. dialog' \in [Sessions -> Dialog] /\ Malformed \in RuleFiles
      BY <1>1, <1>2, <1>4 DEF RuleFiles
    <2>2. damaged' \in BOOLEAN
      BY <1>3
    <2> QED
      BY <1>1, <1>2, <2>1, <2>2 DEF RightsTypes
  <1>7. Comes(LoadFile(project), ByHand \cup saved)'
    BY <1>2 DEF LoadFile, Comes
  <1>8. FileFits'
    <2> SUFFICES ASSUME ~damaged'
                 PROVE  /\ Writing(s)' /\ Whole(dialog[s].base)'
                        /\ \A t \in Sessions \ {s} : ~Writing(t)'
      BY <1>2, <1>5 DEF FileFits
    <2>1. ~damaged /\ project = dialog[s].base /\ \A t \in Sessions : ~Writing(t)
      BY <1>3
    <2>2. Whole(dialog[s].base)
      BY <2>1 DEF RightsInv, FileFits
    <2>3. \A file : Whole(file)' <=> Whole(file)
      BY <1>2 DEF Whole
    <2>4. dialog'[s].base = dialog[s].base
      BY <1>4, <1>5
    <2>5. Whole(dialog[s].base)'
      BY <2>2, <2>3, <2>4
    <2> QED
      BY <1>4, <1>5, <2>1, <2>5 DEF Writing
  <1>9. SessionFits(s)' /\ GrantsFit(s)' /\ Remembers(s)'
    <2>1. Saving(s)' /\ Saving(s) /\ NewRule(s)' = NewRule(s)
      BY <1>2, <1>4, <1>5 DEF Saving, NewRule
    <2>2. SessionFits(s)'
      BY <1>1, <1>2, <1>4, <1>5, <2>1, DialogFacts DEF SessionFits
    <2>3. GrantsFit(s)'
      BY <1>1, <1>2, <1>4, <1>5 DEF GrantsFit, ByHand
    <2>4. Remembers(s)'
      <3>1. \A c : Hand(s, c)' = Hand(s, c)
        BY <1>2 DEF Hand
      <3> QED
        BY <1>1, <1>2, <2>1, <3>1 DEF Remembers
    <2> QED
      BY <2>2, <2>3, <2>4
  <1>10. \A t \in Sessions \ {s} : SessionFits(t)' /\ GrantsFit(t)' /\ Remembers(t)'
    BY <1>2, <1>5, SessionStays
  <1> QED
    BY <1>6, <1>7, <1>8, <1>9, <1>10 DEF RightsInv

\* The rule holds in memory: what that does to the session itself.
LEMMA RememberRights ==
  ASSUME RightsInv, NEW s \in Sessions, Saving(s), Remember(s), saved \subseteq saved',
         UNCHANGED <<project0>>
  PROVE  /\ dialog' \in [Sessions -> Dialog] /\ permRules' \in [Sessions -> Seq(Rule)]
         /\ dialog'[s] = Quiet /\ \A t \in Sessions \ {s} : dialog'[t] = dialog[t]
         /\ \A t \in Sessions : SessionFits(t)' /\ GrantsFit(t)' /\ Remembers(t)'
  <1> DEFINE new == NewRule(s)
  <1>1. /\ RightsTypes /\ dialog \in [Sessions -> Dialog]
        /\ permRules \in [Sessions -> Seq(Rule)] /\ answered \in [Sessions -> SUBSET Rule]
        /\ SessionFits(s) /\ GrantsFit(s) /\ Remembers(s)
    BY DEF RightsInv, RightsTypes
  <1>2. /\ dialog[s].call \in Calls /\ new \in answered[s] /\ new \in Rule
        /\ mode[s] # "off"
    <2>1. dialog[s].call \in Calls /\ new \in answered[s] /\ mode[s] # "off"
      BY <1>1, DialogFacts DEF SessionFits, Saving
    <2> QED
      BY <2>1, NewRuleType
  <1> HIDE DEF new
  <1>3. /\ permRules' = [permRules EXCEPT ![s] = <<new>> \o @]
        /\ dialog' = [dialog EXCEPT ![s] = Quiet]
        /\ UNCHANGED <<user, local, project0, mode, sessionRules, command, answered, known,
                       intact>>
    BY DEF Remember, InMemory, settings, history, new
  <1> DEFINE rules == <<new>> \o permRules[s]
  <1>4. /\ <<new>> \in Seq(Rule) /\ permRules[s] \in Seq(Rule) /\ rules \in Seq(Rule)
        /\ \A rule : Among(rule, permRules[s]) => Among(rule, rules)
        /\ Among(new, rules)
        /\ \A granted : new \in granted /\ Comes(permRules[s], granted) => Comes(rules, granted)
    BY <1>1, <1>2, OneFacts, ConcatFacts
  <1>5. \A c : Check(rules, c) = IF Covers(new, c) THEN Decides(new) ELSE Check(permRules[s], c)
    <2> TAKE c
    <2>1. Check(<<new>>, c) = IF Covers(new, c) THEN Decides(new) ELSE "none"
      BY <1>2, CheckOne
    <2>2. Check(rules, c) = IF Check(<<new>>, c) # "none" THEN Check(<<new>>, c)
                            ELSE Check(permRules[s], c)
      <3>1. <<new>> \in Seq(Rule) /\ permRules[s] \in Seq(Rule)
        BY <1>4
      <3> QED
        BY <3>1, CheckConcat, ZenonT(20)
    <2> QED
      BY <2>1, <2>2 DEF Decides
  <1> HIDE DEF rules
  <1>6. /\ permRules'[s] = rules /\ dialog'[s] = Quiet
        /\ \A t \in Sessions \ {s} : permRules'[t] = permRules[t] /\ dialog'[t] = dialog[t]
    BY <1>1, <1>3 DEF rules
  <1>7. dialog' \in [Sessions -> Dialog] /\ permRules' \in [Sessions -> Seq(Rule)]
    BY <1>1, <1>3, <1>4, DialogFacts DEF rules
  <1>8. ByHand' = ByHand /\ ~Saving(s)' /\ \A c : Hand(s, c)' = Hand(s, c)
    BY <1>3, <1>6, DialogFacts DEF ByHand, Saving, Hand
  <1>9. SessionFits(s)'
    BY <1>1, <1>3, <1>6, <1>8, DialogFacts DEF SessionFits
  <1>10. GrantsFit(s)'
    <2>1. Comes(rules, ByHand \cup answered[s] \cup saved)
      BY <1>1, <1>2, <1>4 DEF GrantsFit
    <2>2. Comes(rules, ByHand \cup answered[s] \cup saved')
      BY <2>1, ComesMore
    <2>3. LoadFile(<<>>) = <<>> /\ \A granted : Comes(<<>>, granted)
      BY DEF LoadFile, Comes
    <2>4. dialog'[s].base = <<>>
      BY <1>6, DialogFacts
    <2>5. Comes(LoadFile(dialog'[s].base), ByHand \cup saved')
      BY <2>3, <2>4
    <2> QED
      BY <1>3, <1>6, <1>8, <2>2, <2>5 DEF GrantsFit
  <1>11. Remembers(s)'
    <2>1. ASSUME NEW c \in Calls, Hand(s, c) # "none", ~\E rule \in answered[s] : Covers(rule, c)
          PROVE  Check(rules, c) = Hand(s, c)
      BY <1>1, <1>2, <1>5, <2>1 DEF Remembers
    <2>2. ASSUME NEW rule \in known[s] \cup answered[s] PROVE Among(rule, rules)
      BY <1>1, <1>2, <1>4, <2>2 DEF Remembers, new
    <2> QED
      BY <1>3, <1>6, <1>8, <2>1, <2>2 DEF Remembers
  <1>12. \A t \in Sessions \ {s} : SessionFits(t)' /\ GrantsFit(t)' /\ Remembers(t)'
    BY <1>3, <1>6, SessionStays
  <1> QED
    BY <1>6, <1>7, <1>9, <1>10, <1>11, <1>12

\* A save that fails, before the file is emptied or after.
LEMMA SaveFailsRights == ASSUME RightsInv, NEW s \in Sessions, SaveFails(s) PROVE RightsInv'
  <1>1. /\ Saving(s) /\ Remember(s) /\ damaged' = (damaged \/ Writing(s))
        /\ UNCHANGED <<user, project, local, project0, mode, sessionRules, command, answered,
                       known, saved, intact, starts, always>>
    BY DEF SaveFails, Saving, Writing, Remember, settings, history
  <1>2. /\ dialog' \in [Sessions -> Dialog] /\ permRules' \in [Sessions -> Seq(Rule)]
        /\ dialog'[s] = Quiet /\ \A t \in Sessions \ {s} : dialog'[t] = dialog[t]
        /\ \A t \in Sessions : SessionFits(t)' /\ GrantsFit(t)' /\ Remembers(t)'
    BY <1>1, RememberRights
  <1>3. damaged' \in BOOLEAN
    BY <1>1
  <1>4. RightsTypes'
    BY <1>1, <1>2, <1>3 DEF RightsInv, RightsTypes
  <1>5. Comes(LoadFile(project), ByHand \cup saved)'
    BY <1>1 DEF RightsInv, ByHand
  <1>6. FileFits'
    <2> SUFFICES ASSUME ~damaged' PROVE FileFits'
      BY DEF FileFits
    <2>1. ~Writing(s) /\ ~Writing(s)'
      BY <1>1, <1>2, DialogFacts DEF Writing
    <2>2. \A t \in Sessions \ {s} : Writing(t)' <=> Writing(t)
      BY <1>2 DEF Writing
    <2> QED
      BY <1>1, <1>2, <2>1, <2>2, FileStays
  <1> QED
    BY <1>2, <1>4, <1>5, <1>6 DEF RightsInv

\* The file is filled, or overwritten.
LEMMA FillRights == ASSUME RightsInv, NEW s \in Sessions, Fill(s) PROVE RightsInv'
  <1> DEFINE new == NewRule(s)
             file == WithRule(dialog[s].base, new)
  <1>1. /\ Writing(s) /\ Saving(s) /\ Remember(s) /\ saved' = saved \cup {new}
        /\ damaged' = (damaged \/ project # Malformed)
        /\ project' = file \/ (project # Malformed /\ project' = Malformed)
        /\ UNCHANGED <<user, local, project0, mode, sessionRules, command, answered,
                       known, intact, starts, always>>
    BY DEF Fill, Saving, Writing, Remember, settings, history
  <1>2. /\ dialog' \in [Sessions -> Dialog] /\ permRules' \in [Sessions -> Seq(Rule)]
        /\ dialog'[s] = Quiet /\ \A t \in Sessions \ {s} : dialog'[t] = dialog[t]
        /\ \A t \in Sessions : SessionFits(t)' /\ GrantsFit(t)' /\ Remembers(t)'
    BY <1>1, RememberRights
  <1>3. /\ RightsTypes /\ SessionFits(s) /\ GrantsFit(s) /\ dialog[s].base \in RuleFiles
        /\ saved \subseteq Rule
    BY DEF RightsInv, RightsTypes, Dialog
  <1>4. new \in Rule
    BY <1>1, <1>3, NewRuleType DEF SessionFits, Writing
  <1> HIDE DEF new
  <1>5. /\ file \in RuleFiles /\ file # Malformed
        /\ LoadFile(file) = LoadFile(dialog[s].base) \o <<new>>
    BY <1>3, <1>4, WithRuleFacts
  <1> HIDE DEF file
  <1> DEFINE old == LoadFile(dialog[s].base)
  <1>6. /\ old \in Seq(Rule) /\ <<new>> \in Seq(Rule) /\ LoadFile(file) = old \o <<new>>
        /\ Among(new, <<new>>) /\ \A granted : new \in granted => Comes(<<new>>, granted)
    BY <1>3, <1>4, <1>5, LoadFileType, OneFacts
  <1> HIDE DEF old
  <1>10. /\ \A rule : Among(rule, old) \/ rule = new => Among(rule, LoadFile(file))
         /\ \A granted : Comes(old, granted) /\ new \in granted
                          => Comes(LoadFile(file), granted)
         /\ \A c : Check(LoadFile(file), c) = IF Check(old, c) # "none" THEN Check(old, c)
                                               ELSE Check(<<new>>, c)
    <2>1. \A c : Check(old \o <<new>>, c) = IF Check(old, c) # "none" THEN Check(old, c)
                                            ELSE Check(<<new>>, c)
      BY <1>6, CheckConcat
    <2>2. \A rule : Among(rule, old) \/ Among(rule, <<new>>) => Among(rule, old \o <<new>>)
      BY <1>6, ConcatFacts
    <2>3. \A granted : Comes(old, granted) /\ Comes(<<new>>, granted)
                       => Comes(old \o <<new>>, granted)
      BY <1>6, ConcatFacts
    <2> QED
      BY <1>6, <2>1, <2>2, <2>3
  <1>7. RightsTypes'
    <2>1. project' \in RuleFiles /\ damaged' \in BOOLEAN /\ saved' \subseteq Rule
      BY <1>1, <1>3, <1>4, <1>5 DEF RuleFiles
    <2> QED
      BY <1>1, <1>2, <2>1 DEF RightsInv, RightsTypes
  <1>8. Comes(LoadFile(project), ByHand \cup saved)'
    <2>1. ByHand' = ByHand
      BY <1>1 DEF ByHand
    <2>2. Comes(old, ByHand \cup saved')
      BY <1>1, <1>3, ComesMore DEF GrantsFit, old
    <2>3. Comes(LoadFile(file), ByHand \cup saved')
      BY <1>1, <1>10, <2>2
    <2>4. Comes(LoadFile(Malformed), ByHand \cup saved')
      BY DEF LoadFile, Comes
    <2> QED
      BY <1>1, <2>1, <2>3, <2>4
  <1>9. FileFits'
    <2> SUFFICES ASSUME ~damaged'
                 PROVE  Whole(project)' /\ \A t \in Sessions : ~Writing(t)'
      BY DEF FileFits
    <2>1. /\ ~damaged /\ project' = file /\ Whole(dialog[s].base)
          /\ \A t \in Sessions \ {s} : ~Writing(t)
      BY <1>1 DEF RightsInv, FileFits
    <2>2. \A t \in Sessions : ~Writing(t)'
      BY ZenonT(40), <1>2, <2>1, DialogFacts DEF Writing
    <2>3. /\ \A c \in Calls : Check(LoadFile(project0), c) # "none"
                             => Check(old, c) = Check(LoadFile(project0), c)
          /\ \A rule \in saved : Among(rule, old)
      BY <2>1 DEF Whole, old
    <2>4. /\ \A c \in Calls : Check(LoadFile(project0), c) # "none"
                             => Check(LoadFile(file), c) = Check(LoadFile(project0), c)
          /\ \A rule \in saved' : Among(rule, LoadFile(file))
      BY <1>1, <1>10, <2>3
    <2>5. Whole(project)'
      BY <1>1, <2>1, <2>4 DEF Whole
    <2> QED
      BY <2>2, <2>5
  <1> QED
    BY <1>2, <1>7, <1>8, <1>9 DEF RightsInv

\* The rules of a command come with it and go with it.
LEMMA CommandRights ==
  ASSUME RightsInv, NEW s \in Sessions,
         EndCommand(s) \/ \E tools \in CommandTools : BeginCommand(s, tools)
  PROVE  RightsInv'
  <1>1. /\ RightsTypes /\ command \in [Sessions -> CommandTools \cup {Nil}]
        /\ sessionRules \in [Sessions -> Seq(Rule)] /\ Nil \notin CommandTools
        /\ SessionFits(s) /\ GrantsFit(s) /\ Remembers(s)
    BY PermissionsAssumption DEF RightsInv, RightsTypes
  <1>2. UNCHANGED <<user, project, local, project0, mode, permRules, dialog, answered, known,
                    saved, damaged, intact, starts, always>>
    BY DEF EndCommand, BeginCommand, history
  <1>3. \A tools \in CommandTools :
          /\ AllowAll(tools) \in Seq(Rule) /\ CutOff(AllowAll(tools), tools) = <<>>
          /\ <<>> \o AllowAll(tools) = AllowAll(tools)
    <2> TAKE tools \in CommandTools
    <2>1. tools \in SUBSET Tools
      BY PermissionsAssumption
    <2> DEFINE rules == AllowAll(tools)
    <2>2. rules \in Seq(Rule) /\ Len(rules) = Cardinality(tools) /\ Cardinality(tools) \in Nat
      BY <2>1, AllowAllFacts
    <2> HIDE DEF rules
    <2>3. CutOff(rules, tools) = SubSeq(rules, 1, 0)
      BY <2>2 DEF CutOff
    <2> QED
      BY <2>2, <2>3 DEF rules
  <1>4. PICK c \in CommandTools \cup {Nil} :
          /\ command' = [command EXCEPT ![s] = c] /\ mode[s] \in {"terminal", "piped"}
          /\ sessionRules' = [sessionRules EXCEPT ![s] = IF c = Nil THEN <<>> ELSE AllowAll(c)]
    <2>1. CASE EndCommand(s)
      <3>1. command' = [command EXCEPT ![s] = Nil] /\ command[s] \in CommandTools
        BY <1>1, <2>1 DEF EndCommand
      <3>2. mode[s] \in {"terminal", "piped"} /\ sessionRules[s] = AllowAll(command[s])
        BY <1>1, <3>1 DEF SessionFits, RightsTypes
      <3>3. sessionRules' = [sessionRules EXCEPT ![s] = <<>>]
        BY <1>3, <2>1, <3>1, <3>2 DEF EndCommand
      <3> QED
        BY <3>1, <3>2, <3>3
    <2>2. CASE \E tools \in CommandTools : BeginCommand(s, tools)
      <3>1. PICK tools \in CommandTools : BeginCommand(s, tools)
        BY <2>2
      <3>2. command[s] = Nil /\ mode[s] \in {"terminal", "piped"} /\ sessionRules[s] = <<>>
        BY <1>1, <3>1 DEF BeginCommand, SessionFits
      <3>3. sessionRules' = [sessionRules EXCEPT ![s] = AllowAll(tools)]
        BY <1>3, <3>1, <3>2 DEF BeginCommand
      <3> QED
        BY <1>1, <3>1, <3>2, <3>3 DEF BeginCommand
    <2> QED
      BY <2>1, <2>2
  <1> DEFINE rules == IF c = Nil THEN <<>> ELSE AllowAll(c)
  <1>5. rules \in Seq(Rule)
    BY <1>3
  <1> HIDE DEF rules
  <1>6. /\ command'[s] = c /\ sessionRules'[s] = rules
        /\ \A t \in Sessions \ {s} : /\ command'[t] = command[t]
                                     /\ sessionRules'[t] = sessionRules[t]
    BY <1>1, <1>4 DEF rules
  <1>7. sessionRules' \in [Sessions -> Seq(Rule)]
    BY <1>1, <1>4, <1>5 DEF rules
  <1>8. command' \in [Sessions -> CommandTools \cup {Nil}]
    BY <1>1, <1>4
  <1>9. RightsTypes'
    BY <1>1, <1>2, <1>7, <1>8 DEF RightsTypes
  <1>10. Comes(LoadFile(project), ByHand \cup saved)'
    BY <1>2 DEF RightsInv, ByHand
  <1>11. FileFits'
    BY <1>2, FileStays DEF Writing
  <1>12. SessionFits(s)'
    BY <1>1, <1>2, <1>4, <1>6 DEF SessionFits, Saving, NewRule, rules
  <1>13. GrantsFit(s)' /\ Remembers(s)'
    BY <1>1, <1>2 DEF GrantsFit, Remembers, ByHand, Hand, Saving, NewRule
  <1>14. \A t \in Sessions \ {s} : SessionFits(t)' /\ GrantsFit(t)' /\ Remembers(t)'
    BY <1>2, <1>6, SessionStays
  <1> QED
    BY <1>9, <1>10, <1>11, <1>12, <1>13, <1>14 DEF RightsInv

\* A session reads the files as they are.
LEMMA StartRights ==
  ASSUME RightsInv, NEW s \in Sessions, NEW m \in {"terminal", "piped", "server"},
         NEW tools, Start(s, m, tools)
  PROVE  RightsInv'
  <1>1. /\ RightsTypes /\ mode \in [Sessions -> {"off", "terminal", "piped", "server"}]
        /\ permRules \in [Sessions -> Seq(Rule)] /\ sessionRules \in [Sessions -> Seq(Rule)]
        /\ known \in [Sessions -> SUBSET Rule] /\ intact \in [Sessions -> BOOLEAN]
        /\ starts \in 0 .. MaxStarts /\ MaxStarts \in Nat /\ saved \subseteq Rule
        /\ SessionFits(s) /\ GrantsFit(s)
    BY PermissionsAssumption DEF RightsInv, RightsTypes
  <1> DEFINE l == LoadFile(local)
             p == LoadFile(project)
             u == LoadFile(user)
             i == ~damaged /\ project # Malformed
             rules == LoadForProject
             first == NewSessionRules(m)
  <1>2. /\ mode[s] = "off" /\ starts < MaxStarts /\ starts' = starts + 1
        /\ mode' = [mode EXCEPT ![s] = m] /\ permRules' = [permRules EXCEPT ![s] = rules]
        /\ sessionRules' = [sessionRules EXCEPT ![s] = first]
        /\ intact' = [intact EXCEPT ![s] = i]
        /\ known' = [known EXCEPT ![s] = IF intact'[s] THEN saved ELSE {}]
        /\ UNCHANGED <<user, project, local, project0, command, dialog, answered, saved,
                       damaged, always>>
    BY DEF Start
  <1>3. first \in Seq(Rule) /\ (m # "server" => first = <<>>)
    <2>1. {ToolOf[c] : c \in Calls} \in SUBSET Tools
      BY PermissionsAssumption
    <2>2. AllowAll({ToolOf[c] : c \in Calls}) \in Seq(Rule)
      BY <2>1, AllowAllFacts
    <2> QED
      BY <2>2 DEF NewSessionRules
  <1>4. l \in Seq(Rule) /\ p \in Seq(Rule) /\ u \in Seq(Rule) /\ rules = (l \o p) \o u
    BY <1>1, LoadFileType DEF RightsTypes, LoadForProject
  <1>5. Comes(l, ByHand) /\ Comes(u, ByHand) /\ Comes(p, ByHand \cup saved)
    BY <1>1, HandFacts DEF RightsInv
  <1> HIDE DEF l, p, u, i, rules, first
  <1>6. /\ l \o p \in Seq(Rule) /\ rules \in Seq(Rule)
        /\ \A rule : Among(rule, p) => Among(rule, rules)
        /\ Comes(rules, ByHand \cup saved)
    <2>1. Comes(l, ByHand \cup saved) /\ Comes(u, ByHand \cup saved)
      BY <1>5, ComesMore
    <2>2. /\ l \o p \in Seq(Rule) /\ \A rule : Among(rule, p) => Among(rule, l \o p)
          /\ Comes(l \o p, ByHand \cup saved)
      BY <1>4, <1>5, <2>1, ConcatFacts
    <2> DEFINE lp == l \o p
    <2> HIDE DEF lp
    <2>3. /\ lp \o u \in Seq(Rule) /\ \A rule : Among(rule, lp) => Among(rule, lp \o u)
          /\ Comes(lp \o u, ByHand \cup saved)
      BY <1>4, <2>1, <2>2, ConcatFacts DEF lp
    <2> QED
      BY <1>4, <2>2, <2>3 DEF lp
  <1>7. /\ mode'[s] = m /\ permRules'[s] = rules /\ sessionRules'[s] = first /\ intact'[s] = i
        /\ known'[s] = (IF i THEN saved ELSE {})
        /\ dialog[s] = Quiet /\ answered[s] = {} /\ command[s] = Nil
        /\ \A t \in Sessions \ {s} :
             /\ mode'[t] = mode[t] /\ permRules'[t] = permRules[t]
             /\ sessionRules'[t] = sessionRules[t] /\ intact'[t] = intact[t]
             /\ known'[t] = known[t]
    BY <1>1, <1>2 DEF SessionFits
  <1>8. RightsTypes'
    <2>1. permRules' \in [Sessions -> Seq(Rule)] /\ sessionRules' \in [Sessions -> Seq(Rule)]
      BY <1>1, <1>2, <1>3, <1>6
    <2>2. known' \in [Sessions -> SUBSET Rule]
      BY <1>1, <1>2
    <2>3. intact' \in [Sessions -> BOOLEAN]
      BY <1>1, <1>2 DEF i
    <2>4. mode' \in [Sessions -> {"off", "terminal", "piped", "server"}]
      BY <1>1, <1>2
    <2>5. starts' \in 0 .. MaxStarts
      BY <1>1, <1>2
    <2> QED
      BY <1>1, <1>2, <2>1, <2>2, <2>3, <2>4, <2>5 DEF RightsTypes
  <1>9. Comes(LoadFile(project), ByHand \cup saved)'
    BY <1>2 DEF RightsInv, ByHand
  <1>10. FileFits'
    BY <1>2, FileStays DEF Writing
  <1>11. SessionFits(s)'
    BY <1>1, <1>2, <1>3, <1>7, DialogFacts DEF SessionFits, Saving
  <1>12. GrantsFit(s)'
    <2>1. ByHand' = ByHand
      BY <1>2 DEF ByHand
    <2>2. Comes(rules, ByHand \cup answered[s] \cup saved)
      BY <1>6, ComesMore
    <2> QED
      BY <1>1, <1>2, <1>7, <2>1, <2>2 DEF GrantsFit
  <1>13. Remembers(s)'
    <2>1. i => Whole(project)
      BY DEF RightsInv, FileFits, i
    <2>2. ASSUME NEW c \in Calls, Hand(s, c)' # "none" PROVE Check(rules, c) = Hand(s, c)'
      <3> DEFINE h == IF i THEN LoadFile(project0) ELSE <<>>
      <3>1. h \in Seq(Rule) /\ Hand(s, c)' = Check(l \o h, c)
        BY <1>1, <1>2, <1>7, LoadFileType DEF Hand, l, RightsTypes
      <3>2. Check(h, c) # "none" => Check(p, c) = Check(h, c)
        BY <2>1, CheckOne DEF Whole, p
      <3> HIDE DEF h
      <3>3. Check(l \o h, c) = IF Check(l, c) # "none" THEN Check(l, c) ELSE Check(h, c)
        BY <1>4, <3>1, CheckConcat
      <3> DEFINE lp == l \o p
      <3>4. Check(lp, c) = IF Check(l, c) # "none" THEN Check(l, c) ELSE Check(p, c)
        BY <1>4, CheckConcat
      <3>6. rules = lp \o u /\ lp \in Seq(Rule)
        BY <1>4, <1>6
      <3> HIDE DEF lp
      <3>5. Check(lp \o u, c) = IF Check(lp, c) # "none" THEN Check(lp, c) ELSE Check(u, c)
        BY <1>4, <3>6, CheckConcat
      <3> QED
        BY <2>2, <3>1, <3>2, <3>3, <3>4, <3>5, <3>6
    <2>3. ASSUME NEW rule \in known'[s] PROVE Among(rule, rules)
      BY <1>6, <1>7, <2>1, <2>3 DEF Whole, p
    <2> QED
      BY <1>2, <1>7, <2>2, <2>3 DEF Remembers
  <1>14. \A t \in Sessions \ {s} : SessionFits(t)' /\ GrantsFit(t)' /\ Remembers(t)'
    BY <1>2, <1>7, SessionStays
  <1> QED
    BY <1>8, <1>9, <1>10, <1>11, <1>12, <1>13, <1>14 DEF RightsInv

\* A process ends, whatever it was at.
LEMMA ExitRights == ASSUME RightsInv, NEW s \in Sessions, Exit(s) PROVE RightsInv'
  <1>1. /\ RightsTypes /\ mode \in [Sessions -> {"off", "terminal", "piped", "server"}]
        /\ permRules \in [Sessions -> Seq(Rule)] /\ sessionRules \in [Sessions -> Seq(Rule)]
        /\ known \in [Sessions -> SUBSET Rule] /\ intact \in [Sessions -> BOOLEAN]
        /\ command \in [Sessions -> CommandTools \cup {Nil}]
        /\ dialog \in [Sessions -> Dialog] /\ answered \in [Sessions -> SUBSET Rule]
    BY DEF RightsInv, RightsTypes
  <1>2. /\ mode' = [mode EXCEPT ![s] = "off"] /\ permRules' = [permRules EXCEPT ![s] = <<>>]
        /\ sessionRules' = [sessionRules EXCEPT ![s] = <<>>]
        /\ command' = [command EXCEPT ![s] = Nil] /\ dialog' = [dialog EXCEPT ![s] = Quiet]
        /\ answered' = [answered EXCEPT ![s] = {}] /\ known' = [known EXCEPT ![s] = {}]
        /\ intact' = [intact EXCEPT ![s] = TRUE]
        /\ UNCHANGED <<user, project, local, project0, saved, starts, always>>
    BY DEF Exit
  <1>3. damaged' = (damaged \/ Writing(s))
    BY DEF Exit, Writing
  <1>4. /\ mode'[s] = "off" /\ permRules'[s] = <<>> /\ command'[s] = Nil
        /\ dialog'[s] = Quiet /\ answered'[s] = {}
        /\ \A t \in Sessions \ {s} :
             /\ mode'[t] = mode[t] /\ permRules'[t] = permRules[t]
             /\ sessionRules'[t] = sessionRules[t] /\ intact'[t] = intact[t]
             /\ known'[t] = known[t] /\ command'[t] = command[t]
             /\ dialog'[t] = dialog[t] /\ answered'[t] = answered[t]
    BY <1>1, <1>2
  <1>5. RightsTypes'
    <2>1. permRules' \in [Sessions -> Seq(Rule)] /\ sessionRules' \in [Sessions -> Seq(Rule)]
      BY <1>1, <1>2
    <2>2. known' \in [Sessions -> SUBSET Rule] /\ answered' \in [Sessions -> SUBSET Rule]
      BY <1>1, <1>2
    <2>3. intact' \in [Sessions -> BOOLEAN] /\ damaged' \in BOOLEAN
      BY <1>1, <1>2, <1>3
    <2>4. /\ mode' \in [Sessions -> {"off", "terminal", "piped", "server"}]
          /\ command' \in [Sessions -> CommandTools \cup {Nil}]
      BY <1>1, <1>2
    <2>5. dialog' \in [Sessions -> Dialog]
      BY <1>1, <1>2, DialogFacts
    <2> QED
      BY <1>1, <1>2, <2>1, <2>2, <2>3, <2>4, <2>5 DEF RightsTypes
  <1>6. Comes(LoadFile(project), ByHand \cup saved)'
    BY <1>2 DEF RightsInv, ByHand
  <1>7. FileFits'
    <2> SUFFICES ASSUME ~damaged' PROVE FileFits'
      BY DEF FileFits
    <2>1. ~Writing(s) /\ ~Writing(s)'
      BY <1>3, <1>4, DialogFacts DEF Writing
    <2>2. \A t \in Sessions \ {s} : Writing(t)' <=> Writing(t)
      BY <1>4 DEF Writing
    <2> QED
      BY <1>2, <1>3, <1>4, <2>1, <2>2, FileStays
  <1>8. SessionFits(s)' /\ GrantsFit(s)' /\ Remembers(s)'
    <2>1. LoadFile(<<>>) = <<>> /\ \A granted : Comes(<<>>, granted)
      BY DEF LoadFile, Comes
    <2>2. dialog'[s].base = <<>> /\ dialog'[s].at = "none"
      BY <1>4, DialogFacts
    <2>3. Comes(LoadFile(dialog'[s].base), (ByHand \cup saved)')
      BY <2>1, <2>2
    <2> QED
      BY <1>4, <2>1, <2>2, <2>3 DEF SessionFits, GrantsFit, Remembers, Saving
  <1>9. \A t \in Sessions \ {s} : SessionFits(t)' /\ GrantsFit(t)' /\ Remembers(t)'
    BY <1>2, <1>4, SessionStays
  <1> QED
    BY <1>5, <1>6, <1>7, <1>8, <1>9 DEF RightsInv

\* Each step, and none, preserves the invariant.
LEMMA StepRights == RightsInv /\ [Next]_vars => RightsInv'
  <1> SUFFICES ASSUME RightsInv, [Next]_vars PROVE RightsInv'
    OBVIOUS
  <1>1. ASSUME \/ UNCHANGED vars \/ \E r \in Runs : Work(r)
               \/ \E s \in Sessions, r \in Runs, d \in Definitions : Launch(s, r, d)
        PROVE  RightsInv'
    <2>1. UNCHANGED <<user, project, local, project0, mode, permRules, sessionRules, command,
                      dialog, answered, known, saved, damaged, intact, starts, always>>
      BY <1>1 DEF vars, Work, Launch, settings, history
    <2> QED
      BY <2>1, RightsStay
  <1>2. ASSUME NEW s \in Sessions, NEW m \in {"terminal", "piped", "server"},
               NEW tools \in CliTools, Start(s, m, tools)
        PROVE  RightsInv'
    BY <1>2, StartRights
  <1>3. ASSUME NEW s \in Sessions,
               \/ Exit(s) \/ AnswerOnce(s) \/ Always(s) \/ Truncate(s) \/ Fill(s)
               \/ SaveFails(s) \/ EndCommand(s)
               \/ \E c \in Calls : Ask(s, c)
               \/ \E tools \in CommandTools : BeginCommand(s, tools)
        PROVE  RightsInv'
    BY <1>3, ExitRights, DialogRights, AlwaysRights, TruncateRights, FillRights,
       SaveFailsRights, CommandRights
  <1> QED
    BY <1>1, <1>2, <1>3 DEF Next

\* The variables of Permissions keep their types.
THEOREM PermissionsTypes == Spec => []TypeOK
  <1>1. ToolsInv /\ RightsInv => TypeOK
    BY DEF ToolsInv, ToolTypes, RightsInv, RightsTypes, Dialog, TypeOK
  <1> QED
    BY <1>1, InitTools, StepTools, InitRights, StepRights, PTL DEF Spec

\* What the rules of a session itself say of a call.
LEMMA SessionRulesFit ==
  ASSUME RightsInv, NEW s \in Sessions, NEW c \in Calls, mode[s] \in {"terminal", "piped"}
  PROVE  Check(sessionRules[s], c) =
           IF command[s] # Nil /\ ToolOf[c] \in command[s] THEN "allow" ELSE "none"
  <1>1. /\ sessionRules[s] = IF command[s] = Nil THEN <<>> ELSE AllowAll(command[s])
        /\ command[s] \in CommandTools \cup {Nil}
    BY DEF RightsInv, RightsTypes, SessionFits
  <1>2. CASE command[s] = Nil
    BY <1>1, <1>2, CheckOne
  <1>3. CASE command[s] # Nil
    <2>1. command[s] \in SUBSET Tools
      BY <1>1, <1>3, PermissionsAssumption
    <2> QED
      BY <1>1, <1>3, <2>1, AllowAllFacts
  <1> QED
    BY <1>2, <1>3

(***************************************************************************)
(* Of the calls that a terminal session takes through the approval         *)
(* workflow, none goes unasked that nobody has allowed: the rules of       *)
(* commands and of Always do not get into each other's way.  Batches,      *)
(* background agents and failed dialogs are outside of it                  *)
(* (handleApprovalWorkflow, InvokeCommand).                                *)
(***************************************************************************)
THEOREM NothingUnasked == Spec => []UnaskedIsGranted
  <1>1. ASSUME RightsInv PROVE UnaskedIsGranted
    <2> SUFFICES ASSUME NEW s \in Sessions, NEW c \in Calls, mode[s] = "terminal",
                        Verdict(s, c) = "allow", ~(command[s] # Nil /\ ToolOf[c] \in command[s])
                 PROVE  \E rule \in ByHand \cup answered[s] \cup saved : Covers(rule, c)
      BY DEF UnaskedIsGranted
    <2>1. Check(sessionRules[s], c) = "none"
      BY <1>1, SessionRulesFit
    <2>2. Check(permRules[s], c) = "allow"
      BY <2>1 DEF Verdict
    <2>3. permRules[s] \in Seq(Rule) /\ Comes(permRules[s], ByHand \cup answered[s] \cup saved)
      BY <1>1 DEF RightsInv, RightsTypes, GrantsFit
    <2>4. PICK i \in DOMAIN permRules[s] : /\ Covers(permRules[s][i], c)
                                          /\ Check(permRules[s], c) = Decides(permRules[s][i])
      BY <2>2, <2>3, CheckDecides
    <2>5. permRules[s][i] \in ByHand \cup answered[s] \cup saved
      BY <2>2, <2>3, <2>4 DEF Comes, Decides
    <2> QED
      BY <2>4, <2>5
  <1> QED
    BY <1>1, InitRights, StepRights, PTL DEF Spec

(***************************************************************************)
(* Rules found in the files stand, and Always is remembered, here and in   *)
(* sessions that start later, until a save goes wrong (LoadForProject,     *)
(* AppendToProjectFile).                                                   *)
(***************************************************************************)
THEOREM DecisionsAreKept == Spec => []DecisionsStand
  <1>1. ASSUME RightsInv, NEW s \in Sessions, NEW c \in Calls PROVE HandWrittenStands(s, c)
    <2> SUFFICES ASSUME mode[s] \in {"terminal", "piped"}, Hand(s, c) # "none",
                        ~(command[s] # Nil /\ ToolOf[c] \in command[s]),
                        ~\E rule \in answered[s] : Covers(rule, c)
                 PROVE  Verdict(s, c) = Hand(s, c)
      BY DEF HandWrittenStands, Hand
    <2>1. Check(sessionRules[s], c) = "none"
      BY <1>1, SessionRulesFit
    <2>2. Check(permRules[s], c) = Hand(s, c)
      BY <1>1 DEF RightsInv, Remembers
    <2> QED
      BY <2>1, <2>2 DEF Verdict
  <1>2. ASSUME RightsInv, NEW s \in Sessions, NEW c \in Calls PROVE AlwaysIsRemembered(s, c)
    <2> SUFFICES ASSUME mode[s] # "off", dialog[s].at \in {"none", "asked"},
                        NEW rule \in known[s] \cup answered[s], Covers(rule, c)
                 PROVE  Verdict(s, c) # "ask"
      BY DEF AlwaysIsRemembered
    <2>1. permRules[s] \in Seq(Rule) /\ sessionRules[s] \in Seq(Rule)
      BY <1>2 DEF RightsInv, RightsTypes
    <2>2. Among(rule, permRules[s])
      BY <1>2 DEF RightsInv, Remembers, Saving
    <2>3. Check(permRules[s], c) # "none"
      BY <2>1, <2>2, CheckDecides DEF Among
    <2>4. ASSUME NEW rules \in Seq(Rule) PROVE Check(rules, c) # "ask"
      <3>1. CASE Check(rules, c) = "none"
        BY <3>1
      <3>2. CASE Check(rules, c) # "none"
        BY <3>2, CheckDecides DEF Decides
      <3> QED
        BY <3>1, <3>2
    <2> QED
      BY <2>1, <2>3, <2>4 DEF Verdict
  <1>3. RightsInv => DecisionsStand
    BY <1>1, <1>2 DEF DecisionsStand
  <1> QED
    BY <1>3, InitRights, StepRights, PTL DEF Spec
=============================================================================
