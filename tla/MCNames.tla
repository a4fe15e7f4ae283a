------------------------------ MODULE MCNames ------------------------------
(* A small instance of Names for TLC: three plugins, two of one name, and  *)
(* the files that can be in each other's way under the names x, X and y.   *)
EXTENDS Names

CONSTANTS x, X, y, p, q, r, tools, extras

AllNames == {x, X, y, tools, extras}
AllPlugins == {p, q, r}
InLowerCase == [n \in AllNames \cup {None} |-> IF n = X THEN x ELSE n]
NameOf == [i \in AllPlugins |-> IF i = r THEN tools ELSE IF i = q THEN extras
                                ELSE tools]
Listed == {p, q}
OwnNames == {y}
NoDrivers == {}

File(kind, name, place, modes, broken) ==
  [kind |-> kind, name |-> name, place |-> place, modes |-> modes,
   broken |-> broken]

AllFiles ==
  { File("skill", x, 1, {}, FALSE),
    File("skill", X, 4, {"startup"}, FALSE),
    File("role",  x, 0, {}, FALSE),
    File("agent", x, 3, {}, FALSE),
    File("agent", X, 5, {"startup", "subagent"}, FALSE),
    File("role",  y, 2, {}, TRUE),
    File("skill", y, q, {}, TRUE),
    File("agent", x, p, {}, FALSE),
    File("skill", x, q, {}, FALSE),
    File("agent", x, q, {"startup"}, FALSE),
    File("agent", x, r, {}, FALSE) }

AllCommands == {[plugin |-> i, name |-> x] : i \in AllPlugins}
=============================================================================
