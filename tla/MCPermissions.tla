--------------------------- MODULE MCPermissions ---------------------------
(* A small instance of Permissions for TLC: two sessions of one project.   *)
(* A call of Write in each of two directories, one inside the other's      *)
(* pattern, and a call of Bash that its own pattern does not match.        *)
EXTENDS Permissions

CONSTANTS s1, s2, r1, Write, Bash, Read, src, secret, status,
          inSrc, inSecret, inStatus, any

TwoSessions == {s1, s2}
OneRun == {r1}
AllTools == {Write, Bash, Read, Task}
AllCalls == {src, secret, status}
ToolOfCall == [c \in AllCalls |-> IF c = status THEN Bash ELSE Write]
AllPatterns == {inSrc, inSecret, inStatus, any}
MatchedCalls ==
  [p \in AllPatterns |-> CASE p = inSrc    -> {src, secret}
                           [] p = inSecret -> {secret}
                           [] p = inStatus -> {}
                           [] p = any      -> AllCalls]
Inferred == [c \in AllCalls |-> IF c = status THEN inStatus ELSE inSrc]

Deny(tool, pattern) == [tool |-> tool, pattern |-> pattern, allow |-> FALSE]

SomeUserFiles == {<<Deny(Write, inSecret)>>}
SomeProjectFiles == {<<Deny(Write, inSecret)>>}
SomeLocalFiles == {Malformed, <<Allow(Write, inSecret)>>}
SomeCliTools == {{}, {Read, Task}}
SomeCommands == {{Bash, Task}}
SomeRoles == {{}, {Read, Task}, {Write, Bash}}
SomeDefinitions == {{Read, Bash}}

Symmetry == Permutations(TwoSessions)
=============================================================================
