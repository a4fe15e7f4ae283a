---------------------------- MODULE MCWorkspace ----------------------------
(* A small instance of Workspace for TLC. *)
EXTENDS Workspace

CONSTANTS turn, sub, notes, env

TwoCallers == {turn, sub}
TwoFiles   == {notes, env}
EnvFile    == {env}
\* The same file twice, and a batch whose first edit is refused.
TwoBatches == {<<notes, notes>>, <<env, notes>>}
=============================================================================
