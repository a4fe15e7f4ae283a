--------------------------- MODULE MCMemoryStore ----------------------------
(* A server and two REPLs on one file. *)
EXTENDS MemoryStore, TLC

CONSTANTS serve, repl1, repl2, f1, f2

MCProcs == {serve, repl1, repl2}
MCCredits == {f1, f2}
Alike == Permutations(MCProcs) \cup Permutations(MCCredits)
=============================================================================
