----------------------------- MODULE MemoryStore -----------------------------
(***************************************************************************)
(* The long-term memory (internal/tool/memorydb): one SQLite file that     *)
(* several processes open, each through a single connection, and whose     *)
(* rows are versions of memories that supersede each other.                *)
(*                                                                         *)
(* A transaction is deferred: it reads from the snapshot of its first      *)
(* statement, and its first write fails (SQLITE_BUSY_SNAPSHOT) if another  *)
(* process has committed since.  A single statement is a transaction of    *)
(* its own, and so is Remember, whose first statement writes.              *)
(***************************************************************************)
EXTENDS Integers, Sequences

CONSTANTS Procs,        \* processes: klein serve, a REPL
          Credits,      \* pieces of feedback; bound: each is given once
          MaxMemories,  \* bound: rows
          MaxForgets    \* bound: successful calls of Forget

ASSUME BoundsAssumption == MaxMemories \in Nat /\ MaxForgets \in Nat

VARIABLES
  schema,   \* PRAGMA user_version
  rows,     \* the table memories; a row's id is its position
  opened,   \* per process: how far Open has come
  tx,       \* per process: the transaction on its connection
  origin,   \* history: the first version of each row's memory
  given,    \* history: feedback recorded for a version that was current
  dropped,  \* history: memories forgotten in their current version
  forgets   \* history: successful calls of Forget

memoryVars == <<schema, rows, opened, tx, origin, given, dropped, forgets>>

SchemaVersion == 1
Ids == DOMAIN rows

\* A row of the table, with what its tallies tell of; 0 is NULL.
Row(n, supersedes, feedback) ==
  [version |-> n, supersedes |-> supersedes, supersededBy |-> 0,
   forgotten |-> FALSE, feedback |-> feedback]

Latest(row) == row.supersededBy = 0

\* A mutant: a superseded version may be revised.
NotForgotten(row) == ~row.forgotten

Active(row) == Latest(row) /\ ~row.forgotten

NoTx == [op |-> "none", id |-> 0, row |-> Row(1, 0, {}), stale |-> FALSE]

MemoryInit == /\ schema = 0 /\ rows = <<>>
              /\ opened = [p \in Procs |-> "closed"] /\ tx = [p \in Procs |-> NoTx]
              /\ origin = <<>> /\ given = {} /\ dropped = {} /\ forgets = 0
-----------------------------------------------------------------------------
\* Begin a transaction and make its first read, or end it.
Begin(p, op, id) ==
  /\ opened[p] = "open" /\ tx[p] = NoTx
  /\ tx' = [tx EXCEPT ![p] = [op |-> op, id |-> id, row |-> rows[id], stale |-> FALSE]]

\* What the transactions of the other processes become when p commits.
Overtaken(p) ==
  [q \in Procs |-> IF q = p \/ tx[q] = NoTx THEN tx[q] ELSE [tx[q] EXCEPT !.stale = TRUE]]

\* A mutant: a transaction writes whatever was committed since it read.
CommitAnyway(p) == tx' = [Overtaken(p) EXCEPT ![p] = NoTx]

\* The write and the commit of the transaction that p has begun.
Commit(p) == /\ ~tx[p].stale
             /\ tx' = [Overtaken(p) EXCEPT ![p] = NoTx]

\* A statement of p outside a transaction.
Autocommit(p) == /\ opened[p] = "open" /\ tx[p] = NoTx
                 /\ tx' = Overtaken(p)

\* migrate reads the version before it begins its transaction, so that of two
\* processes that find no schema the second fails to create it.
ReadVersion(p) ==
  /\ opened[p] = "closed"
  /\ opened' = [opened EXCEPT ![p] = IF schema >= SchemaVersion THEN "open" ELSE "migrating"]
  /\ UNCHANGED <<schema, rows, tx, origin, given, dropped, forgets>>

Migrate(p) ==
  /\ opened[p] = "migrating"
  /\ IF schema = 0
     THEN /\ schema' = SchemaVersion
          /\ opened' = [opened EXCEPT ![p] = "open"]
     ELSE /\ opened' = [opened EXCEPT ![p] = "disabled"]
          /\ UNCHANGED schema
  /\ UNCHANGED <<rows, tx, origin, given, dropped, forgets>>

Insert(row, of) ==
  /\ Len(rows) < MaxMemories
  /\ origin' = Append(origin, IF of = 0 THEN Len(rows) + 1 ELSE origin[of])

Remember(p) ==
  /\ Autocommit(p)
  /\ LET row == Row(1, 0, {})
     IN Insert(row, 0) /\ rows' = Append(rows, row)
  /\ UNCHANGED <<schema, opened, given, dropped, forgets>>

\* Revise reads the row and goes on only if it is active.
ReviseLoad(p) ==
  /\ \E id \in Ids :
       /\ Active(rows[id])
       /\ Begin(p, "revise", id)
  /\ UNCHANGED <<schema, rows, opened, origin, given, dropped, forgets>>

\* A mutant: a new version starts with nothing learned.
AfreshFrom(old, id) == Row(old.version + 1, id, {})

\* The new version inherits what was learned of the old one.
VersionFrom(old, id) == Row(old.version + 1, id, old.feedback)

ReviseWrite(p) ==
  /\ tx[p].op = "revise" /\ Commit(p)
  /\ LET id  == tx[p].id
         row == VersionFrom(tx[p].row, id)
     IN /\ Insert(row, id)
        /\ rows' = Append([rows EXCEPT ![id].supersededBy = Len(rows) + 1], row)
  /\ UNCHANGED <<schema, opened, given, dropped, forgets>>

\* Reinforce reads the utility of any row and writes it back with the credit.
ReinforceLoad(p) ==
  /\ \E id \in Ids : Begin(p, "reinforce", id)
  /\ UNCHANGED <<schema, rows, opened, origin, given, dropped, forgets>>

ReinforceWrite(p) ==
  /\ tx[p].op = "reinforce" /\ Commit(p)
  /\ LET id == tx[p].id
     IN \E credit \in Credits \ {g[2] : g \in given} :
          /\ rows' = [rows EXCEPT ![id].feedback = tx[p].row.feedback \cup {credit}]
          /\ given' = IF Latest(rows[id]) THEN given \cup {<<origin[id], credit>>} ELSE given
  /\ UNCHANGED <<schema, opened, origin, dropped, forgets>>

\* Rollback: the snapshot is stale, the lock is not had in time, the call is
\* canceled.
Rollback(p) ==
  /\ tx[p] # NoTx
  /\ tx' = [tx EXCEPT ![p] = NoTx]
  /\ UNCHANGED <<schema, rows, opened, origin, given, dropped, forgets>>

\* The process ends, and another may start in its place.
Exit(p) ==
  /\ opened[p] # "closed"
  /\ opened' = [opened EXCEPT ![p] = "closed"]
  /\ tx' = [tx EXCEPT ![p] = NoTx]
  /\ UNCHANGED <<schema, rows, origin, given, dropped, forgets>>

\* Forget marks any version that is not marked yet, superseded or not.
Forget(p) ==
  /\ forgets < MaxForgets
  /\ Autocommit(p)
  /\ \E id \in Ids :
       /\ ~rows[id].forgotten
       /\ rows' = [rows EXCEPT ![id].forgotten = TRUE]
       /\ dropped' = IF Latest(rows[id]) THEN dropped \cup {origin[id]} ELSE dropped
  /\ forgets' = forgets + 1
  /\ UNCHANGED <<schema, opened, origin, given>>

\* Recall reads, and counts the access to each row it found in a statement of
\* its own; the counts decide nothing here, but the commit overtakes others.
RecordAccess(p) ==
  /\ rows # <<>> /\ Autocommit(p)
  /\ UNCHANGED <<schema, rows, opened, origin, given, dropped, forgets>>

MemoryNext == \E p \in Procs :
                \/ ReadVersion(p) \/ Migrate(p) \/ Remember(p)
                \/ ReviseLoad(p) \/ ReviseWrite(p)
                \/ ReinforceLoad(p) \/ ReinforceWrite(p)
                \/ Rollback(p) \/ Exit(p) \/ Forget(p) \/ RecordAccess(p)

MemorySpec == MemoryInit /\ [][MemoryNext]_memoryVars
-----------------------------------------------------------------------------
\* The types of the variables.
RowType == [version : Nat \ {0}, supersedes : Nat, supersededBy : Nat,
            forgotten : BOOLEAN, feedback : SUBSET Credits]
MemoryTypeOK ==
  /\ schema \in {0, SchemaVersion}
  /\ rows \in Seq(RowType)
  /\ opened \in [Procs -> {"closed", "migrating", "open", "disabled"}]
  /\ tx \in [Procs -> [op : {"none", "revise", "reinforce"}, id : Nat,
                      row : RowType, stale : BOOLEAN]]
  /\ origin \in Seq(Nat \ {0}) /\ Len(origin) = Len(rows)
  /\ given \subseteq (Nat \ {0}) \X Credits /\ dropped \subseteq Nat \ {0}
  /\ forgets \in 0 .. MaxForgets

(***************************************************************************)
(* The versions of a memory are a line: each version but the first         *)
(* supersedes one that knows it, with the next number, and of all that     *)
(* have one origin only one is not superseded, whichever processes revise  *)
(* it at once (Revise, store.go:237-287; History walks these links).       *)
(***************************************************************************)
ChainsAreLines ==
  /\ \A i, j \in Ids : rows[j].supersedes = i <=> rows[i].supersededBy = j
  /\ \A j \in Ids : LET i == rows[j].supersedes IN
       IF i = 0 THEN rows[j].version = 1
       ELSE i \in Ids /\ rows[j].version = rows[i].version + 1 /\ origin[j] = origin[i]
  /\ \A i, j \in Ids :
       origin[i] = origin[j] /\ Latest(rows[i]) /\ Latest(rows[j]) => i = j

(***************************************************************************)
(* Feedback that a memory got in its current version is never lost: not to *)
(* feedback from another process at the same time, and not to a revision,  *)
(* which "carries over its learned usefulness" (Reinforce,                 *)
(* recall.go:290-322).                                                     *)
(***************************************************************************)
FeedbackStays ==
  \A g \in given, j \in Ids :
    origin[j] = g[1] /\ Latest(rows[j]) => g[2] \in rows[j].feedback

(***************************************************************************)
(* A memory that was forgotten in its current version is never current     *)
(* again, neither by a revision that had read it before nor by a later     *)
(* one (Forget, store.go:313-322).                                         *)
(***************************************************************************)
ForgottenStays ==
  \A j \in Ids : origin[j] \in dropped => rows[j].forgotten \/ ~Latest(rows[j])
=============================================================================
