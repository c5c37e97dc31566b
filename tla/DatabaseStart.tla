---------------------------- MODULE DatabaseStart ----------------------------
(***************************************************************************)
(* initialize_database (src/app/db.py), run by every process that starts   *)
(* on a database file: each worker of the server (lifespan, src/app/       *)
(* main.py) and the seed script.                                           *)
(*                                                                         *)
(* Python's sqlite3 opens no transaction for DDL statements, so each of    *)
(* them is committed on its own and the statements of several processes    *)
(* interleave.  CREATE TABLE IF NOT EXISTS is harmless when it comes       *)
(* second; the ALTER TABLE is not, and whether it is needed was decided    *)
(* by an earlier statement.  A process may be killed between any two.      *)
(***************************************************************************)
EXTENDS Integers, Sequences, SequencesExt

CONSTANTS
    Processes,  \* workers and scripts that start
    MaxKills    \* bound: processes killed while they start

ASSUME KillsAssumption == MaxKills \in Nat

VARIABLES
    tables,      \* names of the tables in the file
    role_column, \* table users has the column role
    pc,          \* [Processes -> the statement to run next, or another place]
    kills,       \* kills so far
    migrated_by  \* history: the processes whose ALTER TABLE succeeded

dbVars == <<tables, role_column, pc, kills, migrated_by>>

\* Mutant: the migration comes before the table it is about.
StatementsMigrationFirst ==
    <<"schema_migrations", "PRAGMA table_info(users)",
      "ALTER TABLE users ADD COLUMN role", "users", "admin_user_associations",
      "api_tokens", "model_allowlist", "usage_events", "usage_totals",
      "user_limits", "ready">>

\* The statements in their order; a CREATE TABLE is written as its table.
Statements ==
    <<"schema_migrations", "users", "PRAGMA table_info(users)",
      "ALTER TABLE users ADD COLUMN role", "admin_user_associations",
      "api_tokens", "model_allowlist", "usage_events", "usage_totals",
      "user_limits", "ready">>

Places == ToSet(Statements) \cup {"down", "failed"}

Schema == {"schema_migrations", "users", "admin_user_associations", "api_tokens",
           "model_allowlist", "usage_events", "usage_totals", "user_limits"}

\* A file of the version before the roles, the limits and the associations.
OldSchema == Schema \ {"admin_user_associations", "user_limits"}

\* Process p goes n statements further.
Advance(p, n) ==
    LET k == CHOOSE j \in DOMAIN Statements : Statements[j] = pc[p]
    IN  pc' = [pc EXCEPT ![p] = Statements[k + n]]

-----------------------------------------------------------------------------
Start(p) ==
    /\ pc[p] \in {"down", "failed"}
    /\ pc' = [pc EXCEPT ![p] = Head(Statements)]
    /\ UNCHANGED <<tables, role_column, kills, migrated_by>>

\* CREATE TABLE IF NOT EXISTS: a new table users has all its columns.
CreateTable(p) ==
    \E t \in Schema :
        /\ pc[p] = t
        /\ tables' = tables \cup {t}
        /\ role_column' = (role_column \/ (t = "users" /\ t \notin tables))
        /\ Advance(p, 1)
        /\ UNCHANGED <<kills, migrated_by>>

\* Mutant: the column is always believed to be there.
ReadColumnsBlind(p) ==
    /\ pc[p] = "PRAGMA table_info(users)"
    /\ Advance(p, 2)
    /\ UNCHANGED <<tables, role_column, kills, migrated_by>>

\* Mutant: the column is always believed to be missing.
ReadColumnsAlways(p) ==
    /\ pc[p] = "PRAGMA table_info(users)"
    /\ Advance(p, 1)
    /\ UNCHANGED <<tables, role_column, kills, migrated_by>>

\* The migration is skipped if the column is there now.
ReadColumns(p) ==
    /\ pc[p] = "PRAGMA table_info(users)"
    /\ IF role_column THEN Advance(p, 2) ELSE Advance(p, 1)
    /\ UNCHANGED <<tables, role_column, kills, migrated_by>>

\* A column that is there by now makes the statement, and the start, fail.
AddColumn(p) ==
    /\ pc[p] = "ALTER TABLE users ADD COLUMN role"
    /\ role_column' = TRUE
    /\ IF role_column
       THEN pc' = [pc EXCEPT ![p] = "failed"] /\ UNCHANGED migrated_by
       ELSE Advance(p, 1) /\ migrated_by' = migrated_by \cup {p}
    /\ UNCHANGED <<tables, kills>>

\* The process is killed, or a statement fails for another reason.
Kill(p) ==
    /\ kills < MaxKills
    /\ kills' = kills + 1
    /\ pc[p] \notin {"down", "failed"}
    /\ pc' = [pc EXCEPT ![p] = "down"]
    /\ UNCHANGED <<tables, role_column, migrated_by>>

\* There is no file yet, one of the old version, or one of this version.
Init ==
    /\ \/ tables = {} /\ role_column = FALSE
       \/ tables = OldSchema /\ role_column = FALSE
       \/ tables = Schema /\ role_column = TRUE
    /\ pc = [p \in Processes |-> "down"]
    /\ kills = 0
    /\ migrated_by = {}

Step(p) == CreateTable(p) \/ ReadColumns(p) \/ AddColumn(p)

Next ==
    \/ \E p \in Processes : Start(p)
    \/ \E p \in Processes : Step(p)
    \/ \E p \in Processes : Kill(p)

Spec == Init /\ [][Next]_dbVars

\* A process that has started goes on.
FairSpec == Spec /\ \A p \in Processes : WF_dbVars(Step(p))

-----------------------------------------------------------------------------
TypeOK ==
    /\ tables \subseteq Schema
    /\ role_column => "users" \in tables
    /\ pc \in [Processes -> Places]
    /\ kills \in 0 .. MaxKills
    /\ migrated_by \subseteq Processes

\* A process that is through with initialize_database finds the whole schema,
\* whatever file it started on, whoever else started at the same time and
\* wherever an earlier start was cut off.
ReadyMeansComplete ==
    (\E p \in Processes : pc[p] = "ready") => tables = Schema /\ role_column

\* A start fails over the migration only because another process migrated the
\* file between its look at the columns and its ALTER TABLE; the column is
\* there then, so its next start cannot fail that way.
FailureExplained ==
    \A p \in Processes :
        pc[p] = "failed" => role_column /\ migrated_by \ {p} # {}

\* Unless processes are killed, one of those that race over an old file gets
\* through: they do not all fail.
SomeoneGetsReady ==
    (\E p \in Processes : pc[p] # "down") ~>
        (kills > 0 \/ \E p \in Processes : pc[p] = "ready")
=============================================================================
