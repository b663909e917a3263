------------------------------ MODULE Migrations ----------------------------
(***************************************************************************)
(* database.Migrate: a server that starts looks each file up in            *)
(* schema_migrations, applies it and records it, in three statements, and  *)
(* serves when it has gone through them all. A file is executed as one     *)
(* implicit transaction: it changes the schema as a whole or fails.        *)
(*                                                                         *)
(* Of the schema, what the files and the program depend on.                *)
(***************************************************************************)
EXTENDS Naturals, FiniteSets

CONSTANTS
    Servers,
    MaxCrashes      \* bound: servers killed while they start

ASSUME MigrationsAssumption == MaxCrashes \in Nat

Files == 1 .. 5

VARIABLES
    schema,     \* what exists: tables, columns and checks
    recorded,   \* rows of schema_migrations
    server,     \* [at, file] of each server
    crashes     \* auxiliary: servers killed so far

mvars == <<schema, recorded, server, crashes>>

\* What the queries of the program need of the schema.
Needed == {"tables", "any outcome", "fill_key"}

\* Whether a file can be executed: CREATE TABLE and DROP COLUMN without
\* IF (NOT) EXISTS fail when they find the table or miss the column.
Executable(f) ==
    CASE f = 1 -> "tables" \notin schema
      [] f = 2 -> "api_key" \in schema
      [] f \in 3 .. 5 -> "tables" \in schema

\* The schema after a file. Files 3 to 5 may be executed again.
Applied(f) ==
    CASE f = 1 -> schema \cup {"tables", "api_key", "fill_key", "associate_trades"}
      [] f = 2 -> schema \ {"api_key"}
      [] f = 3 -> schema \cup {"any outcome"}
      [] f = 4 -> schema \ {"fill_key", "associate_trades"}
      [] f = 5 -> schema \cup {"fill_key"}

Down == [at |-> "down", file |-> 1]
Goes(s, at, f) == server' = [server EXCEPT ![s] = [at |-> at, file |-> f]]
Continues(s, f) == IF f \in Files THEN Goes(s, "check", f) ELSE Goes(s, "serving", f)

MInit ==
    /\ schema = {} /\ recorded = {} /\ crashes = 0
    /\ server = [s \in Servers |-> Down]

Start(s) ==
    /\ server[s].at = "down" /\ Goes(s, "check", 1)
    /\ UNCHANGED <<schema, recorded, crashes>>

CheckFile(s) == LET f == server[s].file IN
    /\ server[s].at = "check"
    /\ IF f \in recorded THEN Continues(s, f + 1) ELSE Goes(s, "apply", f)
    /\ UNCHANGED <<schema, recorded, crashes>>

\* An error makes the process exit.
ApplyFile(s) == LET f == server[s].file IN
    /\ server[s].at = "apply"
    /\ IF Executable(f)
       THEN schema' = Applied(f) /\ Goes(s, "record", f)
       ELSE server' = [server EXCEPT ![s] = Down] /\ UNCHANGED schema
    /\ UNCHANGED <<recorded, crashes>>

\* INSERT INTO schema_migrations: version is the primary key.
RecordFile(s) == LET f == server[s].file IN
    /\ server[s].at = "record"
    /\ IF f \in recorded
       THEN server' = [server EXCEPT ![s] = Down] /\ UNCHANGED recorded
       ELSE recorded' = recorded \cup {f} /\ Continues(s, f + 1)
    /\ UNCHANGED <<schema, crashes>>

Crash(s) ==
    /\ server[s].at # "down" /\ crashes < MaxCrashes /\ crashes' = crashes + 1
    /\ server' = [server EXCEPT ![s] = Down] /\ UNCHANGED <<schema, recorded>>

\* Mutant: the file is recorded before it is applied.
RecordsThenApplies(s) == LET f == server[s].file IN
    \/ /\ server[s].at = "apply" /\ Goes(s, "record", f)
       /\ recorded' = recorded \cup {f} /\ UNCHANGED <<schema, crashes>>
    \/ /\ server[s].at = "record" /\ schema' = Applied(f) /\ Continues(s, f + 1)
       /\ UNCHANGED <<recorded, crashes>>

MigrateFile(s) == ApplyFile(s) \/ RecordFile(s)

Migrate(s) == Start(s) \/ CheckFile(s) \/ MigrateFile(s)
MNext == \E s \in Servers : Migrate(s) \/ Crash(s)

\* A server that can take a step takes it, and one that is down is started
\* again, as the restart policy of a deployment does.
MSpec == MInit /\ [][MNext]_mvars /\ \A s \in Servers : WF_mvars(Migrate(s))

-----------------------------------------------------------------------------
\* A server serves only on a schema its queries can run on, wherever earlier
\* starts were killed between a file and its record (one server at a time).
ServesWholeSchema == \A s \in Servers :
    server[s].at = "serving" => Needed \subseteq schema /\ recorded = Files

\* "DB migrations run automatically on start" (docs/commands.md:11): a server
\* that is started, and started again after it was killed, serves in the end.
StartsInTheEnd == \A s \in Servers : <>(server[s].at = "serving")

=============================================================================
