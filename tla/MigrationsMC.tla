---------------------------- MODULE MigrationsMC ----------------------------
(* The three databases, with the schema that TableCheckSql names and with   *)
(* another, which Postgres always has.                                     *)
EXTENDS Migrations

MCServers == { [driver |-> "sqlite3", found |-> TRUE], [driver |-> "postgres", found |-> FALSE],
               [driver |-> "mysql", found |-> TRUE], [driver |-> "mysql", found |-> FALSE] }
=============================================================================
