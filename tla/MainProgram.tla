---------------------------- MODULE MainProgram ----------------------------
(***************************************************************************)
(* One smps process after another (cmd/smps/main.go) on the same database:  *)
(* each migrates it (internal/database) and then serves.  A process may     *)
(* end anywhere, by a crash, a failed statement or a signal nobody catches  *)
(* yet, and then a new one is started on the database it left.  Each SQL    *)
(* statement is committed by itself.  What happens while a process serves,  *)
(* and how it shuts down, is the module Service.                            *)
(***************************************************************************)
EXTENDS Integers, Sequences

CONSTANTS
    ConfigKeys,   \* the keys of system_config that have a default
    MainMaxFaults \* bound: processes that end before their time

ASSUME MainAssumption == MainMaxFaults \in Nat /\ ConfigKeys # {}

\* The tables in the order in which CreateTables makes them.
TableOrder == <<"external_smmc", "users", "ip_whitelist", "traced_numbers",
                "protocol_logs", "system_config", "account_ips">>
AllTables == {TableOrder[i] : i \in 1..Len(TableOrder)}

VARIABLES
    tables, admin, defaults, \* the schema: tables, the admin user, default keys
    column,    \* protocol_logs has the column is_processed
    recorded,  \* ids in the table migrations
    phase,     \* where main is; "down": there is no process
    nextTable, \* CreateTables: index of the next table
    left,      \* createSystemConfigTable: keys its loop has still to visit
    connected, \* Manager.connected
    stuckOn,   \* history: the error on which a process gave up by itself
    faults

schemaVars == <<tables, admin, defaults, column, recorded>>
mainVars == <<schemaVars, phase, nextTable, left, connected, stuckOn, faults>>

MainInit ==
    /\ tables = {} /\ admin = FALSE /\ defaults = {} /\ column = FALSE /\ recorded = {}
    /\ phase = "down"
    /\ nextTable = 1 /\ left = {}
    /\ connected = FALSE
    /\ stuckOn = "none"
    /\ faults = 0

Advance(from, to) == phase = from /\ phase' = to

\* The process is gone, and with it all but the database.
ProcessGone ==
    /\ phase' = "down"
    /\ nextTable' = 1 /\ left' = {}
    /\ connected' = FALSE

-----------------------------------------------------------------------------
\* Start-up: configuration, logger, database.

Begin ==
    /\ Advance("down", "connect")
    /\ stuckOn = "none"
    /\ UNCHANGED <<schemaVars, nextTable, left, connected, stuckOn, faults>>

\* Connect opens and pings the database, once.
Connect ==
    /\ Advance("connect", "records")
    /\ connected' = TRUE
    /\ UNCHANGED <<schemaVars, nextTable, left, stuckOn, faults>>

\* createMigrationsTable: IF NOT EXISTS.
CreateMigrationsTable ==
    /\ Advance("records", "check1")
    /\ tables' = tables \cup {"migrations"}
    /\ UNCHANGED <<admin, defaults, column, recorded, nextTable, left, connected, stuckOn, faults>>

\* The bug of a record that precedes the migration's own work.
RecordBeforeCheck ==
    /\ \/ Advance("check1", IF 1 \in recorded THEN "check2" ELSE "tables")
          /\ recorded' = recorded \cup {1}
       \/ Advance("check2", IF 2 \in recorded THEN "accounts" ELSE "alter")
          /\ recorded' = recorded \cup {2}
    /\ UNCHANGED <<tables, admin, defaults, column, nextTable, left, connected, stuckOn, faults>>

\* isMigrationApplied for either migration.
CheckApplied ==
    /\ \/ Advance("check1", IF 1 \in recorded THEN "check2" ELSE "tables")
       \/ Advance("check2", IF 2 \in recorded THEN "accounts" ELSE "alter")
    /\ UNCHANGED <<schemaVars, nextTable, left, connected, stuckOn, faults>>

\* The bug of CREATE TABLE without IF NOT EXISTS.
CreateTableOnce ==
    LET table == TableOrder[nextTable] IN
    /\ nextTable <= Len(TableOrder)
    /\ IF table \in tables
       THEN phase = "tables" /\ stuckOn' = table /\ UNCHANGED tables /\ ProcessGone
       ELSE /\ Advance("tables", IF table = "users" THEN "admin"
                                 ELSE IF table = "system_config" THEN "defaults" ELSE "tables")
            /\ tables' = tables \cup {table}
            /\ nextTable' = nextTable + 1
            /\ left' = IF table = "system_config" THEN ConfigKeys ELSE left
            /\ UNCHANGED <<connected, stuckOn>>
    /\ UNCHANGED <<admin, defaults, column, recorded, faults>>

\* One CREATE TABLE IF NOT EXISTS of CreateTables; two tables get first rows.
CreateTable ==
    LET table == TableOrder[nextTable] IN
    /\ nextTable <= Len(TableOrder)
    /\ Advance("tables", IF table = "users" THEN "admin"
                         ELSE IF table = "system_config" THEN "defaults" ELSE "tables")
    /\ tables' = tables \cup {table}
    /\ nextTable' = nextTable + 1
    /\ left' = IF table = "system_config" THEN ConfigKeys ELSE left
    /\ UNCHANGED <<admin, defaults, column, recorded, connected, stuckOn, faults>>

\* The administrator, if the count finds none.
SeedAdmin ==
    /\ Advance("admin", "tables")
    /\ admin' = TRUE
    /\ UNCHANGED <<tables, defaults, column, recorded, nextTable, left, connected, stuckOn, faults>>

\* A default key, if the count finds none; the map has no order.
SeedDefault(key) ==
    /\ key \in left
    /\ left' = left \ {key}
    /\ Advance("defaults", IF left' = {} THEN "tables" ELSE "defaults")
    /\ defaults' = defaults \cup {key}
    /\ UNCHANGED <<tables, admin, column, recorded, nextTable, connected, stuckOn, faults>>

\* CreateTables returns.
TablesMade ==
    /\ nextTable > Len(TableOrder)
    /\ Advance("tables", "record1")
    /\ nextTable' = 1
    /\ UNCHANGED <<schemaVars, left, connected, stuckOn, faults>>

\* Migration 2: a second ALTER TABLE is an error, which is fatal.
AddColumn ==
    /\ phase = "alter"
    /\ IF column
       THEN ProcessGone /\ stuckOn' = "column" /\ UNCHANGED column
       ELSE /\ Advance("alter", "record2")
            /\ column' = TRUE
            /\ UNCHANGED <<nextTable, left, connected, stuckOn>>
    /\ UNCHANGED <<tables, admin, defaults, recorded, faults>>

\* recordMigration for either migration.
RecordMigration ==
    /\ \/ Advance("record1", "check2") /\ recorded' = recorded \cup {1}
       \/ Advance("record2", "accounts") /\ recorded' = recorded \cup {2}
    /\ UNCHANGED <<tables, admin, defaults, column, nextTable, left, connected, stuckOn, faults>>

-----------------------------------------------------------------------------
\* LoadAccountsFromDB and the two loads of the tracer: their errors are only
\* logged.  Then the parts are made, wired and started.
Load ==
    /\ Advance("accounts", "service")
    /\ UNCHANGED <<schemaVars, nextTable, left, connected, stuckOn, faults>>

\* The deferred Close of the database, and the end of main.
Close ==
    /\ phase = "service"
    /\ ProcessGone
    /\ UNCHANGED <<schemaVars, stuckOn, faults>>

\* A crash, a signal before main waits for it, a statement that fails (Fatal),
\* a configuration that cannot be read, a server that cannot listen.
ProcessEnds ==
    /\ phase # "down"
    /\ faults < MainMaxFaults
    /\ faults' = faults + 1
    /\ ProcessGone
    /\ UNCHANGED <<schemaVars, stuckOn>>

MainStep ==
    \/ Connect \/ CreateMigrationsTable \/ CheckApplied \/ CreateTable \/ SeedAdmin
    \/ \E key \in ConfigKeys : SeedDefault(key)
    \/ TablesMade \/ AddColumn \/ RecordMigration
    \/ Load

MainNext == Begin \/ MainStep \/ Close \/ ProcessEnds

MainSpec == MainInit /\ [][MainNext]_mainVars

-----------------------------------------------------------------------------
\* Type invariant of the main program.
MainTypeOK ==
    /\ tables \subseteq AllTables \cup {"migrations"}
    /\ defaults \subseteq ConfigKeys /\ left \subseteq ConfigKeys
    /\ recorded \subseteq {1, 2}
    /\ nextTable \in 1..Len(TableOrder) + 1
    /\ faults \in 0..MainMaxFaults

\* Whatever process ended between whichever two statements, a migration that
\* is recorded has been made in full, first rows included: a later process
\* that skips it finds its tables, and one that serves has both migrations.
\* (migration.go:56-74 records a migration after its statements, which are
\* many and are committed one by one.)
RecordedIsMade ==
    /\ 1 \in recorded => AllTables \subseteq tables /\ admin /\ defaults = ConfigKeys
    /\ 2 \in recorded => column
    /\ phase = "service" => recorded = {1, 2}

\* A process gives up by itself in one case alone: an earlier one ended after
\* it had added the column and before it had recorded that.  From every other
\* half-made schema the next process goes on and finishes.
\* (schema.go repeats its statements harmlessly; migration.go:38 does not.)
OnlyColumnSticks ==
    stuckOn # "none" => stuckOn = "column" /\ column /\ 1 \in recorded /\ 2 \notin recorded
=============================================================================
