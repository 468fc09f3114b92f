------------------------------- MODULE Schema -------------------------------
(***************************************************************************)
(* The constructor of lib/vox_store/database: CreateSchema with its        *)
(* retries, and the migration of a file whose devices have device_id alone *)
(* as their primary key, by processes that are started on the same file,   *)
(* fail, are killed and are started again.                                 *)
(*                                                                         *)
(* SQLite is external: a statement outside a transaction commits by        *)
(* itself, one connection at a time has a transaction that writes, others  *)
(* see the committed tables and get SQLITE_BUSY if the busy handler gives  *)
(* up, and a transaction that is not committed leaves nothing.  What a     *)
(* process does to the tables once its constructor has returned is the     *)
(* matter of the other modules.                                            *)
(***************************************************************************)
EXTENDS Integers, Sequences

CONSTANTS
  Processes,
  DeviceRows,        \* devices of the file the processes are started on
  MaxAttempts,    \* kSchemaInitMaxAttempts, at least one
  MaxStops        \* bound on crashes and restarts

VARIABLES
  table,          \* [Tables -> "none", "old" or "new"], as committed
  rows,           \* [Tables -> SUBSET DeviceRows]: the devices their rows are of
  labelled,       \* devices has device_label and the columns added with it
  epoch,          \* encrypted_envelopes has ordering_epoch
  late,           \* users and conversations have the columns added last
  next_table,     \* tables as the transaction of the writer has them
  next_rows,      \* rows as the transaction of the writer has them
  writer,         \* SUBSET Processes: who is in the transaction, at most one
  pc,             \* [Processes -> where the constructor is]
  copied,         \* SUBSET Tables: what the transaction has copied
  attempt,        \* [Processes -> Nat]
  foreign_keys,   \* [Processes -> BOOLEAN]: the pragma of the connection
  stops,          \* crashes and restarts so far
  original,       \* history: the rows of the file at the start
  migrators       \* history: processes whose migration was committed

file_vars == <<table, rows, labelled, epoch, late>>
work_vars == <<next_table, next_rows, writer, copied>>
process_vars == <<pc, attempt, foreign_keys, stops>>
schema_vars == <<file_vars, work_vars, process_vars, original, migrators>>

\* The tables with keys of devices, in the order of CreateSchema and of the
\* migration.
Order ==
  <<"devices", "one_time_prekeys", "sessions", "encrypted_envelopes", "delivery_state">>
Tables == {Order[i] : i \in 1..5}

IsFirst(t, S) ==
  \E i \in 1..5 : t = Order[i] /\ t \in S /\ \A j \in 1..(i - 1) : Order[j] \notin S

\* No file yet, a file of this version, or one from before the composite key,
\* whose devices may also predate device_label.
SchemaInit ==
  /\ \/ /\ table = [t \in Tables |-> "none"]
        /\ rows = [t \in Tables |-> {}]
        /\ labelled = FALSE /\ epoch = FALSE /\ late = FALSE
     \/ /\ table = [t \in Tables |-> "new"]
        /\ rows = [t \in Tables |-> DeviceRows]
        /\ labelled = TRUE /\ epoch = TRUE /\ late = TRUE
     \/ /\ table = [t \in Tables |-> "old"]
        /\ rows = [t \in Tables |-> DeviceRows]
        /\ labelled \in BOOLEAN /\ epoch = FALSE /\ late = FALSE
  /\ next_table = table
  /\ next_rows = rows
  /\ writer = {}
  /\ pc = [p \in Processes |-> "off"]
  /\ copied = {}
  /\ attempt = [p \in Processes |-> 0]
  /\ foreign_keys = [p \in Processes |-> FALSE]
  /\ stops = 0
  /\ original = rows
  /\ migrators = {}

Points ==
  {"off", "create", "migrate", "lock", "copy", "columns", "serving", "failed"}

Advances(p, here, there) == pc[p] = here /\ pc' = [pc EXCEPT ![p] = there]

Open(p) ==
  /\ Advances(p, "off", "create")
  /\ attempt' = [attempt EXCEPT ![p] = 1]
  /\ foreign_keys' = [foreign_keys EXCEPT ![p] = TRUE]
  /\ UNCHANGED <<file_vars, work_vars, stops, original, migrators>>

\* One CREATE TABLE IF NOT EXISTS; devices comes with every column.
CreateTable(p, t) ==
  /\ pc[p] = "create"
  /\ writer = {}
  /\ IsFirst(t, {u \in Tables : table[u] = "none"})
  /\ table' = [table EXCEPT ![t] = "new"]
  /\ labelled' = (labelled \/ t = "devices")
  /\ epoch' = (epoch \/ t = "encrypted_envelopes")
  /\ UNCHANGED <<rows, late, work_vars, process_vars, original, migrators>>

\* All tables are there; no file has envelopes without the column and lacks a
\* table.  An ALTER TABLE ADD COLUMN that fails because the column is there
\* already counts as done.
AddEpoch(p) ==
  /\ Advances(p, "create", "migrate")
  /\ \A t \in Tables : table[t] # "none"
  /\ epoch \/ writer = {}
  /\ epoch' = TRUE
  /\ UNCHANGED <<table, rows, labelled, late, work_vars, attempt, foreign_keys, stops,
                 original, migrators>>

----------------------------------------------------------------------------
(* MigrateDevicesCompositePrimaryKey *)

MigrateNothing(p) ==
  /\ table["devices"] = "new"
  /\ Advances(p, "migrate", "columns")
  /\ UNCHANGED <<file_vars, work_vars, attempt, foreign_keys, stops, original, migrators>>

MigrateBegin(p) ==
  /\ table["devices"] = "old"
  /\ Advances(p, "migrate", "lock")
  /\ foreign_keys' = [foreign_keys EXCEPT ![p] = FALSE]
  /\ UNCHANGED <<file_vars, work_vars, attempt, stops, original, migrators>>

\* The transaction is deferred: its first ALTER TABLE takes the write lock, and
\* does not look again at the primary key.
MigrateLock(p) ==
  /\ Advances(p, "lock", "copy")
  /\ writer = {}
  /\ writer' = {p}
  /\ copied' = {}
  /\ next_table' = table
  /\ next_rows' = rows
  /\ UNCHANGED <<file_vars, attempt, foreign_keys, stops, original, migrators>>

\* Rename, create, copy and drop of one table, devices first.  A row of another
\* table finds its user by a join with the copied devices.
Copied(t) ==
  [next_rows EXCEPT ![t] = IF t = "sessions" THEN @ ELSE @ \cap next_rows["devices"]]

\* Mutant of MigrateTable: no transaction around the statements.
MigrateUnprotected(p, t) ==
  /\ pc[p] = "copy"
  /\ IsFirst(t, Tables \ copied)
  /\ t = "devices" => labelled
  /\ copied' = copied \cup {t}
  /\ next_table' = [next_table EXCEPT ![t] = "new"]
  /\ next_rows' = Copied(t)
  /\ table' = next_table'
  /\ rows' = next_rows'
  /\ UNCHANGED <<labelled, epoch, late, writer, process_vars, original, migrators>>

MigrateTable(p, t) ==
  /\ pc[p] = "copy"
  /\ IsFirst(t, Tables \ copied)
  /\ t = "devices" => labelled
  /\ copied' = copied \cup {t}
  /\ next_table' = [next_table EXCEPT ![t] = "new"]
  /\ next_rows' = Copied(t)
  /\ UNCHANGED <<file_vars, writer, process_vars, original, migrators>>

\* Mutant of MigrateCommit: the pragma is not restored.
MigrateCommitBare(p) ==
  /\ Advances(p, "copy", "columns")
  /\ copied = Tables
  /\ table' = next_table
  /\ rows' = next_rows
  /\ writer' = {}
  /\ migrators' = migrators \cup {p}
  /\ UNCHANGED <<labelled, epoch, late, next_table, next_rows, copied, attempt,
                 foreign_keys, stops, original>>

MigrateCommit(p) ==
  /\ Advances(p, "copy", "columns")
  /\ copied = Tables
  /\ table' = next_table
  /\ rows' = next_rows
  /\ writer' = {}
  /\ foreign_keys' = [foreign_keys EXCEPT ![p] = TRUE]
  /\ migrators' = migrators \cup {p}
  /\ UNCHANGED <<labelled, epoch, late, next_table, next_rows, copied, attempt,
                 stops, original>>

\* The copy of devices reads columns that MigrateLegacySchema adds only
\* afterwards: without them the statement fails, the transaction is undone and
\* the error, which is not SQLITE_BUSY, ends the constructor.
MigrateUnlabelled(p) ==
  /\ Advances(p, "copy", "failed")
  /\ copied = {}
  /\ ~ labelled
  /\ writer' = {}
  /\ UNCHANGED <<file_vars, next_table, next_rows, copied, attempt, foreign_keys, stops,
                 original, migrators>>

----------------------------------------------------------------------------
\* The rest of MigrateLegacySchema.
AddColumns(p) ==
  /\ Advances(p, "columns", "serving")
  /\ (labelled /\ late) \/ writer = {}
  /\ labelled' = TRUE
  /\ late' = TRUE
  /\ UNCHANGED <<table, rows, epoch, work_vars, attempt, foreign_keys, stops, original,
                 migrators>>

\* A statement of p would write while another process is in its transaction.
Blocked(p) ==
  /\ writer \ {p} # {}
  /\ \/ pc[p] = "create" /\ (~ epoch \/ \E t \in Tables : table[t] = "none")
     \/ pc[p] = "lock"
     \/ pc[p] = "columns" /\ ~ (labelled /\ late)

\* SQLITE_BUSY: CreateSchema is called again, on the connection as it is.
Refused(p) ==
  /\ Blocked(p)
  /\ IF attempt[p] < MaxAttempts
       THEN /\ pc' = [pc EXCEPT ![p] = "create"]
            /\ attempt' = [attempt EXCEPT ![p] = @ + 1]
       ELSE /\ pc' = [pc EXCEPT ![p] = "failed"]
            /\ UNCHANGED attempt
  /\ UNCHANGED <<file_vars, work_vars, foreign_keys, stops, original, migrators>>

\* The process ends, or is killed in the middle of anything.
Stop(p) ==
  /\ pc[p] # "off"
  /\ stops < MaxStops
  /\ stops' = stops + 1
  /\ pc' = [pc EXCEPT ![p] = "off"]
  /\ writer' = writer \ {p}
  /\ UNCHANGED <<file_vars, next_table, next_rows, copied, attempt, foreign_keys, original,
                 migrators>>

Step(p) ==
  \/ Open(p) \/ AddEpoch(p) \/ MigrateNothing(p) \/ MigrateBegin(p)
  \/ MigrateLock(p) \/ MigrateCommit(p) \/ MigrateUnlabelled(p)
  \/ AddColumns(p) \/ Refused(p) \/ Stop(p)
  \/ \E t \in Tables : CreateTable(p, t) \/ MigrateTable(p, t)

SchemaNext == \E p \in Processes : Step(p)

SchemaSpec == SchemaInit /\ [][SchemaNext]_schema_vars

----------------------------------------------------------------------------
\* Types of the tables and of the processes.
SchemaTypeOK ==
  /\ {table, next_table} \subseteq [Tables -> {"none", "old", "new"}]
  /\ {rows, next_rows, original} \subseteq [Tables -> SUBSET DeviceRows]
  /\ {labelled, epoch, late} \subseteq BOOLEAN
  /\ writer \subseteq Processes /\ migrators \subseteq Processes
  /\ copied \subseteq Tables
  /\ pc \in [Processes -> Points]
  /\ attempt \in [Processes -> 0..MaxAttempts]
  /\ foreign_keys \in [Processes -> BOOLEAN]
  /\ stops \in 0..MaxStops

\* Whenever processes are killed or meet on the file, the migration is all or
\* nothing and keeps every row, also when a second process migrates once more
\* because it tested the primary key before the first one was done.
MigrationWhole ==
  /\ rows = original
  /\ table["devices"] = "new" => \A t \in Tables : table[t] # "old"

\* A constructor that returns leaves every table and column in place, and foreign
\* keys enforced unless another process has migrated the file: then an attempt
\* that was refused the lock has switched them off, and the next one finds
\* nothing left to migrate.  A constructor throws only when its attempts are used
\* up, or for devices that predate both migrations.
ServingReady ==
  \A p \in Processes :
    /\ pc[p] = "serving" =>
         /\ \A t \in Tables : table[t] = "new"
         /\ labelled /\ epoch /\ late
         /\ foreign_keys[p] \/ migrators \ {p} # {}
    /\ pc[p] = "failed" => attempt[p] = MaxAttempts \/ ~ labelled
=============================================================================
