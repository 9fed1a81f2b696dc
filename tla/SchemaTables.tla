---------------------------- MODULE SchemaTables ----------------------------
(***************************************************************************)
(* The tables TestSchemaBuilder creates and drops, over several runs of    *)
(* the playground on one database.  The test is a fixed script of schema   *)
(* statements in blocks, none of them in a transaction.  A statement may   *)
(* throw and the process may be killed; what exists then is what the next  *)
(* run, which starts the script from the beginning, meets.                 *)
(*                                                                         *)
(* Columns, indexes and constraints are left out: they live and die with   *)
(* their table.                                                            *)
(***************************************************************************)
EXTENDS Naturals, Sequences

CONSTANT MaxRuns   \* bound: runs of the playground

ASSUME SchemaAssumption == MaxRuns \in Nat \ { 0 }

Drivers == { "QMYSQL", "QPSQL", "QSQLITE" }

(* Statements of the schema builder. *)
Statement(op, table, renamed) == [op |-> op, table |-> table, renamed |-> renamed]
CreateDatabase(d)       == Statement("createDatabase", d, d)
DropDatabaseIfExists(d) == Statement("dropDatabaseIfExists", d, d)
Create(t)       == Statement("create", t, t)
Temporary(t)    == Statement("temporary", t, t)
Alter(t)        == Statement("alter", t, t)
DropIfExists(t) == Statement("dropIfExists", t, t)
Rename(t, u)    == Statement("rename", t, u)

schemaDatabase ==
  LET d == "tinyplay_schema_database"
  IN  << CreateDatabase(d), DropDatabaseIfExists(d) >>

schemaModifiers ==
  LET t == "schema_modifiers"
  IN  << Create(t), Alter(t), Alter(t), Alter(t), Alter(t), DropIfExists(t) >>

schemaDefaultValueExpr ==
  LET t == "schema_modifier_defaultValue_expr" IN << Create(t), DropIfExists(t) >>

schemaDefaultValueBool ==
  LET t == "schema_modifier_defaultValue_bool" IN << Create(t), DropIfExists(t) >>

schemaDefaultValueEscaping ==
  LET t == "schema_modifier_defaultValue_escaping" IN << Create(t), DropIfExists(t) >>

schemaUseCurrent ==
  LET t == "schema_usecurrent" IN << Create(t), DropIfExists(t) >>

schemaTypes ==
  LET t == "schema_types_after_first" IN << Temporary(t), DropIfExists(t) >>

schemaIncrements ==
  LET t == "schema_increments"
  IN  << Create(t), DropIfExists(t), Create(t), DropIfExists(t),
         Create(t), DropIfExists(t), Create(t), DropIfExists(t),
         Create(t), DropIfExists(t), Create(t), DropIfExists(t) >>

schemaTimestamps ==
  LET t == "schema_timestamps_remembertoken"
      u == "schema_timestamps_precision"
  IN  << Create(t), Alter(t), Create(u), DropIfExists(t), DropIfExists(u) >>

schemaIndexes ==
  LET t == "schema_indexes_fluent"
      u == "schema_indexes_blueprint"
  IN  << Create(t), DropIfExists(t), Create(u), DropIfExists(u) >>

schemaRenameIndex(driver) ==
  LET t == "schema_rename_index"
  IN  IF driver # "QSQLITE" THEN << Create(t), Alter(t), DropIfExists(t) >> ELSE <<>>

schemaDropIndexByName ==
  LET t == "schema_dropindex_byname" IN << Create(t), Alter(t), DropIfExists(t) >>

schemaDropIndexByColumn ==
  LET t == "schema_dropindex_bycolumn" IN << Create(t), Alter(t), DropIfExists(t) >>

schemaDropIndexByMoreColumns ==
  LET t == "schema_dropindex_bymorecolumns"
  IN  << Create(t), Alter(t), DropIfExists(t) >>

\* Mutant: a table is altered before it is created.
alterBeforeCreate ==
  LET t == "schema_modify" IN << Alter(t), Create(t), Alter(t), DropIfExists(t) >>

schemaModify ==
  LET t == "schema_modify" IN << Create(t), Alter(t), Alter(t), DropIfExists(t) >>

schemaForeign ==
  LET t == "schema_foreign" IN << Create(t), DropIfExists(t) >>

schemaForeignTerser ==
  LET t == "schema_foreign_terser" IN << Create(t), DropIfExists(t) >>

schemaForeignModel ==
  LET t == "schema_foreign_model" IN << Create(t), DropIfExists(t) >>

\* Mutant: the table is only dropped under its old name.
dropOldNameOnly ==
  LET t == "schema_rename_table"
  IN  << Create(t), Rename(t, "schema_rename_table_renamed"), DropIfExists(t) >>

\* Mutant: what an earlier run left is dropped first.
dropLeftoversFirst ==
  LET t == "schema_rename_table"
      u == "schema_rename_table_renamed"
  IN  << DropIfExists(t), DropIfExists(u), Create(t), Rename(t, u),
         DropIfExists(t), DropIfExists(u) >>

schemaRenameTable ==
  LET t == "schema_rename_table"
      u == "schema_rename_table_renamed"
  IN  << Create(t), Rename(t, u), DropIfExists(t), DropIfExists(u) >>

Blocks(driver) ==
  << schemaDatabase, schemaModifiers, schemaDefaultValueExpr,
     schemaDefaultValueBool, schemaDefaultValueEscaping, schemaUseCurrent,
     schemaTypes, schemaIncrements, schemaTimestamps, schemaIndexes,
     schemaRenameIndex(driver), schemaDropIndexByName, schemaDropIndexByColumn,
     schemaDropIndexByMoreColumns, schemaModify, schemaForeign,
     schemaForeignTerser, schemaForeignModel, schemaRenameTable >>

-----------------------------------------------------------------------------
VARIABLES
  driverName,    \* of the connection under test
  tables,        \* the database's tables created by the test
  temporaries,   \* temporary tables of the connection
  databases,     \* databases created by the test
  block,         \* position in Blocks
  position,      \* position in the block
  running,       \* "running", "completed", "failed" (threw or was killed)
  runs,          \* runs started
  found          \* the obstacles the run met at its start (history)

stores == <<tables, temporaries, databases>>
vars == <<driverName, stores, block, position, running, runs, found>>

\* TestSchemaBuilder::run() on a database that no run has used.
Init ==
  /\ driverName \in Drivers
  /\ tables = {} /\ temporaries = {} /\ databases = {}
  /\ block = 1 /\ position = 1
  /\ running = "running" /\ runs = 1 /\ found = {}

\* The names in use, which stand in the way of a run that wants to create them.
\* The database of SQLite is a file that createDatabase() truncates: one that a
\* run has left is in nobody's way, and the next run drops it.
obstacles == tables \union (IF driverName # "QSQLITE" THEN databases ELSE {})

currentBlock == Blocks(driverName)[block]
statement    == currentBlock[position]

\* The run has a statement to issue.
issuing ==
  /\ running = "running"
  /\ block <= Len(Blocks(driverName))
  /\ position <= Len(currentBlock)

\* The servers' part: to create a table or a database, or to rename a table,
\* under a name in use throws.  SQLite's createDatabase() truncates a file.
RefusesDatabase(s) ==
  s.op = "createDatabase" /\ s.table \in databases /\ driverName # "QSQLITE"

Refused(s) ==
  \/ RefusesDatabase(s)
  \/ s.op = "create" /\ s.table \in tables
  \/ s.op = "rename" /\ s.renamed \in tables

\* What a statement that is not refused does to the stores; an alter changes
\* columns, indexes and constraints only.
Effect(s) ==
  /\ tables' =
       CASE s.op = "create"       -> tables \union { s.table }
         [] s.op = "dropIfExists" -> tables \ { s.table }
         [] s.op = "rename"       -> (tables \ { s.table }) \union { s.renamed }
         [] OTHER                 -> tables
  /\ temporaries' =
       CASE s.op = "temporary"    -> temporaries \union { s.table }
         [] s.op = "dropIfExists" -> temporaries \ { s.table }
         [] OTHER                 -> temporaries
  /\ databases' =
       CASE s.op = "createDatabase"       -> databases \union { s.table }
         [] s.op = "dropDatabaseIfExists" -> databases \ { s.table }
         [] OTHER                         -> databases

-----------------------------------------------------------------------------
(* Actions. *)

Succeeds ==
  /\ issuing /\ ~Refused(statement)
  /\ Effect(statement)
  /\ position' = position + 1
  /\ UNCHANGED <<driverName, block, running, runs, found>>

endOfBlock ==
  /\ running = "running" /\ block <= Len(Blocks(driverName))
  /\ position > Len(currentBlock)
  /\ block' = block + 1 /\ position' = 1
  /\ UNCHANGED <<driverName, stores, running, runs, found>>

\* logQueryCounters(), the last statement of run().
endOfTest ==
  /\ running = "running" /\ block > Len(Blocks(driverName))
  /\ running' = "completed"
  /\ UNCHANGED <<driverName, stores, block, position, runs, found>>

\* A statement throws, for a name in use or for anything else, and nothing in
\* run() catches it; or the process is killed.  What was issued before is
\* committed, and the connection's temporary tables go with the connection.
\* A create() of several SQL statements that throws after its first one is
\* Succeeds and then Fails.
Fails ==
  /\ running = "running"
  /\ running' = "failed" /\ temporaries' = {}
  /\ UNCHANGED <<driverName, tables, databases, block, position, runs, found>>

\* The playground is started again.
nextRun ==
  /\ running # "running" /\ runs < MaxRuns
  /\ runs' = runs + 1
  /\ running' = "running" /\ block' = 1 /\ position' = 1
  /\ temporaries' = {} /\ found' = obstacles
  /\ UNCHANGED <<driverName, tables, databases>>

Next == Succeeds \/ endOfBlock \/ endOfTest \/ Fails \/ nextRun

Spec == Init /\ [][Next]_vars

-----------------------------------------------------------------------------
(* Properties. *)

\* The script drops what it creates, under the name it has by then: a run
\* that completes leaves the database without a table and without a database
\* of the test, whatever the failed runs before it left.
CompletedRunCleans ==
  running = "completed" => tables = {} /\ databases = {} /\ temporaries = {}

\* A table found at the start was left by a failed run, with the columns it
\* had then.  The test alters and renames only tables that exist and that this
\* run created, even where an earlier run left one of the same name.
AltersItsOwn ==
  issuing /\ statement.op \in { "alter", "rename" } =>
    statement.table \in tables \ found

\* A run never drops, renames or replaces a table it found, nor on MySQL and
\* PostgreSQL a database: such a leftover stays until somebody removes it by
\* hand.  The file that is SQLite's database is recreated, and no leftover here.
FoundTablesStay == found \subseteq obstacles

\* The tables and databases a block's statements name.
namesOf(script) ==
  UNION { { script[i].table, script[i].renamed } : i \in DOMAIN script }

NamesOf == [d \in Drivers |-> [b \in DOMAIN Blocks(d) |-> namesOf(Blocks(d)[b])]]

dirtyBlocks(names) ==
  { b \in DOMAIN NamesOf[driverName] : NamesOf[driverName][b] \intersect names # {} }

L == INSTANCE Leftovers WITH
       N     <- Len(Blocks("QMYSQL")),
       heals <- [b \in 1..Len(Blocks("QMYSQL")) |-> {}],
       at    <- block,
       phase <- running,
       left  <- dirtyBlocks(obstacles),
       found <- dirtyBlocks(found)

ASSUME BlocksAssumption == L!LeftoversAssumption

\* Leftovers never heal here: no block of the test removes a table that an
\* earlier run left, or a database on MySQL and PostgreSQL, its own or that of
\* another block, and every later run stops there at the latest.
ImplementsLeftovers == L!Spec

=============================================================================
