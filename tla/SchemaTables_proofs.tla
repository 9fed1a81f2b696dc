-------------------------- MODULE SchemaTables_proofs --------------------------
(***************************************************************************)
(* What TestSchemaBuilder leaves in a database, for every number of runs.  *)
(*                                                                         *)
(* The first part proves of every block that its script is WellFormed; the *)
(* second follows the tables of one well-formed script statement by        *)
(* statement; the third is the inductive invariant of the runs, and the    *)
(* last one the refinement of Leftovers.                                   *)
(***************************************************************************)
EXTENDS SchemaTables, TLAPS

-----------------------------------------------------------------------------
(* The scripts *)

\* The block that works on a name; a name that no block uses has none.
Home(n) ==
  CASE n = "tinyplay_schema_database"              -> 1
    [] n = "schema_modifiers"                      -> 2
    [] n = "schema_modifier_defaultValue_expr"     -> 3
    [] n = "schema_modifier_defaultValue_bool"     -> 4
    [] n = "schema_modifier_defaultValue_escaping" -> 5
    [] n = "schema_usecurrent"                     -> 6
    [] n = "schema_types_after_first"              -> 7
    [] n = "schema_increments"                     -> 8
    [] n \in { "schema_timestamps_remembertoken", "schema_timestamps_precision" } -> 9
    [] n \in { "schema_indexes_fluent", "schema_indexes_blueprint" } -> 10
    [] n = "schema_rename_index"                   -> 11
    [] n = "schema_dropindex_byname"               -> 12
    [] n = "schema_dropindex_bycolumn"             -> 13
    [] n = "schema_dropindex_bymorecolumns"        -> 14
    [] n = "schema_modify"                         -> 15
    [] n = "schema_foreign"                        -> 16
    [] n = "schema_foreign_terser"                 -> 17
    [] n = "schema_foreign_model"                  -> 18
    [] n \in { "schema_rename_table", "schema_rename_table_renamed" } -> 19
    [] OTHER                                       -> 0

DatabaseBlock  == 1
TemporaryBlock == 7
LastBlock      == 19

\* The statements of a block: only the first one works on databases, only
\* schemaTypes on temporary tables.
OpsOf(b) ==
  IF b = DatabaseBlock THEN { "createDatabase", "dropDatabaseIfExists" }
  ELSE IF b = TemporaryBlock THEN { "temporary", "dropIfExists" }
  ELSE { "create", "alter", "dropIfExists", "rename" }

Makes(s, n) ==
  s.op \in { "createDatabase", "create", "temporary", "rename" } /\ s.renamed = n

Unmakes(s, n) ==
  s.op \in { "dropDatabaseIfExists", "dropIfExists", "rename" } /\ s.table = n

\* The statements before p have made n, and not removed it since.
Made(script, p, n) ==
  \E i \in 1..(p - 1) :
    /\ Makes(script[i], n)
    /\ \A j \in (i + 1)..(p - 1) : ~Unmakes(script[j], n)

\* The statements before p name n.
Touched(script, p, n) ==
  \E i \in 1..(p - 1) : n \in { script[i].table, script[i].renamed }

StatementOk(b, s) ==
  /\ Home(s.table) = b /\ Home(s.renamed) = b
  /\ s.op \in OpsOf(b)
  /\ s.op # "rename" => s.renamed = s.table

\* A block works on its own names; what it makes it drops later, under the
\* name it has by then; it alters and renames what it has made before, and
\* drops nothing it has not named before.
WellFormed(b, script) ==
  /\ Len(script) \in Nat /\ DOMAIN script = 1..Len(script)
  /\ \A p \in 1..Len(script) : StatementOk(b, script[p])
  /\ \A n : \A p \in 1..Len(script) : Makes(script[p], n) =>
       \E q \in (p + 1)..Len(script) : Unmakes(script[q], n)
  /\ \A p \in 1..Len(script) : script[p].op \in { "alter", "rename" } =>
       Made(script, p, script[p].table)
  /\ \A p \in 1..Len(script) :
       script[p].op \in { "alter", "rename", "dropIfExists", "dropDatabaseIfExists" } =>
         Touched(script, p, script[p].table)

\* Most scripts create one table, alter it and drop it.
OneTable(b, script) ==
  /\ Len(script) \in Nat /\ Len(script) >= 2
  /\ DOMAIN script = 1..Len(script)
  /\ \A p \in 1..Len(script) :
       StatementOk(b, script[p]) /\ script[p].renamed = script[1].table
                                 /\ script[p].table = script[1].table
  /\ script[1].op \in { "createDatabase", "create", "temporary" }
  /\ \A p \in 2..(Len(script) - 1) : script[p].op = "alter"
  /\ script[Len(script)].op \in { "dropDatabaseIfExists", "dropIfExists" }

LEMMA OneTableWellFormed ==
  ASSUME NEW b, NEW script, OneTable(b, script)
  PROVE  WellFormed(b, script)
<1>len. Len(script) \in Nat /\ Len(script) >= 2
  BY DEF OneTable
<1>0. /\ DOMAIN script = 1..Len(script)
      /\ \A p \in 1..Len(script) : StatementOk(b, script[p])
  BY DEF OneTable
<1>1. ASSUME NEW p \in 1..Len(script), NEW n, Makes(script[p], n)
      PROVE  \E q \in (p + 1)..Len(script) : Unmakes(script[q], n)
  <2>1. p # Len(script)
    BY <1>1 DEF Makes, OneTable
  <2>2. Unmakes(script[Len(script)], n)
    BY <1>len, <1>0, <1>1 DEF Makes, Unmakes, OneTable
  <2>3. Len(script) \in (p + 1)..Len(script)
    BY <1>len, <2>1
  <2> QED
    BY <2>2, <2>3
<1>2. ASSUME NEW p \in 1..Len(script), script[p].op \in { "alter", "rename" }
      PROVE  Made(script, p, script[p].table)
  <2>1. p # 1 /\ p # Len(script)
    BY <1>2 DEF OneTable
  <2>2. 1 \in 1..(p - 1)
    BY <1>len, <2>1
  <2>3. Makes(script[1], script[p].table)
    BY <1>len, <1>0 DEF Makes, OneTable
  <2>4. \A j \in (1 + 1)..(p - 1) : ~Unmakes(script[j], script[p].table)
    <3> SUFFICES ASSUME NEW j \in (1 + 1)..(p - 1) PROVE ~Unmakes(script[j], script[p].table)
      OBVIOUS
    <3>1. j \in 2..(Len(script) - 1)
      BY <1>len
    <3>2. script[j].op = "alter"
      BY <3>1 DEF OneTable
    <3> QED
      BY <3>2 DEF Unmakes
  <2> QED
    BY <2>2, <2>3, <2>4 DEF Made
<1>3. ASSUME NEW p \in 1..Len(script),
             script[p].op \in { "alter", "rename", "dropIfExists", "dropDatabaseIfExists" }
      PROVE  Touched(script, p, script[p].table)
  <2>1. p # 1
    BY <1>3 DEF OneTable
  <2>2. 1 \in 1..(p - 1) /\ script[p].table = script[1].table
    BY <1>len, <1>0, <2>1 DEF OneTable
  <2> QED
    BY <2>2 DEF Touched
<1> QED
  BY <1>len, <1>0, <1>1, <1>2, <1>3 DEF WellFormed

\* A script of an ordinary block that creates t, alters it and drops it.
LEMMA CreatedAndDropped ==
  ASSUME NEW b, NEW t, NEW script,
         Home(t) = b, b \notin { DatabaseBlock, TemporaryBlock },
         Len(script) \in Nat, Len(script) >= 2, DOMAIN script = 1..Len(script),
         script[1] = Create(t), script[Len(script)] = DropIfExists(t),
         \A p \in 2..(Len(script) - 1) : script[p] = Alter(t)
  PROVE  OneTable(b, script)
<1>1. \A p \in 1..Len(script) : script[p] \in { Create(t), Alter(t), DropIfExists(t) }
  OBVIOUS
<1>2. \A s \in { Create(t), Alter(t), DropIfExists(t) } :
        StatementOk(b, s) /\ s.renamed = t /\ s.table = t
  BY DEF StatementOk, OpsOf, Create, Alter, DropIfExists, Statement
<1>3. /\ Create(t).op = "create" /\ Create(t).table = t
      /\ Alter(t).op = "alter" /\ DropIfExists(t).op = "dropIfExists"
  BY DEF Create, Alter, DropIfExists, Statement
<1> QED
  BY <1>1, <1>2, <1>3 DEF OneTable

LEMMA CreateDrop ==
  ASSUME NEW t, Home(t) \notin { DatabaseBlock, TemporaryBlock }
  PROVE  WellFormed(Home(t), << Create(t), DropIfExists(t) >>)
<1> DEFINE script == << Create(t), DropIfExists(t) >>
<1>1. /\ Len(script) = 2 /\ DOMAIN script = 1..2
      /\ script[1] = Create(t) /\ script[2] = DropIfExists(t)
  OBVIOUS
<1> HIDE DEF script
<1>2. /\ Len(script) \in Nat /\ Len(script) >= 2 /\ DOMAIN script = 1..Len(script)
      /\ script[Len(script)] = DropIfExists(t)
      /\ \A p \in 2..(Len(script) - 1) : script[p] = Alter(t)
  BY <1>1
<1>3. OneTable(Home(t), script)
  BY <1>1, <1>2, CreatedAndDropped
<1> QED
  BY <1>3, OneTableWellFormed DEF script

LEMMA CreateAlterDrop ==
  ASSUME NEW t, Home(t) \notin { DatabaseBlock, TemporaryBlock }
  PROVE  WellFormed(Home(t), << Create(t), Alter(t), DropIfExists(t) >>)
<1> DEFINE script == << Create(t), Alter(t), DropIfExists(t) >>
<1>1. /\ Len(script) = 3 /\ DOMAIN script = 1..3
      /\ script[1] = Create(t) /\ script[2] = Alter(t) /\ script[3] = DropIfExists(t)
  OBVIOUS
<1> HIDE DEF script
<1>2. /\ Len(script) \in Nat /\ Len(script) >= 2 /\ DOMAIN script = 1..Len(script)
      /\ script[Len(script)] = DropIfExists(t)
      /\ \A p \in 2..(Len(script) - 1) : script[p] = Alter(t)
  BY <1>1
<1>3. OneTable(Home(t), script)
  BY <1>1, <1>2, CreatedAndDropped
<1> QED
  BY <1>3, OneTableWellFormed DEF script

LEMMA ModifiersWellFormed == WellFormed(2, schemaModifiers)
<1> DEFINE script == schemaModifiers
           t == "schema_modifiers"
<1>1. /\ Len(script) = 6 /\ DOMAIN script = 1..6
      /\ script[1] = Create(t) /\ script[2] = Alter(t) /\ script[3] = Alter(t)
      /\ script[4] = Alter(t) /\ script[5] = Alter(t) /\ script[6] = DropIfExists(t)
  BY DEF schemaModifiers
<1> HIDE DEF script
<1>2. /\ Len(script) \in Nat /\ Len(script) >= 2 /\ DOMAIN script = 1..Len(script)
      /\ script[Len(script)] = DropIfExists(t)
      /\ \A p \in 2..(Len(script) - 1) : script[p] = Alter(t)
  BY <1>1
<1>3. Home(t) = 2 /\ 2 \notin { DatabaseBlock, TemporaryBlock }
  BY DEF Home, DatabaseBlock, TemporaryBlock
<1>4. OneTable(2, script)
  BY <1>1, <1>2, <1>3, CreatedAndDropped
<1> QED
  BY <1>4, OneTableWellFormed DEF script

LEMMA ModifyWellFormed == WellFormed(15, schemaModify)
<1> DEFINE script == schemaModify
           t == "schema_modify"
<1>1. /\ Len(script) = 4 /\ DOMAIN script = 1..4
      /\ script[1] = Create(t) /\ script[2] = Alter(t) /\ script[3] = Alter(t)
      /\ script[4] = DropIfExists(t)
  BY DEF schemaModify
<1> HIDE DEF script
<1>2. /\ Len(script) \in Nat /\ Len(script) >= 2 /\ DOMAIN script = 1..Len(script)
      /\ script[Len(script)] = DropIfExists(t)
      /\ \A p \in 2..(Len(script) - 1) : script[p] = Alter(t)
  BY <1>1
<1>3. Home(t) = 15 /\ 15 \notin { DatabaseBlock, TemporaryBlock }
  BY DEF Home, DatabaseBlock, TemporaryBlock
<1>4. OneTable(15, script)
  BY <1>1, <1>2, <1>3, CreatedAndDropped
<1> QED
  BY <1>4, OneTableWellFormed DEF script

LEMMA DatabaseWellFormed == WellFormed(1, schemaDatabase)
<1> DEFINE script == schemaDatabase
           d == "tinyplay_schema_database"
<1>1. /\ Len(script) = 2 /\ DOMAIN script = 1..2
      /\ script[1] = CreateDatabase(d) /\ script[2] = DropDatabaseIfExists(d)
  BY DEF schemaDatabase
<1> HIDE DEF script
<1>2. Home(d) = 1
  BY DEF Home
<1>3. \A p \in 1..2 : p \in { 1, 2 }
  OBVIOUS
<1>4. \A s \in { CreateDatabase(d), DropDatabaseIfExists(d) } :
        StatementOk(1, s) /\ s.renamed = d /\ s.table = d
  BY <1>2 DEF StatementOk, OpsOf, DatabaseBlock, CreateDatabase, DropDatabaseIfExists, Statement
<1>5. CreateDatabase(d).op = "createDatabase"
      /\ DropDatabaseIfExists(d).op = "dropDatabaseIfExists"
  BY DEF CreateDatabase, DropDatabaseIfExists, Statement
<1>6. OneTable(1, script)
  BY <1>1, <1>3, <1>4, <1>5 DEF OneTable
<1> QED
  BY <1>6, OneTableWellFormed DEF script

LEMMA TypesWellFormed == WellFormed(7, schemaTypes)
<1> DEFINE script == schemaTypes
           t == "schema_types_after_first"
<1>1. /\ Len(script) = 2 /\ DOMAIN script = 1..2
      /\ script[1] = Temporary(t) /\ script[2] = DropIfExists(t)
  BY DEF schemaTypes
<1> HIDE DEF script
<1>2. Home(t) = 7
  BY DEF Home
<1>3. \A p \in 1..2 : p \in { 1, 2 }
  OBVIOUS
<1>4. \A s \in { Temporary(t), DropIfExists(t) } :
        StatementOk(7, s) /\ s.renamed = t /\ s.table = t
  BY <1>2 DEF StatementOk, OpsOf, DatabaseBlock, TemporaryBlock, Temporary, DropIfExists, Statement
<1>5. Temporary(t).op = "temporary" /\ DropIfExists(t).op = "dropIfExists"
  BY DEF Temporary, DropIfExists, Statement
<1>6. OneTable(7, script)
  BY <1>1, <1>3, <1>4, <1>5 DEF OneTable
<1> QED
  BY <1>6, OneTableWellFormed DEF script

LEMMA OneTableBlocks ==
  ASSUME NEW d \in Drivers
  PROVE  /\ WellFormed(3, schemaDefaultValueExpr)
         /\ WellFormed(4, schemaDefaultValueBool)
         /\ WellFormed(5, schemaDefaultValueEscaping)
         /\ WellFormed(6, schemaUseCurrent)
         /\ d # "QSQLITE" => WellFormed(11, schemaRenameIndex(d))
         /\ WellFormed(12, schemaDropIndexByName)
         /\ WellFormed(13, schemaDropIndexByColumn)
         /\ WellFormed(14, schemaDropIndexByMoreColumns)
         /\ WellFormed(16, schemaForeign)
         /\ WellFormed(17, schemaForeignTerser)
         /\ WellFormed(18, schemaForeignModel)
<1>1. WellFormed(3, schemaDefaultValueExpr)
  <2>1. Home("schema_modifier_defaultValue_expr") = 3
    BY DEF Home
  <2> QED
    BY <2>1, CreateDrop DEF schemaDefaultValueExpr, DatabaseBlock, TemporaryBlock
<1>2. WellFormed(4, schemaDefaultValueBool)
  <2>1. Home("schema_modifier_defaultValue_bool") = 4
    BY DEF Home
  <2> QED
    BY <2>1, CreateDrop DEF schemaDefaultValueBool, DatabaseBlock, TemporaryBlock
<1>3. WellFormed(5, schemaDefaultValueEscaping)
  <2>1. Home("schema_modifier_defaultValue_escaping") = 5
    BY DEF Home
  <2> QED
    BY <2>1, CreateDrop DEF schemaDefaultValueEscaping, DatabaseBlock, TemporaryBlock
<1>4. WellFormed(6, schemaUseCurrent)
  <2>1. Home("schema_usecurrent") = 6
    BY DEF Home
  <2> QED
    BY <2>1, CreateDrop DEF schemaUseCurrent, DatabaseBlock, TemporaryBlock
<1>5. d # "QSQLITE" => WellFormed(11, schemaRenameIndex(d))
  <2>1. Home("schema_rename_index") = 11
    BY DEF Home
  <2> QED
    BY <2>1, CreateAlterDrop DEF schemaRenameIndex, DatabaseBlock, TemporaryBlock
<1>6. WellFormed(12, schemaDropIndexByName)
  <2>1. Home("schema_dropindex_byname") = 12
    BY DEF Home
  <2> QED
    BY <2>1, CreateAlterDrop DEF schemaDropIndexByName, DatabaseBlock, TemporaryBlock
<1>7. WellFormed(13, schemaDropIndexByColumn)
  <2>1. Home("schema_dropindex_bycolumn") = 13
    BY DEF Home
  <2> QED
    BY <2>1, CreateAlterDrop DEF schemaDropIndexByColumn, DatabaseBlock, TemporaryBlock
<1>8. WellFormed(14, schemaDropIndexByMoreColumns)
  <2>1. Home("schema_dropindex_bymorecolumns") = 14
    BY DEF Home
  <2> QED
    BY <2>1, CreateAlterDrop DEF schemaDropIndexByMoreColumns, DatabaseBlock, TemporaryBlock
<1>9. WellFormed(16, schemaForeign)
  <2>1. Home("schema_foreign") = 16
    BY DEF Home
  <2> QED
    BY <2>1, CreateDrop DEF schemaForeign, DatabaseBlock, TemporaryBlock
<1>10. WellFormed(17, schemaForeignTerser)
  <2>1. Home("schema_foreign_terser") = 17
    BY DEF Home
  <2> QED
    BY <2>1, CreateDrop DEF schemaForeignTerser, DatabaseBlock, TemporaryBlock
<1>11. WellFormed(18, schemaForeignModel)
  <2>1. Home("schema_foreign_model") = 18
    BY DEF Home
  <2> QED
    BY <2>1, CreateDrop DEF schemaForeignModel, DatabaseBlock, TemporaryBlock
<1> QED
  BY <1>1, <1>2, <1>3, <1>4, <1>5, <1>6, <1>7, <1>8, <1>9, <1>10, <1>11

\* The others, statement by statement.
LEMMA EmptyWellFormed ==
  ASSUME NEW b PROVE WellFormed(b, <<>>)
  BY DEF WellFormed

LEMMA IncrementsWellFormed == WellFormed(8, schemaIncrements)
<1> DEFINE script == schemaIncrements
           t == "schema_increments"
<1>1. /\ Len(script) = 12 /\ DOMAIN script = 1..12
      /\ \A p \in { 1, 3, 5, 7, 9, 11 } : script[p] = Create(t)
      /\ \A p \in { 2, 4, 6, 8, 10, 12 } : script[p] = DropIfExists(t)
  BY DEF schemaIncrements
<1> HIDE DEF script
<1>2. \A p \in 1..12 : script[p] = Create(t) \/ script[p] = DropIfExists(t)
  BY <1>1
<1>3. \A p \in 1..12 : StatementOk(8, script[p]) /\ script[p].table = t /\ script[p].renamed = t
                       /\ script[p].op \in { "create", "dropIfExists" }
  BY <1>2 DEF StatementOk, Home, OpsOf, DatabaseBlock, TemporaryBlock, Create, DropIfExists,
              Statement
<1>4. Unmakes(script[12], t)
  BY <1>1 DEF Unmakes, DropIfExists, Statement
<1>5. \A n : \A p \in 1..12 : Makes(script[p], n) => \E q \in (p + 1)..12 : Unmakes(script[q], n)
  <2> SUFFICES ASSUME NEW p \in 1..12, NEW n, Makes(script[p], n)
               PROVE  \E q \in (p + 1)..12 : Unmakes(script[q], n)
    OBVIOUS
  <2>1. n = t
    BY <1>3 DEF Makes
  <2>2. p # 12
    BY <1>1 DEF Makes, DropIfExists, Statement
  <2>3. 12 \in (p + 1)..12
    BY <2>2
  <2> QED
    BY <2>1, <2>3, <1>4
<1>6. \A p \in 1..12 : script[p].op \in { "alter", "rename", "dropIfExists", "dropDatabaseIfExists" } =>
        Touched(script, p, script[p].table)
  <2> SUFFICES ASSUME NEW p \in 1..12, script[p].op # "create"
               PROVE  Touched(script, p, script[p].table)
    OBVIOUS
  <2>1. p # 1
    BY <1>1 DEF Create, Statement
  <2>2. 1 \in 1..(p - 1)
    BY <2>1
  <2> QED
    BY <1>3, <2>2 DEF Touched
<1> QED
  BY <1>1, <1>3, <1>5, <1>6 DEF WellFormed, script

LEMMA TimestampsWellFormed == WellFormed(9, schemaTimestamps)
<1> DEFINE script == schemaTimestamps
           t == "schema_timestamps_remembertoken"
           u == "schema_timestamps_precision"
<1>1. /\ Len(script) = 5 /\ DOMAIN script = 1..5
      /\ script[1] = Create(t) /\ script[2] = Alter(t) /\ script[3] = Create(u)
      /\ script[4] = DropIfExists(t) /\ script[5] = DropIfExists(u)
  BY DEF schemaTimestamps
<1> HIDE DEF script
<1>2. \A p \in 1..5 : p \in { 1, 2, 3, 4, 5 }
  OBVIOUS
<1> Home(t) = 9 /\ Home(u) = 9
  BY DEF Home
<1>3. \A p \in 1..5 : StatementOk(9, script[p])
  BY <1>1, <1>2 DEF StatementOk, OpsOf, DatabaseBlock, TemporaryBlock, Create, Alter,
              DropIfExists, Statement
<1>4. \A n : \A p \in 1..5 : Makes(script[p], n) => \E q \in (p + 1)..5 : Unmakes(script[q], n)
  <2> SUFFICES ASSUME NEW p \in 1..5, NEW n, Makes(script[p], n)
               PROVE  \E q \in (p + 1)..5 : Unmakes(script[q], n)
    OBVIOUS
  <2>1. (p = 1 /\ n = t) \/ (p = 3 /\ n = u)
    BY <1>1, <1>2 DEF Makes, Create, Alter, DropIfExists, Statement
  <2>2. Unmakes(script[4], t) /\ Unmakes(script[5], u)
    BY <1>1 DEF Unmakes, DropIfExists, Statement
  <2> QED
    BY <2>1, <2>2
<1>5. \A p \in 1..5 : script[p].op \in { "alter", "rename" } => Made(script, p, script[p].table)
  <2> SUFFICES ASSUME NEW p \in 1..5, script[p].op \in { "alter", "rename" }
               PROVE  Made(script, p, script[p].table)
    OBVIOUS
  <2>1. p = 2 /\ script[p].table = t
    BY <1>1, <1>2 DEF Create, Alter, DropIfExists, Statement
  <2>2. Makes(script[1], t)
    BY <1>1 DEF Makes, Create, Statement
  <2> QED
    BY <2>1, <2>2 DEF Made
<1>6. \A p \in 1..5 : script[p].op \in { "alter", "rename", "dropIfExists", "dropDatabaseIfExists" } =>
        Touched(script, p, script[p].table)
  <2> SUFFICES ASSUME NEW p \in 1..5, script[p].op # "create"
               PROVE  Touched(script, p, script[p].table)
    OBVIOUS
  <2>1. (p \in { 2, 4 } /\ script[p].table = t) \/ (p = 5 /\ script[p].table = u)
    BY <1>1, <1>2 DEF Create, Alter, DropIfExists, Statement
  <2>2. script[1].table = t /\ script[3].table = u
    BY <1>1 DEF Create, Statement
  <2>3. 1 \in 1..(2 - 1) /\ 1 \in 1..(4 - 1) /\ 3 \in 1..(5 - 1)
    OBVIOUS
  <2> QED
    BY <2>1, <2>2, <2>3 DEF Touched
<1> QED
  BY <1>1, <1>3, <1>4, <1>5, <1>6 DEF WellFormed, script

LEMMA IndexesWellFormed == WellFormed(10, schemaIndexes)
<1> DEFINE script == schemaIndexes
           t == "schema_indexes_fluent"
           u == "schema_indexes_blueprint"
<1>1. /\ Len(script) = 4 /\ DOMAIN script = 1..4
      /\ script[1] = Create(t) /\ script[2] = DropIfExists(t)
      /\ script[3] = Create(u) /\ script[4] = DropIfExists(u)
  BY DEF schemaIndexes
<1> HIDE DEF script
<1>2. \A p \in 1..4 : p \in { 1, 2, 3, 4 }
  OBVIOUS
<1> Home(t) = 10 /\ Home(u) = 10
  BY DEF Home
<1>3. \A p \in 1..4 : StatementOk(10, script[p]) /\ script[p].op \in { "create", "dropIfExists" }
  BY <1>1, <1>2 DEF StatementOk, OpsOf, DatabaseBlock, TemporaryBlock, Create,
              DropIfExists, Statement
<1>4. \A n : \A p \in 1..4 : Makes(script[p], n) => \E q \in (p + 1)..4 : Unmakes(script[q], n)
  <2> SUFFICES ASSUME NEW p \in 1..4, NEW n, Makes(script[p], n)
               PROVE  \E q \in (p + 1)..4 : Unmakes(script[q], n)
    OBVIOUS
  <2>1. (p = 1 /\ n = t) \/ (p = 3 /\ n = u)
    BY <1>1, <1>2 DEF Makes, Create, DropIfExists, Statement
  <2>2. Unmakes(script[2], t) /\ Unmakes(script[4], u)
    BY <1>1 DEF Unmakes, DropIfExists, Statement
  <2> QED
    BY <2>1, <2>2
<1>5. \A p \in 1..4 : script[p].op \in { "alter", "rename", "dropIfExists", "dropDatabaseIfExists" } =>
        Touched(script, p, script[p].table)
  <2> SUFFICES ASSUME NEW p \in 1..4, script[p].op # "create"
               PROVE  Touched(script, p, script[p].table)
    OBVIOUS
  <2>1. (p = 2 /\ script[p].table = t) \/ (p = 4 /\ script[p].table = u)
    BY <1>1, <1>2 DEF Create, DropIfExists, Statement
  <2>2. script[1].table = t /\ script[3].table = u
    BY <1>1 DEF Create, Statement
  <2>3. 1 \in 1..(2 - 1) /\ 3 \in 1..(4 - 1)
    OBVIOUS
  <2> QED
    BY <2>1, <2>2, <2>3 DEF Touched
<1> QED
  BY <1>1, <1>3, <1>4, <1>5 DEF WellFormed, script

LEMMA RenameTableWellFormed == WellFormed(19, schemaRenameTable)
<1> DEFINE script == schemaRenameTable
           t == "schema_rename_table"
           u == "schema_rename_table_renamed"
<1>1. /\ Len(script) = 4 /\ DOMAIN script = 1..4
      /\ script[1] = Create(t) /\ script[2] = Rename(t, u)
      /\ script[3] = DropIfExists(t) /\ script[4] = DropIfExists(u)
  BY DEF schemaRenameTable
<1> HIDE DEF script
<1>2. \A p \in 1..4 : p \in { 1, 2, 3, 4 }
  OBVIOUS
<1> Home(t) = 19 /\ Home(u) = 19
  BY DEF Home
<1>3. \A p \in 1..4 : StatementOk(19, script[p])
  BY <1>1, <1>2 DEF StatementOk, OpsOf, DatabaseBlock, TemporaryBlock, Create, Rename,
              DropIfExists, Statement
<1>4. \A n : \A p \in 1..4 : Makes(script[p], n) => \E q \in (p + 1)..4 : Unmakes(script[q], n)
  <2> SUFFICES ASSUME NEW p \in 1..4, NEW n, Makes(script[p], n)
               PROVE  \E q \in (p + 1)..4 : Unmakes(script[q], n)
    OBVIOUS
  <2>1. (p = 1 /\ n = t) \/ (p = 2 /\ n = u)
    BY <1>1, <1>2 DEF Makes, Create, Rename, DropIfExists, Statement
  <2>2. Unmakes(script[3], t) /\ Unmakes(script[4], u)
    BY <1>1 DEF Unmakes, DropIfExists, Statement
  <2> QED
    BY <2>1, <2>2
<1>5. \A p \in 1..4 : script[p].op \in { "alter", "rename" } => Made(script, p, script[p].table)
  <2> SUFFICES ASSUME NEW p \in 1..4, script[p].op \in { "alter", "rename" }
               PROVE  Made(script, p, script[p].table)
    OBVIOUS
  <2>1. p = 2 /\ script[p].table = t
    BY <1>1, <1>2 DEF Create, Rename, DropIfExists, Statement
  <2>2. Makes(script[1], t)
    BY <1>1 DEF Makes, Create, Statement
  <2> QED
    BY <2>1, <2>2 DEF Made
<1>6. \A p \in 1..4 : script[p].op \in { "alter", "rename", "dropIfExists", "dropDatabaseIfExists" } =>
        Touched(script, p, script[p].table)
  <2> SUFFICES ASSUME NEW p \in 1..4, script[p].op # "create"
               PROVE  Touched(script, p, script[p].table)
    OBVIOUS
  <2>1. (p \in { 2, 3 } /\ script[p].table = t) \/ (p = 4 /\ script[p].table = u)
    BY <1>1, <1>2 DEF Create, Rename, DropIfExists, Statement
  <2>2. script[1].table = t /\ script[2].renamed = u
    BY <1>1 DEF Create, Rename, Statement
  <2>3. 1 \in 1..(2 - 1) /\ 1 \in 1..(3 - 1) /\ 2 \in 1..(4 - 1)
    OBVIOUS
  <2> QED
    BY <2>1, <2>2, <2>3 DEF Touched
<1> QED
  BY <1>1, <1>3, <1>4, <1>5, <1>6 DEF WellFormed, script

LEMMA BlocksShape ==
  ASSUME NEW d \in Drivers PROVE Len(Blocks(d)) = LastBlock /\ DOMAIN Blocks(d) = 1..LastBlock
  BY DEF Blocks, LastBlock

\* Every block of every driver is well-formed.
LEMMA BlocksWellFormed ==
  ASSUME NEW d \in Drivers, NEW b \in 1..LastBlock
  PROVE  WellFormed(b, Blocks(d)[b])
<1>1. b = 1 => WellFormed(b, Blocks(d)[b])
  BY DatabaseWellFormed DEF Blocks
<1>2. b = 2 => WellFormed(b, Blocks(d)[b])
  BY ModifiersWellFormed DEF Blocks
<1>3. b = 3 => WellFormed(b, Blocks(d)[b])
  BY OneTableBlocks DEF Blocks
<1>4. b = 4 => WellFormed(b, Blocks(d)[b])
  BY OneTableBlocks DEF Blocks
<1>5. b = 5 => WellFormed(b, Blocks(d)[b])
  BY OneTableBlocks DEF Blocks
<1>6. b = 6 => WellFormed(b, Blocks(d)[b])
  BY OneTableBlocks DEF Blocks
<1>7. b = 7 => WellFormed(b, Blocks(d)[b])
  BY TypesWellFormed DEF Blocks
<1>8. b = 8 => WellFormed(b, Blocks(d)[b])
  BY IncrementsWellFormed DEF Blocks
<1>9. b = 9 => WellFormed(b, Blocks(d)[b])
  BY TimestampsWellFormed DEF Blocks
<1>10. b = 10 => WellFormed(b, Blocks(d)[b])
  BY IndexesWellFormed DEF Blocks
<1>11. b = 11 => WellFormed(b, Blocks(d)[b])
  <2>1. d = "QSQLITE" => schemaRenameIndex(d) = <<>>
    BY DEF schemaRenameIndex
  <2>2. WellFormed(11, schemaRenameIndex(d))
    BY <2>1, OneTableBlocks, EmptyWellFormed
  <2> QED
    BY <2>2 DEF Blocks
<1>12. b = 12 => WellFormed(b, Blocks(d)[b])
  BY OneTableBlocks DEF Blocks
<1>13. b = 13 => WellFormed(b, Blocks(d)[b])
  BY OneTableBlocks DEF Blocks
<1>14. b = 14 => WellFormed(b, Blocks(d)[b])
  BY OneTableBlocks DEF Blocks
<1>15. b = 15 => WellFormed(b, Blocks(d)[b])
  BY ModifyWellFormed DEF Blocks
<1>16. b = 16 => WellFormed(b, Blocks(d)[b])
  BY OneTableBlocks DEF Blocks
<1>17. b = 17 => WellFormed(b, Blocks(d)[b])
  BY OneTableBlocks DEF Blocks
<1>18. b = 18 => WellFormed(b, Blocks(d)[b])
  BY OneTableBlocks DEF Blocks
<1>19. b = 19 => WellFormed(b, Blocks(d)[b])
  BY RenameTableWellFormed DEF Blocks
<1> QED
  BY <1>1, <1>2, <1>3, <1>4, <1>5, <1>6, <1>7, <1>8, <1>9, <1>10, <1>11, <1>12, <1>13, <1>14,
     <1>15, <1>16, <1>17, <1>18, <1>19 DEF LastBlock

-----------------------------------------------------------------------------
(* A script followed statement by statement *)

LEMMA HomeIsBlock ==
  ASSUME NEW n PROVE Home(n) \in 0..LastBlock
  BY DEF Home, LastBlock

LEMMA NothingAtStart ==
  ASSUME NEW script, NEW n PROVE ~Made(script, 1, n) /\ ~Touched(script, 1, n)
  BY DEF Made, Touched

LEMMA MadeNext ==
  ASSUME NEW script, NEW p \in Nat \ { 0 }, NEW n
  PROVE  Made(script, p + 1, n) <=>
           Makes(script[p], n) \/ (Made(script, p, n) /\ ~Unmakes(script[p], n))
<1>1. ASSUME Made(script, p + 1, n), ~Makes(script[p], n)
      PROVE  Made(script, p, n) /\ ~Unmakes(script[p], n)
  <2>1. PICK i \in 1..p : /\ Makes(script[i], n)
                          /\ \A j \in (i + 1)..p : ~Unmakes(script[j], n)
    BY <1>1 DEF Made
  <2>2. i \in 1..(p - 1) /\ p \in (i + 1)..p
    BY <1>1, <2>1
  <2> QED
    BY <2>1, <2>2 DEF Made
<1>2. ASSUME Makes(script[p], n) PROVE Made(script, p + 1, n)
  <2>1. p \in 1..((p + 1) - 1) /\ (p + 1)..((p + 1) - 1) = {}
    OBVIOUS
  <2> QED
    BY <1>2, <2>1 DEF Made
<1>3. ASSUME Made(script, p, n), ~Unmakes(script[p], n) PROVE Made(script, p + 1, n)
  <2>1. PICK i \in 1..(p - 1) : /\ Makes(script[i], n)
                                /\ \A j \in (i + 1)..(p - 1) : ~Unmakes(script[j], n)
    BY <1>3 DEF Made
  <2>2. \A j \in (i + 1)..p : ~Unmakes(script[j], n)
    BY <1>3, <2>1
  <2> QED
    BY <2>1, <2>2 DEF Made
<1> QED
  BY <1>1, <1>2, <1>3

LEMMA TouchedNext ==
  ASSUME NEW script, NEW p \in Nat \ { 0 }, NEW n
  PROVE  Touched(script, p + 1, n) <=>
           Touched(script, p, n) \/ n \in { script[p].table, script[p].renamed }
<1>1. \A i : i \in 1..((p + 1) - 1) <=> i \in 1..(p - 1) \/ i = p
  OBVIOUS
<1> QED
  BY <1>1 DEF Touched

LEMMA MadeIsTouched ==
  ASSUME NEW script, NEW p, NEW n, Made(script, p, n) PROVE Touched(script, p, n)
  BY DEF Made, Touched, Makes

\* At its end a script has named all its names, and nothing it has made is left.
LEMMA NothingAtEnd ==
  ASSUME NEW b, NEW script, WellFormed(b, script), NEW n
  PROVE  /\ ~Made(script, Len(script) + 1, n)
         /\ n \in namesOf(script) <=> Touched(script, Len(script) + 1, n)
<1>1. Len(script) \in Nat /\ DOMAIN script = 1..Len(script)
  BY DEF WellFormed
<1>2. \A p \in 1..Len(script) : Makes(script[p], n) =>
        \E q \in (p + 1)..Len(script) : Unmakes(script[q], n)
  BY DEF WellFormed
<1>3. 1..((Len(script) + 1) - 1) = 1..Len(script)
  BY <1>1
<1>4. n \in namesOf(script) <=> \E i \in 1..Len(script) : n \in { script[i].table, script[i].renamed }
  BY <1>1 DEF namesOf
<1> QED
  BY <1>2, <1>3, <1>4, (Len(script) + 1) - 1 = Len(script) DEF Made, Touched

-----------------------------------------------------------------------------
(* The inductive invariant *)

present == tables \union temporaries \union databases

TypeInv ==
  /\ driverName \in Drivers
  /\ block \in 1..(LastBlock + 1)
  /\ running \in { "running", "completed", "failed" }
  /\ running = "running" /\ block <= LastBlock => position \in 1..(Len(currentBlock) + 1)
  /\ running = "completed" => block = LastBlock + 1

\* A name is in the store of its block, and a name of its block's script.
StoresTyped ==
  /\ \A n \in databases : Home(n) = DatabaseBlock
  /\ \A n \in temporaries : Home(n) = TemporaryBlock
  /\ \A n \in tables : Home(n) \notin { DatabaseBlock, TemporaryBlock }
  /\ \A n \in present : Home(n) >= 1 /\ n \in namesOf(Blocks(driverName)[Home(n)])

\* Nothing is left of the blocks the run has left.
PassedClean == running # "failed" => \A n \in present : Home(n) >= block

\* Of the names the block has used so far those exist that it has made.
Followed ==
  running = "running" /\ block <= LastBlock =>
    \A n \in namesOf(currentBlock) : Touched(currentBlock, position, n) =>
      (n \in present <=> Made(currentBlock, position, n))

\* The run has not used a name it found.
FoundUntouched ==
  running = "running" =>
    \A n \in found : /\ Home(n) >= block
                     /\ block <= LastBlock => ~Touched(currentBlock, position, n)

IInv == TypeInv /\ StoresTyped /\ PassedClean /\ Followed /\ FoundUntouched /\ FoundTablesStay

\* The invariant without the current block: what the steps rely on.
LEMMA CurrentBlock ==
  ASSUME IInv, running = "running", block <= LastBlock
  PROVE  /\ block \in 1..LastBlock
         /\ WellFormed(block, currentBlock)
         /\ Len(currentBlock) \in Nat /\ DOMAIN currentBlock = 1..Len(currentBlock)
         /\ position \in 1..(Len(currentBlock) + 1)
<1>1. block \in 1..LastBlock /\ driverName \in Drivers
  BY DEF IInv, TypeInv, LastBlock
<1>2. WellFormed(block, currentBlock)
  BY <1>1, BlocksWellFormed DEF currentBlock
<1> QED
  BY <1>1, <1>2 DEF IInv, TypeInv, WellFormed

LEMMA InitInv == Init => IInv
<1> SUFFICES ASSUME Init PROVE IInv
  OBVIOUS
<1>1. driverName \in Drivers /\ block = 1 /\ position = 1 /\ running = "running"
  BY DEF Init
<1>2. Len(currentBlock) \in Nat
  BY <1>1, BlocksWellFormed DEF currentBlock, WellFormed, LastBlock
<1>3. TypeInv
  BY <1>1, <1>2 DEF TypeInv, LastBlock
<1>4. present = {} /\ found = {}
  BY DEF Init, present
<1>5. StoresTyped /\ PassedClean /\ FoundUntouched /\ FoundTablesStay
  BY <1>4 DEF Init, StoresTyped, PassedClean, FoundUntouched, FoundTablesStay, present
<1>6. Followed
  BY <1>1, NothingAtStart DEF Followed
<1> QED
  BY <1>3, <1>5, <1>6 DEF IInv

\* What a statement of the current block is like.
LEMMA Issued ==
  ASSUME IInv, issuing
  PROVE  /\ running = "running" /\ block \in 1..LastBlock
         /\ position \in Nat \ { 0 } /\ position \in 1..Len(currentBlock)
         /\ StatementOk(block, statement)
         /\ statement.op \in { "alter", "rename" } =>
              Made(currentBlock, position, statement.table)
         /\ statement.op \in { "alter", "rename", "dropIfExists", "dropDatabaseIfExists" } =>
              Touched(currentBlock, position, statement.table)
         /\ { statement.table, statement.renamed } \subseteq namesOf(currentBlock)
<1>1. running = "running" /\ block <= LastBlock
  BY BlocksShape DEF issuing, IInv, TypeInv
<1>2. /\ WellFormed(block, currentBlock) /\ block \in 1..LastBlock
      /\ Len(currentBlock) \in Nat /\ DOMAIN currentBlock = 1..Len(currentBlock)
  BY <1>1, CurrentBlock
<1>3. position \in 1..Len(currentBlock)
  BY <1>1, <1>2, CurrentBlock DEF issuing
<1>4. position \in Nat \ { 0 }
  BY <1>2, <1>3
<1> QED
  BY <1>1, <1>2, <1>3, <1>4 DEF WellFormed, statement, namesOf

LEMMA PresentAfter ==
  ASSUME IInv, issuing, Effect(statement), NEW n
  PROVE  n \in present' <=>
           Makes(statement, n) \/ (n \in present /\ ~Unmakes(statement, n))
<1> DEFINE s == statement
<1>1. StatementOk(block, s) /\ block \in 1..LastBlock
  BY Issued
<1>2. StoresTyped
  BY DEF IInv
<1> HIDE DEF s
<1>3. Effect(s)
  BY DEF s
<1>4. CASE block = DatabaseBlock
  <2>1. s.op \in { "createDatabase", "dropDatabaseIfExists" } /\ s.renamed = s.table
        /\ Home(s.table) = DatabaseBlock
    BY <1>1, <1>4 DEF StatementOk, OpsOf
  <2>2. s.table \notin tables /\ s.table \notin temporaries
    BY <1>2, <2>1 DEF StoresTyped, DatabaseBlock, TemporaryBlock
  <2>3. n \in present' <=> Makes(s, n) \/ (n \in present /\ ~Unmakes(s, n))
    BY <1>3, <2>1, <2>2 DEF Effect, present, Makes, Unmakes
  <2> QED
    BY <2>3 DEF s
<1>5. CASE block = TemporaryBlock
  <2>1. s.op \in { "temporary", "dropIfExists" } /\ s.renamed = s.table
        /\ Home(s.table) = TemporaryBlock
    BY <1>1, <1>5 DEF StatementOk, OpsOf, DatabaseBlock, TemporaryBlock
  <2>2. s.table \notin tables /\ s.table \notin databases
    BY <1>2, <2>1 DEF StoresTyped, DatabaseBlock, TemporaryBlock
  <2>3. n \in present' <=> Makes(s, n) \/ (n \in present /\ ~Unmakes(s, n))
    BY <1>3, <2>1, <2>2 DEF Effect, present, Makes, Unmakes
  <2> QED
    BY <2>3 DEF s
<1>6. CASE block \notin { DatabaseBlock, TemporaryBlock }
  <2>1. s.op \in { "create", "alter", "dropIfExists", "rename" }
        /\ (s.op # "rename" => s.renamed = s.table)
        /\ Home(s.table) \notin { DatabaseBlock, TemporaryBlock }
    BY <1>1, <1>6 DEF StatementOk, OpsOf
  <2>2. s.table \notin temporaries /\ s.table \notin databases
    BY <1>2, <2>1 DEF StoresTyped
  <2>3. n \in present' <=> Makes(s, n) \/ (n \in present /\ ~Unmakes(s, n))
    BY <1>3, <2>1, <2>2 DEF Effect, present, Makes, Unmakes
  <2> QED
    BY <2>3 DEF s
<1> QED
  BY <1>4, <1>5, <1>6

\* A found name is not one the statement is about.
LEMMA FoundIsOther ==
  ASSUME IInv, issuing, ~Refused(statement), NEW n \in found
  PROVE  n \notin { statement.table, statement.renamed }
<1> DEFINE s == statement
<1>1. StatementOk(block, s) /\ block \in 1..LastBlock /\ running = "running"
  BY Issued
<1>2. n \in obstacles /\ ~Touched(currentBlock, position, n)
  BY <1>1 DEF IInv, FoundTablesStay, FoundUntouched, LastBlock
<1>3. s.op \in { "alter", "rename", "dropIfExists", "dropDatabaseIfExists" } => n # s.table
  BY <1>2, Issued
<1>4. StoresTyped
  BY DEF IInv
<1>5. ~Refused(s)
  OBVIOUS
<1> HIDE DEF s
<1>6. s.op \in { "createDatabase", "dropDatabaseIfExists", "temporary", "create", "alter",
                 "dropIfExists", "rename" }
  BY <1>1 DEF StatementOk, OpsOf
<1>7. CASE s.op \in { "create", "rename" }
  <2>1. Home(s.renamed) # DatabaseBlock /\ s.renamed \notin tables
    BY <1>1, <1>5, <1>7 DEF StatementOk, OpsOf, Refused, DatabaseBlock, TemporaryBlock
  <2>2. n # s.renamed
    BY <1>2, <1>4, <2>1 DEF obstacles, StoresTyped
  <2>3. n # s.table
    BY <1>1, <1>3, <1>7, <2>2 DEF StatementOk
  <2> QED
    BY <2>2, <2>3 DEF s
<1>8. CASE s.op = "createDatabase"
  <2>1. Home(s.table) = DatabaseBlock /\ s.renamed = s.table
        /\ (driverName # "QSQLITE" => s.table \notin databases)
    BY <1>1, <1>5, <1>8 DEF StatementOk, OpsOf, Refused, RefusesDatabase, DatabaseBlock,
       TemporaryBlock
  <2>2. n # s.table
    BY <1>2, <1>4, <2>1 DEF obstacles, StoresTyped
  <2> QED
    BY <2>1, <2>2 DEF s
<1>9. CASE s.op = "temporary"
  <2>1. Home(s.table) = TemporaryBlock /\ s.renamed = s.table
    BY <1>1, <1>9 DEF StatementOk, OpsOf, DatabaseBlock, TemporaryBlock
  <2>2. n # s.table
    BY <1>2, <1>4, <2>1 DEF obstacles, StoresTyped, DatabaseBlock, TemporaryBlock
  <2> QED
    BY <2>1, <2>2 DEF s
<1>10. CASE s.op \in { "alter", "dropIfExists", "dropDatabaseIfExists" }
  BY <1>1, <1>3, <1>10 DEF StatementOk, s
<1> QED
  BY <1>6, <1>7, <1>8, <1>9, <1>10

-----------------------------------------------------------------------------
(* The steps *)

\* A statement puts names into the stores of their blocks and takes none that
\* the run found.
LEMMA SucceedsStores ==
  ASSUME IInv, Succeeds PROVE StoresTyped' /\ FoundTablesStay'
<1> DEFINE s == statement
<1>1. /\ StatementOk(block, s) /\ block \in 1..LastBlock
      /\ s.renamed \in namesOf(currentBlock)
  BY Issued DEF Succeeds
<1>2. StoresTyped /\ FoundTablesStay
  BY DEF IInv
<1>3. \A n \in found : n # s.table
  BY FoundIsOther DEF Succeeds
<1>4. \A n : n \in present' => n = s.renamed \/ n \in present
  BY PresentAfter DEF Succeeds, Makes
<1>5. driverName' = driverName /\ found' = found
  BY DEF Succeeds
<1>6. Home(s.renamed) = block /\ s.renamed \in namesOf(Blocks(driverName)[block])
  BY <1>1 DEF StatementOk, currentBlock
<1>7. Effect(s)
  BY DEF Succeeds
<1> HIDE DEF s
<1>8. \A n \in present' : Home(n) >= 1 /\ n \in namesOf(Blocks(driverName)[Home(n)])
  BY <1>1, <1>2, <1>4, <1>6 DEF StoresTyped
<1>9. \A n \in databases' : Home(n) = DatabaseBlock
  <2>1. s.op = "createDatabase" => block = DatabaseBlock /\ s.table = s.renamed
    BY <1>1 DEF StatementOk, OpsOf
  <2> QED
    BY <1>2, <1>6, <1>7, <2>1 DEF Effect, StoresTyped
<1>10. \A n \in temporaries' : Home(n) = TemporaryBlock
  <2>1. s.op = "temporary" => block = TemporaryBlock /\ s.table = s.renamed
    BY <1>1 DEF StatementOk, OpsOf
  <2> QED
    BY <1>2, <1>6, <1>7, <2>1 DEF Effect, StoresTyped
<1>11. \A n \in tables' : Home(n) \notin { DatabaseBlock, TemporaryBlock }
  <2>1. s.op \in { "create", "rename" } => block \notin { DatabaseBlock, TemporaryBlock }
    BY <1>1 DEF StatementOk, OpsOf
  <2>2. s.op = "create" => s.table = s.renamed
    BY <1>1 DEF StatementOk
  <2> QED
    BY <1>2, <1>6, <1>7, <2>1, <2>2 DEF Effect, StoresTyped
<1>12. StoresTyped'
  BY <1>5, <1>8, <1>9, <1>10, <1>11 DEF StoresTyped
<1>13. FoundTablesStay'
  <2> SUFFICES ASSUME NEW n \in found PROVE n \in obstacles'
    BY <1>5 DEF FoundTablesStay
  <2>1. n \in obstacles /\ n # s.table
    BY <1>2, <1>3 DEF FoundTablesStay
  <2>2. n \in tables => n \in tables'
    BY <1>7, <2>1 DEF Effect
  <2>3. n \in databases => n \in databases'
    BY <1>7, <2>1 DEF Effect
  <2> QED
    BY <1>5, <2>1, <2>2, <2>3 DEF obstacles
<1> QED
  BY <1>12, <1>13

LEMMA SucceedsInv == IInv /\ Succeeds => IInv'
<1> SUFFICES ASSUME IInv, Succeeds PROVE IInv'
  OBVIOUS
<1> DEFINE s == statement
           script == currentBlock
<1>1. /\ running = "running" /\ block \in 1..LastBlock
      /\ position \in Nat \ { 0 } /\ position \in 1..Len(script)
      /\ StatementOk(block, s)
      /\ s = script[position]
  BY Issued DEF Succeeds, statement
<1>2. UNCHANGED <<driverName, block, running, found>> /\ position' = position + 1
      /\ currentBlock' = currentBlock
  BY DEF Succeeds, currentBlock
<1>3. \A n : n \in present' <=> Makes(s, n) \/ (n \in present /\ ~Unmakes(s, n))
  BY PresentAfter DEF Succeeds
<1>4. \A n : Touched(script, position + 1, n) <=>
               Touched(script, position, n) \/ n \in { s.table, s.renamed }
  BY <1>1, TouchedNext
<1>5. \A n : Made(script, position + 1, n) <=>
               Makes(s, n) \/ (Made(script, position, n) /\ ~Unmakes(s, n))
  BY <1>1, MadeNext
<1>6. Len(script) \in Nat
  BY <1>1, CurrentBlock DEF LastBlock
<1>7. TypeInv /\ PassedClean /\ Followed /\ FoundUntouched
  BY DEF IInv
<1>8. StoresTyped' /\ FoundTablesStay'
  BY SucceedsStores
<1>9. s.op \in { "alter", "rename", "dropIfExists", "dropDatabaseIfExists" } =>
        Touched(script, position, s.table)
  BY Issued DEF Succeeds
<1>10. \A n \in found : n \notin { s.table, s.renamed }
  BY FoundIsOther DEF Succeeds
<1>11. ~(s.op = "create" /\ s.table \in present)
  <2>1. ~Refused(s)
    BY DEF Succeeds
  <2>2. s.op = "create" => Home(s.table) \notin { DatabaseBlock, TemporaryBlock }
    BY <1>1 DEF StatementOk, OpsOf
  <2>3. StoresTyped
    BY DEF IInv
  <2> QED
    BY <2>1, <2>2, <2>3 DEF Refused, present, StoresTyped
<1> HIDE DEF s, script
<1>12. TypeInv'
  BY <1>1, <1>2, <1>6, <1>7 DEF TypeInv, script
<1>13. PassedClean'
  BY <1>1, <1>2, <1>3, <1>7 DEF PassedClean, Makes, StatementOk, LastBlock
<1>14. Followed'
  <2> SUFFICES ASSUME NEW n \in namesOf(script), Touched(script, position + 1, n)
               PROVE  n \in present' <=> Made(script, position + 1, n)
    BY <1>1, <1>2 DEF Followed, script
  <2>1. CASE Touched(script, position, n)
    <3>1. n \in present <=> Made(script, position, n)
      BY <1>1, <1>7, <2>1 DEF Followed, LastBlock, script
    <3> QED
      BY <1>3, <1>5, <3>1
  <2>2. CASE ~Touched(script, position, n)
    <3>1. n \in { s.table, s.renamed } /\ ~Made(script, position, n)
      BY <1>4, <2>2, MadeIsTouched
    <3>2. Makes(s, n)
      BY <1>1, <1>9, <2>2, <3>1 DEF StatementOk, OpsOf, Makes
    <3> QED
      BY <1>3, <1>5, <3>2
  <2> QED
    BY <2>1, <2>2
<1>15. FoundUntouched'
  BY <1>1, <1>2, <1>4, <1>7, <1>10 DEF FoundUntouched, LastBlock, script
<1> QED
  BY <1>8, <1>12, <1>13, <1>14, <1>15 DEF IInv

\* When a block ends, no name of it is left, and none of those found is its.
LEMMA BlockEnds ==
  ASSUME IInv, endOfBlock
  PROVE  /\ block \in 1..LastBlock
         /\ \A n \in present : Home(n) > block
<1>1. running = "running" /\ block <= LastBlock /\ driverName \in Drivers
  BY BlocksShape DEF endOfBlock, IInv, TypeInv
<1>2. /\ WellFormed(block, currentBlock) /\ block \in 1..LastBlock
      /\ position = Len(currentBlock) + 1
  BY <1>1, CurrentBlock DEF endOfBlock
<1>3. ASSUME NEW n \in present PROVE Home(n) > block
  <2>1. Home(n) >= block /\ n \in namesOf(Blocks(driverName)[Home(n)])
    BY <1>1 DEF IInv, PassedClean, StoresTyped
  <2>2. ASSUME Home(n) = block PROVE FALSE
    <3>1. n \in namesOf(currentBlock)
      BY <2>1, <2>2 DEF currentBlock
    <3>2. Touched(currentBlock, position, n) /\ ~Made(currentBlock, position, n)
      BY <1>2, <3>1, NothingAtEnd
    <3> QED
      BY <1>1, <3>1, <3>2 DEF IInv, Followed
  <2>3. block \in Nat /\ Home(n) \in Nat
    BY <1>2, HomeIsBlock DEF LastBlock
  <2> QED
    BY <2>1, <2>2, <2>3
<1> QED
  BY <1>2, <1>3

LEMMA endOfBlockInv == IInv /\ endOfBlock => IInv'
<1> SUFFICES ASSUME IInv, endOfBlock PROVE IInv'
  OBVIOUS
<1>1. /\ block \in 1..LastBlock /\ running = "running" /\ driverName \in Drivers
      /\ \A n \in present : Home(n) > block
  BY BlockEnds DEF endOfBlock, IInv, TypeInv
<1>2. /\ UNCHANGED <<driverName, tables, temporaries, databases, running, runs, found>>
      /\ block' = block + 1 /\ position' = 1
      /\ present' = present
  BY DEF endOfBlock, stores, present
<1>3. block' <= LastBlock => Len(currentBlock') \in Nat
  <2> SUFFICES ASSUME block' <= LastBlock PROVE Len(currentBlock') \in Nat
    OBVIOUS
  <2>1. block' \in 1..LastBlock
    BY <1>1, <1>2 DEF LastBlock
  <2>2. WellFormed(block', currentBlock')
    BY <1>1, <1>2, <2>1, BlocksWellFormed DEF currentBlock
  <2> QED
    BY <2>2 DEF WellFormed
<1>4. TypeInv'
  BY <1>1, <1>2, <1>3 DEF TypeInv, LastBlock
<1>5. StoresTyped' /\ FoundTablesStay'
  BY <1>2 DEF IInv, StoresTyped, FoundTablesStay, obstacles
<1>6. PassedClean'
  BY <1>1, <1>2, HomeIsBlock DEF PassedClean, LastBlock
<1>7. Followed'
  BY <1>2, NothingAtStart DEF Followed
<1>8. found \subseteq present
  BY DEF IInv, FoundTablesStay, obstacles, present
<1>9. FoundUntouched'
  BY <1>1, <1>2, <1>8, HomeIsBlock, NothingAtStart DEF FoundUntouched, LastBlock
<1> QED
  BY <1>4, <1>5, <1>6, <1>7, <1>9 DEF IInv

LEMMA endOfTestInv == IInv /\ endOfTest => IInv'
<1> SUFFICES ASSUME IInv, endOfTest PROVE IInv'
  OBVIOUS
<1>1. driverName \in Drivers /\ block \in 1..(LastBlock + 1)
  BY DEF IInv, TypeInv
<1>2. block > LastBlock
  BY <1>1, BlocksShape DEF endOfTest
<1>3. block = LastBlock + 1
  BY <1>1, <1>2 DEF LastBlock
<1> QED
  BY <1>3 DEF endOfTest, stores, IInv, TypeInv, StoresTyped, PassedClean, Followed,
              FoundUntouched, FoundTablesStay, obstacles, present

LEMMA FailsInv == IInv /\ Fails => IInv'
<1> SUFFICES ASSUME IInv, Fails PROVE IInv'
  OBVIOUS
<1>1. present' \subseteq present
  BY DEF Fails, present
<1> QED
  BY <1>1 DEF Fails, IInv, TypeInv, StoresTyped, PassedClean, Followed, FoundUntouched,
              FoundTablesStay, obstacles

LEMMA nextRunInv == IInv /\ nextRun => IInv'
<1> SUFFICES ASSUME IInv, nextRun PROVE IInv'
  OBVIOUS
<1>1. /\ UNCHANGED <<driverName, tables, databases>> /\ temporaries' = {}
      /\ block' = 1 /\ position' = 1 /\ running' = "running" /\ found' = obstacles
      /\ driverName \in Drivers
  BY DEF nextRun, IInv, TypeInv
<1>2. Len(currentBlock') \in Nat
  BY <1>1, BlocksWellFormed DEF currentBlock, WellFormed, LastBlock
<1>3. TypeInv'
  BY <1>1, <1>2 DEF TypeInv, LastBlock
<1>4. present' \subseteq present
  BY <1>1 DEF present
<1>5. StoresTyped'
  BY <1>1, <1>4 DEF IInv, StoresTyped
<1>6. FoundTablesStay'
  BY <1>1 DEF FoundTablesStay, obstacles
<1>7. PassedClean'
  BY <1>1, <1>5, HomeIsBlock DEF PassedClean, StoresTyped, LastBlock
<1>8. Followed'
  BY <1>1, NothingAtStart DEF Followed
<1>9. found' \subseteq present'
  BY <1>1 DEF obstacles, present
<1>10. FoundUntouched'
  BY <1>1, <1>5, <1>9, HomeIsBlock, NothingAtStart DEF FoundUntouched, StoresTyped, LastBlock
<1> QED
  BY <1>3, <1>5, <1>6, <1>7, <1>8, <1>10 DEF IInv

LEMMA NextInv == IInv /\ [Next]_vars => IInv'
<1> SUFFICES ASSUME IInv, [Next]_vars PROVE IInv'
  OBVIOUS
<1>1. CASE UNCHANGED vars
  BY <1>1 DEF vars, stores, IInv, TypeInv, StoresTyped, PassedClean, Followed, FoundUntouched,
              FoundTablesStay, obstacles, present, currentBlock
<1> QED
  BY <1>1, SucceedsInv, endOfBlockInv, endOfTestInv, FailsInv, nextRunInv DEF Next

LEMMA Invariance == Spec => []IInv
  BY InitInv, NextInv, PTL DEF Spec

-----------------------------------------------------------------------------
(* The properties *)

\* A run of TestSchemaBuilder that completes leaves no table and no database
\* behind, in however many runs and whatever the failed ones left.
THEOREM CompletedRunCleansTheorem == Spec => []CompletedRunCleans
<1>1. IInv => CompletedRunCleans
  <2> SUFFICES ASSUME IInv, running = "completed" PROVE present = {}
    BY DEF CompletedRunCleans, present
  <2> QED
    BY HomeIsBlock DEF IInv, TypeInv, PassedClean, LastBlock
<1> QED
  BY <1>1, Invariance, PTL

\* TestSchemaBuilder alters and renames only tables that exist and that the
\* same run has created.
THEOREM AltersItsOwnTheorem == Spec => []AltersItsOwn
<1>1. IInv => AltersItsOwn
  <2> SUFFICES ASSUME IInv, issuing, statement.op \in { "alter", "rename" }
               PROVE  statement.table \in tables \ found
    BY DEF AltersItsOwn
  <2> DEFINE n == statement.table
  <2>1. /\ running = "running" /\ block \in 1..LastBlock
        /\ StatementOk(block, statement)
        /\ Made(currentBlock, position, n)
        /\ n \in namesOf(currentBlock)
    BY Issued
  <2>2. Touched(currentBlock, position, n)
    BY <2>1, MadeIsTouched
  <2>3. n \in present /\ n \notin found
    BY <2>1, <2>2 DEF IInv, Followed, FoundUntouched, LastBlock
  <2>4. Home(n) \notin { DatabaseBlock, TemporaryBlock }
    BY <2>1 DEF StatementOk, OpsOf
  <2>5. n \in tables
    BY <2>3, <2>4 DEF IInv, StoresTyped, present
  <2> QED
    BY <2>3, <2>5
<1> QED
  BY <1>1, Invariance, PTL

\* A run never drops, renames or replaces a table that it found, nor on MySQL
\* and PostgreSQL a database; the file of SQLite's database is no leftover.
THEOREM FoundTablesStayTheorem == Spec => []FoundTablesStay
<1>1. IInv => FoundTablesStay
  BY DEF IInv
<1> QED
  BY <1>1, Invariance, PTL

-----------------------------------------------------------------------------
(* The refinement of Leftovers *)

HomesOf(names) == { Home(n) : n \in names }

\* The dirty blocks are those of the names in use.
LEMMA DirtyBlocks ==
  ASSUME driverName \in Drivers, NEW names,
         \A n \in names : Home(n) >= 1 /\ n \in namesOf(Blocks(driverName)[Home(n)])
  PROVE  dirtyBlocks(names) = HomesOf(names)
<1> DEFINE script(b) == Blocks(driverName)[b]
<1>1. DOMAIN NamesOf[driverName] = 1..LastBlock
      /\ \A b \in 1..LastBlock : NamesOf[driverName][b] = namesOf(script(b))
  BY BlocksShape DEF NamesOf
<1>2. \A b \in 1..LastBlock : \A n \in namesOf(script(b)) : Home(n) = b
  BY BlocksWellFormed DEF namesOf, WellFormed, StatementOk
<1> HIDE DEF script
<1>3. \A n \in names : Home(n) \in 1..LastBlock /\ n \in namesOf(script(Home(n)))
  BY HomeIsBlock DEF LastBlock, script
<1>4. \A b : b \in dirtyBlocks(names) <=> b \in HomesOf(names)
  BY <1>1, <1>2, <1>3 DEF dirtyBlocks, HomesOf
<1> QED
  BY <1>4

Dirt ==
  /\ dirtyBlocks(obstacles) = HomesOf(obstacles)
  /\ dirtyBlocks(found) = HomesOf(found)
  /\ HomesOf(obstacles) \subseteq 1..LastBlock
  /\ Len(Blocks("QMYSQL")) = LastBlock /\ Len(Blocks(driverName)) = LastBlock

LEMMA DirtNow == IInv => Dirt
<1> SUFFICES ASSUME IInv PROVE Dirt
  OBVIOUS
<1>1. driverName \in Drivers /\ found \subseteq obstacles /\ StoresTyped
  BY DEF IInv, TypeInv, FoundTablesStay
<1>2. \A n \in obstacles : Home(n) >= 1 /\ n \in namesOf(Blocks(driverName)[Home(n)])
  BY <1>1 DEF StoresTyped, obstacles, present
<1>3. \A n \in obstacles : Home(n) \in 1..LastBlock
  BY <1>2, HomeIsBlock DEF LastBlock
<1>4. dirtyBlocks(obstacles) = HomesOf(obstacles)
  BY <1>1, <1>2, DirtyBlocks
<1>5. dirtyBlocks(found) = HomesOf(found)
  BY <1>1, <1>2, DirtyBlocks
<1>6. Len(Blocks("QMYSQL")) = LastBlock /\ Len(Blocks(driverName)) = LastBlock
  BY <1>1, BlocksShape DEF Drivers
<1> QED
  BY <1>3, <1>4, <1>5, <1>6 DEF Dirt, HomesOf

LEMMA DirtNext == IInv' => Dirt'
  BY DirtNow, PTL

LEMMA InitRefines == Init => L!Init
<1> SUFFICES ASSUME Init PROVE L!Init
  OBVIOUS
<1>1. IInv
  BY InitInv
<1>2. Dirt
  BY <1>1, DirtNow
<1>3. obstacles = {} /\ found = {}
  BY DEF Init, obstacles
<1>4. HomesOf(obstacles) = {} /\ HomesOf(found) = {}
  BY <1>3 DEF HomesOf
<1> QED
  BY <1>2, <1>4 DEF Init, L!Init, Dirt

\* A statement that succeeds changes only its own block, and cleans it only of
\* what this run has made.
LEMMA SucceedsRefines == IInv /\ IInv' /\ Succeeds => L!Work
<1> SUFFICES ASSUME IInv, IInv', Succeeds PROVE L!Work
  OBVIOUS
<1>1. Dirt /\ Dirt'
  BY DirtNow, DirtNext
<1>2. running = "running" /\ block \in 1..LastBlock /\ StatementOk(block, statement)
  BY Issued DEF Succeeds
<1>3. UNCHANGED <<driverName, block, running, found>> /\ Effect(statement)
  BY DEF Succeeds
<1>4. Home(statement.table) = block /\ Home(statement.renamed) = block
      /\ (statement.op # "rename" => statement.renamed = statement.table)
  BY <1>2 DEF StatementOk
<1>5. \A n : Home(n) # block => (n \in obstacles' <=> n \in obstacles)
  BY <1>3, <1>4 DEF Effect, obstacles
<1>6. HomesOf(obstacles') \ { block } = HomesOf(obstacles) \ { block }
  BY <1>5 DEF HomesOf
<1>7. HomesOf(found) \subseteq HomesOf(obstacles')
  BY <1>3 DEF HomesOf, IInv, FoundTablesStay
<1>8. block \in HomesOf(obstacles) \ HomesOf(obstacles') => block \notin HomesOf(found)
  BY <1>7
<1>9. block \in 1..block
  BY <1>2
<1>10. dirtyBlocks(found)' = dirtyBlocks(found)
  BY <1>1, <1>3 DEF Dirt
<1>11. /\ dirtyBlocks(obstacles)' \in SUBSET (1..LastBlock)
       /\ dirtyBlocks(obstacles)' \ dirtyBlocks(obstacles) \subseteq 1..block
       /\ dirtyBlocks(obstacles) \ dirtyBlocks(obstacles)' \subseteq (1..block) \ dirtyBlocks(found)
  BY <1>1, <1>6, <1>8, <1>9 DEF Dirt
<1>12. Len(Blocks("QMYSQL")) = LastBlock
  BY <1>1 DEF Dirt
<1>13. block <= LastBlock
  BY <1>2 DEF LastBlock
<1>14. L!Blocks = 1..LastBlock
  BY <1>12 DEF L!Blocks
<1> QED
  BY <1>2, <1>3, <1>10, <1>11, <1>12, <1>13, <1>14 DEF L!Work

\* A block ends only when no name of it or of the blocks before is in use.
LEMMA endOfBlockRefines == IInv /\ IInv' /\ endOfBlock => L!Pass
<1> SUFFICES ASSUME IInv, IInv', endOfBlock PROVE L!Pass
  OBVIOUS
<1>1. Dirt /\ Dirt'
  BY DirtNow, DirtNext
<1>2. block \in 1..LastBlock /\ \A n \in present : Home(n) > block
  BY BlockEnds
<1>3. UNCHANGED <<driverName, tables, databases, running, found>> /\ running = "running"
      /\ block' = block + 1
  BY DEF endOfBlock, stores
<1>4. obstacles' = obstacles
  BY <1>3 DEF obstacles
<1>5. dirtyBlocks(obstacles)' = dirtyBlocks(obstacles) /\ dirtyBlocks(found)' = dirtyBlocks(found)
  BY <1>1, <1>3, <1>4 DEF Dirt
<1>6. \A n \in obstacles : Home(n) > block
  BY <1>2 DEF obstacles, present
<1>7. \A c \in HomesOf(obstacles) : c > block
  BY <1>6 DEF HomesOf
<1>8. (1..block) \intersect dirtyBlocks(obstacles) = {}
  BY <1>1, <1>2, <1>7 DEF Dirt, LastBlock
<1>9. block <= LastBlock /\ Len(Blocks("QMYSQL")) = LastBlock
  BY <1>1, <1>2 DEF Dirt, LastBlock
<1> QED
  BY <1>3, <1>5, <1>8, <1>9 DEF L!Pass

LEMMA endOfTestRefines == IInv /\ IInv' /\ endOfTest => L!Complete
<1> SUFFICES ASSUME IInv, IInv', endOfTest PROVE L!Complete
  OBVIOUS
<1>1. Dirt /\ Dirt'
  BY DirtNow, DirtNext
<1>2. block' = LastBlock + 1
  BY DEF IInv, TypeInv, endOfTest
<1>3. UNCHANGED <<driverName, tables, databases, block, found>> /\ running = "running"
      /\ running' = "completed"
  BY DEF endOfTest, stores
<1>4. obstacles' = obstacles
  BY <1>3 DEF obstacles
<1> QED
  BY <1>1, <1>2, <1>3, <1>4 DEF L!Complete, Dirt

LEMMA FailsRefines == IInv /\ IInv' /\ Fails => L!Fail
<1> SUFFICES ASSUME IInv, IInv', Fails PROVE L!Fail
  OBVIOUS
<1>1. Dirt /\ Dirt'
  BY DirtNow, DirtNext
<1>2. UNCHANGED <<driverName, tables, databases, block, found>> /\ running = "running"
      /\ running' = "failed"
  BY DEF Fails
<1>3. obstacles' = obstacles
  BY <1>2 DEF obstacles
<1> QED
  BY <1>1, <1>2, <1>3 DEF L!Fail, Dirt

LEMMA nextRunRefines == IInv /\ IInv' /\ nextRun => L!Restart
<1> SUFFICES ASSUME IInv, IInv', nextRun PROVE L!Restart
  OBVIOUS
<1>1. Dirt /\ Dirt'
  BY DirtNow, DirtNext
<1>2. /\ UNCHANGED <<driverName, tables, databases>> /\ running # "running"
      /\ running' = "running" /\ block' = 1 /\ found' = obstacles
  BY DEF nextRun
<1>3. obstacles' = obstacles
  BY <1>2 DEF obstacles
<1> QED
  BY <1>1, <1>2, <1>3 DEF L!Restart, Dirt

LEMMA NextRefines == IInv /\ IInv' /\ [Next]_vars => [L!Next]_(L!vars)
<1> SUFFICES ASSUME IInv, IInv', [Next]_vars PROVE [L!Next]_(L!vars)
  OBVIOUS
<1>1. CASE UNCHANGED vars
  <2>1. UNCHANGED <<driverName, tables, databases, running, block, found>>
    BY <1>1 DEF vars, stores
  <2>2. obstacles' = obstacles
    BY <2>1 DEF obstacles
  <2>3. Dirt /\ Dirt'
    BY DirtNow, DirtNext
  <2> QED
    BY <2>1, <2>2, <2>3 DEF L!vars, Dirt
<1> QED
  BY <1>1, SucceedsRefines, endOfBlockRefines, endOfTestRefines, FailsRefines, nextRunRefines
  DEF Next, L!Next

\* The runs of TestSchemaBuilder implement Leftovers with blocks that heal
\* nothing: each step is a step of Leftovers or leaves its variables unchanged.
THEOREM ImplementsLeftoversTheorem == Spec => ImplementsLeftovers
  BY InitRefines, NextRefines, Invariance, PTL DEF Spec, L!Spec, ImplementsLeftovers

-----------------------------------------------------------------------------
(* What the refinement gives *)

P == INSTANCE Leftovers_proofs WITH
       N     <- Len(Blocks("QMYSQL")),
       heals <- [b \in 1..Len(Blocks("QMYSQL")) |-> {}],
       at    <- block,
       phase <- running,
       left  <- dirtyBlocks(obstacles),
       found <- dirtyBlocks(found)

\* Once a failed run has left a table, or on MySQL and PostgreSQL a database,
\* under the name of a block, no later run of TestSchemaBuilder completes until
\* somebody removes it by hand.
LeftoversStopEveryRun ==
  [](running = "failed" /\ obstacles # {} => [](running # "completed"))

THEOREM LeftoversStopEveryRunTheorem == Spec => LeftoversStopEveryRun
<1>1. P!LeftoversAssumption
  <2>1. Len(Blocks("QMYSQL")) = LastBlock
    BY BlocksShape DEF Drivers
  <2> QED
    BY <2>1 DEF P!LeftoversAssumption, P!Blocks, LastBlock
<1>2. P!Spec => P!StuckForGood
  BY <1>1, P!StuckForGoodTheorem
<1>3. Spec => P!Spec
  <2>1. L!Init => P!Init
    BY DEF L!Init, P!Init
  <2>2. [L!Next]_(L!vars) => [P!Next]_(P!vars)
    BY DEF L!Next, L!Work, L!Pass, L!Complete, L!Fail, L!Restart, L!HealedBy, L!Blocks, L!vars,
           P!Next, P!Work, P!Pass, P!Complete, P!Fail, P!Restart, P!HealedBy, P!Blocks, P!vars
  <2> QED
    BY <2>1, <2>2, ImplementsLeftoversTheorem, PTL DEF ImplementsLeftovers, L!Spec, P!Spec
<1>4. IInv /\ running = "failed" /\ obstacles # {} =>
        running = "failed" /\ dirtyBlocks(obstacles) \ P!Healable # {}
  <2> SUFFICES ASSUME IInv, obstacles # {} PROVE dirtyBlocks(obstacles) \ P!Healable # {}
    OBVIOUS
  <2>1. dirtyBlocks(obstacles) = HomesOf(obstacles) /\ HomesOf(obstacles) # {}
    BY DirtNow DEF Dirt, HomesOf
  <2>2. P!Healable = {}
    BY DEF P!Healable, P!HealedBy
  <2> QED
    BY <2>1, <2>2
<1> QED
  BY <1>2, <1>3, <1>4, Invariance, PTL DEF P!StuckForGood, LeftoversStopEveryRun

=============================================================================
