------------------------------ MODULE RowBlocks ------------------------------
(***************************************************************************)
(* The rows TestQueryBuilder and TestTinyOrm write, over several runs of   *)
(* the playground on one database.  testConnection*Thread() runs the two   *)
(* tests after each other on the connection's own database; they are one   *)
(* list of blocks here, without the blocks that only read.  No block is in *)
(* a transaction: what a run has written when a statement throws, when a   *)
(* Q_ASSERT of a debug build fails or when the process is killed is what   *)
(* the next run meets.                                                     *)
(*                                                                         *)
(* A row stands for its name, with underscores for blanks; the names are   *)
(* unique in their tables and between them.  Of the seeded rows the        *)
(* columns the tests change matter.  Rows of pivot tables go with the rows *)
(* they join; timestamps, and columns that are counted up in every run,    *)
(* are left out.                                                           *)
(***************************************************************************)
EXTENDS Naturals, Sequences, FiniteSets

CONSTANT MaxRuns   \* bound: runs of the playground

ASSUME RowAssumption == MaxRuns \in Nat \ { 0 }

(* Statements on rows. *)
Statement(op, of, to) == [op |-> op, of |-> of, to |-> to]
Insert(n)          == Statement("insert", { n }, { n })
InsertOrIgnore(ns) == Statement("insertOrIgnore", ns, ns)
FirstOrCreate(n)   == Statement("firstOrCreate", { n }, { n })
AssertAbsent(n)    == Statement("assertAbsent", { n }, {})
Rename(n, m)       == Statement("rename", { n }, { m })
Remove(ns)         == Statement("remove", ns, {})
RemoveTwo(ns)      == Statement("removeTwo", ns, {})

(* Statements on columns of seeded rows; a Restore writes the seed's value. *)
Change(c)     == Statement("change", { c }, {})
UpdateJoin(c) == Statement("updateJoin", { c }, {})   \* with a column of a file
Restore(c)    == Statement("restore", { c }, {})
AssertSeed(c) == Statement("assertSeed", { c }, {})

(* Statements on columns that are changed by their own value: read it, change *)
(* it, write what was read, and change it back.                               *)
Remember(c)   == Statement("remember", { c }, {})
ChangeBy(c)   == Statement("changeBy", { c }, {})
SetBack(c)    == Statement("setBack", { c }, {})
Increment(c, d) == Statement("increment", { c }, { d })   \* and change d
Decrement(c, d) == Statement("decrement", { c }, { d })   \* and restore d

CountedColumns ==
  { "torrents[2].name", "files.filepath", "file_properties.name", "torrents[1].size" }

-----------------------------------------------------------------------------
(* TestQueryBuilder::testConnection(). *)

\* The files of torrent 5 with an index above 2: those of the block itself and
\* the file of the associate() blocks below.
FilesOfTorrent5 ==
  { "qrs.mkv", "qrs-update.mkv", "ghi.mkv", "def.mkv", "test5_file4.mkv_of_5" }

insertOrIgnore ==
  << Insert("qrs.mkv"), InsertOrIgnore({ "qrs.mkv", "ghi.mkv", "def.mkv" }) >>

updateDeleteWithLimitJoin ==
  << Rename("qrs.mkv", "qrs-update.mkv"), UpdateJoin("torrents[5]"),
     RemoveTwo(FilesOfTorrent5), Remove(FilesOfTorrent5) >>

updateRestore == << Restore("torrents[5]") >>

\* Later statements of the test need the rows of the earlier ones.
queryBuilderWrites == insertOrIgnore \o updateDeleteWithLimitJoin \o updateRestore

(* TestTinyOrm::testConnection(). *)

\* A function that saves new models and then removes them, in the same order.
SavedAndRemoved(names) ==
  [i \in 1..(2 * Len(names)) |->
     IF i <= Len(names) THEN Insert(names[i]) ELSE Remove({ names[i - Len(names)] })]

destroy == SavedAndRemoved(<< "tag500", "tag501" >>)

\* Mutant: the model that is found is not looked at.
findOrNewUnchecked == <<>>

findOrNewFound == << AssertSeed("torrents[3].name") >>

firstOrCreateFound == << FirstOrCreate("test3") >>

firstOrCreateNotFound == << FirstOrCreate("test50"), Remove({ "test50" }) >>

\* Mutant: the values are read when they have been changed.
pushThenRemember ==
  LET t == "torrents[2].name"
      f == "files.filepath"
      p == "file_properties.name"
  IN  << ChangeBy(t), ChangeBy(f), ChangeBy(p), Remember(t), Remember(f), Remember(p),
         SetBack(t), SetBack(f), SetBack(p) >>

pushLazyLoad ==
  LET t == "torrents[2].name"
      f == "files.filepath"
      p == "file_properties.name"
  IN  << Remember(t), Remember(f), Remember(p), ChangeBy(t), ChangeBy(f), ChangeBy(p),
         SetBack(t), SetBack(f), SetBack(p) >>

timestampsInsert == SavedAndRemoved(<< "test1_file2.mkv" >>)

incrementDecrement ==
  << Increment("torrents[1].size", "torrents[1].progress"),
     Decrement("torrents[1].size", "torrents[1].progress") >>

\* Mutant: the model is created unless an earlier run has left it.
createUnlessLeft ==
  << FirstOrCreate("test100"), Rename("test100", "test100_create"),
     Remove({ "test100_create" }) >>

create ==
  << Insert("test100"), Rename("test100", "test100_create"), Remove({ "test100_create" }) >>

\* Mutant: the second update is forgotten.
updateWithoutRestore == << Change("torrents[3].progress") >>

update == << Change("torrents[3].progress"), Restore("torrents[3].progress") >>

isDirty == << Change("torrents[3].name"), Restore("torrents[3].name") >>

wasChanged == << Change("torrents[3].name"), Restore("torrents[3].name") >>

\* The file is saved with torrent 5, then with torrent 2, and removed.
associate ==
  << Insert("test5_file4.mkv_of_5"), Rename("test5_file4.mkv_of_5", "test5_file4.mkv_of_2"),
     Remove({ "test5_file4.mkv_of_2" }) >>

associateWithId == SavedAndRemoved(<< "test5_file4.mkv_of_5" >>)

attachWithCustomPivot         == SavedAndRemoved(<< "tag100", "tag101" >>)
attachWithPivot               == SavedAndRemoved(<< "test100", "test101" >>)
attachIdsWithCustomPivot      == SavedAndRemoved(<< "tag100", "tag101" >>)
attachIdsWithPivot            == SavedAndRemoved(<< "test100", "test101" >>)
detachWithCustomPivot         == SavedAndRemoved(<< "tag100", "tag101" >>)
detachWithPivot               == SavedAndRemoved(<< "test100", "test101" >>)
syncWithCustomPivot ==
  SavedAndRemoved(<< "tag100", "tag101", "tag102", "tag103" >>)
syncWithPivot ==
  SavedAndRemoved(<< "test100", "test101", "test102", "test103" >>)

hasOneOrMany ==
  << AssertAbsent("test1_fileXX.mkv"),
     FirstOrCreate("test1_fileXX.mkv"), Change("files[1].size"),
     FirstOrCreate("test1_fileYY.mkv"),
     Remove({ "test1_fileXX.mkv" }), Remove({ "test1_fileYY.mkv" }),
     Restore("files[1].size") >>

\* tag21 is looked for under an id it never gets.  A tag20 or tag40 that is
\* left is found if it is attached to torrent 2; one that is not attached
\* passes the assertion and makes the insert throw.
belongsToMany ==
  << AssertAbsent("tag20"), FirstOrCreate("tag20"), Insert("tag21"),
     Change("tags[4].note"), FirstOrCreate("tag40"),
     Remove({ "tag20" }), Remove({ "tag21" }), Remove({ "tag40" }),
     Restore("tags[4].note") >>

Blocks ==
  << queryBuilderWrites, destroy, findOrNewFound, firstOrCreateFound,
     firstOrCreateNotFound, pushLazyLoad, timestampsInsert, incrementDecrement,
     create, update, isDirty, wasChanged, associate, associateWithId,
     attachWithCustomPivot, attachWithPivot, attachIdsWithCustomPivot,
     attachIdsWithPivot, detachWithCustomPivot, detachWithPivot,
     syncWithCustomPivot, syncWithPivot, hasOneOrMany, belongsToMany >>

-----------------------------------------------------------------------------
VARIABLES
  onMysql,    \* the connection is Mysql; SQLite and PostgreSQL otherwise
  debug,      \* a build with assertions, of the current run
  rows,       \* the tests' rows in the database
  changed,    \* columns of seeded rows that do not hold the seed's value
  counted,    \* CountedColumns -> how often its value has been changed by itself
  memory,     \* CountedColumns -> counted as the run has read it
  block,      \* position in Blocks
  position,   \* position in the block
  running,    \* "running", "aborting" (an assertion has failed), "completed",
              \* "failed" (threw, aborted or was killed)
  runs,       \* runs started
  found       \* what the run found in the database (history)

database == <<rows, changed, counted>>
vars == <<onMysql, debug, database, memory, block, position, running, runs, found>>

NotCounted == [c \in CountedColumns |-> 0]

Init ==
  /\ onMysql \in BOOLEAN /\ debug \in BOOLEAN
  /\ rows = {} /\ changed = {} /\ counted = NotCounted /\ memory = NotCounted
  /\ block = 1 /\ position = 1
  /\ running = "running" /\ runs = 1
  /\ found = [rows |-> {}, changed |-> {}, counted |-> NotCounted]

statement == Blocks[block][position]

\* The run has a statement to issue.
issuing ==
  /\ running = "running"
  /\ block <= Len(Blocks)
  /\ position <= Len(Blocks[block])

\* The name of a row; the file of torrent 5 keeps its name in torrent 2.
NameOf(row) ==
  IF row \in { "test5_file4.mkv_of_5", "test5_file4.mkv_of_2" }
  THEN "test5_file4.mkv" ELSE row

\* Torrent 3 of the seed has the name test3 as long as it is not renamed.
Taken(row, others) ==
  \/ \E other \in others : NameOf(other) = NameOf(row)
  \/ row = "test3" /\ "torrents[3].name" \notin changed

\* The statement throws, and writes nothing: a name is taken.
Throws(s) ==
  \/ s.op = "insert"  /\ \E row \in s.to : Taken(row, rows)
  \/ s.op = "rename"  /\ \E row \in s.to : Taken(row, rows \ s.of)
  \/ s.op = "restore" /\ "torrents[3].name" \in s.of /\ "test3" \in rows

\* The assertions on what a statement has affected.  Mysql joins torrent 5 and
\* the file, and counts the rows whose values the update changes.  The other
\* assertions on numbers of rows hold when the statements before have not
\* thrown and their assertions have not failed.
affectedDiffers(s) ==
  \/ s.op = "insertOrIgnore" /\ Cardinality(s.of \ rows) # 2
  \/ s.op = "updateJoin"     /\ onMysql /\ s.of \subseteq changed
  \/ s.op = "removeTwo"      /\ Cardinality(s.of \intersect rows) < 2

\* The assertions that a model is not in the database, or is the seed's.
modelExists(s)  == s.op = "assertAbsent" /\ s.of \intersect rows # {}
modelDiffers(s) == s.op = "assertSeed"   /\ s.of \intersect changed # {}

AssertionFails(s) == debug /\ (affectedDiffers(s) \/ modelExists(s) \/ modelDiffers(s))

\* The rows after a statement that does not throw.
RowsAfter(s) ==
  CASE s.op \in { "insert", "insertOrIgnore" } -> { rows \union s.to }
    [] s.op = "firstOrCreate" -> { rows \union { row \in s.to : ~Taken(row, rows) } }
    [] s.op = "rename"        -> { (rows \ s.of) \union s.to }
    [] s.op = "remove"        -> { rows \ s.of }
    [] s.op = "removeTwo"     ->
         { rows \ two : two \in { S \in SUBSET (s.of \intersect rows) :
             Cardinality(S) = 2 \/ (Cardinality(S) < 2 /\ S = s.of \intersect rows) } }
    [] OTHER                  -> { rows }

\* Runs a statement.
Effect(s) ==
  /\ rows' \in RowsAfter(s)
  /\ changed' = CASE s.op \in { "change", "updateJoin" } -> changed \union s.of
                  [] s.op = "restore"   -> changed \ s.of
                  [] s.op = "increment" -> changed \union s.to
                  [] s.op = "decrement" -> changed \ s.to
                  [] OTHER              -> changed
  /\ counted' = [c \in CountedColumns |->
                   IF c \notin s.of THEN counted[c]
                   ELSE CASE s.op \in { "changeBy", "increment" } -> counted[c] + 1
                          [] s.op = "decrement" -> counted[c] - 1
                          [] s.op = "setBack"   -> memory[c]
                          [] OTHER              -> counted[c]]
  /\ memory' = [c \in CountedColumns |->
                  IF s.op = "remember" /\ c \in s.of THEN counted[c] ELSE memory[c]]

-----------------------------------------------------------------------------
(* Actions. *)

Succeeds ==
  /\ issuing /\ ~Throws(statement) /\ ~AssertionFails(statement)
  /\ Effect(statement)
  /\ position' = position + 1
  /\ UNCHANGED <<onMysql, debug, block, running, runs, found>>

\* The statement does what it does; the assertion after it aborts the process.
Aborts ==
  /\ issuing /\ ~Throws(statement) /\ AssertionFails(statement)
  /\ Effect(statement)
  /\ running' = "aborting"
  /\ UNCHANGED <<onMysql, debug, block, position, runs, found>>

endOfBlock ==
  /\ running = "running" /\ block <= Len(Blocks)
  /\ position > Len(Blocks[block])
  /\ block' = block + 1 /\ position' = 1
  \* The models of the block go out of scope.
  /\ memory' = NotCounted
  /\ UNCHANGED <<onMysql, debug, database, running, runs, found>>

\* logQueryCounters() of TestTinyOrm.
endOfTests ==
  /\ running = "running" /\ block > Len(Blocks)
  /\ running' = "completed"
  /\ UNCHANGED <<onMysql, debug, database, memory, block, position, runs, found>>

\* A statement throws, for a name that is taken or for anything else, and
\* nothing in the tests catches it; any assertion fails; or the process is
\* killed.  What was written before is committed.
Fails ==
  /\ running \in { "running", "aborting" }
  /\ running' = "failed" /\ memory' = NotCounted
  /\ UNCHANGED <<onMysql, debug, database, block, position, runs, found>>

\* The playground is started again, in the same build or in the other one.
nextRun ==
  /\ running \in { "completed", "failed" } /\ runs < MaxRuns
  /\ debug' \in BOOLEAN
  /\ runs' = runs + 1
  /\ running' = "running" /\ block' = 1 /\ position' = 1
  /\ found' = [rows |-> rows, changed |-> changed, counted |-> counted]
  /\ UNCHANGED <<onMysql, database, memory>>

Next == Succeeds \/ Aborts \/ endOfBlock \/ endOfTests \/ Fails \/ nextRun

Spec == Init /\ [][Next]_vars

-----------------------------------------------------------------------------
(* Properties. *)

\* A run that completes leaves none of the tests' rows and every column of the
\* seeded rows at the seed's value, whatever the runs before it left.
CompletedRunCleans == running = "completed" => rows = {} /\ changed = {}

\* The columns that are changed by their own value end a run as it found them:
\* a completed run neither drifts nor repairs what a failed run left half way,
\* and no run goes below what it found.
CountedBack ==
  /\ running = "completed" => counted = found.counted
  /\ \A c \in CountedColumns : counted[c] >= found.counted[c]

\* When a failed run has left torrent 3 renamed, firstOrCreate() makes a second
\* torrent under its name, which keeps the first one from ever getting it back.
\* A debug build stops at an assertion before it does that.
DebugMakesNoCopy ==
  debug /\ "test3" \in rows => "test3" \in found.rows

\* The rows a block brings into the database.
writtenBy(script) ==
  UNION { script[i].to : i \in { j \in DOMAIN script :
            script[j].op \in { "insert", "insertOrIgnore", "firstOrCreate", "rename" } } }

FirstBlock(P(_)) ==
  CHOOSE b \in DOMAIN Blocks : P(Blocks[b]) /\ \A a \in 1..(b - 1) : ~P(Blocks[a])

BlockOf(function) == FirstBlock(LAMBDA script : script = function)

BlockOfRow ==
  [row \in UNION { writtenBy(Blocks[b]) : b \in DOMAIN Blocks } |->
     FirstBlock(LAMBDA script : row \in writtenBy(script))]

BlockOfRenamed == BlockOf(isDirty)

\* The first blocks that cannot work on these rows, or on a renamed torrent 3.
dirtyBlocks(left, differing) ==
  { BlockOfRow[row] : row \in left \ { "test3" } }
    \union (IF "torrents[3].name" \in differing THEN { BlockOfRenamed } ELSE {})

\* The restores that take rows of earlier runs with them: the removal by
\* torrent and index of TestQueryBuilder, and the blocks that look for a row
\* before they create it.
Heals ==
  [b \in DOMAIN Blocks |->
     CASE b = BlockOf(queryBuilderWrites) -> { b, BlockOf(associate) }
       [] b \in { BlockOf(firstOrCreateNotFound), BlockOf(hasOneOrMany),
                  BlockOf(belongsToMany) } -> { b }
       [] OTHER -> {}]

L == INSTANCE Leftovers WITH
       N     <- Len(Blocks),
       heals <- Heals,
       at    <- block,
       phase <- IF running = "aborting" THEN "running" ELSE running,
       left  <- dirtyBlocks(rows, changed),
       found <- dirtyBlocks(found.rows, found.changed)

ASSUME BlocksAssumption == L!LeftoversAssumption

\* What a failed run leaves in any block but those of Heals is never removed
\* and stops every later run, in the block that left it or before.
ImplementsLeftovers == L!Spec

=============================================================================
