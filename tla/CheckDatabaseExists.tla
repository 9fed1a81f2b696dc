------------------------- MODULE CheckDatabaseExists -------------------------
(***************************************************************************)
(* The SQLite file of the check_database_exists test, over several runs    *)
(* of TestConnection.  Two connections have the same file: one throws if   *)
(* the file does not exist, the other creates it.  The test wants it       *)
(* absent, then present, and removes it; a run may be killed anywhere.     *)
(***************************************************************************)
EXTENDS Naturals

CONSTANT MaxRuns   \* bound: runs of the playground

ASSUME CheckAssumption == MaxRuns \in Nat \ { 0 }

VARIABLES
  sharesDelete,   \* the platform removes a file that is open (not Windows)
  debug,          \* a build with assertions, of the current run
  testSQLite,     \* the run's ConnectionsToCount contains sqlite
  file,           \* CheckDatabaseExistsFile: "absent", "empty" or "with tbl1"
  opened,         \* the process' connections that have the file open
  pc,             \* next step of the test
  stopped,        \* why the run ended before its end, or "no"
  runs            \* runs started

run  == <<debug, testSQLite, runs>>
vars == <<sharesDelete, run, file, opened, pc, stopped>>

Init ==
  /\ sharesDelete \in BOOLEAN /\ debug \in BOOLEAN /\ testSQLite \in BOOLEAN
  /\ file = "absent" /\ opened = {}
  /\ pc = "testSQLite" /\ stopped = "no" /\ runs = 1

TypeOK ==
  /\ sharesDelete \in BOOLEAN /\ debug \in BOOLEAN /\ testSQLite \in BOOLEAN
  /\ file \in { "absent", "empty", "with tbl1" }
  /\ opened \subseteq { "sqlite_check_exists_true", "sqlite_check_exists_false" }
  /\ pc \in { "testSQLite", "removeFile", "checkExistsTrue", "open", "createTable",
              "removeTrue", "removeFalse", "removeFileAgain", "completed" }
  /\ stopped \in { "no", "killed", "assertion", "qFatal", "QueryError" }
  /\ runs \in 1..MaxRuns

at(step)    == pc = step /\ stopped = "no"
goto(step)  == pc' = step /\ UNCHANGED stopped
stop(why)   == stopped' = why /\ UNCHANGED pc

\* Configuration::Sqlite decides for the special connections, too.
decide ==
  /\ at("testSQLite")
  /\ goto(IF testSQLite THEN "removeFile" ELSE "completed")
  /\ UNCHANGED <<sharesDelete, run, file, opened>>

\* QFile::remove(), whose result nobody looks at, and the assertion after it.
\* It fails on a file that is not there, or that is open where that matters.
QFile_remove(next) ==
  LET left == IF opened = {} \/ sharesDelete THEN "absent" ELSE file
  IN  /\ file' = left
      /\ IF debug /\ left # "absent" THEN stop("assertion") ELSE goto(next)
      /\ UNCHANGED <<sharesDelete, run, opened>>

\* Mutant: the file is not removed before the test.
leaveFile ==
  /\ at("removeFile") /\ goto("checkExistsTrue")
  /\ UNCHANGED <<sharesDelete, run, file, opened>>

removeFile == at("removeFile") /\ QFile_remove("checkExistsTrue")

\* Without a file the connection throws SQLiteDatabaseDoesNotExistError, as it
\* has to.  With one, the statement is executed on it, and whether that throws
\* or not, TINY_VERIFY_EXCEPTION_THROWN ends the process with qFatal().
checkExistsTrue ==
  /\ at("checkExistsTrue")
  /\ IF file = "absent"
     THEN goto("open") /\ UNCHANGED <<file, opened>>
     ELSE stop("qFatal") /\ file' = "with tbl1"
            /\ opened' = opened \union { "sqlite_check_exists_true" }
  /\ UNCHANGED <<sharesDelete, run>>

\* sqlite_check_exists_false opens the file and creates it for that.
checkExistsFalseOpens ==
  /\ at("open")
  /\ opened' = opened \union { "sqlite_check_exists_false" }
  /\ file' = IF file = "absent" THEN "empty" ELSE file
  /\ goto("createTable")
  /\ UNCHANGED <<sharesDelete, run>>

\* create table tbl1 throws if there is one.
checkExistsFalseCreates ==
  /\ at("createTable")
  /\ IF file = "with tbl1" THEN stop("QueryError") ELSE goto("removeTrue")
  /\ file' = "with tbl1"
  /\ UNCHANGED <<sharesDelete, run, opened>>

\* DB::removeConnection() closes what is open.
removeConnection(name, next) ==
  /\ opened' = opened \ { name }
  /\ goto(next)
  /\ UNCHANGED <<sharesDelete, run, file>>

\* Mutant: only one of the two connections is removed.
removeConnectionTrueOnly ==
  at("removeTrue") /\ removeConnection("sqlite_check_exists_true", "removeFileAgain")

removeConnections ==
  \/ at("removeTrue")  /\ removeConnection("sqlite_check_exists_true", "removeFalse")
  \/ at("removeFalse") /\ removeConnection("sqlite_check_exists_false", "removeFileAgain")

removeFileAgain == at("removeFileAgain") /\ QFile_remove("completed")

\* The process is killed, or throws for a reason of its own.
killed ==
  /\ stopped = "no" /\ pc # "completed"
  /\ stop("killed") /\ opened' = {}
  /\ UNCHANGED <<sharesDelete, run, file>>

nextRun ==
  /\ (stopped # "no" \/ pc = "completed") /\ runs < MaxRuns
  /\ runs' = runs + 1
  /\ debug' \in BOOLEAN /\ testSQLite' \in BOOLEAN
  /\ opened' = {} /\ pc' = "testSQLite" /\ stopped' = "no"
  /\ UNCHANGED <<sharesDelete, file>>

Next ==
  \/ decide \/ removeFile \/ checkExistsTrue
  \/ checkExistsFalseOpens \/ checkExistsFalseCreates
  \/ removeConnections \/ removeFileAgain
  \/ killed \/ nextRun

Spec == Init /\ [][Next]_vars

-----------------------------------------------------------------------------
(* Properties. *)

\* The test does not stand in its own way: whatever state of the file a killed
\* run left, and on every platform, no exception, assertion or qFatal() of the
\* test ends a later run.
OnlyKilled == stopped \in { "no", "killed" }

\* A run that does the test leaves no file behind, which on Windows depends on
\* the connections being removed before it.
CompletedRunCleans == pc = "completed" /\ testSQLite => file = "absent"

=============================================================================
