------------------------------ MODULE TestOrm ------------------------------
(***************************************************************************)
(* One run of the playground: main() calls connectToDatabase() and run()   *)
(* of class TestOrm, which runs the tests on every connection to test,     *)
(* some in the main thread and some in worker threads of their own, joins  *)
(* the workers and logs the Application Summary.                           *)
(*                                                                         *)
(* Every thread runs PlayTests the same way: it resets the counters of its *)
(* connections, executes statements, and logs the counters.  A PlayTest    *)
(* that fails throws: the exception of a worker ends that worker, the      *)
(* exception of the main thread ends the run after the workers are joined. *)
(***************************************************************************)
EXTENDS QueryCounters

CONSTANTS
  TestsToInvoke,    \* the tests of Configuration::TestsToInvoke
  MaxStatements     \* bound: statements per PlayTest

ASSUME TestOrmAssumption == MaxStatements \in Nat

VARIABLES
  pc,                        \* thread -> where it is, named after the code
  playing,                   \* thread -> between reset and log of a PlayTest
  ConnectionsToTest,         \* chosen by the user, never changed
  ConnectionsToRunInThread,  \* chosen by the user, then santized
  untested,                  \* connections the loop of testAllConnections() has left
  summary,                   \* the Application Summary, items = <<>> before it is logged
  exitCode,
  running,                   \* thread -> tally of its current PlayTest (history)
  played                     \* thread -> tally of its logged PlayTests (history)

runVars == <<ConnectionsToTest, ConnectionsToRunInThread, untested>>
history == <<running, played>>
outcome == <<summary, exitCode>>
vars == <<threadLocalStorage, globalsVars, dbVars, logVars, counterVars, pc,
          playing, runVars, outcome, history>>

Tests == { "TestForPlay", "TestAllOtherTests", "TestConnection",
           "TestQueryBuilderDbSpecific", "TestQueryBuilder", "TestTinyOrm",
           "TestSchemaBuilder" }

MainLabels ==
  { "connectToDatabase", "throwIfUnsupportedEnv", "initConnsInThreadsTesting",
    "nextConnection", "joinThreads", "replayThrdLogToConsole",
    "saveCountersForAppSummary", "countersLocked", "countersPushed",
    "logApplicationSummary", "return", "unwinding", "done" } \union Tests

WorkerLabels ==
  { "notStarted", "throwIfNoConfig", "addConnections", "TestQueryBuilder",
    "TestTinyOrm", "saveCountersForAppSummary", "countersLocked",
    "countersPushed", "saveLogsFromThread", "logsLocked", "logPushed", "done",
    "failed" }

\* Inside the try block of testConnectionInWorkerThread(), with the flag set.
FlaggedLabels == WorkerLabels \ { "notStarted", "throwIfNoConfig", "failed" }
\* Where a worker can throw.
WorkerTryLabels ==
  { "throwIfNoConfig", "addConnections", "TestQueryBuilder", "TestTinyOrm" }
\* Where the main thread can throw.
MainTryLabels ==
  { "connectToDatabase", "initConnsInThreadsTesting", "nextConnection" }
  \union Tests

\* What a thread executed on the connections it counts; executed also counts
\* its statements on the other connections.
Tally == [statements : Statements, modified : BOOLEAN, executed : Nat]
NoTally == [statements |-> NoStatements, modified |-> FALSE, executed |-> 0]
OneStatement(n, affecting, counted) ==
  [statements |-> [m \in Configurations |-> IF counted /\ m = n THEN 1 ELSE 0],
   modified |-> counted /\ affecting, executed |-> 1]
AddTally(a, b) ==
  [statements |-> [n \in Configurations |-> a.statements[n] + b.statements[n]],
   modified |-> a.modified \/ b.modified, executed |-> a.executed + b.executed]

PcTypeOK ==
  /\ pc \in [Threads -> MainLabels \union WorkerLabels]
  /\ pc[Main] \in MainLabels
  /\ \A w \in Workers : pc[w] \in WorkerLabels

RunTypeOK ==
  /\ playing \in [Threads -> BOOLEAN]
  /\ ConnectionsToTest \in SUBSET RemovableConnections
  /\ ConnectionsToRunInThread \in SUBSET RemovableConnections
  /\ untested \in SUBSET ConnectionsToTest
  /\ summary \in [items : Seq(AppCounterItem), listed : SUBSET Configurations]
  /\ exitCode \in { "none", "success", "failure" }
  /\ running \in [Threads -> Tally]
  /\ played \in [Threads -> Tally]

TypeOK ==
  /\ GlobalsTypeOK /\ DatabaseTypeOK /\ LogTypeOK /\ CountersTypeOK
  /\ PcTypeOK /\ RunTypeOK

Init ==
  /\ GlobalsInit /\ DatabaseInit /\ LogInit /\ CountersInit
  /\ pc = [t \in Threads |->
             IF t = Main THEN "connectToDatabase" ELSE "notStarted"]
  /\ playing = [t \in Threads |-> FALSE]
  /\ ConnectionsToTest \in SUBSET RemovableConnections
  /\ ConnectionsToRunInThread \in SUBSET RemovableConnections
  /\ untested = ConnectionsToTest
  /\ summary = [items |-> <<>>, listed |-> {}]
  /\ exitCode = "none"
  /\ running = [t \in Threads |-> NoTally]
  /\ played = [t \in Threads |-> NoTally]

Goto(t, label) == pc' = [pc EXCEPT ![t] = label]

\* A worker has ended, or was never started: joining it does not block.
Joined(w) == pc[w] \in { "notStarted", "done", "failed" }

-----------------------------------------------------------------------------
(* PlayTests, in any thread *)

\* The label after a test; the schema builder is tested by the main thread.
afterTest(t, test) ==
  CASE test = "TestForPlay"                -> "throwIfUnsupportedEnv"
    [] test = "TestAllOtherTests"          -> "TestConnection"
    [] test = "TestConnection"             -> "TestQueryBuilderDbSpecific"
    [] test = "TestQueryBuilderDbSpecific" -> "initConnsInThreadsTesting"
    [] test = "TestQueryBuilder"           -> "TestTinyOrm"
    [] test = "TestTinyOrm" /\ t = Main    -> "TestSchemaBuilder"
    [] test = "TestTinyOrm" /\ t # Main    -> "saveCountersForAppSummary"
    [] test = "TestSchemaBuilder"          -> "nextConnection"

\* The connections a test of thread t asks for.  (There is no database file for
\* the statement on Sqlite_CheckExistsTrue: the test expects its exception.)
connectionsOf(t, test) ==
  LET default == defaultConnection[Slot(t)]
  IN CASE test = "TestConnection" ->
            { MysqlMainThreadConnection }
            \union IF Sqlite \in toCount(t)
                     THEN { Sqlite_Memory, Sqlite_CheckExistsTrue,
                            Sqlite_CheckExistsFalse }
                     ELSE {}
       [] test = "TestQueryBuilderDbSpecific" ->
            { Mysql_Laravel8, MysqlMainThreadConnection }
       [] test = "TestTinyOrm" -> { default, torrentConnection(default) }
       [] OTHER -> { default }

shouldTest(test) == test \in TestsToInvoke

SkipTest(t) ==
  /\ pc[t] \in Tests /\ ~shouldTest(pc[t])
  /\ Goto(t, afterTest(t, pc[t]))
  /\ UNCHANGED <<threadLocalStorage, globalsVars, dbVars, logVars, counterVars,
                 playing, runVars, outcome, history>>

\* Every test but TestAllOtherTests starts by resetting the counters; its
\* header is the first message it logs.
StartPlayTest(t) ==
  /\ pc[t] \in Tests \ { "TestAllOtherTests" } /\ shouldTest(pc[t])
  /\ ~playing[t]
  /\ resetAllQueryLogCounters(t)
  /\ tinyMessageHandler(t)
  /\ playing' = [playing EXCEPT ![t] = TRUE]
  /\ running' = [running EXCEPT ![t] = NoTally]
  /\ UNCHANGED <<threadLocalStorage, g_inThread, counterVars, pc, runVars,
                 outcome, played>>

\* A PlayTest executes a statement; the history counts it if the thread
\* counts the connection.
PlayTestStatement(t, n, affecting) ==
  /\ playing[t]
  /\ n \in connectionsOf(t, pc[t]) \intersect ormConfigurations[Slot(t)]
  /\ running[t].executed < MaxStatements
  /\ execute(t, n, affecting)
  /\ running' = [running EXCEPT ![t] =
       AddTally(@, OneStatement(n, affecting, n \in toCount(t)))]
  /\ UNCHANGED <<threadLocalStorage, globalsVars, logVars, counterVars, pc,
                 playing, runVars, outcome, played>>

\* A PlayTest ends: logQueryCounters() takes the counters and logs them.
LogPlayTest(t) ==
  /\ playing[t]
  /\ logQueryCounters(t)
  /\ tinyMessageHandler(t)
  /\ playing' = [playing EXCEPT ![t] = FALSE]
  /\ played' = [played EXCEPT ![t] = AddTally(@, running[t])]
  /\ running' = [running EXCEPT ![t] = NoTally]
  /\ Goto(t, afterTest(t, pc[t]))
  /\ UNCHANGED <<threadLocalStorage, g_inThread, runVars, outcome>>

\* TestAllOtherTests neither resets nor logs: "Counting queries not needed
\* here".  Its statements go to the default connection all the same.
OtherTestsStatement ==
  /\ pc[Main] = "TestAllOtherTests" /\ shouldTest(pc[Main])
  /\ \E n \in connectionsOf(Main, pc[Main])
              \intersect ormConfigurations[Slot(Main)] :
       /\ statementsCounter[n] < MaxStatements
       /\ execute(Main, n, FALSE)
  /\ UNCHANGED <<threadLocalStorage, globalsVars, logVars, counterVars, pc,
                 playing, runVars, outcome, history>>

EndOtherTests ==
  /\ pc[Main] = "TestAllOtherTests" /\ shouldTest(pc[Main])
  /\ tinyMessageHandler(Main)
  /\ Goto(Main, afterTest(Main, pc[Main]))
  /\ UNCHANGED <<threadLocalStorage, g_inThread, dbVars, counterVars, playing,
                 runVars, outcome, history>>

-----------------------------------------------------------------------------
(* The main thread *)

connectToDatabase ==
  /\ pc[Main] = "connectToDatabase"
  /\ LET count == computeConnectionsToCountForMainThread(
                    ConnectionsToTest, ConnectionsToRunInThread)
     IN  /\ addAndCount(Main,
              IF ConnectionsInThreads
                THEN configsForMainThrdWhenMultiThrd(ConnectionsToRunInThread)
                ELSE configurationsWhenSingleThread,
              count, getDefaultConnectionName)
         /\ ConnectionsToCount' = [ConnectionsToCount EXCEPT ![Slot(Main)] = count]
  /\ Goto(Main, "TestForPlay")
  /\ UNCHANGED <<threadLocalStorage, globalsVars, logVars, threadCounters,
                 appCounters, playing, runVars, outcome, history>>

\* Mutant: a compiler without thread_local is not refused.
everyEnvSupported == FALSE

\* Multi-threading needs thread-local variables.
unsupportedEnv == ConnectionsInThreads /\ ~threadLocalStorage

throwIfUnsupportedEnv ==
  /\ pc[Main] = "throwIfUnsupportedEnv"
  /\ Goto(Main, IF unsupportedEnv THEN "unwinding" ELSE "TestAllOtherTests")
  /\ UNCHANGED <<threadLocalStorage, globalsVars, dbVars, logVars, counterVars,
                 playing, runVars, outcome, history>>

throwIfConnsToRunEmpty == ConnectionsInThreads /\ ConnectionsToRunInThread = {}

\* Throws without a connection to run in a thread; opening the log file may
\* also fail, see MainThrows.
initConnsInThreadsTesting ==
  /\ pc[Main] = "initConnsInThreadsTesting"
  /\ IF throwIfConnsToRunEmpty
       THEN Goto(Main, "unwinding") /\ UNCHANGED ConnectionsToRunInThread
       ELSE /\ ConnectionsToRunInThread' =
                 santizeConnectionsToRunInThread(ConnectionsToTest,
                                                 ConnectionsToRunInThread)
            /\ Goto(Main, "nextConnection")
  /\ UNCHANGED <<threadLocalStorage, globalsVars, dbVars, logVars, counterVars,
                 playing, ConnectionsToTest, untested, outcome, history>>

\* The order of ConnectionsToTest is the user's: any order is possible.
runsInThread(c) == ConnectionsInThreads /\ c \in ConnectionsToRunInThread

startWorkerThread(c) ==
  /\ pc[Main] = "nextConnection"
  /\ c \in untested /\ runsInThread(c)
  /\ Goto(c, "throwIfNoConfig")
  /\ untested' = untested \ { c }
  /\ UNCHANGED <<threadLocalStorage, globalsVars, dbVars, logVars, counterVars,
                 playing, ConnectionsToTest, ConnectionsToRunInThread, outcome,
                 history>>

testConnectionInMainThread(c) ==
  /\ pc[Main] = "nextConnection"
  /\ c \in untested /\ ~runsInThread(c)
  /\ setDefaultConnection(Main, c)
  /\ Goto(Main, "TestQueryBuilder")
  /\ untested' = untested \ { c }
  /\ UNCHANGED <<threadLocalStorage, globalsVars, logVars, counterVars,
                 playing, ConnectionsToTest, ConnectionsToRunInThread, outcome,
                 history>>

endOfLoop ==
  /\ pc[Main] = "nextConnection"
  /\ untested = {}
  /\ Goto(Main, "joinThreads")
  /\ UNCHANGED <<threadLocalStorage, globalsVars, dbVars, logVars, counterVars,
                 playing, runVars, outcome, history>>

\* Mutant: the main thread goes on without joining.
nobodyJoined == TRUE

allJoined == \A w \in Workers : Joined(w)

\* The end of the block joins the threads, then the default connection of the
\* main thread is restored.
joinThreads ==
  /\ pc[Main] = "joinThreads"
  /\ allJoined
  /\ setDefaultConnection(Main, getDefaultConnectionName)
  /\ Goto(Main, IF IsLoggingToFile THEN "saveCountersForAppSummary"
                                   ELSE "replayThrdLogToConsole")
  /\ UNCHANGED <<threadLocalStorage, globalsVars, logVars, counterVars,
                 playing, runVars, outcome, history>>

replayThrdLogToConsole ==
  /\ pc[Main] = "replayThrdLogToConsole"
  /\ ~g_inThread[Slot(Main)]
  /\ ReplayLog
  /\ UNCHANGED <<threadLocalStorage, globalsVars, dbVars, counterVars, pc,
                 playing, runVars, outcome, history>>

endOfReplay ==
  /\ pc[Main] = "replayThrdLogToConsole"
  /\ IF g_inThread[Slot(Main)]        \* throwIfInThread()
       THEN Goto(Main, "unwinding")
       ELSE /\ logPosition[Main] = Len(logsFromThreads)
            /\ Goto(Main, "saveCountersForAppSummary")
  /\ UNCHANGED <<threadLocalStorage, globalsVars, dbVars, logVars, counterVars,
                 playing, runVars, outcome, history>>

logApplicationSummary ==
  /\ pc[Main] = "logApplicationSummary"
  /\ summary' = [items |-> IF ConnectionsInThreads THEN m_app
                                                   ELSE << threadItem(Main) >>,
                 listed |-> appCountedConnectionsPrintable(ConnectionsToTest)]
  /\ tinyMessageHandler(Main)
  /\ Goto(Main, "return")
  /\ UNCHANGED <<threadLocalStorage, g_inThread, dbVars, counterVars, playing,
                 runVars, exitCode, history>>

returnFromMain ==
  /\ pc[Main] = "return"
  /\ tinyMessageHandler(Main)
  /\ exitCode' = "success"
  /\ Goto(Main, "done")
  /\ UNCHANGED <<threadLocalStorage, g_inThread, dbVars, counterVars, playing,
                 runVars, summary, history>>

\* A statement, an assertion of a test on an exception, opening a connection
\* or the log file, or starting a thread fails.
MainThrows ==
  /\ pc[Main] \in MainTryLabels
  /\ Goto(Main, "unwinding")
  /\ playing' = [playing EXCEPT ![Main] = FALSE]
  /\ UNCHANGED <<threadLocalStorage, globalsVars, dbVars, logVars, counterVars,
                 runVars, outcome, history>>

\* Unwinding joins the workers that were started; main() logs the exception.
CatchInMain ==
  /\ pc[Main] = "unwinding"
  /\ allJoined
  /\ tinyMessageHandler(Main)
  /\ exitCode' = "failure"
  /\ Goto(Main, "done")
  /\ UNCHANGED <<threadLocalStorage, g_inThread, dbVars, counterVars, playing,
                 runVars, summary, history>>

-----------------------------------------------------------------------------
(* Saving the counters of any thread, and the worker threads *)

\* Mutant: the main thread saves logs as a worker does.
afterSaveOfWorker(t) == "saveLogsFromThread"

afterSave(t) == IF t = Main THEN "logApplicationSummary" ELSE "saveLogsFromThread"

unchangedBySave == <<threadLocalStorage, globalsVars, dbVars, logVars,
                     ConnectionsToCount, threadCounters, playing, runVars,
                     outcome, history>>

lockForSave(t) ==
  /\ pc[t] = "saveCountersForAppSummary"
  /\ LockCounters(t)
  /\ Goto(t, "countersLocked")
  /\ UNCHANGED unchangedBySave

addCounters(t) ==
  /\ pc[t] = "countersLocked"
  /\ addCountersForAppSummary(t)
  /\ Goto(t, afterSave(t))
  /\ UNCHANGED unchangedBySave

newCounters(t) ==
  /\ pc[t] = "countersLocked"
  /\ newCountersForAppSummary(t)
  /\ Goto(t, "countersPushed")
  /\ UNCHANGED unchangedBySave

mapCounters(t) ==
  /\ pc[t] = "countersPushed"
  /\ MapCountersAndUnlock(t)
  /\ Goto(t, afterSave(t))
  /\ UNCHANGED unchangedBySave

\* The first steps of testConnectionInWorkerThread().
enterWorker(w) ==
  /\ pc[w] = "throwIfNoConfig"
  /\ w \in Configurations
  /\ setInThread(w, TRUE)
  /\ Goto(w, "addConnections")
  /\ UNCHANGED <<threadLocalStorage, g_logFromThread, dbVars, logVars,
                 counterVars, playing, runVars, outcome, history>>

\* throwIfNonEmptyConn() refuses a connection name outside a worker.
addConnections(w) ==
  /\ pc[w] = "addConnections"
  /\ g_inThread[Slot(w)]
  /\ LET count == computeConnectionsToCountForWorkerThread(w)
     IN  /\ addAndCount(w, configsForWorkerThrdWhenMultiThrd(w), count, w)
         /\ ConnectionsToCount' = [ConnectionsToCount EXCEPT ![Slot(w)] = count]
  /\ Goto(w, "TestQueryBuilder")
  /\ UNCHANGED <<threadLocalStorage, globalsVars, logVars, threadCounters,
                 appCounters, playing, runVars, outcome, history>>

unchangedByLogs == <<threadLocalStorage, globalsVars, dbVars, counterVars,
                     playing, runVars, outcome, history>>

lockForLogs(w) ==
  /\ pc[w] = "saveLogsFromThread"
  /\ LockDataLogStream(w)
  /\ Goto(w, "logsLocked")
  /\ UNCHANGED unchangedByLogs

streamLog(w) ==
  /\ pc[w] = "logsLocked"
  /\ StreamMessage(w)
  /\ UNCHANGED <<pc, unchangedByLogs>>

endOfStream(w) ==
  /\ pc[w] = "logsLocked"
  /\ UnlockDataLogStream(w)
  /\ Goto(w, "done")
  /\ UNCHANGED unchangedByLogs

pushLog(w) ==
  /\ pc[w] = "logsLocked"
  /\ PushLog(w)
  /\ Goto(w, "logPushed")
  /\ UNCHANGED unchangedByLogs

mapLog(w) ==
  /\ pc[w] = "logPushed"
  /\ MapLogAndUnlock(w)
  /\ Goto(w, "done")
  /\ UNCHANGED unchangedByLogs

\* The catch block: the exception is logged to the console, and neither the
\* counters nor the messages of the worker are saved.
WorkerThrows(w) ==
  /\ pc[w] \in WorkerTryLabels
  /\ setInThread(w, FALSE)
  /\ LET message == [thread |-> w, seq |-> emitted[w] + 1]
     IN  /\ console' = Append(console, message)
         /\ emitted' = [emitted EXCEPT ![w] = @ + 1]
  /\ playing' = [playing EXCEPT ![w] = FALSE]
  /\ Goto(w, "failed")
  /\ UNCHANGED <<threadLocalStorage, g_logFromThread, logFile, logsFromThreads,
                 logsFromThreadsMap, mx_dataLogStream, logPosition, dbVars,
                 counterVars, runVars, outcome, history>>

-----------------------------------------------------------------------------
PlayTestStep(t) ==
  \/ SkipTest(t)
  \/ StartPlayTest(t)
  \/ \E n \in Configurations, affecting \in BOOLEAN :
       PlayTestStatement(t, n, affecting)
  \/ LogPlayTest(t)

SaveStep(t) ==
  lockForSave(t) \/ addCounters(t) \/ newCounters(t) \/ mapCounters(t)

MainStep ==
  \/ connectToDatabase
  \/ throwIfUnsupportedEnv
  \/ OtherTestsStatement
  \/ EndOtherTests
  \/ initConnsInThreadsTesting
  \/ \E c \in RemovableConnections :
       startWorkerThread(c) \/ testConnectionInMainThread(c)
  \/ endOfLoop
  \/ joinThreads
  \/ replayThrdLogToConsole
  \/ endOfReplay
  \/ logApplicationSummary
  \/ returnFromMain
  \/ MainThrows
  \/ CatchInMain

SaveLogsStep(w) ==
  \/ lockForLogs(w) \/ streamLog(w) \/ endOfStream(w)
  \/ pushLog(w) \/ mapLog(w)

WorkerStep(w) ==
  enterWorker(w) \/ addConnections(w) \/ SaveLogsStep(w) \/ WorkerThrows(w)

\* The process has ended.
Ended == exitCode # "none" /\ UNCHANGED vars

MainThread == PlayTestStep(Main) \/ SaveStep(Main) \/ MainStep
WorkerThread(w) == PlayTestStep(w) \/ SaveStep(w) \/ WorkerStep(w)

Next == MainThread \/ (\E w \in Workers : WorkerThread(w)) \/ Ended

Spec == Init /\ [][Next]_vars

\* The operating system runs every thread that is not blocked, and the
\* database answers every statement: a thread that can go on goes on.
FairSpec ==
  /\ Spec
  /\ WF_vars(MainThread)
  /\ \A w \in Workers : WF_vars(WorkerThread(w))

=============================================================================
