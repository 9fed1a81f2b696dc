------------------------- MODULE TestOrmProperties -------------------------
(***************************************************************************)
(* What a run of the playground promises, whatever the user tests, runs in *)
(* threads or compiles with, and whichever PlayTests fail.                 *)
(***************************************************************************)
EXTENDS TestOrm

\* Connection names are global to the process (QSqlDatabase), so no two
\* threads may ever open the same one: the main thread has its own MySQL
\* connection "to avoid MySQL connection name collision".
ConnectionNameExclusive ==
  \A t, u \in Threads : t # u => opened[t] \intersect opened[u] = {}

\* g_inThread tells the truth to the message handler and to every check on
\* it: set in a worker from its start to its end, never in the main thread.
\* On a compiler without thread_local this needs throwIfUnsupportedEnv().
InThreadFlagFaithful ==
  /\ ~g_inThread[Slot(Main)]
  /\ \A w \in Workers : pc[w] \in FlaggedLabels => g_inThread[Slot(w)]

\* No thread meets a connection it has no configuration for, although the
\* main thread's configurations are computed before ConnectionsToRunInThread
\* is santized and testAllConnections() decides with the santized list.
ConfigurationPresent ==
  \A t \in Threads : pc[t] \in Tests =>
    connectionsOf(t, pc[t]) \union toCount(t) \subseteq ormConfigurations[Slot(t)]

\* A thread has started to use its thread-local variables.
Started(t) == t = Main \/ pc[t] # "notStarted"

\* Every thread's counters hold exactly the statements its logged PlayTests
\* executed on connections it counts: none of another thread, of a failed
\* PlayTest or of TestAllOtherTests, and none twice.
CountersConserved ==
  \A t \in Threads : Started(t) =>
    /\ m_threadStatementsCounter[Slot(t)] = played[t].statements
    /\ m_threadRecordsModified[Slot(t)] = played[t].modified

\* While nobody holds their mutex, the vectors and the lookup map of the
\* application counters agree, and the main thread is first in all counters.
AppCountersConsistent ==
  m_countersMutex = NoThread =>
    /\ m_app[1].threadName = Main
    /\ \A i \in DOMAIN m_app : m_appCountersMap[m_app[i].threadName] = i - 1
    /\ \A t \in Threads : m_appCountersMap[t] # NotMapped =>
         /\ m_appCountersMap[t] + 1 \in DOMAIN m_app
         /\ m_app[m_appCountersMap[t] + 1].threadName = t

\* A successful run reports the main thread and every worker that did not
\* throw, each once and with all it counted.
SummaryComplete ==
  exitCode = "success" =>
    LET items == summary.items
    IN  /\ { items[i].threadName : i \in DOMAIN items }
             = { Main } \union { w \in Workers : pc[w] = "done" }
        /\ \A i, j \in DOMAIN items :
             items[i].threadName = items[j].threadName => i = j
        /\ \A i \in DOMAIN items :
             LET t == items[i].threadName
             IN  /\ items[i].statements = played[t].statements
                 /\ items[i].modified = played[t].modified

\* The log file holds whole blocks, each of one worker, its messages in order
\* and none of another worker in between; that no worker has two is part of
\* LogDelivered.
LogFileInBlocks ==
  \A i \in 1 .. Len(logFile) :
    \/ i = 1 /\ logFile[i].seq = 1
    \/ i > 1 /\ logFile[i].thread = logFile[i - 1].thread
             /\ logFile[i].seq = logFile[i - 1].seq + 1
    \/ i > 1 /\ logFile[i].seq = 1
             /\ logFile[i - 1].seq = emitted[logFile[i - 1].thread]

\* The messages of a thread that reached the console or the log file.
output(t) == SelectSeq(console \o logFile, LAMBDA m : m.thread = t)

\* The output holds the first n messages of thread t, and no other of its
\* messages, each once and in the order of logging.
HoldsFirst(out, t, n) ==
  /\ \A k \in 1 .. n : \E i \in DOMAIN out : out[i] = [thread |-> t, seq |-> k]
  /\ \A i \in DOMAIN out : out[i].thread = t => out[i].seq \in 1 .. n
  /\ \A i, j \in DOMAIN out :
       i < j /\ out[i].thread = t /\ out[j].thread = t => out[i].seq < out[j].seq

\* After a successful run, every message of the main thread and of every
\* worker that did not throw was output, once and in the order of logging.
LogDelivered ==
  exitCode = "success" =>
    \A t \in Threads : pc[t] = "done" =>
      HoldsFirst(console \o logFile, t, emitted[t])

\* A worker never writes to the console, except to report its exception.
ConsoleNotPolluted ==
  \A i \in DOMAIN console :
    LET t == console[i].thread
    IN  t \in Workers =>
          \/ pc[t] = "failed" /\ console[i].seq = emitted[t]
          \/ allJoined /\ pc[Main] # "nextConnection"

\* The run ends, and no thread outlives it: no thread waits for a mutex or
\* for a join forever, whichever threads throw.
Termination == <>(exitCode # "none" /\ allJoined)

\* "Obtain counted connections for Application summary": a listed connection
\* is one that the main thread or a worker that was started counts.
SummaryListsCounted ==
  exitCode = "success" =>
    summary.listed \subseteq
      toCount(Main) \union UNION { getMappedConnections(w) :
                                   w \in { v \in Workers : pc[v] # "notStarted" } }

\* "Fast lookup map", with the "index of LogFromThreadItem": every entry leads
\* to the log of its thread.
LogsMapConsistent ==
  mx_dataLogStream = NoThread =>
    \A t \in Threads : logsFromThreadsMap[t] # NotMapped =>
      /\ logsFromThreadsMap[t] + 1 \in DOMAIN logsFromThreads
      /\ logsFromThreads[logsFromThreadsMap[t] + 1].threadName = t

\* The messages of a worker are held back only "temporarily": when the run
\* has succeeded, every message of every thread was output.
NoMessageLost ==
  exitCode = "success" =>
    \A t \in Threads : Len(output(t)) = emitted[t]

-----------------------------------------------------------------------------
(* What makes the properties inductive (module TestOrm_proofs) *)

\* A thread between the reset and the log of a PlayTest is in a PlayTest.
PlayingInTest ==
  \A t \in Threads : playing[t] =>
    pc[t] \in Tests \ { "TestAllOtherTests" } /\ shouldTest(pc[t])

\* The workers of the connections the loop has left were not started.
UntestedNotStarted == \A c \in untested : pc[c] = "notStarted"

\* Where the main thread is before it may start workers, and where it is from
\* the check of the environment to the last worker's start.
BeforeLoopLabels ==
  { "connectToDatabase", "TestForPlay", "throwIfUnsupportedEnv",
    "TestAllOtherTests", "TestConnection", "TestQueryBuilderDbSpecific",
    "initConnsInThreadsTesting" }
LoopTestLabels == { "TestQueryBuilder", "TestTinyOrm", "TestSchemaBuilder" }
CheckedLabels ==
  { "TestAllOtherTests", "TestConnection", "TestQueryBuilderDbSpecific",
    "initConnsInThreadsTesting", "nextConnection" } \union LoopTestLabels

\* A worker has been started only after the environment was checked, and only
\* for a connection of the santized ConnectionsToRunInThread.
WorkersAllowed ==
  /\ \A w \in Workers : pc[w] # "notStarted" =>
       ConnectionsInThreads /\ threadLocalStorage /\ w \in ConnectionsToRunInThread
  /\ pc[Main] \in BeforeLoopLabels => \A w \in Workers : pc[w] = "notStarted"
  /\ pc[Main] \in CheckedLabels /\ ConnectionsInThreads => threadLocalStorage

\* A worker keeps to the connections mapped to its own; the main thread, when
\* there are workers, to connections of no worker.
ConnectionShares ==
  /\ \A w \in Workers :
       /\ opened[w] \subseteq getMappedConnections(w)
       /\ pc[w] \in LoopTestLabels => defaultConnection[w] = w
  /\ ConnectionsInThreads =>
       /\ \A n \in opened[Main] : mappedConnection(n) \notin ConnectionsToRunInThread
       /\ defaultConnection[Main] \in
            { Mysql_MainThread } \union (RemovableConnections \ ConnectionsToRunInThread)
       /\ pc[Main] \in LoopTestLabels =>
            defaultConnection[Main] \in RemovableConnections \ ConnectionsToRunInThread

-----------------------------------------------------------------------------
(* What makes the counters inductive (module TestOrm_proofs) *)

\* A thread owns a mutex exactly where the code holds its lock.
MutexesOwned ==
  \A t \in Threads :
    /\ pc[t] \in { "countersLocked", "countersPushed" } <=> m_countersMutex = t
    /\ pc[t] \in { "logsLocked", "logPushed" } <=> mx_dataLogStream = t

\* Where the main thread is once it has joined the workers.
AfterJoinLabels ==
  { "replayThrdLogToConsole", "saveCountersForAppSummary", "countersLocked",
    "countersPushed", "logApplicationSummary", "return", "done" }
JoinedAfterLoop == pc[Main] \in AfterJoinLabels => allJoined

\* The exit code is set by the last step of the main thread.
ExitCodeLast == exitCode # "none" <=> pc[Main] = "done"

\* Only the main thread writes the slots of threads that were not started, and
\* only its own: what holds of a thread's slot holds of the slot of its name.
\* The connections a thread counts are open, in that thread, and counting.
CountedOpened ==
  \A t \in Threads : ConnectionsToCount[t] \subseteq opened[t] \intersect counting

SlotsConserved ==
  \A t \in Threads :
    /\ m_threadStatementsCounter[t] = played[t].statements
    /\ m_threadRecordsModified[t] = played[t].modified

\* During a PlayTest the counters of the connections hold its statements.
PlayTestCounted ==
  \A t \in Threads : playing[t] =>
    /\ \A n \in Configurations :
         running[t].statements[n] =
           IF n \in ConnectionsToCount[t] THEN statementsCounter[n] ELSE 0
    /\ running[t].modified = \E n \in ConnectionsToCount[t] : recordsModified[n]

\* A worker past the save of its counters.
SavedLabels == { "saveLogsFromThread", "logsLocked", "logPushed", "done" }

\* The lookup map leads to the item of its thread; the item pushed last is
\* mapped when the mutex is released.  Workers are mapped once they saved.
AppItemsMapped ==
  /\ m_appCountersMap[Main] = 0
  /\ \A w \in Workers : m_appCountersMap[w] # NotMapped <=> pc[w] \in SavedLabels
  /\ \A t \in Threads : m_appCountersMap[t] # NotMapped =>
       /\ m_appCountersMap[t] + 1 \in DOMAIN m_app
       /\ m_app[m_appCountersMap[t] + 1].threadName = t
  /\ \A i \in DOMAIN m_app : m_appCountersMap[m_app[i].threadName] # i - 1 =>
       i = Len(m_app) /\ pc[m_app[i].threadName] = "countersPushed"
  /\ \A t \in Threads : pc[t] = "countersPushed" =>
       t # Main /\ m_app[Len(m_app)].threadName = t

\* An item holds all its thread counted; that of the main thread, from its save.
AppItemsSaved ==
  \A i \in DOMAIN m_app :
    LET t == m_app[i].threadName
    IN  IF t = Main /\ pc[Main] \notin { "logApplicationSummary", "return", "done" }
          THEN m_app[i].statements = NoStatements /\ ~m_app[i].modified
          ELSE t # Main \/ pc[Main] # "done" =>
                 /\ m_app[i].statements = played[t].statements
                 /\ m_app[i].modified = played[t].modified

\* From its log on, the summary is what SummaryComplete wants it to be.
SummaryOnceLogged ==
  IF pc[Main] = "return" \/ exitCode = "success"
    THEN /\ { summary.items[i].threadName : i \in DOMAIN summary.items }
               = { Main } \union { w \in Workers : pc[w] = "done" }
         /\ \A i, j \in DOMAIN summary.items :
              summary.items[i].threadName = summary.items[j].threadName => i = j
         /\ \A i \in DOMAIN summary.items :
              LET t == summary.items[i].threadName
              IN  /\ summary.items[i].statements = played[t].statements
                  /\ summary.items[i].modified = played[t].modified
    ELSE summary.items = <<>>

\* The connections a thread may use are configured: a worker's share, and for
\* the main thread those that never run in a thread and those it tests itself.
MainConnectedLabels ==
  (BeforeLoopLabels \union CheckedLabels) \ { "connectToDatabase" }
MainConfigured ==
  pc[Main] \in MainConnectedLabels =>
    /\ ConnectionsToCount[Main] \subseteq ormConfigurations[Main]
    /\ Configurations \ (IF ConnectionsInThreads THEN RemovableConnections
                                                 ELSE { Mysql_MainThread })
         \subseteq ormConfigurations[Main]
    /\ \A c \in ConnectionsToTest : ~runsInThread(c) => c \in ormConfigurations[Main]
    /\ defaultConnection[Main] \in ormConfigurations[Main]
    /\ pc[Main] \in LoopTestLabels =>
         defaultConnection[Main] \in ConnectionsToTest

WorkersConfigured ==
  \A w \in Workers : pc[w] \in LoopTestLabels =>
    /\ ConnectionsToCount[w] \subseteq getMappedConnections(w)
    /\ getMappedConnections(w) \subseteq ormConfigurations[w]

\* With no threads, the main thread counts all it lists in the end.
SummaryListed ==
  /\ pc[Main] \notin { "connectToDatabase", "unwinding", "done" } =>
       ConnectionsToCount[Main] = computeConnectionsToCountForMainThread(
                                    ConnectionsToTest, ConnectionsToRunInThread)
  /\ pc[Main] = "return" \/ exitCode = "success" =>
       summary.listed \subseteq ConnectionsToCount[Main]

-----------------------------------------------------------------------------
(* What makes the logs inductive (module Logs_proofs) *)

\* The messages of a worker are held back in order, one by one.
HeldBack ==
  \A w \in Workers : pc[w] # "failed" =>
    g_logFromThread[w] = [i \in 1 .. emitted[w] |-> [thread |-> w, seq |-> i]]

\* A worker streams its log from the start, once it has the mutex, and only to
\* a log file.
PositionsStarted ==
  /\ \A w \in Workers :
       /\ logPosition[w] <= emitted[w]
       /\ pc[w] \notin { "logsLocked", "done" } => logPosition[w] = 0
  /\ ~IsLoggingToFile =>
       logFile = <<>> /\ \A w \in Workers : logPosition[w] = 0

\* The log file ends with a whole block, or with the part of its log that the
\* owner of the mutex has streamed.
LogFileOfWorkers ==
  \A i \in 1 .. Len(logFile) :
    /\ logFile[i].thread \in Workers /\ logFile[i].seq > 0
    /\ pc[logFile[i].thread] \in { "logsLocked", "done" }
LogFileEnd ==
  /\ \A w \in Workers : pc[w] = "logsLocked" /\ logPosition[w] > 0 =>
       Len(logFile) > 0 /\ logFile[Len(logFile)] = [thread |-> w, seq |-> logPosition[w]]
  /\ Len(logFile) > 0 =>
       LET m == logFile[Len(logFile)]
       IN  IF pc[m.thread] = "done" THEN m.seq = emitted[m.thread]
                                    ELSE m.seq = logPosition[m.thread]

\* A worker's message on the console reports its exception, or was replayed.
ConsoleOfWorkers ==
  \A i \in DOMAIN console :
    LET t == console[i].thread
    IN  t \in Workers => \/ pc[t] = "failed" /\ console[i].seq = emitted[t]
                        \/ pc[Main] \in AfterJoinLabels

\* The main thread prints all it logs, and the log file holds what its workers'
\* loops have passed: all of their messages, once they are done.
MainPrinted == HoldsFirst(console, Main, emitted[Main])
Streamed ==
  \A w \in Workers :
    /\ HoldsFirst(logFile, w, logPosition[w])
    /\ IsLoggingToFile =>
         pc[w] # "logPushed" /\ (pc[w] = "done" => logPosition[w] = emitted[w])

\* The vector holds the whole log of every worker that has saved it, once.
LogsPushed ==
  /\ \A i \in DOMAIN logsFromThreads :
       LET w == logsFromThreads[i].threadName
       IN  /\ ~IsLoggingToFile /\ w \in Workers /\ pc[w] \in { "logPushed", "done" }
           /\ logsFromThreads[i].logMessages = g_logFromThread[w]
  /\ \A i, j \in DOMAIN logsFromThreads :
       logsFromThreads[i].threadName = logsFromThreads[j].threadName => i = j
  /\ \A w \in Workers : ~IsLoggingToFile /\ pc[w] \in { "logPushed", "done" } =>
       \E i \in DOMAIN logsFromThreads : logsFromThreads[i].threadName = w

\* The console holds the logs that the main thread's loop has passed: all of
\* them, once it is past the replay.
AfterReplayLabels == AfterJoinLabels \ { "replayThrdLogToConsole", "done" }
isReplayed(w) ==
  \E i \in DOMAIN logsFromThreads :
    i <= logPosition[Main] /\ logsFromThreads[i].threadName = w
Replayed ==
  /\ \A w \in Workers : pc[w] # "failed" =>
       HoldsFirst(console, w, IF isReplayed(w) THEN emitted[w] ELSE 0)
  /\ logPosition[Main] <= Len(logsFromThreads)
  /\ pc[Main] \in AfterReplayLabels \/ exitCode = "success" =>
       \A i \in DOMAIN logsFromThreads : i <= logPosition[Main]

-----------------------------------------------------------------------------
(* The run implements its abstract specification *)

phaseOf(t) ==
  CASE pc[t] = "notStarted" -> "idle"
    [] \/ pc[t] \in { "failed", "unwinding" }
       \/ t = Main /\ exitCode = "failure" -> "failed"
    [] \/ pc[t] \in { "logApplicationSummary", "return", "saveLogsFromThread",
                      "logsLocked", "logPushed" }
       \/ pc[t] = "done" /\ ~(t = Main /\ exitCode = "failure") -> "saved"
    [] OTHER -> "running"

reportOf(items) ==
  [t \in { items[i].threadName : i \in DOMAIN items } |->
     items[CHOOSE i \in DOMAIN items : items[i].threadName = t].statements]

Abstract == INSTANCE PlayRun WITH
  Names   <- Configurations,
  phase   <- [t \in Threads |-> phaseOf(t)],
  counted <- [t \in Threads |-> played[t].statements],
  report  <- reportOf(summary.items),
  result  <- exitCode

\* Each thread's count reaches the Application Summary as a whole or not at
\* all, and the summary and the exit code only speak of ended workers.
ImplementsPlayRun == Abstract!Spec

=============================================================================
