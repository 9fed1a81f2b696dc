--------------------------- MODULE TestOrm_proofs ---------------------------
(***************************************************************************)
(* Proofs about TestOrm for every value of its constants: whatever the     *)
(* connection tables (as long as they satisfy ConfigurationAssumption),    *)
(* the tests invoked and the number of statements.                         *)
(*                                                                         *)
(* First types and isolation.  Then the counters: no two threads hold a    *)
(* mutex, every thread counts the statements of its own PlayTests and no   *)
(* others, the vectors and the lookup map of the application counters      *)
(* agree, and the Application Summary of a successful run reports every    *)
(* thread that ended well, with all it counted.  A test never meets a      *)
(* connection its thread has no configuration for.  Last, the refinement   *)
(* of PlayRun.                                                             *)
(***************************************************************************)
EXTENDS TestOrmProperties, SequenceTheorems, TLAPS

-----------------------------------------------------------------------------
(* Threads and labels *)

\* The main thread is no worker.
LEMMA MainIsNoWorker == Main \in Threads /\ Main \notin Workers /\ Workers \subseteq Threads
BY MainAssumption, ConfigurationAssumption DEF Threads, Workers

\* The slot of a thread is that of some thread.
LEMMA SlotType == ASSUME NEW t \in Threads PROVE Slot(t) \in Threads
BY MainIsNoWorker DEF Slot

\* Moving the main thread to one of its labels keeps the labels' types.
LEMMA GotoMainType ==
  ASSUME PcTypeOK, NEW label \in MainLabels, Goto(Main, label)
  PROVE  PcTypeOK'
BY MainIsNoWorker DEF PcTypeOK, Goto

\* Moving a worker to one of its labels keeps the labels' types.
LEMMA GotoWorkerType ==
  ASSUME PcTypeOK, NEW w \in Workers, NEW label \in WorkerLabels, Goto(w, label)
  PROVE  PcTypeOK'
BY MainIsNoWorker DEF PcTypeOK, Goto

\* The label after a test is one of the labels of its thread.
LEMMA AfterTestType ==
  ASSUME PcTypeOK, NEW t \in Threads, pc[t] \in Tests, Goto(t, afterTest(t, pc[t]))
  PROVE  PcTypeOK'
<1>1. CASE t = Main
  <2>1. afterTest(t, pc[t]) \in MainLabels
    BY <1>1 DEF afterTest, Tests, MainLabels
  <2> QED BY <1>1, <2>1, GotoMainType
<1>2. CASE t # Main
  <2>1. t \in Workers /\ pc[t] \in { "TestQueryBuilder", "TestTinyOrm" }
    BY <1>2 DEF Threads, PcTypeOK, Tests, WorkerLabels
  <2>2. afterTest(t, pc[t]) \in WorkerLabels
    BY <1>2, <2>1 DEF afterTest, WorkerLabels
  <2> QED BY <2>1, <2>2, GotoWorkerType
<1> QED BY <1>1, <1>2

-----------------------------------------------------------------------------
(* Type correctness of the services' operations *)

\* A component that does not change keeps its type.
LEMMA GlobalsFrame ==
  GlobalsTypeOK /\ UNCHANGED <<threadLocalStorage, globalsVars>> => GlobalsTypeOK'
BY DEF GlobalsTypeOK, globalsVars

LEMMA DatabaseFrame == DatabaseTypeOK /\ UNCHANGED dbVars => DatabaseTypeOK'
BY DEF DatabaseTypeOK, dbVars

LEMMA LogFrame == LogTypeOK /\ UNCHANGED logVars => LogTypeOK'
BY DEF LogTypeOK, logVars

LEMMA CountersFrame == CountersTypeOK /\ UNCHANGED counterVars => CountersTypeOK'
BY DEF CountersTypeOK, counterVars

LEMMA RunFrame ==
  RunTypeOK /\ UNCHANGED <<playing, runVars, outcome, history>> => RunTypeOK'
BY DEF RunTypeOK, runVars, outcome, history

\* A logged message goes to the console or to the thread's log.
LEMMA MessageHandlerType ==
  ASSUME GlobalsTypeOK, LogTypeOK, NEW t \in Threads, tinyMessageHandler(t),
         UNCHANGED <<threadLocalStorage, g_inThread>>
  PROVE  GlobalsTypeOK' /\ LogTypeOK'
<1> DEFINE message == [thread |-> t, seq |-> emitted[t] + 1]
<1>1. message \in Message
  BY DEF LogTypeOK, Message
<1>2. Slot(t) \in Threads
  BY SlotType
<1>3. Append(console, message) \in Seq(Message)
  BY <1>1, AppendProperties DEF LogTypeOK
<1>4. Append(g_logFromThread[Slot(t)], message) \in Seq(Message)
  BY <1>1, <1>2, AppendProperties DEF GlobalsTypeOK
<1>5. console' \in Seq(Message)
  BY <1>3 DEF tinyMessageHandler, LogTypeOK
<1>6. g_logFromThread' \in [Threads -> Seq(Message)]
  BY <1>2, <1>4 DEF tinyMessageHandler, GlobalsTypeOK
<1>7. emitted' \in [Threads -> Nat]
  BY DEF tinyMessageHandler, LogTypeOK
<1> QED BY <1>5, <1>6, <1>7 DEF tinyMessageHandler, GlobalsTypeOK, LogTypeOK

\* The steps of saveLogsFromThread() and of the replay.
LEMMA SaveLogsType ==
  ASSUME GlobalsTypeOK, LogTypeOK, NEW t \in Threads,
         \/ LockDataLogStream(t) \/ StreamMessage(t) \/ UnlockDataLogStream(t)
         \/ PushLog(t) \/ MapLogAndUnlock(t)
  PROVE  LogTypeOK'
<1>1. Slot(t) \in Threads
  BY SlotType
<1>2. CASE LockDataLogStream(t)
  BY <1>2 DEF LockDataLogStream, LogTypeOK
<1>3. CASE StreamMessage(t)
  <2>1. g_logFromThread[Slot(t)][logPosition[t] + 1] \in Message
    <3> DEFINE log == g_logFromThread[Slot(t)]
               i   == logPosition[t] + 1
    <3>1. log \in Seq(Message) /\ i \in 1 .. Len(log)
      BY <1>1, <1>3, LenProperties DEF StreamMessage, GlobalsTypeOK, LogTypeOK
    <3> HIDE DEF log, i
    <3>2. log[i] \in Message
      BY <3>1, ElementOfSeq
    <3> QED BY <3>2 DEF log, i
  <2>2. logFile' \in Seq(Message)
    BY <1>3, <2>1, AppendProperties DEF StreamMessage, LogTypeOK
  <2>3. logPosition' \in [Threads -> Nat]
    BY <1>3 DEF StreamMessage, LogTypeOK
  <2> QED BY <1>3, <2>2, <2>3 DEF StreamMessage, LogTypeOK
<1>4. CASE UnlockDataLogStream(t)
  BY <1>4 DEF UnlockDataLogStream, LogTypeOK
<1>5. CASE PushLog(t)
  <2> DEFINE Item == [threadName : Threads, logMessages : Seq(Message)]
             item == [threadName |-> t, logMessages |-> g_logFromThread[Slot(t)]]
  <2>1. item \in Item
    BY <1>1 DEF GlobalsTypeOK
  <2>2. logsFromThreads \in Seq(Item)
    BY DEF LogTypeOK
  <2>3. Append(logsFromThreads, item) \in Seq(Item)
    <3> HIDE DEF item, Item
    <3> QED BY <2>1, <2>2, AppendProperties
  <2> QED BY <1>5, <2>3 DEF PushLog, LogTypeOK
<1>6. CASE MapLogAndUnlock(t)
  <2>1. logFromThreadIdx \in Nat
    BY LenProperties DEF logFromThreadIdx, LogTypeOK
  <2>2. logsFromThreadsMap' \in [Threads -> Nat \union { NotMapped }]
    BY <1>6, <2>1 DEF MapLogAndUnlock, Emplace, LogTypeOK
  <2> QED BY <1>6, <2>2 DEF MapLogAndUnlock, LogTypeOK
<1> QED BY <1>2, <1>3, <1>4, <1>5, <1>6

LEMMA ReplayType == ASSUME LogTypeOK, ReplayLog PROVE LogTypeOK'
<1> DEFINE i == logPosition[Main] + 1
           Item == [threadName : Threads, logMessages : Seq(Message)]
<1>0. logPosition[Main] \in Nat /\ emitted[Main] \in Nat
  BY MainIsNoWorker DEF LogTypeOK
<1>1. logsFromThreads \in Seq(Item) /\ i \in 1 .. Len(logsFromThreads)
  <2>1. logsFromThreads \in Seq(Item)
    BY DEF LogTypeOK
  <2>2. logPosition[Main] < Len(logsFromThreads)
    BY DEF ReplayLog
  <2>3. Len(logsFromThreads) \in Nat
    <3> HIDE DEF Item
    <3> QED BY <2>1, LenProperties
  <2> QED BY <1>0, <2>1, <2>2, <2>3
<1>2. logsFromThreads[i] \in Item
  <2> HIDE DEF i, Item
  <2> QED BY <1>1, ElementOfSeq
<1>3. [thread |-> Main, seq |-> emitted[Main] + 1] \in Message
  BY MainIsNoWorker DEF LogTypeOK, Message
<1>4. Append(console, [thread |-> Main, seq |-> emitted[Main] + 1])
        \o logsFromThreads[i].logMessages \in Seq(Message)
  BY <1>2, <1>3, AppendProperties, ConcatProperties DEF LogTypeOK
<1>5. logPosition' \in [Threads -> Nat]
  <2>1. logPosition' = [logPosition EXCEPT ![Main] = @ + 1]
    BY DEF ReplayLog
  <2>2. logPosition \in [Threads -> Nat]
    BY DEF LogTypeOK
  <2> QED BY <1>0, <2>1, <2>2, MainIsNoWorker
<1>6. emitted' \in [Threads -> Nat]
  <2>1. emitted' = [emitted EXCEPT ![Main] = @ + 1]
    BY DEF ReplayLog
  <2>2. emitted \in [Threads -> Nat]
    BY DEF LogTypeOK
  <2> QED BY <1>0, <2>1, <2>2, MainIsNoWorker
<1> QED BY <1>4, <1>5, <1>6 DEF ReplayLog, LogTypeOK

\* The sum of two tallies is a tally.
LEMMA AddTallyType ==
  ASSUME NEW a \in Tally, NEW b \in Tally PROVE AddTally(a, b) \in Tally
BY DEF AddTally, Tally, Statements

\* Resetting and taking counters, and executing a statement.
LEMMA DatabaseType ==
  ASSUME DatabaseTypeOK, NEW t \in Threads,
         \/ resetAllQueryLogCounters(t)
         \/ \E n \in Configurations, affecting \in BOOLEAN : execute(t, n, affecting)
         \/ \E c \in Configurations : setDefaultConnection(t, c)
         \/ \E configurations, count \in SUBSET Configurations, c \in Configurations :
              addAndCount(t, configurations, count, c)
  PROVE  DatabaseTypeOK'
<1>1. Slot(t) \in Threads
  BY SlotType
<1>2. CASE resetAllQueryLogCounters(t)
  BY <1>2 DEF resetAllQueryLogCounters, DatabaseTypeOK
<1>3. CASE \E n \in Configurations, affecting \in BOOLEAN : execute(t, n, affecting)
  BY <1>3 DEF execute, DatabaseTypeOK
<1>4. CASE \E c \in Configurations : setDefaultConnection(t, c)
  BY <1>1, <1>4 DEF setDefaultConnection, DatabaseTypeOK
<1>5. CASE \E configurations, count \in SUBSET Configurations, c \in Configurations :
             addAndCount(t, configurations, count, c)
  BY <1>1, <1>5 DEF addAndCount, DatabaseTypeOK
<1> QED BY <1>2, <1>3, <1>4, <1>5

LEMMA LogCountersType ==
  ASSUME DatabaseTypeOK, CountersTypeOK, NEW t \in Threads, logQueryCounters(t)
  PROVE  DatabaseTypeOK' /\ CountersTypeOK'
<1> DEFINE counted == toCount(t) \intersect counting
           new == [n \in Configurations |->
                     IF n \in counted
                       THEN m_threadStatementsCounter[Slot(t)][n] + statementsCounter[n]
                       ELSE m_threadStatementsCounter[Slot(t)][n]]
<1>1. Slot(t) \in Threads
  BY SlotType
<1>2. new \in Statements
  <2>1. m_threadStatementsCounter[Slot(t)] \in Statements
    BY <1>1 DEF CountersTypeOK
  <2>2. ASSUME NEW n \in Configurations PROVE new[n] \in Nat
    BY <2>1 DEF DatabaseTypeOK, Statements
  <2> QED BY <2>2 DEF Statements
<1>3. m_threadStatementsCounter' \in [Threads -> Statements]
  BY <1>1, <1>2 DEF logQueryCounters, CountersTypeOK
<1>4. m_threadRecordsModified' \in [Threads -> BOOLEAN]
  <2>1. \A b : (\E n \in toCount(t) : recordsModified[n]) \in BOOLEAN
    OBVIOUS
  <2> QED BY <1>1, <2>1 DEF logQueryCounters, CountersTypeOK
<1>5. statementsCounter' \in [Configurations -> Nat]
  BY DEF logQueryCounters, DatabaseTypeOK
<1> QED BY <1>3, <1>4, <1>5
        DEF logQueryCounters, CountersTypeOK, DatabaseTypeOK, appCounters

\* The steps of saveCountersForAppSummary().
LEMMA SaveCountersType ==
  ASSUME CountersTypeOK, NEW t \in Threads,
         \/ LockCounters(t) \/ addCountersForAppSummary(t)
         \/ newCountersForAppSummary(t) \/ MapCountersAndUnlock(t),
         UNCHANGED <<ConnectionsToCount, threadCounters>>
  PROVE  CountersTypeOK'
<1>1. threadItem(t) \in AppCounterItem
  BY SlotType DEF threadItem, AppCounterItem, CountersTypeOK
<1>2. CASE LockCounters(t)
  BY <1>2 DEF LockCounters, CountersTypeOK, threadCounters
<1>3. CASE addCountersForAppSummary(t)
  <2> DEFINE index == m_appCountersMap[t] + 1
             mine  == threadItem(t)
             sum   == [n \in Configurations |->
                         m_app[index].statements[n] + mine.statements[n]]
             item  == [m_app[index] EXCEPT !.statements = sum,
                                           !.modified = @ \/ mine.modified]
  <2>1. m_app' = [m_app EXCEPT ![index] = item]
    BY <1>3 DEF addCountersForAppSummary
  <2>2. CASE index \in DOMAIN m_app
    <3>1. index \in 1 .. Len(m_app) /\ m_app[index] \in AppCounterItem
      BY <2>2, ElementOfSeq DEF CountersTypeOK
    <3>2. sum \in Statements
      BY <1>1, <3>1 DEF AppCounterItem, Statements
    <3>3. item \in AppCounterItem
      BY <1>1, <3>1, <3>2 DEF AppCounterItem
    <3>4. m_app' \in Seq(AppCounterItem)
      <4> HIDE DEF index, item
      <4> QED BY <2>1, <3>1, <3>3, ExceptSeq DEF CountersTypeOK
    <3> QED BY <1>3, <3>4 DEF addCountersForAppSummary, CountersTypeOK, threadCounters
  <2>3. CASE index \notin DOMAIN m_app
    <3>1. m_app' = m_app
      BY <2>1, <2>3 DEF CountersTypeOK
    <3> QED BY <1>3, <3>1 DEF addCountersForAppSummary, CountersTypeOK, threadCounters
  <2> QED BY <2>2, <2>3
<1>4. CASE newCountersForAppSummary(t)
  <2>1. m_app' \in Seq(AppCounterItem)
    BY <1>1, <1>4, AppendProperties DEF newCountersForAppSummary, CountersTypeOK
  <2> QED BY <1>4, <2>1 DEF newCountersForAppSummary, CountersTypeOK, threadCounters
<1>5. CASE MapCountersAndUnlock(t)
  <2>1. appCounterItemIdx \in Nat \union { NotMapped }
    BY LenProperties DEF appCounterItemIdx, CountersTypeOK, NotMapped
  <2>2. m_appCountersMap' \in [Threads -> Nat \union { NotMapped }]
    BY <1>5, <2>1 DEF MapCountersAndUnlock, Emplace, CountersTypeOK
  <2> QED BY <1>5, <2>2 DEF MapCountersAndUnlock, CountersTypeOK, threadCounters
<1> QED BY <1>2, <1>3, <1>4, <1>5

-----------------------------------------------------------------------------
(* Type correctness of the run *)

\* TypeOK is not inductive by itself: the label after a PlayTest is only known
\* when a thread that is playing is in a PlayTest, and a worker that the loop
\* starts must not be playing.
TypeInv == TypeOK /\ PlayingInTest /\ UntestedNotStarted

LEMMA TypeInvInit == Init => TypeInv
<1> SUFFICES ASSUME Init PROVE TypeInv
  OBVIOUS
<1>1. GlobalsTypeOK
  BY EmptySeq DEF Init, GlobalsInit, GlobalsTypeOK
<1>2. DatabaseTypeOK
  BY ConfigurationAssumption
  DEF Init, DatabaseInit, DatabaseTypeOK, getDefaultConnectionName
<1>3. LogTypeOK
  BY EmptySeq DEF Init, LogInit, LogTypeOK
<1>4. CountersTypeOK
  <2>1. << [threadName |-> Main, statements |-> NoStatements, modified |-> FALSE] >>
          \in Seq(AppCounterItem)
    BY MainIsNoWorker DEF AppCounterItem, Statements, NoStatements
  <2> QED BY <2>1 DEF Init, CountersInit, CountersTypeOK, Statements, NoStatements
<1>5. PcTypeOK
  BY MainIsNoWorker DEF Init, PcTypeOK, MainLabels, WorkerLabels
<1>6. RunTypeOK
  <2>1. NoTally \in Tally
    BY DEF NoTally, Tally, Statements, NoStatements
  <2> QED BY <2>1, EmptySeq DEF Init, RunTypeOK
<1>7. PlayingInTest
  BY DEF Init, PlayingInTest
<1>8. UntestedNotStarted
  BY MainIsNoWorker DEF Init, UntestedNotStarted, Workers
<1> QED BY <1>1, <1>2, <1>3, <1>4, <1>5, <1>6, <1>7, <1>8 DEF TypeInv, TypeOK

\* A thread that moves on without playing leaves the others in their PlayTests.
LEMMA PlayingFrame ==
  ASSUME TypeInv, NEW t \in Threads, NEW label, Goto(t, label),
         \/ playing' = playing /\ ~playing[t]
         \/ playing' = [playing EXCEPT ![t] = FALSE]
  PROVE  PlayingInTest'
BY DEF TypeInv, TypeOK, PcTypeOK, RunTypeOK, PlayingInTest, Goto, shouldTest

\* A step of a started thread starts no worker.
LEMMA UntestedFrame ==
  ASSUME TypeInv, NEW t \in Threads, pc[t] # "notStarted",
         pc' = pc \/ \E label : Goto(t, label),
         untested' \in SUBSET untested
  PROVE  UntestedNotStarted'
BY MainIsNoWorker
DEF TypeInv, TypeOK, PcTypeOK, RunTypeOK, UntestedNotStarted, Goto, Workers

\* The connections and configurations of a thread are configured connections.
LEMMA ComputedConnectionsType ==
  /\ \A T, R \in SUBSET RemovableConnections :
       /\ computeConnectionsToCountForMainThread(T, R) \in SUBSET Configurations
       /\ configsForMainThrdWhenMultiThrd(R) \in SUBSET Configurations
  /\ configurationsWhenSingleThread \in SUBSET Configurations
  /\ getDefaultConnectionName \in Configurations
  /\ \A w \in Workers :
       /\ configsForWorkerThrdWhenMultiThrd(w) \in SUBSET Configurations
       /\ computeConnectionsToCountForWorkerThread(w) \in SUBSET Configurations
BY ConfigurationAssumption
DEF computeConnectionsToCountForMainThread, configsForMainThrdWhenMultiThrd,
    configurationsWhenSingleThread, getDefaultConnectionName,
    configsForWorkerThrdWhenMultiThrd, computeConnectionsToCountForWorkerThread, Workers

\* A thread skips a test.
LEMMA SkipTestType ==
  ASSUME TypeInv, NEW t \in Threads, SkipTest(t)
  PROVE  TypeInv'
<1> USE DEF TypeInv, TypeOK
<1>1. GlobalsTypeOK'
  BY GlobalsFrame DEF SkipTest
<1>2. DatabaseTypeOK'
  BY DatabaseFrame DEF SkipTest
<1>3. LogTypeOK'
  BY LogFrame DEF SkipTest
<1>4. CountersTypeOK'
  BY CountersFrame DEF SkipTest
<1>5. PcTypeOK'
  BY AfterTestType DEF SkipTest
<1>6. RunTypeOK'
  BY RunFrame DEF SkipTest
<1>7. PlayingInTest'
  BY PlayingFrame DEF SkipTest, PlayingInTest
<1>8. UntestedNotStarted'
  BY UntestedFrame, MainIsNoWorker DEF PlayingInTest, Tests, SkipTest, runVars
<1> QED BY <1>1, <1>2, <1>3, <1>4, <1>5, <1>6, <1>7, <1>8

\* A thread starts a PlayTest.
LEMMA StartPlayTestType ==
  ASSUME TypeInv, NEW t \in Threads, StartPlayTest(t)
  PROVE  TypeInv'
<1> USE DEF TypeInv, TypeOK
<1>1. GlobalsTypeOK' /\ LogTypeOK'
  BY MessageHandlerType DEF StartPlayTest
<1>2. DatabaseTypeOK'
  BY DatabaseType DEF StartPlayTest
<1>3. CountersTypeOK'
  BY CountersFrame DEF StartPlayTest
<1>4. PcTypeOK'
  BY DEF StartPlayTest, PcTypeOK
<1>5. RunTypeOK'
  BY DEF StartPlayTest, RunTypeOK, Tally, NoTally, Statements, NoStatements, runVars, outcome
<1>6. PlayingInTest'
  BY DEF StartPlayTest, PlayingInTest, RunTypeOK, shouldTest
<1>7. UntestedNotStarted'
  BY UntestedFrame, MainIsNoWorker DEF PlayingInTest, Tests, StartPlayTest, runVars
<1> QED BY <1>1, <1>2, <1>3, <1>4, <1>5, <1>6, <1>7

\* A PlayTest executes a statement.
LEMMA PlayTestStatementType ==
  ASSUME TypeInv, NEW t \in Threads, NEW n \in Configurations, NEW affecting \in BOOLEAN,
         PlayTestStatement(t, n, affecting)
  PROVE  TypeInv'
<1> USE DEF TypeInv, TypeOK
<1>1. GlobalsTypeOK'
  BY GlobalsFrame DEF PlayTestStatement
<1>2. DatabaseTypeOK'
  BY DatabaseType DEF PlayTestStatement
<1>3. LogTypeOK'
  BY LogFrame DEF PlayTestStatement
<1>4. CountersTypeOK'
  BY CountersFrame DEF PlayTestStatement
<1>5. PcTypeOK'
  BY DEF PlayTestStatement, PcTypeOK
<1>6. RunTypeOK'
  <2> DEFINE one == OneStatement(n, affecting, n \in toCount(t))
  <2>1. one \in Tally
    BY DEF OneStatement, Tally, Statements
  <2>2. AddTally(running[t], one) \in Tally
    <3> HIDE DEF one
    <3> QED BY <2>1, AddTallyType DEF RunTypeOK
  <2> QED BY <2>2 DEF PlayTestStatement, RunTypeOK, runVars, outcome
<1>7. PlayingInTest'
  BY DEF PlayTestStatement, PlayingInTest, shouldTest
<1>8. UntestedNotStarted'
  BY UntestedFrame, MainIsNoWorker DEF PlayingInTest, Tests, PlayTestStatement, runVars
<1> QED BY <1>1, <1>2, <1>3, <1>4, <1>5, <1>6, <1>7, <1>8

\* A PlayTest ends and logs its counters.
LEMMA LogPlayTestType ==
  ASSUME TypeInv, NEW t \in Threads, LogPlayTest(t)
  PROVE  TypeInv'
<1> USE DEF TypeInv, TypeOK
<1>1. GlobalsTypeOK' /\ LogTypeOK'
  BY MessageHandlerType DEF LogPlayTest
<1>2. DatabaseTypeOK' /\ CountersTypeOK'
  BY LogCountersType DEF LogPlayTest
<1>3. PcTypeOK'
  BY AfterTestType DEF LogPlayTest, PlayingInTest
<1>4. RunTypeOK'
  <2>1. AddTally(played[t], running[t]) \in Tally
    BY AddTallyType DEF RunTypeOK
  <2>2. NoTally \in Tally
    BY DEF NoTally, Tally, Statements, NoStatements
  <2> QED BY <2>1, <2>2 DEF LogPlayTest, RunTypeOK, runVars, outcome
<1>5. PlayingInTest'
  BY PlayingFrame DEF LogPlayTest
<1>6. UntestedNotStarted'
  BY UntestedFrame, MainIsNoWorker DEF PlayingInTest, Tests, LogPlayTest, runVars
<1> QED BY <1>1, <1>2, <1>3, <1>4, <1>5, <1>6

\* TestAllOtherTests executes a statement.
LEMMA OtherTestsStatementType ==
  ASSUME TypeInv, OtherTestsStatement
  PROVE  TypeInv'
<1> USE DEF TypeInv, TypeOK
<1>1. GlobalsTypeOK'
  BY GlobalsFrame DEF OtherTestsStatement
<1>2. DatabaseTypeOK'
  BY DatabaseType, MainIsNoWorker, SlotType DEF OtherTestsStatement, DatabaseTypeOK
<1>3. LogTypeOK'
  BY LogFrame DEF OtherTestsStatement
<1>4. CountersTypeOK'
  BY CountersFrame DEF OtherTestsStatement
<1>5. PcTypeOK'
  BY DEF OtherTestsStatement, PcTypeOK
<1>6. RunTypeOK'
  BY RunFrame DEF OtherTestsStatement
<1>7. PlayingInTest'
  BY DEF OtherTestsStatement, PlayingInTest, shouldTest
<1>8. UntestedNotStarted'
  BY UntestedFrame, MainIsNoWorker DEF OtherTestsStatement, runVars
<1> QED BY <1>1, <1>2, <1>3, <1>4, <1>5, <1>6, <1>7, <1>8

\* TestAllOtherTests ends.
LEMMA EndOtherTestsType ==
  ASSUME TypeInv, EndOtherTests
  PROVE  TypeInv'
<1> USE DEF TypeInv, TypeOK
<1>1. GlobalsTypeOK' /\ LogTypeOK'
  BY MessageHandlerType, MainIsNoWorker DEF EndOtherTests
<1>2. DatabaseTypeOK'
  BY DatabaseFrame DEF EndOtherTests
<1>3. CountersTypeOK'
  BY CountersFrame DEF EndOtherTests
<1>4. PcTypeOK'
  BY AfterTestType, MainIsNoWorker DEF EndOtherTests, Tests
<1>5. RunTypeOK'
  BY RunFrame DEF EndOtherTests
<1>6. PlayingInTest'
  BY PlayingFrame, MainIsNoWorker DEF EndOtherTests, PlayingInTest, Tests
<1>7. UntestedNotStarted'
  BY UntestedFrame, MainIsNoWorker DEF EndOtherTests, runVars
<1> QED BY <1>1, <1>2, <1>3, <1>4, <1>5, <1>6, <1>7

\* The main thread connects to the database.
LEMMA connectToDatabaseType ==
  ASSUME TypeInv, connectToDatabase
  PROVE  TypeInv'
<1> USE DEF TypeInv, TypeOK
<1>1. GlobalsTypeOK'
  BY GlobalsFrame DEF connectToDatabase
<1>2. DatabaseTypeOK' /\ CountersTypeOK'
  <2> DEFINE count == computeConnectionsToCountForMainThread(
                        ConnectionsToTest, ConnectionsToRunInThread)
             configurations == IF ConnectionsInThreads
               THEN configsForMainThrdWhenMultiThrd(ConnectionsToRunInThread)
               ELSE configurationsWhenSingleThread
  <2>1. /\ count \in SUBSET Configurations
        /\ configurations \in SUBSET Configurations
        /\ getDefaultConnectionName \in Configurations
    BY ComputedConnectionsType DEF RunTypeOK
  <2>2. addAndCount(Main, configurations, count, getDefaultConnectionName)
    BY DEF connectToDatabase
  <2>3. DatabaseTypeOK'
    <3> HIDE DEF count, configurations
    <3> QED BY <2>1, <2>2, DatabaseType, MainIsNoWorker
  <2>4. ConnectionsToCount' = [ConnectionsToCount EXCEPT ![Slot(Main)] = count]
    BY DEF connectToDatabase
  <2>5. CountersTypeOK'
    <3> HIDE DEF count
    <3> QED BY <2>1, <2>4, SlotType, MainIsNoWorker
            DEF connectToDatabase, CountersTypeOK, threadCounters, appCounters
  <2> QED BY <2>3, <2>5
<1>3. LogTypeOK'
  BY LogFrame DEF connectToDatabase
<1>4. PcTypeOK'
  BY GotoMainType DEF connectToDatabase, MainLabels, Tests
<1>5. RunTypeOK'
  BY RunFrame DEF connectToDatabase
<1>6. PlayingInTest'
  BY PlayingFrame, MainIsNoWorker DEF connectToDatabase, PlayingInTest, Tests
<1>7. UntestedNotStarted'
  BY UntestedFrame, MainIsNoWorker DEF connectToDatabase, runVars
<1> QED BY <1>1, <1>2, <1>3, <1>4, <1>5, <1>6, <1>7

\* The main thread checks the environment.
LEMMA throwIfUnsupportedEnvType ==
  ASSUME TypeInv, throwIfUnsupportedEnv
  PROVE  TypeInv'
<1> USE DEF TypeInv, TypeOK
<1>1. GlobalsTypeOK'
  BY GlobalsFrame DEF throwIfUnsupportedEnv
<1>2. DatabaseTypeOK'
  BY DatabaseFrame DEF throwIfUnsupportedEnv
<1>3. LogTypeOK'
  BY LogFrame DEF throwIfUnsupportedEnv
<1>4. CountersTypeOK'
  BY CountersFrame DEF throwIfUnsupportedEnv
<1>5. PcTypeOK'
  BY GotoMainType DEF throwIfUnsupportedEnv, MainLabels, Tests
<1>6. RunTypeOK'
  BY RunFrame DEF throwIfUnsupportedEnv
<1>7. PlayingInTest'
  BY PlayingFrame, MainIsNoWorker DEF throwIfUnsupportedEnv, PlayingInTest, Tests
<1>8. UntestedNotStarted'
  BY UntestedFrame, MainIsNoWorker DEF throwIfUnsupportedEnv, runVars
<1> QED BY <1>1, <1>2, <1>3, <1>4, <1>5, <1>6, <1>7, <1>8

\* The main thread santizes ConnectionsToRunInThread.
LEMMA initConnsInThreadsTestingType ==
  ASSUME TypeInv, initConnsInThreadsTesting
  PROVE  TypeInv'
<1> USE DEF TypeInv, TypeOK
<1>1. GlobalsTypeOK'
  BY GlobalsFrame DEF initConnsInThreadsTesting
<1>2. DatabaseTypeOK'
  BY DatabaseFrame DEF initConnsInThreadsTesting
<1>3. LogTypeOK'
  BY LogFrame DEF initConnsInThreadsTesting
<1>4. CountersTypeOK'
  BY CountersFrame DEF initConnsInThreadsTesting
<1>5. PcTypeOK'
  BY GotoMainType DEF initConnsInThreadsTesting, MainLabels, Tests
<1>6. RunTypeOK'
  BY DEF initConnsInThreadsTesting, santizeConnectionsToRunInThread, RunTypeOK, outcome, history
<1>7. PlayingInTest'
  BY PlayingFrame, MainIsNoWorker DEF initConnsInThreadsTesting, PlayingInTest, Tests
<1>8. UntestedNotStarted'
  BY UntestedFrame, MainIsNoWorker DEF initConnsInThreadsTesting
<1> QED BY <1>1, <1>2, <1>3, <1>4, <1>5, <1>6, <1>7, <1>8

\* The main thread starts a worker.
LEMMA startWorkerThreadType ==
  ASSUME TypeInv, NEW c \in RemovableConnections, startWorkerThread(c)
  PROVE  TypeInv'
<1> USE DEF TypeInv, TypeOK
<1>1. GlobalsTypeOK'
  BY GlobalsFrame DEF startWorkerThread
<1>2. DatabaseTypeOK'
  BY DatabaseFrame DEF startWorkerThread
<1>3. LogTypeOK'
  BY LogFrame DEF startWorkerThread
<1>4. CountersTypeOK'
  BY CountersFrame DEF startWorkerThread
<1>5. PcTypeOK'
  BY GotoWorkerType DEF startWorkerThread, WorkerLabels, Workers
<1>6. RunTypeOK'
  BY DEF startWorkerThread, RunTypeOK, outcome, history
<1>7. PlayingInTest'
  <2>1. c \in Threads /\ ~playing[c]
    BY MainIsNoWorker
    DEF startWorkerThread, PlayingInTest, UntestedNotStarted, Workers, Tests
  <2> QED BY <2>1, PlayingFrame DEF startWorkerThread
<1>8. UntestedNotStarted'
  BY MainIsNoWorker
  DEF startWorkerThread, UntestedNotStarted, Goto, PcTypeOK, RunTypeOK, Workers
<1> QED BY <1>1, <1>2, <1>3, <1>4, <1>5, <1>6, <1>7, <1>8

\* The main thread tests a connection.
LEMMA testConnectionInMainThreadType ==
  ASSUME TypeInv, NEW c \in RemovableConnections, testConnectionInMainThread(c)
  PROVE  TypeInv'
<1> USE DEF TypeInv, TypeOK
<1>1. GlobalsTypeOK'
  BY GlobalsFrame DEF testConnectionInMainThread
<1>2. DatabaseTypeOK'
  BY DatabaseType, ConfigurationAssumption, MainIsNoWorker DEF testConnectionInMainThread
<1>3. LogTypeOK'
  BY LogFrame DEF testConnectionInMainThread
<1>4. CountersTypeOK'
  BY CountersFrame DEF testConnectionInMainThread
<1>5. PcTypeOK'
  BY GotoMainType DEF testConnectionInMainThread, MainLabels, Tests
<1>6. RunTypeOK'
  BY DEF testConnectionInMainThread, RunTypeOK, outcome, history
<1>7. PlayingInTest'
  BY PlayingFrame, MainIsNoWorker DEF testConnectionInMainThread, PlayingInTest, Tests
<1>8. UntestedNotStarted'
  BY UntestedFrame, MainIsNoWorker DEF testConnectionInMainThread
<1> QED BY <1>1, <1>2, <1>3, <1>4, <1>5, <1>6, <1>7, <1>8

\* The loop over the connections ends.
LEMMA endOfLoopType ==
  ASSUME TypeInv, endOfLoop
  PROVE  TypeInv'
<1> USE DEF TypeInv, TypeOK
<1>1. GlobalsTypeOK'
  BY GlobalsFrame DEF endOfLoop
<1>2. DatabaseTypeOK'
  BY DatabaseFrame DEF endOfLoop
<1>3. LogTypeOK'
  BY LogFrame DEF endOfLoop
<1>4. CountersTypeOK'
  BY CountersFrame DEF endOfLoop
<1>5. PcTypeOK'
  BY GotoMainType DEF endOfLoop, MainLabels, Tests
<1>6. RunTypeOK'
  BY RunFrame DEF endOfLoop
<1>7. PlayingInTest'
  BY PlayingFrame, MainIsNoWorker DEF endOfLoop, PlayingInTest, Tests
<1>8. UntestedNotStarted'
  BY UntestedFrame, MainIsNoWorker DEF endOfLoop, runVars
<1> QED BY <1>1, <1>2, <1>3, <1>4, <1>5, <1>6, <1>7, <1>8

\* The main thread has joined the workers.
LEMMA joinThreadsType ==
  ASSUME TypeInv, joinThreads
  PROVE  TypeInv'
<1> USE DEF TypeInv, TypeOK
<1>1. GlobalsTypeOK'
  BY GlobalsFrame DEF joinThreads
<1>2. DatabaseTypeOK'
  BY DatabaseType, ConfigurationAssumption, MainIsNoWorker DEF joinThreads, getDefaultConnectionName
<1>3. LogTypeOK'
  BY LogFrame DEF joinThreads
<1>4. CountersTypeOK'
  BY CountersFrame DEF joinThreads
<1>5. PcTypeOK'
  BY GotoMainType DEF joinThreads, MainLabels, Tests
<1>6. RunTypeOK'
  BY RunFrame DEF joinThreads
<1>7. PlayingInTest'
  BY PlayingFrame, MainIsNoWorker DEF joinThreads, PlayingInTest, Tests
<1>8. UntestedNotStarted'
  BY UntestedFrame, MainIsNoWorker DEF joinThreads, runVars
<1> QED BY <1>1, <1>2, <1>3, <1>4, <1>5, <1>6, <1>7, <1>8

\* The main thread replays the log of a worker.
LEMMA replayThrdLogToConsoleType ==
  ASSUME TypeInv, replayThrdLogToConsole
  PROVE  TypeInv'
<1> USE DEF TypeInv, TypeOK
<1>1. GlobalsTypeOK'
  BY GlobalsFrame DEF replayThrdLogToConsole
<1>2. DatabaseTypeOK'
  BY DatabaseFrame DEF replayThrdLogToConsole
<1>3. LogTypeOK'
  BY ReplayType DEF replayThrdLogToConsole
<1>4. CountersTypeOK'
  BY CountersFrame DEF replayThrdLogToConsole
<1>5. PcTypeOK'
  BY DEF replayThrdLogToConsole, PcTypeOK
<1>6. RunTypeOK'
  BY RunFrame DEF replayThrdLogToConsole
<1>7. PlayingInTest'
  BY DEF replayThrdLogToConsole, PlayingInTest, shouldTest
<1>8. UntestedNotStarted'
  BY UntestedFrame, MainIsNoWorker DEF replayThrdLogToConsole, runVars
<1> QED BY <1>1, <1>2, <1>3, <1>4, <1>5, <1>6, <1>7, <1>8

\* The replay ends.
LEMMA endOfReplayType ==
  ASSUME TypeInv, endOfReplay
  PROVE  TypeInv'
<1> USE DEF TypeInv, TypeOK
<1>1. GlobalsTypeOK'
  BY GlobalsFrame DEF endOfReplay
<1>2. DatabaseTypeOK'
  BY DatabaseFrame DEF endOfReplay
<1>3. LogTypeOK'
  BY LogFrame DEF endOfReplay
<1>4. CountersTypeOK'
  BY CountersFrame DEF endOfReplay
<1>5. PcTypeOK'
  BY GotoMainType DEF endOfReplay, MainLabels, Tests
<1>6. RunTypeOK'
  BY RunFrame DEF endOfReplay
<1>7. PlayingInTest'
  BY PlayingFrame, MainIsNoWorker DEF endOfReplay, PlayingInTest, Tests
<1>8. UntestedNotStarted'
  BY UntestedFrame, MainIsNoWorker DEF endOfReplay, runVars
<1> QED BY <1>1, <1>2, <1>3, <1>4, <1>5, <1>6, <1>7, <1>8

\* The main thread logs the Application Summary.
LEMMA logApplicationSummaryType ==
  ASSUME TypeInv, logApplicationSummary
  PROVE  TypeInv'
<1> USE DEF TypeInv, TypeOK
<1>1. GlobalsTypeOK' /\ LogTypeOK'
  BY MessageHandlerType, MainIsNoWorker DEF logApplicationSummary
<1>2. DatabaseTypeOK'
  BY DatabaseFrame DEF logApplicationSummary
<1>3. CountersTypeOK'
  BY CountersFrame DEF logApplicationSummary
<1>4. PcTypeOK'
  BY GotoMainType DEF logApplicationSummary, MainLabels, Tests
<1>5. RunTypeOK'
  <2>1. threadItem(Main) \in AppCounterItem
    BY MainIsNoWorker, SlotType DEF threadItem, AppCounterItem, CountersTypeOK
  <2>2. << threadItem(Main) >> \in Seq(AppCounterItem) /\ m_app \in Seq(AppCounterItem)
    BY <2>1 DEF CountersTypeOK
  <2>3. appCountedConnectionsPrintable(ConnectionsToTest) \in SUBSET Configurations
    BY ConfigurationAssumption DEF appCountedConnectionsPrintable
  <2> QED BY <2>2, <2>3 DEF logApplicationSummary, RunTypeOK, runVars, history
<1>6. PlayingInTest'
  BY PlayingFrame, MainIsNoWorker DEF logApplicationSummary, PlayingInTest, Tests
<1>7. UntestedNotStarted'
  BY UntestedFrame, MainIsNoWorker DEF logApplicationSummary, runVars
<1> QED BY <1>1, <1>2, <1>3, <1>4, <1>5, <1>6, <1>7

\* The run ends with success.
LEMMA returnFromMainType ==
  ASSUME TypeInv, returnFromMain
  PROVE  TypeInv'
<1> USE DEF TypeInv, TypeOK
<1>1. GlobalsTypeOK' /\ LogTypeOK'
  BY MessageHandlerType, MainIsNoWorker DEF returnFromMain
<1>2. DatabaseTypeOK'
  BY DatabaseFrame DEF returnFromMain
<1>3. CountersTypeOK'
  BY CountersFrame DEF returnFromMain
<1>4. PcTypeOK'
  BY GotoMainType DEF returnFromMain, MainLabels, Tests
<1>5. RunTypeOK'
  BY DEF returnFromMain, RunTypeOK, runVars, history
<1>6. PlayingInTest'
  BY PlayingFrame, MainIsNoWorker DEF returnFromMain, PlayingInTest, Tests
<1>7. UntestedNotStarted'
  BY UntestedFrame, MainIsNoWorker DEF returnFromMain, runVars
<1> QED BY <1>1, <1>2, <1>3, <1>4, <1>5, <1>6, <1>7

\* The main thread throws.
LEMMA MainThrowsType ==
  ASSUME TypeInv, MainThrows
  PROVE  TypeInv'
<1> USE DEF TypeInv, TypeOK
<1>1. GlobalsTypeOK'
  BY GlobalsFrame DEF MainThrows
<1>2. DatabaseTypeOK'
  BY DatabaseFrame DEF MainThrows
<1>3. LogTypeOK'
  BY LogFrame DEF MainThrows
<1>4. CountersTypeOK'
  BY CountersFrame DEF MainThrows
<1>5. PcTypeOK'
  BY GotoMainType DEF MainThrows, MainLabels, Tests
<1>6. RunTypeOK'
  BY DEF MainThrows, RunTypeOK, runVars, outcome, history
<1>7. PlayingInTest'
  BY PlayingFrame, MainIsNoWorker DEF MainThrows, PlayingInTest, Tests
<1>8. UntestedNotStarted'
  BY UntestedFrame, MainIsNoWorker DEF MainThrows, MainTryLabels, Tests, runVars
<1> QED BY <1>1, <1>2, <1>3, <1>4, <1>5, <1>6, <1>7, <1>8

\* main() catches the exception.
LEMMA CatchInMainType ==
  ASSUME TypeInv, CatchInMain
  PROVE  TypeInv'
<1> USE DEF TypeInv, TypeOK
<1>1. GlobalsTypeOK' /\ LogTypeOK'
  BY MessageHandlerType, MainIsNoWorker DEF CatchInMain
<1>2. DatabaseTypeOK'
  BY DatabaseFrame DEF CatchInMain
<1>3. CountersTypeOK'
  BY CountersFrame DEF CatchInMain
<1>4. PcTypeOK'
  BY GotoMainType DEF CatchInMain, MainLabels, Tests
<1>5. RunTypeOK'
  BY DEF CatchInMain, RunTypeOK, runVars, history
<1>6. PlayingInTest'
  BY PlayingFrame, MainIsNoWorker DEF CatchInMain, PlayingInTest, Tests
<1>7. UntestedNotStarted'
  BY UntestedFrame, MainIsNoWorker DEF CatchInMain, runVars
<1> QED BY <1>1, <1>2, <1>3, <1>4, <1>5, <1>6, <1>7

\* A thread saves its counters.
LEMMA SaveStepType ==
  ASSUME TypeInv, NEW t \in Threads, SaveStep(t)
  PROVE  TypeInv'
<1> USE DEF TypeInv, TypeOK
<1>1. GlobalsTypeOK'
  BY GlobalsFrame DEF SaveStep, lockForSave, addCounters, newCounters, mapCounters,
     unchangedBySave
<1>2. DatabaseTypeOK'
  BY DatabaseFrame DEF SaveStep, lockForSave, addCounters, newCounters, mapCounters,
     unchangedBySave
<1>3. LogTypeOK'
  BY LogFrame DEF SaveStep, lockForSave, addCounters, newCounters, mapCounters,
     unchangedBySave
<1>4. CountersTypeOK'
  BY SaveCountersType DEF SaveStep, lockForSave, addCounters, newCounters, mapCounters,
     unchangedBySave
<1>5. PcTypeOK'
  <2>1. PICK label \in { "countersLocked", "countersPushed", afterSave(t) } : Goto(t, label)
    BY DEF SaveStep, lockForSave, addCounters, newCounters, mapCounters
  <2>2. CASE t = Main
    BY <2>1, <2>2, GotoMainType DEF afterSave, MainLabels
  <2>3. CASE t # Main
    <3>1. t \in Workers
      BY <2>3 DEF Threads
    <3> QED BY <2>1, <2>3, <3>1, GotoWorkerType DEF afterSave, WorkerLabels
  <2> QED BY <2>2, <2>3
<1>6. RunTypeOK'
  BY RunFrame DEF SaveStep, lockForSave, addCounters, newCounters, mapCounters,
     unchangedBySave
<1>7. PlayingInTest'
  <2>1. PICK label : Goto(t, label)
    BY DEF SaveStep, lockForSave, addCounters, newCounters, mapCounters
  <2>2. ~playing[t]
    BY DEF SaveStep, lockForSave, addCounters, newCounters, mapCounters, PlayingInTest, Tests
  <2>3. UNCHANGED playing
    BY DEF SaveStep, lockForSave, addCounters, newCounters, mapCounters, unchangedBySave
  <2> QED BY <2>1, <2>2, <2>3, PlayingFrame
<1>8. UntestedNotStarted'
  BY UntestedFrame, MainIsNoWorker DEF SaveStep, lockForSave, addCounters, newCounters, mapCounters,
     unchangedBySave, runVars
<1> QED BY <1>1, <1>2, <1>3, <1>4, <1>5, <1>6, <1>7, <1>8

\* A worker starts.
LEMMA enterWorkerType ==
  ASSUME TypeInv, NEW w \in Workers, enterWorker(w)
  PROVE  TypeInv'
<1> USE DEF TypeInv, TypeOK
<1>1. GlobalsTypeOK'
  BY SlotType, MainIsNoWorker DEF enterWorker, setInThread, GlobalsTypeOK
<1>2. DatabaseTypeOK'
  BY DatabaseFrame DEF enterWorker
<1>3. LogTypeOK'
  BY LogFrame DEF enterWorker
<1>4. CountersTypeOK'
  BY CountersFrame DEF enterWorker
<1>5. PcTypeOK'
  BY GotoWorkerType DEF enterWorker, WorkerLabels
<1>6. RunTypeOK'
  BY RunFrame DEF enterWorker
<1>7. PlayingInTest'
  BY PlayingFrame, MainIsNoWorker DEF enterWorker, PlayingInTest, Tests
<1>8. UntestedNotStarted'
  BY UntestedFrame, MainIsNoWorker DEF enterWorker, runVars
<1> QED BY <1>1, <1>2, <1>3, <1>4, <1>5, <1>6, <1>7, <1>8

\* A worker adds its connections.
LEMMA addConnectionsType ==
  ASSUME TypeInv, NEW w \in Workers, addConnections(w)
  PROVE  TypeInv'
<1> USE DEF TypeInv, TypeOK
<1>1. GlobalsTypeOK'
  BY GlobalsFrame DEF addConnections
<1>2. DatabaseTypeOK'
  BY DatabaseType, ComputedConnectionsType, ConfigurationAssumption, MainIsNoWorker DEF addConnections, Workers
<1>3. LogTypeOK'
  BY LogFrame DEF addConnections
<1>4. CountersTypeOK'
  BY ComputedConnectionsType, SlotType, MainIsNoWorker
  DEF addConnections, CountersTypeOK, threadCounters, appCounters
<1>5. PcTypeOK'
  BY GotoWorkerType DEF addConnections, WorkerLabels
<1>6. RunTypeOK'
  BY RunFrame DEF addConnections
<1>7. PlayingInTest'
  BY PlayingFrame, MainIsNoWorker DEF addConnections, PlayingInTest, Tests
<1>8. UntestedNotStarted'
  BY UntestedFrame, MainIsNoWorker DEF addConnections, runVars
<1> QED BY <1>1, <1>2, <1>3, <1>4, <1>5, <1>6, <1>7, <1>8

\* A worker saves its messages.
LEMMA SaveLogsStepType ==
  ASSUME TypeInv, NEW w \in Workers, SaveLogsStep(w)
  PROVE  TypeInv'
<1> USE DEF TypeInv, TypeOK
<1>1. GlobalsTypeOK'
  BY GlobalsFrame DEF SaveLogsStep, lockForLogs, streamLog, endOfStream, pushLog, mapLog,
     unchangedByLogs
<1>2. DatabaseTypeOK'
  BY DatabaseFrame DEF SaveLogsStep, lockForLogs, streamLog, endOfStream, pushLog, mapLog,
     unchangedByLogs
<1>3. LogTypeOK'
  BY SaveLogsType, MainIsNoWorker DEF SaveLogsStep, lockForLogs, streamLog, endOfStream, pushLog, mapLog
<1>4. CountersTypeOK'
  BY CountersFrame DEF SaveLogsStep, lockForLogs, streamLog, endOfStream, pushLog, mapLog,
     unchangedByLogs
<1>5. PcTypeOK'
  <2>1. CASE streamLog(w)
    BY <2>1 DEF streamLog, PcTypeOK
  <2>2. CASE ~streamLog(w)
    BY <2>2, GotoWorkerType DEF SaveLogsStep, lockForLogs, streamLog, endOfStream, pushLog, mapLog, WorkerLabels
  <2> QED BY <2>1, <2>2
<1>6. RunTypeOK'
  BY RunFrame DEF SaveLogsStep, lockForLogs, streamLog, endOfStream, pushLog, mapLog,
     unchangedByLogs
<1>7. PlayingInTest'
  <2>1. CASE streamLog(w)
    BY <2>1 DEF streamLog, unchangedByLogs, PlayingInTest, shouldTest
  <2>2. CASE ~streamLog(w)
    BY <2>2, PlayingFrame, MainIsNoWorker
    DEF SaveLogsStep, lockForLogs, streamLog, endOfStream, pushLog, mapLog, unchangedByLogs, PlayingInTest, Tests
  <2> QED BY <2>1, <2>2
<1>8. UntestedNotStarted'
  BY UntestedFrame, MainIsNoWorker DEF SaveLogsStep, lockForLogs, streamLog, endOfStream, pushLog, mapLog,
     unchangedByLogs, runVars
<1> QED BY <1>1, <1>2, <1>3, <1>4, <1>5, <1>6, <1>7, <1>8

\* A worker throws.
LEMMA WorkerThrowsType ==
  ASSUME TypeInv, NEW w \in Workers, WorkerThrows(w)
  PROVE  TypeInv'
<1> USE DEF TypeInv, TypeOK
<1>1. GlobalsTypeOK'
  BY SlotType, MainIsNoWorker DEF WorkerThrows, setInThread, GlobalsTypeOK
<1>2. DatabaseTypeOK'
  BY DatabaseFrame DEF WorkerThrows
<1>3. LogTypeOK'
  <2>1. [thread |-> w, seq |-> emitted[w] + 1] \in Message
    BY MainIsNoWorker DEF LogTypeOK, Message
  <2> QED BY <2>1, MainIsNoWorker, AppendProperties DEF WorkerThrows, LogTypeOK
<1>4. CountersTypeOK'
  BY CountersFrame DEF WorkerThrows
<1>5. PcTypeOK'
  BY GotoWorkerType DEF WorkerThrows, WorkerLabels
<1>6. RunTypeOK'
  BY DEF WorkerThrows, RunTypeOK, runVars, outcome, history
<1>7. PlayingInTest'
  BY PlayingFrame, MainIsNoWorker DEF WorkerThrows, PlayingInTest, Tests
<1>8. UntestedNotStarted'
  BY UntestedFrame, MainIsNoWorker DEF WorkerThrows, WorkerTryLabels, runVars
<1> QED BY <1>1, <1>2, <1>3, <1>4, <1>5, <1>6, <1>7, <1>8

\* Every step keeps the inductive invariant.
LEMMA TypeInvNext == TypeInv /\ [Next]_vars => TypeInv'
<1> SUFFICES ASSUME TypeInv, [Next]_vars PROVE TypeInv'
  OBVIOUS
<1>1. ASSUME NEW t \in Threads, PlayTestStep(t) PROVE TypeInv'
  BY <1>1, SkipTestType, StartPlayTestType, PlayTestStatementType, LogPlayTestType
  DEF PlayTestStep
<1>2. ASSUME NEW t \in Threads, SaveStep(t) PROVE TypeInv'
  BY <1>2, SaveStepType
<1>3. ASSUME MainStep PROVE TypeInv'
  BY <1>3, connectToDatabaseType, throwIfUnsupportedEnvType, OtherTestsStatementType,
     EndOtherTestsType, initConnsInThreadsTestingType, startWorkerThreadType,
     testConnectionInMainThreadType, endOfLoopType, joinThreadsType,
     replayThrdLogToConsoleType, endOfReplayType, logApplicationSummaryType,
     returnFromMainType, MainThrowsType, CatchInMainType
  DEF MainStep
<1>4. ASSUME NEW w \in Workers, WorkerStep(w) PROVE TypeInv'
  BY <1>4, enterWorkerType, addConnectionsType, SaveLogsStepType, WorkerThrowsType
  DEF WorkerStep
<1>5. CASE UNCHANGED vars
  <2>1. TypeOK'
    BY <1>5, GlobalsFrame, DatabaseFrame, LogFrame, CountersFrame, RunFrame
    DEF TypeInv, TypeOK, vars, PcTypeOK
  <2>2. PlayingInTest' /\ UntestedNotStarted'
    BY <1>5 DEF TypeInv, vars, runVars, PlayingInTest, UntestedNotStarted, shouldTest
  <2> QED BY <2>1, <2>2 DEF TypeInv
<1> QED
  BY <1>1, <1>2, <1>3, <1>4, <1>5, MainIsNoWorker
  DEF Next, MainThread, WorkerThread, Ended

\* Every state of a run has the types of the program's variables, and a thread
\* only counts statements between the reset and the log of one of its PlayTests.
THEOREM TypeInvCorrect == Spec => []TypeInv
BY TypeInvInit, TypeInvNext, PTL DEF Spec

\* Type correctness of a run of the playground (every module's variables).
THEOREM TypeCorrect == Spec => []TypeOK
BY TypeInvCorrect, PTL DEF TypeInv

-----------------------------------------------------------------------------
(***************************************************************************)
(* The threads of a run are isolated: workers run only with thread-local   *)
(* storage, g_inThread tells workers and the main thread apart, and no two *)
(* threads open the same connection name.                                  *)
(***************************************************************************)

-----------------------------------------------------------------------------
(* What the steps shared by all threads leave alone *)

\* A step of a PlayTest moves on to the next test, if anywhere.
LEMMA PlayTestShape ==
  ASSUME TypeInv, NEW t \in Threads, PlayTestStep(t)
  PROVE  /\ UNCHANGED <<threadLocalStorage, g_inThread, ConnectionsToRunInThread,
                        defaultConnection, ormConfigurations>>
         /\ pc[t] \in Tests
         /\ pc' = pc \/ Goto(t, afterTest(t, pc[t]))
BY DEF TypeInv, PlayingInTest, PlayTestStep, SkipTest, StartPlayTest, PlayTestStatement,
       LogPlayTest, globalsVars, dbVars, runVars, resetAllQueryLogCounters, execute,
       logQueryCounters

\* A step that saves counters stays within that operation or ends it.
SaveLabels == { "saveCountersForAppSummary", "countersLocked", "countersPushed" }

LEMMA SaveShape ==
  ASSUME NEW t \in Threads, SaveStep(t)
  PROVE  /\ UNCHANGED <<threadLocalStorage, g_inThread, ConnectionsToRunInThread, dbVars>>
         /\ pc[t] \in SaveLabels
         /\ \E label \in SaveLabels \union { afterSave(t) } : Goto(t, label)
BY DEF SaveStep, lockForSave, addCounters, newCounters, mapCounters, unchangedBySave,
       globalsVars, runVars, SaveLabels

\* A step that saves messages stays within that operation or ends it.
LEMMA SaveLogsShape ==
  ASSUME NEW w \in Workers, SaveLogsStep(w)
  PROVE  /\ UNCHANGED <<threadLocalStorage, g_inThread, ConnectionsToRunInThread, dbVars>>
         /\ pc[w] \in { "saveLogsFromThread", "logsLocked", "logPushed" }
         /\ pc' = pc \/ \E label \in { "logsLocked", "logPushed", "done" } : Goto(w, label)
BY DEF SaveLogsStep, lockForLogs, streamLog, endOfStream, pushLog, mapLog,
       unchangedByLogs, globalsVars, runVars

\* A test of a worker is one of the loop's, and leads to the next or the save.
LEMMA WorkerTests ==
  ASSUME TypeInv, NEW w \in Workers, pc[w] \in Tests
  PROVE  /\ w # Main
         /\ \/ pc[w] = "TestQueryBuilder" /\ afterTest(w, pc[w]) = "TestTinyOrm"
            \/ pc[w] = "TestTinyOrm" /\ afterTest(w, pc[w]) = "saveCountersForAppSummary"
BY MainIsNoWorker
DEF TypeInv, TypeOK, PcTypeOK, Tests, WorkerLabels, afterTest

-----------------------------------------------------------------------------
(* Workers run only where they may *)

\* A step of a started worker starts no other.
LEMMA WorkersAllowedFrame ==
  ASSUME TypeInv, WorkersAllowed, NEW w \in Workers, pc[w] # "notStarted",
         pc' = pc \/ \E label : Goto(w, label),
         UNCHANGED <<threadLocalStorage, ConnectionsToRunInThread>>
  PROVE  WorkersAllowed'
BY MainIsNoWorker DEF WorkersAllowed, TypeInv, TypeOK, PcTypeOK, Goto

\* A step of the main thread that passes neither the check of the environment
\* nor the start of the loop.
LEMMA WorkersAllowedMain ==
  ASSUME TypeInv, WorkersAllowed, NEW label, Goto(Main, label),
         label \in BeforeLoopLabels => pc[Main] \in BeforeLoopLabels,
         label \in CheckedLabels => pc[Main] \in CheckedLabels,
         UNCHANGED <<threadLocalStorage, ConnectionsToRunInThread>>
  PROVE  WorkersAllowed'
BY MainIsNoWorker DEF WorkersAllowed, TypeInv, TypeOK, PcTypeOK, Goto

LEMMA WorkersAllowedNext ==
  ASSUME TypeInv, WorkersAllowed, Next PROVE WorkersAllowed'
<1> USE DEF BeforeLoopLabels, CheckedLabels, LoopTestLabels
<1>1. ASSUME NEW w \in Workers, PlayTestStep(w) PROVE WorkersAllowed'
  <2>1. pc[w] # "notStarted"
    BY <1>1, PlayTestShape, MainIsNoWorker DEF Tests
  <2> QED BY <1>1, <2>1, PlayTestShape, WorkersAllowedFrame, MainIsNoWorker
<1>2. ASSUME PlayTestStep(Main) PROVE WorkersAllowed'
  <2>1. CASE pc' = pc
    BY <1>2, <2>1, PlayTestShape, MainIsNoWorker DEF WorkersAllowed
  <2>2. CASE Goto(Main, afterTest(Main, pc[Main]))
    <3> DEFINE label == afterTest(Main, pc[Main])
    <3>1. /\ label \in BeforeLoopLabels => pc[Main] \in BeforeLoopLabels
          /\ label \in CheckedLabels => pc[Main] \in CheckedLabels
      BY <1>2, PlayTestShape, MainIsNoWorker DEF afterTest, Tests
    <3> QED BY <1>2, <2>2, <3>1, PlayTestShape, WorkersAllowedMain, MainIsNoWorker
  <2> QED BY <1>2, <2>1, <2>2, PlayTestShape, MainIsNoWorker
<1>3. ASSUME NEW w \in Workers, SaveStep(w) PROVE WorkersAllowed'
  BY <1>3, SaveShape, WorkersAllowedFrame, MainIsNoWorker DEF SaveLabels
<1>4. ASSUME SaveStep(Main) PROVE WorkersAllowed'
  BY <1>4, SaveShape, WorkersAllowedMain, MainIsNoWorker DEF SaveLabels, afterSave
<1>5. ASSUME NEW w \in Workers, WorkerStep(w) PROVE WorkersAllowed'
  <2>1. CASE SaveLogsStep(w)
    BY <2>1, SaveLogsShape, WorkersAllowedFrame
  <2>2. CASE enterWorker(w) \/ addConnections(w) \/ WorkerThrows(w)
    <3>1. pc[w] # "notStarted" /\ \E label : Goto(w, label)
      BY <2>2 DEF enterWorker, addConnections, WorkerThrows, WorkerTryLabels
    <3>2. UNCHANGED <<threadLocalStorage, ConnectionsToRunInThread>>
      BY <2>2 DEF enterWorker, addConnections, WorkerThrows, runVars
    <3> QED BY <3>1, <3>2, WorkersAllowedFrame
  <2> QED BY <1>5, <2>1, <2>2 DEF WorkerStep
<1>6. ASSUME MainStep PROVE WorkersAllowed'
  <2>1. CASE throwIfUnsupportedEnv
    BY <2>1, MainIsNoWorker
    DEF throwIfUnsupportedEnv, unsupportedEnv, WorkersAllowed, Goto, runVars,
        TypeInv, TypeOK, PcTypeOK, GlobalsTypeOK, Workers
  <2>2. CASE initConnsInThreadsTesting
    BY <2>2, MainIsNoWorker
    DEF initConnsInThreadsTesting, WorkersAllowed, Goto, TypeInv, TypeOK, PcTypeOK
  <2>3. ASSUME NEW c \in RemovableConnections, startWorkerThread(c)
        PROVE  WorkersAllowed'
    BY <2>3, MainIsNoWorker
    DEF startWorkerThread, runsInThread, WorkersAllowed, Goto, TypeInv, TypeOK,
        PcTypeOK, Workers
  <2>4. CASE OtherTestsStatement \/ replayThrdLogToConsole
    BY <2>4 DEF OtherTestsStatement, replayThrdLogToConsole, runVars, WorkersAllowed
  <2>5. CASE EndOtherTests
    <3>1. afterTest(Main, pc[Main]) = "TestConnection"
      BY <2>5 DEF EndOtherTests, afterTest
    <3> QED BY <2>5, <3>1, WorkersAllowedMain DEF EndOtherTests, runVars
  <2>6. ASSUME NEW c \in RemovableConnections, testConnectionInMainThread(c)
        PROVE  WorkersAllowed'
    BY <2>6, WorkersAllowedMain DEF testConnectionInMainThread
  <2>7. CASE connectToDatabase
    BY <2>7, WorkersAllowedMain DEF connectToDatabase, runVars
  <2>8. CASE endOfLoop \/ joinThreads \/ endOfReplay \/ logApplicationSummary
             \/ returnFromMain \/ MainThrows \/ CatchInMain
    <3>1. PICK label \in { "joinThreads", "saveCountersForAppSummary",
                           "replayThrdLogToConsole", "unwinding", "return", "done" } :
            Goto(Main, label)
      BY <2>8 DEF endOfLoop, joinThreads, endOfReplay, logApplicationSummary,
                  returnFromMain, MainThrows, CatchInMain
    <3>2. UNCHANGED <<threadLocalStorage, ConnectionsToRunInThread>>
      BY <2>8 DEF endOfLoop, joinThreads, endOfReplay, logApplicationSummary,
                  returnFromMain, MainThrows, CatchInMain, runVars
    <3> QED BY <3>1, <3>2, WorkersAllowedMain
  <2> QED BY <1>6, <2>1, <2>2, <2>3, <2>4, <2>5, <2>6, <2>7, <2>8 DEF MainStep
<1>7. CASE Ended
  BY <1>7 DEF Ended, vars, runVars, WorkersAllowed
<1> QED
  BY <1>1, <1>2, <1>3, <1>4, <1>5, <1>6, <1>7
  DEF Next, MainThread, WorkerThread

-----------------------------------------------------------------------------
(* The flag that tells workers apart *)

\* A worker that was started has thread-local variables of its own.
LEMMA OwnSlot ==
  ASSUME WorkersAllowed, NEW w \in Workers, pc[w] # "notStarted"
  PROVE  threadLocalStorage /\ Slot(w) = w
BY DEF WorkersAllowed, Slot

LEMMA MainSlot == Slot(Main) = Main
BY DEF Slot

\* A step that leaves the flag alone and takes no worker into the try block.
LEMMA FlagFrame ==
  ASSUME InThreadFlagFaithful, UNCHANGED <<threadLocalStorage, g_inThread>>,
         \A w \in Workers : pc'[w] \in FlaggedLabels => pc[w] \in FlaggedLabels
  PROVE  InThreadFlagFaithful'
BY DEF InThreadFlagFaithful, Slot

LEMMA InThreadFlagNext ==
  ASSUME TypeInv, WorkersAllowed, InThreadFlagFaithful, Next
  PROVE  InThreadFlagFaithful'
<1> USE DEF FlaggedLabels, WorkerLabels
<1>1. ASSUME NEW w \in Workers, PlayTestStep(w) PROVE InThreadFlagFaithful'
  BY <1>1, PlayTestShape, WorkerTests, FlagFrame, MainIsNoWorker
  DEF Goto, TypeInv, TypeOK, PcTypeOK
<1>2. ASSUME PlayTestStep(Main) PROVE InThreadFlagFaithful'
  BY <1>2, PlayTestShape, FlagFrame, MainIsNoWorker
  DEF Goto, TypeInv, TypeOK, PcTypeOK
<1>3. ASSUME NEW t \in Threads, SaveStep(t) PROVE InThreadFlagFaithful'
  <2>1. \A w \in Workers : pc'[w] \in FlaggedLabels => pc[w] \in FlaggedLabels
    <3>1. t \in Workers => pc[t] \in FlaggedLabels
      BY <1>3, SaveShape DEF SaveLabels
    <3>2. \A w \in Workers : w # t => pc'[w] = pc[w]
      BY <1>3, SaveShape, MainIsNoWorker DEF Goto, TypeInv, TypeOK, PcTypeOK
    <3> QED BY <3>1, <3>2
  <2> QED BY <1>3, <2>1, SaveShape, FlagFrame
<1>4. ASSUME NEW w \in Workers, WorkerStep(w) PROVE InThreadFlagFaithful'
  <2>1. CASE enterWorker(w)
    <3>1. Slot(w) = w /\ threadLocalStorage
      BY <2>1, OwnSlot DEF enterWorker
    <3>2. g_inThread' = [g_inThread EXCEPT ![w] = TRUE] /\ UNCHANGED threadLocalStorage
      BY <2>1, <3>1 DEF enterWorker, setInThread
    <3>3. pc' = [pc EXCEPT ![w] = "addConnections"]
      BY <2>1 DEF enterWorker, Goto
    <3> QED BY <3>1, <3>2, <3>3, MainIsNoWorker
            DEF InThreadFlagFaithful, Slot, TypeInv, TypeOK, PcTypeOK, GlobalsTypeOK
  <2>2. CASE addConnections(w)
    BY <2>2, FlagFrame
    DEF addConnections, globalsVars, Goto, TypeInv, TypeOK, PcTypeOK
  <2>3. CASE SaveLogsStep(w)
    <3>1. pc[w] \in FlaggedLabels
      BY <2>3, SaveLogsShape
    <3>2. \A v \in Workers : v # w => pc'[v] = pc[v]
      BY <2>3, SaveLogsShape, MainIsNoWorker DEF Goto, TypeInv, TypeOK, PcTypeOK
    <3> QED BY <2>3, <3>1, <3>2, SaveLogsShape, FlagFrame
  <2>4. CASE WorkerThrows(w)
    <3>1. Slot(w) = w /\ threadLocalStorage
      BY <2>4, OwnSlot DEF WorkerThrows, WorkerTryLabels
    <3>2. g_inThread' = [g_inThread EXCEPT ![w] = FALSE] /\ UNCHANGED threadLocalStorage
      BY <2>4, <3>1 DEF WorkerThrows, setInThread
    <3>3. pc' = [pc EXCEPT ![w] = "failed"]
      BY <2>4 DEF WorkerThrows, Goto
    <3> QED BY <3>1, <3>2, <3>3, MainIsNoWorker
            DEF InThreadFlagFaithful, Slot, TypeInv, TypeOK, PcTypeOK, GlobalsTypeOK
  <2> QED BY <1>4, <2>1, <2>2, <2>3, <2>4 DEF WorkerStep
<1>5. ASSUME MainStep PROVE InThreadFlagFaithful'
  <2>1. UNCHANGED <<threadLocalStorage, g_inThread>>
    BY <1>5
    DEF MainStep, connectToDatabase, throwIfUnsupportedEnv, OtherTestsStatement,
        EndOtherTests, initConnsInThreadsTesting, startWorkerThread,
        testConnectionInMainThread, endOfLoop, joinThreads, replayThrdLogToConsole,
        endOfReplay, logApplicationSummary, returnFromMain, MainThrows, CatchInMain,
        globalsVars
  <2>2. \/ UNCHANGED pc
        \/ \E label : Goto(Main, label)
        \/ \E w \in Workers : Goto(w, "throwIfNoConfig")
    BY <1>5
    DEF MainStep, connectToDatabase, throwIfUnsupportedEnv, OtherTestsStatement,
        EndOtherTests, initConnsInThreadsTesting, startWorkerThread,
        testConnectionInMainThread, endOfLoop, joinThreads, replayThrdLogToConsole,
        endOfReplay, logApplicationSummary, returnFromMain, MainThrows, CatchInMain,
        Workers
  <2>3. \A w \in Workers : pc'[w] \in FlaggedLabels => pc[w] \in FlaggedLabels
    BY <2>2, MainIsNoWorker DEF Goto, TypeInv, TypeOK, PcTypeOK
  <2> QED BY <2>1, <2>3, FlagFrame
<1>6. CASE Ended
  BY <1>6, FlagFrame DEF Ended, vars, globalsVars
<1> QED
  BY <1>1, <1>2, <1>3, <1>4, <1>5, <1>6, MainIsNoWorker
  DEF Next, MainThread, WorkerThread

-----------------------------------------------------------------------------
(* Connection names *)

\* The connections a worker's test uses are mapped to the worker's own.
LEMMA WorkerConnections ==
  ASSUME TypeInv, WorkersAllowed, ConnectionShares, NEW w \in Workers, pc[w] \in Tests
  PROVE  connectionsOf(w, pc[w]) \subseteq getMappedConnections(w)
<1>1. pc[w] \in LoopTestLabels /\ Slot(w) = w
  BY WorkerTests, OwnSlot DEF LoopTestLabels
<1>2. defaultConnection[Slot(w)] = w
  BY <1>1 DEF ConnectionShares
<1>3. connectionsOf(w, pc[w]) \subseteq { w, torrentConnection(w) }
  BY <1>2, WorkerTests DEF connectionsOf
<1> QED BY <1>3, ConfigurationAssumption DEF Workers

\* With workers, no test of the main thread uses a connection of a worker.
LEMMA MainConnections ==
  ASSUME TypeInv, ConnectionShares, ConnectionsInThreads, pc[Main] \in Tests,
         NEW n \in connectionsOf(Main, pc[Main])
  PROVE  mappedConnection(n) \notin ConnectionsToRunInThread
<1> DEFINE default == defaultConnection[Slot(Main)]
<1>1. ConnectionsToRunInThread \subseteq RemovableConnections
  BY DEF TypeInv, TypeOK, RunTypeOK
<1>2. ASSUME NEW m \in { Mysql_MainThread, Mysql_Laravel8, Sqlite_Memory,
                         Sqlite_CheckExistsTrue, Sqlite_CheckExistsFalse }
      PROVE  mappedConnection(m) \notin ConnectionsToRunInThread
  BY <1>1, ConfigurationAssumption
<1>3. ASSUME NEW c \in RemovableConnections \ ConnectionsToRunInThread
      PROVE  /\ mappedConnection(c) \notin ConnectionsToRunInThread
             /\ mappedConnection(torrentConnection(c)) \notin ConnectionsToRunInThread
  BY ConfigurationAssumption
<1>4. default \in { Mysql_MainThread } \union (RemovableConnections \ ConnectionsToRunInThread)
  BY MainSlot DEF ConnectionShares
<1>5. CASE pc[Main] = "TestTinyOrm"
  <2>1. default \in RemovableConnections \ ConnectionsToRunInThread
    BY <1>5, MainSlot DEF ConnectionShares, LoopTestLabels
  <2>2. n \in { default, torrentConnection(default) }
    BY <1>5 DEF connectionsOf
  <2> QED BY <1>3, <2>1, <2>2
<1>6. CASE pc[Main] # "TestTinyOrm"
  <2>1. n \in { default, Mysql_MainThread, Mysql_Laravel8, Sqlite_Memory,
                Sqlite_CheckExistsTrue, Sqlite_CheckExistsFalse }
    BY <1>6 DEF connectionsOf, MysqlMainThreadConnection, Tests
  <2> QED BY <1>2, <1>3, <1>4, <2>1
<1> QED BY <1>5, <1>6

\* The main thread counts no connection of a worker.
LEMMA MainCounts ==
  ASSUME TypeInv, ConnectionsInThreads,
         NEW n \in computeConnectionsToCountForMainThread(ConnectionsToTest,
                                                          ConnectionsToRunInThread)
  PROVE  mappedConnection(n) \notin ConnectionsToRunInThread
BY DEF computeConnectionsToCountForMainThread, TypeInv, TypeOK, RunTypeOK

\* A step of thread t that opens connections of its share, moves no thread to a
\* test of the loop and changes no default connection.
LEMMA SharesFrame ==
  ASSUME TypeInv, ConnectionShares, NEW t \in Threads,
         \E names \in SUBSET Configurations :
           /\ opened' = [opened EXCEPT ![t] = @ \union names]
           /\ t \in Workers => names \subseteq getMappedConnections(t)
           /\ t = Main /\ ConnectionsInThreads =>
                \A n \in names : mappedConnection(n) \notin ConnectionsToRunInThread,
         UNCHANGED <<defaultConnection, ConnectionsToRunInThread>>,
         \A u \in Threads : pc'[u] \in LoopTestLabels => pc[u] \in LoopTestLabels
  PROVE  ConnectionShares'
<1>1. PICK names \in SUBSET Configurations :
        /\ opened' = [opened EXCEPT ![t] = @ \union names]
        /\ t \in Workers => names \subseteq getMappedConnections(t)
        /\ t = Main /\ ConnectionsInThreads =>
             \A n \in names : mappedConnection(n) \notin ConnectionsToRunInThread
  OBVIOUS
<1>2. \A u \in Threads : opened'[u] = IF u = t THEN opened[u] \union names ELSE opened[u]
  BY <1>1 DEF TypeInv, TypeOK, DatabaseTypeOK
<1> QED BY <1>1, <1>2, MainIsNoWorker DEF ConnectionShares

\* The same for a step that opens no connection.
LEMMA SharesStutter ==
  ASSUME TypeInv, ConnectionShares,
         UNCHANGED <<opened, defaultConnection, ConnectionsToRunInThread>>,
         \A u \in Threads : pc'[u] \in LoopTestLabels => pc[u] \in LoopTestLabels
  PROVE  ConnectionShares'
BY MainIsNoWorker DEF ConnectionShares

\* The next test after one of the loop is of the loop, and no other leads there.
LEMMA AfterTestLoop ==
  ASSUME TypeInv, NEW t \in Threads, PlayTestStep(t)
  PROVE  \A u \in Threads : pc'[u] \in LoopTestLabels => pc[u] \in LoopTestLabels
<1>1. afterTest(t, pc[t]) \in LoopTestLabels => pc[t] \in LoopTestLabels
  BY PlayTestShape DEF afterTest, LoopTestLabels, Tests
<1> QED BY <1>1, PlayTestShape DEF Goto, TypeInv, TypeOK, PcTypeOK

LEMMA ConnectionSharesNext ==
  ASSUME TypeInv, WorkersAllowed, ConnectionShares, Next
  PROVE  ConnectionShares'
<1>1. ASSUME NEW t \in Threads, PlayTestStep(t) PROVE ConnectionShares'
  <2>1. \A u \in Threads : pc'[u] \in LoopTestLabels => pc[u] \in LoopTestLabels
    BY <1>1, AfterTestLoop
  <2>2. UNCHANGED <<defaultConnection, ConnectionsToRunInThread>> /\ pc[t] \in Tests
    BY <1>1, PlayTestShape
  <2>3. CASE UNCHANGED opened
    BY <2>1, <2>2, <2>3, SharesStutter
  <2>4. ASSUME NEW n \in Configurations, NEW affecting \in BOOLEAN,
               PlayTestStatement(t, n, affecting)
        PROVE  ConnectionShares'
    <3>1. n \in connectionsOf(t, pc[t]) /\ opened' = [opened EXCEPT ![t] = @ \union { n }]
      BY <2>4 DEF PlayTestStatement, execute
    <3>2. t \in Workers => { n } \subseteq getMappedConnections(t)
      BY <2>2, <3>1, WorkerConnections
    <3>3. t = Main /\ ConnectionsInThreads =>
            \A m \in { n } : mappedConnection(m) \notin ConnectionsToRunInThread
      BY <2>2, <3>1, MainConnections
    <3>4. \E names \in SUBSET Configurations :
            /\ opened' = [opened EXCEPT ![t] = @ \union names]
            /\ t \in Workers => names \subseteq getMappedConnections(t)
            /\ t = Main /\ ConnectionsInThreads =>
                 \A m \in names : mappedConnection(m) \notin ConnectionsToRunInThread
      <4> WITNESS { n } \in SUBSET Configurations
      <4> QED BY <3>1, <3>2, <3>3
    <3> QED BY <2>1, <2>2, <3>4, SharesFrame
  <2>5. UNCHANGED opened \/ \E n \in Configurations, affecting \in BOOLEAN :
                               PlayTestStatement(t, n, affecting)
    BY <1>1 DEF PlayTestStep, SkipTest, StartPlayTest, LogPlayTest, dbVars,
                resetAllQueryLogCounters, logQueryCounters
  <2> QED BY <2>3, <2>4, <2>5
<1>2. ASSUME NEW t \in Threads, SaveStep(t) PROVE ConnectionShares'
  <2>1. \A u \in Threads : pc'[u] \in LoopTestLabels => pc[u] \in LoopTestLabels
    BY <1>2, SaveShape
    DEF SaveLabels, afterSave, LoopTestLabels, Goto, TypeInv, TypeOK, PcTypeOK
  <2> QED BY <1>2, <2>1, SaveShape, SharesStutter DEF dbVars
<1>3. ASSUME NEW w \in Workers, WorkerStep(w) PROVE ConnectionShares'
  <2>1. CASE SaveLogsStep(w)
    <3>1. \A u \in Threads : pc'[u] \in LoopTestLabels => pc[u] \in LoopTestLabels
      BY <2>1, SaveLogsShape DEF LoopTestLabels, Goto, TypeInv, TypeOK, PcTypeOK
    <3> QED BY <2>1, <3>1, SaveLogsShape, SharesStutter DEF dbVars
  <2>2. CASE enterWorker(w) \/ WorkerThrows(w)
    <3>1. Goto(w, "addConnections") \/ Goto(w, "failed")
      BY <2>2 DEF enterWorker, WorkerThrows
    <3>2. UNCHANGED <<opened, defaultConnection, ConnectionsToRunInThread>>
      BY <2>2 DEF enterWorker, WorkerThrows, dbVars, runVars
    <3>3. \A u \in Threads : pc'[u] \in LoopTestLabels => pc[u] \in LoopTestLabels
      BY <3>1 DEF LoopTestLabels, Goto, TypeInv, TypeOK, PcTypeOK
    <3> QED BY <3>2, <3>3, SharesStutter
  <2>3. CASE addConnections(w)
    <3>1. Slot(w) = w /\ w # Main
      BY <2>3, OwnSlot, MainIsNoWorker DEF addConnections
    <3>2. /\ opened' = [opened EXCEPT ![w] = @ \union getMappedConnections(w)]
          /\ defaultConnection' = [defaultConnection EXCEPT ![w] = w]
          /\ pc' = [pc EXCEPT ![w] = "TestQueryBuilder"]
          /\ UNCHANGED ConnectionsToRunInThread
      BY <2>3, <3>1 DEF addConnections, addAndCount, Goto, runVars,
                        computeConnectionsToCountForWorkerThread
    <3>3. \A u \in Threads :
            /\ opened'[u] = IF u = w THEN opened[u] \union getMappedConnections(w)
                                     ELSE opened[u]
            /\ defaultConnection'[u] = IF u = w THEN w ELSE defaultConnection[u]
            /\ pc'[u] = IF u = w THEN "TestQueryBuilder" ELSE pc[u]
      BY <3>2 DEF TypeInv, TypeOK, DatabaseTypeOK, PcTypeOK
    <3> QED BY <3>1, <3>2, <3>3, MainIsNoWorker DEF ConnectionShares
  <2> QED BY <1>3, <2>1, <2>2, <2>3 DEF WorkerStep
<1>4. ASSUME MainStep PROVE ConnectionShares'
  <2>1. CASE connectToDatabase
    <3> DEFINE count == computeConnectionsToCountForMainThread(
                          ConnectionsToTest, ConnectionsToRunInThread)
    <3>1. /\ opened' = [opened EXCEPT ![Main] = @ \union count]
          /\ defaultConnection' = [defaultConnection EXCEPT ![Main] = getDefaultConnectionName]
          /\ pc' = [pc EXCEPT ![Main] = "TestForPlay"]
          /\ UNCHANGED ConnectionsToRunInThread
      BY <2>1, MainSlot DEF connectToDatabase, addAndCount, Goto, runVars
    <3>2. ConnectionsInThreads =>
            \A n \in count : mappedConnection(n) \notin ConnectionsToRunInThread
      BY MainCounts
    <3> HIDE DEF count
    <3>3. \A u \in Threads :
            /\ opened'[u] = IF u = Main THEN opened[u] \union count ELSE opened[u]
            /\ defaultConnection'[u] = IF u = Main THEN getDefaultConnectionName
                                                   ELSE defaultConnection[u]
            /\ pc'[u] = IF u = Main THEN "TestForPlay" ELSE pc[u]
      BY <3>1 DEF TypeInv, TypeOK, DatabaseTypeOK, PcTypeOK
    <3> QED BY <3>1, <3>2, <3>3, MainIsNoWorker
            DEF ConnectionShares, LoopTestLabels, getDefaultConnectionName
  <2>2. CASE initConnsInThreadsTesting
    <3>1. ConnectionsToRunInThread' \subseteq ConnectionsToRunInThread
      BY <2>2 DEF initConnsInThreadsTesting, santizeConnectionsToRunInThread
    <3>2. UNCHANGED <<opened, defaultConnection>>
      BY <2>2 DEF initConnsInThreadsTesting, dbVars
    <3>3. Goto(Main, "unwinding") \/ Goto(Main, "nextConnection")
      BY <2>2 DEF initConnsInThreadsTesting
    <3>4. \A u \in Threads : pc'[u] \in LoopTestLabels => pc[u] \in LoopTestLabels
      BY <3>3 DEF LoopTestLabels, Goto, TypeInv, TypeOK, PcTypeOK
    <3> QED BY <3>1, <3>2, <3>4, MainIsNoWorker DEF ConnectionShares
  <2>3. ASSUME NEW c \in RemovableConnections, testConnectionInMainThread(c)
        PROVE  ConnectionShares'
    <3>1. /\ defaultConnection' = [defaultConnection EXCEPT ![Main] = c]
          /\ pc' = [pc EXCEPT ![Main] = "TestQueryBuilder"]
          /\ UNCHANGED <<opened, ConnectionsToRunInThread>>
          /\ ConnectionsInThreads => c \notin ConnectionsToRunInThread
      BY <2>3, MainSlot
      DEF testConnectionInMainThread, runsInThread, setDefaultConnection, Goto
    <3>2. \A u \in Threads :
            /\ defaultConnection'[u] = IF u = Main THEN c ELSE defaultConnection[u]
            /\ pc'[u] = IF u = Main THEN "TestQueryBuilder" ELSE pc[u]
      BY <3>1 DEF TypeInv, TypeOK, DatabaseTypeOK, PcTypeOK
    <3> QED BY <3>1, <3>2, MainIsNoWorker DEF ConnectionShares
  <2>4. ASSUME NEW c \in RemovableConnections, startWorkerThread(c)
        PROVE  ConnectionShares'
    <3>1. \A u \in Threads : pc'[u] \in LoopTestLabels => pc[u] \in LoopTestLabels
      BY <2>4 DEF startWorkerThread, LoopTestLabels, Goto, TypeInv, TypeOK, PcTypeOK
    <3> QED BY <2>4, <3>1, SharesStutter DEF startWorkerThread, dbVars
  <2>5. CASE joinThreads
    <3>1. /\ defaultConnection' = [defaultConnection EXCEPT ![Main] = getDefaultConnectionName]
          /\ UNCHANGED <<opened, ConnectionsToRunInThread>>
      BY <2>5, MainSlot DEF joinThreads, setDefaultConnection, runVars
    <3>2. Goto(Main, "saveCountersForAppSummary") \/ Goto(Main, "replayThrdLogToConsole")
      BY <2>5 DEF joinThreads
    <3>3. \A u \in Threads :
            /\ defaultConnection'[u] = IF u = Main THEN getDefaultConnectionName
                                                   ELSE defaultConnection[u]
            /\ pc'[u] \in LoopTestLabels => pc[u] \in LoopTestLabels /\ u # Main
      BY <3>1, <3>2 DEF LoopTestLabels, Goto, TypeInv, TypeOK, DatabaseTypeOK, PcTypeOK
    <3> QED BY <3>1, <3>3, MainIsNoWorker DEF ConnectionShares, getDefaultConnectionName
  <2>6. CASE OtherTestsStatement
    <3>1. PICK n \in connectionsOf(Main, pc[Main]) \intersect ormConfigurations[Slot(Main)] :
            execute(Main, n, FALSE)
      BY <2>6 DEF OtherTestsStatement
    <3>2. n \in Configurations
      BY <3>1, SlotType, MainIsNoWorker DEF TypeInv, TypeOK, DatabaseTypeOK
    <3>3. ConnectionsInThreads =>
            \A m \in { n } : mappedConnection(m) \notin ConnectionsToRunInThread
      BY <2>6, <3>1, MainConnections DEF OtherTestsStatement, Tests
    <3>4. /\ opened' = [opened EXCEPT ![Main] = @ \union { n }]
          /\ UNCHANGED <<defaultConnection, ConnectionsToRunInThread, pc>>
      BY <2>6, <3>1 DEF OtherTestsStatement, execute, runVars
    <3>5. \E names \in SUBSET Configurations :
            /\ opened' = [opened EXCEPT ![Main] = @ \union names]
            /\ Main \in Workers => names \subseteq getMappedConnections(Main)
            /\ Main = Main /\ ConnectionsInThreads =>
                 \A m \in names : mappedConnection(m) \notin ConnectionsToRunInThread
      <4>1. { n } \in SUBSET Configurations
        BY <3>2
      <4> WITNESS { n } \in SUBSET Configurations
      <4> QED BY <3>3, <3>4, MainIsNoWorker
    <3> QED BY <3>4, <3>5, SharesFrame, MainIsNoWorker
  <2>7. CASE replayThrdLogToConsole
    BY <2>7, SharesStutter DEF replayThrdLogToConsole, dbVars, runVars
  <2>8. CASE throwIfUnsupportedEnv \/ EndOtherTests \/ endOfLoop \/ endOfReplay
             \/ logApplicationSummary \/ returnFromMain \/ MainThrows \/ CatchInMain
    <3>1. PICK label \in { "TestAllOtherTests", "TestConnection", "joinThreads", "unwinding",
                           "saveCountersForAppSummary", "return", "done" } :
            Goto(Main, label)
      BY <2>8 DEF throwIfUnsupportedEnv, EndOtherTests, afterTest, endOfLoop, endOfReplay,
                  logApplicationSummary, returnFromMain, MainThrows, CatchInMain
    <3>2. UNCHANGED <<opened, defaultConnection, ConnectionsToRunInThread>>
      BY <2>8 DEF throwIfUnsupportedEnv, EndOtherTests, endOfLoop, endOfReplay, dbVars,
                  logApplicationSummary, returnFromMain, MainThrows, CatchInMain, runVars
    <3>3. \A u \in Threads : pc'[u] \in LoopTestLabels => pc[u] \in LoopTestLabels
      BY <3>1 DEF LoopTestLabels, Goto, TypeInv, TypeOK, PcTypeOK
    <3> QED BY <3>2, <3>3, SharesStutter
  <2> QED BY <1>4, <2>1, <2>2, <2>3, <2>4, <2>5, <2>6, <2>7, <2>8 DEF MainStep
<1>5. CASE Ended
  BY <1>5, SharesStutter DEF Ended, vars, dbVars, runVars
<1> QED
  BY <1>1, <1>2, <1>3, <1>4, <1>5, MainIsNoWorker
  DEF Next, MainThread, WorkerThread

\* A worker that was not started has not opened a connection, and a started
\* one stays so.
OpenedAfterStart == \A w \in Workers : opened[w] # {} => pc[w] # "notStarted"

LEMMA OpenedAfterStartNext ==
  ASSUME TypeInv, OpenedAfterStart, Next
  PROVE  OpenedAfterStart'
<1> SUFFICES ASSUME NEW w \in Workers
             PROVE  /\ pc[w] # "notStarted" => pc'[w] # "notStarted"
                    /\ pc[w] = "notStarted" => opened'[w] = opened[w]
  BY DEF OpenedAfterStart
<1> USE MainIsNoWorker DEF TypeInv, TypeOK, PcTypeOK, DatabaseTypeOK, Goto
<1>1. ASSUME NEW t \in Threads, PlayTestStep(t)
      PROVE  /\ pc[w] # "notStarted" => pc'[w] # "notStarted"
             /\ pc[w] = "notStarted" => opened'[w] = opened[w]
  <2>1. pc[w] \in Tests => afterTest(w, pc[w]) # "notStarted"
    BY WorkerTests
  <2>2. UNCHANGED opened \/ \E names : opened' = [opened EXCEPT ![t] = names]
    BY <1>1 DEF PlayTestStep, SkipTest, StartPlayTest, PlayTestStatement, LogPlayTest,
                dbVars, resetAllQueryLogCounters, logQueryCounters, execute
  <2>3. pc[t] # "notStarted"
    BY <1>1, PlayTestShape DEF Tests
  <2> QED BY <1>1, <2>1, <2>2, <2>3, PlayTestShape
<1>2. ASSUME NEW t \in Threads, SaveStep(t)
      PROVE  /\ pc[w] # "notStarted" => pc'[w] # "notStarted"
             /\ pc[w] = "notStarted" => opened'[w] = opened[w]
  BY <1>2, SaveShape DEF SaveLabels, afterSave, dbVars
<1>3. ASSUME NEW v \in Workers, WorkerStep(v)
      PROVE  /\ pc[w] # "notStarted" => pc'[w] # "notStarted"
             /\ pc[w] = "notStarted" => opened'[w] = opened[w]
  <2>1. CASE SaveLogsStep(v)
    BY <2>1, SaveLogsShape DEF dbVars
  <2>2. CASE enterWorker(v) \/ WorkerThrows(v)
    BY <2>2 DEF enterWorker, WorkerThrows, dbVars
  <2>3. CASE addConnections(v)
    BY <2>3 DEF addConnections, addAndCount
  <2> QED BY <1>3, <2>1, <2>2, <2>3 DEF WorkerStep
<1>4. ASSUME MainStep
      PROVE  /\ pc[w] # "notStarted" => pc'[w] # "notStarted"
             /\ pc[w] = "notStarted" => opened'[w] = opened[w]
  <2>1. UNCHANGED opened \/ \E names : opened' = [opened EXCEPT ![Main] = names]
    BY <1>4
    DEF MainStep, connectToDatabase, throwIfUnsupportedEnv, OtherTestsStatement,
        EndOtherTests, initConnsInThreadsTesting, startWorkerThread,
        testConnectionInMainThread, endOfLoop, joinThreads, replayThrdLogToConsole,
        endOfReplay, logApplicationSummary, returnFromMain, MainThrows, CatchInMain,
        dbVars, addAndCount, execute, setDefaultConnection
  <2>2. \/ UNCHANGED pc
        \/ \E label : pc' = [pc EXCEPT ![Main] = label]
        \/ \E v \in Workers : pc' = [pc EXCEPT ![v] = "throwIfNoConfig"]
    BY <1>4
    DEF MainStep, connectToDatabase, throwIfUnsupportedEnv, OtherTestsStatement,
        EndOtherTests, initConnsInThreadsTesting, startWorkerThread,
        testConnectionInMainThread, endOfLoop, joinThreads, replayThrdLogToConsole,
        endOfReplay, logApplicationSummary, returnFromMain, MainThrows, CatchInMain,
        Workers
  <2> QED BY <2>1, <2>2
<1>5. CASE Ended
  BY <1>5 DEF Ended, vars, dbVars
<1> QED
  BY <1>1, <1>2, <1>3, <1>4, <1>5 DEF Next, MainThread, WorkerThread

\* Shares keep the threads' connection names apart.
LEMMA SharesExclude ==
  ASSUME TypeInv, WorkersAllowed, ConnectionShares, OpenedAfterStart
  PROVE  ConnectionNameExclusive
<1>1. \A v \in Workers : \A n \in opened[v] : mappedConnection(n) = v
  BY ConfigurationAssumption DEF ConnectionShares, Workers
<1>2. ASSUME NEW w \in Workers PROVE opened[w] \intersect opened[Main] = {}
  <2>1. opened[w] # {} => ConnectionsInThreads /\ w \in ConnectionsToRunInThread
    BY DEF OpenedAfterStart, WorkersAllowed
  <2> QED BY <1>1, <2>1 DEF ConnectionShares
<1>3. ASSUME NEW v \in Workers, NEW w \in Workers, v # w
      PROVE  opened[v] \intersect opened[w] = {}
  BY <1>1, <1>3
<1> QED BY <1>2, <1>3 DEF ConnectionNameExclusive, Threads

-----------------------------------------------------------------------------
(* The theorems *)

IsolationInv ==
  TypeInv /\ WorkersAllowed /\ InThreadFlagFaithful /\ ConnectionShares /\ OpenedAfterStart

LEMMA IsolationInit == Init => IsolationInv
<1> SUFFICES ASSUME Init PROVE IsolationInv
  OBVIOUS
<1>1. TypeInv
  BY TypeInvInit
<1>2. WorkersAllowed /\ InThreadFlagFaithful /\ OpenedAfterStart
  BY MainIsNoWorker, SlotType
  DEF Init, GlobalsInit, DatabaseInit, WorkersAllowed, InThreadFlagFaithful,
      OpenedAfterStart, FlaggedLabels, WorkerLabels, CheckedLabels, LoopTestLabels
<1>3. ConnectionShares
  BY MainIsNoWorker
  DEF Init, DatabaseInit, ConnectionShares, LoopTestLabels, getDefaultConnectionName
<1> QED BY <1>1, <1>2, <1>3 DEF IsolationInv

LEMMA IsolationNext == IsolationInv /\ [Next]_vars => IsolationInv'
<1> SUFFICES ASSUME IsolationInv, [Next]_vars PROVE IsolationInv'
  OBVIOUS
<1>1. CASE Next
  BY <1>1, TypeInvNext, WorkersAllowedNext, InThreadFlagNext, ConnectionSharesNext,
     OpenedAfterStartNext
  DEF IsolationInv
<1>2. CASE UNCHANGED vars
  <2>1. TypeInv'
    BY <1>2, TypeInvNext DEF IsolationInv
  <2>2. WorkersAllowed' /\ InThreadFlagFaithful' /\ ConnectionShares' /\ OpenedAfterStart'
    BY <1>2
    DEF IsolationInv, vars, globalsVars, dbVars, runVars, WorkersAllowed,
        InThreadFlagFaithful, ConnectionShares, OpenedAfterStart, Slot
  <2> QED BY <2>1, <2>2 DEF IsolationInv
<1> QED BY <1>1, <1>2

\* Worker threads only run with thread-local variables, for connections the
\* user runs in threads, and every thread keeps to its share of connections.
THEOREM IsolationCorrect == Spec => []IsolationInv
BY IsolationInit, IsolationNext, PTL DEF Spec

\* Whatever the compiler supports, g_inThread is set in every worker from its
\* start to its end and never in the main thread.
THEOREM InThreadFlagCorrect == Spec => []InThreadFlagFaithful
BY IsolationCorrect, PTL DEF IsolationInv

\* No two threads ever open the same connection name.
THEOREM ConnectionNameCorrect == Spec => []ConnectionNameExclusive
<1>1. IsolationInv => ConnectionNameExclusive
  BY SharesExclude DEF IsolationInv
<1> QED BY <1>1, IsolationCorrect, PTL

-----------------------------------------------------------------------------
(* Where the threads are *)

Holders == { "countersLocked", "countersPushed", "logsLocked", "logPushed" }

\* Only the saves touch the mutexes and what they guard.
LEMMA MutexUsers ==
  ASSUME NEW t \in Threads,
         \/ PlayTestStep(t) \/ MainStep
         \/ enterWorker(t) \/ addConnections(t) \/ WorkerThrows(t)
  PROVE  UNCHANGED <<m_countersMutex, mx_dataLogStream, m_app, m_appCountersMap>>
BY DEF PlayTestStep, SkipTest, StartPlayTest, PlayTestStatement, LogPlayTest,
       tinyMessageHandler, logQueryCounters, MainStep, connectToDatabase,
       throwIfUnsupportedEnv, OtherTestsStatement, EndOtherTests,
       initConnsInThreadsTesting, startWorkerThread, testConnectionInMainThread,
       endOfLoop, joinThreads, replayThrdLogToConsole, ReplayLog, endOfReplay,
       logApplicationSummary, returnFromMain, MainThrows, CatchInMain,
       enterWorker, addConnections, WorkerThrows, logVars, counterVars, appCounters

\* A step of the main thread's own that is no start of a worker.
LEMMA MainShape ==
  ASSUME TypeInv, MainStep
  PROVE  \/ UNCHANGED pc
         \/ \E label \in MainLabels \ Holders : Goto(Main, label) /\ pc[Main] \notin Holders
         \/ \E c \in Workers : startWorkerThread(c)
BY DEF MainStep, connectToDatabase, throwIfUnsupportedEnv, OtherTestsStatement,
       EndOtherTests, afterTest, initConnsInThreadsTesting, testConnectionInMainThread,
       endOfLoop, joinThreads, replayThrdLogToConsole, endOfReplay,
       logApplicationSummary, returnFromMain, MainThrows, MainTryLabels, CatchInMain,
       Workers, MainLabels, Tests, Holders

\* A step that neither touches a mutex nor moves a thread to or from its lock.
LEMMA MutexesFrame ==
  ASSUME TypeInv, MutexesOwned, NEW t \in Threads,
         UNCHANGED <<m_countersMutex, mx_dataLogStream>>,
         pc' = pc \/ \E label : Goto(t, label) /\ { label, pc[t] } \intersect Holders = {}
  PROVE  MutexesOwned'
BY DEF MutexesOwned, Holders, Goto, TypeInv, TypeOK, PcTypeOK

LEMMA MutexesOwnedNext ==
  ASSUME TypeInv, MutexesOwned, Next PROVE MutexesOwned'
<1>1. ASSUME NEW t \in Threads, PlayTestStep(t) PROVE MutexesOwned'
  <2>1. { afterTest(t, pc[t]), pc[t] } \intersect Holders = {}
    BY <1>1, PlayTestShape DEF Tests, Holders, afterTest
  <2> QED BY <1>1, <2>1, PlayTestShape, MutexUsers, MutexesFrame
<1>2. ASSUME NEW t \in Threads, SaveStep(t) PROVE MutexesOwned'
  <2>1. UNCHANGED mx_dataLogStream
    BY <1>2 DEF SaveStep, lockForSave, addCounters, newCounters, mapCounters,
                unchangedBySave, logVars
  <2>2. afterSave(t) \notin Holders
    BY DEF afterSave, Holders
  <2>3. CASE lockForSave(t)
    BY <2>1, <2>3, LogAssumption
    DEF lockForSave, LockCounters, MutexesOwned, Goto, TypeInv, TypeOK, PcTypeOK
  <2>4. CASE addCounters(t) \/ mapCounters(t)
    BY <2>1, <2>2, <2>4, LogAssumption
    DEF addCounters, mapCounters, addCountersForAppSummary, MapCountersAndUnlock,
        MutexesOwned, Goto, TypeInv, TypeOK, PcTypeOK, Holders
  <2>5. CASE newCounters(t)
    BY <2>1, <2>5
    DEF newCounters, newCountersForAppSummary, MutexesOwned, Goto, TypeInv, TypeOK, PcTypeOK
  <2> QED BY <1>2, <2>3, <2>4, <2>5 DEF SaveStep
<1>3. ASSUME NEW w \in Workers, WorkerStep(w) PROVE MutexesOwned'
  <2>1. CASE SaveLogsStep(w)
    <3>1. UNCHANGED m_countersMutex
      BY <2>1 DEF SaveLogsStep, lockForLogs, streamLog, endOfStream, pushLog, mapLog,
                  unchangedByLogs, counterVars
    <3>2. CASE lockForLogs(w)
      BY <3>1, <3>2, LogAssumption, MainIsNoWorker
      DEF lockForLogs, LockDataLogStream, MutexesOwned, Goto, TypeInv, TypeOK, PcTypeOK
    <3>3. CASE streamLog(w)
      BY <3>1, <3>3 DEF streamLog, StreamMessage, MutexesOwned
    <3>4. CASE endOfStream(w) \/ mapLog(w)
      BY <3>1, <3>4, LogAssumption, MainIsNoWorker
      DEF endOfStream, mapLog, UnlockDataLogStream, MapLogAndUnlock, MutexesOwned, Goto,
          TypeInv, TypeOK, PcTypeOK
    <3>5. CASE pushLog(w)
      BY <3>1, <3>5, MainIsNoWorker
      DEF pushLog, PushLog, MutexesOwned, Goto, TypeInv, TypeOK, PcTypeOK
    <3> QED BY <2>1, <3>2, <3>3, <3>4, <3>5 DEF SaveLogsStep
  <2>2. CASE enterWorker(w) \/ addConnections(w) \/ WorkerThrows(w)
    <3>1. PICK label \in { "addConnections", "TestQueryBuilder", "failed" } : Goto(w, label)
      BY <2>2 DEF enterWorker, addConnections, WorkerThrows
    <3>2. pc[w] \in WorkerTryLabels
      BY <2>2 DEF enterWorker, addConnections, WorkerThrows, WorkerTryLabels
    <3>3. { label, pc[w] } \intersect Holders = {}
      BY <3>2 DEF WorkerTryLabels, Holders
    <3> QED BY <2>2, <3>1, <3>3, MutexUsers, MutexesFrame, MainIsNoWorker
  <2> QED BY <1>3, <2>1, <2>2 DEF WorkerStep
<1>4. ASSUME MainStep PROVE MutexesOwned'
  <2>1. ASSUME NEW c \in Workers, startWorkerThread(c) PROVE MutexesOwned'
    <3>1. pc[c] = "notStarted"
      BY <2>1 DEF startWorkerThread, TypeInv, UntestedNotStarted
    <3>2. Goto(c, "throwIfNoConfig") /\ { "throwIfNoConfig", pc[c] } \intersect Holders = {}
      BY <2>1, <3>1 DEF startWorkerThread, Holders
    <3> QED BY <1>4, <3>2, MutexUsers, MutexesFrame, MainIsNoWorker
  <2> QED BY <1>4, <2>1, MainShape, MutexUsers, MutexesFrame, MainIsNoWorker
<1>5. CASE Ended
  BY <1>5 DEF Ended, vars, counterVars, logVars, MutexesOwned
<1> QED
  BY <1>1, <1>2, <1>3, <1>4, <1>5, MainIsNoWorker DEF Next, MainThread, WorkerThread

\* A worker's step is one of a worker that has not ended, and moves no other.
LEMMA WorkerShape ==
  ASSUME TypeInv, NEW w \in Workers, WorkerThread(w)
  PROVE  /\ pc[w] \notin { "notStarted", "done", "failed" }
         /\ \A u \in Threads : u # w => pc'[u] = pc[u]
         /\ pc'[w] # "notStarted"
         /\ UNCHANGED outcome
<1> USE MainIsNoWorker DEF TypeInv, TypeOK, PcTypeOK, Goto
<1>1. CASE PlayTestStep(w)
  <2>1. UNCHANGED outcome
    BY <1>1 DEF PlayTestStep, SkipTest, StartPlayTest, PlayTestStatement, LogPlayTest
  <2>2. pc[w] \in Tests /\ (pc' = pc \/ Goto(w, afterTest(w, pc[w])))
    BY <1>1, PlayTestShape
  <2>3. afterTest(w, pc[w]) # "notStarted"
    BY <2>2, WorkerTests
  <2> QED BY <2>1, <2>2, <2>3 DEF Tests
<1>2. CASE SaveStep(w)
  <2>1. UNCHANGED outcome
    BY <1>2 DEF SaveStep, lockForSave, addCounters, newCounters, mapCounters, unchangedBySave
  <2> QED BY <1>2, <2>1, SaveShape DEF SaveLabels, afterSave
<1>3. CASE WorkerStep(w)
  <2>1. CASE SaveLogsStep(w)
    <3>1. UNCHANGED outcome
      BY <2>1 DEF SaveLogsStep, lockForLogs, streamLog, endOfStream, pushLog, mapLog,
                  unchangedByLogs
    <3> QED BY <2>1, <3>1, SaveLogsShape
  <2>2. CASE enterWorker(w) \/ addConnections(w) \/ WorkerThrows(w)
    <3>1. UNCHANGED outcome
      BY <2>2 DEF enterWorker, addConnections, WorkerThrows
    <3>2. PICK label \in { "addConnections", "TestQueryBuilder", "failed" } : Goto(w, label)
      BY <2>2 DEF enterWorker, addConnections, WorkerThrows
    <3>3. pc[w] \in WorkerTryLabels
      BY <2>2 DEF enterWorker, addConnections, WorkerThrows, WorkerTryLabels
    <3> QED BY <3>1, <3>2, <3>3 DEF WorkerTryLabels
  <2> QED BY <1>3, <2>1, <2>2 DEF WorkerStep
<1> QED BY <1>1, <1>2, <1>3 DEF WorkerThread

\* Once the main thread has joined the workers, they rest.
LEMMA WorkersRest ==
  ASSUME TypeInv, JoinedAfterLoop, pc[Main] \in AfterJoinLabels, NEW w \in Workers
  PROVE  ~WorkerThread(w)
BY WorkerShape DEF JoinedAfterLoop, allJoined, Joined

\* Where the steps of the main thread lead, seen from the join and the end.
LEMMA MainMoves ==
  ASSUME TypeInv, MainThread
  PROVE  /\ pc[Main] # "done"
         /\ pc'[Main] \in AfterJoinLabels => pc[Main] \in AfterJoinLabels \/ allJoined
         /\ pc'[Main] \in AfterJoinLabels => \A w \in Workers : pc'[w] = pc[w]
<1> USE MainIsNoWorker DEF TypeInv, TypeOK, PcTypeOK, Goto, AfterJoinLabels
<1>1. CASE PlayTestStep(Main)
  <2>1. afterTest(Main, pc[Main]) \notin AfterJoinLabels
    BY <1>1, PlayTestShape DEF afterTest, Tests
  <2> QED BY <1>1, <2>1, PlayTestShape DEF Tests
<1>2. CASE SaveStep(Main)
  BY <1>2, SaveShape DEF SaveLabels
<1>3. CASE MainStep
  <2>1. ASSUME NEW c \in RemovableConnections, startWorkerThread(c)
        PROVE  pc[Main] = "nextConnection" /\ pc'[Main] = "nextConnection"
    BY <2>1 DEF startWorkerThread, Workers
  <2>2. CASE connectToDatabase \/ throwIfUnsupportedEnv \/ OtherTestsStatement
             \/ EndOtherTests \/ initConnsInThreadsTesting \/ endOfLoop \/ MainThrows
             \/ \E c \in RemovableConnections : testConnectionInMainThread(c)
    <3>1. pc[Main] \in MainTryLabels \union { "throwIfUnsupportedEnv" }
      BY <2>2
      DEF connectToDatabase, throwIfUnsupportedEnv, OtherTestsStatement, EndOtherTests,
          initConnsInThreadsTesting, endOfLoop, MainThrows, testConnectionInMainThread,
          MainTryLabels, Tests
    <3>2. \/ UNCHANGED pc
          \/ \E label \in { "TestForPlay", "unwinding", "TestAllOtherTests", "TestConnection",
                            "nextConnection", "joinThreads", "TestQueryBuilder" } :
               Goto(Main, label)
      BY <2>2
      DEF connectToDatabase, throwIfUnsupportedEnv, OtherTestsStatement, EndOtherTests,
          afterTest, initConnsInThreadsTesting, endOfLoop, MainThrows,
          testConnectionInMainThread
    <3> QED BY <3>1, <3>2 DEF MainTryLabels, Tests
  <2>3. CASE joinThreads \/ CatchInMain
    BY <2>3 DEF joinThreads, CatchInMain
  <2>4. CASE replayThrdLogToConsole \/ endOfReplay \/ logApplicationSummary \/ returnFromMain
    BY <2>4 DEF replayThrdLogToConsole, endOfReplay, logApplicationSummary, returnFromMain
  <2> QED BY <1>3, <2>1, <2>2, <2>3, <2>4 DEF MainStep
<1> QED BY <1>1, <1>2, <1>3 DEF MainThread

LEMMA JoinedAfterLoopNext ==
  ASSUME TypeInv, JoinedAfterLoop, Next PROVE JoinedAfterLoop'
<1>1. CASE MainThread
  BY <1>1, MainMoves DEF JoinedAfterLoop, allJoined, Joined
<1>2. ASSUME NEW w \in Workers, WorkerThread(w) PROVE JoinedAfterLoop'
  <2>1. pc[Main] \notin AfterJoinLabels
    BY <1>2, WorkersRest
  <2> QED BY <1>2, <2>1, WorkerShape, MainIsNoWorker DEF JoinedAfterLoop
<1>3. CASE Ended
  BY <1>3 DEF Ended, vars, JoinedAfterLoop, allJoined, Joined
<1> QED BY <1>1, <1>2, <1>3 DEF Next

LEMMA ExitCodeLastNext ==
  ASSUME TypeInv, ExitCodeLast, Next PROVE ExitCodeLast'
<1> USE MainIsNoWorker DEF TypeInv, TypeOK, PcTypeOK, Goto
<1>1. CASE returnFromMain \/ CatchInMain
  BY <1>1 DEF returnFromMain, CatchInMain, ExitCodeLast
<1>2. CASE MainThread /\ ~returnFromMain /\ ~CatchInMain
  <2>1. UNCHANGED exitCode
    BY <1>2
    DEF MainThread, PlayTestStep, SkipTest, StartPlayTest, PlayTestStatement, LogPlayTest,
        SaveStep, lockForSave, addCounters, newCounters, mapCounters, unchangedBySave,
        MainStep, connectToDatabase, throwIfUnsupportedEnv, OtherTestsStatement,
        EndOtherTests, initConnsInThreadsTesting, startWorkerThread,
        testConnectionInMainThread, endOfLoop, joinThreads, replayThrdLogToConsole,
        endOfReplay, logApplicationSummary, MainThrows, outcome
  <2>2. pc'[Main] # "done"
    <3>1. CASE PlayTestStep(Main)
      <4>1. afterTest(Main, pc[Main]) # "done"
        BY <3>1, PlayTestShape DEF afterTest, Tests
      <4> QED BY <3>1, <4>1, PlayTestShape DEF Tests
    <3>2. CASE SaveStep(Main)
      BY <3>2, SaveShape DEF SaveLabels, afterSave
    <3>3. CASE MainStep
      BY <1>2, <3>3
      DEF MainStep, connectToDatabase, throwIfUnsupportedEnv, OtherTestsStatement,
          EndOtherTests, afterTest, initConnsInThreadsTesting, startWorkerThread, Workers,
          testConnectionInMainThread, endOfLoop, joinThreads, replayThrdLogToConsole,
          endOfReplay, logApplicationSummary, MainThrows
    <3> QED BY <1>2, <3>1, <3>2, <3>3 DEF MainThread
  <2> QED BY <1>2, <2>1, <2>2, MainMoves DEF ExitCodeLast
<1>3. ASSUME NEW w \in Workers, WorkerThread(w) PROVE ExitCodeLast'
  BY <1>3, WorkerShape DEF ExitCodeLast, outcome
<1>4. CASE Ended
  BY <1>4 DEF Ended, vars, outcome, ExitCodeLast
<1> QED BY <1>1, <1>2, <1>3, <1>4 DEF Next

-----------------------------------------------------------------------------
(* The connections a thread counts *)

\* A thread that was started uses the slot of its name.
LEMMA StartedSlot ==
  ASSUME WorkersAllowed, NEW t \in Threads, Started(t)
  PROVE  Slot(t) = t
BY OwnSlot, MainSlot DEF Started, Threads

\* Connections to count are chosen, and counters enabled, by two steps only.
LEMMA CountingShape ==
  ASSUME TypeInv, Next, ~connectToDatabase, \A w \in Workers : ~addConnections(w)
  PROVE  /\ UNCHANGED <<ConnectionsToCount, counting>>
         /\ UNCHANGED opened \/ \E t \in Threads, n \in Configurations :
                                  opened' = [opened EXCEPT ![t] = @ \union { n }]
<1>1. CASE \E t \in Threads : PlayTestStep(t)
  BY <1>1
  DEF PlayTestStep, SkipTest, StartPlayTest, PlayTestStatement, LogPlayTest, dbVars,
      counterVars, resetAllQueryLogCounters, logQueryCounters, execute
<1>2. CASE \E t \in Threads : SaveStep(t)
  BY <1>2 DEF SaveStep, lockForSave, addCounters, newCounters, mapCounters, unchangedBySave,
              dbVars
<1>3. CASE \E w \in Workers : SaveLogsStep(w) \/ enterWorker(w) \/ WorkerThrows(w)
  BY <1>3 DEF SaveLogsStep, lockForLogs, streamLog, endOfStream, pushLog, mapLog,
              unchangedByLogs, enterWorker, WorkerThrows, dbVars, counterVars
<1>4. CASE OtherTestsStatement
  <2>1. PICK n \in connectionsOf(Main, pc[Main]) \intersect ormConfigurations[Slot(Main)] :
          execute(Main, n, FALSE)
    BY <1>4 DEF OtherTestsStatement
  <2>2. n \in Configurations
    BY <2>1, SlotType, MainIsNoWorker DEF TypeInv, TypeOK, DatabaseTypeOK
  <2> QED BY <1>4, <2>1, <2>2, MainIsNoWorker DEF OtherTestsStatement, execute, counterVars
<1>5. CASE MainStep /\ ~OtherTestsStatement
  BY <1>5
  DEF MainStep, throwIfUnsupportedEnv, EndOtherTests, initConnsInThreadsTesting,
      startWorkerThread, testConnectionInMainThread, endOfLoop, joinThreads,
      replayThrdLogToConsole, endOfReplay, logApplicationSummary, returnFromMain,
      MainThrows, CatchInMain, dbVars, counterVars, setDefaultConnection
<1>6. CASE Ended
  BY <1>6 DEF Ended, vars, dbVars, counterVars
<1> QED
  BY <1>1, <1>2, <1>3, <1>4, <1>5, <1>6, MainIsNoWorker
  DEF Next, MainThread, WorkerThread, WorkerStep

\* With isolated threads, no thread opens a connection another one counts.
LEMMA CountedExclusive ==
  ASSUME ConnectionNameExclusive, CountedOpened, NEW t \in Threads, NEW u \in Threads, t # u
  PROVE  opened[t] \intersect ConnectionsToCount[u] = {}
BY DEF ConnectionNameExclusive, CountedOpened

LEMMA CountedOpenedNext ==
  ASSUME TypeInv, WorkersAllowed, CountedOpened, Next PROVE CountedOpened'
<1> USE DEF TypeInv, TypeOK, DatabaseTypeOK, CountersTypeOK
<1>1. ASSUME NEW t \in Threads, NEW configurations, NEW default, NEW count,
             addAndCount(t, configurations, count, default),
             ConnectionsToCount' = [ConnectionsToCount EXCEPT ![t] = count]
      PROVE  CountedOpened'
  <2>1. /\ opened' = [opened EXCEPT ![t] = @ \union count]
        /\ counting' = counting \union count
    BY <1>1 DEF addAndCount
  <2> QED BY <1>1, <2>1 DEF CountedOpened
<1>2. CASE connectToDatabase
  BY <1>1, <1>2, MainSlot, MainIsNoWorker DEF connectToDatabase
<1>3. ASSUME NEW w \in Workers, addConnections(w) PROVE CountedOpened'
  <2>1. Slot(w) = w /\ w \in Threads
    BY <1>3, OwnSlot, MainIsNoWorker DEF addConnections
  <2> QED BY <1>1, <1>3, <2>1 DEF addConnections
<1>4. CASE ~connectToDatabase /\ \A w \in Workers : ~addConnections(w)
  BY <1>4, CountingShape DEF CountedOpened
<1> QED BY <1>2, <1>3, <1>4

-----------------------------------------------------------------------------
(* What a thread counts *)

Counted == SlotsConserved /\ PlayTestCounted

\* A step that neither counts, nor starts nor logs a PlayTest.
LEMMA CountedFrame ==
  ASSUME Counted,
         UNCHANGED <<ConnectionsToCount, threadCounters, statementsCounter,
                     recordsModified, history>>,
         \A t \in Threads : playing'[t] => playing[t]
  PROVE  Counted'
BY DEF Counted, SlotsConserved, PlayTestCounted, threadCounters, history

\* The same for a thread that chooses its connections to count.
LEMMA CountedChoice ==
  ASSUME TypeInv, Counted, NEW t \in Threads, ~playing[t], NEW count,
         ConnectionsToCount' = [ConnectionsToCount EXCEPT ![t] = count],
         UNCHANGED <<threadCounters, statementsCounter, recordsModified, history, playing>>
  PROVE  Counted'
BY DEF Counted, SlotsConserved, PlayTestCounted, threadCounters, history,
       TypeInv, TypeOK, CountersTypeOK

\* A PlayTest starts: the counters of the thread's connections, and only
\* those, are zero.
LEMMA CountedStart ==
  ASSUME TypeInv, WorkersAllowed, ConnectionNameExclusive, CountedOpened, Counted,
         NEW t \in Threads, StartPlayTest(t)
  PROVE  Counted'
<1> USE DEF TypeInv, TypeOK, DatabaseTypeOK, CountersTypeOK, RunTypeOK
<1>1. Slot(t) = t
  BY MainIsNoWorker, StartedSlot DEF StartPlayTest, Tests, Started
<1>2. /\ \A n \in Configurations :
           statementsCounter'[n] =
             IF n \in ConnectionsToCount[t] \intersect counting THEN 0 ELSE statementsCounter[n]
      /\ \A n \in Configurations :
           recordsModified'[n] = (n \notin ConnectionsToCount[t] /\ recordsModified[n])
  BY <1>1 DEF StartPlayTest, resetAllQueryLogCounters, toCount
<1>3. /\ playing' = [playing EXCEPT ![t] = TRUE]
      /\ running' = [running EXCEPT ![t] = NoTally]
      /\ UNCHANGED <<ConnectionsToCount, threadCounters, played>>
  BY DEF StartPlayTest, counterVars, threadCounters
<1>4. SlotsConserved'
  BY <1>3 DEF Counted, SlotsConserved, threadCounters
<1>5. ASSUME NEW u \in Threads, playing'[u]
      PROVE  /\ \A n \in Configurations :
                  running'[u].statements[n] =
                    IF n \in ConnectionsToCount'[u] THEN statementsCounter'[n] ELSE 0
             /\ running'[u].modified = \E n \in ConnectionsToCount'[u] : recordsModified'[n]
  <2>1. ConnectionsToCount[u] \subseteq Configurations
    OBVIOUS
  <2>2. CASE u = t
    <3>1. running'[u] = NoTally
      BY <1>3, <2>2
    <3>2. ConnectionsToCount[t] \subseteq counting
      BY DEF CountedOpened
    <3>3. \A n \in ConnectionsToCount[t] : statementsCounter'[n] = 0 /\ ~recordsModified'[n]
      BY <1>2, <2>1, <2>2, <3>2
    <3> QED BY <1>3, <2>2, <3>1, <3>3 DEF NoTally, NoStatements
  <2>3. CASE u # t
    <3>1. playing[u] /\ running'[u] = running[u]
      BY <1>3, <1>5, <2>3
    <3>2. ConnectionsToCount[t] \intersect ConnectionsToCount[u] = {}
      BY <2>3, CountedExclusive DEF CountedOpened
    <3>3. \A n \in ConnectionsToCount[u] : statementsCounter'[n] = statementsCounter[n]
      BY <1>2, <2>1, <3>2
    <3>4. \A n \in ConnectionsToCount[u] : recordsModified'[n] <=> recordsModified[n]
      BY <1>2, <2>1, <3>2
    <3>5. ConnectionsToCount'[u] = ConnectionsToCount[u]
      BY <1>3
    <3>6. running[u].modified = \E n \in ConnectionsToCount[u] : recordsModified[n]
      BY <3>1 DEF Counted, PlayTestCounted
    <3>7. (\E n \in ConnectionsToCount[u] : recordsModified[n])
            = \E n \in ConnectionsToCount[u] : recordsModified'[n]
      BY <3>4
    <3>8. running'[u].modified = \E n \in ConnectionsToCount'[u] : recordsModified'[n]
      BY <3>1, <3>5, <3>6, <3>7
    <3>9. \A n \in Configurations :
            running'[u].statements[n] =
              IF n \in ConnectionsToCount'[u] THEN statementsCounter'[n] ELSE 0
      <4>1. \A n \in Configurations : running[u].statements[n] =
              IF n \in ConnectionsToCount[u] THEN statementsCounter[n] ELSE 0
        BY <3>1 DEF Counted, PlayTestCounted
      <4> QED BY <3>1, <3>3, <3>5, <4>1
    <3> QED BY <3>8, <3>9
  <2> QED BY <2>2, <2>3
<1>6. PlayTestCounted'
  BY <1>5 DEF PlayTestCounted
<1> QED BY <1>4, <1>6 DEF Counted

\* A thread executes a statement; only a PlayTest of its own may count it.
LEMMA CountedExecute ==
  ASSUME TypeInv, ConnectionNameExclusive', CountedOpened, Counted,
         NEW t \in Threads, NEW n \in Configurations, NEW affecting \in BOOLEAN,
         execute(t, n, affecting),
         UNCHANGED <<ConnectionsToCount, threadCounters, playing, played>>,
         IF playing[t]
           THEN running' = [running EXCEPT ![t] =
                  AddTally(@, OneStatement(n, affecting, n \in ConnectionsToCount[t]))]
           ELSE UNCHANGED running
  PROVE  Counted'
<1> USE DEF TypeInv, TypeOK, DatabaseTypeOK, CountersTypeOK, RunTypeOK
<1>1. SlotsConserved'
  BY DEF Counted, SlotsConserved, threadCounters
<1>2. /\ n \in opened'[t]
      /\ \A u \in Threads : opened[u] \subseteq opened'[u]
      /\ \A m \in Configurations :
           statementsCounter'[m] =
             IF m = n /\ n \in counting THEN statementsCounter[m] + 1 ELSE statementsCounter[m]
      /\ \A m \in Configurations :
           recordsModified'[m] = (recordsModified[m] \/ (affecting /\ m = n))
  BY DEF execute
<1>3. ASSUME NEW u \in Threads, playing[u], u # t
      PROVE  /\ \A m \in Configurations :
                  running'[u].statements[m] =
                    IF m \in ConnectionsToCount[u] THEN statementsCounter'[m] ELSE 0
             /\ running'[u].modified = \E m \in ConnectionsToCount[u] : recordsModified'[m]
  <2>1. n \notin ConnectionsToCount[u] /\ ConnectionsToCount[u] \subseteq Configurations
    BY <1>2, <1>3 DEF ConnectionNameExclusive, CountedOpened
  <2>2. running'[u] = running[u]
    BY <1>3
  <2>3. \A m \in ConnectionsToCount[u] :
          statementsCounter'[m] = statementsCounter[m] /\ recordsModified'[m] = recordsModified[m]
    BY <1>2, <2>1
  <2>4. /\ \A m \in Configurations :
             running[u].statements[m] =
               IF m \in ConnectionsToCount[u] THEN statementsCounter[m] ELSE 0
        /\ running[u].modified = \E m \in ConnectionsToCount[u] : recordsModified[m]
    BY <1>3 DEF Counted, PlayTestCounted
  <2>5. running'[u].modified = \E m \in ConnectionsToCount[u] : recordsModified'[m]
    BY <2>2, <2>3, <2>4
  <2>6. \A m \in Configurations : running'[u].statements[m] =
          IF m \in ConnectionsToCount[u] THEN statementsCounter'[m] ELSE 0
    BY <2>2, <2>3, <2>4
  <2> QED BY <2>5, <2>6
<1>4. ASSUME playing[t]
      PROVE  /\ \A m \in Configurations :
                  running'[t].statements[m] =
                    IF m \in ConnectionsToCount[t] THEN statementsCounter'[m] ELSE 0
             /\ running'[t].modified = \E m \in ConnectionsToCount[t] : recordsModified'[m]
  <2> DEFINE counts == n \in ConnectionsToCount[t]
             one    == OneStatement(n, affecting, counts)
  <2>1. running'[t] = AddTally(running[t], one)
    BY <1>4
  <2>2. /\ \A m \in Configurations : running'[t].statements[m] =
             running[t].statements[m] + (IF counts /\ m = n THEN 1 ELSE 0)
        /\ running'[t].modified = (running[t].modified \/ (counts /\ affecting))
    <3> HIDE DEF counts
    <3>1. running'[t].statements =
            [m \in Configurations |-> running[t].statements[m] + one.statements[m]]
      BY <2>1 DEF AddTally
    <3>2. one.statements = [m \in Configurations |-> IF counts /\ m = n THEN 1 ELSE 0]
      BY DEF OneStatement
    <3>3. running'[t].modified = (running[t].modified \/ one.modified)
      BY <2>1 DEF AddTally
    <3>4. one.modified = (counts /\ affecting)
      BY DEF OneStatement
    <3>5. \A m \in Configurations : running'[t].statements[m] =
            running[t].statements[m] + (IF counts /\ m = n THEN 1 ELSE 0)
      BY <3>1, <3>2
    <3> QED BY <3>3, <3>4, <3>5
  <2>3. ConnectionsToCount[t] \subseteq counting \intersect Configurations
    BY DEF CountedOpened
  <2>4. /\ \A m \in Configurations : running[t].statements[m] =
             IF m \in ConnectionsToCount[t] THEN statementsCounter[m] ELSE 0
        /\ running[t].modified = \E m \in ConnectionsToCount[t] : recordsModified[m]
    BY <1>4 DEF Counted, PlayTestCounted
  <2>5. \A m \in Configurations : running'[t].statements[m] =
          IF m \in ConnectionsToCount[t] THEN statementsCounter'[m] ELSE 0
    BY <1>2, <2>2, <2>3, <2>4
  <2>6. running'[t].modified = \E m \in ConnectionsToCount[t] : recordsModified'[m]
    BY <1>2, <2>2, <2>3, <2>4
  <2> QED BY <2>5, <2>6
<1>5. PlayTestCounted'
  BY <1>3, <1>4 DEF PlayTestCounted
<1> QED BY <1>1, <1>5 DEF Counted

\* A PlayTest ends: its statements move to the counters of its thread.
LEMMA CountedLog ==
  ASSUME TypeInv, WorkersAllowed, ConnectionNameExclusive, CountedOpened, Counted,
         NEW t \in Threads, LogPlayTest(t)
  PROVE  Counted'
<1> USE DEF TypeInv, TypeOK, DatabaseTypeOK, CountersTypeOK, RunTypeOK
<1>1. Slot(t) = t
  BY MainIsNoWorker, StartedSlot DEF LogPlayTest, PlayingInTest, Tests, Started
<1>2. ConnectionsToCount[t] \subseteq counting \intersect Configurations
  BY DEF CountedOpened
<1> DEFINE taken == ConnectionsToCount[t] \intersect counting
           new == [n \in Configurations |->
                     IF n \in taken THEN m_threadStatementsCounter[t][n] + statementsCounter[n]
                                    ELSE m_threadStatementsCounter[t][n]]
           modified == m_threadRecordsModified[t] \/ \E n \in ConnectionsToCount[t] : recordsModified[n]
<1>3. /\ m_threadStatementsCounter' = [m_threadStatementsCounter EXCEPT ![t] = new]
      /\ m_threadRecordsModified' = [m_threadRecordsModified EXCEPT ![t] = modified]
      /\ \A n \in Configurations :
           statementsCounter'[n] = IF n \in taken THEN 0 ELSE statementsCounter[n]
      /\ UNCHANGED <<recordsModified, ConnectionsToCount>>
  BY <1>1 DEF LogPlayTest, logQueryCounters, toCount
<1>4. /\ playing[t] /\ playing' = [playing EXCEPT ![t] = FALSE]
      /\ played' = [played EXCEPT ![t] = AddTally(@, running[t])]
      /\ running' = [running EXCEPT ![t] = NoTally]
  BY DEF LogPlayTest
<1>5. SlotsConserved'
  <2>1. ASSUME NEW u \in Threads, u # t
        PROVE  /\ m_threadStatementsCounter'[u] = played'[u].statements
               /\ m_threadRecordsModified'[u] = played'[u].modified
    <3> HIDE DEF new, modified
    <3> QED BY <1>3, <1>4, <2>1 DEF Counted, SlotsConserved
  <2>2. m_threadStatementsCounter'[t] = played'[t].statements
    <3>1. played'[t].statements =
            [n \in Configurations |-> played[t].statements[n] + running[t].statements[n]]
      BY <1>4 DEF AddTally
    <3>2. \A n \in Configurations : running[t].statements[n] =
            IF n \in taken THEN statementsCounter[n] ELSE 0
      BY <1>2, <1>4 DEF Counted, PlayTestCounted
    <3>3. m_threadStatementsCounter[t] \in Statements
      OBVIOUS
    <3>4. \A n \in Configurations : new[n] = played[t].statements[n] + running[t].statements[n]
      BY <3>2, <3>3 DEF Counted, SlotsConserved, Statements
    <3>5. m_threadStatementsCounter'[t] = new
      <4> HIDE DEF new
      <4> QED BY <1>3
    <3> QED BY <3>1, <3>4, <3>5
  <2>3. m_threadRecordsModified'[t] = played'[t].modified
    <3>1. m_threadRecordsModified'[t] = modified
      <4> HIDE DEF modified
      <4> QED BY <1>3
    <3>2. running[t].modified = \E n \in ConnectionsToCount[t] : recordsModified[n]
      BY <1>4 DEF Counted, PlayTestCounted
    <3>3. played'[t].modified = (played[t].modified \/ running[t].modified)
      BY <1>4 DEF AddTally
    <3> QED BY <3>1, <3>2, <3>3 DEF Counted, SlotsConserved
  <2> QED BY <2>1, <2>2, <2>3 DEF SlotsConserved
<1>6. ASSUME NEW u \in Threads, playing'[u]
      PROVE  /\ \A n \in Configurations :
                  running'[u].statements[n] =
                    IF n \in ConnectionsToCount'[u] THEN statementsCounter'[n] ELSE 0
             /\ running'[u].modified = \E n \in ConnectionsToCount'[u] : recordsModified'[n]
  <2>1. u # t /\ playing[u] /\ running'[u] = running[u]
    BY <1>4, <1>6
  <2>2. ConnectionsToCount[t] \intersect ConnectionsToCount[u] = {}
    BY <2>1, CountedExclusive DEF CountedOpened
  <2>3. \A n \in ConnectionsToCount[u] : statementsCounter'[n] = statementsCounter[n]
    BY <1>3, <2>2
  <2>4. /\ \A n \in Configurations :
             running[u].statements[n] =
               IF n \in ConnectionsToCount[u] THEN statementsCounter[n] ELSE 0
        /\ running[u].modified = \E n \in ConnectionsToCount[u] : recordsModified[n]
    BY <2>1 DEF Counted, PlayTestCounted
  <2>5. ConnectionsToCount' = ConnectionsToCount /\ recordsModified' = recordsModified
    BY <1>3
  <2> QED BY <2>1, <2>3, <2>4, <2>5
<1>7. PlayTestCounted'
  BY <1>6 DEF PlayTestCounted
<1> QED BY <1>5, <1>7 DEF Counted

LEMMA CountedNext ==
  ASSUME TypeInv, WorkersAllowed, ConnectionNameExclusive, ConnectionNameExclusive',
         CountedOpened, Counted, Next
  PROVE  Counted'
<1>1. ASSUME NEW t \in Threads, PlayTestStep(t) PROVE Counted'
  <2>1. CASE SkipTest(t)
    BY <2>1, CountedFrame DEF SkipTest, dbVars, counterVars, threadCounters
  <2>2. ASSUME NEW n \in Configurations, NEW affecting \in BOOLEAN,
               PlayTestStatement(t, n, affecting)
        PROVE  Counted'
    <3>1. pc[t] \in Tests
      BY <1>1, PlayTestShape
    <3>2. Slot(t) = t
      BY <3>1, MainIsNoWorker, StartedSlot DEF Tests, Started
    <3>3. /\ execute(t, n, affecting) /\ playing[t]
          /\ UNCHANGED <<ConnectionsToCount, threadCounters, playing, played>>
          /\ running' = [running EXCEPT ![t] =
               AddTally(@, OneStatement(n, affecting, n \in ConnectionsToCount[t]))]
      BY <2>2, <3>2 DEF PlayTestStatement, counterVars, threadCounters, toCount
    <3> QED BY <3>3, CountedExecute
  <2> QED BY <1>1, <2>1, <2>2, CountedStart, CountedLog DEF PlayTestStep
<1>2. ASSUME NEW t \in Threads, SaveStep(t) PROVE Counted'
  BY <1>2, CountedFrame
  DEF SaveStep, lockForSave, addCounters, newCounters, mapCounters, unchangedBySave, dbVars
<1>3. ASSUME NEW w \in Workers, WorkerStep(w) PROVE Counted'
  <2>1. CASE SaveLogsStep(w) \/ enterWorker(w)
    BY <2>1, CountedFrame
    DEF SaveLogsStep, lockForLogs, streamLog, endOfStream, pushLog, mapLog, unchangedByLogs,
        enterWorker, dbVars, counterVars, threadCounters
  <2>2. CASE WorkerThrows(w)
    <3>1. UNCHANGED <<ConnectionsToCount, threadCounters, statementsCounter,
                      recordsModified, history>>
      BY <2>2 DEF WorkerThrows, dbVars, counterVars, threadCounters
    <3>2. \A t \in Threads : playing'[t] => playing[t]
      BY <2>2 DEF WorkerThrows, TypeInv, TypeOK, RunTypeOK
    <3> QED BY <3>1, <3>2, CountedFrame
  <2>3. CASE addConnections(w)
    <3>1. Slot(w) = w /\ ~playing[w]
      BY <2>3, OwnSlot, MainIsNoWorker DEF addConnections, TypeInv, PlayingInTest, Tests
    <3>2. /\ ConnectionsToCount' = [ConnectionsToCount EXCEPT ![w] =
                                     computeConnectionsToCountForWorkerThread(w)]
          /\ UNCHANGED <<threadCounters, statementsCounter, recordsModified, history, playing>>
      BY <2>3, <3>1 DEF addConnections, addAndCount
    <3> QED BY <3>1, <3>2, CountedChoice, MainIsNoWorker
  <2> QED BY <1>3, <2>1, <2>2, <2>3 DEF WorkerStep
<1>4. ASSUME MainStep PROVE Counted'
  <2>1. CASE connectToDatabase
    <3>1. ~playing[Main]
      BY <2>1, MainIsNoWorker DEF connectToDatabase, TypeInv, PlayingInTest, Tests
    <3>2. /\ ConnectionsToCount' = [ConnectionsToCount EXCEPT ![Main] =
                computeConnectionsToCountForMainThread(ConnectionsToTest,
                                                       ConnectionsToRunInThread)]
          /\ UNCHANGED <<threadCounters, statementsCounter, recordsModified, history, playing>>
      BY <2>1, MainSlot DEF connectToDatabase, addAndCount
    <3> QED BY <3>1, <3>2, CountedChoice, MainIsNoWorker
  <2>2. CASE OtherTestsStatement
    <3>1. PICK n \in connectionsOf(Main, pc[Main]) \intersect ormConfigurations[Slot(Main)] :
            execute(Main, n, FALSE)
      BY <2>2 DEF OtherTestsStatement
    <3>2. n \in Configurations /\ ~playing[Main]
      BY <2>2, <3>1, SlotType, MainIsNoWorker
      DEF OtherTestsStatement, TypeInv, TypeOK, DatabaseTypeOK, PlayingInTest
    <3>3. UNCHANGED <<ConnectionsToCount, threadCounters, playing, played, running>>
      BY <2>2 DEF OtherTestsStatement, counterVars, threadCounters, history
    <3> QED BY <3>1, <3>2, <3>3, CountedExecute, MainIsNoWorker
  <2>3. CASE ~connectToDatabase /\ ~OtherTestsStatement
    <3>1. UNCHANGED <<ConnectionsToCount, threadCounters, statementsCounter,
                      recordsModified, history>>
      BY <1>4, <2>3
      DEF MainStep, throwIfUnsupportedEnv, EndOtherTests, initConnsInThreadsTesting,
          startWorkerThread, testConnectionInMainThread, endOfLoop, joinThreads,
          replayThrdLogToConsole, endOfReplay, logApplicationSummary, returnFromMain,
          MainThrows, CatchInMain, dbVars, counterVars, threadCounters, setDefaultConnection
    <3>2. \/ UNCHANGED playing
          \/ playing' = [playing EXCEPT ![Main] = FALSE]
      BY <1>4, <2>3
      DEF MainStep, throwIfUnsupportedEnv, EndOtherTests, initConnsInThreadsTesting,
          startWorkerThread, testConnectionInMainThread, endOfLoop, joinThreads,
          replayThrdLogToConsole, endOfReplay, logApplicationSummary, returnFromMain,
          MainThrows, CatchInMain
    <3>3. \A t \in Threads : playing'[t] => playing[t]
      BY <3>2 DEF TypeInv, TypeOK, RunTypeOK
    <3> QED BY <3>1, <3>3, CountedFrame
  <2> QED BY <2>1, <2>2, <2>3
<1>5. CASE Ended
  BY <1>5, CountedFrame DEF Ended, vars, dbVars, counterVars, threadCounters
<1> QED
  BY <1>1, <1>2, <1>3, <1>4, <1>5, MainIsNoWorker DEF Next, MainThread, WorkerThread

-----------------------------------------------------------------------------
(* The theorems on locks and counters *)

CountersInv ==
  /\ MutexesOwned /\ JoinedAfterLoop /\ ExitCodeLast
  /\ CountedOpened /\ Counted

LEMMA CountersInvInit == Init => CountersInv
<1> SUFFICES ASSUME Init PROVE CountersInv
  OBVIOUS
<1>1. MutexesOwned
  BY LogAssumption DEF Init, LogInit, CountersInit, MutexesOwned
<1>2. JoinedAfterLoop /\ ExitCodeLast
  BY MainIsNoWorker DEF Init, JoinedAfterLoop, AfterJoinLabels, ExitCodeLast
<1>3. CountedOpened /\ Counted
  BY DEF Init, DatabaseInit, CountersInit, CountedOpened, Counted, SlotsConserved,
         PlayTestCounted, NoTally
<1> QED BY <1>1, <1>2, <1>3 DEF CountersInv

\* The threads of an isolated state have connections of their own.
LEMMA IsolatedNames == IsolationInv => ConnectionNameExclusive
BY SharesExclude DEF IsolationInv

LEMMA IsolatedNamesNext == IsolationInv /\ [Next]_vars => ConnectionNameExclusive'
BY IsolatedNames, IsolationNext, PTL

LEMMA CountersInvNext == IsolationInv /\ CountersInv /\ [Next]_vars => CountersInv'
<1> SUFFICES ASSUME IsolationInv, CountersInv, [Next]_vars PROVE CountersInv'
  OBVIOUS
<1>1. CASE Next
  BY <1>1, IsolatedNames, IsolatedNamesNext, MutexesOwnedNext, JoinedAfterLoopNext,
     ExitCodeLastNext, CountedOpenedNext, CountedNext
  DEF IsolationInv, CountersInv
<1>2. CASE UNCHANGED vars
  BY <1>2
  DEF vars, dbVars, counterVars, logVars, outcome, history, CountersInv, MutexesOwned,
      JoinedAfterLoop, allJoined, Joined, ExitCodeLast, CountedOpened, Counted,
      SlotsConserved, PlayTestCounted
<1> QED BY <1>1, <1>2

\* In every state the threads are isolated, each mutex has at most one holder,
\* who is in its critical section, and each thread has counted what it played.
THEOREM CountersCorrect == Spec => [](IsolationInv /\ CountersInv)
<1>1. Init => IsolationInv /\ CountersInv
  BY IsolationInit, CountersInvInit
<1>2. IsolationInv /\ CountersInv /\ [Next]_vars => (IsolationInv /\ CountersInv)'
  BY IsolationNext, CountersInvNext
<1> QED BY <1>1, <1>2, PTL DEF Spec

\* Every thread's counters hold exactly what its logged PlayTests executed on
\* connections it counts, whatever the other threads do meanwhile.
THEOREM CountersConservedCorrect == Spec => []CountersConserved
<1>1. IsolationInv /\ CountersInv => CountersConserved
  BY StartedSlot, MainIsNoWorker
  DEF IsolationInv, CountersInv, Counted, SlotsConserved, CountersConserved
<1> QED BY <1>1, CountersCorrect, PTL

-----------------------------------------------------------------------------
(* The application counters *)

\* Only a save changes the application counters or who has saved.
LEMMA SaveFreeShape ==
  ASSUME TypeInv, Next, \A t \in Threads : ~SaveStep(t)
  PROVE  /\ UNCHANGED <<m_app, m_appCountersMap>>
         /\ \A t \in Threads : pc'[t] = "countersPushed" <=> pc[t] = "countersPushed"
         /\ \A w \in Workers : pc'[w] \in SavedLabels <=> pc[w] \in SavedLabels
<1> USE MainIsNoWorker DEF TypeInv, TypeOK, PcTypeOK, Goto, SavedLabels
<1>1. ASSUME NEW t \in Threads, PlayTestStep(t)
      PROVE  /\ UNCHANGED <<m_app, m_appCountersMap>>
             /\ \A u \in Threads : pc'[u] = "countersPushed" <=> pc[u] = "countersPushed"
             /\ \A w \in Workers : pc'[w] \in SavedLabels <=> pc[w] \in SavedLabels
  <2>1. afterTest(t, pc[t]) \notin SavedLabels \union { "countersPushed" }
    BY <1>1, PlayTestShape DEF afterTest, Tests
  <2> QED BY <1>1, <2>1, PlayTestShape, MutexUsers DEF Tests
<1>2. ASSUME NEW w \in Workers, WorkerStep(w)
      PROVE  /\ UNCHANGED <<m_app, m_appCountersMap>>
             /\ \A u \in Threads : pc'[u] = "countersPushed" <=> pc[u] = "countersPushed"
             /\ \A v \in Workers : pc'[v] \in SavedLabels <=> pc[v] \in SavedLabels
  <2>1. CASE SaveLogsStep(w)
    <3>1. UNCHANGED <<m_app, m_appCountersMap>>
      BY <2>1 DEF SaveLogsStep, lockForLogs, streamLog, endOfStream, pushLog, mapLog,
                  unchangedByLogs, counterVars
    <3> QED BY <2>1, <3>1, SaveLogsShape
  <2>2. CASE enterWorker(w) \/ addConnections(w) \/ WorkerThrows(w)
    <3>1. PICK label \in { "addConnections", "TestQueryBuilder", "failed" } : Goto(w, label)
      BY <2>2 DEF enterWorker, addConnections, WorkerThrows
    <3>2. pc[w] \in WorkerTryLabels
      BY <2>2 DEF enterWorker, addConnections, WorkerThrows, WorkerTryLabels
    <3> QED BY <2>2, <3>1, <3>2, MutexUsers DEF WorkerTryLabels
  <2> QED BY <1>2, <2>1, <2>2 DEF WorkerStep
<1>3. ASSUME MainStep
      PROVE  /\ UNCHANGED <<m_app, m_appCountersMap>>
             /\ \A u \in Threads : pc'[u] = "countersPushed" <=> pc[u] = "countersPushed"
             /\ \A v \in Workers : pc'[v] \in SavedLabels <=> pc[v] \in SavedLabels
  <2>1. ASSUME NEW c \in Workers, startWorkerThread(c)
        PROVE  /\ \A u \in Threads : pc'[u] = "countersPushed" <=> pc[u] = "countersPushed"
               /\ \A v \in Workers : pc'[v] \in SavedLabels <=> pc[v] \in SavedLabels
    BY <2>1 DEF startWorkerThread, UntestedNotStarted
  <2> QED BY <1>3, <2>1, MainShape, MutexUsers DEF Holders
<1>4. ASSUME Ended
      PROVE  /\ UNCHANGED <<m_app, m_appCountersMap>>
             /\ \A u \in Threads : pc'[u] = "countersPushed" <=> pc[u] = "countersPushed"
             /\ \A v \in Workers : pc'[v] \in SavedLabels <=> pc[v] \in SavedLabels
  BY <1>4 DEF Ended, vars, counterVars
<1> QED BY <1>1, <1>2, <1>3, <1>4 DEF Next, MainThread, WorkerThread

\* Adding to an item keeps the names of all items, pushing one appends its name.
LEMMA AddedItem ==
  ASSUME TypeInv, AppItemsMapped, NEW t \in Threads, addCountersForAppSummary(t)
  PROVE  LET index == m_appCountersMap[t] + 1
         IN  /\ index \in DOMAIN m_app /\ m_app[index].threadName = t
             /\ DOMAIN m_app' = DOMAIN m_app /\ Len(m_app') = Len(m_app)
             /\ \A i \in DOMAIN m_app : i # index => m_app'[i] = m_app[i]
             /\ m_app'[index].threadName = t
             /\ m_app'[index].statements =
                  [n \in Configurations |->
                     m_app[index].statements[n] + threadItem(t).statements[n]]
             /\ m_app'[index].modified = (m_app[index].modified \/ threadItem(t).modified)
<1> DEFINE index == m_appCountersMap[t] + 1
           sum   == [n \in Configurations |->
                       m_app[index].statements[n] + threadItem(t).statements[n]]
           item  == [m_app[index] EXCEPT !.statements = sum,
                                         !.modified = @ \/ threadItem(t).modified]
<1>1. index \in DOMAIN m_app /\ m_app[index].threadName = t
  BY DEF AppItemsMapped, addCountersForAppSummary
<1>2. m_app \in Seq(AppCounterItem) /\ index \in 1 .. Len(m_app)
  BY <1>1 DEF TypeInv, TypeOK, CountersTypeOK
<1>3. m_app' = [m_app EXCEPT ![index] = item]
  BY DEF addCountersForAppSummary
<1>4. m_app[index] \in AppCounterItem
  <2> HIDE DEF index
  <2> QED BY <1>2, ElementOfSeq
<1>5. /\ item.threadName = t /\ item.statements = sum
      /\ item.modified = (m_app[index].modified \/ threadItem(t).modified)
  <2> HIDE DEF index, sum
  <2> QED BY <1>1, <1>4 DEF AppCounterItem
<1>6. /\ DOMAIN m_app' = DOMAIN m_app /\ Len(m_app') = Len(m_app)
      /\ \A i \in DOMAIN m_app : i # index => m_app'[i] = m_app[i]
      /\ m_app'[index] = item
  <2> HIDE DEF index, item
  <2> QED BY <1>1, <1>2, <1>3, LenProperties
<1> QED BY <1>1, <1>5, <1>6

LEMMA PushedItem ==
  ASSUME TypeInv, NEW t \in Threads, newCountersForAppSummary(t)
  PROVE  /\ Len(m_app) \in Nat /\ DOMAIN m_app = 1 .. Len(m_app)
         /\ Len(m_app') = Len(m_app) + 1 /\ DOMAIN m_app' = 1 .. Len(m_app) + 1
         /\ \A i \in DOMAIN m_app : m_app'[i] = m_app[i]
         /\ m_app'[Len(m_app')] = threadItem(t)
<1>1. m_app \in Seq(AppCounterItem) /\ threadItem(t) \in AppCounterItem
  BY SlotType DEF TypeInv, TypeOK, CountersTypeOK, threadItem, AppCounterItem
<1>2. m_app' = Append(m_app, threadItem(t))
  BY DEF newCountersForAppSummary
<1>3. m_app' \in Seq(AppCounterItem)
  BY <1>1, <1>2, AppendProperties
<1> QED BY <1>1, <1>2, <1>3, AppendProperties, LenProperties

\* Every item is that of a thread.
LEMMA ItemNames ==
  TypeInv => /\ Len(m_app) \in Nat /\ DOMAIN m_app = 1 .. Len(m_app)
             /\ \A i \in DOMAIN m_app : m_app[i].threadName \in Threads
<1> SUFFICES ASSUME TypeInv
             PROVE  /\ Len(m_app) \in Nat /\ DOMAIN m_app = 1 .. Len(m_app)
                    /\ \A i \in DOMAIN m_app : m_app[i].threadName \in Threads
  OBVIOUS
<1>1. m_app \in Seq(AppCounterItem)
  BY DEF TypeInv, TypeOK, CountersTypeOK
<1>2. Len(m_app) \in Nat /\ DOMAIN m_app = 1 .. Len(m_app)
  BY <1>1, LenProperties
<1>3. ASSUME NEW i \in DOMAIN m_app PROVE m_app[i].threadName \in Threads
  <2>1. m_app[i] \in AppCounterItem
    BY <1>1, <1>2, ElementOfSeq
  <2> QED BY <2>1 DEF AppCounterItem
<1> QED BY <1>2, <1>3

LEMMA AppItemsMappedNext ==
  ASSUME TypeInv, MutexesOwned, AppItemsMapped, Next PROVE AppItemsMapped'
<1> USE MainIsNoWorker DEF TypeInv, TypeOK, PcTypeOK, CountersTypeOK
<1>1. CASE \A t \in Threads : ~SaveStep(t)
  <2>1. /\ UNCHANGED <<m_app, m_appCountersMap>>
        /\ \A t \in Threads : pc'[t] = "countersPushed" <=> pc[t] = "countersPushed"
        /\ \A w \in Workers : pc'[w] \in SavedLabels <=> pc[w] \in SavedLabels
    BY <1>1, SaveFreeShape
  <2>2. \A i \in DOMAIN m_app : m_appCountersMap[m_app[i].threadName] # i - 1 =>
          i = Len(m_app) /\ pc'[m_app[i].threadName] = "countersPushed"
    BY <2>1, ItemNames DEF AppItemsMapped
  <2> QED BY <2>1, <2>2 DEF AppItemsMapped
<1>2. ASSUME NEW t \in Threads, lockForSave(t) PROVE AppItemsMapped'
  <2>1. UNCHANGED <<m_app, m_appCountersMap>> /\ Goto(t, "countersLocked")
        /\ pc[t] = "saveCountersForAppSummary"
    BY <1>2 DEF lockForSave, LockCounters
  <2> QED BY <2>1 DEF AppItemsMapped, Goto, SavedLabels
<1>3. ASSUME NEW t \in Threads, addCounters(t) PROVE AppItemsMapped'
  <2>1. addCountersForAppSummary(t) /\ pc[t] = "countersLocked" /\ Goto(t, afterSave(t))
    BY <1>3 DEF addCounters
  <2>2. t = Main
    BY <2>1 DEF AppItemsMapped, SavedLabels, addCountersForAppSummary, Threads
  <2>3. /\ DOMAIN m_app' = DOMAIN m_app /\ Len(m_app') = Len(m_app)
        /\ \A i \in DOMAIN m_app : m_app'[i].threadName = m_app[i].threadName
        /\ UNCHANGED m_appCountersMap
    BY <2>1, AddedItem DEF addCountersForAppSummary
  <2>4. /\ \A w \in Workers : pc'[w] = pc[w]
        /\ \A u \in Threads : pc'[u] = "countersPushed" <=> pc[u] = "countersPushed"
    BY <2>1, <2>2 DEF Goto, afterSave
  <2>5. \A i \in DOMAIN m_app' : m_appCountersMap[m_app'[i].threadName] # i - 1 =>
          i = Len(m_app') /\ pc'[m_app'[i].threadName] = "countersPushed"
    <3>1. \A i \in DOMAIN m_app : m_app[i].threadName \in Threads
      BY ItemNames
    <3>2. \A i \in DOMAIN m_app : m_appCountersMap[m_app[i].threadName] # i - 1 =>
            i = Len(m_app) /\ pc[m_app[i].threadName] = "countersPushed"
      BY DEF AppItemsMapped
    <3> HIDE DEF TypeInv
    <3> QED BY <2>3, <2>4, <3>1, <3>2
  <2>6. \A u \in Threads : m_appCountersMap[u] # NotMapped =>
          /\ m_appCountersMap[u] + 1 \in DOMAIN m_app'
          /\ m_app'[m_appCountersMap[u] + 1].threadName = u
    BY <2>3 DEF AppItemsMapped
  <2>7. \A u \in Threads : pc'[u] = "countersPushed" =>
          u # Main /\ m_app'[Len(m_app')].threadName = u
    BY <2>1, <2>4 DEF MutexesOwned
  <2> QED BY <2>3, <2>4, <2>5, <2>6, <2>7 DEF AppItemsMapped
<1>4. ASSUME NEW t \in Threads, newCounters(t) PROVE AppItemsMapped'
  <2>1. /\ newCountersForAppSummary(t) /\ pc[t] = "countersLocked"
        /\ Goto(t, "countersPushed") /\ UNCHANGED m_appCountersMap
        /\ m_appCountersMap[t] = NotMapped
    BY <1>4 DEF newCounters, newCountersForAppSummary
  <2>2. t # Main
    BY <2>1 DEF AppItemsMapped, NotMapped
  <2>3. \A u \in Threads : pc'[u] = IF u = t THEN "countersPushed" ELSE pc[u]
    BY <2>1 DEF Goto
  <2>4. \A u \in Threads : pc[u] # "countersPushed"
    BY <2>1 DEF MutexesOwned
  <2>5. /\ Len(m_app) \in Nat /\ DOMAIN m_app = 1 .. Len(m_app)
        /\ Len(m_app') = Len(m_app) + 1 /\ DOMAIN m_app' = 1 .. Len(m_app) + 1
        /\ \A i \in DOMAIN m_app : m_app'[i] = m_app[i]
        /\ m_app'[Len(m_app')].threadName = t
    <3>1. newCountersForAppSummary(t)
      BY <2>1
    <3>2. threadItem(t).threadName = t
      BY DEF threadItem
    <3> QED BY <3>1, <3>2, PushedItem
  <2>6. \A i \in DOMAIN m_app : m_app[i].threadName \in Threads
    BY ItemNames
  <2>7. \A i \in DOMAIN m_app : m_appCountersMap[m_app[i].threadName] = i - 1
    BY <2>4, <2>6 DEF AppItemsMapped
  <2>8. \A u \in Threads : m_appCountersMap[u] # NotMapped =>
          /\ m_appCountersMap[u] + 1 \in DOMAIN m_app'
          /\ m_app'[m_appCountersMap[u] + 1].threadName = u
    BY <2>5 DEF AppItemsMapped
  <2>9. \A i \in DOMAIN m_app' : m_appCountersMap[m_app'[i].threadName] # i - 1 =>
          i = Len(m_app') /\ pc'[m_app'[i].threadName] = "countersPushed"
    BY <2>3, <2>5, <2>7
  <2>10. \A w \in Workers : m_appCountersMap[w] # NotMapped <=> pc'[w] \in SavedLabels
    BY <2>1, <2>3 DEF AppItemsMapped, SavedLabels
  <2>11. \A u \in Threads : pc'[u] = "countersPushed" =>
           u # Main /\ m_app'[Len(m_app')].threadName = u
    BY <2>2, <2>3, <2>4, <2>5
  <2> QED BY <2>1, <2>8, <2>9, <2>10, <2>11 DEF AppItemsMapped
<1>5. ASSUME NEW t \in Threads, mapCounters(t) PROVE AppItemsMapped'
  <2>1. /\ pc[t] = "countersPushed" /\ Goto(t, afterSave(t)) /\ UNCHANGED m_app
        /\ m_appCountersMap' = Emplace(m_appCountersMap, t, Len(m_app) - 1)
    BY <1>5 DEF mapCounters, MapCountersAndUnlock, appCounterItemIdx
  <2>2. /\ t # Main /\ t \in Workers /\ m_app[Len(m_app)].threadName = t
        /\ m_appCountersMap[t] = NotMapped
    BY <2>1 DEF AppItemsMapped, SavedLabels, Threads
  <2>3. \A u \in Threads : m_appCountersMap'[u] =
          IF u = t THEN Len(m_app) - 1 ELSE m_appCountersMap[u]
    BY <2>1, <2>2 DEF Emplace
  <2>4. \A u \in Threads : pc'[u] = IF u = t THEN "saveLogsFromThread" ELSE pc[u]
    BY <2>1, <2>2 DEF Goto, afterSave
  <2>5. \A u \in Threads : u # t => pc[u] # "countersPushed"
    BY <2>1 DEF MutexesOwned
  <2>6. Len(m_app) \in Nat \ { 0 } /\ DOMAIN m_app = 1 .. Len(m_app)
    BY ItemNames DEF AppItemsMapped, NotMapped
  <2>7. \A i \in DOMAIN m_app : m_app[i].threadName \in Threads
    BY ItemNames
  <2>8. \A i \in DOMAIN m_app : m_appCountersMap'[m_app[i].threadName] = i - 1
    <3> SUFFICES ASSUME NEW i \in DOMAIN m_app
                 PROVE  m_appCountersMap'[m_app[i].threadName] = i - 1
      OBVIOUS
    <3>1. CASE i = Len(m_app)
      BY <2>2, <2>3, <3>1
    <3>2. CASE i # Len(m_app)
      <4>1. m_appCountersMap[m_app[i].threadName] = i - 1
        BY <3>2 DEF AppItemsMapped
      <4>2. m_app[i].threadName # t
        BY <2>2, <2>6, <4>1 DEF NotMapped
      <4> QED BY <2>3, <2>7, <4>1, <4>2
    <3> QED BY <3>1, <3>2
  <2>9. \A u \in Threads : m_appCountersMap'[u] # NotMapped =>
          /\ m_appCountersMap'[u] + 1 \in DOMAIN m_app
          /\ m_app[m_appCountersMap'[u] + 1].threadName = u
    <3> SUFFICES ASSUME NEW u \in Threads, m_appCountersMap'[u] # NotMapped
                 PROVE  /\ m_appCountersMap'[u] + 1 \in DOMAIN m_app
                        /\ m_app[m_appCountersMap'[u] + 1].threadName = u
      OBVIOUS
    <3>1. CASE u = t
      <4>1. m_appCountersMap'[u] + 1 = Len(m_app)
        BY <2>3, <2>6, <3>1
      <4> QED BY <2>2, <2>6, <3>1, <4>1
    <3>2. CASE u # t
      BY <2>3, <3>2 DEF AppItemsMapped
    <3> QED BY <3>1, <3>2
  <2>10. \A w \in Workers : m_appCountersMap'[w] # NotMapped <=> pc'[w] \in SavedLabels
    BY <2>3, <2>4, <2>6 DEF AppItemsMapped, SavedLabels, NotMapped
  <2>11. m_appCountersMap'[Main] = 0
    BY <2>2, <2>3 DEF AppItemsMapped
  <2>12. \A u \in Threads : pc'[u] # "countersPushed"
    BY <2>4, <2>5
  <2> QED BY <2>1, <2>8, <2>9, <2>10, <2>11, <2>12 DEF AppItemsMapped
<1> QED BY <1>1, <1>2, <1>3, <1>4, <1>5 DEF SaveStep

\* Where the main thread is once it has saved its counters.
ReportLabels == { "logApplicationSummary", "return", "done" }

\* Only a save leads to the report, and nothing leads back.
LEMMA ReportMoves ==
  ASSUME TypeInv, Next, ~SaveStep(Main)
  PROVE  /\ pc[Main] \in ReportLabels => pc'[Main] \in ReportLabels
         /\ pc'[Main] \in ReportLabels \ { "done" } => pc[Main] \in ReportLabels \ { "done" }
<1> USE MainIsNoWorker DEF TypeInv, TypeOK, PcTypeOK, Goto, ReportLabels
<1>1. CASE PlayTestStep(Main)
  <2>1. afterTest(Main, pc[Main]) \notin ReportLabels
    BY <1>1, PlayTestShape DEF afterTest, Tests
  <2> QED BY <1>1, <2>1, PlayTestShape DEF Tests
<1>2. CASE MainStep
  <2>1. CASE connectToDatabase \/ throwIfUnsupportedEnv \/ OtherTestsStatement
             \/ EndOtherTests \/ initConnsInThreadsTesting \/ endOfLoop \/ MainThrows
             \/ \E c \in RemovableConnections :
                  startWorkerThread(c) \/ testConnectionInMainThread(c)
    <3>1. pc[Main] \in MainTryLabels \union { "throwIfUnsupportedEnv" }
      BY <2>1
      DEF connectToDatabase, throwIfUnsupportedEnv, OtherTestsStatement, EndOtherTests,
          initConnsInThreadsTesting, endOfLoop, MainThrows, testConnectionInMainThread,
          startWorkerThread, MainTryLabels, Tests
    <3>2. \/ pc'[Main] = pc[Main]
          \/ \E label \in { "TestForPlay", "unwinding", "TestAllOtherTests", "TestConnection",
                            "nextConnection", "joinThreads", "TestQueryBuilder" } :
               Goto(Main, label)
      BY <2>1
      DEF connectToDatabase, throwIfUnsupportedEnv, OtherTestsStatement, EndOtherTests,
          afterTest, initConnsInThreadsTesting, endOfLoop, MainThrows, startWorkerThread,
          testConnectionInMainThread, Workers
    <3> QED BY <3>1, <3>2 DEF MainTryLabels, Tests
  <2>2. CASE joinThreads \/ CatchInMain
    BY <2>2 DEF joinThreads, CatchInMain
  <2>3. CASE replayThrdLogToConsole \/ endOfReplay \/ logApplicationSummary \/ returnFromMain
    BY <2>3 DEF replayThrdLogToConsole, endOfReplay, logApplicationSummary, returnFromMain
  <2> QED BY <1>2, <2>1, <2>2, <2>3 DEF MainStep
<1>3. ASSUME NEW w \in Workers, WorkerThread(w) PROVE pc'[Main] = pc[Main]
  BY <1>3, WorkerShape
<1>4. CASE Ended
  BY <1>4 DEF Ended, vars
<1> QED BY <1>1, <1>2, <1>3, <1>4 DEF Next, MainThread

\* A thread's total grows by the log of a PlayTest of its own only.
LEMMA PlayedShape ==
  ASSUME TypeInv, Next
  PROVE  \/ UNCHANGED played
         \/ \E t \in Threads : /\ LogPlayTest(t)
                               /\ pc[t] \in Tests
                               /\ \A u \in Threads : u # t => played'[u] = played[u]
<1>1. ASSUME NEW t \in Threads, LogPlayTest(t)
      PROVE  pc[t] \in Tests /\ \A u \in Threads : u # t => played'[u] = played[u]
  BY <1>1 DEF LogPlayTest, TypeInv, PlayingInTest, TypeOK, RunTypeOK
<1>2. ASSUME NEW t \in Threads, PlayTestStep(t), ~LogPlayTest(t) PROVE UNCHANGED played
  BY <1>2 DEF PlayTestStep, SkipTest, StartPlayTest, PlayTestStatement, history
<1>3. ASSUME NEW t \in Threads, SaveStep(t) PROVE UNCHANGED played
  BY <1>3 DEF SaveStep, lockForSave, addCounters, newCounters, mapCounters,
              unchangedBySave, history
<1>4. ASSUME NEW w \in Workers, WorkerStep(w) PROVE UNCHANGED played
  BY <1>4 DEF WorkerStep, enterWorker, addConnections, SaveLogsStep, lockForLogs, streamLog,
              endOfStream, pushLog, mapLog, unchangedByLogs, WorkerThrows, history
<1>5. CASE MainStep
  BY <1>5 DEF MainStep, connectToDatabase, throwIfUnsupportedEnv, OtherTestsStatement,
              EndOtherTests, initConnsInThreadsTesting, startWorkerThread,
              testConnectionInMainThread, endOfLoop, joinThreads, replayThrdLogToConsole,
              endOfReplay, logApplicationSummary, returnFromMain, MainThrows, CatchInMain,
              history
<1>6. CASE Ended
  BY <1>6 DEF Ended, vars, history
<1> QED
  BY <1>1, <1>2, <1>3, <1>4, <1>5, <1>6, MainIsNoWorker DEF Next, MainThread, WorkerThread

\* A thread that has an item is the main thread or past its save.
LEMMA ItemOwners ==
  TypeInv /\ AppItemsMapped =>
    \A i \in DOMAIN m_app :
      LET t == m_app[i].threadName
      IN  /\ t = Main => i = 1
          /\ t # Main => pc[t] \in SavedLabels \union { "countersPushed" }
<1> SUFFICES ASSUME TypeInv, AppItemsMapped, NEW i \in DOMAIN m_app,
                    NEW t, t = m_app[i].threadName
             PROVE  /\ t = Main => i = 1
                    /\ t # Main => pc[t] \in SavedLabels \union { "countersPushed" }
  OBVIOUS
<1>1. t \in Threads /\ i \in Nat \ { 0 }
  BY ItemNames
<1>2. m_appCountersMap[t] # i - 1 => pc[t] = "countersPushed"
  BY DEF AppItemsMapped
<1>3. t = Main => i = 1
  BY <1>1, <1>2 DEF AppItemsMapped
<1>4. t # Main => t \in Workers
  BY <1>1 DEF Threads
<1>5. m_appCountersMap[t] = i - 1 => m_appCountersMap[t] # NotMapped
  BY <1>1 DEF NotMapped
<1> QED BY <1>2, <1>3, <1>4, <1>5 DEF AppItemsMapped

\* What AppItemsSaved says of the item at index i.
ItemSaved(i) ==
  LET t == m_app[i].threadName
  IN  IF t = Main /\ pc[Main] \notin ReportLabels
        THEN m_app[i].statements = NoStatements /\ ~m_app[i].modified
        ELSE t # Main \/ pc[Main] # "done" =>
               /\ m_app[i].statements = played[t].statements
               /\ m_app[i].modified = played[t].modified

LEMMA ItemsSaved ==
  /\ AppItemsSaved <=> \A i \in DOMAIN m_app : ItemSaved(i)
  /\ AppItemsSaved' <=> \A i \in DOMAIN m_app' : ItemSaved(i)'
BY DEF AppItemsSaved, ItemSaved, ReportLabels

\* A step keeps what it says of an item of which it changes nothing.
LEMMA ItemSavedFrame ==
  ASSUME NEW i, ItemSaved(i), m_app'[i] = m_app[i],
         LET t == m_app[i].threadName
         IN  /\ t # Main => played'[t] = played[t]
             /\ t = Main => /\ pc[Main] \in ReportLabels => pc'[Main] \in ReportLabels
                            /\ pc'[Main] \in ReportLabels \ { "done" } =>
                                 /\ pc[Main] \in ReportLabels \ { "done" }
                                 /\ played'[Main] = played[Main]
  PROVE  ItemSaved(i)'
BY DEF ItemSaved, ReportLabels

LEMMA AppItemsSavedNext ==
  ASSUME TypeInv, WorkersAllowed, SlotsConserved, AppItemsMapped, AppItemsSaved, Next
  PROVE  AppItemsSaved'
<1> USE MainIsNoWorker DEF TypeInv, TypeOK, PcTypeOK, CountersTypeOK
<1> SUFFICES \A i \in DOMAIN m_app' : ItemSaved(i)'
  BY ItemsSaved
<1>0. \A i \in DOMAIN m_app : ItemSaved(i)
  BY ItemsSaved
<1>1. ASSUME \A t \in Threads : ~SaveStep(t)
      PROVE  \A i \in DOMAIN m_app' : ItemSaved(i)'
  <2> SUFFICES ASSUME NEW i \in DOMAIN m_app PROVE ItemSaved(i)'
    BY <1>1, SaveFreeShape
  <2> DEFINE t == m_app[i].threadName
  <2>1. t \in Threads /\ (t # Main => pc[t] \in SavedLabels \union { "countersPushed" })
    BY ItemNames, ItemOwners
  <2>2. /\ pc[Main] \in ReportLabels => pc'[Main] \in ReportLabels
        /\ pc'[Main] \in ReportLabels \ { "done" } => pc[Main] \in ReportLabels \ { "done" }
    BY <1>1, ReportMoves
  <2>3. t # Main => played'[t] = played[t]
    BY <2>1, PlayedShape DEF Tests, SavedLabels
  <2>4. pc[Main] \in ReportLabels => played'[Main] = played[Main]
    BY PlayedShape DEF Tests, ReportLabels
  <2>5. m_app'[i] = m_app[i]
    BY <1>1, SaveFreeShape
  <2> QED BY <1>0, <2>2, <2>3, <2>4, <2>5, ItemSavedFrame
<1>2. ASSUME NEW t \in Threads, SaveStep(t)
      PROVE  UNCHANGED played /\ \A u \in Threads : u # t => pc'[u] = pc[u]
  BY <1>2, SaveShape DEF SaveStep, lockForSave, addCounters, newCounters, mapCounters,
                         unchangedBySave, history, Goto
<1>3. ASSUME NEW t \in Threads, lockForSave(t)
      PROVE  \A i \in DOMAIN m_app' : ItemSaved(i)'
  <2>1. /\ UNCHANGED m_app /\ pc[t] = "saveCountersForAppSummary"
        /\ Goto(t, "countersLocked")
    BY <1>3 DEF lockForSave, LockCounters
  <2>2. pc'[Main] \in ReportLabels <=> pc[Main] \in ReportLabels
    BY <2>1 DEF Goto, ReportLabels
  <2>3. pc'[Main] # pc[Main] => pc'[Main] \notin ReportLabels
    BY <2>1 DEF Goto, ReportLabels
  <2> QED BY <1>0, <1>2, <1>3, <2>1, <2>2, <2>3, ItemSavedFrame DEF SaveStep
<1>4. ASSUME NEW t \in Threads, addCounters(t)
      PROVE  \A i \in DOMAIN m_app' : ItemSaved(i)'
  <2>1. /\ addCountersForAppSummary(t) /\ pc[t] = "countersLocked"
        /\ Goto(t, afterSave(t)) /\ UNCHANGED played
    BY <1>2, <1>4 DEF addCounters, SaveStep
  <2>2. t = Main
    BY <2>1 DEF AppItemsMapped, SavedLabels, addCountersForAppSummary, Threads
  <2>3. /\ 1 \in DOMAIN m_app /\ m_app[1].threadName = Main
        /\ DOMAIN m_app' = DOMAIN m_app
        /\ \A i \in DOMAIN m_app : i # 1 => m_app'[i] = m_app[i]
        /\ m_app'[1].threadName = Main
        /\ m_app'[1].statements =
             [n \in Configurations |->
                m_app[1].statements[n] + threadItem(Main).statements[n]]
        /\ m_app'[1].modified = (m_app[1].modified \/ threadItem(Main).modified)
    <3>1. m_appCountersMap[Main] + 1 = 1
      BY DEF AppItemsMapped
    <3> QED BY <2>1, <2>2, <3>1, AddedItem
  <2>4. m_app[1].statements = NoStatements /\ ~m_app[1].modified
    BY <1>0, <2>1, <2>2, <2>3 DEF ItemSaved, ReportLabels
  <2>5. /\ threadItem(Main).statements = m_threadStatementsCounter[Main]
        /\ threadItem(Main).modified = m_threadRecordsModified[Main]
    BY MainSlot DEF threadItem
  <2>6. m_threadStatementsCounter[Main] \in [Configurations -> Nat]
    BY DEF Statements
  <2>7. m_app'[1].statements = m_threadStatementsCounter[Main]
    <3>1. \A n \in Configurations : m_app[1].statements[n] = 0
      BY <2>4 DEF NoStatements
    <3> QED BY <2>3, <2>5, <2>6, <3>1
  <2>8. m_app'[1].modified = m_threadRecordsModified[Main]
    <3>1. m_threadRecordsModified[Main] \in BOOLEAN
      OBVIOUS
    <3> QED BY <2>3, <2>4, <2>5, <3>1, Zenon
  <2>9. /\ m_app'[1].statements = played'[Main].statements
        /\ m_app'[1].modified = played'[Main].modified
    BY <2>1, <2>7, <2>8 DEF SlotsConserved
  <2>10. ASSUME NEW i \in DOMAIN m_app PROVE ItemSaved(i)'
    <3>1. CASE i = 1
      <4>1. pc'[Main] = "logApplicationSummary"
        BY <2>1, <2>2 DEF Goto, afterSave
      <4> QED BY <2>3, <2>9, <3>1, <4>1 DEF ItemSaved, ReportLabels
    <3>2. CASE i # 1
      <4>1. m_app[i].threadName # Main
        BY <3>2, ItemOwners
      <4> QED BY <1>0, <2>1, <2>3, <3>2, <4>1, ItemSavedFrame
    <3> QED BY <3>1, <3>2
  <2> QED BY <2>3, <2>10
<1>5. ASSUME NEW t \in Threads, newCounters(t)
      PROVE  \A i \in DOMAIN m_app' : ItemSaved(i)'
  <2>1. /\ newCountersForAppSummary(t) /\ pc[t] = "countersLocked"
        /\ m_appCountersMap[t] = NotMapped /\ UNCHANGED played
    BY <1>2, <1>5 DEF newCounters, SaveStep, newCountersForAppSummary
  <2>2. t # Main /\ pc'[Main] = pc[Main]
    BY <1>2, <1>5, <2>1 DEF AppItemsMapped, NotMapped, SaveStep
  <2>3. /\ Len(m_app) \in Nat /\ DOMAIN m_app = 1 .. Len(m_app)
        /\ Len(m_app') = Len(m_app) + 1 /\ DOMAIN m_app' = 1 .. Len(m_app) + 1
        /\ \A i \in DOMAIN m_app : m_app'[i] = m_app[i]
        /\ m_app'[Len(m_app')] = threadItem(t)
    BY <2>1, PushedItem
  <2>4. Slot(t) = t
    BY <2>1, <2>2, StartedSlot DEF Started
  <2>5. /\ threadItem(t).threadName = t
        /\ threadItem(t).statements = played'[t].statements
        /\ threadItem(t).modified = played'[t].modified
    BY <2>1, <2>4 DEF threadItem, SlotsConserved
  <2>6. ASSUME NEW i \in DOMAIN m_app', i \notin DOMAIN m_app PROVE ItemSaved(i)'
    <3>1. m_app'[i] = threadItem(t)
      BY <2>3, <2>6
    <3> HIDE DEF TypeInv
    <3> QED BY <2>2, <2>5, <3>1 DEF ItemSaved
  <2>7. ASSUME NEW i \in DOMAIN m_app PROVE ItemSaved(i)'
    BY <1>0, <2>1, <2>2, <2>3, ItemSavedFrame
  <2> QED BY <2>3, <2>6, <2>7
<1>6. ASSUME NEW t \in Threads, mapCounters(t)
      PROVE  \A i \in DOMAIN m_app' : ItemSaved(i)'
  <2>1. UNCHANGED m_app /\ pc[t] = "countersPushed"
    BY <1>6 DEF mapCounters, MapCountersAndUnlock
  <2>2. t # Main
    BY <2>1 DEF AppItemsMapped
  <2>3. UNCHANGED played /\ pc'[Main] = pc[Main]
    BY <1>2, <1>6, <2>2 DEF SaveStep
  <2> QED BY <1>0, <2>1, <2>3, ItemSavedFrame
<1> QED BY <1>1, <1>3, <1>4, <1>5, <1>6 DEF SaveStep

-----------------------------------------------------------------------------
(* The Application Summary *)

\* The summary tells what SummaryComplete wants of it.
SummaryTells ==
  /\ { summary.items[i].threadName : i \in DOMAIN summary.items }
       = { Main } \union { w \in Workers : pc[w] = "done" }
  /\ \A i, j \in DOMAIN summary.items :
       summary.items[i].threadName = summary.items[j].threadName => i = j
  /\ \A i \in DOMAIN summary.items :
       LET t == summary.items[i].threadName
       IN  /\ summary.items[i].statements = played[t].statements
           /\ summary.items[i].modified = played[t].modified

LEMMA SummaryTold ==
  /\ SummaryOnceLogged <=> IF pc[Main] = "return" \/ exitCode = "success"
                             THEN SummaryTells ELSE summary.items = <<>>
  /\ SummaryOnceLogged' <=> IF pc'[Main] = "return" \/ exitCode' = "success"
                              THEN SummaryTells' ELSE summary'.items = <<>>
BY DEF SummaryOnceLogged, SummaryTells

\* Only its log changes the summary, only the return reports a success.
LEMMA SummaryShape ==
  ASSUME TypeInv, Next, ~logApplicationSummary
  PROVE  /\ UNCHANGED summary
         /\ pc'[Main] = "return" => pc[Main] = "return"
         /\ exitCode' = "success" => exitCode = "success" \/ returnFromMain
<1> USE MainIsNoWorker DEF TypeInv, TypeOK, PcTypeOK, Goto
<1>1. CASE PlayTestStep(Main)
  <2>1. afterTest(Main, pc[Main]) # "return"
    BY <1>1, PlayTestShape DEF afterTest, Tests
  <2>2. UNCHANGED outcome
    BY <1>1 DEF PlayTestStep, SkipTest, StartPlayTest, PlayTestStatement, LogPlayTest
  <2> QED BY <1>1, <2>1, <2>2, PlayTestShape DEF outcome
<1>2. CASE SaveStep(Main)
  <2>1. UNCHANGED outcome
    BY <1>2 DEF SaveStep, lockForSave, addCounters, newCounters, mapCounters, unchangedBySave
  <2> QED BY <1>2, <2>1, SaveShape DEF outcome, afterSave, SaveLabels
<1>3. CASE MainStep
  BY <1>3
  DEF MainStep, connectToDatabase, throwIfUnsupportedEnv, OtherTestsStatement,
      EndOtherTests, afterTest, initConnsInThreadsTesting, startWorkerThread, Workers,
      testConnectionInMainThread, endOfLoop, joinThreads, replayThrdLogToConsole,
      endOfReplay, returnFromMain, MainThrows, CatchInMain, outcome
<1>4. ASSUME NEW w \in Workers, WorkerThread(w)
      PROVE  UNCHANGED outcome /\ pc'[Main] = pc[Main]
  BY <1>4, WorkerShape
<1>5. CASE Ended
  BY <1>5 DEF Ended, vars, outcome
<1> QED BY <1>1, <1>2, <1>3, <1>4, <1>5 DEF Next, MainThread, outcome

\* The summary is logged when every worker has ended and every item is mapped.
LEMMA SummaryLogged ==
  ASSUME TypeInv, WorkersAllowed, JoinedAfterLoop, SlotsConserved, AppItemsMapped,
         AppItemsSaved, logApplicationSummary
  PROVE  SummaryTells'
<1> USE MainIsNoWorker DEF TypeInv, TypeOK, PcTypeOK
<1>1. /\ pc[Main] = "logApplicationSummary" /\ Goto(Main, "return")
      /\ summary'.items = (IF ConnectionsInThreads THEN m_app ELSE << threadItem(Main) >>)
      /\ UNCHANGED played
  BY DEF logApplicationSummary, history
<1>2. \A w \in Workers : pc'[w] = pc[w] /\ Joined(w)
  BY <1>1 DEF Goto, JoinedAfterLoop, AfterJoinLabels, allJoined
<1>3. CASE ConnectionsInThreads
  <2>1. summary'.items = m_app
    BY <1>1, <1>3
  <2>2. \A i \in DOMAIN m_app : m_app[i].threadName \in Threads
    BY ItemNames
  <2>3. \A t \in Threads : pc[t] # "countersPushed"
    BY <1>1, <1>2 DEF Joined, Threads
  <2>4. \A i \in DOMAIN m_app : m_appCountersMap[m_app[i].threadName] = i - 1
    BY <2>2, <2>3 DEF AppItemsMapped
  <2>5. \A i \in DOMAIN m_app : m_app[i].threadName # Main =>
          m_app[i].threadName \in Workers /\ pc[m_app[i].threadName] = "done"
    BY <1>2, <2>2, <2>3, ItemOwners DEF SavedLabels, Joined, Threads
  <2>6. \A w \in Workers : pc[w] = "done" => \E i \in DOMAIN m_app : m_app[i].threadName = w
    BY DEF AppItemsMapped, SavedLabels, Threads
  <2>7. \E i \in DOMAIN m_app : m_app[i].threadName = Main
    BY DEF AppItemsMapped, NotMapped
  <2>8. { m_app[i].threadName : i \in DOMAIN m_app }
          = { Main } \union { w \in Workers : pc'[w] = "done" }
    BY <1>2, <2>5, <2>6, <2>7
  <2>9. \A i, j \in DOMAIN m_app : m_app[i].threadName = m_app[j].threadName => i = j
    BY <2>4, ItemNames
  <2>10. \A i \in DOMAIN m_app :
           /\ m_app[i].statements = played[m_app[i].threadName].statements
           /\ m_app[i].modified = played[m_app[i].threadName].modified
    BY <1>1, ItemsSaved DEF ItemSaved, ReportLabels
  <2> HIDE DEF TypeInv
  <2> QED BY <1>1, <2>1, <2>8, <2>9, <2>10 DEF SummaryTells
<1>4. CASE ~ConnectionsInThreads
  <2>1. summary'.items = << threadItem(Main) >>
    BY <1>1, <1>4
  <2>2. DOMAIN summary'.items = { 1 } /\ summary'.items[1] = threadItem(Main)
    <3> HIDE DEF TypeInv
    <3>1. Len(<< threadItem(Main) >>) = 1
      OBVIOUS
    <3> QED BY <2>1
  <2>3. { w \in Workers : pc'[w] = "done" } = {}
    BY <1>2, <1>4 DEF WorkersAllowed
  <2>4. /\ threadItem(Main).threadName = Main
        /\ threadItem(Main).statements = played'[Main].statements
        /\ threadItem(Main).modified = played'[Main].modified
    BY <1>1, MainSlot DEF threadItem, SlotsConserved
  <2> HIDE DEF TypeInv
  <2> QED BY <2>2, <2>3, <2>4 DEF SummaryTells
<1> QED BY <1>3, <1>4

LEMMA SummaryOnceLoggedNext ==
  ASSUME TypeInv, WorkersAllowed, JoinedAfterLoop, ExitCodeLast, SlotsConserved,
         AppItemsMapped, AppItemsSaved, SummaryOnceLogged, Next
  PROVE  SummaryOnceLogged'
<1> USE MainIsNoWorker
<1>1. CASE logApplicationSummary
  <2>1. pc'[Main] = "return"
    BY <1>1 DEF logApplicationSummary, Goto, TypeInv, TypeOK, PcTypeOK
  <2> QED BY <1>1, <2>1, SummaryLogged, SummaryTold
<1>2. CASE ~logApplicationSummary /\ (pc[Main] = "return" \/ exitCode = "success")
  <2>1. SummaryTells /\ pc[Main] \in { "return", "done" }
    BY <1>2, SummaryTold DEF ExitCodeLast
  <2>2. \A w \in Workers : ~WorkerThread(w)
    BY <2>1, WorkersRest DEF AfterJoinLabels
  <2>3. CASE MainThread
    <3>1. returnFromMain
      BY <1>2, <2>1, <2>3, MainMoves, PlayTestShape, SaveShape
      DEF MainThread, Tests, SaveLabels, MainStep, connectToDatabase, throwIfUnsupportedEnv,
          OtherTestsStatement, EndOtherTests, initConnsInThreadsTesting, startWorkerThread,
          testConnectionInMainThread, endOfLoop, joinThreads, replayThrdLogToConsole,
          endOfReplay, MainThrows, MainTryLabels, CatchInMain
    <3>2. /\ exitCode' = "success" /\ UNCHANGED <<summary, played>>
          /\ \A w \in Workers : pc'[w] = pc[w]
      BY <3>1 DEF returnFromMain, history, Goto, TypeInv, TypeOK, PcTypeOK
    <3> QED BY <2>1, <3>2, SummaryTold DEF SummaryTells
  <2>4. CASE Ended
    BY <2>4 DEF Ended, vars, outcome, history, SummaryOnceLogged
  <2> QED BY <2>2, <2>3, <2>4 DEF Next
<1>3. CASE ~logApplicationSummary /\ pc[Main] # "return" /\ exitCode # "success"
  <2>1. ~returnFromMain
    BY <1>3 DEF returnFromMain
  <2> QED BY <1>3, <2>1, SummaryShape, SummaryTold
<1> QED BY <1>1, <1>2, <1>3

-----------------------------------------------------------------------------
(* The theorems on the application counters and the summary *)

SummaryInv ==
  IsolationInv /\ CountersInv /\ AppItemsMapped /\ AppItemsSaved /\ SummaryOnceLogged

LEMMA SummaryInvInit == Init => SummaryInv
<1> SUFFICES ASSUME Init PROVE SummaryInv
  OBVIOUS
<1>1. IsolationInv /\ CountersInv
  BY IsolationInit, CountersInvInit
<1> DEFINE item == [threadName |-> Main, statements |-> NoStatements, modified |-> FALSE]
<1>2. /\ m_app = << item >> /\ \A w \in Workers : m_appCountersMap[w] = NotMapped
      /\ m_appCountersMap[Main] = 0
  BY MainIsNoWorker DEF Init, CountersInit, Threads
<1>3. DOMAIN m_app = { 1 } /\ Len(m_app) = 1 /\ m_app[1] = item
  <2> HIDE DEF item
  <2> QED BY <1>2
<1>4. /\ pc[Main] = "connectToDatabase" /\ \A w \in Workers : pc[w] = "notStarted"
      /\ summary.items = <<>> /\ exitCode = "none"
  BY MainIsNoWorker DEF Init, Threads
<1>5. AppItemsMapped
  BY <1>2, <1>3, <1>4, MainIsNoWorker DEF AppItemsMapped, SavedLabels, NotMapped, Threads
<1>6. AppItemsSaved
  BY <1>3, <1>4 DEF AppItemsSaved
<1>7. SummaryOnceLogged
  BY <1>4, SummaryTold
<1> QED BY <1>1, <1>5, <1>6, <1>7 DEF SummaryInv

LEMMA SummaryInvNext == SummaryInv /\ [Next]_vars => SummaryInv'
<1> SUFFICES ASSUME SummaryInv, [Next]_vars PROVE SummaryInv'
  OBVIOUS
<1>1. (IsolationInv /\ CountersInv)'
  BY IsolationNext, CountersInvNext DEF SummaryInv
<1>2. CASE Next
  BY <1>1, <1>2, AppItemsMappedNext, AppItemsSavedNext, SummaryOnceLoggedNext
  DEF SummaryInv, IsolationInv, CountersInv, Counted
<1>3. CASE UNCHANGED vars
  BY <1>1, <1>3
  DEF vars, counterVars, outcome, history, SummaryInv, AppItemsMapped, AppItemsSaved,
      SummaryOnceLogged
<1> QED BY <1>2, <1>3

\* In every state, the threads are isolated, the counters and the application
\* counters are what they should be, and so is the summary once it is logged.
THEOREM SummaryCorrect == Spec => []SummaryInv
<1> QED BY SummaryInvInit, SummaryInvNext, PTL DEF Spec

\* The vectors and the lookup map of the application counters agree whenever
\* their mutex is free, and the main thread is first in all counters.
THEOREM AppCountersConsistentCorrect == Spec => []AppCountersConsistent
<1>1. SummaryInv => AppCountersConsistent
  <2> SUFFICES ASSUME SummaryInv, m_countersMutex = NoThread
               PROVE  /\ m_app[1].threadName = Main
                      /\ \A i \in DOMAIN m_app : m_appCountersMap[m_app[i].threadName] = i - 1
                      /\ \A t \in Threads : m_appCountersMap[t] # NotMapped =>
                           /\ m_appCountersMap[t] + 1 \in DOMAIN m_app
                           /\ m_app[m_appCountersMap[t] + 1].threadName = t
    BY DEF AppCountersConsistent
  <2>1. TypeInv /\ MutexesOwned /\ AppItemsMapped
    BY DEF SummaryInv, IsolationInv, CountersInv
  <2>2. \A t \in Threads : pc[t] # "countersPushed"
    BY <2>1, LogAssumption DEF MutexesOwned
  <2>3. \A i \in DOMAIN m_app : m_appCountersMap[m_app[i].threadName] = i - 1
    BY <2>1, <2>2, ItemNames DEF AppItemsMapped
  <2>4. m_app[1].threadName = Main
    BY <2>1, MainIsNoWorker DEF AppItemsMapped, NotMapped
  <2> QED BY <2>1, <2>3, <2>4 DEF AppItemsMapped
<1> QED BY <1>1, SummaryCorrect, PTL

\* A successful run reports the main thread and every worker that did not
\* throw, each once and with all it counted.
THEOREM SummaryCompleteCorrect == Spec => []SummaryComplete
<1>1. SummaryInv => SummaryComplete
  <2> SUFFICES ASSUME SummaryInv, exitCode = "success" PROVE SummaryComplete
    BY DEF SummaryComplete
  <2>1. SummaryTells
    BY SummaryTold DEF SummaryInv
  <2> QED BY <2>1 DEF SummaryTells, SummaryComplete
<1> QED BY <1>1, SummaryCorrect, PTL

-----------------------------------------------------------------------------
(* The connections a thread is configured for *)

\* Configurations and default connections change with connections to count.
LEMMA ConfiguringShape ==
  ASSUME TypeInv, Next, ~connectToDatabase, \A w \in Workers : ~addConnections(w)
  PROVE  /\ UNCHANGED <<ormConfigurations, ConnectionsToCount, ConnectionsToTest>>
         /\ \/ UNCHANGED <<defaultConnection, ConnectionsToRunInThread>>
            \/ joinThreads
            \/ initConnsInThreadsTesting
            \/ \E c \in RemovableConnections : testConnectionInMainThread(c)
<1>1. CASE \E t \in Threads : PlayTestStep(t)
  BY <1>1, PlayTestShape
  DEF PlayTestStep, SkipTest, StartPlayTest, PlayTestStatement, LogPlayTest, dbVars,
      counterVars, resetAllQueryLogCounters, logQueryCounters, execute, runVars
<1>2. CASE \E t \in Threads : SaveStep(t)
  BY <1>2 DEF SaveStep, lockForSave, addCounters, newCounters, mapCounters, unchangedBySave,
              dbVars, runVars
<1>3. CASE \E w \in Workers : SaveLogsStep(w) \/ enterWorker(w) \/ WorkerThrows(w)
  BY <1>3 DEF SaveLogsStep, lockForLogs, streamLog, endOfStream, pushLog, mapLog,
              unchangedByLogs, enterWorker, WorkerThrows, dbVars, counterVars, runVars
<1>4. CASE OtherTestsStatement
  BY <1>4 DEF OtherTestsStatement, execute, counterVars, runVars
<1>5. CASE MainStep /\ ~OtherTestsStatement
  BY <1>5
  DEF MainStep, throwIfUnsupportedEnv, EndOtherTests, initConnsInThreadsTesting,
      startWorkerThread, testConnectionInMainThread, endOfLoop, joinThreads,
      replayThrdLogToConsole, endOfReplay, logApplicationSummary, returnFromMain,
      MainThrows, CatchInMain, dbVars, counterVars, runVars, setDefaultConnection
<1>6. CASE Ended
  BY <1>6 DEF Ended, vars, dbVars, counterVars, runVars
<1> QED
  BY <1>1, <1>2, <1>3, <1>4, <1>5, <1>6, MainIsNoWorker
  DEF Next, MainThread, WorkerThread, WorkerStep

\* A thread enters the tests of the loop by one step, the main thread enters
\* its connected labels by connectToDatabase().
LEMMA ConnectedMoves ==
  ASSUME TypeInv, Next, ~connectToDatabase
  PROVE  /\ pc'[Main] \in MainConnectedLabels => pc[Main] \in MainConnectedLabels
         /\ pc'[Main] \in LoopTestLabels =>
              pc[Main] \in LoopTestLabels
              \/ \E c \in RemovableConnections : testConnectionInMainThread(c)
<1> USE MainIsNoWorker DEF TypeInv, TypeOK, PcTypeOK, Goto
<1> DEFINE Connected == MainConnectedLabels
<1>1. CASE PlayTestStep(Main)
  <2>1. pc[Main] \in Connected
    BY <1>1, PlayTestShape
    DEF Tests, MainConnectedLabels, BeforeLoopLabels, CheckedLabels, LoopTestLabels
  <2> QED BY <1>1, <2>1, AfterTestLoop
<1>2. CASE SaveStep(Main)
  BY <1>2, SaveShape
  DEF SaveLabels, afterSave, MainConnectedLabels, BeforeLoopLabels, CheckedLabels,
      LoopTestLabels
<1>3. CASE MainStep
  BY <1>3
  DEF MainStep, connectToDatabase, throwIfUnsupportedEnv, OtherTestsStatement,
      EndOtherTests, afterTest, initConnsInThreadsTesting, startWorkerThread, Workers,
      testConnectionInMainThread, endOfLoop, joinThreads, replayThrdLogToConsole,
      endOfReplay, logApplicationSummary, returnFromMain, MainThrows, CatchInMain,
      MainConnectedLabels, BeforeLoopLabels, CheckedLabels, LoopTestLabels
<1>4. ASSUME NEW w \in Workers, WorkerThread(w) PROVE pc'[Main] = pc[Main]
  BY <1>4, WorkerShape
<1>5. CASE Ended
  BY <1>5 DEF Ended, vars
<1> QED BY <1>1, <1>2, <1>3, <1>4, <1>5 DEF Next, MainThread

LEMMA WorkersConfiguredNext ==
  ASSUME TypeInv, WorkersAllowed, WorkersConfigured, Next
  PROVE  WorkersConfigured'
<1> USE MainIsNoWorker DEF TypeInv, TypeOK, PcTypeOK, DatabaseTypeOK, CountersTypeOK
<1>1. ASSUME NEW w \in Workers, addConnections(w) PROVE WorkersConfigured'
  <2>1. Slot(w) = w /\ w \in Threads
    BY <1>1, OwnSlot DEF addConnections
  <2>2. /\ ormConfigurations' =
             [ormConfigurations EXCEPT ![w] = @ \union getMappedConnections(w)]
        /\ ConnectionsToCount' = [ConnectionsToCount EXCEPT ![w] = getMappedConnections(w)]
        /\ pc' = [pc EXCEPT ![w] = "TestQueryBuilder"]
    BY <1>1, <2>1 DEF addConnections, addAndCount, Goto, configsForWorkerThrdWhenMultiThrd,
                      computeConnectionsToCountForWorkerThread
  <2> QED BY <2>1, <2>2 DEF WorkersConfigured
<1>2. CASE connectToDatabase
  <2>1. \A w \in Workers : /\ ormConfigurations'[w] = ormConfigurations[w]
                           /\ ConnectionsToCount'[w] = ConnectionsToCount[w]
                           /\ pc'[w] = pc[w]
    BY <1>2, MainSlot DEF connectToDatabase, addAndCount, Goto
  <2> QED BY <2>1 DEF WorkersConfigured
<1>3. CASE ~connectToDatabase /\ \A w \in Workers : ~addConnections(w)
  <2>1. \A w \in Workers : pc'[w] \in LoopTestLabels => pc[w] \in LoopTestLabels
    <3> SUFFICES ASSUME NEW w \in Workers, pc'[w] \in LoopTestLabels
                 PROVE  pc[w] \in LoopTestLabels
      OBVIOUS
    <3>1. CASE \E t \in Threads : PlayTestStep(t)
      BY <3>1, AfterTestLoop
    <3>2. CASE \E t \in Threads : SaveStep(t)
      BY <3>2, SaveShape DEF SaveLabels, afterSave, LoopTestLabels, Goto
    <3>3. CASE \E v \in Workers : SaveLogsStep(v)
      BY <3>3, SaveLogsShape DEF LoopTestLabels, Goto
    <3>4. CASE \E v \in Workers : enterWorker(v) \/ WorkerThrows(v)
      BY <3>4 DEF enterWorker, WorkerThrows, LoopTestLabels, Goto
    <3>5. CASE MainStep
      <4>1. ASSUME NEW c \in Workers, startWorkerThread(c) PROVE pc[w] \in LoopTestLabels
        <5>1. Goto(c, "throwIfNoConfig")
          BY <4>1 DEF startWorkerThread
        <5> QED BY <5>1 DEF LoopTestLabels, Goto
      <4> QED BY <3>5, <4>1, MainShape DEF Goto
    <3>6. CASE Ended
      BY <3>6 DEF Ended, vars
    <3> QED BY <1>3, <3>1, <3>2, <3>3, <3>4, <3>5, <3>6
            DEF Next, MainThread, WorkerThread, WorkerStep
  <2> QED BY <1>3, <2>1, ConfiguringShape DEF WorkersConfigured
<1> QED BY <1>1, <1>2, <1>3

\* connectToDatabase() configures what the main thread counts and tests.
LEMMA MainConnects ==
  ASSUME TypeInv, connectToDatabase
  PROVE  MainConfigured'
<1> DEFINE configurations == IF ConnectionsInThreads
                               THEN configsForMainThrdWhenMultiThrd(ConnectionsToRunInThread)
                               ELSE configurationsWhenSingleThread
           count == computeConnectionsToCountForMainThread(ConnectionsToTest,
                                                           ConnectionsToRunInThread)
<1>1. /\ ormConfigurations' = [ormConfigurations EXCEPT ![Main] = @ \union configurations]
      /\ ConnectionsToCount' = [ConnectionsToCount EXCEPT ![Main] = count]
      /\ defaultConnection' = [defaultConnection EXCEPT ![Main] = getDefaultConnectionName]
      /\ pc' = [pc EXCEPT ![Main] = "TestForPlay"]
      /\ UNCHANGED <<ConnectionsToTest, ConnectionsToRunInThread>>
  BY MainSlot DEF connectToDatabase, addAndCount, Goto, runVars
<1>2. ConnectionsToTest \subseteq RemovableConnections
      /\ ConnectionsToRunInThread \subseteq RemovableConnections
  BY DEF TypeInv, TypeOK, RunTypeOK
<1>3. \A n \in RemovableConnections : mappedConnection(n) = n
  BY ConfigurationAssumption
<1>4. count \subseteq configurations
  <2>1. CASE ConnectionsInThreads
    BY <2>1, <1>2, <1>3, ConfigurationAssumption
    DEF computeConnectionsToCountForMainThread, configsForMainThrdWhenMultiThrd
  <2>2. CASE ~ConnectionsInThreads
    BY <2>2, ConfigurationAssumption
    DEF computeConnectionsToCountForMainThread, configurationsWhenSingleThread
  <2> QED BY <2>1, <2>2
<1>5. Configurations \ (IF ConnectionsInThreads THEN RemovableConnections
                                                ELSE { Mysql_MainThread })
        \subseteq configurations
  BY <1>2 DEF configsForMainThrdWhenMultiThrd, configurationsWhenSingleThread
<1>6. \A c \in ConnectionsToTest : ~runsInThread(c) => c \in configurations
  BY <1>2, ConfigurationAssumption
  DEF runsInThread, configsForMainThrdWhenMultiThrd, configurationsWhenSingleThread
<1>7. getDefaultConnectionName \in configurations
  BY <1>2, ConfigurationAssumption, MainThreadConnectionAssumption
  DEF getDefaultConnectionName, configsForMainThrdWhenMultiThrd, configurationsWhenSingleThread
<1> HIDE DEF configurations, count
<1>8. /\ configurations \subseteq ormConfigurations'[Main]
      /\ ConnectionsToCount'[Main] = count
      /\ defaultConnection'[Main] = getDefaultConnectionName
      /\ pc'[Main] = "TestForPlay"
  BY <1>1, MainIsNoWorker DEF TypeInv, TypeOK, DatabaseTypeOK, CountersTypeOK, PcTypeOK
<1>9. "TestForPlay" \notin LoopTestLabels
  BY DEF LoopTestLabels
<1> QED BY <1>1, <1>4, <1>5, <1>6, <1>7, <1>8, <1>9 DEF MainConfigured, runsInThread

LEMMA MainConfiguredNext ==
  ASSUME TypeInv, WorkersAllowed, MainConfigured, Next
  PROVE  MainConfigured'
<1> USE MainIsNoWorker
<1>1. CASE connectToDatabase
  BY <1>1, MainConnects
<1>2. ASSUME NEW w \in Workers, addConnections(w) PROVE MainConfigured'
  <2>1. Slot(w) = w /\ w # Main
    BY <1>2, OwnSlot DEF addConnections
  <2>2. /\ ormConfigurations'[Main] = ormConfigurations[Main]
        /\ ConnectionsToCount'[Main] = ConnectionsToCount[Main]
        /\ defaultConnection'[Main] = defaultConnection[Main]
        /\ pc'[Main] = pc[Main]
        /\ UNCHANGED runVars
    BY <1>2, <2>1 DEF addConnections, addAndCount, Goto, TypeInv, TypeOK, DatabaseTypeOK,
                      CountersTypeOK, PcTypeOK
  <2> QED BY <2>2 DEF MainConfigured, runsInThread, runVars
<1>3. ASSUME ~connectToDatabase, \A w \in Workers : ~addConnections(w)
      PROVE  MainConfigured'
  <2>1. UNCHANGED <<ormConfigurations, ConnectionsToCount, ConnectionsToTest>>
    BY <1>3, ConfiguringShape
  <2>2. pc'[Main] \in MainConnectedLabels => pc[Main] \in MainConnectedLabels
    BY <1>3, ConnectedMoves
  <2>3. CASE UNCHANGED <<defaultConnection, ConnectionsToRunInThread>>
    <3>1. pc'[Main] \in LoopTestLabels =>
            pc[Main] \in LoopTestLabels
            \/ \E c \in RemovableConnections : testConnectionInMainThread(c)
      BY <1>3, ConnectedMoves
    <3>2. ASSUME NEW c \in RemovableConnections, testConnectionInMainThread(c)
          PROVE  defaultConnection[Main] \in ConnectionsToTest
      BY <2>3, <3>2, MainSlot
      DEF testConnectionInMainThread, setDefaultConnection, TypeInv, TypeOK, RunTypeOK,
          DatabaseTypeOK
    <3> QED BY <2>1, <2>2, <2>3, <3>1, <3>2 DEF MainConfigured, runsInThread
  <2>4. CASE joinThreads
    <3>1. pc'[Main] \notin MainConnectedLabels
      BY <2>4 DEF joinThreads, Goto, MainConnectedLabels, BeforeLoopLabels, CheckedLabels,
                  LoopTestLabels, TypeInv, TypeOK, PcTypeOK
    <3> QED BY <3>1 DEF MainConfigured
  <2>5. CASE initConnsInThreadsTesting
    <3>1. /\ UNCHANGED defaultConnection
          /\ ConnectionsToRunInThread' = ConnectionsToRunInThread
             \/ ConnectionsToRunInThread' =
                  santizeConnectionsToRunInThread(ConnectionsToTest,
                                                  ConnectionsToRunInThread)
      BY <2>5 DEF initConnsInThreadsTesting, dbVars
    <3>2. \A c \in ConnectionsToTest : runsInThread(c) => runsInThread(c)'
      BY <3>1 DEF runsInThread, santizeConnectionsToRunInThread
    <3>3. pc'[Main] \notin LoopTestLabels
      BY <2>5 DEF initConnsInThreadsTesting, Goto, LoopTestLabels, TypeInv, TypeOK, PcTypeOK
    <3> QED BY <2>1, <2>2, <3>1, <3>2, <3>3 DEF MainConfigured
  <2>6. ASSUME NEW c \in RemovableConnections, testConnectionInMainThread(c)
        PROVE  MainConfigured'
    <3>1. /\ c \in ConnectionsToTest /\ ~runsInThread(c)
          /\ defaultConnection'[Main] = c
          /\ pc[Main] = "nextConnection"
          /\ UNCHANGED ConnectionsToRunInThread
      BY <2>6, MainSlot
      DEF testConnectionInMainThread, setDefaultConnection, TypeInv, TypeOK, RunTypeOK,
          DatabaseTypeOK
    <3>2. pc[Main] \in MainConnectedLabels
      BY <3>1 DEF MainConnectedLabels, CheckedLabels
    <3> QED BY <2>1, <3>1, <3>2 DEF MainConfigured, runsInThread
  <2> QED BY <1>3, <2>3, <2>4, <2>5, <2>6, ConfiguringShape
<1> QED BY <1>1, <1>2, <1>3

ConfiguredInv == IsolationInv /\ WorkersConfigured /\ MainConfigured

LEMMA ConfiguredInvInit == Init => ConfiguredInv
<1> SUFFICES ASSUME Init PROVE ConfiguredInv
  OBVIOUS
<1>1. IsolationInv
  BY IsolationInit
<1>2. pc[Main] = "connectToDatabase" /\ \A w \in Workers : pc[w] = "notStarted"
  BY MainIsNoWorker DEF Init
<1> QED BY <1>1, <1>2
        DEF ConfiguredInv, WorkersConfigured, MainConfigured, LoopTestLabels,
            MainConnectedLabels

LEMMA ConfiguredInvNext == ConfiguredInv /\ [Next]_vars => ConfiguredInv'
<1> SUFFICES ASSUME ConfiguredInv, [Next]_vars PROVE ConfiguredInv'
  OBVIOUS
<1>1. IsolationInv'
  BY IsolationNext DEF ConfiguredInv
<1>2. CASE Next
  BY <1>1, <1>2, WorkersConfiguredNext, MainConfiguredNext DEF ConfiguredInv, IsolationInv
<1>3. CASE UNCHANGED vars
  BY <1>1, <1>3
  DEF vars, dbVars, counterVars, runVars, ConfiguredInv, WorkersConfigured, MainConfigured,
      runsInThread
<1> QED BY <1>2, <1>3

\* The connections the main thread's tests ask for are configured.
LEMMA MainConnectionsConfigured ==
  ASSUME TypeInv, MainConfigured, pc[Main] \in Tests
  PROVE  connectionsOf(Main, pc[Main]) \union toCount(Main) \subseteq ormConfigurations[Main]
<1> DEFINE default == defaultConnection[Main]
           always == Configurations \ (IF ConnectionsInThreads THEN RemovableConnections
                                                               ELSE { Mysql_MainThread })
<1>1. /\ pc[Main] \in MainConnectedLabels
      /\ toCount(Main) = ConnectionsToCount[Main]
  BY MainSlot DEF toCount, Tests, MainConnectedLabels, BeforeLoopLabels, CheckedLabels,
                  LoopTestLabels
<1>2. /\ ConnectionsToCount[Main] \subseteq ormConfigurations[Main]
      /\ always \subseteq ormConfigurations[Main]
      /\ default \in ormConfigurations[Main]
      /\ pc[Main] \in LoopTestLabels => default \in ConnectionsToTest
  BY <1>1 DEF MainConfigured
<1>3. { Mysql_Laravel8, Sqlite_Memory, Sqlite_CheckExistsTrue, Sqlite_CheckExistsFalse }
        \subseteq always
  BY ConfigurationAssumption, MainThreadConnectionAssumption
<1>4. CASE pc[Main] = "TestTinyOrm"
  <2>1. default \in RemovableConnections
    BY <1>2, <1>4 DEF LoopTestLabels, TypeInv, TypeOK, RunTypeOK
  <2>2. /\ torrentConnection(default) \in getMappedConnections(default)
        /\ getMappedConnections(default) \subseteq Configurations
        /\ getMappedConnections(default) \intersect RemovableConnections = { default }
        /\ mappedConnection(torrentConnection(default)) = default
    BY <2>1, ConfigurationAssumption
  <2>3. torrentConnection(default) # Mysql_MainThread
    BY <2>1, <2>2, ConfigurationAssumption
  <2>4. torrentConnection(default) \in always \union { default }
    BY <2>2, <2>3
  <2>5. connectionsOf(Main, pc[Main]) = { default, torrentConnection(default) }
    BY <1>4, MainSlot DEF connectionsOf
  <2> HIDE DEF always, default
  <2> QED BY <1>1, <1>2, <2>4, <2>5
<1>5. CASE pc[Main] \in { "TestConnection", "TestQueryBuilderDbSpecific" }
  <2>1. MysqlMainThreadConnection \in ormConfigurations[Main]
    <3>1. CASE ConnectionsInThreads
      BY <1>2, <3>1, ConfigurationAssumption DEF MysqlMainThreadConnection
    <3>2. CASE ~ConnectionsInThreads
      BY <1>2, <3>2, ConfigurationAssumption, MainThreadConnectionAssumption
      DEF MysqlMainThreadConnection
    <3> QED BY <3>1, <3>2
  <2>2. connectionsOf(Main, pc[Main]) \subseteq
          { MysqlMainThreadConnection, Mysql_Laravel8, Sqlite_Memory,
            Sqlite_CheckExistsTrue, Sqlite_CheckExistsFalse }
    BY <1>5 DEF connectionsOf
  <2> HIDE DEF always, default
  <2> QED BY <1>1, <1>2, <1>3, <2>1, <2>2
<1>6. CASE pc[Main] \notin { "TestTinyOrm", "TestConnection", "TestQueryBuilderDbSpecific" }
  <2>1. connectionsOf(Main, pc[Main]) = { default }
    BY <1>6, MainSlot DEF connectionsOf
  <2> QED BY <1>1, <1>2, <2>1
<1> QED BY <1>4, <1>5, <1>6

\* No thread meets a connection it has no configuration for: the main thread
\* configures all it tests although the list it goes by is santized later.
THEOREM ConfigurationPresentCorrect == Spec => []ConfigurationPresent
<1>1. ConfiguredInv => ConfigurationPresent
  <2> SUFFICES ASSUME ConfiguredInv, NEW t \in Threads, pc[t] \in Tests
               PROVE  connectionsOf(t, pc[t]) \union toCount(t)
                        \subseteq ormConfigurations[Slot(t)]
    BY DEF ConfigurationPresent
  <2>1. TypeInv /\ WorkersAllowed /\ ConnectionShares
    BY DEF ConfiguredInv, IsolationInv
  <2>2. CASE t = Main
    BY <2>1, <2>2, MainConnectionsConfigured, MainSlot DEF ConfiguredInv
  <2>3. CASE t \in Workers
    <3>1. pc[t] \in LoopTestLabels /\ Slot(t) = t
      BY <2>1, <2>3, WorkerTests, OwnSlot DEF LoopTestLabels
    <3>2. connectionsOf(t, pc[t]) \subseteq getMappedConnections(t)
      BY <2>1, <2>3, WorkerConnections
    <3>3. ConnectionsToCount[t] \subseteq getMappedConnections(t)
          /\ getMappedConnections(t) \subseteq ormConfigurations[t]
      BY <2>3, <3>1 DEF ConfiguredInv, WorkersConfigured
    <3> QED BY <3>1, <3>2, <3>3 DEF toCount
  <2> QED BY <2>2, <2>3 DEF Threads, Workers
<1> QED BY <1>1, ConfiguredInvInit, ConfiguredInvNext, PTL DEF Spec

-----------------------------------------------------------------------------
(* The connections the Application Summary lists *)

\* The main thread gets past connectToDatabase() by that step only, and does
\* not get out of the unwinding other than to its end.
LEMMA ConnectsFirst ==
  ASSUME TypeInv, Next, ~connectToDatabase,
         pc'[Main] \notin { "connectToDatabase", "unwinding", "done" }
  PROVE  pc[Main] \notin { "connectToDatabase", "unwinding", "done" }
<1> USE MainIsNoWorker DEF TypeInv, TypeOK, PcTypeOK, Goto
<1>1. CASE PlayTestStep(Main)
  BY <1>1, PlayTestShape DEF Tests
<1>2. CASE SaveStep(Main)
  BY <1>2, SaveShape DEF SaveLabels
<1>3. CASE MainStep
  BY <1>3
  DEF MainStep, connectToDatabase, throwIfUnsupportedEnv, OtherTestsStatement,
      EndOtherTests, initConnsInThreadsTesting, startWorkerThread, Workers,
      testConnectionInMainThread, endOfLoop, joinThreads, replayThrdLogToConsole,
      endOfReplay, logApplicationSummary, returnFromMain, MainThrows, CatchInMain
<1>4. ASSUME NEW w \in Workers, WorkerThread(w) PROVE pc'[Main] = pc[Main]
  BY <1>4, WorkerShape
<1>5. CASE Ended
  BY <1>5 DEF Ended, vars
<1> QED BY <1>1, <1>2, <1>3, <1>4, <1>5 DEF Next, MainThread

\* Without threads, santizing the list changes nothing.
LEMMA SummaryListedNext ==
  ASSUME ~ConnectionsInThreads, TypeInv, WorkersAllowed, ExitCodeLast, SummaryListed, Next
  PROVE  SummaryListed'
<1> USE MainIsNoWorker
<1>1. CASE connectToDatabase
  <2>1. /\ pc'[Main] = "TestForPlay" /\ pc[Main] = "connectToDatabase"
        /\ ConnectionsToCount'[Main] = computeConnectionsToCountForMainThread(
                                         ConnectionsToTest, ConnectionsToRunInThread)
        /\ UNCHANGED <<ConnectionsToTest, ConnectionsToRunInThread, exitCode>>
    BY <1>1, MainSlot DEF connectToDatabase, Goto, runVars, outcome, TypeInv, TypeOK,
                          PcTypeOK, CountersTypeOK
  <2>2. exitCode # "success"
    BY <2>1 DEF ExitCodeLast
  <2> QED BY <2>1, <2>2 DEF SummaryListed
<1>2. CASE ~connectToDatabase
  <2>1. \A w \in Workers : ~addConnections(w)
    BY DEF WorkersAllowed, addConnections
  <2>2. /\ UNCHANGED <<ConnectionsToCount, ConnectionsToTest>>
        /\ UNCHANGED ConnectionsToRunInThread \/ initConnsInThreadsTesting
    BY <1>2, <2>1, ConfiguringShape
    DEF joinThreads, testConnectionInMainThread, runVars
  <2>3. UNCHANGED ConnectionsToRunInThread
    BY <2>2 DEF initConnsInThreadsTesting, santizeConnectionsToRunInThread
  <2>4. pc'[Main] \notin { "connectToDatabase", "unwinding", "done" } =>
          ConnectionsToCount'[Main] = computeConnectionsToCountForMainThread(
                                        ConnectionsToTest', ConnectionsToRunInThread')
    BY <1>2, <2>2, <2>3, ConnectsFirst DEF SummaryListed
  <2>5. CASE logApplicationSummary
    <3>1. /\ pc[Main] = "logApplicationSummary"
          /\ summary'.listed = appCountedConnectionsPrintable(ConnectionsToTest)
      BY <2>5 DEF logApplicationSummary
    <3>2. ConnectionsToCount[Main] = computeConnectionsToCountForMainThread(
                                       ConnectionsToTest, ConnectionsToRunInThread)
      BY <3>1 DEF SummaryListed
    <3>3. summary'.listed \subseteq ConnectionsToCount'[Main]
      BY <2>2, <3>1, <3>2
      DEF appCountedConnectionsPrintable, computeConnectionsToCountForMainThread
    <3> QED BY <2>4, <3>3 DEF SummaryListed
  <2>6. CASE ~logApplicationSummary
    <3>1. UNCHANGED summary
          /\ (pc'[Main] = "return" \/ exitCode' = "success" =>
                pc[Main] = "return" \/ exitCode = "success")
      BY <2>6, SummaryShape DEF returnFromMain
    <3> QED BY <2>2, <2>4, <3>1 DEF SummaryListed
  <2> QED BY <2>5, <2>6
<1> QED BY <1>1, <1>2

\* With no threads, a successful run lists as counted only connections that
\* the main thread counts.  (With threads, the run V_SummaryListsCounted
\* shows the opposite.)
THEOREM SummaryListsCountedCorrect ==
  ASSUME ~ConnectionsInThreads PROVE Spec => []SummaryListsCounted
<1> DEFINE Inv == IsolationInv /\ CountersInv /\ SummaryListed
<1>1. Init => Inv
  <2> SUFFICES ASSUME Init PROVE Inv
    OBVIOUS
  <2>1. IsolationInv /\ CountersInv
    BY IsolationInit, CountersInvInit
  <2>2. pc[Main] = "connectToDatabase" /\ exitCode = "none"
    BY MainIsNoWorker DEF Init
  <2> QED BY <2>1, <2>2 DEF SummaryListed
<1>2. Inv /\ [Next]_vars => Inv'
  <2> SUFFICES ASSUME Inv, [Next]_vars PROVE Inv'
    OBVIOUS
  <2>1. (IsolationInv /\ CountersInv)'
    BY IsolationNext, CountersInvNext
  <2>2. CASE Next
    BY <2>1, <2>2, SummaryListedNext DEF IsolationInv, CountersInv
  <2>3. CASE UNCHANGED vars
    BY <2>1, <2>3 DEF vars, counterVars, runVars, outcome, SummaryListed
  <2> QED BY <2>2, <2>3
<1>3. Inv => SummaryListsCounted
  BY MainSlot DEF SummaryListed, SummaryListsCounted, toCount
<1> QED BY <1>1, <1>2, <1>3, PTL DEF Spec

-----------------------------------------------------------------------------
(***************************************************************************)
(* A run implements PlayRun: the initial states map to initial states, and *)
(* under the invariant above every step maps to a step or a stutter.       *)
(***************************************************************************)

-----------------------------------------------------------------------------
(* The phase of a thread, from its label *)

RunningLabels ==
  (MainLabels \union WorkerLabels) \
    { "notStarted", "failed", "unwinding", "logApplicationSummary", "return",
      "saveLogsFromThread", "logsLocked", "logPushed", "done" }
FailedLabels == { "failed", "unwinding" }
SavedPhaseLabels ==
  { "logApplicationSummary", "return", "saveLogsFromThread", "logsLocked", "logPushed" }

\* Before its end, the label of a thread determines its phase.
LEMMA PhaseOfLabel ==
  ASSUME ExitCodeLast, NEW t \in Threads, pc[t] # "done"
  PROVE  /\ pc[t] = "notStarted" => phaseOf(t) = "idle"
         /\ pc[t] \in RunningLabels => phaseOf(t) = "running"
         /\ pc[t] \in FailedLabels => phaseOf(t) = "failed"
         /\ pc[t] \in SavedPhaseLabels => phaseOf(t) = "saved"
<1>1. ~(t = Main /\ exitCode = "failure")
  BY DEF ExitCodeLast
<1> QED
  BY <1>1 DEF phaseOf, RunningLabels, FailedLabels, SavedPhaseLabels

LEMMA PhaseOfLabelNext ==
  ASSUME ExitCodeLast', NEW t \in Threads, pc'[t] # "done"
  PROVE  /\ pc'[t] = "notStarted" => phaseOf(t)' = "idle"
         /\ pc'[t] \in RunningLabels => phaseOf(t)' = "running"
         /\ pc'[t] \in FailedLabels => phaseOf(t)' = "failed"
         /\ pc'[t] \in SavedPhaseLabels => phaseOf(t)' = "saved"
<1>1. ~(t = Main /\ exitCode' = "failure")
  BY DEF ExitCodeLast
<1> QED
  BY <1>1 DEF phaseOf, RunningLabels, FailedLabels, SavedPhaseLabels

\* A thread that has ended has saved, except a main thread that failed.
LEMMA PhaseOfEnded ==
  /\ \A w \in Workers : w # Main /\ pc[w] = "done" => phaseOf(w) = "saved"
  /\ pc[Main] = "done" => phaseOf(Main) = IF exitCode = "failure" THEN "failed" ELSE "saved"
  /\ \A w \in Workers : w # Main /\ pc'[w] = "done" => phaseOf(w)' = "saved"
  /\ pc'[Main] = "done" => phaseOf(Main)' = IF exitCode' = "failure" THEN "failed" ELSE "saved"
BY DEF phaseOf

\* A worker that was joined is not running.
LEMMA JoinedPhase ==
  ASSUME ExitCodeLast, allJoined
  PROVE  /\ \A w \in Workers : phaseOf(w) # "running"
         /\ \A w \in Workers : phaseOf(w) = "saved" <=> pc[w] = "done"
BY MainIsNoWorker, PhaseOfLabel, PhaseOfEnded DEF allJoined, Joined, FailedLabels

\* A thread that stays where it is stays in its phase, unless the run ends.
LEMMA PhaseKept ==
  ASSUME NEW t \in Threads, pc'[t] = pc[t], UNCHANGED exitCode \/ t # Main
  PROVE  phaseOf(t)' = phaseOf(t)
BY DEF phaseOf

-----------------------------------------------------------------------------
(* The shapes of the abstract steps *)

\* What PlayRun sees of a state.
Phase == [t \in Threads |-> phaseOf(t)]
CountedBy == [t \in Threads |-> played[t].statements]

LEMMA AbstractVars ==
  /\ Abstract!vars = <<Phase, CountedBy, reportOf(summary.items), exitCode>>
  /\ Abstract!vars' = <<Phase', CountedBy', reportOf(summary.items)', exitCode'>>
  /\ Abstract!Threads = Threads
BY DEF Abstract!vars, Abstract!Threads, Phase, CountedBy, Threads

\* A step within the running phase, or in none, that counts nothing.
LEMMA Stutters ==
  ASSUME TypeInv, ExitCodeLast, ExitCodeLast', UNCHANGED <<played, outcome>>,
         NEW t \in Threads,
         \/ UNCHANGED pc
         \/ \E label \in RunningLabels : Goto(t, label) /\ pc[t] \in RunningLabels
         \/ \E label \in SavedPhaseLabels : Goto(t, label) /\ pc[t] \in SavedPhaseLabels
  PROVE  UNCHANGED Abstract!vars
<1> USE DEF TypeInv, TypeOK, PcTypeOK
<1>1. ASSUME NEW u \in Threads PROVE phaseOf(u)' = phaseOf(u)
  <2>1. CASE pc'[u] = pc[u]
    BY <2>1, PhaseKept DEF outcome
  <2>2. CASE pc'[u] \in RunningLabels /\ pc[u] \in RunningLabels
    BY <2>2, PhaseOfLabel, PhaseOfLabelNext DEF RunningLabels
  <2>3. CASE pc'[u] \in SavedPhaseLabels /\ pc[u] \in SavedPhaseLabels
    BY <2>3, PhaseOfLabel, PhaseOfLabelNext DEF SavedPhaseLabels
  <2> QED BY <2>1, <2>2, <2>3 DEF Goto
<1>2. Phase' = Phase
  BY <1>1 DEF Phase
<1>3. CountedBy' = CountedBy /\ reportOf(summary.items)' = reportOf(summary.items)
  BY DEF CountedBy, outcome, reportOf
<1> QED BY <1>2, <1>3, AbstractVars DEF outcome

\* A step that moves one thread from a phase to another.
LEMMA Moves ==
  ASSUME NEW t \in Threads, UNCHANGED <<played, outcome>>,
         \A u \in Threads : u # t => pc'[u] = pc[u]
  PROVE  /\ Abstract!Move(t, phaseOf(t), phaseOf(t)')
         /\ CountedBy' = CountedBy
         /\ reportOf(summary.items)' = reportOf(summary.items)
         /\ exitCode' = exitCode
<1>1. \A u \in Threads : u # t => phaseOf(u)' = phaseOf(u)
  BY PhaseKept DEF outcome
<1>2. Phase[t] = phaseOf(t) /\ Phase' = [Phase EXCEPT ![t] = phaseOf(t)']
  BY <1>1 DEF Phase
<1>3. Abstract!Move(t, phaseOf(t), phaseOf(t)')
  BY <1>2 DEF Abstract!Move, Phase
<1> QED BY <1>3 DEF CountedBy, outcome, reportOf

\* The four moves of PlayRun.
LEMMA AbstractMoves ==
  ASSUME NEW t \in Threads, UNCHANGED <<played, outcome>>,
         \A u \in Threads : u # t => pc'[u] = pc[u]
  PROVE  /\ t \in Workers /\ phaseOf(Main) = "running"
              /\ phaseOf(t) = "idle" /\ phaseOf(t)' = "running" => Abstract!Next
         /\ (t = Main => \A w \in Workers : phaseOf(w) # "running")
              /\ phaseOf(t) = "running" /\ phaseOf(t)' = "saved" => Abstract!Next
         /\ phaseOf(t) = "running" /\ phaseOf(t)' = "failed" => Abstract!Next
<1>1. t \in Abstract!Threads /\ Phase[Main] = phaseOf(Main)
      /\ \A w \in Workers : Phase[w] = phaseOf(w)
  BY AbstractVars, MainIsNoWorker DEF Phase
<1>2. /\ Abstract!Move(t, phaseOf(t), phaseOf(t)')
      /\ CountedBy' = CountedBy
      /\ reportOf(summary.items)' = reportOf(summary.items)
      /\ exitCode' = exitCode
  BY Moves
<1>3. ASSUME t \in Workers, phaseOf(Main) = "running",
             phaseOf(t) = "idle", phaseOf(t)' = "running"
      PROVE  Abstract!Next
  <2>1. Abstract!Start(t)
    BY <1>1, <1>2, <1>3 DEF Abstract!Start, Phase, CountedBy
  <2> QED BY <1>3, <2>1 DEF Abstract!Next
<1>4. ASSUME t = Main => \A w \in Workers : phaseOf(w) # "running",
             phaseOf(t) = "running", phaseOf(t)' = "saved"
      PROVE  Abstract!Next
  <2>1. Abstract!Save(t)
    BY <1>1, <1>2, <1>4 DEF Abstract!Save, Abstract!NoWorkerRuns, Phase, CountedBy
  <2> QED BY <1>1, <2>1 DEF Abstract!Next
<1>5. ASSUME phaseOf(t) = "running", phaseOf(t)' = "failed"
      PROVE  Abstract!Next
  <2>1. Abstract!Fail(t)
    BY <1>2, <1>5 DEF Abstract!Fail, Phase, CountedBy
  <2> QED BY <1>1, <2>1 DEF Abstract!Next
<1> QED BY <1>3, <1>4, <1>5

-----------------------------------------------------------------------------
(* Every step maps to a step or a stutter *)

\* The invariant as far as the steps below need it.
StepInv ==
  /\ TypeInv /\ JoinedAfterLoop /\ ExitCodeLast /\ ExitCodeLast'
  /\ WorkersAllowed /\ SlotsConserved /\ AppItemsMapped /\ AppItemsSaved
  /\ SummaryOnceLogged

\* The log of a PlayTest adds to what its thread, and only it, counted.
LEMMA LogPlayTestCounts ==
  ASSUME StepInv, NEW t \in Threads, LogPlayTest(t) PROVE Abstract!Next
<1> USE DEF StepInv, TypeInv, TypeOK, RunTypeOK, PcTypeOK
<1>1. /\ pc[t] \in Tests /\ Goto(t, afterTest(t, pc[t])) /\ UNCHANGED outcome
      /\ played' = [played EXCEPT ![t] = AddTally(played[t], running[t])]
  BY PlayTestShape DEF LogPlayTest, PlayTestStep
<1>2. afterTest(t, pc[t]) \in RunningLabels /\ pc[t] \in RunningLabels
  BY <1>1 DEF afterTest, Tests, RunningLabels, MainLabels, WorkerLabels
<1>3. \A u \in Threads : phaseOf(u)' = phaseOf(u)
  <2>1. phaseOf(t) = "running" /\ phaseOf(t)' = "running"
    BY <1>1, <1>2, PhaseOfLabel, PhaseOfLabelNext DEF Goto, RunningLabels
  <2> QED BY <1>1, <2>1, PhaseKept DEF Goto, outcome
<1>4. /\ running[t] \in Tally /\ played[t] \in Tally
      /\ \A u \in Threads : u # t => played'[u] = played[u]
      /\ played'[t] = AddTally(played[t], running[t])
  BY <1>1
<1>5. played'[t].statements =
        [n \in Configurations |-> played[t].statements[n] + running[t].statements[n]]
  BY <1>4 DEF AddTally
<1>6. \A n \in Configurations : played'[t].statements[n] >= played[t].statements[n]
  BY <1>4, <1>5 DEF Tally, Statements
<1>7. /\ DOMAIN CountedBy' = Threads /\ DOMAIN CountedBy'[t] = Configurations
      /\ \A u \in Threads \ { t } : CountedBy'[u] = CountedBy[u]
      /\ \A n \in Configurations : CountedBy'[t][n] >= CountedBy[t][n]
  BY <1>4, <1>5, <1>6 DEF CountedBy
<1>8. Phase' = Phase /\ Phase[t] = "running"
  <2>1. phaseOf(t) = "running"
    BY <1>1, <1>2, PhaseOfLabel DEF RunningLabels
  <2> QED BY <1>3, <2>1 DEF Phase
<1>9. reportOf(summary.items)' = reportOf(summary.items) /\ exitCode' = exitCode
  BY <1>1 DEF outcome, reportOf
<1>10. Abstract!Count(t)
  BY <1>7, <1>8, <1>9, AbstractVars DEF Abstract!Count, Phase, CountedBy
<1> QED BY <1>10, AbstractVars DEF Abstract!Next

LEMMA PlayTestImplements ==
  ASSUME StepInv, NEW t \in Threads, PlayTestStep(t)
  PROVE  Abstract!Next \/ UNCHANGED Abstract!vars
<1>1. CASE LogPlayTest(t)
  BY <1>1, LogPlayTestCounts
<1>2. CASE ~LogPlayTest(t)
  <2>1. UNCHANGED <<played, outcome>>
    BY <1>2 DEF PlayTestStep, SkipTest, StartPlayTest, PlayTestStatement, history
  <2>2. pc[t] \in Tests /\ (pc' = pc \/ Goto(t, afterTest(t, pc[t])))
    BY PlayTestShape DEF StepInv
  <2>3. afterTest(t, pc[t]) \in RunningLabels /\ pc[t] \in RunningLabels
    BY <2>2 DEF afterTest, Tests, RunningLabels, MainLabels, WorkerLabels
  <2> QED BY <2>1, <2>2, <2>3, Stutters DEF StepInv
<1> QED BY <1>1, <1>2

\* Of the save, only its last step is seen.
LEMMA SaveImplements ==
  ASSUME StepInv, NEW t \in Threads, SaveStep(t)
  PROVE  Abstract!Next \/ UNCHANGED Abstract!vars
<1> USE DEF StepInv, TypeInv, TypeOK, PcTypeOK
<1>1. UNCHANGED <<played, outcome>>
  BY DEF SaveStep, lockForSave, addCounters, newCounters, mapCounters, unchangedBySave,
         history
<1>2. CASE lockForSave(t) \/ newCounters(t)
  <2>1. \E label \in RunningLabels : Goto(t, label) /\ pc[t] \in RunningLabels
    BY <1>2 DEF lockForSave, newCounters, RunningLabels, MainLabels
  <2> QED BY <1>1, <2>1, Stutters
<1>3. CASE addCounters(t) \/ mapCounters(t)
  <2>1. pc[t] \in { "countersLocked", "countersPushed" } /\ Goto(t, afterSave(t))
    BY <1>3 DEF addCounters, mapCounters
  <2>2. afterSave(t) \in SavedPhaseLabels
    BY DEF afterSave, SavedPhaseLabels
  <2>3. pc[t] # "done" /\ pc[t] \in RunningLabels
    BY <2>1 DEF RunningLabels, MainLabels
  <2>4. pc'[t] # "done" /\ pc'[t] \in SavedPhaseLabels
    BY <2>1, <2>2 DEF Goto, SavedPhaseLabels
  <2>5. phaseOf(t) = "running" /\ phaseOf(t)' = "saved"
    BY <2>3, <2>4, PhaseOfLabel, PhaseOfLabelNext
  <2>6. t = Main => \A w \in Workers : phaseOf(w) # "running"
    BY <2>1, JoinedPhase DEF JoinedAfterLoop, AfterJoinLabels
  <2> QED BY <1>1, <2>1, <2>5, <2>6, AbstractMoves DEF Goto
<1> QED BY <1>2, <1>3 DEF SaveStep

LEMMA WorkerImplements ==
  ASSUME StepInv, NEW w \in Workers, WorkerStep(w)
  PROVE  Abstract!Next \/ UNCHANGED Abstract!vars
<1> USE MainIsNoWorker DEF StepInv, TypeInv, TypeOK, PcTypeOK
<1>1. UNCHANGED <<played, outcome>>
  BY DEF WorkerStep, enterWorker, addConnections, SaveLogsStep, lockForLogs, streamLog,
         endOfStream, pushLog, mapLog, unchangedByLogs, WorkerThrows, history
<1>2. CASE enterWorker(w) \/ addConnections(w)
  <2>1. \E label \in RunningLabels : Goto(w, label) /\ pc[w] \in RunningLabels
    BY <1>2 DEF enterWorker, addConnections, RunningLabels, WorkerLabels
  <2> QED BY <1>1, <2>1, Stutters
<1>3. CASE lockForLogs(w) \/ streamLog(w) \/ pushLog(w)
  <2>1. \/ UNCHANGED pc
        \/ \E label \in SavedPhaseLabels : Goto(w, label) /\ pc[w] \in SavedPhaseLabels
    BY <1>3 DEF lockForLogs, streamLog, pushLog, SavedPhaseLabels
  <2> QED BY <1>1, <2>1, Stutters
<1>4. CASE endOfStream(w) \/ mapLog(w)
  <2>1. pc[w] \in { "logsLocked", "logPushed" } /\ Goto(w, "done")
    BY <1>4 DEF endOfStream, mapLog
  <2>2. phaseOf(w) = "saved"
    BY <2>1, PhaseOfLabel DEF SavedPhaseLabels
  <2>3. phaseOf(w)' = "saved"
    BY <2>1, PhaseOfEnded DEF Goto
  <2>4. \A u \in Threads : phaseOf(u)' = phaseOf(u)
    BY <1>1, <2>1, <2>2, <2>3, PhaseKept DEF Goto, outcome
  <2>5. Phase' = Phase
    BY <2>4 DEF Phase
  <2> QED BY <1>1, <2>5, AbstractVars DEF CountedBy, outcome, reportOf
<1>5. CASE WorkerThrows(w)
  <2>1. pc[w] \in WorkerTryLabels /\ Goto(w, "failed")
    BY <1>5 DEF WorkerThrows
  <2>2. pc[w] \in RunningLabels /\ pc[w] # "done"
    BY <2>1 DEF WorkerTryLabels, RunningLabels, WorkerLabels
  <2>3. pc'[w] = "failed"
    BY <2>1 DEF Goto
  <2>4. phaseOf(w) = "running" /\ phaseOf(w)' = "failed"
    BY <2>2, <2>3, PhaseOfLabel, PhaseOfLabelNext DEF FailedLabels
  <2> QED BY <1>1, <2>1, <2>4, AbstractMoves DEF Goto
<1> QED BY <1>2, <1>3, <1>4, <1>5 DEF WorkerStep, SaveLogsStep

\* The summary is PlayRun's report.
LEMMA LogSummaryReports ==
  ASSUME StepInv, logApplicationSummary PROVE Abstract!Next
<1> USE MainIsNoWorker DEF StepInv, TypeInv, TypeOK, PcTypeOK
<1>1. /\ pc[Main] = "logApplicationSummary" /\ Goto(Main, "return")
      /\ UNCHANGED <<played, exitCode>>
  BY DEF logApplicationSummary, history
<1>2. allJoined /\ exitCode = "none" /\ summary.items = <<>>
  BY <1>1, SummaryTold DEF JoinedAfterLoop, AfterJoinLabels, ExitCodeLast, RunTypeOK
<1>3. SummaryTells'
  BY SummaryLogged
<1>4. \A w \in Workers : pc'[w] = pc[w]
  BY <1>1 DEF Goto
<1>5. phaseOf(Main) = "saved" /\ phaseOf(Main)' = "saved"
  BY <1>1, PhaseOfLabel, PhaseOfLabelNext DEF SavedPhaseLabels, Goto
<1>6. Phase' = Phase /\ CountedBy' = CountedBy
  BY <1>1, <1>4, <1>5, PhaseKept DEF Phase, CountedBy, Threads
<1>7. reportOf(summary.items) = Abstract!NoReport
  BY <1>2 DEF reportOf, Abstract!NoReport
<1> DEFINE saved == { u \in Threads : Phase[u] = "saved" }
           items == summary'.items
           names == { items[i].threadName : i \in DOMAIN items }
<1>8. names = saved
  <2>1. names = { Main } \union { w \in Workers : pc[w] = "done" }
    BY <1>3, <1>4 DEF SummaryTells
  <2>2. \A w \in Workers : Phase[w] = "saved" <=> pc[w] = "done"
    BY <1>2, JoinedPhase DEF Phase
  <2>3. Phase[Main] = "saved"
    BY <1>5 DEF Phase
  <2> QED BY <2>1, <2>2, <2>3 DEF Threads
<1>9. ASSUME NEW t \in saved
      PROVE  items[CHOOSE i \in DOMAIN items : items[i].threadName = t].statements
               = CountedBy[t]
  <2>1. \E i \in DOMAIN items : items[i].threadName = t
    BY <1>8
  <2> DEFINE j == CHOOSE i \in DOMAIN items : items[i].threadName = t
  <2>2. j \in DOMAIN items /\ items[j].threadName = t
    BY <2>1
  <2>3. items[j].statements = played[t].statements
    <3> HIDE DEF j
    <3> QED BY <1>1, <1>3, <2>2 DEF SummaryTells
  <2> QED BY <2>3 DEF CountedBy
<1>10. reportOf(summary.items)' = [t \in saved |-> CountedBy[t]]
  <2>1. reportOf(summary.items)' =
          [t \in names |->
             items[CHOOSE i \in DOMAIN items : items[i].threadName = t].statements]
    BY DEF reportOf
  <2> HIDE DEF names, saved
  <2> QED BY <1>8, <1>9, <2>1
<1>11. Abstract!Report
  <2>1. Phase[Main] = "saved"
    BY <1>5 DEF Phase
  <2> QED BY <1>1, <1>6, <1>7, <1>10, <2>1, AbstractVars
          DEF Abstract!Report, Phase, CountedBy
<1> QED BY <1>11 DEF Abstract!Next

\* The end of the main thread is that of the run.
LEMMA EndImplements ==
  ASSUME StepInv, returnFromMain \/ CatchInMain PROVE Abstract!Next
<1> USE MainIsNoWorker DEF StepInv, TypeInv, TypeOK, PcTypeOK
<1>1. /\ pc[Main] \in { "return", "unwinding" } /\ Goto(Main, "done")
      /\ UNCHANGED <<played, summary>>
  BY DEF returnFromMain, CatchInMain, history
<1>2. exitCode = "none"
  BY <1>1 DEF ExitCodeLast, RunTypeOK
<1>3. \A w \in Workers : phaseOf(w)' = phaseOf(w)
  BY <1>1, PhaseKept DEF Goto
<1>4. CountedBy' = CountedBy /\ reportOf(summary.items)' = reportOf(summary.items)
  BY <1>1 DEF CountedBy, reportOf
<1>5. CASE returnFromMain
  <2>1. pc[Main] = "return" /\ exitCode' = "success" /\ pc'[Main] = "done"
    BY <1>1, <1>5 DEF returnFromMain, Goto
  <2>2. phaseOf(Main) = "saved" /\ phaseOf(Main)' = "saved"
    BY <2>1, PhaseOfLabel, PhaseOfEnded DEF SavedPhaseLabels
  <2>3. Phase' = Phase
    BY <1>3, <2>2 DEF Phase, Threads
  <2>4. Main \in DOMAIN reportOf(summary.items)
    BY <2>1, SummaryTold DEF SummaryTells, reportOf
  <2>5. reportOf(summary.items) # Abstract!NoReport
    BY <2>4 DEF Abstract!NoReport
  <2>6. Abstract!Succeed
    BY <1>2, <1>4, <2>1, <2>3, <2>5 DEF Abstract!Succeed, Phase, CountedBy
  <2> QED BY <2>6 DEF Abstract!Next
<1>6. CASE CatchInMain
  <2>1. pc[Main] = "unwinding" /\ allJoined /\ exitCode' = "failure" /\ pc'[Main] = "done"
    BY <1>1, <1>6 DEF CatchInMain, Goto
  <2>2. phaseOf(Main) = "failed" /\ phaseOf(Main)' = "failed"
    BY <2>1, PhaseOfLabel, PhaseOfEnded DEF FailedLabels
  <2>3. Phase' = Phase /\ Phase[Main] = "failed"
    BY <1>3, <2>2 DEF Phase, Threads
  <2>4. \A w \in Workers : Phase[w] # "running"
    BY <2>1, JoinedPhase DEF Phase
  <2>5. Abstract!GiveUp
    BY <1>2, <1>4, <2>1, <2>3, <2>4
    DEF Abstract!GiveUp, Abstract!NoWorkerRuns, Phase, CountedBy
  <2> QED BY <2>5 DEF Abstract!Next
<1> QED BY <1>5, <1>6

LEMMA MainImplements ==
  ASSUME StepInv, MainStep
  PROVE  Abstract!Next \/ UNCHANGED Abstract!vars
<1> USE MainIsNoWorker DEF StepInv, TypeInv, TypeOK, PcTypeOK
<1>1. CASE logApplicationSummary \/ returnFromMain \/ CatchInMain
  BY <1>1, LogSummaryReports, EndImplements
<1>2. CASE ~(logApplicationSummary \/ returnFromMain \/ CatchInMain)
  <2>1. UNCHANGED <<played, outcome>>
    BY <1>2 DEF MainStep, connectToDatabase, throwIfUnsupportedEnv, OtherTestsStatement,
       EndOtherTests, initConnsInThreadsTesting, startWorkerThread,
       testConnectionInMainThread, endOfLoop, joinThreads, replayThrdLogToConsole,
       endOfReplay, MainThrows, history
  <2>2. ASSUME NEW c \in RemovableConnections, startWorkerThread(c) PROVE Abstract!Next
    <3>1. /\ pc[c] = "notStarted" /\ pc[Main] = "nextConnection" /\ c \in Workers
          /\ Goto(c, "throwIfNoConfig")
      BY <2>2 DEF startWorkerThread, UntestedNotStarted, Workers
    <3>2. phaseOf(c) = "idle" /\ phaseOf(Main) = "running"
      BY <3>1, PhaseOfLabel DEF RunningLabels, MainLabels
    <3>3. phaseOf(c)' = "running"
      BY <3>1, PhaseOfLabelNext DEF RunningLabels, WorkerLabels, Goto
    <3> QED BY <2>1, <3>1, <3>2, <3>3, AbstractMoves DEF Goto
  <2>3. CASE Goto(Main, "unwinding") /\ pc[Main] \in RunningLabels
    <3>1. phaseOf(Main) = "running"
      BY <2>3, PhaseOfLabel DEF RunningLabels
    <3>2. phaseOf(Main)' = "failed"
      BY <2>3, PhaseOfLabelNext DEF FailedLabels, Goto
    <3> QED BY <2>1, <2>3, <3>1, <3>2, AbstractMoves DEF Goto
  <2>4. CASE \/ UNCHANGED pc
             \/ \E label \in RunningLabels : Goto(Main, label) /\ pc[Main] \in RunningLabels
    BY <2>1, <2>4, Stutters
  <2>5. \/ \E c \in RemovableConnections : startWorkerThread(c)
        \/ Goto(Main, "unwinding") /\ pc[Main] \in RunningLabels
        \/ UNCHANGED pc
        \/ \E label \in RunningLabels : Goto(Main, label) /\ pc[Main] \in RunningLabels
    BY <1>2 DEF MainStep, connectToDatabase, throwIfUnsupportedEnv, OtherTestsStatement,
       EndOtherTests, afterTest, initConnsInThreadsTesting, testConnectionInMainThread,
       endOfLoop, joinThreads, replayThrdLogToConsole, endOfReplay, MainThrows,
       MainTryLabels, RunningLabels, MainLabels, Tests
  <2> QED BY <2>2, <2>3, <2>4, <2>5
<1> QED BY <1>1, <1>2

-----------------------------------------------------------------------------
(* The theorem *)

LEMMA InitImplements == Init => Abstract!Init
<1> SUFFICES ASSUME Init PROVE Abstract!Init
  OBVIOUS
<1>1. /\ pc[Main] = "connectToDatabase" /\ \A w \in Workers : pc[w] = "notStarted"
      /\ summary.items = <<>> /\ exitCode = "none" /\ played = [t \in Threads |-> NoTally]
  BY MainIsNoWorker DEF Init, Threads
<1>2. ExitCodeLast
  BY <1>1 DEF ExitCodeLast
<1>3. phaseOf(Main) = "running" /\ \A w \in Workers : phaseOf(w) = "idle"
  BY <1>1, <1>2, MainIsNoWorker, PhaseOfLabel DEF RunningLabels, MainLabels
<1>4. Phase = [t \in Threads |-> IF t = Main THEN "running" ELSE "idle"]
  BY <1>3, MainIsNoWorker DEF Phase, Threads
<1>5. CountedBy = [t \in Threads |-> [n \in Configurations |-> 0]]
  BY <1>1 DEF CountedBy, NoTally, NoStatements
<1>6. reportOf(summary.items) = Abstract!NoReport
  BY <1>1 DEF reportOf, Abstract!NoReport
<1> QED BY <1>1, <1>4, <1>5, <1>6, AbstractVars DEF Abstract!Init, Phase, CountedBy

LEMMA NextImplements ==
  SummaryInv /\ [Next]_vars => Abstract!Next \/ UNCHANGED Abstract!vars
<1> SUFFICES ASSUME SummaryInv, [Next]_vars
             PROVE  Abstract!Next \/ UNCHANGED Abstract!vars
  OBVIOUS
<1>1. SummaryInv'
  BY SummaryInvNext
<1>2. StepInv
  BY <1>1 DEF SummaryInv, IsolationInv, CountersInv, Counted, StepInv
<1>3. CASE Next
  <2>1. CASE Ended
    BY <1>2, <2>1, MainIsNoWorker, Stutters DEF Ended, vars, history, StepInv
  <2> QED
    BY <1>2, <1>3, <2>1, PlayTestImplements, SaveImplements, WorkerImplements,
       MainImplements, MainIsNoWorker DEF Next, MainThread, WorkerThread
<1>4. CASE UNCHANGED vars
  BY <1>2, <1>4, MainIsNoWorker, Stutters DEF vars, history, StepInv
<1> QED BY <1>3, <1>4

\* Each thread's count reaches the Application Summary as a whole or not at
\* all, and the summary and the exit code only speak of ended workers.
THEOREM ImplementsPlayRunCorrect == Spec => ImplementsPlayRun
<1>1. Spec => []SummaryInv
  BY SummaryCorrect
<1>2. Init => Abstract!Init
  BY InitImplements
<1>3. SummaryInv /\ [Next]_vars => [Abstract!Next]_(Abstract!vars)
  BY NextImplements
<1> QED BY <1>1, <1>2, <1>3, PTL DEF Spec, ImplementsPlayRun, Abstract!Spec

=============================================================================
