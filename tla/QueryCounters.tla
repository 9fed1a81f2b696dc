--------------------------- MODULE QueryCounters ---------------------------
(***************************************************************************)
(* QueryCountersService: the counters of each thread, filled by the logs   *)
(* of its PlayTests, and the counters of the whole application, to which   *)
(* each thread adds its own once, under a mutex.                           *)
(*                                                                         *)
(* A thread's statements counter is kept as a function on connections, the *)
(* addends of the sum the code keeps, so that its value shows where each   *)
(* statement was counted.  The four m_app vectors grow together and are    *)
(* one sequence; the elapsed counters move with the statements counter.    *)
(***************************************************************************)
EXTENDS DatabaseManager, ThreadLog

VARIABLES
  ConnectionsToCount,        \* slot -> connections the thread counts
  m_threadStatementsCounter, \* slot -> connection -> statements counted
  m_threadRecordsModified,   \* slot -> any counted connection was modified
  m_app,                     \* the m_app vectors: one item per thread
  m_appCountersMap,          \* thread -> index (from 0) into m_app
  m_countersMutex            \* owner of the mutex of the two above

counterVars == <<ConnectionsToCount, m_threadStatementsCounter,
                 m_threadRecordsModified, m_app, m_appCountersMap,
                 m_countersMutex>>

threadCounters == <<m_threadStatementsCounter, m_threadRecordsModified>>
appCounters == <<m_app, m_appCountersMap, m_countersMutex>>

Statements == [Configurations -> Nat]
NoStatements == [n \in Configurations |-> 0]
AppCounterItem == [threadName : Threads, statements : Statements,
                   modified : BOOLEAN]

CountersTypeOK ==
  /\ ConnectionsToCount \in [Threads -> SUBSET Configurations]
  /\ m_threadStatementsCounter \in [Threads -> Statements]
  /\ m_threadRecordsModified \in [Threads -> BOOLEAN]
  /\ m_app \in Seq(AppCounterItem)
  /\ m_appCountersMap \in [Threads -> Nat \union { NotMapped }]
  /\ m_countersMutex \in Threads \union { NoThread }

\* The constructor secures that the main thread is first in all counters.
CountersInit ==
  /\ ConnectionsToCount = [s \in Threads |-> {}]
  /\ m_threadStatementsCounter = [s \in Threads |-> NoStatements]
  /\ m_threadRecordsModified = [s \in Threads |-> FALSE]
  /\ m_app = << [threadName |-> Main, statements |-> NoStatements,
                 modified |-> FALSE] >>
  /\ m_appCountersMap =
       [t \in Threads |-> IF t = Main THEN 0 ELSE NotMapped]
  /\ m_countersMutex = NoThread

toCount(t) == ConnectionsToCount[Slot(t)]

-----------------------------------------------------------------------------
\* Mutant: a PlayTest goes on with the counters it finds.
resetNothing(t) == UNCHANGED dbVars

\* Reset all counters on the connections thread t counts.
resetAllQueryLogCounters(t) ==
  /\ statementsCounter' =
       [n \in Configurations |->
          IF n \in toCount(t) \intersect counting THEN 0 ELSE statementsCounter[n]]
  /\ recordsModified' =
       [n \in Configurations |-> n \notin toCount(t) /\ recordsModified[n]]
  /\ UNCHANGED <<ormConfigurations, defaultConnection, opened, counting>>

\* Mutant: the counters of the last PlayTest replace those of the thread.
overwriteQueryCounters(t) ==
  LET counted == toCount(t) \intersect counting
  IN  /\ m_threadStatementsCounter' =
           [m_threadStatementsCounter EXCEPT ![Slot(t)] =
              [n \in Configurations |->
                 IF n \in counted THEN statementsCounter[n] ELSE 0]]
      /\ m_threadRecordsModified' =
           [m_threadRecordsModified EXCEPT ![Slot(t)] =
              @ \/ \E n \in toCount(t) : recordsModified[n]]
      /\ statementsCounter' =
           [n \in Configurations |->
              IF n \in counted THEN 0 ELSE statementsCounter[n]]
      /\ UNCHANGED <<ormConfigurations, defaultConnection, opened, counting,
                     recordsModified, ConnectionsToCount, appCounters>>

\* Take the counters of the connections to count into those of thread t.  The
\* flag of modified records is read, not taken.
logQueryCounters(t) ==
  LET counted == toCount(t) \intersect counting
  IN  /\ m_threadStatementsCounter' =
           [m_threadStatementsCounter EXCEPT ![Slot(t)] =
              [n \in Configurations |->
                 IF n \in counted THEN @[n] + statementsCounter[n] ELSE @[n]]]
      /\ m_threadRecordsModified' =
           [m_threadRecordsModified EXCEPT ![Slot(t)] =
              @ \/ \E n \in toCount(t) : recordsModified[n]]
      /\ statementsCounter' =
           [n \in Configurations |->
              IF n \in counted THEN 0 ELSE statementsCounter[n]]
      /\ UNCHANGED <<ormConfigurations, defaultConnection, opened, counting,
                     recordsModified, ConnectionsToCount, appCounters>>

\* The item thread t would add to the m_app vectors.
threadItem(t) ==
  [threadName |-> t, statements |-> m_threadStatementsCounter[Slot(t)],
   modified |-> m_threadRecordsModified[Slot(t)]]

\* Mutant: no std::scoped_lock around the vectors and the map.
SaveWithoutLock(t) ==
  /\ m_countersMutex' = t
  /\ UNCHANGED <<m_app, m_appCountersMap>>

\* saveCountersForAppSummary(): lock, add to the item of the thread or push a
\* new one, register its index, unlock.
LockCounters(t) ==
  /\ m_countersMutex = NoThread
  /\ m_countersMutex' = t
  /\ UNCHANGED <<m_app, m_appCountersMap>>

\* Mutant: the counters are added to the newest item.
addToNewestItem(t) ==
  LET index == Len(m_app)
      mine  == threadItem(t)
  IN  /\ m_appCountersMap[t] # NotMapped
      /\ m_app' = [m_app EXCEPT
           ![index].statements =
             [n \in Configurations |-> @[n] + mine.statements[n]],
           ![index].modified = @ \/ mine.modified]
      /\ m_countersMutex' = NoThread
      /\ UNCHANGED m_appCountersMap

addCountersForAppSummary(t) ==
  LET index == m_appCountersMap[t] + 1    \* sequences start at 1
      mine  == threadItem(t)
  IN  /\ m_appCountersMap[t] # NotMapped
      /\ m_app' = [m_app EXCEPT
           ![index].statements =
             [n \in Configurations |-> @[n] + mine.statements[n]],
           ![index].modified = @ \/ mine.modified]
      /\ m_countersMutex' = NoThread
      /\ UNCHANGED m_appCountersMap

newCountersForAppSummary(t) ==
  /\ m_appCountersMap[t] = NotMapped
  /\ m_app' = Append(m_app, threadItem(t))
  /\ UNCHANGED <<m_appCountersMap, m_countersMutex>>

\* The newest item's index: newCountersForAppSummary() registers size() - 1.
appCounterItemIdx == Len(m_app) - 1

\* Mutant: the mutex stays locked.
MapCountersAndKeepLock(t) ==
  /\ m_appCountersMap' = Emplace(m_appCountersMap, t, appCounterItemIdx)
  /\ UNCHANGED <<m_app, m_countersMutex>>

MapCountersAndUnlock(t) ==
  /\ m_appCountersMap' = Emplace(m_appCountersMap, t, appCounterItemIdx)
  /\ m_countersMutex' = NoThread
  /\ UNCHANGED m_app

=============================================================================
