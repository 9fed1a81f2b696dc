----------------------------- MODULE ThreadLog -----------------------------
(***************************************************************************)
(* The log output: the message handler, which holds back the messages of a *)
(* worker thread, and the part of QueryCountersService that writes them    *)
(* out when the worker ends, to the log file or, by way of a vector, to    *)
(* the console once every worker has been joined.                          *)
(***************************************************************************)
EXTENDS Globals

CONSTANTS
  IsLoggingToFile,   \* held back messages go to the file, not to the vector
  NoThread           \* owner of a free mutex

ASSUME LogAssumption == IsLoggingToFile \in BOOLEAN /\ NoThread \notin Threads

NotMapped == -1

VARIABLES
  console,              \* what the default message handler has printed
  logFile,              \* what was streamed to the log file
  logsFromThreads,      \* the vector of held back logs
  logsFromThreadsMap,   \* thread -> index (from 0) into logsFromThreads
  mx_dataLogStream,     \* owner of the mutex of the two above
  logPosition,          \* thread -> position of its loop over logs
  emitted               \* thread -> messages it has logged so far (history)

logVars == <<console, logFile, logsFromThreads, logsFromThreadsMap,
             mx_dataLogStream, logPosition, emitted>>

LogTypeOK ==
  /\ console \in Seq(Message)
  /\ logFile \in Seq(Message)
  /\ logsFromThreads \in Seq([threadName : Threads, logMessages : Seq(Message)])
  /\ logsFromThreadsMap \in [Threads -> Nat \union { NotMapped }]
  /\ mx_dataLogStream \in Threads \union { NoThread }
  /\ logPosition \in [Threads -> Nat]
  /\ emitted \in [Threads -> Nat]

LogInit ==
  /\ console = <<>>
  /\ logFile = <<>>
  /\ logsFromThreads = <<>>
  /\ logsFromThreadsMap = [t \in Threads |-> NotMapped]
  /\ mx_dataLogStream = NoThread
  /\ logPosition = [t \in Threads |-> 0]
  /\ emitted = [t \in Threads |-> 0]

\* std::unordered_map::emplace() keeps the value of a key already there.
Emplace(map, key, value) ==
  [map EXCEPT ![key] = IF @ = NotMapped THEN value ELSE @]

-----------------------------------------------------------------------------
\* Mutant: the thread-local flag is not looked at.
printAtOnce(t) ==
  /\ emitted' = [emitted EXCEPT ![t] = @ + 1]
  /\ console' = Append(console, [thread |-> t, seq |-> emitted[t] + 1])
  /\ UNCHANGED <<g_logFromThread, logFile, logsFromThreads, logsFromThreadsMap,
                 mx_dataLogStream, logPosition>>

\* qInfo() and its kin: a thread logs its next message.
tinyMessageHandler(t) ==
  LET message == [thread |-> t, seq |-> emitted[t] + 1]
  IN  /\ emitted' = [emitted EXCEPT ![t] = @ + 1]
      /\ IF g_inThread[Slot(t)]
           THEN /\ g_logFromThread' =
                     [g_logFromThread EXCEPT ![Slot(t)] = Append(@, message)]
                /\ UNCHANGED console
           ELSE /\ console' = Append(console, message)
                /\ UNCHANGED g_logFromThread
      /\ UNCHANGED <<logFile, logsFromThreads, logsFromThreadsMap,
                     mx_dataLogStream, logPosition>>

\* Mutant: no std::scoped_lock around the stream.
StreamWithoutLock(t) ==
  /\ mx_dataLogStream' = t
  /\ UNCHANGED <<console, logFile, logsFromThreads, logsFromThreadsMap,
                 logPosition, emitted>>

\* saveLogsFromThread(): lock, then stream the messages one by one to the
\* file, or push them to the vector and register its index, then unlock.
LockDataLogStream(t) ==
  /\ mx_dataLogStream = NoThread
  /\ mx_dataLogStream' = t
  /\ UNCHANGED <<console, logFile, logsFromThreads, logsFromThreadsMap,
                 logPosition, emitted>>

StreamMessage(t) ==
  /\ IsLoggingToFile
  /\ logPosition[t] < Len(g_logFromThread[Slot(t)])
  /\ logFile' = Append(logFile, g_logFromThread[Slot(t)][logPosition[t] + 1])
  /\ logPosition' = [logPosition EXCEPT ![t] = @ + 1]
  /\ UNCHANGED <<console, logsFromThreads, logsFromThreadsMap,
                 mx_dataLogStream, emitted>>

PushLog(t) ==
  /\ ~IsLoggingToFile
  /\ logsFromThreads' =
       Append(logsFromThreads,
              [threadName |-> t, logMessages |-> g_logFromThread[Slot(t)]])
  /\ UNCHANGED <<console, logFile, logsFromThreadsMap, mx_dataLogStream,
                 logPosition, emitted>>

logFromThreadIdx == Len(logsFromThreads)

MapLogAndUnlock(t) ==
  /\ logsFromThreadsMap' = Emplace(logsFromThreadsMap, t, logFromThreadIdx)
  /\ mx_dataLogStream' = NoThread
  /\ UNCHANGED <<console, logFile, logsFromThreads, logPosition, emitted>>

UnlockDataLogStream(t) ==
  /\ IsLoggingToFile
  /\ logPosition[t] >= Len(g_logFromThread[Slot(t)])
  /\ mx_dataLogStream' = NoThread
  /\ UNCHANGED <<console, logFile, logsFromThreads, logsFromThreadsMap,
                 logPosition, emitted>>

\* Mutant: the loop prints the log it started with.
ReplayFirstLog ==
  /\ logPosition[Main] < Len(logsFromThreads)
  /\ LET header == [thread |-> Main, seq |-> emitted[Main] + 1]
     IN  console' = Append(console, header) \o logsFromThreads[1].logMessages
  /\ emitted' = [emitted EXCEPT ![Main] = @ + 1]
  /\ logPosition' = [logPosition EXCEPT ![Main] = @ + 1]
  /\ UNCHANGED <<logFile, logsFromThreads, logsFromThreadsMap, mx_dataLogStream>>

\* One step of replayThrdLogToConsole(): a header, logged by the main thread,
\* and the whole log of the next thread.  logPosition[Main] is the position of
\* the loop over the vector.
ReplayLog ==
  /\ logPosition[Main] < Len(logsFromThreads)
  /\ LET header == [thread |-> Main, seq |-> emitted[Main] + 1]
         log    == logsFromThreads[logPosition[Main] + 1].logMessages
     IN  console' = Append(console, header) \o log
  /\ emitted' = [emitted EXCEPT ![Main] = @ + 1]
  /\ logPosition' = [logPosition EXCEPT ![Main] = @ + 1]
  /\ UNCHANGED <<logFile, logsFromThreads, logsFromThreadsMap, mx_dataLogStream>>

=============================================================================
