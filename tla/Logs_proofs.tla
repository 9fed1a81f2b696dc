----------------------------- MODULE Logs_proofs -----------------------------
(***************************************************************************)
(* Proofs about the log output, for every value of the constants: the log  *)
(* file holds whole blocks, each of one worker, no worker writes to the    *)
(* console except to report its exception, and a successful run has output *)
(* every message of a thread that ended well, once and in order.           *)
(***************************************************************************)
EXTENDS TestOrm_proofs

-----------------------------------------------------------------------------
(* The steps, as the logs see them *)

nextMessage(t) == [thread |-> t, seq |-> emitted[t] + 1]

\* A worker holds a message back.
HoldsBack(w) ==
  /\ pc[w] \in Tests
  /\ g_logFromThread' = [g_logFromThread EXCEPT ![w] = Append(@, nextMessage(w))]
  /\ emitted' = [emitted EXCEPT ![w] = @ + 1]
  /\ UNCHANGED <<console, logFile, logsFromThreads, logsFromThreadsMap,
                 mx_dataLogStream, logPosition>>

\* The main thread prints a message.
Prints ==
  /\ console' = Append(console, nextMessage(Main))
  /\ emitted' = [emitted EXCEPT ![Main] = @ + 1]
  /\ UNCHANGED <<g_logFromThread, logFile, logsFromThreads, logsFromThreadsMap,
                 mx_dataLogStream, logPosition>>

\* What qInfo() does depends on the flag, and the flag tells the truth.
LEMMA HandlerOfWorker ==
  ASSUME WorkersAllowed, InThreadFlagFaithful, NEW w \in Workers, pc[w] \in Tests, TypeInv,
         tinyMessageHandler(w)
  PROVE  HoldsBack(w)
<1>1. pc[w] \in { "TestQueryBuilder", "TestTinyOrm" }
  BY WorkerTests
<1>2. g_inThread[Slot(w)] /\ Slot(w) = w
  BY <1>1, OwnSlot DEF InThreadFlagFaithful, FlaggedLabels, WorkerLabels
<1> QED BY <1>2 DEF tinyMessageHandler, HoldsBack, nextMessage

LEMMA HandlerOfMain ==
  ASSUME InThreadFlagFaithful, tinyMessageHandler(Main)
  PROVE  Prints
BY DEF tinyMessageHandler, Prints, nextMessage, InThreadFlagFaithful

LEMMA LogSteps ==
  ASSUME TypeInv, WorkersAllowed, InThreadFlagFaithful, Next
  PROVE  \/ UNCHANGED <<logVars, g_logFromThread>>
         \/ \E w \in Workers : HoldsBack(w)
         \/ Prints
         \/ replayThrdLogToConsole
         \/ \E w \in Workers : WorkerThrows(w) \/ SaveLogsStep(w)
<1>1. ASSUME NEW t \in Threads, PlayTestStep(t)
      PROVE  \/ UNCHANGED <<logVars, g_logFromThread>>
             \/ HoldsBack(t) /\ t # Main
             \/ Prints
  <2>1. CASE SkipTest(t) \/ \E n \in Configurations, affecting \in BOOLEAN :
                              PlayTestStatement(t, n, affecting)
    <3>1. UNCHANGED logVars /\ UNCHANGED globalsVars
      BY <2>1 DEF SkipTest, PlayTestStatement
    <3> QED BY <3>1 DEF globalsVars
  <2>2. CASE StartPlayTest(t) \/ LogPlayTest(t)
    <3>1. tinyMessageHandler(t) /\ pc[t] \in Tests
      BY <1>1, <2>2, PlayTestShape DEF StartPlayTest, LogPlayTest
    <3> QED BY <3>1, HandlerOfMain, HandlerOfWorker, MainIsNoWorker DEF Threads
  <2> QED BY <1>1, <2>1, <2>2 DEF PlayTestStep
<1>2. ASSUME NEW t \in Threads, SaveStep(t) PROVE UNCHANGED <<logVars, g_logFromThread>>
  BY <1>2 DEF SaveStep, lockForSave, addCounters, newCounters, mapCounters,
              unchangedBySave, globalsVars
<1>3. ASSUME NEW w \in Workers, enterWorker(w) \/ addConnections(w)
      PROVE  UNCHANGED <<logVars, g_logFromThread>>
  BY <1>3 DEF enterWorker, addConnections, globalsVars
<1>4. CASE EndOtherTests \/ logApplicationSummary \/ returnFromMain \/ CatchInMain
  BY <1>4, HandlerOfMain DEF EndOtherTests, logApplicationSummary, returnFromMain, CatchInMain
<1>5. CASE /\ MainStep /\ ~replayThrdLogToConsole
           /\ ~(EndOtherTests \/ logApplicationSummary \/ returnFromMain \/ CatchInMain)
  BY <1>5 DEF MainStep, connectToDatabase, throwIfUnsupportedEnv, OtherTestsStatement,
              initConnsInThreadsTesting, startWorkerThread, testConnectionInMainThread,
              endOfLoop, joinThreads, endOfReplay, MainThrows, globalsVars
<1>6. CASE Ended
  BY <1>6 DEF Ended, vars, globalsVars
<1> QED
  BY <1>1, <1>2, <1>3, <1>4, <1>5, <1>6, MainIsNoWorker
  DEF Next, MainThread, WorkerThread, WorkerStep, Threads

\* Only a save of logs or an exception leads to, or away from, these labels.
LogLabels == { "logsLocked", "logPushed", "done" }

LEMMA LogMoves ==
  ASSUME TypeInv, Next, NEW w \in Workers, ~SaveLogsStep(w)
  PROVE  /\ pc[w] \in LogLabels \union { "failed" } => pc'[w] = pc[w]
         /\ pc'[w] \in LogLabels => pc'[w] = pc[w]
         /\ pc'[w] = "failed" => pc[w] = "failed" \/ WorkerThrows(w)
<1> USE MainIsNoWorker DEF TypeInv, TypeOK, PcTypeOK, Goto, LogLabels
<1>1. CASE PlayTestStep(w)
  BY <1>1, PlayTestShape, WorkerTests
<1>2. CASE SaveStep(w)
  BY <1>2, SaveShape DEF SaveLabels, afterSave
<1>3. CASE enterWorker(w) \/ addConnections(w) \/ WorkerThrows(w)
  <2>1. PICK label \in { "addConnections", "TestQueryBuilder", "failed" } :
          Goto(w, label) /\ (label = "failed" => WorkerThrows(w))
    BY <1>3 DEF enterWorker, addConnections, WorkerThrows
  <2>2. pc[w] \in WorkerTryLabels
    BY <1>3 DEF enterWorker, addConnections, WorkerThrows, WorkerTryLabels
  <2> QED BY <2>1, <2>2 DEF WorkerTryLabels
<1>4. ASSUME NEW v \in Workers, WorkerThread(v), v # w PROVE pc'[w] = pc[w]
  BY <1>4, WorkerShape
<1>5. CASE PlayTestStep(Main) \/ SaveStep(Main)
  BY <1>5, PlayTestShape, SaveShape
<1>6. CASE MainStep
  <2>1. ASSUME NEW c \in Workers, startWorkerThread(c)
        PROVE  pc'[w] = pc[w] \/ (pc[w] = "notStarted" /\ pc'[w] = "throwIfNoConfig")
    <3>1. pc[c] = "notStarted" /\ Goto(c, "throwIfNoConfig")
      BY <2>1 DEF startWorkerThread, UntestedNotStarted
    <3> QED BY <3>1
  <2> QED BY <1>6, <2>1, MainShape
<1>7. CASE Ended
  BY <1>7 DEF Ended, vars
<1> QED
  BY <1>1, <1>2, <1>3, <1>4, <1>5, <1>6, <1>7 DEF Next, MainThread, WorkerThread, WorkerStep

-----------------------------------------------------------------------------
(* The messages that are held back, and their way to the log file *)

\* The log of thread t after n messages.
logOf(t, n) == [i \in 1 .. n |-> [thread |-> t, seq |-> i]]

LEMMA LogOf ==
  ASSUME NEW t, NEW n \in Nat
  PROVE  /\ Len(logOf(t, n)) = n /\ logOf(t, 0) = <<>>
         /\ \A i \in 1 .. n : logOf(t, n)[i] = [thread |-> t, seq |-> i]
         /\ Append(logOf(t, n), [thread |-> t, seq |-> n + 1]) = logOf(t, n + 1)
<1>1. logOf(t, n) \in Seq({ [thread |-> t, seq |-> i] : i \in 1 .. n + 1 })
  BY DEF logOf
<1>2. DOMAIN logOf(t, n) = 1 .. n /\ Len(logOf(t, n)) = n
  BY <1>1, LenProperties DEF logOf
<1>3. logOf(t, 0) = <<>>
  BY DEF logOf
<1>4. \A i \in 1 .. n : logOf(t, n)[i] = [thread |-> t, seq |-> i]
  BY DEF logOf
<1> DEFINE message == [thread |-> t, seq |-> n + 1]
<1>5. Append(logOf(t, n), message) = logOf(t, n + 1)
  <2>1. message \in { [thread |-> t, seq |-> i] : i \in 1 .. n + 1 }
    OBVIOUS
  <2>2. /\ Append(logOf(t, n), message)
             \in Seq({ [thread |-> t, seq |-> i] : i \in 1 .. n + 1 })
        /\ Len(Append(logOf(t, n), message)) = n + 1
        /\ \A i \in 1 .. n : Append(logOf(t, n), message)[i] = logOf(t, n)[i]
        /\ Append(logOf(t, n), message)[n + 1] = message
    <3> HIDE DEF message
    <3> QED BY <1>1, <1>2, <2>1, AppendProperties
  <2>3. Append(logOf(t, n), message)
          = [i \in 1 .. n + 1 |-> Append(logOf(t, n), message)[i]]
    <3> HIDE DEF message
    <3> QED BY <2>2, LenProperties
  <2>4. \A i \in 1 .. n + 1 :
          Append(logOf(t, n), message)[i] = [thread |-> t, seq |-> i]
    BY <1>4, <2>2
  <2> QED BY <2>3, <2>4 DEF logOf
<1> QED BY <1>2, <1>3, <1>4, <1>5

LEMMA HeldBackLog ==
  HeldBack <=> \A w \in Workers : pc[w] # "failed" => g_logFromThread[w] = logOf(w, emitted[w])
BY DEF HeldBack, logOf

\* A step that leaves a worker's messages alone.
LEMMA MessagesKept ==
  ASSUME TypeInv, NEW w \in Workers,
         \/ UNCHANGED <<logVars, g_logFromThread>>
         \/ \E v \in Workers \ { w } : HoldsBack(v) \/ WorkerThrows(v)
         \/ Prints
         \/ replayThrdLogToConsole
         \/ \E v \in Workers : SaveLogsStep(v)
  PROVE  g_logFromThread'[w] = g_logFromThread[w] /\ emitted'[w] = emitted[w]
<1> USE MainIsNoWorker DEF TypeInv, TypeOK, GlobalsTypeOK, LogTypeOK
<1>1. ASSUME NEW v \in Workers \ { w }, HoldsBack(v) \/ WorkerThrows(v)
      PROVE  g_logFromThread'[w] = g_logFromThread[w] /\ emitted'[w] = emitted[w]
  BY <1>1 DEF HoldsBack, WorkerThrows
<1>2. ASSUME NEW v \in Workers, SaveLogsStep(v)
      PROVE  UNCHANGED <<g_logFromThread, emitted>>
  BY <1>2 DEF SaveLogsStep, lockForLogs, LockDataLogStream, streamLog, StreamMessage,
              endOfStream, UnlockDataLogStream, pushLog, PushLog, mapLog, MapLogAndUnlock,
              unchangedByLogs, globalsVars
<1> QED BY <1>1, <1>2 DEF Prints, replayThrdLogToConsole, ReplayLog, globalsVars, logVars

LEMMA HeldBackNext ==
  ASSUME TypeInv, WorkersAllowed, InThreadFlagFaithful, HeldBack, Next
  PROVE  \A w \in Workers : pc'[w] # "failed" => g_logFromThread'[w] = logOf(w, emitted'[w])
<1> SUFFICES ASSUME NEW w \in Workers, pc'[w] # "failed"
             PROVE  g_logFromThread'[w] = logOf(w, emitted'[w])
  OBVIOUS
<1> USE MainIsNoWorker
<1>1. pc[w] # "failed"
  <2>1. CASE SaveLogsStep(w)
    BY <2>1, SaveLogsShape
  <2>2. CASE ~SaveLogsStep(w)
    BY <2>2, LogMoves
  <2> QED BY <2>1, <2>2
<1>2. g_logFromThread[w] = logOf(w, emitted[w])
  BY <1>1, HeldBackLog
<1>3. emitted[w] \in Nat /\ emitted \in [Threads -> Nat] /\ g_logFromThread \in [Threads -> Seq(Message)]
  BY DEF TypeInv, TypeOK, LogTypeOK, GlobalsTypeOK
<1>4. CASE HoldsBack(w)
  <2>1. /\ g_logFromThread'[w] = Append(g_logFromThread[w], nextMessage(w))
        /\ emitted'[w] = emitted[w] + 1
    BY <1>3, <1>4 DEF HoldsBack
  <2> QED BY <1>2, <1>3, <2>1, LogOf DEF nextMessage
<1>5. ~WorkerThrows(w)
  BY DEF WorkerThrows, Goto, TypeInv, TypeOK, PcTypeOK
<1>6. CASE ~HoldsBack(w)
  BY <1>2, <1>5, <1>6, LogSteps, MessagesKept
<1> QED BY <1>4, <1>6

LEMMA PositionsStartedNext ==
  ASSUME TypeInv, WorkersAllowed, InThreadFlagFaithful, HeldBack, PositionsStarted, Next
  PROVE  PositionsStarted'
<1> USE MainIsNoWorker
<1>1. emitted \in [Threads -> Nat] /\ logPosition \in [Threads -> Nat]
  BY DEF TypeInv, TypeOK, LogTypeOK
<1>2. CASE \A w \in Workers : ~SaveLogsStep(w)
  <2>1. /\ UNCHANGED logFile
        /\ \A w \in Workers : logPosition'[w] = logPosition[w] /\ emitted'[w] >= emitted[w]
    <3>1. CASE Prints \/ replayThrdLogToConsole
      <4>1. /\ UNCHANGED logFile /\ emitted' = [emitted EXCEPT ![Main] = @ + 1]
            /\ UNCHANGED logPosition \/ logPosition' = [logPosition EXCEPT ![Main] = @ + 1]
        BY <3>1 DEF Prints, replayThrdLogToConsole, ReplayLog
      <4> QED BY <1>1, <4>1
    <3>2. ASSUME NEW v \in Workers, HoldsBack(v) \/ WorkerThrows(v)
          PROVE  /\ UNCHANGED logFile
                 /\ \A w \in Workers :
                      logPosition'[w] = logPosition[w] /\ emitted'[w] >= emitted[w]
      <4>1. /\ UNCHANGED <<logFile, logPosition>>
            /\ emitted' = [emitted EXCEPT ![v] = emitted[v] + 1]
        BY <3>2 DEF HoldsBack, WorkerThrows
      <4> QED BY <1>1, <4>1
    <3>3. CASE UNCHANGED <<logVars, g_logFromThread>>
      BY <1>1, <3>3 DEF logVars
    <3> QED BY <1>2, <3>1, <3>2, <3>3, LogSteps
  <2>2. \A w \in Workers : pc'[w] \notin { "logsLocked", "done" } =>
          pc[w] \notin { "logsLocked", "done" }
    BY <1>2, LogMoves DEF LogLabels
  <2>3. \A w \in Workers : emitted'[w] \in Nat
    BY <1>1, TypeInvNext DEF TypeInv, TypeOK, LogTypeOK
  <2>4. \A w \in Workers : logPosition'[w] <= emitted'[w]
    BY <1>1, <2>1, <2>3 DEF PositionsStarted
  <2> QED BY <2>1, <2>2, <2>4 DEF PositionsStarted
<1>3. ASSUME NEW w \in Workers, SaveLogsStep(w) PROVE PositionsStarted'
  <2>1. emitted' = emitted /\ \A v \in Workers : v # w => pc'[v] = pc[v]
    <3>1. UNCHANGED emitted
      BY <1>3 DEF SaveLogsStep, lockForLogs, LockDataLogStream, streamLog, StreamMessage,
              endOfStream, UnlockDataLogStream, pushLog, PushLog, mapLog, MapLogAndUnlock
    <3> QED BY <1>3, <3>1, SaveLogsShape DEF Goto, TypeInv, TypeOK, PcTypeOK
  <2>2. CASE lockForLogs(w) \/ endOfStream(w)
    BY <2>1, <2>2 DEF lockForLogs, LockDataLogStream, endOfStream, UnlockDataLogStream, Goto,
                      PositionsStarted, TypeInv, TypeOK, PcTypeOK
  <2>3. CASE streamLog(w)
    <3>1. /\ IsLoggingToFile /\ pc' = pc /\ pc[w] = "logsLocked"
          /\ logPosition' = [logPosition EXCEPT ![w] = @ + 1]
          /\ logPosition[w] < Len(g_logFromThread[Slot(w)])
      BY <2>3 DEF streamLog, StreamMessage
    <3>2. Len(g_logFromThread[Slot(w)]) = emitted[w]
      <4>1. Slot(w) = w /\ g_logFromThread[w] = logOf(w, emitted[w])
        BY <3>1, OwnSlot, HeldBackLog
      <4>2. emitted[w] \in Nat
        BY <1>1
      <4>3. Len(logOf(w, emitted[w])) = emitted[w]
        BY <4>2, LogOf
      <4> QED BY <4>1, <4>3
    <3> QED BY <1>1, <2>1, <3>1, <3>2 DEF PositionsStarted
  <2>4. CASE pushLog(w) \/ mapLog(w)
    <3>1. /\ UNCHANGED <<logPosition, logFile>>
          /\ pc[w] = "logPushed" \/ (pc[w] = "logsLocked" /\ ~IsLoggingToFile)
      BY <2>4 DEF pushLog, PushLog, mapLog, MapLogAndUnlock
    <3>2. logPosition[w] = 0
      BY <3>1 DEF PositionsStarted
    <3> QED BY <2>1, <3>1, <3>2 DEF PositionsStarted
  <2> QED BY <1>3, <2>2, <2>3, <2>4 DEF SaveLogsStep
<1> QED BY <1>2, <1>3

LogFileInv == LogFileOfWorkers /\ LogFileEnd /\ LogFileInBlocks

\* A step that leaves the log file, and the threads of its messages, alone.
LEMMA LogFileFrame ==
  ASSUME LogFileInv, UNCHANGED logFile, LogTypeOK,
         \A i \in 1 .. Len(logFile) :
           LET w == logFile[i].thread
           IN  /\ pc'[w] = pc[w] /\ emitted'[w] = emitted[w]
               /\ logPosition'[w] = logPosition[w],
         \A w \in Workers : pc'[w] = "logsLocked" =>
           logPosition'[w] = 0 \/ (pc[w] = "logsLocked" /\ logPosition'[w] = logPosition[w])
  PROVE  LogFileInv'
<1>1. Len(logFile) \in Nat
  BY LenProperties DEF LogTypeOK
<1>2. LogFileOfWorkers'
  BY DEF LogFileInv, LogFileOfWorkers
<1>3. LogFileEnd'
  BY <1>1 DEF LogFileInv, LogFileEnd
<1>4. LogFileInBlocks'
  BY <1>1 DEF LogFileInv, LogFileInBlocks
<1> QED BY <1>2, <1>3, <1>4 DEF LogFileInv

\* The owner of the mutex streams its next message.
LEMMA LogFileStream ==
  ASSUME TypeInv, WorkersAllowed, MutexesOwned, HeldBack, PositionsStarted, LogFileInv,
         NEW w \in Workers, streamLog(w)
  PROVE  LogFileInv'
<1> USE MainIsNoWorker
<1>1. /\ pc[w] = "logsLocked" /\ pc' = pc /\ UNCHANGED emitted
      /\ logPosition[w] < Len(g_logFromThread[Slot(w)])
      /\ logFile' = Append(logFile, g_logFromThread[Slot(w)][logPosition[w] + 1])
      /\ logPosition' = [logPosition EXCEPT ![w] = @ + 1]
  BY DEF streamLog, StreamMessage
<1>2. /\ emitted \in [Threads -> Nat] /\ logPosition \in [Threads -> Nat]
      /\ logFile \in Seq(Message)
  BY DEF TypeInv, TypeOK, LogTypeOK
<1>3. Slot(w) = w /\ g_logFromThread[w] = logOf(w, emitted[w])
  BY <1>1, OwnSlot, HeldBackLog
<1> DEFINE position == logPosition[w]
           message  == [thread |-> w, seq |-> position + 1]
           n        == Len(logFile)
<1>4. position \in Nat /\ position < emitted[w] /\ n \in Nat
  <2>1. Len(logOf(w, emitted[w])) = emitted[w]
    BY <1>2, LogOf
  <2> QED BY <1>1, <1>2, <1>3, <2>1, LenProperties
<1>5. logFile' = Append(logFile, message)
  <2>1. \A i \in 1 .. emitted[w] : logOf(w, emitted[w])[i] = [thread |-> w, seq |-> i]
    BY <1>2, LogOf
  <2>2. position + 1 \in 1 .. emitted[w]
    BY <1>2, <1>4
  <2> QED BY <1>1, <1>3, <2>1, <2>2
<1>6. message \in Message
  BY <1>4 DEF Message
<1>7. /\ Len(logFile') = n + 1 /\ logFile'[n + 1] = message
      /\ \A i \in 1 .. n : logFile'[i] = logFile[i]
  <2> HIDE DEF message, n
  <2> QED BY <1>2, <1>5, <1>6, AppendProperties DEF n
<1>8. /\ \A v \in Workers : pc[v] = "logsLocked" => v = w
      /\ \A v \in Workers : v # w => logPosition'[v] = logPosition[v]
      /\ logPosition'[w] = position + 1
  BY <1>1, <1>2 DEF MutexesOwned
<1> HIDE DEF position, n
<1>9. LogFileOfWorkers'
  BY <1>1, <1>4, <1>7 DEF LogFileInv, LogFileOfWorkers
<1>10. LogFileEnd'
  BY <1>1, <1>4, <1>7, <1>8 DEF LogFileEnd
<1>11. LogFileInBlocks'
  <2>1. ASSUME NEW i \in 1 .. n
        PROVE  \/ i = 1 /\ logFile'[i].seq = 1
               \/ i > 1 /\ logFile'[i].thread = logFile'[i - 1].thread
                        /\ logFile'[i].seq = logFile'[i - 1].seq + 1
               \/ i > 1 /\ logFile'[i].seq = 1
                        /\ logFile'[i - 1].seq = emitted'[logFile'[i - 1].thread]
    <3>1. /\ logFile'[i] = logFile[i]
          /\ i > 1 => logFile'[i - 1] = logFile[i - 1]
      BY <1>4, <1>7
    <3> QED BY <1>1, <3>1 DEF LogFileInv, LogFileInBlocks, n
  <2>2. CASE n = 0
    <3>1. position = 0
      BY <1>1, <1>4, <2>2 DEF LogFileInv, LogFileEnd, position, n
    <3> QED BY <1>7, <2>2, <3>1 DEF LogFileInBlocks
  <2>3. CASE n > 0
    <3> DEFINE last == logFile[n]
    <3>1. logFile'[n] = last /\ logFile'[n + 1] = message
      BY <1>4, <1>7, <2>3
    <3>2. \/ last.thread = w /\ last.seq = position /\ position > 0
          \/ position = 0 /\ last.seq = emitted[last.thread]
      <4>1. /\ last.thread \in Workers /\ last.seq > 0
            /\ pc[last.thread] \in { "logsLocked", "done" }
        BY <1>4, <2>3 DEF LogFileInv, LogFileOfWorkers, n
      <4>2. CASE pc[last.thread] = "logsLocked"
        BY <1>8, <2>3, <4>1, <4>2 DEF LogFileInv, LogFileEnd, n, position
      <4>3. CASE pc[last.thread] = "done"
        <5>1. last.thread # w
          BY <1>1, <4>3
        <5>2. position = 0
          <6>1. position > 0 => last = [thread |-> w, seq |-> position]
            BY <1>1 DEF LogFileInv, LogFileEnd, n, position
          <6>2. position > 0 => last.thread = w
            BY <6>1
          <6> QED BY <1>2, <5>1, <6>2 DEF position
        <5> QED BY <2>3, <4>3, <5>2 DEF LogFileInv, LogFileEnd, n
      <4> QED BY <4>1, <4>2, <4>3
    <3>3. \/ logFile'[n + 1].thread = logFile'[n].thread
               /\ logFile'[n + 1].seq = logFile'[n].seq + 1
          \/ logFile'[n + 1].seq = 1
               /\ logFile'[n].seq = emitted'[logFile'[n].thread]
      <4> HIDE DEF last
      <4> QED BY <1>1, <3>1, <3>2
    <3> HIDE DEF last
    <3>4. \A i \in 1 .. Len(logFile') : i \in 1 .. n \/ (i = n + 1 /\ i > 1 /\ i - 1 = n)
      BY <1>4, <1>7, <2>3
    <3>5. ASSUME NEW i, i = n + 1, i > 1, i - 1 = n
          PROVE  \/ i > 1 /\ logFile'[i].thread = logFile'[i - 1].thread
                          /\ logFile'[i].seq = logFile'[i - 1].seq + 1
                 \/ i > 1 /\ logFile'[i].seq = 1
                          /\ logFile'[i - 1].seq = emitted'[logFile'[i - 1].thread]
      BY <3>3, <3>5
    <3> QED BY <2>1, <3>4, <3>5 DEF LogFileInBlocks
  <2> QED BY <1>4, <2>2, <2>3
<1> QED BY <1>9, <1>10, <1>11 DEF LogFileInv

\* The owner has streamed all its messages and releases the mutex.
LEMMA LogFileUnlock ==
  ASSUME TypeInv, WorkersAllowed, MutexesOwned, HeldBack, PositionsStarted, LogFileInv,
         NEW w \in Workers, endOfStream(w)
  PROVE  LogFileInv'
<1> USE MainIsNoWorker
<1>1. /\ pc[w] = "logsLocked" /\ Goto(w, "done")
      /\ logPosition[w] >= Len(g_logFromThread[Slot(w)])
      /\ UNCHANGED <<logFile, logPosition, emitted>>
  BY DEF endOfStream, UnlockDataLogStream
<1>2. /\ emitted \in [Threads -> Nat] /\ logPosition \in [Threads -> Nat]
      /\ Len(logFile) \in Nat
  BY LenProperties DEF TypeInv, TypeOK, LogTypeOK
<1>3. logPosition[w] = emitted[w]
  <2>1. Slot(w) = w /\ g_logFromThread[w] = logOf(w, emitted[w])
    BY <1>1, OwnSlot, HeldBackLog
  <2>2. Len(logOf(w, emitted[w])) = emitted[w]
    BY <1>2, LogOf
  <2> QED BY <1>1, <1>2, <2>1, <2>2 DEF PositionsStarted
<1>4. /\ pc'[w] = "done" /\ \A v \in Workers : v # w => pc'[v] = pc[v]
      /\ \A v \in Workers : pc'[v] # "logsLocked"
  BY <1>1 DEF MutexesOwned, Goto, TypeInv, TypeOK, PcTypeOK
<1>5. LogFileOfWorkers'
  BY <1>1, <1>4 DEF LogFileInv, LogFileOfWorkers
<1>6. LogFileInBlocks'
  BY <1>1 DEF LogFileInv, LogFileInBlocks
<1>7. LogFileEnd'
  <2>1. ASSUME Len(logFile) > 0
        PROVE  LET m == logFile[Len(logFile)]
               IN  pc'[m.thread] = "done" /\ m.seq = emitted[m.thread]
    <3> DEFINE m == logFile[Len(logFile)]
    <3>1. m.thread \in Workers /\ pc[m.thread] \in { "logsLocked", "done" }
      BY <1>2, <2>1 DEF LogFileInv, LogFileOfWorkers
    <3>2. CASE m.thread = w
      BY <1>1, <1>3, <1>4, <2>1, <3>2 DEF LogFileInv, LogFileEnd
    <3>3. CASE m.thread # w
      BY <1>4, <2>1, <3>1, <3>3 DEF LogFileInv, LogFileEnd
    <3> QED BY <3>2, <3>3
  <2> QED BY <1>1, <1>4, <2>1 DEF LogFileEnd
<1> QED BY <1>5, <1>6, <1>7 DEF LogFileInv

LEMMA LogFileNext ==
  ASSUME TypeInv, WorkersAllowed, InThreadFlagFaithful, MutexesOwned, HeldBack,
         PositionsStarted, LogFileInv, Next
  PROVE  LogFileInv'
<1> USE MainIsNoWorker
<1>1. /\ emitted \in [Threads -> Nat] /\ logPosition \in [Threads -> Nat]
      /\ pc \in [Threads -> MainLabels \union WorkerLabels] /\ LogTypeOK
  BY DEF TypeInv, TypeOK, LogTypeOK, PcTypeOK
<1>2. \A i \in 1 .. Len(logFile) :
        logFile[i].thread \in Workers /\ pc[logFile[i].thread] \in { "logsLocked", "done" }
  BY DEF LogFileInv, LogFileOfWorkers
<1>3. CASE \A w \in Workers : ~SaveLogsStep(w)
  <2>1. UNCHANGED logFile
    BY <1>3, LogSteps DEF HoldsBack, Prints, replayThrdLogToConsole, ReplayLog, WorkerThrows,
                          logVars
  <2>2. ASSUME NEW w \in Workers, pc[w] \in { "logsLocked", "done" }
        PROVE  pc'[w] = pc[w] /\ emitted'[w] = emitted[w] /\ logPosition'[w] = logPosition[w]
    <3>1. pc'[w] = pc[w]
      BY <1>3, <2>2, LogMoves DEF LogLabels
    <3>2. ~HoldsBack(w) /\ ~WorkerThrows(w)
      BY <2>2 DEF HoldsBack, WorkerThrows, Tests, WorkerTryLabels
    <3>3. emitted'[w] = emitted[w]
      BY <1>3, <3>2, LogSteps, MessagesKept
    <3>4. UNCHANGED logPosition \/ logPosition' = [logPosition EXCEPT ![Main] = @ + 1]
      BY <1>3, LogSteps DEF HoldsBack, Prints, replayThrdLogToConsole, ReplayLog,
                            WorkerThrows, logVars
    <3> QED BY <1>1, <3>1, <3>3, <3>4
  <2>3. \A w \in Workers : pc'[w] = "logsLocked" => pc[w] = "logsLocked"
    BY <1>3, LogMoves DEF LogLabels
  <2> QED BY <1>1, <1>2, <2>1, <2>2, <2>3, LogFileFrame
<1>4. ASSUME NEW w \in Workers, lockForLogs(w) \/ mapLog(w) PROVE LogFileInv'
  <2>1. /\ UNCHANGED <<logFile, logPosition, emitted>>
        /\ pc[w] \in { "saveLogsFromThread", "logPushed" }
        /\ \A v \in Workers : v # w => pc'[v] = pc[v]
        /\ pc'[w] = "logsLocked" => pc[w] = "saveLogsFromThread"
    BY <1>1, <1>4 DEF lockForLogs, LockDataLogStream, mapLog, MapLogAndUnlock, Goto
  <2>2. logPosition'[w] = 0
    BY <2>1 DEF PositionsStarted
  <2>3. \A i \in 1 .. Len(logFile) : logFile[i].thread # w
    BY <1>2, <2>1
  <2> QED BY <1>1, <1>2, <2>1, <2>2, <2>3, LogFileFrame
<1>5. ASSUME NEW w \in Workers, pushLog(w) PROVE LogFileInv'
  <2>1. /\ UNCHANGED <<logFile, logPosition, emitted>> /\ ~IsLoggingToFile
        /\ \A v \in Workers : pc'[v] = "logsLocked" => pc[v] = "logsLocked"
    BY <1>1, <1>5 DEF pushLog, PushLog, Goto
  <2>2. logFile = <<>>
    BY <2>1 DEF PositionsStarted
  <2>3. \A i \in 1 .. Len(logFile) : FALSE
    BY <2>2
  <2> QED BY <1>1, <2>1, <2>3, LogFileFrame
<1> QED BY <1>3, <1>4, <1>5, LogFileStream, LogFileUnlock DEF SaveLogsStep

-----------------------------------------------------------------------------
(* The console *)

\* The main thread stays with the workers joined.
LEMMA AfterJoinMoves ==
  ASSUME TypeInv, InThreadFlagFaithful, Next, pc[Main] \in AfterJoinLabels
  PROVE  pc'[Main] \in AfterJoinLabels
<1> USE MainIsNoWorker DEF TypeInv, TypeOK, PcTypeOK, Goto, AfterJoinLabels
<1>1. CASE PlayTestStep(Main)
  BY <1>1, PlayTestShape DEF Tests
<1>2. CASE SaveStep(Main)
  BY <1>2, SaveShape DEF SaveLabels, afterSave
<1>3. CASE MainStep
  BY <1>3
  DEF MainStep, connectToDatabase, throwIfUnsupportedEnv, OtherTestsStatement,
      EndOtherTests, initConnsInThreadsTesting, startWorkerThread,
      testConnectionInMainThread, endOfLoop, joinThreads, replayThrdLogToConsole,
      endOfReplay, InThreadFlagFaithful, logApplicationSummary, returnFromMain, MainThrows,
      MainTryLabels, Tests, CatchInMain
<1>4. ASSUME NEW w \in Workers, WorkerThread(w) PROVE pc'[Main] = pc[Main]
  BY <1>4, WorkerShape
<1>5. CASE Ended
  BY <1>5 DEF Ended, vars
<1> QED BY <1>1, <1>2, <1>3, <1>4, <1>5 DEF Next, MainThread

\* What ConsoleOfWorkers says of the message m.
Reported(m) ==
  m.thread \in Workers => \/ pc[m.thread] = "failed" /\ m.seq = emitted[m.thread]
                          \/ pc[Main] \in AfterJoinLabels

LEMMA ReportedKept ==
  ASSUME TypeInv, WorkersAllowed, InThreadFlagFaithful, Next, NEW m, Reported(m)
  PROVE  Reported(m)'
<1> USE MainIsNoWorker
<1>1. CASE pc[Main] \in AfterJoinLabels
  BY <1>1, AfterJoinMoves DEF Reported
<1>2. CASE m.thread \in Workers /\ pc[m.thread] = "failed" /\ m.seq = emitted[m.thread]
  <2> DEFINE w == m.thread
  <2>1. ~SaveLogsStep(w) /\ ~HoldsBack(w) /\ ~WorkerThrows(w)
    BY <1>2, SaveLogsShape DEF HoldsBack, WorkerThrows, Tests, WorkerTryLabels
  <2>2. pc'[w] = "failed"
    BY <1>2, <2>1, LogMoves
  <2>3. emitted'[w] = emitted[w]
    BY <1>2, <2>1, LogSteps, MessagesKept
  <2> QED BY <1>2, <2>2, <2>3 DEF Reported
<1>3. CASE m.thread \notin Workers
  BY <1>3 DEF Reported
<1> QED BY <1>1, <1>2, <1>3 DEF Reported

LEMMA ConsoleNext ==
  ASSUME TypeInv, WorkersAllowed, InThreadFlagFaithful, ConsoleOfWorkers, Next
  PROVE  ConsoleOfWorkers'
<1> USE MainIsNoWorker
<1> SUFFICES ASSUME NEW i \in DOMAIN console', NEW m, m = console'[i] PROVE Reported(m)'
  BY DEF ConsoleOfWorkers, Reported
<1>1. /\ console \in Seq(Message) /\ emitted \in [Threads -> Nat]
      /\ Len(console) \in Nat /\ DOMAIN console = 1 .. Len(console)
  BY LenProperties DEF TypeInv, TypeOK, LogTypeOK
<1>2. ASSUME i \in DOMAIN console, console'[i] = console[i] PROVE Reported(m)'
  <2>1. Reported(m)
    BY <1>2 DEF ConsoleOfWorkers, Reported
  <2> QED BY <2>1, ReportedKept
<1>3. ASSUME NEW message \in Message, Reported(message)', console' = Append(console, message)
      PROVE  Reported(m)'
  <2>1. /\ DOMAIN console' = 1 .. Len(console) + 1
        /\ \A j \in 1 .. Len(console) : console'[j] = console[j]
        /\ console'[Len(console) + 1] = message
    <3>1. /\ console' \in Seq(Message) /\ Len(console') = Len(console) + 1
          /\ \A j \in 1 .. Len(console) : console'[j] = console[j]
          /\ console'[Len(console) + 1] = message
      BY <1>1, <1>3, AppendProperties
    <3> QED BY <3>1, LenProperties
  <2>2. CASE i \in 1 .. Len(console)
    BY <1>1, <1>2, <2>1, <2>2
  <2>3. CASE i = Len(console) + 1
    BY <1>3, <2>1, <2>3
  <2> QED BY <1>1, <2>1, <2>2, <2>3
<1>4. CASE replayThrdLogToConsole
  BY <1>4 DEF replayThrdLogToConsole, AfterJoinLabels, Reported
<1>5. CASE Prints
  <2>1. PICK message \in Message : message = nextMessage(Main)
    <3>1. nextMessage(Main) \in Message
      BY <1>1 DEF nextMessage, Message
    <3> QED BY <3>1
  <2>2. message.thread = Main
    BY <2>1 DEF nextMessage
  <2>3. Reported(message)'
    BY <2>2 DEF Reported
  <2> QED BY <1>3, <1>5, <2>1, <2>3 DEF Prints
<1>6. ASSUME NEW w \in Workers, WorkerThrows(w) PROVE Reported(m)'
  <2>1. /\ console' = Append(console, nextMessage(w)) /\ pc'[w] = "failed"
        /\ emitted'[w] = emitted[w] + 1
    BY <1>1, <1>6 DEF WorkerThrows, nextMessage, Goto, TypeInv, TypeOK, PcTypeOK
  <2>2. PICK message \in Message : message = nextMessage(w)
    <3>1. nextMessage(w) \in Message
      BY <1>1 DEF nextMessage, Message
    <3> QED BY <3>1
  <2>3. message.thread = w /\ message.seq = emitted'[w]
    BY <2>1, <2>2 DEF nextMessage
  <2>4. Reported(message)'
    BY <2>1, <2>3 DEF Reported
  <2> QED BY <1>3, <2>1, <2>2, <2>4
<1>7. CASE \/ UNCHANGED <<logVars, g_logFromThread>>
           \/ \E w \in Workers : HoldsBack(w) \/ SaveLogsStep(w)
  <2>1. UNCHANGED console
    BY <1>7 DEF logVars, HoldsBack, SaveLogsStep, lockForLogs, LockDataLogStream, streamLog,
                StreamMessage, endOfStream, UnlockDataLogStream, pushLog, PushLog, mapLog,
                MapLogAndUnlock
  <2> QED BY <1>2, <2>1
<1> QED BY <1>4, <1>5, <1>6, <1>7, LogSteps

-----------------------------------------------------------------------------
(* What an output holds of a thread's messages *)

LEMMA HoldsAppend ==
  ASSUME NEW out \in Seq(Message), NEW m \in Message, NEW t, NEW n \in Nat,
         HoldsFirst(out, t, n)
  PROVE  /\ m = [thread |-> t, seq |-> n + 1] => HoldsFirst(Append(out, m), t, n + 1)
         /\ m.thread # t => HoldsFirst(Append(out, m), t, n)
<1> DEFINE new == Append(out, m)
           l   == Len(out)
<1>1. /\ l \in Nat /\ DOMAIN out = 1 .. l
      /\ DOMAIN new = 1 .. l + 1
      /\ \A i \in 1 .. l : new[i] = out[i]
      /\ new[l + 1] = m
  BY LenProperties, AppendProperties
<1> HIDE DEF new, l
<1>2. /\ \A k \in 1 .. n : \E i \in 1 .. l : out[i] = [thread |-> t, seq |-> k]
      /\ \A i \in 1 .. l : out[i].thread = t => out[i].seq \in 1 .. n
      /\ \A i, j \in 1 .. l :
           i < j /\ out[i].thread = t /\ out[j].thread = t => out[i].seq < out[j].seq
  BY <1>1 DEF HoldsFirst
<1>3. ASSUME m = [thread |-> t, seq |-> n + 1] PROVE HoldsFirst(new, t, n + 1)
  <2>1. ASSUME NEW k \in 1 .. n + 1
        PROVE  \E i \in 1 .. l + 1 : new[i] = [thread |-> t, seq |-> k]
    <3>1. CASE k = n + 1
      BY <1>1, <1>3, <3>1
    <3>2. CASE k \in 1 .. n
      <4>1. PICK i \in 1 .. l : out[i] = [thread |-> t, seq |-> k]
        BY <1>2, <3>2
      <4>2. i \in 1 .. l + 1
        BY <1>1
      <4> QED BY <1>1, <4>1, <4>2
    <3> QED BY <3>1, <3>2
  <2>2. ASSUME NEW i \in 1 .. l + 1, new[i].thread = t PROVE new[i].seq \in 1 .. n + 1
    <3>1. CASE i = l + 1
      BY <1>1, <1>3, <3>1
    <3>2. CASE i \in 1 .. l
      BY <1>1, <1>2, <2>2, <3>2
    <3> QED BY <1>1, <3>1, <3>2
  <2>3. ASSUME NEW i \in 1 .. l + 1, NEW j \in 1 .. l + 1, i < j,
               new[i].thread = t, new[j].thread = t
        PROVE  new[i].seq < new[j].seq
    <3>1. i \in 1 .. l
      BY <1>1, <2>3
    <3>2. CASE j = l + 1
      BY <1>1, <1>2, <1>3, <2>3, <3>1, <3>2
    <3>3. CASE j \in 1 .. l
      BY <1>1, <1>2, <2>3, <3>1, <3>3
    <3> QED BY <1>1, <3>2, <3>3
  <2> QED BY <1>1, <2>1, <2>2, <2>3 DEF HoldsFirst
<1>4. ASSUME m.thread # t PROVE HoldsFirst(new, t, n)
  <2>1. \A k \in 1 .. n : \E i \in 1 .. l + 1 : new[i] = [thread |-> t, seq |-> k]
    <3> SUFFICES ASSUME NEW k \in 1 .. n
                 PROVE  \E i \in 1 .. l + 1 : new[i] = [thread |-> t, seq |-> k]
      OBVIOUS
    <3>1. PICK i \in 1 .. l : out[i] = [thread |-> t, seq |-> k]
      BY <1>2
    <3>2. i \in 1 .. l + 1
      BY <1>1
    <3> QED BY <1>1, <3>1, <3>2
  <2>2. \A i \in 1 .. l + 1 : new[i].thread = t => i \in 1 .. l
    BY <1>1, <1>4
  <2> QED BY <1>1, <1>2, <2>1, <2>2 DEF HoldsFirst
<1> QED BY <1>3, <1>4 DEF new

LEMMA HoldsConcat ==
  ASSUME NEW out \in Seq(Message), NEW log \in Seq(Message), NEW t, NEW n \in Nat
  PROVE  /\ HoldsFirst(out, t, n) /\ HoldsFirst(log, t, 0) => HoldsFirst(out \o log, t, n)
         /\ HoldsFirst(out, t, 0) /\ HoldsFirst(log, t, n) => HoldsFirst(out \o log, t, n)
<1> DEFINE new == out \o log
           l   == Len(out)
           p   == Len(log)
<1>1. /\ l \in Nat /\ DOMAIN out = 1 .. l
      /\ p \in Nat /\ DOMAIN log = 1 .. p
      /\ DOMAIN new = 1 .. l + p
      /\ \A i \in 1 .. l + p : new[i] = IF i <= l THEN out[i] ELSE log[i - l]
  BY LenProperties, ConcatProperties
<1> HIDE DEF new, l, p
<1>2. /\ \A i \in 1 .. l : i \in 1 .. l + p /\ new[i] = out[i]
      /\ \A i \in 1 .. p : l + i \in 1 .. l + p /\ new[l + i] = log[i]
  BY <1>1
<1>3. ASSUME HoldsFirst(out, t, n), HoldsFirst(log, t, 0) PROVE HoldsFirst(new, t, n)
  <2>1. \A i \in 1 .. p : log[i].thread # t
    BY <1>1, <1>3 DEF HoldsFirst
  <2>2. \A i \in 1 .. l + p : new[i].thread = t => i \in 1 .. l
    BY <1>1, <2>1
  <2>3. \A k \in 1 .. n : \E i \in 1 .. l + p : new[i] = [thread |-> t, seq |-> k]
    BY <1>1, <1>2, <1>3 DEF HoldsFirst
  <2> QED BY <1>1, <1>2, <1>3, <2>2, <2>3 DEF HoldsFirst
<1>4. ASSUME HoldsFirst(out, t, 0), HoldsFirst(log, t, n) PROVE HoldsFirst(new, t, n)
  <2>0. /\ \A i \in 1 .. p : log[i].thread = t => log[i].seq \in 1 .. n
        /\ \A i, j \in 1 .. p :
             i < j /\ log[i].thread = t /\ log[j].thread = t => log[i].seq < log[j].seq
    BY <1>1, <1>4 DEF HoldsFirst
  <2>1. \A i \in 1 .. l : out[i].thread # t
    BY <1>1, <1>4 DEF HoldsFirst
  <2>2. \A i \in 1 .. l + p : new[i].thread = t => i - l \in 1 .. p /\ new[i] = log[i - l]
    BY <1>1, <2>1
  <2>3. \A k \in 1 .. n : \E i \in 1 .. l + p : new[i] = [thread |-> t, seq |-> k]
    <3> SUFFICES ASSUME NEW k \in 1 .. n
                 PROVE  \E i \in 1 .. l + p : new[i] = [thread |-> t, seq |-> k]
      OBVIOUS
    <3>1. PICK i \in 1 .. p : log[i] = [thread |-> t, seq |-> k]
      BY <1>1, <1>4 DEF HoldsFirst
    <3> QED BY <1>2, <3>1
  <2>4. ASSUME NEW i \in 1 .. l + p, new[i].thread = t PROVE new[i].seq \in 1 .. n
    <3>1. i - l \in 1 .. p /\ new[i] = log[i - l]
      BY <2>2, <2>4
    <3> QED BY <2>0, <2>4, <3>1
  <2>5. ASSUME NEW i \in 1 .. l + p, NEW j \in 1 .. l + p, i < j,
               new[i].thread = t, new[j].thread = t
        PROVE  new[i].seq < new[j].seq
    <3>1. i - l \in 1 .. p /\ j - l \in 1 .. p /\ i - l < j - l
      BY <1>1, <2>2, <2>5
    <3>2. new[i] = log[i - l] /\ new[j] = log[j - l]
      BY <2>2, <2>5
    <3> QED BY <2>0, <2>5, <3>1, <3>2
  <2> QED BY <1>1, <2>3, <2>4, <2>5 DEF HoldsFirst
<1> QED BY <1>3, <1>4 DEF new

LEMMA HoldsNothing ==
  ASSUME NEW t PROVE HoldsFirst(<<>>, t, 0)
<1>1. \A i \in DOMAIN <<>> : FALSE
  OBVIOUS
<1> QED BY <1>1 DEF HoldsFirst

\* The log of a thread holds its own messages and no others.
LEMMA HoldsOwnLog ==
  ASSUME NEW w \in Threads, NEW n \in Nat, NEW t
  PROVE  /\ logOf(w, n) \in Seq(Message)
         /\ HoldsFirst(logOf(w, n), w, n)
         /\ t # w => HoldsFirst(logOf(w, n), t, 0)
<1>1. /\ DOMAIN logOf(w, n) = 1 .. n
      /\ \A i \in 1 .. n : logOf(w, n)[i] = [thread |-> w, seq |-> i]
  BY DEF logOf
<1>2. logOf(w, n) \in Seq(Message)
  BY DEF logOf, Message
<1>3. HoldsFirst(logOf(w, n), w, n)
  BY <1>1 DEF HoldsFirst
<1>4. t # w => HoldsFirst(logOf(w, n), t, 0)
  BY <1>1 DEF HoldsFirst
<1> QED BY <1>2, <1>3, <1>4

-----------------------------------------------------------------------------
(* The logs of the vector *)

\* Only a worker's push changes the vector.
LEMMA PushedMoves ==
  ASSUME TypeInv, WorkersAllowed, InThreadFlagFaithful, Next,
         \A w \in Workers : ~pushLog(w)
  PROVE  /\ UNCHANGED logsFromThreads
         /\ \A w \in Workers :
              /\ pc[w] \in { "logPushed", "done" } =>
                   /\ pc'[w] \in { "logPushed", "done" }
                   /\ g_logFromThread'[w] = g_logFromThread[w] /\ emitted'[w] = emitted[w]
              /\ ~IsLoggingToFile /\ pc'[w] \in { "logPushed", "done" } =>
                   pc[w] \in { "logPushed", "done" }
<1> USE MainIsNoWorker
<1>1. ASSUME NEW v \in Workers, SaveLogsStep(v)
      PROVE  /\ UNCHANGED <<logsFromThreads, g_logFromThread, emitted>>
             /\ lockForLogs(v) \/ streamLog(v) \/ endOfStream(v) \/ mapLog(v)
  BY <1>1 DEF SaveLogsStep, lockForLogs, LockDataLogStream, streamLog, StreamMessage,
              endOfStream, UnlockDataLogStream, mapLog, MapLogAndUnlock, unchangedByLogs,
              globalsVars
<1>2. UNCHANGED logsFromThreads
  BY <1>1, LogSteps DEF logVars, HoldsBack, Prints, replayThrdLogToConsole, ReplayLog,
                        WorkerThrows
<1>3. ASSUME NEW w \in Workers, pc[w] \in { "logPushed", "done" }
      PROVE  /\ pc'[w] \in { "logPushed", "done" }
             /\ g_logFromThread'[w] = g_logFromThread[w] /\ emitted'[w] = emitted[w]
  <2>1. CASE SaveLogsStep(w)
    <3>1. mapLog(w)
      BY <1>1, <1>3, <2>1 DEF lockForLogs, streamLog, endOfStream
    <3>2. pc'[w] = "done"
      BY <3>1 DEF mapLog, Goto, TypeInv, TypeOK, PcTypeOK
    <3> QED BY <1>1, <2>1, <3>2
  <2>2. CASE ~SaveLogsStep(w)
    <3>1. ~HoldsBack(w) /\ ~WorkerThrows(w)
      BY <1>3 DEF HoldsBack, WorkerThrows, Tests, WorkerTryLabels
    <3>2. pc'[w] = pc[w]
      BY <1>3, <2>2, LogMoves DEF LogLabels
    <3> QED BY <1>3, <3>1, <3>2, LogSteps, MessagesKept
  <2> QED BY <2>1, <2>2
<1>4. ASSUME NEW w \in Workers, ~IsLoggingToFile, pc'[w] \in { "logPushed", "done" }
      PROVE  pc[w] \in { "logPushed", "done" }
  <2>1. CASE SaveLogsStep(w)
    <3>1. mapLog(w) \/ lockForLogs(w)
      BY <1>1, <1>4, <2>1 DEF streamLog, StreamMessage, endOfStream, UnlockDataLogStream
    <3> QED BY <1>4, <3>1 DEF lockForLogs, mapLog, Goto, TypeInv, TypeOK, PcTypeOK
  <2>2. CASE ~SaveLogsStep(w)
    BY <1>4, <2>2, LogMoves DEF LogLabels
  <2> QED BY <2>1, <2>2
<1> QED BY <1>2, <1>3, <1>4

LEMMA LogsPushedNext ==
  ASSUME TypeInv, WorkersAllowed, InThreadFlagFaithful, LogsPushed, Next
  PROVE  LogsPushed'
<1> USE MainIsNoWorker
<1>1. CASE \A w \in Workers : ~pushLog(w)
  <2>1. UNCHANGED logsFromThreads
    BY <1>1, PushedMoves
  <2>2. ASSUME NEW i \in DOMAIN logsFromThreads, NEW w, w = logsFromThreads[i].threadName
        PROVE  /\ ~IsLoggingToFile /\ w \in Workers /\ pc'[w] \in { "logPushed", "done" }
               /\ logsFromThreads[i].logMessages = g_logFromThread'[w]
    <3>1. /\ ~IsLoggingToFile /\ w \in Workers /\ pc[w] \in { "logPushed", "done" }
          /\ logsFromThreads[i].logMessages = g_logFromThread[w]
      BY <2>2 DEF LogsPushed
    <3> QED BY <1>1, <3>1, PushedMoves
  <2>3. \A w \in Workers : ~IsLoggingToFile /\ pc'[w] \in { "logPushed", "done" } =>
          \E i \in DOMAIN logsFromThreads : logsFromThreads[i].threadName = w
    BY <1>1, PushedMoves DEF LogsPushed
  <2> QED BY <2>1, <2>2, <2>3 DEF LogsPushed
<1>2. ASSUME NEW w \in Workers, pushLog(w) PROVE LogsPushed'
  <2> DEFINE item == [threadName |-> w, logMessages |-> g_logFromThread[w]]
             n    == Len(logsFromThreads)
             Item == [threadName : Threads, logMessages : Seq(Message)]
  <2>1. /\ ~IsLoggingToFile /\ pc[w] = "logsLocked"
        /\ logsFromThreads' = Append(logsFromThreads, item)
        /\ UNCHANGED g_logFromThread
        /\ pc' = [pc EXCEPT ![w] = "logPushed"]
    <3>1. pc[w] = "logsLocked" /\ Slot(w) = w
      BY <1>2, OwnSlot DEF pushLog
    <3> QED BY <1>2, <3>1 DEF pushLog, PushLog, unchangedByLogs, globalsVars, Goto
  <2>2. /\ n \in Nat /\ DOMAIN logsFromThreads = 1 .. n
        /\ DOMAIN logsFromThreads' = 1 .. n + 1
        /\ \A i \in 1 .. n : logsFromThreads'[i] = logsFromThreads[i]
        /\ logsFromThreads'[n + 1] = item
    <3>1. logsFromThreads \in Seq(Item) /\ item \in Item
      BY DEF TypeInv, TypeOK, LogTypeOK, GlobalsTypeOK
    <3> HIDE DEF Item, item
    <3> QED BY <2>1, <3>1, AppendProperties, LenProperties
  <2>3. /\ pc'[w] = "logPushed"
        /\ \A v \in Workers : v # w => pc'[v] = pc[v]
    BY <2>1 DEF TypeInv, TypeOK, PcTypeOK
  <2> HIDE DEF n
  <2>4. ASSUME NEW i \in 1 .. n
        PROVE  /\ logsFromThreads[i].threadName \in Workers \ { w }
               /\ pc[logsFromThreads[i].threadName] \in { "logPushed", "done" }
               /\ logsFromThreads[i].logMessages
                    = g_logFromThread[logsFromThreads[i].threadName]
    BY <2>1, <2>2 DEF LogsPushed
  <2>5. ASSUME NEW i \in 1 .. n + 1, NEW v, v = logsFromThreads'[i].threadName
        PROVE  /\ ~IsLoggingToFile /\ v \in Workers /\ pc'[v] \in { "logPushed", "done" }
               /\ logsFromThreads'[i].logMessages = g_logFromThread'[v]
    <3>1. CASE i = n + 1
      BY <2>1, <2>2, <2>3, <2>5, <3>1
    <3>2. CASE i \in 1 .. n
      BY <2>1, <2>2, <2>3, <2>4, <2>5, <3>2
    <3> QED BY <2>2, <3>1, <3>2
  <2>6. ASSUME NEW i \in 1 .. n + 1, NEW j \in 1 .. n + 1,
               logsFromThreads'[i].threadName = logsFromThreads'[j].threadName
        PROVE  i = j
    <3>1. CASE i \in 1 .. n /\ j \in 1 .. n
      BY <2>2, <2>6, <3>1 DEF LogsPushed
    <3>2. CASE i = n + 1 \/ j = n + 1
      BY <2>2, <2>4, <2>6, <3>2
    <3> QED BY <2>2, <3>1, <3>2
  <2>7. ASSUME NEW v \in Workers, pc'[v] \in { "logPushed", "done" }
        PROVE  \E i \in 1 .. n + 1 : logsFromThreads'[i].threadName = v
    <3>1. CASE v = w
      BY <2>2, <3>1
    <3>2. CASE v # w
      <4>1. PICK i \in 1 .. n : logsFromThreads[i].threadName = v
        BY <2>1, <2>2, <2>3, <2>7, <3>2 DEF LogsPushed
      <4>2. i \in 1 .. n + 1
        BY <2>2
      <4> QED BY <2>2, <4>1, <4>2
    <3> QED BY <3>1, <3>2
  <2> QED BY <2>2, <2>5, <2>6, <2>7 DEF LogsPushed
<1> QED BY <1>1, <1>2

-----------------------------------------------------------------------------
(* Every message reaches its output *)

\* One step of the replay prints a header and the log of a worker.
Replays(w) ==
  /\ logPosition[Main] + 1 \in DOMAIN logsFromThreads
  /\ logsFromThreads[logPosition[Main] + 1].threadName = w
  /\ console' = Append(console, nextMessage(Main)) \o logOf(w, emitted[w])
  /\ emitted' = [emitted EXCEPT ![Main] = @ + 1]
  /\ logPosition' = [logPosition EXCEPT ![Main] = @ + 1]
  /\ UNCHANGED <<logFile, logsFromThreads, g_logFromThread, pc>>

LEMMA ReplayShape ==
  ASSUME TypeInv, HeldBack, LogsPushed, replayThrdLogToConsole
  PROVE  \E w \in Workers : Replays(w)
<1> USE MainIsNoWorker
<1> DEFINE p == logPosition[Main] + 1
           w == logsFromThreads[p].threadName
<1>1. /\ logPosition[Main] < Len(logsFromThreads)
      /\ console' = Append(console, nextMessage(Main)) \o logsFromThreads[p].logMessages
      /\ emitted' = [emitted EXCEPT ![Main] = @ + 1]
      /\ logPosition' = [logPosition EXCEPT ![Main] = @ + 1]
      /\ UNCHANGED <<logFile, logsFromThreads, g_logFromThread, pc>>
  BY DEF replayThrdLogToConsole, ReplayLog, nextMessage, globalsVars
<1>2. /\ logPosition[Main] \in Nat /\ Len(logsFromThreads) \in Nat
      /\ DOMAIN logsFromThreads = 1 .. Len(logsFromThreads)
  BY LenProperties DEF TypeInv, TypeOK, LogTypeOK
<1>3. p \in DOMAIN logsFromThreads
  BY <1>1, <1>2
<1>4. /\ w \in Workers /\ pc[w] # "failed"
      /\ logsFromThreads[p].logMessages = g_logFromThread[w]
  BY <1>3 DEF LogsPushed
<1>5. g_logFromThread[w] = logOf(w, emitted[w])
  BY <1>4, HeldBackLog
<1> QED BY <1>1, <1>3, <1>4, <1>5 DEF Replays

\* What a replay leaves on the console, for each thread.
LEMMA ReplayHolds ==
  ASSUME TypeInv, NEW w \in Workers, Replays(w), NEW n \in Nat
  PROVE  /\ HoldsFirst(console, Main, n) /\ n = emitted[Main] =>
              HoldsFirst(console', Main, n + 1)
         /\ HoldsFirst(console, w, 0) => HoldsFirst(console', w, emitted[w])
         /\ \A v \in Workers : v # w /\ HoldsFirst(console, v, n) => HoldsFirst(console', v, n)
<1> USE MainIsNoWorker
<1> DEFINE header == nextMessage(Main)
           middle == Append(console, header)
           log    == logOf(w, emitted[w])
<1>1. console \in Seq(Message) /\ emitted \in [Threads -> Nat]
  BY DEF TypeInv, TypeOK, LogTypeOK
<1>2. header \in Message /\ header = [thread |-> Main, seq |-> emitted[Main] + 1]
  BY <1>1 DEF nextMessage, Message
<1>3. console' = middle \o log
  BY DEF Replays
<1>4. middle \in Seq(Message)
  <2> HIDE DEF header
  <2> QED BY <1>1, <1>2, AppendProperties
<1>5. /\ log \in Seq(Message) /\ HoldsFirst(log, w, emitted[w])
      /\ \A t : t # w => HoldsFirst(log, t, 0)
  BY <1>1, HoldsOwnLog
<1> HIDE DEF header, log
<1>6. ASSUME HoldsFirst(console, Main, n), n = emitted[Main]
      PROVE  HoldsFirst(console', Main, n + 1)
  <2>1. HoldsFirst(middle, Main, n + 1)
    BY <1>1, <1>2, <1>6, HoldsAppend
  <2> HIDE DEF middle
  <2> QED BY <1>3, <1>4, <1>5, <2>1, HoldsConcat
<1>7. ASSUME HoldsFirst(console, w, 0) PROVE HoldsFirst(console', w, emitted[w])
  <2>1. HoldsFirst(middle, w, 0)
    BY <1>1, <1>2, <1>7, HoldsAppend
  <2>2. emitted[w] \in Nat
    BY <1>1
  <2> HIDE DEF middle
  <2> QED BY <1>3, <1>4, <1>5, <2>1, <2>2, HoldsConcat
<1>8. ASSUME NEW v \in Workers, v # w, HoldsFirst(console, v, n)
      PROVE  HoldsFirst(console', v, n)
  <2>1. HoldsFirst(middle, v, n)
    BY <1>1, <1>2, <1>8, HoldsAppend
  <2>2. HoldsFirst(log, v, 0)
    BY <1>5, <1>8
  <2> HIDE DEF middle
  <2> QED BY <1>3, <1>4, <1>5, <2>1, <2>2, HoldsConcat
<1> QED BY <1>6, <1>7, <1>8

\* What a message on the console leaves of it, for each thread.
LEMMA PrintHolds ==
  ASSUME TypeInv, NEW u \in Threads, console' = Append(console, nextMessage(u)),
         NEW n \in Nat
  PROVE  /\ HoldsFirst(console, u, n) /\ n = emitted[u] => HoldsFirst(console', u, n + 1)
         /\ \A t \in Threads : t # u /\ HoldsFirst(console, t, n) => HoldsFirst(console', t, n)
<1>1. console \in Seq(Message) /\ emitted \in [Threads -> Nat]
  BY DEF TypeInv, TypeOK, LogTypeOK
<1>2. nextMessage(u) \in Message /\ nextMessage(u) = [thread |-> u, seq |-> emitted[u] + 1]
  BY <1>1 DEF nextMessage, Message
<1>3. ASSUME HoldsFirst(console, u, n), n = emitted[u] PROVE HoldsFirst(console', u, n + 1)
  BY <1>1, <1>2, <1>3, HoldsAppend
<1>4. ASSUME NEW t \in Threads, t # u, HoldsFirst(console, t, n)
      PROVE  HoldsFirst(console', t, n)
  BY <1>1, <1>2, <1>4, HoldsAppend
<1> QED BY <1>3, <1>4

LEMMA MainPrintedNext ==
  ASSUME TypeInv, WorkersAllowed, InThreadFlagFaithful, HeldBack, LogsPushed, MainPrinted, Next
  PROVE  MainPrinted'
<1> USE MainIsNoWorker
<1>1. emitted \in [Threads -> Nat] /\ HoldsFirst(console, Main, emitted[Main])
  BY DEF TypeInv, TypeOK, LogTypeOK, MainPrinted
<1>2. ASSUME emitted'[Main] = emitted[Main], HoldsFirst(console', Main, emitted[Main])
      PROVE  MainPrinted'
  BY <1>2 DEF MainPrinted
<1>3. ASSUME emitted'[Main] = emitted[Main] + 1,
             HoldsFirst(console', Main, emitted[Main] + 1)
      PROVE  MainPrinted'
  BY <1>3 DEF MainPrinted
<1>4. CASE Prints
  <2>1. console' = Append(console, nextMessage(Main)) /\ emitted'[Main] = emitted[Main] + 1
    BY <1>1, <1>4 DEF Prints
  <2>2. emitted[Main] \in Nat
    BY <1>1
  <2> QED BY <1>1, <1>3, <2>1, <2>2, PrintHolds
<1>5. ASSUME NEW w \in Workers, Replays(w) PROVE MainPrinted'
  <2>1. emitted[Main] \in Nat /\ emitted'[Main] = emitted[Main] + 1
    BY <1>1, <1>5 DEF Replays
  <2> QED BY <1>1, <1>3, <1>5, <2>1, ReplayHolds
<1>6. ASSUME NEW w \in Workers, WorkerThrows(w) PROVE MainPrinted'
  <2>1. /\ console' = Append(console, nextMessage(w)) /\ w # Main
        /\ emitted'[Main] = emitted[Main] /\ emitted[Main] \in Nat
    BY <1>1, <1>6 DEF WorkerThrows, nextMessage
  <2> QED BY <1>1, <1>2, <2>1, PrintHolds
<1>7. CASE \/ UNCHANGED <<logVars, g_logFromThread>>
           \/ \E w \in Workers : HoldsBack(w) \/ SaveLogsStep(w)
  <2>1. UNCHANGED console /\ emitted'[Main] = emitted[Main]
    BY <1>1, <1>7 DEF logVars, HoldsBack, SaveLogsStep, lockForLogs, LockDataLogStream,
                streamLog, StreamMessage, endOfStream, UnlockDataLogStream, pushLog, PushLog,
                mapLog, MapLogAndUnlock
  <2> QED BY <1>1, <1>2, <2>1
<1> QED BY <1>4, <1>5, <1>6, <1>7, LogSteps, ReplayShape

LEMMA StreamedNext ==
  ASSUME TypeInv, WorkersAllowed, InThreadFlagFaithful, HeldBack, PositionsStarted,
         Streamed, Next
  PROVE  Streamed'
<1> USE MainIsNoWorker
<1>1. /\ emitted \in [Threads -> Nat] /\ logPosition \in [Threads -> Nat]
      /\ pc \in [Threads -> MainLabels \union WorkerLabels]
      /\ logFile \in Seq(Message)
  BY DEF TypeInv, TypeOK, LogTypeOK, PcTypeOK
<1>2. ASSUME NEW w \in Workers, streamLog(w) PROVE Streamed'
  <2>1. /\ pc[w] = "logsLocked" /\ UNCHANGED <<pc, emitted>>
        /\ logPosition[w] < Len(g_logFromThread[Slot(w)])
        /\ logFile' = Append(logFile, g_logFromThread[Slot(w)][logPosition[w] + 1])
        /\ logPosition' = [logPosition EXCEPT ![w] = @ + 1]
    BY <1>2 DEF streamLog, StreamMessage
  <2>2. Slot(w) = w /\ g_logFromThread[w] = logOf(w, emitted[w])
    BY <2>1, OwnSlot, HeldBackLog
  <2> DEFINE n == logPosition[w]
             m == [thread |-> w, seq |-> n + 1]
  <2>3. n \in Nat /\ emitted[w] \in Nat
    BY <1>1
  <2>4. Len(logOf(w, emitted[w])) = emitted[w]
        /\ \A i \in 1 .. emitted[w] : logOf(w, emitted[w])[i] = [thread |-> w, seq |-> i]
    BY <2>3, LogOf
  <2>5. n + 1 \in 1 .. emitted[w]
    BY <2>1, <2>2, <2>3, <2>4
  <2>6. logFile' = Append(logFile, m)
    BY <2>1, <2>2, <2>4, <2>5
  <2>7. m \in Message
    BY <2>3 DEF Message
  <2>8. HoldsFirst(logFile', w, n + 1)
    <3>1. HoldsFirst(logFile, w, n)
      BY DEF Streamed
    <3> HIDE DEF m, n
    <3> QED BY <1>1, <2>3, <2>6, <2>7, <3>1, HoldsAppend DEF m
  <2>9. ASSUME NEW v \in Workers, v # w PROVE HoldsFirst(logFile', v, logPosition[v])
    <3>1. HoldsFirst(logFile, v, logPosition[v]) /\ logPosition[v] \in Nat
      BY <1>1 DEF Streamed
    <3>2. m.thread # v
      BY <2>9
    <3> HIDE DEF m, n
    <3> QED BY <1>1, <2>6, <2>7, <3>1, <3>2, HoldsAppend
  <2>10. /\ logPosition'[w] = n + 1
         /\ \A v \in Workers : v # w => logPosition'[v] = logPosition[v]
    BY <1>1, <2>1
  <2> HIDE DEF m, n
  <2> QED BY <2>1, <2>8, <2>9, <2>10 DEF Streamed
<1>3. ASSUME NEW w \in Workers, endOfStream(w) PROVE Streamed'
  <2>1. /\ pc[w] = "logsLocked" /\ pc' = [pc EXCEPT ![w] = "done"]
        /\ logPosition[w] >= Len(g_logFromThread[Slot(w)])
        /\ UNCHANGED <<logFile, logPosition, emitted>>
    BY <1>3 DEF endOfStream, UnlockDataLogStream, Goto
  <2>2. Slot(w) = w /\ g_logFromThread[w] = logOf(w, emitted[w])
    BY <2>1, OwnSlot, HeldBackLog
  <2>3. logPosition[w] = emitted[w]
    <3>1. emitted[w] \in Nat /\ logPosition[w] \in Nat
      BY <1>1
    <3>2. Len(logOf(w, emitted[w])) = emitted[w]
      BY <3>1, LogOf
    <3> QED BY <2>1, <2>2, <3>1, <3>2 DEF PositionsStarted
  <2>4. \A v \in Workers : pc'[v] = pc[v] \/ (v = w /\ pc'[v] = "done")
    BY <1>1, <2>1
  <2> QED BY <2>1, <2>3, <2>4 DEF Streamed
<1>4. CASE \A w \in Workers : ~streamLog(w) /\ ~endOfStream(w)
  <2>1. ASSUME NEW w \in Workers, SaveLogsStep(w)
        PROVE  /\ UNCHANGED <<logFile, logPosition, emitted>>
               /\ lockForLogs(w) \/ pushLog(w) \/ mapLog(w)
    BY <1>4, <2>1 DEF SaveLogsStep, lockForLogs, LockDataLogStream, pushLog, PushLog, mapLog,
                      MapLogAndUnlock
  <2>2. /\ UNCHANGED logFile
        /\ \A w \in Workers : logPosition'[w] = logPosition[w]
    BY <1>1, <2>1, LogSteps DEF logVars, HoldsBack, Prints, replayThrdLogToConsole,
                                ReplayLog, WorkerThrows
  <2>3. ASSUME NEW w \in Workers, IsLoggingToFile, pc'[w] \in { "done", "logPushed" }
        PROVE  pc[w] = pc'[w] /\ pc[w] = "done" /\ emitted'[w] = emitted[w]
    <3>1. pc[w] # "logPushed"
      BY <2>3 DEF Streamed
    <3>2. ~SaveLogsStep(w)
      <4>1. ~mapLog(w) /\ ~pushLog(w)
        BY <2>3, <3>1 DEF mapLog, pushLog, PushLog
      <4>2. ~lockForLogs(w)
        BY <1>1, <2>3 DEF lockForLogs, Goto
      <4> QED BY <2>1, <4>1, <4>2
    <3>3. pc[w] = "done" /\ pc'[w] = pc[w]
      BY <2>3, <3>1, <3>2, LogMoves DEF LogLabels
    <3>4. ~HoldsBack(w) /\ ~WorkerThrows(w)
      BY <3>3 DEF HoldsBack, WorkerThrows, Tests, WorkerTryLabels
    <3> QED BY <3>3, <3>4, LogSteps, MessagesKept
  <2> QED BY <2>2, <2>3 DEF Streamed
<1> QED BY <1>2, <1>3, <1>4

\* The part of Replayed about the console, and the part about the loop.
ReplayedLogs ==
  /\ \A w \in Workers : pc[w] # "failed" =>
       HoldsFirst(console, w, IF isReplayed(w) THEN emitted[w] ELSE 0)
  /\ logPosition[Main] <= Len(logsFromThreads)
ReplayEnded ==
  pc[Main] \in AfterReplayLabels \/ exitCode = "success" =>
    \A i \in DOMAIN logsFromThreads : i <= logPosition[Main]

LEMMA ReplayedParts ==
  /\ Replayed <=> ReplayedLogs /\ ReplayEnded
  /\ Replayed' <=> ReplayedLogs' /\ ReplayEnded'
BY DEF Replayed, ReplayedLogs, ReplayEnded

\* A worker is on its way to the end of the replay only once it saved its log.
LEMMA ReplayedAreDone ==
  ASSUME LogsPushed, NEW w \in Workers, isReplayed(w)
  PROVE  pc[w] \in { "logPushed", "done" }
BY DEF LogsPushed, isReplayed

\* A step that leaves the logs in the vector and the loop over it alone.
LEMMA ReplayedFrame ==
  ASSUME ReplayedLogs, UNCHANGED logsFromThreads, logPosition'[Main] = logPosition[Main],
         \A w \in Workers : pc'[w] # "failed" =>
           /\ pc[w] # "failed"
           /\ \A n \in Nat : HoldsFirst(console, w, n) => HoldsFirst(console', w, n)
           /\ isReplayed(w) => emitted'[w] = emitted[w] /\ emitted[w] \in Nat
  PROVE  ReplayedLogs'
<1>1. \A w \in Workers : isReplayed(w)' <=> isReplayed(w)
  BY DEF isReplayed
<1>2. ASSUME NEW w \in Workers, pc'[w] # "failed"
      PROVE  HoldsFirst(console', w, IF isReplayed(w) THEN emitted'[w] ELSE 0)
  <2>1. HoldsFirst(console, w, IF isReplayed(w) THEN emitted[w] ELSE 0)
    BY <1>2 DEF ReplayedLogs
  <2>2. CASE isReplayed(w)
    BY <1>2, <2>1, <2>2
  <2>3. CASE ~isReplayed(w)
    BY <1>2, <2>1, <2>3
  <2> QED BY <2>2, <2>3
<1> QED BY <1>1, <1>2 DEF ReplayedLogs

LEMMA ReplayedLogsNext ==
  ASSUME TypeInv, WorkersAllowed, InThreadFlagFaithful, HeldBack, LogsPushed,
         ReplayedLogs, Next
  PROVE  ReplayedLogs'
<1> USE MainIsNoWorker
<1>1. /\ emitted \in [Threads -> Nat] /\ logPosition \in [Threads -> Nat]
      /\ pc \in [Threads -> MainLabels \union WorkerLabels]
      /\ Len(logsFromThreads) \in Nat
      /\ DOMAIN logsFromThreads = 1 .. Len(logsFromThreads)
  BY LenProperties DEF TypeInv, TypeOK, LogTypeOK, PcTypeOK
<1>2. \A w \in Workers : pc'[w] # "failed" => pc[w] # "failed"
  <2>1. ASSUME NEW w \in Workers, SaveLogsStep(w) PROVE pc[w] # "failed"
    BY <2>1, SaveLogsShape
  <2> QED BY <2>1, LogMoves
<1>3. ASSUME NEW w \in Workers, isReplayed(w),
             \/ UNCHANGED <<logVars, g_logFromThread>>
             \/ \E v \in Workers : HoldsBack(v) \/ SaveLogsStep(v) \/ WorkerThrows(v)
             \/ Prints
      PROVE  emitted'[w] = emitted[w] /\ emitted[w] \in Nat
  <2>1. pc[w] \in { "logPushed", "done" }
    BY <1>3, ReplayedAreDone
  <2>2. ~HoldsBack(w) /\ ~WorkerThrows(w)
    BY <2>1 DEF HoldsBack, WorkerThrows, Tests, WorkerTryLabels
  <2> QED BY <1>1, <1>3, <2>2, MessagesKept
<1>4. ASSUME NEW v \in Workers, Replays(v) PROVE ReplayedLogs'
  <2> DEFINE p == logPosition[Main] + 1
  <2>1. /\ p \in DOMAIN logsFromThreads /\ logsFromThreads[p].threadName = v
        /\ UNCHANGED <<logsFromThreads, pc>>
        /\ logPosition'[Main] = p
        /\ \A w \in Workers : emitted'[w] = emitted[w]
    BY <1>1, <1>4 DEF Replays
  <2>2. ~isReplayed(v)
    <3>1. \A i \in DOMAIN logsFromThreads : logsFromThreads[i].threadName = v => i = p
      BY <2>1 DEF LogsPushed
    <3>2. ~(p <= logPosition[Main])
      BY <1>1
    <3> QED BY <3>1, <3>2 DEF isReplayed
  <2>3. isReplayed(v)'
    <3>1. p <= logPosition'[Main]
      BY <1>1, <2>1
    <3> QED BY <2>1, <3>1 DEF isReplayed
  <2>4. ASSUME NEW w \in Workers, w # v PROVE isReplayed(w)' <=> isReplayed(w)
    <3>1. \A i \in DOMAIN logsFromThreads : logsFromThreads[i].threadName = w =>
            (i <= logPosition'[Main] <=> i <= logPosition[Main])
      BY <1>1, <2>1, <2>4
    <3> QED BY <2>1, <3>1 DEF isReplayed
  <2>5. ASSUME NEW w \in Workers, pc'[w] # "failed"
        PROVE  HoldsFirst(console', w, IF isReplayed(w)' THEN emitted'[w] ELSE 0)
    <3>1. HoldsFirst(console, w, IF isReplayed(w) THEN emitted[w] ELSE 0)
      BY <2>1, <2>5 DEF ReplayedLogs
    <3>2. CASE w = v
      <4>1. HoldsFirst(console', v, emitted[v])
        BY <1>4, <2>2, <3>1, <3>2, ReplayHolds
      <4> QED BY <2>1, <2>3, <3>2, <4>1
    <3>3. CASE w # v /\ isReplayed(w)
      <4>1. emitted[w] \in Nat /\ HoldsFirst(console, w, emitted[w])
        BY <1>1, <3>1, <3>3
      <4>2. HoldsFirst(console', w, emitted[w])
        BY <1>4, <3>3, <4>1, ReplayHolds
      <4> QED BY <2>1, <2>4, <3>3, <4>2
    <3>4. CASE w # v /\ ~isReplayed(w)
      <4>1. HoldsFirst(console, w, 0)
        BY <3>1, <3>4
      <4>2. HoldsFirst(console', w, 0)
        BY <1>4, <3>4, <4>1, ReplayHolds
      <4> QED BY <2>4, <3>4, <4>2
    <3> QED BY <3>2, <3>3, <3>4
  <2>6. logPosition'[Main] <= Len(logsFromThreads)
    BY <1>1, <2>1
  <2> QED BY <2>1, <2>5, <2>6 DEF ReplayedLogs
<1>5. ASSUME \/ Prints
             \/ UNCHANGED <<logVars, g_logFromThread>>
             \/ \E v \in Workers : HoldsBack(v) \/ WorkerThrows(v)
      PROVE  ReplayedLogs'
  <2>1. UNCHANGED <<logsFromThreads, logPosition>>
    BY <1>5 DEF Prints, logVars, HoldsBack, WorkerThrows
  <2>2. ASSUME NEW w \in Workers, pc'[w] # "failed", NEW n \in Nat,
               HoldsFirst(console, w, n)
        PROVE  HoldsFirst(console', w, n)
    <3>1. CASE Prints
      BY <2>2, <3>1, PrintHolds DEF Prints
    <3>2. ASSUME NEW v \in Workers, WorkerThrows(v) PROVE HoldsFirst(console', w, n)
      <4>1. console' = Append(console, nextMessage(v)) /\ pc'[v] = "failed"
        BY <1>1, <3>2 DEF WorkerThrows, nextMessage, Goto
      <4>2. w # v
        BY <2>2, <4>1
      <4> QED BY <2>2, <4>1, <4>2, PrintHolds
    <3>3. CASE UNCHANGED <<logVars, g_logFromThread>> \/ \E v \in Workers : HoldsBack(v)
      <4>1. UNCHANGED console
        BY <3>3 DEF logVars, HoldsBack
      <4> QED BY <2>2, <4>1
    <3> QED BY <1>5, <3>1, <3>2, <3>3
  <2>3. \A w \in Workers : isReplayed(w) => emitted'[w] = emitted[w] /\ emitted[w] \in Nat
    BY <1>3, <1>5
  <2> QED BY <1>2, <2>1, <2>2, <2>3, ReplayedFrame
<1>6. ASSUME NEW v \in Workers, SaveLogsStep(v), ~pushLog(v) PROVE ReplayedLogs'
  <2>1. /\ UNCHANGED <<console, logsFromThreads>> /\ logPosition'[Main] = logPosition[Main]
    BY <1>1, <1>6 DEF SaveLogsStep, lockForLogs, LockDataLogStream, streamLog, StreamMessage,
              endOfStream, UnlockDataLogStream, mapLog, MapLogAndUnlock
  <2>2. \A w \in Workers : isReplayed(w) => emitted'[w] = emitted[w] /\ emitted[w] \in Nat
    BY <1>3, <1>6
  <2> QED BY <1>2, <2>1, <2>2, ReplayedFrame
<1>7. ASSUME NEW v \in Workers, pushLog(v) PROVE ReplayedLogs'
  <2> DEFINE n == Len(logsFromThreads)
  <2>1. /\ UNCHANGED <<console, logPosition, emitted>>
        /\ \E item \in [threadName : Threads, logMessages : Seq(Message)] :
             logsFromThreads' = Append(logsFromThreads, item)
    <3>1. Slot(v) \in Threads
      BY SlotType
    <3>2. [threadName |-> v, logMessages |-> g_logFromThread[Slot(v)]]
            \in [threadName : Threads, logMessages : Seq(Message)]
      BY <3>1 DEF TypeInv, TypeOK, GlobalsTypeOK
    <3> QED BY <1>7, <3>2 DEF pushLog, PushLog
  <2>2. /\ DOMAIN logsFromThreads' = 1 .. n + 1 /\ Len(logsFromThreads') = n + 1
        /\ \A i \in 1 .. n : logsFromThreads'[i] = logsFromThreads[i]
    <3> DEFINE Item == [threadName : Threads, logMessages : Seq(Message)]
    <3>1. logsFromThreads \in Seq(Item)
      BY DEF TypeInv, TypeOK, LogTypeOK
    <3>2. PICK item \in Item : logsFromThreads' = Append(logsFromThreads, item)
      BY <2>1
    <3> HIDE DEF Item
    <3> QED BY <3>1, <3>2, AppendProperties, LenProperties
  <2>3. logPosition[Main] \in Nat /\ logPosition[Main] <= n /\ n \in Nat
    BY <1>1 DEF ReplayedLogs
  <2> HIDE DEF n
  <2>4. \A w \in Workers : isReplayed(w)' <=> isReplayed(w)
    <3>1. \A i \in 1 .. n + 1 : i <= logPosition[Main] => i \in 1 .. n
      BY <2>3
    <3>2. DOMAIN logsFromThreads = 1 .. n /\ \A i \in 1 .. n : i \in 1 .. n + 1
      BY <1>1, <2>3 DEF n
    <3> QED BY <2>1, <2>2, <3>1, <3>2 DEF isReplayed
  <2>5. logPosition[Main] <= Len(logsFromThreads')
    BY <2>2, <2>3
  <2> QED BY <1>2, <2>1, <2>4, <2>5 DEF ReplayedLogs
<1> QED BY <1>4, <1>5, <1>6, <1>7, LogSteps, ReplayShape

\* The main thread gets past the replay by its end, or without one when the
\* logs went to the log file.
LEMMA ReplayMoves ==
  ASSUME TypeInv, Next, pc'[Main] \in AfterReplayLabels, pc[Main] \notin AfterReplayLabels
  PROVE  \/ joinThreads /\ IsLoggingToFile
         \/ endOfReplay /\ logPosition[Main] = Len(logsFromThreads)
<1> USE MainIsNoWorker
    DEF TypeInv, TypeOK, PcTypeOK, Goto, AfterReplayLabels, AfterJoinLabels
<1>1. CASE PlayTestStep(Main)
  <2>1. afterTest(Main, pc[Main]) \notin AfterReplayLabels
    BY <1>1, PlayTestShape DEF afterTest, Tests
  <2> QED BY <1>1, <2>1, PlayTestShape
<1>2. CASE SaveStep(Main)
  BY <1>2, SaveShape DEF SaveLabels
<1>3. CASE MainStep
  <2>1. CASE joinThreads \/ replayThrdLogToConsole \/ endOfReplay
    BY <2>1 DEF joinThreads, replayThrdLogToConsole, endOfReplay
  <2>2. CASE connectToDatabase \/ throwIfUnsupportedEnv \/ OtherTestsStatement \/ EndOtherTests
    BY <2>2 DEF connectToDatabase, throwIfUnsupportedEnv, OtherTestsStatement,
                EndOtherTests, afterTest
  <2>3. CASE initConnsInThreadsTesting \/ endOfLoop
    BY <2>3 DEF initConnsInThreadsTesting, endOfLoop
  <2>4. ASSUME NEW c \in RemovableConnections,
               startWorkerThread(c) \/ testConnectionInMainThread(c)
        PROVE  pc'[Main] \notin AfterReplayLabels
    BY <2>4 DEF startWorkerThread, testConnectionInMainThread, Workers
  <2>5. CASE logApplicationSummary \/ returnFromMain \/ MainThrows \/ CatchInMain
    BY <2>5 DEF logApplicationSummary, returnFromMain, MainThrows, CatchInMain
  <2> QED BY <1>3, <2>1, <2>2, <2>3, <2>4, <2>5 DEF MainStep
<1>4. ASSUME NEW w \in Workers, WorkerThread(w) PROVE pc'[Main] = pc[Main]
  BY <1>4, WorkerShape
<1>5. CASE Ended
  BY <1>5 DEF Ended, vars
<1> QED BY <1>1, <1>2, <1>3, <1>4, <1>5 DEF Next, MainThread

LEMMA ReplayEndedNext ==
  ASSUME TypeInv, WorkersAllowed, InThreadFlagFaithful, JoinedAfterLoop, ExitCodeLast,
         LogsPushed, ReplayEnded, Next
  PROVE  ReplayEnded'
<1> USE MainIsNoWorker
<1>1. CASE pc[Main] \in AfterReplayLabels \/ exitCode = "success"
  <2>1. pc[Main] \in AfterJoinLabels /\ pc[Main] # "replayThrdLogToConsole"
    BY <1>1 DEF AfterReplayLabels, AfterJoinLabels, ExitCodeLast
  <2>2. \A w \in Workers : ~WorkerThread(w)
    BY <2>1, WorkersRest
  <2>3. \A w \in Workers : ~pushLog(w)
    BY <2>2 DEF WorkerThread, WorkerStep, SaveLogsStep
  <2>4. UNCHANGED logsFromThreads
    BY <2>3, PushedMoves
  <2>5. UNCHANGED logPosition
    <3>1. \A w \in Workers : ~SaveLogsStep(w)
      BY <2>2 DEF WorkerThread, WorkerStep
    <3> QED BY <2>1, <3>1, LogSteps
            DEF logVars, HoldsBack, Prints, replayThrdLogToConsole, WorkerThrows
  <2> QED BY <1>1, <2>4, <2>5 DEF ReplayEnded
<1>2. CASE pc[Main] \notin AfterReplayLabels /\ exitCode # "success"
  <2>1. exitCode' # "success"
    <3>1. ~returnFromMain
      BY <1>2 DEF returnFromMain, AfterReplayLabels, AfterJoinLabels
    <3>2. CASE logApplicationSummary
      BY <1>2, <3>2 DEF logApplicationSummary
    <3> QED BY <1>2, <3>1, <3>2, SummaryShape
  <2>2. CASE joinThreads /\ IsLoggingToFile
    <3>1. UNCHANGED logsFromThreads /\ \A i \in DOMAIN logsFromThreads : FALSE
      BY <2>2 DEF joinThreads, logVars, LogsPushed
    <3> QED BY <3>1 DEF ReplayEnded
  <2>3. CASE endOfReplay /\ logPosition[Main] = Len(logsFromThreads)
    <3>1. UNCHANGED <<logsFromThreads, logPosition>>
      BY <2>3 DEF endOfReplay, logVars
    <3>2. DOMAIN logsFromThreads = 1 .. Len(logsFromThreads)
      BY LenProperties DEF TypeInv, TypeOK, LogTypeOK
    <3>3. \A i \in DOMAIN logsFromThreads : i <= logPosition[Main]
      BY <2>3, <3>2
    <3> QED BY <3>1, <3>3 DEF ReplayEnded
  <2>4. CASE pc'[Main] \notin AfterReplayLabels
    BY <2>1, <2>4 DEF ReplayEnded
  <2> QED BY <1>2, <2>2, <2>3, <2>4, ReplayMoves
<1> QED BY <1>1, <1>2

-----------------------------------------------------------------------------
(* The theorems on the logs *)

LogsInv ==
  /\ HeldBack /\ PositionsStarted /\ LogFileInv /\ ConsoleOfWorkers
  /\ MainPrinted /\ Streamed /\ LogsPushed /\ Replayed

LEMMA LogsInvInit == Init => LogsInv
<1> SUFFICES ASSUME Init PROVE LogsInv
  OBVIOUS
<1>1. /\ \A w \in Workers : pc[w] = "notStarted" /\ emitted[w] = 0 /\ logPosition[w] = 0
                            /\ g_logFromThread[w] = <<>>
      /\ logFile = <<>> /\ console = <<>> /\ logsFromThreads = <<>>
      /\ emitted[Main] = 0 /\ logPosition[Main] = 0
      /\ pc[Main] = "connectToDatabase" /\ exitCode = "none"
  BY MainIsNoWorker DEF Init, LogInit, GlobalsInit, Threads
<1>2. HeldBack
  BY <1>1, LogOf, HeldBackLog
<1>3. PositionsStarted
  BY <1>1 DEF PositionsStarted
<1>4. /\ \A i \in 1 .. Len(logFile) : FALSE
      /\ \A i \in DOMAIN console : FALSE /\ Len(logFile) = 0
  BY <1>1
<1>5. LogFileInv
  BY <1>1, <1>4 DEF LogFileInv, LogFileOfWorkers, LogFileEnd, LogFileInBlocks
<1>6. ConsoleOfWorkers
  BY <1>4 DEF ConsoleOfWorkers
<1>7. MainPrinted
  BY <1>1, HoldsNothing DEF MainPrinted
<1>8. Streamed
  BY <1>1, HoldsNothing DEF Streamed
<1>9. /\ \A i \in DOMAIN logsFromThreads : FALSE
      /\ logPosition[Main] <= Len(logsFromThreads)
  BY <1>1
<1>10. LogsPushed
  BY <1>1, <1>9 DEF LogsPushed
<1>11. Replayed
  <2>1. \A w \in Workers : ~isReplayed(w)
    BY <1>9 DEF isReplayed
  <2>2. \A w \in Workers : HoldsFirst(console, w, 0)
    BY <1>1, HoldsNothing
  <2> QED BY <1>9, <2>1, <2>2 DEF Replayed
<1> QED BY <1>2, <1>3, <1>5, <1>6, <1>7, <1>8, <1>10, <1>11 DEF LogsInv

LEMMA LogsInvNext == IsolationInv /\ CountersInv /\ LogsInv /\ [Next]_vars => LogsInv'
<1> SUFFICES ASSUME IsolationInv, CountersInv, LogsInv, [Next]_vars PROVE LogsInv'
  OBVIOUS
<1>1. CASE Next
  <2>1. HeldBack'
    <3>1. \A w \in Workers : pc'[w] # "failed" => g_logFromThread'[w] = logOf(w, emitted'[w])
      BY <1>1, HeldBackNext DEF IsolationInv, LogsInv
    <3> QED BY <3>1 DEF HeldBack, logOf
  <2>2. Replayed'
    BY <1>1, ReplayedParts, ReplayedLogsNext, ReplayEndedNext
    DEF IsolationInv, CountersInv, LogsInv
  <2> QED
    BY <1>1, <2>1, <2>2, PositionsStartedNext, LogFileNext, ConsoleNext, MainPrintedNext,
       StreamedNext, LogsPushedNext
    DEF IsolationInv, CountersInv, LogsInv
<1>2. CASE UNCHANGED vars
  <2>1. UNCHANGED <<pc, g_logFromThread, logVars, exitCode>>
    BY <1>2 DEF vars, globalsVars, outcome
  <2>2. (HeldBack /\ PositionsStarted /\ LogFileInv /\ ConsoleOfWorkers)'
    BY <2>1 DEF logVars, LogsInv, HeldBack, PositionsStarted, LogFileInv, LogFileOfWorkers,
                LogFileEnd, LogFileInBlocks, ConsoleOfWorkers
  <2>3. (MainPrinted /\ Streamed)'
    BY <2>1 DEF logVars, LogsInv, MainPrinted, Streamed
  <2>4. (LogsPushed /\ Replayed)'
    BY <2>1 DEF logVars, LogsInv, LogsPushed, Replayed, isReplayed
  <2> QED BY <2>2, <2>3, <2>4 DEF LogsInv
<1> QED BY <1>1, <1>2

\* In every state, the messages that are held back, the log file and the
\* console are what they should be.
THEOREM LogsCorrect == Spec => [](IsolationInv /\ CountersInv /\ LogsInv)
<1>1. Init => LogsInv
  BY LogsInvInit
<1>2. IsolationInv /\ CountersInv /\ LogsInv /\ [Next]_vars => LogsInv'
  BY LogsInvNext
<1> QED BY <1>1, <1>2, CountersCorrect, PTL DEF Spec

\* The log file holds whole blocks, each of one worker, its messages in order
\* and none of another worker in between.
THEOREM LogFileInBlocksCorrect == Spec => []LogFileInBlocks
<1>1. LogsInv => LogFileInBlocks
  BY DEF LogsInv, LogFileInv
<1> QED BY <1>1, LogsCorrect, PTL

\* A worker never writes to the console, except to report its exception.
THEOREM ConsoleNotPollutedCorrect == Spec => []ConsoleNotPolluted
<1>1. CountersInv /\ LogsInv => ConsoleNotPolluted
  BY DEF CountersInv, LogsInv, ConsoleOfWorkers, ConsoleNotPolluted, JoinedAfterLoop,
         AfterJoinLabels
<1> QED BY <1>1, LogsCorrect, PTL

\* After a successful run, every message of the main thread and of every
\* worker that did not throw was output, once and in the order of logging.
THEOREM LogDeliveredCorrect == Spec => []LogDelivered
<1>1. IsolationInv /\ CountersInv /\ LogsInv => LogDelivered
  <2> SUFFICES ASSUME IsolationInv, CountersInv, LogsInv, exitCode = "success",
                      NEW t \in Threads, pc[t] = "done"
               PROVE  HoldsFirst(console \o logFile, t, emitted[t])
    BY DEF LogDelivered
  <2>1. /\ console \in Seq(Message) /\ logFile \in Seq(Message)
        /\ emitted[t] \in Nat
    BY DEF IsolationInv, TypeInv, TypeOK, LogTypeOK
  <2>2. CASE t = Main
    <3>1. HoldsFirst(console, t, emitted[t])
      BY <2>2 DEF LogsInv, MainPrinted
    <3>2. HoldsFirst(logFile, t, 0)
      <4>1. \A i \in DOMAIN logFile : logFile[i].thread # t
        BY <2>1, <2>2, LenProperties, MainIsNoWorker DEF LogsInv, LogFileInv, LogFileOfWorkers
      <4> QED BY <4>1 DEF HoldsFirst
    <3> QED BY <2>1, <3>1, <3>2, HoldsConcat
  <2>3. CASE t \in Workers /\ IsLoggingToFile
    <3>1. HoldsFirst(logFile, t, emitted[t])
      BY <2>3 DEF LogsInv, Streamed
    <3>2. ~isReplayed(t)
      BY <2>3 DEF LogsInv, LogsPushed, isReplayed
    <3>3. HoldsFirst(console, t, 0)
      BY <2>3, <3>2 DEF LogsInv, Replayed
    <3> QED BY <2>1, <3>1, <3>3, HoldsConcat
  <2>4. CASE t \in Workers /\ ~IsLoggingToFile
    <3>1. HoldsFirst(logFile, t, 0)
      BY <2>4, HoldsNothing DEF LogsInv, PositionsStarted
    <3>2. isReplayed(t)
      BY <2>4 DEF LogsInv, LogsPushed, Replayed, isReplayed
    <3>3. HoldsFirst(console, t, emitted[t])
      BY <2>4, <3>2 DEF LogsInv, Replayed
    <3> QED BY <2>1, <3>1, <3>3, HoldsConcat
  <2> QED BY <2>2, <2>3, <2>4 DEF Threads, Workers
<1> QED BY <1>1, LogsCorrect, PTL

=============================================================================
