------------------------------ MODULE Globals ------------------------------
(***************************************************************************)
(* Threads and the thread-local storage of support/globals.hpp.            *)
(*                                                                         *)
(* T_THREAD_LOCAL (a macro of TinyORM) is the keyword thread_local on the  *)
(* compilers that support it and empty on the others, where every thread   *)
(* shares one copy of each such variable.  A thread-local variable is      *)
(* therefore a function on slots, and a thread reads and writes its slot.  *)
(***************************************************************************)
EXTENDS Connections

CONSTANT Main    \* the main thread

ASSUME MainAssumption == Main \notin Configurations

\* One worker thread per connection, named after it.
Workers == RemovableConnections
Threads == { Main } \union Workers

VARIABLES
  threadLocalStorage,   \* T_THREAD_LOCAL is thread_local with this compiler
  g_inThread,           \* slot -> running in a worker thread
  g_logFromThread       \* slot -> log messages not printed yet

Slot(t) == IF threadLocalStorage THEN t ELSE Main

globalsVars == <<g_inThread, g_logFromThread>>

\* A message of thread t; seq tells its messages apart and orders them.
Message == [thread : Threads, seq : Nat]

GlobalsTypeOK ==
  /\ threadLocalStorage \in BOOLEAN
  /\ g_inThread \in [Threads -> BOOLEAN]
  /\ g_logFromThread \in [Threads -> Seq(Message)]

GlobalsInit ==
  /\ threadLocalStorage \in BOOLEAN
  /\ g_inThread = [s \in Threads |-> FALSE]
  /\ g_logFromThread = [s \in Threads |-> <<>>]

setInThread(t, value) == g_inThread' = [g_inThread EXCEPT ![Slot(t)] = value]

=============================================================================
