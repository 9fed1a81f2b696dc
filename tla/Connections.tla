---------------------------- MODULE Connections ----------------------------
(***************************************************************************)
(* Which connections each thread configures, counts and lists: class       *)
(* ConfigurationsService and the connection lists of QueryCountersService. *)
(* Everything here is a function of the tables of class Configuration and  *)
(* of the two lists a user edits, ConnectionsToTest and                    *)
(* ConnectionsToRunInThread, passed as sets toTest and runInThread.        *)
(***************************************************************************)
EXTENDS Integers, Sequences, FiniteSets

CONSTANTS
  ConnectionsInThreads,   \* run the connections of ConnectionsToRunInThread in threads
  Configurations,         \* names of all configured connections
  CountableConnections,   \* connections whose statements may be counted
  RemovableConnections,   \* connections that can run in a thread
  ConnectionsMap,         \* tested connection -> connections its thread needs
  ConnectionsMapReverse,  \* real connection -> tested connection
  Mysql, Mysql_Alt, Mysql_MainThread, Mysql_Laravel8,
  Sqlite, Sqlite_Memory, Sqlite_CheckExistsTrue, Sqlite_CheckExistsFalse

getMappedConnections(connection) ==
  IF connection \in DOMAIN ConnectionsMap THEN ConnectionsMap[connection]
                                          ELSE { connection }

\* The tested connection on whose behalf a connection is counted.
mappedConnection(connection) ==
  IF connection \in DOMAIN ConnectionsMapReverse
    THEN ConnectionsMapReverse[connection]
    ELSE connection

\* The connection that models with their own u_connection use (Torrent).
torrentConnection(default) == IF default = Mysql THEN Mysql_Alt ELSE default

(***************************************************************************)
(* What the tables of Configuration have to satisfy: the threads' shares   *)
(* are closed under mapping and its reverse, and the connections the main  *)
(* thread uses for itself belong to no share.                              *)
(***************************************************************************)
ASSUME ConfigurationAssumption ==
  /\ ConnectionsInThreads \in BOOLEAN
  /\ CountableConnections \subseteq Configurations
  /\ RemovableConnections \subseteq Configurations
  /\ { Mysql, Mysql_MainThread, Mysql_Laravel8, Sqlite_Memory,
       Sqlite_CheckExistsTrue, Sqlite_CheckExistsFalse } \subseteq Configurations
  /\ { Mysql_MainThread, Mysql_Laravel8, Sqlite_Memory, Sqlite_CheckExistsTrue,
       Sqlite_CheckExistsFalse } \intersect RemovableConnections = {}
  /\ \A c \in RemovableConnections :
       /\ getMappedConnections(c) \subseteq Configurations
       /\ { c, torrentConnection(c) } \subseteq getMappedConnections(c)
       /\ getMappedConnections(c) \intersect RemovableConnections = { c }
       /\ \A n \in getMappedConnections(c) : mappedConnection(n) = c
  /\ \A n \in { Mysql_MainThread, Mysql_Laravel8, Sqlite_Memory,
                Sqlite_CheckExistsTrue, Sqlite_CheckExistsFalse } :
       mappedConnection(n) = n

\* The connection of the main thread for the time it runs threads is used for
\* nothing else.
ASSUME MainThreadConnectionAssumption ==
  Mysql_MainThread \notin { Mysql, Mysql_Laravel8, Sqlite_Memory,
                            Sqlite_CheckExistsTrue, Sqlite_CheckExistsFalse }

-----------------------------------------------------------------------------
(* ConfigurationsService *)

MysqlMainThreadConnection ==
  IF ConnectionsInThreads THEN Mysql_MainThread ELSE Mysql

getDefaultConnectionName ==
  IF ConnectionsInThreads THEN Mysql_MainThread ELSE Mysql

configurationsWhenSingleThread == Configurations \ { Mysql_MainThread }

configsForMainThrdWhenMultiThrd(runInThread) == Configurations \ runInThread

\* Mutant: the connections mapped to the worker's are forgotten.
configsWithoutMapping(connection) == { connection }

configsForWorkerThrdWhenMultiThrd(connection) == getMappedConnections(connection)

-----------------------------------------------------------------------------
(* QueryCountersService: the lists of counted connections *)

\* Mutant: connections that run in a thread are counted all the same.
countThreadedConnectionsToo(toTest, runInThread) ==
  { n \in CountableConnections :
      LET c == mappedConnection(n) IN c \notin RemovableConnections \/ c \in toTest }
    \ { Mysql_MainThread }

computeConnectionsToCountForMainThread(toTest, runInThread) ==
  { n \in CountableConnections :
      LET c == mappedConnection(n)
      IN  \/ c \notin RemovableConnections
          \/ ~ConnectionsInThreads /\ c \in toTest
          \/ ConnectionsInThreads /\ c \in toTest /\ c \notin runInThread }
    \ { Mysql_MainThread }

computeConnectionsToCountForWorkerThread(connection) ==
  getMappedConnections(connection)

santizeConnectionsToRunInThread(toTest, runInThread) ==
  IF ConnectionsInThreads THEN runInThread \intersect toTest ELSE runInThread

\* Mutant: the main thread's own connection is always listed.
listMainThreadConnection(toTest) ==
  { n \in CountableConnections :
      mappedConnection(n) \notin RemovableConnections \/ mappedConnection(n) \in toTest }

\* The connections the Application Summary lists as counted.
appCountedConnectionsPrintable(toTest) ==
  { n \in CountableConnections :
      \/ mappedConnection(n) \notin RemovableConnections
      \/ mappedConnection(n) \in toTest }
    \ IF ConnectionsInThreads THEN {} ELSE { Mysql_MainThread }

=============================================================================
