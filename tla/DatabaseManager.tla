-------------------------- MODULE DatabaseManager --------------------------
(***************************************************************************)
(* The part of TinyORM and QtSql the playground relies on, modelled from   *)
(* how it is used: a thread-local DatabaseManager with configurations and  *)
(* a default connection, connections opened on first use whose names are   *)
(* global to the process, and per connection a counter of executed         *)
(* statements and a flag of modified records.                              *)
(*                                                                         *)
(* The three statement counters of a connection (normal, affecting,        *)
(* transactional) are always reset, taken and added together; one number   *)
(* stands for them.  The elapsed counter moves with them and is left out.  *)
(***************************************************************************)
EXTENDS Globals

VARIABLES
  ormConfigurations,   \* slot -> configured connections
  defaultConnection,   \* slot -> default connection
  opened,              \* thread -> connections it has opened
  counting,            \* connections with enabled counters
  statementsCounter,   \* connection -> statements since the last reset or take
  recordsModified      \* connection -> recordsHaveBeenModified

dbVars == <<ormConfigurations, defaultConnection, opened, counting,
            statementsCounter, recordsModified>>

DatabaseTypeOK ==
  /\ ormConfigurations \in [Threads -> SUBSET Configurations]
  /\ defaultConnection \in [Threads -> Configurations]
  /\ opened \in [Threads -> SUBSET Configurations]
  /\ counting \in SUBSET Configurations
  /\ statementsCounter \in [Configurations -> Nat]
  /\ recordsModified \in [Configurations -> BOOLEAN]

DatabaseInit ==
  /\ ormConfigurations = [s \in Threads |-> {}]
  /\ defaultConnection = [s \in Threads |-> getDefaultConnectionName]
  /\ opened = [t \in Threads |-> {}]
  /\ counting = {}
  /\ statementsCounter = [n \in Configurations |-> 0]
  /\ recordsModified = [n \in Configurations |-> FALSE]

\* DB::addConnections() and DB::create() of thread t; afterwards it opens the
\* connections to count, enables their counters and has a default connection.
addAndCount(t, configurations, toCount, default) ==
  /\ ormConfigurations' =
       [ormConfigurations EXCEPT ![Slot(t)] = @ \union configurations]
  /\ defaultConnection' = [defaultConnection EXCEPT ![Slot(t)] = default]
  /\ opened' = [opened EXCEPT ![t] = @ \union toCount]
  /\ counting' = counting \union toCount
  /\ UNCHANGED <<statementsCounter, recordsModified>>

setDefaultConnection(t, connection) ==
  /\ defaultConnection' = [defaultConnection EXCEPT ![Slot(t)] = connection]
  /\ UNCHANGED <<ormConfigurations, opened, counting, statementsCounter,
                 recordsModified>>

\* Thread t executes a statement on a connection, which opens it if need be.
execute(t, n, affecting) ==
  /\ opened' = [opened EXCEPT ![t] = @ \union { n }]
  /\ statementsCounter' =
       IF n \in counting THEN [statementsCounter EXCEPT ![n] = @ + 1]
                         ELSE statementsCounter
  /\ recordsModified' =
       IF affecting THEN [recordsModified EXCEPT ![n] = TRUE] ELSE recordsModified
  /\ UNCHANGED <<ormConfigurations, defaultConnection, counting>>

=============================================================================
