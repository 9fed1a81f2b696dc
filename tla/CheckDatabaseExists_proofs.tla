---------------------- MODULE CheckDatabaseExists_proofs ----------------------
(* The check_database_exists test, for any number of runs. *)
EXTENDS CheckDatabaseExists, TLAPS

\* What holds before each step of the test.
Ready ==
  stopped = "no" =>
    /\ pc \in { "testSQLite", "removeFile", "removeFileAgain" } => opened = {}
    /\ pc \in { "checkExistsTrue", "open" } => opened = {} /\ file = "absent"
    /\ pc = "createTable" => file = "empty"
    /\ pc \in { "createTable", "removeTrue", "removeFalse" } =>
         opened = { "sqlite_check_exists_false" }

Inv == TypeOK /\ OnlyKilled /\ CompletedRunCleans /\ Ready

LEMMA InitInv == Init => Inv
  BY CheckAssumption DEF Init, Inv, TypeOK, OnlyKilled, CompletedRunCleans, Ready

LEMMA NextInv == Inv /\ [Next]_vars => Inv'
<1> SUFFICES ASSUME Inv, [Next]_vars PROVE Inv'
  OBVIOUS
<1> USE CheckAssumption
    DEF Inv, TypeOK, OnlyKilled, CompletedRunCleans, Ready, run, at, goto, stop
<1>1. CASE decide
  BY <1>1 DEF decide
<1>2. CASE removeFile
  BY <1>2 DEF removeFile, QFile_remove
<1>3. CASE checkExistsTrue
  BY <1>3 DEF checkExistsTrue
<1>4. CASE checkExistsFalseOpens
  BY <1>4 DEF checkExistsFalseOpens
<1>5. CASE checkExistsFalseCreates
  BY <1>5 DEF checkExistsFalseCreates
<1>6. CASE removeConnections
  BY <1>6 DEF removeConnections, removeConnection
<1>7. CASE removeFileAgain
  BY <1>7 DEF removeFileAgain, QFile_remove
<1>8. CASE killed
  BY <1>8 DEF killed
<1>9. CASE nextRun
  <2>1. runs' \in 1..MaxRuns
    <3>1. runs < MaxRuns /\ runs' = runs + 1
      BY <1>9 DEF nextRun
    <3>2. runs \in 1..MaxRuns /\ MaxRuns \in Nat
      OBVIOUS
    <3> HIDE DEF Inv, TypeOK, OnlyKilled, CompletedRunCleans, Ready
    <3> QED
      BY <3>1, <3>2
  <2>2. CompletedRunCleans' /\ OnlyKilled'
    BY <1>9 DEF nextRun
  <2>3. Ready'
    BY <1>9 DEF nextRun
  <2> QED
    BY <1>9, <2>1, <2>2, <2>3, Zenon DEF nextRun
<1>10. CASE UNCHANGED vars
  BY <1>10 DEF vars
<1> QED
  BY <1>1, <1>2, <1>3, <1>4, <1>5, <1>6, <1>7, <1>8, <1>9, <1>10 DEF Next

LEMMA Invariance == Spec => []Inv
  BY InitInv, NextInv, PTL DEF Spec

\* Nothing but a kill ends a run before its end, however many runs were killed
\* before it and wherever.
THEOREM OnlyKilledTheorem == Spec => []OnlyKilled
<1>1. Inv => OnlyKilled
  BY DEF Inv
<1> QED
  BY <1>1, Invariance, PTL

\* A run that does the test leaves no file behind.
THEOREM CompletedRunCleansTheorem == Spec => []CompletedRunCleans
<1>1. Inv => CompletedRunCleans
  BY DEF Inv
<1> QED
  BY <1>1, Invariance, PTL

=============================================================================
