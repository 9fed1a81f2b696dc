------------------------------ MODULE PlayRun ------------------------------
(***************************************************************************)
(* What a run of the playground promises, without its connections, mutexes *)
(* and thread-local variables.  Each thread counts for itself.  When it    *)
(* has saved its count nothing adds to it any more; a worker that fails    *)
(* leaves its count out and disturbs nobody.  The report of a successful   *)
(* run is what the main thread and the workers that saved have counted,    *)
(* made when no worker is running; the run itself only fails because of    *)
(* the main thread, and then without leaving a worker running.             *)
(***************************************************************************)
EXTENDS Naturals

CONSTANTS
  Main,      \* the main thread
  Workers,   \* the threads it may start
  Names      \* what a thread counts

Threads == { Main } \union Workers

VARIABLES
  phase,     \* thread -> "idle", "running", "saved" or "failed"
  counted,   \* thread -> name -> number
  report,    \* a function on threads, empty before it is made
  result     \* "none", "success" or "failure"

vars == <<phase, counted, report, result>>

NoReport == [t \in {} |-> 0]

TypeOK ==
  /\ phase \in [Threads -> { "idle", "running", "saved", "failed" }]
  /\ counted \in [Threads -> [Names -> Nat]]
  /\ DOMAIN report \subseteq Threads
  /\ result \in { "none", "success", "failure" }

Init ==
  /\ phase = [t \in Threads |-> IF t = Main THEN "running" ELSE "idle"]
  /\ counted = [t \in Threads |-> [n \in Names |-> 0]]
  /\ report = NoReport
  /\ result = "none"

NoWorkerRuns == \A w \in Workers : phase[w] # "running"

Move(t, from, to) ==
  /\ phase[t] = from
  /\ phase' = [phase EXCEPT ![t] = to]

\* Only a running main thread starts workers.
Start(w) ==
  /\ phase[Main] = "running"
  /\ Move(w, "idle", "running")
  /\ UNCHANGED <<counted, report, result>>

\* A running thread counts more of some names.
Count(t) ==
  /\ phase[t] = "running"
  /\ \A u \in Threads \ { t } : counted'[u] = counted[u]
  /\ \A n \in Names : counted'[t][n] >= counted[t][n]
  /\ DOMAIN counted' = Threads /\ DOMAIN counted'[t] = Names
  /\ UNCHANGED <<phase, report, result>>

Save(t) ==
  /\ t = Main => NoWorkerRuns
  /\ Move(t, "running", "saved")
  /\ UNCHANGED <<counted, report, result>>

Fail(t) ==
  /\ Move(t, "running", "failed")
  /\ UNCHANGED <<counted, report, result>>

Report ==
  /\ phase[Main] = "saved" /\ report = NoReport
  /\ report' = [t \in { u \in Threads : phase[u] = "saved" } |-> counted[t]]
  /\ UNCHANGED <<phase, counted, result>>

Succeed ==
  /\ result = "none" /\ report # NoReport
  /\ result' = "success"
  /\ UNCHANGED <<phase, counted, report>>

GiveUp ==
  /\ result = "none" /\ phase[Main] = "failed" /\ NoWorkerRuns
  /\ result' = "failure"
  /\ UNCHANGED <<phase, counted, report>>

Next ==
  \/ \E w \in Workers : Start(w)
  \/ \E t \in Threads : Count(t) \/ Save(t) \/ Fail(t)
  \/ Report \/ Succeed \/ GiveUp

Spec == Init /\ [][Next]_vars

=============================================================================
