--------------------------- MODULE CounterTotals ---------------------------
(***************************************************************************)
(* The totals of the statements counters in the Application Summary of a   *)
(* multi-threaded build: QueryCountersService::appStatementsCounterPrintable*)
(* and the methods it calls.  A counter is -1 when it is not counting and  *)
(* is then left out of every sum; a sum of nothing is -1 as well.  The     *)
(* printed text is abstracted to the numbers it shows.  The counters of a  *)
(* thread start at zero, so that a run has no -1 in the totals of the      *)
(* application; the methods are modelled for all they accept.              *)
(***************************************************************************)
EXTENDS Integers, Sequences

CONSTANTS
  MaxThreads,   \* bound: items of the application counters
  MaxCount      \* bound: value of a counter

ASSUME CounterTotalsAssumption == MaxThreads \in Nat /\ MaxCount \in Nat

Columns == { "normal", "affecting", "transactional" }
NotCounting == -1
StatementsCounter == [Columns -> NotCounting .. MaxCount]

VARIABLES
  counters,      \* statements counters of the threads, the input
  sumCounters,   \* StatementsCounterTotal: the columns' sums and "total"
  item,          \* items the loop at hand has left behind
  threadTotals,  \* the totals printed for the threads so far
  pc

vars == <<counters, sumCounters, item, threadTotals, pc>>

Init ==
  /\ \E n \in 0 .. MaxThreads : counters \in [1 .. n -> StatementsCounter]
  /\ sumCounters = [c \in Columns \union { "total" } |-> NotCounting]
  /\ item = 0
  /\ threadTotals = <<>>
  /\ pc = "appZeroCounters"

anyOfCounters(c) == \E i \in DOMAIN counters : counters[i][c] > NotCounting

\* What a counter adds to a sum.
Addend(value) == IF value > NotCounting THEN value ELSE 0
Addends(counter) ==
  Addend(counter["normal"]) + Addend(counter["affecting"])
    + Addend(counter["transactional"])

\* Mutant: every sum starts at zero.
zeroAllCounters ==
  sumCounters' = [c \in Columns \union { "total" } |-> 0]

\* A sum starts at zero when anything counts.
appZeroCounters ==
  sumCounters' =
    [c \in Columns \union { "total" } |->
       IF \E d \in Columns : c \in { d, "total" } /\ anyOfCounters(d)
         THEN 0 ELSE sumCounters[c]]

zeroStep ==
  /\ pc = "appZeroCounters"
  /\ appZeroCounters
  /\ pc' = "appSumUpCounters"
  /\ UNCHANGED <<counters, item, threadTotals>>

\* One round of the loop of appSumUpCounters().
sumUpStep ==
  /\ pc = "appSumUpCounters" /\ item < Len(counters)
  /\ item' = item + 1
  /\ sumCounters' =
       [c \in Columns \union { "total" } |->
          sumCounters[c] + IF c = "total" THEN Addends(counters[item'])
                                          ELSE Addend(counters[item'][c])]
  /\ UNCHANGED <<counters, threadTotals, pc>>

endOfSumUp ==
  /\ pc = "appSumUpCounters" /\ item = Len(counters)
  /\ item' = 0
  /\ pc' = "printThreads"
  /\ UNCHANGED <<counters, sumCounters, threadTotals>>

\* Mutant: the sum starts at -1 even if something counts.
totalFromMinusOne(counter) == NotCounting + Addends(counter)

\* The total of a single thread, or of a single connection in its own block.
threadTotal(counter) ==
  Addends(counter) + IF \E c \in Columns : counter[c] > NotCounting
                       THEN 0 ELSE NotCounting

printThread ==
  /\ pc = "printThreads" /\ item < Len(counters)
  /\ item' = item + 1
  /\ threadTotals' = Append(threadTotals, threadTotal(counters[item']))
  /\ UNCHANGED <<counters, sumCounters, pc>>

endOfPrint ==
  /\ pc = "printThreads" /\ item = Len(counters)
  /\ pc' = "done"
  /\ UNCHANGED <<counters, sumCounters, item, threadTotals>>

Next == zeroStep \/ sumUpStep \/ endOfSumUp \/ printThread \/ endOfPrint

Spec == Init /\ [][Next]_vars

=============================================================================
