-------------------------- MODULE MCCounterTotals --------------------------
(***************************************************************************)
(* The printed totals against a reference definition of a sum that leaves  *)
(* out what is not counting, for every input within the bounds.            *)
(***************************************************************************)
EXTENDS CounterTotals, Functions

\* The sum of the values that count, -1 if none does.
Reference(values) ==
  LET countingOnes == { x \in DOMAIN values : values[x] # NotCounting }
  IN  IF countingOnes = {} THEN NotCounting
                           ELSE SumFunctionOnSet(values, countingOnes)

column(c) == [i \in DOMAIN counters |-> counters[i][c]]
cells == [ic \in (DOMAIN counters) \X Columns |-> counters[ic[1]][ic[2]]]

\* Every printed sum is that of the counters that count: a column's over the
\* threads, the total over threads and columns.
TotalsExact ==
  pc = "done" =>
    /\ \A c \in Columns : sumCounters[c] = Reference(column(c))
    /\ sumCounters["total"] = Reference(cells)

\* The numbers of one line fit: the total is the sum of the threads' totals
\* printed next to it, which are computed on their own.
TotalsFit ==
  pc = "done" =>
    /\ Len(threadTotals) = Len(counters)
    /\ sumCounters["total"] = Reference(threadTotals)

-----------------------------------------------------------------------------
(* Strengthenings: the sums and the printed totals on the way.             *)

Labels == { "appZeroCounters", "appSumUpCounters", "printThreads", "done" }

TypeOK ==
  /\ counters \in Seq(StatementsCounter)
  /\ sumCounters \in [Columns \union { "total" } -> Int]
  /\ item \in 0 .. Len(counters)
  /\ threadTotals \in Seq(Int)
  /\ pc \in Labels

startOf(c) ==
  IF \E d \in Columns : c \in { d, "total" } /\ anyOfCounters(d)
    THEN 0 ELSE NotCounting

addendsOf(c) ==
  [i \in DOMAIN counters |->
     IF c = "total" THEN Addends(counters[i]) ELSE Addend(counters[i][c])]

\* The threads the sums contain.
summedUp == IF pc = "appSumUpCounters" THEN item ELSE Len(counters)

\* Before the loop the sums are -1; in it they have started and contain what
\* the items behind it add.
SumsSoFar ==
  /\ pc = "appZeroCounters" =>
       /\ item = 0
       /\ \A c \in Columns \union { "total" } : sumCounters[c] = NotCounting
  /\ pc # "appZeroCounters" =>
       \A c \in Columns \union { "total" } :
         sumCounters[c] = startOf(c) + SumFunctionOnSet(addendsOf(c), 1 .. summedUp)

\* A total is printed for each of the items behind the loop.
TotalsSoFar ==
  /\ pc \in { "appZeroCounters", "appSumUpCounters" } => threadTotals = <<>>
  /\ pc = "printThreads" => Len(threadTotals) = item
  /\ pc = "done" => Len(threadTotals) = Len(counters)
  /\ \A i \in DOMAIN threadTotals : threadTotals[i] = threadTotal(counters[i])

=============================================================================
