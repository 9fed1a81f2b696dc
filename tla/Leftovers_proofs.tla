--------------------------- MODULE Leftovers_proofs ---------------------------
(* Repeated runs, for every number of blocks and whatever they heal. *)
EXTENDS Leftovers, TLAPS

\* The variables of the runs stay in their types.
THEOREM TypeCorrect ==
  ASSUME LeftoversAssumption PROVE Spec => []TypeOK
<1>1. Init => TypeOK
  BY DEF LeftoversAssumption, Init, TypeOK, Blocks
<1>2. TypeOK /\ [Next]_vars => TypeOK'
  <2> SUFFICES ASSUME TypeOK, [Next]_vars PROVE TypeOK'
    OBVIOUS
  <2> USE DEF LeftoversAssumption, TypeOK, Blocks
  <2>1. CASE Work
    BY <2>1 DEF Work
  <2>2. CASE Pass
    BY <2>2 DEF Pass
  <2>3. CASE Complete
    BY <2>3 DEF Complete
  <2>4. CASE Fail
    BY <2>4 DEF Fail
  <2>5. CASE Restart
    BY <2>5 DEF Restart
  <2>6. CASE UNCHANGED vars
    BY <2>6 DEF vars
  <2> QED
    BY <2>1, <2>2, <2>3, <2>4, <2>5, <2>6 DEF Next
<1> QED
  BY <1>1, <1>2, PTL DEF Spec

\* What a statement drops is either healed by its block or this run's own.
LEMMA WorkKeepsStuck ==
  ASSUME LeftoversAssumption, TypeOK, Work, NEW c \in left \ Healable, c \in found
  PROVE  c \in left'
<1>1. 1..at \subseteq 1..N
  BY DEF LeftoversAssumption, Work, TypeOK, Blocks
<1>2. c \notin HealedBy(at)
  BY <1>1 DEF Healable, HealedBy
<1> QED
  BY <1>2 DEF Work

\* Past the last block there is nothing left to make dirty.
CleanAtTheEnd == at = N + 1 => left = {}

Inv == TypeOK /\ CleanAtTheEnd /\ CompletedRunCleans /\ StuckStops

LEMMA InitInv ==
  ASSUME LeftoversAssumption PROVE Init => Inv
  BY DEF LeftoversAssumption, Init, Inv, TypeOK, CleanAtTheEnd, CompletedRunCleans, StuckStops, Blocks

LEMMA WorkInv ==
  ASSUME LeftoversAssumption PROVE Inv /\ TypeOK' /\ Work => Inv'
<1> SUFFICES ASSUME Inv, TypeOK', Work PROVE Inv'
  OBVIOUS
<1>1. CleanAtTheEnd'
  BY DEF LeftoversAssumption, Inv, TypeOK, CleanAtTheEnd, Work
<1>2. CompletedRunCleans'
  BY DEF CompletedRunCleans, Work
<1>3. StuckStops'
  BY WorkKeepsStuck DEF Inv, StuckStops, Work, Healable
<1> QED
  BY <1>1, <1>2, <1>3 DEF Inv

LEMMA PassInv ==
  ASSUME LeftoversAssumption PROVE Inv /\ TypeOK' /\ Pass => Inv'
<1> SUFFICES ASSUME Inv, TypeOK', Pass PROVE Inv'
  OBVIOUS
<1> USE DEF LeftoversAssumption, Inv, TypeOK, Blocks
<1>1. CleanAtTheEnd'
  BY DEF CleanAtTheEnd, Pass
<1>2. CompletedRunCleans'
  BY DEF CompletedRunCleans, Pass
<1>3. StuckStops'
  <2> SUFFICES ASSUME NEW c \in found \ Healable PROVE c \in left /\ at + 1 <= c
    BY DEF StuckStops, Healable, Pass
  <2>1. c \in left /\ at <= c /\ c \in Nat /\ at \in Nat
    BY DEF StuckStops
  <2>2. c # at
    BY <2>1 DEF Pass
  <2> QED
    BY <2>1, <2>2
<1> QED
  BY <1>1, <1>2, <1>3

LEMMA RestartInv ==
  ASSUME LeftoversAssumption PROVE Inv /\ TypeOK' /\ Restart => Inv'
<1> SUFFICES ASSUME Inv, TypeOK', Restart PROVE Inv'
  OBVIOUS
<1> USE DEF LeftoversAssumption, Inv, TypeOK, Blocks
<1>1. CleanAtTheEnd'
  BY DEF CleanAtTheEnd, Restart
<1>2. CompletedRunCleans'
  BY DEF CompletedRunCleans, Restart
<1>3. StuckStops'
  BY DEF StuckStops, Healable, Restart
<1> QED
  BY <1>1, <1>2, <1>3

\* Every step keeps the invariant.
LEMMA NextInv ==
  ASSUME LeftoversAssumption PROVE Inv /\ TypeOK' /\ [Next]_vars => Inv'
<1> SUFFICES ASSUME Inv, TypeOK', [Next]_vars PROVE Inv'
  OBVIOUS
<1>1. CASE Complete
  BY <1>1 DEF Inv, TypeOK, CleanAtTheEnd, CompletedRunCleans, StuckStops,
              Healable, Complete
<1>2. CASE Fail
  BY <1>2 DEF Inv, TypeOK, CleanAtTheEnd, CompletedRunCleans, StuckStops,
              Healable, Fail
<1>3. CASE UNCHANGED vars
  BY <1>3 DEF Inv, TypeOK, CleanAtTheEnd, CompletedRunCleans, StuckStops,
              Healable, Blocks, vars
<1> QED
  BY <1>1, <1>2, <1>3, WorkInv, PassInv, RestartInv DEF Next

LEMMA Invariance ==
  ASSUME LeftoversAssumption PROVE Spec => []Inv
  BY InitInv, NextInv, TypeCorrect, PTL DEF Spec

\* A run that completes leaves every block clean, however many runs failed
\* before it and wherever.
THEOREM CompletedRunCleansTheorem ==
  ASSUME LeftoversAssumption PROVE Spec => []CompletedRunCleans
<1>1. Inv => CompletedRunCleans
  BY DEF Inv
<1> QED
  BY <1>1, Invariance, PTL

\* Dirt that no block heals stays and stops the runs that find it.
THEOREM StuckStopsTheorem ==
  ASSUME LeftoversAssumption PROVE Spec => []StuckStops
<1>1. Inv => StuckStops
  BY DEF Inv
<1> QED
  BY <1>1, Invariance, PTL

-----------------------------------------------------------------------------
\* The dirt of a failed run, or of a later run that has found it.
StuckAt(c) == c \in left /\ (phase = "failed" \/ (phase = "running" /\ c \in found))

LEMMA StuckAtStays ==
  ASSUME LeftoversAssumption, NEW c \in Blocks \ Healable
  PROVE  Inv /\ StuckAt(c) /\ [Next]_vars => StuckAt(c)'
<1> SUFFICES ASSUME Inv, StuckAt(c), [Next]_vars PROVE StuckAt(c)'
  OBVIOUS
<1>1. CASE Work
  BY <1>1, WorkKeepsStuck DEF Inv, StuckAt, Work
<1>2. CASE Pass
  BY <1>2 DEF StuckAt, Pass
<1>3. CASE Complete
  <2>1. at <= c
    BY <1>3 DEF Inv, StuckStops, StuckAt, Complete
  <2> QED
    BY <1>3, <2>1 DEF LeftoversAssumption, Complete, Blocks
<1>4. CASE Fail
  BY <1>4 DEF StuckAt, Fail
<1>5. CASE Restart
  BY <1>5 DEF StuckAt, Restart
<1>6. CASE UNCHANGED vars
  BY <1>6 DEF StuckAt, vars
<1> QED
  BY <1>1, <1>2, <1>3, <1>4, <1>5, <1>6 DEF Next

Stuck == \E c \in Blocks \ Healable : StuckAt(c)

\* One failed run is enough: once it has left dirt that no block heals, no
\* later run completes.
THEOREM StuckForGoodTheorem ==
  ASSUME LeftoversAssumption PROVE Spec => StuckForGood
<1>1. Inv /\ phase = "failed" /\ left \ Healable # {} => Stuck
  BY DEF Stuck, StuckAt, Inv, TypeOK
<1>2. Stuck => phase # "completed"
  BY DEF Stuck, StuckAt
<1>3. Inv /\ Stuck /\ [Next]_vars => Stuck'
  <2> SUFFICES ASSUME Inv, Stuck, [Next]_vars PROVE Stuck'
    OBVIOUS
  <2>1. PICK c \in Blocks \ Healable : StuckAt(c)
    BY DEF Stuck
  <2>2. StuckAt(c)'
    BY <2>1, StuckAtStays
  <2> QED
    BY <2>1, <2>2 DEF Stuck, Blocks, Healable
<1> QED
  BY <1>1, <1>2, <1>3, Invariance, PTL DEF Spec, StuckForGood

=============================================================================
