------------------------------ MODULE Leftovers ------------------------------
(***************************************************************************)
(* What the PlayTests promise a database they are run on again and again.  *)
(* A test is a list of blocks.  A block cleans up behind itself, at its    *)
(* end; a run that throws or is killed leaves its block dirty.  The next   *)
(* run starts with the first block on what it finds.  A block refuses to   *)
(* work on the dirt of an earlier run, but for the few whose statements    *)
(* happen to remove it, their own or that of a later block.                *)
(***************************************************************************)
EXTENDS Naturals

CONSTANTS
  N,       \* number of blocks
  heals    \* block -> the blocks whose dirt of earlier runs it may remove

Blocks == 1..N

\* What the blocks of a test that implements this must satisfy; the tests that
\* do assume it of theirs.
LeftoversAssumption ==
  /\ N \in Nat
  /\ heals \in [Blocks -> SUBSET Blocks]

VARIABLES
  at,      \* the block the run is in, N + 1 when it has left the last one
  phase,   \* of the run: "running", "completed" or "failed"
  left,    \* the dirty blocks
  found    \* the blocks that were dirty when the run started

vars == <<at, phase, left, found>>

TypeOK ==
  /\ at \in 1..(N + 1)
  /\ phase \in { "running", "completed", "failed" }
  /\ left \subseteq Blocks
  /\ found \subseteq Blocks

Init ==
  /\ at = 1 /\ phase = "running"
  /\ left = {} /\ found = {}

\* What the blocks up to b may have cleaned for earlier runs.
HealedBy(b) == UNION { heals[a] : a \in 1..b }

\* A statement of the current block.  It may make its block dirty, or an
\* earlier one whose rows or tables it uses as well, and it may clean what this
\* run has made dirty or what has been healed by then.
Work ==
  /\ phase = "running" /\ at <= N
  /\ left' \in SUBSET Blocks
  /\ left' \ left \subseteq 1..at
  /\ left \ left' \subseteq HealedBy(at) \union ((1..at) \ found)
  /\ UNCHANGED <<at, phase, found>>

\* A block ends only when it and the blocks before it are clean.
Pass ==
  /\ phase = "running" /\ at <= N
  /\ (1..at) \intersect left = {}
  /\ at' = at + 1
  /\ UNCHANGED <<phase, left, found>>

Complete ==
  /\ phase = "running" /\ at = N + 1
  /\ phase' = "completed"
  /\ UNCHANGED <<at, left, found>>

\* A statement throws, an assertion of a debug build fails, or the process is
\* killed: nothing is rolled back.
Fail ==
  /\ phase = "running"
  /\ phase' = "failed"
  /\ UNCHANGED <<at, left, found>>

Restart ==
  /\ phase # "running"
  /\ phase' = "running" /\ at' = 1 /\ found' = left
  /\ UNCHANGED left

Next == Work \/ Pass \/ Complete \/ Fail \/ Restart

Spec == Init /\ [][Next]_vars

-----------------------------------------------------------------------------
(* Properties. *)

Healable == HealedBy(N)

\* A run that completes leaves every block clean, whatever it found.
CompletedRunCleans == phase = "completed" => left = {}

\* Dirt that no block heals stays for the whole of the runs that find it, and
\* stops each of them in its block at the latest.
StuckStops == \A c \in found \ Healable : c \in left /\ at <= c

\* One failed run is enough: once it has left dirt that no block heals, no
\* later run completes until somebody cleans the database by hand.
StuckForGood ==
  [](phase = "failed" /\ left \ Healable # {} => [](phase # "completed"))

=============================================================================
