--------------------------- MODULE RowBlocks_proofs ---------------------------
(***************************************************************************)
(* What TestQueryBuilder and TestTinyOrm leave in a database, for every    *)
(* number of runs, in debug and release builds.                            *)
(*                                                                         *)
(* A row and a changed column are both a mark that a block sets and        *)
(* removes.  The first part proves of every block that its script is       *)
(* WellFormed: it removes what it sets.  The second is the inductive       *)
(* invariant, the third its preservation, then the properties and the      *)
(* refinement of Leftovers.                                                *)
(***************************************************************************)
EXTENDS RowBlocks, TLAPS

-----------------------------------------------------------------------------
(* Marks and scripts *)

Columns ==
  { "torrents[5]", "torrents[1].progress", "torrents[3].progress", "torrents[3].name",
    "files[1].size", "tags[4].note" }

\* The first block that sets a mark.  The copy of torrent 3 is no mark: nothing
\* removes it.
Home(n) ==
  CASE n \in { "qrs.mkv", "ghi.mkv", "def.mkv", "qrs-update.mkv", "torrents[5]" } -> 1
    [] n \in { "tag500", "tag501" } -> 2
    [] n = "test50" -> 5
    [] n = "test1_file2.mkv" -> 7
    [] n = "torrents[1].progress" -> 8
    [] n \in { "test100", "test100_create" } -> 9
    [] n = "torrents[3].progress" -> 10
    [] n = "torrents[3].name" -> 11
    [] n \in { "test5_file4.mkv_of_5", "test5_file4.mkv_of_2" } -> 13
    [] n \in { "tag100", "tag101" } -> 15
    [] n = "test101" -> 16
    [] n \in { "tag102", "tag103" } -> 21
    [] n \in { "test102", "test103" } -> 22
    [] n \in { "test1_fileXX.mkv", "test1_fileYY.mkv", "files[1].size" } -> 23
    [] n \in { "tag20", "tag21", "tag40", "tags[4].note" } -> 24
    [] OTHER -> 0

LastBlock == 24

\* The blocks whose leftovers a block may remove.
HealedBlocks(b) ==
  IF b = 1 THEN { 1, 13 } ELSE IF b \in { 5, 23, 24 } THEN { b } ELSE {}

\* What a statement sets, what it removes for certain, and what it may remove.
Adds(s) ==
  IF s.op \in { "insert", "insertOrIgnore", "firstOrCreate", "rename", "increment" } THEN s.to
  ELSE IF s.op \in { "change", "updateJoin" } THEN s.of ELSE {}

Removes(s) ==
  IF s.op \in { "rename", "remove", "restore" } THEN s.of
  ELSE IF s.op = "decrement" THEN s.to ELSE {}

MayRemove(s) == IF s.op = "removeTwo" THEN s.of ELSE Removes(s)

\* The statements before p have set n.
Written(script, p, n) == \E i \in 1..(p - 1) : n \in Adds(script[i])

\* The statements before p have removed n, and not set it since.
Gone(script, p, n) ==
  \E i \in 1..(p - 1) :
    /\ n \in Removes(script[i])
    /\ \A j \in (i + 1)..(p - 1) : n \notin Adds(script[j])

RowOps ==
  { "insert", "insertOrIgnore", "firstOrCreate", "assertAbsent", "rename", "remove", "removeTwo" }
ColumnOps  == { "change", "updateJoin", "restore", "assertSeed" }
CountOps   == { "remember", "changeBy", "setBack", "increment", "decrement" }

StatementOk(b, s) ==
  /\ s.op \in RowOps \union ColumnOps \union CountOps
  /\ s.op \in RowOps => (s.of \union s.to) \intersect Columns = {}
  /\ s.op \in ColumnOps => s.of \subseteq Columns
  /\ s.op \in CountOps => b \in { 6, 8 } /\ s.to \subseteq Columns
  /\ s.op = "rename" => s.of \intersect s.to = {}
  \* only TestTinyOrm's firstOrCreateFound copies torrent 3, nothing removes the copy
  /\ \A n \in Adds(s) : IF n = "test3" THEN b = 4 ELSE Home(n) \in 1..b
  /\ "test3" \notin MayRemove(s)
  \* what may be there already
  /\ s.op \in { "insertOrIgnore", "firstOrCreate" } =>
       \A n \in s.to : n = "test3" \/ Home(n) \in HealedBlocks(b)

WellFormed(b, script) ==
  /\ Len(script) \in Nat /\ DOMAIN script = 1..Len(script)
  /\ \A p \in 1..Len(script) : StatementOk(b, script[p])
  /\ \A p \in 1..Len(script) : \A n \in Adds(script[p]) \ { "test3" } :
       Gone(script, Len(script) + 1, n)
  /\ \A p \in 1..Len(script) : \A n \in MayRemove(script[p]) :
       Home(n) \in HealedBlocks(b) \/ Written(script, p, n)

\* A block sets the marks of which it is the home.
SetsItsMarks(b, script) ==
  \A n : Home(n) = b => \E p \in 1..Len(script) : n \in Adds(script[p])

LEMMA InsertIs ==
  ASSUME NEW m
  PROVE  /\ Adds(Insert(m)) = { m } /\ Removes(Insert(m)) = {}
         /\ MayRemove(Insert(m)) = {}
  BY DEF Insert, Statement, Adds, Removes, MayRemove

LEMMA InsertOrIgnoreIs ==
  ASSUME NEW ns
  PROVE  /\ Adds(InsertOrIgnore(ns)) = ns /\ Removes(InsertOrIgnore(ns)) = {}
         /\ MayRemove(InsertOrIgnore(ns)) = {}
  BY DEF InsertOrIgnore, Statement, Adds, Removes, MayRemove

LEMMA FirstOrCreateIs ==
  ASSUME NEW m
  PROVE  /\ Adds(FirstOrCreate(m)) = { m } /\ Removes(FirstOrCreate(m)) = {}
         /\ MayRemove(FirstOrCreate(m)) = {}
  BY DEF FirstOrCreate, Statement, Adds, Removes, MayRemove

LEMMA RenameIs ==
  ASSUME NEW m, NEW k
  PROVE  /\ Adds(Rename(m, k)) = { k } /\ Removes(Rename(m, k)) = { m }
         /\ MayRemove(Rename(m, k)) = { m }
  BY DEF Rename, Statement, Adds, Removes, MayRemove

LEMMA RemoveIs ==
  ASSUME NEW ns
  PROVE  /\ Adds(Remove(ns)) = {} /\ Removes(Remove(ns)) = ns
         /\ MayRemove(Remove(ns)) = ns
  BY DEF Remove, Statement, Adds, Removes, MayRemove

LEMMA RemoveTwoIs ==
  ASSUME NEW ns
  PROVE  /\ Adds(RemoveTwo(ns)) = {} /\ Removes(RemoveTwo(ns)) = {}
         /\ MayRemove(RemoveTwo(ns)) = ns
  BY DEF RemoveTwo, Statement, Adds, Removes, MayRemove

LEMMA AssertAbsentIs ==
  ASSUME NEW m
  PROVE  /\ Adds(AssertAbsent(m)) = {} /\ Removes(AssertAbsent(m)) = {}
         /\ MayRemove(AssertAbsent(m)) = {}
  BY DEF AssertAbsent, Statement, Adds, Removes, MayRemove

LEMMA AssertSeedIs ==
  ASSUME NEW m
  PROVE  /\ Adds(AssertSeed(m)) = {} /\ Removes(AssertSeed(m)) = {}
         /\ MayRemove(AssertSeed(m)) = {}
  BY DEF AssertSeed, Statement, Adds, Removes, MayRemove

LEMMA ChangeIs ==
  ASSUME NEW m
  PROVE  /\ Adds(Change(m)) = { m } /\ Removes(Change(m)) = {}
         /\ MayRemove(Change(m)) = {}
  BY DEF Change, Statement, Adds, Removes, MayRemove

LEMMA UpdateJoinIs ==
  ASSUME NEW m
  PROVE  /\ Adds(UpdateJoin(m)) = { m } /\ Removes(UpdateJoin(m)) = {}
         /\ MayRemove(UpdateJoin(m)) = {}
  BY DEF UpdateJoin, Statement, Adds, Removes, MayRemove

LEMMA RestoreIs ==
  ASSUME NEW m
  PROVE  /\ Adds(Restore(m)) = {} /\ Removes(Restore(m)) = { m }
         /\ MayRemove(Restore(m)) = { m }
  BY DEF Restore, Statement, Adds, Removes, MayRemove

LEMMA RememberIs ==
  ASSUME NEW m
  PROVE  /\ Adds(Remember(m)) = {} /\ Removes(Remember(m)) = {}
         /\ MayRemove(Remember(m)) = {}
  BY DEF Remember, Statement, Adds, Removes, MayRemove

LEMMA ChangeByIs ==
  ASSUME NEW m
  PROVE  /\ Adds(ChangeBy(m)) = {} /\ Removes(ChangeBy(m)) = {}
         /\ MayRemove(ChangeBy(m)) = {}
  BY DEF ChangeBy, Statement, Adds, Removes, MayRemove

LEMMA SetBackIs ==
  ASSUME NEW m
  PROVE  /\ Adds(SetBack(m)) = {} /\ Removes(SetBack(m)) = {}
         /\ MayRemove(SetBack(m)) = {}
  BY DEF SetBack, Statement, Adds, Removes, MayRemove

LEMMA IncrementIs ==
  ASSUME NEW m, NEW k
  PROVE  /\ Adds(Increment(m, k)) = { k } /\ Removes(Increment(m, k)) = {}
         /\ MayRemove(Increment(m, k)) = {}
  BY DEF Increment, Statement, Adds, Removes, MayRemove

LEMMA DecrementIs ==
  ASSUME NEW m, NEW k
  PROVE  /\ Adds(Decrement(m, k)) = {} /\ Removes(Decrement(m, k)) = { k }
         /\ MayRemove(Decrement(m, k)) = { k }
  BY DEF Decrement, Statement, Adds, Removes, MayRemove

LEMMA InsertOk ==
  ASSUME NEW b \in 1..LastBlock, NEW m,
         m \notin Columns, Home(m) \in 1..b, m # "test3"
  PROVE  StatementOk(b, Insert(m))
<1> DEFINE s == Insert(m)
<1>1. s.op = "insert" /\ s.of = { m } /\ s.to = { m }
  BY DEF Insert, Statement
<1> HIDE DEF s
<1>2. StatementOk(b, s)
  BY <1>1 DEF StatementOk, RowOps, ColumnOps, CountOps, Adds, MayRemove, Removes
<1> QED
  BY <1>2 DEF s

LEMMA FirstOrCreateOk ==
  ASSUME NEW b \in 1..LastBlock, NEW m,
         m \notin Columns, Home(m) \in 1..b, Home(m) \in HealedBlocks(b), m # "test3"
  PROVE  StatementOk(b, FirstOrCreate(m))
<1> DEFINE s == FirstOrCreate(m)
<1>1. s.op = "firstOrCreate" /\ s.of = { m } /\ s.to = { m }
  BY DEF FirstOrCreate, Statement
<1> HIDE DEF s
<1>2. StatementOk(b, s)
  BY <1>1 DEF StatementOk, RowOps, ColumnOps, CountOps, Adds, MayRemove, Removes
<1> QED
  BY <1>2 DEF s

LEMMA RenameOk ==
  ASSUME NEW b \in 1..LastBlock, NEW m, NEW k,
         m \notin Columns, k \notin Columns, Home(k) \in 1..b, m # k,
         m # "test3", k # "test3"
  PROVE  StatementOk(b, Rename(m, k))
<1> DEFINE s == Rename(m, k)
<1>1. s.op = "rename" /\ s.of = { m } /\ s.to = { k }
  BY DEF Rename, Statement
<1> HIDE DEF s
<1>2. StatementOk(b, s)
  BY <1>1 DEF StatementOk, RowOps, ColumnOps, CountOps, Adds, MayRemove, Removes
<1> QED
  BY <1>2 DEF s

LEMMA RemoveOk ==
  ASSUME NEW b \in 1..LastBlock, NEW ns,
         ns \intersect Columns = {}, "test3" \notin ns
  PROVE  StatementOk(b, Remove(ns))
<1> DEFINE s == Remove(ns)
<1>1. s.op = "remove" /\ s.of = ns /\ s.to = {}
  BY DEF Remove, Statement
<1> HIDE DEF s
<1>2. StatementOk(b, s)
  BY <1>1 DEF StatementOk, RowOps, ColumnOps, CountOps, Adds, MayRemove, Removes
<1> QED
  BY <1>2 DEF s

LEMMA RemoveTwoOk ==
  ASSUME NEW b \in 1..LastBlock, NEW ns,
         ns \intersect Columns = {}, "test3" \notin ns
  PROVE  StatementOk(b, RemoveTwo(ns))
<1> DEFINE s == RemoveTwo(ns)
<1>1. s.op = "removeTwo" /\ s.of = ns /\ s.to = {}
  BY DEF RemoveTwo, Statement
<1> HIDE DEF s
<1>2. StatementOk(b, s)
  BY <1>1 DEF StatementOk, RowOps, ColumnOps, CountOps, Adds, MayRemove, Removes
<1> QED
  BY <1>2 DEF s

LEMMA AssertAbsentOk ==
  ASSUME NEW b \in 1..LastBlock, NEW m,
         m \notin Columns
  PROVE  StatementOk(b, AssertAbsent(m))
<1> DEFINE s == AssertAbsent(m)
<1>1. s.op = "assertAbsent" /\ s.of = { m } /\ s.to = {}
  BY DEF AssertAbsent, Statement
<1> HIDE DEF s
<1>2. StatementOk(b, s)
  BY <1>1 DEF StatementOk, RowOps, ColumnOps, CountOps, Adds, MayRemove, Removes
<1> QED
  BY <1>2 DEF s

LEMMA AssertSeedOk ==
  ASSUME NEW b \in 1..LastBlock, NEW m,
         m \in Columns
  PROVE  StatementOk(b, AssertSeed(m))
<1> DEFINE s == AssertSeed(m)
<1>1. s.op = "assertSeed" /\ s.of = { m } /\ s.to = {}
  BY DEF AssertSeed, Statement
<1> HIDE DEF s
<1>2. StatementOk(b, s)
  BY <1>1 DEF StatementOk, RowOps, ColumnOps, CountOps, Adds, MayRemove, Removes, Columns
<1> QED
  BY <1>2 DEF s

LEMMA RestoreOk ==
  ASSUME NEW b \in 1..LastBlock, NEW m,
         m \in Columns
  PROVE  StatementOk(b, Restore(m))
<1> DEFINE s == Restore(m)
<1>1. s.op = "restore" /\ s.of = { m } /\ s.to = {}
  BY DEF Restore, Statement
<1> HIDE DEF s
<1>2. StatementOk(b, s)
  BY <1>1 DEF StatementOk, RowOps, ColumnOps, CountOps, Adds, MayRemove, Removes, Columns
<1> QED
  BY <1>2 DEF s

LEMMA ChangeOk ==
  ASSUME NEW b \in 1..LastBlock, NEW m,
         m \in Columns, Home(m) \in 1..b
  PROVE  StatementOk(b, Change(m))
<1> DEFINE s == Change(m)
<1>1. s.op = "change" /\ s.of = { m } /\ s.to = {}
  BY DEF Change, Statement
<1> HIDE DEF s
<1>2. StatementOk(b, s)
  BY <1>1 DEF StatementOk, RowOps, ColumnOps, CountOps, Adds, MayRemove, Removes, Columns
<1> QED
  BY <1>2 DEF s

LEMMA UpdateJoinOk ==
  ASSUME NEW b \in 1..LastBlock, NEW m,
         m \in Columns, Home(m) \in 1..b
  PROVE  StatementOk(b, UpdateJoin(m))
<1> DEFINE s == UpdateJoin(m)
<1>1. s.op = "updateJoin" /\ s.of = { m } /\ s.to = {}
  BY DEF UpdateJoin, Statement
<1> HIDE DEF s
<1>2. StatementOk(b, s)
  BY <1>1 DEF StatementOk, RowOps, ColumnOps, CountOps, Adds, MayRemove, Removes, Columns
<1> QED
  BY <1>2 DEF s

\* A function that saves models and removes them in the same order.
LEMMA SavedAndRemovedWellFormed ==
  ASSUME NEW b \in 1..LastBlock, NEW names, Len(names) \in Nat,
         \A i \in 1..Len(names) :
           names[i] \notin Columns /\ Home(names[i]) \in 1..b /\ names[i] # "test3"
  PROVE  /\ WellFormed(b, SavedAndRemoved(names))
         /\ Len(SavedAndRemoved(names)) = 2 * Len(names)
         /\ \A i \in 1..Len(names) : names[i] \in Adds(SavedAndRemoved(names)[i])
<1> DEFINE script == SavedAndRemoved(names)
           k == Len(names)
<1>1. Len(script) = 2 * k /\ DOMAIN script = 1..(2 * k)
  BY DEF SavedAndRemoved
<1>2. /\ \A i \in 1..k : script[i] = Insert(names[i])
      /\ \A i \in (k + 1)..(2 * k) : script[i] = Remove({ names[i - k] })
  BY DEF SavedAndRemoved
<1> HIDE DEF script
<1>3. \A p \in 1..(2 * k) : p \in 1..k \/ (p \in (k + 1)..(2 * k) /\ p - k \in 1..k)
  OBVIOUS
<1>4. ASSUME NEW i \in 1..k
      PROVE  /\ Adds(script[i]) = { names[i] } /\ MayRemove(script[i]) = {}
             /\ StatementOk(b, script[i])
  BY <1>2, InsertIs, InsertOk
<1>5. ASSUME NEW i \in (k + 1)..(2 * k)
      PROVE  /\ Adds(script[i]) = {} /\ MayRemove(script[i]) = { names[i - k] }
             /\ Removes(script[i]) = { names[i - k] }
             /\ StatementOk(b, script[i])
  <2>1. names[i - k] \notin Columns /\ names[i - k] # "test3"
    BY <1>3
  <2>2. { names[i - k] } \intersect Columns = {} /\ "test3" \notin { names[i - k] }
    BY <2>1
  <2> QED
    BY <1>2, <2>2, RemoveIs, RemoveOk
<1>6. ASSUME NEW p \in 1..(2 * k), NEW n \in Adds(script[p]) PROVE Gone(script, 2 * k + 1, n)
  <2>1. p \in 1..k /\ n = names[p]
    BY <1>3, <1>4, <1>5
  <2>2. p + k \in (k + 1)..(2 * k) /\ (p + k) - k = p
    BY <2>1
  <2>3. n \in Removes(script[p + k])
    BY <1>5, <2>1, <2>2
  <2>4. \A j \in ((p + k) + 1)..((2 * k + 1) - 1) : n \notin Adds(script[j])
    <3> SUFFICES ASSUME NEW j \in ((p + k) + 1)..((2 * k + 1) - 1) PROVE n \notin Adds(script[j])
      OBVIOUS
    <3>1. j \in (k + 1)..(2 * k)
      BY <2>1
    <3> QED
      BY <1>5, <3>1
  <2>5. p + k \in 1..((2 * k + 1) - 1)
    BY <2>1
  <2> QED
    BY <2>3, <2>4, <2>5 DEF Gone
<1>7. ASSUME NEW p \in 1..(2 * k), NEW n \in MayRemove(script[p]) PROVE Written(script, p, n)
  <2>1. p \in (k + 1)..(2 * k) /\ n = names[p - k] /\ p - k \in 1..k
    BY <1>3, <1>4, <1>5
  <2>2. p - k \in 1..(p - 1)
    BY <2>1
  <2>3. n \in Adds(script[p - k])
    BY <1>4, <2>1
  <2> QED
    BY <2>2, <2>3 DEF Written
<1>8. WellFormed(b, script)
  BY <1>1, <1>3, <1>4, <1>5, <1>6, <1>7 DEF WellFormed
<1> QED
  BY <1>1, <1>4, <1>8 DEF script

\* A column that is changed and restored.
LEMMA ChangeRestore ==
  ASSUME NEW b \in 1..LastBlock, NEW c \in Columns, Home(c) \in 1..b
  PROVE  /\ WellFormed(b, << Change(c), Restore(c) >>)
         /\ Len(<< Change(c), Restore(c) >>) = 2
         /\ c \in Adds(<< Change(c), Restore(c) >>[1])
<1> DEFINE script == << Change(c), Restore(c) >>
<1>1. /\ Len(script) = 2 /\ DOMAIN script = 1..2
      /\ script[1] = Change(c) /\ script[2] = Restore(c)
  OBVIOUS
<1> HIDE DEF script
<1>2. \A p \in 1..2 : p \in { 1, 2 }
  OBVIOUS
<1>3. /\ Adds(script[1]) = { c } /\ Adds(script[2]) = {} /\ Removes(script[2]) = { c }
      /\ MayRemove(script[1]) = {} /\ MayRemove(script[2]) = { c }
  BY <1>1, ChangeIs, RestoreIs
<1>4. \A p \in 1..2 : StatementOk(b, script[p])
  BY <1>1, <1>2, ChangeOk, RestoreOk
<1>5. Gone(script, 3, c) /\ Written(script, 2, c)
  BY <1>3 DEF Gone, Written
<1>6. WellFormed(b, script)
  BY <1>1, <1>2, <1>3, <1>4, <1>5 DEF WellFormed
<1> QED
  BY <1>1, <1>3, <1>6 DEF script

\* The other functions, statement by statement.
LEMMA QueryBuilderWellFormed == WellFormed(1, queryBuilderWrites) /\ SetsItsMarks(1, queryBuilderWrites)
<1> DEFINE script == queryBuilderWrites
<1>1. /\ Len(script) = 7 /\ DOMAIN script = 1..7
      /\ script[1] = Insert("qrs.mkv")
      /\ script[2] = InsertOrIgnore({ "qrs.mkv", "ghi.mkv", "def.mkv" })
      /\ script[3] = Rename("qrs.mkv", "qrs-update.mkv")
      /\ script[4] = UpdateJoin("torrents[5]")
      /\ script[5] = RemoveTwo(FilesOfTorrent5)
      /\ script[6] = Remove(FilesOfTorrent5)
      /\ script[7] = Restore("torrents[5]")
  BY DEF queryBuilderWrites, insertOrIgnore, updateDeleteWithLimitJoin, updateRestore
<1> HIDE DEF script
<1>2. \A p \in 1..7 : p \in { 1, 2, 3, 4, 5, 6, 7 }
  OBVIOUS
<1>3. /\ Adds(script[1]) = { "qrs.mkv" } /\ MayRemove(script[1]) = {}
      /\ Adds(script[2]) = { "qrs.mkv", "ghi.mkv", "def.mkv" } /\ MayRemove(script[2]) = {}
      /\ Adds(script[3]) = { "qrs-update.mkv" }
      /\ Removes(script[3]) = { "qrs.mkv" }
      /\ MayRemove(script[3]) = Removes(script[3])
      /\ Adds(script[4]) = { "torrents[5]" } /\ MayRemove(script[4]) = {}
      /\ Adds(script[5]) = {}
      /\ MayRemove(script[5]) = { "qrs.mkv", "qrs-update.mkv", "ghi.mkv", "def.mkv", "test5_file4.mkv_of_5" }
      /\ Adds(script[6]) = {}
      /\ Removes(script[6]) = { "qrs.mkv", "qrs-update.mkv", "ghi.mkv", "def.mkv", "test5_file4.mkv_of_5" }
      /\ MayRemove(script[6]) = Removes(script[6])
      /\ Adds(script[7]) = {}
      /\ Removes(script[7]) = { "torrents[5]" }
      /\ MayRemove(script[7]) = Removes(script[7])
  <2>1. /\ Adds(script[1]) = { "qrs.mkv" }
       /\ MayRemove(script[1]) = {}
    BY <1>1, InsertIs
  <2>2. /\ Adds(script[2]) = { "qrs.mkv", "ghi.mkv", "def.mkv" }
       /\ MayRemove(script[2]) = {}
    BY <1>1, InsertOrIgnoreIs
  <2>3. /\ Adds(script[3]) = { "qrs-update.mkv" }
       /\ Removes(script[3]) = { "qrs.mkv" }
       /\ MayRemove(script[3]) = { "qrs.mkv" }
    BY <1>1, RenameIs
  <2>4. /\ Adds(script[4]) = { "torrents[5]" }
       /\ MayRemove(script[4]) = {}
    BY <1>1, UpdateJoinIs
  <2>5. /\ Adds(script[5]) = {}
       /\ MayRemove(script[5]) = { "qrs.mkv", "qrs-update.mkv", "ghi.mkv", "def.mkv", "test5_file4.mkv_of_5" }
    BY <1>1, RemoveTwoIs DEF FilesOfTorrent5
  <2>6. /\ Adds(script[6]) = {}
       /\ Removes(script[6]) = { "qrs.mkv", "qrs-update.mkv", "ghi.mkv", "def.mkv", "test5_file4.mkv_of_5" }
       /\ MayRemove(script[6]) = { "qrs.mkv", "qrs-update.mkv", "ghi.mkv", "def.mkv", "test5_file4.mkv_of_5" }
    BY <1>1, RemoveIs DEF FilesOfTorrent5
  <2>7. /\ Adds(script[7]) = {}
       /\ Removes(script[7]) = { "torrents[5]" }
       /\ MayRemove(script[7]) = { "torrents[5]" }
    BY <1>1, RestoreIs
  <2> QED
    BY <2>1, <2>2, <2>3, <2>4, <2>5, <2>6, <2>7
<1>4. /\ Home("qrs.mkv") = 1
      /\ Home("ghi.mkv") = 1
      /\ Home("def.mkv") = 1
      /\ Home("qrs-update.mkv") = 1
      /\ Home("torrents[5]") = 1
      /\ Home("test5_file4.mkv_of_5") = 13
  BY DEF Home
<1>5. \A p \in 1..7 : StatementOk(1, script[p])
  <2>1. StatementOk(1, script[1])
    <3>1. /\ "qrs.mkv" \notin Columns
          /\ Home("qrs.mkv") \in 1..1
          /\ 1 \in 1..LastBlock
      BY <1>4 DEF Columns, LastBlock
    <3> QED
      BY <1>1, <3>1, InsertOk
  <2>2. StatementOk(1, script[2])
    <3>1. /\ script[2].op = "insertOrIgnore"
          /\ script[2].of = { "qrs.mkv", "ghi.mkv", "def.mkv" }
          /\ script[2].to = { "qrs.mkv", "ghi.mkv", "def.mkv" }
      BY <1>1 DEF InsertOrIgnore, Statement
    <3> QED
      BY <1>3, <1>4, <3>1 DEF StatementOk, RowOps, ColumnOps, CountOps, Columns, HealedBlocks
  <2>3. StatementOk(1, script[3])
    <3>1. /\ "qrs.mkv" \notin Columns
          /\ "qrs-update.mkv" \notin Columns
          /\ Home("qrs-update.mkv") \in 1..1
          /\ 1 \in 1..LastBlock
      BY <1>4 DEF Columns, LastBlock
    <3> QED
      BY <1>1, <3>1, RenameOk
  <2>4. StatementOk(1, script[4])
    <3>1. /\ "torrents[5]" \in Columns
          /\ Home("torrents[5]") \in 1..1
          /\ 1 \in 1..LastBlock
      BY <1>4 DEF Columns, LastBlock
    <3> QED
      BY <1>1, <3>1, UpdateJoinOk
  <2>5. StatementOk(1, script[5])
    <3>1. FilesOfTorrent5 \intersect Columns = {} /\ "test3" \notin FilesOfTorrent5 /\ 1 \in 1..LastBlock
      BY DEF Columns, LastBlock, FilesOfTorrent5
    <3> QED
      BY <1>1, <3>1, RemoveTwoOk
  <2>6. StatementOk(1, script[6])
    <3>1. FilesOfTorrent5 \intersect Columns = {} /\ "test3" \notin FilesOfTorrent5 /\ 1 \in 1..LastBlock
      BY DEF Columns, LastBlock, FilesOfTorrent5
    <3> QED
      BY <1>1, <3>1, RemoveOk
  <2>7. StatementOk(1, script[7])
    <3>1. /\ "torrents[5]" \in Columns
          /\ 1 \in 1..LastBlock
      BY <1>4 DEF Columns, LastBlock
    <3> QED
      BY <1>1, <3>1, RestoreOk
  <2> QED
    BY <1>2, <2>1, <2>2, <2>3, <2>4, <2>5, <2>6, <2>7
<1>6. /\ Gone(script, 8, "qrs.mkv")
      /\ Gone(script, 8, "ghi.mkv")
      /\ Gone(script, 8, "def.mkv")
      /\ Gone(script, 8, "qrs-update.mkv")
      /\ Gone(script, 8, "torrents[5]")
  <2>1. Gone(script, 8, "qrs.mkv")
    <3>1. "qrs.mkv" \in Removes(script[6]) /\ 6 \in 1..(8 - 1)
      BY <1>3
    <3>2. \A j \in (6 + 1)..(8 - 1) : "qrs.mkv" \notin Adds(script[j])
      BY <1>2, <1>3
    <3> QED
      BY <3>1, <3>2 DEF Gone
  <2>2. Gone(script, 8, "ghi.mkv")
    <3>1. "ghi.mkv" \in Removes(script[6]) /\ 6 \in 1..(8 - 1)
      BY <1>3
    <3>2. \A j \in (6 + 1)..(8 - 1) : "ghi.mkv" \notin Adds(script[j])
      BY <1>2, <1>3
    <3> QED
      BY <3>1, <3>2 DEF Gone
  <2>3. Gone(script, 8, "def.mkv")
    <3>1. "def.mkv" \in Removes(script[6]) /\ 6 \in 1..(8 - 1)
      BY <1>3
    <3>2. \A j \in (6 + 1)..(8 - 1) : "def.mkv" \notin Adds(script[j])
      BY <1>2, <1>3
    <3> QED
      BY <3>1, <3>2 DEF Gone
  <2>4. Gone(script, 8, "qrs-update.mkv")
    <3>1. "qrs-update.mkv" \in Removes(script[6]) /\ 6 \in 1..(8 - 1)
      BY <1>3
    <3>2. \A j \in (6 + 1)..(8 - 1) : "qrs-update.mkv" \notin Adds(script[j])
      BY <1>2, <1>3
    <3> QED
      BY <3>1, <3>2 DEF Gone
  <2>5. Gone(script, 8, "torrents[5]")
    <3>1. "torrents[5]" \in Removes(script[7]) /\ 7 \in 1..(8 - 1)
      BY <1>3
    <3>2. \A j \in (7 + 1)..(8 - 1) : "torrents[5]" \notin Adds(script[j])
      BY <1>2, <1>3
    <3> QED
      BY <3>1, <3>2 DEF Gone
  <2> QED
    BY <2>1, <2>2, <2>3, <2>4, <2>5
<1>7. \A p \in 1..7 : \A n \in Adds(script[p]) \ { "test3" } : Gone(script, 7 + 1, n)
  BY <1>2, <1>3, <1>6
<1>8. \A p \in 1..7 : \A n \in MayRemove(script[p]) :
        Home(n) \in HealedBlocks(1) \/ Written(script, p, n)
  BY <1>2, <1>3, <1>4 DEF HealedBlocks
<1>9. WellFormed(1, script)
  BY <1>1, <1>5, <1>7, <1>8 DEF WellFormed
<1>10. SetsItsMarks(1, script)
  <2>1. \A n : Home(n) = 1 => n \in { "qrs.mkv", "ghi.mkv", "def.mkv", "qrs-update.mkv", "torrents[5]" }
    BY DEF Home
  <2>2. 1 \in 1..7 /\ 2 \in 1..7 /\ 3 \in 1..7 /\ 4 \in 1..7
    OBVIOUS
  <2> QED
    BY <1>1, <1>3, <2>1, <2>2 DEF SetsItsMarks
<1> QED
  BY <1>9, <1>10 DEF script

LEMMA FindOrNewWellFormed == WellFormed(3, findOrNewFound)
<1> DEFINE script == findOrNewFound
<1>1. /\ Len(script) = 1 /\ DOMAIN script = 1..1
      /\ script[1] = AssertSeed("torrents[3].name")
  BY DEF findOrNewFound
<1> HIDE DEF script
<1>2. \A p \in 1..1 : p \in { 1 }
  OBVIOUS
<1>3. /\ Adds(script[1]) = {} /\ MayRemove(script[1]) = {}
  BY <1>1, AssertSeedIs
<1>4. \A p \in 1..1 : StatementOk(3, script[p])
  <2>1. StatementOk(3, script[1])
    <3>1. /\ "torrents[3].name" \in Columns
          /\ 3 \in 1..LastBlock
      BY DEF Columns, LastBlock
    <3> QED
      BY <1>1, <3>1, AssertSeedOk
  <2> QED
    BY <1>2, <2>1
<1>5. \A p \in 1..1 : \A n \in Adds(script[p]) \ { "test3" } : Gone(script, 1 + 1, n)
  BY <1>2, <1>3
<1>6. \A p \in 1..1 : \A n \in MayRemove(script[p]) :
        Home(n) \in HealedBlocks(3) \/ Written(script, p, n)
  BY <1>2, <1>3 DEF HealedBlocks
<1>7. WellFormed(3, script)
  BY <1>1, <1>4, <1>5, <1>6 DEF WellFormed
<1> QED
  BY <1>7 DEF script

LEMMA FirstOrCreateWellFormed == WellFormed(4, firstOrCreateFound)
<1> DEFINE script == firstOrCreateFound
<1>1. /\ Len(script) = 1 /\ DOMAIN script = 1..1
      /\ script[1] = FirstOrCreate("test3")
  BY DEF firstOrCreateFound
<1> HIDE DEF script
<1>2. \A p \in 1..1 : p \in { 1 }
  OBVIOUS
<1>3. /\ Adds(script[1]) = { "test3" } /\ MayRemove(script[1]) = {}
  BY <1>1, FirstOrCreateIs
<1>4. \A p \in 1..1 : StatementOk(4, script[p])
  <2>1. StatementOk(4, script[1])
    <3>1. /\ script[1].op = "firstOrCreate"
          /\ script[1].of = { "test3" }
          /\ script[1].to = { "test3" }
      BY <1>1 DEF FirstOrCreate, Statement
    <3> QED
      BY <1>3, <3>1 DEF StatementOk, RowOps, ColumnOps, CountOps, Columns, HealedBlocks
  <2> QED
    BY <1>2, <2>1
<1>5. \A p \in 1..1 : \A n \in Adds(script[p]) \ { "test3" } : Gone(script, 1 + 1, n)
  BY <1>2, <1>3
<1>6. \A p \in 1..1 : \A n \in MayRemove(script[p]) :
        Home(n) \in HealedBlocks(4) \/ Written(script, p, n)
  BY <1>2, <1>3 DEF HealedBlocks
<1>7. WellFormed(4, script)
  BY <1>1, <1>4, <1>5, <1>6 DEF WellFormed
<1> QED
  BY <1>7 DEF script

LEMMA NotFoundWellFormed == WellFormed(5, firstOrCreateNotFound) /\ SetsItsMarks(5, firstOrCreateNotFound)
<1> DEFINE script == firstOrCreateNotFound
<1>1. /\ Len(script) = 2 /\ DOMAIN script = 1..2
      /\ script[1] = FirstOrCreate("test50")
      /\ script[2] = Remove({ "test50" })
  BY DEF firstOrCreateNotFound
<1> HIDE DEF script
<1>2. \A p \in 1..2 : p \in { 1, 2 }
  OBVIOUS
<1>3. /\ Adds(script[1]) = { "test50" } /\ MayRemove(script[1]) = {}
      /\ Adds(script[2]) = {}
      /\ Removes(script[2]) = { "test50" }
      /\ MayRemove(script[2]) = Removes(script[2])
  BY <1>1, FirstOrCreateIs, RemoveIs
<1>4. /\ Home("test50") = 5
  BY DEF Home
<1>5. \A p \in 1..2 : StatementOk(5, script[p])
  <2>1. StatementOk(5, script[1])
    <3>1. /\ "test50" \notin Columns
          /\ Home("test50") \in 1..5
          /\ Home("test50") \in HealedBlocks(5)
          /\ 5 \in 1..LastBlock
      BY <1>4 DEF Columns, LastBlock, HealedBlocks
    <3> QED
      BY <1>1, <3>1, FirstOrCreateOk
  <2>2. StatementOk(5, script[2])
    <3>1. { "test50" } \intersect Columns = {} /\ "test3" \notin { "test50" } /\ 5 \in 1..LastBlock
      BY DEF Columns, LastBlock
    <3> QED
      BY <1>1, <3>1, RemoveOk
  <2> QED
    BY <1>2, <2>1, <2>2
<1>6. /\ Gone(script, 3, "test50")
  <2>1. Gone(script, 3, "test50")
    <3>1. "test50" \in Removes(script[2]) /\ 2 \in 1..(3 - 1)
      BY <1>3
    <3>2. \A j \in (2 + 1)..(3 - 1) : "test50" \notin Adds(script[j])
      BY <1>2, <1>3
    <3> QED
      BY <3>1, <3>2 DEF Gone
  <2> QED
    BY <2>1
<1>7. \A p \in 1..2 : \A n \in Adds(script[p]) \ { "test3" } : Gone(script, 2 + 1, n)
  BY <1>2, <1>3, <1>6
<1>8. \A p \in 1..2 : \A n \in MayRemove(script[p]) :
        Home(n) \in HealedBlocks(5) \/ Written(script, p, n)
  BY <1>2, <1>3, <1>4 DEF HealedBlocks
<1>9. WellFormed(5, script)
  BY <1>1, <1>5, <1>7, <1>8 DEF WellFormed
<1>10. SetsItsMarks(5, script)
  <2>1. \A n : Home(n) = 5 => n \in { "test50" }
    BY DEF Home
  <2>2. 1 \in 1..2
    OBVIOUS
  <2> QED
    BY <1>1, <1>3, <2>1, <2>2 DEF SetsItsMarks
<1> QED
  BY <1>9, <1>10 DEF script

LEMMA PushWellFormed == WellFormed(6, pushLazyLoad)
<1> DEFINE script == pushLazyLoad
<1>1. /\ Len(script) = 9 /\ DOMAIN script = 1..9
      /\ script[1] = Remember("torrents[2].name")
      /\ script[2] = Remember("files.filepath")
      /\ script[3] = Remember("file_properties.name")
      /\ script[4] = ChangeBy("torrents[2].name")
      /\ script[5] = ChangeBy("files.filepath")
      /\ script[6] = ChangeBy("file_properties.name")
      /\ script[7] = SetBack("torrents[2].name")
      /\ script[8] = SetBack("files.filepath")
      /\ script[9] = SetBack("file_properties.name")
  BY DEF pushLazyLoad
<1> HIDE DEF script
<1>2. \A p \in 1..9 : p \in { 1, 2, 3, 4, 5, 6, 7, 8, 9 }
  OBVIOUS
<1>3. /\ Adds(script[1]) = {} /\ MayRemove(script[1]) = {}
      /\ Adds(script[2]) = {} /\ MayRemove(script[2]) = {}
      /\ Adds(script[3]) = {} /\ MayRemove(script[3]) = {}
      /\ Adds(script[4]) = {} /\ MayRemove(script[4]) = {}
      /\ Adds(script[5]) = {} /\ MayRemove(script[5]) = {}
      /\ Adds(script[6]) = {} /\ MayRemove(script[6]) = {}
      /\ Adds(script[7]) = {} /\ MayRemove(script[7]) = {}
      /\ Adds(script[8]) = {} /\ MayRemove(script[8]) = {}
      /\ Adds(script[9]) = {} /\ MayRemove(script[9]) = {}
  <2>1. /\ Adds(script[1]) = {}
       /\ MayRemove(script[1]) = {}
    BY <1>1, RememberIs
  <2>2. /\ Adds(script[2]) = {}
       /\ MayRemove(script[2]) = {}
    BY <1>1, RememberIs
  <2>3. /\ Adds(script[3]) = {}
       /\ MayRemove(script[3]) = {}
    BY <1>1, RememberIs
  <2>4. /\ Adds(script[4]) = {}
       /\ MayRemove(script[4]) = {}
    BY <1>1, ChangeByIs
  <2>5. /\ Adds(script[5]) = {}
       /\ MayRemove(script[5]) = {}
    BY <1>1, ChangeByIs
  <2>6. /\ Adds(script[6]) = {}
       /\ MayRemove(script[6]) = {}
    BY <1>1, ChangeByIs
  <2>7. /\ Adds(script[7]) = {}
       /\ MayRemove(script[7]) = {}
    BY <1>1, SetBackIs
  <2>8. /\ Adds(script[8]) = {}
       /\ MayRemove(script[8]) = {}
    BY <1>1, SetBackIs
  <2>9. /\ Adds(script[9]) = {}
       /\ MayRemove(script[9]) = {}
    BY <1>1, SetBackIs
  <2> QED
    BY <2>1, <2>2, <2>3, <2>4, <2>5, <2>6, <2>7, <2>8, <2>9
<1>4. \A p \in 1..9 : StatementOk(6, script[p])
  <2>1. StatementOk(6, script[1])
    <3>1. /\ script[1].op = "remember"
          /\ script[1].of = { "torrents[2].name" }
          /\ script[1].to = {}
      BY <1>1 DEF Remember, Statement
    <3> QED
      BY <1>3, <3>1 DEF StatementOk, RowOps, ColumnOps, CountOps, Columns, HealedBlocks
  <2>2. StatementOk(6, script[2])
    <3>1. /\ script[2].op = "remember"
          /\ script[2].of = { "files.filepath" }
          /\ script[2].to = {}
      BY <1>1 DEF Remember, Statement
    <3> QED
      BY <1>3, <3>1 DEF StatementOk, RowOps, ColumnOps, CountOps, Columns, HealedBlocks
  <2>3. StatementOk(6, script[3])
    <3>1. /\ script[3].op = "remember"
          /\ script[3].of = { "file_properties.name" }
          /\ script[3].to = {}
      BY <1>1 DEF Remember, Statement
    <3> QED
      BY <1>3, <3>1 DEF StatementOk, RowOps, ColumnOps, CountOps, Columns, HealedBlocks
  <2>4. StatementOk(6, script[4])
    <3>1. /\ script[4].op = "changeBy"
          /\ script[4].of = { "torrents[2].name" }
          /\ script[4].to = {}
      BY <1>1 DEF ChangeBy, Statement
    <3> QED
      BY <1>3, <3>1 DEF StatementOk, RowOps, ColumnOps, CountOps, Columns, HealedBlocks
  <2>5. StatementOk(6, script[5])
    <3>1. /\ script[5].op = "changeBy"
          /\ script[5].of = { "files.filepath" }
          /\ script[5].to = {}
      BY <1>1 DEF ChangeBy, Statement
    <3> QED
      BY <1>3, <3>1 DEF StatementOk, RowOps, ColumnOps, CountOps, Columns, HealedBlocks
  <2>6. StatementOk(6, script[6])
    <3>1. /\ script[6].op = "changeBy"
          /\ script[6].of = { "file_properties.name" }
          /\ script[6].to = {}
      BY <1>1 DEF ChangeBy, Statement
    <3> QED
      BY <1>3, <3>1 DEF StatementOk, RowOps, ColumnOps, CountOps, Columns, HealedBlocks
  <2>7. StatementOk(6, script[7])
    <3>1. /\ script[7].op = "setBack"
          /\ script[7].of = { "torrents[2].name" }
          /\ script[7].to = {}
      BY <1>1 DEF SetBack, Statement
    <3> QED
      BY <1>3, <3>1 DEF StatementOk, RowOps, ColumnOps, CountOps, Columns, HealedBlocks
  <2>8. StatementOk(6, script[8])
    <3>1. /\ script[8].op = "setBack"
          /\ script[8].of = { "files.filepath" }
          /\ script[8].to = {}
      BY <1>1 DEF SetBack, Statement
    <3> QED
      BY <1>3, <3>1 DEF StatementOk, RowOps, ColumnOps, CountOps, Columns, HealedBlocks
  <2>9. StatementOk(6, script[9])
    <3>1. /\ script[9].op = "setBack"
          /\ script[9].of = { "file_properties.name" }
          /\ script[9].to = {}
      BY <1>1 DEF SetBack, Statement
    <3> QED
      BY <1>3, <3>1 DEF StatementOk, RowOps, ColumnOps, CountOps, Columns, HealedBlocks
  <2> QED
    BY <1>2, <2>1, <2>2, <2>3, <2>4, <2>5, <2>6, <2>7, <2>8, <2>9
<1>5. \A p \in 1..9 : \A n \in Adds(script[p]) \ { "test3" } : Gone(script, 9 + 1, n)
  BY <1>2, <1>3
<1>6. \A p \in 1..9 : \A n \in MayRemove(script[p]) :
        Home(n) \in HealedBlocks(6) \/ Written(script, p, n)
  BY <1>2, <1>3 DEF HealedBlocks
<1>7. WellFormed(6, script)
  BY <1>1, <1>4, <1>5, <1>6 DEF WellFormed
<1> QED
  BY <1>7 DEF script

LEMMA CountWellFormed == WellFormed(8, incrementDecrement) /\ SetsItsMarks(8, incrementDecrement)
<1> DEFINE script == incrementDecrement
<1>1. /\ Len(script) = 2 /\ DOMAIN script = 1..2
      /\ script[1] = Increment("torrents[1].size", "torrents[1].progress")
      /\ script[2] = Decrement("torrents[1].size", "torrents[1].progress")
  BY DEF incrementDecrement
<1> HIDE DEF script
<1>2. \A p \in 1..2 : p \in { 1, 2 }
  OBVIOUS
<1>3. /\ Adds(script[1]) = { "torrents[1].progress" } /\ MayRemove(script[1]) = {}
      /\ Adds(script[2]) = {}
      /\ Removes(script[2]) = { "torrents[1].progress" }
      /\ MayRemove(script[2]) = Removes(script[2])
  <2>1. Adds(script[1]) = { "torrents[1].progress" } /\ MayRemove(script[1]) = {}
    BY <1>1, IncrementIs
  <2>2. /\ Adds(script[2]) = {} /\ Removes(script[2]) = { "torrents[1].progress" }
        /\ MayRemove(script[2]) = { "torrents[1].progress" }
    BY <1>1, DecrementIs
  <2> QED
    BY <2>1, <2>2
<1>4. /\ Home("torrents[1].progress") = 8
  BY DEF Home
<1>5. \A p \in 1..2 : StatementOk(8, script[p])
  <2>1. StatementOk(8, script[1])
    <3>1. /\ script[1].op = "increment"
          /\ script[1].of = { "torrents[1].size" }
          /\ script[1].to = { "torrents[1].progress" }
      BY <1>1 DEF Increment, Statement
    <3> QED
      BY <1>3, <1>4, <3>1 DEF StatementOk, RowOps, ColumnOps, CountOps, Columns, HealedBlocks
  <2>2. StatementOk(8, script[2])
    <3>1. /\ script[2].op = "decrement"
          /\ script[2].of = { "torrents[1].size" }
          /\ script[2].to = { "torrents[1].progress" }
      BY <1>1 DEF Decrement, Statement
    <3> QED
      BY <1>3, <1>4, <3>1 DEF StatementOk, RowOps, ColumnOps, CountOps, Columns, HealedBlocks
  <2> QED
    BY <1>2, <2>1, <2>2
<1>6. /\ Gone(script, 3, "torrents[1].progress")
  <2>1. Gone(script, 3, "torrents[1].progress")
    <3>1. "torrents[1].progress" \in Removes(script[2]) /\ 2 \in 1..(3 - 1)
      BY <1>3
    <3>2. \A j \in (2 + 1)..(3 - 1) : "torrents[1].progress" \notin Adds(script[j])
      BY <1>2, <1>3
    <3> QED
      BY <3>1, <3>2 DEF Gone
  <2> QED
    BY <2>1
<1>7. /\ Written(script, 2, "torrents[1].progress")
  <2>1. 1 \in 1..(2 - 1)
    OBVIOUS
  <2> QED
    BY <1>3, <2>1 DEF Written
<1>8. \A p \in 1..2 : \A n \in Adds(script[p]) \ { "test3" } : Gone(script, 2 + 1, n)
  BY <1>2, <1>3, <1>6
<1>9. \A p \in 1..2 : \A n \in MayRemove(script[p]) :
        Home(n) \in HealedBlocks(8) \/ Written(script, p, n)
  BY <1>2, <1>3, <1>4, <1>7 DEF HealedBlocks
<1>10. WellFormed(8, script)
  BY <1>1, <1>5, <1>8, <1>9 DEF WellFormed
<1>11. SetsItsMarks(8, script)
  <2>1. \A n : Home(n) = 8 => n \in { "torrents[1].progress" }
    BY DEF Home
  <2>2. 1 \in 1..2
    OBVIOUS
  <2> QED
    BY <1>1, <1>3, <2>1, <2>2 DEF SetsItsMarks
<1> QED
  BY <1>10, <1>11 DEF script

LEMMA CreateWellFormed == WellFormed(9, create) /\ SetsItsMarks(9, create)
<1> DEFINE script == create
<1>1. /\ Len(script) = 3 /\ DOMAIN script = 1..3
      /\ script[1] = Insert("test100")
      /\ script[2] = Rename("test100", "test100_create")
      /\ script[3] = Remove({ "test100_create" })
  BY DEF create
<1> HIDE DEF script
<1>2. \A p \in 1..3 : p \in { 1, 2, 3 }
  OBVIOUS
<1>3. /\ Adds(script[1]) = { "test100" } /\ MayRemove(script[1]) = {}
      /\ Adds(script[2]) = { "test100_create" }
      /\ Removes(script[2]) = { "test100" }
      /\ MayRemove(script[2]) = Removes(script[2])
      /\ Adds(script[3]) = {}
      /\ Removes(script[3]) = { "test100_create" }
      /\ MayRemove(script[3]) = Removes(script[3])
  <2>1. /\ Adds(script[1]) = { "test100" }
       /\ MayRemove(script[1]) = {}
    BY <1>1, InsertIs
  <2>2. /\ Adds(script[2]) = { "test100_create" }
       /\ Removes(script[2]) = { "test100" }
       /\ MayRemove(script[2]) = { "test100" }
    BY <1>1, RenameIs
  <2>3. /\ Adds(script[3]) = {}
       /\ Removes(script[3]) = { "test100_create" }
       /\ MayRemove(script[3]) = { "test100_create" }
    BY <1>1, RemoveIs
  <2> QED
    BY <2>1, <2>2, <2>3
<1>4. /\ Home("test100") = 9
      /\ Home("test100_create") = 9
  BY DEF Home
<1>5. \A p \in 1..3 : StatementOk(9, script[p])
  <2>1. StatementOk(9, script[1])
    <3>1. /\ "test100" \notin Columns
          /\ Home("test100") \in 1..9
          /\ 9 \in 1..LastBlock
      BY <1>4 DEF Columns, LastBlock
    <3> QED
      BY <1>1, <3>1, InsertOk
  <2>2. StatementOk(9, script[2])
    <3>1. /\ "test100" \notin Columns
          /\ "test100_create" \notin Columns
          /\ Home("test100_create") \in 1..9
          /\ 9 \in 1..LastBlock
      BY <1>4 DEF Columns, LastBlock
    <3> QED
      BY <1>1, <3>1, RenameOk
  <2>3. StatementOk(9, script[3])
    <3>1. { "test100_create" } \intersect Columns = {} /\ "test3" \notin { "test100_create" } /\ 9 \in 1..LastBlock
      BY DEF Columns, LastBlock
    <3> QED
      BY <1>1, <3>1, RemoveOk
  <2> QED
    BY <1>2, <2>1, <2>2, <2>3
<1>6. /\ Gone(script, 4, "test100")
      /\ Gone(script, 4, "test100_create")
  <2>1. Gone(script, 4, "test100")
    <3>1. "test100" \in Removes(script[2]) /\ 2 \in 1..(4 - 1)
      BY <1>3
    <3>2. \A j \in (2 + 1)..(4 - 1) : "test100" \notin Adds(script[j])
      BY <1>2, <1>3
    <3> QED
      BY <3>1, <3>2 DEF Gone
  <2>2. Gone(script, 4, "test100_create")
    <3>1. "test100_create" \in Removes(script[3]) /\ 3 \in 1..(4 - 1)
      BY <1>3
    <3>2. \A j \in (3 + 1)..(4 - 1) : "test100_create" \notin Adds(script[j])
      BY <1>2, <1>3
    <3> QED
      BY <3>1, <3>2 DEF Gone
  <2> QED
    BY <2>1, <2>2
<1>7. /\ Written(script, 2, "test100")
      /\ Written(script, 3, "test100_create")
  <2>1. 1 \in 1..(2 - 1) /\ 2 \in 1..(3 - 1)
    OBVIOUS
  <2> QED
    BY <1>3, <2>1 DEF Written
<1>8. \A p \in 1..3 : \A n \in Adds(script[p]) \ { "test3" } : Gone(script, 3 + 1, n)
  BY <1>2, <1>3, <1>6
<1>9. \A p \in 1..3 : \A n \in MayRemove(script[p]) :
        Home(n) \in HealedBlocks(9) \/ Written(script, p, n)
  BY <1>2, <1>3, <1>4, <1>7 DEF HealedBlocks
<1>10. WellFormed(9, script)
  BY <1>1, <1>5, <1>8, <1>9 DEF WellFormed
<1>11. SetsItsMarks(9, script)
  <2>1. \A n : Home(n) = 9 => n \in { "test100", "test100_create" }
    BY DEF Home
  <2>2. 1 \in 1..3 /\ 2 \in 1..3
    OBVIOUS
  <2> QED
    BY <1>1, <1>3, <2>1, <2>2 DEF SetsItsMarks
<1> QED
  BY <1>10, <1>11 DEF script

LEMMA AssociateWellFormed == WellFormed(13, associate) /\ SetsItsMarks(13, associate)
<1> DEFINE script == associate
<1>1. /\ Len(script) = 3 /\ DOMAIN script = 1..3
      /\ script[1] = Insert("test5_file4.mkv_of_5")
      /\ script[2] = Rename("test5_file4.mkv_of_5", "test5_file4.mkv_of_2")
      /\ script[3] = Remove({ "test5_file4.mkv_of_2" })
  BY DEF associate
<1> HIDE DEF script
<1>2. \A p \in 1..3 : p \in { 1, 2, 3 }
  OBVIOUS
<1>3. /\ Adds(script[1]) = { "test5_file4.mkv_of_5" } /\ MayRemove(script[1]) = {}
      /\ Adds(script[2]) = { "test5_file4.mkv_of_2" }
      /\ Removes(script[2]) = { "test5_file4.mkv_of_5" }
      /\ MayRemove(script[2]) = Removes(script[2])
      /\ Adds(script[3]) = {}
      /\ Removes(script[3]) = { "test5_file4.mkv_of_2" }
      /\ MayRemove(script[3]) = Removes(script[3])
  <2>1. /\ Adds(script[1]) = { "test5_file4.mkv_of_5" }
       /\ MayRemove(script[1]) = {}
    BY <1>1, InsertIs
  <2>2. /\ Adds(script[2]) = { "test5_file4.mkv_of_2" }
       /\ Removes(script[2]) = { "test5_file4.mkv_of_5" }
       /\ MayRemove(script[2]) = { "test5_file4.mkv_of_5" }
    BY <1>1, RenameIs
  <2>3. /\ Adds(script[3]) = {}
       /\ Removes(script[3]) = { "test5_file4.mkv_of_2" }
       /\ MayRemove(script[3]) = { "test5_file4.mkv_of_2" }
    BY <1>1, RemoveIs
  <2> QED
    BY <2>1, <2>2, <2>3
<1>4. /\ Home("test5_file4.mkv_of_5") = 13
      /\ Home("test5_file4.mkv_of_2") = 13
  BY DEF Home
<1>5. \A p \in 1..3 : StatementOk(13, script[p])
  <2>1. StatementOk(13, script[1])
    <3>1. /\ "test5_file4.mkv_of_5" \notin Columns
          /\ Home("test5_file4.mkv_of_5") \in 1..13
          /\ 13 \in 1..LastBlock
      BY <1>4 DEF Columns, LastBlock
    <3> QED
      BY <1>1, <3>1, InsertOk
  <2>2. StatementOk(13, script[2])
    <3>1. /\ "test5_file4.mkv_of_5" \notin Columns
          /\ "test5_file4.mkv_of_2" \notin Columns
          /\ Home("test5_file4.mkv_of_2") \in 1..13
          /\ 13 \in 1..LastBlock
      BY <1>4 DEF Columns, LastBlock
    <3> QED
      BY <1>1, <3>1, RenameOk
  <2>3. StatementOk(13, script[3])
    <3>1. { "test5_file4.mkv_of_2" } \intersect Columns = {} /\ "test3" \notin { "test5_file4.mkv_of_2" } /\ 13 \in 1..LastBlock
      BY DEF Columns, LastBlock
    <3> QED
      BY <1>1, <3>1, RemoveOk
  <2> QED
    BY <1>2, <2>1, <2>2, <2>3
<1>6. /\ Gone(script, 4, "test5_file4.mkv_of_5")
      /\ Gone(script, 4, "test5_file4.mkv_of_2")
  <2>1. Gone(script, 4, "test5_file4.mkv_of_5")
    <3>1. "test5_file4.mkv_of_5" \in Removes(script[2]) /\ 2 \in 1..(4 - 1)
      BY <1>3
    <3>2. \A j \in (2 + 1)..(4 - 1) : "test5_file4.mkv_of_5" \notin Adds(script[j])
      BY <1>2, <1>3
    <3> QED
      BY <3>1, <3>2 DEF Gone
  <2>2. Gone(script, 4, "test5_file4.mkv_of_2")
    <3>1. "test5_file4.mkv_of_2" \in Removes(script[3]) /\ 3 \in 1..(4 - 1)
      BY <1>3
    <3>2. \A j \in (3 + 1)..(4 - 1) : "test5_file4.mkv_of_2" \notin Adds(script[j])
      BY <1>2, <1>3
    <3> QED
      BY <3>1, <3>2 DEF Gone
  <2> QED
    BY <2>1, <2>2
<1>7. /\ Written(script, 2, "test5_file4.mkv_of_5")
      /\ Written(script, 3, "test5_file4.mkv_of_2")
  <2>1. 1 \in 1..(2 - 1) /\ 2 \in 1..(3 - 1)
    OBVIOUS
  <2> QED
    BY <1>3, <2>1 DEF Written
<1>8. \A p \in 1..3 : \A n \in Adds(script[p]) \ { "test3" } : Gone(script, 3 + 1, n)
  BY <1>2, <1>3, <1>6
<1>9. \A p \in 1..3 : \A n \in MayRemove(script[p]) :
        Home(n) \in HealedBlocks(13) \/ Written(script, p, n)
  BY <1>2, <1>3, <1>4, <1>7 DEF HealedBlocks
<1>10. WellFormed(13, script)
  BY <1>1, <1>5, <1>8, <1>9 DEF WellFormed
<1>11. SetsItsMarks(13, script)
  <2>1. \A n : Home(n) = 13 => n \in { "test5_file4.mkv_of_5", "test5_file4.mkv_of_2" }
    BY DEF Home
  <2>2. 1 \in 1..3 /\ 2 \in 1..3
    OBVIOUS
  <2> QED
    BY <1>1, <1>3, <2>1, <2>2 DEF SetsItsMarks
<1> QED
  BY <1>10, <1>11 DEF script

LEMMA HasOneOrManyWellFormed == WellFormed(23, hasOneOrMany) /\ SetsItsMarks(23, hasOneOrMany)
<1> DEFINE script == hasOneOrMany
<1>1. /\ Len(script) = 7 /\ DOMAIN script = 1..7
      /\ script[1] = AssertAbsent("test1_fileXX.mkv")
      /\ script[2] = FirstOrCreate("test1_fileXX.mkv")
      /\ script[3] = Change("files[1].size")
      /\ script[4] = FirstOrCreate("test1_fileYY.mkv")
      /\ script[5] = Remove({ "test1_fileXX.mkv" })
      /\ script[6] = Remove({ "test1_fileYY.mkv" })
      /\ script[7] = Restore("files[1].size")
  BY DEF hasOneOrMany
<1> HIDE DEF script
<1>2. \A p \in 1..7 : p \in { 1, 2, 3, 4, 5, 6, 7 }
  OBVIOUS
<1>3. /\ Adds(script[1]) = {} /\ MayRemove(script[1]) = {}
      /\ Adds(script[2]) = { "test1_fileXX.mkv" } /\ MayRemove(script[2]) = {}
      /\ Adds(script[3]) = { "files[1].size" } /\ MayRemove(script[3]) = {}
      /\ Adds(script[4]) = { "test1_fileYY.mkv" } /\ MayRemove(script[4]) = {}
      /\ Adds(script[5]) = {}
      /\ Removes(script[5]) = { "test1_fileXX.mkv" }
      /\ MayRemove(script[5]) = Removes(script[5])
      /\ Adds(script[6]) = {}
      /\ Removes(script[6]) = { "test1_fileYY.mkv" }
      /\ MayRemove(script[6]) = Removes(script[6])
      /\ Adds(script[7]) = {}
      /\ Removes(script[7]) = { "files[1].size" }
      /\ MayRemove(script[7]) = Removes(script[7])
  <2>1. /\ Adds(script[1]) = {}
       /\ MayRemove(script[1]) = {}
    BY <1>1, AssertAbsentIs
  <2>2. /\ Adds(script[2]) = { "test1_fileXX.mkv" }
       /\ MayRemove(script[2]) = {}
    BY <1>1, FirstOrCreateIs
  <2>3. /\ Adds(script[3]) = { "files[1].size" }
       /\ MayRemove(script[3]) = {}
    BY <1>1, ChangeIs
  <2>4. /\ Adds(script[4]) = { "test1_fileYY.mkv" }
       /\ MayRemove(script[4]) = {}
    BY <1>1, FirstOrCreateIs
  <2>5. /\ Adds(script[5]) = {}
       /\ Removes(script[5]) = { "test1_fileXX.mkv" }
       /\ MayRemove(script[5]) = { "test1_fileXX.mkv" }
    BY <1>1, RemoveIs
  <2>6. /\ Adds(script[6]) = {}
       /\ Removes(script[6]) = { "test1_fileYY.mkv" }
       /\ MayRemove(script[6]) = { "test1_fileYY.mkv" }
    BY <1>1, RemoveIs
  <2>7. /\ Adds(script[7]) = {}
       /\ Removes(script[7]) = { "files[1].size" }
       /\ MayRemove(script[7]) = { "files[1].size" }
    BY <1>1, RestoreIs
  <2> QED
    BY <2>1, <2>2, <2>3, <2>4, <2>5, <2>6, <2>7
<1>4. /\ Home("test1_fileXX.mkv") = 23
      /\ Home("files[1].size") = 23
      /\ Home("test1_fileYY.mkv") = 23
  BY DEF Home
<1>5. \A p \in 1..7 : StatementOk(23, script[p])
  <2>1. StatementOk(23, script[1])
    <3>1. /\ "test1_fileXX.mkv" \notin Columns
          /\ 23 \in 1..LastBlock
      BY <1>4 DEF Columns, LastBlock
    <3> QED
      BY <1>1, <3>1, AssertAbsentOk
  <2>2. StatementOk(23, script[2])
    <3>1. /\ "test1_fileXX.mkv" \notin Columns
          /\ Home("test1_fileXX.mkv") \in 1..23
          /\ Home("test1_fileXX.mkv") \in HealedBlocks(23)
          /\ 23 \in 1..LastBlock
      BY <1>4 DEF Columns, LastBlock, HealedBlocks
    <3> QED
      BY <1>1, <3>1, FirstOrCreateOk
  <2>3. StatementOk(23, script[3])
    <3>1. /\ "files[1].size" \in Columns
          /\ Home("files[1].size") \in 1..23
          /\ 23 \in 1..LastBlock
      BY <1>4 DEF Columns, LastBlock
    <3> QED
      BY <1>1, <3>1, ChangeOk
  <2>4. StatementOk(23, script[4])
    <3>1. /\ "test1_fileYY.mkv" \notin Columns
          /\ Home("test1_fileYY.mkv") \in 1..23
          /\ Home("test1_fileYY.mkv") \in HealedBlocks(23)
          /\ 23 \in 1..LastBlock
      BY <1>4 DEF Columns, LastBlock, HealedBlocks
    <3> QED
      BY <1>1, <3>1, FirstOrCreateOk
  <2>5. StatementOk(23, script[5])
    <3>1. { "test1_fileXX.mkv" } \intersect Columns = {} /\ "test3" \notin { "test1_fileXX.mkv" } /\ 23 \in 1..LastBlock
      BY DEF Columns, LastBlock
    <3> QED
      BY <1>1, <3>1, RemoveOk
  <2>6. StatementOk(23, script[6])
    <3>1. { "test1_fileYY.mkv" } \intersect Columns = {} /\ "test3" \notin { "test1_fileYY.mkv" } /\ 23 \in 1..LastBlock
      BY DEF Columns, LastBlock
    <3> QED
      BY <1>1, <3>1, RemoveOk
  <2>7. StatementOk(23, script[7])
    <3>1. /\ "files[1].size" \in Columns
          /\ 23 \in 1..LastBlock
      BY <1>4 DEF Columns, LastBlock
    <3> QED
      BY <1>1, <3>1, RestoreOk
  <2> QED
    BY <1>2, <2>1, <2>2, <2>3, <2>4, <2>5, <2>6, <2>7
<1>6. /\ Gone(script, 8, "test1_fileXX.mkv")
      /\ Gone(script, 8, "files[1].size")
      /\ Gone(script, 8, "test1_fileYY.mkv")
  <2>1. Gone(script, 8, "test1_fileXX.mkv")
    <3>1. "test1_fileXX.mkv" \in Removes(script[5]) /\ 5 \in 1..(8 - 1)
      BY <1>3
    <3>2. \A j \in (5 + 1)..(8 - 1) : "test1_fileXX.mkv" \notin Adds(script[j])
      BY <1>2, <1>3
    <3> QED
      BY <3>1, <3>2 DEF Gone
  <2>2. Gone(script, 8, "files[1].size")
    <3>1. "files[1].size" \in Removes(script[7]) /\ 7 \in 1..(8 - 1)
      BY <1>3
    <3>2. \A j \in (7 + 1)..(8 - 1) : "files[1].size" \notin Adds(script[j])
      BY <1>2, <1>3
    <3> QED
      BY <3>1, <3>2 DEF Gone
  <2>3. Gone(script, 8, "test1_fileYY.mkv")
    <3>1. "test1_fileYY.mkv" \in Removes(script[6]) /\ 6 \in 1..(8 - 1)
      BY <1>3
    <3>2. \A j \in (6 + 1)..(8 - 1) : "test1_fileYY.mkv" \notin Adds(script[j])
      BY <1>2, <1>3
    <3> QED
      BY <3>1, <3>2 DEF Gone
  <2> QED
    BY <2>1, <2>2, <2>3
<1>7. \A p \in 1..7 : \A n \in Adds(script[p]) \ { "test3" } : Gone(script, 7 + 1, n)
  BY <1>2, <1>3, <1>6
<1>8. \A p \in 1..7 : \A n \in MayRemove(script[p]) :
        Home(n) \in HealedBlocks(23) \/ Written(script, p, n)
  BY <1>2, <1>3, <1>4 DEF HealedBlocks
<1>9. WellFormed(23, script)
  BY <1>1, <1>5, <1>7, <1>8 DEF WellFormed
<1>10. SetsItsMarks(23, script)
  <2>1. \A n : Home(n) = 23 => n \in { "test1_fileXX.mkv", "files[1].size", "test1_fileYY.mkv" }
    BY DEF Home
  <2>2. 2 \in 1..7 /\ 3 \in 1..7 /\ 4 \in 1..7
    OBVIOUS
  <2> QED
    BY <1>1, <1>3, <2>1, <2>2 DEF SetsItsMarks
<1> QED
  BY <1>9, <1>10 DEF script

LEMMA BelongsToManyWellFormed == WellFormed(24, belongsToMany) /\ SetsItsMarks(24, belongsToMany)
<1> DEFINE script == belongsToMany
<1>1. /\ Len(script) = 9 /\ DOMAIN script = 1..9
      /\ script[1] = AssertAbsent("tag20")
      /\ script[2] = FirstOrCreate("tag20")
      /\ script[3] = Insert("tag21")
      /\ script[4] = Change("tags[4].note")
      /\ script[5] = FirstOrCreate("tag40")
      /\ script[6] = Remove({ "tag20" })
      /\ script[7] = Remove({ "tag21" })
      /\ script[8] = Remove({ "tag40" })
      /\ script[9] = Restore("tags[4].note")
  BY DEF belongsToMany
<1> HIDE DEF script
<1>2. \A p \in 1..9 : p \in { 1, 2, 3, 4, 5, 6, 7, 8, 9 }
  OBVIOUS
<1>3. /\ Adds(script[1]) = {} /\ MayRemove(script[1]) = {}
      /\ Adds(script[2]) = { "tag20" } /\ MayRemove(script[2]) = {}
      /\ Adds(script[3]) = { "tag21" } /\ MayRemove(script[3]) = {}
      /\ Adds(script[4]) = { "tags[4].note" } /\ MayRemove(script[4]) = {}
      /\ Adds(script[5]) = { "tag40" } /\ MayRemove(script[5]) = {}
      /\ Adds(script[6]) = {}
      /\ Removes(script[6]) = { "tag20" }
      /\ MayRemove(script[6]) = Removes(script[6])
      /\ Adds(script[7]) = {}
      /\ Removes(script[7]) = { "tag21" }
      /\ MayRemove(script[7]) = Removes(script[7])
      /\ Adds(script[8]) = {}
      /\ Removes(script[8]) = { "tag40" }
      /\ MayRemove(script[8]) = Removes(script[8])
      /\ Adds(script[9]) = {}
      /\ Removes(script[9]) = { "tags[4].note" }
      /\ MayRemove(script[9]) = Removes(script[9])
  <2>1. /\ Adds(script[1]) = {}
       /\ MayRemove(script[1]) = {}
    BY <1>1, AssertAbsentIs
  <2>2. /\ Adds(script[2]) = { "tag20" }
       /\ MayRemove(script[2]) = {}
    BY <1>1, FirstOrCreateIs
  <2>3. /\ Adds(script[3]) = { "tag21" }
       /\ MayRemove(script[3]) = {}
    BY <1>1, InsertIs
  <2>4. /\ Adds(script[4]) = { "tags[4].note" }
       /\ MayRemove(script[4]) = {}
    BY <1>1, ChangeIs
  <2>5. /\ Adds(script[5]) = { "tag40" }
       /\ MayRemove(script[5]) = {}
    BY <1>1, FirstOrCreateIs
  <2>6. /\ Adds(script[6]) = {}
       /\ Removes(script[6]) = { "tag20" }
       /\ MayRemove(script[6]) = { "tag20" }
    BY <1>1, RemoveIs
  <2>7. /\ Adds(script[7]) = {}
       /\ Removes(script[7]) = { "tag21" }
       /\ MayRemove(script[7]) = { "tag21" }
    BY <1>1, RemoveIs
  <2>8. /\ Adds(script[8]) = {}
       /\ Removes(script[8]) = { "tag40" }
       /\ MayRemove(script[8]) = { "tag40" }
    BY <1>1, RemoveIs
  <2>9. /\ Adds(script[9]) = {}
       /\ Removes(script[9]) = { "tags[4].note" }
       /\ MayRemove(script[9]) = { "tags[4].note" }
    BY <1>1, RestoreIs
  <2> QED
    BY <2>1, <2>2, <2>3, <2>4, <2>5, <2>6, <2>7, <2>8, <2>9
<1>4. /\ Home("tag20") = 24
      /\ Home("tag21") = 24
      /\ Home("tags[4].note") = 24
      /\ Home("tag40") = 24
  BY DEF Home
<1>5. \A p \in 1..9 : StatementOk(24, script[p])
  <2>1. StatementOk(24, script[1])
    <3>1. /\ "tag20" \notin Columns
          /\ 24 \in 1..LastBlock
      BY <1>4 DEF Columns, LastBlock
    <3> QED
      BY <1>1, <3>1, AssertAbsentOk
  <2>2. StatementOk(24, script[2])
    <3>1. /\ "tag20" \notin Columns
          /\ Home("tag20") \in 1..24
          /\ Home("tag20") \in HealedBlocks(24)
          /\ 24 \in 1..LastBlock
      BY <1>4 DEF Columns, LastBlock, HealedBlocks
    <3> QED
      BY <1>1, <3>1, FirstOrCreateOk
  <2>3. StatementOk(24, script[3])
    <3>1. /\ "tag21" \notin Columns
          /\ Home("tag21") \in 1..24
          /\ 24 \in 1..LastBlock
      BY <1>4 DEF Columns, LastBlock
    <3> QED
      BY <1>1, <3>1, InsertOk
  <2>4. StatementOk(24, script[4])
    <3>1. /\ "tags[4].note" \in Columns
          /\ Home("tags[4].note") \in 1..24
          /\ 24 \in 1..LastBlock
      BY <1>4 DEF Columns, LastBlock
    <3> QED
      BY <1>1, <3>1, ChangeOk
  <2>5. StatementOk(24, script[5])
    <3>1. /\ "tag40" \notin Columns
          /\ Home("tag40") \in 1..24
          /\ Home("tag40") \in HealedBlocks(24)
          /\ 24 \in 1..LastBlock
      BY <1>4 DEF Columns, LastBlock, HealedBlocks
    <3> QED
      BY <1>1, <3>1, FirstOrCreateOk
  <2>6. StatementOk(24, script[6])
    <3>1. { "tag20" } \intersect Columns = {} /\ "test3" \notin { "tag20" } /\ 24 \in 1..LastBlock
      BY DEF Columns, LastBlock
    <3> QED
      BY <1>1, <3>1, RemoveOk
  <2>7. StatementOk(24, script[7])
    <3>1. { "tag21" } \intersect Columns = {} /\ "test3" \notin { "tag21" } /\ 24 \in 1..LastBlock
      BY DEF Columns, LastBlock
    <3> QED
      BY <1>1, <3>1, RemoveOk
  <2>8. StatementOk(24, script[8])
    <3>1. { "tag40" } \intersect Columns = {} /\ "test3" \notin { "tag40" } /\ 24 \in 1..LastBlock
      BY DEF Columns, LastBlock
    <3> QED
      BY <1>1, <3>1, RemoveOk
  <2>9. StatementOk(24, script[9])
    <3>1. /\ "tags[4].note" \in Columns
          /\ 24 \in 1..LastBlock
      BY <1>4 DEF Columns, LastBlock
    <3> QED
      BY <1>1, <3>1, RestoreOk
  <2> QED
    BY <1>2, <2>1, <2>2, <2>3, <2>4, <2>5, <2>6, <2>7, <2>8, <2>9
<1>6. /\ Gone(script, 10, "tag20")
      /\ Gone(script, 10, "tag21")
      /\ Gone(script, 10, "tags[4].note")
      /\ Gone(script, 10, "tag40")
  <2>1. Gone(script, 10, "tag20")
    <3>1. "tag20" \in Removes(script[6]) /\ 6 \in 1..(10 - 1)
      BY <1>3
    <3>2. \A j \in (6 + 1)..(10 - 1) : "tag20" \notin Adds(script[j])
      BY <1>2, <1>3
    <3> QED
      BY <3>1, <3>2 DEF Gone
  <2>2. Gone(script, 10, "tag21")
    <3>1. "tag21" \in Removes(script[7]) /\ 7 \in 1..(10 - 1)
      BY <1>3
    <3>2. \A j \in (7 + 1)..(10 - 1) : "tag21" \notin Adds(script[j])
      BY <1>2, <1>3
    <3> QED
      BY <3>1, <3>2 DEF Gone
  <2>3. Gone(script, 10, "tags[4].note")
    <3>1. "tags[4].note" \in Removes(script[9]) /\ 9 \in 1..(10 - 1)
      BY <1>3
    <3>2. \A j \in (9 + 1)..(10 - 1) : "tags[4].note" \notin Adds(script[j])
      BY <1>2, <1>3
    <3> QED
      BY <3>1, <3>2 DEF Gone
  <2>4. Gone(script, 10, "tag40")
    <3>1. "tag40" \in Removes(script[8]) /\ 8 \in 1..(10 - 1)
      BY <1>3
    <3>2. \A j \in (8 + 1)..(10 - 1) : "tag40" \notin Adds(script[j])
      BY <1>2, <1>3
    <3> QED
      BY <3>1, <3>2 DEF Gone
  <2> QED
    BY <2>1, <2>2, <2>3, <2>4
<1>7. \A p \in 1..9 : \A n \in Adds(script[p]) \ { "test3" } : Gone(script, 9 + 1, n)
  BY <1>2, <1>3, <1>6
<1>8. \A p \in 1..9 : \A n \in MayRemove(script[p]) :
        Home(n) \in HealedBlocks(24) \/ Written(script, p, n)
  BY <1>2, <1>3, <1>4 DEF HealedBlocks
<1>9. WellFormed(24, script)
  BY <1>1, <1>5, <1>7, <1>8 DEF WellFormed
<1>10. SetsItsMarks(24, script)
  <2>1. \A n : Home(n) = 24 => n \in { "tag20", "tag21", "tags[4].note", "tag40" }
    BY DEF Home
  <2>2. 2 \in 1..9 /\ 3 \in 1..9 /\ 4 \in 1..9 /\ 5 \in 1..9
    OBVIOUS
  <2> QED
    BY <1>1, <1>3, <2>1, <2>2 DEF SetsItsMarks
<1> QED
  BY <1>9, <1>10 DEF script

\* One, two or four saved models.
LEMMA SavedOne ==
  ASSUME NEW b \in 1..LastBlock, NEW x,
         x \notin Columns, Home(x) \in 1..b, x # "test3"
  PROVE  /\ WellFormed(b, SavedAndRemoved(<< x >>))
         /\ \A n \in { x } : \E p \in 1..Len(SavedAndRemoved(<< x >>)) :
              n \in Adds(SavedAndRemoved(<< x >>)[p])
<1> DEFINE names == << x >>
<1>1. /\ Len(names) = 1
      /\ names[1] = x
  OBVIOUS
<1> HIDE DEF names
<1>2. \A i \in 1..Len(names) :
        names[i] \notin Columns /\ Home(names[i]) \in 1..b /\ names[i] # "test3"
  BY <1>1
<1>3. /\ WellFormed(b, SavedAndRemoved(names))
      /\ Len(SavedAndRemoved(names)) = 2 * Len(names)
      /\ \A i \in 1..Len(names) : names[i] \in Adds(SavedAndRemoved(names)[i])
  <2>1. Len(names) \in Nat
    BY <1>1
  <2> QED
    BY <1>2, <2>1, SavedAndRemovedWellFormed
<1>4. /\ x \in Adds(SavedAndRemoved(names)[1])
      /\ Len(SavedAndRemoved(names)) = 2
  BY <1>1, <1>3
<1>5. \A n \in { x } : \E p \in 1..Len(SavedAndRemoved(names)) :
        n \in Adds(SavedAndRemoved(names)[p])
  BY <1>4
<1> QED
  BY <1>3, <1>5 DEF names

LEMMA SavedTwo ==
  ASSUME NEW b \in 1..LastBlock, NEW x, NEW y,
         x \notin Columns, Home(x) \in 1..b, x # "test3",
         y \notin Columns, Home(y) \in 1..b, y # "test3"
  PROVE  /\ WellFormed(b, SavedAndRemoved(<< x, y >>))
         /\ \A n \in { x, y } : \E p \in 1..Len(SavedAndRemoved(<< x, y >>)) :
              n \in Adds(SavedAndRemoved(<< x, y >>)[p])
<1> DEFINE names == << x, y >>
<1>1. /\ Len(names) = 2
      /\ names[1] = x /\ names[2] = y
  OBVIOUS
<1> HIDE DEF names
<1>2. \A i \in 1..Len(names) :
        names[i] \notin Columns /\ Home(names[i]) \in 1..b /\ names[i] # "test3"
  BY <1>1
<1>3. /\ WellFormed(b, SavedAndRemoved(names))
      /\ Len(SavedAndRemoved(names)) = 2 * Len(names)
      /\ \A i \in 1..Len(names) : names[i] \in Adds(SavedAndRemoved(names)[i])
  <2>1. Len(names) \in Nat
    BY <1>1
  <2> QED
    BY <1>2, <2>1, SavedAndRemovedWellFormed
<1>4. /\ x \in Adds(SavedAndRemoved(names)[1])
      /\ y \in Adds(SavedAndRemoved(names)[2])
      /\ Len(SavedAndRemoved(names)) = 4
  BY <1>1, <1>3
<1>5. \A n \in { x, y } : \E p \in 1..Len(SavedAndRemoved(names)) :
        n \in Adds(SavedAndRemoved(names)[p])
  BY <1>4
<1> QED
  BY <1>3, <1>5 DEF names

LEMMA SavedFour ==
  ASSUME NEW b \in 1..LastBlock, NEW x, NEW y, NEW z, NEW w,
         x \notin Columns, Home(x) \in 1..b, x # "test3",
         y \notin Columns, Home(y) \in 1..b, y # "test3",
         z \notin Columns, Home(z) \in 1..b, z # "test3",
         w \notin Columns, Home(w) \in 1..b, w # "test3"
  PROVE  /\ WellFormed(b, SavedAndRemoved(<< x, y, z, w >>))
         /\ \A n \in { x, y, z, w } : \E p \in 1..Len(SavedAndRemoved(<< x, y, z, w >>)) :
              n \in Adds(SavedAndRemoved(<< x, y, z, w >>)[p])
<1> DEFINE names == << x, y, z, w >>
<1>1. /\ Len(names) = 4
      /\ names[1] = x /\ names[2] = y /\ names[3] = z /\ names[4] = w
  OBVIOUS
<1> HIDE DEF names
<1>2. \A i \in 1..Len(names) :
        names[i] \notin Columns /\ Home(names[i]) \in 1..b /\ names[i] # "test3"
  BY <1>1
<1>3. /\ WellFormed(b, SavedAndRemoved(names))
      /\ Len(SavedAndRemoved(names)) = 2 * Len(names)
      /\ \A i \in 1..Len(names) : names[i] \in Adds(SavedAndRemoved(names)[i])
  <2>1. Len(names) \in Nat
    BY <1>1
  <2> QED
    BY <1>2, <2>1, SavedAndRemovedWellFormed
<1>4. /\ x \in Adds(SavedAndRemoved(names)[1])
      /\ y \in Adds(SavedAndRemoved(names)[2])
      /\ z \in Adds(SavedAndRemoved(names)[3])
      /\ w \in Adds(SavedAndRemoved(names)[4])
      /\ Len(SavedAndRemoved(names)) = 8
  BY <1>1, <1>3
<1>5. \A n \in { x, y, z, w } : \E p \in 1..Len(SavedAndRemoved(names)) :
        n \in Adds(SavedAndRemoved(names)[p])
  BY <1>4
<1> QED
  BY <1>3, <1>5 DEF names

LEMMA SavedBlocks ==
  /\ WellFormed(2, destroy) /\ SetsItsMarks(2, destroy)
  /\ WellFormed(7, timestampsInsert) /\ SetsItsMarks(7, timestampsInsert)
  /\ WellFormed(14, associateWithId) /\ SetsItsMarks(14, associateWithId)
  /\ WellFormed(15, attachWithCustomPivot) /\ SetsItsMarks(15, attachWithCustomPivot)
  /\ WellFormed(16, attachWithPivot) /\ SetsItsMarks(16, attachWithPivot)
  /\ WellFormed(17, attachIdsWithCustomPivot) /\ SetsItsMarks(17, attachIdsWithCustomPivot)
  /\ WellFormed(18, attachIdsWithPivot) /\ SetsItsMarks(18, attachIdsWithPivot)
  /\ WellFormed(19, detachWithCustomPivot) /\ SetsItsMarks(19, detachWithCustomPivot)
  /\ WellFormed(20, detachWithPivot) /\ SetsItsMarks(20, detachWithPivot)
  /\ WellFormed(21, syncWithCustomPivot) /\ SetsItsMarks(21, syncWithCustomPivot)
  /\ WellFormed(22, syncWithPivot) /\ SetsItsMarks(22, syncWithPivot)
<1>1. WellFormed(2, destroy) /\ SetsItsMarks(2, destroy)
  <2>1. /\ 2 \in 1..LastBlock
        /\ "tag500" \notin Columns /\ Home("tag500") \in 1..2
        /\ "tag501" \notin Columns /\ Home("tag501") \in 1..2
    BY DEF LastBlock, Columns, Home
  <2>2. \A n : Home(n) = 2 => n \in { "tag500", "tag501" }
    BY DEF Home
  <2>3. /\ WellFormed(2, destroy)
        /\ \A n \in { "tag500", "tag501" } : \E p \in 1..Len(destroy) : n \in Adds(destroy[p])
    BY <2>1, SavedTwo DEF destroy
  <2> QED
    BY <2>2, <2>3 DEF SetsItsMarks
<1>2. WellFormed(7, timestampsInsert) /\ SetsItsMarks(7, timestampsInsert)
  <2>1. /\ 7 \in 1..LastBlock
        /\ "test1_file2.mkv" \notin Columns /\ Home("test1_file2.mkv") \in 1..7
    BY DEF LastBlock, Columns, Home
  <2>2. \A n : Home(n) = 7 => n \in { "test1_file2.mkv" }
    BY DEF Home
  <2>3. /\ WellFormed(7, timestampsInsert)
        /\ \A n \in { "test1_file2.mkv" } : \E p \in 1..Len(timestampsInsert) : n \in Adds(timestampsInsert[p])
    BY <2>1, SavedOne DEF timestampsInsert
  <2> QED
    BY <2>2, <2>3 DEF SetsItsMarks
<1>3. WellFormed(14, associateWithId) /\ SetsItsMarks(14, associateWithId)
  <2>1. /\ 14 \in 1..LastBlock
        /\ "test5_file4.mkv_of_5" \notin Columns /\ Home("test5_file4.mkv_of_5") \in 1..14
    BY DEF LastBlock, Columns, Home
  <2>2. \A n : Home(n) = 14 => n \in {}
    BY DEF Home
  <2>3. /\ WellFormed(14, associateWithId)
        /\ \A n \in { "test5_file4.mkv_of_5" } : \E p \in 1..Len(associateWithId) : n \in Adds(associateWithId[p])
    BY <2>1, SavedOne DEF associateWithId
  <2> QED
    BY <2>2, <2>3 DEF SetsItsMarks
<1>4. WellFormed(15, attachWithCustomPivot) /\ SetsItsMarks(15, attachWithCustomPivot)
  <2>1. /\ 15 \in 1..LastBlock
        /\ "tag100" \notin Columns /\ Home("tag100") \in 1..15
        /\ "tag101" \notin Columns /\ Home("tag101") \in 1..15
    BY DEF LastBlock, Columns, Home
  <2>2. \A n : Home(n) = 15 => n \in { "tag100", "tag101" }
    BY DEF Home
  <2>3. /\ WellFormed(15, attachWithCustomPivot)
        /\ \A n \in { "tag100", "tag101" } : \E p \in 1..Len(attachWithCustomPivot) : n \in Adds(attachWithCustomPivot[p])
    BY <2>1, SavedTwo DEF attachWithCustomPivot
  <2> QED
    BY <2>2, <2>3 DEF SetsItsMarks
<1>5. WellFormed(16, attachWithPivot) /\ SetsItsMarks(16, attachWithPivot)
  <2>1. /\ 16 \in 1..LastBlock
        /\ "test100" \notin Columns /\ Home("test100") \in 1..16
        /\ "test101" \notin Columns /\ Home("test101") \in 1..16
    BY DEF LastBlock, Columns, Home
  <2>2. \A n : Home(n) = 16 => n \in { "test101" }
    BY DEF Home
  <2>3. /\ WellFormed(16, attachWithPivot)
        /\ \A n \in { "test100", "test101" } : \E p \in 1..Len(attachWithPivot) : n \in Adds(attachWithPivot[p])
    BY <2>1, SavedTwo DEF attachWithPivot
  <2> QED
    BY <2>2, <2>3 DEF SetsItsMarks
<1>6. WellFormed(17, attachIdsWithCustomPivot) /\ SetsItsMarks(17, attachIdsWithCustomPivot)
  <2>1. /\ 17 \in 1..LastBlock
        /\ "tag100" \notin Columns /\ Home("tag100") \in 1..17
        /\ "tag101" \notin Columns /\ Home("tag101") \in 1..17
    BY DEF LastBlock, Columns, Home
  <2>2. \A n : Home(n) = 17 => n \in {}
    BY DEF Home
  <2>3. /\ WellFormed(17, attachIdsWithCustomPivot)
        /\ \A n \in { "tag100", "tag101" } : \E p \in 1..Len(attachIdsWithCustomPivot) : n \in Adds(attachIdsWithCustomPivot[p])
    BY <2>1, SavedTwo DEF attachIdsWithCustomPivot
  <2> QED
    BY <2>2, <2>3 DEF SetsItsMarks
<1>7. WellFormed(18, attachIdsWithPivot) /\ SetsItsMarks(18, attachIdsWithPivot)
  <2>1. /\ 18 \in 1..LastBlock
        /\ "test100" \notin Columns /\ Home("test100") \in 1..18
        /\ "test101" \notin Columns /\ Home("test101") \in 1..18
    BY DEF LastBlock, Columns, Home
  <2>2. \A n : Home(n) = 18 => n \in {}
    BY DEF Home
  <2>3. /\ WellFormed(18, attachIdsWithPivot)
        /\ \A n \in { "test100", "test101" } : \E p \in 1..Len(attachIdsWithPivot) : n \in Adds(attachIdsWithPivot[p])
    BY <2>1, SavedTwo DEF attachIdsWithPivot
  <2> QED
    BY <2>2, <2>3 DEF SetsItsMarks
<1>8. WellFormed(19, detachWithCustomPivot) /\ SetsItsMarks(19, detachWithCustomPivot)
  <2>1. /\ 19 \in 1..LastBlock
        /\ "tag100" \notin Columns /\ Home("tag100") \in 1..19
        /\ "tag101" \notin Columns /\ Home("tag101") \in 1..19
    BY DEF LastBlock, Columns, Home
  <2>2. \A n : Home(n) = 19 => n \in {}
    BY DEF Home
  <2>3. /\ WellFormed(19, detachWithCustomPivot)
        /\ \A n \in { "tag100", "tag101" } : \E p \in 1..Len(detachWithCustomPivot) : n \in Adds(detachWithCustomPivot[p])
    BY <2>1, SavedTwo DEF detachWithCustomPivot
  <2> QED
    BY <2>2, <2>3 DEF SetsItsMarks
<1>9. WellFormed(20, detachWithPivot) /\ SetsItsMarks(20, detachWithPivot)
  <2>1. /\ 20 \in 1..LastBlock
        /\ "test100" \notin Columns /\ Home("test100") \in 1..20
        /\ "test101" \notin Columns /\ Home("test101") \in 1..20
    BY DEF LastBlock, Columns, Home
  <2>2. \A n : Home(n) = 20 => n \in {}
    BY DEF Home
  <2>3. /\ WellFormed(20, detachWithPivot)
        /\ \A n \in { "test100", "test101" } : \E p \in 1..Len(detachWithPivot) : n \in Adds(detachWithPivot[p])
    BY <2>1, SavedTwo DEF detachWithPivot
  <2> QED
    BY <2>2, <2>3 DEF SetsItsMarks
<1>10. WellFormed(21, syncWithCustomPivot) /\ SetsItsMarks(21, syncWithCustomPivot)
  <2>1. /\ 21 \in 1..LastBlock
        /\ "tag100" \notin Columns /\ Home("tag100") \in 1..21
        /\ "tag101" \notin Columns /\ Home("tag101") \in 1..21
        /\ "tag102" \notin Columns /\ Home("tag102") \in 1..21
        /\ "tag103" \notin Columns /\ Home("tag103") \in 1..21
    BY DEF LastBlock, Columns, Home
  <2>2. \A n : Home(n) = 21 => n \in { "tag102", "tag103" }
    BY DEF Home
  <2>3. /\ WellFormed(21, syncWithCustomPivot)
        /\ \A n \in { "tag100", "tag101", "tag102", "tag103" } : \E p \in 1..Len(syncWithCustomPivot) : n \in Adds(syncWithCustomPivot[p])
    BY <2>1, SavedFour DEF syncWithCustomPivot
  <2> QED
    BY <2>2, <2>3 DEF SetsItsMarks
<1>11. WellFormed(22, syncWithPivot) /\ SetsItsMarks(22, syncWithPivot)
  <2>1. /\ 22 \in 1..LastBlock
        /\ "test100" \notin Columns /\ Home("test100") \in 1..22
        /\ "test101" \notin Columns /\ Home("test101") \in 1..22
        /\ "test102" \notin Columns /\ Home("test102") \in 1..22
        /\ "test103" \notin Columns /\ Home("test103") \in 1..22
    BY DEF LastBlock, Columns, Home
  <2>2. \A n : Home(n) = 22 => n \in { "test102", "test103" }
    BY DEF Home
  <2>3. /\ WellFormed(22, syncWithPivot)
        /\ \A n \in { "test100", "test101", "test102", "test103" } : \E p \in 1..Len(syncWithPivot) : n \in Adds(syncWithPivot[p])
    BY <2>1, SavedFour DEF syncWithPivot
  <2> QED
    BY <2>2, <2>3 DEF SetsItsMarks
<1> QED
  BY <1>1, <1>2, <1>3, <1>4, <1>5, <1>6, <1>7, <1>8, <1>9, <1>10, <1>11

LEMMA ColumnBlocks ==
  /\ WellFormed(10, update) /\ SetsItsMarks(10, update)
  /\ WellFormed(11, isDirty) /\ SetsItsMarks(11, isDirty)
  /\ WellFormed(12, wasChanged) /\ SetsItsMarks(12, wasChanged)
<1>1. WellFormed(10, update) /\ SetsItsMarks(10, update)
  <2>1. "torrents[3].progress" \in Columns /\ Home("torrents[3].progress") \in 1..10 /\ 10 \in 1..LastBlock
    BY DEF LastBlock, Columns, Home
  <2>2. \A n : Home(n) = 10 => n = "torrents[3].progress"
    BY DEF Home
  <2>3. 1 \in 1..2
    OBVIOUS
  <2> QED
    BY <2>1, <2>2, <2>3, ChangeRestore DEF update, SetsItsMarks
<1>2. WellFormed(11, isDirty) /\ SetsItsMarks(11, isDirty)
  <2>1. "torrents[3].name" \in Columns /\ Home("torrents[3].name") \in 1..11 /\ 11 \in 1..LastBlock
    BY DEF LastBlock, Columns, Home
  <2>2. \A n : Home(n) = 11 => n = "torrents[3].name"
    BY DEF Home
  <2>3. 1 \in 1..2
    OBVIOUS
  <2> QED
    BY <2>1, <2>2, <2>3, ChangeRestore DEF isDirty, SetsItsMarks
<1>3. WellFormed(12, wasChanged) /\ SetsItsMarks(12, wasChanged)
  <2>1. "torrents[3].name" \in Columns /\ Home("torrents[3].name") \in 1..12 /\ 12 \in 1..LastBlock
    BY DEF LastBlock, Columns, Home
  <2>2. \A n : Home(n) = 12 => FALSE
    BY DEF Home
  <2>3. 1 \in 1..2
    OBVIOUS
  <2> QED
    BY <2>1, <2>2, <2>3, ChangeRestore DEF wasChanged, SetsItsMarks
<1> QED
  BY <1>1, <1>2, <1>3

LEMMA NoMarks ==
  SetsItsMarks(3, findOrNewFound) /\ SetsItsMarks(4, firstOrCreateFound) /\ SetsItsMarks(6, pushLazyLoad)
<1>1. \A n : Home(n) \notin { 3, 4, 6 }
  BY DEF Home
<1> QED
  BY <1>1 DEF SetsItsMarks

LEMMA BlocksShape == Len(Blocks) = LastBlock /\ DOMAIN Blocks = 1..LastBlock
  BY DEF Blocks, LastBlock

\* Every block is well-formed, and sets the marks that are its own.
LEMMA BlocksWellFormed ==
  ASSUME NEW b \in 1..LastBlock
  PROVE  WellFormed(b, Blocks[b]) /\ SetsItsMarks(b, Blocks[b])
<1>1. b = 1 => WellFormed(b, Blocks[b]) /\ SetsItsMarks(b, Blocks[b])
  BY QueryBuilderWellFormed DEF Blocks
<1>2. b = 2 => WellFormed(b, Blocks[b]) /\ SetsItsMarks(b, Blocks[b])
  BY SavedBlocks DEF Blocks
<1>3. b = 3 => WellFormed(b, Blocks[b]) /\ SetsItsMarks(b, Blocks[b])
  BY FindOrNewWellFormed, NoMarks DEF Blocks
<1>4. b = 4 => WellFormed(b, Blocks[b]) /\ SetsItsMarks(b, Blocks[b])
  BY FirstOrCreateWellFormed, NoMarks DEF Blocks
<1>5. b = 5 => WellFormed(b, Blocks[b]) /\ SetsItsMarks(b, Blocks[b])
  BY NotFoundWellFormed DEF Blocks
<1>6. b = 6 => WellFormed(b, Blocks[b]) /\ SetsItsMarks(b, Blocks[b])
  BY PushWellFormed, NoMarks DEF Blocks
<1>7. b = 7 => WellFormed(b, Blocks[b]) /\ SetsItsMarks(b, Blocks[b])
  BY SavedBlocks DEF Blocks
<1>8. b = 8 => WellFormed(b, Blocks[b]) /\ SetsItsMarks(b, Blocks[b])
  BY CountWellFormed DEF Blocks
<1>9. b = 9 => WellFormed(b, Blocks[b]) /\ SetsItsMarks(b, Blocks[b])
  BY CreateWellFormed DEF Blocks
<1>10. b = 10 => WellFormed(b, Blocks[b]) /\ SetsItsMarks(b, Blocks[b])
  BY ColumnBlocks DEF Blocks
<1>11. b = 11 => WellFormed(b, Blocks[b]) /\ SetsItsMarks(b, Blocks[b])
  BY ColumnBlocks DEF Blocks
<1>12. b = 12 => WellFormed(b, Blocks[b]) /\ SetsItsMarks(b, Blocks[b])
  BY ColumnBlocks DEF Blocks
<1>13. b = 13 => WellFormed(b, Blocks[b]) /\ SetsItsMarks(b, Blocks[b])
  BY AssociateWellFormed DEF Blocks
<1>14. b = 14 => WellFormed(b, Blocks[b]) /\ SetsItsMarks(b, Blocks[b])
  BY SavedBlocks DEF Blocks
<1>15. b = 15 => WellFormed(b, Blocks[b]) /\ SetsItsMarks(b, Blocks[b])
  BY SavedBlocks DEF Blocks
<1>16. b = 16 => WellFormed(b, Blocks[b]) /\ SetsItsMarks(b, Blocks[b])
  BY SavedBlocks DEF Blocks
<1>17. b = 17 => WellFormed(b, Blocks[b]) /\ SetsItsMarks(b, Blocks[b])
  BY SavedBlocks DEF Blocks
<1>18. b = 18 => WellFormed(b, Blocks[b]) /\ SetsItsMarks(b, Blocks[b])
  BY SavedBlocks DEF Blocks
<1>19. b = 19 => WellFormed(b, Blocks[b]) /\ SetsItsMarks(b, Blocks[b])
  BY SavedBlocks DEF Blocks
<1>20. b = 20 => WellFormed(b, Blocks[b]) /\ SetsItsMarks(b, Blocks[b])
  BY SavedBlocks DEF Blocks
<1>21. b = 21 => WellFormed(b, Blocks[b]) /\ SetsItsMarks(b, Blocks[b])
  BY SavedBlocks DEF Blocks
<1>22. b = 22 => WellFormed(b, Blocks[b]) /\ SetsItsMarks(b, Blocks[b])
  BY SavedBlocks DEF Blocks
<1>23. b = 23 => WellFormed(b, Blocks[b]) /\ SetsItsMarks(b, Blocks[b])
  BY HasOneOrManyWellFormed DEF Blocks
<1>24. b = 24 => WellFormed(b, Blocks[b]) /\ SetsItsMarks(b, Blocks[b])
  BY BelongsToManyWellFormed DEF Blocks
<1> QED
  BY <1>1, <1>2, <1>3, <1>4, <1>5, <1>6, <1>7, <1>8, <1>9, <1>10, <1>11, <1>12,
     <1>13, <1>14, <1>15, <1>16, <1>17, <1>18, <1>19, <1>20, <1>21, <1>22, <1>23, <1>24 DEF LastBlock

-----------------------------------------------------------------------------
(* A script followed statement by statement *)

LEMMA HomeIsBlock ==
  ASSUME NEW n PROVE Home(n) \in 0..LastBlock
  BY DEF Home, LastBlock

LEMMA NothingAtStart ==
  ASSUME NEW script, NEW n PROVE ~Gone(script, 1, n) /\ ~Written(script, 1, n)
  BY DEF Gone, Written

LEMMA GoneNext ==
  ASSUME NEW script, NEW p \in Nat \ { 0 }, NEW n, Gone(script, p + 1, n)
  PROVE  n \in Removes(script[p]) \/ (Gone(script, p, n) /\ n \notin Adds(script[p]))
<1>1. PICK i \in 1..p : /\ n \in Removes(script[i])
                        /\ \A j \in (i + 1)..p : n \notin Adds(script[j])
  BY DEF Gone
<1>2. CASE i = p
  BY <1>1, <1>2
<1>3. CASE i # p
  <2>1. i \in 1..(p - 1) /\ p \in (i + 1)..p
    BY <1>3
  <2> QED
    BY <1>1, <2>1 DEF Gone
<1> QED
  BY <1>2, <1>3

LEMMA WrittenNext ==
  ASSUME NEW script, NEW p \in Nat \ { 0 }, NEW n
  PROVE  Written(script, p + 1, n) <=> Written(script, p, n) \/ n \in Adds(script[p])
<1>1. \A i : i \in 1..((p + 1) - 1) <=> i \in 1..(p - 1) \/ i = p
  OBVIOUS
<1> QED
  BY <1>1 DEF Written

\* At its end a block has removed all its marks, and all it has written.
LEMMA NothingAtEnd ==
  ASSUME NEW b \in 1..LastBlock, NEW n, n # "test3",
         Home(n) = b \/ Written(Blocks[b], Len(Blocks[b]) + 1, n)
  PROVE  Gone(Blocks[b], Len(Blocks[b]) + 1, n)
<1> DEFINE script == Blocks[b]
<1>1. WellFormed(b, script) /\ SetsItsMarks(b, script)
  BY BlocksWellFormed
<1> HIDE DEF script
<1>2. Len(script) \in Nat
  BY <1>1 DEF WellFormed
<1>3. 1..((Len(script) + 1) - 1) = 1..Len(script)
  BY <1>2
<1>4. PICK p \in 1..Len(script) : n \in Adds(script[p])
  BY <1>1, <1>3 DEF SetsItsMarks, Written, script
<1>5. Gone(script, Len(script) + 1, n)
  BY <1>1, <1>4 DEF WellFormed
<1> QED
  BY <1>5 DEF script

-----------------------------------------------------------------------------
(* The inductive invariant *)

currentBlock == Blocks[block]

present == rows \union changed

Healed(c, b) == \E a \in 1..b : c \in HealedBlocks(a)

TypeInv ==
  /\ block \in 1..(LastBlock + 1)
  /\ running \in { "running", "aborting", "completed", "failed" }
  /\ running = "running" /\ block <= LastBlock => position \in 1..(Len(currentBlock) + 1)
  /\ running = "completed" => block = LastBlock + 1
  /\ rows \intersect Columns = {} /\ changed \subseteq Columns
  /\ \A n \in present \ { "test3" } : Home(n) >= 1
  /\ found.rows \intersect Columns = {} /\ found.changed \subseteq Columns
  /\ \A n \in found.rows \ { "test3" } : Home(n) >= 1

\* Nothing is left of the blocks the run has left, but what it is writing again.
PassedClean ==
  running \in { "running", "completed" } => \A n \in present \ { "test3" } :
    Home(n) >= block \/ (block <= LastBlock /\ Written(currentBlock, position, n))

\* What the block has removed is not there.
GoneAbsent ==
  running = "running" /\ block <= LastBlock =>
    \A n \in present : ~Gone(currentBlock, position, n)

\* As long as torrent 3 has a copy it keeps its changed name.
CopyKeepsRenamed == "test3" \in rows => "torrents[3].name" \in changed

\* A row that was found and that no block has healed yet is still there, and
\* the current block has not got past it.
FoundRowsStay ==
  running = "running" => \A n \in found.rows \ { "test3" } :
    \/ Healed(Home(n), block)
    \/ n \in rows /\ (block <= LastBlock => ~Written(currentBlock, position, n))

\* A torrent 3 that was found renamed stays renamed: it has a copy by the time
\* its name would be restored.
FoundRenamedStays ==
  running = "running" /\ "torrents[3].name" \in found.changed =>
    /\ "torrents[3].name" \in changed
    /\ block > 4 \/ (block = 4 /\ position > 1) => "test3" \in rows

\* Past the assertion of findOrNewFound a debug build has a torrent 3 of its
\* own name, until the copy can no longer be made.
DebugSeesSeed ==
  debug /\ running = "running" /\ (block = 4 \/ (block = 3 /\ position > 1)) =>
    "torrents[3].name" \notin changed

IInv ==
  /\ TypeInv /\ PassedClean /\ GoneAbsent /\ CopyKeepsRenamed
  /\ FoundRowsStay /\ FoundRenamedStays /\ DebugSeesSeed /\ DebugMakesNoCopy

-----------------------------------------------------------------------------
(* The invariant of the columns that are changed by their own value *)

PushColumns == << "torrents[2].name", "files.filepath", "file_properties.name" >>

\* The value has been changed and not put back yet.
Ahead(c) ==
  \/ block = 6 /\ \E k \in 1..3 : c = PushColumns[k] /\ position > k + 3 /\ position <= k + 6
  \/ block = 8 /\ c = "torrents[1].size" /\ position = 2

Remembered(c) == block = 6 /\ \E k \in 1..3 : c = PushColumns[k] /\ position > k

CountTypeInv ==
  /\ counted \in [CountedColumns -> Nat] /\ memory \in [CountedColumns -> Nat]
  /\ found.counted \in [CountedColumns -> Nat]

\* A run has changed a value once at most, and knows the one it found.
CountsFollowed ==
  running = "running" => \A c \in CountedColumns :
    /\ counted[c] = found.counted[c] + (IF Ahead(c) THEN 1 ELSE 0)
    /\ Remembered(c) => memory[c] = found.counted[c]

CountInv == CountTypeInv /\ CountsFollowed /\ CountedBack

-----------------------------------------------------------------------------
(* What a statement does to the marks *)

LEMMA RowStatement ==
  ASSUME NEW b \in 1..LastBlock, NEW s, StatementOk(b, s), s.op \in RowOps, Effect(s)
  PROVE  /\ changed' = changed
         /\ rows' \subseteq (rows \ Removes(s)) \union Adds(s)
         /\ rows \ rows' \subseteq MayRemove(s)
         /\ s.op # "firstOrCreate" => Adds(s) \subseteq rows'
<1>1. changed' = changed
  BY DEF RowOps, Effect
<1>2. rows' \in RowsAfter(s)
  BY DEF Effect
<1>3. CASE s.op \in { "insert", "insertOrIgnore" }
  BY <1>1, <1>2, <1>3 DEF RowsAfter, Adds, Removes, MayRemove
<1>4. CASE s.op = "firstOrCreate"
  <2>1. rows' = rows \union { row \in s.to : ~Taken(row, rows) }
    BY <1>2, <1>4 DEF RowsAfter
  <2>2. Adds(s) = s.to /\ Removes(s) = {}
    BY <1>4 DEF Adds, Removes
  <2> HIDE DEF Taken
  <2> QED
    BY <1>1, <1>4, <2>1, <2>2
<1>5. CASE s.op = "rename"
  <2>1. s.of \intersect s.to = {} /\ rows' = (rows \ s.of) \union s.to
    BY <1>2, <1>5 DEF RowsAfter, StatementOk
  <2>2. Adds(s) = s.to /\ Removes(s) = s.of /\ MayRemove(s) = s.of
    BY <1>5 DEF Adds, Removes, MayRemove
  <2> QED
    BY <1>1, <2>1, <2>2
<1>6. CASE s.op = "remove"
  <2>1. rows' = rows \ s.of
    BY <1>2, <1>6 DEF RowsAfter
  <2>2. Adds(s) = {} /\ Removes(s) = s.of /\ MayRemove(s) = s.of
    BY <1>6 DEF Adds, Removes, MayRemove
  <2> QED
    BY <1>1, <2>1, <2>2
<1>7. CASE s.op = "removeTwo"
  <2>1. PICK two \in SUBSET (s.of \intersect rows) : rows' = rows \ two
    BY <1>2, <1>7 DEF RowsAfter
  <2>2. Adds(s) = {} /\ Removes(s) = {} /\ MayRemove(s) = s.of
    BY <1>7 DEF Adds, Removes, MayRemove
  <2> QED
    BY <1>1, <2>1, <2>2
<1>8. CASE s.op = "assertAbsent"
  <2>1. rows' = rows
    BY <1>2, <1>8 DEF RowsAfter
  <2>2. Adds(s) = {} /\ Removes(s) = {}
    BY <1>8 DEF Adds, Removes
  <2> QED
    BY <1>1, <2>1, <2>2
<1> QED
  BY <1>3, <1>4, <1>5, <1>6, <1>7, <1>8 DEF RowOps

LEMMA ColumnStatement ==
  ASSUME NEW b \in 1..LastBlock, NEW s, StatementOk(b, s), s.op \notin RowOps, Effect(s)
  PROVE  /\ rows' = rows
         /\ changed' = (changed \ Removes(s)) \union Adds(s)
         /\ Adds(s) \subseteq Columns /\ MayRemove(s) = Removes(s)
<1>1. s.op \in ColumnOps \union CountOps
  BY DEF StatementOk
<1>2. rows' = rows
  BY <1>1 DEF ColumnOps, CountOps, Effect, RowsAfter
<1>3. /\ s.op \in ColumnOps => s.of \subseteq Columns
      /\ s.op \in CountOps => s.to \subseteq Columns
  BY DEF StatementOk
<1>4. changed' = CASE s.op \in { "change", "updateJoin" } -> changed \union s.of
                   [] s.op = "restore"   -> changed \ s.of
                   [] s.op = "increment" -> changed \union s.to
                   [] s.op = "decrement" -> changed \ s.to
                   [] OTHER              -> changed
  BY DEF Effect
<1>5. CASE s.op \in { "change", "updateJoin" }
  BY <1>2, <1>3, <1>4, <1>5 DEF Adds, Removes, MayRemove, ColumnOps
<1>6. CASE s.op = "restore"
  BY <1>2, <1>3, <1>4, <1>6 DEF Adds, Removes, MayRemove, ColumnOps
<1>7. CASE s.op = "increment"
  BY <1>2, <1>3, <1>4, <1>7 DEF Adds, Removes, MayRemove, CountOps
<1>8. CASE s.op = "decrement"
  BY <1>2, <1>3, <1>4, <1>8 DEF Adds, Removes, MayRemove, CountOps
<1>9. CASE s.op \in { "assertSeed", "remember", "changeBy", "setBack" }
  <2>1. changed' = changed
    BY <1>4, <1>9
  <2>2. Adds(s) = {} /\ Removes(s) = {} /\ MayRemove(s) = {}
    BY <1>9 DEF Adds, Removes, MayRemove
  <2> QED
    BY <1>2, <2>1, <2>2
<1> QED
  BY <1>1, <1>5, <1>6, <1>7, <1>8, <1>9 DEF ColumnOps, CountOps

\* A statement sets only what it adds, and removes only what it may.
LEMMA MarksAfter ==
  ASSUME NEW b \in 1..LastBlock, NEW s, StatementOk(b, s), Effect(s),
         rows \intersect Columns = {}, changed \subseteq Columns
  PROVE  /\ rows' \intersect Columns = {} /\ changed' \subseteq Columns
         /\ rows' \subseteq rows \union Adds(s)
         /\ rows \ rows' \subseteq MayRemove(s)
         /\ changed \ changed' \subseteq MayRemove(s)
         /\ present' \subseteq (present \ Removes(s)) \union Adds(s)
<1>1. CASE s.op \in RowOps
  <2>1. /\ changed' = changed
        /\ rows' \subseteq (rows \ Removes(s)) \union Adds(s)
        /\ rows \ rows' \subseteq MayRemove(s)
    BY <1>1, RowStatement
  <2>2. Adds(s) \subseteq s.to /\ Removes(s) \subseteq s.of
    BY <1>1 DEF Adds, Removes, RowOps
  <2>3. s.to \intersect Columns = {} /\ s.of \intersect Columns = {}
    BY <1>1 DEF StatementOk
  <2>4. Adds(s) \intersect Columns = {} /\ Removes(s) \intersect Columns = {}
    BY <2>2, <2>3
  <2>5. present' \subseteq (present \ Removes(s)) \union Adds(s)
    BY <2>1, <2>4 DEF present
  <2> QED
    BY <2>1, <2>4, <2>5
<1>2. CASE s.op \notin RowOps
  <2>1. /\ rows' = rows
        /\ changed' = (changed \ Removes(s)) \union Adds(s)
        /\ Adds(s) \subseteq Columns /\ MayRemove(s) = Removes(s)
    BY <1>2, ColumnStatement
  <2>2. Removes(s) \subseteq Columns
    BY <1>2 DEF StatementOk, Removes, RowOps, ColumnOps, CountOps
  <2>3. present' \subseteq (present \ Removes(s)) \union Adds(s)
    BY <2>1, <2>2 DEF present
  <2> QED
    BY <2>1, <2>3
<1> QED
  BY <1>1, <1>2

LEMMA AddsOrRemoves ==
  ASSUME NEW b \in 1..LastBlock, NEW s, StatementOk(b, s)
  PROVE  Adds(s) \intersect Removes(s) = {}
<1>1. s.op = "rename" => s.of \intersect s.to = {}
  BY DEF StatementOk
<1> QED
  BY <1>1 DEF Adds, Removes

-----------------------------------------------------------------------------
(* The invariant: initial states, and the statement of a run *)

LEMMA CurrentBlock ==
  ASSUME TypeInv, running = "running", block <= LastBlock
  PROVE  /\ block \in 1..LastBlock
         /\ WellFormed(block, currentBlock)
         /\ Len(currentBlock) \in Nat
         /\ position \in 1..(Len(currentBlock) + 1)
<1>1. block \in 1..LastBlock
  BY DEF TypeInv, LastBlock
<1>2. WellFormed(block, currentBlock)
  BY <1>1, BlocksWellFormed DEF currentBlock
<1> QED
  BY <1>1, <1>2 DEF TypeInv, WellFormed

LEMMA InitInv == Init => IInv
<1> SUFFICES ASSUME Init PROVE IInv
  OBVIOUS
<1>1. block = 1 /\ position = 1 /\ running = "running"
  BY DEF Init
<1>2. rows = {} /\ changed = {} /\ found.rows = {} /\ found.changed = {}
  BY DEF Init
<1>3. present = {}
  BY <1>2 DEF present
<1>4. Len(currentBlock) \in Nat
  BY <1>1, BlocksWellFormed DEF currentBlock, WellFormed, LastBlock
<1>5. 1 \in 1..(Len(currentBlock) + 1)
  BY <1>4
<1>6. TypeInv
  BY <1>1, <1>2, <1>3, <1>5 DEF TypeInv, LastBlock
<1>7. PassedClean /\ GoneAbsent
  BY <1>3 DEF PassedClean, GoneAbsent
<1>8. CopyKeepsRenamed /\ FoundRowsStay /\ FoundRenamedStays /\ DebugSeesSeed /\ DebugMakesNoCopy
  BY <1>1, <1>2 DEF CopyKeepsRenamed, FoundRowsStay, FoundRenamedStays, DebugSeesSeed,
     DebugMakesNoCopy
<1> QED
  BY <1>6, <1>7, <1>8 DEF IInv

\* What a statement of the current block is like.
LEMMA Issued ==
  ASSUME TypeInv, issuing
  PROVE  /\ running = "running" /\ block \in 1..LastBlock
         /\ position \in Nat \ { 0 } /\ position \in 1..Len(currentBlock)
         /\ Len(currentBlock) \in Nat
         /\ StatementOk(block, statement)
         /\ \A n \in MayRemove(statement) :
              Home(n) \in HealedBlocks(block) \/ Written(currentBlock, position, n)
<1>1. running = "running" /\ block <= LastBlock
  BY BlocksShape DEF issuing, TypeInv
<1>2. /\ WellFormed(block, currentBlock) /\ block \in 1..LastBlock
      /\ Len(currentBlock) \in Nat /\ position \in 1..(Len(currentBlock) + 1)
  BY <1>1, CurrentBlock
<1>3. position <= Len(currentBlock)
  BY DEF issuing, currentBlock
<1>4. position \in 1..Len(currentBlock) /\ position \in Nat \ { 0 }
  BY <1>2, <1>3
<1>5. statement = currentBlock[position]
  BY DEF statement, currentBlock
<1> QED
  BY <1>1, <1>2, <1>4, <1>5 DEF WellFormed

\* What a block has set so far is its own or of an earlier block.
LEMMA WrittenHome ==
  ASSUME TypeInv, running = "running", block <= LastBlock, NEW n, n # "test3",
         Written(currentBlock, position, n)
  PROVE  Home(n) \in 1..block
<1>1. /\ WellFormed(block, currentBlock) /\ Len(currentBlock) \in Nat
      /\ position \in 1..(Len(currentBlock) + 1)
  BY CurrentBlock
<1>2. PICK i \in 1..(position - 1) : n \in Adds(currentBlock[i])
  BY DEF Written
<1>3. i \in 1..Len(currentBlock)
  BY <1>1, <1>2
<1>4. StatementOk(block, currentBlock[i])
  BY <1>1, <1>3 DEF WellFormed
<1> QED
  BY <1>2, <1>4 DEF StatementOk

LEMMA OwnBlocks ==
  /\ Blocks[3] = << AssertSeed("torrents[3].name") >>
  /\ Blocks[4] = << FirstOrCreate("test3") >>
  /\ Home("torrents[3].name") = 11 /\ "torrents[3].name" \in Columns
  /\ "test3" \notin Columns
  BY DEF Blocks, findOrNewFound, firstOrCreateFound, Home, Columns

\* Only the statement of firstOrCreateFound copies torrent 3.
LEMMA CopyMade ==
  ASSUME IInv, Succeeds, "test3" \in Adds(statement)
  PROVE  /\ block = 4 /\ position = 1
         /\ statement = FirstOrCreate("test3")
         /\ changed' = changed
         /\ rows' = rows \union { row \in { "test3" } : ~Taken(row, rows) }
<1>1. issuing /\ TypeInv
  BY DEF Succeeds, IInv
<1>2. /\ StatementOk(block, statement) /\ block \in 1..LastBlock
      /\ position \in 1..Len(currentBlock)
  BY <1>1, Issued
<1>3. block = 4
  BY <1>2 DEF StatementOk
<1>4. currentBlock = << FirstOrCreate("test3") >>
  BY <1>3, OwnBlocks DEF currentBlock
<1>5. position = 1 /\ statement = FirstOrCreate("test3")
  BY <1>2, <1>4 DEF statement, currentBlock
<1>6. statement.op = "firstOrCreate" /\ statement.of = { "test3" } /\ statement.to = { "test3" }
  BY <1>5 DEF FirstOrCreate, Statement
<1>7. Effect(statement)
  BY DEF Succeeds
<1>8. changed' = changed
  BY <1>6, <1>7 DEF Effect
<1>9. rows' \in { rows \union { row \in { "test3" } : ~Taken(row, rows) } }
  BY <1>6, <1>7 DEF Effect, RowsAfter
<1> QED
  BY <1>3, <1>5, <1>8, <1>9

\* The copy is made unless it is there or torrent 3 has its name.
LEMMA CopyTaken ==
  Taken("test3", rows) <=> "test3" \in rows \/ "torrents[3].name" \notin changed
<1>1. \A other : NameOf(other) = NameOf("test3") <=> other = "test3"
  BY DEF NameOf
<1> QED
  BY <1>1 DEF Taken

\* A column of torrent 3 is restored only when its name is free.
LEMMA RenamedRestored ==
  ASSUME IInv, Succeeds, "torrents[3].name" \in MayRemove(statement)
  PROVE  block >= 11 /\ "test3" \notin rows
<1>1. issuing /\ TypeInv /\ ~Throws(statement)
  BY DEF Succeeds, IInv
<1> DEFINE s == statement
<1>2. /\ StatementOk(block, s) /\ block \in 1..LastBlock /\ running = "running"
      /\ Home("torrents[3].name") \in HealedBlocks(block)
           \/ Written(currentBlock, position, "torrents[3].name")
  BY <1>1, Issued
<1>3. Home("torrents[3].name") \notin HealedBlocks(block)
  BY OwnBlocks DEF HealedBlocks
<1>4. Home("torrents[3].name") \in 1..block
  BY <1>1, <1>2, <1>3, WrittenHome DEF LastBlock
<1>5. block >= 11
  BY <1>2, <1>4, OwnBlocks DEF LastBlock
<1> HIDE DEF s
<1>6. s.op \notin CountOps
  BY <1>2, <1>5 DEF StatementOk
<1>7. s.op \notin RowOps
  <2>1. s.op \in RowOps => MayRemove(s) \subseteq s.of
    BY DEF RowOps, MayRemove, Removes
  <2> QED
    BY <1>2, <2>1, OwnBlocks DEF StatementOk, s
<1>8. s.op = "restore" /\ "torrents[3].name" \in s.of
  BY <1>2, <1>6, <1>7 DEF StatementOk, ColumnOps, MayRemove, Removes, s
<1>9. "test3" \notin rows
  BY <1>1, <1>8 DEF Throws, s
<1> QED
  BY <1>5, <1>9

-----------------------------------------------------------------------------
(* The invariant: a statement that succeeds *)

LEMMA SucceedsMarks ==
  ASSUME IInv, Succeeds
  PROVE  TypeInv' /\ PassedClean' /\ GoneAbsent'
<1> DEFINE s == statement
           script == currentBlock
<1>1. issuing /\ TypeInv /\ PassedClean /\ GoneAbsent
  BY DEF Succeeds, IInv
<1>2. /\ running = "running" /\ block \in 1..LastBlock
      /\ position \in Nat \ { 0 } /\ position \in 1..Len(script) /\ Len(script) \in Nat
      /\ StatementOk(block, s)
  BY <1>1, Issued
<1>3. /\ UNCHANGED <<block, running, found>> /\ position' = position + 1
      /\ currentBlock' = currentBlock
  BY DEF Succeeds, currentBlock
<1>4. Effect(s) /\ s = script[position]
  BY DEF Succeeds, statement, currentBlock
<1>5. rows \intersect Columns = {} /\ changed \subseteq Columns
  BY <1>1 DEF TypeInv
<1>6. /\ rows' \intersect Columns = {} /\ changed' \subseteq Columns
      /\ present' \subseteq (present \ Removes(s)) \union Adds(s)
  BY <1>2, <1>4, <1>5, MarksAfter
<1>7. \A n \in Adds(s) : n = "test3" \/ Home(n) \in 1..block
  BY <1>2 DEF StatementOk
<1>8. Adds(s) \intersect Removes(s) = {}
  BY <1>2, AddsOrRemoves
<1>9. \A n : Written(script, position + 1, n) <=> Written(script, position, n) \/ n \in Adds(s)
  BY <1>2, <1>4, WrittenNext
<1>10. \A n : Gone(script, position + 1, n) =>
         n \in Removes(s) \/ (Gone(script, position, n) /\ n \notin Adds(s))
  BY <1>2, <1>4, GoneNext
<1>11. block <= LastBlock /\ block' <= LastBlock
  BY <1>2, <1>3 DEF LastBlock
<1> HIDE DEF s, script
<1>12. TypeInv'
  <2>1. \A n \in present' \ { "test3" } : Home(n) >= 1
    BY <1>1, <1>2, <1>6, <1>7 DEF TypeInv
  <2>2. position' \in 1..(Len(script) + 1)
    BY <1>2, <1>3
  <2>3. Len(currentBlock') = Len(script)
    BY <1>3 DEF script
  <2> QED
    BY <1>1, <1>3, <1>6, <2>1, <2>2, <2>3 DEF TypeInv
<1>13. PassedClean'
  <2> SUFFICES ASSUME NEW n \in present' \ { "test3" }
               PROVE  Home(n) >= block \/ Written(script, position + 1, n)
    BY <1>3, <1>11 DEF PassedClean, script
  <2>1. n \in present \/ n \in Adds(s)
    BY <1>6
  <2>2. n \in present => Home(n) >= block \/ Written(script, position, n)
    BY <1>1, <1>2 DEF PassedClean, script
  <2> QED
    BY <1>9, <2>1, <2>2
<1>14. GoneAbsent'
  <2> SUFFICES ASSUME NEW n \in present', Gone(script, position + 1, n)
               PROVE  FALSE
    BY <1>3, <1>11 DEF GoneAbsent, script
  <2>1. n \in Removes(s) \/ (Gone(script, position, n) /\ n \notin Adds(s))
    BY <1>10
  <2>2. n \in Adds(s) \/ (n \in present /\ n \notin Removes(s))
    BY <1>6
  <2>3. n \in present => ~Gone(script, position, n)
    BY <1>1, <1>2, <1>11 DEF GoneAbsent, script
  <2> QED
    BY <1>8, <2>1, <2>2, <2>3
<1> QED
  BY <1>12, <1>13, <1>14

LEMMA SucceedsFoundRows ==
  ASSUME IInv, Succeeds PROVE FoundRowsStay'
<1> DEFINE s == statement
           script == currentBlock
<1>1. issuing /\ TypeInv /\ FoundRowsStay /\ ~Throws(s)
  BY DEF Succeeds, IInv
<1>2. /\ running = "running" /\ block \in 1..LastBlock
      /\ position \in Nat \ { 0 } /\ StatementOk(block, s)
      /\ \A n \in MayRemove(s) :
           Home(n) \in HealedBlocks(block) \/ Written(script, position, n)
  BY <1>1, Issued
<1>3. /\ UNCHANGED <<block, running, found>> /\ position' = position + 1
      /\ currentBlock' = currentBlock
  BY DEF Succeeds, currentBlock
<1>4. Effect(s) /\ s = script[position]
  BY DEF Succeeds, statement, currentBlock
<1>5. rows \intersect Columns = {} /\ changed \subseteq Columns
  BY <1>1 DEF TypeInv
<1>6. rows \ rows' \subseteq MayRemove(s)
  BY <1>2, <1>4, <1>5, MarksAfter
<1>7. \A n : Written(script, position + 1, n) <=> Written(script, position, n) \/ n \in Adds(s)
  BY <1>2, <1>4, WrittenNext
<1>8. block <= LastBlock
  BY <1>2 DEF LastBlock
<1> SUFFICES ASSUME NEW n \in found.rows \ { "test3" }, ~Healed(Home(n), block)
             PROVE  n \in rows' /\ ~Written(script, position + 1, n)
  BY <1>3 DEF FoundRowsStay
<1>9. n \in rows /\ ~Written(script, position, n)
  BY <1>1, <1>2, <1>8 DEF FoundRowsStay
<1>10. Home(n) \notin HealedBlocks(block)
  <2>1. block \in 1..block
    BY <1>2
  <2> QED
    BY <2>1 DEF Healed
<1> HIDE DEF s, script
<1>11. n \in rows'
  BY <1>2, <1>6, <1>9, <1>10
<1>12. n \notin Adds(s)
  <2> SUFFICES ASSUME n \in Adds(s) PROVE FALSE
    OBVIOUS
  <2>1. n \notin Columns
    BY <1>5, <1>9
  <2>2. CASE s.op \in RowOps
    <3>1. n \in s.to /\ s.op \in { "insert", "insertOrIgnore", "firstOrCreate", "rename" }
      BY <2>2 DEF Adds, RowOps
    <3>2. s.op \notin { "insertOrIgnore", "firstOrCreate" }
      BY <1>2, <1>10, <3>1 DEF StatementOk
    <3>3. s.op = "insert" => Taken(n, rows)
      BY <1>9 DEF Taken
    <3>4. s.op = "rename" => Taken(n, rows \ s.of)
      <4>1. s.op = "rename" => n \in rows \ s.of
        BY <1>2, <1>9, <3>1 DEF StatementOk
      <4> QED
        BY <4>1 DEF Taken
    <3> HIDE DEF Taken
    <3> QED
      BY <1>1, <3>1, <3>2, <3>3, <3>4 DEF Throws
  <2>3. CASE s.op \notin RowOps
    BY <1>2, <1>4, <2>1, <2>3, ColumnStatement
  <2> QED
    BY <2>2, <2>3
<1> QED
  BY <1>7, <1>9, <1>11, <1>12

LEMMA SucceedsRenamed ==
  ASSUME IInv, Succeeds
  PROVE  CopyKeepsRenamed' /\ FoundRenamedStays' /\ DebugSeesSeed' /\ DebugMakesNoCopy'
<1> DEFINE s == statement
           renamed == "torrents[3].name"
<1>1. /\ issuing /\ TypeInv /\ ~AssertionFails(s)
      /\ CopyKeepsRenamed /\ FoundRenamedStays /\ DebugSeesSeed /\ DebugMakesNoCopy
  BY DEF Succeeds, IInv
<1>2. /\ running = "running" /\ block \in 1..LastBlock
      /\ position \in Nat \ { 0 } /\ position \in 1..Len(currentBlock)
      /\ StatementOk(block, s)
  BY <1>1, Issued
<1>3. UNCHANGED <<debug, block, running, found>> /\ position' = position + 1
  BY DEF Succeeds
<1>4. Effect(s) /\ s = currentBlock[position]
  BY DEF Succeeds, statement, currentBlock
<1>5. rows \intersect Columns = {} /\ changed \subseteq Columns
  BY <1>1 DEF TypeInv
<1>6. /\ rows' \subseteq rows \union Adds(s)
      /\ rows \ rows' \subseteq MayRemove(s)
      /\ changed \ changed' \subseteq MayRemove(s)
  BY <1>2, <1>4, <1>5, MarksAfter
<1>7. "test3" \notin MayRemove(s)
  BY <1>2 DEF StatementOk
<1>8. "test3" \in rows => "test3" \in rows'
  BY <1>6, <1>7
<1>9. renamed \in MayRemove(s) => block >= 11 /\ "test3" \notin rows
  BY RenamedRestored
<1>10. renamed \in changed /\ ("test3" \in rows \/ block < 11) => renamed \in changed'
  BY <1>2, <1>6, <1>9
\* The copy is made in this step.
<1>11. "test3" \in rows' \ rows =>
         /\ block = 4 /\ position = 1
         /\ renamed \in changed /\ changed' = changed
  <2> SUFFICES ASSUME "test3" \in rows' \ rows
               PROVE  /\ block = 4 /\ position = 1
                      /\ renamed \in changed /\ changed' = changed
    OBVIOUS
  <2>1. "test3" \in Adds(s)
    BY <1>6
  <2>2. /\ block = 4 /\ position = 1 /\ changed' = changed
        /\ rows' = rows \union { row \in { "test3" } : ~Taken(row, rows) }
    BY <2>1, CopyMade
  <2>3. ~Taken("test3", rows)
    BY <2>2
  <2> QED
    BY <2>2, <2>3, CopyTaken
\* The statement is that of firstOrCreateFound.
<1>12. block = 4 => /\ position = 1 /\ changed' = changed
                    /\ renamed \in changed => "test3" \in rows'
  <2> SUFFICES ASSUME block = 4
               PROVE  /\ position = 1 /\ changed' = changed
                      /\ renamed \in changed => "test3" \in rows'
    OBVIOUS
  <2>1. currentBlock = << FirstOrCreate("test3") >>
    BY OwnBlocks DEF currentBlock
  <2>2. s = FirstOrCreate("test3")
    BY <1>2, <1>4, <2>1
  <2>3. "test3" \in Adds(s)
    BY <2>2, FirstOrCreateIs
  <2>4. /\ position = 1 /\ changed' = changed
        /\ rows' = rows \union { row \in { "test3" } : ~Taken(row, rows) }
    BY <2>3, CopyMade
  <2>5. renamed \in changed /\ "test3" \notin rows => ~Taken("test3", rows)
    BY CopyTaken
  <2> QED
    BY <2>4, <2>5
\* The statement is the assertion of findOrNewFound.
<1>13. block = 3 => changed' = changed /\ (debug => renamed \notin changed)
  <2> SUFFICES ASSUME block = 3 PROVE changed' = changed /\ (debug => renamed \notin changed)
    OBVIOUS
  <2>1. currentBlock = << AssertSeed(renamed) >>
    BY OwnBlocks DEF currentBlock
  <2>2. s = AssertSeed(renamed)
    BY <1>2, <1>4, <2>1
  <2>3. s.op = "assertSeed" /\ s.of = { renamed }
    BY <2>2 DEF AssertSeed, Statement
  <2>4. changed' = changed
    BY <1>4, <2>3 DEF Effect
  <2> HIDE DEF s
  <2>5. debug => s.of \intersect changed = {}
    BY <1>1, <2>3 DEF AssertionFails, modelDiffers
  <2> QED
    BY <2>3, <2>4, <2>5
<1> HIDE DEF s, renamed
<1>14. CopyKeepsRenamed'
  BY <1>1, <1>8, <1>10, <1>11 DEF CopyKeepsRenamed, renamed
<1>15. FoundRenamedStays'
  <2> SUFFICES ASSUME renamed \in found.changed
               PROVE  /\ renamed \in changed'
                      /\ block > 4 \/ (block = 4 /\ position + 1 > 1) => "test3" \in rows'
    BY <1>2, <1>3 DEF FoundRenamedStays, renamed
  <2>1. /\ renamed \in changed
        /\ block > 4 => "test3" \in rows
    BY <1>1, <1>2 DEF FoundRenamedStays, renamed
  <2>2. renamed \in changed'
    BY <1>2, <1>10, <2>1
  <2>3. block > 4 => "test3" \in rows'
    BY <1>8, <2>1
  <2>4. block = 4 => "test3" \in rows'
    BY <1>12, <2>1
  <2> QED
    BY <2>2, <2>3, <2>4
<1>16. DebugSeesSeed'
  <2> SUFFICES ASSUME debug, block = 4 \/ block = 3 PROVE renamed \notin changed'
    BY <1>2, <1>3 DEF DebugSeesSeed, renamed
  <2>1. block = 4 => renamed \notin changed
    BY <1>1, <1>2 DEF DebugSeesSeed, renamed
  <2> QED
    BY <1>12, <1>13, <2>1
<1>17. DebugMakesNoCopy'
  <2> SUFFICES ASSUME debug, "test3" \in rows' PROVE "test3" \in found.rows
    BY <1>3 DEF DebugMakesNoCopy
  <2>1. CASE "test3" \in rows
    BY <1>1, <2>1 DEF DebugMakesNoCopy
  <2>2. CASE "test3" \notin rows
    BY <1>1, <1>2, <1>11, <2>2 DEF DebugSeesSeed, renamed
  <2> QED
    BY <2>1, <2>2
<1> QED
  BY <1>14, <1>15, <1>16, <1>17

LEMMA SucceedsInv == IInv /\ Succeeds => IInv'
  BY SucceedsMarks, SucceedsFoundRows, SucceedsRenamed DEF IInv

-----------------------------------------------------------------------------
(* The invariant: the other steps *)

\* A block ends with none of its marks, nor of those before it, in the database.
LEMMA BlockEnds ==
  ASSUME IInv, endOfBlock
  PROVE  /\ running = "running" /\ block \in 1..LastBlock
         /\ position = Len(currentBlock) + 1
         /\ \A n \in present \ { "test3" } : Home(n) > block
<1>1. /\ running = "running" /\ block <= LastBlock
      /\ TypeInv /\ PassedClean /\ GoneAbsent
  BY BlocksShape DEF endOfBlock, IInv
<1>2. /\ block \in 1..LastBlock /\ Len(currentBlock) \in Nat
      /\ position \in 1..(Len(currentBlock) + 1)
  BY <1>1, CurrentBlock
<1>3. position > Len(currentBlock)
  BY DEF endOfBlock, currentBlock
<1>4. position = Len(currentBlock) + 1
  BY <1>2, <1>3
<1>5. ASSUME NEW n \in present \ { "test3" } PROVE Home(n) > block
  <2>1. ~Gone(currentBlock, Len(currentBlock) + 1, n)
    BY <1>1, <1>4 DEF GoneAbsent
  <2>2. ~(Home(n) = block \/ Written(currentBlock, Len(currentBlock) + 1, n))
    BY <1>2, <2>1, NothingAtEnd DEF currentBlock
  <2>3. Home(n) >= block
    BY <1>1, <1>4, <2>2 DEF PassedClean
  <2>4. Home(n) \in Nat /\ block \in Nat
    <3>1. Home(n) \in 0..LastBlock
      BY HomeIsBlock
    <3>2. LastBlock \in Nat
      BY DEF LastBlock
    <3> HIDE DEF LastBlock
    <3> QED
      BY <1>2, <3>1, <3>2
  <2>5. Home(n) # block
    BY <2>2
  <2> QED
    BY <2>3, <2>4, <2>5
<1> QED
  BY <1>1, <1>2, <1>4, <1>5

LEMMA endOfBlockInv == IInv /\ endOfBlock => IInv'
<1> SUFFICES ASSUME IInv, endOfBlock PROVE IInv'
  OBVIOUS
<1>1. /\ running = "running" /\ block \in 1..LastBlock
      /\ position = Len(currentBlock) + 1
      /\ \A n \in present \ { "test3" } : Home(n) > block
  BY BlockEnds
<1>2. /\ TypeInv /\ CopyKeepsRenamed /\ FoundRowsStay /\ FoundRenamedStays
      /\ DebugSeesSeed /\ DebugMakesNoCopy
  BY DEF IInv
<1>3. /\ block' = block + 1 /\ position' = 1
      /\ UNCHANGED <<debug, rows, changed, running, found>>
  BY DEF endOfBlock, database
<1>4. present' = present
  BY <1>3 DEF present
<1>5. block' \in 1..(LastBlock + 1) /\ block' \in 2..(LastBlock + 1)
  BY <1>1, <1>3 DEF LastBlock
<1>6. \A n : ~Written(currentBlock', 1, n) /\ ~Gone(currentBlock', 1, n)
  BY NothingAtStart
<1>7. block' <= LastBlock => Len(currentBlock') \in Nat
  <2> SUFFICES ASSUME block' <= LastBlock PROVE Len(Blocks[block']) \in Nat
    BY DEF currentBlock
  <2>1. block' \in 1..LastBlock
    BY <1>5 DEF LastBlock
  <2> QED
    BY <2>1, BlocksWellFormed DEF WellFormed
<1>8. block' <= LastBlock => 1 \in 1..(Len(currentBlock') + 1)
  BY <1>7
<1>9. TypeInv'
  BY <1>1, <1>2, <1>3, <1>4, <1>5, <1>8 DEF TypeInv
<1>10. PassedClean'
  <2> SUFFICES ASSUME NEW n \in present \ { "test3" } PROVE Home(n) >= block + 1
    BY <1>3, <1>4 DEF PassedClean
  <2>1. Home(n) \in Nat /\ block \in Nat
    <3>1. Home(n) \in 0..LastBlock
      BY HomeIsBlock
    <3>2. LastBlock \in Nat
      BY DEF LastBlock
    <3> HIDE DEF LastBlock
    <3> QED
      BY <1>1, <3>1, <3>2
  <2>2. Home(n) > block
    BY <1>1
  <2> QED
    BY <2>1, <2>2
<1>11. GoneAbsent'
  BY <1>3, <1>6 DEF GoneAbsent
<1>12. FoundRowsStay'
  <2> SUFFICES ASSUME NEW n \in found.rows \ { "test3" }, ~Healed(Home(n), block + 1)
               PROVE  n \in rows /\ (block' <= LastBlock => ~Written(currentBlock', 1, n))
    BY <1>3 DEF FoundRowsStay
  <2>1. ~Healed(Home(n), block)
    BY <1>1 DEF Healed
  <2> QED
    BY <1>1, <1>2, <1>6, <2>1 DEF FoundRowsStay
<1>13. FoundRenamedStays'
  <2> SUFFICES ASSUME "torrents[3].name" \in found.changed
               PROVE  /\ "torrents[3].name" \in changed
                      /\ block + 1 > 4 \/ (block + 1 = 4 /\ 1 > 1) => "test3" \in rows
    BY <1>1, <1>3 DEF FoundRenamedStays
  <2>1. block = 4 => position > 1
    <3>1. block = 4 => currentBlock = << FirstOrCreate("test3") >>
      BY OwnBlocks DEF currentBlock
    <3> QED
      BY <1>1, <3>1
  <2> QED
    BY <1>1, <1>2, <2>1 DEF FoundRenamedStays
<1>14. DebugSeesSeed'
  <2> SUFFICES ASSUME debug, block = 3 PROVE "torrents[3].name" \notin changed
    BY <1>1, <1>3 DEF DebugSeesSeed
  <2>1. currentBlock = << AssertSeed("torrents[3].name") >>
    BY OwnBlocks DEF currentBlock
  <2>2. position > 1
    BY <1>1, <2>1
  <2> QED
    BY <1>1, <1>2, <2>2 DEF DebugSeesSeed
<1>15. CopyKeepsRenamed' /\ DebugMakesNoCopy'
  BY <1>2, <1>3 DEF CopyKeepsRenamed, DebugMakesNoCopy
<1> QED
  BY <1>9, <1>10, <1>11, <1>12, <1>13, <1>14, <1>15 DEF IInv

\* A statement whose assertion fails makes no copy of torrent 3 and restores no
\* column.
LEMMA AbortsStatement ==
  ASSUME IInv, Aborts
  PROVE  /\ running = "running" /\ block \in 1..LastBlock
         /\ StatementOk(block, statement) /\ Effect(statement)
         /\ statement.op \notin CountOps
         /\ \A n \in MayRemove(statement) : n \notin Columns
         /\ \A n \in MayRemove(statement) :
              Home(n) \in HealedBlocks(block) \/ Written(currentBlock, position, n)
         /\ "test3" \notin Adds(statement)
<1> DEFINE s == statement
<1>1. issuing /\ TypeInv /\ AssertionFails(s) /\ Effect(s)
  BY DEF Aborts, IInv
<1>2. /\ running = "running" /\ block \in 1..LastBlock /\ StatementOk(block, s)
      /\ position \in 1..Len(currentBlock)
      /\ \A n \in MayRemove(s) :
           Home(n) \in HealedBlocks(block) \/ Written(currentBlock, position, n)
  BY <1>1, Issued
<1>3. s.op \in { "insertOrIgnore", "updateJoin", "removeTwo", "assertAbsent", "assertSeed" }
  BY <1>1 DEF AssertionFails, affectedDiffers, modelExists, modelDiffers
<1>4. "test3" \notin Adds(s)
  <2> SUFFICES ASSUME "test3" \in Adds(s) PROVE FALSE
    OBVIOUS
  <2>1. block = 4
    BY <1>2 DEF StatementOk
  <2>2. currentBlock = << FirstOrCreate("test3") >>
    BY <2>1, OwnBlocks DEF currentBlock
  <2>3. s = FirstOrCreate("test3")
    BY <1>2, <2>2 DEF statement, currentBlock
  <2>4. s.op = "firstOrCreate"
    BY <2>3 DEF FirstOrCreate, Statement
  <2> QED
    BY <1>3, <2>4
<1> HIDE DEF s
<1>5. \A n \in MayRemove(s) : n \notin Columns
  BY <1>2, <1>3 DEF MayRemove, Removes, StatementOk, RowOps
<1>6. s.op \notin CountOps
  BY <1>3 DEF CountOps
<1> QED
  BY <1>1, <1>2, <1>4, <1>5, <1>6 DEF s

LEMMA AbortsInv == IInv /\ Aborts => IInv'
<1> SUFFICES ASSUME IInv, Aborts PROVE IInv'
  OBVIOUS
<1> DEFINE s == statement
<1>1. TypeInv /\ CopyKeepsRenamed /\ DebugMakesNoCopy
  BY DEF IInv
<1>2. /\ running = "running" /\ block \in 1..LastBlock /\ StatementOk(block, s) /\ Effect(s)
      /\ "test3" \notin Adds(s) /\ \A n \in MayRemove(s) : n \notin Columns
  BY AbortsStatement
<1>3. running' = "aborting" /\ UNCHANGED <<debug, block, position, found>>
  BY DEF Aborts
<1>4. rows \intersect Columns = {} /\ changed \subseteq Columns
  BY <1>1 DEF TypeInv
<1>5. /\ rows' \intersect Columns = {} /\ changed' \subseteq Columns
      /\ rows' \subseteq rows \union Adds(s)
      /\ changed \ changed' \subseteq MayRemove(s)
      /\ present' \subseteq (present \ Removes(s)) \union Adds(s)
  BY <1>2, <1>4, MarksAfter
<1>6. \A n \in Adds(s) : n # "test3" => Home(n) \in 1..block
  BY <1>2 DEF StatementOk
<1> HIDE DEF s
<1>7. TypeInv'
  <2>1. \A n \in present' \ { "test3" } : Home(n) >= 1
    BY <1>1, <1>2, <1>5, <1>6 DEF TypeInv
  <2> QED
    BY <1>1, <1>3, <1>5, <2>1 DEF TypeInv
<1>8. "test3" \in rows' => "test3" \in rows
  BY <1>2, <1>5
<1>9. changed \subseteq changed'
  BY <1>2, <1>4, <1>5
<1> QED
  BY <1>1, <1>3, <1>7, <1>8, <1>9 DEF IInv, PassedClean, GoneAbsent, CopyKeepsRenamed,
     FoundRowsStay, FoundRenamedStays, DebugSeesSeed, DebugMakesNoCopy

LEMMA endOfTestsInv == IInv /\ endOfTests => IInv'
<1> SUFFICES ASSUME IInv, endOfTests PROVE IInv'
  OBVIOUS
<1>1. /\ running = "running" /\ running' = "completed" /\ block > LastBlock
      /\ UNCHANGED <<debug, rows, changed, block, position, found>>
  BY BlocksShape DEF endOfTests, database
<1>2. /\ TypeInv /\ PassedClean /\ CopyKeepsRenamed /\ DebugMakesNoCopy
  BY DEF IInv
<1>3. present' = present /\ currentBlock' = currentBlock
  BY <1>1 DEF present, currentBlock
<1>4. TypeInv'
  BY <1>1, <1>2, <1>3 DEF TypeInv, LastBlock
<1>5. PassedClean'
  BY <1>1, <1>2, <1>3 DEF PassedClean
<1> QED
  BY <1>1, <1>2, <1>4, <1>5 DEF IInv, GoneAbsent, CopyKeepsRenamed, FoundRowsStay,
     FoundRenamedStays, DebugSeesSeed, DebugMakesNoCopy

LEMMA FailsInv == IInv /\ Fails => IInv'
<1> SUFFICES ASSUME IInv, Fails PROVE IInv'
  OBVIOUS
<1>1. /\ running' = "failed"
      /\ UNCHANGED <<debug, rows, changed, block, position, found>>
  BY DEF Fails, database
<1>2. /\ TypeInv /\ CopyKeepsRenamed /\ DebugMakesNoCopy
  BY DEF IInv
<1>3. present' = present
  BY <1>1 DEF present
<1>4. TypeInv'
  BY <1>1, <1>2, <1>3 DEF TypeInv
<1> QED
  BY <1>1, <1>2, <1>4 DEF IInv, PassedClean, GoneAbsent, CopyKeepsRenamed, FoundRowsStay,
     FoundRenamedStays, DebugSeesSeed, DebugMakesNoCopy

LEMMA nextRunInv == IInv /\ nextRun => IInv'
<1> SUFFICES ASSUME IInv, nextRun PROVE IInv'
  OBVIOUS
<1>1. /\ running' = "running" /\ block' = 1 /\ position' = 1
      /\ UNCHANGED <<rows, changed>>
      /\ found' = [rows |-> rows, changed |-> changed, counted |-> counted]
  BY DEF nextRun, database
<1>2. TypeInv /\ CopyKeepsRenamed
  BY DEF IInv
<1>3. present' = present /\ found'.rows = rows /\ found'.changed = changed
  BY <1>1 DEF present
<1>4. \A n : ~Written(currentBlock', 1, n) /\ ~Gone(currentBlock', 1, n)
  BY NothingAtStart
<1>5. Len(currentBlock') \in Nat
  BY <1>1, BlocksWellFormed DEF currentBlock, WellFormed, LastBlock
<1>6. 1 \in 1..(Len(currentBlock') + 1)
  BY <1>5
<1>7. TypeInv'
  BY <1>1, <1>2, <1>3, <1>6 DEF TypeInv, LastBlock, present
<1>8. PassedClean' /\ GoneAbsent'
  BY <1>1, <1>2, <1>3, <1>4 DEF PassedClean, GoneAbsent, TypeInv
<1>9. FoundRowsStay'
  BY <1>1, <1>3, <1>4 DEF FoundRowsStay
<1> QED
  BY <1>1, <1>2, <1>3, <1>7, <1>8, <1>9 DEF IInv, CopyKeepsRenamed, FoundRenamedStays,
     DebugSeesSeed, DebugMakesNoCopy

LEMMA NextInv == IInv /\ [Next]_vars => IInv'
<1> SUFFICES ASSUME IInv, [Next]_vars PROVE IInv'
  OBVIOUS
<1>1. CASE UNCHANGED vars
  BY <1>1 DEF vars, database, IInv, TypeInv, PassedClean, GoneAbsent, CopyKeepsRenamed,
     FoundRowsStay, FoundRenamedStays, DebugSeesSeed, DebugMakesNoCopy, present, currentBlock
<1> QED
  BY <1>1, SucceedsInv, AbortsInv, endOfBlockInv, endOfTestsInv, FailsInv, nextRunInv DEF Next

LEMMA Invariance == Spec => []IInv
  BY InitInv, NextInv, PTL DEF Spec

-----------------------------------------------------------------------------
(* What a run leaves, and the copy of torrent 3 *)

\* A run of TestQueryBuilder and TestTinyOrm that completes has removed every
\* row and restored every column that it or an earlier failed run wrote.
THEOREM CompletedRunCleansTheorem == Spec => []CompletedRunCleans
<1>1. IInv => CompletedRunCleans
  <2> SUFFICES ASSUME IInv, running = "completed" PROVE rows = {} /\ changed = {}
    BY DEF CompletedRunCleans
  <2>1. TypeInv /\ PassedClean /\ CopyKeepsRenamed
    BY DEF IInv
  <2>2. block = LastBlock + 1
    BY <2>1 DEF TypeInv
  <2>3. ASSUME NEW n \in present \ { "test3" } PROVE FALSE
    <3>1. Home(n) >= LastBlock + 1
      BY <2>1, <2>2 DEF PassedClean, LastBlock
    <3>2. Home(n) \in 0..LastBlock
      BY HomeIsBlock
    <3> QED
      BY <3>1, <3>2 DEF LastBlock
  <2>4. changed \subseteq Columns
    BY <2>1 DEF TypeInv
  <2>5. changed = {}
    BY <2>3, <2>4, OwnBlocks DEF present
  <2>6. "test3" \notin rows
    BY <2>1, <2>5 DEF CopyKeepsRenamed
  <2> QED
    BY <2>3, <2>5, <2>6 DEF present
<1> QED
  BY <1>1, Invariance, PTL

\* A debug build never makes the second torrent named test3, which a release
\* build makes when a failed run has left torrent 3 renamed.
THEOREM DebugMakesNoCopyTheorem == Spec => []DebugMakesNoCopy
<1>1. IInv => DebugMakesNoCopy
  BY DEF IInv
<1> QED
  BY <1>1, Invariance, PTL

-----------------------------------------------------------------------------
(* The columns that are changed by their own value *)

LEMMA AheadIs ==
  /\ Ahead("torrents[2].name") <=> block = 6 /\ position > 4 /\ position <= 7
  /\ Ahead("files.filepath") <=> block = 6 /\ position > 5 /\ position <= 8
  /\ Ahead("file_properties.name") <=> block = 6 /\ position > 6 /\ position <= 9
  /\ Ahead("torrents[1].size") <=> block = 8 /\ position = 2
<1>1. /\ PushColumns[1] = "torrents[2].name" /\ PushColumns[2] = "files.filepath"
      /\ PushColumns[3] = "file_properties.name"
  BY DEF PushColumns
<1>2. \A k \in 1..3 : k = 1 \/ k = 2 \/ k = 3
  OBVIOUS
<1>3. 1 \in 1..3 /\ 2 \in 1..3 /\ 3 \in 1..3
  OBVIOUS
<1> QED
  BY <1>1, <1>2, <1>3 DEF Ahead

LEMMA RememberedIs ==
  /\ Remembered("torrents[2].name") <=> block = 6 /\ position > 1
  /\ Remembered("files.filepath") <=> block = 6 /\ position > 2
  /\ Remembered("file_properties.name") <=> block = 6 /\ position > 3
  /\ ~Remembered("torrents[1].size")
<1>1. /\ PushColumns[1] = "torrents[2].name" /\ PushColumns[2] = "files.filepath"
      /\ PushColumns[3] = "file_properties.name"
  BY DEF PushColumns
<1>2. \A k \in 1..3 : k = 1 \/ k = 2 \/ k = 3
  OBVIOUS
<1>3. 1 \in 1..3 /\ 2 \in 1..3 /\ 3 \in 1..3
  OBVIOUS
<1> QED
  BY <1>1, <1>2, <1>3 DEF Remembered

LEMMA CountedAfter ==
  ASSUME NEW s, Effect(s), NEW c \in CountedColumns
  PROVE  /\ counted'[c] = IF c \notin s.of THEN counted[c]
                          ELSE CASE s.op \in { "changeBy", "increment" } -> counted[c] + 1
                                 [] s.op = "decrement" -> counted[c] - 1
                                 [] s.op = "setBack"   -> memory[c]
                                 [] OTHER              -> counted[c]
         /\ memory'[c] = IF s.op = "remember" /\ c \in s.of THEN counted[c] ELSE memory[c]
  BY DEF Effect

\* The values of a running run, column by column.
Counts ==
  running = "running" =>
    /\ counted["torrents[2].name"] = found.counted["torrents[2].name"] +
         (IF block = 6 /\ position > 4 /\ position <= 7 THEN 1 ELSE 0)
    /\ counted["files.filepath"] = found.counted["files.filepath"] +
         (IF block = 6 /\ position > 5 /\ position <= 8 THEN 1 ELSE 0)
    /\ counted["file_properties.name"] = found.counted["file_properties.name"] +
         (IF block = 6 /\ position > 6 /\ position <= 9 THEN 1 ELSE 0)
    /\ counted["torrents[1].size"] = found.counted["torrents[1].size"] +
         (IF block = 8 /\ position = 2 THEN 1 ELSE 0)
    /\ block = 6 /\ position > 1 =>
         memory["torrents[2].name"] = found.counted["torrents[2].name"]
    /\ block = 6 /\ position > 2 => memory["files.filepath"] = found.counted["files.filepath"]
    /\ block = 6 /\ position > 3 =>
         memory["file_properties.name"] = found.counted["file_properties.name"]

LEMMA CountsNow == CountsFollowed <=> Counts
<1>1. \A c \in CountedColumns :
        \/ c = "torrents[2].name" \/ c = "files.filepath"
        \/ c = "file_properties.name" \/ c = "torrents[1].size"
  BY DEF CountedColumns
<1>2. { "torrents[2].name", "files.filepath", "file_properties.name", "torrents[1].size" }
        \subseteq CountedColumns
  BY DEF CountedColumns
<1>3. ASSUME CountsFollowed PROVE Counts
  BY <1>2, <1>3, AheadIs, RememberedIs DEF CountsFollowed, Counts
<1>4. ASSUME Counts, running = "running" PROVE CountsFollowed
  <2> SUFFICES ASSUME NEW c \in CountedColumns
               PROVE  /\ counted[c] = found.counted[c] + (IF Ahead(c) THEN 1 ELSE 0)
                      /\ Remembered(c) => memory[c] = found.counted[c]
    BY DEF CountsFollowed
  <2>1. CASE c = "torrents[2].name"
    BY <1>4, <2>1, AheadIs, RememberedIs DEF Counts
  <2>2. CASE c = "files.filepath"
    BY <1>4, <2>2, AheadIs, RememberedIs DEF Counts
  <2>3. CASE c = "file_properties.name"
    BY <1>4, <2>3, AheadIs, RememberedIs DEF Counts
  <2>4. CASE c = "torrents[1].size"
    BY <1>4, <2>4, AheadIs, RememberedIs DEF Counts
  <2> QED
    BY <1>1, <2>1, <2>2, <2>3, <2>4
<1>5. ASSUME running # "running" PROVE CountsFollowed
  BY <1>5 DEF CountsFollowed
<1> QED
  BY <1>3, <1>4, <1>5

LEMMA CountsNext == CountsFollowed' <=> Counts'
  BY CountsNow, PTL

\* The statements of pushLazyLoad and of incrementDecrement.
LEMMA CountStatements ==
  /\ Len(Blocks[6]) = 9 /\ Len(Blocks[8]) = 2
  /\ Blocks[6][1].op = "remember" /\ Blocks[6][1].of = { "torrents[2].name" }
  /\ Blocks[6][2].op = "remember" /\ Blocks[6][2].of = { "files.filepath" }
  /\ Blocks[6][3].op = "remember" /\ Blocks[6][3].of = { "file_properties.name" }
  /\ Blocks[6][4].op = "changeBy" /\ Blocks[6][4].of = { "torrents[2].name" }
  /\ Blocks[6][5].op = "changeBy" /\ Blocks[6][5].of = { "files.filepath" }
  /\ Blocks[6][6].op = "changeBy" /\ Blocks[6][6].of = { "file_properties.name" }
  /\ Blocks[6][7].op = "setBack" /\ Blocks[6][7].of = { "torrents[2].name" }
  /\ Blocks[6][8].op = "setBack" /\ Blocks[6][8].of = { "files.filepath" }
  /\ Blocks[6][9].op = "setBack" /\ Blocks[6][9].of = { "file_properties.name" }
  /\ Blocks[8][1].op = "increment" /\ Blocks[8][1].of = { "torrents[1].size" }
  /\ Blocks[8][2].op = "decrement" /\ Blocks[8][2].of = { "torrents[1].size" }
<1>1. Blocks[6] = pushLazyLoad /\ Blocks[8] = incrementDecrement
  BY DEF Blocks
<1>2. /\ Len(pushLazyLoad) = 9
      /\ pushLazyLoad[1] = Remember("torrents[2].name")
      /\ pushLazyLoad[2] = Remember("files.filepath")
      /\ pushLazyLoad[3] = Remember("file_properties.name")
      /\ pushLazyLoad[4] = ChangeBy("torrents[2].name")
      /\ pushLazyLoad[5] = ChangeBy("files.filepath")
      /\ pushLazyLoad[6] = ChangeBy("file_properties.name")
      /\ pushLazyLoad[7] = SetBack("torrents[2].name")
      /\ pushLazyLoad[8] = SetBack("files.filepath")
      /\ pushLazyLoad[9] = SetBack("file_properties.name")
  BY DEF pushLazyLoad
<1>3. /\ Len(incrementDecrement) = 2
      /\ incrementDecrement[1] = Increment("torrents[1].size", "torrents[1].progress")
      /\ incrementDecrement[2] = Decrement("torrents[1].size", "torrents[1].progress")
  BY DEF incrementDecrement
<1>4. \A c : /\ Remember(c).op = "remember" /\ Remember(c).of = { c }
            /\ ChangeBy(c).op = "changeBy" /\ ChangeBy(c).of = { c }
            /\ SetBack(c).op = "setBack" /\ SetBack(c).of = { c }
  BY DEF Remember, ChangeBy, SetBack, Statement
<1>5. \A c, d : /\ Increment(c, d).op = "increment" /\ Increment(c, d).of = { c }
               /\ Decrement(c, d).op = "decrement" /\ Decrement(c, d).of = { c }
  BY DEF Increment, Decrement, Statement
<1> QED
  BY <1>1, <1>2, <1>3, <1>4, <1>5

\* The values after a statement on column c.
LEMMA OneCounted ==
  ASSUME NEW s, Effect(s), NEW c, s.of = { c }, NEW d \in CountedColumns
  PROVE  /\ d # c => counted'[d] = counted[d] /\ memory'[d] = memory[d]
         /\ d = c /\ s.op = "remember" => counted'[d] = counted[d] /\ memory'[d] = counted[d]
         /\ d = c /\ s.op = "changeBy" => counted'[d] = counted[d] + 1 /\ memory'[d] = memory[d]
         /\ d = c /\ s.op = "setBack" => counted'[d] = memory[d] /\ memory'[d] = memory[d]
         /\ d = c /\ s.op = "increment" => counted'[d] = counted[d] + 1
         /\ d = c /\ s.op = "decrement" => counted'[d] = counted[d] - 1
<1>1. /\ counted'[d] = IF d \notin s.of THEN counted[d]
                        ELSE CASE s.op \in { "changeBy", "increment" } -> counted[d] + 1
                               [] s.op = "decrement" -> counted[d] - 1
                               [] s.op = "setBack"   -> memory[d]
                               [] OTHER              -> counted[d]
      /\ memory'[d] = IF s.op = "remember" /\ d \in s.of THEN counted[d] ELSE memory[d]
  BY CountedAfter
<1>2. d \in s.of <=> d = c
  OBVIOUS
<1> QED
  BY <1>1, <1>2

LEMMA NoneCounted ==
  ASSUME NEW s, Effect(s), s.op \notin CountOps, NEW d \in CountedColumns
  PROVE  counted'[d] = counted[d] /\ memory'[d] = memory[d]
<1>1. /\ counted'[d] = IF d \notin s.of THEN counted[d]
                        ELSE CASE s.op \in { "changeBy", "increment" } -> counted[d] + 1
                               [] s.op = "decrement" -> counted[d] - 1
                               [] s.op = "setBack"   -> memory[d]
                               [] OTHER              -> counted[d]
      /\ memory'[d] = IF s.op = "remember" /\ d \in s.of THEN counted[d] ELSE memory[d]
  BY CountedAfter
<1> QED
  BY <1>1 DEF CountOps

LEMMA CountColumns ==
  ASSUME NEW c \in CountedColumns
  PROVE  \/ c = "torrents[2].name" \/ c = "files.filepath"
         \/ c = "file_properties.name" \/ c = "torrents[1].size"
  BY DEF CountedColumns

\* The values stay numbers, and none below what was found.
Numbers == \A c \in CountedColumns :
  counted[c] \in Nat /\ memory[c] \in Nat /\ counted[c] >= found.counted[c]

LEMMA PushCounts ==
  ASSUME IInv, CountInv, Succeeds, block = 6 PROVE Counts'
<1> DEFINE s == statement
<1>1. issuing /\ TypeInv /\ CountTypeInv /\ Counts /\ Effect(s)
  BY CountsNow DEF Succeeds, IInv, CountInv
<1>2. /\ running = "running" /\ position \in 1..Len(Blocks[6])
      /\ s = Blocks[6][position]
  BY <1>1, Issued DEF currentBlock, statement
<1>3. /\ UNCHANGED <<running, found>> /\ block' = 6 /\ position' = position + 1
  BY DEF Succeeds
<1>4. position \in 1..9
  BY <1>2, CountStatements
<1>5. \A c \in CountedColumns :
        counted[c] \in Nat /\ memory[c] \in Nat /\ found.counted[c] \in Nat
  BY <1>1 DEF CountTypeInv
<1>6. /\ "torrents[2].name" \in CountedColumns /\ "files.filepath" \in CountedColumns
      /\ "file_properties.name" \in CountedColumns /\ "torrents[1].size" \in CountedColumns
  BY DEF CountedColumns
<1> HIDE DEF s
<1>7. CASE position = 1
  <2>1. s.op = "remember" /\ s.of = { "torrents[2].name" }
    BY <1>2, <1>7, CountStatements
  <2>2. counted'["torrents[2].name"] = counted["torrents[2].name"] /\ memory'["torrents[2].name"] = counted["torrents[2].name"]
    BY <1>1, <1>6, <2>1, OneCounted
  <2>3. counted'["files.filepath"] = counted["files.filepath"] /\ memory'["files.filepath"] = memory["files.filepath"]
    BY <1>1, <1>6, <2>1, OneCounted
  <2>4. counted'["file_properties.name"] = counted["file_properties.name"] /\ memory'["file_properties.name"] = memory["file_properties.name"]
    BY <1>1, <1>6, <2>1, OneCounted
  <2>5. counted'["torrents[1].size"] = counted["torrents[1].size"] /\ memory'["torrents[1].size"] = memory["torrents[1].size"]
    BY <1>1, <1>6, <2>1, OneCounted
  <2> QED
    BY <1>1, <1>2, <1>3, <1>5, <1>6, <1>7, <2>2, <2>3, <2>4, <2>5 DEF Counts
<1>8. CASE position = 2
  <2>1. s.op = "remember" /\ s.of = { "files.filepath" }
    BY <1>2, <1>8, CountStatements
  <2>2. counted'["torrents[2].name"] = counted["torrents[2].name"] /\ memory'["torrents[2].name"] = memory["torrents[2].name"]
    BY <1>1, <1>6, <2>1, OneCounted
  <2>3. counted'["files.filepath"] = counted["files.filepath"] /\ memory'["files.filepath"] = counted["files.filepath"]
    BY <1>1, <1>6, <2>1, OneCounted
  <2>4. counted'["file_properties.name"] = counted["file_properties.name"] /\ memory'["file_properties.name"] = memory["file_properties.name"]
    BY <1>1, <1>6, <2>1, OneCounted
  <2>5. counted'["torrents[1].size"] = counted["torrents[1].size"] /\ memory'["torrents[1].size"] = memory["torrents[1].size"]
    BY <1>1, <1>6, <2>1, OneCounted
  <2> QED
    BY <1>1, <1>2, <1>3, <1>5, <1>6, <1>8, <2>2, <2>3, <2>4, <2>5 DEF Counts
<1>9. CASE position = 3
  <2>1. s.op = "remember" /\ s.of = { "file_properties.name" }
    BY <1>2, <1>9, CountStatements
  <2>2. counted'["torrents[2].name"] = counted["torrents[2].name"] /\ memory'["torrents[2].name"] = memory["torrents[2].name"]
    BY <1>1, <1>6, <2>1, OneCounted
  <2>3. counted'["files.filepath"] = counted["files.filepath"] /\ memory'["files.filepath"] = memory["files.filepath"]
    BY <1>1, <1>6, <2>1, OneCounted
  <2>4. counted'["file_properties.name"] = counted["file_properties.name"] /\ memory'["file_properties.name"] = counted["file_properties.name"]
    BY <1>1, <1>6, <2>1, OneCounted
  <2>5. counted'["torrents[1].size"] = counted["torrents[1].size"] /\ memory'["torrents[1].size"] = memory["torrents[1].size"]
    BY <1>1, <1>6, <2>1, OneCounted
  <2> QED
    BY <1>1, <1>2, <1>3, <1>5, <1>6, <1>9, <2>2, <2>3, <2>4, <2>5 DEF Counts
<1>10. CASE position = 4
  <2>1. s.op = "changeBy" /\ s.of = { "torrents[2].name" }
    BY <1>2, <1>10, CountStatements
  <2>2. counted'["torrents[2].name"] = counted["torrents[2].name"] + 1 /\ memory'["torrents[2].name"] = memory["torrents[2].name"]
    BY <1>1, <1>6, <2>1, OneCounted
  <2>3. counted'["files.filepath"] = counted["files.filepath"] /\ memory'["files.filepath"] = memory["files.filepath"]
    BY <1>1, <1>6, <2>1, OneCounted
  <2>4. counted'["file_properties.name"] = counted["file_properties.name"] /\ memory'["file_properties.name"] = memory["file_properties.name"]
    BY <1>1, <1>6, <2>1, OneCounted
  <2>5. counted'["torrents[1].size"] = counted["torrents[1].size"] /\ memory'["torrents[1].size"] = memory["torrents[1].size"]
    BY <1>1, <1>6, <2>1, OneCounted
  <2> QED
    BY <1>1, <1>2, <1>3, <1>5, <1>6, <1>10, <2>2, <2>3, <2>4, <2>5 DEF Counts
<1>11. CASE position = 5
  <2>1. s.op = "changeBy" /\ s.of = { "files.filepath" }
    BY <1>2, <1>11, CountStatements
  <2>2. counted'["torrents[2].name"] = counted["torrents[2].name"] /\ memory'["torrents[2].name"] = memory["torrents[2].name"]
    BY <1>1, <1>6, <2>1, OneCounted
  <2>3. counted'["files.filepath"] = counted["files.filepath"] + 1 /\ memory'["files.filepath"] = memory["files.filepath"]
    BY <1>1, <1>6, <2>1, OneCounted
  <2>4. counted'["file_properties.name"] = counted["file_properties.name"] /\ memory'["file_properties.name"] = memory["file_properties.name"]
    BY <1>1, <1>6, <2>1, OneCounted
  <2>5. counted'["torrents[1].size"] = counted["torrents[1].size"] /\ memory'["torrents[1].size"] = memory["torrents[1].size"]
    BY <1>1, <1>6, <2>1, OneCounted
  <2> QED
    BY <1>1, <1>2, <1>3, <1>5, <1>6, <1>11, <2>2, <2>3, <2>4, <2>5 DEF Counts
<1>12. CASE position = 6
  <2>1. s.op = "changeBy" /\ s.of = { "file_properties.name" }
    BY <1>2, <1>12, CountStatements
  <2>2. counted'["torrents[2].name"] = counted["torrents[2].name"] /\ memory'["torrents[2].name"] = memory["torrents[2].name"]
    BY <1>1, <1>6, <2>1, OneCounted
  <2>3. counted'["files.filepath"] = counted["files.filepath"] /\ memory'["files.filepath"] = memory["files.filepath"]
    BY <1>1, <1>6, <2>1, OneCounted
  <2>4. counted'["file_properties.name"] = counted["file_properties.name"] + 1 /\ memory'["file_properties.name"] = memory["file_properties.name"]
    BY <1>1, <1>6, <2>1, OneCounted
  <2>5. counted'["torrents[1].size"] = counted["torrents[1].size"] /\ memory'["torrents[1].size"] = memory["torrents[1].size"]
    BY <1>1, <1>6, <2>1, OneCounted
  <2> QED
    BY <1>1, <1>2, <1>3, <1>5, <1>6, <1>12, <2>2, <2>3, <2>4, <2>5 DEF Counts
<1>13. CASE position = 7
  <2>1. s.op = "setBack" /\ s.of = { "torrents[2].name" }
    BY <1>2, <1>13, CountStatements
  <2>2. counted'["torrents[2].name"] = memory["torrents[2].name"] /\ memory'["torrents[2].name"] = memory["torrents[2].name"]
    BY <1>1, <1>6, <2>1, OneCounted
  <2>3. counted'["files.filepath"] = counted["files.filepath"] /\ memory'["files.filepath"] = memory["files.filepath"]
    BY <1>1, <1>6, <2>1, OneCounted
  <2>4. counted'["file_properties.name"] = counted["file_properties.name"] /\ memory'["file_properties.name"] = memory["file_properties.name"]
    BY <1>1, <1>6, <2>1, OneCounted
  <2>5. counted'["torrents[1].size"] = counted["torrents[1].size"] /\ memory'["torrents[1].size"] = memory["torrents[1].size"]
    BY <1>1, <1>6, <2>1, OneCounted
  <2> QED
    BY <1>1, <1>2, <1>3, <1>5, <1>6, <1>13, <2>2, <2>3, <2>4, <2>5 DEF Counts
<1>14. CASE position = 8
  <2>1. s.op = "setBack" /\ s.of = { "files.filepath" }
    BY <1>2, <1>14, CountStatements
  <2>2. counted'["torrents[2].name"] = counted["torrents[2].name"] /\ memory'["torrents[2].name"] = memory["torrents[2].name"]
    BY <1>1, <1>6, <2>1, OneCounted
  <2>3. counted'["files.filepath"] = memory["files.filepath"] /\ memory'["files.filepath"] = memory["files.filepath"]
    BY <1>1, <1>6, <2>1, OneCounted
  <2>4. counted'["file_properties.name"] = counted["file_properties.name"] /\ memory'["file_properties.name"] = memory["file_properties.name"]
    BY <1>1, <1>6, <2>1, OneCounted
  <2>5. counted'["torrents[1].size"] = counted["torrents[1].size"] /\ memory'["torrents[1].size"] = memory["torrents[1].size"]
    BY <1>1, <1>6, <2>1, OneCounted
  <2> QED
    BY <1>1, <1>2, <1>3, <1>5, <1>6, <1>14, <2>2, <2>3, <2>4, <2>5 DEF Counts
<1>15. CASE position = 9
  <2>1. s.op = "setBack" /\ s.of = { "file_properties.name" }
    BY <1>2, <1>15, CountStatements
  <2>2. counted'["torrents[2].name"] = counted["torrents[2].name"] /\ memory'["torrents[2].name"] = memory["torrents[2].name"]
    BY <1>1, <1>6, <2>1, OneCounted
  <2>3. counted'["files.filepath"] = counted["files.filepath"] /\ memory'["files.filepath"] = memory["files.filepath"]
    BY <1>1, <1>6, <2>1, OneCounted
  <2>4. counted'["file_properties.name"] = memory["file_properties.name"] /\ memory'["file_properties.name"] = memory["file_properties.name"]
    BY <1>1, <1>6, <2>1, OneCounted
  <2>5. counted'["torrents[1].size"] = counted["torrents[1].size"] /\ memory'["torrents[1].size"] = memory["torrents[1].size"]
    BY <1>1, <1>6, <2>1, OneCounted
  <2> QED
    BY <1>1, <1>2, <1>3, <1>5, <1>6, <1>15, <2>2, <2>3, <2>4, <2>5 DEF Counts
<1> QED
  BY <1>4, <1>7, <1>8, <1>9, <1>10, <1>11, <1>12, <1>13, <1>14, <1>15

LEMMA IncrementCounts ==
  ASSUME IInv, CountInv, Succeeds, block = 8 PROVE Counts'
<1> DEFINE s == statement
<1>1. issuing /\ TypeInv /\ CountTypeInv /\ Counts /\ Effect(s)
  BY CountsNow DEF Succeeds, IInv, CountInv
<1>2. /\ running = "running" /\ position \in 1..Len(Blocks[8])
      /\ s = Blocks[8][position]
  BY <1>1, Issued DEF currentBlock, statement
<1>3. /\ UNCHANGED <<running, found>> /\ block' = 8 /\ position' = position + 1
  BY DEF Succeeds
<1>4. position \in 1..2
  BY <1>2, CountStatements
<1>5. \A c \in CountedColumns :
        counted[c] \in Nat /\ memory[c] \in Nat /\ found.counted[c] \in Nat
  BY <1>1 DEF CountTypeInv
<1>6. /\ "torrents[2].name" \in CountedColumns /\ "files.filepath" \in CountedColumns
      /\ "file_properties.name" \in CountedColumns /\ "torrents[1].size" \in CountedColumns
  BY DEF CountedColumns
<1> HIDE DEF s
<1>7. CASE position = 1
  <2>1. s.op = "increment" /\ s.of = { "torrents[1].size" }
    BY <1>2, <1>7, CountStatements
  <2>2. counted'["torrents[2].name"] = counted["torrents[2].name"] /\ memory'["torrents[2].name"] = memory["torrents[2].name"]
    BY <1>1, <1>6, <2>1, OneCounted
  <2>3. counted'["files.filepath"] = counted["files.filepath"] /\ memory'["files.filepath"] = memory["files.filepath"]
    BY <1>1, <1>6, <2>1, OneCounted
  <2>4. counted'["file_properties.name"] = counted["file_properties.name"] /\ memory'["file_properties.name"] = memory["file_properties.name"]
    BY <1>1, <1>6, <2>1, OneCounted
  <2>5. counted'["torrents[1].size"] = counted["torrents[1].size"] + 1
    BY <1>1, <1>6, <2>1, OneCounted
  <2>6. /\ counted["torrents[2].name"] = found.counted["torrents[2].name"]
        /\ counted["files.filepath"] = found.counted["files.filepath"]
        /\ counted["file_properties.name"] = found.counted["file_properties.name"]
    BY <1>1, <1>2, <1>5, <1>6 DEF Counts
  <2>7. counted'["torrents[1].size"] = found.counted["torrents[1].size"] + 1
    <3>1. counted["torrents[1].size"] = found.counted["torrents[1].size"]
      BY <1>1, <1>2, <1>5, <1>6, <1>7 DEF Counts
    <3> QED
      BY <1>5, <1>6, <2>5, <3>1
  <2> QED
    BY <1>3, <1>5, <1>6, <1>7, <2>2, <2>3, <2>4, <2>6, <2>7 DEF Counts
<1>8. CASE position = 2
  <2>1. s.op = "decrement" /\ s.of = { "torrents[1].size" }
    BY <1>2, <1>8, CountStatements
  <2>2. counted'["torrents[2].name"] = counted["torrents[2].name"] /\ memory'["torrents[2].name"] = memory["torrents[2].name"]
    BY <1>1, <1>6, <2>1, OneCounted
  <2>3. counted'["files.filepath"] = counted["files.filepath"] /\ memory'["files.filepath"] = memory["files.filepath"]
    BY <1>1, <1>6, <2>1, OneCounted
  <2>4. counted'["file_properties.name"] = counted["file_properties.name"] /\ memory'["file_properties.name"] = memory["file_properties.name"]
    BY <1>1, <1>6, <2>1, OneCounted
  <2>5. counted'["torrents[1].size"] = counted["torrents[1].size"] - 1
    BY <1>1, <1>6, <2>1, OneCounted
  <2>6. /\ counted["torrents[2].name"] = found.counted["torrents[2].name"]
        /\ counted["files.filepath"] = found.counted["files.filepath"]
        /\ counted["file_properties.name"] = found.counted["file_properties.name"]
    BY <1>1, <1>2, <1>5, <1>6 DEF Counts
  <2>7. counted'["torrents[1].size"] = found.counted["torrents[1].size"]
    <3>1. counted["torrents[1].size"] = found.counted["torrents[1].size"] + 1
      BY <1>1, <1>2, <1>5, <1>6, <1>8 DEF Counts
    <3> QED
      BY <1>5, <1>6, <2>5, <3>1
  <2> QED
    BY <1>3, <1>5, <1>6, <1>8, <2>2, <2>3, <2>4, <2>6, <2>7 DEF Counts
<1> QED
  BY <1>4, <1>7, <1>8

LEMMA OtherCounts ==
  ASSUME IInv, CountInv, Succeeds, block \notin { 6, 8 } PROVE Counts'
<1> DEFINE s == statement
<1>1. issuing /\ TypeInv /\ CountTypeInv /\ Counts /\ Effect(s)
  BY CountsNow DEF Succeeds, IInv, CountInv
<1>2. running = "running" /\ StatementOk(block, s)
  BY <1>1, Issued
<1>3. UNCHANGED <<running, found, block>>
  BY DEF Succeeds
<1> HIDE DEF s
<1>4. s.op \notin CountOps
  BY <1>2 DEF StatementOk
<1>5. \A c \in CountedColumns : counted'[c] = counted[c] /\ memory'[c] = memory[c]
  BY <1>1, <1>4, NoneCounted
<1>6. \A c \in CountedColumns :
        counted[c] \in Nat /\ memory[c] \in Nat /\ found.counted[c] \in Nat
  BY <1>1 DEF CountTypeInv
<1>7. /\ "torrents[2].name" \in CountedColumns /\ "files.filepath" \in CountedColumns
      /\ "file_properties.name" \in CountedColumns /\ "torrents[1].size" \in CountedColumns
  BY DEF CountedColumns
<1> QED
  BY <1>1, <1>2, <1>3, <1>5, <1>7 DEF Counts

LEMMA NumbersNext ==
  ASSUME CountInv, Succeeds, Counts' PROVE Numbers'
<1>1. CountTypeInv
  BY DEF CountInv
<1>2. running' = "running" /\ found' = found /\ Effect(statement)
  BY DEF Succeeds, issuing
<1> SUFFICES ASSUME NEW c \in CountedColumns
             PROVE  /\ counted'[c] \in Nat /\ memory'[c] \in Nat
                    /\ counted'[c] >= found.counted[c]
  BY <1>2 DEF Numbers
<1>3. counted[c] \in Nat /\ memory[c] \in Nat /\ found.counted[c] \in Nat
  BY <1>1 DEF CountTypeInv
<1>4. memory'[c] \in { counted[c], memory[c] }
  BY <1>2, CountedAfter
<1>5. counted'[c] = found.counted[c] \/ counted'[c] = found.counted[c] + 1
  <2>1. c = "torrents[2].name" => counted'[c] = found.counted[c] + 0 \/ counted'[c] = found.counted[c] + 1
    BY <1>2 DEF Counts
  <2>2. c = "files.filepath" => counted'[c] = found.counted[c] + 0 \/ counted'[c] = found.counted[c] + 1
    BY <1>2 DEF Counts
  <2>3. c = "file_properties.name" => counted'[c] = found.counted[c] + 0 \/ counted'[c] = found.counted[c] + 1
    BY <1>2 DEF Counts
  <2>4. c = "torrents[1].size" => counted'[c] = found.counted[c] + 0 \/ counted'[c] = found.counted[c] + 1
    BY <1>2 DEF Counts
  <2>5. found.counted[c] + 0 = found.counted[c]
    BY <1>3
  <2> QED
    BY <2>1, <2>2, <2>3, <2>4, <2>5, CountColumns
<1> QED
  BY <1>3, <1>4, <1>5

LEMMA SucceedsCount == IInv /\ CountInv /\ Succeeds => CountInv'
<1> SUFFICES ASSUME IInv, CountInv, Succeeds PROVE CountInv'
  OBVIOUS
<1>0. Counts'
  BY PushCounts, IncrementCounts, OtherCounts
<1>1. Counts' /\ Numbers'
  BY <1>0, NumbersNext
<1>2. running' = "running" /\ found' = found
  BY DEF Succeeds, issuing
<1>3. /\ counted' = [c \in CountedColumns |-> counted'[c]]
      /\ memory' = [c \in CountedColumns |-> memory'[c]]
  BY DEF Succeeds, Effect
<1>4. CountTypeInv'
  <2>1. \A c \in CountedColumns : counted'[c] \in Nat /\ memory'[c] \in Nat
    BY <1>1 DEF Numbers
  <2>2. found.counted \in [CountedColumns -> Nat]
    BY DEF CountInv, CountTypeInv
  <2> QED
    BY <1>2, <1>3, <2>1, <2>2 DEF CountTypeInv
<1>5. CountsFollowed'
  BY <1>1, CountsNext
<1>6. CountedBack'
  BY <1>1, <1>2 DEF CountedBack, Numbers
<1> QED
  BY <1>4, <1>5, <1>6 DEF CountInv

LEMMA AbortsCount == IInv /\ CountInv /\ Aborts => CountInv'
<1> SUFFICES ASSUME IInv, CountInv, Aborts PROVE CountInv'
  OBVIOUS
<1>1. CountTypeInv /\ CountedBack
  BY DEF CountInv
<1>2. running' = "aborting" /\ found' = found
  BY DEF Aborts
<1>3. Effect(statement) /\ statement.op \notin CountOps
  BY AbortsStatement
<1>4. \A c \in CountedColumns : counted'[c] = counted[c] /\ memory'[c] = memory[c]
  BY <1>3, NoneCounted
<1>5. /\ counted' = [c \in CountedColumns |-> counted'[c]]
      /\ memory' = [c \in CountedColumns |-> memory'[c]]
  BY <1>3 DEF Effect
<1>6. \A c \in CountedColumns : counted'[c] \in Nat /\ memory'[c] \in Nat
  BY <1>1, <1>4 DEF CountTypeInv
<1>7. CountTypeInv'
  BY <1>1, <1>2, <1>5, <1>6 DEF CountTypeInv
<1>8. CountsFollowed' /\ CountedBack'
  BY <1>1, <1>2, <1>4 DEF CountsFollowed, CountedBack
<1> QED
  BY <1>7, <1>8 DEF CountInv

LEMMA InitCount == Init => CountInv
<1> SUFFICES ASSUME Init PROVE CountInv
  OBVIOUS
<1>1. /\ counted = NotCounted /\ memory = NotCounted /\ found.counted = NotCounted
      /\ running = "running" /\ block = 1
  BY DEF Init
<1>2. \A c \in CountedColumns : NotCounted[c] = 0
  BY DEF NotCounted
<1>3. NotCounted \in [CountedColumns -> Nat]
  BY DEF NotCounted
<1>4. CountTypeInv
  BY <1>1, <1>3 DEF CountTypeInv
<1>5. Counts
  BY <1>1, <1>2, CountsNow DEF Counts, CountedColumns
<1>6. CountedBack
  BY <1>1, <1>2 DEF CountedBack
<1> QED
  BY <1>4, <1>5, <1>6, CountsNow DEF CountInv

LEMMA endOfBlockCount == IInv /\ CountInv /\ endOfBlock => CountInv'
<1> SUFFICES ASSUME IInv, CountInv, endOfBlock PROVE CountInv'
  OBVIOUS
<1>1. /\ running = "running" /\ block \in 1..LastBlock
      /\ position = Len(currentBlock) + 1
  BY BlockEnds
<1>2. CountTypeInv /\ Counts /\ CountedBack
  BY CountsNow DEF CountInv
<1>3. /\ block' = block + 1 /\ position' = 1 /\ memory' = NotCounted
      /\ UNCHANGED <<counted, running, found>>
  BY DEF endOfBlock, database
<1>4. (block = 6 => position = 10) /\ (block = 8 => position = 3)
  <2>1. position = Len(Blocks[block]) + 1
    BY <1>1 DEF currentBlock
  <2>2. block = 6 => position = 9 + 1
    BY <2>1, CountStatements
  <2>3. block = 8 => position = 2 + 1
    BY <2>1, CountStatements
  <2> QED
    BY <2>2, <2>3
<1>5. Counts'
  BY <1>1, <1>2, <1>3, <1>4 DEF Counts
<1>6. memory' \in [CountedColumns -> Nat]
  BY <1>3 DEF NotCounted
<1>7. CountTypeInv'
  BY <1>2, <1>3, <1>6 DEF CountTypeInv
<1>8. CountedBack'
  BY <1>1, <1>2, <1>3 DEF CountedBack
<1> QED
  BY <1>5, <1>7, <1>8, CountsNext DEF CountInv

LEMMA endOfTestsCount == IInv /\ CountInv /\ endOfTests => CountInv'
<1> SUFFICES ASSUME IInv, CountInv, endOfTests PROVE CountInv'
  OBVIOUS
<1>1. CountTypeInv /\ Counts /\ CountedBack
  BY CountsNow DEF CountInv
<1>2. /\ running = "running" /\ running' = "completed" /\ block > LastBlock
      /\ UNCHANGED <<counted, memory, found>>
  BY BlocksShape DEF endOfTests, database
<1>3. block \notin { 6, 8 }
  BY <1>2 DEF LastBlock
<1>4. \A c \in CountedColumns : counted[c] \in Nat /\ found.counted[c] \in Nat
  BY <1>1 DEF CountTypeInv
<1>5. \A c \in CountedColumns : counted[c] = found.counted[c]
  BY <1>1, <1>2, <1>3, <1>4, CountColumns DEF Counts, CountedColumns
<1>6. counted = found.counted
  BY <1>1, <1>5 DEF CountTypeInv
<1>7. CountTypeInv' /\ CountsFollowed'
  BY <1>1, <1>2 DEF CountTypeInv, CountsFollowed
<1>8. CountedBack'
  BY <1>1, <1>2, <1>6 DEF CountedBack
<1> QED
  BY <1>7, <1>8 DEF CountInv

LEMMA FailsCount == CountInv /\ Fails => CountInv'
<1> SUFFICES ASSUME CountInv, Fails PROVE CountInv'
  OBVIOUS
<1>1. CountTypeInv /\ CountedBack
  BY DEF CountInv
<1>2. running' = "failed" /\ memory' = NotCounted /\ UNCHANGED <<counted, found>>
  BY DEF Fails, database
<1>3. memory' \in [CountedColumns -> Nat]
  BY <1>2 DEF NotCounted
<1> QED
  BY <1>1, <1>2, <1>3 DEF CountInv, CountTypeInv, CountsFollowed, CountedBack

LEMMA nextRunCount == CountInv /\ nextRun => CountInv'
<1> SUFFICES ASSUME CountInv, nextRun PROVE CountInv'
  OBVIOUS
<1>1. CountTypeInv
  BY DEF CountInv
<1>2. /\ running' = "running" /\ block' = 1 /\ UNCHANGED <<counted, memory>>
      /\ found' = [rows |-> rows, changed |-> changed, counted |-> counted]
  BY DEF nextRun, database
<1>3. found'.counted = counted
  BY <1>2
<1>4. \A c \in CountedColumns : counted[c] \in Nat
  BY <1>1 DEF CountTypeInv
<1>5. CountTypeInv'
  BY <1>1, <1>2, <1>3 DEF CountTypeInv
<1>6. Counts'
  BY <1>2, <1>3, <1>4 DEF Counts, CountedColumns
<1>7. CountedBack'
  BY <1>2, <1>3, <1>4 DEF CountedBack
<1> QED
  BY <1>5, <1>6, <1>7, CountsNext DEF CountInv

LEMMA CountInvariance == Spec => []CountInv
<1>1. IInv /\ CountInv /\ [Next]_vars => CountInv'
  <2> SUFFICES ASSUME IInv, CountInv, [Next]_vars PROVE CountInv'
    OBVIOUS
  <2>1. CASE UNCHANGED vars
    <3>1. UNCHANGED <<counted, memory, found, running, block, position>>
      BY <2>1 DEF vars, database
    <3>2. CountTypeInv' /\ CountedBack'
      BY <3>1 DEF CountInv, CountTypeInv, CountedBack
    <3>3. Counts'
      BY <3>1, CountsNow DEF CountInv, Counts
    <3> QED
      BY <3>2, <3>3, CountsNext DEF CountInv
  <2> QED
    BY <2>1, SucceedsCount, AbortsCount, endOfBlockCount, endOfTestsCount, FailsCount, nextRunCount DEF Next
<1> QED
  BY <1>1, InitCount, Invariance, PTL DEF Spec

\* A column that the push and increment functions change by its own value is,
\* when a run completes, as that run found it, and never below that: no sequence
\* of failed and completed runs makes it drift within a run that completes.
THEOREM CountedBackTheorem == Spec => []CountedBack
<1>1. CountInv => CountedBack
  BY DEF CountInv
<1> QED
  BY <1>1, CountInvariance, PTL

-----------------------------------------------------------------------------
(* The refinement of Leftovers: blocks and their marks *)

\* A block before that of a mark does not set it.
LEMMA SetsNoLaterMark ==
  ASSUME NEW b \in 1..LastBlock, NEW a \in 1..(b - 1), NEW n, Home(n) = b, n # "test3",
         NEW p \in 1..Len(Blocks[a])
  PROVE  n \notin Adds(Blocks[a][p])
<1>1. a \in 1..LastBlock /\ Home(n) \notin 1..a
  BY DEF LastBlock
<1>2. WellFormed(a, Blocks[a])
  BY <1>1, BlocksWellFormed
<1>3. StatementOk(a, Blocks[a][p])
  BY <1>2 DEF WellFormed
<1> QED
  BY <1>1, <1>3 DEF StatementOk

LEMMA BlockOfIs ==
  ASSUME NEW b \in 1..LastBlock, NEW n, Home(n) = b, n # "test3"
  PROVE  BlockOf(Blocks[b]) = b
<1>1. \A a \in 1..(b - 1) : Blocks[a] # Blocks[b]
  <2> SUFFICES ASSUME NEW a \in 1..(b - 1), Blocks[a] = Blocks[b] PROVE FALSE
    OBVIOUS
  <2>1. PICK p \in 1..Len(Blocks[b]) : n \in Adds(Blocks[b][p])
    BY BlocksWellFormed DEF SetsItsMarks
  <2> QED
    BY <2>1, SetsNoLaterMark
<1>2. DOMAIN Blocks = 1..LastBlock
  BY BlocksShape
<1>3. \A c \in 1..LastBlock :
        (Blocks[c] = Blocks[b] /\ \A a \in 1..(c - 1) : Blocks[a] # Blocks[b]) <=> c = b
  BY <1>1 DEF LastBlock
<1>4. BlockOf(Blocks[b]) =
        CHOOSE c \in DOMAIN Blocks :
          Blocks[c] = Blocks[b] /\ \A a \in 1..(c - 1) : ~(Blocks[a] = Blocks[b])
  BY DEF BlockOf, FirstBlock
<1> HIDE DEF BlockOf
<1> QED
  BY <1>2, <1>3, <1>4

\* The rows a block writes are the marks it sets that are no columns.
LEMMA WrittenByIs ==
  ASSUME NEW b \in 1..LastBlock, NEW n, n \notin Columns
  PROVE  n \in writtenBy(Blocks[b]) <=> \E p \in 1..Len(Blocks[b]) : n \in Adds(Blocks[b][p])
<1>1. WellFormed(b, Blocks[b])
  BY BlocksWellFormed
<1>2. DOMAIN Blocks[b] = 1..Len(Blocks[b])
  BY <1>1 DEF WellFormed
<1>3. ASSUME NEW p \in 1..Len(Blocks[b])
      PROVE  n \in Adds(Blocks[b][p]) <=>
               /\ Blocks[b][p].op \in { "insert", "insertOrIgnore", "firstOrCreate", "rename" }
               /\ n \in Blocks[b][p].to
  <2> DEFINE s == Blocks[b][p]
  <2>1. StatementOk(b, s)
    BY <1>1 DEF WellFormed
  <2> HIDE DEF s
  <2>2. /\ s.op \in { "change", "updateJoin" } => s.of \subseteq Columns
        /\ s.op = "increment" => s.to \subseteq Columns
    BY <2>1 DEF StatementOk, ColumnOps, CountOps
  <2>3. n \in Adds(s) <=>
          s.op \in { "insert", "insertOrIgnore", "firstOrCreate", "rename" } /\ n \in s.to
    BY <2>2 DEF Adds
  <2> QED
    BY <2>3 DEF s
<1>4. n \in writtenBy(Blocks[b]) <=>
        \E p \in 1..Len(Blocks[b]) :
          /\ Blocks[b][p].op \in { "insert", "insertOrIgnore", "firstOrCreate", "rename" }
          /\ n \in Blocks[b][p].to
  BY <1>2 DEF writtenBy
<1> QED
  BY <1>3, <1>4

\* The first block that writes a row is its home.
LEMMA BlockOfRowIs ==
  ASSUME NEW n, n # "test3", n \notin Columns, Home(n) >= 1
  PROVE  BlockOfRow[n] = Home(n)
<1> DEFINE b == Home(n)
<1>1. b \in 1..LastBlock
  BY HomeIsBlock DEF LastBlock
<1>2. DOMAIN Blocks = 1..LastBlock
  BY BlocksShape
<1>3. n \in writtenBy(Blocks[b])
  BY <1>1, BlocksWellFormed, WrittenByIs DEF SetsItsMarks
<1>4. \A a \in 1..(b - 1) : n \notin writtenBy(Blocks[a])
  <2> SUFFICES ASSUME NEW a \in 1..(b - 1) PROVE n \notin writtenBy(Blocks[a])
    OBVIOUS
  <2>1. a \in 1..LastBlock
    BY <1>1 DEF LastBlock
  <2> QED
    BY <1>1, <2>1, SetsNoLaterMark, WrittenByIs
<1>5. \A c \in 1..LastBlock :
        (n \in writtenBy(Blocks[c]) /\ \A a \in 1..(c - 1) : ~(n \in writtenBy(Blocks[a]))) <=> c = b
  <2> HIDE DEF b
  <2> QED
    BY <1>1, <1>3, <1>4 DEF LastBlock
<1>6. n \in UNION { writtenBy(Blocks[c]) : c \in DOMAIN Blocks }
  BY <1>1, <1>2, <1>3
<1>7. BlockOfRow[n] =
        CHOOSE c \in DOMAIN Blocks :
          n \in writtenBy(Blocks[c]) /\ \A a \in 1..(c - 1) : ~(n \in writtenBy(Blocks[a]))
  BY <1>6 DEF BlockOfRow, FirstBlock
<1> QED
  BY <1>1, <1>2, <1>5, <1>7

LEMMA BlocksOfFunctions ==
  /\ BlockOf(queryBuilderWrites) = 1 /\ BlockOf(firstOrCreateNotFound) = 5
  /\ BlockOf(isDirty) = 11 /\ BlockOf(associate) = 13
  /\ BlockOf(hasOneOrMany) = 23 /\ BlockOf(belongsToMany) = 24
<1>1. /\ Blocks[1] = queryBuilderWrites /\ Blocks[5] = firstOrCreateNotFound
      /\ Blocks[11] = isDirty /\ Blocks[13] = associate
      /\ Blocks[23] = hasOneOrMany /\ Blocks[24] = belongsToMany
  BY DEF Blocks
<1>2. /\ Home("qrs.mkv") = 1 /\ Home("test50") = 5 /\ Home("torrents[3].name") = 11
      /\ Home("test5_file4.mkv_of_5") = 13 /\ Home("test1_fileXX.mkv") = 23
      /\ Home("tag20") = 24
  BY DEF Home
<1>3. /\ 1 \in 1..LastBlock /\ 5 \in 1..LastBlock /\ 11 \in 1..LastBlock
      /\ 13 \in 1..LastBlock /\ 23 \in 1..LastBlock /\ 24 \in 1..LastBlock
  BY DEF LastBlock
<1>4. BlockOf(Blocks[1]) = 1
  BY <1>2, <1>3, BlockOfIs
<1>5. BlockOf(Blocks[5]) = 5
  BY <1>2, <1>3, BlockOfIs
<1>6. BlockOf(Blocks[11]) = 11
  BY <1>2, <1>3, BlockOfIs
<1>7. BlockOf(Blocks[13]) = 13
  BY <1>2, <1>3, BlockOfIs
<1>8. BlockOf(Blocks[23]) = 23
  BY <1>2, <1>3, BlockOfIs
<1>9. BlockOf(Blocks[24]) = 24
  BY <1>2, <1>3, BlockOfIs
<1> QED
  BY <1>1, <1>4, <1>5, <1>6, <1>7, <1>8, <1>9

LEMMA HealsIs ==
  /\ DOMAIN Heals = 1..LastBlock
  /\ \A b \in 1..LastBlock : Heals[b] = HealedBlocks(b) /\ Heals[b] \subseteq 1..LastBlock
<1>1. DOMAIN Blocks = 1..LastBlock
  BY BlocksShape
<1>2. DOMAIN Heals = 1..LastBlock
  BY <1>1 DEF Heals
<1>3. ASSUME NEW b \in 1..LastBlock PROVE Heals[b] = HealedBlocks(b)
  <2>1. Heals[b] = CASE b = 1 -> { b, 13 } [] b \in { 5, 23, 24 } -> { b } [] OTHER -> {}
    BY <1>1, BlocksOfFunctions DEF Heals
  <2> QED
    BY <2>1 DEF HealedBlocks
<1>4. ASSUME NEW b \in 1..LastBlock PROVE HealedBlocks(b) \subseteq 1..LastBlock
  BY DEF HealedBlocks, LastBlock
<1> QED
  BY <1>2, <1>3, <1>4

\* The dirty blocks are the homes of the rows and of the changed name.
HomesOf(R, C) ==
  { Home(n) : n \in R \ { "test3" } } \union (IF "torrents[3].name" \in C THEN { 11 } ELSE {})

LEMMA DirtyBlocks ==
  ASSUME NEW R, NEW C, R \intersect Columns = {}, \A n \in R \ { "test3" } : Home(n) >= 1
  PROVE  dirtyBlocks(R, C) = HomesOf(R, C)
<1>1. \A n \in R \ { "test3" } : BlockOfRow[n] = Home(n)
  BY BlockOfRowIs
<1>2. { BlockOfRow[n] : n \in R \ { "test3" } } = { Home(n) : n \in R \ { "test3" } }
  BY <1>1
<1>3. BlockOfRenamed = 11
  BY BlocksOfFunctions DEF BlockOfRenamed
<1>4. dirtyBlocks(R, C) =
        { BlockOfRow[n] : n \in R \ { "test3" } }
          \union (IF "torrents[3].name" \in C THEN { BlockOfRenamed } ELSE {})
  BY DEF dirtyBlocks
<1> HIDE DEF BlockOfRow, BlockOfRenamed
<1> QED
  BY <1>2, <1>3, <1>4 DEF HomesOf

Dirt ==
  /\ dirtyBlocks(rows, changed) = HomesOf(rows, changed)
  /\ dirtyBlocks(found.rows, found.changed) = HomesOf(found.rows, found.changed)
  /\ HomesOf(rows, changed) \subseteq 1..LastBlock
  /\ Len(Blocks) = LastBlock

LEMMA DirtNow == IInv => Dirt
<1> SUFFICES ASSUME IInv PROVE Dirt
  OBVIOUS
<1>1. TypeInv
  BY DEF IInv
<1>2. /\ rows \intersect Columns = {} /\ found.rows \intersect Columns = {}
      /\ \A n \in rows \ { "test3" } : Home(n) >= 1
      /\ \A n \in found.rows \ { "test3" } : Home(n) >= 1
  BY <1>1 DEF TypeInv, present
<1>3. dirtyBlocks(rows, changed) = HomesOf(rows, changed)
  BY <1>2, DirtyBlocks
<1>4. dirtyBlocks(found.rows, found.changed) = HomesOf(found.rows, found.changed)
  BY <1>2, DirtyBlocks
<1>5. HomesOf(rows, changed) \subseteq 1..LastBlock
  <2>1. \A n \in rows \ { "test3" } : Home(n) \in 1..LastBlock
    BY <1>2, HomeIsBlock DEF LastBlock
  <2>2. 11 \in 1..LastBlock
    BY DEF LastBlock
  <2> QED
    BY <2>1, <2>2 DEF HomesOf
<1> QED
  BY <1>3, <1>4, <1>5, BlocksShape DEF Dirt

LEMMA DirtNext == IInv' => Dirt'
  BY DirtNow, PTL

\* What the blocks up to b may have cleaned is the same in both modules.
LEMMA HealedByIs ==
  ASSUME NEW b \in 1..LastBlock, NEW c
  PROVE  c \in L!HealedBy(b) <=> Healed(c, b)
<1>1. \A a \in 1..b : Heals[a] = HealedBlocks(a)
  BY HealsIs DEF LastBlock
<1> HIDE DEF Heals
<1> QED
  BY <1>1 DEF L!HealedBy, Healed

-----------------------------------------------------------------------------
(* The refinement of Leftovers: the steps *)

LEMMA InitRefines == Init => L!Init
<1> SUFFICES ASSUME Init PROVE L!Init
  OBVIOUS
<1>1. Dirt
  BY InitInv, DirtNow
<1>2. rows = {} /\ changed = {} /\ found.rows = {} /\ found.changed = {}
      /\ block = 1 /\ running = "running"
  BY DEF Init
<1>3. HomesOf(rows, changed) = {} /\ HomesOf(found.rows, found.changed) = {}
  BY <1>2 DEF HomesOf
<1> QED
  BY <1>1, <1>2, <1>3 DEF L!Init, Dirt

\* A statement makes its own block dirty or one before it.
LEMMA SucceedsDirties ==
  ASSUME IInv, Succeeds
  PROVE  HomesOf(rows', changed') \ HomesOf(rows, changed) \subseteq 1..block
<1> DEFINE s == statement
<1>1. issuing /\ TypeInv /\ Effect(s)
  BY DEF Succeeds, IInv
<1>2. StatementOk(block, s) /\ block \in 1..LastBlock
  BY <1>1, Issued
<1>3. rows \intersect Columns = {} /\ changed \subseteq Columns
  BY <1>1 DEF TypeInv
<1>4. /\ rows' \intersect Columns = {}
      /\ rows' \subseteq rows \union Adds(s)
      /\ present' \subseteq (present \ Removes(s)) \union Adds(s)
  BY <1>1, <1>2, <1>3, MarksAfter
<1>5. \A n \in Adds(s) : n # "test3" => Home(n) \in 1..block
  BY <1>2 DEF StatementOk
<1> HIDE DEF s
<1>6. \A n \in rows' \ { "test3" } : n \in rows \/ Home(n) \in 1..block
  BY <1>4, <1>5
<1>7. "torrents[3].name" \in changed' => "torrents[3].name" \in changed \/ 11 \in 1..block
  <2>1. "torrents[3].name" \in Columns /\ Home("torrents[3].name") = 11
    BY OwnBlocks
  <2>2. "torrents[3].name" \in changed' =>
          "torrents[3].name" \in present \/ "torrents[3].name" \in Adds(s)
    BY <1>4 DEF present
  <2>3. "torrents[3].name" \notin rows
    BY <1>3, <2>1
  <2>4. "torrents[3].name" \in Adds(s) => 11 \in 1..block
    BY <1>5, <2>1
  <2> QED
    BY <2>2, <2>3, <2>4 DEF present
<1> QED
  BY <1>6, <1>7 DEF HomesOf

\* It cleans its own block or one before it, of what this run has made; or
\* what was found in a block that has been healed.
LEMMA SucceedsCleans ==
  ASSUME IInv, IInv', Succeeds,
         NEW c \in HomesOf(rows, changed) \ HomesOf(rows', changed'), ~Healed(c, block)
  PROVE  c \in 1..block /\ c \notin HomesOf(found.rows, found.changed)
<1> DEFINE s == statement
           renamed == "torrents[3].name"
<1>1. issuing /\ TypeInv /\ Effect(s)
  BY DEF Succeeds, IInv
<1>2. /\ StatementOk(block, s) /\ block \in 1..LastBlock /\ running = "running"
      /\ \A n \in MayRemove(s) :
           Home(n) \in HealedBlocks(block) \/ Written(currentBlock, position, n)
  BY <1>1, Issued
<1>3. rows \intersect Columns = {} /\ changed \subseteq Columns
  BY <1>1 DEF TypeInv
<1>4. rows \ rows' \subseteq MayRemove(s) /\ changed \ changed' \subseteq MayRemove(s)
  BY <1>1, <1>2, <1>3, MarksAfter
<1>5. UNCHANGED <<block, running, found>>
  BY DEF Succeeds
<1>6. FoundRowsStay' /\ FoundRenamedStays'
  BY DEF IInv
<1>7. c \notin HealedBlocks(block)
  <2>1. block \in 1..block
    BY <1>2
  <2> QED
    BY <2>1 DEF Healed
<1>8. \A n \in MayRemove(s) : n = "test3" \/ Home(n) \in HealedBlocks(block) \/ Home(n) \in 1..block
  <2>1. block <= LastBlock
    BY <1>2 DEF LastBlock
  <2> QED
    BY <1>1, <1>2, <2>1, WrittenHome
<1>9. renamed \in MayRemove(s) => block >= 11
  BY RenamedRestored
<1> HIDE DEF s
<1>10. /\ \A n \in rows' \ { "test3" } : Home(n) # c
       /\ renamed \in changed' => c # 11
  BY DEF HomesOf
<1>11. c \in 1..block
  <2>1. CASE \E n \in rows \ { "test3" } : c = Home(n)
    <3>1. PICK n \in rows \ { "test3" } : c = Home(n)
      BY <2>1
    <3>2. n \in MayRemove(s)
      BY <1>4, <1>10, <3>1
    <3> QED
      BY <1>7, <1>8, <3>1, <3>2
  <2>2. CASE c = 11 /\ renamed \in changed
    <3>1. renamed \in MayRemove(s)
      BY <1>4, <1>10, <2>2
    <3> QED
      BY <1>2, <1>9, <2>2, <3>1 DEF LastBlock
  <2> QED
    BY <2>1, <2>2 DEF HomesOf
<1>12. c \notin HomesOf(found.rows, found.changed)
  <2>1. ASSUME NEW n \in found.rows \ { "test3" }, c = Home(n) PROVE FALSE
    <3>1. n \in rows'
      BY <1>2, <1>5, <1>6, <2>1 DEF FoundRowsStay
    <3> QED
      BY <1>10, <2>1, <3>1
  <2>2. ASSUME renamed \in found.changed, c = 11 PROVE FALSE
    <3>1. renamed \in changed'
      BY <1>2, <1>5, <1>6, <2>2 DEF FoundRenamedStays
    <3> QED
      BY <1>10, <2>2, <3>1
  <2> QED
    BY <2>1, <2>2 DEF HomesOf
<1> QED
  BY <1>11, <1>12

LEMMA SucceedsRefines == IInv /\ IInv' /\ Succeeds => L!Work
<1> SUFFICES ASSUME IInv, IInv', Succeeds PROVE L!Work
  OBVIOUS
<1>1. Dirt /\ Dirt'
  BY DirtNow, DirtNext
<1>2. running = "running" /\ block \in 1..LastBlock
  BY Issued DEF Succeeds, IInv
<1>3. UNCHANGED <<block, running, found>>
  BY DEF Succeeds
<1>4. dirtyBlocks(found.rows, found.changed)' = dirtyBlocks(found.rows, found.changed)
  BY <1>1, <1>3 DEF Dirt
<1>5. HomesOf(rows', changed') \ HomesOf(rows, changed) \subseteq 1..block
  BY SucceedsDirties
<1>6. \A c \in HomesOf(rows, changed) \ HomesOf(rows', changed') :
        c \in L!HealedBy(block) \/ c \in (1..block) \ HomesOf(found.rows, found.changed)
  BY <1>2, SucceedsCleans, HealedByIs
<1>7. /\ dirtyBlocks(rows, changed)' \in SUBSET (1..LastBlock)
      /\ dirtyBlocks(rows, changed)' \ dirtyBlocks(rows, changed) \subseteq 1..block
  BY <1>1, <1>5 DEF Dirt
<1>8. dirtyBlocks(rows, changed) \ dirtyBlocks(rows, changed)' \subseteq
        L!HealedBy(block) \union ((1..block) \ dirtyBlocks(found.rows, found.changed))
  BY <1>1, <1>6 DEF Dirt
<1>9. block <= LastBlock /\ Len(Blocks) = LastBlock
  BY <1>1, <1>2 DEF Dirt, LastBlock
<1>10. L!Blocks = 1..LastBlock
  BY <1>9 DEF L!Blocks
<1> QED
  BY <1>2, <1>3, <1>4, <1>7, <1>8, <1>9, <1>10 DEF L!Work

\* So does one whose assertion fails.
LEMMA AbortsDirties ==
  ASSUME IInv, Aborts
  PROVE  HomesOf(rows', changed') \ HomesOf(rows, changed) \subseteq 1..block
<1> DEFINE s == statement
           renamed == "torrents[3].name"
<1>1. /\ rows \intersect Columns = {} /\ changed \subseteq Columns
      /\ StatementOk(block, s) /\ block \in 1..LastBlock /\ Effect(s)
  BY AbortsStatement DEF IInv, TypeInv
<1>2. /\ rows' \subseteq rows \union Adds(s)
      /\ present' \subseteq (present \ Removes(s)) \union Adds(s)
  BY <1>1, MarksAfter
<1>3. \A n \in Adds(s) : n # "test3" => Home(n) \in 1..block
  BY <1>1 DEF StatementOk
<1>4. renamed \in Columns /\ Home(renamed) = 11 /\ renamed # "test3"
  BY OwnBlocks
<1> HIDE DEF s, renamed
<1>5. \A n \in rows' \ { "test3" } : n \in rows \/ Home(n) \in 1..block
  BY <1>2, <1>3
<1>6. renamed \in changed' => renamed \in changed \/ 11 \in 1..block
  BY <1>1, <1>2, <1>3, <1>4 DEF present
<1> QED
  BY <1>5, <1>6 DEF HomesOf, renamed

LEMMA AbortsCleans ==
  ASSUME IInv, Aborts,
         NEW c \in HomesOf(rows, changed) \ HomesOf(rows', changed'), ~Healed(c, block)
  PROVE  c \in 1..block /\ c \notin HomesOf(found.rows, found.changed)
<1> DEFINE s == statement
           renamed == "torrents[3].name"
<1>1. /\ TypeInv /\ FoundRowsStay /\ FoundRenamedStays
      /\ rows \intersect Columns = {} /\ changed \subseteq Columns
  BY DEF IInv, TypeInv
<1>2. /\ running = "running" /\ block \in 1..LastBlock /\ StatementOk(block, s) /\ Effect(s)
      /\ \A n \in MayRemove(s) : n \notin Columns
      /\ \A n \in MayRemove(s) :
           Home(n) \in HealedBlocks(block) \/ Written(currentBlock, position, n)
  BY AbortsStatement
<1>3. rows \ rows' \subseteq MayRemove(s) /\ changed \ changed' \subseteq MayRemove(s)
  BY <1>1, <1>2, MarksAfter
<1>4. block <= LastBlock
  BY <1>2 DEF LastBlock
<1>5. c \notin HealedBlocks(block)
  <2>1. block \in 1..block
    BY <1>2
  <2> QED
    BY <2>1 DEF Healed
<1>6. \A n : n # "test3" /\ Written(currentBlock, position, n) => Home(n) \in 1..block
  BY <1>1, <1>2, <1>4, WrittenHome
<1> HIDE DEF s, renamed
<1>7. changed \subseteq changed'
  BY <1>1, <1>2, <1>3
<1>8. /\ \A n \in rows' \ { "test3" } : Home(n) # c
      /\ renamed \in changed' => c # 11
  BY DEF HomesOf, renamed
<1>9. PICK n \in rows \ { "test3" } : c = Home(n)
  BY <1>7, <1>8 DEF HomesOf, renamed
<1>10. n \in MayRemove(s)
  BY <1>3, <1>8, <1>9
<1>11. c \in 1..block
  BY <1>2, <1>5, <1>6, <1>9, <1>10
<1>12. c \notin HomesOf(found.rows, found.changed)
  <2>1. ASSUME NEW m \in found.rows \ { "test3" }, c = Home(m) PROVE FALSE
    <3>1. m \in rows /\ ~Written(currentBlock, position, m)
      BY <1>1, <1>2, <1>4, <2>1 DEF FoundRowsStay
    <3>2. m \notin MayRemove(s)
      BY <1>2, <1>5, <2>1, <3>1
    <3>3. m \in rows'
      BY <1>3, <3>1, <3>2
    <3> QED
      BY <1>8, <2>1, <3>3
  <2>2. ASSUME renamed \in found.changed, c = 11 PROVE FALSE
    <3>1. renamed \in changed
      BY <1>1, <1>2, <2>2 DEF FoundRenamedStays, renamed
    <3> QED
      BY <1>7, <1>8, <2>2, <3>1
  <2> QED
    BY <2>1, <2>2 DEF HomesOf, renamed
<1> QED
  BY <1>11, <1>12

LEMMA AbortsRefines == IInv /\ IInv' /\ Aborts => L!Work
<1> SUFFICES ASSUME IInv, IInv', Aborts PROVE L!Work
  OBVIOUS
<1>1. Dirt /\ Dirt'
  BY DirtNow, DirtNext
<1>2. running = "running" /\ block \in 1..LastBlock
  BY AbortsStatement
<1>3. running' = "aborting" /\ UNCHANGED <<block, found>>
  BY DEF Aborts
<1>4. dirtyBlocks(found.rows, found.changed)' = dirtyBlocks(found.rows, found.changed)
  BY <1>1, <1>3 DEF Dirt
<1>5. HomesOf(rows', changed') \ HomesOf(rows, changed) \subseteq 1..block
  BY AbortsDirties
<1>6. \A c \in HomesOf(rows, changed) \ HomesOf(rows', changed') :
        c \in L!HealedBy(block) \/ c \in (1..block) \ HomesOf(found.rows, found.changed)
  BY <1>2, AbortsCleans, HealedByIs
<1>7. /\ dirtyBlocks(rows, changed)' \in SUBSET (1..LastBlock)
      /\ dirtyBlocks(rows, changed)' \ dirtyBlocks(rows, changed) \subseteq 1..block
  BY <1>1, <1>5 DEF Dirt
<1>8. dirtyBlocks(rows, changed) \ dirtyBlocks(rows, changed)' \subseteq
        L!HealedBy(block) \union ((1..block) \ dirtyBlocks(found.rows, found.changed))
  BY <1>1, <1>6 DEF Dirt
<1>9. block <= LastBlock /\ Len(Blocks) = LastBlock
  BY <1>1, <1>2 DEF Dirt, LastBlock
<1>10. L!Blocks = 1..LastBlock
  BY <1>9 DEF L!Blocks
<1> QED
  BY <1>2, <1>3, <1>4, <1>7, <1>8, <1>9, <1>10 DEF L!Work

\* A block ends only when no mark of it or of the blocks before is left.
LEMMA endOfBlockRefines == IInv /\ IInv' /\ endOfBlock => L!Pass
<1> SUFFICES ASSUME IInv, IInv', endOfBlock PROVE L!Pass
  OBVIOUS
<1>1. Dirt /\ Dirt'
  BY DirtNow, DirtNext
<1>2. /\ running = "running" /\ block \in 1..LastBlock
      /\ \A n \in present \ { "test3" } : Home(n) > block
  BY BlockEnds
<1>3. UNCHANGED <<rows, changed, running, found>> /\ block' = block + 1
  BY DEF endOfBlock, database
<1>4. /\ dirtyBlocks(rows, changed)' = dirtyBlocks(rows, changed)
      /\ dirtyBlocks(found.rows, found.changed)' = dirtyBlocks(found.rows, found.changed)
  BY <1>1, <1>3 DEF Dirt
<1>5. \A n \in rows \ { "test3" } : Home(n) > block
  BY <1>2 DEF present
<1>6. "torrents[3].name" \in changed => 11 > block
  BY <1>2, OwnBlocks DEF present
<1>7. \A c \in HomesOf(rows, changed) : c > block
  BY <1>5, <1>6 DEF HomesOf
<1>8. (1..block) \intersect dirtyBlocks(rows, changed) = {}
  BY <1>1, <1>2, <1>7 DEF Dirt, LastBlock
<1>9. block <= LastBlock /\ Len(Blocks) = LastBlock
  BY <1>1, <1>2 DEF Dirt, LastBlock
<1> QED
  BY <1>2, <1>3, <1>4, <1>8, <1>9 DEF L!Pass

LEMMA endOfTestsRefines == IInv /\ IInv' /\ endOfTests => L!Complete
<1> SUFFICES ASSUME IInv, IInv', endOfTests PROVE L!Complete
  OBVIOUS
<1>1. Dirt /\ Dirt'
  BY DirtNow, DirtNext
<1>2. UNCHANGED <<rows, changed, block, found>> /\ running = "running"
      /\ running' = "completed"
  BY DEF endOfTests, database
<1>3. block = LastBlock + 1
  BY <1>2 DEF IInv, TypeInv
<1> QED
  BY <1>1, <1>2, <1>3 DEF L!Complete, Dirt

LEMMA FailsRefines == IInv /\ IInv' /\ Fails => L!Fail
<1> SUFFICES ASSUME IInv, IInv', Fails PROVE L!Fail
  OBVIOUS
<1>1. Dirt /\ Dirt'
  BY DirtNow, DirtNext
<1>2. /\ UNCHANGED <<rows, changed, block, found>>
      /\ running \in { "running", "aborting" } /\ running' = "failed"
  BY DEF Fails, database
<1> QED
  BY <1>1, <1>2 DEF L!Fail, Dirt

LEMMA nextRunRefines == IInv /\ IInv' /\ nextRun => L!Restart
<1> SUFFICES ASSUME IInv, IInv', nextRun PROVE L!Restart
  OBVIOUS
<1>1. Dirt /\ Dirt'
  BY DirtNow, DirtNext
<1>2. /\ UNCHANGED <<rows, changed>> /\ running \in { "completed", "failed" }
      /\ running' = "running" /\ block' = 1
      /\ found' = [rows |-> rows, changed |-> changed, counted |-> counted]
  BY DEF nextRun, database
<1>3. found'.rows = rows /\ found'.changed = changed
  BY <1>2
<1> QED
  BY <1>1, <1>2, <1>3 DEF L!Restart, Dirt

LEMMA NextRefines == IInv /\ IInv' /\ [Next]_vars => [L!Next]_(L!vars)
<1> SUFFICES ASSUME IInv, IInv', [Next]_vars PROVE [L!Next]_(L!vars)
  OBVIOUS
<1>1. CASE UNCHANGED vars
  <2>1. UNCHANGED <<rows, changed, running, block, found>>
    BY <1>1 DEF vars, database
  <2>2. Dirt /\ Dirt'
    BY DirtNow, DirtNext
  <2> QED
    BY <2>1, <2>2 DEF L!vars, Dirt
<1> QED
  BY <1>1, SucceedsRefines, AbortsRefines, endOfBlockRefines, endOfTestsRefines, FailsRefines, nextRunRefines
  DEF Next, L!Next

\* The runs of TestQueryBuilder and TestTinyOrm implement Leftovers with the
\* blocks that heal what earlier runs left: each step is a step of Leftovers or
\* leaves its variables unchanged.
THEOREM ImplementsLeftoversTheorem == Spec => ImplementsLeftovers
  BY InitRefines, NextRefines, Invariance, PTL DEF Spec, L!Spec, ImplementsLeftovers

-----------------------------------------------------------------------------
(* What the refinement gives *)

P == INSTANCE Leftovers_proofs WITH
       N     <- Len(Blocks),
       heals <- Heals,
       at    <- block,
       phase <- IF running = "aborting" THEN "running" ELSE running,
       left  <- dirtyBlocks(rows, changed),
       found <- dirtyBlocks(found.rows, found.changed)

\* A row of a block that no block heals, or a torrent 3 under its changed name.
Stubborn ==
  \/ "torrents[3].name" \in changed
  \/ \E n \in rows \ { "test3" } : Home(n) \notin { 1, 5, 13, 23, 24 }

\* Once a failed run has left such a row or name, no later run completes until
\* somebody cleans the database by hand.
LeftoversStopEveryRun ==
  [](running = "failed" /\ Stubborn => [](running # "completed"))

LEMMA HealableIs == P!Healable \subseteq { 1, 5, 13, 23, 24 }
<1>1. Len(Blocks) = LastBlock
  BY BlocksShape
<1>2. \A a \in 1..LastBlock : Heals[a] = HealedBlocks(a)
  BY HealsIs
<1>3. \A a \in 1..LastBlock : HealedBlocks(a) \subseteq { 1, 5, 13, 23, 24 }
  BY DEF HealedBlocks
<1>4. P!Healable = UNION { Heals[a] : a \in 1..LastBlock }
  BY <1>1 DEF P!Healable, P!HealedBy
<1> HIDE DEF Heals, LastBlock
<1> QED
  BY <1>2, <1>3, <1>4

LEMMA StubbornIsLeft ==
  IInv /\ Stubborn => dirtyBlocks(rows, changed) \ P!Healable # {}
<1> SUFFICES ASSUME IInv, Stubborn
             PROVE  \E c \in dirtyBlocks(rows, changed) : c \notin P!Healable
  OBVIOUS
<1>1. dirtyBlocks(rows, changed) = HomesOf(rows, changed)
  BY DirtNow DEF Dirt
<1>2. \E c \in HomesOf(rows, changed) : c \notin { 1, 5, 13, 23, 24 }
  <2>1. CASE "torrents[3].name" \in changed
    <3>1. 11 \in HomesOf(rows, changed)
      BY <2>1 DEF HomesOf
    <3> QED
      BY <3>1
  <2>2. CASE \E n \in rows \ { "test3" } : Home(n) \notin { 1, 5, 13, 23, 24 }
    BY <2>2 DEF HomesOf
  <2> QED
    BY <2>1, <2>2 DEF Stubborn
<1> QED
  BY <1>1, <1>2, HealableIs

\* A row or a changed name of a block that nothing heals, once a failed run has
\* left it, stops every later run of the playground.
THEOREM LeftoversStopEveryRunTheorem == Spec => LeftoversStopEveryRun
<1>1. P!LeftoversAssumption
  <2>1. Len(Blocks) = LastBlock /\ LastBlock \in Nat
    BY BlocksShape DEF LastBlock
  <2>2. Heals \in [1..LastBlock -> SUBSET (1..LastBlock)]
    <3>1. Heals = [b \in DOMAIN Blocks |-> Heals[b]]
      BY DEF Heals
    <3> HIDE DEF Heals
    <3> QED
      BY <3>1, BlocksShape, HealsIs
  <2> QED
    BY <2>1, <2>2 DEF P!LeftoversAssumption, P!Blocks
<1>2. P!Spec => P!StuckForGood
  BY <1>1, P!StuckForGoodTheorem
<1>3. Spec => P!Spec
  <2>1. L!Init => P!Init
    BY DEF L!Init, P!Init
  <2>2. [L!Next]_(L!vars) => [P!Next]_(P!vars)
    BY DEF L!Next, L!Work, L!Pass, L!Complete, L!Fail, L!Restart, L!HealedBy, L!Blocks, L!vars,
           P!Next, P!Work, P!Pass, P!Complete, P!Fail, P!Restart, P!HealedBy, P!Blocks, P!vars
  <2> QED
    BY <2>1, <2>2, ImplementsLeftoversTheorem, PTL DEF ImplementsLeftovers, L!Spec, P!Spec
<1>4. IInv /\ running = "failed" /\ Stubborn =>
        /\ (IF running = "aborting" THEN "running" ELSE running) = "failed"
        /\ dirtyBlocks(rows, changed) \ P!Healable # {}
  BY StubbornIsLeft
<1>5. (IF running = "aborting" THEN "running" ELSE running) # "completed" =>
        running # "completed"
  OBVIOUS
<1> QED
  BY <1>2, <1>3, <1>4, <1>5, Invariance, PTL DEF P!StuckForGood, LeftoversStopEveryRun

=============================================================================
