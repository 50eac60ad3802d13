---------------------------- MODULE CatalogueProofs ----------------------------
(***************************************************************************)
(* The catalogue loader, for every set of records, writers and rows.  The  *)
(* loader counts on two rows of the database being held: a source row that *)
(* is held keeps its book, and a book that is deleted has had all of its   *)
(* sources taken first.                                                    *)
(***************************************************************************)
EXTENDS CatalogueLoad, FiniteSetTheorems, SequenceTheorems, TLAPS

(***************************************************************************)
(* The rows                                                                *)
(***************************************************************************)

RowsTyped ==
  /\ DOMAIN disk = Rows /\ DOMAIN draft = Rows
  /\ \A i \in Ids : disk[i] \in BookRows \cup {None} /\ draft[i] \in BookRows \cup {None}
  /\ \A s \in Sids : disk[s] \in SourceRows \cup {None} /\ draft[s] \in SourceRows \cup {None}
  /\ lockedBy \in [Rows -> Writers \cup {None}]
  /\ \A r \in Rows : lockedBy[r] = None => draft[r] = disk[r]

\* A source row that is committed has its book.
SourcesHaveBooks == \A s \in Sids : disk[s] # None => disk[disk[s].book] # None

\* A source row that is held is there, and so is the book it refers to: held
\* with it, or as it was committed.
HeldSourcesHaveBooks ==
  \A s \in Sids : lockedBy[s] # None =>
    /\ draft[s] # None
    /\ \/ lockedBy[draft[s].book] = lockedBy[s] /\ draft[draft[s].book] # None
       \/ lockedBy[draft[s].book] # lockedBy[s] /\ disk[s] # None /\ disk[s].book = draft[s].book

\* Who deletes a book holds every source row that referred to it.
DeletedHoldSources ==
  \A i \in Ids : lockedBy[i] # None /\ draft[i] = None =>
    \A s \in Sids : disk[s] # None /\ disk[s].book = i => lockedBy[s] = lockedBy[i]

RowsInv == RowsTyped /\ SourcesHaveBooks /\ HeldSourcesHaveBooks /\ DeletedHoldSources

\* What a row is not.
LEMMA RowKinds ==
  ASSUME LoaderAssumption
  PROVE  /\ None \notin Ids /\ None \notin Sids /\ None \notin Writers /\ None \notin BookRows /\ None \notin SourceRows
         /\ \A i \in Ids : i \notin Sids /\ i \in Rows /\ i \in Nat
         /\ \A s \in Sids : s \in Rows
         /\ Rows = Ids \cup Sids
         /\ \A row \in SourceRows : row.book \in Ids
BY DEF LoaderAssumption, Rows, SourceRows

\* Rows may be written that nobody else holds, books never to None, and sources
\* to a book that is written with them, is held, or was theirs.
LEMMA WriteKeepsRows ==
  ASSUME LoaderAssumption, RowsInv, NEW w \in Writers, NEW new, Write(w, new), disk' = disk,
         \A r \in DOMAIN new : r \in Rows /\ lockedBy[r] \in {None, w},
         \A i \in Ids : i \in DOMAIN new => new[i] \in BookRows,
         \A s \in Sids : s \in DOMAIN new =>
           /\ new[s] \in SourceRows
           /\ \/ new[s].book \in DOMAIN new
              \/ lockedBy[new[s].book] = w /\ draft[new[s].book] # None
              \/ lockedBy[new[s].book] # w /\ disk[s] # None /\ disk[s].book = new[s].book
  PROVE  RowsInv'
<1> USE RowKinds
<1>1. \A r \in Rows : /\ r \in DOMAIN new => draft'[r] = new[r] /\ lockedBy'[r] = w
                      /\ r \notin DOMAIN new => draft'[r] = draft[r] /\ lockedBy'[r] = lockedBy[r]
  BY DEF Write
<1>2. RowsTyped'
  <2>1. DOMAIN draft' = Rows /\ lockedBy' \in [Rows -> Writers \cup {None}] /\ DOMAIN disk' = Rows
    BY DEF Write, RowsInv, RowsTyped
  <2>2. \A i \in Ids : draft'[i] \in BookRows \cup {None}
    BY <1>1 DEF RowsInv, RowsTyped
  <2>3. \A s \in Sids : draft'[s] \in SourceRows \cup {None}
    BY <1>1 DEF RowsInv, RowsTyped
  <2>4. \A r \in Rows : lockedBy'[r] = None => draft'[r] = disk'[r]
    BY <1>1 DEF RowsInv, RowsTyped
  <2> QED BY <2>1, <2>2, <2>3, <2>4 DEF RowsInv, RowsTyped
<1>3. SourcesHaveBooks'
  BY DEF RowsInv, SourcesHaveBooks
<1>4. HeldSourcesHaveBooks'
  <2> SUFFICES ASSUME NEW s \in Sids, lockedBy'[s] # None
               PROVE  /\ draft'[s] # None
                      /\ \/ lockedBy'[draft'[s].book] = lockedBy'[s] /\ draft'[draft'[s].book] # None
                         \/ lockedBy'[draft'[s].book] # lockedBy'[s] /\ disk'[s] # None /\ disk'[s].book = draft'[s].book
    BY DEF HeldSourcesHaveBooks
  <2>1. CASE s \in DOMAIN new
    <3>1. draft'[s] = new[s] /\ lockedBy'[s] = w /\ new[s] \in SourceRows /\ new[s].book \in Ids
      BY <1>1, <2>1
    <3> QED BY <1>1, <2>1, <3>1
  <2>2. CASE s \notin DOMAIN new
    <3>1. draft'[s] = draft[s] /\ lockedBy'[s] = lockedBy[s] /\ draft[s] # None /\ draft[s] \in SourceRows
      BY <1>1, <2>2 DEF RowsInv, RowsTyped, HeldSourcesHaveBooks
    <3>2. draft[s].book \in Ids
      BY <3>1
    <3>3. \/ lockedBy[draft[s].book] = lockedBy[s] /\ draft[draft[s].book] # None
          \/ lockedBy[draft[s].book] # lockedBy[s] /\ disk[s] # None /\ disk[s].book = draft[s].book
      BY <3>1 DEF RowsInv, HeldSourcesHaveBooks
    <3> QED BY <1>1, <3>1, <3>2, <3>3
  <2> QED BY <2>1, <2>2
<1>5. DeletedHoldSources'
  <2> SUFFICES ASSUME NEW i \in Ids, lockedBy'[i] # None, draft'[i] = None,
                      NEW s \in Sids, disk[s] # None, disk[s].book = i
               PROVE  lockedBy'[s] = lockedBy'[i]
    BY DEF DeletedHoldSources
  <2>1. i \notin DOMAIN new
    BY <1>1
  <2>2. lockedBy[s] = lockedBy[i] /\ lockedBy'[i] = lockedBy[i]
    BY <1>1, <2>1 DEF RowsInv, DeletedHoldSources
  <2> QED BY <1>1, <2>2
<1> QED BY <1>2, <1>3, <1>4, <1>5 DEF RowsInv

\* A merge: both books are held, and nobody else holds a source of the orphan.
LEMMA MergeKeepsRows ==
  ASSUME LoaderAssumption, RowsInv, NEW w \in Writers, Write(w, Merged(w)), disk' = disk,
         NEW orphan \in Ids, orphan = tx[w].book, NEW survivor \in Ids, survivor = tx[w].survivor, orphan # survivor,
         lockedBy[orphan] = w, lockedBy[survivor] = w, draft[survivor] # None,
         \A s \in SourcesOf(w, orphan) : lockedBy[s] \in {None, w}
  PROVE  /\ RowsInv'
         /\ \A s \in SourcesOf(w, orphan) : lockedBy'[s] = w /\ draft'[s] = [View(w, s) EXCEPT !.book = survivor]
         /\ lockedBy'[orphan] = w /\ draft'[orphan] = None
         /\ \A r \in Rows : r # orphan /\ r \notin SourcesOf(w, orphan) =>
              draft'[r] = draft[r] /\ lockedBy'[r] = lockedBy[r]
<1> USE RowKinds
<1> DEFINE moved == SourcesOf(w, orphan)
           Row(s) == [View(w, s) EXCEPT !.book = survivor]
<1>1. moved \subseteq Sids /\ moved \subseteq Rows /\ orphan \notin moved
  BY DEF SourcesOf
<1>2. /\ \A s \in moved : lockedBy'[s] = w /\ draft'[s] = Row(s) /\ lockedBy[s] \in {None, w}
      /\ lockedBy'[orphan] = w /\ draft'[orphan] = None
      /\ \A r \in Rows : r # orphan /\ r \notin moved => draft'[r] = draft[r] /\ lockedBy'[r] = lockedBy[r]
  BY <1>1 DEF Write, Merged
<1>3. \A s \in Sids : s \in moved <=> View(w, s) # None /\ View(w, s).book = orphan
  BY DEF SourcesOf
<1>4. \A s \in Sids : View(w, s) = IF lockedBy[s] = w THEN draft[s] ELSE disk[s]
  BY DEF View
<1>5. \A s \in moved : Row(s) \in SourceRows /\ Row(s).book = survivor
  <2> SUFFICES ASSUME NEW s \in moved, NEW row, row = View(w, s)
               PROVE  [row EXCEPT !.book = survivor] \in SourceRows /\ [row EXCEPT !.book = survivor].book = survivor
    OBVIOUS
  <2>1. row \in SourceRows
    BY <1>1, <1>3, <1>4 DEF RowsInv, RowsTyped
  <2> QED BY <2>1 DEF SourceRows
<1>6. survivor \notin moved /\ draft'[survivor] = draft[survivor] /\ lockedBy'[survivor] = w
  BY <1>1, <1>2
<1> HIDE DEF moved, Row
<1>7. RowsTyped'
  <2>1. DOMAIN draft' = Rows /\ lockedBy' \in [Rows -> Writers \cup {None}] /\ DOMAIN disk' = Rows
    BY DEF Write, RowsInv, RowsTyped
  <2>2. \A i \in Ids : draft'[i] \in BookRows \cup {None}
    BY <1>1, <1>2 DEF RowsInv, RowsTyped
  <2>3. \A s \in Sids : draft'[s] \in SourceRows \cup {None}
    BY <1>1, <1>2, <1>5 DEF RowsInv, RowsTyped
  <2>4. \A r \in Rows : lockedBy'[r] = None => draft'[r] = disk'[r]
    BY <1>2 DEF RowsInv, RowsTyped
  <2> QED BY <2>1, <2>2, <2>3, <2>4 DEF RowsInv, RowsTyped
<1>8. SourcesHaveBooks'
  BY DEF RowsInv, SourcesHaveBooks
<1>9. HeldSourcesHaveBooks'
  <2> SUFFICES ASSUME NEW s \in Sids, lockedBy'[s] # None
               PROVE  /\ draft'[s] # None
                      /\ \/ lockedBy'[draft'[s].book] = lockedBy'[s] /\ draft'[draft'[s].book] # None
                         \/ lockedBy'[draft'[s].book] # lockedBy'[s] /\ disk'[s] # None /\ disk'[s].book = draft'[s].book
    BY DEF HeldSourcesHaveBooks
  <2>1. CASE s \in moved
    BY <1>2, <1>5, <1>6, <2>1
  <2>2. CASE s \notin moved
    <3>1. draft'[s] = draft[s] /\ lockedBy'[s] = lockedBy[s] /\ draft[s] # None /\ draft[s] \in SourceRows
      BY <1>2, <2>2 DEF RowsInv, RowsTyped, HeldSourcesHaveBooks
    <3>2. PICK b \in Ids : b = draft[s].book
      BY <3>1
    <3>3. \/ lockedBy[b] = lockedBy[s] /\ draft[b] # None
          \/ lockedBy[b] # lockedBy[s] /\ disk[s] # None /\ disk[s].book = b
      BY <3>1, <3>2 DEF RowsInv, HeldSourcesHaveBooks
    <3>4. lockedBy[s] = w => b # orphan
      BY <1>3, <1>4, <2>2, <3>1, <3>2
    <3>5. b \notin moved
      BY <1>1
    <3>6. CASE b = orphan
      BY <1>2, <3>1, <3>2, <3>3, <3>4, <3>6
    <3>7. CASE b # orphan
      BY <1>2, <3>1, <3>2, <3>3, <3>5, <3>7
    <3> QED BY <3>6, <3>7
  <2> QED BY <2>1, <2>2
<1>10. DeletedHoldSources'
  <2> SUFFICES ASSUME NEW i \in Ids, lockedBy'[i] # None, draft'[i] = None,
                      NEW s \in Sids, disk[s] # None, disk[s].book = i
               PROVE  lockedBy'[s] = lockedBy'[i]
    BY DEF DeletedHoldSources
  <2>1. CASE i = orphan
    BY <1>2, <1>3, <1>4, <2>1
  <2>2. CASE i # orphan
    <3>1. i \notin moved
      BY <1>1
    <3>2. lockedBy[s] = lockedBy[i] /\ lockedBy'[i] = lockedBy[i]
      BY <1>2, <2>2, <3>1 DEF RowsInv, DeletedHoldSources
    <3>3. s \in moved => lockedBy[s] = w
      BY <3>2, <1>2, <2>2, <3>1
    <3> QED BY <1>2, <3>2, <3>3
  <2> QED BY <2>1, <2>2
<1> QED BY <1>2, <1>7, <1>8, <1>9, <1>10 DEF RowsInv, moved, Row

LEMMA RollBackKeepsRows ==
  ASSUME LoaderAssumption, RowsInv, NEW w \in Writers, RolledBack(w), disk' = disk
  PROVE  RowsInv'
<1> USE RowKinds
<1>1. \A r \in Rows : /\ lockedBy[r] = w => draft'[r] = disk[r] /\ lockedBy'[r] = None
                      /\ lockedBy[r] # w => draft'[r] = draft[r] /\ lockedBy'[r] = lockedBy[r]
  BY DEF RolledBack
<1>2. RowsTyped'
  <2>1. DOMAIN draft' = Rows /\ lockedBy' \in [Rows -> Writers \cup {None}] /\ DOMAIN disk' = Rows
    BY DEF RolledBack, RowsInv, RowsTyped
  <2>2. \A r \in Rows : lockedBy'[r] = None => draft'[r] = disk'[r]
    BY <1>1 DEF RowsInv, RowsTyped
  <2> QED BY <1>1, <2>1, <2>2 DEF RowsInv, RowsTyped
<1>3. SourcesHaveBooks'
  BY DEF RowsInv, SourcesHaveBooks
<1>4. HeldSourcesHaveBooks'
  <2> SUFFICES ASSUME NEW s \in Sids, lockedBy'[s] # None
               PROVE  /\ draft'[s] # None
                      /\ \/ lockedBy'[draft'[s].book] = lockedBy'[s] /\ draft'[draft'[s].book] # None
                         \/ lockedBy'[draft'[s].book] # lockedBy'[s] /\ disk'[s] # None /\ disk'[s].book = draft'[s].book
    BY DEF HeldSourcesHaveBooks
  <2>1. draft'[s] = draft[s] /\ lockedBy'[s] = lockedBy[s] /\ lockedBy[s] # w /\ draft[s] # None
        /\ draft[s] \in SourceRows
    BY <1>1 DEF RowsInv, RowsTyped, HeldSourcesHaveBooks
  <2>2. draft[s].book \in Ids
    BY <2>1
  <2>3. \/ lockedBy[draft[s].book] = lockedBy[s] /\ draft[draft[s].book] # None
        \/ lockedBy[draft[s].book] # lockedBy[s] /\ disk[s] # None /\ disk[s].book = draft[s].book
    BY <2>1 DEF RowsInv, HeldSourcesHaveBooks
  <2> QED BY <1>1, <2>1, <2>2, <2>3
<1>5. DeletedHoldSources'
  <2> SUFFICES ASSUME NEW i \in Ids, lockedBy'[i] # None, draft'[i] = None,
                      NEW s \in Sids, disk[s] # None, disk[s].book = i
               PROVE  lockedBy'[s] = lockedBy'[i]
    BY DEF DeletedHoldSources
  <2>1. lockedBy[i] # w /\ lockedBy'[i] = lockedBy[i] /\ draft[i] = None
    BY <1>1
  <2>2. lockedBy[s] = lockedBy[i]
    BY <2>1 DEF RowsInv, DeletedHoldSources
  <2> QED BY <1>1, <2>1, <2>2
<1> QED BY <1>2, <1>3, <1>4, <1>5 DEF RowsInv

\* A commit: what w sees is what there is.
LEMMA CommitKeepsRows ==
  ASSUME LoaderAssumption, RowsInv, NEW w \in Writers, draft' = draft,
         disk' = [r \in Rows |-> IF lockedBy[r] = w THEN draft[r] ELSE disk[r]],
         lockedBy' = [r \in Rows |-> IF lockedBy[r] = w THEN None ELSE lockedBy[r]]
  PROVE  /\ RowsInv'
         /\ \A s \in Sids : disk[s] # None => disk'[s] # None
<1> USE RowKinds
<1>1. \A r \in Rows : /\ lockedBy[r] = w => disk'[r] = draft[r] /\ lockedBy'[r] = None
                      /\ lockedBy[r] # w => disk'[r] = disk[r] /\ lockedBy'[r] = lockedBy[r]
  OBVIOUS
<1>2. RowsTyped'
  <2>1. DOMAIN draft' = Rows /\ lockedBy' \in [Rows -> Writers \cup {None}] /\ DOMAIN disk' = Rows
    BY DEF RowsInv, RowsTyped
  <2>2. \A r \in Rows : lockedBy'[r] = None => draft'[r] = disk'[r]
    BY <1>1 DEF RowsInv, RowsTyped
  <2> QED BY <1>1, <2>1, <2>2 DEF RowsInv, RowsTyped
<1>3. \A s \in Sids : lockedBy[s] # None =>
        /\ draft[s] # None /\ draft[s] \in SourceRows /\ draft[s].book \in Ids
        /\ \/ lockedBy[draft[s].book] = lockedBy[s] /\ draft[draft[s].book] # None
           \/ lockedBy[draft[s].book] # lockedBy[s] /\ disk[s] # None /\ disk[s].book = draft[s].book
  BY DEF RowsInv, RowsTyped, HeldSourcesHaveBooks
<1>4. \A s \in Sids : disk[s] # None => disk[s] \in SourceRows /\ disk[s].book \in Ids /\ disk[disk[s].book] # None
  BY DEF RowsInv, RowsTyped, SourcesHaveBooks
<1>5. \A i \in Ids, s \in Sids : lockedBy[i] # None /\ draft[i] = None /\ disk[s] # None /\ disk[s].book = i =>
        lockedBy[s] = lockedBy[i]
  BY DEF RowsInv, DeletedHoldSources
<1>6. SourcesHaveBooks'
  <2> SUFFICES ASSUME NEW s \in Sids, disk'[s] # None PROVE disk'[disk'[s].book] # None
    BY DEF SourcesHaveBooks
  <2>1. CASE lockedBy[s] = w
    BY <1>1, <1>3, <1>4, <2>1
  <2>2. CASE lockedBy[s] # w
    BY <1>1, <1>4, <1>5, <2>2
  <2> QED BY <2>1, <2>2
<1>7. HeldSourcesHaveBooks'
  <2> SUFFICES ASSUME NEW s \in Sids, lockedBy'[s] # None
               PROVE  /\ draft'[s] # None
                      /\ \/ lockedBy'[draft'[s].book] = lockedBy'[s] /\ draft'[draft'[s].book] # None
                         \/ lockedBy'[draft'[s].book] # lockedBy'[s] /\ disk'[s] # None /\ disk'[s].book = draft'[s].book
    BY DEF HeldSourcesHaveBooks
  <2>1. draft'[s] = draft[s] /\ lockedBy[s] # w /\ lockedBy'[s] = lockedBy[s] /\ disk'[s] = disk[s]
    BY <1>1
  <2> QED BY <1>1, <1>3, <2>1
<1>8. DeletedHoldSources'
  <2> SUFFICES ASSUME NEW i \in Ids, lockedBy'[i] # None, draft[i] = None,
                      NEW s \in Sids, disk'[s] # None, disk'[s].book = i
               PROVE  lockedBy'[s] = lockedBy'[i]
    BY DEF DeletedHoldSources
  <2>1. lockedBy[i] # w /\ lockedBy'[i] = lockedBy[i]
    BY <1>1
  <2>2. CASE lockedBy[s] = w
    BY <1>1, <1>3, <1>5, <2>1, <2>2
  <2>3. CASE lockedBy[s] # w
    BY <1>1, <1>5, <2>1, <2>3
  <2> QED BY <2>2, <2>3
<1>9. \A s \in Sids : disk[s] # None => disk'[s] # None
  BY <1>1, <1>3
<1> QED BY <1>2, <1>6, <1>7, <1>8, <1>9 DEF RowsInv

(***************************************************************************)
(* The transactions                                                        *)
(***************************************************************************)

Tallies == [inserted: Nat, updated: Nat, unchanged: Nat, merges: Nat]
Transactions ==
  [at: Statements \cup {"idle"}, batch: Seq(CleanBooks), left: Seq(CleanBooks), book: Ids \cup {None},
   survivor: Ids \cup {None}, saw: SUBSET CleanBooks, had: SUBSET CleanBooks, key: Keys \cup {NoIsbn},
   tally: Tallies, retries: Nat]

\* A writer with nothing to do holds nothing; one with a batch has a record in
\* hand until it commits.
Started(w) ==
  /\ tx[w].at = "idle" => tx[w] = Idle /\ \A r \in Rows : lockedBy[r] # w
  /\ tx[w].at \in {"idle", "commit"} <=> tx[w].left = <<>>
  /\ tx[w].at # "idle" => tx[w].batch # <<>>

\* w holds the source row in hand, which refers to the book in hand.
HasSource(w) == lockedBy[Record(w).sid] = w /\ draft[Record(w).sid].book = tx[w].book

\* A book that was merged away, or rolled back.
Gone(i) == lockedBy[i] = None /\ disk[i] = None

\* What a writer has found out by the statement it is at.
Hand(w) ==
  /\ tx[w].at \in {"find", "insert", "adopt"} => lockedBy[Record(w).sid] # w
  /\ tx[w].at \in {"current", "promote", "lock", "lockOther", "move", "replay", "write"} => HasSource(w)
  /\ tx[w].at = "upsert" => tx[w].book \in Ids /\ (lockedBy[Record(w).sid] = w => HasSource(w))
  /\ tx[w].at \in {"lock", "lockOther", "move"} =>
       tx[w].survivor \in Ids \ {tx[w].book} /\ (lockedBy[tx[w].survivor] = w => draft[tx[w].survivor] # None)
  /\ tx[w].at = "lockOther" =>
       LET i == Min({tx[w].book, tx[w].survivor}) IN lockedBy[i] = w \/ Gone(i)
  /\ tx[w].at = "move" => \A i \in {tx[w].book, tx[w].survivor} : lockedBy[i] = w \/ Gone(i)

WritersInv == tx \in [Writers -> Transactions] /\ \A w \in Writers : Started(w) /\ Hand(w)

\* What a step of w leaves alone: the transactions and the rows of the others,
\* and the books they refer to that are gone.
Others(w) ==
  /\ \A v \in Writers \ {w} : tx'[v] = tx[v]
  /\ \A r \in Rows : /\ lockedBy[r] \notin {None, w} => lockedBy'[r] = lockedBy[r] /\ draft'[r] = draft[r]
                     /\ lockedBy'[r] \in {None, w, lockedBy[r]}
  /\ \A v \in Writers \ {w} : \A i \in {tx[v].book, tx[v].survivor} : i \in Ids /\ Gone(i) => Gone(i)'

\* What the lemma of each action establishes.
Stepped(w) == RowsInv' /\ Others(w) /\ tx' \in [Writers -> Transactions] /\ Started(w)' /\ Hand(w)'

LEMMA MinIsFirst ==
  ASSUME NEW some, some \subseteq Nat, some # {}
  PROVE  Min(some) \in some /\ \A m \in some : Min(some) <= m
<1>1. PICK first \in some : \A m \in some : <<m, first>> \notin OpToRel(<, Nat)
  BY WFMin, NatLessThanWellFounded, Zenon
<1>2. \A m \in some : ~(m < first)
  BY <1>1, Zenon DEF OpToRel
<1>3. \A m \in some : first <= m
  BY <1>2
<1> QED BY <1>3, Zenon DEF Min

\* The lower and the higher of two ids are the two.
LEMMA LowAndHigh ==
  ASSUME NEW i \in Nat, NEW j \in Nat
  PROVE  {Min({i, j}), Max({i, j})} = {i, j}
<1>1. CASE i <= j
  BY <1>1 DEF Min, Max
<1>2. CASE j <= i
  BY <1>2 DEF Min, Max
<1> QED BY <1>1, <1>2

\* The record in hand is one of those delivered.
LEMMA RecordIsClean ==
  ASSUME WritersInv, NEW w \in Writers, tx[w].at \notin {"idle", "commit"}
  PROVE  Record(w) \in CleanBooks /\ Record(w).sid \in Sids /\ tx[w].left \in Seq(CleanBooks) /\ tx[w].left # <<>>
<1>1. tx[w].left \in Seq(CleanBooks) /\ tx[w].left # <<>>
  BY DEF WritersInv, Transactions, Started
<1>2. Head(tx[w].left) \in CleanBooks
  BY <1>1, HeadTailProperties
<1> QED BY <1>1, <1>2 DEF Record, Sids

LEMMA OthersKeepHand ==
  ASSUME LoaderAssumption, RowsInv, WritersInv, NEW w \in Writers, Others(w), NEW v \in Writers, v # w
  PROVE  Started(v)' /\ Hand(v)'
<1> USE RowKinds
<1>1. tx'[v] = tx[v] /\ Record(v)' = Record(v) /\ Started(v) /\ Hand(v) /\ tx[v] \in Transactions
  BY DEF Others, Record, WritersInv
<1>2. \A r \in Rows : /\ lockedBy'[r] = v <=> lockedBy[r] = v
                      /\ lockedBy[r] = v => draft'[r] = draft[r]
  BY DEF Others
<1>3. Started(v)'
  BY <1>1, <1>2 DEF Started
<1>4. tx[v].at \notin {"idle", "commit"} => Record(v).sid \in Rows /\ Record(v) \in CleanBooks
  BY <1>1, RecordIsClean
<1>5. HasSource(v) /\ tx[v].at \notin {"idle", "commit"} => HasSource(v)'
  BY <1>1, <1>2, <1>4 DEF HasSource
<1>6. tx[v].book \in Ids \cup {None} /\ tx[v].survivor \in Ids \cup {None}
  BY <1>1 DEF Transactions
<1>7. \A i \in {tx[v].book, tx[v].survivor} : i \in Ids /\ Gone(i) => Gone(i)'
  BY DEF Others
<1>8. \A i \in {tx[v].book, tx[v].survivor} : i \in Ids /\ (lockedBy[i] = v \/ Gone(i)) => (lockedBy'[i] = v \/ Gone(i)')
  BY <1>2, <1>7
<1>9. tx[v].at = "lockOther" => LET i == Min({tx[v].book, tx[v].survivor}) IN lockedBy'[i] = v \/ Gone(i)'
  <2> SUFFICES ASSUME tx[v].at = "lockOther"
               PROVE  LET i == Min({tx[v].book, tx[v].survivor}) IN lockedBy'[i] = v \/ Gone(i)'
    OBVIOUS
  <2>1. tx[v].book \in Ids /\ tx[v].survivor \in Ids
    <3>1. HasSource(v) /\ tx[v].survivor \in Ids
      BY <1>1 DEF Hand
    <3>2. draft[Record(v).sid] # None /\ draft[Record(v).sid] \in SourceRows
      BY <3>1, <1>4, RecordIsClean DEF HasSource, RowsInv, RowsTyped, HeldSourcesHaveBooks
    <3> QED BY <3>1, <3>2 DEF HasSource
  <2>2. Min({tx[v].book, tx[v].survivor}) \in {tx[v].book, tx[v].survivor}
    BY <2>1, MinIsFirst
  <2>3. LET i == Min({tx[v].book, tx[v].survivor}) IN lockedBy[i] = v \/ Gone(i)
    BY <1>1 DEF Hand
  <2>4. PICK i \in {tx[v].book, tx[v].survivor} : i = Min({tx[v].book, tx[v].survivor})
    BY <2>2
  <2>5. lockedBy'[i] = v \/ Gone(i)'
    BY <1>8, <2>1, <2>3, <2>4
  <2> QED BY <1>1, <2>4, <2>5 DEF Gone
<1>10. tx[v].at = "move" => \A i \in {tx[v].book, tx[v].survivor} : lockedBy'[i] = v \/ Gone(i)'
  <2> SUFFICES ASSUME tx[v].at = "move"
               PROVE  \A i \in {tx[v].book, tx[v].survivor} : lockedBy'[i] = v \/ Gone(i)'
    OBVIOUS
  <2> TAKE i \in {tx[v].book, tx[v].survivor}
  <2>1. HasSource(v) /\ tx[v].survivor \in Ids /\ \A b \in {tx[v].book, tx[v].survivor} : lockedBy[b] = v \/ Gone(b)
    BY <1>1 DEF Hand
  <2>2. draft[Record(v).sid] # None /\ draft[Record(v).sid] \in SourceRows
    BY <2>1, <1>4, RecordIsClean DEF HasSource, RowsInv, RowsTyped, HeldSourcesHaveBooks
  <2>3. tx[v].book \in Ids
    BY <2>1, <2>2 DEF HasSource
  <2>4. i \in Ids /\ (lockedBy[i] = v \/ Gone(i))
    BY <2>1, <2>3
  <2> QED BY <1>8, <2>4
<1>11. Hand(v)'
  <2>1. tx[v].at \in {"find", "insert", "adopt"} => lockedBy'[Record(v).sid] # v
    BY <1>1, <1>2, <1>4 DEF Hand
  <2>2. tx[v].at \in {"current", "promote", "lock", "lockOther", "move", "replay", "write"} => HasSource(v)'
    BY <1>1, <1>5 DEF Hand
  <2>3. tx[v].at = "upsert" => tx[v].book \in Ids /\ (lockedBy'[Record(v).sid] = v => HasSource(v)')
    BY <1>1, <1>2, <1>4, <1>5 DEF Hand
  <2>4. tx[v].at \in {"lock", "lockOther", "move"} =>
          tx[v].survivor \in Ids \ {tx[v].book} /\ (lockedBy'[tx[v].survivor] = v => draft'[tx[v].survivor] # None)
    BY <1>1, <1>2 DEF Hand
  <2> HIDE DEF HasSource, Gone
  <2> QED BY <1>1, <1>9, <1>10, <2>1, <2>2, <2>3, <2>4 DEF Hand
<1> QED BY <1>3, <1>11

\* Rows may be written that nobody else holds, and that are there or are fresh.
LEMMA WriteLeavesOthers ==
  ASSUME LoaderAssumption, NEW w \in Writers, NEW new, Write(w, new), disk' = disk,
         \A v \in Writers \ {w} : tx'[v] = tx[v],
         \A r \in DOMAIN new : r \in Rows /\ lockedBy[r] \in {None, w},
         \A i \in Ids : i \in DOMAIN new => View(w, i) # None \/ i \in Fresh
  PROVE  Others(w)
<1> USE RowKinds
<1>1. \A r \in Rows : /\ r \in DOMAIN new => draft'[r] = new[r] /\ lockedBy'[r] = w
                      /\ r \notin DOMAIN new => draft'[r] = draft[r] /\ lockedBy'[r] = lockedBy[r]
  BY DEF Write
<1>2. ASSUME NEW v \in Writers \ {w}, NEW i \in {tx[v].book, tx[v].survivor}, i \in Ids, Gone(i)
      PROVE  Gone(i)'
  <2>1. View(w, i) = None
    BY <1>2 DEF Gone, View
  <2>2. i \notin Fresh
    BY <1>2 DEF Fresh
  <2> QED BY <1>1, <1>2, <2>1, <2>2 DEF Gone
<1> QED BY <1>1, <1>2 DEF Others

LEMMA ReadLeavesOthers ==
  ASSUME NEW w \in Writers, disk' = disk, draft' = draft, lockedBy' = lockedBy,
         \A v \in Writers \ {w} : tx'[v] = tx[v]
  PROVE  Others(w)
BY DEF Others, Gone

LEMMA RollBackLeavesOthers ==
  ASSUME LoaderAssumption, NEW w \in Writers, RolledBack(w), disk' = disk, \A v \in Writers \ {w} : tx'[v] = tx[v]
  PROVE  Others(w) /\ \A r \in Rows : lockedBy'[r] # w
<1> USE RowKinds
<1>1. \A r \in Rows : /\ lockedBy[r] = w => draft'[r] = disk[r] /\ lockedBy'[r] = None
                      /\ lockedBy[r] # w => draft'[r] = draft[r] /\ lockedBy'[r] = lockedBy[r]
  BY DEF RolledBack
<1> QED BY <1>1 DEF Others, Gone

\* What w sees of a row is a row.
LEMMA ViewIsTyped ==
  ASSUME LoaderAssumption, RowsInv, NEW w \in Writers
  PROVE  /\ \A i \in Ids : View(w, i) \in BookRows \cup {None}
         /\ \A s \in Sids : View(w, s) \in SourceRows \cup {None}
BY DEF View, RowsInv, RowsTyped

\* A source that w may take has its book in the eyes of w.
LEMMA SourceHasItsBook ==
  ASSUME LoaderAssumption, RowsInv, NEW w \in Writers, NEW s \in Sids, View(w, s) # None, lockedBy[s] \in {None, w},
         NEW book, book = View(w, s).book
  PROVE  /\ book \in Ids /\ View(w, book) # None
         /\ \/ lockedBy[book] = w /\ draft[book] # None
            \/ lockedBy[book] # w /\ disk[s] # None /\ disk[s].book = book
<1> USE RowKinds
<1>1. View(w, s) \in SourceRows
  BY ViewIsTyped
<1>2. book \in Ids
  BY <1>1
<1>3. CASE lockedBy[s] = w
  BY <1>2, <1>3 DEF View, RowsInv, HeldSourcesHaveBooks, SourcesHaveBooks
<1>4. CASE lockedBy[s] = None
  BY <1>2, <1>4 DEF View, RowsInv, RowsTyped, DeletedHoldSources, SourcesHaveBooks
<1> QED BY <1>2, <1>3, <1>4

\* Rows that nobody else holds may be taken as they are.
LEMMA TakeKeepsRows ==
  ASSUME LoaderAssumption, RowsInv, NEW w \in Writers, NEW rows \in SUBSET Rows, Take(w, rows), disk' = disk,
         \A r \in rows : lockedBy[r] \in {None, w} /\ View(w, r) # None,
         \A v \in Writers \ {w} : tx'[v] = tx[v]
  PROVE  /\ RowsInv' /\ Others(w)
         /\ \A r \in Rows : /\ r \in rows => draft'[r] = View(w, r) /\ lockedBy'[r] = w
                            /\ r \notin rows => draft'[r] = draft[r] /\ lockedBy'[r] = lockedBy[r]
<1> USE RowKinds
<1> DEFINE new == [r \in rows |-> View(w, r)]
<1>1. Write(w, new) /\ DOMAIN new = rows /\ \A r \in rows : new[r] = View(w, r)
  BY DEF Take
<1>2. \A i \in Ids : i \in rows => new[i] \in BookRows
  BY <1>1, ViewIsTyped
<1>3. \A s \in Sids : s \in rows =>
        /\ new[s] \in SourceRows
        /\ \/ lockedBy[new[s].book] = w /\ draft[new[s].book] # None
           \/ lockedBy[new[s].book] # w /\ disk[s] # None /\ disk[s].book = new[s].book
  BY <1>1, ViewIsTyped, SourceHasItsBook
<1> HIDE DEF new
<1>4. RowsInv'
  BY <1>1, <1>2, <1>3, WriteKeepsRows
<1>5. Others(w)
  BY <1>1, WriteLeavesOthers
<1> QED BY <1>1, <1>4, <1>5 DEF Write

\* What a statement needs nobody else holds.
LEMMA NobodyElseHolds ==
  ASSUME NEW w \in Writers, Blockers(w) = {}
  PROVE  \A r \in Touched(w) : lockedBy[r] \in {None, w}
BY DEF Blockers

(***************************************************************************)
(* The statements                                                          *)
(***************************************************************************)

\* What stays of the transaction of w at a statement that changes its place.
Keeps(w) ==
  /\ tx' \in [Writers -> Transactions] /\ \A v \in Writers \ {w} : tx'[v] = tx[v]
  /\ tx'[w].batch = tx[w].batch /\ tx'[w].left = tx[w].left /\ tx'[w].retries = tx[w].retries

LEMMA GoingOn ==
  ASSUME WritersInv, NEW w \in Writers, NEW at \in Statements, tx' = [tx EXCEPT ![w].at = at]
  PROVE  /\ Keeps(w) /\ tx'[w].at = at /\ tx'[w].book = tx[w].book /\ tx'[w].survivor = tx[w].survivor
         /\ tx'[w].tally = tx[w].tally /\ tx'[w].saw = tx[w].saw /\ tx'[w].had = tx[w].had
<1>1. PICK t \in Transactions : t = tx[w]
  BY DEF WritersInv
<1>2. tx'[w] = [t EXCEPT !.at = at] /\ \A v \in Writers \ {w} : tx'[v] = tx[v]
  BY <1>1 DEF WritersInv
<1>3. [t EXCEPT !.at = at] \in Transactions
  BY DEF Transactions
<1>4. tx' \in [Writers -> Transactions]
  BY <1>2, <1>3 DEF WritersInv
<1> QED BY <1>1, <1>2, <1>4 DEF Transactions, Keeps

LEMMA GoingOnWithBook ==
  ASSUME WritersInv, NEW w \in Writers, NEW at \in Statements, NEW book \in Ids,
         tx' = [tx EXCEPT ![w].at = at, ![w].book = book]
  PROVE  /\ Keeps(w) /\ tx'[w].at = at /\ tx'[w].book = book /\ tx'[w].survivor = tx[w].survivor
         /\ tx'[w].tally = tx[w].tally
<1>1. PICK t \in Transactions : t = tx[w]
  BY DEF WritersInv
<1>2. tx'[w] = [t EXCEPT !.at = at, !.book = book] /\ \A v \in Writers \ {w} : tx'[v] = tx[v]
  BY <1>1 DEF WritersInv
<1>3. [t EXCEPT !.at = at, !.book = book] \in Transactions
  BY DEF Transactions
<1>4. tx' \in [Writers -> Transactions]
  BY <1>2, <1>3 DEF WritersInv
<1> QED BY <1>1, <1>2, <1>4 DEF Transactions, Keeps

\* Same batch, same place in it.
LEMMA KeepsStarted ==
  ASSUME NEW w \in Writers, Keeps(w), Started(w), tx[w].at \notin {"idle", "commit"}, tx'[w].at \notin {"idle", "commit"}
  PROVE  Started(w)' /\ Record(w)' = Record(w)
BY DEF Keeps, Started, Record

LEMMA ReadKeepsRows ==
  ASSUME RowsInv, disk' = disk, draft' = draft, lockedBy' = lockedBy
  PROVE  RowsInv'
BY DEF RowsInv, RowsTyped, SourcesHaveBooks, HeldSourcesHaveBooks, DeletedHoldSources

LEMMA LockSourceSteps ==
  ASSUME LoaderAssumption, RowsInv, WritersInv, NEW w \in Writers, LockSource(w)
  PROVE  Stepped(w)
<1> USE RowKinds
<1>1. tx[w].at = "source" /\ Blockers(w) = {} /\ disk' = disk /\ Started(w)
  BY DEF LockSource, At, Same, WritersInv
<1>2. PICK sid \in Sids : sid = Record(w).sid
  BY <1>1, RecordIsClean
<1>3. CASE View(w, sid) # None
  <2>1. PICK at \in {"upsert", "current"} : at = IF Record(w).isbn13 = NoIsbn THEN "upsert" ELSE "current"
    OBVIOUS
  <2>2. lockedBy[sid] \in {None, w}
    BY <1>1, <1>2, <1>3, NobodyElseHolds DEF Touched
  <2>3. PICK book \in Ids : book = View(w, sid).book
    BY <1>3, <2>2, SourceHasItsBook
  <2>4. Take(w, {sid}) /\ tx' = [tx EXCEPT ![w].at = at, ![w].book = book]
    BY <1>2, <1>3, <2>1, <2>3 DEF LockSource
  <2>5. Keeps(w) /\ tx'[w].at = at /\ tx'[w].book = book
    BY <2>4, GoingOnWithBook DEF Statements
  <2>6. RowsInv' /\ Others(w) /\ draft'[sid] = View(w, sid) /\ lockedBy'[sid] = w
    BY <1>1, <1>3, <2>2, <2>4, <2>5, TakeKeepsRows DEF Keeps
  <2>7. Started(w)' /\ Record(w)' = Record(w)
    BY <1>1, <2>5, KeepsStarted
  <2>8. Hand(w)'
    BY <1>2, <2>3, <2>5, <2>6, <2>7 DEF Hand, HasSource
  <2> QED BY <2>5, <2>6, <2>7, <2>8 DEF Stepped, Keeps
<1>4. CASE View(w, sid) = None
  <2>1. tx' = [tx EXCEPT ![w].at = "find"] /\ draft' = draft /\ lockedBy' = lockedBy
    BY <1>2, <1>4 DEF LockSource, Goto
  <2>2. Keeps(w) /\ tx'[w].at = "find"
    BY <2>1, GoingOn DEF Statements
  <2>3. RowsInv' /\ Others(w)
    BY <1>1, <2>1, <2>2, ReadLeavesOthers, ReadKeepsRows DEF Keeps
  <2>4. lockedBy[sid] # w
    BY <1>2, <1>4 DEF View, RowsInv, HeldSourcesHaveBooks
  <2>5. Started(w)' /\ Record(w)' = Record(w)
    BY <1>1, <2>2, KeepsStarted
  <2>6. Hand(w)'
    BY <1>2, <2>1, <2>2, <2>4, <2>5 DEF Hand
  <2> QED BY <2>2, <2>3, <2>5, <2>6 DEF Stepped, Keeps
<1> QED BY <1>3, <1>4

LEMMA FindSteps ==
  ASSUME LoaderAssumption, RowsInv, WritersInv, NEW w \in Writers, Find(w)
  PROVE  Stepped(w)
<1> USE RowKinds
<1>1. tx[w].at = "find" /\ Blockers(w) = {} /\ disk' = disk /\ Started(w) /\ lockedBy[Record(w).sid] # w
  BY DEF Find, At, Same, WritersInv, Hand
<1>2. PICK sid \in Sids : sid = Record(w).sid
  BY <1>1, RecordIsClean
<1>3. CASE tx' = [tx EXCEPT ![w].at = "insert"] /\ draft' = draft /\ lockedBy' = lockedBy
  <2>1. Keeps(w) /\ tx'[w].at = "insert"
    BY <1>3, GoingOn DEF Statements
  <2>2. RowsInv' /\ Others(w)
    BY <1>1, <1>3, <2>1, ReadLeavesOthers, ReadKeepsRows DEF Keeps
  <2>3. Started(w)' /\ Record(w)' = Record(w)
    BY <1>1, <2>1, KeepsStarted
  <2>4. Hand(w)'
    BY <1>1, <1>3, <2>1, <2>3 DEF Hand
  <2> QED BY <2>1, <2>2, <2>3, <2>4 DEF Stepped, Keeps
<1>4. ASSUME NEW i \in Keyed(w, identity_key(Record(w))), Take(w, {i}), GotoBook(w, i)
      PROVE  Stepped(w)
  <2>1. i \in Ids /\ View(w, i) # None /\ lockedBy[i] \in {None, w}
    BY <1>1, NobodyElseHolds DEF Touched, Keyed
  <2>2. Keeps(w) /\ tx'[w].at = "upsert" /\ tx'[w].book = i
    BY <1>4, <2>1, GoingOnWithBook DEF Statements, GotoBook
  <2>3. RowsInv' /\ Others(w) /\ \A r \in Rows : r # i => lockedBy'[r] = lockedBy[r]
    BY <1>1, <1>4, <2>1, <2>2, TakeKeepsRows DEF Keeps
  <2>4. Started(w)' /\ Record(w)' = Record(w)
    BY <1>1, <2>2, KeepsStarted
  <2>5. lockedBy'[sid] # w
    BY <1>1, <1>2, <2>1, <2>3
  <2>6. Hand(w)'
    BY <1>2, <2>1, <2>2, <2>4, <2>5 DEF Hand
  <2> QED BY <2>2, <2>3, <2>4, <2>6 DEF Stepped, Keeps
<1> QED BY <1>3, <1>4 DEF Find, Goto

LEMMA InsertSteps ==
  ASSUME LoaderAssumption, RowsInv, WritersInv, NEW w \in Writers, Insert(w)
  PROVE  Stepped(w)
<1> USE RowKinds
<1>1. tx[w].at = "insert" /\ Blockers(w) = {} /\ disk' = disk /\ Started(w) /\ lockedBy[Record(w).sid] # w
  BY DEF Insert, At, Same, WritersInv, Hand
<1>2. PICK sid \in Sids : sid = Record(w).sid
  BY <1>1, RecordIsClean
<1>3. CASE tx' = [tx EXCEPT ![w].at = "adopt"] /\ draft' = draft /\ lockedBy' = lockedBy
  <2>1. Keeps(w) /\ tx'[w].at = "adopt"
    BY <1>3, GoingOn DEF Statements
  <2>2. RowsInv' /\ Others(w)
    BY <1>1, <1>3, <2>1, ReadLeavesOthers, ReadKeepsRows DEF Keeps
  <2>3. Started(w)' /\ Record(w)' = Record(w)
    BY <1>1, <2>1, KeepsStarted
  <2>4. Hand(w)'
    BY <1>1, <1>3, <2>1, <2>3 DEF Hand
  <2> QED BY <2>1, <2>2, <2>3, <2>4 DEF Stepped, Keeps
<1>4. ASSUME Fresh # {}, NEW stub, stub = [identity_key |-> identity_key(Record(w)), isbn13 |-> Record(w).isbn13, content |-> {}],
             WriteBook(w, Min(Fresh), stub),
             tx' = [tx EXCEPT ![w].at = "upsert", ![w].book = Min(Fresh), ![w].tally.inserted = @ + 1]
      PROVE  Stepped(w)
  <2>1. Fresh \subseteq Nat /\ Fresh \subseteq Ids
    BY DEF Fresh
  <2>2. PICK i \in Fresh : i = Min(Fresh)
    BY <1>4, <2>1, MinIsFirst
  <2>3. stub \in BookRows
    BY <1>1, <1>4, RecordIsClean DEF BookRows, identity_key, Keys, Isbns
  <2>4. i \in Ids /\ lockedBy[i] = None
    BY <2>1 DEF Fresh
  <2>5. Keeps(w) /\ tx'[w].at = "upsert" /\ tx'[w].book = i
    <3>1. PICK t \in Transactions : t = tx[w]
      BY DEF WritersInv
    <3>2. /\ tx'[w] = [t EXCEPT !.at = "upsert", !.book = i, !.tally.inserted = @ + 1]
          /\ \A v \in Writers \ {w} : tx'[v] = tx[v]
      BY <1>4, <2>2, <3>1 DEF WritersInv
    <3>3. PICK tally \in Tallies : tally = [t.tally EXCEPT !.inserted = @ + 1]
      <4>1. PICK old \in Tallies : old = t.tally
        BY DEF Transactions
      <4>2. [old EXCEPT !.inserted = @ + 1] \in Tallies
        BY DEF Tallies
      <4> QED BY <4>1, <4>2
    <3>4. [t EXCEPT !.at = "upsert", !.book = i, !.tally.inserted = @ + 1] = [t EXCEPT !.at = "upsert", !.book = i, !.tally = tally]
      BY <3>3 DEF Transactions
    <3>5. [t EXCEPT !.at = "upsert", !.book = i, !.tally = tally] \in Transactions
      BY <2>4 DEF Transactions, Statements
    <3>6. tx' \in [Writers -> Transactions]
      BY <1>4, <3>2, <3>4, <3>5 DEF WritersInv
    <3> QED BY <3>1, <3>2, <3>4, <3>6 DEF Transactions, Keeps
  <2>6. DEFINE new == [b \in {i} |-> stub]
  <2>7. Write(w, new) /\ DOMAIN new = {i} /\ new[i] = stub
    BY <1>4, <2>2 DEF WriteBook
  <2> HIDE DEF new
  <2>8. RowsInv'
    BY <1>1, <2>3, <2>4, <2>7, WriteKeepsRows
  <2>9. Others(w)
    BY <1>1, <2>4, <2>5, <2>7, WriteLeavesOthers DEF Keeps
  <2>10. lockedBy'[sid] # w
    BY <1>1, <1>2, <2>4, <2>7 DEF Write
  <2>11. Started(w)' /\ Record(w)' = Record(w)
    BY <1>1, <2>5, KeepsStarted
  <2>12. Hand(w)'
    BY <1>2, <2>4, <2>5, <2>10, <2>11 DEF Hand
  <2> QED BY <2>5, <2>8, <2>9, <2>11, <2>12 DEF Stepped, Keeps
<1> QED BY <1>3, <1>4 DEF Insert, Goto

LEMMA IdleIsTyped == Idle \in Transactions /\ Idle.at = "idle" /\ Idle.left = <<>> /\ Idle.batch = <<>>
<1>1. NoFigures \in Tallies /\ <<>> \in Seq(CleanBooks)
  BY DEF NoFigures, Tallies
<1> QED BY <1>1 DEF Idle, Transactions

\* A writer that lets go of everything is idle, or starts on its batch anew.
LEMMA RollBackSteps ==
  ASSUME LoaderAssumption, RowsInv, WritersInv, NEW w \in Writers, RolledBack(w), disk' = disk,
         tx' \in [Writers -> Transactions], \A v \in Writers \ {w} : tx'[v] = tx[v],
         tx'[w] # Idle => tx'[w].at = "source" /\ tx'[w].left # <<>> /\ tx'[w].batch # <<>>
  PROVE  Stepped(w)
<1>1. RowsInv' /\ Others(w) /\ \A r \in Rows : lockedBy'[r] # w
  BY RollBackKeepsRows, RollBackLeavesOthers
<1>2. Started(w)'
  BY <1>1, IdleIsTyped DEF Started
<1>3. Hand(w)'
  BY IdleIsTyped DEF Hand
<1> QED BY <1>1, <1>2, <1>3 DEF Stepped

LEMMA FailsSteps ==
  ASSUME LoaderAssumption, RowsInv, WritersInv, NEW w \in Writers, Fails(w)
  PROVE  Stepped(w)
<1>1. RolledBack(w) /\ disk' = disk /\ tx' = [tx EXCEPT ![w] = Idle]
  BY DEF Fails, Same
<1>2. tx' \in [Writers -> Transactions] /\ tx'[w] = Idle /\ \A v \in Writers \ {w} : tx'[v] = tx[v]
  BY <1>1, IdleIsTyped DEF WritersInv
<1> QED BY <1>1, <1>2, RollBackSteps

LEMMA AdoptSteps ==
  ASSUME LoaderAssumption, RowsInv, WritersInv, NEW w \in Writers, Adopt(w)
  PROVE  Stepped(w)
<1> USE RowKinds
<1>1. tx[w].at = "adopt" /\ Started(w) /\ lockedBy[Record(w).sid] # w
  BY DEF Adopt, At, WritersInv, Hand
<1>2. CASE Fails(w)
  BY <1>2, FailsSteps
<1>3. ASSUME NEW i \in Keyed(w, identity_key(Record(w))), GotoBook(w, i), Reads
      PROVE  Stepped(w)
  <2>1. i \in Ids
    BY DEF Keyed
  <2>2. Keeps(w) /\ tx'[w].at = "upsert" /\ tx'[w].book = i /\ disk' = disk /\ draft' = draft /\ lockedBy' = lockedBy
    BY <1>3, <2>1, GoingOnWithBook DEF Statements, GotoBook, Reads, Same
  <2>3. RowsInv' /\ Others(w)
    BY <2>2, ReadLeavesOthers, ReadKeepsRows DEF Keeps
  <2>4. Started(w)' /\ Record(w)' = Record(w)
    BY <1>1, <2>2, KeepsStarted
  <2>5. Hand(w)'
    BY <1>1, <2>1, <2>2, <2>4 DEF Hand
  <2> QED BY <2>2, <2>3, <2>4, <2>5 DEF Stepped, Keeps
<1> QED BY <1>2, <1>3 DEF Adopt

\* The book in hand of a writer that holds its source.
LEMMA BookInHand ==
  ASSUME LoaderAssumption, RowsInv, WritersInv, NEW w \in Writers, HasSource(w), tx[w].at \notin {"idle", "commit"}
  PROVE  /\ tx[w].book \in Ids /\ View(w, tx[w].book) # None /\ View(w, tx[w].book) \in BookRows
         /\ View(w, Record(w).sid) # None /\ View(w, Record(w).sid) = draft[Record(w).sid]
         /\ \/ lockedBy[tx[w].book] = w /\ draft[tx[w].book] # None
            \/ lockedBy[tx[w].book] # w /\ disk[Record(w).sid] # None /\ disk[Record(w).sid].book = tx[w].book
<1> USE RowKinds
<1>1. PICK sid \in Sids : sid = Record(w).sid
  BY RecordIsClean
<1>2. lockedBy[sid] = w /\ View(w, sid) # None /\ View(w, sid).book = tx[w].book /\ View(w, sid) = draft[sid]
  BY <1>1 DEF HasSource, View, RowsInv, HeldSourcesHaveBooks
<1>3. /\ tx[w].book \in Ids /\ View(w, tx[w].book) # None
      /\ \/ lockedBy[tx[w].book] = w /\ draft[tx[w].book] # None
         \/ lockedBy[tx[w].book] # w /\ disk[sid] # None /\ disk[sid].book = tx[w].book
  BY <1>2, SourceHasItsBook
<1> QED BY <1>1, <1>2, <1>3, ViewIsTyped

LEMMA ReconcileSteps ==
  ASSUME LoaderAssumption, RowsInv, WritersInv, NEW w \in Writers, Reconcile(w)
  PROVE  Stepped(w)
<1> USE RowKinds
<1>1. /\ tx[w].at = "current" /\ Started(w) /\ HasSource(w)
      /\ disk' = disk /\ draft' = draft /\ lockedBy' = lockedBy
  BY DEF Reconcile, At, WritersInv, Hand, Reads, Same
<1>2. PICK sid \in Sids : sid = Record(w).sid
  BY <1>1, RecordIsClean
<1>3. RowsInv'
  BY <1>1, ReadKeepsRows
<1>4. tx[w].book \in Ids
  BY <1>1, BookInHand
<1>5. ASSUME NEW at \in {"upsert", "promote"}, tx' = [tx EXCEPT ![w].at = at]
      PROVE  Stepped(w)
  <2>1. Keeps(w) /\ tx'[w].at = at /\ tx'[w].book = tx[w].book
    BY <1>5, GoingOn DEF Statements
  <2>2. Others(w)
    BY <1>1, <2>1, ReadLeavesOthers DEF Keeps
  <2>3. Started(w)' /\ Record(w)' = Record(w)
    BY <1>1, <2>1, KeepsStarted
  <2>4. Hand(w)'
    BY <1>1, <1>2, <1>4, <2>1, <2>3 DEF Hand, HasSource
  <2> QED BY <1>3, <2>1, <2>2, <2>3, <2>4 DEF Stepped, Keeps
<1>6. ASSUME NEW i \in WithIsbn(w, Record(w).isbn13), View(w, tx[w].book).isbn13 # Record(w).isbn13,
             tx' = [tx EXCEPT ![w].at = "lock", ![w].survivor = i]
      PROVE  Stepped(w)
  <2>1. i \in Ids /\ i # tx[w].book /\ View(w, i) # None
    BY <1>6 DEF WithIsbn
  <2>2. Keeps(w) /\ tx'[w].at = "lock" /\ tx'[w].book = tx[w].book /\ tx'[w].survivor = i
    <3>1. PICK t \in Transactions : t = tx[w]
      BY DEF WritersInv
    <3>2. tx'[w] = [t EXCEPT !.at = "lock", !.survivor = i] /\ \A v \in Writers \ {w} : tx'[v] = tx[v]
      BY <1>6, <3>1 DEF WritersInv
    <3>3. [t EXCEPT !.at = "lock", !.survivor = i] \in Transactions
      BY <2>1 DEF Transactions, Statements
    <3>4. tx' \in [Writers -> Transactions]
      BY <1>6, <3>2, <3>3 DEF WritersInv
    <3> QED BY <3>1, <3>2, <3>4 DEF Transactions, Keeps
  <2>3. Others(w)
    BY <1>1, <2>2, ReadLeavesOthers DEF Keeps
  <2>4. Started(w)' /\ Record(w)' = Record(w)
    BY <1>1, <2>2, KeepsStarted
  <2>5. lockedBy[i] = w => draft[i] # None
    BY <2>1 DEF View
  <2>6. Hand(w)'
    BY <1>1, <1>2, <2>1, <2>2, <2>4, <2>5 DEF Hand, HasSource
  <2> QED BY <1>3, <2>2, <2>3, <2>4, <2>6 DEF Stepped, Keeps
<1> QED BY <1>5, <1>6 DEF Reconcile, Goto

LEMMA PromoteSteps ==
  ASSUME LoaderAssumption, RowsInv, WritersInv, NEW w \in Writers, Promote(w)
  PROVE  Stepped(w)
<1> USE RowKinds
<1>1. tx[w].at = "promote" /\ Blockers(w) = {} /\ Started(w) /\ HasSource(w)
  BY DEF Promote, At, WritersInv, Hand
<1>2. PICK sid \in Sids : sid = Record(w).sid
  BY <1>1, RecordIsClean
<1>3. PICK book \in Ids : book = tx[w].book
  BY <1>1, BookInHand
<1>4. PICK was \in BookRows : was = View(w, book)
  BY <1>1, <1>3, BookInHand
<1>5. lockedBy[book] \in {None, w} /\ View(w, book) # None
  BY <1>1, <1>3, BookInHand, NobodyElseHolds DEF Touched
<1>6. PICK row : row = [was EXCEPT !.isbn13 = Record(w).isbn13, !.identity_key = identity_key(Record(w))]
  OBVIOUS
<1>7. row \in BookRows
  <2>1. Record(w).isbn13 \in Isbns /\ identity_key(Record(w)) \in Keys
    BY <1>1, RecordIsClean DEF Isbns, Keys, identity_key
  <2> QED BY <1>6, <2>1 DEF BookRows
<1>8. CASE Fails(w)
  BY <1>8, FailsSteps
<1>9. ASSUME WriteBook(w, book, row), Goto(w, "upsert"), Same
      PROVE  Stepped(w)
  <2>1. Keeps(w) /\ tx'[w].at = "upsert" /\ tx'[w].book = book /\ disk' = disk
    BY <1>3, <1>9, GoingOn DEF Statements, Goto, Same
  <2> DEFINE new == [b \in {book} |-> row]
  <2>2. Write(w, new) /\ DOMAIN new = {book} /\ new[book] = row
    BY <1>9 DEF WriteBook
  <2> HIDE DEF new
  <2>3. RowsInv'
    BY <1>5, <1>7, <2>1, <2>2, WriteKeepsRows
  <2>4. Others(w)
    BY <1>5, <2>1, <2>2, WriteLeavesOthers DEF Keeps
  <2>5. lockedBy'[sid] = lockedBy[sid] /\ draft'[sid] = draft[sid]
    BY <2>2 DEF Write
  <2>6. Started(w)' /\ Record(w)' = Record(w)
    BY <1>1, <2>1, KeepsStarted
  <2>7. Hand(w)'
    BY <1>1, <1>2, <1>3, <2>1, <2>5, <2>6 DEF Hand, HasSource
  <2> QED BY <2>1, <2>3, <2>4, <2>6, <2>7 DEF Stepped, Keeps
<1> QED BY <1>3, <1>4, <1>6, <1>8, <1>9 DEF Promote

\* The books of a merge, of which one may be gone.
LEMMA LockSteps ==
  ASSUME LoaderAssumption, RowsInv, WritersInv, NEW w \in Writers, Lock(w)
  PROVE  Stepped(w)
<1> USE RowKinds
<1>1. tx[w].at \in {"lock", "lockOther"} /\ Blockers(w) = {} /\ Started(w) /\ HasSource(w) /\ Hand(w) /\ disk' = disk
  BY DEF Lock, At, WritersInv, Hand, Same
<1>2. PICK sid \in Sids : sid = Record(w).sid
  BY <1>1, RecordIsClean
<1>3. PICK book \in Ids : book = tx[w].book
  BY <1>1, BookInHand
<1>4. PICK survivor \in Ids \ {book} : survivor = tx[w].survivor
  BY <1>1, <1>3 DEF Hand
<1>5. PICK low \in Ids, high \in Ids : low = Min({book, survivor}) /\ high = Max({book, survivor}) /\ {low, high} = {book, survivor}
  BY LowAndHigh
<1>6. PICK i \in {low, high} : Touched(w) = {i} /\ (tx[w].at = "lock" <=> i = low)
  <2>1. low # high
    BY <1>5
  <2> QED BY <1>1, <1>3, <1>4, <1>5, <2>1 DEF Touched
<1>7. PICK at \in {"lockOther", "move"} : Goto(w, at) /\ (tx[w].at = "lock" <=> at = "lockOther")
  BY DEF Lock, At
<1>8. Keeps(w) /\ tx'[w].at = at /\ tx'[w].book = book /\ tx'[w].survivor = survivor
  BY <1>3, <1>4, <1>7, GoingOn DEF Statements, Goto
<1>9. PICK rows \in SUBSET {i} : rows = {r \in {i} : View(w, r) # None} /\ Take(w, rows)
  BY <1>6 DEF Lock
<1>10. lockedBy[i] \in {None, w}
  BY <1>1, <1>6, NobodyElseHolds
<1>11. /\ RowsInv' /\ Others(w)
       /\ \A r \in Rows : /\ r \in rows => draft'[r] = View(w, r) /\ lockedBy'[r] = w
                          /\ r \notin rows => draft'[r] = draft[r] /\ lockedBy'[r] = lockedBy[r]
  BY <1>1, <1>8, <1>9, <1>10, TakeKeepsRows DEF Keeps
<1>12. \A j \in Ids : lockedBy[j] = w => lockedBy'[j] = w /\ draft'[j] = draft[j]
  BY <1>11 DEF View
<1>13. Started(w)' /\ Record(w)' = Record(w)
  BY <1>1, <1>8, KeepsStarted
<1>14. HasSource(w)'
  BY <1>1, <1>2, <1>3, <1>8, <1>9, <1>11, <1>13 DEF HasSource
<1>15. lockedBy[survivor] = w => draft[survivor] # None
  BY <1>1, <1>4 DEF Hand
<1>16. lockedBy[book] = w => draft[book] # None
  BY <1>1, <1>3, BookInHand DEF View
<1>17. lockedBy'[survivor] = w => draft'[survivor] # None
  BY <1>9, <1>11, <1>15
<1>18. lockedBy'[i] = w \/ (lockedBy'[i] = None /\ disk'[i] = None)
  <2>1. CASE View(w, i) # None
    BY <1>9, <1>11, <2>1
  <2>2. CASE View(w, i) = None
    BY <1>1, <1>4, <1>5, <1>9, <1>10, <1>11, <1>15, <1>16, <2>2 DEF View
  <2> QED BY <2>1, <2>2
<1>19. at = "move" => \A j \in {book, survivor} : lockedBy'[j] = w \/ (lockedBy'[j] = None /\ disk'[j] = None)
  <2> SUFFICES ASSUME at = "move"
               PROVE  \A j \in {low, high} : lockedBy'[j] = w \/ (lockedBy'[j] = None /\ disk'[j] = None)
    BY <1>5
  <2>1. tx[w].at = "lockOther"
    BY <1>1, <1>7
  <2>2. lockedBy[low] = w \/ (lockedBy[low] = None /\ disk[low] = None)
    BY <1>1, <1>3, <1>4, <1>5, <2>1 DEF Hand, Gone
  <2>3. i = high
    BY <1>6, <2>1
  <2>4. low \notin rows
    BY <1>5, <1>9, <2>3
  <2> QED BY <1>1, <1>11, <1>18, <2>2, <2>3, <2>4
<1>20. at = "lockOther" => lockedBy'[low] = w \/ (lockedBy'[low] = None /\ disk'[low] = None)
  BY <1>1, <1>6, <1>7, <1>18
<1>21. Hand(w)'
  BY <1>5, <1>8, <1>13, <1>14, <1>17, <1>19, <1>20 DEF Hand, Gone
<1> QED BY <1>8, <1>11, <1>13, <1>21 DEF Stepped, Keeps

LEMMA MoveSteps ==
  ASSUME LoaderAssumption, RowsInv, WritersInv, NEW w \in Writers, Move(w)
  PROVE  Stepped(w)
<1> USE RowKinds
<1>1. tx[w].at = "move" /\ Blockers(w) = {} /\ Started(w) /\ HasSource(w) /\ Hand(w)
  BY DEF Move, At, WritersInv, Hand
<1>2. PICK sid \in Sids : sid = Record(w).sid
  BY <1>1, RecordIsClean
<1>3. PICK book \in Ids : book = tx[w].book
  BY <1>1, BookInHand
<1>4. PICK survivor \in Ids \ {book} : survivor = tx[w].survivor
  BY <1>1, <1>3 DEF Hand
<1>5. CASE Fails(w)
  BY <1>5, FailsSteps
<1>6. ASSUME View(w, survivor) # None, Write(w, Merged(w)), Same,
             tx' = [tx EXCEPT ![w].at = "upsert", ![w].book = survivor, ![w].survivor = None,
                              ![w].tally.merges = @ + 1]
      PROVE  Stepped(w)
  <2>1. lockedBy[survivor] = w /\ draft[survivor] # None
    BY <1>1, <1>3, <1>4, <1>6 DEF Hand, Gone, View
  <2>2. lockedBy[book] = w
    BY <1>1, <1>3, BookInHand DEF Hand, Gone, View
  <2>3. \A s \in SourcesOf(w, book) : lockedBy[s] \in {None, w}
    BY <1>1, <1>3, NobodyElseHolds DEF Touched
  <2>4. disk' = disk
    BY <1>6 DEF Same
  <2>5. /\ RowsInv'
        /\ \A s \in SourcesOf(w, book) : lockedBy'[s] = w /\ draft'[s] = [View(w, s) EXCEPT !.book = survivor]
        /\ lockedBy'[book] = w /\ draft'[book] = None
        /\ \A r \in Rows : r # book /\ r \notin SourcesOf(w, book) => draft'[r] = draft[r] /\ lockedBy'[r] = lockedBy[r]
    BY <1>3, <1>4, <1>6, <2>1, <2>2, <2>3, <2>4, MergeKeepsRows
  <2>6. Keeps(w) /\ tx'[w].at = "upsert" /\ tx'[w].book = survivor
    <3>1. PICK t \in Transactions : t = tx[w]
      BY DEF WritersInv
    <3>2. /\ tx'[w] = [t EXCEPT !.at = "upsert", !.book = survivor, !.survivor = None, !.tally.merges = @ + 1]
          /\ \A v \in Writers \ {w} : tx'[v] = tx[v]
      BY <1>6, <3>1 DEF WritersInv
    <3>3. PICK tally \in Tallies : tally = [t.tally EXCEPT !.merges = @ + 1]
      <4>1. PICK old \in Tallies : old = t.tally
        BY DEF Transactions
      <4>2. [old EXCEPT !.merges = @ + 1] \in Tallies
        BY DEF Tallies
      <4> QED BY <4>1, <4>2
    <3>4. [t EXCEPT !.at = "upsert", !.book = survivor, !.survivor = None, !.tally.merges = @ + 1]
            = [t EXCEPT !.at = "upsert", !.book = survivor, !.survivor = None, !.tally = tally]
      BY <3>3 DEF Transactions
    <3>5. [t EXCEPT !.at = "upsert", !.book = survivor, !.survivor = None, !.tally = tally] \in Transactions
      BY DEF Transactions, Statements
    <3>6. tx' \in [Writers -> Transactions]
      BY <1>6, <3>2, <3>4, <3>5 DEF WritersInv
    <3> QED BY <3>1, <3>2, <3>4, <3>6 DEF Transactions, Keeps
  <2>7. Others(w)
    <3>1. \A r \in DOMAIN Merged(w) : r \in Rows /\ lockedBy[r] \in {None, w}
      BY <1>3, <2>2, <2>3 DEF Merged, SourcesOf
    <3>2. \A i \in Ids : i \in DOMAIN Merged(w) => View(w, i) # None
      BY <1>1, <1>3, BookInHand DEF Merged, SourcesOf
    <3> HIDE DEF Merged
    <3> QED BY <1>6, <2>4, <2>6, <3>1, <3>2, WriteLeavesOthers DEF Keeps
  <2>8. Started(w)' /\ Record(w)' = Record(w)
    BY <1>1, <2>6, KeepsStarted
  <2>9. HasSource(w)'
    <3>1. sid \in SourcesOf(w, book) /\ View(w, sid) = draft[sid]
      BY <1>1, <1>2, <1>3, BookInHand DEF HasSource, SourcesOf
    <3>2. draft[sid] \in SourceRows
      BY <1>1, <1>2, <3>1, BookInHand DEF RowsInv, RowsTyped
    <3>3. [draft[sid] EXCEPT !.book = survivor].book = survivor
      BY <3>2 DEF SourceRows
    <3>4. lockedBy'[sid] = w /\ draft'[sid].book = survivor
      BY <2>5, <3>1, <3>3
    <3> QED BY <1>2, <2>6, <2>8, <3>4 DEF HasSource
  <2>10. Hand(w)'
    BY <2>6, <2>9 DEF Hand
  <2> QED BY <2>5, <2>6, <2>7, <2>8, <2>10 DEF Stepped, Keeps
<1> QED BY <1>3, <1>4, <1>5, <1>6 DEF Move

LEMMA UpsertSourceSteps ==
  ASSUME LoaderAssumption, RowsInv, WritersInv, NEW w \in Writers, UpsertSource(w)
  PROVE  Stepped(w)
<1> USE RowKinds
<1>1. tx[w].at = "upsert" /\ Blockers(w) = {} /\ Started(w) /\ Hand(w)
  BY DEF UpsertSource, At, WritersInv
<1>2. PICK sid \in Sids : sid = Record(w).sid
  BY <1>1, RecordIsClean
<1>3. PICK book \in Ids : book = tx[w].book
  BY <1>1 DEF Hand
<1>4. CASE Fails(w)
  BY <1>4, FailsSteps
<1>5. ASSUME NEW row, row = [book |-> book, record |-> Record(w)], View(w, book) # None,
             Write(w, [r \in Touched(w) |-> IF r = sid THEN row ELSE View(w, r)]), Goto(w, "replay"), Same
      PROVE  Stepped(w)
  <2>1. row \in SourceRows /\ row.book = book
    BY <1>1, <1>5, RecordIsClean DEF SourceRows
  <2>2. Touched(w) = {sid} \cup IF Refers(w) THEN {} ELSE {book}
    BY <1>1, <1>2, <1>3 DEF Touched
  <2>3. \A r \in Touched(w) : lockedBy[r] \in {None, w}
    BY <1>1, NobodyElseHolds
  <2>4. Keeps(w) /\ tx'[w].at = "replay" /\ tx'[w].book = book /\ disk' = disk
    BY <1>3, <1>5, GoingOn DEF Statements, Goto, Same
  <2> DEFINE new == [r \in Touched(w) |-> IF r = sid THEN row ELSE View(w, r)]
  <2>5. Write(w, new) /\ DOMAIN new = Touched(w) /\ new[sid] = row /\ (book \in Touched(w) => new[book] = View(w, book))
    BY <1>5, <2>2
  <2>6. /\ \A r \in DOMAIN new : r \in Rows /\ lockedBy[r] \in {None, w}
        /\ \A i \in Ids : i \in DOMAIN new => i = book
        /\ \A s \in Sids : s \in DOMAIN new => s = sid
    BY <2>2, <2>3, <2>5
  <2> HIDE DEF new
  <2>7. View(w, book) \in BookRows
    BY <1>5, ViewIsTyped
  <2>8. \/ book \in DOMAIN new
        \/ lockedBy[book] = w /\ draft[book] # None
        \/ lockedBy[book] # w /\ disk[sid] # None /\ disk[sid].book = book
    <3>1. CASE Refers(w)
      <4>1. View(w, sid) # None /\ View(w, sid).book = book /\ lockedBy[sid] \in {None, w}
        BY <1>2, <1>3, <2>2, <2>3, <3>1 DEF Refers
      <4> QED BY <4>1, SourceHasItsBook
    <3>2. CASE ~Refers(w)
      BY <2>2, <2>5, <3>2
    <3> QED BY <3>1, <3>2
  <2>9. RowsInv'
    <3>1. \A i \in Ids : i \in DOMAIN new => new[i] \in BookRows
      BY <2>5, <2>6, <2>7
    <3>2. \A s \in Sids : s \in DOMAIN new =>
            /\ new[s] \in SourceRows
            /\ \/ new[s].book \in DOMAIN new
               \/ lockedBy[new[s].book] = w /\ draft[new[s].book] # None
               \/ lockedBy[new[s].book] # w /\ disk[s] # None /\ disk[s].book = new[s].book
      BY <2>1, <2>5, <2>6, <2>8
    <3> QED BY <2>4, <2>5, <2>6, <3>1, <3>2, WriteKeepsRows
  <2>10. Others(w)
    BY <1>5, <2>4, <2>5, <2>6, WriteLeavesOthers DEF Keeps
  <2>11. lockedBy'[sid] = w /\ draft'[sid] = row
    BY <2>2, <2>5 DEF Write
  <2>12. Started(w)' /\ Record(w)' = Record(w)
    BY <1>1, <2>4, KeepsStarted
  <2>13. Hand(w)'
    BY <1>2, <2>1, <2>4, <2>11, <2>12 DEF Hand, HasSource
  <2> QED BY <2>4, <2>9, <2>10, <2>12, <2>13 DEF Stepped, Keeps
<1> QED BY <1>2, <1>3, <1>4, <1>5 DEF UpsertSource

LEMMA ReplaySteps ==
  ASSUME LoaderAssumption, RowsInv, WritersInv, NEW w \in Writers, Replay(w)
  PROVE  Stepped(w)
<1> USE RowKinds
<1>1. /\ tx[w].at = "replay" /\ Started(w) /\ HasSource(w)
      /\ disk' = disk /\ draft' = draft /\ lockedBy' = lockedBy
  BY DEF Replay, At, WritersInv, Hand, Reads, Same
<1>2. PICK row \in BookRows : row = View(w, tx[w].book)
  BY <1>1, BookInHand
<1>3. PICK saw \in SUBSET CleanBooks : saw = Evidence(w)
  <2>1. \A s \in SourcesOf(w, tx[w].book) : View(w, s) \in SourceRows
    BY ViewIsTyped DEF SourcesOf
  <2> QED BY <2>1 DEF Evidence, SourceRows
<1>4. PICK had \in SUBSET CleanBooks, key \in Keys : had = row.content /\ key = row.identity_key
  BY DEF BookRows
<1>5. tx' = [tx EXCEPT ![w].at = "write", ![w].saw = saw, ![w].had = had, ![w].key = key]
  BY <1>2, <1>3, <1>4 DEF Replay
<1>6. Keeps(w) /\ tx'[w].at = "write" /\ tx'[w].book = tx[w].book
  <2>1. PICK t \in Transactions : t = tx[w]
    BY DEF WritersInv
  <2>2. /\ tx'[w] = [t EXCEPT !.at = "write", !.saw = saw, !.had = had, !.key = key]
        /\ \A v \in Writers \ {w} : tx'[v] = tx[v]
    BY <1>5, <2>1 DEF WritersInv
  <2>3. [t EXCEPT !.at = "write", !.saw = saw, !.had = had, !.key = key] \in Transactions
    BY DEF Transactions, Statements
  <2>4. tx' \in [Writers -> Transactions]
    BY <1>5, <2>2, <2>3 DEF WritersInv
  <2> QED BY <2>1, <2>2, <2>4 DEF Transactions, Keeps
<1>7. RowsInv' /\ Others(w)
  BY <1>1, <1>6, ReadKeepsRows, ReadLeavesOthers DEF Keeps
<1>8. Started(w)' /\ Record(w)' = Record(w)
  BY <1>1, <1>6, KeepsStarted
<1>9. Hand(w)'
  BY <1>1, <1>6, <1>8 DEF Hand, HasSource
<1> QED BY <1>6, <1>7, <1>8, <1>9 DEF Stepped, Keeps

\* The next record of the batch, or the end of it.
LEMMA GoingOnwards ==
  ASSUME WritersInv, NEW w \in Writers, tx[w].at = "write", NEW tally \in Tallies, Onwards(w, tally)
  PROVE  /\ tx' \in [Writers -> Transactions] /\ \A v \in Writers \ {w} : tx'[v] = tx[v]
         /\ tx'[w].at = (IF Len(tx[w].left) = 1 THEN "commit" ELSE "source")
         /\ tx'[w].batch = tx[w].batch /\ tx'[w].left = Tail(tx[w].left) /\ tx'[w].tally = tally
         /\ Started(w)' /\ Hand(w)'
<1>1. PICK t \in Transactions : t = tx[w]
  BY DEF WritersInv
<1>2. Started(w) /\ t.left \in Seq(CleanBooks) /\ t.left # <<>> /\ t.batch # <<>> /\ Tail(t.left) \in Seq(CleanBooks)
  <2>1. Started(w) /\ t.left \in Seq(CleanBooks)
    BY <1>1 DEF WritersInv, Transactions
  <2> QED BY <1>1, <2>1, HeadTailProperties DEF Started
<1>3. Tail(t.left) = <<>> <=> Len(t.left) = 1
  <2>1. Len(Tail(t.left)) = Len(t.left) - 1 /\ Len(t.left) \in Nat
    BY <1>2, HeadTailProperties
  <2>2. \A some \in Seq(CleanBooks) : some = <<>> <=> Len(some) = 0
    BY EmptySeq
  <2>3. PICK tail \in Seq(CleanBooks) : tail = Tail(t.left)
    BY <1>2
  <2>4. tail = <<>> <=> Len(tail) = 0
    BY <2>2
  <2> QED BY <2>1, <2>3, <2>4
<1>4. PICK at \in {"commit", "source"} : at = IF Len(t.left) = 1 THEN "commit" ELSE "source"
  OBVIOUS
<1>5. PICK left \in Seq(CleanBooks) : left = Tail(t.left)
  BY <1>2
<1>6. /\ tx' = [tx EXCEPT ![w].at = at, ![w].left = left, ![w].book = None, ![w].saw = {}, ![w].had = {},
                          ![w].key = NoIsbn, ![w].tally = tally]
  BY <1>1, <1>4, <1>5 DEF Onwards, WritersInv
<1>7. /\ tx'[w] = [t EXCEPT !.at = at, !.left = left, !.book = None, !.saw = {}, !.had = {}, !.key = NoIsbn, !.tally = tally]
      /\ \A v \in Writers \ {w} : tx'[v] = tx[v]
  BY <1>1, <1>6 DEF WritersInv
<1>8. [t EXCEPT !.at = at, !.left = left, !.book = None, !.saw = {}, !.had = {}, !.key = NoIsbn, !.tally = tally] \in Transactions
  BY DEF Transactions, Statements
<1>9. tx' \in [Writers -> Transactions]
  BY <1>6, <1>7, <1>8 DEF WritersInv
<1>10. tx'[w].at = at /\ tx'[w].left = left /\ tx'[w].batch = t.batch /\ tx'[w].tally = tally
  BY <1>7 DEF Transactions
<1>11. Started(w)'
  BY <1>2, <1>3, <1>4, <1>5, <1>10 DEF Started
<1>12. Hand(w)'
  BY <1>10 DEF Hand
<1> QED BY <1>1, <1>4, <1>5, <1>7, <1>9, <1>10, <1>11, <1>12

LEMMA CountedIsTyped ==
  ASSUME WritersInv, NEW w \in Writers, NEW name \in {"updated", "unchanged"}
  PROVE  tx[w].tally \in Tallies /\ Counted(w, name) \in Tallies
<1>1. PICK tally \in Tallies : tally = tx[w].tally
  BY DEF WritersInv, Transactions
<1>2. [tally EXCEPT ![name] = @ + 1] \in Tallies
  BY DEF Tallies
<1> QED BY <1>1, <1>2 DEF Counted

LEMMA RecomputeSteps ==
  ASSUME LoaderAssumption, RowsInv, WritersInv, NEW w \in Writers, Recompute(w)
  PROVE  Stepped(w)
<1> USE RowKinds
<1>1. tx[w].at = "write" /\ Blockers(w) = {} /\ Started(w) /\ HasSource(w)
  BY DEF Recompute, At, WritersInv, Hand
<1>2. PICK book \in Ids : book = tx[w].book /\ View(w, book) # None /\ View(w, book) \in BookRows
  BY <1>1, BookInHand
<1>3. CASE Fails(w)
  BY <1>3, FailsSteps
<1>4. ASSUME Onwards(w, Counted(w, "unchanged")), Reads
      PROVE  Stepped(w)
  <2>1. disk' = disk /\ draft' = draft /\ lockedBy' = lockedBy
    BY <1>4 DEF Reads, Same
  <2>2. tx' \in [Writers -> Transactions] /\ (\A v \in Writers \ {w} : tx'[v] = tx[v]) /\ Started(w)' /\ Hand(w)'
    BY <1>1, <1>4, GoingOnwards, CountedIsTyped
  <2> QED BY <2>1, <2>2, ReadKeepsRows, ReadLeavesOthers DEF Stepped
<1>5. ASSUME tx[w].saw # tx[w].had, WriteBook(w, book, Recomputed(w)), Same,
             NEW tally \in Tallies, Onwards(w, tally)
      PROVE  Stepped(w)
  <2>1. tx' \in [Writers -> Transactions] /\ (\A v \in Writers \ {w} : tx'[v] = tx[v]) /\ Started(w)' /\ Hand(w)'
    BY <1>1, <1>5, GoingOnwards
  <2>2. lockedBy[book] \in {None, w} /\ disk' = disk
    BY <1>1, <1>2, <1>5, NobodyElseHolds DEF Touched, Same
  <2>3. PICK row : row = Recomputed(w)
    OBVIOUS
  <2>4. row \in BookRows
    <3>1. PICK was \in BookRows : was = View(w, book)
      BY <1>2
    <3>2. tx[w].saw \in SUBSET CleanBooks /\ AgreedIsbn(tx[w].key) \in Isbns \cup {NoIsbn}
      BY DEF WritersInv, Transactions, AgreedIsbn
    <3>3. row = [was EXCEPT !.content = tx[w].saw, !.isbn13 = AgreedIsbn(tx[w].key)]
      BY <1>2, <2>3, <3>1 DEF Recomputed
    <3> QED BY <3>2, <3>3 DEF BookRows
  <2> DEFINE new == [b \in {book} |-> row]
  <2>5. Write(w, new) /\ DOMAIN new = {book} /\ new[book] = row
    BY <1>5, <2>3 DEF WriteBook
  <2> HIDE DEF new
  <2>6. RowsInv'
    BY <2>2, <2>4, <2>5, WriteKeepsRows
  <2>7. Others(w)
    BY <1>2, <2>1, <2>2, <2>5, WriteLeavesOthers
  <2> QED BY <2>1, <2>6, <2>7 DEF Stepped
<1>6. PICK tally \in Tallies : tally = IF tx[w].had = {} THEN tx[w].tally ELSE Counted(w, "updated")
  BY CountedIsTyped
<1> QED BY <1>2, <1>3, <1>4, <1>5, <1>6 DEF Recompute

LEMMA CommitBatchSteps ==
  ASSUME LoaderAssumption, RowsInv, WritersInv, NEW w \in Writers, CommitBatch(w)
  PROVE  Stepped(w) /\ \A s \in Sids : disk[s] # None => disk'[s] # None
<1> USE RowKinds
<1>1. RowsInv' /\ \A s \in Sids : disk[s] # None => disk'[s] # None
  BY CommitKeepsRows DEF CommitBatch
<1>2. tx' \in [Writers -> Transactions] /\ tx'[w] = Idle /\ \A v \in Writers \ {w} : tx'[v] = tx[v]
  BY IdleIsTyped DEF CommitBatch, WritersInv
<1>3. \A r \in Rows : /\ lockedBy[r] = w => disk'[r] = draft[r] /\ lockedBy'[r] = None
                      /\ lockedBy[r] # w => disk'[r] = disk[r] /\ lockedBy'[r] = lockedBy[r]
  BY DEF CommitBatch
<1>4. Others(w)
  BY <1>2, <1>3 DEF Others, Gone, CommitBatch
<1>5. Started(w)'
  BY <1>2, <1>3, IdleIsTyped DEF Started
<1>6. Hand(w)'
  BY <1>2, IdleIsTyped DEF Hand
<1> QED BY <1>1, <1>2, <1>4, <1>5, <1>6 DEF Stepped

\* A writer that waits has a record in hand.
LEMMA VictimSteps ==
  ASSUME LoaderAssumption, RowsInv, WritersInv, NEW w \in Writers, Victim(w)
  PROVE  Stepped(w)
<1>1. tx[w].at \notin {"idle", "commit"}
  <2>1. PICK circle \in SUBSET Writers : w \in circle /\ Blockers(w) \cap circle # {}
    BY DEF Victim, Deadlocked
  <2>2. Touched(w) # {}
    BY <2>1 DEF Blockers
  <2>3. tx[w].at \in {"idle", "commit"} => Touched(w) = {}
    BY DEF Touched
  <2> QED BY <2>2, <2>3
<1>2. PICK t \in Transactions : t = tx[w] /\ t.batch \in Seq(CleanBooks) /\ t.batch # <<>>
  BY <1>1 DEF WritersInv, Started, Transactions
<1>3. AttemptedAnew(w) \in Transactions /\ AttemptedAnew(w).at = "source" /\ AttemptedAnew(w).left = t.batch
      /\ AttemptedAnew(w).batch = t.batch
  <2>1. PICK idle \in Transactions : idle = Idle
    BY IdleIsTyped
  <2>2. AttemptedAnew(w) = [idle EXCEPT !.at = "source", !.batch = t.batch, !.left = t.batch, !.retries = t.retries + 1]
    BY <1>2, <2>1 DEF AttemptedAnew
  <2>3. t.retries + 1 \in Nat
    BY DEF Transactions
  <2> QED BY <1>2, <2>2, <2>3 DEF Transactions, Statements
<1>4. PICK next \in Transactions :
        /\ next # Idle => next.at = "source" /\ next.left # <<>> /\ next.batch # <<>>
        /\ tx' = [tx EXCEPT ![w] = next]
  <2>1. tx' = [tx EXCEPT ![w] = IF tx[w].retries < DEADLOCK_RETRIES THEN AttemptedAnew(w) ELSE Idle]
    BY DEF Victim
  <2> HIDE DEF AttemptedAnew, Idle
  <2> QED BY <1>2, <1>3, <2>1, IdleIsTyped
<1>5. tx' \in [Writers -> Transactions] /\ tx'[w] = next /\ \A v \in Writers \ {w} : tx'[v] = tx[v]
  BY <1>4 DEF WritersInv
<1>6. RolledBack(w) /\ disk' = disk
  BY DEF Victim, Same
<1> QED BY <1>4, <1>5, <1>6, RollBackSteps

LEMMA BeginBatchSteps ==
  ASSUME LoaderAssumption, RowsInv, WritersInv, NEW w \in Writers, BeginBatch(w)
  PROVE  Stepped(w) /\ disk' = disk
<1>1. disk' = disk /\ draft' = draft /\ lockedBy' = lockedBy
  BY DEF BeginBatch
<1>2. PICK batch \in Batches : tx' = [tx EXCEPT ![w].at = "source", ![w].batch = batch, ![w].left = batch]
  BY DEF BeginBatch
<1>3. batch \in Seq(CleanBooks) /\ batch # <<>>
  <2>1. PICK n \in 1..MaxLength : batch \in [1..n -> CleanBooks]
    BY DEF Batches
  <2>2. n \in Nat \ {0} /\ batch \in Seq(CleanBooks) /\ Len(batch) = n
    BY <2>1 DEF LoaderAssumption
  <2> QED BY <2>2
<1>4. PICK t \in Transactions : t = tx[w]
  BY DEF WritersInv
<1>5. /\ tx'[w] = [t EXCEPT !.at = "source", !.batch = batch, !.left = batch]
      /\ \A v \in Writers \ {w} : tx'[v] = tx[v]
  BY <1>2, <1>4 DEF WritersInv
<1>6. [t EXCEPT !.at = "source", !.batch = batch, !.left = batch] \in Transactions
  BY <1>3 DEF Transactions, Statements
<1>7. tx' \in [Writers -> Transactions]
  BY <1>2, <1>5, <1>6 DEF WritersInv
<1>8. tx'[w].at = "source" /\ tx'[w].batch = batch /\ tx'[w].left = batch
  BY <1>5 DEF Transactions
<1>9. Started(w)' /\ Hand(w)'
  BY <1>3, <1>8 DEF Started, Hand
<1>10. RowsInv' /\ Others(w)
  BY <1>1, <1>5, ReadKeepsRows, ReadLeavesOthers
<1> QED BY <1>1, <1>7, <1>9, <1>10 DEF Stepped

(***************************************************************************)
(* Every step, and what follows for the rows                               *)
(***************************************************************************)

LoaderInv == RowsInv /\ WritersInv

\* What a step of one writer does is what that writer and the others may count on.
LEMMA SteppedKeepsInv ==
  ASSUME LoaderAssumption, LoaderInv, NEW w \in Writers, Stepped(w)
  PROVE  LoaderInv'
<1>1. \A v \in Writers : Started(v)' /\ Hand(v)'
  BY OthersKeepHand DEF LoaderInv, Stepped
<1> QED BY <1>1 DEF LoaderInv, Stepped, WritersInv

LEMMA LoaderSteps ==
  ASSUME LoaderAssumption, LoaderInv, NEW w \in Writers, BeginBatch(w) \/ Advance(w) \/ Crash(w)
  PROVE  Stepped(w) /\ \A s \in Sids : disk[s] # None => disk'[s] # None
<1> USE DEF LoaderInv
<1>1. CASE BeginBatch(w)
  BY <1>1, BeginBatchSteps
<1>2. CASE CommitBatch(w)
  BY <1>2, CommitBatchSteps
<1>3. CASE Advance(w) /\ ~CommitBatch(w)
  <2>1. disk' = disk
    BY <1>3 DEF Advance, LockSource, Find, Insert, Adopt, Reconcile, Promote, Lock, Move, UpsertSource, Replay,
                Recompute, Victim, Fails, Reads, Same
  <2>2. Stepped(w)
    BY <1>3, LockSourceSteps, FindSteps, InsertSteps, AdoptSteps, ReconcileSteps, PromoteSteps, LockSteps, MoveSteps,
       UpsertSourceSteps, ReplaySteps, RecomputeSteps, VictimSteps DEF Advance
  <2> QED BY <2>1, <2>2
<1>4. CASE Crash(w)
  BY <1>4, FailsSteps DEF Crash, Fails, Same
<1> QED BY <1>1, <1>2, <1>3, <1>4

LEMMA InitLoaderInv ==
  ASSUME LoaderAssumption, LoaderInit
  PROVE  LoaderInv
<1> USE RowKinds
<1>1. RowsInv
  BY DEF LoaderInit, RowsInv, RowsTyped, SourcesHaveBooks, HeldSourcesHaveBooks, DeletedHoldSources
<1>2. \A w \in Writers : tx[w] = Idle
  BY DEF LoaderInit
<1>3. tx \in [Writers -> Transactions]
  BY IdleIsTyped DEF LoaderInit
<1>4. \A w \in Writers : Started(w) /\ Hand(w)
  BY <1>2, IdleIsTyped DEF Started, Hand, LoaderInit
<1> QED BY <1>1, <1>3, <1>4 DEF LoaderInv, WritersInv

LEMMA NextKeepsLoaderInv ==
  ASSUME LoaderAssumption, LoaderInv, [LoaderNext]_loaderVars
  PROVE  /\ LoaderInv'
         /\ \A s \in Sids : disk[s] # None => disk'[s] # None
<1>1. CASE LoaderNext
  BY <1>1, LoaderSteps, SteppedKeepsInv DEF LoaderNext
<1>2. CASE UNCHANGED loaderVars
  <2>1. RowsInv'
    BY <1>2, ReadKeepsRows DEF loaderVars, LoaderInv
  <2>2. WritersInv'
    BY <1>2 DEF loaderVars, LoaderInv, WritersInv, Started, Hand, HasSource, Gone, Record
  <2> QED BY <1>2, <2>1, <2>2 DEF LoaderInv, loaderVars
<1> QED BY <1>1, <1>2

(***************************************************************************)
(* The theorems                                                            *)
(***************************************************************************)

\* What the loader counts on holds in every state, whatever the records, the
\* writers and their batches.
THEOREM LoaderInvariant ==
  ASSUME LoaderAssumption
  PROVE  LoaderSpec => []LoaderInv
<1>1. LoaderInit => LoaderInv
  BY InitLoaderInv
<1>2. LoaderInv /\ [LoaderNext]_loaderVars => LoaderInv'
  BY NextKeepsLoaderInv
<1> QED BY <1>1, <1>2, PTL DEF LoaderSpec

\* No step of any writer loses a stored observation: a merge by one, a retry of
\* another and a process that dies between two statements included.
THEOREM ProvenanceKept ==
  ASSUME LoaderAssumption
  PROVE  LoaderSpec => NoProvenanceLost
<1>1. LoaderInv /\ [LoaderNext]_loaderVars =>
        [\A s \in DOMAIN disk \ Ids : disk[s] # None => disk'[s] # None]_loaderVars
  <2> SUFFICES ASSUME LoaderInv, [LoaderNext]_loaderVars
               PROVE  \A s \in DOMAIN disk \ Ids : disk[s] # None => disk'[s] # None
    OBVIOUS
  <2>1. DOMAIN disk \ Ids \subseteq Sids
    BY RowKinds DEF LoaderInv, RowsInv, RowsTyped
  <2> QED BY <2>1, NextKeepsLoaderInv
<1> QED BY <1>1, LoaderInvariant, PTL DEF LoaderSpec, NoProvenanceLost

\* A committed observation has its book, even while its source is loaded by two
\* writers at once.
THEOREM SourcesKeepTheirBooks ==
  ASSUME LoaderAssumption
  PROVE  LoaderSpec => []SourcesHaveBooks
<1>1. LoaderInv => SourcesHaveBooks
  BY DEF LoaderInv, RowsInv
<1> QED BY <1>1, LoaderInvariant, PTL

(***************************************************************************)
(* The figures                                                             *)
(***************************************************************************)

\* Books that w would add to those committed, and those it would delete.
Born(w) == {i \in Ids : lockedBy[i] = w /\ disk[i] = None /\ draft[i] # None}
Died(w) == {i \in Ids : lockedBy[i] = w /\ disk[i] # None /\ draft[i] = None}

\* Records of the batch that are done, and those that the tally counts.
Done(w) == Len(tx[w].batch) - Len(tx[w].left)
Tallied(w) == tx[w].tally.inserted + tx[w].tally.updated + tx[w].tally.unchanged

\* The book in hand is one that w created, and the tally counts its record.
Stubbed(w) == Tallied(w) = Done(w) + 1

\* A stub, which has no content, is the book in hand of the writer that holds it.
FiguresOf(w) ==
  /\ tx[w].tally.inserted - tx[w].tally.merges = Cardinality(Born(w)) - Cardinality(Died(w))
  /\ Tallied(w) \in {Done(w), Done(w) + 1}
  /\ Stubbed(w) => /\ tx[w].at \in {"upsert", "replay", "write"}
                   /\ lockedBy[tx[w].book] = w /\ draft[tx[w].book] # None
                   /\ tx[w].at \in {"upsert", "replay"} => draft[tx[w].book].content = {}
  /\ tx[w].at = "write" => tx[w].saw # {} /\ (tx[w].had = {} <=> Stubbed(w))
  /\ \A i \in Ids : lockedBy[i] = w /\ draft[i] # None /\ draft[i].content = {} =>
       Stubbed(w) /\ tx[w].book = i

Committed == {i \in Ids : disk[i] # None}
TotalsInv ==
  /\ total \in Tallies /\ loaded \in Nat
  /\ total.inserted - total.merges = Cardinality(Committed)
  /\ total.inserted + total.updated + total.unchanged = loaded
  /\ \A i \in Committed : disk[i].content # {}

FiguresInv == TotalsInv /\ \A w \in Writers : FiguresOf(w)

\* The books but one are there or not as before, with the content they had.
BooksKeptBut(w, but) ==
  \A i \in Ids \ {but} :
    \/ lockedBy'[i] # w /\ lockedBy[i] # w
    \/ /\ lockedBy'[i] = w /\ lockedBy[i] = w /\ (draft'[i] = None <=> draft[i] = None)
       /\ draft[i] # None => draft'[i].content = draft[i].content
    \/ /\ lockedBy'[i] = w /\ lockedBy[i] = None /\ disk[i] # None /\ draft'[i] # None
       /\ draft'[i].content = disk[i].content

LEMMA WriteKeepsBooks ==
  ASSUME LoaderAssumption, RowsInv, NEW w \in Writers, NEW new, Write(w, new), NEW but,
         \A r \in DOMAIN new : lockedBy[r] \in {None, w},
         \A i \in Ids \ {but} : i \in DOMAIN new => View(w, i) # None /\ new[i] # None /\ new[i].content = View(w, i).content
  PROVE  BooksKeptBut(w, but)
<1> USE RowKinds
<1>1. \A r \in Rows : /\ r \in DOMAIN new => draft'[r] = new[r] /\ lockedBy'[r] = w
                      /\ r \notin DOMAIN new => draft'[r] = draft[r] /\ lockedBy'[r] = lockedBy[r]
  BY DEF Write
<1>2. ASSUME NEW i \in Ids \ {but}, i \in DOMAIN new
      PROVE  /\ lockedBy'[i] = w /\ draft'[i] # None
             /\ \/ lockedBy[i] = w /\ draft[i] # None /\ draft'[i].content = draft[i].content
                \/ lockedBy[i] = None /\ disk[i] # None /\ draft'[i].content = disk[i].content
  BY <1>1, <1>2 DEF View
<1> QED BY <1>1, <1>2 DEF BooksKeptBut

LEMMA TakeKeepsBooks ==
  ASSUME LoaderAssumption, RowsInv, NEW w \in Writers, NEW rows \in SUBSET Rows, Take(w, rows),
         \A r \in rows : lockedBy[r] \in {None, w} /\ View(w, r) # None
  PROVE  BooksKeptBut(w, None)
<1> DEFINE new == [r \in rows |-> View(w, r)]
<1>1. Write(w, new) /\ DOMAIN new = rows /\ \A r \in rows : new[r] = View(w, r)
  BY DEF Take
<1> HIDE DEF new
<1> QED BY <1>1, WriteKeepsBooks

LEMMA ReadKeepsBooks ==
  ASSUME NEW w \in Writers, draft' = draft, lockedBy' = lockedBy
  PROVE  BooksKeptBut(w, None)
BY DEF BooksKeptBut

\* The figures of a writer are numbers.
LEMMA FiguresAreNumbers ==
  ASSUME LoaderAssumption, WritersInv, NEW w \in Writers
  PROVE  /\ IsFiniteSet(Born(w)) /\ IsFiniteSet(Died(w)) /\ IsFiniteSet(Committed)
         /\ Cardinality(Born(w)) \in Nat /\ Cardinality(Died(w)) \in Nat
         /\ Done(w) \in Int /\ Tallied(w) \in Nat
         /\ tx[w].tally.inserted \in Nat /\ tx[w].tally.merges \in Nat
<1>1. IsFiniteSet(Born(w)) /\ IsFiniteSet(Died(w)) /\ IsFiniteSet(Committed)
  <2>1. IsFiniteSet(Ids) /\ Born(w) \subseteq Ids /\ Died(w) \subseteq Ids /\ Committed \subseteq Ids
    BY DEF LoaderAssumption, Born, Died, Committed
  <2> QED BY <2>1, FS_Subset
<1>2. PICK t \in Transactions : t = tx[w]
  BY DEF WritersInv
<1>3. Len(t.batch) \in Nat /\ Len(t.left) \in Nat /\ t.tally \in Tallies
  BY DEF Transactions
<1>4. t.tally.inserted \in Nat /\ t.tally.updated \in Nat /\ t.tally.unchanged \in Nat /\ t.tally.merges \in Nat
  BY <1>3 DEF Tallies
<1>5. Cardinality(Born(w)) \in Nat /\ Cardinality(Died(w)) \in Nat
  BY <1>1, FS_CardinalityType
<1>6. Done(w) \in Int /\ Tallied(w) \in Nat
  <2>1. Done(w) = Len(t.batch) - Len(t.left)
    BY <1>2 DEF Done
  <2>2. Tallied(w) = t.tally.inserted + t.tally.updated + t.tally.unchanged
    BY <1>2 DEF Tallied
  <2>3. Len(t.batch) - Len(t.left) \in Int
    BY <1>3
  <2>4. t.tally.inserted + t.tally.updated + t.tally.unchanged \in Nat
    BY <1>4
  <2> QED BY <2>1, <2>2, <2>3, <2>4
<1> QED BY <1>1, <1>2, <1>4, <1>5, <1>6

\* A statement that keeps the books, from one with no stub in hand.
LEMMA NothingToCount ==
  ASSUME LoaderAssumption, RowsInv, WritersInv, FiguresInv, NEW w \in Writers, BooksKeptBut(w, None), Keeps(w),
         disk' = disk, tx'[w].tally = tx[w].tally, tx[w].at \notin {"upsert", "replay", "write"}, tx'[w].at # "write"
  PROVE  FiguresOf(w)'
<1> USE RowKinds
<1>1. ~Stubbed(w) /\ FiguresOf(w) /\ Tallied(w) = Done(w) /\ Done(w) \in Int
  BY FiguresAreNumbers DEF FiguresInv, FiguresOf, Stubbed
<1>2. Tallied(w)' = Tallied(w) /\ Done(w)' = Done(w)
  BY DEF Keeps, Tallied, Done
<1>3. ~Stubbed(w)' /\ Tallied(w)' \in {Done(w)', Done(w)' + 1}
  BY <1>1, <1>2 DEF Stubbed
<1>4. Born(w)' = Born(w) /\ Died(w)' = Died(w)
  BY DEF Born, Died, BooksKeptBut, RowsInv, RowsTyped
<1>5. ASSUME NEW i \in Ids, lockedBy'[i] = w, draft'[i] # None
      PROVE  draft'[i].content # {}
  <2>1. i # None
    OBVIOUS
  <2>2. CASE lockedBy[i] = w
    BY <1>1, <1>5, <2>1, <2>2 DEF BooksKeptBut, FiguresOf
  <2>3. CASE lockedBy[i] # w
    BY <1>5, <2>1, <2>3 DEF BooksKeptBut, FiguresInv, TotalsInv, Committed
  <2> QED BY <2>2, <2>3
<1>6. tx'[w].tally.inserted - tx'[w].tally.merges = Cardinality(Born(w))' - Cardinality(Died(w))'
  BY <1>1, <1>4 DEF FiguresOf
<1> HIDE DEF Stubbed, Born, Died, Tallied, Done
<1> QED BY <1>3, <1>5, <1>6 DEF FiguresOf

\* The writers that do not move keep their figures.
LEMMA OthersKeepFigures ==
  ASSUME LoaderAssumption, WritersInv, RowsInv, NEW w \in Writers, Others(w), NEW v \in Writers, v # w, FiguresOf(v),
         \A r \in Rows : lockedBy[r] # w => disk'[r] = disk[r]
  PROVE  FiguresOf(v)'
<1> USE RowKinds
<1>1. tx'[v] = tx[v]
  BY DEF Others
<1>2. \A i \in Ids : /\ lockedBy'[i] = v <=> lockedBy[i] = v
                     /\ lockedBy[i] = v => draft'[i] = draft[i] /\ disk'[i] = disk[i]
  BY DEF Others
<1>3. Born(v)' = Born(v) /\ Died(v)' = Died(v)
  BY <1>2 DEF Born, Died
<1>4. Tallied(v)' = Tallied(v) /\ Done(v)' = Done(v) /\ (Stubbed(v)' <=> Stubbed(v))
  BY <1>1 DEF Tallied, Done, Stubbed
<1>5. Stubbed(v) => tx[v].book \in Ids
  <2> SUFFICES ASSUME Stubbed(v) PROVE tx[v].book \in Ids
    OBVIOUS
  <2>1. Hand(v) /\ tx[v].at \in {"upsert", "replay", "write"}
    BY DEF FiguresOf, WritersInv
  <2> QED BY <2>1, BookInHand DEF Hand
<1> HIDE DEF Stubbed, Born, Died, Tallied, Done
<1> QED BY <1>1, <1>2, <1>3, <1>4, <1>5 DEF FiguresOf

\* A book that w creates is counted with its record.
LEMMA InsertCounts ==
  ASSUME LoaderAssumption, LoaderInv, FiguresInv, NEW w \in Writers, Insert(w),
         Keyed(w, identity_key(Record(w))) = {}
  PROVE  FiguresOf(w)'
<1> USE RowKinds DEF LoaderInv
<1>1. tx[w].at = "insert" /\ disk' = disk /\ FiguresOf(w)
  BY DEF Insert, At, Same, FiguresInv
<1>2. ASSUME Fresh # {}, NEW stub, stub = [identity_key |-> identity_key(Record(w)), isbn13 |-> Record(w).isbn13, content |-> {}],
             WriteBook(w, Min(Fresh), stub),
             tx' = [tx EXCEPT ![w].at = "upsert", ![w].book = Min(Fresh), ![w].tally.inserted = @ + 1]
      PROVE  FiguresOf(w)'
  <2>1. Fresh \subseteq Nat /\ Fresh \subseteq Ids
    BY DEF Fresh
  <2>2. PICK i \in Fresh : i = Min(Fresh)
    BY <1>2, <2>1, MinIsFirst
  <2>3. i \in Ids /\ lockedBy[i] = None /\ disk[i] = None
    BY <2>1 DEF Fresh
  <2>4. stub \in BookRows /\ stub # None /\ stub.content = {}
    BY <1>1, <1>2, RecordIsClean DEF BookRows, identity_key, Keys, Isbns
  <2>5. PICK t \in Transactions : t = tx[w]
    BY DEF WritersInv
  <2>6. PICK tally \in Tallies : tally = t.tally
    BY DEF Transactions
  <2>7. /\ tx'[w].at = "upsert" /\ tx'[w].book = i /\ tx'[w].left = t.left /\ tx'[w].batch = t.batch
        /\ tx'[w].tally = [tally EXCEPT !.inserted = @ + 1]
    <3>1. tx'[w] = [t EXCEPT !.at = "upsert", !.book = i, !.tally.inserted = @ + 1]
      BY <1>2, <2>2, <2>5 DEF WritersInv
    <3> QED BY <2>6, <3>1 DEF Transactions
  <2>8. /\ tx'[w].tally.inserted = tally.inserted + 1 /\ tx'[w].tally.merges = tally.merges
        /\ tx'[w].tally.updated = tally.updated /\ tx'[w].tally.unchanged = tally.unchanged
        /\ {tally.inserted, tally.updated, tally.unchanged, tally.merges} \subseteq Nat
    BY <2>7 DEF Tallies
  <2>9. Tallied(w) = Done(w) /\ Done(w) \in Int /\ ~Stubbed(w)
    BY <1>1, FiguresAreNumbers DEF FiguresOf, Stubbed
  <2>10. Tallied(w)' = Done(w)' + 1
    <3>1. Done(w)' = Done(w)
      BY <2>5, <2>7 DEF Done
    <3>2. Tallied(w)' = Tallied(w) + 1
      BY <2>5, <2>6, <2>8 DEF Tallied
    <3> QED BY <2>9, <3>1, <3>2
  <2>11. BooksKeptBut(w, i) /\ lockedBy'[i] = w /\ draft'[i] = stub
    <3> DEFINE new == [b \in {i} |-> stub]
    <3>1. Write(w, new) /\ DOMAIN new = {i} /\ new[i] = stub
      BY <1>2, <2>2 DEF WriteBook
    <3> HIDE DEF new
    <3>2. BooksKeptBut(w, i)
      BY <2>3, <3>1, WriteKeepsBooks
    <3> QED BY <2>3, <3>1, <3>2 DEF Write
  <2>12. Born(w)' = Born(w) \cup {i} /\ i \notin Born(w) /\ Died(w)' = Died(w)
    BY <1>1, <2>3, <2>4, <2>11 DEF Born, Died, BooksKeptBut
  <2>13. Cardinality(Born(w)') = Cardinality(Born(w)) + 1
    BY <2>12, FiguresAreNumbers, FS_AddElement
  <2>14. tx'[w].tally.inserted - tx'[w].tally.merges = Cardinality(Born(w)') - Cardinality(Died(w)')
    <3>1. tally.inserted - tally.merges = Cardinality(Born(w)) - Cardinality(Died(w))
      BY <1>1, <2>5, <2>6 DEF FiguresOf
    <3> QED BY <2>8, <2>12, <2>13, <3>1, FiguresAreNumbers
  <2>15. ASSUME NEW j \in Ids \ {i}, lockedBy'[j] = w, draft'[j] # None
         PROVE  draft'[j].content # {}
    <3>1. CASE lockedBy[j] = w
      BY <1>1, <2>9, <2>11, <2>15, <3>1 DEF BooksKeptBut, FiguresOf
    <3>2. CASE lockedBy[j] # w
      BY <2>11, <2>15, <3>2 DEF BooksKeptBut, FiguresInv, TotalsInv, Committed
    <3> QED BY <3>1, <3>2
  <2> HIDE DEF Born, Died, Tallied, Done
  <2> QED BY <2>4, <2>7, <2>10, <2>11, <2>14, <2>15 DEF FiguresOf, Stubbed
<1> QED BY <1>2 DEF Insert

\* A book that w deletes is counted as merged.
LEMMA MoveCounts ==
  ASSUME LoaderAssumption, LoaderInv, FiguresInv, NEW w \in Writers, Move(w), ~Fails(w)
  PROVE  FiguresOf(w)'
<1> USE RowKinds DEF LoaderInv
<1>1. tx[w].at = "move" /\ Blockers(w) = {} /\ HasSource(w) /\ Hand(w) /\ FiguresOf(w)
  BY DEF Move, At, WritersInv, Hand, FiguresInv
<1>2. PICK book \in Ids : book = tx[w].book
  BY <1>1, BookInHand
<1>3. PICK survivor \in Ids \ {book} : survivor = tx[w].survivor
  BY <1>1, <1>2 DEF Hand
<1>4. /\ Write(w, Merged(w)) /\ disk' = disk
      /\ tx' = [tx EXCEPT ![w].at = "upsert", ![w].book = survivor, ![w].survivor = None, ![w].tally.merges = @ + 1]
  BY <1>2, <1>3 DEF Move, Same
<1>5. lockedBy[book] = w /\ draft[book] # None
  BY <1>1, <1>2, BookInHand DEF Hand, Gone, View
<1>6. \A s \in SourcesOf(w, book) : lockedBy[s] \in {None, w}
  BY <1>1, <1>2, NobodyElseHolds DEF Touched
<1>7. lockedBy'[book] = w /\ draft'[book] = None
  BY <1>2, <1>4 DEF Write, Merged
<1>8. BooksKeptBut(w, book)
  <2>1. \A r \in DOMAIN Merged(w) : lockedBy[r] \in {None, w}
    BY <1>2, <1>5, <1>6 DEF Merged
  <2>2. \A i \in Ids : i \in DOMAIN Merged(w) => i = book
    BY <1>2 DEF Merged, SourcesOf
  <2> HIDE DEF Merged
  <2> QED BY <1>4, <2>1, <2>2, WriteKeepsBooks
<1>9. PICK t \in Transactions : t = tx[w]
  BY DEF WritersInv
<1>10. PICK tally \in Tallies : tally = t.tally
  BY DEF Transactions
<1>11. /\ tx'[w].at = "upsert" /\ tx'[w].left = t.left /\ tx'[w].batch = t.batch
       /\ tx'[w].tally = [tally EXCEPT !.merges = @ + 1]
  <2>1. tx'[w] = [t EXCEPT !.at = "upsert", !.book = survivor, !.survivor = None, !.tally.merges = @ + 1]
    BY <1>4, <1>9 DEF WritersInv
  <2> QED BY <1>10, <2>1 DEF Transactions
<1>12. /\ tx'[w].tally.merges = tally.merges + 1 /\ tx'[w].tally.inserted = tally.inserted
       /\ tx'[w].tally.updated = tally.updated /\ tx'[w].tally.unchanged = tally.unchanged
       /\ {tally.inserted, tally.updated, tally.unchanged, tally.merges} \subseteq Nat
  BY <1>11 DEF Tallies
<1>13. Tallied(w) = Done(w) /\ Done(w) \in Int /\ ~Stubbed(w)
  BY <1>1, FiguresAreNumbers DEF FiguresOf, Stubbed
<1>14. Tallied(w)' = Tallied(w) /\ Done(w)' = Done(w)
  BY <1>9, <1>10, <1>11, <1>12 DEF Tallied, Done
<1>15. tally.inserted - tally.merges = Cardinality(Born(w)) - Cardinality(Died(w))
  BY <1>1, <1>9, <1>10 DEF FiguresOf
<1>16. tx'[w].tally.inserted - tx'[w].tally.merges = Cardinality(Born(w)') - Cardinality(Died(w)')
  <2>1. CASE disk[book] = None
    <3>1. Born(w)' = Born(w) \ {book} /\ book \in Born(w) /\ Died(w)' = Died(w)
      BY <1>2, <1>4, <1>5, <1>7, <1>8, <2>1 DEF Born, Died, BooksKeptBut
    <3>2. Cardinality(Born(w) \ {book}) = Cardinality(Born(w)) - 1
      BY <3>1, FiguresAreNumbers, FS_RemoveElement
    <3> QED BY <1>12, <1>15, <3>1, <3>2, FiguresAreNumbers
  <2>2. CASE disk[book] # None
    <3>1. Died(w)' = Died(w) \cup {book} /\ book \notin Died(w) /\ Born(w)' = Born(w)
      BY <1>2, <1>4, <1>5, <1>7, <1>8, <2>2 DEF Born, Died, BooksKeptBut
    <3>2. Cardinality(Died(w) \cup {book}) = Cardinality(Died(w)) + 1
      BY <3>1, FiguresAreNumbers, FS_AddElement
    <3> QED BY <1>12, <1>15, <3>1, <3>2, FiguresAreNumbers
  <2> QED BY <2>1, <2>2
<1>17. ASSUME NEW j \in Ids, lockedBy'[j] = w, draft'[j] # None
       PROVE  draft'[j].content # {}
  <2>1. j # book
    BY <1>7, <1>17
  <2>2. CASE lockedBy[j] = w
    BY <1>1, <1>8, <1>13, <1>17, <2>1, <2>2 DEF BooksKeptBut, FiguresOf
  <2>3. CASE lockedBy[j] # w
    BY <1>8, <1>17, <2>1, <2>3 DEF BooksKeptBut, FiguresInv, TotalsInv, Committed
  <2> QED BY <2>2, <2>3
<1> HIDE DEF Born, Died, Tallied, Done
<1> QED BY <1>11, <1>13, <1>14, <1>16, <1>17 DEF FiguresOf, Stubbed

\* What w sees of the sources stays, and what it takes is committed.
SourcesKept(w) ==
  \A s \in Sids : /\ View(w, s)' = View(w, s)
                  /\ lockedBy[s] = w => lockedBy'[s] = w
                  /\ lockedBy'[s] = w => lockedBy[s] = w \/ disk[s] # None

LEMMA TakeKeepsSources ==
  ASSUME LoaderAssumption, RowsInv, NEW w \in Writers, NEW rows \in SUBSET Rows, Take(w, rows), disk' = disk,
         \A r \in rows : lockedBy[r] \in {None, w} /\ View(w, r) # None
  PROVE  SourcesKept(w)
<1>1. \A r \in Rows : /\ r \in rows => draft'[r] = View(w, r) /\ lockedBy'[r] = w
                      /\ r \notin rows => draft'[r] = draft[r] /\ lockedBy'[r] = lockedBy[r]
  BY DEF Take, Write
<1> QED BY <1>1, RowKinds DEF SourcesKept, View

LEMMA ReadKeepsSources ==
  ASSUME NEW w \in Writers, draft' = draft, lockedBy' = lockedBy, disk' = disk
  PROVE  SourcesKept(w)
BY DEF SourcesKept, View

LEMMA WriteBookKeepsSources ==
  ASSUME LoaderAssumption, NEW w \in Writers, NEW i \in Ids, NEW row, WriteBook(w, i, row), disk' = disk
  PROVE  SourcesKept(w)
<1>1. \A s \in Sids : draft'[s] = draft[s] /\ lockedBy'[s] = lockedBy[s]
  BY RowKinds DEF WriteBook, Write
<1> QED BY <1>1 DEF SourcesKept, View

\* How far a statement gets that keeps the books and the sources.
Progress(w) ==
  \/ tx[w].at = "source" /\ tx'[w].at = "find" /\ View(w, Record(w).sid) = None
  \/ tx[w].at = "source" /\ tx'[w].at \in {"upsert", "current"} /\ lockedBy'[Record(w).sid] = w
  \/ tx[w].at \in {"find", "insert", "adopt"} /\ tx'[w].at \in {"insert", "adopt", "upsert"}
  \/ tx[w].at \in {"current", "promote", "lock", "lockOther"} /\ tx'[w].at \in {"promote", "lock", "lockOther", "move", "upsert"}

Kept(w) ==
  BooksKeptBut(w, None) /\ SourcesKept(w) /\ Keeps(w) /\ disk' = disk /\ tx'[w].tally = tx[w].tally /\ Progress(w)

\* The statements between, which create and delete no book.
LEMMA KeptStatements ==
  ASSUME LoaderAssumption, LoaderInv, NEW w \in Writers,
         \/ LockSource(w) \/ Find(w) \/ Lock(w)
         \/ Insert(w) /\ Keyed(w, identity_key(Record(w))) # {}
         \/ (Adopt(w) \/ Reconcile(w) \/ Promote(w)) /\ ~Fails(w)
  PROVE  Kept(w)
<1> USE RowKinds DEF LoaderInv
<1>1. disk' = disk /\ Blockers(w) = {} /\ Hand(w)
  BY DEF LockSource, Find, Insert, Lock, Adopt, Reconcile, Promote, Fails, Reads, Same, At, WritersInv
<1>2. CASE LockSource(w)
  <2>1. PICK sid \in Sids : sid = Record(w).sid
    BY <1>2, RecordIsClean DEF LockSource, At
  <2>2. CASE View(w, sid) # None
    <3>1. PICK at \in {"upsert", "current"} : at = IF Record(w).isbn13 = NoIsbn THEN "upsert" ELSE "current"
      OBVIOUS
    <3>2. lockedBy[sid] \in {None, w}
      BY <1>1, <1>2, <2>1, <2>2, NobodyElseHolds DEF Touched, LockSource, At
    <3>3. PICK book \in Ids : book = View(w, sid).book
      BY <2>2, <3>2, SourceHasItsBook
    <3>4. Take(w, {sid}) /\ tx' = [tx EXCEPT ![w].at = at, ![w].book = book]
      BY <1>2, <2>1, <2>2, <3>1, <3>3 DEF LockSource
    <3>5. Keeps(w) /\ tx'[w].at = at /\ tx'[w].tally = tx[w].tally
      BY <3>4, GoingOnWithBook DEF Statements
    <3>6. BooksKeptBut(w, None)
      BY <2>2, <3>2, <3>4, TakeKeepsBooks
    <3>7. SourcesKept(w)
      BY <1>1, <2>2, <3>2, <3>4, TakeKeepsSources
    <3>8. lockedBy'[sid] = w
      BY <3>4 DEF Take, Write
    <3> QED BY <1>1, <1>2, <2>1, <3>5, <3>6, <3>7, <3>8 DEF Kept, Progress, LockSource, At
  <2>3. CASE View(w, sid) = None
    <3>1. tx' = [tx EXCEPT ![w].at = "find"] /\ draft' = draft /\ lockedBy' = lockedBy
      BY <1>2, <2>1, <2>3 DEF LockSource, Goto
    <3>2. Keeps(w) /\ tx'[w].at = "find" /\ tx'[w].tally = tx[w].tally
      BY <3>1, GoingOn DEF Statements
    <3> QED BY <1>1, <1>2, <2>1, <2>3, <3>1, <3>2, ReadKeepsBooks, ReadKeepsSources DEF Kept, Progress, LockSource, At
  <2> QED BY <2>2, <2>3
<1>3. CASE Find(w)
  <2>1. tx[w].at = "find"
    BY <1>3 DEF Find, At
  <2>2. CASE tx' = [tx EXCEPT ![w].at = "insert"] /\ draft' = draft /\ lockedBy' = lockedBy
    <3>1. Keeps(w) /\ tx'[w].at = "insert" /\ tx'[w].tally = tx[w].tally
      BY <2>2, GoingOn DEF Statements
    <3> QED BY <1>1, <2>1, <2>2, <3>1, ReadKeepsBooks, ReadKeepsSources DEF Kept, Progress
  <2>3. ASSUME NEW i \in Keyed(w, identity_key(Record(w))), Take(w, {i}), GotoBook(w, i)
        PROVE  Kept(w)
    <3>1. i \in Ids /\ View(w, i) # None /\ lockedBy[i] \in {None, w}
      BY <1>1, <2>1, NobodyElseHolds DEF Touched, Keyed
    <3>2. Keeps(w) /\ tx'[w].at = "upsert" /\ tx'[w].tally = tx[w].tally
      BY <2>3, <3>1, GoingOnWithBook DEF Statements, GotoBook
    <3>3. BooksKeptBut(w, None) /\ SourcesKept(w)
      BY <1>1, <2>3, <3>1, TakeKeepsBooks, TakeKeepsSources
    <3> QED BY <1>1, <2>1, <3>2, <3>3 DEF Kept, Progress
  <2> QED BY <1>3, <2>2, <2>3 DEF Find, Goto
<1>4. CASE Lock(w)
  <2>1. tx[w].at \in {"lock", "lockOther"} /\ Goto(w, IF tx[w].at = "lock" THEN "lockOther" ELSE "move")
    BY <1>4 DEF Lock, At
  <2>2. PICK at \in {"lockOther", "move"} : Goto(w, at)
    BY <2>1
  <2>3. Keeps(w) /\ tx'[w].at = at /\ tx'[w].tally = tx[w].tally
    BY <2>2, GoingOn DEF Statements, Goto
  <2>4. HasSource(w) /\ tx[w].survivor \in Ids
    BY <1>1, <2>1 DEF Hand
  <2>5. Touched(w) \subseteq Ids
    <3>1. PICK book \in Ids, survivor \in Ids : book = tx[w].book /\ survivor = tx[w].survivor
      BY <2>1, <2>4, BookInHand
    <3>2. {Min({book, survivor}), Max({book, survivor})} = {book, survivor}
      BY LowAndHigh
    <3> QED BY <2>1, <3>1, <3>2 DEF Touched
  <2>6. PICK rows \in SUBSET Rows : rows = {r \in Touched(w) : View(w, r) # None} /\ Take(w, rows)
    BY <1>4, <2>5 DEF Lock
  <2>7. BooksKeptBut(w, None) /\ SourcesKept(w)
    BY <1>1, <2>6, NobodyElseHolds, TakeKeepsBooks, TakeKeepsSources
  <2> QED BY <1>1, <2>1, <2>3, <2>7 DEF Kept, Progress
<1>5. CASE Adopt(w) /\ ~Fails(w)
  <2>1. tx[w].at = "adopt"
    BY <1>5 DEF Adopt, At
  <2>2. PICK i \in Keyed(w, identity_key(Record(w))) : GotoBook(w, i) /\ Reads
    BY <1>5 DEF Adopt
  <2>3. i \in Ids /\ draft' = draft /\ lockedBy' = lockedBy
    BY <2>2 DEF Keyed, Reads
  <2>4. Keeps(w) /\ tx'[w].at = "upsert" /\ tx'[w].tally = tx[w].tally
    BY <2>2, <2>3, GoingOnWithBook DEF Statements, GotoBook
  <2> QED BY <1>1, <2>1, <2>3, <2>4, ReadKeepsBooks, ReadKeepsSources DEF Kept, Progress
<1>6. CASE Reconcile(w)
  <2>1. tx[w].at = "current" /\ draft' = draft /\ lockedBy' = lockedBy
    BY <1>6 DEF Reconcile, At, Reads
  <2>2. ASSUME NEW at \in {"upsert", "promote"}, tx' = [tx EXCEPT ![w].at = at]
        PROVE  Kept(w)
    <3>1. Keeps(w) /\ tx'[w].at = at /\ tx'[w].tally = tx[w].tally
      BY <2>2, GoingOn DEF Statements
    <3> QED BY <1>1, <2>1, <3>1, ReadKeepsBooks, ReadKeepsSources DEF Kept, Progress
  <2>3. ASSUME NEW i \in WithIsbn(w, Record(w).isbn13), tx' = [tx EXCEPT ![w].at = "lock", ![w].survivor = i]
        PROVE  Kept(w)
    <3>1. PICK t \in Transactions : t = tx[w]
      BY DEF WritersInv
    <3>2. tx'[w] = [t EXCEPT !.at = "lock", !.survivor = i] /\ \A v \in Writers \ {w} : tx'[v] = tx[v]
      BY <2>3, <3>1 DEF WritersInv
    <3>3. [t EXCEPT !.at = "lock", !.survivor = i] \in Transactions
      BY DEF Transactions, Statements, WithIsbn
    <3>4. tx' \in [Writers -> Transactions]
      BY <2>3, <3>2, <3>3 DEF WritersInv
    <3>5. Keeps(w) /\ tx'[w].at = "lock" /\ tx'[w].tally = tx[w].tally
      BY <3>1, <3>2, <3>4 DEF Transactions, Keeps
    <3> QED BY <1>1, <2>1, <3>5, ReadKeepsBooks, ReadKeepsSources DEF Kept, Progress
  <2> QED BY <1>6, <2>2, <2>3 DEF Reconcile, Goto
<1>7. CASE Promote(w) /\ ~Fails(w)
  <2>1. tx[w].at = "promote" /\ HasSource(w)
    BY <1>1, <1>7 DEF Promote, At, Hand
  <2>2. PICK book \in Ids : book = tx[w].book /\ View(w, book) # None /\ View(w, book) \in BookRows
    BY <2>1, BookInHand
  <2>3. PICK was \in BookRows : was = View(w, book)
    BY <2>2
  <2>4. PICK row : row = [was EXCEPT !.isbn13 = Record(w).isbn13, !.identity_key = identity_key(Record(w))]
    OBVIOUS
  <2>5. row.content = was.content /\ row # None
    <3>1. Record(w).isbn13 \in Isbns /\ identity_key(Record(w)) \in Keys
      BY <2>1, RecordIsClean DEF Isbns, Keys, identity_key
    <3> QED BY <2>4, <3>1 DEF BookRows
  <2>6. WriteBook(w, book, row) /\ Goto(w, "upsert")
    BY <1>7, <2>2, <2>3, <2>4 DEF Promote
  <2>7. lockedBy[book] \in {None, w}
    BY <1>1, <2>1, <2>2, NobodyElseHolds DEF Touched
  <2>8. BooksKeptBut(w, None)
    <3> DEFINE new == [b \in {book} |-> row]
    <3>1. Write(w, new) /\ DOMAIN new = {book} /\ new[book] = row
      BY <2>6 DEF WriteBook
    <3> HIDE DEF new
    <3> QED BY <2>2, <2>3, <2>5, <2>7, <3>1, WriteKeepsBooks
  <2>9. Keeps(w) /\ tx'[w].at = "upsert" /\ tx'[w].tally = tx[w].tally
    BY <2>6, GoingOn DEF Statements, Goto
  <2>10. SourcesKept(w)
    BY <1>1, <2>2, <2>6, WriteBookKeepsSources
  <2> QED BY <1>1, <2>1, <2>8, <2>9, <2>10 DEF Kept, Progress
<1>8. CASE Insert(w) /\ Keyed(w, identity_key(Record(w))) # {}
  <2>1. tx' = [tx EXCEPT ![w].at = "adopt"] /\ draft' = draft /\ lockedBy' = lockedBy /\ tx[w].at = "insert"
    BY <1>8 DEF Insert, Goto, At
  <2>2. Keeps(w) /\ tx'[w].at = "adopt" /\ tx'[w].tally = tx[w].tally
    BY <2>1, GoingOn DEF Statements
  <2> QED BY <1>1, <2>1, <2>2, ReadKeepsBooks, ReadKeepsSources DEF Kept, Progress
<1> QED BY <1>2, <1>3, <1>4, <1>5, <1>6, <1>7, <1>8 DEF Reconcile, Fails

LEMMA KeptStatementsCount ==
  ASSUME LoaderAssumption, LoaderInv, FiguresInv, NEW w \in Writers, Kept(w)
  PROVE  FiguresOf(w)'
BY NothingToCount DEF Kept, Progress, LoaderInv

\* From the upsert of the source to the replay a stub remains one.
LEMMA UpsertSourceCounts ==
  ASSUME LoaderAssumption, LoaderInv, FiguresInv, NEW w \in Writers, UpsertSource(w), ~Fails(w)
  PROVE  FiguresOf(w)'
<1> USE RowKinds DEF LoaderInv
<1>1. tx[w].at = "upsert" /\ Blockers(w) = {} /\ Hand(w) /\ FiguresOf(w)
  BY DEF UpsertSource, At, WritersInv, FiguresInv
<1>2. PICK sid \in Sids : sid = Record(w).sid
  BY <1>1, RecordIsClean
<1>3. PICK book \in Ids : book = tx[w].book
  BY <1>1 DEF Hand
<1>4. PICK row : row = [book |-> book, record |-> Record(w)]
  OBVIOUS
<1>5. /\ View(w, book) # None /\ Write(w, [r \in Touched(w) |-> IF r = sid THEN row ELSE View(w, r)])
      /\ Goto(w, "replay") /\ disk' = disk
  BY <1>2, <1>3, <1>4 DEF UpsertSource, Same
<1>6. Keeps(w) /\ tx'[w].at = "replay" /\ tx'[w].book = book /\ tx'[w].tally = tx[w].tally
  BY <1>3, <1>5, GoingOn DEF Statements, Goto
<1>7. BooksKeptBut(w, None)
  <2>1. Touched(w) = {sid} \cup IF Refers(w) THEN {} ELSE {book}
    BY <1>1, <1>2, <1>3 DEF Touched
  <2>2. \A r \in Touched(w) : lockedBy[r] \in {None, w}
    BY <1>1, NobodyElseHolds
  <2> DEFINE new == [r \in Touched(w) |-> IF r = sid THEN row ELSE View(w, r)]
  <2>3. /\ Write(w, new) /\ DOMAIN new = Touched(w)
        /\ \A i \in Ids : i \in DOMAIN new => i = book /\ new[i] = View(w, i)
    BY <1>5, <2>1
  <2> HIDE DEF new
  <2> QED BY <1>5, <2>2, <2>3, WriteKeepsBooks
<1>8. Tallied(w)' = Tallied(w) /\ Done(w)' = Done(w) /\ (Stubbed(w)' <=> Stubbed(w))
  BY <1>6 DEF Keeps, Tallied, Done, Stubbed
<1>9. Born(w)' = Born(w) /\ Died(w)' = Died(w)
  BY <1>5, <1>7 DEF Born, Died, BooksKeptBut, RowsInv, RowsTyped
<1>10. ASSUME NEW i \in Ids, lockedBy'[i] = w, draft'[i] # None, draft'[i].content = {}
       PROVE  Stubbed(w) /\ i = book
  <2>1. CASE lockedBy[i] = w
    BY <1>1, <1>3, <1>7, <1>10, <2>1 DEF BooksKeptBut, FiguresOf
  <2>2. CASE lockedBy[i] # w
    BY <1>7, <1>10, <2>2 DEF BooksKeptBut, FiguresInv, TotalsInv, Committed
  <2> QED BY <2>1, <2>2
<1>11. Stubbed(w) => lockedBy'[book] = w /\ draft'[book] # None /\ draft'[book].content = {}
  BY <1>1, <1>3, <1>7 DEF FiguresOf, BooksKeptBut
<1> HIDE DEF Born, Died, Tallied, Done, Stubbed
<1> QED BY <1>1, <1>6, <1>8, <1>9, <1>10, <1>11 DEF FiguresOf

\* What the replay reads tells a stub from a book with content.
LEMMA ReplayCounts ==
  ASSUME LoaderAssumption, LoaderInv, FiguresInv, NEW w \in Writers, Replay(w)
  PROVE  FiguresOf(w)'
<1> USE RowKinds DEF LoaderInv
<1>1. /\ tx[w].at = "replay" /\ HasSource(w) /\ FiguresOf(w)
      /\ disk' = disk /\ draft' = draft /\ lockedBy' = lockedBy
  BY DEF Replay, At, WritersInv, Hand, Reads, Same, FiguresInv
<1>2. PICK book \in Ids : book = tx[w].book
  BY <1>1, BookInHand
<1>3. PICK row \in BookRows : row = View(w, book)
  BY <1>1, <1>2, BookInHand
<1>4. Evidence(w) # {}
  <2>1. Record(w).sid \in SourcesOf(w, book)
    BY <1>1, <1>2, BookInHand, RecordIsClean DEF SourcesOf, HasSource
  <2> QED BY <1>2, <2>1 DEF Evidence
<1>5. PICK t \in Transactions : t = tx[w]
  BY DEF WritersInv
<1>6. /\ tx'[w].at = "write" /\ tx'[w].book = book /\ tx'[w].batch = t.batch /\ tx'[w].left = t.left
      /\ tx'[w].tally = t.tally /\ tx'[w].saw = Evidence(w) /\ tx'[w].had = row.content
  <2>1. tx'[w] = [t EXCEPT !.at = "write", !.saw = Evidence(w), !.had = row.content, !.key = row.identity_key]
    BY <1>2, <1>3, <1>5 DEF Replay, WritersInv
  <2> HIDE DEF Evidence
  <2> QED BY <1>2, <1>5, <2>1 DEF Transactions
<1>7. Tallied(w)' = Tallied(w) /\ Done(w)' = Done(w) /\ (Stubbed(w)' <=> Stubbed(w))
  BY <1>5, <1>6 DEF Tallied, Done, Stubbed
<1>8. Born(w)' = Born(w) /\ Died(w)' = Died(w)
  BY <1>1 DEF Born, Died
<1>9. row.content = {} <=> Stubbed(w)
  <2>1. Stubbed(w) => row.content = {}
    BY <1>1, <1>2, <1>3 DEF FiguresOf, View
  <2>2. CASE lockedBy[book] = w
    BY <1>1, <1>2, <1>3, <2>1, <2>2, BookInHand DEF FiguresOf, View
  <2>3. CASE lockedBy[book] # w
    <3>1. row = disk[book] /\ disk[book] # None
      BY <1>1, <1>2, <1>3, <2>3, BookInHand DEF View
    <3> QED BY <2>1, <3>1 DEF FiguresInv, TotalsInv, Committed
  <2> QED BY <2>2, <2>3
<1> HIDE DEF Born, Died, Tallied, Done, Stubbed
<1> QED BY <1>1, <1>2, <1>4, <1>5, <1>6, <1>7, <1>8, <1>9 DEF FiguresOf

\* Each record is counted once: as its stub was, as an update, or as unchanged.
LEMMA RecomputeCounts ==
  ASSUME LoaderAssumption, LoaderInv, FiguresInv, NEW w \in Writers, Recompute(w), ~Fails(w)
  PROVE  FiguresOf(w)'
<1> USE RowKinds DEF LoaderInv
<1>1. tx[w].at = "write" /\ Blockers(w) = {} /\ HasSource(w) /\ FiguresOf(w) /\ disk' = disk
  BY DEF Recompute, At, WritersInv, Hand, FiguresInv, Reads, Same
<1>2. PICK book \in Ids : book = tx[w].book /\ View(w, book) # None /\ View(w, book) \in BookRows
  BY <1>1, BookInHand
<1>3. tx[w].saw # {} /\ (tx[w].had = {} <=> Stubbed(w)) /\ Tallied(w) \in {Done(w), Done(w) + 1} /\ Done(w) \in Int
  BY <1>1, FiguresAreNumbers DEF FiguresOf
<1>4. PICK t \in Transactions : t = tx[w]
  BY DEF WritersInv
<1>5. PICK tally \in Tallies : tally = t.tally
  BY DEF Transactions
<1>6. {tally.inserted, tally.updated, tally.unchanged, tally.merges} \subseteq Nat
      /\ Tallied(w) = tally.inserted + tally.updated + tally.unchanged
  BY <1>4, <1>5 DEF Tallies, Tallied
\* What a next record starts from, if it was counted.
<1>7. ASSUME NEW new \in Tallies, Onwards(w, new), new.inserted = tally.inserted, new.merges = tally.merges,
             new.inserted + new.updated + new.unchanged = Done(w) + 1
      PROVE  /\ tx'[w].at \in {"commit", "source"} /\ Tallied(w)' = Done(w)' /\ ~Stubbed(w)'
             /\ tx'[w].tally.inserted - tx'[w].tally.merges = Cardinality(Born(w)) - Cardinality(Died(w))
  <2>1. /\ tx'[w].at \in {"commit", "source"} /\ tx'[w].batch = t.batch /\ tx'[w].left = Tail(t.left) /\ tx'[w].tally = new
    BY <1>1, <1>4, <1>7, GoingOnwards
  <2>2. PICK m \in Nat, n \in Nat : Len(Tail(t.left)) = m /\ Len(t.left) = m + 1 /\ Len(t.batch) = n
    <3>1. t.left \in Seq(CleanBooks) /\ t.left # <<>> /\ t.batch \in Seq(CleanBooks)
      BY <1>1, <1>4, RecordIsClean DEF Transactions
    <3>2. Tail(t.left) \in Seq(CleanBooks) /\ Len(Tail(t.left)) = Len(t.left) - 1
      BY <3>1, HeadTailProperties
    <3>3. Len(Tail(t.left)) \in Nat /\ Len(t.left) \in Nat /\ Len(t.batch) \in Nat
      BY <3>1, <3>2, LenProperties
    <3>4. PICK m \in Nat, k \in Nat, n \in Nat : m = Len(Tail(t.left)) /\ k = Len(t.left) /\ n = Len(t.batch)
      BY <3>3
    <3>5. k = m + 1
      <4>1. m = k - 1
        BY <3>2, <3>4
      <4> QED BY <4>1
    <3> QED BY <3>4, <3>5
  <2>3. Done(w)' = Done(w) + 1
    <3>1. Done(w) = n - (m + 1)
      BY <1>4, <2>2 DEF Done
    <3>2. Done(w)' = n - m
      BY <2>1, <2>2 DEF Done
    <3>3. n - m = (n - (m + 1)) + 1
      OBVIOUS
    <3> QED BY <3>1, <3>2, <3>3
  <2>4. Tallied(w)' = new.inserted + new.updated + new.unchanged
    BY <2>1 DEF Tallied
  <2>5. tally.inserted - tally.merges = Cardinality(Born(w)) - Cardinality(Died(w))
    BY <1>1, <1>4, <1>5 DEF FiguresOf
  <2> HIDE DEF Done, Tallied
  <2> QED BY <1>3, <1>7, <2>1, <2>3, <2>4, <2>5 DEF Stubbed
<1>8. CASE tx[w].saw = tx[w].had
  <2>1. Onwards(w, Counted(w, "unchanged")) /\ draft' = draft /\ lockedBy' = lockedBy
    BY <1>8 DEF Recompute, Reads
  <2>2. PICK new \in Tallies : new = Counted(w, "unchanged")
    BY CountedIsTyped
  <2>3. new.inserted = tally.inserted /\ new.merges = tally.merges /\ new.updated = tally.updated
        /\ new.unchanged = tally.unchanged + 1
    BY <1>4, <1>5, <2>2 DEF Counted, Tallies
  <2>4. ~Stubbed(w) /\ Tallied(w) = Done(w)
    BY <1>3, <1>8 DEF Stubbed
  <2>5. new.inserted + new.updated + new.unchanged = Done(w) + 1
    BY <1>6, <2>3, <2>4
  <2>6. Born(w)' = Born(w) /\ Died(w)' = Died(w)
    BY <1>1, <2>1 DEF Born, Died
  <2>7. \A i \in Ids : ~(lockedBy[i] = w /\ draft[i] # None /\ draft[i].content = {})
    BY <1>1, <2>4 DEF FiguresOf
  <2>8. /\ tx'[w].at \in {"commit", "source"} /\ Tallied(w)' = Done(w)' /\ ~Stubbed(w)'
        /\ tx'[w].tally.inserted - tx'[w].tally.merges = Cardinality(Born(w)) - Cardinality(Died(w))
    BY <1>7, <2>1, <2>2, <2>3, <2>5
  <2> HIDE DEF Born, Died, Tallied, Done, Stubbed
  <2> QED BY <2>1, <2>6, <2>7, <2>8 DEF FiguresOf
<1>9. CASE tx[w].saw # tx[w].had
  <2>1. WriteBook(w, book, Recomputed(w)) /\ Onwards(w, IF tx[w].had = {} THEN tx[w].tally ELSE Counted(w, "updated"))
    BY <1>2, <1>9 DEF Recompute
  <2>2. PICK new \in Tallies : new = IF tx[w].had = {} THEN tx[w].tally ELSE Counted(w, "updated")
    BY CountedIsTyped
  <2>3. /\ new.inserted = tally.inserted /\ new.merges = tally.merges
        /\ new.inserted + new.updated + new.unchanged = Done(w) + 1
    <3>1. CASE tx[w].had = {}
      BY <1>3, <1>4, <1>5, <1>6, <2>2, <3>1 DEF Stubbed
    <3>2. CASE tx[w].had # {}
      <4>1. new.inserted = tally.inserted /\ new.merges = tally.merges /\ new.updated = tally.updated + 1
            /\ new.unchanged = tally.unchanged
        BY <1>4, <1>5, <2>2, <3>2 DEF Counted, Tallies
      <4>2. Tallied(w) = Done(w)
        BY <1>3, <3>2 DEF Stubbed
      <4> QED BY <1>6, <4>1, <4>2
    <3> QED BY <3>1, <3>2
  <2>4. /\ tx'[w].at \in {"commit", "source"} /\ Tallied(w)' = Done(w)' /\ ~Stubbed(w)'
        /\ tx'[w].tally.inserted - tx'[w].tally.merges = Cardinality(Born(w)) - Cardinality(Died(w))
    BY <1>7, <2>1, <2>2, <2>3
  <2>5. PICK row : row = Recomputed(w)
    OBVIOUS
  <2>6. row \in BookRows /\ row.content = tx[w].saw
    <3>1. PICK was \in BookRows : was = View(w, book)
      BY <1>2
    <3>2. tx[w].saw \in SUBSET CleanBooks /\ AgreedIsbn(tx[w].key) \in Isbns \cup {NoIsbn}
      BY DEF WritersInv, Transactions, AgreedIsbn
    <3>3. row = [was EXCEPT !.content = tx[w].saw, !.isbn13 = AgreedIsbn(tx[w].key)]
      BY <1>2, <2>5, <3>1 DEF Recomputed
    <3> QED BY <3>2, <3>3 DEF BookRows
  <2>7. lockedBy[book] \in {None, w}
    BY <1>1, <1>2, <1>9, NobodyElseHolds DEF Touched
  <2>8. BooksKeptBut(w, book) /\ lockedBy'[book] = w /\ draft'[book] = row
    <3> DEFINE rows == [b \in {book} |-> row]
    <3>1. Write(w, rows) /\ DOMAIN rows = {book} /\ rows[book] = row
      BY <2>1, <2>5 DEF WriteBook
    <3> HIDE DEF rows
    <3>2. BooksKeptBut(w, book)
      BY <2>7, <3>1, WriteKeepsBooks
    <3> QED BY <1>2, <3>1, <3>2 DEF Write
  <2>9. Born(w)' = Born(w) /\ Died(w)' = Died(w)
    <3>1. lockedBy[book] # w => draft[book] = disk[book] /\ disk[book] # None
      BY <1>2, <2>7 DEF View, RowsInv, RowsTyped
    <3>2. lockedBy[book] = w => draft[book] # None
      BY <1>2 DEF View
    <3> QED BY <1>1, <2>6, <2>8, <3>1, <3>2 DEF Born, Died, BooksKeptBut, RowsInv, RowsTyped
  <2>10. ASSUME NEW i \in Ids, lockedBy'[i] = w, draft'[i] # None
         PROVE  draft'[i].content # {}
    <3>1. CASE i = book
      BY <1>3, <2>6, <2>8, <3>1
    <3>2. CASE i # book /\ lockedBy[i] = w
      BY <1>1, <1>2, <2>8, <2>10, <3>2 DEF BooksKeptBut, FiguresOf
    <3>3. CASE i # book /\ lockedBy[i] # w
      BY <2>8, <2>10, <3>3 DEF BooksKeptBut, FiguresInv, TotalsInv, Committed
    <3> QED BY <3>1, <3>2, <3>3
  <2> HIDE DEF Born, Died, Tallied, Done, Stubbed
  <2> QED BY <2>4, <2>9, <2>10 DEF FiguresOf
<1> QED BY <1>8, <1>9

\* A writer that starts on a batch, or ends, has nothing to count.
LEMMA NothingHeld ==
  ASSUME NEW w \in Writers, \A i \in Ids : lockedBy'[i] # w, tx'[w].tally = NoFigures, tx'[w].left = tx'[w].batch,
         tx'[w].batch \in Seq(CleanBooks), tx'[w].at \in {"idle", "source"}
  PROVE  FiguresOf(w)'
<1>1. Born(w)' = {} /\ Died(w)' = {}
  BY DEF Born, Died
<1>2. Cardinality(Born(w)') = 0 /\ Cardinality(Died(w)') = 0
  BY <1>1, FS_EmptySet
<1>3. PICK n \in Nat : Len(tx'[w].batch) = n
  OBVIOUS
<1>4. Done(w)' = 0
  <2>1. Done(w)' = n - n
    BY <1>3 DEF Done
  <2> QED BY <2>1
<1>5. Tallied(w)' = 0 /\ tx'[w].tally.inserted - tx'[w].tally.merges = 0
  BY DEF Tallied, NoFigures
<1> HIDE DEF Born, Died, Tallied, Done
<1> QED BY <1>2, <1>4, <1>5 DEF FiguresOf, Stubbed

LEMMA RollBackCounts ==
  ASSUME LoaderAssumption, LoaderInv, NEW w \in Writers, RolledBack(w),
         \/ tx' = [tx EXCEPT ![w] = Idle]
         \/ tx' = [tx EXCEPT ![w] = AttemptedAnew(w)]
  PROVE  FiguresOf(w)'
<1> USE RowKinds DEF LoaderInv
<1>1. \A i \in Ids : lockedBy'[i] # w
  BY DEF RolledBack
<1>2. PICK t \in Transactions : t = tx[w]
  BY DEF WritersInv
<1>3. tx'[w] \in {Idle, AttemptedAnew(w)}
  BY DEF WritersInv
<1>4. Idle.tally = NoFigures /\ Idle.left = Idle.batch /\ Idle.batch = <<>> /\ Idle.at = "idle"
  BY DEF Idle
<1>5. AttemptedAnew(w).tally = NoFigures /\ AttemptedAnew(w).left = t.batch /\ AttemptedAnew(w).batch = t.batch
      /\ AttemptedAnew(w).at = "source"
  BY <1>2 DEF AttemptedAnew, Idle
<1>6. <<>> \in Seq(CleanBooks) /\ t.batch \in Seq(CleanBooks)
  BY DEF Transactions
<1>7. /\ tx'[w].tally = NoFigures /\ tx'[w].left = tx'[w].batch /\ tx'[w].batch \in Seq(CleanBooks)
      /\ tx'[w].at \in {"idle", "source"}
  BY <1>3, <1>4, <1>5, <1>6
<1> QED BY <1>1, <1>7, NothingHeld

LEMMA BeginBatchCounts ==
  ASSUME LoaderAssumption, LoaderInv, NEW w \in Writers, BeginBatch(w)
  PROVE  FiguresOf(w)'
<1> USE DEF LoaderInv
<1>1. tx[w] = Idle /\ lockedBy' = lockedBy /\ \A i \in Ids : lockedBy[i] # w
  BY RowKinds DEF BeginBatch, WritersInv, Started
<1>2. PICK batch \in Batches : tx' = [tx EXCEPT ![w].at = "source", ![w].batch = batch, ![w].left = batch]
  BY DEF BeginBatch
<1>3. batch \in Seq(CleanBooks)
  <2>1. PICK n \in 1..MaxLength : batch \in [1..n -> CleanBooks]
    BY DEF Batches
  <2> QED BY <2>1 DEF LoaderAssumption
<1>4. tx'[w] = [Idle EXCEPT !.at = "source", !.batch = batch, !.left = batch]
  BY <1>1, <1>2 DEF WritersInv
<1>5. tx'[w].at = "source" /\ tx'[w].batch = batch /\ tx'[w].left = batch /\ tx'[w].tally = NoFigures
  BY <1>4 DEF Idle
<1> QED BY <1>1, <1>3, <1>5, NothingHeld

\* A committed batch adds what its tally says: its books, less those it merged,
\* and each of its records once.
LEMMA CommitCounts ==
  ASSUME LoaderAssumption, LoaderInv, FiguresInv, NEW w \in Writers, CommitBatch(w)
  PROVE  TotalsInv' /\ FiguresOf(w)'
<1> USE RowKinds DEF LoaderInv
<1>1. tx[w].at = "commit" /\ FiguresOf(w) /\ ~Stubbed(w) /\ tx[w].left = <<>>
  BY DEF CommitBatch, At, FiguresInv, FiguresOf, WritersInv, Started
<1>2. \A i \in Ids : /\ lockedBy[i] = w => disk'[i] = draft[i] /\ lockedBy'[i] = None
                     /\ lockedBy[i] # w => disk'[i] = disk[i] /\ lockedBy'[i] = lockedBy[i]
  BY DEF CommitBatch
<1>3. tx'[w] = Idle
  BY DEF CommitBatch, WritersInv
<1>4. FiguresOf(w)'
  <2>1. \A i \in Ids : lockedBy'[i] # w
    BY <1>2
  <2>2. tx'[w].tally = NoFigures /\ tx'[w].left = tx'[w].batch /\ tx'[w].batch \in Seq(CleanBooks) /\ tx'[w].at = "idle"
    BY <1>3 DEF Idle
  <2> QED BY <2>1, <2>2, NothingHeld
<1>5. PICK t \in Transactions : t = tx[w]
  BY DEF WritersInv
<1>6. PICK tally \in Tallies, old \in Tallies : tally = t.tally /\ old = total
  BY DEF Transactions, FiguresInv, TotalsInv
<1>7. /\ {tally.inserted, tally.updated, tally.unchanged, tally.merges} \subseteq Nat
      /\ {old.inserted, old.updated, old.unchanged, old.merges} \subseteq Nat
      /\ DOMAIN old = {"inserted", "updated", "unchanged", "merges"}
  BY DEF Tallies
<1>8. total' = [f \in {"inserted", "updated", "unchanged", "merges"} |-> old[f] + tally[f]]
  BY <1>5, <1>6, <1>7 DEF CommitBatch, Accumulated
<1>9. /\ total'.inserted = old.inserted + tally.inserted /\ total'.merges = old.merges + tally.merges
      /\ total'.updated = old.updated + tally.updated /\ total'.unchanged = old.unchanged + tally.unchanged
  BY <1>8
<1>10. total' \in Tallies
  <2>1. total' = [inserted |-> old.inserted + tally.inserted, updated |-> old.updated + tally.updated,
                  unchanged |-> old.unchanged + tally.unchanged, merges |-> old.merges + tally.merges]
    BY <1>8
  <2>2. /\ old.inserted + tally.inserted \in Nat /\ old.updated + tally.updated \in Nat
        /\ old.unchanged + tally.unchanged \in Nat /\ old.merges + tally.merges \in Nat
    BY <1>7
  <2> QED BY <2>1, <2>2 DEF Tallies
<1>11. Committed' = (Committed \cup Born(w)) \ Died(w) /\ Committed \cap Born(w) = {} /\ Died(w) \subseteq Committed
  BY <1>2 DEF Committed, Born, Died
<1>12. Cardinality(Committed') = Cardinality(Committed) + Cardinality(Born(w)) - Cardinality(Died(w))
  <2>1. IsFiniteSet(Committed) /\ IsFiniteSet(Born(w)) /\ IsFiniteSet(Died(w))
    BY FiguresAreNumbers
  <2>2. /\ IsFiniteSet(Committed \cup Born(w))
        /\ Cardinality(Committed \cup Born(w)) = Cardinality(Committed) + Cardinality(Born(w)) - Cardinality(Committed \cap Born(w))
    BY <2>1, FS_Union
  <2>3. Cardinality({}) = 0
    BY FS_EmptySet
  <2>4. Cardinality(Committed \cup Born(w)) = Cardinality(Committed) + Cardinality(Born(w))
    <3>1. Cardinality(Committed \cap Born(w)) = 0
      BY <1>11, <2>3
    <3>2. Cardinality(Committed) \in Nat /\ Cardinality(Born(w)) \in Nat
      BY <2>1, FS_CardinalityType
    <3> QED BY <2>2, <3>1, <3>2
  <2>5. Cardinality((Committed \cup Born(w)) \ Died(w))
          = Cardinality(Committed \cup Born(w)) - Cardinality((Committed \cup Born(w)) \cap Died(w))
    BY <2>2, FS_Difference
  <2>6. (Committed \cup Born(w)) \cap Died(w) = Died(w)
    BY <1>11
  <2>7. Cardinality((Committed \cup Born(w)) \ Died(w)) = Cardinality(Committed) + Cardinality(Born(w)) - Cardinality(Died(w))
    <3>1. Cardinality((Committed \cup Born(w)) \cap Died(w)) = Cardinality(Died(w))
      BY <2>6
    <3>2. Cardinality(Committed) \in Nat /\ Cardinality(Born(w)) \in Nat /\ Cardinality(Died(w)) \in Nat
      BY <2>1, FS_CardinalityType
    <3> HIDE DEF Committed, Born, Died
    <3> QED BY <2>4, <2>5, <3>1, <3>2
  <2> QED BY <1>11, <2>7
<1>13. total'.inserted - total'.merges = Cardinality(Committed')
  <2>1. /\ old.inserted - old.merges = Cardinality(Committed)
        /\ tally.inserted - tally.merges = Cardinality(Born(w)) - Cardinality(Died(w))
    BY <1>1, <1>5, <1>6 DEF FiguresInv, TotalsInv, FiguresOf
  <2>2. Cardinality(Committed) \in Nat /\ Cardinality(Born(w)) \in Nat /\ Cardinality(Died(w)) \in Nat
    BY FiguresAreNumbers, FS_CardinalityType
  <2> QED BY <1>7, <1>9, <1>12, <2>1, <2>2
<1>14. loaded' \in Nat /\ total'.inserted + total'.updated + total'.unchanged = loaded'
  <2>1. PICK n \in Nat, m \in Nat : n = Len(t.batch) /\ m = loaded /\ loaded' = m + n
    <3>1. t.batch \in Seq(CleanBooks)
      BY DEF Transactions
    <3>2. Len(t.batch) \in Nat
      BY <3>1, LenProperties
    <3> QED BY <1>5, <3>2 DEF CommitBatch, FiguresInv, TotalsInv
  <2>2. Tallied(w) = Done(w)
    BY <1>1 DEF FiguresOf, Stubbed
  <2>3. Done(w) = n - Len(<<>>)
    BY <1>1, <1>5, <2>1 DEF Done
  <2>4. Len(<<>>) = 0
    OBVIOUS
  <2>5. Tallied(w) = tally.inserted + tally.updated + tally.unchanged
    BY <1>5, <1>6 DEF Tallied
  <2>6. tally.inserted + tally.updated + tally.unchanged = n
    BY <2>1, <2>2, <2>3, <2>4, <2>5
  <2>7. old.inserted + old.updated + old.unchanged = m
    BY <1>6, <2>1 DEF FiguresInv, TotalsInv
  <2>8. total'.inserted + total'.updated + total'.unchanged
          = (old.inserted + old.updated + old.unchanged) + (tally.inserted + tally.updated + tally.unchanged)
    BY <1>7, <1>9
  <2>9. loaded' = m + n /\ m + n \in Nat
    BY <2>1
  <2> QED BY <2>6, <2>7, <2>8, <2>9
<1>15. \A i \in Committed' : disk'[i].content # {}
  <2> SUFFICES ASSUME NEW i \in Ids, disk'[i] # None PROVE disk'[i].content # {}
    BY DEF Committed
  <2>1. CASE lockedBy[i] = w
    BY <1>1, <1>2, <2>1 DEF FiguresOf
  <2>2. CASE lockedBy[i] # w
    BY <1>2, <2>2 DEF FiguresInv, TotalsInv, Committed
  <2> QED BY <2>1, <2>2
<1> HIDE DEF Committed
<1> QED BY <1>4, <1>10, <1>13, <1>14, <1>15 DEF TotalsInv

\* Only a commit changes what is committed, and only the rows that w holds.
LEMMA CommittedByHolder ==
  ASSUME NEW w \in Writers, BeginBatch(w) \/ Advance(w) \/ Crash(w)
  PROVE  /\ \A r \in Rows : lockedBy[r] # w => disk'[r] = disk[r]
         /\ ~CommitBatch(w) => disk' = disk /\ total' = total /\ loaded' = loaded
<1>1. CASE CommitBatch(w)
  BY <1>1 DEF CommitBatch
<1>2. CASE Advance(w) /\ ~CommitBatch(w)
  BY <1>2 DEF Advance, LockSource, Find, Insert, Adopt, Reconcile, Promote, Lock, Move, UpsertSource, Replay,
              Recompute, Victim, Fails, Reads, Same
<1>3. CASE BeginBatch(w) \/ Crash(w)
  BY <1>3 DEF BeginBatch, Crash, Fails, Same
<1> QED BY <1>1, <1>2, <1>3

LEMMA OwnFigures ==
  ASSUME LoaderAssumption, LoaderInv, FiguresInv, NEW w \in Writers, BeginBatch(w) \/ Advance(w) \/ Crash(w)
  PROVE  FiguresOf(w)'
<1>1. CASE Fails(w)
  BY <1>1, RollBackCounts DEF Fails
<1>2. CASE BeginBatch(w)
  BY <1>2, BeginBatchCounts
<1>3. CASE CommitBatch(w)
  BY <1>3, CommitCounts
<1>4. CASE Victim(w)
  BY <1>4, RollBackCounts DEF Victim
<1>5. CASE \/ Insert(w) /\ Keyed(w, identity_key(Record(w))) = {}
           \/ ~Fails(w) /\ (Move(w) \/ UpsertSource(w) \/ Replay(w) \/ Recompute(w))
  BY <1>5, InsertCounts, MoveCounts, UpsertSourceCounts, ReplayCounts, RecomputeCounts
<1>6. CASE \/ Insert(w) /\ Keyed(w, identity_key(Record(w))) # {}
           \/ ~Fails(w) /\ (LockSource(w) \/ Find(w) \/ Adopt(w) \/ Reconcile(w) \/ Promote(w) \/ Lock(w))
  BY <1>6, KeptStatements, KeptStatementsCount
<1> QED BY <1>1, <1>2, <1>3, <1>4, <1>5, <1>6 DEF Advance, Crash

LEMMA NextKeepsFigures ==
  ASSUME LoaderAssumption, LoaderInv, FiguresInv, [LoaderNext]_loaderVars
  PROVE  FiguresInv'
<1>1. CASE LoaderNext
  <2>1. PICK w \in Writers : BeginBatch(w) \/ Advance(w) \/ Crash(w)
    BY <1>1 DEF LoaderNext
  <2>2. Others(w)
    BY <2>1, LoaderSteps DEF Stepped
  <2>3. \A v \in Writers : FiguresOf(v)'
    BY <2>1, <2>2, OwnFigures, OthersKeepFigures, CommittedByHolder DEF LoaderInv, FiguresInv
  <2>4. TotalsInv'
    <3>1. CASE CommitBatch(w)
      BY <3>1, CommitCounts
    <3>2. CASE ~CommitBatch(w)
      BY <2>1, <3>2, CommittedByHolder DEF FiguresInv, TotalsInv, Committed
    <3> QED BY <3>1, <3>2
  <2> QED BY <2>3, <2>4 DEF FiguresInv
<1>2. CASE UNCHANGED loaderVars
  <2>1. /\ tx' = tx /\ disk' = disk /\ draft' = draft /\ lockedBy' = lockedBy /\ total' = total /\ loaded' = loaded
    BY <1>2 DEF loaderVars
  <2>2. ASSUME NEW w \in Writers PROVE FiguresOf(w)'
    <3>1. Born(w)' = Born(w) /\ Died(w)' = Died(w) /\ Tallied(w)' = Tallied(w) /\ Done(w)' = Done(w)
      BY <2>1 DEF Born, Died, Tallied, Done
    <3> HIDE DEF Born, Died, Tallied, Done
    <3> QED BY <2>1, <3>1 DEF FiguresInv, FiguresOf, Stubbed
  <2>3. TotalsInv'
    BY <2>1 DEF FiguresInv, TotalsInv, Committed
  <2> QED BY <2>2, <2>3 DEF FiguresInv
<1> QED BY <1>1, <1>2

LEMMA InitFigures ==
  ASSUME LoaderAssumption, LoaderInit
  PROVE  FiguresInv
<1> USE RowKinds
<1>1. Committed = {} /\ Cardinality({}) = 0
  BY FS_EmptySet DEF LoaderInit, Committed
<1>2. TotalsInv
  <2>1. total = NoFigures /\ loaded = 0
    BY DEF LoaderInit
  <2>2. NoFigures \in Tallies
    BY DEF NoFigures, Tallies
  <2>3. Cardinality(Committed) = 0
    BY <1>1
  <2> HIDE DEF Committed
  <2> QED BY <1>1, <2>1, <2>2, <2>3 DEF TotalsInv, NoFigures
<1>3. ASSUME NEW w \in Writers PROVE FiguresOf(w)
  <2>1. tx[w] = Idle /\ \A i \in Ids : lockedBy[i] = None
    BY DEF LoaderInit
  <2>2. Born(w) = {} /\ Died(w) = {}
    BY <2>1 DEF Born, Died
  <2>3. Cardinality(Born(w)) = 0 /\ Cardinality(Died(w)) = 0
    BY <1>1, <2>2
  <2>4. Done(w) = 0
    <3>1. Done(w) = Len(<<>>) - Len(<<>>)
      BY <2>1 DEF Done, Idle
    <3>2. Len(<<>>) = 0
      OBVIOUS
    <3> QED BY <3>1, <3>2
  <2>5. Tallied(w) = 0 /\ tx[w].tally.inserted - tx[w].tally.merges = 0 /\ tx[w].at = "idle"
    BY <2>1 DEF Tallied, Idle, NoFigures
  <2> HIDE DEF Born, Died, Tallied, Done
  <2> QED BY <2>1, <2>3, <2>4, <2>5 DEF FiguresOf, Stubbed
<1> QED BY <1>2, <1>3 DEF FiguresInv

\* The figures of the committed batches are exact: the books there are, those
\* inserted less those merged, and each record counted once, whatever was tried
\* again, failed or died in between.
THEOREM FiguresAddUp ==
  ASSUME LoaderAssumption
  PROVE  LoaderSpec => []FiguresExact
<1>1. LoaderInit => LoaderInv /\ FiguresInv
  BY InitLoaderInv, InitFigures
<1>2. LoaderInv /\ FiguresInv /\ [LoaderNext]_loaderVars => (LoaderInv /\ FiguresInv)'
  BY NextKeepsLoaderInv, NextKeepsFigures
<1>3. FiguresInv => FiguresExact
  BY DEF FiguresInv, TotalsInv, FiguresExact, Committed
<1> QED BY <1>1, <1>2, <1>3, PTL DEF LoaderSpec

(***************************************************************************)
(* Books and their sources, when a source's records are loaded in order    *)
(***************************************************************************)

SidsOf(w) == {tx[w].batch[n].sid : n \in DOMAIN tx[w].batch}

\* Two writers at a source load it again: it is stored.
SharedAreStored == \A v, w \in Writers : v # w => \A s \in SidsOf(v) \cap SidsOf(w) : disk[s] # None

BooksHaveSources == \A i \in Ids : disk[i] # None => \E s \in Sids : disk[s] # None /\ disk[s].book = i

\* In the eyes of w a source refers to the book.
Sourced(w, i) == \E s \in Sids : View(w, s) # None /\ View(w, s).book = i

\* The source in hand is new to w.
IsNew(w) == View(w, Record(w).sid) = None

\* A source that was moved left a book that is deleted; a book in hand without a
\* source is about to get the one in hand.
ProvenanceOf(w) ==
  /\ \A n \in DOMAIN tx[w].left : tx[w].left[n].sid \in SidsOf(w)
  /\ \A s \in Sids : lockedBy[s] = w /\ disk[s] = None => s \in SidsOf(w)
  /\ tx[w].at \in {"find", "insert", "adopt"} => IsNew(w)
  /\ tx[w].at = "upsert" => IsNew(w) \/ lockedBy[Record(w).sid] = w
  /\ \A s \in Sids : lockedBy[s] = w /\ disk[s] # None /\ disk[s].book # draft[s].book =>
       lockedBy[disk[s].book] = w /\ draft[disk[s].book] = None
  /\ \A i \in Ids : lockedBy[i] = w /\ draft[i] # None =>
       Sourced(w, i) \/ (tx[w].at = "upsert" /\ tx[w].book = i /\ IsNew(w))

ProvenanceInv == SharedAreStored /\ BooksHaveSources /\ \A w \in Writers : ProvenanceOf(w)

LEMMA HandIsOfBatch ==
  ASSUME WritersInv, NEW w \in Writers, ProvenanceOf(w), tx[w].at \notin {"idle", "commit"}
  PROVE  Record(w).sid \in SidsOf(w)
<1>1. tx[w].left \in Seq(CleanBooks) /\ tx[w].left # <<>>
  BY RecordIsClean
<1>2. 1 \in DOMAIN tx[w].left /\ Record(w) = tx[w].left[1]
  BY <1>1, EmptySeq, HeadTailProperties DEF Record
<1> QED BY <1>2 DEF ProvenanceOf

\* A book that w sees has a source that w sees.
LEMMA SeenBooksAreSourced ==
  ASSUME LoaderAssumption, LoaderInv, ProvenanceInv, NEW w \in Writers, NEW i \in Ids, View(w, i) # None
  PROVE  Sourced(w, i) \/ (tx[w].at = "upsert" /\ tx[w].book = i /\ IsNew(w))
<1> USE RowKinds DEF LoaderInv
<1>1. CASE lockedBy[i] = w
  BY <1>1 DEF ProvenanceInv, ProvenanceOf, View
<1>2. CASE lockedBy[i] # w
  <2>1. PICK s \in Sids : disk[s] # None /\ disk[s].book = i
    BY <1>2 DEF ProvenanceInv, BooksHaveSources, View
  <2>2. CASE lockedBy[s] = w
    <3>1. draft[s] # None /\ draft[s].book = i
      BY <1>2, <2>1, <2>2 DEF ProvenanceInv, ProvenanceOf, RowsInv, HeldSourcesHaveBooks
    <3> QED BY <2>2, <3>1 DEF Sourced, View
  <2>3. CASE lockedBy[s] # w
    BY <2>1, <2>3 DEF Sourced, View
  <2> QED BY <2>2, <2>3
<1> QED BY <1>1, <1>2

LEMMA OthersKeepProvenance ==
  ASSUME LoaderAssumption, LoaderInv, ProvenanceInv, NEW w \in Writers, Others(w), NEW v \in Writers, v # w,
         \A r \in Rows : lockedBy[r] # w => disk'[r] = disk[r],
         \A r \in Rows : disk'[r] \in {disk[r], draft[r]}
  PROVE  ProvenanceOf(v)'
<1> USE RowKinds DEF LoaderInv
<1>1. tx'[v] = tx[v] /\ Record(v)' = Record(v) /\ SidsOf(v)' = SidsOf(v) /\ ProvenanceOf(v) /\ ProvenanceOf(w)
  BY DEF Others, Record, SidsOf, ProvenanceInv
<1>2. \A r \in Rows : /\ lockedBy'[r] = v <=> lockedBy[r] = v
                      /\ lockedBy[r] = v => draft'[r] = draft[r] /\ disk'[r] = disk[r]
  BY DEF Others
<1>3. tx[v].at \notin {"idle", "commit"} => Record(v).sid \in Sids /\ Record(v).sid \in SidsOf(v)
  BY <1>1, RecordIsClean, HandIsOfBatch
<1>4. IsNew(v) /\ tx[v].at \notin {"idle", "commit"} => IsNew(v)'
  <2> SUFFICES ASSUME IsNew(v), tx[v].at \notin {"idle", "commit"}
               PROVE  IsNew(v)'
    OBVIOUS
  <2>1. PICK s \in Sids : s = Record(v).sid /\ s \in SidsOf(v) /\ View(v, s) = None
    BY <1>3 DEF IsNew
  <2>2. View(v, s)' = None
    <3>1. CASE lockedBy[s] = v
      BY <1>2, <2>1, <3>1 DEF View
    <3>2. CASE lockedBy[s] # v
      <4>1. disk[s] = None
        BY <2>1, <3>2 DEF View
      <4>2. lockedBy[s] # w
        BY <1>1, <2>1, <4>1 DEF ProvenanceOf, ProvenanceInv, SharedAreStored
      <4> QED BY <1>2, <3>2, <4>1, <4>2 DEF View
    <3> QED BY <3>1, <3>2
  <2> QED BY <1>1, <2>1, <2>2 DEF IsNew
<1>5. ASSUME NEW i \in Ids, lockedBy[i] = v, Sourced(v, i)
      PROVE  Sourced(v, i)'
  <2>1. PICK s \in Sids : View(v, s) # None /\ View(v, s).book = i
    BY <1>5 DEF Sourced
  <2>2. View(v, s)' # None /\ View(v, s)'.book = i
    <3>1. CASE lockedBy[s] = v
      BY <1>2, <2>1, <3>1 DEF View
    <3>2. CASE lockedBy[s] \notin {v, w}
      BY <1>2, <2>1, <3>2 DEF View
    <3>3. CASE lockedBy[s] = w
      <4>1. disk[s] # None /\ disk[s].book = i
        BY <2>1, <3>3 DEF View
      <4>2. draft[s] # None /\ draft[s].book = i
        BY <1>1, <1>5, <3>3, <4>1 DEF ProvenanceOf, RowsInv, HeldSourcesHaveBooks
      <4>3. disk'[s] # None /\ disk'[s].book = i
        BY <4>1, <4>2
      <4> QED BY <1>2, <3>3, <4>3 DEF View
    <3> QED BY <3>1, <3>2, <3>3
  <2> QED BY <2>2 DEF Sourced
<1>6. \A s \in Sids : lockedBy'[s] = v /\ disk'[s] = None => s \in SidsOf(v)
  BY <1>1, <1>2 DEF ProvenanceOf
<1>7. \A s \in Sids : lockedBy'[s] = v /\ disk'[s] # None /\ disk'[s].book # draft'[s].book =>
       lockedBy'[disk'[s].book] = v /\ draft'[disk'[s].book] = None
  <2> SUFFICES ASSUME NEW s \in Sids, lockedBy[s] = v, disk[s] # None, disk[s].book # draft[s].book
               PROVE  lockedBy'[disk[s].book] = v /\ draft'[disk[s].book] = None
    BY <1>2
  <2>1. disk[s].book \in Ids
    BY DEF RowsInv, RowsTyped
  <2> QED BY <1>1, <1>2, <2>1 DEF ProvenanceOf
<1>8. \A i \in Ids : lockedBy'[i] = v /\ draft'[i] # None =>
       Sourced(v, i)' \/ (tx'[v].at = "upsert" /\ tx'[v].book = i /\ IsNew(v)')
  BY <1>1, <1>2, <1>4, <1>5 DEF ProvenanceOf
<1>9. \A n \in DOMAIN tx'[v].left : tx'[v].left[n].sid \in SidsOf(v)'
  BY <1>1 DEF ProvenanceOf
<1>10. /\ tx'[v].at \in {"find", "insert", "adopt"} => IsNew(v)'
       /\ tx'[v].at = "upsert" => IsNew(v)' \/ lockedBy'[Record(v)'.sid] = v
  BY <1>1, <1>2, <1>3, <1>4 DEF ProvenanceOf
<1> HIDE DEF SidsOf, IsNew, Sourced, Record
<1> QED BY <1>1, <1>6, <1>7, <1>8, <1>9, <1>10 DEF ProvenanceOf

\* What holds of the rows after a statement that keeps the sources, and the
\* books but one that w sees, or creates.
LEMMA KeptProvenance ==
  ASSUME LoaderAssumption, LoaderInv, ProvenanceInv, NEW w \in Writers, NEW but, BooksKeptBut(w, but), SourcesKept(w),
         but \in Ids /\ lockedBy[but] = w => draft[but] # None, disk' = disk, tx'[w].batch = tx[w].batch
  PROVE  /\ \A s \in Sids : lockedBy'[s] = w /\ disk'[s] = None => s \in SidsOf(w)'
         /\ \A s \in Sids : lockedBy'[s] = w /\ disk'[s] # None /\ disk'[s].book # draft'[s].book =>
              lockedBy'[disk'[s].book] = w /\ draft'[disk'[s].book] = None
         /\ \A i \in Ids \ {but} : lockedBy'[i] = w /\ draft'[i] # None =>
              Sourced(w, i)' \/ (tx[w].at = "upsert" /\ tx[w].book = i /\ IsNew(w))
<1> USE RowKinds DEF LoaderInv
<1>1. ProvenanceOf(w) /\ SidsOf(w)' = SidsOf(w)
  BY DEF SidsOf, ProvenanceInv
<1>2. \A s \in Sids : lockedBy'[s] = w /\ disk'[s] = None => s \in SidsOf(w)'
  BY <1>1 DEF SourcesKept, ProvenanceOf
<1>3. ASSUME NEW s \in Sids, lockedBy'[s] = w, disk[s] # None, disk[s].book # draft'[s].book
      PROVE  lockedBy'[disk[s].book] = w /\ draft'[disk[s].book] = None
  <2>1. lockedBy[s] = w /\ draft'[s] = draft[s]
    BY <1>3 DEF SourcesKept, View
  <2>2. lockedBy[disk[s].book] = w /\ draft[disk[s].book] = None /\ disk[s].book \in Ids
    BY <1>1, <1>3, <2>1 DEF ProvenanceOf, RowsInv, RowsTyped
  <2> QED BY <2>2 DEF BooksKeptBut
<1>4. ASSUME NEW i \in Ids \ {but}, lockedBy'[i] = w, draft'[i] # None
      PROVE  Sourced(w, i)' \/ (tx[w].at = "upsert" /\ tx[w].book = i /\ IsNew(w))
  <2>1. View(w, i) # None
    BY <1>4 DEF BooksKeptBut, View
  <2>2. Sourced(w, i) => Sourced(w, i)'
    BY DEF Sourced, SourcesKept
  <2> QED BY <2>1, <2>2, SeenBooksAreSourced
<1> QED BY <1>2, <1>3, <1>4

\* The records left are of the batch, and the one in hand stays so.
LEMMA KeepsBatch ==
  ASSUME WritersInv, ProvenanceInv, NEW w \in Writers, Keeps(w), tx[w].at \notin {"idle", "commit"}
  PROVE  /\ \A n \in DOMAIN tx'[w].left : tx'[w].left[n].sid \in SidsOf(w)'
         /\ SidsOf(w)' = SidsOf(w) /\ Record(w)' = Record(w) /\ Record(w).sid \in SidsOf(w) /\ Record(w).sid \in Sids
<1>1. ProvenanceOf(w) /\ SidsOf(w)' = SidsOf(w) /\ Record(w)' = Record(w)
  BY DEF ProvenanceInv, SidsOf, Record, Keeps
<1>2. \A n \in DOMAIN tx'[w].left : tx'[w].left[n].sid \in SidsOf(w)'
  BY <1>1 DEF ProvenanceOf, Keeps
<1> QED BY <1>1, <1>2, HandIsOfBatch, RecordIsClean

LEMMA KeptStatementsProve ==
  ASSUME LoaderAssumption, LoaderInv, ProvenanceInv, NEW w \in Writers, Kept(w)
  PROVE  ProvenanceOf(w)'
<1> USE RowKinds DEF LoaderInv
<1>1. /\ BooksKeptBut(w, None) /\ SourcesKept(w) /\ Keeps(w) /\ disk' = disk /\ Progress(w) /\ ProvenanceOf(w) /\ Hand(w)
      /\ tx'[w].batch = tx[w].batch /\ tx[w].at \notin {"idle", "commit", "upsert"}
  BY DEF Kept, Keeps, Progress, ProvenanceInv, WritersInv
<1>2. PICK sid \in Sids : sid = Record(w).sid /\ Record(w)' = Record(w)
  BY <1>1, KeepsBatch
<1>3. View(w, sid)' = View(w, sid) /\ (lockedBy[sid] = w => lockedBy'[sid] = w)
  BY <1>1 DEF SourcesKept
<1>4. IsNew(w)' <=> View(w, sid)' = None
  BY <1>2 DEF IsNew
<1>5. /\ tx'[w].at \in {"find", "insert", "adopt"} => View(w, sid) = None
      /\ tx'[w].at = "upsert" => View(w, sid) = None \/ lockedBy'[sid] = w
  <2>1. tx[w].at \in {"find", "insert", "adopt"} => View(w, sid) = None
    BY <1>1, <1>2 DEF ProvenanceOf, IsNew
  <2>2. tx[w].at \in {"current", "promote", "lock", "lockOther"} => lockedBy[sid] = w
    BY <1>1, <1>2 DEF Hand, HasSource
  <2> QED BY <1>1, <1>2, <1>3, <2>1, <2>2 DEF Progress
<1>6. /\ \A s \in Sids : lockedBy'[s] = w /\ disk'[s] = None => s \in SidsOf(w)'
      /\ \A s \in Sids : lockedBy'[s] = w /\ disk'[s] # None /\ disk'[s].book # draft'[s].book =>
           lockedBy'[disk'[s].book] = w /\ draft'[disk'[s].book] = None
      /\ \A i \in Ids : lockedBy'[i] = w /\ draft'[i] # None => Sourced(w, i)'
  <2>1. None \notin Ids
    OBVIOUS
  <2> QED BY <1>1, <2>1, KeptProvenance
<1>7. \A n \in DOMAIN tx'[w].left : tx'[w].left[n].sid \in SidsOf(w)'
  BY <1>1, KeepsBatch
<1> HIDE DEF IsNew, Sourced, SidsOf
<1> QED BY <1>2, <1>3, <1>4, <1>5, <1>6, <1>7 DEF ProvenanceOf

\* A new book is in hand, and its first source with it.
LEMMA InsertProves ==
  ASSUME LoaderAssumption, LoaderInv, ProvenanceInv, NEW w \in Writers, Insert(w),
         Keyed(w, identity_key(Record(w))) = {}
  PROVE  ProvenanceOf(w)'
<1> USE RowKinds DEF LoaderInv
<1>1. tx[w].at = "insert" /\ disk' = disk /\ ProvenanceOf(w)
  BY DEF Insert, At, Same, ProvenanceInv
<1>2. PICK stub : stub = [identity_key |-> identity_key(Record(w)), isbn13 |-> Record(w).isbn13, content |-> {}]
  OBVIOUS
<1>3. Fresh \subseteq Nat /\ Fresh \subseteq Ids /\ Fresh # {}
  BY DEF Fresh, Insert
<1>4. PICK i \in Fresh : i = Min(Fresh)
  BY <1>3, MinIsFirst
<1>5. i \in Ids /\ lockedBy[i] = None
  BY <1>3 DEF Fresh
<1>6. /\ WriteBook(w, i, stub)
      /\ tx' = [tx EXCEPT ![w].at = "upsert", ![w].book = i, ![w].tally.inserted = @ + 1]
  BY <1>2, <1>4 DEF Insert
<1>7. BooksKeptBut(w, i) /\ SourcesKept(w)
  <2> DEFINE new == [b \in {i} |-> stub]
  <2>1. Write(w, new) /\ DOMAIN new = {i} /\ new[i] = stub
    BY <1>6 DEF WriteBook
  <2> HIDE DEF new
  <2>2. BooksKeptBut(w, i)
    BY <1>5, <2>1, WriteKeepsBooks
  <2> QED BY <1>1, <1>5, <1>6, <2>2, WriteBookKeepsSources
<1>8. Keeps(w) /\ tx'[w].at = "upsert" /\ tx'[w].book = i
  <2>1. PICK t \in Transactions : t = tx[w]
    BY DEF WritersInv
  <2>2. /\ tx'[w] = [t EXCEPT !.at = "upsert", !.book = i, !.tally.inserted = @ + 1]
        /\ \A v \in Writers \ {w} : tx'[v] = tx[v]
    BY <1>6, <2>1 DEF WritersInv
  <2>3. tx' \in [Writers -> Transactions]
    BY InsertSteps DEF Stepped
  <2> QED BY <2>1, <2>2, <2>3 DEF Transactions, Keeps
<1>9. PICK sid \in Sids : sid = Record(w).sid /\ Record(w)' = Record(w) /\ View(w, sid) = None
  BY <1>1, <1>8, KeepsBatch DEF ProvenanceOf, IsNew
<1>10. IsNew(w)'
  BY <1>7, <1>9 DEF IsNew, SourcesKept
<1>11. /\ \A s \in Sids : lockedBy'[s] = w /\ disk'[s] = None => s \in SidsOf(w)'
       /\ \A s \in Sids : lockedBy'[s] = w /\ disk'[s] # None /\ disk'[s].book # draft'[s].book =>
            lockedBy'[disk'[s].book] = w /\ draft'[disk'[s].book] = None
       /\ \A j \in Ids \ {i} : lockedBy'[j] = w /\ draft'[j] # None => Sourced(w, j)'
  <2>1. lockedBy[i] = w => draft[i] # None
    BY <1>5
  <2>2. tx'[w].batch = tx[w].batch /\ tx[w].at # "upsert"
    BY <1>1, <1>8 DEF Keeps
  <2> QED BY <1>1, <1>7, <2>1, <2>2, KeptProvenance
<1>12. \A n \in DOMAIN tx'[w].left : tx'[w].left[n].sid \in SidsOf(w)'
  BY <1>1, <1>8, KeepsBatch
<1> HIDE DEF IsNew, Sourced, SidsOf
<1> QED BY <1>8, <1>10, <1>11, <1>12 DEF ProvenanceOf

LEMMA ReplayProves ==
  ASSUME LoaderAssumption, LoaderInv, ProvenanceInv, NEW w \in Writers, Replay(w)
  PROVE  ProvenanceOf(w)'
<1> USE RowKinds DEF LoaderInv
<1>1. tx[w].at = "replay" /\ disk' = disk /\ draft' = draft /\ lockedBy' = lockedBy
  BY DEF Replay, At, Reads, Same
<1>2. Keeps(w) /\ tx'[w].at = "write"
  <2>0. PICK row : row = View(w, tx[w].book)
    OBVIOUS
  <2>1. PICK t \in Transactions : t = tx[w]
    BY DEF WritersInv
  <2>2. tx' \in [Writers -> Transactions] /\ \A v \in Writers \ {w} : tx'[v] = tx[v]
    BY ReplaySteps DEF Stepped, Others
  <2>3. tx'[w] = [t EXCEPT !.at = "write", !.saw = Evidence(w), !.had = row.content, !.key = row.identity_key]
    BY <2>0, <2>1 DEF Replay, WritersInv
  <2> QED BY <2>1, <2>2, <2>3 DEF Transactions, Keeps
<1>3. /\ \A s \in Sids : lockedBy'[s] = w /\ disk'[s] = None => s \in SidsOf(w)'
      /\ \A s \in Sids : lockedBy'[s] = w /\ disk'[s] # None /\ disk'[s].book # draft'[s].book =>
           lockedBy'[disk'[s].book] = w /\ draft'[disk'[s].book] = None
      /\ \A i \in Ids : lockedBy'[i] = w /\ draft'[i] # None => Sourced(w, i)'
  <2>1. None \notin Ids
    OBVIOUS
  <2>2. tx'[w].batch = tx[w].batch
    BY <1>2 DEF Keeps
  <2> QED BY <1>1, <2>1, <2>2, KeptProvenance, ReadKeepsBooks, ReadKeepsSources
<1>4. \A n \in DOMAIN tx'[w].left : tx'[w].left[n].sid \in SidsOf(w)'
  BY <1>1, <1>2, KeepsBatch
<1> HIDE DEF IsNew, Sourced, SidsOf
<1> QED BY <1>2, <1>3, <1>4 DEF ProvenanceOf

LEMMA RecomputeProves ==
  ASSUME LoaderAssumption, LoaderInv, ProvenanceInv, NEW w \in Writers, Recompute(w), ~Fails(w)
  PROVE  ProvenanceOf(w)'
<1> USE RowKinds DEF LoaderInv
<1>1. tx[w].at = "write" /\ Blockers(w) = {} /\ HasSource(w) /\ disk' = disk /\ ProvenanceOf(w)
  BY DEF Recompute, At, WritersInv, Hand, ProvenanceInv, Reads, Same
<1>2. PICK book \in Ids : book = tx[w].book /\ View(w, book) # None
  BY <1>1, BookInHand
<1>3. PICK tally \in Tallies : Onwards(w, tally)
  BY CountedIsTyped DEF Recompute
<1>4. PICK t \in Transactions : t = tx[w] /\ t.left \in Seq(CleanBooks) /\ t.left # <<>>
  BY <1>1, RecordIsClean DEF WritersInv
<1>5. tx'[w].at \in {"commit", "source"} /\ tx'[w].batch = t.batch /\ tx'[w].left = Tail(t.left)
  BY <1>1, <1>3, <1>4, GoingOnwards
<1>6. \A n \in DOMAIN tx'[w].left : tx'[w].left[n].sid \in SidsOf(w)'
  <2>1. SidsOf(w)' = SidsOf(w)
    BY <1>4, <1>5 DEF SidsOf
  <2> SUFFICES ASSUME NEW n \in DOMAIN Tail(t.left)
               PROVE  Tail(t.left)[n].sid \in SidsOf(w)
    BY <1>5, <2>1
  <2>2. Len(t.left) \in Nat /\ DOMAIN t.left = 1..Len(t.left)
    BY <1>4
  <2>3. n \in 1..(Len(t.left) - 1) /\ Tail(t.left)[n] = t.left[n + 1]
    BY <1>4, HeadTailProperties
  <2>4. n + 1 \in DOMAIN t.left
    BY <2>2, <2>3
  <2> QED BY <1>1, <1>4, <2>3, <2>4 DEF ProvenanceOf
<1>7. PICK but \in Ids \cup {None} : BooksKeptBut(w, but) /\ SourcesKept(w) /\ (but # None => but = book)
  <2>1. CASE tx[w].saw = tx[w].had
    <3>1. draft' = draft /\ lockedBy' = lockedBy
      BY <2>1 DEF Recompute, Reads
    <3> QED BY <1>1, <3>1, ReadKeepsBooks, ReadKeepsSources
  <2>2. CASE tx[w].saw # tx[w].had
    <3>1. PICK row : WriteBook(w, book, row)
      BY <1>2, <2>2 DEF Recompute
    <3>2. lockedBy[book] \in {None, w}
      BY <1>1, <1>2, <2>2, NobodyElseHolds DEF Touched
    <3> DEFINE new == [b \in {book} |-> row]
    <3>3. Write(w, new) /\ DOMAIN new = {book}
      BY <3>1 DEF WriteBook
    <3> HIDE DEF new
    <3>4. BooksKeptBut(w, book)
      BY <3>2, <3>3, WriteKeepsBooks
    <3> QED BY <1>1, <1>2, <3>1, <3>4, WriteBookKeepsSources
  <2> QED BY <2>1, <2>2
<1>8. /\ \A s \in Sids : lockedBy'[s] = w /\ disk'[s] = None => s \in SidsOf(w)'
      /\ \A s \in Sids : lockedBy'[s] = w /\ disk'[s] # None /\ disk'[s].book # draft'[s].book =>
           lockedBy'[disk'[s].book] = w /\ draft'[disk'[s].book] = None
      /\ \A i \in Ids \ {but} : lockedBy'[i] = w /\ draft'[i] # None => Sourced(w, i)'
  <2>1. but \in Ids /\ lockedBy[but] = w => draft[but] # None
    BY <1>2, <1>7 DEF View
  <2>2. tx'[w].batch = tx[w].batch /\ tx[w].at # "upsert"
    BY <1>1, <1>4, <1>5
  <2> QED BY <1>1, <1>7, <2>1, <2>2, KeptProvenance
<1>9. Sourced(w, book)'
  <2>1. PICK sid \in Sids : sid = Record(w).sid
    BY <1>1, RecordIsClean
  <2>2. View(w, sid) # None /\ View(w, sid).book = book
    BY <1>1, <1>2, <2>1, BookInHand DEF HasSource
  <2>3. View(w, sid)' # None /\ View(w, sid)'.book = book
    BY <1>7, <2>2 DEF SourcesKept
  <2> QED BY <2>3 DEF Sourced
<1> HIDE DEF IsNew, Sourced, SidsOf
<1> QED BY <1>5, <1>6, <1>7, <1>8, <1>9 DEF ProvenanceOf

\* The sources of the orphan go to the survivor, which has the one in hand.
LEMMA MoveProves ==
  ASSUME LoaderAssumption, LoaderInv, ProvenanceInv, NEW w \in Writers, Move(w), ~Fails(w)
  PROVE  ProvenanceOf(w)'
<1> USE RowKinds DEF LoaderInv
<1>1. tx[w].at = "move" /\ Blockers(w) = {} /\ HasSource(w) /\ Hand(w) /\ ProvenanceOf(w)
  BY DEF Move, At, WritersInv, Hand, ProvenanceInv
<1>2. PICK book \in Ids : book = tx[w].book
  BY <1>1, BookInHand
<1>3. PICK survivor \in Ids \ {book} : survivor = tx[w].survivor
  BY <1>1, <1>2 DEF Hand
<1>4. /\ Write(w, Merged(w)) /\ disk' = disk /\ View(w, survivor) # None
      /\ tx' = [tx EXCEPT ![w].at = "upsert", ![w].book = survivor, ![w].survivor = None, ![w].tally.merges = @ + 1]
  BY <1>2, <1>3 DEF Move, Same
<1>5. lockedBy[book] = w /\ lockedBy[survivor] = w /\ draft[survivor] # None
  BY <1>1, <1>2, <1>3, <1>4, BookInHand DEF Hand, Gone, View
<1>6. \A s \in SourcesOf(w, book) : lockedBy[s] \in {None, w}
  BY <1>1, <1>2, NobodyElseHolds DEF Touched
<1>7. /\ \A s \in SourcesOf(w, book) : lockedBy'[s] = w /\ draft'[s] = [View(w, s) EXCEPT !.book = survivor]
      /\ lockedBy'[book] = w /\ draft'[book] = None
      /\ \A r \in Rows : r # book /\ r \notin SourcesOf(w, book) => draft'[r] = draft[r] /\ lockedBy'[r] = lockedBy[r]
  BY <1>2, <1>3, <1>4, <1>5, <1>6, MergeKeepsRows
<1>8. \A s \in SourcesOf(w, book) : draft'[s].book = survivor
  <2> SUFFICES ASSUME NEW s \in SourcesOf(w, book) PROVE draft'[s].book = survivor
    OBVIOUS
  <2>1. PICK row \in SourceRows : row = View(w, s)
    BY ViewIsTyped DEF SourcesOf
  <2>2. [row EXCEPT !.book = survivor].book = survivor
    BY DEF SourceRows
  <2> QED BY <1>7, <2>1, <2>2
<1>9. Keeps(w) /\ tx'[w].at = "upsert" /\ tx'[w].book = survivor
  <2>1. PICK t \in Transactions : t = tx[w]
    BY DEF WritersInv
  <2>2. tx'[w] = [t EXCEPT !.at = "upsert", !.book = survivor, !.survivor = None, !.tally.merges = @ + 1]
    BY <1>4, <2>1 DEF WritersInv
  <2>3. tx' \in [Writers -> Transactions] /\ \A v \in Writers \ {w} : tx'[v] = tx[v]
    BY MoveSteps DEF Stepped, Others
  <2> QED BY <2>1, <2>2, <2>3 DEF Transactions, Keeps
<1>10. /\ \A n \in DOMAIN tx'[w].left : tx'[w].left[n].sid \in SidsOf(w)'
       /\ SidsOf(w)' = SidsOf(w) /\ Record(w)' = Record(w)
  BY <1>1, <1>9, KeepsBatch
<1>11. PICK sid \in Sids : sid = Record(w).sid /\ sid \in SourcesOf(w, book) /\ lockedBy'[sid] = w
  <2>1. PICK s \in Sids : s = Record(w).sid
    BY <1>1, RecordIsClean
  <2>2. s \in SourcesOf(w, book)
    BY <1>1, <1>2, <2>1, BookInHand DEF HasSource, SourcesOf
  <2> QED BY <1>7, <2>1, <2>2
<1>12. \A s \in Sids : /\ s \in SourcesOf(w, book) <=> View(w, s) # None /\ View(w, s).book = book
                       /\ s # book /\ s # survivor
  BY DEF SourcesOf
<1>13. \A s \in Sids : lockedBy'[s] = w /\ disk'[s] = None => s \in SidsOf(w)'
  <2> SUFFICES ASSUME NEW s \in Sids, lockedBy'[s] = w, disk[s] = None PROVE s \in SidsOf(w)
    BY <1>4, <1>10
  <2>1. lockedBy[s] = w
    BY <1>6, <1>7, <1>12 DEF View
  <2> QED BY <1>1, <2>1 DEF ProvenanceOf
<1>14. \A s \in Sids : lockedBy'[s] = w /\ disk'[s] # None /\ disk'[s].book # draft'[s].book =>
         lockedBy'[disk'[s].book] = w /\ draft'[disk'[s].book] = None
  <2> SUFFICES ASSUME NEW s \in Sids, lockedBy'[s] = w, disk[s] # None, disk[s].book # draft'[s].book
               PROVE  lockedBy'[disk[s].book] = w /\ draft'[disk[s].book] = None
    BY <1>4
  <2>1. PICK old \in Ids : old = disk[s].book
    BY DEF RowsInv, RowsTyped
  <2>2. CASE old = book
    BY <1>7, <2>1, <2>2
  <2>3. CASE old # book
    <3>1. lockedBy[s] = w /\ disk[s].book # draft[s].book
      <4>1. CASE s \in SourcesOf(w, book)
        BY <1>6, <1>12, <2>1, <2>3, <4>1 DEF View
      <4>2. CASE s \notin SourcesOf(w, book)
        BY <1>7, <1>12, <4>2
      <4> QED BY <4>1, <4>2
    <3>2. lockedBy[old] = w /\ draft[old] = None
      BY <1>1, <2>1, <3>1 DEF ProvenanceOf
    <3>3. old \notin SourcesOf(w, book)
      BY DEF SourcesOf
    <3> QED BY <1>7, <2>1, <2>3, <3>2, <3>3
  <2> QED BY <2>2, <2>3
<1>15. ASSUME NEW i \in Ids, lockedBy'[i] = w, draft'[i] # None
       PROVE  Sourced(w, i)'
  <2>1. CASE i = survivor
    <3>1. View(w, sid)' # None /\ View(w, sid)'.book = survivor
      <4>1. draft'[sid] # None
        BY <1>11, MoveSteps DEF Stepped, RowsInv, HeldSourcesHaveBooks
      <4> QED BY <1>8, <1>11, <4>1 DEF View
    <3> QED BY <2>1, <3>1 DEF Sourced
  <2>2. CASE i # survivor
    <3>1. i # book /\ i \notin SourcesOf(w, book)
      BY <1>7, <1>15 DEF SourcesOf
    <3>2. View(w, i) # None
      BY <1>7, <1>15, <3>1 DEF View
    <3>3. PICK s \in Sids : View(w, s) # None /\ View(w, s).book = i
      BY <1>1, <3>2, SeenBooksAreSourced DEF Sourced
    <3>4. s \notin SourcesOf(w, book)
      BY <1>12, <3>1, <3>3
    <3>5. View(w, s)' = View(w, s)
      BY <1>4, <1>7, <1>12, <3>4 DEF View
    <3> QED BY <3>3, <3>5 DEF Sourced
  <2> QED BY <2>1, <2>2
<1> HIDE DEF IsNew, Sourced, SidsOf
<1> QED BY <1>9, <1>10, <1>11, <1>13, <1>14, <1>15 DEF ProvenanceOf

\* The source in hand refers to the book in hand: it is new, or did before.
LEMMA UpsertSourceProves ==
  ASSUME LoaderAssumption, LoaderInv, ProvenanceInv, NEW w \in Writers, UpsertSource(w), ~Fails(w)
  PROVE  ProvenanceOf(w)'
<1> USE RowKinds DEF LoaderInv
<1>1. tx[w].at = "upsert" /\ Blockers(w) = {} /\ Hand(w) /\ ProvenanceOf(w)
  BY DEF UpsertSource, At, WritersInv, ProvenanceInv
<1>2. PICK sid \in Sids : sid = Record(w).sid
  BY <1>1, RecordIsClean
<1>3. PICK book \in Ids : book = tx[w].book
  BY <1>1 DEF Hand
<1>4. PICK row : row = [book |-> book, record |-> Record(w)]
  OBVIOUS
<1>5. /\ View(w, book) # None /\ Write(w, [r \in Touched(w) |-> IF r = sid THEN row ELSE View(w, r)])
      /\ Goto(w, "replay") /\ disk' = disk
  BY <1>2, <1>3, <1>4 DEF UpsertSource, Same
<1>6. Keeps(w) /\ tx'[w].at = "replay"
  BY <1>5, GoingOn DEF Statements, Goto
<1>7. /\ \A n \in DOMAIN tx'[w].left : tx'[w].left[n].sid \in SidsOf(w)'
      /\ SidsOf(w)' = SidsOf(w) /\ sid \in SidsOf(w)
  BY <1>1, <1>2, <1>6, KeepsBatch
<1>8. Touched(w) = {sid} \cup IF Refers(w) THEN {} ELSE {book}
  BY <1>1, <1>2, <1>3 DEF Touched
<1>9. \A r \in Touched(w) : lockedBy[r] \in {None, w}
  BY <1>1, NobodyElseHolds
<1>10. /\ lockedBy'[sid] = w /\ draft'[sid] = row /\ row.book = book /\ row # None
       /\ \A r \in Rows : r # sid /\ r # book => draft'[r] = draft[r] /\ lockedBy'[r] = lockedBy[r]
       /\ \/ draft'[book] = draft[book] /\ lockedBy'[book] = lockedBy[book]
          \/ draft'[book] = View(w, book) /\ lockedBy'[book] = w /\ lockedBy[book] \in {None, w}
  <2>1. row # None
    BY <1>1, <1>4, RecordIsClean DEF SourceRows
  <2> QED BY <1>4, <1>5, <1>8, <1>9, <2>1 DEF Write
<1>11. disk[sid] # None => lockedBy[sid] = w /\ draft[sid].book = book
  <2> SUFFICES ASSUME disk[sid] # None PROVE lockedBy[sid] = w /\ draft[sid].book = book
    OBVIOUS
  <2>1. lockedBy[sid] \in {None, w}
    BY <1>8, <1>9
  <2>2. View(w, sid) # None
    BY <2>1 DEF View, RowsInv, HeldSourcesHaveBooks
  <2>3. lockedBy[sid] = w
    BY <1>1, <1>2, <2>2 DEF ProvenanceOf, IsNew
  <2> QED BY <1>1, <1>2, <1>3, <2>3 DEF Hand, HasSource
<1>12. \A s \in Sids : lockedBy'[s] = w /\ disk'[s] = None => s \in SidsOf(w)'
  BY <1>1, <1>5, <1>7, <1>10 DEF ProvenanceOf
<1>13. \A s \in Sids : lockedBy'[s] = w /\ disk'[s] # None /\ disk'[s].book # draft'[s].book =>
         lockedBy'[disk'[s].book] = w /\ draft'[disk'[s].book] = None
  <2> SUFFICES ASSUME NEW s \in Sids, lockedBy'[s] = w, disk[s] # None, disk[s].book # draft'[s].book
               PROVE  lockedBy'[disk[s].book] = w /\ draft'[disk[s].book] = None
    BY <1>5
  <2>1. PICK old \in Ids : old = disk[s].book
    BY DEF RowsInv, RowsTyped
  <2>2. lockedBy[s] = w /\ disk[s].book # draft[s].book
    BY <1>10, <1>11
  <2>3. lockedBy[old] = w /\ draft[old] = None
    BY <1>1, <2>1, <2>2 DEF ProvenanceOf
  <2>4. old # book
    BY <1>5, <2>3 DEF View
  <2> QED BY <1>10, <2>1, <2>3, <2>4
<1>14. ASSUME NEW i \in Ids, lockedBy'[i] = w, draft'[i] # None
       PROVE  Sourced(w, i)'
  <2>1. CASE i = book
    <3>1. View(w, sid)' # None /\ View(w, sid)'.book = book
      BY <1>10 DEF View
    <3> QED BY <2>1, <3>1 DEF Sourced
  <2>2. CASE i # book
    <3>1. View(w, i) # None
      BY <1>10, <1>14, <2>2 DEF View
    <3>2. PICK s \in Sids : View(w, s) # None /\ View(w, s).book = i
      BY <1>3, <2>2, <3>1, SeenBooksAreSourced DEF Sourced
    <3>3. s # sid
      <4>1. View(w, sid) # None => View(w, sid).book = book
        BY <1>1, <1>2, <1>3 DEF ProvenanceOf, IsNew, Hand, HasSource, View
      <4> QED BY <2>2, <3>2, <4>1
    <3>4. View(w, s)' = View(w, s)
      BY <1>5, <1>10, <3>3 DEF View
    <3> QED BY <3>2, <3>4 DEF Sourced
  <2> QED BY <2>1, <2>2
<1> HIDE DEF IsNew, Sourced, SidsOf
<1> QED BY <1>6, <1>7, <1>12, <1>13, <1>14 DEF ProvenanceOf

\* A writer that starts on a batch, or ends, holds nothing.
LEMMA NothingHeldProves ==
  ASSUME NEW w \in Writers, \A r \in Rows : lockedBy'[r] # w, tx'[w].left = tx'[w].batch,
         tx'[w].at \in {"idle", "source"}
  PROVE  ProvenanceOf(w)'
<1>1. Ids \subseteq Rows /\ Sids \subseteq Rows
  BY DEF Rows
<1>2. \A n \in DOMAIN tx'[w].left : tx'[w].left[n].sid \in SidsOf(w)'
  BY DEF SidsOf
<1> HIDE DEF SidsOf
<1> QED BY <1>1, <1>2 DEF ProvenanceOf

\* A batch is taken up at the start, and given up at the end.
LEMMA BatchStays ==
  ASSUME LoaderAssumption, LoaderInv, NEW w \in Writers, Advance(w) \/ Crash(w)
  PROVE  tx'[w].batch \in {tx[w].batch, <<>>}
<1> USE DEF LoaderInv
<1>1. PICK t \in Transactions : t = tx[w]
  BY DEF WritersInv
<1>2. Idle.batch = <<>> /\ AttemptedAnew(w).batch = t.batch
  BY <1>1 DEF Idle, AttemptedAnew
<1>3. CASE Fails(w) \/ CommitBatch(w)
  BY <1>2, <1>3 DEF Fails, CommitBatch, WritersInv
<1>4. CASE Victim(w)
  <2>1. tx'[w] \in {AttemptedAnew(w), Idle}
    BY <1>4 DEF Victim, WritersInv
  <2> QED BY <1>1, <1>2, <2>1
<1>5. CASE ~Fails(w) /\ (LockSource(w) \/ Find(w) \/ Adopt(w) \/ Reconcile(w) \/ Promote(w) \/ Lock(w))
  BY <1>5, KeptStatements DEF Kept, Keeps
<1>6. CASE ~Fails(w) /\ (Insert(w) \/ Move(w))
  BY <1>6 DEF Insert, Move, Goto, WritersInv, Transactions
<1>7. CASE ~Fails(w) /\ UpsertSource(w)
  BY <1>7 DEF UpsertSource, Goto, WritersInv, Transactions
<1>8. CASE Replay(w)
  <2>1. tx'[w].batch = t.batch
    BY <1>1, <1>8 DEF Replay, WritersInv, Transactions
  <2> QED BY <1>1, <2>1
<1>9. CASE ~Fails(w) /\ Recompute(w)
  <2>1. PICK tally : Onwards(w, tally)
    BY <1>9 DEF Recompute
  <2>2. tx'[w].batch = t.batch
    BY <1>1, <2>1 DEF Onwards, WritersInv, Transactions
  <2> QED BY <1>1, <2>2
<1> QED BY <1>3, <1>4, <1>5, <1>6, <1>7, <1>8, <1>9 DEF Advance, Crash

LEMMA RollBackProves ==
  ASSUME LoaderAssumption, LoaderInv, NEW w \in Writers, RolledBack(w),
         \/ tx' = [tx EXCEPT ![w] = Idle]
         \/ tx' = [tx EXCEPT ![w] = AttemptedAnew(w)]
  PROVE  ProvenanceOf(w)'
<1>1. \A r \in Rows : lockedBy'[r] # w
  BY RowKinds DEF RolledBack
<1>2. tx'[w] \in {Idle, AttemptedAnew(w)}
  BY DEF LoaderInv, WritersInv
<1>3. \A next \in {Idle, AttemptedAnew(w)} : next.left = next.batch /\ next.at \in {"idle", "source"}
  <2>1. Idle.left = Idle.batch /\ Idle.at = "idle"
    BY DEF Idle
  <2>2. AttemptedAnew(w).left = AttemptedAnew(w).batch /\ AttemptedAnew(w).at = "source"
    BY DEF Idle, AttemptedAnew
  <2> QED BY <2>1, <2>2
<1> QED BY <1>1, <1>2, <1>3, NothingHeldProves

LEMMA CommitProves ==
  ASSUME LoaderAssumption, LoaderInv, ProvenanceInv, NEW w \in Writers, CommitBatch(w)
  PROVE  BooksHaveSources' /\ ProvenanceOf(w)'
<1> USE RowKinds DEF LoaderInv
<1>1. \A r \in Rows : disk'[r] = View(w, r) /\ lockedBy'[r] # w
  BY DEF CommitBatch, View
<1>2. tx'[w] = Idle /\ tx[w].at = "commit"
  BY DEF CommitBatch, At, WritersInv
<1>3. ProvenanceOf(w)'
  <2>1. Idle.left = Idle.batch /\ Idle.at = "idle"
    BY DEF Idle
  <2> QED BY <1>1, <1>2, <2>1, NothingHeldProves
<1>4. BooksHaveSources'
  <2> SUFFICES ASSUME NEW i \in Ids, View(w, i) # None
               PROVE  \E s \in Sids : View(w, s) # None /\ View(w, s).book = i
    BY <1>1 DEF BooksHaveSources
  <2>1. Sourced(w, i)
    BY <1>2, SeenBooksAreSourced
  <2> QED BY <2>1 DEF Sourced
<1> QED BY <1>3, <1>4

\* Where the records of a source are loaded in order, a batch that shares one
\* with another finds it stored.
LEMMA SharedStayStored ==
  ASSUME LoaderAssumption, ~Hurried, LoaderInv, SharedAreStored, NEW w \in Writers,
         BeginBatch(w) \/ Advance(w) \/ Crash(w)
  PROVE  SharedAreStored'
<1>1. /\ \A v \in Writers \ {w} : SidsOf(v)' = SidsOf(v)
      /\ \A s \in Sids : disk[s] # None => disk'[s] # None
  BY LoaderSteps DEF Stepped, Others, SidsOf
<1>2. \A v \in Writers : SidsOf(v) \subseteq Sids
  BY DEF SidsOf, LoaderInv, WritersInv, Transactions, Sids
<1>3. \A v \in Writers \ {w} : \A s \in SidsOf(v) \cap SidsOf(w)' : disk'[s] # None
  <2>1. CASE BeginBatch(w)
    <3>1. PICK batch \in Batches :
            InOrder(w, batch) /\ tx' = [tx EXCEPT ![w].at = "source", ![w].batch = batch, ![w].left = batch]
      BY <2>1 DEF BeginBatch
    <3>2. tx'[w].batch = batch /\ disk' = disk
      <4>1. PICK t \in Transactions : t = tx[w]
        BY DEF LoaderInv, WritersInv
      <4>2. tx'[w] = [t EXCEPT !.at = "source", !.batch = batch, !.left = batch]
        BY <3>1, <4>1 DEF LoaderInv, WritersInv
      <4> QED BY <2>1, <4>2 DEF Transactions, BeginBatch
    <3>3. SidsOf(w)' = {batch[n].sid : n \in DOMAIN batch}
      BY <3>2 DEF SidsOf
    <3> QED BY <3>1, <3>2, <3>3 DEF InOrder, SidsOf
  <2>2. CASE Advance(w) \/ Crash(w)
    <3>1. tx'[w].batch \in {tx[w].batch, <<>>}
      BY <2>2, BatchStays DEF LoaderInv
    <3>2. SidsOf(w)' \subseteq SidsOf(w)
      BY <3>1 DEF SidsOf
    <3> HIDE DEF SidsOf
    <3> QED BY <1>1, <1>2, <3>2 DEF SharedAreStored
  <2> QED BY <2>1, <2>2
<1> HIDE DEF SidsOf
<1>4. \A v, u \in Writers \ {w} : v # u => \A s \in SidsOf(v) \cap SidsOf(u) : disk'[s] # None
  BY <1>1, <1>2 DEF SharedAreStored
<1> QED BY <1>1, <1>3, <1>4 DEF SharedAreStored

LEMMA OwnProvenance ==
  ASSUME LoaderAssumption, LoaderInv, ProvenanceInv, NEW w \in Writers, BeginBatch(w) \/ Advance(w) \/ Crash(w)
  PROVE  ProvenanceOf(w)'
<1>1. CASE Fails(w)
  BY <1>1, RollBackProves DEF Fails
<1>2. CASE BeginBatch(w)
  <2>1. tx[w] = Idle /\ \A r \in Rows : lockedBy'[r] # w
    BY <1>2 DEF BeginBatch, LoaderInv, WritersInv, Started
  <2>2. tx'[w].left = tx'[w].batch /\ tx'[w].at = "source"
    <3>1. PICK batch :
            tx' = [tx EXCEPT ![w].at = "source", ![w].batch = batch, ![w].left = batch]
      BY <1>2 DEF BeginBatch
    <3>2. PICK t \in Transactions : t = tx[w]
      BY DEF LoaderInv, WritersInv
    <3>3. tx'[w] = [t EXCEPT !.at = "source", !.batch = batch, !.left = batch]
      BY <3>1, <3>2 DEF LoaderInv, WritersInv
    <3> QED BY <3>3 DEF Transactions
  <2> QED BY <2>1, <2>2, NothingHeldProves
<1>3. CASE CommitBatch(w)
  BY <1>3, CommitProves
<1>4. CASE Victim(w)
  BY <1>4, RollBackProves DEF Victim
<1>5. CASE \/ Insert(w) /\ Keyed(w, identity_key(Record(w))) = {}
           \/ ~Fails(w) /\ (Move(w) \/ UpsertSource(w) \/ Replay(w) \/ Recompute(w))
  BY <1>5, InsertProves, MoveProves, UpsertSourceProves, ReplayProves, RecomputeProves
<1>6. CASE \/ Insert(w) /\ Keyed(w, identity_key(Record(w))) # {}
           \/ ~Fails(w) /\ (LockSource(w) \/ Find(w) \/ Adopt(w) \/ Reconcile(w) \/ Promote(w) \/ Lock(w))
  BY <1>6, KeptStatements, KeptStatementsProve
<1> QED BY <1>1, <1>2, <1>3, <1>4, <1>5, <1>6 DEF Advance, Crash

LEMMA NextKeepsProvenance ==
  ASSUME LoaderAssumption, ~Hurried, LoaderInv, ProvenanceInv, [LoaderNext]_loaderVars
  PROVE  ProvenanceInv'
<1>1. CASE LoaderNext
  <2>1. PICK w \in Writers : BeginBatch(w) \/ Advance(w) \/ Crash(w)
    BY <1>1 DEF LoaderNext
  <2>2. Others(w)
    BY <2>1, LoaderSteps DEF Stepped
  <2>3. \A r \in Rows : disk'[r] \in {disk[r], draft[r]} /\ (lockedBy[r] # w => disk'[r] = disk[r])
    <3>1. CASE CommitBatch(w)
      BY <3>1 DEF CommitBatch
    <3>2. CASE ~CommitBatch(w)
      BY <2>1, <3>2, CommittedByHolder
    <3> QED BY <3>1, <3>2
  <2>4. \A v \in Writers : ProvenanceOf(v)'
    BY <2>1, <2>2, <2>3, OwnProvenance, OthersKeepProvenance
  <2>5. BooksHaveSources'
    <3>1. CASE CommitBatch(w)
      BY <3>1, CommitProves
    <3>2. CASE ~CommitBatch(w)
      BY <2>1, <3>2, CommittedByHolder DEF ProvenanceInv, BooksHaveSources
    <3> QED BY <3>1, <3>2
  <2>6. SharedAreStored'
    BY <2>1, SharedStayStored DEF ProvenanceInv
  <2> QED BY <2>4, <2>5, <2>6 DEF ProvenanceInv
<1>2. CASE UNCHANGED loaderVars
  <2>1. tx' = tx /\ disk' = disk /\ draft' = draft /\ lockedBy' = lockedBy
    BY <1>2 DEF loaderVars
  <2>2. SharedAreStored' /\ BooksHaveSources'
    BY <2>1 DEF ProvenanceInv, SharedAreStored, BooksHaveSources, SidsOf
  <2>3. ASSUME NEW w \in Writers PROVE ProvenanceOf(w)'
    BY <2>1 DEF ProvenanceInv, ProvenanceOf, SidsOf, Sourced, IsNew, Record, View
  <2> QED BY <2>2, <2>3 DEF ProvenanceInv
<1> QED BY <1>1, <1>2

LEMMA InitProvenance ==
  ASSUME LoaderAssumption, LoaderInit
  PROVE  ProvenanceInv
<1> USE RowKinds
<1>1. \A w \in Writers : tx[w] = Idle /\ SidsOf(w) = {}
  BY DEF LoaderInit, Idle, SidsOf
<1>2. \A r \in Rows : lockedBy[r] = None /\ disk[r] = None
  BY DEF LoaderInit
<1>3. \A w \in Writers : ProvenanceOf(w)
  BY <1>1, <1>2 DEF ProvenanceOf, Idle
<1> HIDE DEF SidsOf
<1> QED BY <1>1, <1>2, <1>3 DEF ProvenanceInv, SharedAreStored, BooksHaveSources

\* No book is left without a source, and no source without its book, where the
\* second load of a source waits for its first.
THEOREM ProvenanceHolds ==
  ASSUME LoaderAssumption, ~Hurried
  PROVE  LoaderSpec => []ProvenanceBothWays
<1>1. LoaderInit => LoaderInv /\ ProvenanceInv
  BY InitLoaderInv, InitProvenance
<1>2. LoaderInv /\ ProvenanceInv /\ [LoaderNext]_loaderVars => (LoaderInv /\ ProvenanceInv)'
  BY NextKeepsLoaderInv, NextKeepsProvenance
<1>3. LoaderInv /\ ProvenanceInv => ProvenanceBothWays
  BY DEF LoaderInv, RowsInv, SourcesHaveBooks, ProvenanceInv, BooksHaveSources, ProvenanceBothWays
<1> QED BY <1>1, <1>2, <1>3, PTL DEF LoaderSpec

(***************************************************************************)
(* One batch at a time                                                     *)
(***************************************************************************)

\* Nobody else is at work.
OneAtATime == \A v, w \in Writers : tx[v].at # "idle" /\ tx[w].at # "idle" => v = w

\* The records that a table of rows has of book i.
SourcesIn(rows, i) == {s \in Sids : rows[s] # None /\ rows[s].book = i}
RecordsIn(rows, i) == {rows[s].record : s \in SourcesIn(rows, i)}

\* Each book's isbn13 goes with its key.
Paired(rows) == \A i \in Ids : rows[i] # None => rows[i].isbn13 = AgreedIsbn(rows[i].identity_key)

\* Each book, but for those of but, is computed from all its records.
InStep(rows, but) == \A i \in Ids \ but : rows[i] # None => rows[i].content = RecordsIn(rows, i)

\* The book whose records are about to be stored, or have been.
Storing == {"upsert", "replay", "write"}
Stale == {tx[w].book : w \in {v \in Writers : tx[v].at \in Storing}}

\* A record in hand whose source is new, or is of the book in hand; and what
\* was read of the book is still so when it is written.
HandAgrees(w) ==
  /\ tx[w].at \in {"find", "insert", "adopt"} => draft[Record(w).sid] = None
  /\ tx[w].at = "upsert" => draft[Record(w).sid] = None \/ draft[Record(w).sid].book = tx[w].book
  /\ tx[w].at = "write" => /\ tx[w].key = draft[tx[w].book].identity_key
                           /\ tx[w].had = draft[tx[w].book].content
                           /\ tx[w].saw = RecordsIn(draft, tx[w].book)

AgreesInv ==
  ~crossed => /\ OneAtATime
              /\ Paired(disk) /\ InStep(disk, {})
              /\ Paired(draft) /\ InStep(draft, Stale)
              /\ \A w \in Writers : HandAgrees(w)

\* Tables with the same rows are alike.
LEMMA SameRows ==
  ASSUME NEW t, NEW u, \A r \in Rows : t[r] = u[r]
  PROVE  /\ \A i : SourcesIn(t, i) = SourcesIn(u, i) /\ RecordsIn(t, i) = RecordsIn(u, i)
         /\ Paired(t) => Paired(u)
         /\ \A but : InStep(t, but) => InStep(u, but)
<1>1. Ids \subseteq Rows /\ Sids \subseteq Rows
  BY DEF Rows
<1>2. \A i : SourcesIn(t, i) = SourcesIn(u, i) /\ SourcesIn(u, i) \subseteq Sids
  BY <1>1 DEF SourcesIn
<1>3. \A i : RecordsIn(t, i) = RecordsIn(u, i)
  BY <1>1, <1>2 DEF RecordsIn
<1>4. Paired(t) => Paired(u)
  BY <1>1 DEF Paired
<1>5. \A but : InStep(t, but) => InStep(u, but)
  BY <1>1, <1>3 DEF InStep
<1> QED BY <1>2, <1>3, <1>4, <1>5

\* Who works alone sees the rows as they are drafted.
LEMMA SeesDrafts ==
  ASSUME LoaderAssumption, LoaderInv, OneAtATime, NEW w \in Writers, tx[w].at # "idle"
  PROVE  /\ \A r \in Rows : lockedBy[r] \in {None, w} /\ View(w, r) = draft[r] /\ (lockedBy[r] # w => disk[r] = draft[r])
         /\ Stale = IF tx[w].at \in Storing THEN {tx[w].book} ELSE {}
         /\ \A v \in Writers \ {w} : tx[v].at = "idle"
         /\ \A i : SourcesOf(w, i) = SourcesIn(draft, i)
<1>1. \A v \in Writers \ {w} : tx[v].at = "idle"
  BY DEF OneAtATime
<1>2. \A r \in Rows : lockedBy[r] \in {None, w}
  <2> TAKE r \in Rows
  <2>1. lockedBy[r] \in Writers \cup {None}
    BY DEF LoaderInv, RowsInv, RowsTyped
  <2>2. \A v \in Writers \ {w} : lockedBy[r] # v
    BY <1>1 DEF LoaderInv, WritersInv, Started
  <2> QED BY <2>1, <2>2
<1>3. \A r \in Rows : View(w, r) = draft[r] /\ (lockedBy[r] # w => disk[r] = draft[r])
  BY <1>2 DEF View, LoaderInv, RowsInv, RowsTyped
<1>4. Stale = IF tx[w].at \in Storing THEN {tx[w].book} ELSE {}
  BY <1>1 DEF Stale, Storing
<1>5. \A i : SourcesOf(w, i) = SourcesIn(draft, i)
  BY <1>3, RowKinds DEF SourcesOf, SourcesIn
<1> QED BY <1>1, <1>2, <1>3, <1>4, <1>5

\* What everyone but w, at a step of w, is at.
LEMMA StaleAfter ==
  ASSUME NEW w \in Writers, \A v \in Writers \ {w} : tx[v].at = "idle" /\ tx'[v] = tx[v]
  PROVE  /\ OneAtATime'
         /\ Stale' = IF tx'[w].at \in Storing THEN {tx'[w].book} ELSE {}
         /\ \A v \in Writers \ {w} : HandAgrees(v)'
<1>1. \A v \in Writers \ {w} : tx'[v].at = "idle"
  OBVIOUS
<1>2. OneAtATime'
  BY <1>1 DEF OneAtATime
<1>3. Stale' = IF tx'[w].at \in Storing THEN {tx'[w].book} ELSE {}
  BY <1>1 DEF Stale, Storing
<1>4. \A v \in Writers \ {w} : HandAgrees(v)'
  BY <1>1 DEF HandAgrees
<1> QED BY <1>2, <1>3, <1>4

\* A step of the one at work that commits nothing.
LEMMA Drafted ==
  ASSUME LoaderAssumption, LoaderInv, AgreesInv, ~crossed, NEW w \in Writers, tx[w].at # "idle",
         \A v \in Writers \ {w} : tx'[v] = tx[v], disk' = disk,
         Paired(draft)', InStep(draft', IF tx'[w].at \in Storing THEN {tx'[w].book} ELSE {}), HandAgrees(w)'
  PROVE  AgreesInv'
<1>1. OneAtATime /\ Paired(disk) /\ InStep(disk, {})
  BY DEF AgreesInv
<1>2. \A v \in Writers \ {w} : tx[v].at = "idle"
  BY <1>1 DEF OneAtATime
<1>3. OneAtATime' /\ (\A v \in Writers \ {w} : HandAgrees(v)') /\ Stale' = IF tx'[w].at \in Storing THEN {tx'[w].book} ELSE {}
  BY <1>2, StaleAfter
<1>4. Paired(disk)' /\ InStep(disk, {})'
  BY <1>1 DEF Paired, InStep, RecordsIn, SourcesIn
<1>5. InStep(draft', Stale')
  BY <1>3
<1>6. InStep(draft, Stale)'
  BY <1>5 DEF InStep, RecordsIn, SourcesIn
<1> QED BY <1>3, <1>4, <1>6 DEF AgreesInv

\* The statements that only read, for one who works alone.
LEMMA ReadsDrafts ==
  ASSUME LoaderAssumption, LoaderInv, OneAtATime, NEW w \in Writers,
         \/ LockSource(w) \/ Find(w) \/ Lock(w) \/ Replay(w)
         \/ Insert(w) /\ Keyed(w, identity_key(Record(w))) # {}
         \/ (Adopt(w) \/ Reconcile(w)) /\ ~Fails(w)
  PROVE  (\A r \in Rows : draft'[r] = draft[r]) /\ disk' = disk
<1>1. tx[w].at # "idle" /\ disk' = disk
  BY DEF LockSource, Find, Insert, Lock, Adopt, Reconcile, Replay, Fails, Reads, Same, At
<1>2. \A r \in Rows : View(w, r) = draft[r]
  BY <1>1, SeesDrafts
<1>3. ASSUME NEW rows, Take(w, rows) PROVE \A r \in Rows : draft'[r] = draft[r]
  BY <1>2, <1>3 DEF Take, Write
<1>4. CASE draft' = draft
  BY <1>1, <1>4
<1>5. CASE \E rows : Take(w, rows)
  BY <1>1, <1>3, <1>5
<1> QED BY <1>4, <1>5 DEF LockSource, Find, Insert, Lock, Adopt, Reconcile, Replay, Fails, Reads

\* What HandAgrees says of w, of what w finds next.
LEMMA KeptStatementsAgree ==
  ASSUME LoaderAssumption, LoaderInv, AgreesInv, ~crossed, NEW w \in Writers, Kept(w), Hand(w)',
         \A s \in Sids : draft'[s] = draft[s], Paired(draft)',
         \A i \in Ids : (draft'[i] = None <=> draft[i] = None) /\ draft'[i].content = draft[i].content
  PROVE  AgreesInv'
<1> USE RowKinds
<1>1. /\ Keeps(w) /\ disk' = disk /\ Progress(w) /\ Hand(w) /\ HandAgrees(w) /\ OneAtATime
      /\ tx[w].at \notin {"idle", "commit", "upsert", "replay", "write"}
      /\ tx'[w].at \notin {"idle", "commit", "replay", "write"}
  BY DEF Kept, Progress, LoaderInv, WritersInv, AgreesInv
<1>2. PICK sid \in Sids : sid = Record(w).sid /\ Record(w)' = Record(w)
  BY <1>1, RecordIsClean DEF LoaderInv, Keeps, Record
<1>3. Stale = {} /\ View(w, sid) = draft[sid]
  BY <1>1, SeesDrafts DEF Storing
<1>4. HandAgrees(w)'
  <2>1. tx'[w].at \in {"find", "insert", "adopt"} => draft'[sid] = None
    BY <1>1, <1>2, <1>3 DEF Progress, HandAgrees
  <2>2. tx'[w].at = "upsert" => draft'[sid] = None \/ draft'[sid].book = tx'[w].book
    <3>1. CASE tx[w].at \in {"find", "insert", "adopt"}
      BY <1>1, <1>2, <3>1 DEF HandAgrees
    <3>2. CASE tx'[w].at = "upsert" /\ tx[w].at \notin {"find", "insert", "adopt"}
      <4>1. lockedBy'[sid] = w
        <5>1. CASE tx[w].at = "source"
          BY <1>1, <1>2, <3>2, <5>1 DEF Progress
        <5>2. CASE tx[w].at # "source"
          BY <1>1, <1>2, <3>2, <5>2 DEF Progress, Hand, HasSource, Kept, SourcesKept
        <5> QED BY <5>1, <5>2
      <4> QED BY <1>2, <3>2, <4>1 DEF Hand, HasSource
    <3> QED BY <3>1, <3>2
  <2> QED BY <1>1, <1>2, <2>1, <2>2 DEF HandAgrees
<1>5. InStep(draft', {})
  <2>1. InStep(draft, {})
    BY <1>3 DEF AgreesInv
  <2>2. \A i \in Ids : RecordsIn(draft', i) = RecordsIn(draft, i)
    BY DEF RecordsIn, SourcesIn
  <2> QED BY <2>1, <2>2 DEF InStep
<1>6. \A but : InStep(draft', but)
  BY <1>5 DEF InStep
<1> QED BY <1>1, <1>4, <1>6, Drafted DEF Keeps

\* The key of a record says its isbn13.
LEMMA KeysAgreeWithRecords ==
  ASSUME LoaderAssumption, NEW r \in CleanBooks
  PROVE  AgreedIsbn(identity_key(r)) = r.isbn13 /\ (r.isbn13 # NoIsbn => identity_key(r) = r.isbn13)
<1>1. r.isbn13 \in Isbns /\ r.title \notin Isbns
  BY DEF LoaderAssumption, Isbns
<1> QED BY <1>1 DEF AgreedIsbn, identity_key

\* A promotion changes the book in hand alone.
LEMMA PromotesDraft ==
  ASSUME LoaderAssumption, LoaderInv, OneAtATime, NEW w \in Writers, Promote(w), ~Fails(w)
  PROVE  /\ tx[w].book \in Ids /\ draft[tx[w].book] # None /\ draft[tx[w].book] \in BookRows
         /\ draft'[tx[w].book] = [draft[tx[w].book] EXCEPT !.isbn13 = Record(w).isbn13, !.identity_key = identity_key(Record(w))]
         /\ draft'[tx[w].book] \in BookRows
         /\ \A r \in Rows : r # tx[w].book => draft'[r] = draft[r]
<1> USE RowKinds DEF LoaderInv
<1>1. tx[w].at = "promote" /\ HasSource(w) /\ Record(w) \in CleanBooks
  BY RecordIsClean DEF Promote, At, WritersInv, Hand
<1>2. PICK book \in Ids : book = tx[w].book /\ View(w, book) # None /\ View(w, book) \in BookRows
  BY <1>1, BookInHand
<1>3. PICK old \in BookRows : old = draft[book] /\ old = View(w, book)
  BY <1>1, <1>2, SeesDrafts
<1>4. PICK new : new = [old EXCEPT !.isbn13 = Record(w).isbn13, !.identity_key = identity_key(Record(w))]
  OBVIOUS
<1>5. WriteBook(w, book, new)
  BY <1>2, <1>3, <1>4 DEF Promote
<1>6. draft'[book] = new /\ \A r \in Rows : r # book => draft'[r] = draft[r]
  BY <1>5 DEF WriteBook, Write
<1>7. new \in BookRows
  BY <1>1, <1>3, <1>4 DEF BookRows, Isbns, Keys, identity_key
<1> QED BY <1>2, <1>3, <1>4, <1>6, <1>7

LEMMA KeptStatementsKeepAgreement ==
  ASSUME LoaderAssumption, LoaderInv, AgreesInv, ~crossed, NEW w \in Writers, Hand(w)',
         \/ LockSource(w) \/ Find(w) \/ Lock(w)
         \/ Insert(w) /\ Keyed(w, identity_key(Record(w))) # {}
         \/ (Adopt(w) \/ Reconcile(w) \/ Promote(w)) /\ ~Fails(w)
  PROVE  AgreesInv'
<1> USE RowKinds
<1>1. Kept(w) /\ OneAtATime /\ Paired(draft)
  BY KeptStatements DEF AgreesInv
<1>2. CASE Promote(w) /\ ~Fails(w)
  <2>1. tx[w].at = "promote" /\ Record(w) \in CleanBooks
    BY <1>2, RecordIsClean DEF Promote, At, LoaderInv
  <2>2. PICK book \in Ids : book = tx[w].book /\ draft[book] \in BookRows /\ draft[book] # None
    BY <1>1, <1>2, PromotesDraft
  <2> PICK old \in BookRows : old = draft[book]
    BY <2>2
  <2>3. /\ draft'[book] = [old EXCEPT !.isbn13 = Record(w).isbn13, !.identity_key = identity_key(Record(w))]
        /\ draft'[book] \in BookRows
        /\ \A r \in Rows : r # book => draft'[r] = draft[r]
    BY <1>1, <1>2, <2>2, PromotesDraft
  <2>4. /\ draft'[book].isbn13 = Record(w).isbn13 /\ draft'[book].identity_key = identity_key(Record(w))
        /\ draft'[book].content = old.content /\ draft'[book] # None
    BY <2>3 DEF BookRows
  <2>5. Paired(draft)'
    <3>1. draft'[book].isbn13 = AgreedIsbn(draft'[book].identity_key)
      BY <2>1, <2>4, KeysAgreeWithRecords
    <3> QED BY <1>1, <2>3, <3>1 DEF Paired
  <2>6. \A i \in Ids : (draft'[i] = None <=> draft[i] = None) /\ draft'[i].content = draft[i].content
    BY <2>2, <2>3, <2>4
  <2>7. \A s \in Sids : draft'[s] = draft[s]
    BY <2>2, <2>3
  <2> QED BY <1>1, <2>5, <2>6, <2>7, KeptStatementsAgree
<1>3. CASE ~(Promote(w) /\ ~Fails(w))
  <2>1. \A r \in Rows : draft'[r] = draft[r]
    BY <1>1, <1>3, ReadsDrafts
  <2>2. Paired(draft)'
    BY <1>1, <2>1 DEF Paired
  <2> QED BY <1>1, <2>1, <2>2, KeptStatementsAgree
<1> QED BY <1>2, <1>3

\* A new book is in hand, with no record yet.
LEMMA InsertAgrees ==
  ASSUME LoaderAssumption, LoaderInv, AgreesInv, ~crossed, NEW w \in Writers, Insert(w),
         Keyed(w, identity_key(Record(w))) = {}
  PROVE  /\ AgreesInv'
         /\ tx'[w].book \in Ids /\ tx'[w].at = "upsert" /\ Record(w)' = Record(w)
         /\ draft'[tx'[w].book] = [identity_key |-> identity_key(Record(w)), isbn13 |-> Record(w).isbn13, content |-> {}]
         /\ draft[tx'[w].book] = None
         /\ \A r \in Rows : r # tx'[w].book => draft'[r] = draft[r]
<1> USE RowKinds DEF LoaderInv
<1>1. tx[w].at = "insert" /\ disk' = disk /\ Record(w) \in CleanBooks /\ Record(w).sid \in Sids /\ HandAgrees(w)
      /\ OneAtATime /\ Paired(draft) /\ InStep(draft, {})
  <2>1. tx[w].at = "insert" /\ disk' = disk
    BY DEF Insert, At, Same
  <2>2. Stale = {}
    BY <2>1, SeesDrafts DEF AgreesInv, Storing
  <2> QED BY <2>1, <2>2, RecordIsClean DEF AgreesInv
<1>2. PICK stub : stub = [identity_key |-> identity_key(Record(w)), isbn13 |-> Record(w).isbn13, content |-> {}]
  OBVIOUS
<1>3. Fresh \subseteq Nat /\ Fresh \subseteq Ids /\ Fresh # {}
  BY DEF Fresh, Insert
<1>4. PICK i \in Fresh : i = Min(Fresh)
  BY <1>3, MinIsFirst
<1>5. i \in Ids /\ lockedBy[i] = None /\ draft[i] = None
  BY <1>3 DEF Fresh
<1>6. /\ WriteBook(w, i, stub)
      /\ tx' = [tx EXCEPT ![w].at = "upsert", ![w].book = i, ![w].tally.inserted = @ + 1]
  BY <1>2, <1>4 DEF Insert
<1>7. draft'[i] = stub /\ \A r \in Rows : r # i => draft'[r] = draft[r]
  BY <1>5, <1>6 DEF WriteBook, Write
<1>8. Keeps(w) /\ tx'[w].at = "upsert" /\ tx'[w].book = i
  <2>1. PICK t \in Transactions : t = tx[w]
    BY DEF WritersInv
  <2>2. /\ tx'[w] = [t EXCEPT !.at = "upsert", !.book = i, !.tally.inserted = @ + 1]
        /\ \A v \in Writers \ {w} : tx'[v] = tx[v]
    BY <1>6, <2>1 DEF WritersInv
  <2>3. tx' \in [Writers -> Transactions]
    BY InsertSteps DEF Stepped
  <2> QED BY <2>1, <2>2, <2>3 DEF Transactions, Keeps
<1>9. Record(w)' = Record(w)
  BY <1>8 DEF Keeps, Record
<1>10. HandAgrees(w)'
  BY <1>1, <1>5, <1>7, <1>8, <1>9 DEF HandAgrees
<1>11. Paired(draft)'
  <2>1. stub.isbn13 = AgreedIsbn(stub.identity_key)
    BY <1>1, <1>2, KeysAgreeWithRecords
  <2> QED BY <1>1, <1>5, <1>7, <2>1 DEF Paired
<1>12. InStep(draft', {i})
  <2>1. \A j : RecordsIn(draft', j) = RecordsIn(draft, j)
    BY <1>5, <1>7 DEF RecordsIn, SourcesIn
  <2> QED BY <1>1, <1>7, <2>1 DEF InStep
<1>13. AgreesInv'
  BY <1>1, <1>8, <1>10, <1>11, <1>12, Drafted DEF Keeps, Storing
<1> QED BY <1>2, <1>5, <1>7, <1>8, <1>9, <1>13

\* What a merge leaves: the orphan's sources are the survivor's.
LEMMA MovesDraft ==
  ASSUME LoaderAssumption, LoaderInv, OneAtATime, NEW w \in Writers, Move(w), ~Fails(w)
  PROVE  /\ tx[w].at = "move" /\ HasSource(w)
         /\ tx[w].book \in Ids /\ tx[w].survivor \in Ids \ {tx[w].book} /\ draft[tx[w].book] # None /\ draft[tx[w].survivor] # None
         /\ draft'[tx[w].book] = None /\ disk' = disk
         /\ \A s \in SourcesIn(draft, tx[w].book) :
              draft'[s] # None /\ draft'[s].book = tx[w].survivor /\ draft'[s].record = draft[s].record
         /\ \A r \in Rows : r # tx[w].book /\ r \notin SourcesIn(draft, tx[w].book) => draft'[r] = draft[r]
         /\ Keeps(w) /\ tx'[w].at = "upsert" /\ tx'[w].book = tx[w].survivor /\ Record(w)' = Record(w)
<1> USE RowKinds DEF LoaderInv
<1>1. tx[w].at = "move" /\ HasSource(w) /\ Hand(w)
  BY DEF Move, At, WritersInv, Hand
<1>2. PICK book \in Ids : book = tx[w].book /\ View(w, book) # None
  BY <1>1, BookInHand
<1>3. PICK survivor \in Ids \ {book} : survivor = tx[w].survivor
  BY <1>1, <1>2 DEF Hand
<1>4. /\ View(w, survivor) # None /\ Write(w, Merged(w)) /\ disk' = disk
      /\ tx' = [tx EXCEPT ![w].at = "upsert", ![w].book = survivor, ![w].survivor = None, ![w].tally.merges = @ + 1]
  BY <1>3 DEF Move, Same
<1>5. (\A r \in Rows : View(w, r) = draft[r]) /\ SourcesOf(w, book) = SourcesIn(draft, book)
  BY <1>1, SeesDrafts
<1>6. PICK moved : moved = SourcesIn(draft, book)
  OBVIOUS
<1>7. moved \subseteq Sids /\ \A s \in moved : draft[s] \in SourceRows
  BY <1>6 DEF SourcesIn, RowsInv, RowsTyped
<1>8. /\ draft'[book] = None
      /\ \A s \in moved : draft'[s] = [draft[s] EXCEPT !.book = survivor]
      /\ \A r \in Rows : r # book /\ r \notin moved => draft'[r] = draft[r]
  BY <1>2, <1>3, <1>4, <1>5, <1>6, <1>7 DEF Write, Merged
<1>9. ASSUME NEW s \in moved
      PROVE  draft'[s] # None /\ draft'[s].book = survivor /\ draft'[s].record = draft[s].record
  <2>1. PICK old \in SourceRows : old = draft[s]
    BY <1>7
  <2>2. [old EXCEPT !.book = survivor] \in SourceRows /\ [old EXCEPT !.book = survivor].book = survivor
        /\ [old EXCEPT !.book = survivor].record = old.record
    BY DEF SourceRows
  <2> QED BY <1>8, <2>1, <2>2
<1>10. Keeps(w) /\ tx'[w].at = "upsert" /\ tx'[w].book = survivor
  <2>1. PICK t \in Transactions : t = tx[w]
    BY DEF WritersInv
  <2>2. /\ tx'[w] = [t EXCEPT !.at = "upsert", !.book = survivor, !.survivor = None, !.tally.merges = @ + 1]
        /\ \A v \in Writers \ {w} : tx'[v] = tx[v]
    BY <1>4, <2>1 DEF WritersInv
  <2>3. tx' \in [Writers -> Transactions]
    BY MoveSteps DEF Stepped
  <2> QED BY <2>1, <2>2, <2>3 DEF Transactions, Keeps
<1>11. Record(w)' = Record(w)
  BY <1>10 DEF Keeps, Record
<1> QED BY <1>1, <1>2, <1>3, <1>4, <1>5, <1>6, <1>8, <1>9, <1>10, <1>11

LEMMA MoveAgrees ==
  ASSUME LoaderAssumption, LoaderInv, AgreesInv, ~crossed, NEW w \in Writers, Move(w), ~Fails(w)
  PROVE  AgreesInv'
<1> USE RowKinds
<1>1. tx[w].at = "move" /\ HasSource(w) /\ OneAtATime /\ Paired(draft) /\ InStep(draft, {})
  <2>1. tx[w].at = "move" /\ OneAtATime
    BY DEF Move, At, AgreesInv
  <2>2. Stale = {}
    BY <2>1, SeesDrafts DEF Storing
  <2> QED BY <2>1, <2>2, MovesDraft DEF AgreesInv
<1>2. PICK book \in Ids, survivor \in Ids : book = tx[w].book /\ survivor = tx[w].survivor /\ survivor # book
  BY <1>1, MovesDraft
<1>3. PICK moved : moved = SourcesIn(draft, book)
  OBVIOUS
<1>4. /\ draft'[book] = None /\ disk' = disk
      /\ \A s \in moved : draft'[s] # None /\ draft'[s].book = survivor
      /\ \A r \in Rows : r # book /\ r \notin moved => draft'[r] = draft[r]
      /\ Keeps(w) /\ tx'[w].at = "upsert" /\ tx'[w].book = survivor /\ Record(w)' = Record(w)
  BY <1>1, <1>2, <1>3, MovesDraft
<1>5. moved \subseteq Sids /\ \A s \in Sids : s \in moved <=> draft[s] # None /\ draft[s].book = book
  BY <1>3 DEF SourcesIn
<1>6. PICK sid \in Sids : sid = Record(w).sid /\ sid \in moved
  <2>1. Record(w).sid \in Sids /\ draft[Record(w).sid] # None
    BY <1>1, RecordIsClean DEF LoaderInv, HasSource, RowsInv, HeldSourcesHaveBooks
  <2> QED BY <1>1, <1>2, <1>5, <2>1 DEF HasSource
<1>7. HandAgrees(w)'
  BY <1>4, <1>6 DEF HandAgrees
<1>8. Paired(draft)'
  BY <1>1, <1>4, <1>5 DEF Paired
<1>9. InStep(draft', {survivor})
  <2>1. \A i \in Ids \ {book, survivor} : SourcesIn(draft', i) = SourcesIn(draft, i)
    BY <1>4, <1>5 DEF SourcesIn
  <2>2. \A i \in Ids \ {book, survivor} : RecordsIn(draft', i) = RecordsIn(draft, i)
    <3>1. \A i \in Ids \ {book, survivor} : \A s \in SourcesIn(draft, i) : draft'[s] = draft[s]
      BY <1>4, <1>5 DEF SourcesIn
    <3> QED BY <2>1, <3>1 DEF RecordsIn
  <2>3. \A i \in Ids \ {book} : draft'[i] = draft[i]
    BY <1>4, <1>5
  <2> QED BY <1>1, <1>4, <2>2, <2>3 DEF InStep
<1> QED BY <1>1, <1>4, <1>7, <1>8, <1>9, Drafted DEF Keeps, Storing

\* The record in hand is stored, of the book in hand.
LEMMA UpsertsDraft ==
  ASSUME LoaderAssumption, LoaderInv, OneAtATime, NEW w \in Writers, UpsertSource(w), ~Fails(w)
  PROVE  /\ tx[w].at = "upsert" /\ tx[w].book \in Ids /\ draft[tx[w].book] # None /\ disk' = disk
         /\ draft'[Record(w).sid] = [book |-> tx[w].book, record |-> Record(w)]
         /\ \A r \in Rows : r # Record(w).sid => draft'[r] = draft[r]
         /\ Keeps(w) /\ tx'[w].at = "replay" /\ tx'[w].book = tx[w].book /\ Record(w)' = Record(w)
<1> USE RowKinds DEF LoaderInv
<1>1. tx[w].at = "upsert" /\ Hand(w)
  BY DEF UpsertSource, At, WritersInv
<1>2. PICK sid \in Sids : sid = Record(w).sid
  BY <1>1, RecordIsClean
<1>3. PICK book \in Ids : book = tx[w].book
  BY <1>1 DEF Hand
<1>4. PICK row : row = [book |-> book, record |-> Record(w)]
  OBVIOUS
<1>5. /\ View(w, book) # None /\ Write(w, [r \in Touched(w) |-> IF r = sid THEN row ELSE View(w, r)])
      /\ Goto(w, "replay") /\ disk' = disk
  BY <1>2, <1>3, <1>4 DEF UpsertSource, Same
<1>6. \A r \in Rows : View(w, r) = draft[r]
  BY <1>1, SeesDrafts
<1>7. sid \in Touched(w)
  BY <1>1, <1>2 DEF Touched
<1>8. draft'[sid] = row /\ \A r \in Rows : r # sid => draft'[r] = draft[r]
  BY <1>5, <1>6, <1>7 DEF Write
<1>9. Keeps(w) /\ tx'[w].at = "replay" /\ tx'[w].book = tx[w].book
  BY <1>5, GoingOn DEF Statements, Goto
<1>10. Record(w)' = Record(w)
  BY <1>9 DEF Keeps, Record
<1> QED BY <1>1, <1>2, <1>3, <1>4, <1>5, <1>6, <1>8, <1>9, <1>10

LEMMA UpsertAgrees ==
  ASSUME LoaderAssumption, LoaderInv, AgreesInv, ~crossed, NEW w \in Writers, UpsertSource(w), ~Fails(w)
  PROVE  AgreesInv'
<1> USE RowKinds
<1>1. tx[w].at = "upsert" /\ OneAtATime
  BY DEF UpsertSource, At, AgreesInv
<1>2. PICK book \in Ids, sid \in Sids : book = tx[w].book /\ sid = Record(w).sid
  BY <1>1, UpsertsDraft, RecordIsClean DEF LoaderInv
<1>3. /\ disk' = disk /\ draft'[sid] = [book |-> book, record |-> Record(w)]
      /\ \A r \in Rows : r # sid => draft'[r] = draft[r]
      /\ Keeps(w) /\ tx'[w].at = "replay" /\ tx'[w].book = book
  BY <1>1, <1>2, UpsertsDraft
<1>4. Paired(draft) /\ InStep(draft, {book}) /\ (draft[sid] = None \/ draft[sid].book = book)
  <2>1. Stale = {book}
    BY <1>1, <1>2, SeesDrafts DEF Storing
  <2> QED BY <1>1, <1>2, <2>1 DEF AgreesInv, HandAgrees
<1>5. HandAgrees(w)'
  BY <1>3 DEF HandAgrees
<1>6. Paired(draft)'
  BY <1>3, <1>4 DEF Paired
<1>7. InStep(draft', {book})
  <2>1. \A i \in Ids \ {book} : SourcesIn(draft', i) = SourcesIn(draft, i) /\ sid \notin SourcesIn(draft, i)
    BY <1>3, <1>4 DEF SourcesIn
  <2>2. \A i \in Ids \ {book} : RecordsIn(draft', i) = RecordsIn(draft, i)
    BY <1>3, <2>1 DEF RecordsIn, SourcesIn
  <2> QED BY <1>3, <1>4, <2>2 DEF InStep
<1> QED BY <1>1, <1>3, <1>5, <1>6, <1>7, Drafted DEF Keeps, Storing

\* What is read of a book is what its records are.
LEMMA ReplayReads ==
  ASSUME LoaderAssumption, LoaderInv, OneAtATime, NEW w \in Writers, Replay(w)
  PROVE  /\ tx[w].at = "replay" /\ tx[w].book \in Ids /\ draft[tx[w].book] # None
         /\ Keeps(w) /\ tx'[w].at = "write" /\ tx'[w].book = tx[w].book /\ Record(w)' = Record(w)
         /\ tx'[w].saw = RecordsIn(draft, tx[w].book)
         /\ tx'[w].had = draft[tx[w].book].content /\ tx'[w].key = draft[tx[w].book].identity_key
<1> USE RowKinds DEF LoaderInv
<1>1. tx[w].at = "replay" /\ HasSource(w)
  BY DEF Replay, At, WritersInv, Hand
<1>2. PICK book \in Ids : book = tx[w].book /\ View(w, book) # None
  BY <1>1, BookInHand
<1>3. (\A r \in Rows : View(w, r) = draft[r]) /\ SourcesOf(w, book) = SourcesIn(draft, book)
  BY <1>1, SeesDrafts
<1>4. PICK saw, had, key : saw = Evidence(w) /\ had = draft[book].content /\ key = draft[book].identity_key
  OBVIOUS
<1>5. saw = RecordsIn(draft, book)
  BY <1>2, <1>3, <1>4 DEF Evidence, RecordsIn, SourcesIn
<1>6. tx' = [tx EXCEPT ![w].at = "write", ![w].saw = saw, ![w].had = had, ![w].key = key]
  BY <1>2, <1>3, <1>4 DEF Replay
<1>7. PICK t \in Transactions : t = tx[w]
  BY DEF WritersInv
<1>8. /\ tx'[w] = [t EXCEPT !.at = "write", !.saw = saw, !.had = had, !.key = key]
      /\ \A v \in Writers \ {w} : tx'[v] = tx[v]
  BY <1>6, <1>7 DEF WritersInv
<1>9. tx' \in [Writers -> Transactions]
  BY ReplaySteps DEF Stepped
<1>10. Keeps(w) /\ tx'[w].at = "write" /\ tx'[w].book = book /\ tx'[w].saw = saw /\ tx'[w].had = had /\ tx'[w].key = key
  BY <1>2, <1>7, <1>8, <1>9 DEF Transactions, Keeps
<1>11. Record(w)' = Record(w)
  BY <1>10 DEF Keeps, Record
<1> QED BY <1>1, <1>2, <1>3, <1>4, <1>5, <1>10, <1>11

LEMMA ReplayAgrees ==
  ASSUME LoaderAssumption, LoaderInv, AgreesInv, ~crossed, NEW w \in Writers, Replay(w)
  PROVE  AgreesInv'
<1> USE RowKinds
<1>1. tx[w].at = "replay" /\ OneAtATime
  BY DEF Replay, At, AgreesInv
<1>2. PICK book \in Ids : book = tx[w].book
  BY <1>1, ReplayReads
<1>3. /\ Keeps(w) /\ tx'[w].at = "write" /\ tx'[w].book = book
      /\ tx'[w].saw = RecordsIn(draft, book) /\ tx'[w].had = draft[book].content /\ tx'[w].key = draft[book].identity_key
  BY <1>1, <1>2, ReplayReads
<1>4. (\A r \in Rows : draft'[r] = draft[r]) /\ disk' = disk
  BY <1>1, ReadsDrafts
<1>5. Paired(draft) /\ InStep(draft, {book})
  <2>1. Stale = {book}
    BY <1>1, <1>2, SeesDrafts DEF Storing
  <2> QED BY <2>1 DEF AgreesInv
<1>6. Paired(draft)' /\ InStep(draft', {book}) /\ RecordsIn(draft', book) = RecordsIn(draft, book)
  <2>1. Paired(draft')
    BY <1>4, <1>5, SameRows
  <2> QED BY <1>4, <1>5, <2>1, SameRows DEF Paired
<1>7. HandAgrees(w)'
  <2>1. RecordsIn(draft, book)' = RecordsIn(draft, book)
    BY <1>6 DEF RecordsIn, SourcesIn
  <2>2. tx'[w].saw = RecordsIn(draft, tx[w].book)'
    BY <1>3, <2>1 DEF RecordsIn, SourcesIn
  <2> QED BY <1>3, <1>4, <2>2 DEF HandAgrees
<1> QED BY <1>1, <1>3, <1>4, <1>6, <1>7, Drafted DEF Keeps, Storing

\* What is written of the book: its records, and the isbn13 of its key.
LEMMA RecomputesDraft ==
  ASSUME LoaderAssumption, LoaderInv, OneAtATime, NEW w \in Writers, HandAgrees(w), Recompute(w), ~Fails(w)
  PROVE  /\ tx[w].at = "write" /\ tx[w].book \in Ids /\ draft[tx[w].book] # None /\ disk' = disk
         /\ draft'[tx[w].book] # None
         /\ draft'[tx[w].book].content = RecordsIn(draft, tx[w].book)
         /\ draft'[tx[w].book].identity_key = draft[tx[w].book].identity_key
         /\ draft'[tx[w].book].isbn13 \in {draft[tx[w].book].isbn13, AgreedIsbn(draft[tx[w].book].identity_key)}
         /\ \A r \in Rows : r # tx[w].book => draft'[r] = draft[r]
         /\ tx[w].saw = tx[w].had => draft' = draft
         /\ tx' \in [Writers -> Transactions] /\ \A v \in Writers \ {w} : tx'[v] = tx[v]
         /\ tx'[w].at \in {"commit", "source"} /\ tx'[w].batch = tx[w].batch /\ tx'[w].left = Tail(tx[w].left)
<1> USE RowKinds DEF LoaderInv
<1>1. tx[w].at = "write" /\ HasSource(w)
  BY DEF Recompute, At, WritersInv, Hand
<1>2. PICK book \in Ids : book = tx[w].book /\ View(w, book) # None /\ View(w, book) \in BookRows
  BY <1>1, BookInHand
<1>3. PICK old \in BookRows : old = draft[book] /\ old = View(w, book)
  BY <1>1, <1>2, SeesDrafts
<1>4. PICK saw, key : saw = tx[w].saw /\ key = tx[w].key
  OBVIOUS
<1>5. saw = RecordsIn(draft, book) /\ tx[w].had = old.content /\ key = old.identity_key
  BY <1>1, <1>2, <1>3, <1>4 DEF HandAgrees
<1>6. \/ saw = tx[w].had /\ draft' = draft
      \/ saw # tx[w].had /\ WriteBook(w, book, [old EXCEPT !.content = saw, !.isbn13 = AgreedIsbn(key)])
  BY <1>2, <1>3, <1>4 DEF Recompute, Reads, Recomputed
<1>7. /\ draft'[book] # None /\ draft'[book].content = saw /\ draft'[book].identity_key = old.identity_key
      /\ draft'[book].isbn13 \in {old.isbn13, AgreedIsbn(key)}
      /\ \A r \in Rows : r # book => draft'[r] = draft[r]
      /\ saw = tx[w].had => draft' = draft
  <2>1. CASE saw = tx[w].had /\ draft' = draft
    BY <1>2, <1>3, <1>5, <2>1
  <2>2. CASE saw # tx[w].had /\ WriteBook(w, book, [old EXCEPT !.content = saw, !.isbn13 = AgreedIsbn(key)])
    <3>1. PICK new : new = [old EXCEPT !.content = saw, !.isbn13 = AgreedIsbn(key)]
      OBVIOUS
    <3>2. new.content = saw /\ new.isbn13 = AgreedIsbn(key) /\ new.identity_key = old.identity_key /\ new # None
      <4>1. saw \in SUBSET CleanBooks /\ AgreedIsbn(key) \in Isbns \cup {NoIsbn}
        BY <1>4 DEF WritersInv, Transactions, AgreedIsbn
      <4>2. new \in BookRows
        BY <3>1, <4>1 DEF BookRows
      <4> QED BY <3>1, <4>2 DEF BookRows
    <3>3. draft'[book] = new /\ \A r \in Rows : r # book => draft'[r] = draft[r]
      BY <2>2, <3>1 DEF WriteBook, Write
    <3> QED BY <2>2, <3>2, <3>3
  <2> QED BY <1>6, <2>1, <2>2
<1>8. PICK tally \in Tallies : Onwards(w, tally)
  <2>1. tx[w].tally \in Tallies /\ Counted(w, "unchanged") \in Tallies /\ Counted(w, "updated") \in Tallies
    BY CountedIsTyped
  <2> QED BY <2>1 DEF Recompute
<1>9. disk' = disk
  BY DEF Recompute, Reads, Same
<1> QED BY <1>1, <1>2, <1>3, <1>4, <1>5, <1>7, <1>8, <1>9, GoingOnwards

LEMMA RecomputeAgrees ==
  ASSUME LoaderAssumption, LoaderInv, AgreesInv, ~crossed, NEW w \in Writers, Recompute(w), ~Fails(w)
  PROVE  AgreesInv'
<1> USE RowKinds
<1>1. tx[w].at = "write" /\ OneAtATime /\ HandAgrees(w)
  BY DEF Recompute, At, AgreesInv
<1>2. PICK book \in Ids : book = tx[w].book
  BY <1>1, RecomputesDraft
<1>3. /\ draft[book] # None /\ disk' = disk
      /\ draft'[book].content = RecordsIn(draft, book)
      /\ draft'[book].identity_key = draft[book].identity_key
      /\ draft'[book].isbn13 \in {draft[book].isbn13, AgreedIsbn(draft[book].identity_key)}
      /\ \A r \in Rows : r # book => draft'[r] = draft[r]
      /\ \A v \in Writers \ {w} : tx'[v] = tx[v]
      /\ tx'[w].at \in {"commit", "source"}
  BY <1>1, <1>2, RecomputesDraft
<1>4. Paired(draft) /\ InStep(draft, {book})
  <2>1. Stale = {book}
    BY <1>1, <1>2, SeesDrafts DEF Storing
  <2> QED BY <2>1 DEF AgreesInv
<1>5. HandAgrees(w)'
  BY <1>3 DEF HandAgrees
<1>6. Paired(draft)'
  BY <1>3, <1>4 DEF Paired
<1>7. InStep(draft', {})
  <2>1. \A i : RecordsIn(draft', i) = RecordsIn(draft, i)
    <3>1. \A s \in Sids : draft'[s] = draft[s]
      BY <1>3
    <3> QED BY <3>1 DEF RecordsIn, SourcesIn
  <2> QED BY <1>3, <1>4, <2>1 DEF InStep
<1> QED BY <1>1, <1>3, <1>5, <1>6, <1>7, Drafted DEF Storing

\* Whoever gives up leaves the rows as they are committed.
LEMMA RollBackAgrees ==
  ASSUME LoaderAssumption, LoaderInv, AgreesInv, ~crossed, NEW w \in Writers, tx[w].at # "idle",
         RolledBack(w), disk' = disk, \A v \in Writers \ {w} : tx'[v] = tx[v], tx'[w].at \in {"idle", "source"}
  PROVE  AgreesInv' /\ \A r \in Rows : draft'[r] = disk[r]
<1>1. OneAtATime /\ Paired(disk) /\ InStep(disk, {})
  BY DEF AgreesInv
<1>2. \A r \in Rows : draft'[r] = disk[r]
  BY <1>1, SeesDrafts DEF RolledBack
<1>3. Paired(draft') /\ InStep(draft', {})
  BY <1>1, <1>2, SameRows
<1>4. Paired(draft)'
  BY <1>3 DEF Paired
<1>5. HandAgrees(w)'
  BY DEF HandAgrees
<1> QED BY <1>2, <1>3, <1>4, <1>5, Drafted DEF Storing

\* A commit makes the draft what there is.
LEMMA CommitAgrees ==
  ASSUME LoaderAssumption, LoaderInv, AgreesInv, ~crossed, NEW w \in Writers, CommitBatch(w)
  PROVE  AgreesInv' /\ \A r \in Rows : disk'[r] = draft[r] /\ draft'[r] = draft[r]
<1>1. tx[w].at = "commit" /\ OneAtATime /\ draft' = draft
  BY DEF CommitBatch, At, AgreesInv
<1>2. /\ \A r \in Rows : lockedBy[r] \in {None, w} /\ (lockedBy[r] # w => disk[r] = draft[r])
      /\ Stale = {} /\ \A v \in Writers \ {w} : tx[v].at = "idle"
  BY <1>1, SeesDrafts DEF Storing
<1>3. \A r \in Rows : disk'[r] = draft[r]
  BY <1>2 DEF CommitBatch
<1>4. Paired(draft) /\ InStep(draft, {})
  BY <1>2 DEF AgreesInv
<1>5. Paired(disk') /\ InStep(disk', {})
  BY <1>3, <1>4, SameRows
<1>6. tx'[w].at = "idle" /\ \A v \in Writers \ {w} : tx'[v] = tx[v]
  BY IdleIsTyped DEF CommitBatch, LoaderInv, WritersInv
<1>7. OneAtATime' /\ (\A v \in Writers \ {w} : HandAgrees(v)') /\ Stale' = {}
  BY <1>2, <1>6, StaleAfter DEF Storing
<1>8. HandAgrees(w)'
  BY <1>6 DEF HandAgrees
<1>9. Paired(disk)' /\ InStep(disk, {})' /\ Paired(draft)' /\ InStep(draft, Stale)'
  <2>1. InStep(draft', Stale')
    BY <1>1, <1>4, <1>7
  <2> QED BY <1>1, <1>4, <1>5, <2>1 DEF Paired, InStep, RecordsIn, SourcesIn
<1> QED BY <1>1, <1>3, <1>7, <1>8, <1>9 DEF AgreesInv

\* A batch begins with the rows as they are committed, if no other is at work.
LEMMA BeginAgrees ==
  ASSUME LoaderAssumption, LoaderInv, AgreesInv, ~crossed, NEW w \in Writers, BeginBatch(w), ~crossed'
  PROVE  AgreesInv' /\ disk' = disk /\ draft' = draft /\ \A r \in Rows : draft[r] = disk[r]
<1>1. /\ disk' = disk /\ draft' = draft /\ tx[w].at = "idle"
      /\ \A v \in Writers \ {w} : tx[v].at = "idle"
  BY DEF BeginBatch
<1>2. \A v \in Writers \ {w} : tx'[v] = tx[v]
  BY LoaderSteps DEF Stepped, Others
<1>3. tx'[w].at = "source"
  <2>1. PICK batch : tx' = [tx EXCEPT ![w].at = "source", ![w].batch = batch, ![w].left = batch]
    BY DEF BeginBatch
  <2>2. PICK t \in Transactions : t = tx[w]
    BY DEF LoaderInv, WritersInv
  <2>3. tx'[w] = [t EXCEPT !.at = "source", !.batch = batch, !.left = batch]
    BY <2>1, <2>2 DEF LoaderInv, WritersInv
  <2> QED BY <2>3 DEF Transactions
<1>4. Stale = {}
  BY <1>1 DEF Stale, Storing
<1>5. OneAtATime' /\ (\A v \in Writers \ {w} : HandAgrees(v)') /\ Stale' = {}
  BY <1>1, <1>2, <1>3, StaleAfter DEF Storing
<1>6. HandAgrees(w)'
  BY <1>3 DEF HandAgrees
<1>7. \A r \in Rows : draft[r] = disk[r]
  <2> TAKE r \in Rows
  <2>1. lockedBy[r] \in Writers \cup {None}
    BY DEF LoaderInv, RowsInv, RowsTyped
  <2>2. \A v \in Writers : lockedBy[r] # v
    BY <1>1 DEF LoaderInv, WritersInv, Started
  <2> QED BY <2>1, <2>2 DEF LoaderInv, RowsInv, RowsTyped
<1>8. Paired(disk)' /\ InStep(disk, {})' /\ Paired(draft)' /\ InStep(draft, Stale)'
  <2>1. InStep(draft, Stale')
    BY <1>4, <1>5 DEF AgreesInv
  <2> QED BY <1>1, <2>1 DEF AgreesInv, Paired, InStep, RecordsIn, SourcesIn
<1> QED BY <1>1, <1>5, <1>6, <1>7, <1>8 DEF AgreesInv

\* Whoever takes a step is at work.
LEMMA WhoStepsWorks ==
  ASSUME NEW w \in Writers, Advance(w)
  PROVE  tx[w].at # "idle"
<1>1. CASE Victim(w)
  <2>1. Touched(w) # {}
    BY <1>1 DEF Victim, Deadlocked, Blockers
  <2> QED BY <2>1 DEF Touched
<1>2. CASE ~Victim(w)
  <2>1. \E s \in Statements : tx[w].at = s
    BY <1>2 DEF Advance, LockSource, Find, Insert, Adopt, Reconcile, Promote, Lock, Move, UpsertSource, Replay,
                Recompute, CommitBatch, At, Statements
  <2> QED BY <2>1 DEF Statements
<1> QED BY <1>1, <1>2

\* A victim gives up, or starts on its batch anew.
LEMMA VictimStartsAnew ==
  ASSUME LoaderInv, NEW w \in Writers, Victim(w)
  PROVE  RolledBack(w) /\ disk' = disk /\ tx[w].at # "idle" /\ tx'[w].at \in {"idle", "source"} /\ tx'[w].left = tx'[w].batch
<1>1. tx[w].at # "idle"
  BY WhoStepsWorks DEF Advance
<1>2. tx'[w] \in {Idle, AttemptedAnew(w)}
  BY DEF Victim, LoaderInv, WritersInv
<1>3. \A next \in {Idle, AttemptedAnew(w)} : next.left = next.batch /\ next.at \in {"idle", "source"}
  <2>1. Idle.left = Idle.batch /\ Idle.at = "idle"
    BY DEF Idle
  <2>2. AttemptedAnew(w).left = AttemptedAnew(w).batch /\ AttemptedAnew(w).at = "source"
    BY DEF Idle, AttemptedAnew
  <2> QED BY <2>1, <2>2
<1> QED BY <1>1, <1>2, <1>3 DEF Victim, Same

\* The one at work, at any of its statements.
LEMMA WorkAgrees ==
  ASSUME LoaderAssumption, LoaderInv, AgreesInv, ~crossed, NEW w \in Writers, BeginBatch(w) \/ Advance(w) \/ Crash(w), ~crossed'
  PROVE  AgreesInv'
<1>1. Hand(w)' /\ \A v \in Writers \ {w} : tx'[v] = tx[v]
  BY LoaderSteps DEF Stepped, Others
<1>2. CASE Fails(w) /\ tx[w].at # "idle"
  <2>1. RolledBack(w) /\ disk' = disk /\ tx'[w].at = "idle"
    BY <1>2, IdleIsTyped DEF Fails, Same, LoaderInv, WritersInv
  <2> QED BY <1>1, <1>2, <2>1, RollBackAgrees
<1>3. CASE BeginBatch(w)
  BY <1>3, BeginAgrees
<1>4. CASE CommitBatch(w)
  BY <1>4, CommitAgrees
<1>5. CASE Victim(w)
  BY <1>1, <1>5, VictimStartsAnew, RollBackAgrees
<1>6. CASE \/ Insert(w) /\ Keyed(w, identity_key(Record(w))) = {}
           \/ ~Fails(w) /\ (Move(w) \/ UpsertSource(w) \/ Replay(w) \/ Recompute(w))
  BY <1>6, InsertAgrees, MoveAgrees, UpsertAgrees, ReplayAgrees, RecomputeAgrees
<1>7. CASE \/ Insert(w) /\ Keyed(w, identity_key(Record(w))) # {}
           \/ ~Fails(w) /\ (LockSource(w) \/ Find(w) \/ Adopt(w) \/ Reconcile(w) \/ Promote(w) \/ Lock(w))
  BY <1>1, <1>7, KeptStatementsKeepAgreement
<1>8. Fails(w) /\ Advance(w) => tx[w].at # "idle"
  BY WhoStepsWorks
<1> QED BY <1>2, <1>3, <1>4, <1>5, <1>6, <1>7, <1>8 DEF Advance, Crash

\* Batches that were once in flight together were so for ever.
LEMMA CrossedStays ==
  ASSUME NEW w \in Writers, BeginBatch(w) \/ Advance(w) \/ Crash(w), crossed
  PROVE  crossed'
BY DEF BeginBatch, Crash, Advance, LockSource, Find, Insert, Adopt, Reconcile, Promote, Lock, Move, UpsertSource,
       Replay, Recompute, CommitBatch, Victim, Fails, Reads, Same

LEMMA NextKeepsAgreement ==
  ASSUME LoaderAssumption, LoaderInv, AgreesInv, [LoaderNext]_loaderVars
  PROVE  AgreesInv'
<1>1. CASE LoaderNext
  <2>1. PICK w \in Writers : BeginBatch(w) \/ Advance(w) \/ Crash(w)
    BY <1>1 DEF LoaderNext
  <2>2. crossed => crossed'
    BY <2>1, CrossedStays
  <2>3. CASE crossed'
    BY <2>3 DEF AgreesInv
  <2>4. CASE ~crossed'
    BY <2>1, <2>2, <2>4, WorkAgrees
  <2> QED BY <2>3, <2>4
<1>2. CASE UNCHANGED loaderVars
  <2>1. tx' = tx /\ disk' = disk /\ draft' = draft /\ crossed' = crossed
    BY <1>2 DEF loaderVars
  <2>2. \A w \in Writers : HandAgrees(w) => HandAgrees(w)'
    BY <2>1 DEF HandAgrees, Record, RecordsIn, SourcesIn
  <2> QED BY <2>1, <2>2 DEF AgreesInv, OneAtATime, Paired, InStep, RecordsIn, SourcesIn, Stale
<1> QED BY <1>1, <1>2

LEMMA InitAgreement ==
  ASSUME LoaderAssumption, LoaderInit
  PROVE  AgreesInv
<1>1. \A w \in Writers : tx[w].at = "idle"
  BY DEF LoaderInit, Idle
<1>2. \A i \in Ids : disk[i] = None /\ draft[i] = None
  BY RowKinds DEF LoaderInit
<1> QED BY <1>1, <1>2 DEF AgreesInv, OneAtATime, Paired, InStep, HandAgrees

\* A book whose records were never loaded two batches at once has the isbn13 of
\* its key and the fields of all its records: what a batch leaves half done, or
\* out of date, it or its merge puts right before it commits.
THEOREM BooksAgree ==
  ASSUME LoaderAssumption
  PROVE  LoaderSpec => []BooksAgreeAlone
<1>1. LoaderInit => LoaderInv /\ AgreesInv
  BY InitLoaderInv, InitAgreement
<1>2. LoaderInv /\ AgreesInv /\ [LoaderNext]_loaderVars => (LoaderInv /\ AgreesInv)'
  BY NextKeepsLoaderInv, NextKeepsAgreement
<1>3. AgreesInv => BooksAgreeAlone
  BY DEF AgreesInv, Paired, InStep, RecordsIn, SourcesIn, BooksAgreeAlone, KeysAgree, CanonicalFromEvidence
<1> QED BY <1>1, <1>2, <1>3, PTL DEF LoaderSpec

(***************************************************************************)
(* One batch at a time, redelivered                                        *)
(***************************************************************************)

\* A title that goes with an isbn13, and a record that fits its book: a book
\* without isbn13 has records without, of its title.
TitleHas(title, isbn) == \E q \in CleanBooks : q.title = title /\ q.isbn13 = isbn
Fits(book, record) ==
  IF book.isbn13 = NoIsbn THEN record.isbn13 = NoIsbn /\ record.title = book.identity_key
  ELSE TitleHas(record.title, book.isbn13)

AllFit(rows) ==
  \A i \in Ids : rows[i] # None => \A s \in SourcesIn(rows, i) : rows[s].record.sid = s /\ Fits(rows[i], rows[s].record)

\* The record in hand fits its book, when it is stored; and what was read of
\* the books before is still so.
HandFits(w) ==
  /\ tx[w].at \in {"current", "promote", "lock", "lockOther", "move"} => Record(w).isbn13 # NoIsbn
  /\ tx[w].at \in {"promote", "lock", "lockOther", "move"} => draft[tx[w].book].isbn13 # Record(w).isbn13
  /\ tx[w].at \in {"lock", "lockOther", "move"} => draft[tx[w].survivor].isbn13 = Record(w).isbn13
  /\ tx[w].at = "upsert" => Fits(draft[tx[w].book], Record(w))

IsbnsInv == ~crossed => AllFit(disk) /\ AllFit(draft) /\ \A w \in Writers : HandFits(w)

\* Where the statements get that change no row.
Looked(w) ==
  LET record == Record(w) book == tx[w].book
  IN \/ /\ tx[w].at = "source" /\ draft[record.sid] # None
        /\ tx'[w].at = (IF record.isbn13 = NoIsbn THEN "upsert" ELSE "current") /\ tx'[w].book = draft[record.sid].book
     \/ tx[w].at = "source" /\ tx'[w].at = "find" /\ draft[record.sid] = None
     \/ tx[w].at = "find" /\ tx'[w].at = "insert"
     \/ tx[w].at = "insert" /\ tx'[w].at = "adopt"
     \/ /\ tx[w].at \in {"find", "adopt"} /\ tx'[w].at = "upsert"
        /\ tx'[w].book \in Ids /\ draft[tx'[w].book] # None /\ draft[tx'[w].book].identity_key = identity_key(record)
     \/ tx[w].at = "current" /\ tx'[w].at = "upsert" /\ tx'[w].book = book /\ draft[book].isbn13 = record.isbn13
     \/ tx[w].at = "current" /\ tx'[w].at = "promote" /\ tx'[w].book = book /\ draft[book].isbn13 # record.isbn13
     \/ /\ tx[w].at = "current" /\ tx'[w].at = "lock" /\ tx'[w].book = book /\ draft[book].isbn13 # record.isbn13
        /\ draft[tx'[w].survivor].isbn13 = record.isbn13
     \/ /\ tx[w].at \in {"lock", "lockOther"} /\ tx'[w].at \in {"lockOther", "move"}
        /\ tx'[w].book = book /\ tx'[w].survivor = tx[w].survivor

\* Tables with the same rows fit alike.
LEMMA SameRowsFit ==
  ASSUME NEW t, NEW u, \A r \in Rows : t[r] = u[r], AllFit(t)
  PROVE  AllFit(u)
<1>1. \A i : SourcesIn(u, i) = SourcesIn(t, i) /\ SourcesIn(u, i) \subseteq Rows
  BY DEF SourcesIn, Rows
<1>2. Ids \subseteq Rows
  BY DEF Rows
<1> QED BY <1>1, <1>2 DEF AllFit

\* The statements that take or read rows, one by one.
LEMMA LocksSource ==
  ASSUME LoaderAssumption, LoaderInv, OneAtATime, NEW w \in Writers, LockSource(w)
  PROVE  Keeps(w) /\ Looked(w)
<1> USE RowKinds DEF LoaderInv
<1>1. tx[w].at = "source" /\ \A r \in Rows : View(w, r) = draft[r]
  BY SeesDrafts DEF LockSource, At
<1>2. PICK sid \in Sids : sid = Record(w).sid /\ View(w, sid) = draft[sid]
  BY <1>1, RecordIsClean
<1>3. CASE View(w, sid) = None
  <2>1. Keeps(w) /\ tx'[w].at = "find"
    BY <1>2, <1>3, GoingOn DEF LockSource, Goto, Statements
  <2> QED BY <1>1, <1>2, <1>3, <2>1 DEF Looked
<1>4. CASE View(w, sid) # None
  <2>1. PICK at \in {"upsert", "current"} : at = IF Record(w).isbn13 = NoIsbn THEN "upsert" ELSE "current"
    OBVIOUS
  <2>2. PICK book \in Ids : book = View(w, sid).book
    BY <1>2, <1>4 DEF RowsInv, RowsTyped
  <2>3. tx' = [tx EXCEPT ![w].at = at, ![w].book = book]
    BY <1>2, <1>4, <2>1, <2>2 DEF LockSource
  <2>4. Keeps(w) /\ tx'[w].at = at /\ tx'[w].book = book
    BY <2>3, GoingOnWithBook DEF Statements
  <2> QED BY <1>1, <1>2, <1>4, <2>1, <2>2, <2>4 DEF Looked
<1> QED BY <1>3, <1>4

\* A book is found by the key of the record.
LEMMA FindsBook ==
  ASSUME LoaderAssumption, LoaderInv, OneAtATime, NEW w \in Writers, tx[w].at \in {"find", "adopt"},
         NEW i \in Keyed(w, identity_key(Record(w))), GotoBook(w, i)
  PROVE  Keeps(w) /\ Looked(w)
<1> USE RowKinds DEF LoaderInv
<1>1. i \in Ids /\ View(w, i) # None /\ View(w, i).identity_key = identity_key(Record(w)) /\ View(w, i) = draft[i]
  BY SeesDrafts DEF Keyed
<1>2. Keeps(w) /\ tx'[w].at = "upsert" /\ tx'[w].book = i
  BY <1>1, GoingOnWithBook DEF GotoBook, Statements
<1> QED BY <1>1, <1>2 DEF Looked

LEMMA Reconciles ==
  ASSUME LoaderAssumption, LoaderInv, OneAtATime, NEW w \in Writers, Reconcile(w)
  PROVE  Keeps(w) /\ Looked(w)
<1> USE RowKinds DEF LoaderInv
<1>1. tx[w].at = "current" /\ HasSource(w) /\ \A r \in Rows : View(w, r) = draft[r]
  <2>1. tx[w].at = "current" /\ HasSource(w)
    BY DEF Reconcile, At, WritersInv, Hand
  <2> QED BY <2>1, SeesDrafts
<1>2. PICK book \in Ids : book = tx[w].book /\ View(w, book) = draft[book]
  BY <1>1, BookInHand
<1>3. CASE draft[book].isbn13 = Record(w).isbn13 /\ Goto(w, "upsert")
  <2>1. Keeps(w) /\ tx'[w].at = "upsert" /\ tx'[w].book = book
    BY <1>2, <1>3, GoingOn DEF Goto, Statements
  <2> QED BY <1>1, <1>2, <1>3, <2>1 DEF Looked
<1>4. CASE draft[book].isbn13 # Record(w).isbn13 /\ Goto(w, "promote")
  <2>1. Keeps(w) /\ tx'[w].at = "promote" /\ tx'[w].book = book
    BY <1>2, <1>4, GoingOn DEF Goto, Statements
  <2> QED BY <1>1, <1>2, <1>4, <2>1 DEF Looked
<1>5. ASSUME NEW i \in WithIsbn(w, Record(w).isbn13), draft[book].isbn13 # Record(w).isbn13,
             tx' = [tx EXCEPT ![w].at = "lock", ![w].survivor = i]
      PROVE  Keeps(w) /\ Looked(w)
  <2>1. i \in Ids /\ View(w, i).isbn13 = Record(w).isbn13 /\ View(w, i) = draft[i]
    BY <1>1 DEF WithIsbn
  <2>2. PICK t \in Transactions : t = tx[w]
    BY DEF WritersInv
  <2>3. tx'[w] = [t EXCEPT !.at = "lock", !.survivor = i] /\ \A v \in Writers \ {w} : tx'[v] = tx[v]
    BY <1>5, <2>2 DEF WritersInv
  <2>4. tx' \in [Writers -> Transactions]
    BY ReconcileSteps DEF Stepped
  <2>5. Keeps(w) /\ tx'[w].at = "lock" /\ tx'[w].book = book /\ tx'[w].survivor = i
    BY <1>2, <2>2, <2>3, <2>4 DEF Transactions, Keeps
  <2> QED BY <1>1, <1>2, <1>5, <2>1, <2>5 DEF Looked
<1> QED BY <1>2, <1>3, <1>4, <1>5 DEF Reconcile

LEMMA Looks ==
  ASSUME LoaderAssumption, LoaderInv, OneAtATime, NEW w \in Writers,
         \/ LockSource(w) \/ Find(w) \/ Lock(w)
         \/ Insert(w) /\ Keyed(w, identity_key(Record(w))) # {}
         \/ (Adopt(w) \/ Reconcile(w)) /\ ~Fails(w)
  PROVE  Keeps(w) /\ Looked(w) /\ Record(w)' = Record(w) /\ disk' = disk /\ \A r \in Rows : draft'[r] = draft[r]
<1>1. Keeps(w) /\ Looked(w)
  <2>1. CASE LockSource(w)
    BY <2>1, LocksSource
  <2>2. CASE Find(w)
    <3>1. tx[w].at = "find"
      BY <2>2 DEF Find, At
    <3>2. CASE Goto(w, "insert")
      BY <3>1, <3>2, GoingOn DEF Goto, Statements, Looked, LoaderInv
    <3> QED BY <2>2, <3>1, <3>2, FindsBook DEF Find
  <2>3. CASE Lock(w)
    BY <2>3, GoingOn DEF Lock, At, Goto, Statements, Looked, LoaderInv
  <2>4. CASE Insert(w) /\ Keyed(w, identity_key(Record(w))) # {}
    BY <2>4, GoingOn DEF Insert, At, Goto, Statements, Looked, LoaderInv
  <2>5. CASE Adopt(w) /\ ~Fails(w)
    BY <2>5, FindsBook DEF Adopt, At
  <2>6. CASE Reconcile(w)
    BY <2>6, Reconciles
  <2> QED BY <2>1, <2>2, <2>3, <2>4, <2>5, <2>6
<1>2. Record(w)' = Record(w)
  BY <1>1 DEF Keeps, Record
<1> QED BY <1>1, <1>2, ReadsDrafts

\* Another record of a source, on the book that the first one fits.
LEMMA AnotherFits ==
  ASSUME LoaderAssumption, OneIsbn, NEW q \in CleanBooks, NEW r \in CleanBooks, q.sid = r.sid, NEW book, Fits(book, q)
  PROVE  /\ r.isbn13 \in {NoIsbn, book.isbn13} => Fits(book, r)
         /\ r.isbn13 # NoIsbn /\ book.isbn13 # r.isbn13 => book.isbn13 = NoIsbn /\ book.identity_key = r.title
<1>1. q.title = r.title
  BY DEF OneIsbn
<1>2. CASE book.isbn13 = NoIsbn
  BY <1>1, <1>2 DEF Fits
<1>3. CASE book.isbn13 # NoIsbn
  <2>1. PICK p \in CleanBooks : p.title = r.title /\ p.isbn13 = book.isbn13
    BY <1>1, <1>3 DEF Fits, TitleHas
  <2>2. r.isbn13 \in {NoIsbn, book.isbn13}
    BY <1>3, <2>1 DEF OneIsbn
  <2>3. Fits(book, r)
    BY <1>3, <2>1 DEF Fits, TitleHas
  <2> QED BY <2>2, <2>3
<1> QED BY <1>2, <1>3

\* The source in hand is stored, with a record that fits its book.
LEMMA SourceFits ==
  ASSUME LoaderAssumption, LoaderInv, AllFit(draft), NEW w \in Writers,
         tx[w].at \notin {"idle", "commit"}, draft[Record(w).sid] # None, NEW i \in Ids, draft[Record(w).sid].book = i, draft[i] # None
  PROVE  \E q \in CleanBooks : q = draft[Record(w).sid].record /\ q.sid = Record(w).sid /\ Fits(draft[i], q)
<1>1. PICK sid \in Sids : sid = Record(w).sid
  BY RecordIsClean DEF LoaderInv
<1>2. sid \in SourcesIn(draft, i)
  BY <1>1 DEF SourcesIn
<1>3. draft[sid].record \in CleanBooks
  BY <1>1 DEF LoaderInv, RowsInv, RowsTyped, SourceRows
<1> QED BY <1>1, <1>2, <1>3 DEF AllFit

\* A step of the one at work that commits nothing.
LEMMA FitsDrafted ==
  ASSUME IsbnsInv, ~crossed, OneAtATime, NEW w \in Writers, tx[w].at # "idle" \/ \A v \in Writers : tx[v].at = "idle",
         \A v \in Writers \ {w} : tx'[v] = tx[v], disk' = disk, AllFit(draft'), HandFits(w)'
  PROVE  IsbnsInv'
<1>1. \A v \in Writers \ {w} : tx'[v].at = "idle"
  BY DEF OneAtATime
<1>2. \A v \in Writers \ {w} : HandFits(v)'
  BY <1>1 DEF HandFits
<1>3. AllFit(disk)' /\ AllFit(draft)'
  BY DEF IsbnsInv, AllFit, SourcesIn
<1> QED BY <1>2, <1>3 DEF IsbnsInv

\* The book that the source in hand refers to, for one who works alone.
LEMMA BookOfSource ==
  ASSUME LoaderAssumption, LoaderInv, OneAtATime, NEW w \in Writers,
         tx[w].at \in {"current", "promote", "lock", "lockOther", "move", "replay", "write"}
  PROVE  /\ tx[w].book \in Ids /\ draft[tx[w].book] # None /\ draft[tx[w].book] \in BookRows
         /\ draft[Record(w).sid] # None /\ draft[Record(w).sid].book = tx[w].book
<1> USE RowKinds DEF LoaderInv
<1>1. HasSource(w)
  BY DEF WritersInv, Hand
<1>2. /\ tx[w].book \in Ids /\ View(w, tx[w].book) # None /\ View(w, tx[w].book) \in BookRows
      /\ View(w, Record(w).sid) = draft[Record(w).sid] /\ View(w, Record(w).sid) # None
  BY <1>1, BookInHand
<1>3. View(w, tx[w].book) = draft[tx[w].book]
  BY <1>2, SeesDrafts
<1> QED BY <1>1, <1>2, <1>3 DEF HasSource

\* A source that is stored refers to a book that is, for one who works alone.
LEMMA StoredHasBook ==
  ASSUME LoaderAssumption, LoaderInv, OneAtATime, NEW w \in Writers, tx[w].at # "idle", NEW s \in Sids, draft[s] # None
  PROVE  draft[s].book \in Ids /\ draft[draft[s].book] # None
<1> USE RowKinds DEF LoaderInv
<1>1. \A r \in Rows : lockedBy[r] \in {None, w} /\ View(w, r) = draft[r]
  BY SeesDrafts
<1>2. View(w, s).book \in Ids /\ View(w, View(w, s).book) # None
  BY <1>1, SourceHasItsBook
<1> QED BY <1>1, <1>2

LEMMA LookingFits ==
  ASSUME LoaderAssumption, OneIsbn, LoaderInv, AgreesInv, IsbnsInv, ~crossed, NEW w \in Writers, Hand(w)',
         \/ LockSource(w) \/ Find(w) \/ Lock(w)
         \/ Insert(w) /\ Keyed(w, identity_key(Record(w))) # {}
         \/ (Adopt(w) \/ Reconcile(w)) /\ ~Fails(w)
  PROVE  IsbnsInv'
<1> USE RowKinds
<1>1. OneAtATime /\ AllFit(draft) /\ HandFits(w) /\ Paired(draft) /\ HandAgrees(w)
  BY DEF AgreesInv, IsbnsInv
<1>2. Keeps(w) /\ Looked(w) /\ Record(w)' = Record(w) /\ disk' = disk /\ \A r \in Rows : draft'[r] = draft[r]
  BY <1>1, Looks
<1>3. tx[w].at \notin {"idle", "commit"}
  BY <1>2 DEF Looked
<1>4. PICK record \in CleanBooks : record = Record(w) /\ record.sid \in Sids /\ record = Record(w)'
  BY <1>2, <1>3, RecordIsClean DEF LoaderInv
<1>5. /\ tx[w].at \in {"current", "lock", "lockOther"} =>
           /\ tx[w].book \in Ids /\ record.isbn13 # NoIsbn
           /\ \E q \in CleanBooks : q.sid = record.sid /\ Fits(draft[tx[w].book], q)
      /\ tx[w].at = "source" /\ draft[record.sid] # None =>
           /\ draft[record.sid].book \in Ids
           /\ \E q \in CleanBooks : q.sid = record.sid /\ Fits(draft[draft[record.sid].book], q)
  <2>1. CASE tx[w].at \in {"current", "lock", "lockOther"}
    BY <1>1, <1>3, <1>4, <2>1, BookOfSource, SourceFits DEF HandFits
  <2>2. CASE tx[w].at = "source" /\ draft[record.sid] # None
    BY <1>1, <1>3, <1>4, <2>2, StoredHasBook, SourceFits
  <2> QED BY <2>1, <2>2
<1>6. HandFits(w)'
  <2>1. CASE tx[w].at = "source" /\ draft[record.sid] # None
    <3>1. PICK book \in Ids : book = draft[record.sid].book /\ tx'[w].book = book
      BY <1>2, <1>4, <1>5, <2>1 DEF Looked
    <3>2. CASE record.isbn13 = NoIsbn
      <4>1. Fits(draft[book], record)
        BY <1>5, <2>1, <3>1, <3>2, AnotherFits
      <4>2. tx'[w].at = "upsert"
        BY <1>2, <1>4, <2>1, <3>2 DEF Looked
      <4> QED BY <1>2, <1>4, <3>1, <4>1, <4>2 DEF HandFits
    <3>3. CASE record.isbn13 # NoIsbn
      BY <1>2, <1>4, <2>1, <3>3 DEF HandFits, Looked
    <3> QED BY <3>2, <3>3
  <2>2. CASE tx'[w].at \in {"find", "insert", "adopt"}
    BY <2>2 DEF HandFits
  <2>3. CASE tx[w].at \in {"find", "adopt"} /\ tx'[w].at = "upsert"
    <3>1. PICK book \in Ids : book = tx'[w].book /\ draft[book] # None /\ draft[book].identity_key = identity_key(record)
      BY <1>2, <1>4, <2>3 DEF Looked
    <3>2. draft[book].isbn13 = record.isbn13
      BY <1>1, <1>4, <3>1, KeysAgreeWithRecords DEF Paired
    <3>3. Fits(draft[book], record)
      BY <3>1, <3>2 DEF Fits, TitleHas, identity_key
    <3> QED BY <1>2, <1>4, <2>3, <3>1, <3>3 DEF HandFits
  <2>4. CASE tx[w].at = "current"
    <3>1. PICK book \in Ids : book = tx[w].book /\ tx'[w].book = book
      BY <1>2, <1>5, <2>4 DEF Looked
    <3>2. CASE tx'[w].at = "upsert"
      <4>1. draft[book].isbn13 = record.isbn13
        BY <1>2, <1>4, <2>4, <3>1, <3>2 DEF Looked
      <4>2. Fits(draft[book], record)
        BY <1>5, <2>4, <4>1 DEF Fits, TitleHas
      <4> QED BY <1>2, <1>4, <3>1, <3>2, <4>2 DEF HandFits
    <3>3. CASE tx'[w].at = "promote"
      <4>1. draft[book].isbn13 # record.isbn13
        BY <1>2, <1>4, <2>4, <3>1, <3>3 DEF Looked
      <4> QED BY <1>2, <1>4, <1>5, <2>4, <3>1, <3>3, <4>1 DEF HandFits
    <3>4. CASE tx'[w].at = "lock"
      <4>1. draft[book].isbn13 # record.isbn13 /\ draft[tx'[w].survivor].isbn13 = record.isbn13
        BY <1>2, <1>4, <2>4, <3>1, <3>4 DEF Looked
      <4>2. draft'[tx'[w].survivor] = draft[tx'[w].survivor]
        BY <1>2, <3>4 DEF Hand
      <4> QED BY <1>2, <1>4, <1>5, <2>4, <3>1, <3>4, <4>1, <4>2 DEF HandFits
    <3> QED BY <1>2, <2>4, <3>2, <3>3, <3>4 DEF Looked
  <2>5. CASE tx[w].at \in {"lock", "lockOther"}
    <3>1. /\ tx'[w].at \in {"lockOther", "move"} /\ tx'[w].book = tx[w].book /\ tx'[w].survivor = tx[w].survivor
          /\ tx[w].survivor \in Ids
      BY <1>2, <2>5 DEF Looked, Hand
    <3>2. draft'[tx[w].survivor] = draft[tx[w].survivor] /\ draft'[tx[w].book] = draft[tx[w].book]
      BY <1>2, <1>5, <2>5, <3>1
    <3>3. draft[tx[w].survivor].isbn13 = record.isbn13 /\ draft[tx[w].book].isbn13 # record.isbn13
      BY <1>1, <1>4, <2>5 DEF HandFits, IsbnsInv
    <3> QED BY <1>4, <1>5, <2>5, <3>1, <3>2, <3>3 DEF HandFits
  <2> QED BY <1>2, <1>4, <2>1, <2>2, <2>3, <2>4, <2>5 DEF Looked
<1>7. AllFit(draft')
  BY <1>1, <1>2, SameRowsFit
<1> QED BY <1>1, <1>2, <1>3, <1>6, <1>7, FitsDrafted DEF Keeps

LEMMA InsertFits ==
  ASSUME LoaderAssumption, OneIsbn, LoaderInv, AgreesInv, IsbnsInv, ~crossed, NEW w \in Writers, Insert(w),
         Keyed(w, identity_key(Record(w))) = {}
  PROVE  IsbnsInv'
<1> USE RowKinds
<1>1. OneAtATime /\ AllFit(draft) /\ tx[w].at = "insert" /\ disk' = disk /\ \A v \in Writers \ {w} : tx'[v] = tx[v]
  BY LoaderSteps DEF AgreesInv, IsbnsInv, Insert, At, Same, Advance, Stepped, Others
<1>2. PICK record \in CleanBooks : record = Record(w)
  BY <1>1, RecordIsClean DEF LoaderInv
<1>3. PICK i \in Ids : i = tx'[w].book
  BY InsertAgrees
<1>4. PICK stub : stub = [identity_key |-> identity_key(record), isbn13 |-> record.isbn13, content |-> {}]
  OBVIOUS
<1>5. /\ tx'[w].at = "upsert" /\ Record(w)' = record /\ draft'[i] = stub /\ draft[i] = None
      /\ \A r \in Rows : r # i => draft'[r] = draft[r]
  BY <1>2, <1>3, <1>4, InsertAgrees
<1>6. Fits(stub, record)
  BY <1>4 DEF Fits, TitleHas, identity_key
<1>7. HandFits(w)'
  BY <1>3, <1>5, <1>6 DEF HandFits
<1>8. SourcesIn(draft', i) = {}
  <2>1. ASSUME NEW s \in Sids, draft[s] # None PROVE draft[s].book # i
    BY <1>1, <1>5, <2>1, StoredHasBook
  <2> QED BY <1>5, <2>1 DEF SourcesIn
<1>9. AllFit(draft')
  <2>1. \A j \in Ids : SourcesIn(draft', j) = SourcesIn(draft, j) /\ \A s \in SourcesIn(draft, j) : draft'[s] = draft[s]
    BY <1>5 DEF SourcesIn
  <2> QED BY <1>1, <1>5, <1>8, <2>1 DEF AllFit
<1> QED BY <1>1, <1>7, <1>9, FitsDrafted

\* The records of a book that gets the isbn13 of the record in hand, or whose
\* sources go to a book that has it: they are of that title.
LEMMA TitlesAreThatOfHand ==
  ASSUME LoaderAssumption, OneIsbn, LoaderInv, OneAtATime, AllFit(draft), NEW w \in Writers, HandFits(w),
         tx[w].at \in {"promote", "move"}, NEW new, new.isbn13 = Record(w).isbn13
  PROVE  /\ \A s \in SourcesIn(draft, tx[w].book) : draft[s].record.sid = s /\ Fits(new, draft[s].record)
         /\ Fits(new, Record(w))
<1>1. PICK record \in CleanBooks : record = Record(w) /\ record.isbn13 # NoIsbn
  BY RecordIsClean DEF LoaderInv, HandFits
<1>2. PICK book \in Ids : book = tx[w].book /\ draft[book] # None /\ draft[book].isbn13 # record.isbn13
  BY <1>1, BookOfSource DEF HandFits
<1>3. \E q \in CleanBooks : q.sid = record.sid /\ Fits(draft[book], q)
  BY <1>1, <1>2, BookOfSource, SourceFits
<1>4. draft[book].isbn13 = NoIsbn /\ draft[book].identity_key = record.title
  BY <1>1, <1>2, <1>3, AnotherFits
<1>5. ASSUME NEW s \in SourcesIn(draft, book) PROVE draft[s].record.sid = s /\ draft[s].record.title = record.title
  BY <1>2, <1>4 DEF AllFit, Fits
<1>6. \A q : q.title = record.title => Fits(new, q)
  BY <1>1 DEF Fits, TitleHas
<1> QED BY <1>1, <1>2, <1>5, <1>6

LEMMA PromoteFits ==
  ASSUME LoaderAssumption, OneIsbn, LoaderInv, AgreesInv, IsbnsInv, ~crossed, NEW w \in Writers, Promote(w), ~Fails(w)
  PROVE  IsbnsInv'
<1> USE RowKinds
<1>1. OneAtATime /\ AllFit(draft) /\ HandFits(w) /\ tx[w].at = "promote" /\ disk' = disk
  BY DEF AgreesInv, IsbnsInv, Promote, At, Same
<1>2. PICK book \in Ids : book = tx[w].book /\ draft[book] \in BookRows
  BY <1>1, PromotesDraft
<1> PICK old \in BookRows : old = draft[book]
  BY <1>2
<1>3. PICK new \in BookRows : new = draft'[book] /\ new = [old EXCEPT !.isbn13 = Record(w).isbn13, !.identity_key = identity_key(Record(w))]
  BY <1>1, <1>2, PromotesDraft
<1>4. new.isbn13 = Record(w).isbn13 /\ \A r \in Rows : r # book => draft'[r] = draft[r]
  <2>1. new.isbn13 = Record(w).isbn13
    BY <1>3 DEF BookRows
  <2> QED BY <1>1, <1>2, <2>1, PromotesDraft
<1>5. Fits(new, Record(w)) /\ \A s \in SourcesIn(draft, book) : draft[s].record.sid = s /\ Fits(new, draft[s].record)
  BY <1>1, <1>2, <1>4, TitlesAreThatOfHand
<1>6. Keeps(w) /\ tx'[w].at = "upsert" /\ tx'[w].book = book
  BY <1>1, <1>2, GoingOn DEF Promote, Goto, Statements, LoaderInv
<1>7. HandFits(w)'
  <2>1. Record(w)' = Record(w)
    BY <1>6 DEF Keeps, Record
  <2> QED BY <1>3, <1>5, <1>6, <2>1 DEF HandFits
<1>8. AllFit(draft')
  <2>1. \A j \in Ids : SourcesIn(draft', j) = SourcesIn(draft, j) /\ \A s \in SourcesIn(draft, j) : draft'[s] = draft[s]
    BY <1>4 DEF SourcesIn
  <2> SUFFICES ASSUME NEW j \in Ids, draft'[j] # None, NEW s \in SourcesIn(draft, j)
               PROVE  draft[s].record.sid = s /\ Fits(draft'[j], draft[s].record)
    BY <2>1 DEF AllFit
  <2>2. CASE j = book
    <3>1. draft'[j] = new /\ s \in SourcesIn(draft, book)
      BY <1>3, <2>2
    <3> QED BY <1>5, <3>1
  <2>3. CASE j # book
    <3>1. draft'[j] = draft[j]
      BY <1>4, <2>3
    <3> QED BY <1>1, <3>1 DEF AllFit
  <2> QED BY <2>2, <2>3
<1> QED BY <1>1, <1>6, <1>7, <1>8, FitsDrafted DEF Keeps

LEMMA MoveFits ==
  ASSUME LoaderAssumption, OneIsbn, LoaderInv, AgreesInv, IsbnsInv, ~crossed, NEW w \in Writers, Move(w), ~Fails(w)
  PROVE  IsbnsInv'
<1> USE RowKinds
<1>1. OneAtATime /\ AllFit(draft) /\ HandFits(w) /\ tx[w].at = "move"
  BY DEF AgreesInv, IsbnsInv, Move, At
<1>2. PICK book \in Ids, survivor \in Ids : book = tx[w].book /\ survivor = tx[w].survivor /\ survivor # book
  BY <1>1, MovesDraft
<1>3. PICK moved : moved = SourcesIn(draft, book)
  OBVIOUS
<1>4. /\ draft'[book] = None /\ draft[survivor] # None /\ disk' = disk
      /\ \A s \in moved : draft'[s] # None /\ draft'[s].book = survivor /\ draft'[s].record = draft[s].record
      /\ \A r \in Rows : r # book /\ r \notin moved => draft'[r] = draft[r]
      /\ Keeps(w) /\ tx'[w].at = "upsert" /\ tx'[w].book = survivor /\ Record(w)' = Record(w)
  BY <1>1, <1>2, <1>3, MovesDraft
<1>5. moved \subseteq Sids /\ \A s \in Sids : s \in moved <=> draft[s] # None /\ draft[s].book = book
  BY <1>3 DEF SourcesIn
<1>6. draft[survivor].isbn13 = Record(w).isbn13
  BY <1>1, <1>2 DEF HandFits
<1>7. Fits(draft[survivor], Record(w)) /\ \A s \in moved : draft[s].record.sid = s /\ Fits(draft[survivor], draft[s].record)
  BY <1>1, <1>2, <1>3, <1>6, TitlesAreThatOfHand
<1>8. draft'[survivor] = draft[survivor] /\ \A i \in Ids \ {book} : draft'[i] = draft[i]
  BY <1>2, <1>4, <1>5
<1>9. HandFits(w)'
  BY <1>4, <1>7, <1>8 DEF HandFits
<1>10. AllFit(draft')
  <2>1. \A i \in Ids \ {book, survivor} : SourcesIn(draft', i) = SourcesIn(draft, i) /\ \A s \in SourcesIn(draft, i) : draft'[s] = draft[s]
    BY <1>4, <1>5 DEF SourcesIn
  <2>2. SourcesIn(draft', survivor) = moved \cup SourcesIn(draft, survivor) /\ \A s \in SourcesIn(draft, survivor) \ moved : draft'[s] = draft[s]
    BY <1>2, <1>4, <1>5 DEF SourcesIn
  <2>3. \A s \in SourcesIn(draft', survivor) : draft'[s].record.sid = s /\ Fits(draft[survivor], draft'[s].record)
    BY <1>1, <1>2, <1>4, <1>7, <2>2 DEF AllFit
  <2> QED BY <1>1, <1>2, <1>4, <1>8, <2>1, <2>3 DEF AllFit
<1> QED BY <1>1, <1>4, <1>9, <1>10, FitsDrafted DEF Keeps

LEMMA UpsertFits ==
  ASSUME LoaderAssumption, OneIsbn, LoaderInv, AgreesInv, IsbnsInv, ~crossed, NEW w \in Writers, UpsertSource(w), ~Fails(w)
  PROVE  IsbnsInv'
<1> USE RowKinds
<1>1. OneAtATime /\ AllFit(draft) /\ HandFits(w) /\ tx[w].at = "upsert"
  BY DEF AgreesInv, IsbnsInv, UpsertSource, At
<1>2. PICK book \in Ids, record \in CleanBooks : book = tx[w].book /\ record = Record(w) /\ record.sid \in Sids
  BY <1>1, UpsertsDraft, RecordIsClean DEF LoaderInv
<1>3. /\ disk' = disk /\ draft'[record.sid] = [book |-> book, record |-> record]
      /\ \A r \in Rows : r # record.sid => draft'[r] = draft[r]
      /\ Keeps(w) /\ tx'[w].at = "replay"
  BY <1>1, <1>2, UpsertsDraft
<1>4. Fits(draft[book], record)
  BY <1>1, <1>2 DEF HandFits
<1>5. HandFits(w)'
  BY <1>3 DEF HandFits
<1>6. AllFit(draft')
  <2> SUFFICES ASSUME NEW i \in Ids, draft'[i] # None, NEW s \in SourcesIn(draft', i)
               PROVE  draft'[s].record.sid = s /\ Fits(draft'[i], draft'[s].record)
    BY DEF AllFit
  <2>1. draft'[i] = draft[i] /\ s \in Sids
    BY <1>2, <1>3 DEF SourcesIn
  <2>2. CASE s = record.sid
    BY <1>3, <1>4, <2>1, <2>2 DEF SourcesIn
  <2>3. CASE s # record.sid
    BY <1>1, <1>3, <2>1, <2>3 DEF SourcesIn, AllFit
  <2> QED BY <2>2, <2>3
<1> QED BY <1>1, <1>3, <1>5, <1>6, FitsDrafted DEF Keeps

LEMMA ReplayFits ==
  ASSUME LoaderAssumption, LoaderInv, AgreesInv, IsbnsInv, ~crossed, NEW w \in Writers, Replay(w)
  PROVE  IsbnsInv'
<1>1. OneAtATime /\ AllFit(draft)
  BY DEF AgreesInv, IsbnsInv
<1>2. tx[w].at = "replay" /\ Keeps(w) /\ tx'[w].at = "write" /\ disk' = disk /\ \A r \in Rows : draft'[r] = draft[r]
  BY <1>1, ReplayReads, ReadsDrafts
<1>3. AllFit(draft') /\ HandFits(w)'
  BY <1>1, <1>2, SameRowsFit DEF HandFits
<1> QED BY <1>1, <1>2, <1>3, FitsDrafted DEF Keeps

LEMMA RecomputeFits ==
  ASSUME LoaderAssumption, LoaderInv, AgreesInv, IsbnsInv, ~crossed, NEW w \in Writers, Recompute(w), ~Fails(w)
  PROVE  IsbnsInv'
<1> USE RowKinds
<1>1. OneAtATime /\ AllFit(draft) /\ Paired(draft) /\ HandAgrees(w) /\ tx[w].at = "write"
  BY DEF AgreesInv, IsbnsInv, Recompute, At
<1>2. PICK book \in Ids : book = tx[w].book
  BY <1>1, RecomputesDraft
<1>3. /\ draft[book] # None /\ disk' = disk
      /\ draft'[book].identity_key = draft[book].identity_key
      /\ draft'[book].isbn13 \in {draft[book].isbn13, AgreedIsbn(draft[book].identity_key)}
      /\ \A r \in Rows : r # book => draft'[r] = draft[r]
      /\ \A v \in Writers \ {w} : tx'[v] = tx[v]
      /\ tx'[w].at \in {"commit", "source"}
  BY <1>1, <1>2, RecomputesDraft
<1>4. \A record : Fits(draft[book], record) => Fits(draft'[book], record)
  <2>1. draft'[book].isbn13 = draft[book].isbn13
    BY <1>1, <1>3 DEF Paired
  <2> QED BY <1>3, <2>1 DEF Fits
<1>5. AllFit(draft')
  <2>1. \A j \in Ids : SourcesIn(draft', j) = SourcesIn(draft, j) /\ \A s \in SourcesIn(draft, j) : draft'[s] = draft[s]
    BY <1>3 DEF SourcesIn
  <2> QED BY <1>1, <1>3, <1>4, <2>1 DEF AllFit
<1>6. HandFits(w)'
  BY <1>3 DEF HandFits
<1> QED BY <1>1, <1>3, <1>5, <1>6, FitsDrafted

LEMMA RollBackFits ==
  ASSUME LoaderAssumption, LoaderInv, AgreesInv, IsbnsInv, ~crossed, NEW w \in Writers, tx[w].at # "idle",
         RolledBack(w), disk' = disk, \A v \in Writers \ {w} : tx'[v] = tx[v], tx'[w].at \in {"idle", "source"}
  PROVE  IsbnsInv'
<1>1. OneAtATime /\ AllFit(disk) /\ \A r \in Rows : draft'[r] = disk[r]
  BY RollBackAgrees DEF AgreesInv, IsbnsInv
<1>2. AllFit(draft') /\ HandFits(w)'
  BY <1>1, SameRowsFit DEF HandFits
<1> QED BY <1>1, <1>2, FitsDrafted

LEMMA CommitFits ==
  ASSUME LoaderAssumption, LoaderInv, AgreesInv, IsbnsInv, ~crossed, NEW w \in Writers, CommitBatch(w)
  PROVE  IsbnsInv'
<1>1. OneAtATime /\ AllFit(draft) /\ \A r \in Rows : disk'[r] = draft[r] /\ draft'[r] = draft[r]
  BY CommitAgrees DEF AgreesInv, IsbnsInv
<1>2. AllFit(disk)' /\ AllFit(draft)'
  <2>1. AllFit(disk') /\ AllFit(draft')
    BY <1>1, SameRowsFit
  <2> QED BY <2>1 DEF AllFit, SourcesIn
<1>3. \A v \in Writers : tx'[v].at = "idle"
  <2>1. tx[w].at # "idle" /\ tx' = [tx EXCEPT ![w] = Idle]
    BY DEF CommitBatch, At
  <2> QED BY <1>1, <2>1, IdleIsTyped DEF OneAtATime, LoaderInv, WritersInv
<1>4. \A v \in Writers : HandFits(v)'
  BY <1>3 DEF HandFits
<1> QED BY <1>2, <1>4 DEF IsbnsInv

LEMMA BeginFits ==
  ASSUME LoaderAssumption, LoaderInv, AgreesInv, IsbnsInv, ~crossed, NEW w \in Writers, BeginBatch(w), ~crossed'
  PROVE  IsbnsInv'
<1>1. disk' = disk /\ draft' = draft /\ \A v \in Writers : tx'[v].at \in {"idle", "source"}
  <2>1. disk' = disk /\ draft' = draft /\ \A v \in Writers \ {w} : tx'[v].at = "idle"
    BY LoaderSteps DEF BeginBatch, Stepped, Others
  <2>2. tx'[w].at = "source"
    BY DEF BeginBatch, LoaderInv, WritersInv, Transactions
  <2> QED BY <2>1, <2>2
<1>2. \A v \in Writers : HandFits(v)'
  BY <1>1 DEF HandFits
<1>3. AllFit(disk)' /\ AllFit(draft)'
  BY <1>1 DEF IsbnsInv, AllFit, SourcesIn
<1> QED BY <1>2, <1>3 DEF IsbnsInv

\* The one at work, at any of its statements.
LEMMA WorkFits ==
  ASSUME LoaderAssumption, OneIsbn, LoaderInv, AgreesInv, IsbnsInv, ~crossed, NEW w \in Writers,
         BeginBatch(w) \/ Advance(w) \/ Crash(w), ~crossed'
  PROVE  IsbnsInv'
<1>1. Hand(w)' /\ \A v \in Writers \ {w} : tx'[v] = tx[v]
  BY LoaderSteps DEF Stepped, Others
<1>2. CASE Fails(w) /\ tx[w].at # "idle"
  <2>1. RolledBack(w) /\ disk' = disk /\ tx'[w].at = "idle"
    BY <1>2, IdleIsTyped DEF Fails, Same, LoaderInv, WritersInv
  <2> QED BY <1>1, <1>2, <2>1, RollBackFits
<1>3. CASE BeginBatch(w)
  BY <1>3, BeginFits
<1>4. CASE CommitBatch(w)
  BY <1>4, CommitFits
<1>5. CASE Victim(w)
  BY <1>1, <1>5, VictimStartsAnew, RollBackFits
<1>6. CASE \/ Insert(w) /\ Keyed(w, identity_key(Record(w))) = {}
           \/ ~Fails(w) /\ (Promote(w) \/ Move(w) \/ UpsertSource(w) \/ Replay(w) \/ Recompute(w))
  BY <1>6, InsertFits, PromoteFits, MoveFits, UpsertFits, ReplayFits, RecomputeFits
<1>7. CASE \/ Insert(w) /\ Keyed(w, identity_key(Record(w))) # {}
           \/ ~Fails(w) /\ (LockSource(w) \/ Find(w) \/ Adopt(w) \/ Reconcile(w) \/ Lock(w))
  BY <1>1, <1>7, LookingFits
<1> QED BY <1>2, <1>3, <1>4, <1>5, <1>6, <1>7, WhoStepsWorks DEF Advance, Crash

\* A batch whose records are all stored as they are.
Repeats(w) ==
  \A n \in DOMAIN tx[w].batch : disk[tx[w].batch[n].sid] # None /\ disk[tx[w].batch[n].sid].record = tx[w].batch[n]

\* The records that are left are of the batch.
LeftOf(w) == \A n \in DOMAIN tx[w].left : \E m \in DOMAIN tx[w].batch : tx[w].left[n] = tx[w].batch[m]

\* It changes no row: each source is found with its book, which has the isbn13
\* of the record already and is computed from what is replayed.
RepeatsOf(w) ==
  /\ \A r \in Rows : draft[r] = disk[r]
  /\ tx[w].at \in {"source", "current", "upsert", "replay", "write", "commit"}
  /\ tx[w].at \in {"current", "upsert", "replay", "write"} => tx[w].book = disk[Record(w).sid].book
  /\ tx[w].at = "write" => tx[w].saw = tx[w].had

RepeatsInv == ~crossed => \A w \in Writers : LeftOf(w) /\ (tx[w].at # "idle" /\ Repeats(w) => RepeatsOf(w))

LEMMA HandIsStored ==
  ASSUME LoaderInv, NEW w \in Writers, LeftOf(w), Repeats(w), tx[w].at \notin {"idle", "commit"}
  PROVE  Record(w).sid \in Sids /\ disk[Record(w).sid] # None /\ disk[Record(w).sid].record = Record(w)
<1>1. tx[w].left \in Seq(CleanBooks) /\ tx[w].left # <<>> /\ Record(w).sid \in Sids
  BY RecordIsClean DEF LoaderInv
<1>2. 1 \in DOMAIN tx[w].left /\ Record(w) = tx[w].left[1]
  BY <1>1, EmptySeq, HeadTailProperties DEF Record
<1> QED BY <1>1, <1>2 DEF LeftOf, Repeats

\* Nobody else has a batch that could repeat.
LEMMA RepeatsAlone ==
  ASSUME RepeatsInv, ~crossed, NEW w \in Writers, \A v \in Writers \ {w} : tx[v].at = "idle" /\ tx'[v] = tx[v],
         LeftOf(w)', tx'[w].at # "idle" /\ Repeats(w)' => RepeatsOf(w)'
  PROVE  RepeatsInv'
<1>1. ASSUME NEW v \in Writers \ {w} PROVE LeftOf(v)' /\ tx'[v].at = "idle"
  BY DEF RepeatsInv, LeftOf
<1> QED BY <1>1 DEF RepeatsInv

\* A step within the record in hand.
LEMMA RepeatsOn ==
  ASSUME LoaderInv, OneAtATime, RepeatsInv, ~crossed, NEW w \in Writers, tx[w].at # "idle", Keeps(w), disk' = disk,
         RepeatsOf(w) /\ Repeats(w) /\ disk[Record(w).sid] # None /\ disk[Record(w).sid].record = Record(w) =>
           /\ \A r \in Rows : draft'[r] = disk[r]
           /\ tx'[w].at \in {"source", "current", "upsert", "replay", "write", "commit"}
           /\ tx'[w].at \in {"current", "upsert", "replay", "write"} => tx'[w].book = disk[Record(w).sid].book
           /\ tx'[w].at = "write" => tx'[w].saw = tx'[w].had,
         tx[w].at # "commit"
  PROVE  RepeatsInv'
<1>1. LeftOf(w) /\ LeftOf(w)' /\ (Repeats(w)' => Repeats(w)) /\ Record(w)' = Record(w)
  BY DEF RepeatsInv, LeftOf, Repeats, Keeps, Record
<1>2. tx'[w].at # "idle" /\ Repeats(w)' => RepeatsOf(w)'
  <2> SUFFICES ASSUME Repeats(w)' PROVE RepeatsOf(w)'
    OBVIOUS
  <2>1. Repeats(w) /\ RepeatsOf(w) /\ disk[Record(w).sid] # None /\ disk[Record(w).sid].record = Record(w)
    BY <1>1, HandIsStored DEF RepeatsInv
  <2>2. disk'[Record(w)'.sid] = disk[Record(w).sid]
    BY <1>1
  <2> QED BY <1>1, <2>1, <2>2 DEF RepeatsOf
<1> QED BY <1>1, <1>2, RepeatsAlone DEF Keeps, OneAtATime

LEMMA LookingRepeats ==
  ASSUME LoaderAssumption, OneIsbn, LoaderInv, AgreesInv, IsbnsInv, RepeatsInv, ~crossed, NEW w \in Writers,
         \/ LockSource(w) \/ Find(w) \/ Lock(w)
         \/ Insert(w) /\ Keyed(w, identity_key(Record(w))) # {}
         \/ (Adopt(w) \/ Reconcile(w)) /\ ~Fails(w)
  PROVE  RepeatsInv'
<1>1. OneAtATime /\ AllFit(draft) /\ HandFits(w)
  BY DEF AgreesInv, IsbnsInv
<1>2. Keeps(w) /\ Looked(w) /\ disk' = disk /\ \A r \in Rows : draft'[r] = draft[r]
  BY <1>1, Looks
<1>3. tx[w].at \notin {"idle", "commit"}
  BY <1>2 DEF Looked
<1>4. PICK record \in CleanBooks : record = Record(w) /\ record.sid \in Sids
  BY <1>3, RecordIsClean DEF LoaderInv
<1>5. ASSUME RepeatsOf(w), disk[record.sid] # None, disk[record.sid].record = record
      PROVE  /\ \A r \in Rows : draft'[r] = disk[r]
             /\ tx'[w].at \in {"current", "upsert"} /\ tx'[w].book = disk[record.sid].book
  <2>1. draft[record.sid] = disk[record.sid]
    BY <1>4, <1>5, RowKinds DEF RepeatsOf
  <2>2. CASE tx[w].at = "source"
    BY <1>2, <1>4, <1>5, <2>1, <2>2 DEF RepeatsOf, Looked
  <2>3. CASE tx[w].at = "current"
    <3>1. PICK book \in Ids : book = tx[w].book /\ draft[book] # None /\ draft[record.sid].book = book
      BY <1>1, <1>4, <2>3, BookOfSource
    <3>2. Fits(draft[book], record) /\ record.isbn13 # NoIsbn
      BY <1>1, <1>3, <1>4, <1>5, <2>1, <2>3, <3>1, SourceFits DEF HandFits
    <3>3. draft[book].isbn13 = record.isbn13
      BY <3>2, AnotherFits DEF Fits
    <3> QED BY <1>2, <1>4, <1>5, <2>1, <2>3, <3>1, <3>3 DEF RepeatsOf, Looked
  <2>4. CASE tx[w].at \notin {"source", "current"}
    BY <1>2, <1>5, <2>4 DEF RepeatsOf, Looked
  <2> QED BY <2>2, <2>3, <2>4
<1> QED BY <1>1, <1>2, <1>3, <1>4, <1>5, RepeatsOn

\* Of the statements that write, a batch that repeats comes to two: it stores
\* its record as it was, and finds the book as it is.
LEMMA InsertRepeats ==
  ASSUME LoaderAssumption, LoaderInv, AgreesInv, RepeatsInv, ~crossed, NEW w \in Writers, Insert(w),
         Keyed(w, identity_key(Record(w))) = {}
  PROVE  RepeatsInv'
<1>1. tx[w].at = "insert" /\ disk' = disk /\ OneAtATime
  BY DEF Insert, At, Same, AgreesInv
<1>2. Keeps(w)
  <2>1. PICK t \in Transactions : t = tx[w]
    BY DEF LoaderInv, WritersInv
  <2>2. PICK i : tx' = [tx EXCEPT ![w].at = "upsert", ![w].book = i, ![w].tally.inserted = @ + 1]
    BY DEF Insert
  <2>3. tx'[w] = [t EXCEPT !.at = "upsert", !.book = i, !.tally.inserted = @ + 1]
    BY <2>1, <2>2 DEF LoaderInv, WritersInv
  <2>4. tx' \in [Writers -> Transactions] /\ \A v \in Writers \ {w} : tx'[v] = tx[v]
    BY LoaderSteps DEF Advance, Stepped, Others
  <2> QED BY <2>1, <2>3, <2>4 DEF Transactions, Keeps
<1> QED BY <1>1, <1>2, RepeatsOn DEF RepeatsOf

LEMMA PromoteRepeats ==
  ASSUME LoaderInv, AgreesInv, RepeatsInv, ~crossed, NEW w \in Writers, Promote(w), ~Fails(w)
  PROVE  RepeatsInv'
<1>1. tx[w].at = "promote" /\ disk' = disk /\ OneAtATime
  BY DEF Promote, At, Same, AgreesInv
<1>2. Keeps(w)
  BY GoingOn DEF Promote, Goto, Statements, LoaderInv
<1> QED BY <1>1, <1>2, RepeatsOn DEF RepeatsOf

LEMMA MoveRepeats ==
  ASSUME LoaderAssumption, LoaderInv, AgreesInv, RepeatsInv, ~crossed, NEW w \in Writers, Move(w), ~Fails(w)
  PROVE  RepeatsInv'
<1>1. tx[w].at = "move" /\ disk' = disk /\ OneAtATime /\ Keeps(w)
  BY MovesDraft DEF AgreesInv
<1> QED BY <1>1, RepeatsOn DEF RepeatsOf

LEMMA UpsertRepeats ==
  ASSUME LoaderAssumption, LoaderInv, AgreesInv, RepeatsInv, ~crossed, NEW w \in Writers, UpsertSource(w), ~Fails(w)
  PROVE  RepeatsInv'
<1> USE RowKinds
<1>1. OneAtATime
  BY DEF AgreesInv
<1>2. PICK book \in Ids, record \in CleanBooks : book = tx[w].book /\ record = Record(w) /\ record.sid \in Sids
  BY <1>1, UpsertsDraft, RecordIsClean DEF LoaderInv
<1>3. /\ tx[w].at = "upsert" /\ disk' = disk /\ draft'[record.sid] = [book |-> book, record |-> record]
      /\ \A r \in Rows : r # record.sid => draft'[r] = draft[r]
      /\ Keeps(w) /\ tx'[w].at = "replay" /\ tx'[w].book = book
  BY <1>1, <1>2, UpsertsDraft
<1>4. ASSUME RepeatsOf(w), disk[record.sid] # None, disk[record.sid].record = record
      PROVE  book = disk[record.sid].book /\ \A r \in Rows : draft'[r] = disk[r]
  <2>1. book = disk[record.sid].book
    BY <1>2, <1>3, <1>4 DEF RepeatsOf
  <2>2. disk[record.sid] \in SourceRows
    BY <1>2, <1>4 DEF LoaderInv, RowsInv, RowsTyped
  <2>3. disk[record.sid] = [book |-> book, record |-> record]
    BY <1>4, <2>1, <2>2 DEF SourceRows
  <2> QED BY <1>3, <1>4, <2>1, <2>3 DEF RepeatsOf
<1> QED BY <1>1, <1>2, <1>3, <1>4, RepeatsOn

LEMMA ReplayRepeats ==
  ASSUME LoaderAssumption, LoaderInv, AgreesInv, RepeatsInv, ~crossed, NEW w \in Writers, Replay(w)
  PROVE  RepeatsInv'
<1>1. OneAtATime /\ InStep(disk, {})
  BY DEF AgreesInv
<1>2. PICK book \in Ids : book = tx[w].book /\ draft[book] # None
  BY <1>1, ReplayReads
<1>3. /\ tx[w].at = "replay" /\ Keeps(w) /\ tx'[w].at = "write" /\ tx'[w].book = book
      /\ tx'[w].saw = RecordsIn(draft, book) /\ tx'[w].had = draft[book].content
  BY <1>1, <1>2, ReplayReads
<1>4. disk' = disk /\ \A r \in Rows : draft'[r] = draft[r]
  BY <1>1, ReadsDrafts
<1>5. ASSUME RepeatsOf(w) PROVE RecordsIn(draft, book) = draft[book].content
  <2>1. \A r \in Rows : disk[r] = draft[r]
    BY <1>5 DEF RepeatsOf
  <2>2. InStep(draft, {})
    BY <1>1, <2>1, SameRows
  <2> QED BY <1>2, <2>2 DEF InStep
<1> QED BY <1>1, <1>2, <1>3, <1>4, <1>5, RepeatsOn DEF RepeatsOf

LEMMA RecomputeRepeats ==
  ASSUME LoaderAssumption, LoaderInv, AgreesInv, RepeatsInv, ~crossed, NEW w \in Writers, Recompute(w), ~Fails(w)
  PROVE  RepeatsInv'
<1>1. OneAtATime /\ HandAgrees(w) /\ LeftOf(w)
  BY DEF AgreesInv, RepeatsInv
<1>2. /\ tx[w].at = "write" /\ disk' = disk
      /\ tx[w].saw = tx[w].had => draft' = draft
      /\ \A v \in Writers \ {w} : tx'[v] = tx[v]
      /\ tx'[w].at \in {"commit", "source"} /\ tx'[w].batch = tx[w].batch /\ tx'[w].left = Tail(tx[w].left)
  BY <1>1, RecomputesDraft
<1>3. LeftOf(w)'
  <2>1. tx[w].left \in Seq(CleanBooks) /\ tx[w].left # <<>>
    BY <1>2, RecordIsClean DEF LoaderInv
  <2>2. PICK tail \in Seq(CleanBooks) : tail = Tail(tx[w].left)
    BY <2>1, HeadTailProperties
  <2>3. \A n \in DOMAIN tail : n + 1 \in DOMAIN tx[w].left /\ tail[n] = tx[w].left[n + 1]
    BY <2>1, <2>2, HeadTailProperties
  <2> QED BY <1>1, <1>2, <2>2, <2>3 DEF LeftOf
<1>4. Repeats(w)' => RepeatsOf(w)'
  <2>1. Repeats(w)' => Repeats(w)
    BY <1>2 DEF Repeats
  <2>2. RepeatsOf(w) => RepeatsOf(w)'
    BY <1>2 DEF RepeatsOf
  <2> QED BY <1>2, <2>1, <2>2 DEF RepeatsInv
<1> QED BY <1>1, <1>2, <1>3, <1>4, RepeatsAlone DEF OneAtATime

\* A writer that starts on its batch, or ends.
LEMMA AnewRepeats ==
  ASSUME RepeatsInv, ~crossed, NEW w \in Writers, \A v \in Writers \ {w} : tx[v].at = "idle" /\ tx'[v] = tx[v],
         tx'[w].left = tx'[w].batch, tx'[w].at \in {"idle", "source"}, \A r \in Rows : draft'[r] = disk'[r]
  PROVE  RepeatsInv'
<1>1. LeftOf(w)' /\ (tx'[w].at # "idle" => RepeatsOf(w)')
  BY DEF LeftOf, RepeatsOf
<1> QED BY <1>1, RepeatsAlone

LEMMA WorkRepeats ==
  ASSUME LoaderAssumption, OneIsbn, LoaderInv, AgreesInv, IsbnsInv, RepeatsInv, ~crossed, NEW w \in Writers,
         BeginBatch(w) \/ Advance(w) \/ Crash(w), ~crossed'
  PROVE  RepeatsInv'
<1>1. OneAtATime /\ \A v \in Writers \ {w} : tx'[v] = tx[v]
  BY LoaderSteps DEF Stepped, Others, AgreesInv
<1>2. CASE Fails(w) /\ tx[w].at # "idle"
  <2>1. RolledBack(w) /\ disk' = disk /\ tx'[w].at = "idle" /\ tx'[w].left = tx'[w].batch
    BY <1>2, IdleIsTyped DEF Fails, Same, LoaderInv, WritersInv
  <2> QED BY <1>1, <1>2, <2>1, RollBackAgrees, AnewRepeats DEF OneAtATime
<1>3. CASE BeginBatch(w)
  <2>1. disk' = disk /\ (\A r \in Rows : draft'[r] = disk[r]) /\ \A v \in Writers \ {w} : tx[v].at = "idle"
    BY <1>3, BeginAgrees DEF BeginBatch
  <2>2. tx'[w].at = "source" /\ tx'[w].left = tx'[w].batch
    <3>1. PICK t \in Transactions : t = tx[w]
      BY DEF LoaderInv, WritersInv
    <3>2. PICK batch : tx' = [tx EXCEPT ![w].at = "source", ![w].batch = batch, ![w].left = batch]
      BY <1>3 DEF BeginBatch
    <3>3. tx'[w] = [t EXCEPT !.at = "source", !.batch = batch, !.left = batch]
      BY <3>1, <3>2 DEF LoaderInv, WritersInv
    <3> QED BY <3>3 DEF Transactions
  <2> QED BY <1>1, <2>1, <2>2, AnewRepeats
<1>4. CASE CommitBatch(w)
  <2>1. tx[w].at # "idle" /\ tx'[w].at = "idle" /\ tx'[w].left = tx'[w].batch
    BY <1>4, IdleIsTyped DEF CommitBatch, At, LoaderInv, WritersInv
  <2> QED BY <1>1, <1>4, <2>1, CommitAgrees, AnewRepeats DEF OneAtATime
<1>5. CASE Victim(w)
  <2>1. RolledBack(w) /\ disk' = disk /\ tx[w].at # "idle" /\ tx'[w].at \in {"idle", "source"} /\ tx'[w].left = tx'[w].batch
    BY <1>5, VictimStartsAnew
  <2> QED BY <1>1, <2>1, RollBackAgrees, AnewRepeats DEF OneAtATime
<1>6. CASE \/ Insert(w) /\ Keyed(w, identity_key(Record(w))) = {}
           \/ ~Fails(w) /\ (Promote(w) \/ Move(w) \/ UpsertSource(w) \/ Replay(w) \/ Recompute(w))
  BY <1>6, InsertRepeats, PromoteRepeats, MoveRepeats, UpsertRepeats, ReplayRepeats, RecomputeRepeats
<1>7. CASE \/ Insert(w) /\ Keyed(w, identity_key(Record(w))) # {}
           \/ ~Fails(w) /\ (LockSource(w) \/ Find(w) \/ Adopt(w) \/ Reconcile(w) \/ Lock(w))
  BY <1>7, LookingRepeats
<1> QED BY <1>2, <1>3, <1>4, <1>5, <1>6, <1>7, WhoStepsWorks DEF Advance, Crash

\* disk is its rows and no more.
DiskIsRows == disk = [r \in Rows |-> disk[r]]

RedeliveryInv == LoaderInv /\ AgreesInv /\ IsbnsInv /\ RepeatsInv /\ DiskIsRows

LEMMA NextKeepsRedelivery ==
  ASSUME LoaderAssumption, OneIsbn, RedeliveryInv, [LoaderNext]_loaderVars
  PROVE  RedeliveryInv'
<1>1. LoaderInv' /\ AgreesInv'
  BY NextKeepsLoaderInv, NextKeepsAgreement DEF RedeliveryInv
<1>2. CASE LoaderNext
  <2>1. PICK w \in Writers : BeginBatch(w) \/ Advance(w) \/ Crash(w)
    BY <1>2 DEF LoaderNext
  <2>2. IsbnsInv' /\ RepeatsInv'
    <3>1. CASE crossed'
      BY <3>1 DEF IsbnsInv, RepeatsInv
    <3>2. CASE ~crossed'
      BY <2>1, <3>2, CrossedStays, WorkFits, WorkRepeats DEF RedeliveryInv
    <3> QED BY <3>1, <3>2
  <2>3. DiskIsRows'
    <3>1. CASE CommitBatch(w)
      BY <3>1 DEF CommitBatch, DiskIsRows
    <3>2. CASE ~CommitBatch(w)
      BY <2>1, <3>2, CommittedByHolder DEF RedeliveryInv, DiskIsRows
    <3> QED BY <3>1, <3>2
  <2> QED BY <1>1, <2>2, <2>3 DEF RedeliveryInv
<1>3. CASE UNCHANGED loaderVars
  <2>1. tx' = tx /\ disk' = disk /\ draft' = draft /\ crossed' = crossed
    BY <1>3 DEF loaderVars
  <2>2. IsbnsInv'
    BY <2>1 DEF RedeliveryInv, IsbnsInv, AllFit, SourcesIn, HandFits, Record
  <2>3. RepeatsInv'
    BY <2>1 DEF RedeliveryInv, RepeatsInv, LeftOf, Repeats, RepeatsOf, Record
  <2> QED BY <1>1, <2>1, <2>2, <2>3 DEF RedeliveryInv, DiskIsRows
<1> QED BY <1>2, <1>3

LEMMA InitRedelivery ==
  ASSUME LoaderAssumption, LoaderInit
  PROVE  RedeliveryInv
<1>1. \A w \in Writers : tx[w] = Idle
  BY DEF LoaderInit
<1>2. \A i \in Ids : disk[i] = None /\ draft[i] = None
  BY RowKinds DEF LoaderInit
<1>3. IsbnsInv /\ RepeatsInv
  BY <1>1, <1>2 DEF IsbnsInv, AllFit, HandFits, RepeatsInv, LeftOf, Idle
<1>4. DiskIsRows
  BY DEF LoaderInit, DiskIsRows
<1> QED BY <1>3, <1>4, InitLoaderInv, InitAgreement DEF RedeliveryInv

LEMMA RepetitionsCommitNothing ==
  ASSUME LoaderAssumption, RedeliveryInv, LoaderNext, ~crossed, NEW w \in Writers, CommitsWhatIsThere(w)
  PROVE  disk' = disk
<1>1. PICK v \in Writers : BeginBatch(v) \/ Advance(v) \/ Crash(v)
  BY DEF LoaderNext
<1>2. CASE ~CommitBatch(v)
  BY <1>1, <1>2, CommittedByHolder
<1>3. CASE CommitBatch(v)
  <2>1. v = w
    BY <1>3, LoaderSteps DEF RedeliveryInv, Advance, Stepped, Others, CommitsWhatIsThere
  <2>2. Repeats(w) /\ tx[w].at = "commit"
    BY DEF CommitsWhatIsThere, Repeats
  <2>3. \A r \in Rows : disk[r] = draft[r]
    BY <2>2 DEF RedeliveryInv, RepeatsInv, RepeatsOf
  <2>4. disk' = [r \in Rows |-> IF lockedBy[r] = w THEN draft[r] ELSE disk[r]]
    BY <1>3, <2>1 DEF CommitBatch
  <2>5. disk' = [r \in Rows |-> disk[r]]
    BY <2>3, <2>4
  <2> QED BY <2>5 DEF RedeliveryInv, DiskIsRows
<1> QED BY <1>2, <1>3

\* Records that are loaded again, one batch at a time, change no row: each is
\* found with its book, which is neither promoted nor merged, and what is
\* replayed is what the book was computed from.  That a title goes with one ISBN
\* is needed: two records of a book that differ in it promote it to and fro.
THEOREM RedeliveryHolds ==
  ASSUME LoaderAssumption, OneIsbn
  PROVE  LoaderSpec => RedeliveryAlone
<1>1. LoaderInit => RedeliveryInv
  BY InitRedelivery
<1>2. RedeliveryInv /\ [LoaderNext]_loaderVars => RedeliveryInv'
  BY NextKeepsRedelivery
<1>3. RedeliveryInv /\ [LoaderNext]_loaderVars =>
        [\A w \in Writers : ~crossed /\ CommitsWhatIsThere(w) => disk' = disk]_loaderVars
  BY RepetitionsCommitNothing
<1> QED BY <1>1, <1>2, <1>3, PTL DEF LoaderSpec, RedeliveryAlone

(***************************************************************************)
(* The contract: a batch whole, in one step, or not at all                 *)
(***************************************************************************)

\* Records of its batch that w has stored, the one in hand included once its
\* source row is written.
StoredSoFar(w) == Len(tx[w].batch) - Len(tx[w].left) + IF tx[w].at \in {"replay", "write"} THEN 1 ELSE 0

\* Of the first records of the batch, n is the last of source s.
IsLatest(batch, count, s, n) ==
  n \in 1..count /\ batch[n].sid = s /\ \A m \in 1..count : m > n => batch[m].sid # s

\* The row of source s as w has it: the latest it has stored, or as committed.
DraftOf(w, s) ==
  \/ \E n \in 1..StoredSoFar(w) : /\ IsLatest(tx[w].batch, StoredSoFar(w), s, n)
                                  /\ lockedBy[s] = w /\ draft[s].record = tx[w].batch[n]
  \/ /\ \A n \in 1..StoredSoFar(w) : tx[w].batch[n].sid # s
     /\ lockedBy[s] = w => disk[s] # None /\ draft[s].record = disk[s].record

InDrafts(w) ==
  /\ tx[w].at # "idle" => tx[w].batch \in Batches
  /\ Len(tx[w].left) <= Len(tx[w].batch)
  /\ \A n \in 1..Len(tx[w].left) : tx[w].left[n] = tx[w].batch[Len(tx[w].batch) - Len(tx[w].left) + n]
  /\ \A s \in Sids : DraftOf(w, s)

DraftsInv == \A w \in Writers : InDrafts(w)

\* Lengths are numbers.
LEMMA LengthsAreNumbers ==
  ASSUME WritersInv, NEW w \in Writers
  PROVE  Len(tx[w].batch) \in Nat /\ Len(tx[w].left) \in Nat /\ StoredSoFar(w) \in Int
<1>1. PICK batch \in Seq(CleanBooks), left \in Seq(CleanBooks) : batch = tx[w].batch /\ left = tx[w].left
  BY DEF WritersInv, Transactions
<1>2. Len(batch) \in Nat /\ Len(left) \in Nat
  OBVIOUS
<1> QED BY <1>1, <1>2 DEF StoredSoFar

LEMMA OthersKeepDrafts ==
  ASSUME LoaderAssumption, NEW w \in Writers, Others(w), NEW v \in Writers, v # w, InDrafts(v),
         \A r \in Rows : lockedBy[r] # w => disk'[r] = disk[r]
  PROVE  InDrafts(v)'
<1> USE RowKinds
<1>1. tx'[v] = tx[v] /\ StoredSoFar(v)' = StoredSoFar(v)
  BY DEF Others, StoredSoFar
<1>2. \A s \in Sids : /\ lockedBy'[s] = v <=> lockedBy[s] = v
                      /\ lockedBy[s] = v => draft'[s] = draft[s] /\ disk'[s] = disk[s]
  BY DEF Others
<1>3. ASSUME NEW s \in Sids PROVE DraftOf(v, s)'
  <2>1. DraftOf(v, s)
    BY DEF InDrafts
  <2> HIDE DEF StoredSoFar, IsLatest
  <2> QED BY <1>1, <1>2, <2>1 DEF DraftOf, IsLatest
<1> HIDE DEF DraftOf
<1> QED BY <1>1, <1>3 DEF InDrafts

\* A statement that stores no record, and takes rows as they are.
LEMMA KeepsDrafts ==
  ASSUME LoaderAssumption, NEW w \in Writers, InDrafts(w), disk' = disk, StoredSoFar(w)' = StoredSoFar(w),
         tx'[w].batch = tx[w].batch, tx[w].at # "idle",
         Len(tx'[w].left) <= Len(tx'[w].batch),
         \A n \in 1..Len(tx'[w].left) : tx'[w].left[n] = tx'[w].batch[Len(tx'[w].batch) - Len(tx'[w].left) + n],
         \A s \in Sids : /\ lockedBy[s] = w => lockedBy'[s] = w /\ draft'[s].record = draft[s].record
                         /\ lockedBy'[s] = w /\ lockedBy[s] # w => disk[s] # None /\ draft'[s].record = disk[s].record
  PROVE  InDrafts(w)'
<1>1. ASSUME NEW s \in Sids PROVE DraftOf(w, s)'
  <2>1. DraftOf(w, s)
    BY DEF InDrafts
  <2> HIDE DEF StoredSoFar
  <2> QED BY <2>1 DEF DraftOf, IsLatest
<1> HIDE DEF DraftOf
<1> QED BY <1>1 DEF InDrafts

LEMMA SourcesKeptKeepDrafts ==
  ASSUME LoaderAssumption, NEW w \in Writers, InDrafts(w), disk' = disk, StoredSoFar(w)' = StoredSoFar(w),
         tx'[w].batch = tx[w].batch, tx[w].at # "idle", SourcesKept(w),
         Len(tx'[w].left) <= Len(tx'[w].batch),
         \A n \in 1..Len(tx'[w].left) : tx'[w].left[n] = tx'[w].batch[Len(tx'[w].batch) - Len(tx'[w].left) + n]
  PROVE  InDrafts(w)'
<1>1. \A s \in Sids : /\ lockedBy[s] = w => lockedBy'[s] = w /\ draft'[s].record = draft[s].record
                      /\ lockedBy'[s] = w /\ lockedBy[s] # w => disk[s] # None /\ draft'[s].record = disk[s].record
  BY DEF SourcesKept, View
<1> QED BY <1>1, KeepsDrafts

LEMMA KeptStatementsKeepDrafts ==
  ASSUME LoaderAssumption, LoaderInv, NEW w \in Writers, InDrafts(w), Kept(w)
  PROVE  InDrafts(w)'
<1>1. SourcesKept(w) /\ Keeps(w) /\ disk' = disk /\ tx[w].at # "idle"
  BY DEF Kept, Progress
<1>2. StoredSoFar(w)' = StoredSoFar(w)
  BY DEF Kept, Keeps, Progress, StoredSoFar
<1> QED BY <1>1, <1>2, SourcesKeptKeepDrafts DEF Keeps, InDrafts

LEMMA InsertKeepsDrafts ==
  ASSUME LoaderAssumption, LoaderInv, NEW w \in Writers, InDrafts(w), Insert(w), Keyed(w, identity_key(Record(w))) = {}
  PROVE  InDrafts(w)'
<1> USE RowKinds DEF LoaderInv
<1>1. tx[w].at = "insert" /\ disk' = disk
  BY DEF Insert, At, Same
<1>2. Fresh \subseteq Nat /\ Fresh \subseteq Ids /\ Fresh # {}
  BY DEF Fresh, Insert
<1>3. PICK i \in Ids : i = Min(Fresh)
  BY <1>2, MinIsFirst
<1>4. SourcesKept(w)
  <2>1. PICK stub : WriteBook(w, i, stub)
    BY <1>3 DEF Insert
  <2> QED BY <1>1, <2>1, WriteBookKeepsSources
<1>5. tx'[w].at = "upsert" /\ tx'[w].batch = tx[w].batch /\ tx'[w].left = tx[w].left
  <2>1. PICK t \in Transactions : t = tx[w]
    BY DEF WritersInv
  <2>2. tx'[w] = [t EXCEPT !.at = "upsert", !.book = i, !.tally.inserted = @ + 1]
    BY <1>3, <2>1 DEF Insert, WritersInv
  <2> QED BY <2>1, <2>2 DEF Transactions
<1>6. StoredSoFar(w)' = StoredSoFar(w)
  BY <1>1, <1>5 DEF StoredSoFar
<1> QED BY <1>1, <1>4, <1>5, <1>6, SourcesKeptKeepDrafts DEF InDrafts

\* The records that are moved are the ones that were there.
LEMMA MoveKeepsDrafts ==
  ASSUME LoaderAssumption, LoaderInv, NEW w \in Writers, InDrafts(w), Move(w), ~Fails(w)
  PROVE  InDrafts(w)'
<1> USE RowKinds DEF LoaderInv
<1>1. tx[w].at = "move" /\ Blockers(w) = {} /\ HasSource(w) /\ Hand(w)
  BY DEF Move, At, WritersInv, Hand
<1>2. PICK book \in Ids : book = tx[w].book
  BY <1>1, BookInHand
<1>3. PICK survivor \in Ids \ {book} : survivor = tx[w].survivor
  BY <1>1, <1>2 DEF Hand
<1>4. /\ Write(w, Merged(w)) /\ disk' = disk /\ View(w, survivor) # None
      /\ tx' = [tx EXCEPT ![w].at = "upsert", ![w].book = survivor, ![w].survivor = None, ![w].tally.merges = @ + 1]
  BY <1>2, <1>3 DEF Move, Same
<1>5. lockedBy[book] = w /\ lockedBy[survivor] = w /\ draft[survivor] # None
  BY <1>1, <1>2, <1>3, <1>4, BookInHand DEF Hand, Gone, View
<1>6. \A s \in SourcesOf(w, book) : lockedBy[s] \in {None, w}
  BY <1>1, <1>2, NobodyElseHolds DEF Touched
<1>7. /\ \A s \in SourcesOf(w, book) : lockedBy'[s] = w /\ draft'[s] = [View(w, s) EXCEPT !.book = survivor]
      /\ \A r \in Rows : r # book /\ r \notin SourcesOf(w, book) => draft'[r] = draft[r] /\ lockedBy'[r] = lockedBy[r]
  BY <1>2, <1>3, <1>4, <1>5, <1>6, MergeKeepsRows
<1>8. \A s \in SourcesOf(w, book) : draft'[s].record = View(w, s).record /\ View(w, s) # None
  <2> SUFFICES ASSUME NEW s \in SourcesOf(w, book) PROVE draft'[s].record = View(w, s).record /\ View(w, s) # None
    OBVIOUS
  <2>1. PICK row \in SourceRows : row = View(w, s)
    BY ViewIsTyped DEF SourcesOf
  <2>2. [row EXCEPT !.book = survivor].record = row.record
    BY DEF SourceRows
  <2> QED BY <1>7, <2>1, <2>2
<1>9. \A s \in Sids : /\ lockedBy[s] = w => lockedBy'[s] = w /\ draft'[s].record = draft[s].record
                      /\ lockedBy'[s] = w /\ lockedBy[s] # w => disk[s] # None /\ draft'[s].record = disk[s].record
  BY <1>7, <1>8 DEF View
<1>10. tx'[w].at = "upsert" /\ tx'[w].batch = tx[w].batch /\ tx'[w].left = tx[w].left
  <2>1. PICK t \in Transactions : t = tx[w]
    BY DEF WritersInv
  <2>2. tx'[w] = [t EXCEPT !.at = "upsert", !.book = survivor, !.survivor = None, !.tally.merges = @ + 1]
    BY <1>4, <2>1 DEF WritersInv
  <2> QED BY <2>1, <2>2 DEF Transactions
<1>11. StoredSoFar(w)' = StoredSoFar(w)
  BY <1>1, <1>10 DEF StoredSoFar
<1>12. /\ Len(tx'[w].left) <= Len(tx'[w].batch)
       /\ \A n \in 1..Len(tx'[w].left) : tx'[w].left[n] = tx'[w].batch[Len(tx'[w].batch) - Len(tx'[w].left) + n]
  BY <1>10 DEF InDrafts
<1> HIDE DEF InDrafts, StoredSoFar
<1> QED BY <1>1, <1>4, <1>9, <1>10, <1>11, <1>12, KeepsDrafts

\* The record in hand is the next of the batch.
LEMMA HandIsNext ==
  ASSUME LoaderInv, NEW w \in Writers, InDrafts(w), tx[w].at \notin {"idle", "commit"}
  PROVE  /\ Record(w) = tx[w].batch[Len(tx[w].batch) - Len(tx[w].left) + 1]
         /\ Len(tx[w].left) >= 1
<1>1. tx[w].left \in Seq(CleanBooks) /\ tx[w].left # <<>>
  BY RecordIsClean DEF LoaderInv
<1>2. Len(tx[w].left) \in Nat /\ Len(tx[w].left) >= 1 /\ Record(w) = tx[w].left[1]
  BY <1>1, EmptySeq, HeadTailProperties DEF Record
<1>3. 1 \in 1..Len(tx[w].left)
  BY <1>2
<1>4. \A n \in 1..Len(tx[w].left) : tx[w].left[n] = tx[w].batch[Len(tx[w].batch) - Len(tx[w].left) + n]
  BY DEF InDrafts
<1>5. tx[w].left[1] = tx[w].batch[Len(tx[w].batch) - Len(tx[w].left) + 1]
  BY <1>3, <1>4
<1> QED BY <1>2, <1>5

\* Now the record in hand is the latest of its source.
LEMMA UpsertKeepsDrafts ==
  ASSUME LoaderAssumption, LoaderInv, NEW w \in Writers, InDrafts(w), UpsertSource(w), ~Fails(w)
  PROVE  InDrafts(w)'
<1> USE RowKinds DEF LoaderInv
<1>1. tx[w].at = "upsert" /\ Blockers(w) = {} /\ Hand(w)
  BY DEF UpsertSource, At, WritersInv
<1>2. PICK sid \in Sids : sid = Record(w).sid
  BY <1>1, RecordIsClean
<1>3. PICK book \in Ids : book = tx[w].book
  BY <1>1 DEF Hand
<1>4. PICK row : row = [book |-> book, record |-> Record(w)]
  OBVIOUS
<1>5. /\ Write(w, [r \in Touched(w) |-> IF r = sid THEN row ELSE View(w, r)])
      /\ Goto(w, "replay") /\ disk' = disk
  BY <1>2, <1>3, <1>4 DEF UpsertSource, Same
<1>6. Keeps(w) /\ tx'[w].at = "replay"
  BY <1>5, GoingOn DEF Statements, Goto
<1>7. Touched(w) = {sid} \cup IF Refers(w) THEN {} ELSE {book}
  BY <1>1, <1>2, <1>3 DEF Touched
<1>8. /\ lockedBy'[sid] = w /\ draft'[sid].record = Record(w)
      /\ \A s \in Sids \ {sid} : draft'[s] = draft[s] /\ lockedBy'[s] = lockedBy[s]
  BY <1>4, <1>5, <1>7 DEF Write
<1>9. PICK count \in Int : count = StoredSoFar(w)
  BY LengthsAreNumbers
<1>10. StoredSoFar(w)' = count + 1
  BY <1>1, <1>6, <1>9, LengthsAreNumbers DEF StoredSoFar, Keeps
<1>11. Record(w) = tx[w].batch[count + 1] /\ count >= 0
  <2>1. count = Len(tx[w].batch) - Len(tx[w].left)
    BY <1>1, <1>9, LengthsAreNumbers DEF StoredSoFar
  <2>2. Len(tx[w].left) <= Len(tx[w].batch)
    BY DEF InDrafts
  <2>3. Record(w) = tx[w].batch[Len(tx[w].batch) - Len(tx[w].left) + 1]
    BY <1>1, HandIsNext
  <2>4. count >= 0
    BY <2>1, <2>2, LengthsAreNumbers
  <2> QED BY <2>1, <2>3, <2>4
<1>12. ASSUME NEW s \in Sids PROVE DraftOf(w, s)'
  <2>1. tx'[w].batch = tx[w].batch
    BY <1>6 DEF Keeps
  <2>2. CASE s = sid
    <3>1. IsLatest(tx'[w].batch, count + 1, s, count + 1)
      BY <1>2, <1>11, <2>1, <2>2 DEF IsLatest
    <3>2. count + 1 \in 1..(count + 1)
      BY <1>11
    <3>3. lockedBy'[s] = w /\ draft'[s].record = tx'[w].batch[count + 1]
      BY <1>8, <1>11, <2>1, <2>2
    <3> HIDE DEF StoredSoFar
    <3> QED BY <1>10, <3>1, <3>2, <3>3 DEF DraftOf, IsLatest
  <2>3. CASE s # sid
    <3>1. DraftOf(w, s) /\ lockedBy'[s] = lockedBy[s] /\ draft'[s] = draft[s]
      BY <1>8, <2>3 DEF InDrafts
    <3>2. \A m \in 1..(count + 1) : m \in 1..count \/ tx[w].batch[m].sid # s
      BY <1>2, <1>11, <2>3
    <3>3. \A m \in 1..count : m \in 1..(count + 1)
      OBVIOUS
    <3>4. CASE \E n \in 1..count : IsLatest(tx[w].batch, count, s, n) /\ lockedBy[s] = w /\ draft[s].record = tx[w].batch[n]
      <4>1. PICK n \in 1..count : IsLatest(tx[w].batch, count, s, n) /\ lockedBy[s] = w /\ draft[s].record = tx[w].batch[n]
        BY <3>4
      <4>2. IsLatest(tx'[w].batch, count + 1, s, n) /\ n \in 1..(count + 1)
        BY <2>1, <3>2, <4>1 DEF IsLatest
      <4> HIDE DEF StoredSoFar
      <4> QED BY <1>10, <2>1, <3>1, <4>1, <4>2 DEF DraftOf, IsLatest
    <3>5. CASE (\A n \in 1..count : tx[w].batch[n].sid # s) /\ (lockedBy[s] = w => disk[s] # None /\ draft[s].record = disk[s].record)
      <4> HIDE DEF StoredSoFar
      <4> QED BY <1>5, <1>10, <2>1, <3>1, <3>2, <3>5 DEF DraftOf
    <3> QED BY <1>9, <3>1, <3>4, <3>5 DEF DraftOf
  <2> QED BY <2>2, <2>3
<1> HIDE DEF DraftOf
<1> QED BY <1>1, <1>6, <1>12 DEF InDrafts, Keeps

LEMMA ReplayKeepsDrafts ==
  ASSUME LoaderAssumption, LoaderInv, NEW w \in Writers, InDrafts(w), Replay(w)
  PROVE  InDrafts(w)'
<1> USE DEF LoaderInv
<1>1. tx[w].at = "replay" /\ disk' = disk /\ draft' = draft /\ lockedBy' = lockedBy
  BY DEF Replay, At, Reads, Same
<1>2. tx'[w].at = "write" /\ tx'[w].batch = tx[w].batch /\ tx'[w].left = tx[w].left
  <2>1. PICK row : row = View(w, tx[w].book)
    OBVIOUS
  <2>2. PICK t \in Transactions : t = tx[w]
    BY DEF WritersInv
  <2>3. tx'[w] = [t EXCEPT !.at = "write", !.saw = Evidence(w), !.had = row.content, !.key = row.identity_key]
    BY <2>1, <2>2 DEF Replay, WritersInv
  <2> QED BY <2>2, <2>3 DEF Transactions
<1>3. StoredSoFar(w)' = StoredSoFar(w)
  BY <1>1, <1>2 DEF StoredSoFar
<1> QED BY <1>1, <1>2, <1>3, ReadKeepsSources, SourcesKeptKeepDrafts DEF InDrafts

\* The record is done, and the next in hand.
LEMMA RecomputeKeepsDrafts ==
  ASSUME LoaderAssumption, LoaderInv, NEW w \in Writers, InDrafts(w), Recompute(w), ~Fails(w)
  PROVE  InDrafts(w)'
<1> USE DEF LoaderInv
<1>1. tx[w].at = "write" /\ HasSource(w) /\ disk' = disk
  BY DEF Recompute, At, WritersInv, Hand, Reads, Same
<1>2. SourcesKept(w)
  <2>1. tx[w].book \in Ids
    BY <1>1, BookInHand
  <2>2. CASE Reads
    BY <2>2, <1>1, ReadKeepsSources DEF Reads
  <2>3. CASE WriteBook(w, tx[w].book, Recomputed(w))
    BY <1>1, <2>1, <2>3, WriteBookKeepsSources
  <2> QED BY <2>2, <2>3 DEF Recompute
<1>3. PICK tally \in Tallies : Onwards(w, tally)
  BY CountedIsTyped DEF Recompute
<1>4. /\ tx'[w].at \in {"commit", "source"}
      /\ tx'[w].batch = tx[w].batch /\ tx'[w].left = Tail(tx[w].left)
  BY <1>1, <1>3, GoingOnwards
<1>5. PICK left \in Seq(CleanBooks) : left = tx[w].left /\ left # <<>>
  BY <1>1, RecordIsClean
<1>6. PICK tail \in Seq(CleanBooks) : tail = Tail(left)
  BY <1>5, HeadTailProperties
<1>7. PICK k \in Nat : k = Len(left) /\ k >= 1 /\ Len(tail) = k - 1 /\ \A n \in 1..k - 1 : tail[n] = left[n + 1]
  BY <1>5, <1>6, HeadTailProperties, EmptySeq
<1>8. PICK whole \in Nat : whole = Len(tx[w].batch)
  BY LengthsAreNumbers
<1>9. k <= whole /\ \A n \in 1..k : left[n] = tx[w].batch[whole - k + n]
  BY <1>5, <1>7, <1>8 DEF InDrafts
<1>10. Len(tx'[w].left) = k - 1 /\ tx'[w].left = tail /\ Len(tx'[w].batch) = whole
  BY <1>4, <1>5, <1>6, <1>7, <1>8
<1>11. StoredSoFar(w)' = StoredSoFar(w)
  <2>1. StoredSoFar(w) = whole - k + 1
    BY <1>1, <1>5, <1>7, <1>8 DEF StoredSoFar
  <2>2. StoredSoFar(w)' = whole - (k - 1) + 0
    BY <1>4, <1>10 DEF StoredSoFar
  <2> QED BY <2>1, <2>2
<1>12. /\ Len(tx'[w].left) <= Len(tx'[w].batch)
       /\ \A n \in 1..Len(tx'[w].left) : tx'[w].left[n] = tx'[w].batch[Len(tx'[w].batch) - Len(tx'[w].left) + n]
  <2>1. ASSUME NEW n \in 1..k - 1 PROVE tail[n] = tx[w].batch[whole - (k - 1) + n]
    <3>1. n + 1 \in 1..k /\ tail[n] = left[n + 1]
      BY <1>7
    <3>2. left[n + 1] = tx[w].batch[whole - k + (n + 1)]
      BY <1>9, <3>1
    <3>3. whole - k + (n + 1) = whole - (k - 1) + n
      OBVIOUS
    <3> QED BY <3>1, <3>2, <3>3
  <2>2. \A n \in 1..k - 1 : tx'[w].left[n] = tx'[w].batch[whole - (k - 1) + n]
    BY <1>4, <1>10, <2>1
  <2>3. k - 1 <= whole
    BY <1>9
  <2> QED BY <1>10, <2>2, <2>3
<1> HIDE DEF InDrafts, StoredSoFar
<1> QED BY <1>1, <1>2, <1>4, <1>11, <1>12, SourcesKeptKeepDrafts

\* A writer that starts on a batch, anew or not, or ends, has stored nothing.
LEMMA NothingInDrafts ==
  ASSUME LoaderAssumption, NEW w \in Writers, \A r \in Rows : lockedBy'[r] # w, WritersInv', tx'[w].left = tx'[w].batch,
         tx'[w].at \in {"idle", "source"}, tx'[w].at = "source" => tx'[w].batch \in Batches
  PROVE  InDrafts(w)'
<1>1. PICK batch \in Seq(CleanBooks) : batch = tx'[w].batch
  BY DEF WritersInv, Transactions
<1>2. Len(batch) \in Nat
  OBVIOUS
<1>3. StoredSoFar(w)' = 0
  BY <1>1, <1>2 DEF StoredSoFar
<1>4. ASSUME NEW s \in Sids PROVE DraftOf(w, s)'
  <2>1. lockedBy'[s] # w
    BY RowKinds
  <2> HIDE DEF StoredSoFar
  <2> QED BY <1>3, <2>1 DEF DraftOf
<1> HIDE DEF DraftOf
<1> QED BY <1>1, <1>2, <1>4 DEF InDrafts

LEMMA OwnDrafts ==
  ASSUME LoaderAssumption, LoaderInv, NEW w \in Writers, InDrafts(w), BeginBatch(w) \/ Advance(w) \/ Crash(w)
  PROVE  InDrafts(w)'
<1> USE DEF LoaderInv
<1>1. WritersInv'
  BY LoaderSteps, SteppedKeepsInv
<1>2. Idle.left = <<>> /\ Idle.batch = <<>> /\ Idle.at = "idle"
  BY DEF Idle
<1>3. CASE Fails(w)
  <2>1. \A r \in Rows : lockedBy'[r] # w
    BY <1>3, RollBackLeavesOthers, RowKinds DEF Fails, RolledBack
  <2>2. tx'[w] = Idle
    BY <1>3 DEF Fails, WritersInv
  <2> QED BY <1>1, <1>2, <2>1, <2>2, NothingInDrafts
<1>4. CASE CommitBatch(w)
  <2>1. \A r \in Rows : lockedBy'[r] # w
    BY <1>4, RowKinds DEF CommitBatch
  <2>2. tx'[w] = Idle
    BY <1>4 DEF CommitBatch, WritersInv
  <2> QED BY <1>1, <1>2, <2>1, <2>2, NothingInDrafts
<1>5. CASE Victim(w)
  <2>1. \A r \in Rows : lockedBy'[r] # w
    BY <1>5, RowKinds DEF Victim, RolledBack
  <2>2. tx'[w] \in {AttemptedAnew(w), Idle}
    BY <1>5 DEF Victim, WritersInv
  <2>3. PICK t \in Transactions : t = tx[w]
    BY DEF WritersInv
  <2>4. AttemptedAnew(w).left = t.batch /\ AttemptedAnew(w).batch = t.batch /\ AttemptedAnew(w).at = "source"
    BY <2>3 DEF AttemptedAnew, Idle
  <2>5. t.batch \in Batches
    <3>1. tx[w].at # "idle"
      <4>1. PICK circle \in SUBSET Writers : w \in circle /\ Blockers(w) \cap circle # {}
        BY <1>5 DEF Victim, Deadlocked
      <4>2. Touched(w) # {}
        BY <4>1 DEF Blockers
      <4>3. tx[w].at = "idle" => Touched(w) = {}
        BY DEF Touched
      <4> QED BY <4>2, <4>3
    <3> QED BY <2>3, <3>1 DEF InDrafts
  <2> HIDE DEF AttemptedAnew, Idle
  <2> QED BY <1>1, <1>2, <2>1, <2>2, <2>4, <2>5, NothingInDrafts
<1>6. CASE BeginBatch(w)
  <2>1. \A r \in Rows : lockedBy'[r] # w
    BY <1>6 DEF BeginBatch, WritersInv, Started
  <2>2. PICK batch \in Batches : tx' = [tx EXCEPT ![w].at = "source", ![w].batch = batch, ![w].left = batch]
    BY <1>6 DEF BeginBatch
  <2>3. tx'[w].at = "source" /\ tx'[w].left = batch /\ tx'[w].batch = batch
    <3>1. PICK t \in Transactions : t = tx[w]
      BY DEF WritersInv
    <3>2. tx'[w] = [t EXCEPT !.at = "source", !.batch = batch, !.left = batch]
      BY <2>2, <3>1 DEF WritersInv
    <3> QED BY <3>1, <3>2 DEF Transactions
  <2> QED BY <1>1, <2>1, <2>3, NothingInDrafts
<1>7. CASE \/ Insert(w) /\ Keyed(w, identity_key(Record(w))) = {}
           \/ ~Fails(w) /\ (Move(w) \/ UpsertSource(w) \/ Replay(w) \/ Recompute(w))
  BY <1>7, InsertKeepsDrafts, MoveKeepsDrafts, UpsertKeepsDrafts, ReplayKeepsDrafts, RecomputeKeepsDrafts
<1>8. CASE \/ Insert(w) /\ Keyed(w, identity_key(Record(w))) # {}
           \/ ~Fails(w) /\ (LockSource(w) \/ Find(w) \/ Adopt(w) \/ Reconcile(w) \/ Promote(w) \/ Lock(w))
  BY <1>8, KeptStatements, KeptStatementsKeepDrafts
<1> QED BY <1>3, <1>4, <1>5, <1>6, <1>7, <1>8 DEF Advance, Crash

LEMMA NextKeepsDrafts ==
  ASSUME LoaderAssumption, LoaderInv, DraftsInv, [LoaderNext]_loaderVars
  PROVE  DraftsInv'
<1>1. CASE LoaderNext
  <2>1. PICK w \in Writers : BeginBatch(w) \/ Advance(w) \/ Crash(w)
    BY <1>1 DEF LoaderNext
  <2>2. Others(w)
    BY <2>1, LoaderSteps DEF Stepped
  <2>3. \A r \in Rows : lockedBy[r] # w => disk'[r] = disk[r]
    BY <2>1, CommittedByHolder
  <2>4. InDrafts(w)'
    BY <2>1, OwnDrafts DEF DraftsInv
  <2>5. \A v \in Writers \ {w} : InDrafts(v)'
    BY <2>2, <2>3, OthersKeepDrafts DEF DraftsInv
  <2> QED BY <2>4, <2>5 DEF DraftsInv
<1>2. CASE UNCHANGED loaderVars
  <2>1. tx' = tx /\ disk' = disk /\ draft' = draft /\ lockedBy' = lockedBy
    BY <1>2 DEF loaderVars
  <2>2. ASSUME NEW w \in Writers PROVE InDrafts(w)'
    BY <2>1 DEF DraftsInv, InDrafts, DraftOf, StoredSoFar
  <2> QED BY <2>2 DEF DraftsInv
<1> QED BY <1>1, <1>2

LEMMA InitDrafts ==
  ASSUME LoaderAssumption, LoaderInit
  PROVE  DraftsInv
<1>1. ASSUME NEW w \in Writers PROVE InDrafts(w)
  <2>1. tx[w] = Idle /\ \A s \in Sids : lockedBy[s] = None
    BY RowKinds DEF LoaderInit
  <2>2. tx[w].left = <<>> /\ tx[w].batch = <<>> /\ tx[w].at = "idle" /\ Len(<<>>) = 0
    BY <2>1 DEF Idle
  <2>3. StoredSoFar(w) = 0
    BY <2>2 DEF StoredSoFar
  <2>4. \A s \in Sids : DraftOf(w, s)
    BY <2>1, <2>3, RowKinds DEF DraftOf
  <2> HIDE DEF DraftOf
  <2> QED BY <2>2, <2>4 DEF InDrafts
<1> QED BY <1>1 DEF DraftsInv

\* The last position of a source in a batch.
LEMMA LatestIsMax ==
  ASSUME NEW batch \in Seq(CleanBooks), NEW s, NEW n \in 1..Len(batch), IsLatest(batch, Len(batch), s, n)
  PROVE  Registers!Of(s, batch) # {} /\ Registers!Max(Registers!Of(s, batch)) = n
<1>1. Registers!Of(s, batch) = {m \in 1..Len(batch) : batch[m].sid = s} /\ Len(batch) \in Nat
  BY DEF Registers!Of
<1>2. n \in Registers!Of(s, batch) /\ \A m \in Registers!Of(s, batch) : n >= m /\ m \in Nat
  BY <1>1 DEF IsLatest
<1> HIDE DEF Registers!Of
<1>3. \A x \in Registers!Of(s, batch) : (\A m \in Registers!Of(s, batch) : x >= m) => x = n
  BY <1>2
<1> QED BY <1>2, <1>3, Zenon DEF Registers!Max

\* What is committed of a source.
Stored(s) == IF disk[s] = None THEN None ELSE disk[s].record

\* The commit of a batch is its load.
LEMMA CommitLoads ==
  ASSUME LoaderAssumption, LoaderInv, DraftsInv, NEW w \in Writers, CommitBatch(w)
  PROVE  Registers!Load(w)
<1> USE RowKinds DEF LoaderInv
<1>1. InDrafts(w) /\ tx[w].at = "commit" /\ tx[w].left = <<>>
  BY DEF DraftsInv, CommitBatch, At, WritersInv, Started
<1>2. PICK batch \in Seq(CleanBooks) : batch = tx[w].batch /\ batch \in Batches
  BY <1>1 DEF InDrafts, WritersInv, Transactions
<1>3. StoredSoFar(w) = Len(batch) /\ Len(batch) \in Nat
  <2>1. Len(<<>>) = 0 /\ Len(batch) \in Nat
    OBVIOUS
  <2> QED BY <1>1, <1>2, <2>1 DEF StoredSoFar
<1>4. \A s \in Sids : disk'[s] = IF lockedBy[s] = w THEN draft[s] ELSE disk[s]
  BY DEF CommitBatch
<1>5. ASSUME NEW s \in Sids
      PROVE  (IF disk'[s] = None THEN None ELSE disk'[s].record)
               = IF Registers!Of(s, batch) = {} THEN Stored(s) ELSE batch[Registers!Max(Registers!Of(s, batch))]
  <2>1. DraftOf(w, s)
    BY <1>1 DEF InDrafts
  <2>2. CASE \E n \in 1..Len(batch) : IsLatest(batch, Len(batch), s, n) /\ lockedBy[s] = w /\ draft[s].record = batch[n]
    <3>1. PICK n \in 1..Len(batch) : IsLatest(batch, Len(batch), s, n) /\ lockedBy[s] = w /\ draft[s].record = batch[n]
      BY <2>2
    <3>2. draft[s] # None
      BY <3>1 DEF RowsInv, HeldSourcesHaveBooks
    <3>3. Registers!Of(s, batch) # {} /\ Registers!Max(Registers!Of(s, batch)) = n
      BY <3>1, LatestIsMax
    <3> HIDE DEF Registers!Of
    <3> QED BY <1>4, <3>1, <3>2, <3>3
  <2>3. CASE /\ \A n \in 1..Len(batch) : batch[n].sid # s
             /\ lockedBy[s] = w => disk[s] # None /\ draft[s].record = disk[s].record
    <3>1. Registers!Of(s, batch) = {}
      BY <2>3 DEF Registers!Of
    <3>2. lockedBy[s] = w => draft[s] # None
      BY DEF RowsInv, HeldSourcesHaveBooks
    <3> QED BY <1>4, <2>3, <3>1, <3>2 DEF Stored
  <2> QED BY <1>2, <1>3, <2>1, <2>2, <2>3 DEF DraftOf
<1>6. loaded' = loaded + Len(batch)
  BY <1>2 DEF CommitBatch
<1>7. [s \in Sids |-> IF disk'[s] = None THEN None ELSE disk'[s].record]
        = [s \in DOMAIN [s \in Sids |-> Stored(s)] |->
            IF Registers!Of(s, batch) = {} THEN [t \in Sids |-> Stored(t)][s] ELSE batch[Registers!Max(Registers!Of(s, batch))]]
  BY <1>5
<1>8. [v \in Writers |-> tx'[v].batch] = [[v \in Writers |-> tx[v].batch] EXCEPT ![w] = <<>>]
  BY DEF CommitBatch, Idle, WritersInv
<1>9. [v \in Writers |-> tx[v].batch][w] = batch
  BY <1>2
<1> QED BY <1>2, <1>6, <1>7, <1>8, <1>9 DEF Registers!Load, Stored

\* The contract sees of other steps no more than which batch the writer has.
LEMMA StepsLoadNothing ==
  ASSUME LoaderAssumption, LoaderInv, NEW w \in Writers, BeginBatch(w) \/ Advance(w) \/ Crash(w), ~CommitBatch(w)
  PROVE  \/ Registers!Deliver(w)
         \/ Registers!GiveUp(w)
         \/ UNCHANGED Registers!vars
<1> USE DEF LoaderInv
<1>1. disk' = disk /\ loaded' = loaded
  BY CommittedByHolder
<1>2. \A v \in Writers \ {w} : tx'[v] = tx[v]
  BY LoaderSteps DEF Stepped, Others
<1>3. CASE BeginBatch(w)
  <2>1. PICK batch \in Batches : tx' = [tx EXCEPT ![w].at = "source", ![w].batch = batch, ![w].left = batch]
    BY <1>3 DEF BeginBatch
  <2>2. tx'[w].batch = batch
    <3>1. PICK t \in Transactions : t = tx[w]
      BY DEF WritersInv
    <3>2. tx'[w] = [t EXCEPT !.at = "source", !.batch = batch, !.left = batch]
      BY <2>1, <3>1 DEF WritersInv
    <3> QED BY <3>1, <3>2 DEF Transactions
  <2>3. tx[w].batch = <<>>
    <3>1. tx[w] = Idle /\ Idle.batch = <<>>
      BY <1>3 DEF BeginBatch, WritersInv, Started, Idle
    <3> QED BY <3>1
  <2>4. [v \in Writers |-> tx'[v].batch] = [[v \in Writers |-> tx[v].batch] EXCEPT ![w] = batch]
    BY <1>2, <2>2
  <2>5. Registers!Deliver(w)
    BY <1>1, <2>3, <2>4 DEF Registers!Deliver
  <2> QED BY <2>5
<1>4. CASE Advance(w) \/ Crash(w)
  <2>1. CASE tx'[w].batch = tx[w].batch
    <3>1. [v \in Writers |-> tx'[v].batch] = [v \in Writers |-> tx[v].batch]
      BY <1>2, <2>1
    <3> QED BY <1>1, <3>1 DEF Registers!vars
  <2>2. CASE tx'[w].batch = <<>>
    <3>1. [v \in Writers |-> tx'[v].batch] = [[v \in Writers |-> tx[v].batch] EXCEPT ![w] = <<>>]
      BY <1>2, <2>2
    <3> QED BY <1>1, <3>1 DEF Registers!GiveUp
  <2> QED BY <1>4, <2>1, <2>2, BatchStays
<1> QED BY <1>3, <1>4

\* The batch a writer was given is loaded whole, in one step, or not at all, and
\* of each source there is then the record that came last in it: merges by other
\* batches, a deadlock's victim that tries again and a process that dies show
\* nothing (postgres.py:141-145).
THEOREM LoadsAreAtomic ==
  ASSUME LoaderAssumption
  PROVE  LoaderSpec => StoresSpec
<1>1. LoaderInit => LoaderInv /\ DraftsInv /\ Registers!Init
  <2>1. LoaderInit => Registers!Init
    <3> SUFFICES ASSUME LoaderInit PROVE Registers!Init
      OBVIOUS
    <3>1. loaded = 0 /\ \A s \in Sids : disk[s] = None
      BY RowKinds DEF LoaderInit
    <3>2. [w \in Writers |-> tx[w].batch] = [w \in Writers |-> <<>>]
      BY DEF LoaderInit, Idle
    <3> QED BY <3>1, <3>2 DEF Registers!Init, Sids
  <2> QED BY <2>1, InitLoaderInv, InitDrafts
<1>2. LoaderInv /\ DraftsInv /\ [LoaderNext]_loaderVars => (LoaderInv /\ DraftsInv)'
  BY NextKeepsLoaderInv, NextKeepsDrafts
<1>3. LoaderInv /\ DraftsInv /\ [LoaderNext]_loaderVars => [Registers!Next]_(Registers!vars)
  <2> SUFFICES ASSUME LoaderInv, DraftsInv, [LoaderNext]_loaderVars PROVE Registers!Next \/ UNCHANGED Registers!vars
    OBVIOUS
  <2>1. CASE LoaderNext
    <3>1. PICK w \in Writers : BeginBatch(w) \/ Advance(w) \/ Crash(w)
      BY <2>1 DEF LoaderNext
    <3> HIDE DEF Registers!Load, Registers!Deliver, Registers!GiveUp
    <3>2. CASE CommitBatch(w)
      BY <3>2, CommitLoads DEF Registers!Next
    <3>3. CASE ~CommitBatch(w)
      BY <3>1, <3>3, StepsLoadNothing DEF Registers!Next
    <3> QED BY <3>2, <3>3
  <2>2. CASE UNCHANGED loaderVars
    BY <2>2 DEF loaderVars, Registers!vars
  <2> QED BY <2>1, <2>2
<1> QED BY <1>1, <1>2, <1>3, PTL DEF LoaderSpec, StoresSpec, Registers!Spec

(***************************************************************************)
(* Waiting.                                                                *)
(***************************************************************************)

Working == {w \in Writers : tx[w].at # "idle"}

\* Writers of whom each waits for another of them.
Waiting == {c \in SUBSET Working : c # {} /\ \A v \in c : Blockers(v) \cap c # {}}

\* What a statement needs are rows.
LEMMA TouchedAreRows ==
  ASSUME LoaderAssumption, LoaderInv, NEW w \in Writers
  PROVE  Touched(w) \subseteq Rows
<1> USE RowKinds DEF LoaderInv
<1>1. tx[w].at \in Statements \cup {"idle"}
  BY DEF WritersInv, Transactions
<1>2. tx[w].at \notin {"idle", "commit"} => Record(w).sid \in Sids
  BY RecordIsClean
<1>3. tx[w].at \in {"promote", "lock", "lockOther", "write"} => tx[w].book \in Ids
  BY BookInHand DEF WritersInv, Hand
<1>4. tx[w].at = "upsert" => tx[w].book \in Ids
  BY DEF WritersInv, Hand
<1>5. tx[w].at \in {"lock", "lockOther"} => tx[w].survivor \in Ids
  BY DEF WritersInv, Hand
<1>6. CASE tx[w].at \in {"lock", "lockOther"}
  <2>1. PICK i \in Ids, j \in Ids : tx[w].book = i /\ tx[w].survivor = j
    BY <1>3, <1>5, <1>6
  <2>2. i \in Nat /\ j \in Nat
    BY <2>1
  <2>3. {Min({i, j}), Max({i, j})} = {i, j}
    BY <2>2, LowAndHigh
  <2>4. Touched(w) \in {{Min({i, j})}, {Max({i, j})}}
    BY <1>6, <2>1 DEF Touched
  <2> HIDE DEF Rows
  <2> QED BY <2>3, <2>4
<1>8. CASE tx[w].at \notin {"lock", "lockOther"}
  <2>1. Contending(w) \subseteq Ids /\ Keyed(w, identity_key(Record(w))) \subseteq Ids /\ SourcesOf(w, tx[w].book) \subseteq Sids
    BY DEF Contending, Keyed, SourcesOf
  <2> HIDE DEF Rows
  <2> QED BY <1>1, <1>2, <1>3, <1>4, <1>8, <2>1 DEF Touched, Statements
<1> QED BY <1>6, <1>8

\* Only who is at work holds rows, or waits.
LEMMA BlockersWork ==
  ASSUME LoaderAssumption, LoaderInv, NEW w \in Writers
  PROVE  Blockers(w) \subseteq Working \ {w}
<1>1. ASSUME NEW r \in Touched(w), lockedBy[r] \notin {None, w} PROVE lockedBy[r] \in Working
  <2>1. r \in Rows
    BY <1>1, TouchedAreRows
  <2>2. lockedBy[r] \in Writers
    BY <1>1, <2>1 DEF LoaderInv, RowsInv, RowsTyped
  <2>3. tx[lockedBy[r]].at # "idle"
    BY <2>1, <2>2 DEF LoaderInv, WritersInv, Started
  <2> QED BY <2>2, <2>3 DEF Working
<1> QED BY <1>1 DEF Blockers

\* A least set of writers who wait for each other is a circle: one whom nobody
\* of them waits for could be left out.
LEMMA LeastWaitingIsCircle ==
  ASSUME LoaderAssumption, LoaderInv, IsFiniteSet(Writers), Waiting # {}
  PROVE  \E w \in Working : Deadlocked(w)
<1>1. ASSUME NEW c \in Waiting PROVE IsFiniteSet(c) /\ Cardinality(c) \in Nat
  BY <1>1, FS_Subset, FS_CardinalityType DEF Waiting, Working
<1> DEFINE sizes == {Cardinality(c) : c \in Waiting}
<1>2. sizes \subseteq Nat /\ sizes # {}
  BY <1>1
<1>3. Min(sizes) \in sizes /\ \A m \in sizes : Min(sizes) <= m
  BY <1>2, MinIsFirst
<1>4. PICK c \in Waiting : \A d \in Waiting : Cardinality(c) <= Cardinality(d)
  BY <1>3
<1>5. c \subseteq Working /\ c # {} /\ \A v \in c : Blockers(v) \cap c # {}
  BY DEF Waiting
<1>6. ASSUME NEW u \in c PROVE \E v \in c : u \in Blockers(v)
  <2> SUFFICES ASSUME \A v \in c : u \notin Blockers(v) PROVE FALSE
    OBVIOUS
  <2> DEFINE d == c \ {u}
  <2>1. u \notin Blockers(u)
    BY <1>5, BlockersWork DEF Working
  <2>2. d # {} /\ \A v \in d : Blockers(v) \cap d # {}
    BY <1>5, <2>1
  <2>3. d \in Waiting
    BY <1>5, <2>2 DEF Waiting
  <2>4. Cardinality(d) = Cardinality(c) - 1
    BY <1>1, FS_RemoveElement
  <2> QED BY <1>1, <1>4, <2>3, <2>4
<1>7. PICK w \in c : TRUE
  BY <1>5
<1>8. c \in SUBSET Writers /\ \A v \in c : Blockers(v) \cap c # {} /\ \E u \in c : v \in Blockers(u)
  BY <1>5, <1>6 DEF Working
<1>9. Deadlocked(w)
  BY <1>7, <1>8 DEF Deadlocked
<1> QED BY <1>5, <1>7, <1>9

\* However many writers there are and whatever they wait for: whenever a batch
\* is under way, one has its turn or is in a circle of which the server makes a
\* victim, so that nobody waits for good (postgres.py:70-79).
THEOREM StandstillIsFound ==
  ASSUME LoaderAssumption, IsFiniteSet(Writers)
  PROVE  LoaderSpec => []NoStandstill
<1>1. LoaderInv => NoStandstill
  <2> SUFFICES ASSUME LoaderInv, Working # {}, \A w \in Working : Blockers(w) # {}
               PROVE  \E w \in Working : Deadlocked(w)
    BY DEF NoStandstill, Working
  <2>1. \A w \in Working : Blockers(w) \cap Working # {}
    BY BlockersWork DEF Working
  <2>2. Working \in Waiting
    BY <2>1 DEF Waiting
  <2> QED BY <2>2, LeastWaitingIsCircle
<1> QED BY <1>1, LoaderInvariant, PTL

(***************************************************************************)
(* Types, and the bound of the tries                                       *)
(***************************************************************************)

BoundsInv ==
  /\ \A w \in Writers : tx[w].retries \in 0..DEADLOCK_RETRIES
  /\ loaded \in Nat /\ crossed \in BOOLEAN /\ batches \in 0..MaxBatches

\* A try more only of who has one left.
LEMMA RetriesStay ==
  ASSUME LoaderAssumption, LoaderInv, BoundsInv, NEW w \in Writers, BeginBatch(w) \/ Advance(w) \/ Crash(w)
  PROVE  tx'[w].retries \in 0..DEADLOCK_RETRIES
<1> USE DEF LoaderInv
<1>1. PICK t \in Transactions : t = tx[w]
  BY DEF WritersInv
<1>2. /\ DEADLOCK_RETRIES \in Nat /\ t.retries \in 0..DEADLOCK_RETRIES
      /\ Idle.retries = 0 /\ AttemptedAnew(w).retries = t.retries + 1
  BY <1>1 DEF Idle, AttemptedAnew, LoaderAssumption, BoundsInv
<1>3. CASE Fails(w) \/ CommitBatch(w)
  BY <1>2, <1>3 DEF Fails, CommitBatch, WritersInv
<1>4. CASE Victim(w)
  <2>1. tx'[w] = IF t.retries < DEADLOCK_RETRIES THEN AttemptedAnew(w) ELSE Idle
    BY <1>1, <1>4 DEF Victim, WritersInv
  <2> HIDE DEF Idle, AttemptedAnew
  <2> QED BY <1>2, <2>1
<1>5. ASSUME tx'[w].retries = t.retries PROVE tx'[w].retries \in 0..DEADLOCK_RETRIES
  BY <1>2, <1>5
<1>6. CASE ~Fails(w) /\ (LockSource(w) \/ Find(w) \/ Adopt(w) \/ Reconcile(w) \/ Promote(w) \/ Lock(w))
  BY <1>1, <1>5, <1>6, KeptStatements DEF Kept, Keeps
<1>7. CASE ~Fails(w) /\ (Insert(w) \/ Move(w))
  <2>1. tx'[w].retries = t.retries
    BY <1>1, <1>7 DEF Insert, Move, Goto, WritersInv, Transactions
  <2> QED BY <1>5, <2>1
<1>8. CASE ~Fails(w) /\ UpsertSource(w)
  <2>1. tx'[w].retries = t.retries
    BY <1>1, <1>8 DEF UpsertSource, Goto, WritersInv, Transactions
  <2> QED BY <1>5, <2>1
<1>9. CASE Replay(w)
  <2>1. tx'[w].retries = t.retries
    BY <1>1, <1>9 DEF Replay, WritersInv, Transactions
  <2> QED BY <1>5, <2>1
<1>10. CASE ~Fails(w) /\ Recompute(w)
  <2>1. PICK tally : Onwards(w, tally)
    BY <1>10 DEF Recompute
  <2>2. tx'[w].retries = t.retries
    BY <1>1, <2>1 DEF Onwards, WritersInv, Transactions
  <2> QED BY <1>5, <2>2
<1>11. CASE BeginBatch(w)
  <2>1. PICK batch : tx' = [tx EXCEPT ![w].at = "source", ![w].batch = batch, ![w].left = batch]
    BY <1>11 DEF BeginBatch
  <2>2. tx'[w].retries = t.retries
    BY <1>1, <2>1 DEF WritersInv, Transactions
  <2> QED BY <1>5, <2>2
<1> QED BY <1>3, <1>4, <1>6, <1>7, <1>8, <1>9, <1>10, <1>11 DEF Advance, Crash

LEMMA NextKeepsBounds ==
  ASSUME LoaderAssumption, LoaderInv, BoundsInv, [LoaderNext]_loaderVars
  PROVE  BoundsInv'
<1>1. ASSUME NEW w \in Writers, BeginBatch(w) \/ Advance(w) \/ Crash(w) PROVE BoundsInv'
  <2>1. \A v \in Writers : tx'[v].retries \in 0..DEADLOCK_RETRIES
    <3>1. \A v \in Writers \ {w} : tx'[v] = tx[v]
      BY <1>1, LoaderSteps DEF Stepped, Others
    <3> QED BY <1>1, <3>1, RetriesStay DEF BoundsInv
  <2>2. CASE BeginBatch(w)
    <3>1. MaxBatches \in Nat /\ batches \in Nat /\ batches <= MaxBatches
      BY DEF LoaderAssumption, BoundsInv
    <3>2. batches < MaxBatches /\ batches' = batches + 1 /\ loaded' = loaded /\ crossed' \in BOOLEAN
      BY <2>2 DEF BeginBatch, BoundsInv
    <3>3. batches' \in 0..MaxBatches
      BY <3>1, <3>2
    <3> QED BY <2>1, <3>2, <3>3 DEF BoundsInv
  <2>3. CASE CommitBatch(w)
    <3>1. PICK t \in Transactions : t = tx[w]
      BY DEF LoaderInv, WritersInv
    <3>2. Len(t.batch) \in Nat /\ loaded' = loaded + Len(t.batch) /\ UNCHANGED <<crossed, batches>>
      BY <2>3, <3>1 DEF CommitBatch, Transactions
    <3> QED BY <2>1, <3>2 DEF BoundsInv
  <2>4. CASE Same
    BY <2>1, <2>4 DEF Same, BoundsInv
  <2>5. BeginBatch(w) \/ CommitBatch(w) \/ Same
    BY <1>1 DEF Advance, Crash, Fails, LockSource, Find, Insert, Adopt, Reconcile, Promote, Lock, Move, UpsertSource,
                Replay, Recompute, Victim, Reads
  <2> QED BY <2>2, <2>3, <2>4, <2>5
<1>2. CASE UNCHANGED loaderVars
  BY <1>2 DEF loaderVars, BoundsInv
<1> QED BY <1>1, <1>2 DEF LoaderNext

\* Every variable of the loader keeps its type; a row that nobody holds is as it
\* is committed, who has no batch holds none, and no batch is tried more often
\* than _load_batch allows.
THEOREM LoaderTypes ==
  ASSUME LoaderAssumption
  PROVE  LoaderSpec => []LoaderTypeOK
<1>1. LoaderInit => LoaderInv /\ BoundsInv
  <2>1. LoaderInit => BoundsInv
    <3> SUFFICES ASSUME LoaderInit PROVE BoundsInv
      OBVIOUS
    <3>1. MaxBatches \in Nat /\ DEADLOCK_RETRIES \in Nat /\ Idle.retries = 0
      BY DEF LoaderAssumption, Idle
    <3>2. \A w \in Writers : tx[w].retries = 0
      BY <3>1 DEF LoaderInit
    <3>3. 0 \in 0..MaxBatches /\ 0 \in 0..DEADLOCK_RETRIES
      BY <3>1
    <3>4. loaded = 0 /\ crossed = FALSE /\ batches = 0
      BY DEF LoaderInit
    <3> QED BY <3>2, <3>3, <3>4 DEF BoundsInv
  <2> QED BY <2>1, InitLoaderInv
<1>2. LoaderInv /\ BoundsInv /\ [LoaderNext]_loaderVars => (LoaderInv /\ BoundsInv)'
  BY NextKeepsLoaderInv, NextKeepsBounds
<1>3. LoaderInv /\ BoundsInv => LoaderTypeOK
  <2> SUFFICES ASSUME LoaderInv, BoundsInv PROVE LoaderTypeOK
    OBVIOUS
  <2>1. RowsTyped
    BY DEF LoaderInv, RowsInv
  <2>2. \A w \in Writers : tx[w].at \in Statements \cup {"idle"} /\ (tx[w].at = "idle" => \A r \in Rows : lockedBy[r] # w)
    BY DEF LoaderInv, WritersInv, Transactions, Started
  <2> HIDE DEF Rows, BookRows, SourceRows, Statements
  <2> QED BY <2>1, <2>2 DEF RowsTyped, LoaderTypeOK, BoundsInv
<1> QED BY <1>1, <1>2, <1>3, PTL DEF LoaderSpec
================================================================================
