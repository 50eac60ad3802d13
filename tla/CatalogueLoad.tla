------------------------------ MODULE CatalogueLoad ------------------------------
(***************************************************************************)
(* The catalogue loader (load/postgres.py): writers load batches of        *)
(* records, a batch to a transaction, into books and book_sources.         *)
(*                                                                         *)
(* PostgreSQL at READ COMMITTED: a row that a transaction writes or selects *)
(* FOR UPDATE is its own until it ends, and a statement sees what was      *)
(* committed when it started, and the transaction's own writes.  One       *)
(* statement is one step.  A statement that needs a row, or a unique key,  *)
(* which another transaction holds waits for that transaction.             *)
(***************************************************************************)
EXTENDS Integers, FiniteSets, Sequences, FiniteSetsExt, TLC

CONSTANTS
  CleanBooks,     \* what sources deliver: [sid, isbn13, title, payload]
  NoIsbn,      \* a record without isbn13
  None,        \* no row, no writer
  Writers,     \* transactions at once: load consumers and in-process loads
  Ids,         \* bound: books.id
  MaxLength,   \* bound: records of a batch
  MaxBatches,  \* bound: batches delivered
  Assigned,   \* the writers that own the partitions they load from; the
               \* others load in process, or have lost theirs to a rebalance
  Hurried,     \* whether a source's record is taken before its first is in
  DEADLOCK_RETRIES

Sids == {r.sid : r \in CleanBooks}
Rows == Ids \cup Sids
Isbns == {r.isbn13 : r \in CleanBooks}
Keys == Isbns \cup {r.title : r \in CleanBooks}

\* identity_key: the ISBN, or a digest of title and author.
identity_key(r) == IF r.isbn13 = NoIsbn THEN r.title ELSE r.isbn13

\* _agree_on_identity: the isbn13 that goes with a key.
AgreedIsbn(key) == IF key \in Isbns THEN key ELSE NoIsbn

\* content: the payloads that the canonical fields were computed from, which
\* content_hash stands for; none for a stub.
BookRows == [identity_key: Keys, isbn13: Isbns \cup {NoIsbn}, content: SUBSET CleanBooks]
SourceRows == [book: Ids, record: CleanBooks]

LoaderAssumption ==
  /\ Ids \subseteq Nat /\ IsFiniteSet(Ids)
  /\ {MaxLength, MaxBatches, DEADLOCK_RETRIES} \subseteq Nat
  /\ Assigned \subseteq Writers
  /\ Hurried \in BOOLEAN
  /\ None \notin Ids \cup Sids \cup Writers \cup BookRows \cup SourceRows
  /\ Ids \cap Sids = {}
  /\ Isbns \cap {r.title : r \in CleanBooks} = {}

VARIABLES
  disk,    \* the rows as committed
  draft,   \* the rows as their owners have them
  lockedBy,   \* row -> the transaction that holds it
  tx,      \* writer -> its batch, statement and figures
  total,   \* LoadResult of the writers together
  loaded,  \* history: records of committed batches
  crossed, \* history: whether two batches were ever in flight at once
  batches

loaderVars == <<disk, draft, lockedBy, tx, total, loaded, crossed, batches>>

NoFigures == [inserted |-> 0, updated |-> 0, unchanged |-> 0, merges |-> 0]
Statements == {"source", "find", "insert", "adopt", "current", "promote", "lock",
               "lockOther", "move", "upsert", "replay", "write", "commit"}
Idle == [at |-> "idle", batch |-> <<>>, left |-> <<>>, book |-> None, survivor |-> None, saw |-> {},
         had |-> {}, key |-> NoIsbn, tally |-> NoFigures, retries |-> 0]

LoaderTypeOK ==
  /\ \A rows \in {disk, draft} :
       /\ DOMAIN rows = Rows
       /\ \A i \in Ids : rows[i] \in BookRows \cup {None}
       /\ \A s \in Sids : rows[s] \in SourceRows \cup {None}
  /\ lockedBy \in [Rows -> Writers \cup {None}]
  /\ \A r \in Rows : lockedBy[r] = None => draft[r] = disk[r]
  /\ \A w \in Writers :
       /\ tx[w].at \in Statements \cup {"idle"}
       /\ tx[w].at = "idle" => \A r \in Rows : lockedBy[r] # w
       /\ tx[w].retries \in 0..DEADLOCK_RETRIES
  /\ loaded \in Nat /\ crossed \in BOOLEAN /\ batches \in 0..MaxBatches

LoaderInit ==
  /\ disk = [r \in Rows |-> None]
  /\ draft = disk
  /\ lockedBy = [r \in Rows |-> None]
  /\ tx = [w \in Writers |-> Idle]
  /\ total = NoFigures
  /\ loaded = 0
  /\ crossed = FALSE
  /\ batches = 0

(***************************************************************************)
(* What a transaction sees and waits for                                   *)
(***************************************************************************)

View(w, r) == IF lockedBy[r] = w THEN draft[r] ELSE disk[r]
HeldByOther(w, r) == lockedBy[r] \notin {None, w}
Record(w) == Head(tx[w].left)

Keyed(w, key) == {i \in Ids : View(w, i) # None /\ View(w, i).identity_key = key}
WithIsbn(w, isbn) == {i \in Ids : View(w, i) # None /\ View(w, i).isbn13 = isbn}
SourcesOf(w, i) == {s \in Sids : View(w, s) # None /\ View(w, s).book = i}

\* The row of the source in hand refers to the book in hand already: only then
\* is the book not looked up for the foreign key, and not held.
Refers(w) == View(w, Record(w).sid) # None /\ View(w, Record(w).sid).book = tx[w].book

\* Books of others that have, or had, the key of the record in hand: a unique
\* index waits for them.
Contending(w) ==
  {i \in Ids : HeldByOther(w, i) /\ \E row \in {disk[i], draft[i]} \ {None} :
                               row.identity_key = identity_key(Record(w))}

\* The rows the statement in hand reads FOR UPDATE, writes, or waits for.
Touched(w) ==
  CASE tx[w].at = "source"    -> {s \in {Record(w).sid} : View(w, s) # None}
    [] tx[w].at = "find"      -> Keyed(w, identity_key(Record(w)))
    [] tx[w].at = "insert"    -> Contending(w)
    [] tx[w].at = "promote"   -> Contending(w) \cup {tx[w].book}
    [] tx[w].at = "lock"      -> {Min({tx[w].book, tx[w].survivor})}
    [] tx[w].at = "lockOther" -> {Max({tx[w].book, tx[w].survivor})}
    [] tx[w].at = "move"      -> SourcesOf(w, tx[w].book)
    [] tx[w].at = "upsert"    -> {Record(w).sid} \cup (IF Refers(w) THEN {} ELSE {tx[w].book})
    [] tx[w].at = "write"     -> IF tx[w].saw = tx[w].had THEN {} ELSE {tx[w].book}
    [] OTHER                  -> {}

Blockers(w) == {lockedBy[r] : r \in Touched(w)} \ {None, w}

\* w is at statement s and waits for nobody.
At(w, s) == tx[w].at = s /\ Blockers(w) = {}

Goto(w, s) == tx' = [tx EXCEPT ![w].at = s]
\* The book of the record is found.
GotoBook(w, i) == tx' = [tx EXCEPT ![w].at = "upsert", ![w].book = i]

\* w writes the rows of new, or takes them as they are.
Write(w, new) ==
  /\ draft' = [r \in Rows |-> IF r \in DOMAIN new THEN new[r] ELSE draft[r]]
  /\ lockedBy' = [r \in Rows |-> IF r \in DOMAIN new THEN w ELSE lockedBy[r]]
WriteBook(w, i, row) == Write(w, [b \in {i} |-> row])
Take(w, rows) == Write(w, [r \in rows |-> View(w, r)])
Same == UNCHANGED <<disk, total, loaded, crossed, batches>>
Reads == Same /\ UNCHANGED <<draft, lockedBy>>

Counted(w, name) == [tx[w].tally EXCEPT ![name] = @ + 1]

\* Everything w holds goes back to what is committed, and is free again.
RolledBack(w) ==
  /\ draft' = [r \in Rows |-> IF lockedBy[r] = w THEN disk[r] ELSE draft[r]]
  /\ lockedBy' = [r \in Rows |-> IF lockedBy[r] = w THEN None ELSE lockedBy[r]]

\* An integrity error is not retried: it goes up through load.
Fails(w) == RolledBack(w) /\ tx' = [tx EXCEPT ![w] = Idle] /\ Same

(***************************************************************************)
(* One record: _load_one                                                   *)
(***************************************************************************)

\* _locked_book_id_for_source: a row that is not there cannot be locked.
LockSource(w) ==
  /\ At(w, "source")
  /\ LET sid == Record(w).sid
     IN \/ /\ View(w, sid) # None
           /\ Take(w, {sid})
           /\ tx' = [tx EXCEPT ![w].at = IF Record(w).isbn13 = NoIsbn THEN "upsert" ELSE "current",
                                ![w].book = View(w, sid).book]
        \/ /\ View(w, sid) = None
           /\ Goto(w, "find")
           /\ UNCHANGED <<draft, lockedBy>>
  /\ Same

\* _find_or_create_book: the select.
Find(w) ==
  /\ At(w, "find")
  /\ LET found == Keyed(w, identity_key(Record(w)))
     IN \/ /\ found = {}
           /\ Goto(w, "insert")
           /\ UNCHANGED <<draft, lockedBy>>
        \/ \E i \in found : Take(w, {i}) /\ GotoBook(w, i)
  /\ Same

\* Ids are drawn from a sequence: none is used twice.  To keep them few, one
\* that nothing refers to any more is.
Fresh == {i \in Ids : disk[i] = None /\ draft[i] = None /\ lockedBy[i] = None
                     /\ \A w \in Writers : i \notin {tx[w].book, tx[w].survivor}}

\* The insert of a stub, ON CONFLICT (identity_key) DO NOTHING.
Insert(w) ==
  /\ At(w, "insert")
  /\ \/ /\ Keyed(w, identity_key(Record(w))) # {}
        /\ Goto(w, "adopt")
        /\ UNCHANGED <<draft, lockedBy>>
     \/ /\ Keyed(w, identity_key(Record(w))) = {}
        /\ Fresh # {}
        /\ WriteBook(w, Min(Fresh), [identity_key |-> identity_key(Record(w)),
                                     isbn13 |-> Record(w).isbn13, content |-> {}])
        /\ tx' = [tx EXCEPT ![w].at = "upsert", ![w].book = Min(Fresh), ![w].tally.inserted = @ + 1]
  /\ Same

\* The select after a conflict, which must return a row.
Adopt(w) ==
  /\ At(w, "adopt")
  /\ LET found == Keyed(w, identity_key(Record(w)))
     IN \/ found = {} /\ Fails(w)
        \/ \E i \in found : GotoBook(w, i) /\ Reads

\* _reconcile_isbn: the reads.
Reconcile(w) ==
  /\ At(w, "current")
  /\ LET book == tx[w].book
         claim == WithIsbn(w, Record(w).isbn13)
     IN \/ View(w, book).isbn13 = Record(w).isbn13 /\ Goto(w, "upsert")
        \/ /\ View(w, book).isbn13 # Record(w).isbn13
           /\ \/ claim = {} /\ Goto(w, "promote")
              \/ \E i \in claim : tx' = [tx EXCEPT ![w].at = "lock", ![w].survivor = i]
  /\ Reads

\* Two rows may have no key and no isbn13 in common.
Collides(w, book, row) ==
  \E i \in Ids \ {book} :
    /\ View(w, i) # None
    /\ \/ View(w, i).identity_key = row.identity_key
       \/ row.isbn13 # NoIsbn /\ View(w, i).isbn13 = row.isbn13

\* _reconcile_isbn: promotion in place.
Promote(w) ==
  /\ At(w, "promote")
  /\ LET book == tx[w].book
         row == [View(w, book) EXCEPT !.isbn13 = Record(w).isbn13, !.identity_key = identity_key(Record(w))]
     IN \/ Collides(w, book, row) /\ Fails(w)
        \/ /\ ~Collides(w, book, row)
           /\ WriteBook(w, book, row)
           /\ Goto(w, "upsert")
           /\ Same

\* _merge: both books, the lower id first.
Lock(w) ==
  /\ \/ At(w, "lock") /\ Goto(w, "lockOther")
     \/ At(w, "lockOther") /\ Goto(w, "move")
  /\ Take(w, {i \in Touched(w) : View(w, i) # None})
  /\ Same

\* MUTANT of Merged: the orphan stays.
OrphanKept(w) == [s \in SourcesOf(w, tx[w].book) |-> [View(w, s) EXCEPT !.book = tx[w].survivor]]

\* The sources move, then the orphan is deleted.
Merged(w) ==
  [r \in SourcesOf(w, tx[w].book) \cup {tx[w].book} |->
    IF r = tx[w].book THEN None ELSE [View(w, r) EXCEPT !.book = tx[w].survivor]]

\* _merge: a survivor that is gone violates the foreign key.
Move(w) ==
  /\ At(w, "move")
  /\ \/ View(w, tx[w].survivor) = None /\ Fails(w)
     \/ /\ View(w, tx[w].survivor) # None
        /\ Write(w, Merged(w))
        /\ tx' = [tx EXCEPT ![w].at = "upsert", ![w].book = tx[w].survivor, ![w].survivor = None,
                             ![w].tally.merges = @ + 1]
        /\ Same

\* _upsert_source: the payload is replaced; a row that comes to refer to the
\* book holds it until the transaction ends.
UpsertSource(w) ==
  /\ At(w, "upsert")
  /\ LET row == [book |-> tx[w].book, record |-> Record(w)]
     IN \/ View(w, tx[w].book) = None /\ Fails(w)
        \/ /\ View(w, tx[w].book) # None
           /\ Write(w, [r \in Touched(w) |-> IF r = Record(w).sid THEN row ELSE View(w, r)])
           /\ Goto(w, "replay")
           /\ Same

\* MUTANT of Evidence: the record in hand alone.
InHand(w) == {Record(w)}

\* _replay: every stored payload of the book.
Evidence(w) == {View(w, s).record : s \in SourcesOf(w, tx[w].book)}

Replay(w) ==
  /\ At(w, "replay")
  /\ LET row == View(w, tx[w].book)
     IN tx' = [tx EXCEPT ![w].at = "write", ![w].saw = Evidence(w), ![w].had = row.content,
                         ![w].key = row.identity_key]
  /\ Reads

\* What the next record of the batch starts from.
Onwards(w, tally) ==
  tx' = [tx EXCEPT ![w].at = IF Len(tx[w].left) = 1 THEN "commit" ELSE "source", ![w].left = Tail(@), ![w].book = None,
                   ![w].saw = {}, ![w].had = {}, ![w].key = NoIsbn, ![w].tally = tally]

\* MUTANT of Recomputed: the isbn13 of the record in hand.
IsbnInHand(w) ==
  [View(w, tx[w].book) EXCEPT !.content = tx[w].saw, !.isbn13 = Record(w).isbn13]

\* The canonical fields, isbn13 among them, as replayed.
Recomputed(w) ==
  [View(w, tx[w].book) EXCEPT !.content = tx[w].saw, !.isbn13 = AgreedIsbn(tx[w].key)]

\* _recompute: written if the digest differs from the one that was read.
Recompute(w) ==
  /\ At(w, "write")
  /\ LET book == tx[w].book
     IN \/ /\ tx[w].saw = tx[w].had
           /\ Onwards(w, Counted(w, "unchanged"))
           /\ Reads
        \/ /\ tx[w].saw # tx[w].had
           /\ Collides(w, book, Recomputed(w))
           /\ Fails(w)
        \/ /\ tx[w].saw # tx[w].had
           /\ ~Collides(w, book, Recomputed(w))
           /\ WriteBook(w, book, Recomputed(w))
           /\ Onwards(w, IF tx[w].had = {} THEN tx[w].tally ELSE Counted(w, "updated"))
           /\ Same

(***************************************************************************)
(* One batch: _load_batch                                                  *)
(***************************************************************************)

Batches == UNION {[1..n -> CleanBooks] : n \in 1..MaxLength}

\* Records of one identity_key are on one partition, with one consumer.
\* Records of one source need not be: their keys may differ.
InOrder(w, batch) ==
  \A v \in Writers \ {w} : \A i \in DOMAIN batch, j \in DOMAIN tx[v].batch :
    /\ identity_key(batch[i]) = identity_key(tx[v].batch[j]) => ~({v, w} \subseteq Assigned)
    /\ batch[i].sid = tx[v].batch[j].sid => Hurried \/ disk[batch[i].sid] # None

BeginBatch(w) ==
  /\ tx[w].at = "idle"
  /\ batches < MaxBatches
  /\ \E batch \in Batches :
       /\ InOrder(w, batch)
       /\ tx' = [tx EXCEPT ![w].at = "source", ![w].batch = batch, ![w].left = batch]
  /\ crossed' = (crossed \/ \E v \in Writers \ {w} : tx[v].at # "idle")
  /\ batches' = batches + 1
  /\ UNCHANGED <<disk, draft, lockedBy, total, loaded>>

\* What the batch adds, once it is committed.
Accumulated(w) == total' = [f \in DOMAIN total |-> total[f] + tx[w].tally[f]]

CommitBatch(w) ==
  /\ At(w, "commit")
  /\ disk' = [r \in Rows |-> IF lockedBy[r] = w THEN draft[r] ELSE disk[r]]
  /\ lockedBy' = [r \in Rows |-> IF lockedBy[r] = w THEN None ELSE lockedBy[r]]
  /\ Accumulated(w)
  /\ loaded' = loaded + Len(tx[w].batch)
  /\ tx' = [tx EXCEPT ![w] = Idle]
  /\ UNCHANGED <<draft, crossed, batches>>

\* w waits in a circle.
Deadlocked(w) ==
  \E circle \in SUBSET Writers :
    /\ w \in circle
    /\ \A v \in circle : Blockers(v) \cap circle # {} /\ \E u \in circle : v \in Blockers(u)

\* MUTANT of AttemptedAnew: the tally of the try goes on.
TallyKept(w) == [Idle EXCEPT !.at = "source", !.batch = tx[w].batch, !.left = tx[w].batch,
                             !.retries = tx[w].retries + 1, !.tally = tx[w].tally]

\* MUTANT of AttemptedAnew: tries are not counted.
AttemptedForEver(w) == [Idle EXCEPT !.at = "source", !.batch = tx[w].batch, !.left = tx[w].batch]

\* MUTANT of AttemptedAnew: the batch from the record that waited.
TakenUpAgain(w) == [Idle EXCEPT !.at = "source", !.batch = tx[w].batch, !.left = tx[w].left,
                                !.retries = tx[w].retries + 1]

\* A fresh LoadResult, and the batch from its first record.
AttemptedAnew(w) == [Idle EXCEPT !.at = "source", !.batch = tx[w].batch, !.left = tx[w].batch,
                                 !.retries = tx[w].retries + 1]

\* The server ends one of them, and _load_batch tries again.
Victim(w) ==
  /\ Deadlocked(w)
  /\ RolledBack(w)
  /\ tx' = [tx EXCEPT ![w] = IF tx[w].retries < DEADLOCK_RETRIES THEN AttemptedAnew(w) ELSE Idle]
  /\ Same

\* The process dies: the server rolls back, and the batch is not acknowledged.
Crash(w) == tx[w].at # "idle" /\ Fails(w)

Advance(w) ==
  \/ LockSource(w) \/ Find(w) \/ Insert(w) \/ Adopt(w) \/ Reconcile(w) \/ Promote(w)
  \/ Lock(w) \/ Move(w) \/ UpsertSource(w) \/ Replay(w) \/ Recompute(w) \/ CommitBatch(w) \/ Victim(w)

LoaderNext == \E w \in Writers : BeginBatch(w) \/ Advance(w) \/ Crash(w)

LoaderSpec == LoaderInit /\ [][LoaderNext]_loaderVars /\ \A w \in Writers : WF_loaderVars(Advance(w))

(***************************************************************************)
(* Properties                                                              *)
(***************************************************************************)

\* What is stored of each source, for the loader's contract: the batch a writer
\* was given is loaded whole, in one step, or not at all, whatever others it
\* waits for, moves to another book, or is tried again behind
\* (postgres.py:141-145).
Registers == INSTANCE CatalogueContract WITH
  stored <- [s \in Sids |-> IF disk[s] = None THEN None ELSE disk[s].record],
  delivered <- [w \in Writers |-> tx[w].batch]
StoresSpec == Registers!Spec

\* What a source once said of a book is never lost, whatever merges, rolls
\* back or dies: a merge moves the sources before it deletes their book.
NoProvenanceLost == [][\A s \in DOMAIN disk \ Ids : disk[s] # None => disk'[s] # None]_loaderVars

\* No book is left without a source and no source without its book, between
\* creation by one writer and a merge by another: a record is not moved to
\* another book (postgres.py:207-209).
ProvenanceBothWays ==
  /\ \A s \in Sids : disk[s] # None => disk[disk[s].book] # None
  /\ \A i \in Ids : disk[i] # None => \E s \in Sids : disk[s] # None /\ disk[s].book = i

\* The figures are those of the tries that were committed: books inserted less
\* those merged are the books there are, and each record counts once.
FiguresExact ==
  /\ total.inserted - total.merges = Cardinality({i \in Ids : disk[i] # None})
  /\ total.inserted + total.updated + total.unchanged = loaded

\* A book's canonical fields are computed from all of its stored payloads, so
\* that a sparse record cannot erase a rich one (postgres.py:13-17, 420-422).
CanonicalFromEvidence ==
  \A i \in Ids : disk[i] # None =>
    disk[i].content = {disk[s].record : s \in {t \in Sids : disk[t] # None /\ disk[t].book = i}}

\* isbn13 and identity_key of a book go together (_agree_on_identity).
KeysAgree == \A i \in Ids : disk[i] # None => disk[i].isbn13 = AgreedIsbn(disk[i].identity_key)

\* As long as no two batches were in flight together, both hold: what one
\* batch leaves half done or out of date, it or its merge puts right.
BooksAgreeAlone == ~crossed => KeysAgree /\ CanonicalFromEvidence

\* w commits a batch of records that are stored as they are.
CommitsWhatIsThere(w) ==
  /\ tx[w].at = "commit" /\ tx'[w].at = "idle"
  /\ \A n \in DOMAIN tx[w].batch :
       LET r == tx[w].batch[n] IN disk[r.sid] # None /\ disk[r.sid].record = r

\* Records that are loaded again, unchanged, change no row (postgres.py:3-6,
\* load_consumer.py:3-5).
RedeliveryChangesNothing == [][\A w \in Writers : CommitsWhatIsThere(w) => disk' = disk]_loaderVars

\* As long as no two batches were in flight together, that holds.
RedeliveryAlone == [][\A w \in Writers : ~crossed /\ CommitsWhatIsThere(w) => disk' = disk]_loaderVars

\* A title goes with one ISBN, and a source with one title: without it two
\* records of one book promote it to and fro.
OneIsbn ==
  \A r, q \in CleanBooks :
    /\ r.sid = q.sid => r.title = q.title
    /\ r.title = q.title => r.isbn13 = q.isbn13 \/ NoIsbn \in {r.isbn13, q.isbn13}

\* Every batch is committed or given up: writers that wait for each other are
\* found out and try again, no more than DEADLOCK_RETRIES times.
BatchEnds == \A w \in Writers : tx[w].at # "idle" ~> tx[w].at = "idle"

\* Nobody waits for good without the server's knowing: whenever a batch is under
\* way, some batch has its turn or is in a circle, which ends by a victim
\* (postgres.py:70-79).
NoStandstill ==
  LET working == {w \in Writers : tx[w].at # "idle"}
  IN  working # {} => \E w \in working : Blockers(w) = {} \/ Deadlocked(w)

(* What the code says of itself and does not do *)

\* postgres.py:248-249: a book that another transaction created first is
\* taken, and the record does not fail.
TheirsIsThere == \A w \in Writers : tx[w].at = "adopt" => Keyed(w, identity_key(Record(w))) # {}
=================================================================================
