------------------------------ MODULE MCCatalogue ------------------------------
(***************************************************************************)
(* Phase 2's end on small instances, one component in each behaviour:      *)
(* `part` says which one moves, the others stay as they began.  The load   *)
(* consumer batches and counts; the loader writes books and their sources, *)
(* their series, and the authors and subjects that books share.            *)
(***************************************************************************)
EXTENDS MCLoadConsumer, CatalogueLoad, CatalogueNames, CatalogueSeries

CONSTANTS A, B, C, X, F, w1, w2, dune, emma

VARIABLE part

all == <<part, loadVars, loaderVars, seriesVars, nameVars>>

Observation(sid, isbn, payload) == [sid |-> sid, isbn13 |-> isbn, title |-> F, payload |-> payload]
\* One source learns the ISBN of a book that another has without it.
Learning == {Observation(A, NoIsbn, 1), Observation(A, X, 2), Observation(B, NoIsbn, 1)}
\* And a third source has it from the start.
Merging == Learning \cup {Observation(C, X, 1)}

\* Every record changes its book once; and one run's any number of times.
Settled == INSTANCE LoadConsumer WITH Restless <- {}
Unsettled == INSTANCE LoadConsumer WITH MaxRebalances <- 0

\* One of the two writers alone, for longer, and both; with batches of one.
Alone == INSTANCE CatalogueLoad WITH MaxBatches <- 5, MaxLength <- 1
Single == INSTANCE CatalogueLoad WITH MaxLength <- 1
\* Both, with batches of two, which may wait for each other: CatalogueLoad as
\* the constants have it.

\* A and B have been loaded, one after the other: one book.
StoredBefore == [r \in {1, A, B} |->
  IF r = 1 THEN [identity_key |-> F, isbn13 |-> NoIsbn, content |-> {Observation(s, NoIsbn, 1) : s \in {A, B}}]
  ELSE [book |-> 1, record |-> Observation(r, NoIsbn, 1)]]
StartsStored ==
  /\ disk = [r \in Rows |-> IF r \in DOMAIN StoredBefore THEN StoredBefore[r] ELSE None] /\ draft = disk
  /\ lockedBy = [r \in Rows |-> None] /\ tx = [w \in Writers |-> Idle]
  /\ total = [NoFigures EXCEPT !.inserted = 1, !.updated = 1] /\ loaded = 2 /\ batches = 2 /\ crossed = FALSE

Homes == <<dune, dune, emma>>
\* A series of one name, and places in it.
Placing == INSTANCE CatalogueSeries WITH SeriesNames <- {"expanse"}
\* A series that goes by two names.
Renaming == INSTANCE CatalogueSeries WITH Positions <- {}
\* Batches that meet on authors and subjects, whatever the lifespans.
Sharing == INSTANCE CatalogueNames WITH Years <- {}, MaxLoads <- 3

ASSUME LoaderAssumption /\ SeriesAssumption /\ NamesAssumption /\ RejectsOnce /\ OneIsbn

CatalogueInit ==
  /\ part \in {"batches", "restless", "writing", "alone", "crossing", "places", "names of one", "names", "shared names"}
  /\ LoadInit /\ (part = "batches" \/ owner = [p \in Partitions |-> l1])
  /\ IF part = "crossing" THEN StartsStored ELSE LoaderInit
  /\ SeriesInit /\ NamesInit

Still(others) == UNCHANGED <<part, others>>

Batching ==
  /\ (part = "batches" /\ Settled!LoadNext) \/ (part = "restless" /\ Unsettled!LoadNext)
  /\ Still(<<loaderVars, seriesVars, nameVars>>)
Load(w) ==
  /\ Still(<<loadVars, seriesVars, nameVars>>)
  /\ \/ part = "writing" /\ Single!BeginBatch(w)
     \/ part = "alone" /\ w = w2 /\ Alone!BeginBatch(w)
     \/ part = "crossing" /\ BeginBatch(w)
     \/ Crash(w)
LoadStepOf(w) == Still(<<loadVars, seriesVars, nameVars>>) /\ Advance(w)
Series ==
  /\ \/ part = "places" /\ Placing!SeriesNext
     \/ part = "names of one" /\ Renaming!SeriesNext
  /\ Still(<<loadVars, loaderVars, nameVars>>)
Naming ==
  /\ (part = "names" /\ NamesNext) \/ (part = "shared names" /\ Sharing!NamesNext)
  /\ Still(<<loadVars, loaderVars, seriesVars>>)

CatalogueNext ==
  \/ Batching \/ Series \/ Naming
  \/ \E w \in {w1, w2} : Load(w) \/ LoadStepOf(w)

CatalogueSpec == CatalogueInit /\ [][CatalogueNext]_all /\ \A w \in {w1, w2} : WF_all(part = "crossing" /\ LoadStepOf(w))

\* BatchEnds of CatalogueLoad, of writers whose batches cross.
CrossingEnds == part = "crossing" => BatchEnds

(***************************************************************************)
(* What the repository says and its code does not do: each of these, put   *)
(* alone in place of the properties of CatalogueHolds.cfg, is violated.    *)
(***************************************************************************)
\* OneSeriesOneRow of CatalogueSeries: one series, one row.
\* SpansFit of CatalogueNames: a lifespan never runs backwards.
\* SortedNeverCircle of CatalogueNames: batches whose names are sorted never wait
\* in a circle.
\* ReplayAddsNothing of LoadConsumer: a replayed batch adds nothing to a count.
===============================================================================
