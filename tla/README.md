# book-data-pipeline: a TLA+ verification project

book-data-pipeline discovers books, resolves them against several sources, and
keeps one catalogue of them in PostgreSQL. Phase 1 does everything in an Airflow
task; phase 2 publishes what it resolved to Kafka and leaves canonicalisation
and loading to long-running consumers. This directory holds TLA+ modules of the
parts whose correctness depends on order, failure and concurrency, the TLC
configurations that check them on small instances, and TLAPS proofs.

## 1. Inventory of the system

Paths are relative to the repository (`src/pipeline/...`, `dags/...`).

| component | state it keeps | operations | talks to |
|---|---|---|---|
| Run record (`observability/runs.py`) | `ingestion_runs` row: status, counts | `start_run` (closes stale runs), `finalise_run`, `record_source_skip` | opened by the DAGs and the CLI |
| Run boundary (`observability/markers.py`) | `run_topic_partitions`, `run_partition_markers` rows | `freeze_topology`, `record_marker`, `is_topic_complete`, `runs_awaiting`, `mark_processing`, `finalise_if_complete`, `record_loaded` | written by the barrier task and by both consumers |
| Extraction (`ingest.py`, `dags/book_ingestion_dag.py`) | its place in the candidates | `run_resolution_to_sink`, `emit_run_boundary`, `assess_extraction` | resolver, Kafka, run record |
| Kafka client (`messaging/kafka.py`, `models/events.py`) | producer buffer, consumer position | `emit`, `flush`, `consume`, `commit`, `decode_event` | broker |
| Transform consumer (`services/transform_consumer.py`) | nothing that outlives it | `sweep`, `run`: forward, park, forward the boundary | books.raw to books.clean and books.dlq |
| Load consumer (`services/load_consumer.py`) | batch and tally in memory | `sweep`, `run`: load, park, close the run | books.clean to the catalogue |
| Catalogue loader (`load/postgres.py`) | books, book_sources, authors, subjects, series | `load`: find or create, promote, merge, replay, recompute | database |
| Resolver (`extract/resolver.py`) | per-source budgets, attempts | `resolve`: hierarchy of sources with fallbacks | source clients |
| Source clients (`extract/*.py`) | circuit, gate, cache, token buckets | `resolve`, `enrich_by_id`, `request_with_retries` | HTTP |
| Source health (`source_health.py`), enrichment (`enrich.py`), contested titles (`contested.py`) | `source_runs` rows | `record_refusal`, `ensure_not_cooling_down`, batches of look-ups | Goodreads, loader |
| Discovery (`discover/*.py`) | `discovery_state` position, manifest file | slices of a dump, an export or an index | ingestion DAG |
| Transform rules (`transform/*.py`) | none | `canonicalise`, `merge_candidates`, `unify_identity`, ISBN, numerals | loader, consumers |

What is hard here: two kinds of process that share database rows under READ
COMMITTED; at-least-once delivery with offsets committed after the effect;
containers that restart and partitions that move; an Airflow task that is
retried from its start; a boundary that has to travel through two topics behind
data it must not overtake; two loaders that compute one book from what each
can see; counters, gates and breakers that several coroutines and several event
loops read and write; facts that pass through a page, an observation, a stored
payload and a second mapping.

What makes each part correct:

* run boundary: a run is `success` only when every clean partition reported;
  a closed run stays closed; a run whose markers are all there closes.
* stream: nothing a successful run published is lost; offsets pass durable
  effects only; no record lands behind its run's boundary; every record is
  settled in the end; a closed run's figures are what it loaded and parked.
* loader: every book has provenance and every source a book; redelivery changes
  nothing; the canonical fields are those of all the evidence; a batch ends.
* Goodreads: a breaker that opened stops the requests; a refusal is written down
  and respected until it has aged; what a page said survives its storage; every
  record gets its turn.
* discovery: a slice is neither skipped nor endlessly repeated.
* resolver and requests: budgets are never exceeded, a source that refused is
  not asked again, every exit is recorded, requests are spaced and end.

## 2. Modules and how they correspond to the code

| module | role |
|---|---|
| `RunMarkers` | the database side of the run boundary and its transactions |
| `RunContract` | abstract specification: what phase 2 promises of a run |
| `StreamPipeline` | DAG barrier, topics, consumer groups, transform and load consumers; composes with `RunMarkers` |
| `StreamInvariant` | the inductive invariant of `StreamPipeline` |
| `LoadConsumer` | the load consumer with batches, tally, positions and rebalances; composes with `RunMarkers` |
| `LoadContract` | abstract specification: what the load consumers promise together of writes, reports, closed runs and offsets |
| `CatalogueContract` | abstract specification: a batch is loaded whole, in one step, or not at all |
| `CatalogueLoad` | the loader's transactions on books and their sources, statement by statement |
| `CatalogueNames` | the authors and subjects that batches share, and their locks |
| `CatalogueSeries` | series rows, memberships, absorption, accounts, merges |
| `GoodreadsClient` | gate, circuit, retries and cache of the Goodreads adapter |
| `GoodreadsRuns` | the DAGs that use Goodreads and what they remember of refusals |
| `GoodreadsQueue` | the backlog the enrichment DAG works off in slices |
| `GoodreadsEvidence` | the facts of a page, through observation, payload and replay |
| `Discovery` | the three readers, the saved position, the manifest and the tasks around them |
| `Resolver` | the hierarchy of sources for a batch of candidates, with budgets and attempts |
| `SourceRequests` | `request_with_retries` around `TokenBucket`, over several event loops |
| `RunMarkersProofs`, `StreamProofs`, `LoadProofs`, `CatalogueProofs`, `NamesProofs`, `SeriesProofs`, `GoodreadsProofs`, `IngestionProofs` | TLAPS proofs, section 4 |
| `MCStreamPipeline`, `MCLoadConsumer`, `MCCatalogueLoad`, `MCCatalogueSeries`, `MCGoodreadsQueue`, `MCDiscovery`, `MCResolver` | instances of one module for TLC |
| `MCStreams`, `MCCatalogue`, `MCGoodreads`, `MCIngestion` | several instances side by side, see section 3 |

`PROJECT.json` maps every definition to its lines.

How the modules meet. `StreamPipeline` and `LoadConsumer` extend `RunMarkers` and
call its transactions as parts of their own steps. `StreamPipeline` takes the
load as an atomic effect; `LoadConsumer` opens it up into batches and counts;
`CatalogueLoad` opens one load of a batch up into its statements, and
`CatalogueNames` and `CatalogueSeries` what those statements do to rows that
books share. `Discovery` ends with a manifest, which `Resolver` takes as its
candidates; a call of `Resolver` is a whole `SourceRequests` call or a whole
candidate of `GoodreadsClient`; a request of `GoodreadsRuns` is a whole candidate
as well. `GoodreadsEvidence` says what is stored when such a candidate is loaded,
and `GoodreadsQueue` which records come next because of it. Where two modules
stand for one thing at two levels the link is a theorem: `StreamPipeline`
implements `RunContract` (`ImplementsContract`) and takes the steps of `RunMarkers`
and no others (`MarkersAreDelivered`), it delivers what `LoadConsumer` assumes of
its feed (`FeedIsDelivered`), `LoadConsumer` implements `LoadContract` (`EffectsLast`) and `CatalogueLoad`
implements `CatalogueContract` (`LoadsAreAtomic`), the one atomic load that the levels
above take it for. What the other modules assume of one another is said in their
headers.

### RunMarkers

`status`, `frozen` and `marker` are rows of `ingestion_runs`,
`run_topic_partitions` and `run_partition_markers`; `txn` is each consumer's open
marker transaction. The engine runs at READ COMMITTED, so a transaction sees
committed rows and its own: `RecordMarker` inserts and counts, `CommitTxn` makes
the row visible and closes the run if that count said so. Two consumers' steps
interleave between the two. Inserting a key which another open transaction has
inserted waits for it: a guard. The UPDATE that closes a run waits for the row
lock and looks at the status again, so it is one step with the commit.
`StartRun` includes `abandon_stale_runs`; a run's age is a choice among the
open ones. `FailRun` is unguarded, as `finalise_run` is. Only runs of phase 2 are
modelled: a run of phase 1 or of a Goodreads DAG has no markers, and `finalise_run`
(`runs.py:95-116`) closes it as success or partial success whatever its status is, so it may
re-decide one that `abandon_stale_runs` closed. `ClosedStaysClosed` does not speak of
those.

### StreamPipeline

The DAG's tasks for a run are `dag[r]`: `BeginResolution`, `PublishRecord`,
`ResolutionDone` (or `ResolutionFails`, `ResolutionAbandoned`) are
`run_resolution_to_sink`; `BeginBoundary`, `EmitRawMarker`, `BoundaryDone`
(or `BoundaryFails`, after which Airflow starts the task over) are
`emit_run_boundary`. A consumer goes from `starting` through a sweep to
`polling`; then `handling` (an effect is due), `closing` (its marker transaction
is open), `settled` (the commit is due). `SendCleanMarker` is
`_emit_clean_markers`, one event at a time, so that a crash may leave some out.

Abstractions:

* a record is a (source, source_id) observation, its payload left out; a record
  published twice in one run is published once;
* every event is committed before the next is polled, as at the deployed batch
  size of one (`wiring.py:47-52`), so a position is the committed offset except
  while an event is handled;
* any member of a group may poll any partition at its committed offset. This
  covers every assignment and every rebalance, and a member that lost its
  partition finishes its effect before its commit is refused;
* the partitions expected are the partitions configured (`wiring.py:73`);
* an emit and the flush that acknowledges it are one step. A flush that fails
  after the broker took the event is a crash right after that step.

### LoadConsumer

`run()` decides what an event needs when it polls it, so `PollEvent` puts those
calls on `todo`, and every later step takes the first of them: a load
transaction (`FlushBatch`), a tally transaction (`WriteTally`), the two halves
of the marker transaction, a produce (`Park`), a commit. A crash may fall
between any two. `Count` adds to the tally in memory and, at `ACCOUNTING_FLUSH`,
puts a write at the head of `todo`. What books.clean holds is a constant, `Feed`:
the order in it (behind a boundary only copies, `OnlyCopiesBehind`) is what
`StreamPipeline` establishes. `catalogue` pairs a record with the run that loaded it first. How many of a
batch's loads changed a book, which is what the tally counts, is a member of
`Changes`: a steady record changes its book the first time and loads to "unchanged" again,
as `markers.py:157-160` has it; a restless one (`Restless`) may change a book whenever it is
loaded, or not even the first time, since a source whose ISBN is not its book's takes the key
again (`postgres.py:295-303`, and `LoadsFlip.cfg` below). What is said of counts is said
of steady runs (`Steady`). `Rebalance` gives the
partitions to the members that are in `poll()`, or still starting, at the
committed offsets; batch and tally stay, since no rebalance callback is set.
`LoadContract` sees of this the records with an effect, the clean rows, the closed runs
and the committed offsets, of all consumers together.

### CatalogueLoad

`disk` is what is committed, `draft` what the owning transaction wrote, `lockedBy`
the row locks. Each `tx[w]` walks through the statements of `_load_one`:
`LockSource`, `Find`, `Insert` (or `Adopt`, after ON CONFLICT DO NOTHING),
`Reconcile`, `Promote`, `Lock`, `Move` (the merge), `UpsertSource`, `Replay`,
`Recompute`, then the next record of the batch or `CommitBatch`. A statement reads
committed rows and its own, so what `Replay` read may be old when `Recompute`
writes: the interleaving a test on one connection never has. A statement that
needs a row or a unique key another transaction holds waits (`Blockers`); so does
the upsert of a source row for the book its foreign key names, unless the row
refers to that book already (`Refers`), when PostgreSQL checks nothing. A
circle of waits makes one of them the `Victim`, which is retried
`DEADLOCK_RETRIES` times with its tally reset. A book's content is the set of the
records it was computed from. `Assigned` are the writers that own their
partitions, so that the records of one key arrive in order (`InOrder`); the other
writers are phase 1 tasks. Books and source rows are drawn from finite sets of
ids, an insert takes a fresh one. `CatalogueContract` sees of this what is stored of
each source (`stored`) and which batch a writer has (`delivered`): a retry goes
unseen, a commit is the whole load. `loaded` and `crossed` are history: the records of
committed batches, and whether two batches were ever in flight at once.

### CatalogueNames and CatalogueSeries

`CatalogueNames` goes through a batch record by record (`NextBook`), as its transaction
does (`postgres.py:166-171`). It upserts the names of a record row by row, in the sorted
order the code puts them in, and holds each until the batch commits. The order is of one
record only: the names of the next may lie before those of the last, so batches do wait in
circles, which end by a victim (`Abort`). A lifespan is filled in
by COALESCE under a check constraint. `CatalogueSeries` makes one load one step,
`LoadSeries`: it replays the claims of the book's sources, upserts or finds series
rows, `Absorbed` folds a row known by name into one with an id, and the text of a
book is `Projection` of its links. A row's key is its id or its normalised name, so
that one id may go by several names, and a membership is looked for under either
(`In`). `Merge` deletes the orphan with its links.

### GoodreadsClient

`call[p]` is one page: waiting for the gate, in flight, holding the gate over a
pause, pausing without it. `circuit` counts blocks in a row. A page passes the
circuit once, before it waits for the gate (`Refused`). `loop` is the batch's
event loop: the gate belongs to the loop of its first wait (`gateLoop`), and a
later loop that has to wait raises (`Locked`, `Raised`). `PagesAnswered` is
what `gather(return_exceptions=True)` makes of the answers. `late` counts the
requests sent after the circuit opened.

### GoodreadsRuns, GoodreadsQueue, GoodreadsEvidence

`refusals` are `source_runs` rows by their time, `known` and `met` history. `Start`
is the cooldown check, `Ask` one look-up, `StopAsRefused` the branch that reports a
refusal when the loop finds the circuit open, `Close` the closing transaction,
`Fail` an error and Airflow's retry. The queue's `order` is by `last_seen_at`, a run
takes `Taken` and asks each; `Unchanged` leaves a record where it was. The evidence
module holds pages and observations as sets of the fields they have; `Mapped` is
the second mapping, from what is stored to what the catalogue sees.

### Discovery

`Fetch`, `Check`, `BuildFrom...`, `Save`, `Return`, `Resolve`, `Assess` are the tasks'
steps; `Fail` is a worker that dies or a task that raises, and starts the task
over. The three readers count differently (`LinesRead`, `Written`): a dump saves a
line offset, an export the number of candidates, an index does not resume.
Editions of the dump are told apart by their size, as `fetch.py:47-49` does. The export
is measured and read in one step: one that is replaced between the two
(`book_ingestion_dag.py:288`, `:294`) is not covered.

### Resolver

`at[c]` is the place of a candidate in the hierarchy. What it does between two
awaits is one step: `Ask` looks at the budget and spends in one, `Answer` and
`Skip` leave an attempt. A budget is the budget of a task try: a retry starts a new
one. The Goodreads circuit opens at any moment at which a candidate's pages are out
(`Trip`): by a denial or at the threshold, whatever the candidate is told in the end.
`MissingCredentialError` cannot be met, since `skip_reason` covers a missing
key first. `Account` stores the attempts (or meets a conflict, `Clashes`),
`Deliver` loads or publishes, `Raise` is an error no branch catches.

### SourceRequests

Time is what is left of each wait; `Tick` moves it on and is not held up by a
sleeper that is ready, so a sleeper may wake late. The sleep inside the bucket may
end up to `Slack` early. The order in which `asyncio.Lock` serves its waiters is
left open. The bucket rebinds its lock to the loop at hand (`LockOf`). An answer may also make
the call fail with an error that `request_with_retries` does not catch (`garbled`: a body
that httpx cannot decode, a circle of redirects; `odd`: a 429 whose `errors` are null, over
which `quota_is_exhausted` iterates). Nobody above catches it either: `gather` passes it on, the
loop cancels the calls that are not over (`TearDown`), and no later batch begins.

## 3. Runs

Independent components share a run where one instance of each is enough: the
module `MCCatalogue`, say, has a variable `part`, chosen in the initial state and
never changed, that says which component moves in a behaviour, while the others
keep their initial values. That composes nothing and hides nothing: the reachable
states are the disjoint union of those of the components, and a property is
checked in the behaviours of the component it is about (`part = ...` in the few
cases where it is false or meaningless elsewhere).

| run | asks | instance | result |
|---|---|---|---|
| `StreamSafety` | offsets, boundary, loss; does the pipeline implement `RunContract`? | 1 run, 2 records that swap partitions between the topics, 1 transform and 2 load consumers, 1 crash | holds |
| `StreamTwoRuns` | can runs take each other's records or markers? boundary and loss with parked and undecodable records; is a run closed early, or opened again? | 2 runs, the second publishes a record of the first again; or 2 transforms and 2 records; or the markers by themselves, delivered in any order | holds |
| `StreamSettles` | is every published record settled, and does the run close? | 2 records on one raw partition; or 1 record and 2 tries of the barrier; 1 load consumer, 1 crash, DAG may fail | holds |
| `CatalogueHolds` | batches and offsets: do the load consumers implement `LoadContract`? does the loader implement `CatalogueContract`? its provenance, figures and deadlocks; series; shared names | batch of 2, tally written at 2, 2 runs, 1 crash, 1 rebalance; 2 writers of 3 sources and 4 books, one alone for 5 batches, or both with batches of 2; 3 sources of 2 books in a series with places, or in one with two names; 2 writers of 1 author and 1 subject, in batches of up to 2 | holds |
| `GoodreadsHolds` | cooldown, late requests, end of a candidate, storage of series, the backlog | 2 DAGs, cooldown of 1 tick in 2; 2 batches of 2 candidates, 1 retry of each kind, threshold 2; 2 loads of any pages; 3 records in slices of 2 | holds |
| `IngestionHolds` | budgets, attempts, refusals; positions; spacing and end of requests | 3 candidates in batches of 2, allowance of 2, both modes; 3 files of up to 3 lines in 2 editions, 1 fault, 1 retry; 4 calls in 2 loops | holds |
| `StreamStalls` | `BoundaryClosesRun` with 2 load consumers | no crash | violated, finding 1 |
| `StreamSkips` | is an unreadable event parked? | 1 undecodable record | violated, finding 2 |
| `LoadMiscounts` | are a closed run's figures exact? | batch of one, 1 crash | violated, finding 3 |
| `EvidenceLost` | is what a page said in what is stored? | 3 loads | violated, finding 4 |
| `LoadsOverlap` | is a book computed from all its evidence? | 2 writers of one record each | violated, finding 5 |
| `BacklogStarves` | is every record asked about? | slices of 1, one record that never answers | violated, finding 6 |

Bounds. Two partitions are the least for which "all partitions" and "one
partition" differ; two records, hashed to other partitions on the second topic,
are the least for which a boundary can overtake a record. Two load consumers are
the least that overlap. The one crash may fall on any step of any consumer; that
more of them, or more of anything else, change nothing for the safety properties
of `StreamPipeline` and of `LoadConsumer` is what the proofs add. `MaxTries` 2 is
one Airflow retry. A batch of two with a tally
written at two makes the batch and the tally fill at different times, since a
rejected record counts in one and not in the other. One run's records are restless in a
part of their own (`Unsettled`), without a rebalance; with one every record is steady
(`Settled`), and the theorems have both. Three sources are the least
with a merge (two books found apart) and a source row that moves; batches of two
names or two records are the least that can wait in a circle; the writers whose
batches cross start from one book that two sources share (`StartsStored`), since that
takes two batches to reach. A series of one name (`Placing`) shows positions and a
series of two names (`Renaming`) shows absorption; an instance with both is
out of reach. `CatalogueHolds` has 432 922 distinct states, `IngestionHolds` 371 488
and `GoodreadsHolds` 213 907. Two event loops of
two candidates are the least in which a gate of an earlier loop is waited for.
Files of three lines hold a record that is usable, one that is not, and a last
line at which a cap falls.

Deadlock checking is off where the bounds end the behaviour: a pipeline with
nothing left to read waits, which is what it should do.

Fairness. Consumers are loops, and compose restarts their containers
(`compose.yml:295, 317`): weak fairness of each consumer's work
(`FairSpec`, `StreamsFairSpec`). Nothing is assumed of the DAG, whose tasks may fail
for good, nor of crashes, which are bounded. A loader in a batch goes on, or is
told of its deadlock, by the database: weak fairness of its steps. Requests end
by their timeouts and the event loop runs what is ready: weak fairness of each
page's steps and of the candidate's (`GoodreadsClient`), of the clock and of each
call (`SourceRequests`). Airflow starts the next run of a Goodreads DAG
and a run ends; a record at the head of a slice that is answered again and again is
completed some time: strong fairness of the answer, since the record may be asked
about only every few runs (`GoodreadsQueue`).

### Findings

1. `markers.py:95`: two load consumers which record the last two markers at once
   each count without the other's uncommitted row; neither closes the run, both
   commit, and it stays in `processing` until some load consumer restarts.
2. `kafka.py:202`: an event of an unknown schema version is logged and skipped,
   and the next commit passes it; `transform_consumer.py:13` says it is parked.
3. `load_consumer.py:174`: the tally is in memory after the load committed, so a
   restart loses up to 24 counted records and their redelivery counts nothing,
   while a record parked again is counted again; `load_consumer.py:62` says the
   final figures are exact.
4. `goodreads.py:754`: what the detail pages say of year, ISBN, publisher,
   authors, description and page count is put on the observation and not read
   back from the payload, from which the book is recomputed;
   `goodreads.py:749-752` says it "must be reconstructible from what was saved".
5. `postgres.py:474`: a source that has its row does not lock its book, so two
   loads each replay without the other's payload and the later write erases what
   the other found; `postgres.py:13-17` promises the opposite.
6. `enrich.py:72`: the backlog is ordered by `last_seen_at`, which only a load
   moves, so records that bring nothing stay at its head;
   `enrich.py:75-77` says the order keeps a run from visiting the same head.

### Refuted statements

More statements of the repository that TLC refutes. Each property is
defined in the module named, and is violated when it takes the place of the
properties in the configuration named.

| property | module, configuration | statement, and what the code does |
|---|---|---|
| `NothingSentOnceOpen` | `MCGoodreads`, `GoodreadsHolds.cfg` | `goodreads.py:127-129` "Once open it stays open for the run: re-probing a site that has blocked us is exactly the behaviour the containment rules forbid". The circuit is looked at before the gate (:343), so pages that wait are sent after it opened. `LateBounded` is what does hold. |
| `NoMatchMeansAnswered` | same | `resolver.py:63-65` "the first says the source answered and had nothing, the second says we never got an answer". `resolve()` returns nothing when every page failed or was refused (`goodreads.py:569`), and that is recorded as no match. |
| `NoCallLostToTheLoop` | same | `resolver.py:170-172` rebinds its gate per loop because a primitive "would belong to whichever loop first awaited it"; the adapter's own (`goodreads.py:243`) is not rebound, and from the second batch the second page of a pair raises inside `gather` and is dropped. |
| `RicherSurvives` | same | `postgres.py:420-422` "what stops a later sparse record erasing a richer earlier one". Of the same source and id the payload itself is replaced (:398): an export read again erases the detail of an enriched record. |
| `RefusalRemembered` | same | `goodreads.py:23-27` "Without it a run refused at 14:17 is rediscovered hourly". A refusal on the last record of a slice, before the budget check, or before a failure is not written (`enrich.py:145`). `RecordedRefusalHolds` is what does hold. |
| `KeysAgree` | `MCCatalogueLoad`, `LoadsSplit.cfg` | `postgres.py:928-929` "move together". A promotion between another load's replay and its write (:465) is undone for `isbn13` and kept for `identity_key`. `BooksAgreeAlone` is what does hold. |
| `RedeliveryChangesNothing` | `MCCatalogueLoad`, `LoadsFlip.cfg` | `postgres.py:3-6` "re-running identical input changes nothing". A source that carries another ISBN promotes or merges the book to its own on every load (:295). `RedeliveryAlone` is what does hold, of sources that agree (`OneIsbn`). |
| `ProvenanceBothWays` | `MCCatalogueLoad`, `LoadsOrphan.cfg` | `events.py:114-115` "Nothing in this release depends on cross-run per-book ordering". Two records of one new source with two keys reach two consumers, which cannot lock a row that is not there (`postgres.py:219`): each creates a book and one is left without provenance. Holds of records in order. |
| `TheirsIsThere` | `MCCatalogueLoad`, `LoadsAdopt.cfg` | `postgres.py:254-255` "take theirs rather than failing the record". The select takes no lock and demands a row that a promotion or a merge may have moved (:261). |
| `OneSeriesOneRow` | `MCCatalogue`, `CatalogueHolds.cfg` | `test_load.py:1251` "One series, one row, however the evidence arrived". A later record without an id makes the name-derived row again (`postgres.py:553`). |
| `ReplayAddsNothing` | `MCCatalogue`, `CatalogueHolds.cfg` | `markers.py:158-159` "a replayed batch loads to ``unchanged`` by construction". A restless record changes its book, and is counted, once more: a crash between the write of the tally and the commit counts it twice. `LoadedNeverInflated` is what does hold. |
| `SortedNeverCircle` | `MCCatalogue`, `CatalogueHolds.cfg` | not a statement of the code, which expects deadlocks (`postgres.py:70-74`), but what sorting the names (`postgres.py:886-894`) suggests: the order is of one record, and a batch goes on to the next. `CirclesCrossRecords` is what does hold. |
| `SpansFit` | `MCCatalogue`, `CatalogueHolds.cfg` | `postgres.py:818-819` "COALESCE so a source that omits a lifespan cannot blank one another source supplied". A birth of one record and a death of another violate the check of `db.py:171-173`, and the batch fails on every delivery. |
| `TextFollows` | `MCCatalogueSeries`, `SeriesText.cfg` | `db.py:102-105` "the loader is the only writer and recomputes it in the same transaction as the relationship". Absorption moves the links of every book and refreshes the text of one (`postgres.py:605`). |
| `ExportResumesAfter` | `MCIngestion`, `IngestionHolds.cfg` | `goodreads_export.py:182-184` "`start_index` counts records read, not candidates emitted". The DAG saves candidates (`book_ingestion_dag.py:308`). |
| `SliceReachesResolution` | same | `book_ingestion_dag.py:366-368` "saving first and then crashing would skip that slice of the dump forever". The retry after the save (:370) overwrites the manifest with the next slice. |
| `ExhaustedIsNoFailure` | same | `book_ingestion_dag.py:347-348` "Nothing left in this dump. Not a failure". `assess_extraction` (:477) fails the run. |
| `WholeFileIsRead` | same | `book_ingestion_dag.py:118-119` "Set -1 to read the whole file". With Gutendex the comparison with None raises (`gutendex_source.py:76`). |
| `GapsOnlyHere` | same | `resolver.py:230-232` "skip the documented APIs once anything valid exists". Google Books is asked although Open Library has just answered (:261). |
| `QuotaMeansRefused` | same | `base.py:338` "Every attempt refused, spread across backoff". Only the last status is kept (:337): four failures and one 429 give up the allowance. |
| `OnlyKnownErrors` | same | `base.py:289-291` "Raises: SourceUnavailableError". Only `httpx.TransportError` is caught (:302): an undecodable body or a circle of redirects leaves as it is, and so does the TypeError of `quota_is_exhausted` (:116) over null `errors`. `EndsExplained` is what does hold. |
| `NoMatchIsNothing` | same | `resolver.py:63-65`, as above. A record the mapper rejected, alone in its answer, is a no match (:387). |
| `AttemptsNeverBreak` | same | `postgres.py:964-965` "the attempt record should never be the thing that breaks a rerun". A candidate of the export has two attempts of one key in one INSERT (`resolver.py:426`, `:533`). |
| `EveryExitRecorded` | same | `resolver.py:287` "Every exit records an attempt". An error that is none of the three caught (:367) loses the attempts of its batch. |
| `RetainedIsPromoted` | `MCResolver`, `ResolveIndex.cfg` | `gutendex_source.py:58-59` "Retained so the resolver can promote it". The candidate is labelled Open Library (:53), whose mapper rejects its payload. |
| `Refreshed` | `MCDiscovery`, `DiscoverSlice.cfg` | `book_ingestion_dag.py:145-146` "The cache is refreshed automatically when the published file changes". A slice on disk is kept without comparing (`fetch.py:84`). |

Properties that hold and that no run lists can be checked in the same way:
`DiscoverDump.cfg` (`ResumesAfter`, `ReadToTheEnd`, `Refreshed` of whole dumps),
`ResolveGaps.cfg` (`OneGoodreadsCall`, `RunEnds`), `LoadsAlone.cfg`
(`CanonicalFromEvidence`, `KeysAgree`, `RedeliveryChangesNothing` of one writer), and
the type invariants (`LoaderTypeOK` in `LoadsSplit.cfg`: in `CatalogueHolds.cfg` the lone
writer has a bound of its own, five batches), `NoStandstill`, `OpenForTheRun`, `TriesBounded`, `RefusedIsTheirs`,
`DeliveredIsRecorded`, `SuccessIsComplete`, `ExhaustedIsRead`, `RefusalsAreQuota` and
`SourcesOnlyAdd` of the component modules.

## 4. Proofs

The theorems hold for every value of the constants that the assumptions admit: any
number of runs, records, partitions, writers, batches, crashes and tries.

| module | theorem | property | rests on |
|---|---|---|---|
| `StreamProofs` | `InvariantHolds` | `IInv` | see below |
| | `TypesHold`, `NothingIsLost`, `CommitsAreDurable`, `BoundaryIsLast` | `TypeOK`, `NothingLost`, `CommittedIsDurable`, `BoundaryComesLast` | `IInv` |
| | `FeedIsDelivered` | `OnlyCopiesBehind` of every partition of books.clean, which `LoadConsumer` assumes of `Feed` | `IInv`; what is on books.clean was readable, is on its own partition, and is nothing the transform parks (`CleanIsForwarded`) |
| | `MarkersAreDelivered`, `PipelineClosesOnce`, `PipelineIsReported` | `MarkersSpec`, and from it `ClosedStaysClosed` and `SuccessMeansReported` of the whole pipeline | `IInv`; a clean marker that is on its way, or of which there is a row, means that the raw topic was complete (`CleanMeansComplete`) |
| | `ImplementsContract` | `ContractSpec`: every step opens, hands over, fails, publishes, settles or closes a run of `RunContract`, or stutters | `IInv`; a record event on a topic is of a published record; a run still producing is running or failed |
| `RunMarkersProofs` | `SuccessIsReported`, `ClosedForGood` | `SuccessMeansReported`, `ClosedStaysClosed`, of the markers in any environment that delivers a clean marker only once the raw topic was complete | a count found complete stays true of committed rows and the transaction's own (`CountedIsReported`); a run handed over has a frozen topology (`HandedOverIsFrozen`) |
| `LoadProofs` | `LoadInvariant`, `LoadTypes`, `CommitsAfterWrites`, `ClosesAfterWrites` | `LoadTypeOK`, `CommittedIsWritten`, `ClosedRunIsWritten` | `LoadInv` |
| | `EffectsLast` | `EffectsSpec`: every step writes, reports, closes or acknowledges as `LoadContract` has it, or stutters | `RowsMean`; who holds a partition and has taken events from it is at or past its offset (`OffsetsInv`) |
| | `NeverInflated` | `LoadedNeverInflated`, of runs whose records are steady | `CountInv` |
| | `QuietFiguresAreExact` | `QuietFiguresExact`, of the same | `QuietInv` |
| `CatalogueProofs` | `LoaderTypes` | `LoaderTypeOK`: types, and no batch tried more often than `DEADLOCK_RETRIES` allows | `LoaderInv`, `BoundsInv` |
| | `LoadsAreAtomic` | `StoresSpec`: every step gives a writer a batch, loads the one it has, gives it up, or stutters | `DraftsInv` |
| | `LoaderInvariant`, `ProvenanceKept`, `SourcesKeepTheirBooks` | `NoProvenanceLost`; a source row has its book, which the foreign key demands of the database and the statements keep by their locks | `RowsInv`, `WritersInv` |
| | `StandstillIsFound` | `NoStandstill`, for finitely many writers: under way, one has its turn or is in a circle of waits | `LoaderInv`; a least set of writers who wait for each other is a circle |
| | `FiguresAddUp` | `FiguresExact` | `FiguresInv` |
| | `ProvenanceHolds` | `ProvenanceBothWays`, unless `Hurried` | `ProvenanceInv` |
| | `BooksAgree` | `BooksAgreeAlone` | `AgreesInv` |
| | `RedeliveryHolds` | `RedeliveryAlone`, of sources that agree | `IsbnsInv`, `RepeatsInv` |
| `NamesProofs` | `NamesInvariant`, `CirclesNeedEarlierRecords`, `OneRecordNeverCircles` | `CirclesCrossRecords`; no circle among writers at the first record of their batches, as with the `DEFAULT_LOAD_BATCH` of one (`load_consumer.py:53`) | a row taken for the record in hand lies before every row its holder has yet to take for it, so along a circle of such waits the names ahead would shrink for ever, and they are finitely many |
| `SeriesProofs` | `SeriesTypes`, `MembershipsKept`, `PlacesKept`, `SeriesFollowTheMerge` | `SeriesTypeOK`, `NoMembershipLost`, `PlaceKept`, `MergeKeepsTheSeries` | `SeriesInv` |
| `GoodreadsProofs` | `RefusalsInvariant`, `OnlyRefusals`, `RefusalsHold` | `OnlyRefusalsKeepAway`, `RecordedRefusalHolds` (of a positive cooldown) | a task reports a refusal only if it met one and only as it closes; `known` is part of `refusals`, which is part of `met` |
| | `ClientInvariant`, `TriesAndLateBounded`, `RefusedOnlyIfPushed`, `CircuitStaysOpen` | `TriesBounded` and `LateBounded`, `RefusedIsTheirs`, `OpenForTheRun` | the search is alone (`SearchIsAlone`), so when one call opens the circuit at most one other is under way; no call begins with the circuit open; whatever leaves late is counted in that one call's tries (`LateIsOfOne`) |
| | `SeriesComesBack`, `CompletedOnce` | `SeriesReplayed`, `EnrichedLeavesBacklog` | a block of the book page that is not held says nothing (`EvidenceInv`) |
| `IngestionProofs` | `BudgetsInvariant`, `BudgetsHold`, `RefusedIsLeftAlone` | `WithinBudget`, `NoneAfterRefusal` | calls made are at most calls paid for, those at most the allowance; a source that refused has nothing left |
| | `CallsAccounted` | `CallsAreAccounted` | `CallsInv` |
| | `RequestsAreSpaced`, `RefusalsEndAsQuota`, `EndsAreExplained` | `Spaced`, `RefusalsAreQuota`, `EndsExplained` | `RequestsInv` |
| | `NothingIsSkipped`, `ExhaustedDumpIsRead`, `DumpResumesAfter` | `NothingSkipped`, `ExhaustedIsRead`, `ResumesAfter` | `DiscoveryInv` |

Assumptions. `PartitionsAssumption` (partitions are finite and there is one),
`NoTxnAssumption`, `PipelineAssumption`, `LoadAssumption`, `RunsAssumption`,
`ResolverAssumption`, `NamesAssumption`, `ClientAssumption`, `EvidenceAssumption`,
`LoaderAssumption`, `SeriesAssumption`, `RequestsAssumption` and
`DiscoveryAssumption` give the constants their types, and finiteness where something
is counted. Three say more:

* `FeedAssumption`: on a partition a record that lies behind its run's boundary is a
  copy of one before it, as a transform that was restarted leaves behind.
  `FeedIsDelivered` proves this of the pipeline at every moment, and so of the whole
  of a topic, which only grows;
* `RejectsOnce`: a record that is to be parked is on the feed once. The dead-letter
  topic is a set, in which a second delivery cannot be told from the first, and the
  tally counts both;
* `OneIsbn`: a title goes with one ISBN, and a source with one title. Without it
  redelivery does change rows, as `LoadsFlip.cfg` shows.

TLC evaluates all of them on the instances of the runs. Two theorems are about part of
the behaviours only, since beyond it the repository's statement is false: those of
books in step are about batches that did not cross (`~crossed`; `LoadsSplit.cfg` and
finding 5 show the others), and provenance is about sources whose records are loaded
in order (`~Hurried`; `LoadsOrphan.cfg`).

Induction. The prover cannot take an operator as the parameter of an induction
theorem, nor see through a RECURSIVE operator. Where a sum or a fold over a finite set
has to be reasoned about, its table is written down as a function on the subsets
(`SumLine`, `OpinionLine`), its lines are shown to be the library's, and a fact
about all of them is the set of subsets of which it holds, shown to have the empty set
and each next one (`SubsetInduction`). Least elements, and the longest chains, come
from the well-founded order of the numbers in the same manner (`LeastNatural`).

### The invariant of StreamPipeline

None of the properties is inductive. `NothingLost` needs to know what a success
rests on, and `IInv` follows the boundary backwards:

1. once the DAG has left `producing` the run's records are fixed (`Over`), and
   only then is the topology frozen (`FrozenMeansOver`); a marker event always
   finds a topology (`MarkersAreFrozen`);
2. a raw marker lies behind the run's records on its partition
   (`RawBoundaryLast`), and committed offsets and the position of a consumer at
   work only have durable effects before them (`CommittedIsDurable`,
   `PositionDurable`). So when a consumer holds a raw marker, every record before
   it was forwarded or parked: a row of the raw topic means its partition is
   done (`RowsDone`);
3. a count of rows equal to the number of partitions means all of them, by
   cardinality (`FullDone`), so clean markers are only owed once all the run's
   records are on books.clean (`SendingDone`), which puts each behind all of
   them (`BoundaryComesLast`);
4. the same argument again, on the clean topic, ends in `SuccessDone`.

That readers only see committed rows is used in 3: a count may be too low, which
is finding 1, but never too high. One lemma per conjunct shows that every step
keeps it (`MarkersFrozenStep`, `RowsStep`, ...), each with a step per action that
can disturb it; `StepFramed`, `StepExtends` and `PublishedStep` say once what
the others leave alone.

### The invariant of LoadConsumer

`CommittedIsWritten` is not inductive: a commit writes positions, which run ahead of
what is durable by the batch and by the event at hand. `LoadInv` says

1. of the steps a consumer has yet to take (`Ordered`, `Flushes`): a commit comes
   last, a marker is inserted before its transaction closes, and whatever is in the
   batch or will join it is flushed before any insert, close or commit;
2. of each event before a position (`Reached`): its effect is durable, or it is in
   the batch, or it is the event at hand, whose due step is still to come or whose
   marker is in the open transaction.

At a commit the list of steps is down to that one step, so by 1 the batch is empty and
nothing is due, and by 2 all before the position is durable. Steps are classified by
the shape they give the list: the scripts of the three kinds of event
(`MarkerScript`, `ParkScript`, `BookScript`), taking the head away, and the tally that
`Count` puts in front (`TallyPrepended`). A crash or a rebalance starts from the
committed offsets, for which durability is part of the invariant.

For `ClosedRunIsWritten`, `RowsMean` adds what a marker row says: when it is inserted
the batch is empty, so every record before the marker is written, and by
`FeedAssumption` one behind it is a copy of one of these. A success has all rows, by
`SuccessMeansReported`, which is part of `MarkersInv`.

For `LoadContract` that leaves the offsets. Each commits what it polled, which may be
less than a member that took the partition over has committed since; the code leaves it
to the broker to refuse such a commit (`CommitFenced`). `OffsetsInv` says that who holds a partition
and is its member is at its offset or past it, so the commits that are not refused
move forwards.

### The figures of a run

The tally of a consumer and the row it is written to move apart and together in several
steps, and many consumers add to one row. `Covered` counts both: what is written and
what is still in memory is at most what the catalogue has of the run. A flush adds to
the memory at most what it adds to the catalogue, if the run is steady, which needs that a batch is of one run
(`OneRunInBatch`): a record of another run is held behind a flush (`Joins`). `WriteTally`
moves, a crash only forgets.

Without a crash or a rebalance the same sums are equal to what was loaded and parked
(`LoadsExact`, `RejectsExact`), and a closed run has nothing left in anyone's memory:
whose memory has something of a run, a count or a record that is not yet written,
holds a partition that has not reported for it (`OpenWhileHeld`), so not all the rows
are there. That an event is parked once
rests on positions (`ParkedWerePolled`): what was parked lies before the position, the
event at hand is the last polled.

### The invariant of CatalogueLoad

Every statement sees committed rows and its writer's own, and others may commit before
the next one. `RowsInv` says of the tables what no one writer could: a source row that
somebody holds has a book, held with it or as it was committed, and who deletes a
book holds every source row that referred to it. So a commit, which moves any number of
rows at once, never leaves a source without its book. `WritersInv` says of each writer
what it found out by the statement it is at (`Hand`): which row it holds, that
the two books of a merge are two, and that a book it waited for is its own or was
merged away meanwhile. A lemma for each statement establishes `Stepped`; one
lemma says that others are not disturbed (`Others`).

* Batches (`DraftsInv`): the records still to come are the end of the batch, and of the
  others the draft has, of each source, the latest (`DraftOf`), in a row its writer
  holds; what the others hold is not in it. So what a commit makes visible is the
  batch, all of it, whatever was rolled back before.
* Waiting: only a writer with a batch holds rows, so who waits, waits for another at
  work; if all of them wait, a least set of writers that wait for each other is the
  circle of a deadlock, since one whom nobody in it waits for could be left out.
* Figures: `inserted - merges` of a writer is the books it would add less those it
  would delete (`Born`, `Died`), and the tally is one ahead of the records done while
  the book in hand is a stub that it created (`Stubbed`). A stub is told from an old
  book by having no content, as in the code.
* Provenance: a book in the eyes of its writer has a source, or is about to get the one
  in hand (`ProvenanceOf`); a source that moves leaves a book that is deleted. Two
  writers at one source load it again (`SharedAreStored`), so each locks the row.
* Agreement: while no two batches have crossed, `isbn13` goes with the key in what is
  committed and in the draft (`Paired`), and every book but the one in hand is computed
  from all its records (`InStep`); what was read is still so when it is written
  (`HandAgrees`), which is just what another batch would break.
* Redelivery: a book has only records that fit it (`AllFit`): without an ISBN they are
  of its title, with one each has a record of its title that carries it. A batch of
  records stored as they are then finds each source with its book, whose ISBN
  is the record's already, and takes the short way, source, current, upsert, replay,
  write, along which the draft stays what is on disk (`RepeatsOf`).

### The invariant of CatalogueSeries

`Sound`: keys are keys, memberships refer to rows, accounts to memberships. A load is a
fold of `Opinion` over the records of a book, so what holds of a load is shown of one
opinion and carried along the fold's table: a membership that was there has one
that is at least as rich (`Richer`), in the same series or in the one which the
opinion folded it into (`Goes`), and each record taken so far has its own (`Taken`).
`Merge` keeps memberships by the same lemma and by what moving the orphan's links keeps.

### The invariants of phase 1

* `CallsInv`: the place of a candidate in the hierarchy says which attempts it has
  (`Placed`), so no source is asked twice of it; the calls of a source are then
  as many as candidates that await it and candidates that have a row of it
  (`CallsCounted`). The first
  rows of a candidate, of Goodreads and of the retained payload, stand for no call
  (`Uncalled`), and the second may name a source that is asked later.
* `RequestsInv`: what is left to wait and what has passed are the interval
  (`BucketIsRest`); the sleeper inside the bucket holds the lock of its own loop and
  sleeps for as long as the bucket says (`HolderSleeps`), and a batch begins when
  those before have ended (`InTurn`), so a lock that was rebound has no sleeper
  left.
* `DiscoveryInv`: between the manifest and the position, the manifest has what the slice
  read and nothing behind the start is left out (`PassInHand`); settled lines lie
  before the position (`SettledBehind`), so the next slice has none of them.

### What is only model-checked

Liveness is out of the prover's reach: `EveryRecordSettles`, `BoundaryClosesRun`,
`CrossingEnds` (`BatchEnds`), `CandidateEnds`, `BacklogDrains`, `CallsEnd`
(`EveryCallEnds`). `NothingLostHere` and `BoundaryComesLastHere` are `NothingLost` and
`BoundaryComesLast`, proved for all constants, of whichever of two instances moves. `GoodreadsQueue` has only a liveness
property. Every other property of a passing run is stated by a theorem.

## 5. Not modelled

* Canonicalisation and normalisation (`transform/`): pure functions on strings,
  without state or order; the models carry their results as keys, ranks of
  payloads and claims.
* Parsers of pages and responses, request building, field mappings: which fields a
  page or payload carries is in `GoodreadsEvidence`, how they are found is not.
* Which titles are contested, and which records have no detail: queries over
  stored rows; `GoodreadsQueue` has their results.
* Settings, the command line, dashboards and container files. Replica counts,
  restart policies and batch sizes are assumptions of the models.
* The migration: its tables and checks are types and guards of the modules that
  use them.
* Wall-clock time appears only as ticks (`GoodreadsRuns`, `SourceRequests`) and
  choices: which runs are twelve hours old, which member of a group has timed out.
* Rows that the database refuses, other than for the constraint in `CatalogueNames`. A
  record that is refused on every delivery (`SpansFit`) ends its consumer each time, for ever,
  and blocks its partition; in `StreamPipeline` a failed load is a crash, and
  crashes are bounded. So `EveryRecordSettles` is about records that the database takes
  in the end.
* Runs of phase 1 and of the Goodreads DAGs in `ingestion_runs` (see `RunMarkers`).
* The backlog of `contested.py`, whose order is not that of `GoodreadsQueue`.
* Errors of a Goodreads page that are no transport errors (`goodreads.py:367`): in
  `GoodreadsClient` a page is answered, refused or fails.
* The form in which a series name is displayed: `series_search_text` normalises it once
  more, and `Projection` takes the result for the row's own name.
* Deadlocks of authors and subjects with book rows: `CrossingEnds` is about books and
  their sources, `CirclesCrossRecords` about names.

Next: a composition of `Discovery` with `Resolver` over the manifest, in which the
candidates of a slice are those that were read.
