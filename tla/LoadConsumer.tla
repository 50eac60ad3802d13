------------------------------ MODULE LoadConsumer ------------------------------
(***************************************************************************)
(* The load consumer in detail (services/load_consumer.py): records held   *)
(* in a batch, a tally of what they changed held in memory, positions that *)
(* run ahead of the committed offsets, partitions that move.  StreamPipeline *)
(* has the same consumer at the deployed batch size of one and without its *)
(* tally.                                                                  *)
(*                                                                         *)
(* books.clean is given: Feed is what its partitions hold, and the barrier *)
(* has frozen the topology.  run() decides everything about an event when  *)
(* it is polled except what the steps it takes find: todo holds those      *)
(* steps, each a database transaction, a produce, a commit, or the end of  *)
(* what can be lost together.  An error in any of them leaves run(), which *)
(* is Crash before that step.                                              *)
(***************************************************************************)
EXTENDS RunMarkers, SequencesExt

CONSTANTS
  Records,         \* (source, source_id) observations
  Boundary,        \* the body of a partition marker
  Feed,            \* partition -> the events of books.clean
  Rejects,         \* records this consumer cannot map or canonicalise
  Restless,        \* events of which any load may change a book, or none
  BatchSize,       \* load_batch
  FlushAt,         \* ACCOUNTING_FLUSH
  MaxCrashes,      \* bound: consumer crashes in a behaviour
  MaxRebalances    \* bound: partitions that change hands

Event == [run: Runs, body: Records \cup {Boundary}]

ASSUME LoadAssumption ==
  /\ IsFiniteSet(Runs) /\ IsFiniteSet(Consumers)
  /\ Boundary \notin Records
  /\ Feed \in [Partitions -> Seq(Event)]
  /\ Rejects \subseteq Records
  /\ Restless \subseteq Event
  /\ BatchSize \in Nat \ {0}
  /\ FlushAt \in Nat \ {0}
  /\ MaxCrashes \in Nat
  /\ MaxRebalances \in Nat

\* What the pipeline sees to (FeedIsDelivered in StreamProofs): a transform that
\* lost its partition may forward a record once more behind the boundary.
ASSUME FeedAssumption == \A p \in Partitions : OnlyCopiesBehind(Feed[p], Boundary)

VARIABLES
  owner,       \* the group member each partition is assigned to
  committed,   \* partition -> the group's committed offset
  position,    \* consumer -> its position in the partitions it holds
  todo,        \* consumer -> the steps run() has yet to take for an event
  event,       \* consumer -> the event last polled: <<partition, index>>
  batch,       \* consumer -> events waiting to be loaded together
  tally,       \* consumer -> run -> counts not yet written
  figures,     \* run -> ingestion_runs.records_loaded, records_rejected
  catalogue,   \* <<run, record>>: a record loaded, and the run that loaded it first
  dlq,         \* <<run, record>> parked
  crashes,     \* consumer crashes so far
  rebalances   \* partitions moved so far

memoryVars == <<position, todo, event, batch, tally>>
groupVars == <<owner, committed>>
boundVars == <<crashes, rebalances>>
loadVars == <<markerVars, groupVars, memoryVars, figures, catalogue, dlq, boundVars>>

Ops == {"sweep", "count", "close", "flush", "append", "park", "tally", "insert", "commit"}
\* A step, and the runs it is about.
Step == [do: Ops, of: SUBSET Runs]
Do(op, rs) == [do |-> op, of |-> rs]

NoEvent == <<>>
Counts == [loaded: Nat, rejected: Nat]
Zero == [loaded |-> 0, rejected |-> 0]
Held(c) == DOMAIN position[c]

LoadTypeOK ==
  /\ MarkersTypeOK
  /\ owner \in [Partitions -> Consumers]
  /\ committed \in [Partitions -> Nat]
  /\ \A c \in Consumers : /\ Held(c) \subseteq Partitions
                          /\ position[c] \in [Held(c) -> Nat]
  /\ todo \in [Consumers -> Seq(Step)]
  /\ event \in [Consumers -> (Partitions \X Nat) \cup {NoEvent}]
  /\ batch \in [Consumers -> Seq(Event)]
  /\ tally \in [Consumers -> [Runs -> Counts]]
  /\ figures \in [Runs -> Counts]
  /\ catalogue \subseteq Runs \X Records
  /\ dlq \subseteq Runs \X Records
  /\ crashes \in Nat
  /\ rebalances \in Nat

\* What run() starts with.
StartUp == <<Do("sweep", {})>>

\* The barrier has frozen both topologies and handed the runs over.
LoadInit ==
  /\ status = [r \in Runs |-> "processing"]
  /\ frozen = Runs \X Topics
  /\ marker = {}
  /\ txn = [c \in Consumers |-> NoTxn]
  /\ owner \in [Partitions -> Consumers]
  /\ committed = [p \in Partitions |-> 0]
  /\ position = [c \in Consumers |-> [p \in {q \in Partitions : owner[q] = c} |-> 0]]
  /\ todo = [c \in Consumers |-> StartUp]
  /\ event = [c \in Consumers |-> NoEvent]
  /\ batch = [c \in Consumers |-> <<>>]
  /\ tally = [c \in Consumers |-> [r \in Runs |-> Zero]]
  /\ figures = [r \in Runs |-> Zero]
  /\ catalogue = {}
  /\ dlq = {}
  /\ crashes = 0
  /\ rebalances = 0

(***************************************************************************)
(* run(): an event is polled, and what it calls for is put on todo         *)
(***************************************************************************)

IsMarker(e) == e.body = Boundary
Polled(c) == Feed[event[c][1]][event[c][2]]

\* MUTANT of MarkerSteps: the batch waits for more records.
MarkerUnflushed(r) ==
  <<Do("tally", Runs), Do("insert", {r}), Do("close", {r}), Do("commit", {})>>

\* The steps of a marker: the batch, the whole tally, the marker, the offset.
MarkerSteps(r) ==
  <<Do("flush", {}), Do("tally", Runs), Do("insert", {r}), Do("close", {r}), Do("commit", {})>>

\* MUTANT of BookSteps: runs are loaded together, and counted for the last.
MixedRuns(e, pending) ==
  <<Do("append", {e.run})>>
    \o (IF Len(pending) + 1 >= BatchSize THEN <<Do("flush", {}), Do("commit", {})>> ELSE <<>>)

\* A change of run is a batch boundary; a full batch is loaded and committed.
BookSteps(e, pending) ==
  LET others == pending # <<>> /\ Last(pending).run # e.run
      full == (IF others THEN 1 ELSE Len(pending) + 1) >= BatchSize
  IN  (IF others THEN <<Do("flush", {})>> ELSE <<>>)
        \o <<Do("append", {e.run})>>
        \o (IF full THEN <<Do("flush", {}), Do("commit", {})>> ELSE <<>>)

\* MUTANT of ParkSteps: the offset moves past what is still in the batch.
ParkAndCommit(r) == <<Do("park", {r}), Do("commit", {})>>

\* A parked record: everything ahead of it is loaded before the offset moves.
ParkSteps(r) == <<Do("park", {r}), Do("flush", {}), Do("commit", {})>>

StepsFor(e, pending) ==
  IF IsMarker(e) THEN MarkerSteps(e.run)
  ELSE IF e.body \in Rejects THEN ParkSteps(e.run)
  ELSE BookSteps(e, pending)

\* The next event of any partition the consumer holds.
PollEvent(c, p) ==
  /\ todo[c] = <<>>
  /\ p \in Held(c) /\ owner[p] = c
  /\ position[c][p] < Len(Feed[p])
  /\ LET k == position[c][p] + 1
     IN  /\ event' = [event EXCEPT ![c] = <<p, k>>]
         /\ position' = [position EXCEPT ![c][p] = k]
         /\ todo' = [todo EXCEPT ![c] = StepsFor(Feed[p][k], batch[c])]
  /\ UNCHANGED <<markerVars, groupVars, batch, tally, figures, catalogue, dlq, boundVars>>

(***************************************************************************)
(* The steps                                                               *)
(***************************************************************************)

AtStep(c, op) == todo[c] # <<>> /\ Head(todo[c]).do = op
Subject(c) == CHOOSE r \in Head(todo[c]).of : TRUE
Then(c) == todo' = [todo EXCEPT ![c] = Tail(@)]

\* _count: added in memory, and written once it is worth a round trip.
Count(c, r, n) ==
  LET sum == [loaded |-> tally[c][r].loaded + n.loaded,
              rejected |-> tally[c][r].rejected + n.rejected]
  IN  /\ tally' = [tally EXCEPT ![c][r] = sum]
      /\ todo' = [todo EXCEPT ![c] =
           IF sum.loaded + sum.rejected >= FlushAt
             THEN <<Do("tally", {r})>> \o Tail(@) ELSE Tail(@)]

\* sweep() reads the runs that may be complete, in whatever order.
ReadAwaiting(c) ==
  /\ AtStep(c, "sweep")
  /\ \E s \in SetToSeqs(RunsAwaiting("clean")) :
       todo' = [todo EXCEPT ![c] =
         [i \in 1 .. 2 * Len(s) |-> Do(IF i % 2 = 1 THEN "count" ELSE "close", {s[(i + 1) \div 2]})]]
  /\ UNCHANGED <<markerVars, groupVars, position, event, batch, tally, figures, catalogue,
                 dlq, boundVars>>

\* A run's transaction of the sweep, up to the count.
CountRun(c) ==
  /\ AtStep(c, "count")
  /\ CountMarkers(c, Subject(c), "clean")
  /\ Then(c)
  /\ UNCHANGED <<groupVars, position, event, batch, tally, figures, catalogue, dlq, boundVars>>

\* _handle_marker's transaction, up to the count.
InsertMarker(c) ==
  /\ AtStep(c, "insert")
  /\ RecordMarker(c, Subject(c), "clean", event[c][1])
  /\ Then(c)
  /\ UNCHANGED <<groupVars, position, event, batch, tally, figures, catalogue, dlq, boundVars>>

\* Its commit, or the sweep's.
CloseRun(c) ==
  /\ AtStep(c, "close")
  /\ CommitTxn(c)
  /\ Then(c)
  /\ UNCHANGED <<groupVars, position, event, batch, tally, figures, catalogue, dlq, boundVars>>

\* The record joins the batch.
Hold(c) ==
  /\ AtStep(c, "append")
  /\ batch' = [batch EXCEPT ![c] = Append(@, Polled(c))]
  /\ Then(c)
  /\ UNCHANGED <<markerVars, groupVars, position, event, tally, figures, catalogue, dlq, boundVars>>

Loaded == {x[2] : x \in catalogue}

\* Records of the batch that have not been loaded before.
FirstLoads(c) == {<<e.run, e.body>> : e \in {f \in Range(batch[c]) : f.body \notin Loaded}}

\* How many loads of the batch may change a book.  A record changes its book when
\* it is loaded first, and loads to "unchanged" again.  A restless one may change a
\* book each time, or not even then: its ISBN is not its book's, which takes the
\* key once more (postgres.py:295-303); another delivery said otherwise; or
\* another source said all it says.
Changes(c) ==
  LET steady == {x \in FirstLoads(c) : [run |-> x[1], body |-> x[2]] \notin Restless}
      restless == {i \in DOMAIN batch[c] : batch[c][i] \in Restless}
  IN  {Cardinality(steady) + k : k \in 0..Cardinality(restless)}

\* MUTANT of FlushBatch: everything processed is counted, changed or not.
FlushAndCountAll(c) ==
  /\ AtStep(c, "flush")
  /\ catalogue' = catalogue \cup FirstLoads(c)
  /\ batch' = [batch EXCEPT ![c] = <<>>]
  /\ IF batch[c] = <<>>
       THEN Then(c) /\ UNCHANGED tally
       ELSE Count(c, Last(batch[c]).run, [loaded |-> Len(batch[c]), rejected |-> 0])
  /\ UNCHANGED <<markerVars, groupVars, position, event, figures, dlq, boundVars>>

\* _flush: the batch is one transaction, and what it changed is counted.
FlushBatch(c) ==
  /\ AtStep(c, "flush")
  /\ catalogue' = catalogue \cup FirstLoads(c)
  /\ batch' = [batch EXCEPT ![c] = <<>>]
  /\ IF batch[c] = <<>>
       THEN Then(c) /\ UNCHANGED tally
       ELSE \E n \in Changes(c) : Count(c, Last(batch[c]).run, [loaded |-> n, rejected |-> 0])
  /\ UNCHANGED <<markerVars, groupVars, position, event, figures, dlq, boundVars>>

\* _park: acknowledged by the dead-letter topic, then counted.
Park(c) ==
  /\ AtStep(c, "park")
  /\ dlq' = dlq \cup {<<Polled(c).run, Polled(c).body>>}
  /\ Count(c, Subject(c), [loaded |-> 0, rejected |-> 1])
  /\ UNCHANGED <<markerVars, groupVars, position, event, batch, figures, catalogue, boundVars>>

\* _write_tally: of one run, or of all of them; record_loaded adds.
WriteTally(c) ==
  /\ AtStep(c, "tally")
  /\ LET rs == Head(todo[c]).of
     IN  /\ figures' = [r \in Runs |->
              IF r \in rs
                THEN [loaded |-> figures[r].loaded + tally[c][r].loaded,
                      rejected |-> figures[r].rejected + tally[c][r].rejected]
                ELSE figures[r]]
         /\ tally' = [tally EXCEPT ![c] = [r \in Runs |-> IF r \in rs THEN Zero ELSE @[r]]]
  /\ Then(c)
  /\ UNCHANGED <<markerVars, groupVars, position, event, batch, catalogue, dlq, boundVars>>

\* MUTANT of CommitPositions: a member the group went on without commits too.
CommitAnyhow(c) ==
  /\ AtStep(c, "commit")
  /\ committed' = [p \in Partitions |-> IF p \in Held(c) THEN position[c][p] ELSE committed[p]]
  /\ Then(c)
  /\ UNCHANGED <<markerVars, owner, position, event, batch, tally, figures, catalogue, dlq, boundVars>>

\* source.commit(): the position in every partition held.
CommitPositions(c) ==
  /\ AtStep(c, "commit")
  /\ \A p \in Held(c) : owner[p] = c
  /\ committed' = [p \in Partitions |-> IF p \in Held(c) THEN position[c][p] ELSE committed[p]]
  /\ Then(c)
  /\ UNCHANGED <<markerVars, owner, position, event, batch, tally, figures, catalogue, dlq, boundVars>>

(***************************************************************************)
(* The group and the container                                             *)
(***************************************************************************)

\* A new process: no transaction, no batch, no tally, and the partitions the
\* group gives it from the committed offsets.
Reborn(c) ==
  /\ IF txn[c] = NoTxn THEN UNCHANGED markerVars ELSE RollbackTxn(c)
  /\ position' = [position EXCEPT ![c] = [p \in {q \in Partitions : owner[q] = c} |-> committed[p]]]
  /\ todo' = [todo EXCEPT ![c] = StartUp]
  /\ event' = [event EXCEPT ![c] = NoEvent]
  /\ batch' = [batch EXCEPT ![c] = <<>>]
  /\ tally' = [tally EXCEPT ![c] = [r \in Runs |-> Zero]]
  /\ UNCHANGED <<groupVars, figures, catalogue, dlq>>

\* The commit of a member the group went on without raises out of run().
CommitFenced(c) ==
  /\ AtStep(c, "commit")
  /\ \E p \in Held(c) : owner[p] # c
  /\ Reborn(c)
  /\ UNCHANGED boundVars

CrashLoader(c) ==
  /\ crashes < MaxCrashes
  /\ todo[c] # StartUp
  /\ crashes' = crashes + 1
  /\ Reborn(c)
  /\ UNCHANGED rebalances

\* In poll(), or yet to get there.
CanJoin(c) == todo[c] = <<>> \/ event[c] = NoEvent

\* The default assignors revoke everything and start again from the committed
\* offsets; batch and tally stay where they are.  A member that is handling
\* an event does not answer and is left out.
Rebalance ==
  /\ rebalances < MaxRebalances
  /\ rebalances' = rebalances + 1
  /\ \E o \in [Partitions -> {c \in Consumers : CanJoin(c)}] :
       /\ owner' = o
       /\ position' = [c \in Consumers |->
            IF CanJoin(c) THEN [p \in {q \in Partitions : o[q] = c} |-> committed[p]]
                          ELSE position[c]]
  /\ UNCHANGED <<markerVars, committed, todo, event, batch, tally, figures, catalogue, dlq, crashes>>

(***************************************************************************)
(* The specification                                                       *)
(***************************************************************************)

LoadStep(c) ==
  \/ \E p \in Partitions : PollEvent(c, p)
  \/ ReadAwaiting(c) \/ CountRun(c) \/ InsertMarker(c) \/ CloseRun(c)
  \/ Hold(c) \/ FlushBatch(c) \/ Park(c) \/ WriteTally(c)
  \/ CommitPositions(c) \/ CommitFenced(c)

LoadNext ==
  \/ \E c \in Consumers : LoadStep(c) \/ CrashLoader(c)
  \/ Rebalance

LoadSpec == LoadInit /\ [][LoadNext]_loadVars

(***************************************************************************)
(* Properties                                                              *)
(***************************************************************************)

\* A record's effect has outlived its consumer.
Written(e) == e.body \in Loaded \/ <<e.run, e.body>> \in dlq

\* The consumers' contract, whatever waits in a batch or a tally, dies or moves to
\* another member: effects stay, a run closes behind all of them, and no offset
\* moves back, not by a member that the group went on without.
Effects == INSTANCE LoadContract WITH
  written <- {e \in Event : Written(e)},
  reported <- {<<x[1], x[3]>> : x \in {y \in marker : y[2] = "clean"}},
  closed <- {r \in Runs : status[r] = "success"},
  passed <- committed
EffectsSpec == Effects!Spec

\* "A batch is always written before the marker that follows it" (:117): a
\* run that closed has no record left in anyone's batch.
ClosedRunIsWritten ==
  \A r \in Runs : status[r] = "success" =>
    \A p \in Partitions : \A i \in 1 .. Len(Feed[p]) :
      Feed[p][i].run = r /\ ~IsMarker(Feed[p][i]) => Written(Feed[p][i])

\* "The offset is committed only after the write" (:120), whatever else was
\* polled meanwhile: parked records, other runs, other partitions.
CommittedIsWritten ==
  \A p \in Partitions : \A i \in 1 .. committed[p] :
    IF IsMarker(Feed[p][i]) THEN <<Feed[p][i].run, "clean", p>> \in marker
                            ELSE Written(Feed[p][i])

Of(r, xs) == {x \in xs : x[1] = r}

\* Of a steady run every record changes its book once.
Steady(r) == \A e \in Restless : e.run # r

\* Of r, every count that was written or is still in someone's memory.
CountedLoads(r) == figures[r].loaded + SumFunction([c \in Consumers |-> tally[c][r].loaded])

\* What a replay loads to "unchanged" adds nothing (markers.py:157-160): what a
\* steady run reports, with what its consumers have yet to report, never
\* exceeds what it loaded.
LoadedNeverInflated ==
  \A r \in Runs : Steady(r) => CountedLoads(r) <= Cardinality(Of(r, catalogue))

\* "A run's final figures are still exact, because the marker that ends it
\* flushes the tally before anything finalises" (:62), said of steady runs.
FinalFiguresExact ==
  \A r \in Runs : status[r] = "success" /\ Steady(r) =>
    /\ figures[r].loaded = Cardinality(Of(r, catalogue))
    /\ figures[r].rejected = Cardinality(Of(r, dlq))

\* No record that is parked comes twice: each time is counted.
RejectsOnce ==
  \A p, q \in Partitions : \A i \in 1 .. Len(Feed[p]), j \in 1 .. Len(Feed[q]) :
    Feed[p][i] = Feed[q][j] /\ Feed[p][i].body \in Rejects => p = q /\ i = j

\* The same, as long as no consumer dies and no partition moves.
QuietFiguresExact == crashes + rebalances = 0 => FinalFiguresExact

(* What the code says of itself and does not do *)

\* markers.py:158-159: "a replayed batch loads to ``unchanged`` by construction",
\* so that it adds nothing.  A restless record is changed, and counted, once more
\* by its replay.
ReplayAddsNothing == \A r \in Runs : CountedLoads(r) <= Cardinality(Of(r, catalogue))
================================================================================
