---------------------------- MODULE StreamPipeline -----------------------------
(***************************************************************************)
(* Phase 2 end to end: the DAG publishes a run's records to books.raw and  *)
(* closes it with boundary markers; transform consumers forward to         *)
(* books.clean or park on the dead-letter topic, and forward the boundary; *)
(* load consumers write the catalogue and close the run.  The database     *)
(* side of the boundary is RunMarkers, whose actions are conjoined here.   *)
(*                                                                         *)
(* A topic partition is an append-only sequence; a consumer group has one  *)
(* committed offset per partition.  Every event is committed before the    *)
(* next is polled (transform_consumer.py:129, load_consumer.py:158 at the  *)
(* deployed batch size of one), so a consumer's position is the committed  *)
(* offset except while it handles an event.  Which consumer owns a         *)
(* partition is left open: any member may poll at the committed offset,    *)
(* which covers every rebalance, and a member that lost the partition      *)
(* while handling an event still finishes its effect before its commit is  *)
(* refused.  A failed produce, flush or load raises out of run() and the   *)
(* container restarts: that is Crash at the step it interrupts.            *)
(***************************************************************************)
EXTENDS RunMarkers, Sequences

CONSTANTS
  Records,           \* (source, source_id) observations
  Boundary,          \* the body of a partition marker
  Publishes,         \* run -> the records its resolution yields
  RawPartition,      \* record -> partition its ingestion identity hashes to
  CleanPartition,    \* record -> partition its canonical identity hashes to
  TransformRejects,  \* records the transform's mapper or canonicaliser refuses
  LoadRejects,       \* records the load consumer's refuses (another release)
  Undecodable,       \* records of a schema version this release cannot read
  Subscribes,        \* consumer -> topic
  MaxCrashes,        \* bound: consumer crashes in a behaviour
  MaxTries           \* bound: tries of the boundary task (Airflow retries)

ASSUME PipelineAssumption ==
  /\ Boundary \notin Records
  /\ Publishes \in [Runs -> SUBSET Records]
  /\ RawPartition \in [Records -> Partitions]
  /\ CleanPartition \in [Records -> Partitions]
  /\ TransformRejects \subseteq Records
  /\ LoadRejects \subseteq Records
  /\ Undecodable \subseteq Records
  /\ Subscribes \in [Consumers -> Topics]
  /\ MaxCrashes \in Nat
  /\ MaxTries \in Nat

VARIABLES
  dag,         \* where each run's DAG is
  published,   \* <<run, record>> produced to books.raw
  toMark,      \* raw partitions the boundary task has yet to mark in this try
  tries,       \* tries of the boundary task begun
  log,         \* <<topic, partition>> -> sequence of events
  committed,   \* <<topic, partition>> -> the group's committed offset
  stage,       \* where each consumer is in run()
  at,          \* the event a consumer is handling: <<partition, index>>
  awaiting,    \* runs a starting consumer has yet to sweep
  sending,     \* clean markers <<run, partition>> a consumer has yet to produce
  catalogue,   \* <<run, record>> written by a load transaction
  dlq,         \* <<run, record>> produced to the dead-letter topic
  crashes      \* consumer crashes so far

dagVars == <<dag, published, toMark, tries>>
consumerVars == <<stage, at, awaiting, sending>>
storeVars == <<catalogue, dlq>>
vars == <<markerVars, dagVars, log, committed, consumerVars, storeVars, crashes>>

Event == [run: Runs, body: Records \cup {Boundary}]
NoEvent == <<>>
DagStates == {"idle", "producing", "produced", "marking", "finished", "dead"}
Stages == {"starting", "sweeping", "polling", "handling", "closing", "settled"}

TypeOK ==
  /\ MarkersTypeOK
  /\ dag \in [Runs -> DagStates]
  /\ published \subseteq Runs \X Records
  /\ toMark \in [Runs -> SUBSET Partitions]
  /\ tries \in [Runs -> Nat]
  /\ log \in [Topics \X Partitions -> Seq(Event)]
  /\ committed \in [Topics \X Partitions -> Nat]
  /\ stage \in [Consumers -> Stages]
  /\ at \in [Consumers -> (Partitions \X Nat) \cup {NoEvent}]
  /\ awaiting \in [Consumers -> SUBSET Runs]
  /\ sending \in [Consumers -> SUBSET (Runs \X Partitions)]
  /\ catalogue \subseteq Runs \X Records
  /\ dlq \subseteq Runs \X Records
  /\ crashes \in Nat

Init ==
  /\ MarkersInit
  /\ dag = [r \in Runs |-> "idle"]
  /\ published = {}
  /\ toMark = [r \in Runs |-> {}]
  /\ tries = [r \in Runs |-> 0]
  /\ log = [tp \in Topics \X Partitions |-> <<>>]
  /\ committed = [tp \in Topics \X Partitions |-> 0]
  /\ stage = [c \in Consumers |-> "starting"]
  /\ at = [c \in Consumers |-> NoEvent]
  /\ awaiting = [c \in Consumers |-> {}]
  /\ sending = [c \in Consumers |-> {}]
  /\ catalogue = {}
  /\ dlq = {}
  /\ crashes = 0

\* KafkaSink.emit and an acknowledged flush: the broker has appended the event.
Produce(t, p, r, body) ==
  log' = [log EXCEPT ![<<t, p>>] = Append(@, [run |-> r, body |-> body])]

(***************************************************************************)
(* The DAG: resolve_and_produce, assess_extraction, emit_run_boundary      *)
(***************************************************************************)

InFlight == {"producing", "produced", "marking"}

\* run_resolution_to_sink opens its run; max_active_runs = 1 keeps one DAG
\* run at a time, while earlier runs may still be processing.
BeginResolution(r) ==
  /\ dag[r] = "idle"
  /\ \A q \in Runs : dag[q] \notin InFlight
  /\ \E stale \in SUBSET Runs : StartRun(r, stale)
  /\ dag' = [dag EXCEPT ![r] = "producing"]
  /\ UNCHANGED <<published, toMark, tries, log, committed, consumerVars, storeVars, crashes>>

PublishRecord(r, b) ==
  /\ dag[r] = "producing"
  /\ b \in Publishes[r]
  /\ <<r, b>> \notin published
  /\ published' = published \cup {<<r, b>>}
  /\ Produce("raw", RawPartition[b], r, b)
  /\ UNCHANGED <<markerVars, dag, toMark, tries, committed, consumerVars, storeVars, crashes>>

\* An exception while producing: the run is failed and a retry opens another.
ResolutionFails(r) ==
  /\ dag[r] = "producing"
  /\ FailRun(r)
  /\ dag' = [dag EXCEPT ![r] = "dead"]
  /\ UNCHANGED <<published, toMark, tries, log, committed, consumerVars, storeVars, crashes>>

\* The task is killed while producing, or everything is produced but nothing
\* resolved and assess_extraction fails the DAG run: the row stays "running".
ResolutionAbandoned(r) ==
  /\ dag[r] = "producing"
  /\ dag' = [dag EXCEPT ![r] = "dead"]
  /\ UNCHANGED <<markerVars, published, toMark, tries, log, committed, consumerVars,
                 storeVars, crashes>>

\* Every batch is flushed and at least one candidate resolved.
ResolutionDone(r) ==
  /\ dag[r] = "producing"
  /\ Publishes[r] # {}
  /\ \A b \in Publishes[r] : <<r, b>> \in published
  /\ dag' = [dag EXCEPT ![r] = "produced"]
  /\ UNCHANGED <<markerVars, published, toMark, tries, log, committed, consumerVars,
                 storeVars, crashes>>

\* emit_run_boundary: the topology is frozen before any marker is produced.
BeginBoundary(r) ==
  /\ dag[r] = "produced"
  /\ tries[r] < MaxTries
  /\ FreezeTopology(r)
  /\ tries' = [tries EXCEPT ![r] = @ + 1]
  /\ toMark' = [toMark EXCEPT ![r] = Partitions]
  /\ dag' = [dag EXCEPT ![r] = "marking"]
  /\ UNCHANGED <<published, log, committed, consumerVars, storeVars, crashes>>

EmitRawMarker(r, p) ==
  /\ dag[r] = "marking"
  /\ p \in toMark[r]
  /\ toMark' = [toMark EXCEPT ![r] = @ \ {p}]
  /\ Produce("raw", p, r, Boundary)
  /\ UNCHANGED <<markerVars, dag, published, tries, committed, consumerVars, storeVars, crashes>>

\* The flush raises or the task dies with some markers delivered: Airflow
\* retries the task from its start, or gives up.
BoundaryFails(r) ==
  /\ dag[r] = "marking"
  /\ toMark[r] # {}
  /\ toMark' = [toMark EXCEPT ![r] = {}]
  /\ dag' = [dag EXCEPT ![r] = IF tries[r] < MaxTries THEN "produced" ELSE "dead"]
  /\ UNCHANGED <<markerVars, published, tries, log, committed, consumerVars, storeVars, crashes>>

BoundaryDone(r) ==
  /\ dag[r] = "marking"
  /\ toMark[r] = {}
  /\ dag' = [dag EXCEPT ![r] = "finished"]
  /\ UNCHANGED <<markerVars, published, toMark, tries, log, committed, consumerVars,
                 storeVars, crashes>>

(***************************************************************************)
(* The consumers                                                           *)
(***************************************************************************)

Topic(c) == Subscribes[c]
Here(c) == <<Topic(c), at[c][1]>>
Current(c) == log[Here(c)][at[c][2]]
IsMarker(e) == e.body = Boundary

\* KafkaSource.consume skips an event it cannot decode and carries on; the
\* next commit passes over it.
Decodable(e) == e.body \notin Undecodable
IsNext(tp, k) ==
  /\ k \in committed[tp] + 1 .. Len(log[tp])
  /\ Decodable(log[tp][k])
  /\ \A j \in committed[tp] + 1 .. k - 1 : ~Decodable(log[tp][j])

\* MUTANT of Owed: every raw marker is forwarded, as in a single partition topic.
OwedEarly(x) == IF x.topic = "raw" THEN {x.run} \X Partitions ELSE {}

\* The clean markers owed once a marker transaction has ended: the raw topic
\* was seen complete.
Owed(x) == IF x.topic = "raw" /\ x.full THEN {x.run} \X Partitions ELSE {}

\* sweep() reads the runs that may be complete...
BeginSweep(c) ==
  /\ stage[c] = "starting"
  /\ stage' = [stage EXCEPT ![c] = "sweeping"]
  /\ awaiting' = [awaiting EXCEPT ![c] = RunsAwaiting(Topic(c))]
  /\ UNCHANGED <<markerVars, dagVars, log, committed, at, sending, storeVars, crashes>>

\* ...and then, one transaction each, counts the markers...
SweepRun(c, r) ==
  /\ stage[c] = "sweeping"
  /\ sending[c] = {}
  /\ r \in awaiting[c]
  /\ CountMarkers(c, r, Topic(c))
  /\ awaiting' = [awaiting EXCEPT ![c] = @ \ {r}]
  /\ UNCHANGED <<dagVars, log, committed, stage, at, sending, storeVars, crashes>>

\* ...and forwards the boundary or closes the run.
EndSweepRun(c) ==
  /\ stage[c] = "sweeping"
  /\ CommitTxn(c)
  /\ sending' = [sending EXCEPT ![c] = Owed(txn[c])]
  /\ UNCHANGED <<dagVars, log, committed, stage, at, awaiting, storeVars, crashes>>

BeginPolling(c) ==
  /\ stage[c] = "sweeping"
  /\ awaiting[c] = {}
  /\ txn[c] = NoTxn
  /\ sending[c] = {}
  /\ stage' = [stage EXCEPT ![c] = "polling"]
  /\ UNCHANGED <<markerVars, dagVars, log, committed, at, awaiting, sending, storeVars, crashes>>

\* MUTANT of Poll: the offset is committed before the effect.
PollAndCommit(c, p, k) ==
  /\ stage[c] = "polling"
  /\ IsNext(<<Topic(c), p>>, k)
  /\ committed' = [committed EXCEPT ![<<Topic(c), p>>] = k]
  /\ at' = [at EXCEPT ![c] = <<p, k>>]
  /\ stage' = [stage EXCEPT ![c] = "handling"]
  /\ UNCHANGED <<markerVars, dagVars, log, awaiting, sending, storeVars, crashes>>

Poll(c, p, k) ==
  /\ stage[c] = "polling"
  /\ IsNext(<<Topic(c), p>>, k)
  /\ at' = [at EXCEPT ![c] = <<p, k>>]
  /\ stage' = [stage EXCEPT ![c] = "handling"]
  /\ UNCHANGED <<markerVars, dagVars, log, committed, awaiting, sending, storeVars, crashes>>

\* TransformConsumer._handle_book: forward the record, or park it; either
\* way flushed before run() goes on to the commit.
TransformBook(c) ==
  /\ stage[c] = "handling"
  /\ Topic(c) = "raw"
  /\ ~IsMarker(Current(c))
  /\ LET r == Current(c).run
         b == Current(c).body
     IN  IF b \in TransformRejects
           THEN dlq' = dlq \cup {<<r, b>>} /\ UNCHANGED log
           ELSE Produce("clean", CleanPartition[b], r, b) /\ UNCHANGED dlq
  /\ stage' = [stage EXCEPT ![c] = "settled"]
  /\ UNCHANGED <<markerVars, dagVars, committed, at, awaiting, sending, catalogue, crashes>>

\* MUTANT of LoadBook: the test that tells a marker from a book is gone.
LoadAnything(c) ==
  /\ stage[c] = "handling"
  /\ Topic(c) = "clean"
  /\ catalogue' = catalogue \cup {<<Current(c).run, Current(c).body>>}
  /\ stage' = [stage EXCEPT ![c] = "settled"]
  /\ UNCHANGED <<markerVars, dagVars, log, committed, at, awaiting, sending, dlq, crashes>>

\* LoadConsumer.run on a book at a batch size of one: _prepare parks what it
\* cannot map, everything else is loaded in a transaction of its own.
LoadBook(c) ==
  /\ stage[c] = "handling"
  /\ Topic(c) = "clean"
  /\ ~IsMarker(Current(c))
  /\ LET x == <<Current(c).run, Current(c).body>>
     IN  IF x[2] \in LoadRejects
           THEN dlq' = dlq \cup {x} /\ UNCHANGED catalogue
           ELSE catalogue' = catalogue \cup {x} /\ UNCHANGED dlq
  /\ stage' = [stage EXCEPT ![c] = "settled"]
  /\ UNCHANGED <<markerVars, dagVars, log, committed, at, awaiting, sending, crashes>>

\* _handle_marker of either consumer, up to the count...
ObserveMarker(c) ==
  /\ stage[c] = "handling"
  /\ IsMarker(Current(c))
  /\ RecordMarker(c, Current(c).run, Topic(c), at[c][1])
  /\ stage' = [stage EXCEPT ![c] = "closing"]
  /\ UNCHANGED <<dagVars, log, committed, at, awaiting, sending, storeVars, crashes>>

\* ...and from its commit: the run is closed, or the boundary is owed to the
\* clean topic.
EndMarker(c) ==
  /\ stage[c] = "closing"
  /\ CommitTxn(c)
  /\ sending' = [sending EXCEPT ![c] = Owed(txn[c])]
  /\ stage' = [stage EXCEPT ![c] = "settled"]
  /\ UNCHANGED <<dagVars, log, committed, at, awaiting, storeVars, crashes>>

\* _emit_clean_markers: one marker per clean partition, in any order of arrival.
SendCleanMarker(c, x) ==
  /\ x \in sending[c]
  /\ sending' = [sending EXCEPT ![c] = @ \ {x}]
  /\ Produce("clean", x[2], x[1], Boundary)
  /\ UNCHANGED <<markerVars, dagVars, committed, stage, at, awaiting, storeVars, crashes>>

\* MUTANT of CommitOffset: the end of the partition is committed, not the
\* position of the event at hand.
CommitEverything(c) ==
  /\ stage[c] = "settled"
  /\ sending[c] = {}
  /\ committed[Here(c)] < at[c][2]
  /\ committed' = [committed EXCEPT ![Here(c)] = Len(log[Here(c)])]
  /\ stage' = [stage EXCEPT ![c] = "polling"]
  /\ at' = [at EXCEPT ![c] = NoEvent]
  /\ UNCHANGED <<markerVars, dagVars, log, awaiting, sending, storeVars, crashes>>

\* source.commit() after the effect.
CommitOffset(c) ==
  /\ stage[c] = "settled"
  /\ sending[c] = {}
  /\ committed[Here(c)] < at[c][2]
  /\ committed' = [committed EXCEPT ![Here(c)] = at[c][2]]
  /\ stage' = [stage EXCEPT ![c] = "polling"]
  /\ at' = [at EXCEPT ![c] = NoEvent]
  /\ UNCHANGED <<markerVars, dagVars, log, awaiting, sending, storeVars, crashes>>

\* What a process loses: its open transaction, its sweep, what it had yet to send.
Restarted(c) ==
  /\ IF txn[c] = NoTxn THEN UNCHANGED markerVars ELSE RollbackTxn(c)
  /\ stage' = [stage EXCEPT ![c] = "starting"]
  /\ at' = [at EXCEPT ![c] = NoEvent]
  /\ awaiting' = [awaiting EXCEPT ![c] = {}]
  /\ sending' = [sending EXCEPT ![c] = {}]
  /\ UNCHANGED <<dagVars, log, committed, storeVars>>

\* The commit of a member that lost the partition meanwhile is refused: the
\* error leaves run() and the container restarts.
CommitRefused(c) ==
  /\ stage[c] = "settled"
  /\ sending[c] = {}
  /\ committed[Here(c)] >= at[c][2]
  /\ Restarted(c)
  /\ UNCHANGED crashes

Crash(c) ==
  /\ crashes < MaxCrashes
  /\ stage[c] # "starting"
  /\ crashes' = crashes + 1
  /\ Restarted(c)

(***************************************************************************)
(* The specification                                                       *)
(***************************************************************************)

DagStep(r) ==
  \/ BeginResolution(r) \/ ResolutionFails(r) \/ ResolutionAbandoned(r) \/ ResolutionDone(r)
  \/ BeginBoundary(r) \/ BoundaryFails(r) \/ BoundaryDone(r)
  \/ \E b \in Records : PublishRecord(r, b)
  \/ \E p \in Partitions : EmitRawMarker(r, p)

\* What a running consumer does next, when nothing kills it.
Work(c) ==
  \/ BeginSweep(c) \/ EndSweepRun(c) \/ BeginPolling(c)
  \/ \E r \in Runs : SweepRun(c, r)
  \/ \E p \in Partitions : \E k \in 1 .. Len(log[<<Topic(c), p>>]) : Poll(c, p, k)
  \/ TransformBook(c) \/ LoadBook(c) \/ ObserveMarker(c) \/ EndMarker(c)
  \/ \E x \in Runs \X Partitions : SendCleanMarker(c, x)
  \/ CommitOffset(c) \/ CommitRefused(c)

Next ==
  \/ \E r \in Runs : DagStep(r)
  \/ \E c \in Consumers : Work(c)
  \/ \E c \in Consumers : Crash(c)

Spec == Init /\ [][Next]_vars

\* A consumer is one loop, and its container restarts unless stopped
\* (compose.yml:295, 317): it keeps taking steps while it has one.  Nothing
\* is assumed of the DAG, whose tasks may fail for good, nor of crashes.
FairSpec == Spec /\ \A c \in Consumers : WF_vars(Work(c))

(***************************************************************************)
(* Properties                                                              *)
(***************************************************************************)

Settled == catalogue \cup dlq
Readable == {x \in published : x[2] \notin Undecodable}

\* A run that closed as a success lost nothing: every record it published
\* that this release can read is in the catalogue or on the dead-letter
\* topic, through any crash, redelivery and rebalance in between.
NothingLost ==
  \A r \in Runs : status[r] = "success" =>
    \A x \in Readable : x[1] = r => x \in Settled

BookEvent(x) == [run |-> x[1], body |-> x[2]]

\* The transform refused the record and parked it.
ParkedByTransform(x) == x[2] \in TransformRejects /\ x \in dlq

\* The record left books.raw: it is on books.clean, or the transform parked it.
Forwarded(x) ==
  \/ ParkedByTransform(x)
  \/ \E i \in 1 .. Len(log[<<"clean", CleanPartition[x[2]]>>]) :
       log[<<"clean", CleanPartition[x[2]]>>][i] = BookEvent(x)

\* What an event of topic t, partition p is for, as far as it must outlive its
\* consumer: forwarded or parked; loaded or parked; a marker row.
Durable(t, p, e) ==
  LET x == <<e.run, e.body>>
  IN  IF IsMarker(e) THEN <<e.run, t, p>> \in marker
      ELSE IF t = "clean" THEN x \in Settled ELSE Forwarded(x)

\* The at-least-once guarantee (kafka.py:213-215): an offset is committed only
\* over events whose effect is durable, or that could not be decoded.
CommittedIsDurable ==
  \A t \in Topics, p \in Partitions : \A i \in 1 .. committed[<<t, p>>] :
    Decodable(log[<<t, p>>][i]) => Durable(t, p, log[<<t, p>>][i])

\* "Seeing a marker on every partition proves the consumer has observed every
\* earlier event for that run" (events.py:127): on a clean partition, every
\* record of the run that belongs there, and that the transform did not park,
\* precedes the run's first marker.
BoundaryComesLast ==
  \A q \in Partitions : \A i \in 1 .. Len(log[<<"clean", q>>]) :
    IsMarker(log[<<"clean", q>>][i]) =>
      \A x \in Readable :
        x[1] = log[<<"clean", q>>][i].run /\ CleanPartition[x[2]] = q =>
          \/ ParkedByTransform(x)
          \/ \E j \in 1 .. i - 1 : log[<<"clean", q>>][j] = BookEvent(x)

\* Every record a run published that can be read is settled in the end, even
\* of runs whose DAG failed or was killed, as long as consumers keep running.
EveryRecordSettles ==
  \A r \in Runs, b \in Records \ Undecodable :
    (<<r, b>> \in published) ~> (<<r, b>> \in Settled)

\* A run whose boundary was produced closes ("completion is a query.  Nothing
\* here depends on how long a consumer has been alive", markers.py:8).
BoundaryClosesRun ==
  \A r \in Runs :
    (dag[r] = "finished" /\ status[r] = "processing") ~> (status[r] = "success")

\* An event of a schema version this release does not know "goes to the DLQ
\* too" (transform_consumer.py:13): no published record is passed over.
NothingSkipped ==
  \A t \in Topics, p \in Partitions : \A i \in 1 .. committed[<<t, p>>] :
    Durable(t, p, log[<<t, p>>][i])

\* The contract: published and settled as this pipeline realises them.
Contract == INSTANCE RunContract WITH
  published <- Readable,
  settled <- Settled
ContractSpec == Contract!Spec
===============================================================================
