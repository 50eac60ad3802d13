------------------------------ MODULE RunMarkers ------------------------------
(***************************************************************************)
(* The run record and the durable run boundary of phase 2, as rows of the  *)
(* catalogue database: ingestion_runs.status, run_topic_partitions and     *)
(* run_partition_markers, and the transactions that touch them             *)
(* (observability/markers.py, observability/runs.py and the transaction of *)
(* services/wiring.py:emit_run_boundary).                                  *)
(*                                                                         *)
(* The engine runs at PostgreSQL's default isolation, READ COMMITTED: a    *)
(* statement sees the rows committed when it starts and the transaction's  *)
(* own writes.  A consumer's marker transaction therefore has two steps:   *)
(*   RecordMarker  inserts the row and counts the rows it can see;         *)
(*   CommitTxn     makes the row visible and, on the clean topic, closes   *)
(*                 the run if that count said so.                          *)
(* The insert is invisible until the commit, so counting in the same step  *)
(* loses no interleaving; the UPDATE that closes a run waits for the row   *)
(* lock and re-reads the status, so it belongs with the commit.            *)
(***************************************************************************)
EXTENDS Naturals, FiniteSets, Sequences

CONSTANTS
  Runs,         \* run ids, one per start_run
  Partitions,   \* partition numbers; kafka_topic_partitions of them per topic
  Consumers,    \* every transform and load consumer process
  NoTxn         \* a consumer with no open transaction

Topics == {"raw", "clean"}

ASSUME PartitionsAssumption == IsFiniteSet(Partitions) /\ Partitions # {}

VARIABLES
  status,   \* ingestion_runs.status; "none" before start_run
  frozen,   \* <<run, topic>> with a row in run_topic_partitions
  marker,   \* committed rows <<run, topic, partition>> of run_partition_markers
  txn       \* each consumer's open marker transaction

markerVars == <<status, frozen, marker, txn>>

Statuses == {"none", "running", "processing", "success", "failed"}
Closed == {"success", "failed"}

\* row: what this transaction has inserted (nothing in a sweep, or when no
\* topology is frozen); full: what its is_topic_complete returned.
Txn == [run: Runs, topic: Topics, row: SUBSET Partitions, full: BOOLEAN]

ASSUME NoTxnAssumption == NoTxn \notin Txn

MarkersTypeOK ==
  /\ status \in [Runs -> Statuses]
  /\ frozen \subseteq Runs \X Topics
  /\ marker \subseteq Runs \X Topics \X Partitions
  /\ txn \in [Consumers -> Txn \cup {NoTxn}]

MarkersInit ==
  /\ status = [r \in Runs |-> "none"]
  /\ frozen = {}
  /\ marker = {}
  /\ txn = [c \in Consumers |-> NoTxn]

(***************************************************************************)
(* Queries                                                                 *)
(***************************************************************************)

\* The marker rows a transaction that inserted own can see.
Visible(r, t, own) == {p \in Partitions : <<r, t, p>> \in marker} \cup own

\* MUTANT of IsTopicComplete: one report short is taken for all.
EarlyTopicComplete(r, t, own) ==
  <<r, t>> \in frozen /\ Cardinality(Visible(r, t, own)) + 1 >= Cardinality(Partitions)

\* is_topic_complete: the frozen expectation against the rows counted.  The
\* expectation is the configured partition count when it was frozen.
IsTopicComplete(r, t, own) ==
  <<r, t>> \in frozen /\ Cardinality(Visible(r, t, own)) >= Cardinality(Partitions)

\* runs_awaiting: what a starting consumer sweeps.
RunsAwaiting(t) == {r \in Runs : <<r, t>> \in frozen /\ status[r] = "processing"}

(***************************************************************************)
(* Transactions of the DAG's tasks: each is one statement per row it       *)
(* touches, so each is a single step                                       *)
(***************************************************************************)

\* start_run, which first closes every run left running for twelve hours
\* (abandon_stale_runs).  Age is abstracted to a choice among the open runs.
StartRun(r, stale) ==
  /\ status[r] = "none"
  /\ stale \subseteq {q \in Runs : status[q] = "running"}
  /\ status' = [q \in Runs |-> IF q = r THEN "running"
                               ELSE IF q \in stale THEN "failed" ELSE status[q]]
  /\ UNCHANGED <<frozen, marker, txn>>

\* finalise_run(status="failed") from the exception handler of
\* run_resolution_to_sink; it is not guarded on the present status.  Runs of phase 1
\* and of the Goodreads DAGs, which have no markers and which finalise_run closes
\* with other statuses too, are not modelled.
FailRun(r) ==
  /\ status[r] # "none"
  /\ status' = [status EXCEPT ![r] = "failed"]
  /\ UNCHANGED <<frozen, marker, txn>>

\* MUTANT of FreezeTopology: the handover forgets its status guard.
UnguardedFreeze(r) ==
  /\ status[r] # "none"
  /\ frozen' = frozen \cup {<<r, t>> : t \in Topics}
  /\ status' = [status EXCEPT ![r] = "processing"]
  /\ UNCHANGED <<marker, txn>>

\* The transaction of emit_run_boundary: freeze_topology for both topics
\* (on conflict do nothing) and mark_processing, guarded on "running".
FreezeTopology(r) ==
  /\ status[r] # "none"
  /\ frozen' = frozen \cup {<<r, t>> : t \in Topics}
  /\ status' = IF status[r] = "running" THEN [status EXCEPT ![r] = "processing"]
                                        ELSE status
  /\ UNCHANGED <<marker, txn>>

(***************************************************************************)
(* Transactions of the consumers                                           *)
(***************************************************************************)

\* MUTANT of RecordMarker: the rows are counted before this one is inserted.
CountBeforeInsert(c, r, t, p) ==
  LET own == IF <<r, t>> \in frozen THEN {p} ELSE {}
  IN  /\ txn[c] = NoTxn
      /\ \A d \in Consumers :
           txn[d] # NoTxn =>
             ~(txn[d].run = r /\ txn[d].topic = t /\ p \in txn[d].row)
      /\ txn' = [txn EXCEPT ![c] =
                   [run |-> r, topic |-> t, row |-> own, full |-> IsTopicComplete(r, t, {})]]
      /\ UNCHANGED <<status, frozen, marker>>

\* record_marker followed by the count of is_topic_complete, on the marker
\* of partition p.  Inserting a key that another open transaction has also
\* inserted waits for that transaction to end (the guard).
RecordMarker(c, r, t, p) ==
  LET own == IF <<r, t>> \in frozen THEN {p} ELSE {}
  IN  /\ txn[c] = NoTxn
      /\ \A d \in Consumers :
           txn[d] # NoTxn =>
             ~(txn[d].run = r /\ txn[d].topic = t /\ p \in txn[d].row)
      /\ txn' = [txn EXCEPT ![c] =
                   [run |-> r, topic |-> t, row |-> own, full |-> IsTopicComplete(r, t, own)]]
      /\ UNCHANGED <<status, frozen, marker>>

\* The per-run transaction of a sweep: is_topic_complete with no row of its own.
CountMarkers(c, r, t) ==
  /\ txn[c] = NoTxn
  /\ txn' = [txn EXCEPT ![c] =
               [run |-> r, topic |-> t, row |-> {}, full |-> IsTopicComplete(r, t, {})]]
  /\ UNCHANGED <<status, frozen, marker>>

\* The end of the transaction: finalise_if_complete's guarded UPDATE on the
\* clean topic (nothing on the raw one), and the commit.
CommitTxn(c) ==
  /\ txn[c] # NoTxn
  /\ LET x == txn[c]
     IN  /\ marker' = marker \cup {<<x.run, x.topic, p>> : p \in x.row}
         /\ status' = IF x.topic = "clean" /\ x.full /\ status[x.run] = "processing"
                        THEN [status EXCEPT ![x.run] = "success"] ELSE status
  /\ txn' = [txn EXCEPT ![c] = NoTxn]
  /\ UNCHANGED frozen

\* The process dies or loses its connection with the transaction open.
RollbackTxn(c) ==
  /\ txn[c] # NoTxn
  /\ txn' = [txn EXCEPT ![c] = NoTxn]
  /\ UNCHANGED <<status, frozen, marker>>

(***************************************************************************)
(* The component by itself.  Its environment delivers a raw marker once    *)
(* the barrier has frozen the topology and a clean one once the raw topic  *)
(* has been seen complete; it may deliver any of them again and again, and *)
(* sweep a run that was awaiting when the sweep read it and is no more.    *)
(* StreamPipeline is such an environment (MarkersAreDelivered in           *)
(* StreamProofs).                                                          *)
(***************************************************************************)

Deliverable(r, t) ==
  IF t = "raw" THEN <<r, "raw">> \in frozen ELSE IsTopicComplete(r, "raw", {})

MarkersNext ==
  \/ \E r \in Runs : \E stale \in SUBSET Runs : StartRun(r, stale)
  \/ \E r \in Runs : FailRun(r) /\ <<r, "raw">> \notin frozen
  \/ \E r \in Runs : FreezeTopology(r)
  \/ \E c \in Consumers, r \in Runs, t \in Topics, p \in Partitions :
       Deliverable(r, t) /\ RecordMarker(c, r, t, p)
  \/ \E c \in Consumers, r \in Runs, t \in Topics :
       <<r, t>> \in frozen /\ CountMarkers(c, r, t)
  \/ \E c \in Consumers : CommitTxn(c)
  \/ \E c \in Consumers : RollbackTxn(c)

MarkersSpec == MarkersInit /\ [][MarkersNext]_markerVars

(***************************************************************************)
(* Properties                                                              *)
(***************************************************************************)

\* A run is a success only when the marker of every clean partition is a
\* committed row, whatever transactions were rolled back or overlapped on the
\* way (markers.py:8, "observation is a row, and completion is a query").
SuccessMeansReported ==
  \A r \in Runs : status[r] = "success" =>
    \A p \in Partitions : <<r, "clean", p>> \in marker

\* Of a partition's events: a record behind its run's boundary is a second copy
\* of one before it (events.py:127).
OnlyCopiesBehind(events, boundary) ==
  \A i, j \in 1 .. Len(events) :
    events[i].body = boundary /\ events[j].body # boundary /\ events[i].run = events[j].run =>
      \E k \in 1 .. i - 1 : events[k] = events[j]

\* A closed run of phase 2 is never reopened or re-decided: not by a redelivered marker,
\* a retried barrier, or a consumer that counted before the run was closed
\* (markers.py:177-178).
ClosedStaysClosed ==
  [][\A r \in Runs : status[r] \in Closed => status'[r] = status[r]]_status
===============================================================================
