---------------------------- MODULE StreamInvariant ----------------------------
(***************************************************************************)
(* The inductive invariant behind NothingLost, CommittedIsDurable and      *)
(* BoundaryComesLast of StreamPipeline.  It follows a run's boundary down  *)
(* the pipeline: once the DAG has left "producing" the run's records are   *)
(* fixed (Over); a marker event or row of a partition says that all of     *)
(* them which belong to that partition have come past it.                  *)
(***************************************************************************)
EXTENDS StreamPipeline

\* The run publishes nothing any more.
Over(r) == dag[r] \notin {"idle", "producing"}

RawPartitionDone(r, p) ==
  Over(r) /\ \A x \in Readable : x[1] = r /\ RawPartition[x[2]] = p => Forwarded(x)
CleanPartitionDone(r, q) ==
  Over(r) /\ \A x \in Readable : x[1] = r /\ CleanPartition[x[2]] = q => x \in Settled
RawDone(r) == Over(r) /\ \A x \in Readable : x[1] = r => Forwarded(x)
RunDone(r) == Over(r) /\ \A x \in Readable : x[1] = r => x \in Settled

\* Every published record was appended to its partition of books.raw.
PublishedIsLogged ==
  \A x \in published :
    \E i \in 1 .. Len(log[<<"raw", RawPartition[x[2]]>>]) :
      log[<<"raw", RawPartition[x[2]]>>][i] = BookEvent(x)

\* A frozen run is over, and frozen for both topics.
FrozenMeansOver ==
  \A r \in Runs, t \in Topics : <<r, t>> \in frozen =>
    Over(r) /\ \A u \in Topics : <<r, u>> \in frozen

\* A marker event has a frozen topology to be compared with.
MarkersAreFrozen ==
  /\ \A t \in Topics, p \in Partitions : \A i \in 1 .. Len(log[<<t, p>>]) :
       IsMarker(log[<<t, p>>][i]) => \A u \in Topics : <<log[<<t, p>>][i].run, u>> \in frozen
  /\ \A r \in Runs : dag[r] = "marking" => \A u \in Topics : <<r, u>> \in frozen
  /\ \A c \in Consumers : \A x \in sending[c] : \A u \in Topics : <<x[1], u>> \in frozen
  /\ \A c \in Consumers : txn[c] # NoTxn => \A u \in Topics : <<txn[c].run, u>> \in frozen
  /\ \A c \in Consumers : \A r \in awaiting[c] : \A u \in Topics : <<r, u>> \in frozen

\* A raw marker follows every record of its run on that partition.
RawBoundaryLast ==
  \A p \in Partitions : \A i \in 1 .. Len(log[<<"raw", p>>]) :
    IsMarker(log[<<"raw", p>>][i]) =>
      \A x \in published :
        x[1] = log[<<"raw", p>>][i].run /\ RawPartition[x[2]] = p =>
          \E j \in 1 .. i - 1 : log[<<"raw", p>>][j] = BookEvent(x)

CommittedIsLogged == \A t \in Topics, p \in Partitions : committed[<<t, p>>] <= Len(log[<<t, p>>])

\* What precedes a consumer's event on the partition is durable.
AtDurable(c) ==
  /\ at[c] \in Partitions \X Nat
  /\ at[c][2] \in 1 .. Len(log[Here(c)])
  /\ Decodable(Current(c))
  /\ \A j \in 1 .. at[c][2] - 1 :
       Decodable(log[Here(c)][j]) => Durable(Topic(c), at[c][1], log[Here(c)][j])

PositionDurable ==
  \A c \in Consumers : stage[c] \in {"handling", "closing", "settled"} => AtDurable(c)

SettledDurable ==
  \A c \in Consumers : stage[c] = "settled" =>
    Durable(Topic(c), at[c][1], Current(c))

\* The open transaction is about the marker at hand, or a sweep's run.
TxnMatches ==
  \A c \in Consumers :
    /\ stage[c] = "closing" =>
         /\ txn[c] # NoTxn
         /\ IsMarker(Current(c))
         /\ txn[c].run = Current(c).run
         /\ txn[c].row = {at[c][1]}
    /\ txn[c] # NoTxn =>
         /\ stage[c] \in {"closing", "sweeping"}
         /\ txn[c].topic = Topic(c)
         /\ stage[c] = "sweeping" => txn[c].row = {}

RowsDone ==
  \A r \in Runs, p \in Partitions :
    /\ <<r, "raw", p>> \in marker => RawPartitionDone(r, p)
    /\ <<r, "clean", p>> \in marker => CleanPartitionDone(r, p)

FullDone ==
  \A c \in Consumers : txn[c] # NoTxn /\ txn[c].full =>
    IF txn[c].topic = "raw" THEN RawDone(txn[c].run) ELSE RunDone(txn[c].run)

SendingDone == \A c \in Consumers : \A x \in sending[c] : RawDone(x[1])

SuccessDone == \A r \in Runs : status[r] = "success" => RunDone(r)

IInv ==
  /\ TypeOK
  /\ PublishedIsLogged
  /\ FrozenMeansOver
  /\ MarkersAreFrozen
  /\ RawBoundaryLast
  /\ BoundaryComesLast
  /\ CommittedIsLogged
  /\ CommittedIsDurable
  /\ PositionDurable
  /\ SettledDurable
  /\ TxnMatches
  /\ RowsDone
  /\ FullDone
  /\ SendingDone
  /\ SuccessDone
===============================================================================
