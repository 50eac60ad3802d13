--------------------------- MODULE RunMarkersProofs ----------------------------
(***************************************************************************)
(* Proofs about RunMarkers by itself: whatever its environment delivers, a *)
(* run is closed when every clean partition reported, and once.            *)
(***************************************************************************)
EXTENDS RunMarkers, FiniteSetTheorems, TLAPS

\* A transaction that found the clean topic complete: every partition has a
\* committed row or one of the transaction's own.
CountedIsReported ==
  \A c \in Consumers :
    txn[c] # NoTxn /\ txn[c].topic = "clean" /\ txn[c].full =>
      \A p \in Partitions : <<txn[c].run, "clean", p>> \in marker \/ p \in txn[c].row

\* A run is handed over with its topology frozen, so that no later failure of
\* the resolution, which comes before the barrier, can touch it.
HandedOverIsFrozen ==
  \A r \in Runs : status[r] \in {"processing", "success"} => <<r, "raw">> \in frozen

MarkersInv ==
  /\ MarkersTypeOK
  /\ CountedIsReported
  /\ HandedOverIsFrozen
  /\ SuccessMeansReported

\* As many visible rows as partitions are the rows of all of them.
LEMMA CompleteIsAll ==
  ASSUME NEW r, NEW t, NEW own \in SUBSET Partitions, IsTopicComplete(r, t, own)
  PROVE  \A p \in Partitions : <<r, t, p>> \in marker \/ p \in own
<1> DEFINE V == Visible(r, t, own)
<1>1. V \in SUBSET Partitions /\ Cardinality(V) >= Cardinality(Partitions)
  BY DEF Visible, IsTopicComplete
<1>2. V = Partitions
  <2> HIDE DEF V
  <2>1. IsFiniteSet(V) /\ Cardinality(V) <= Cardinality(Partitions)
        /\ (Cardinality(Partitions) = Cardinality(V) => Partitions = V)
    BY <1>1, FS_Subset, PartitionsAssumption
  <2>2. Cardinality(V) \in Nat /\ Cardinality(Partitions) \in Nat
    BY <2>1, FS_CardinalityType, PartitionsAssumption
  <2> QED
    BY <1>1, <2>1, <2>2
<1> QED
  BY <1>2 DEF Visible

\* Opening a transaction whose count is a true one.
LEMMA OpenStep ==
  ASSUME MarkersInv,
         NEW c \in Consumers, NEW r \in Runs, NEW t \in Topics, NEW own \in SUBSET Partitions,
         txn' = [txn EXCEPT ![c] =
                   [run |-> r, topic |-> t, row |-> own, full |-> IsTopicComplete(r, t, own)]],
         UNCHANGED <<status, frozen, marker>>
  PROVE  MarkersInv'
<1> DEFINE x == [run |-> r, topic |-> t, row |-> own, full |-> IsTopicComplete(r, t, own)]
<1>1. IsTopicComplete(r, t, own) \in BOOLEAN
  BY DEF IsTopicComplete
<1>2. x \in Txn /\ x # NoTxn
  BY <1>1, NoTxnAssumption DEF Txn
<1>3. MarkersTypeOK'
  BY <1>2 DEF MarkersInv, MarkersTypeOK
<1>4. /\ txn'[c] = x
      /\ \A d \in Consumers : d # c => txn'[d] = txn[d]
  BY DEF MarkersInv, MarkersTypeOK
<1>5. x.topic = "clean" /\ x.full =>
        \A p \in Partitions : <<x.run, "clean", p>> \in marker \/ p \in x.row
  BY CompleteIsAll
<1> HIDE DEF x
<1>6. CountedIsReported'
  BY <1>4, <1>5 DEF MarkersInv, CountedIsReported
<1>7. HandedOverIsFrozen' /\ SuccessMeansReported'
  BY DEF MarkersInv, HandedOverIsFrozen, SuccessMeansReported
<1> QED
  BY <1>3, <1>6, <1>7 DEF MarkersInv

\* Steps of the DAG's tasks: rows and transactions are left alone, and no run
\* becomes a success.
LEMMA TaskStep ==
  ASSUME MarkersInv, UNCHANGED <<marker, txn>>,
         status' \in [Runs -> Statuses],
         frozen \subseteq frozen', frozen' \subseteq Runs \X Topics,
         \A r \in Runs : status'[r] = "success" => status[r] = "success",
         \A r \in Runs : status'[r] = "processing" =>
           status[r] = "processing" \/ <<r, "raw">> \in frozen'
  PROVE  MarkersInv'
BY DEF MarkersInv, MarkersTypeOK, CountedIsReported, HandedOverIsFrozen, SuccessMeansReported

LEMMA MarkersInitInv == MarkersInit => MarkersInv
BY DEF MarkersInit, MarkersInv, MarkersTypeOK, Statuses, CountedIsReported, HandedOverIsFrozen,
       SuccessMeansReported

\* Committing makes the rows a count relied on visible.
LEMMA CommitStep ==
  ASSUME MarkersInv, NEW c \in Consumers, CommitTxn(c)
  PROVE  MarkersInv'
<1> USE DEF MarkersInv
<1> DEFINE x == txn[c]
<1>1. x \in Txn
  BY DEF CommitTxn, MarkersTypeOK
<1>2. /\ x.run \in Runs /\ x.topic \in Topics /\ x.row \subseteq Partitions
  BY <1>1 DEF Txn
<1>3. /\ marker' = marker \cup {<<x.run, x.topic, p>> : p \in x.row}
      /\ frozen' = frozen
      /\ txn' = [txn EXCEPT ![c] = NoTxn]
  BY DEF CommitTxn
<1>4. \A r \in Runs :
        \/ status'[r] = status[r]
        \/ /\ r = x.run /\ x.topic = "clean" /\ x.full
           /\ status[r] = "processing" /\ status'[r] = "success"
  BY <1>2 DEF CommitTxn, MarkersTypeOK
<1>5. \A d \in Consumers : txn'[d] # NoTxn => d # c /\ txn'[d] = txn[d]
  BY <1>3 DEF MarkersTypeOK
<1>6. MarkersTypeOK'
  <2>1. status' \in [Runs -> Statuses]
    BY <1>2 DEF CommitTxn, MarkersTypeOK, Statuses
  <2>2. marker' \subseteq Runs \X Topics \X Partitions
    BY <1>2, <1>3 DEF MarkersTypeOK
  <2> QED
    BY <1>3, <2>1, <2>2 DEF MarkersTypeOK
<1>7. CountedIsReported'
  BY <1>3, <1>5 DEF CountedIsReported
<1>8. HandedOverIsFrozen'
  BY <1>3, <1>4 DEF HandedOverIsFrozen
<1>9. SuccessMeansReported'
  <2> SUFFICES ASSUME NEW r \in Runs, status'[r] = "success", NEW p \in Partitions
               PROVE  <<r, "clean", p>> \in marker'
    BY DEF SuccessMeansReported
  <2>1. CASE status[r] = "success"
    BY <2>1, <1>3 DEF SuccessMeansReported
  <2>2. CASE status[r] # "success"
    <3>1. r = x.run /\ x.topic = "clean" /\ x.full
      BY <2>2, <1>4
    <3>2. <<r, "clean", p>> \in marker \/ p \in x.row
      BY <3>1 DEF CountedIsReported, CommitTxn
    <3> QED
      BY <3>1, <3>2, <1>3
  <2> QED
    BY <2>1, <2>2
<1> QED
  BY <1>6, <1>7, <1>8, <1>9

LEMMA MarkersNextInv == MarkersInv /\ [MarkersNext]_markerVars => MarkersInv'
<1> SUFFICES ASSUME MarkersInv, [MarkersNext]_markerVars PROVE MarkersInv'
  OBVIOUS
<1>1. ASSUME NEW r \in Runs, NEW stale \in SUBSET Runs, StartRun(r, stale)
      PROVE  MarkersInv'
  BY <1>1, TaskStep DEF StartRun, MarkersInv, MarkersTypeOK, Statuses
<1>2. ASSUME NEW r \in Runs, FailRun(r)
      PROVE  MarkersInv'
  BY <1>2, TaskStep DEF FailRun, MarkersInv, MarkersTypeOK, Statuses
<1>3. ASSUME NEW r \in Runs, FreezeTopology(r)
      PROVE  MarkersInv'
  BY <1>3, TaskStep DEF FreezeTopology, MarkersInv, MarkersTypeOK, Statuses, Topics
<1>4. ASSUME NEW c \in Consumers, NEW r \in Runs, NEW t \in Topics, NEW p \in Partitions,
             RecordMarker(c, r, t, p)
      PROVE  MarkersInv'
  <2> DEFINE own == IF <<r, t>> \in frozen THEN {p} ELSE {}
  <2>1. own \in SUBSET Partitions
    OBVIOUS
  <2> QED
    BY <1>4, <2>1, OpenStep DEF RecordMarker
<1>5. ASSUME NEW c \in Consumers, NEW r \in Runs, NEW t \in Topics, CountMarkers(c, r, t)
      PROVE  MarkersInv'
  <2> DEFINE own == {}
  <2>1. own \in SUBSET Partitions
    OBVIOUS
  <2>2. /\ txn' = [txn EXCEPT ![c] =
               [run |-> r, topic |-> t, row |-> own, full |-> IsTopicComplete(r, t, own)]]
        /\ UNCHANGED <<status, frozen, marker>>
    BY <1>5 DEF CountMarkers
  <2> HIDE DEF own
  <2> QED
    BY <2>1, <2>2, OpenStep
<1>6. ASSUME NEW c \in Consumers, RollbackTxn(c)
      PROVE  MarkersInv'
  BY <1>6 DEF RollbackTxn, MarkersInv, MarkersTypeOK, CountedIsReported, HandedOverIsFrozen,
              SuccessMeansReported
<1>7. CASE UNCHANGED markerVars
  BY <1>7 DEF markerVars, MarkersInv, MarkersTypeOK, CountedIsReported, HandedOverIsFrozen,
              SuccessMeansReported
<1> QED
  BY <1>1, <1>2, <1>3, <1>4, <1>5, <1>6, <1>7, CommitStep DEF MarkersNext

\* What the proofs below rest on.
THEOREM MarkersInvariant == MarkersSpec => []MarkersInv
BY MarkersInitInv, MarkersNextInv, PTL DEF MarkersSpec

\* A success was reported by every clean partition, whatever transactions
\* overlapped, were repeated or were rolled back.
THEOREM SuccessIsReported == MarkersSpec => []SuccessMeansReported
<1>1. MarkersInv => SuccessMeansReported
  BY DEF MarkersInv
<1> QED
  BY <1>1, MarkersInvariant, PTL

\* A closed run keeps its status: no redelivery, sweep or retried barrier
\* decides it again.
THEOREM ClosedForGood == MarkersSpec => ClosedStaysClosed
<1> DEFINE Kept == \A r \in Runs : status[r] \in Closed => status'[r] = status[r]
<1>1. ASSUME MarkersInv, [MarkersNext]_markerVars
      PROVE  [Kept]_status
  <2>1. ASSUME NEW q \in Runs, NEW stale \in SUBSET Runs, StartRun(q, stale)
        PROVE  Kept
    BY <2>1 DEF StartRun, Closed
  <2>2. ASSUME NEW q \in Runs, FailRun(q), <<q, "raw">> \notin frozen
        PROVE  Kept
    BY <1>1, <2>2 DEF FailRun, Closed, MarkersInv, MarkersTypeOK, HandedOverIsFrozen
  <2>3. ASSUME NEW q \in Runs, FreezeTopology(q)
        PROVE  Kept
    BY <1>1, <2>3 DEF FreezeTopology, Closed, MarkersInv, MarkersTypeOK
  <2>4. ASSUME NEW c \in Consumers, CommitTxn(c)
        PROVE  Kept
    <3>1. CASE txn[c].topic = "clean" /\ txn[c].full /\ status[txn[c].run] = "processing"
      BY <1>1, <2>4, <3>1 DEF CommitTxn, Closed, MarkersInv, MarkersTypeOK
    <3>2. CASE ~(txn[c].topic = "clean" /\ txn[c].full /\ status[txn[c].run] = "processing")
      BY <2>4, <3>2 DEF CommitTxn
    <3> QED
      BY <3>1, <3>2
  <2>5. CASE UNCHANGED status
    BY <2>5
  <2> QED
    BY <1>1, <2>1, <2>2, <2>3, <2>4, <2>5
      DEF MarkersNext, markerVars, RecordMarker, CountMarkers, RollbackTxn
<1> QED
  BY <1>1, MarkersInvariant, PTL DEF MarkersSpec, ClosedStaysClosed
================================================================================
