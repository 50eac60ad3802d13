----------------------------- MODULE StreamProofs ------------------------------
(***************************************************************************)
(* Proofs about StreamPipeline for every number of runs, records,          *)
(* partitions and consumers, every hashing, every set of rejected and      *)
(* unreadable records, and any number of crashes and retries.              *)
(***************************************************************************)
EXTENDS StreamInvariant, RunMarkersProofs

(***************************************************************************)
(* Appending to a log                                                      *)
(***************************************************************************)

\* Producing appends one event to one partition; no other log changes.
LEMMA ProduceStep ==
  ASSUME TypeOK, NEW t \in Topics, NEW p \in Partitions, NEW r \in Runs,
         NEW body \in Records \cup {Boundary}, Produce(t, p, r, body)
  PROVE  /\ log' \in [Topics \X Partitions -> Seq(Event)]
         /\ Len(log'[<<t, p>>]) = Len(log[<<t, p>>]) + 1
         /\ log'[<<t, p>>][Len(log[<<t, p>>]) + 1] = [run |-> r, body |-> body]
         /\ \A i \in 1 .. Len(log[<<t, p>>]) : log'[<<t, p>>][i] = log[<<t, p>>][i]
         /\ \A u \in Topics, q \in Partitions :
              ~(u = t /\ q = p) => log'[<<u, q>>] = log[<<u, q>>]
<1> DEFINE e == [run |-> r, body |-> body]
<1>1. e \in Event
  BY DEF Event
<1>2. log \in [Topics \X Partitions -> Seq(Event)]
  BY DEF TypeOK
<1>3. <<t, p>> \in Topics \X Partitions
  OBVIOUS
<1>4. log[<<t, p>>] \in Seq(Event)
  BY <1>2, <1>3
<1>5. log' = [log EXCEPT ![<<t, p>>] = Append(log[<<t, p>>], e)]
  BY DEF Produce
<1> HIDE DEF e
<1>6. /\ Append(log[<<t, p>>], e) \in Seq(Event)
      /\ Len(Append(log[<<t, p>>], e)) = Len(log[<<t, p>>]) + 1
      /\ Append(log[<<t, p>>], e)[Len(log[<<t, p>>]) + 1] = e
      /\ \A i \in 1 .. Len(log[<<t, p>>]) : Append(log[<<t, p>>], e)[i] = log[<<t, p>>][i]
  BY <1>1, <1>4
<1>7. log' \in [Topics \X Partitions -> Seq(Event)]
  BY <1>2, <1>5, <1>6
<1>8. log'[<<t, p>>] = Append(log[<<t, p>>], e)
  BY <1>2, <1>3, <1>5
<1>9. ASSUME NEW u \in Topics, NEW q \in Partitions, ~(u = t /\ q = p)
      PROVE  log'[<<u, q>>] = log[<<u, q>>]
  BY <1>2, <1>5, <1>9
<1>10. e = [run |-> r, body |-> body]
  BY DEF e
<1> QED
  BY <1>6, <1>7, <1>8, <1>9, <1>10

(***************************************************************************)
(* Types                                                                   *)
(***************************************************************************)

\* An event a consumer has polled is an event of its log.
LEMMA CurrentType ==
  ASSUME TypeOK, PositionDurable, NEW c \in Consumers,
         stage[c] \in {"handling", "closing", "settled"}
  PROVE  /\ Topic(c) \in Topics
         /\ at[c] \in Partitions \X Nat
         /\ at[c][1] \in Partitions
         /\ at[c][2] \in 1 .. Len(log[Here(c)])
         /\ Here(c) = <<Topic(c), at[c][1]>>
         /\ log[Here(c)] \in Seq(Event)
         /\ Current(c) \in Event
         /\ Current(c).run \in Runs
         /\ Current(c).body \in Records \cup {Boundary}
         /\ Current(c) = [run |-> Current(c).run, body |-> Current(c).body]
<1>1. Topic(c) \in Topics
  BY PipelineAssumption DEF Topic
<1>2. at[c] \in Partitions \X Nat /\ at[c][2] \in 1 .. Len(log[Here(c)])
  BY DEF PositionDurable, AtDurable
<1>3. log[Here(c)] \in Seq(Event)
  BY <1>1, <1>2 DEF Here, TypeOK
<1>4. Current(c) \in Event
  BY <1>2, <1>3 DEF Current
<1> QED
  BY <1>1, <1>2, <1>3, <1>4 DEF Here, Event

\* Every variable keeps its type.  PositionDurable is needed because a step of
\* a consumer appends or stores what it has read.
LEMMA TypeStep == TypeOK /\ PositionDurable /\ TxnMatches /\ [Next]_vars => TypeOK'
<1> SUFFICES ASSUME TypeOK, PositionDurable, TxnMatches, [Next]_vars PROVE TypeOK'
  OBVIOUS
<1> USE PipelineAssumption
<1>1. ASSUME NEW r \in Runs, DagStep(r) PROVE TypeOK'
  <2>1. CASE BeginResolution(r)
    BY <2>1 DEF TypeOK, MarkersTypeOK, BeginResolution, StartRun, Statuses, DagStates,
                consumerVars, storeVars
  <2>2. CASE ResolutionFails(r)
    BY <2>2 DEF TypeOK, MarkersTypeOK, ResolutionFails, FailRun, Statuses, DagStates,
                consumerVars, storeVars
  <2>3. CASE ResolutionAbandoned(r)
    BY <2>3 DEF TypeOK, MarkersTypeOK, ResolutionAbandoned, DagStates,
                markerVars, consumerVars, storeVars
  <2>4. CASE ResolutionDone(r)
    BY <2>4 DEF TypeOK, MarkersTypeOK, ResolutionDone, DagStates,
                markerVars, consumerVars, storeVars
  <2>5. CASE BeginBoundary(r)
    BY <2>5 DEF TypeOK, MarkersTypeOK, BeginBoundary, FreezeTopology, Statuses, DagStates,
                consumerVars, storeVars
  <2>6. CASE BoundaryFails(r)
    BY <2>6 DEF TypeOK, MarkersTypeOK, BoundaryFails, DagStates,
                markerVars, consumerVars, storeVars
  <2>7. CASE BoundaryDone(r)
    BY <2>7 DEF TypeOK, MarkersTypeOK, BoundaryDone, DagStates,
                markerVars, consumerVars, storeVars
  <2>8. ASSUME NEW b \in Records, PublishRecord(r, b) PROVE TypeOK'
    <3>1. log' \in [Topics \X Partitions -> Seq(Event)]
      BY <2>8, ProduceStep DEF PublishRecord, Topics
    <3> QED
      BY <2>8, <3>1 DEF TypeOK, MarkersTypeOK, PublishRecord,
                        markerVars, consumerVars, storeVars
  <2>9. ASSUME NEW p \in Partitions, EmitRawMarker(r, p) PROVE TypeOK'
    <3>1. log' \in [Topics \X Partitions -> Seq(Event)]
      BY <2>9, ProduceStep DEF EmitRawMarker, Topics
    <3> QED
      BY <2>9, <3>1 DEF TypeOK, MarkersTypeOK, EmitRawMarker,
                        markerVars, consumerVars, storeVars
  <2> QED
    BY <1>1, <2>1, <2>2, <2>3, <2>4, <2>5, <2>6, <2>7, <2>8, <2>9 DEF DagStep
<1>2. ASSUME NEW c \in Consumers, Work(c) PROVE TypeOK'
  <2>0. Topic(c) \in Topics
    BY DEF Topic
  <2>1. CASE BeginSweep(c)
    BY <2>1 DEF TypeOK, MarkersTypeOK, BeginSweep, RunsAwaiting, Stages,
                markerVars, dagVars, storeVars
  <2>2. ASSUME NEW r \in Runs, SweepRun(c, r) PROVE TypeOK'
    BY <2>0, <2>2 DEF TypeOK, MarkersTypeOK, SweepRun, CountMarkers, IsTopicComplete, Txn,
                      dagVars, storeVars
  <2>3. ASSUME CommitTxn(c)
        PROVE  MarkersTypeOK' /\ Owed(txn[c]) \in SUBSET (Runs \X Partitions)
    <3>1. txn[c] \in Txn
      BY <2>3 DEF CommitTxn, TypeOK, MarkersTypeOK
    <3> QED
      BY <2>3, <3>1 DEF CommitTxn, TypeOK, MarkersTypeOK, Owed, Txn, Statuses
  <2>4. CASE EndSweepRun(c)
    BY <2>3, <2>4 DEF TypeOK, EndSweepRun, dagVars, storeVars
  <2>5. CASE BeginPolling(c)
    BY <2>5 DEF TypeOK, MarkersTypeOK, BeginPolling, Stages, markerVars, dagVars, storeVars
  <2>6. ASSUME NEW p \in Partitions, NEW k \in 1 .. Len(log[<<Topic(c), p>>]), Poll(c, p, k)
        PROVE  TypeOK'
    <3>1. k \in Nat
      BY <2>0 DEF TypeOK
    <3> QED
      BY <2>6, <3>1 DEF TypeOK, MarkersTypeOK, Poll, Stages, markerVars, dagVars, storeVars
  <2>7. CASE TransformBook(c)
    <3>1. Current(c).run \in Runs /\ Current(c).body \in Records
      BY <2>7, CurrentType DEF TransformBook, IsMarker
    <3>2. /\ log' \in [Topics \X Partitions -> Seq(Event)]
          /\ dlq' \subseteq Runs \X Records
      <4>1. CASE Current(c).body \in TransformRejects
        BY <2>7, <3>1, <4>1 DEF TransformBook, TypeOK
      <4>2. CASE Current(c).body \notin TransformRejects
        BY <2>7, <3>1, <4>2, ProduceStep DEF TransformBook, TypeOK, Topics
      <4> QED
        BY <4>1, <4>2
    <3> QED
      BY <2>7, <3>2 DEF TypeOK, MarkersTypeOK, TransformBook, Stages, markerVars, dagVars
  <2>8. CASE LoadBook(c)
    <3>1. Current(c).run \in Runs /\ Current(c).body \in Records
      BY <2>8, CurrentType DEF LoadBook, IsMarker
    <3> QED
      BY <2>8, <3>1 DEF TypeOK, MarkersTypeOK, LoadBook, Stages, markerVars, dagVars
  <2>9. CASE ObserveMarker(c)
    <3>1. Current(c).run \in Runs /\ at[c][1] \in Partitions
      BY <2>9, CurrentType DEF ObserveMarker
    <3> QED
      BY <2>0, <2>9, <3>1 DEF TypeOK, MarkersTypeOK, ObserveMarker, RecordMarker, IsTopicComplete,
                              Txn, Stages, dagVars, storeVars
  <2>10. CASE EndMarker(c)
    BY <2>3, <2>10 DEF TypeOK, EndMarker, Stages, dagVars, storeVars
  <2>11. ASSUME NEW x \in Runs \X Partitions, SendCleanMarker(c, x) PROVE TypeOK'
    <3>1. log' \in [Topics \X Partitions -> Seq(Event)]
      BY <2>11, ProduceStep DEF SendCleanMarker, Topics
    <3> QED
      BY <2>11, <3>1 DEF TypeOK, MarkersTypeOK, SendCleanMarker, markerVars, dagVars, storeVars
  <2>12. CASE CommitOffset(c)
    <3>1. at[c][2] \in Nat
      BY <2>12, CurrentType DEF CommitOffset
    <3> QED
      BY <2>12, <3>1 DEF TypeOK, MarkersTypeOK, CommitOffset, NoEvent, Stages,
                         markerVars, dagVars, storeVars
  <2>13. CASE CommitRefused(c)
    BY <2>13 DEF TypeOK, MarkersTypeOK, CommitRefused, Restarted, RollbackTxn, NoEvent, Stages,
                 markerVars, dagVars, storeVars
  <2> QED
    BY <1>2, <2>1, <2>2, <2>4, <2>5, <2>6, <2>7, <2>8, <2>9, <2>10, <2>11, <2>12, <2>13
       DEF Work
<1>3. ASSUME NEW c \in Consumers, Crash(c) PROVE TypeOK'
  <2>1. crashes' \in Nat
    BY <1>3 DEF TypeOK, Crash
  <2> QED
    BY <1>3, <2>1 DEF TypeOK, MarkersTypeOK, Crash, Restarted, RollbackTxn, NoEvent, Stages,
                      markerVars, dagVars, storeVars
<1>4. CASE UNCHANGED vars
  BY <1>4 DEF TypeOK, MarkersTypeOK, vars, markerVars, dagVars, consumerVars, storeVars
<1> QED
  BY <1>1, <1>2, <1>3, <1>4 DEF Next

(***************************************************************************)
(* What no step undoes                                                     *)
(***************************************************************************)

\* Logs are appended to, stores grow, and a run that is over publishes nothing.
Extends ==
  /\ \A t \in Topics, p \in Partitions :
       /\ Len(log[<<t, p>>]) <= Len(log'[<<t, p>>])
       /\ \A i \in 1 .. Len(log[<<t, p>>]) : log'[<<t, p>>][i] = log[<<t, p>>][i]
  /\ dlq \subseteq dlq' /\ catalogue \subseteq catalogue'
  /\ marker \subseteq marker' /\ frozen \subseteq frozen' /\ published \subseteq published'
  /\ \A r \in Runs : Over(r) => Over(r)'
  /\ \A x \in published' : Over(x[1]) => x \in published

\* Appending one event extends the logs.
LEMMA ProduceExtends ==
  ASSUME TypeOK, NEW t \in Topics, NEW p \in Partitions, NEW r \in Runs,
         NEW body \in Records \cup {Boundary}, Produce(t, p, r, body)
  PROVE  \A u \in Topics, q \in Partitions :
           /\ Len(log[<<u, q>>]) <= Len(log'[<<u, q>>])
           /\ \A i \in 1 .. Len(log[<<u, q>>]) : log'[<<u, q>>][i] = log[<<u, q>>][i]
<1>1. /\ Len(log'[<<t, p>>]) = Len(log[<<t, p>>]) + 1
      /\ \A i \in 1 .. Len(log[<<t, p>>]) : log'[<<t, p>>][i] = log[<<t, p>>][i]
      /\ \A u \in Topics, q \in Partitions :
           ~(u = t /\ q = p) => log'[<<u, q>>] = log[<<u, q>>]
  BY ProduceStep
<1> TAKE u \in Topics, q \in Partitions
<1>2. Len(log[<<u, q>>]) \in Nat
  BY DEF TypeOK
<1>3. CASE u = t /\ q = p
  BY <1>1, <1>2, <1>3
<1>4. CASE ~(u = t /\ q = p)
  BY <1>1, <1>2, <1>4
<1> QED
  BY <1>3, <1>4

\* Logs that did not change extend themselves.
LEMMA UnchangedExtends ==
  ASSUME TypeOK, UNCHANGED log
  PROVE  \A u \in Topics, q \in Partitions :
           /\ Len(log[<<u, q>>]) <= Len(log'[<<u, q>>])
           /\ \A i \in 1 .. Len(log[<<u, q>>]) : log'[<<u, q>>][i] = log[<<u, q>>][i]
<1>1. \A u \in Topics, q \in Partitions : Len(log[<<u, q>>]) \in Nat
  BY DEF TypeOK
<1> QED
  BY <1>1

\* Every step extends.
LEMMA StepExtends == TypeOK /\ PositionDurable /\ TxnMatches /\ [Next]_vars => Extends
<1> SUFFICES ASSUME TypeOK, PositionDurable, TxnMatches, [Next]_vars PROVE Extends
  OBVIOUS
<1> USE PipelineAssumption
<1>1. ASSUME NEW r \in Runs, DagStep(r) PROVE Extends
  <2>1. CASE BeginResolution(r)
    BY <2>1, UnchangedExtends DEF Extends, Over, TypeOK, BeginResolution, StartRun, storeVars
  <2>2. CASE ResolutionFails(r)
    BY <2>2, UnchangedExtends DEF Extends, Over, TypeOK, ResolutionFails, FailRun, storeVars
  <2>3. CASE ResolutionAbandoned(r)
    BY <2>3, UnchangedExtends
       DEF Extends, Over, TypeOK, ResolutionAbandoned, markerVars, storeVars
  <2>4. CASE ResolutionDone(r)
    BY <2>4, UnchangedExtends DEF Extends, Over, TypeOK, ResolutionDone, markerVars, storeVars
  <2>5. CASE BeginBoundary(r)
    BY <2>5, UnchangedExtends DEF Extends, Over, TypeOK, BeginBoundary, FreezeTopology, storeVars
  <2>6. CASE BoundaryFails(r)
    BY <2>6, UnchangedExtends DEF Extends, Over, TypeOK, BoundaryFails, markerVars, storeVars
  <2>7. CASE BoundaryDone(r)
    BY <2>7, UnchangedExtends DEF Extends, Over, TypeOK, BoundaryDone, markerVars, storeVars
  <2>8. ASSUME NEW b \in Records, PublishRecord(r, b) PROVE Extends
    <3>1. Produce("raw", RawPartition[b], r, b)
      BY <2>8 DEF PublishRecord
    <3>2. \A x \in published' : Over(x[1]) => x \in published
      BY <2>8 DEF PublishRecord, Over
    <3> QED
      BY <2>8, <3>1, <3>2, ProduceExtends
         DEF Extends, Over, PublishRecord, markerVars, storeVars, Topics
  <2>9. ASSUME NEW p \in Partitions, EmitRawMarker(r, p) PROVE Extends
    BY <2>9, ProduceExtends DEF Extends, Over, EmitRawMarker, markerVars, storeVars, Topics
  <2> QED
    BY <1>1, <2>1, <2>2, <2>3, <2>4, <2>5, <2>6, <2>7, <2>8, <2>9 DEF DagStep
<1>2. ASSUME NEW c \in Consumers, Work(c) PROVE Extends
  <2>1. CASE BeginSweep(c)
    BY <2>1, UnchangedExtends DEF Extends, Over, BeginSweep, markerVars, dagVars, storeVars
  <2>2. ASSUME NEW r \in Runs, SweepRun(c, r) PROVE Extends
    BY <2>2, UnchangedExtends DEF Extends, Over, SweepRun, CountMarkers, dagVars, storeVars
  <2>4. CASE EndSweepRun(c)
    BY <2>4, UnchangedExtends DEF Extends, Over, EndSweepRun, CommitTxn, dagVars, storeVars
  <2>5. CASE BeginPolling(c)
    BY <2>5, UnchangedExtends DEF Extends, Over, BeginPolling, markerVars, dagVars, storeVars
  <2>6. ASSUME NEW p \in Partitions, NEW k \in 1 .. Len(log[<<Topic(c), p>>]), Poll(c, p, k)
        PROVE  Extends
    BY <2>6, UnchangedExtends DEF Extends, Over, Poll, markerVars, dagVars, storeVars
  <2>7. CASE TransformBook(c)
    <3>1. Current(c).run \in Runs /\ Current(c).body \in Records
      BY <2>7, CurrentType DEF TransformBook, IsMarker
    <3>2. CASE Current(c).body \in TransformRejects
      BY <2>7, <3>2, UnchangedExtends
         DEF Extends, Over, TransformBook, markerVars, dagVars
    <3>3. CASE Current(c).body \notin TransformRejects
      BY <2>7, <3>1, <3>3, ProduceExtends
         DEF Extends, Over, TransformBook, markerVars, dagVars, Topics
    <3> QED
      BY <3>2, <3>3
  <2>8. CASE LoadBook(c)
    BY <2>8, UnchangedExtends DEF Extends, Over, LoadBook, markerVars, dagVars
  <2>9. CASE ObserveMarker(c)
    BY <2>9, UnchangedExtends DEF Extends, Over, ObserveMarker, RecordMarker, dagVars, storeVars
  <2>10. CASE EndMarker(c)
    BY <2>10, UnchangedExtends DEF Extends, Over, EndMarker, CommitTxn, dagVars, storeVars
  <2>11. ASSUME NEW x \in Runs \X Partitions, SendCleanMarker(c, x) PROVE Extends
    BY <2>11, ProduceExtends DEF Extends, Over, SendCleanMarker, markerVars, dagVars, storeVars,
                                 Topics
  <2>12. CASE CommitOffset(c)
    BY <2>12, UnchangedExtends DEF Extends, Over, CommitOffset, markerVars, dagVars, storeVars
  <2>13. CASE CommitRefused(c)
    BY <2>13, UnchangedExtends
       DEF Extends, Over, CommitRefused, Restarted, RollbackTxn, markerVars, dagVars, storeVars
  <2> QED
    BY <1>2, <2>1, <2>2, <2>4, <2>5, <2>6, <2>7, <2>8, <2>9, <2>10, <2>11, <2>12, <2>13
       DEF Work
<1>3. ASSUME NEW c \in Consumers, Crash(c) PROVE Extends
  BY <1>3, UnchangedExtends
     DEF Extends, Over, Crash, Restarted, RollbackTxn, markerVars, dagVars, storeVars
<1>4. CASE UNCHANGED vars
  BY <1>4, UnchangedExtends DEF Extends, Over, vars, markerVars, dagVars, consumerVars, storeVars
<1> QED
  BY <1>1, <1>2, <1>3, <1>4 DEF Next

\* So what has been achieved for a record, an event or a run stays achieved.
LEMMA Achieved ==
  ASSUME TypeOK, Extends
  PROVE  /\ Settled \subseteq Settled'
         /\ \A x \in Runs \X Records : Forwarded(x) => Forwarded(x)'
         /\ \A t \in Topics, p \in Partitions, e \in Event :
              Durable(t, p, e) => Durable(t, p, e)'
         /\ \A r \in Runs : (RawDone(r) => RawDone(r)') /\ (RunDone(r) => RunDone(r)')
         /\ \A r \in Runs, p \in Partitions :
              /\ RawPartitionDone(r, p) => RawPartitionDone(r, p)'
              /\ CleanPartitionDone(r, p) => CleanPartitionDone(r, p)'
<1>1. Settled \subseteq Settled'
  BY DEF Settled, Extends
<1>2. ASSUME NEW x \in Runs \X Records, Forwarded(x) PROVE Forwarded(x)'
  <2>1. CASE ParkedByTransform(x)
    BY <2>1 DEF Forwarded, ParkedByTransform, Extends
  <2>2. ASSUME NEW i \in 1 .. Len(log[<<"clean", CleanPartition[x[2]]>>]),
               log[<<"clean", CleanPartition[x[2]]>>][i] = BookEvent(x)
        PROVE  Forwarded(x)'
    <3> DEFINE q == CleanPartition[x[2]]
    <3>1. q \in Partitions
      BY PipelineAssumption
    <3> HIDE DEF q
    <3>2. Len(log[<<"clean", q>>]) <= Len(log'[<<"clean", q>>])
      BY <3>1 DEF Extends, Topics
    <3>3. log'[<<"clean", q>>][i] = BookEvent(x)
      BY <2>2, <3>1 DEF Extends, Topics, q
    <3>4. i \in 1 .. Len(log'[<<"clean", q>>])
      BY <2>2, <3>2 DEF q
    <3> QED
      BY <3>3, <3>4 DEF Forwarded, ParkedByTransform, q, BookEvent
  <2> QED
    BY <1>2, <2>1, <2>2 DEF Forwarded, ParkedByTransform
<1>3. ASSUME NEW t \in Topics, NEW p \in Partitions, NEW e \in Event, Durable(t, p, e)
      PROVE  Durable(t, p, e)'
  <2>1. CASE IsMarker(e)
    BY <1>3, <2>1 DEF Durable, IsMarker, Extends
  <2>2. CASE ~IsMarker(e)
    <3>1. <<e.run, e.body>> \in Runs \X Records
      BY <2>2 DEF Event, IsMarker
    <3> QED
      BY <1>1, <1>2, <1>3, <2>2, <3>1 DEF Durable, IsMarker
  <2> QED
    BY <2>1, <2>2
<1>4. published \subseteq Runs \X Records /\ Readable \subseteq published
  BY DEF TypeOK, Readable
<1>5. ASSUME NEW r \in Runs, Over(r)
      PROVE  Over(r)' /\ \A x \in Readable' : x[1] = r => x \in Readable
  BY <1>5 DEF Extends, Readable
<1> QED
  BY <1>1, <1>2, <1>3, <1>4, <1>5
     DEF RawDone, RunDone, RawPartitionDone, CleanPartitionDone

(***************************************************************************)
(* Which steps change what                                                 *)
(***************************************************************************)

\* The steps that change each shared variable.
Framed ==
  /\ UNCHANGED published \/ \E r \in Runs, b \in Records : PublishRecord(r, b)
  /\ \/ UNCHANGED log
     \/ \E r \in Runs, b \in Records : PublishRecord(r, b)
     \/ \E r \in Runs, p \in Partitions : EmitRawMarker(r, p)
     \/ \E c \in Consumers : TransformBook(c)
     \/ \E c \in Consumers, x \in Runs \X Partitions : SendCleanMarker(c, x)
  /\ UNCHANGED committed \/ \E c \in Consumers : CommitOffset(c)
  /\ UNCHANGED marker \/ \E c \in Consumers : EndSweepRun(c) \/ EndMarker(c)
  /\ UNCHANGED frozen \/ \E r \in Runs : BeginBoundary(r)
  /\ \A r \in Runs : dag'[r] = "marking" => dag[r] = "marking" \/ BeginBoundary(r)
  /\ \A r \in Runs : status'[r] = "success" =>
       \/ status[r] = "success"
       \/ \E c \in Consumers : txn[c] # NoTxn /\ txn[c].topic = "clean" /\ txn[c].full
                              /\ txn[c].run = r

\* These are indeed the steps that change them.
LEMMA StepFramed == TypeOK /\ [Next]_vars => Framed
<1> SUFFICES ASSUME TypeOK, [Next]_vars PROVE Framed
  OBVIOUS
<1>1. ASSUME NEW r \in Runs, DagStep(r) PROVE Framed
  <2>1. CASE BeginResolution(r)
    BY <2>1 DEF BeginResolution, StartRun, Framed, TypeOK, MarkersTypeOK, markerVars
  <2>2. CASE ResolutionFails(r)
    BY <2>2 DEF ResolutionFails, FailRun, Framed, TypeOK, MarkersTypeOK, markerVars
  <2>3. CASE ResolutionAbandoned(r)
    BY <2>3 DEF ResolutionAbandoned, Framed, TypeOK, MarkersTypeOK, markerVars
  <2>4. CASE ResolutionDone(r)
    BY <2>4 DEF ResolutionDone, Framed, TypeOK, MarkersTypeOK, markerVars
  <2>5. CASE BeginBoundary(r)
    BY <2>5 DEF BeginBoundary, FreezeTopology, Framed, TypeOK, MarkersTypeOK, markerVars
  <2>6. CASE BoundaryFails(r)
    BY <2>6 DEF BoundaryFails, Framed, TypeOK, MarkersTypeOK, markerVars
  <2>7. CASE BoundaryDone(r)
    BY <2>7 DEF BoundaryDone, Framed, TypeOK, MarkersTypeOK, markerVars
  <2>8. ASSUME NEW b \in Records, PublishRecord(r, b) PROVE Framed
    BY <2>8 DEF PublishRecord, Framed, TypeOK, MarkersTypeOK, markerVars
  <2>9. ASSUME NEW p \in Partitions, EmitRawMarker(r, p) PROVE Framed
    BY <2>9 DEF EmitRawMarker, Framed, TypeOK, MarkersTypeOK, markerVars
  <2> QED
    BY <1>1, <2>1, <2>2, <2>3, <2>4, <2>5, <2>6, <2>7, <2>8, <2>9 DEF DagStep
<1>2. ASSUME NEW c \in Consumers, Work(c) PROVE Framed
  <2>1. CASE BeginSweep(c)
    BY <2>1 DEF BeginSweep, Framed, TypeOK, MarkersTypeOK, markerVars, dagVars
  <2>2. ASSUME NEW r \in Runs, SweepRun(c, r) PROVE Framed
    BY <2>2 DEF SweepRun, CountMarkers, Framed, TypeOK, MarkersTypeOK, markerVars, dagVars
  <2>3. CASE EndSweepRun(c)
    BY <2>3 DEF EndSweepRun, CommitTxn, Framed, TypeOK, MarkersTypeOK, markerVars, dagVars
  <2>4. CASE BeginPolling(c)
    BY <2>4 DEF BeginPolling, Framed, TypeOK, MarkersTypeOK, markerVars, dagVars
  <2>5. ASSUME NEW p \in Partitions, NEW k \in 1 .. Len(log[<<Topic(c), p>>]), Poll(c, p, k) PROVE Framed
    BY <2>5 DEF Poll, Framed, TypeOK, MarkersTypeOK, markerVars, dagVars
  <2>6. CASE TransformBook(c)
    BY <2>6 DEF TransformBook, Framed, TypeOK, MarkersTypeOK, markerVars, dagVars
  <2>7. CASE LoadBook(c)
    BY <2>7 DEF LoadBook, Framed, TypeOK, MarkersTypeOK, markerVars, dagVars
  <2>8. CASE ObserveMarker(c)
    BY <2>8 DEF ObserveMarker, RecordMarker, Framed, TypeOK, MarkersTypeOK, markerVars, dagVars
  <2>9. CASE EndMarker(c)
    BY <2>9 DEF EndMarker, CommitTxn, Framed, TypeOK, MarkersTypeOK, markerVars, dagVars
  <2>10. ASSUME NEW x \in Runs \X Partitions, SendCleanMarker(c, x) PROVE Framed
    BY <2>10 DEF SendCleanMarker, Framed, TypeOK, MarkersTypeOK, markerVars, dagVars
  <2>11. CASE CommitOffset(c)
    BY <2>11 DEF CommitOffset, Framed, TypeOK, MarkersTypeOK, markerVars, dagVars
  <2>12. CASE CommitRefused(c)
    BY <2>12 DEF CommitRefused, Restarted, RollbackTxn, Framed, TypeOK, MarkersTypeOK, markerVars, dagVars
  <2> QED
    BY <1>2, <2>1, <2>2, <2>3, <2>4, <2>5, <2>6, <2>7, <2>8, <2>9, <2>10, <2>11, <2>12 DEF Work
<1>3. ASSUME NEW c \in Consumers, Crash(c) PROVE Framed
  BY <1>3 DEF Framed, TypeOK, MarkersTypeOK, Crash, Restarted, RollbackTxn, markerVars, dagVars
<1>4. CASE UNCHANGED vars
  BY <1>4 DEF Framed, TypeOK, MarkersTypeOK, vars, markerVars, dagVars
<1> QED
  BY <1>1, <1>2, <1>3, <1>4 DEF Next

\* A consumer's own state.
SameLocal(c) ==
  /\ stage'[c] = stage[c] /\ at'[c] = at[c] /\ txn'[c] = txn[c]
  /\ awaiting'[c] = awaiting[c] /\ sending'[c] = sending[c]

\* Only a consumer's own steps, or its crash, change its state.
LEMMA StepLocal ==
  ASSUME TypeOK, [Next]_vars, NEW c0 \in Consumers
  PROVE  SameLocal(c0) \/ Work(c0) \/ Crash(c0)
<1>1. ASSUME NEW r \in Runs, DagStep(r) PROVE SameLocal(c0)
  <2>1. CASE BeginResolution(r)
    BY <2>1 DEF BeginResolution, StartRun, SameLocal, markerVars, consumerVars
  <2>2. CASE ResolutionFails(r)
    BY <2>2 DEF ResolutionFails, FailRun, SameLocal, markerVars, consumerVars
  <2>3. CASE ResolutionAbandoned(r)
    BY <2>3 DEF ResolutionAbandoned, SameLocal, markerVars, consumerVars
  <2>4. CASE ResolutionDone(r)
    BY <2>4 DEF ResolutionDone, SameLocal, markerVars, consumerVars
  <2>5. CASE BeginBoundary(r)
    BY <2>5 DEF BeginBoundary, FreezeTopology, SameLocal, markerVars, consumerVars
  <2>6. CASE BoundaryFails(r)
    BY <2>6 DEF BoundaryFails, SameLocal, markerVars, consumerVars
  <2>7. CASE BoundaryDone(r)
    BY <2>7 DEF BoundaryDone, SameLocal, markerVars, consumerVars
  <2>8. ASSUME NEW b \in Records, PublishRecord(r, b) PROVE SameLocal(c0)
    BY <2>8 DEF PublishRecord, SameLocal, markerVars, consumerVars
  <2>9. ASSUME NEW p \in Partitions, EmitRawMarker(r, p) PROVE SameLocal(c0)
    BY <2>9 DEF EmitRawMarker, SameLocal, markerVars, consumerVars
  <2> QED
    BY <1>1, <2>1, <2>2, <2>3, <2>4, <2>5, <2>6, <2>7, <2>8, <2>9 DEF DagStep
<1>2. ASSUME NEW c \in Consumers, Work(c), c # c0 PROVE SameLocal(c0)
  <2>1. CASE BeginSweep(c)
    BY <2>1, <1>2 DEF BeginSweep, SameLocal, TypeOK, MarkersTypeOK, markerVars, consumerVars
  <2>2. ASSUME NEW r \in Runs, SweepRun(c, r) PROVE SameLocal(c0)
    BY <2>2, <1>2 DEF SweepRun, CountMarkers, SameLocal, TypeOK, MarkersTypeOK, markerVars, consumerVars
  <2>3. CASE EndSweepRun(c)
    BY <2>3, <1>2 DEF EndSweepRun, CommitTxn, SameLocal, TypeOK, MarkersTypeOK, markerVars, consumerVars
  <2>4. CASE BeginPolling(c)
    BY <2>4, <1>2 DEF BeginPolling, SameLocal, TypeOK, MarkersTypeOK, markerVars, consumerVars
  <2>5. ASSUME NEW p \in Partitions, NEW k \in 1 .. Len(log[<<Topic(c), p>>]), Poll(c, p, k) PROVE SameLocal(c0)
    BY <2>5, <1>2 DEF Poll, SameLocal, TypeOK, MarkersTypeOK, markerVars, consumerVars
  <2>6. CASE TransformBook(c)
    BY <2>6, <1>2 DEF TransformBook, SameLocal, TypeOK, MarkersTypeOK, markerVars, consumerVars
  <2>7. CASE LoadBook(c)
    BY <2>7, <1>2 DEF LoadBook, SameLocal, TypeOK, MarkersTypeOK, markerVars, consumerVars
  <2>8. CASE ObserveMarker(c)
    BY <2>8, <1>2 DEF ObserveMarker, RecordMarker, SameLocal, TypeOK, MarkersTypeOK, markerVars, consumerVars
  <2>9. CASE EndMarker(c)
    BY <2>9, <1>2 DEF EndMarker, CommitTxn, SameLocal, TypeOK, MarkersTypeOK, markerVars, consumerVars
  <2>10. ASSUME NEW x \in Runs \X Partitions, SendCleanMarker(c, x) PROVE SameLocal(c0)
    BY <2>10, <1>2 DEF SendCleanMarker, SameLocal, TypeOK, MarkersTypeOK, markerVars, consumerVars
  <2>11. CASE CommitOffset(c)
    BY <2>11, <1>2 DEF CommitOffset, SameLocal, TypeOK, MarkersTypeOK, markerVars, consumerVars
  <2>12. CASE CommitRefused(c)
    BY <2>12, <1>2 DEF CommitRefused, Restarted, RollbackTxn, SameLocal, TypeOK, MarkersTypeOK, markerVars, consumerVars
  <2> QED
    BY <1>2, <2>1, <2>2, <2>3, <2>4, <2>5, <2>6, <2>7, <2>8, <2>9, <2>10, <2>11, <2>12 DEF Work
<1>3. ASSUME NEW c \in Consumers, Crash(c), c # c0 PROVE SameLocal(c0)
  BY <1>3 DEF SameLocal, TypeOK, MarkersTypeOK, Crash, Restarted, RollbackTxn, markerVars
<1>4. CASE UNCHANGED vars
  BY <1>4 DEF SameLocal, vars, markerVars, consumerVars
<1> QED
  BY <1>1, <1>2, <1>3, <1>4 DEF Next

(***************************************************************************)
(* The inductive step, one conjunct of IInv at a time                      *)
(***************************************************************************)

\* What every step from IInv keeps and changes, for the lemmas below.
LEMMA StepBasics ==
  ASSUME IInv, [Next]_vars
  PROVE  TypeOK /\ TypeOK' /\ Extends /\ Framed
BY TypeStep, StepExtends, StepFramed DEF IInv

\* While a consumer handles an event, that event and the ones before it stay.
LEMMA CurrentKept ==
  ASSUME TypeOK, TypeOK', PositionDurable, Extends, NEW c \in Consumers,
         stage[c] \in {"handling", "closing", "settled"}, at'[c] = at[c]
  PROVE  /\ Here(c)' = Here(c)
         /\ at[c][2] \in 1 .. Len(log'[Here(c)])
         /\ Current(c)' = Current(c)
         /\ \A j \in 1 .. at[c][2] : log'[Here(c)][j] = log[Here(c)][j]
<1>1. /\ Topic(c) \in Topics /\ at[c] \in Partitions \X Nat /\ at[c][1] \in Partitions
      /\ at[c][2] \in 1 .. Len(log[Here(c)]) /\ Here(c) = <<Topic(c), at[c][1]>>
      /\ log[Here(c)] \in Seq(Event)
  BY CurrentType
<1>2. /\ Len(log[Here(c)]) <= Len(log'[Here(c)])
      /\ \A i \in 1 .. Len(log[Here(c)]) : log'[Here(c)][i] = log[Here(c)][i]
  BY <1>1 DEF Extends
<1>3. Here(c)' = Here(c)
  BY DEF Here, Topic
<1>4. at[c][2] \in Nat /\ Len(log[Here(c)]) \in Nat /\ Len(log'[Here(c)]) \in Nat
  BY <1>1 DEF TypeOK
<1>5. at[c][2] >= 1 /\ at[c][2] <= Len(log[Here(c)]) /\ at[c][2] <= Len(log'[Here(c)])
  <2>1. at[c][2] >= 1 /\ at[c][2] <= Len(log[Here(c)])
    BY <1>1, <1>4
  <2> QED
    BY <1>2, <1>4, <2>1
<1>6. \A j \in 1 .. at[c][2] : log'[Here(c)][j] = log[Here(c)][j]
  <2>1. 1 .. at[c][2] \subseteq 1 .. Len(log[Here(c)])
    BY <1>4, <1>5
  <2> QED
    BY <1>2, <2>1
<1>7. log'[Here(c)][at[c][2]] = log[Here(c)][at[c][2]]
  BY <1>1, <1>2
<1>8. Current(c)' = Current(c)
  BY <1>3, <1>7 DEF Current
<1> QED
  BY <1>3, <1>4, <1>5, <1>6, <1>8

\* A published record's event is a book event of its own partition.
LEMMA ReadableFacts ==
  ASSUME TypeOK, NEW x \in published
  PROVE  /\ x \in Runs \X Records /\ x = <<x[1], x[2]>> /\ x[1] \in Runs /\ x[2] \in Records
         /\ RawPartition[x[2]] \in Partitions /\ CleanPartition[x[2]] \in Partitions
         /\ BookEvent(x) \in Event /\ ~IsMarker(BookEvent(x))
         /\ BookEvent(x).run = x[1] /\ BookEvent(x).body = x[2]
<1>1. x \in Runs \X Records
  BY DEF TypeOK
<1> QED
  BY <1>1, PipelineAssumption DEF BookEvent, Event, IsMarker

\* An event of a log is an event, and a log's length is a number.
LEMMA LogFacts ==
  ASSUME TypeOK, NEW t \in Topics, NEW p \in Partitions
  PROVE  /\ Len(log[<<t, p>>]) \in Nat
         /\ \A i \in 1 .. Len(log[<<t, p>>]) :
              /\ log[<<t, p>>][i] \in Event /\ log[<<t, p>>][i].run \in Runs
              /\ log[<<t, p>>][i].body \in Records \cup {Boundary}
<1>1. log[<<t, p>>] \in Seq(Event)
  BY DEF TypeOK
<1>2. \A i \in 1 .. Len(log[<<t, p>>]) : log[<<t, p>>][i] \in Event
  BY <1>1
<1> QED
  BY <1>1, <1>2 DEF Event

\* A published record keeps its event, and a new one is appended with it.
LEMMA PublishedStep == ASSUME IInv, [Next]_vars PROVE PublishedIsLogged'
<1>1. TypeOK /\ TypeOK' /\ Extends /\ Framed
  BY StepBasics
<1> SUFFICES ASSUME NEW x \in published'
             PROVE  (\E i \in 1 .. Len(log[<<"raw", RawPartition[x[2]]>>]) :
                       log[<<"raw", RawPartition[x[2]]>>][i] = BookEvent(x))'
  BY DEF PublishedIsLogged
<1> DEFINE q == RawPartition[x[2]]
<1>2. x \in Runs \X Records
  BY <1>1 DEF TypeOK
<1>3. q \in Partitions /\ "raw" \in Topics
  BY <1>2, PipelineAssumption DEF Topics
<1>4. Len(log[<<"raw", q>>]) \in Nat
  BY <1>1, <1>3, LogFacts
<1>5. Len(log'[<<"raw", q>>]) \in Nat
  BY <1>1, <1>3 DEF TypeOK
<1> HIDE DEF q
<1>6. CASE x \in published
  <2>1. PICK i \in 1 .. Len(log[<<"raw", q>>]) : log[<<"raw", q>>][i] = BookEvent(x)
    BY <1>6 DEF IInv, PublishedIsLogged, q
  <2>2. /\ Len(log[<<"raw", q>>]) <= Len(log'[<<"raw", q>>])
        /\ log'[<<"raw", q>>][i] = log[<<"raw", q>>][i]
    BY <1>1, <1>3, <2>1 DEF Extends
  <2>3. i \in 1 .. Len(log'[<<"raw", q>>])
    BY <1>4, <1>5, <2>1, <2>2
  <2> QED
    BY <2>1, <2>2, <2>3 DEF q, BookEvent
<1>7. CASE x \notin published
  <2>1. PICK r \in Runs, b \in Records : PublishRecord(r, b)
    BY <1>1, <1>7 DEF Framed
  <2>2. x = <<r, b>> /\ Produce("raw", q, r, b)
    BY <1>7, <2>1 DEF PublishRecord, q
  <2>3. /\ Len(log'[<<"raw", q>>]) = Len(log[<<"raw", q>>]) + 1
        /\ log'[<<"raw", q>>][Len(log[<<"raw", q>>]) + 1] = [run |-> r, body |-> b]
    BY <1>1, <1>3, <2>2, ProduceStep
  <2>4. Len(log[<<"raw", q>>]) + 1 \in 1 .. Len(log'[<<"raw", q>>])
    BY <1>4, <2>3
  <2> QED
    BY <2>2, <2>3, <2>4 DEF q, BookEvent
<1> QED
  BY <1>6, <1>7

\* Only the boundary task freezes a topology, and it freezes both topics of a
\* run that is over.
LEMMA FrozenStep == ASSUME IInv, [Next]_vars PROVE FrozenMeansOver'
<1>1. TypeOK /\ TypeOK' /\ Extends /\ Framed
  BY StepBasics
<1>2. ASSUME NEW r \in Runs, NEW t \in Topics, <<r, t>> \in frozen
      PROVE  Over(r)' /\ \A u \in Topics : <<r, u>> \in frozen'
  BY <1>1, <1>2 DEF IInv, FrozenMeansOver, Extends
<1>3. ASSUME NEW r \in Runs, NEW t \in Topics, <<r, t>> \in frozen', <<r, t>> \notin frozen
      PROVE  Over(r)' /\ \A u \in Topics : <<r, u>> \in frozen'
  <2>1. PICK q \in Runs : BeginBoundary(q)
    BY <1>1, <1>3 DEF Framed
  <2>2. q = r /\ \A u \in Topics : <<r, u>> \in frozen'
    BY <1>3, <2>1 DEF BeginBoundary, FreezeTopology
  <2>3. Over(r)'
    BY <1>1, <2>1, <2>2 DEF BeginBoundary, TypeOK, Over
  <2> QED
    BY <2>2, <2>3
<1> QED
  BY <1>2, <1>3 DEF FrozenMeansOver

\* A marker that was not on its partition before the step is a raw one of the
\* run being marked or a clean one that its sender owed, and comes last.
LEMMA NewMarker ==
  ASSUME IInv, [Next]_vars, NEW t \in Topics, NEW p \in Partitions,
         NEW i \in 1 .. Len(log'[<<t, p>>]), i \notin 1 .. Len(log[<<t, p>>]),
         log'[<<t, p>>][i].body = Boundary
  PROVE  /\ i = Len(log[<<t, p>>]) + 1
         /\ UNCHANGED published
         /\ t = "raw" => dag[log'[<<t, p>>][i].run] = "marking"
         /\ t = "clean" => \E c \in Consumers : \E x \in sending[c] : x[1] = log'[<<t, p>>][i].run
         /\ log'[<<t, p>>][i].run \in Runs
<1>1. TypeOK /\ TypeOK' /\ Extends /\ Framed
  BY StepBasics
<1>2. Len(log[<<t, p>>]) \in Nat /\ Len(log'[<<t, p>>]) \in Nat
  BY <1>1 DEF TypeOK
<1>3. log' # log
  BY <1>2
<1>4. ASSUME NEW u \in Topics, NEW q \in Partitions, NEW r \in Runs,
             NEW b \in Records \cup {Boundary}, Produce(u, q, r, b)
      PROVE  /\ u = t /\ q = p /\ i = Len(log[<<t, p>>]) + 1
             /\ log'[<<t, p>>][i] = [run |-> r, body |-> b] /\ b = Boundary
  <2>1. /\ Len(log'[<<u, q>>]) = Len(log[<<u, q>>]) + 1
        /\ log'[<<u, q>>][Len(log[<<u, q>>]) + 1] = [run |-> r, body |-> b]
        /\ ~(t = u /\ p = q) => log'[<<t, p>>] = log[<<t, p>>]
    BY <1>1, <1>4, ProduceStep
  <2>2. u = t /\ q = p
    BY <1>2, <2>1
  <2>3. i = Len(log[<<t, p>>]) + 1
    BY <1>2, <2>1, <2>2
  <2> QED
    BY <2>1, <2>2, <2>3
<1>5. ASSUME NEW r \in Runs, NEW b \in Records, PublishRecord(r, b) PROVE FALSE
  <2>1. Produce("raw", RawPartition[b], r, b) /\ RawPartition[b] \in Partitions /\ "raw" \in Topics
    BY <1>5, PipelineAssumption DEF PublishRecord, Topics
  <2>2. b = Boundary
    BY <1>4, <2>1
  <2> QED
    BY <2>2, PipelineAssumption
<1>6. ASSUME NEW c \in Consumers, TransformBook(c) PROVE FALSE
  <2> DEFINE r == Current(c).run
             b == Current(c).body
  <2>1. r \in Runs /\ b \in Records
    BY <1>1, <1>6, CurrentType DEF TransformBook, IsMarker, IInv
  <2>2. Produce("clean", CleanPartition[b], r, b)
    BY <1>3, <1>6 DEF TransformBook
  <2>3. CleanPartition[b] \in Partitions /\ "clean" \in Topics
    BY <2>1, PipelineAssumption DEF Topics
  <2> HIDE DEF r, b
  <2>4. b = Boundary
    BY <1>4, <2>1, <2>2, <2>3
  <2> QED
    BY <2>1, <2>4, PipelineAssumption
<1>7. ASSUME NEW r \in Runs, NEW q \in Partitions, EmitRawMarker(r, q)
      PROVE  /\ t = "raw" /\ i = Len(log[<<t, p>>]) + 1 /\ UNCHANGED published
             /\ dag[r] = "marking" /\ log'[<<t, p>>][i].run = r
  <2>1. "raw" \in Topics /\ Produce("raw", q, r, Boundary)
    BY <1>7 DEF EmitRawMarker, Topics
  <2>2. /\ t = "raw" /\ i = Len(log[<<t, p>>]) + 1
        /\ log'[<<t, p>>][i] = [run |-> r, body |-> Boundary]
    BY <1>4, <2>1
  <2> QED
    BY <1>7, <2>2 DEF EmitRawMarker
<1>8. ASSUME NEW c \in Consumers, NEW x \in Runs \X Partitions, SendCleanMarker(c, x)
      PROVE  /\ t = "clean" /\ i = Len(log[<<t, p>>]) + 1 /\ UNCHANGED published
             /\ x \in sending[c] /\ log'[<<t, p>>][i].run = x[1]
  <2>1. "clean" \in Topics /\ Produce("clean", x[2], x[1], Boundary)
    BY <1>8 DEF SendCleanMarker, Topics
  <2>2. /\ t = "clean" /\ i = Len(log[<<t, p>>]) + 1
        /\ log'[<<t, p>>][i] = [run |-> x[1], body |-> Boundary]
    BY <1>4, <2>1
  <2> QED
    BY <1>8, <2>2 DEF SendCleanMarker, dagVars
<1> QED
  BY <1>1, <1>3, <1>5, <1>6, <1>7, <1>8 DEF Framed

\* An event that was on its partition before the step is still there.
LEMMA OldEvent ==
  ASSUME TypeOK, TypeOK', Extends, NEW t \in Topics, NEW p \in Partitions,
         NEW i \in 1 .. Len(log[<<t, p>>])
  PROVE  /\ i \in 1 .. Len(log'[<<t, p>>])
         /\ log'[<<t, p>>][i] = log[<<t, p>>][i]
         /\ log[<<t, p>>][i] \in Event /\ log[<<t, p>>][i].run \in Runs
<1>1. Len(log[<<t, p>>]) \in Nat /\ Len(log'[<<t, p>>]) \in Nat
  BY DEF TypeOK
<1>2. Len(log[<<t, p>>]) <= Len(log'[<<t, p>>]) /\ log'[<<t, p>>][i] = log[<<t, p>>][i]
  BY DEF Extends
<1>3. log[<<t, p>>][i] \in Event /\ log[<<t, p>>][i].run \in Runs
  BY LogFacts
<1> QED
  BY <1>1, <1>2, <1>3

\* Markers, and what leads to one, exist for frozen runs only.
LEMMA MarkersFrozenStep == ASSUME IInv, [Next]_vars PROVE MarkersAreFrozen'
<1>1. TypeOK /\ TypeOK' /\ Extends /\ Framed
  BY StepBasics
<1> DEFINE Fr(r) == \A u \in Topics : <<r, u>> \in frozen
           Fr1(r) == \A u \in Topics : <<r, u>> \in frozen'
<1>2. ASSUME NEW r \in Runs, Fr(r) PROVE Fr1(r)
  BY <1>1, <1>2 DEF Extends
<1>3. /\ \A t \in Topics, p \in Partitions : \A i \in 1 .. Len(log[<<t, p>>]) :
           IsMarker(log[<<t, p>>][i]) => Fr(log[<<t, p>>][i].run)
      /\ \A r \in Runs : dag[r] = "marking" => Fr(r)
      /\ \A c \in Consumers : \A x \in sending[c] : Fr(x[1])
      /\ \A c \in Consumers : txn[c] # NoTxn => Fr(txn[c].run)
      /\ \A c \in Consumers : \A r \in awaiting[c] : Fr(r)
  BY DEF IInv, MarkersAreFrozen
<1>4. ASSUME NEW c \in Consumers
      PROVE  /\ \A x \in sending[c] : x[1] \in Runs
             /\ txn[c] # NoTxn => txn[c].run \in Runs
             /\ awaiting[c] \subseteq Runs
  BY <1>1 DEF TypeOK, MarkersTypeOK, Txn
<1> HIDE DEF Fr, Fr1
<1>5. ASSUME NEW t \in Topics, NEW p \in Partitions, NEW i \in 1 .. Len(log'[<<t, p>>]),
             log'[<<t, p>>][i].body = Boundary
      PROVE  Fr1(log'[<<t, p>>][i].run)
  <2>1. CASE i \in 1 .. Len(log[<<t, p>>])
    <3>1. log'[<<t, p>>][i] = log[<<t, p>>][i] /\ log[<<t, p>>][i].run \in Runs
      BY <1>1, <2>1, OldEvent
    <3> QED
      BY <1>2, <1>3, <1>5, <2>1, <3>1 DEF IsMarker
  <2>2. CASE i \notin 1 .. Len(log[<<t, p>>])
    <3>1. /\ t = "raw" => dag[log'[<<t, p>>][i].run] = "marking"
          /\ t = "clean" => \E c \in Consumers : \E x \in sending[c] : x[1] = log'[<<t, p>>][i].run
          /\ log'[<<t, p>>][i].run \in Runs
      BY <1>5, <2>2, NewMarker
    <3> QED
      BY <1>2, <1>3, <3>1 DEF Topics
  <2> QED
    BY <2>1, <2>2
<1>6. ASSUME NEW r \in Runs, dag'[r] = "marking" PROVE Fr1(r)
  <2>1. CASE dag[r] = "marking"
    BY <1>2, <1>3, <2>1
  <2>2. CASE BeginBoundary(r)
    BY <2>2 DEF BeginBoundary, FreezeTopology, Fr1
  <2> QED
    BY <1>1, <1>6, <2>1, <2>2 DEF Framed
<1>7. ASSUME NEW c \in Consumers
      PROVE  /\ \A x \in sending'[c] : Fr1(x[1])
             /\ txn'[c] # NoTxn => Fr1(txn'[c].run)
             /\ \A r \in awaiting'[c] : Fr1(r)
  <2>0. /\ \A x \in sending[c] : Fr1(x[1])
        /\ txn[c] # NoTxn => Fr1(txn[c].run)
        /\ \A r \in awaiting[c] : Fr1(r)
    BY <1>2, <1>3, <1>4
  <2>1. CASE SameLocal(c)
    BY <2>0, <2>1 DEF SameLocal
  <2>2. CASE BeginSweep(c)
    <3>1. \A r \in RunsAwaiting(Topic(c)) : Fr1(r)
      BY <1>2, PipelineAssumption DEF IInv, FrozenMeansOver, RunsAwaiting, Topic, Fr
    <3> QED
      BY <1>1, <2>0, <2>2, <3>1 DEF BeginSweep, TypeOK, markerVars
  <2>3. ASSUME NEW r \in Runs, SweepRun(c, r) PROVE <1>7!2
    BY <1>1, <2>0, <2>3 DEF SweepRun, CountMarkers, TypeOK, MarkersTypeOK
  <2>4. ASSUME CommitTxn(c), sending'[c] = Owed(txn[c]), UNCHANGED awaiting PROVE <1>7!2
    <3>1. txn'[c] = NoTxn
      BY <1>1, <2>4 DEF CommitTxn, TypeOK, MarkersTypeOK
    <3>2. \A x \in sending'[c] : x[1] = txn[c].run /\ txn[c] # NoTxn
      BY <2>4 DEF Owed, CommitTxn
    <3> QED
      BY <2>0, <2>4, <3>1, <3>2
  <2>5. CASE EndSweepRun(c)
    <3>1. CommitTxn(c) /\ sending'[c] = Owed(txn[c]) /\ UNCHANGED awaiting
      BY <1>1, <2>5 DEF EndSweepRun, TypeOK
    <3> QED
      BY <2>4, <3>1
  <2>6. CASE EndMarker(c)
    <3>1. CommitTxn(c) /\ sending'[c] = Owed(txn[c]) /\ UNCHANGED awaiting
      BY <1>1, <2>6 DEF EndMarker, TypeOK
    <3> QED
      BY <2>4, <3>1
  <2>7. CASE ObserveMarker(c)
    <3>1. /\ Topic(c) \in Topics /\ at[c][1] \in Partitions
          /\ at[c][2] \in 1 .. Len(log[Here(c)]) /\ Here(c) = <<Topic(c), at[c][1]>>
          /\ Current(c).run \in Runs
      BY <1>1, <2>7, CurrentType DEF ObserveMarker, IInv
    <3>2. IsMarker(Current(c))
      BY <2>7 DEF ObserveMarker
    <3>3. Fr(Current(c).run)
      BY <1>3, <3>1, <3>2 DEF Current
    <3>4. Fr1(Current(c).run)
      BY <1>2, <3>1, <3>3
    <3>5. txn'[c].run = Current(c).run
      BY <1>1, <2>7 DEF ObserveMarker, RecordMarker, TypeOK, MarkersTypeOK
    <3> QED
      BY <2>0, <2>7, <3>4, <3>5 DEF ObserveMarker
  <2>8. ASSUME NEW x \in Runs \X Partitions, SendCleanMarker(c, x) PROVE <1>7!2
    BY <1>1, <2>0, <2>8 DEF SendCleanMarker, TypeOK, markerVars
  <2>9. CASE Restarted(c)
    BY <1>1, <2>9 DEF Restarted, RollbackTxn, TypeOK, MarkersTypeOK, markerVars
  <2>10. ASSUME UNCHANGED <<txn, sending, awaiting>> PROVE <1>7!2
    BY <2>0, <2>10
  <2> QED
    BY <1>1, <2>1, <2>2, <2>3, <2>5, <2>6, <2>7, <2>8, <2>9, <2>10, StepLocal
       DEF Work, BeginPolling, Poll, TransformBook, LoadBook, CommitOffset, CommitRefused, Crash,
           markerVars
<1> QED
  BY <1>5, <1>6, <1>7 DEF MarkersAreFrozen, IsMarker, Fr1

\* A run whose marker is on a log, or about to be, publishes nothing new.
LEMMA MarkedIsOver ==
  ASSUME IInv, NEW t \in Topics, NEW p \in Partitions, NEW i \in 1 .. Len(log[<<t, p>>]),
         IsMarker(log[<<t, p>>][i])
  PROVE  Over(log[<<t, p>>][i].run) /\ log[<<t, p>>][i].run \in Runs
<1>1. log[<<t, p>>][i].run \in Runs
  BY LogFacts DEF IInv
<1>2. <<log[<<t, p>>][i].run, t>> \in frozen
  BY DEF IInv, MarkersAreFrozen
<1> QED
  BY <1>1, <1>2 DEF IInv, FrozenMeansOver

\* A raw marker is appended after every record of its run, and no record of
\* the run is appended after it.
LEMMA RawBoundaryStep == ASSUME IInv, [Next]_vars PROVE RawBoundaryLast'
<1>1. TypeOK /\ TypeOK' /\ Extends /\ Framed
  BY StepBasics
<1> SUFFICES ASSUME NEW p \in Partitions, NEW i \in 1 .. Len(log'[<<"raw", p>>]),
                    log'[<<"raw", p>>][i].body = Boundary,
                    NEW x \in published', x[1] = log'[<<"raw", p>>][i].run,
                    RawPartition[x[2]] = p
             PROVE  \E j \in 1 .. i - 1 : log'[<<"raw", p>>][j] = BookEvent(x)
  BY DEF RawBoundaryLast, IsMarker, BookEvent
<1>2. "raw" \in Topics
  BY DEF Topics
<1>3. Len(log[<<"raw", p>>]) \in Nat /\ Len(log'[<<"raw", p>>]) \in Nat
  BY <1>1, <1>2 DEF TypeOK
<1>4. \A j \in 1 .. Len(log[<<"raw", p>>]) : log'[<<"raw", p>>][j] = log[<<"raw", p>>][j]
  BY <1>1, <1>2, OldEvent
<1>5. CASE i \in 1 .. Len(log[<<"raw", p>>])
  <2>1. log'[<<"raw", p>>][i] = log[<<"raw", p>>][i] /\ IsMarker(log[<<"raw", p>>][i])
    BY <1>4, <1>5 DEF IsMarker
  <2>2. x \in published
    BY <1>1, <1>2, <1>5, <2>1, MarkedIsOver DEF Extends
  <2>3. PICK j \in 1 .. i - 1 : log[<<"raw", p>>][j] = BookEvent(x)
    BY <1>5, <2>1, <2>2 DEF IInv, RawBoundaryLast
  <2>4. j \in 1 .. Len(log[<<"raw", p>>])
    BY <1>3, <1>5
  <2> QED
    BY <1>4, <2>3, <2>4
<1>6. CASE i \notin 1 .. Len(log[<<"raw", p>>])
  <2>1. i = Len(log[<<"raw", p>>]) + 1 /\ x \in published
    BY <1>2, <1>6, NewMarker
  <2>2. PICK j \in 1 .. Len(log[<<"raw", p>>]) : log[<<"raw", p>>][j] = BookEvent(x)
    BY <2>1 DEF IInv, PublishedIsLogged
  <2>3. j \in 1 .. i - 1
    BY <1>3, <2>1
  <2> QED
    BY <1>4, <2>2, <2>3
<1> QED
  BY <1>5, <1>6

\* A clean marker is appended once every record of its run has been forwarded
\* or parked; a forwarded copy may come after it, but another precedes it.
LEMMA CleanBoundaryStep == ASSUME IInv, [Next]_vars PROVE BoundaryComesLast'
<1>1. TypeOK /\ TypeOK' /\ Extends /\ Framed
  BY StepBasics
<1> SUFFICES ASSUME NEW q \in Partitions, NEW i \in 1 .. Len(log'[<<"clean", q>>]),
                    log'[<<"clean", q>>][i].body = Boundary,
                    NEW x \in Readable', x[1] = log'[<<"clean", q>>][i].run,
                    CleanPartition[x[2]] = q
             PROVE  ParkedByTransform(x)' \/ \E j \in 1 .. i - 1 : log'[<<"clean", q>>][j] = BookEvent(x)
  BY DEF BoundaryComesLast, IsMarker, BookEvent
<1>2. "clean" \in Topics
  BY DEF Topics
<1>3. Len(log[<<"clean", q>>]) \in Nat /\ Len(log'[<<"clean", q>>]) \in Nat
  BY <1>1, <1>2 DEF TypeOK
<1>4. \A j \in 1 .. Len(log[<<"clean", q>>]) : log'[<<"clean", q>>][j] = log[<<"clean", q>>][j]
  BY <1>1, <1>2, OldEvent
<1>5. CASE i \in 1 .. Len(log[<<"clean", q>>])
  <2>1. log'[<<"clean", q>>][i] = log[<<"clean", q>>][i] /\ IsMarker(log[<<"clean", q>>][i])
    BY <1>4, <1>5 DEF IsMarker
  <2>2. Over(x[1])
    BY <1>2, <1>5, <2>1, MarkedIsOver
  <2>3. x \in Readable
    BY <1>1, <2>2 DEF Extends, Readable
  <2>4. CASE ParkedByTransform(x)
    BY <1>1, <2>4 DEF Extends, ParkedByTransform
  <2>5. ASSUME NEW j \in 1 .. i - 1, log[<<"clean", q>>][j] = BookEvent(x)
        PROVE  \E k \in 1 .. i - 1 : log'[<<"clean", q>>][k] = BookEvent(x)
    <3>1. j \in 1 .. Len(log[<<"clean", q>>])
      BY <1>3, <1>5
    <3> QED
      BY <1>4, <2>5, <3>1
  <2> QED
    BY <1>5, <2>1, <2>3, <2>4, <2>5 DEF IInv, BoundaryComesLast
<1>6. CASE i \notin 1 .. Len(log[<<"clean", q>>])
  <2>1. /\ i = Len(log[<<"clean", q>>]) + 1 /\ UNCHANGED published
        /\ \E c \in Consumers : \E y \in sending[c] : y[1] = x[1]
    BY <1>2, <1>6, NewMarker
  <2>2. x \in Readable /\ RawDone(x[1])
    BY <2>1 DEF IInv, SendingDone, Readable
  <2>3. Forwarded(x)
    BY <2>2 DEF RawDone
  <2>4. CASE ParkedByTransform(x)
    BY <1>1, <2>4 DEF Extends, ParkedByTransform
  <2>5. ASSUME NEW j \in 1 .. Len(log[<<"clean", q>>]), log[<<"clean", q>>][j] = BookEvent(x)
        PROVE  \E k \in 1 .. i - 1 : log'[<<"clean", q>>][k] = BookEvent(x)
    <3>1. j \in 1 .. i - 1
      BY <1>3, <2>1
    <3> QED
      BY <1>4, <2>5, <3>1
  <2> QED
    BY <2>3, <2>4, <2>5 DEF Forwarded, ParkedByTransform
<1> QED
  BY <1>5, <1>6

\* An offset is committed over events of the log.
LEMMA CommittedLoggedStep == ASSUME IInv, [Next]_vars PROVE CommittedIsLogged'
<1>1. TypeOK /\ TypeOK' /\ Extends /\ Framed
  BY StepBasics
<1> SUFFICES ASSUME NEW t \in Topics, NEW p \in Partitions
             PROVE  committed'[<<t, p>>] <= Len(log'[<<t, p>>])
  BY DEF CommittedIsLogged
<1>2. /\ Len(log[<<t, p>>]) \in Nat /\ Len(log'[<<t, p>>]) \in Nat /\ committed[<<t, p>>] \in Nat
      /\ committed'[<<t, p>>] \in Nat
  BY <1>1 DEF TypeOK
<1>3. committed[<<t, p>>] <= Len(log[<<t, p>>]) /\ Len(log[<<t, p>>]) <= Len(log'[<<t, p>>])
  BY <1>1 DEF IInv, CommittedIsLogged, Extends
<1>4. ASSUME NEW c \in Consumers, CommitOffset(c)
      PROVE  committed'[<<t, p>>] <= Len(log[<<t, p>>])
  <2>1. Here(c) \in Topics \X Partitions /\ at[c][2] \in 1 .. Len(log[Here(c)])
    BY <1>1, <1>4, CurrentType DEF CommitOffset, IInv
  <2>2. CASE Here(c) = <<t, p>>
    <3>1. committed'[<<t, p>>] = at[c][2]
      BY <1>1, <1>4, <2>1, <2>2 DEF CommitOffset, TypeOK
    <3> QED
      BY <1>2, <2>1, <2>2, <3>1
  <2>3. CASE Here(c) # <<t, p>>
    BY <1>1, <1>3, <1>4, <2>1, <2>3 DEF CommitOffset, TypeOK
  <2> QED
    BY <2>2, <2>3
<1>5. CASE UNCHANGED committed
  BY <1>2, <1>3, <1>5
<1> QED
  BY <1>1, <1>2, <1>3, <1>4, <1>5 DEF Framed

\* A consumer that handles an event polled it, or was at it already.
LEMMA HandlingStep ==
  ASSUME IInv, [Next]_vars, NEW c \in Consumers,
         stage'[c] \in {"handling", "closing", "settled"}
  PROVE  \/ stage[c] \in {"handling", "closing", "settled"} /\ at'[c] = at[c]
         \/ \E p \in Partitions : \E k \in 1 .. Len(log[<<Topic(c), p>>]) : Poll(c, p, k)
<1>1. TypeOK
  BY StepBasics
<1> USE <1>1 DEF TypeOK
<1>2. CASE SameLocal(c)
  BY <1>2 DEF SameLocal
<1>3. CASE BeginSweep(c) \/ EndSweepRun(c) \/ BeginPolling(c)
  BY <1>3 DEF BeginSweep, EndSweepRun, BeginPolling
<1>4. ASSUME NEW r \in Runs, SweepRun(c, r) PROVE FALSE
  BY <1>4 DEF SweepRun
<1>5. CASE TransformBook(c) \/ LoadBook(c) \/ ObserveMarker(c) \/ EndMarker(c)
  BY <1>5 DEF TransformBook, LoadBook, ObserveMarker, EndMarker
<1>6. ASSUME NEW x \in Runs \X Partitions, SendCleanMarker(c, x)
      PROVE  stage'[c] = stage[c] /\ at'[c] = at[c]
  BY <1>6 DEF SendCleanMarker
<1>7. CASE CommitOffset(c)
  BY <1>7 DEF CommitOffset
<1>8. CASE CommitRefused(c) \/ Crash(c)
  BY <1>8 DEF CommitRefused, Crash, Restarted
<1> QED
  BY <1>2, <1>3, <1>4, <1>5, <1>6, <1>7, <1>8, StepLocal DEF Work

\* What was durable of an event on a partition stays so.
LEMMA DurableKept ==
  ASSUME TypeOK, TypeOK', Extends, NEW t \in Topics, NEW p \in Partitions,
         NEW i \in 1 .. Len(log[<<t, p>>]), Durable(t, p, log[<<t, p>>][i])
  PROVE  Durable(t, p, log[<<t, p>>][i])'
<1>1. log'[<<t, p>>][i] = log[<<t, p>>][i] /\ log[<<t, p>>][i] \in Event
  BY OldEvent
<1>2. \A f \in Event : Durable(t, p, f) => Durable(t, p, f)'
  BY Achieved
<1>3. PICK f \in Event : f = log[<<t, p>>][i]
  BY <1>1
<1>4. Durable(t, p, f)'
  BY <1>2, <1>3
<1>5. f = log'[<<t, p>>][i]
  BY <1>1, <1>3
<1> QED
  BY <1>4, <1>5 DEF Durable, Forwarded, ParkedByTransform, Settled, IsMarker, BookEvent

\* A consumer that stays at its event keeps what precedes it durable.
LEMMA AtKept ==
  ASSUME TypeOK, TypeOK', Extends, PositionDurable, NEW c \in Consumers,
         stage[c] \in {"handling", "closing", "settled"}, at'[c] = at[c]
  PROVE  AtDurable(c)'
<1>1. /\ Topic(c) \in Topics /\ at[c] \in Partitions \X Nat /\ at[c][1] \in Partitions
      /\ at[c][2] \in 1 .. Len(log[Here(c)]) /\ Here(c) = <<Topic(c), at[c][1]>>
  BY CurrentType
<1>2. /\ Here(c)' = Here(c)
      /\ at[c][2] \in 1 .. Len(log'[Here(c)])
      /\ Current(c)' = Current(c)
      /\ \A j \in 1 .. at[c][2] : log'[Here(c)][j] = log[Here(c)][j]
  BY CurrentKept
<1>3. /\ Decodable(Current(c))
      /\ \A j \in 1 .. at[c][2] - 1 :
           Decodable(log[Here(c)][j]) => Durable(Topic(c), at[c][1], log[Here(c)][j])
  BY DEF PositionDurable, AtDurable
<1>4. PICK t \in Topics, p \in Partitions : t = Topic(c) /\ p = at[c][1]
  BY <1>1
<1>5. ASSUME NEW j \in 1 .. at[c][2] - 1, Decodable(log'[<<t, p>>][j])
      PROVE  Durable(t, p, log[<<t, p>>][j])'
  <2>1. at[c][2] \in Nat /\ Len(log[<<t, p>>]) \in Nat
    BY <1>1, LogFacts
  <2>2. j \in 1 .. at[c][2] /\ j \in 1 .. Len(log[<<t, p>>])
    BY <1>1, <1>4, <2>1
  <2>3. Durable(t, p, log[<<t, p>>][j])
    BY <1>1, <1>2, <1>3, <1>4, <1>5, <2>2
  <2> QED
    BY <2>2, <2>3, DurableKept
<1>6. /\ at'[c] \in Partitions \X Nat
      /\ at'[c][2] \in 1 .. Len(log'[Here(c)'])
      /\ Decodable(Current(c)')
  BY <1>1, <1>2, <1>3
<1>7. Topic(c)' = t /\ at'[c][1] = p /\ Here(c)' = <<t, p>>
  BY <1>1, <1>2, <1>4 DEF Topic
<1>8. ASSUME NEW j \in 1 .. at'[c][2] - 1, Decodable(log'[Here(c)'][j])
      PROVE  Durable(Topic(c), at[c][1], log[Here(c)][j])'
  <2>1. Durable(t, p, log[<<t, p>>][j])'
    BY <1>5, <1>7, <1>8
  <2> QED
    BY <1>7, <2>1 DEF Durable, Forwarded, ParkedByTransform, Settled, IsMarker, BookEvent
<1> QED
  BY <1>6, <1>8 DEF AtDurable, Decodable

\* What precedes a consumer's event is durable: it was committed, or could not
\* be decoded, when the event was polled.
LEMMA PositionStep == ASSUME IInv, [Next]_vars PROVE PositionDurable'
<1>1. TypeOK /\ TypeOK' /\ Extends /\ Framed
  BY StepBasics
<1>2. ASSUME NEW c \in Consumers, stage[c] \in {"handling", "closing", "settled"}, at'[c] = at[c]
      PROVE  AtDurable(c)'
  BY <1>1, <1>2, AtKept DEF IInv
<1>3. ASSUME NEW c \in Consumers, NEW p \in Partitions,
             NEW k \in 1 .. Len(log[<<Topic(c), p>>]), Poll(c, p, k)
      PROVE  AtDurable(c)'
  <2>1. PICK t \in Topics : t = Topic(c)
    BY PipelineAssumption DEF Topic
  <2>2. k \in Nat /\ committed[<<t, p>>] \in Nat /\ Len(log[<<t, p>>]) \in Nat
    BY <1>1, <2>1, LogFacts DEF TypeOK
  <2>3. /\ at'[c] = <<p, k>> /\ UNCHANGED <<log, marker, catalogue, dlq>>
    BY <1>1, <1>3 DEF Poll, TypeOK, markerVars, storeVars
  <2>4. Here(c)' = <<t, p>> /\ Topic(c)' = t /\ Current(c)' = log[<<t, p>>][k]
    BY <2>1, <2>3 DEF Here, Topic, Current
  <2>5. /\ k \in 1 .. Len(log[<<t, p>>])
        /\ Decodable(log[<<t, p>>][k])
        /\ \A j \in committed[<<t, p>>] + 1 .. k - 1 : ~Decodable(log[<<t, p>>][j])
    BY <1>3, <2>1 DEF Poll, IsNext
  <2>6. ASSUME NEW j \in 1 .. k - 1, Decodable(log[<<t, p>>][j])
        PROVE  Durable(t, p, log[<<t, p>>][j])
    <3>1. j \in 1 .. committed[<<t, p>>]
      BY <2>2, <2>5, <2>6
    <3> QED
      BY <2>6, <3>1 DEF IInv, CommittedIsDurable
  <2>7. ASSUME NEW j \in 1 .. at'[c][2] - 1, Decodable(log'[Here(c)'][j])
        PROVE  Durable(Topic(c), at[c][1], log[Here(c)][j])'
    <3>1. Durable(t, p, log[<<t, p>>][j])
      BY <2>3, <2>4, <2>6, <2>7
    <3> QED
      BY <2>3, <2>4, <3>1 DEF Durable, Forwarded, ParkedByTransform, Settled, IsMarker, BookEvent
  <2> QED
    BY <2>2, <2>3, <2>4, <2>5, <2>7 DEF AtDurable, Decodable
<1> QED
  BY <1>2, <1>3, HandlingStep DEF PositionDurable

\* A consumer that has handled its event left a durable effect: it forwarded,
\* parked or loaded the record, or committed the marker row.
LEMMA SettledStep == ASSUME IInv, [Next]_vars PROVE SettledDurable'
<1>1. TypeOK /\ TypeOK' /\ Extends /\ Framed
  BY StepBasics
<1> SUFFICES ASSUME NEW c \in Consumers, stage'[c] = "settled"
             PROVE  Durable(Topic(c), at[c][1], Current(c))'
  BY DEF SettledDurable
<1>2. stage[c] \in {"handling", "closing", "settled"} /\ at'[c] = at[c]
  <2>1. ASSUME NEW p \in Partitions, NEW k \in 1 .. Len(log[<<Topic(c), p>>]), Poll(c, p, k)
        PROVE  FALSE
    BY <1>1, <2>1 DEF Poll, TypeOK
  <2> QED
    BY <2>1, HandlingStep
<1>3. /\ Topic(c) \in Topics /\ at[c][1] \in Partitions
      /\ at[c][2] \in 1 .. Len(log[Here(c)]) /\ Here(c) = <<Topic(c), at[c][1]>>
      /\ Current(c) \in Event /\ Current(c).run \in Runs
      /\ Current(c).body \in Records \cup {Boundary}
      /\ Current(c) = [run |-> Current(c).run, body |-> Current(c).body]
  BY <1>1, <1>2, CurrentType DEF IInv
<1>4. PICK t \in Topics, p \in Partitions, e \in Event :
        t = Topic(c) /\ p = at[c][1] /\ e = Current(c)
  BY <1>3
<1>5. Topic(c)' = t /\ at'[c][1] = p /\ Current(c)' = e
  BY <1>1, <1>2, <1>4, CurrentKept DEF Topic, IInv
<1>6. SUFFICES Durable(t, p, e)'
  BY <1>5 DEF Durable, Forwarded, ParkedByTransform, Settled, IsMarker, BookEvent
<1>7. e.run \in Runs /\ e = [run |-> e.run, body |-> e.body]
  BY <1>3, <1>4
<1>8. CASE stage[c] = "settled"
  <2>1. Durable(t, p, e)
    BY <1>4, <1>8 DEF IInv, SettledDurable
  <2> QED
    BY <1>1, <2>1, Achieved
<1>9. CASE TransformBook(c)
  <2>1. t = "raw" /\ ~IsMarker(e) /\ e.body \in Records
    BY <1>3, <1>4, <1>9 DEF TransformBook, IsMarker
  <2>2. Forwarded(<<e.run, e.body>>)'
    <3> DEFINE x == <<e.run, e.body>>
               q == CleanPartition[e.body]
    <3>1. CASE e.body \in TransformRejects
      BY <1>4, <1>9, <3>1 DEF TransformBook, Forwarded, ParkedByTransform
    <3>2. CASE e.body \notin TransformRejects
      <4>1. q \in Partitions /\ "clean" \in Topics
        BY <2>1, PipelineAssumption DEF Topics
      <4>2. Produce("clean", q, e.run, e.body)
        BY <1>4, <1>9, <3>2 DEF TransformBook
      <4> HIDE DEF q
      <4>3. /\ Len(log'[<<"clean", q>>]) = Len(log[<<"clean", q>>]) + 1
            /\ log'[<<"clean", q>>][Len(log[<<"clean", q>>]) + 1] = [run |-> e.run, body |-> e.body]
        BY <1>1, <1>7, <2>1, <4>1, <4>2, ProduceStep
      <4>4. Len(log[<<"clean", q>>]) + 1 \in 1 .. Len(log'[<<"clean", q>>])
        BY <1>1, <4>1, <4>3, LogFacts
      <4> QED
        BY <4>3, <4>4 DEF Forwarded, ParkedByTransform, BookEvent, q
    <3> QED
      BY <3>1, <3>2
  <2> QED
    BY <2>1, <2>2 DEF Durable, IsMarker
<1>10. CASE LoadBook(c)
  <2>1. t = "clean" /\ ~IsMarker(e)
    BY <1>4, <1>10 DEF LoadBook
  <2>2. <<e.run, e.body>> \in dlq' \cup catalogue'
    BY <1>4, <1>10 DEF LoadBook
  <2> QED
    BY <2>1, <2>2 DEF Durable, IsMarker, Settled
<1>11. CASE EndMarker(c)
  <2>1. /\ txn[c] # NoTxn /\ IsMarker(e) /\ txn[c].run = e.run /\ txn[c].row = {p}
        /\ txn[c].topic = t
    BY <1>4, <1>11 DEF IInv, TxnMatches, EndMarker
  <2>2. <<e.run, t, p>> \in marker'
    BY <1>11, <2>1 DEF EndMarker, CommitTxn
  <2> QED
    BY <2>1, <2>2 DEF Durable, IsMarker
<1>12. CASE SameLocal(c)
  <2>1. stage[c] = "settled"
    BY <1>12 DEF SameLocal
  <2> QED
    BY <1>8, <2>1
<1>13. ASSUME stage[c] # "settled"
       PROVE  SameLocal(c) \/ TransformBook(c) \/ LoadBook(c) \/ EndMarker(c)
  BY <1>1, <1>13, StepLocal
     DEF Work, BeginSweep, EndSweepRun, BeginPolling, SweepRun, Poll, ObserveMarker,
         SendCleanMarker, CommitOffset, CommitRefused, Crash, Restarted, TypeOK
<1> QED
  BY <1>8, <1>9, <1>10, <1>11, <1>12, <1>13

\* An offset passes over durable effects only.
LEMMA CommittedStep == ASSUME IInv, [Next]_vars PROVE CommittedIsDurable'
<1>1. TypeOK /\ TypeOK' /\ Extends /\ Framed
  BY StepBasics
<1> SUFFICES ASSUME NEW t \in Topics, NEW p \in Partitions, NEW i \in 1 .. committed'[<<t, p>>],
                    Decodable(log'[<<t, p>>][i])
             PROVE  Durable(t, p, log[<<t, p>>][i])'
  BY DEF CommittedIsDurable, Decodable
<1>2. /\ committed[<<t, p>>] \in Nat /\ committed'[<<t, p>>] \in Nat
      /\ Len(log[<<t, p>>]) \in Nat /\ committed[<<t, p>>] <= Len(log[<<t, p>>])
  BY <1>1, LogFacts DEF TypeOK, IInv, CommittedIsLogged
<1>3. ASSUME i \in 1 .. Len(log[<<t, p>>]),
             Decodable(log[<<t, p>>][i]) => Durable(t, p, log[<<t, p>>][i])
      PROVE  Durable(t, p, log[<<t, p>>][i])'
  <2>1. Durable(t, p, log[<<t, p>>][i])
    BY <1>1, <1>3, OldEvent
  <2> QED
    BY <1>1, <1>3, <2>1, DurableKept
<1>4. ASSUME i \in 1 .. committed[<<t, p>>]
      PROVE  Durable(t, p, log[<<t, p>>][i])'
  <2>1. i \in 1 .. Len(log[<<t, p>>])
    BY <1>2, <1>4
  <2> QED
    BY <1>3, <1>4, <2>1 DEF IInv, CommittedIsDurable
<1>5. ASSUME NEW c \in Consumers, CommitOffset(c)
      PROVE  Durable(t, p, log[<<t, p>>][i])'
  <2>1. /\ Here(c) \in Topics \X Partitions /\ Here(c) = <<Topic(c), at[c][1]>>
        /\ at[c][2] \in 1 .. Len(log[Here(c)])
    BY <1>1, <1>5, CurrentType DEF CommitOffset, IInv
  <2>2. CASE Here(c) = <<t, p>>
    <3>1. committed'[<<t, p>>] = at[c][2] /\ t = Topic(c) /\ p = at[c][1]
      BY <1>1, <1>5, <2>1, <2>2 DEF CommitOffset, TypeOK
    <3>2. i \in 1 .. Len(log[<<t, p>>])
      BY <1>2, <2>1, <2>2, <3>1
    <3>3. CASE i = at[c][2]
      <4>1. Durable(t, p, log[<<t, p>>][i])
        BY <1>5, <2>2, <3>1, <3>3 DEF IInv, SettledDurable, CommitOffset, Current
      <4> QED
        BY <1>3, <3>2, <4>1
    <3>4. CASE i # at[c][2]
      <4>1. i \in 1 .. at[c][2] - 1
        BY <1>2, <2>1, <3>1, <3>4
      <4>2. Decodable(log[<<t, p>>][i]) => Durable(t, p, log[<<t, p>>][i])
        BY <1>5, <2>2, <3>1, <4>1 DEF IInv, PositionDurable, AtDurable, CommitOffset
      <4> QED
        BY <1>3, <3>2, <4>2
    <3> QED
      BY <3>3, <3>4
  <2>3. CASE Here(c) # <<t, p>>
    <3>1. committed'[<<t, p>>] = committed[<<t, p>>]
      BY <1>1, <1>5, <2>1, <2>3 DEF CommitOffset, TypeOK
    <3> QED
      BY <1>4, <3>1
  <2> QED
    BY <2>2, <2>3
<1> QED
  BY <1>1, <1>4, <1>5 DEF Framed

\* An open transaction is the one of the marker at hand, or of a sweep.
LEMMA TxnStep == ASSUME IInv, [Next]_vars PROVE TxnMatches'
<1>1. TypeOK /\ TypeOK' /\ Extends /\ Framed
  BY StepBasics
<1> SUFFICES ASSUME NEW c \in Consumers
             PROVE  /\ stage'[c] = "closing" =>
                         /\ txn'[c] # NoTxn
                         /\ Current(c)'.body = Boundary
                         /\ txn'[c].run = Current(c)'.run
                         /\ txn'[c].row = {at'[c][1]}
                    /\ txn'[c] # NoTxn =>
                         /\ stage'[c] \in {"closing", "sweeping"}
                         /\ txn'[c].topic = Topic(c)
                         /\ stage'[c] = "sweeping" => txn'[c].row = {}
  BY DEF TxnMatches, Topic, IsMarker
<1>2. /\ stage[c] = "closing" =>
           /\ txn[c] # NoTxn
           /\ Current(c).body = Boundary
           /\ txn[c].run = Current(c).run
           /\ txn[c].row = {at[c][1]}
      /\ txn[c] # NoTxn =>
           /\ stage[c] \in {"closing", "sweeping"}
           /\ txn[c].topic = Topic(c)
           /\ stage[c] = "sweeping" => txn[c].row = {}
  BY DEF IInv, TxnMatches, IsMarker
<1>3. stage[c] \in {"handling", "closing", "settled"} /\ at'[c] = at[c] => Current(c)' = Current(c)
  BY <1>1, CurrentKept DEF IInv
<1>4. CASE stage'[c] = stage[c] /\ at'[c] = at[c] /\ txn'[c] = txn[c]
  BY <1>2, <1>3, <1>4
<1>5. CASE stage'[c] \notin {"closing", "sweeping"} /\ txn'[c] = NoTxn
  BY <1>5
<1>6. CASE BeginSweep(c) \/ BeginPolling(c)
  BY <1>1, <1>2, <1>6 DEF BeginSweep, BeginPolling, TypeOK, markerVars
<1>7. ASSUME NEW r \in Runs, SweepRun(c, r)
      PROVE  stage'[c] = "sweeping" /\ txn'[c].topic = Topic(c) /\ txn'[c].row = {}
  BY <1>1, <1>7 DEF SweepRun, CountMarkers, TypeOK, MarkersTypeOK
<1>8. CASE EndSweepRun(c)
  BY <1>1, <1>8 DEF EndSweepRun, CommitTxn, TypeOK, MarkersTypeOK
<1>9. CASE ObserveMarker(c)
  <2>1. /\ Topic(c) \in Topics /\ at[c][1] \in Partitions
        /\ at[c][2] \in 1 .. Len(log[Here(c)]) /\ Here(c) = <<Topic(c), at[c][1]>>
    BY <1>1, <1>9, CurrentType DEF ObserveMarker, IInv
  <2>2. <<Current(c).run, Topic(c)>> \in frozen
    BY <1>9, <2>1 DEF ObserveMarker, IInv, MarkersAreFrozen, Current
  <2>3. /\ txn'[c] # NoTxn /\ txn'[c].run = Current(c).run /\ txn'[c].topic = Topic(c)
        /\ txn'[c].row = {at[c][1]}
    <3>1. txn'[c] \in Txn \cup {NoTxn}
      BY <1>1 DEF TypeOK, MarkersTypeOK
    <3>2. txn'[c] = [run |-> Current(c).run, topic |-> Topic(c), row |-> {at[c][1]},
                     full |-> IsTopicComplete(Current(c).run, Topic(c), {at[c][1]})]
      BY <1>1, <1>9, <2>2 DEF ObserveMarker, RecordMarker, TypeOK, MarkersTypeOK
    <3>3. txn'[c] \in Txn
      <4>1. Current(c).run \in Runs
        BY <1>1, <1>9, CurrentType DEF ObserveMarker, IInv
      <4>2. IsTopicComplete(Current(c).run, Topic(c), {at[c][1]}) \in BOOLEAN
        BY DEF IsTopicComplete
      <4> QED
        BY <2>1, <3>2, <4>1, <4>2 DEF Txn
    <3> QED
      BY <3>2, <3>3, NoTxnAssumption
  <2>4. stage'[c] = "closing" /\ at'[c] = at[c] /\ Current(c).body = Boundary
    BY <1>1, <1>9 DEF ObserveMarker, TypeOK, IsMarker
  <2>5. Current(c)' = Current(c)
    BY <1>3, <1>9, <2>4 DEF ObserveMarker
  <2> QED
    BY <2>3, <2>4, <2>5
<1>10. CASE EndMarker(c)
  BY <1>1, <1>10 DEF EndMarker, CommitTxn, TypeOK, MarkersTypeOK
<1>11. CASE \/ TransformBook(c) \/ LoadBook(c) \/ CommitOffset(c)
            \/ \E p \in Partitions : \E k \in 1 .. Len(log[<<Topic(c), p>>]) : Poll(c, p, k)
  BY <1>1, <1>2, <1>11 DEF TransformBook, LoadBook, CommitOffset, Poll, TypeOK, markerVars
<1>12. ASSUME NEW x \in Runs \X Partitions, SendCleanMarker(c, x)
       PROVE  stage'[c] = stage[c] /\ at'[c] = at[c] /\ txn'[c] = txn[c]
  BY <1>12 DEF SendCleanMarker, markerVars
<1>13. CASE Restarted(c)
  BY <1>1, <1>13 DEF Restarted, RollbackTxn, TypeOK, MarkersTypeOK, markerVars
<1> QED
  BY <1>1, <1>4, <1>5, <1>6, <1>7, <1>8, <1>9, <1>10, <1>11, <1>12, <1>13, StepLocal
     DEF Work, SameLocal, CommitRefused, Crash

\* A consumer at a marker has come past every record of the run that belongs
\* to the partition, and left its effect behind: this is where the offset
\* discipline and the place of the marker meet.
LEMMA MarkerPassed ==
  ASSUME IInv, NEW c \in Consumers, stage[c] \in {"handling", "closing", "settled"},
         IsMarker(Current(c))
  PROVE  /\ Topic(c) = "raw" => RawPartitionDone(Current(c).run, at[c][1])
         /\ Topic(c) = "clean" => CleanPartitionDone(Current(c).run, at[c][1])
<1>1. TypeOK
  BY DEF IInv
<1>2. /\ Topic(c) \in Topics /\ at[c][1] \in Partitions
      /\ at[c][2] \in 1 .. Len(log[Here(c)]) /\ Here(c) = <<Topic(c), at[c][1]>>
      /\ at[c] \in Partitions \X Nat
  BY <1>1, CurrentType DEF IInv
<1>3. Over(Current(c).run)
  BY <1>2, MarkedIsOver DEF Current
<1>4. AtDurable(c)
  BY DEF IInv, PositionDurable
<1>5. ASSUME NEW x \in Readable, NEW j \in 1 .. at[c][2] - 1, log[Here(c)][j] = BookEvent(x)
      PROVE  IF Topic(c) = "clean" THEN x \in Settled ELSE Forwarded(x)
  <2>1. x \in published /\ x[2] \notin Undecodable
    BY DEF Readable
  <2>2. /\ x = <<x[1], x[2]>> /\ ~IsMarker(BookEvent(x))
        /\ BookEvent(x).run = x[1] /\ BookEvent(x).body = x[2]
    BY <1>1, <2>1, ReadableFacts
  <2>3. Durable(Topic(c), at[c][1], BookEvent(x))
    BY <1>4, <1>5, <2>1, <2>2 DEF AtDurable, Decodable
  <2> QED
    BY <2>2, <2>3 DEF Durable
<1>6. ASSUME Topic(c) = "raw", NEW x \in Readable, x[1] = Current(c).run,
             RawPartition[x[2]] = at[c][1]
      PROVE  Forwarded(x)
  <2> DEFINE p == at[c][1]
             i == at[c][2]
  <2>0. /\ p \in Partitions /\ i \in 1 .. Len(log[<<"raw", p>>]) /\ Here(c) = <<"raw", p>>
        /\ log[<<"raw", p>>][i] = Current(c) /\ x \in published
    BY <1>2, <1>6 DEF Readable, Current
  <2> HIDE DEF p, i
  <2>1. \E j \in 1 .. i - 1 : log[<<"raw", p>>][j] = BookEvent(x)
    BY <1>6, <2>0 DEF IInv, RawBoundaryLast, p
  <2> QED
    BY <1>5, <1>6, <2>0, <2>1 DEF i
<1>7. ASSUME Topic(c) = "clean", NEW x \in Readable, x[1] = Current(c).run,
             CleanPartition[x[2]] = at[c][1]
      PROVE  x \in Settled
  <2> DEFINE p == at[c][1]
             i == at[c][2]
  <2>0. /\ p \in Partitions /\ i \in 1 .. Len(log[<<"clean", p>>]) /\ Here(c) = <<"clean", p>>
        /\ log[<<"clean", p>>][i] = Current(c)
    BY <1>2, <1>7 DEF Current
  <2> HIDE DEF p, i
  <2>1. ParkedByTransform(x) \/ \E j \in 1 .. i - 1 : log[<<"clean", p>>][j] = BookEvent(x)
    BY <1>7, <2>0 DEF IInv, BoundaryComesLast, p
  <2> QED
    BY <1>5, <1>7, <2>0, <2>1 DEF Settled, ParkedByTransform, i
<1> QED
  BY <1>3, <1>6, <1>7 DEF RawPartitionDone, CleanPartitionDone

\* A marker row is committed by the consumer that came past the partition.
LEMMA RowsStep == ASSUME IInv, [Next]_vars PROVE RowsDone'
<1>1. TypeOK /\ TypeOK' /\ Extends /\ Framed
  BY StepBasics
<1>2. ASSUME NEW r \in Runs, NEW t \in Topics, NEW p \in Partitions,
             <<r, t, p>> \in marker', <<r, t, p>> \notin marker
      PROVE  /\ t = "raw" => RawPartitionDone(r, p)
             /\ t = "clean" => CleanPartitionDone(r, p)
  <2>1. PICK c \in Consumers : EndSweepRun(c) \/ EndMarker(c)
    BY <1>1, <1>2 DEF Framed
  <2>2. /\ txn[c] # NoTxn /\ txn[c].run = r /\ txn[c].topic = t /\ p \in txn[c].row
    BY <1>2, <2>1 DEF EndSweepRun, EndMarker, CommitTxn
  <2>3. /\ stage[c] = "closing" /\ IsMarker(Current(c)) /\ r = Current(c).run
        /\ p = at[c][1] /\ t = Topic(c)
    BY <2>1, <2>2 DEF IInv, TxnMatches, EndSweepRun, EndMarker
  <2> QED
    BY <2>3, MarkerPassed
<1>3. ASSUME NEW r \in Runs, NEW p \in Partitions
      PROVE  /\ RawPartitionDone(r, p) => RawPartitionDone(r, p)'
             /\ CleanPartitionDone(r, p) => CleanPartitionDone(r, p)'
  BY <1>1, Achieved
<1>4. ASSUME NEW r \in Runs, NEW p \in Partitions
      PROVE  /\ <<r, "raw", p>> \in marker' => RawPartitionDone(r, p)
             /\ <<r, "clean", p>> \in marker' => CleanPartitionDone(r, p)
  BY <1>2 DEF IInv, RowsDone, Topics
<1> QED
  BY <1>3, <1>4 DEF RowsDone

\* A transaction that counts every partition's row, its own included, knows
\* the topic done: rows of distinct partitions, as many as there are.
LEMMA CountedIsDone ==
  ASSUME IInv, NEW r \in Runs, NEW t \in Topics, NEW own \in SUBSET Partitions,
         IsTopicComplete(r, t, own),
         \A p \in own : /\ t = "raw" => RawPartitionDone(r, p)
                        /\ t = "clean" => CleanPartitionDone(r, p)
  PROVE  /\ t = "raw" => RawDone(r)
         /\ t = "clean" => RunDone(r)
<1> DEFINE V == Visible(r, t, own)
<1>1. V \in SUBSET Partitions /\ Cardinality(V) >= Cardinality(Partitions)
  BY DEF Visible, IsTopicComplete
<1> HIDE DEF V
<1>2. V = Partitions
  <2>1. IsFiniteSet(V) /\ Cardinality(V) <= Cardinality(Partitions)
        /\ (Cardinality(Partitions) = Cardinality(V) => Partitions = V)
    BY <1>1, FS_Subset, PartitionsAssumption
  <2>2. Cardinality(V) \in Nat /\ Cardinality(Partitions) \in Nat
    BY <2>1, FS_CardinalityType, PartitionsAssumption
  <2> QED
    BY <1>1, <2>1, <2>2
<1>3. ASSUME NEW p \in Partitions
      PROVE  /\ t = "raw" => RawPartitionDone(r, p)
             /\ t = "clean" => CleanPartitionDone(r, p)
  BY <1>2, <1>3 DEF V, Visible, IInv, RowsDone
<1>4. Over(r)
  <2>1. PICK p \in Partitions : TRUE
    BY PartitionsAssumption
  <2> QED
    BY <1>3, <2>1 DEF RawPartitionDone, CleanPartitionDone, Topics
<1>5. ASSUME NEW x \in Readable
      PROVE  RawPartition[x[2]] \in Partitions /\ CleanPartition[x[2]] \in Partitions
  BY ReadableFacts DEF Readable, IInv
<1> QED
  BY <1>3, <1>4, <1>5 DEF RawDone, RunDone, RawPartitionDone, CleanPartitionDone

\* A transaction that found its topic complete knows what it claims.
LEMMA FullStep == ASSUME IInv, [Next]_vars PROVE FullDone'
<1>1. TypeOK /\ TypeOK' /\ Extends /\ Framed
  BY StepBasics
<1> SUFFICES ASSUME NEW c \in Consumers, txn'[c] # NoTxn, txn'[c].full
             PROVE  (IF txn[c].topic = "raw" THEN RawDone(txn[c].run) ELSE RunDone(txn[c].run))'
  BY DEF FullDone
<1>2. PICK x \in Txn : x = txn'[c]
  BY <1>1 DEF TypeOK, MarkersTypeOK
<1>3. x.run \in Runs /\ x.topic \in Topics
  BY DEF Txn
<1>4. SUFFICES IF x.topic = "raw" THEN RawDone(x.run) ELSE RunDone(x.run)
  <2>1. (RawDone(x.run) => RawDone(x.run)') /\ (RunDone(x.run) => RunDone(x.run)')
    BY <1>1, <1>3, Achieved
  <2>2. txn'[c].topic = x.topic /\ txn'[c].run = x.run
    BY <1>2
  <2> HIDE DEF RawDone, RunDone
  <2> QED
    BY <1>4, <2>1, <2>2
<1>5. CASE txn[c] = x
  BY <1>2, <1>5 DEF IInv, FullDone
<1>6. ASSUME NEW r \in Runs, SweepRun(c, r)
      PROVE  IF x.topic = "raw" THEN RawDone(x.run) ELSE RunDone(x.run)
  <2>1. x = [run |-> r, topic |-> Topic(c), row |-> {}, full |-> IsTopicComplete(r, Topic(c), {})]
    BY <1>1, <1>2, <1>6 DEF SweepRun, CountMarkers, TypeOK, MarkersTypeOK
  <2>2. IsTopicComplete(r, Topic(c), {}) /\ Topic(c) \in Topics
    BY <1>2, <1>3, <2>1
  <2>3. /\ Topic(c) = "raw" => RawDone(r)
        /\ Topic(c) = "clean" => RunDone(r)
    BY <2>2, CountedIsDone
  <2> QED
    BY <2>1, <2>2, <2>3 DEF Topics
<1>7. CASE ObserveMarker(c)
  <2> DEFINE r == Current(c).run
             t == Topic(c)
             own == IF <<r, t>> \in frozen THEN {at[c][1]} ELSE {}
  <2>1. r \in Runs /\ t \in Topics /\ at[c][1] \in Partitions
    BY <1>1, <1>7, CurrentType DEF ObserveMarker, IInv
  <2>2. x = [run |-> r, topic |-> t, row |-> own, full |-> IsTopicComplete(r, t, own)]
    BY <1>1, <1>2, <1>7 DEF ObserveMarker, RecordMarker, TypeOK, MarkersTypeOK
  <2>3. own \in SUBSET Partitions
    BY <2>1
  <2>4. /\ t = "raw" => RawPartitionDone(r, at[c][1])
        /\ t = "clean" => CleanPartitionDone(r, at[c][1])
    BY <1>7, MarkerPassed DEF ObserveMarker
  <2>5. \A p \in own : /\ t = "raw" => RawPartitionDone(r, p)
                       /\ t = "clean" => CleanPartitionDone(r, p)
    BY <2>4
  <2>6. IsTopicComplete(r, t, own)
    BY <1>2, <2>2
  <2> HIDE DEF r, t, own
  <2>7. /\ t = "raw" => RawDone(r)
        /\ t = "clean" => RunDone(r)
    BY <2>1, <2>3, <2>5, <2>6, CountedIsDone
  <2> QED
    BY <2>1, <2>2, <2>7 DEF Topics
<1>8. ASSUME txn[c] # x
      PROVE  ObserveMarker(c) \/ \E r \in Runs : SweepRun(c, r)
  <2>1. CASE EndSweepRun(c) \/ EndMarker(c)
    BY <1>1, <1>2, <2>1 DEF EndSweepRun, EndMarker, CommitTxn, TypeOK, MarkersTypeOK
  <2>2. CASE Restarted(c)
    BY <1>1, <1>2, <1>8, <2>2 DEF Restarted, RollbackTxn, TypeOK, MarkersTypeOK, markerVars
  <2> QED
    BY <1>1, <1>2, <1>8, <2>1, <2>2, StepLocal
       DEF Work, SameLocal, BeginSweep, BeginPolling, Poll, TransformBook, LoadBook,
           SendCleanMarker, CommitOffset, CommitRefused, Crash, markerVars
<1> QED
  BY <1>5, <1>6, <1>7, <1>8

\* The clean markers are owed for a run whose raw topic was found complete.
LEMMA SendingStep == ASSUME IInv, [Next]_vars PROVE SendingDone'
<1>1. TypeOK /\ TypeOK' /\ Extends /\ Framed
  BY StepBasics
<1>2. ASSUME NEW c \in Consumers, NEW x \in sending'[c]
      PROVE  x[1] \in Runs /\ RawDone(x[1])
  <2>1. x \in Runs \X Partitions
    BY <1>1 DEF TypeOK
  <2>2. CASE x \in sending[c]
    BY <2>1, <2>2 DEF IInv, SendingDone
  <2>3. CASE x \in Owed(txn[c]) /\ txn[c] # NoTxn
    BY <2>1, <2>3 DEF IInv, FullDone, Owed
  <2>4. CASE EndSweepRun(c) \/ EndMarker(c)
    <3>1. x \in Owed(txn[c]) /\ txn[c] # NoTxn
      BY <1>1, <2>4 DEF EndSweepRun, EndMarker, CommitTxn, TypeOK
    <3> QED
      BY <2>3, <3>1
  <2>5. CASE Restarted(c)
    BY <1>1, <2>5 DEF Restarted, TypeOK
  <2>6. ASSUME NEW y \in Runs \X Partitions, SendCleanMarker(c, y) PROVE x \in sending[c]
    BY <1>1, <2>6 DEF SendCleanMarker, TypeOK
  <2> QED
    BY <1>1, <2>2, <2>4, <2>5, <2>6, StepLocal
       DEF Work, SameLocal, BeginSweep, SweepRun, BeginPolling, Poll, TransformBook, LoadBook,
           ObserveMarker, CommitOffset, CommitRefused, Crash
<1>3. \A r \in Runs : RawDone(r) => RawDone(r)'
  BY <1>1, Achieved
<1>4. ASSUME NEW c \in Consumers, NEW x \in sending'[c] PROVE RawDone(x[1])'
  <2>1. PICK r \in Runs : r = x[1] /\ RawDone(r)
    BY <1>2
  <2> QED
    BY <1>3, <2>1
<1> QED
  BY <1>4 DEF SendingDone

\* A run is closed by a transaction that found the clean topic complete.
LEMMA SuccessStep == ASSUME IInv, [Next]_vars PROVE SuccessDone'
<1>1. TypeOK /\ TypeOK' /\ Extends /\ Framed
  BY StepBasics
<1>2. ASSUME NEW r \in Runs, status'[r] = "success" PROVE RunDone(r)
  <2>1. CASE status[r] = "success"
    BY <2>1 DEF IInv, SuccessDone
  <2>2. ASSUME NEW c \in Consumers, txn[c] # NoTxn, txn[c].topic = "clean", txn[c].full,
               txn[c].run = r
        PROVE  RunDone(r)
    BY <2>2 DEF IInv, FullDone
  <2> QED
    BY <1>1, <1>2, <2>1, <2>2 DEF Framed
<1>3. \A r \in Runs : RunDone(r) => RunDone(r)'
  BY <1>1, Achieved
<1> QED
  BY <1>2, <1>3 DEF SuccessDone

(***************************************************************************)
(* The theorems                                                            *)
(***************************************************************************)

\* Nothing has been published, logged, committed or begun at the start.
LEMMA InitInv == Init => IInv
<1> SUFFICES ASSUME Init PROVE IInv
  OBVIOUS
<1>1. TypeOK
  BY DEF Init, MarkersInit, TypeOK, MarkersTypeOK, Statuses, DagStates, Stages, NoEvent
<1>2. \A t \in Topics, p \in Partitions :
        /\ log[<<t, p>>] = <<>> /\ 1 .. Len(log[<<t, p>>]) = {}
        /\ committed[<<t, p>>] = 0 /\ 1 .. committed[<<t, p>>] = {}
  BY DEF Init
<1>3. \A c \in Consumers : stage[c] = "starting" /\ txn[c] = NoTxn /\ sending[c] = {} /\ awaiting[c] = {}
  BY DEF Init, MarkersInit
<1>4. published = {} /\ frozen = {} /\ marker = {}
  BY DEF Init, MarkersInit
<1>5. \A r \in Runs : status[r] = "none" /\ dag[r] = "idle"
  BY DEF Init, MarkersInit
<1>6. PublishedIsLogged /\ FrozenMeansOver
  BY <1>4 DEF PublishedIsLogged, FrozenMeansOver
<1>7. MarkersAreFrozen
  BY <1>2, <1>3, <1>5 DEF MarkersAreFrozen
<1>8. RawBoundaryLast /\ BoundaryComesLast
  BY <1>2 DEF RawBoundaryLast, BoundaryComesLast, Topics
<1>9. CommittedIsLogged /\ CommittedIsDurable
  BY <1>2 DEF CommittedIsLogged, CommittedIsDurable
<1>10. PositionDurable /\ SettledDurable /\ TxnMatches /\ FullDone /\ SendingDone
  BY <1>3 DEF PositionDurable, SettledDurable, TxnMatches, FullDone, SendingDone
<1>11. RowsDone /\ SuccessDone
  BY <1>4, <1>5 DEF RowsDone, SuccessDone
<1> QED
  BY <1>1, <1>6, <1>7, <1>8, <1>9, <1>10, <1>11 DEF IInv

\* Every step keeps the invariant.
LEMMA NextInv == IInv /\ [Next]_vars => IInv'
BY StepBasics, PublishedStep, FrozenStep, MarkersFrozenStep, RawBoundaryStep, CleanBoundaryStep,
   CommittedLoggedStep, CommittedStep, PositionStep, SettledStep, TxnStep, RowsStep, FullStep,
   SendingStep, SuccessStep
   DEF IInv

\* IInv holds in every state the pipeline reaches.
THEOREM InvariantHolds == Spec => []IInv
<1>1. Init => IInv
  BY InitInv
<1>2. IInv /\ [Next]_vars => IInv'
  BY NextInv
<1> QED
  BY <1>1, <1>2, PTL DEF Spec

\* Every variable of the pipeline keeps its type.
THEOREM TypesHold == Spec => []TypeOK
<1>1. IInv => TypeOK
  BY DEF IInv
<1> QED
  BY <1>1, InvariantHolds, PTL

\* A successful run lost no record that can be read, for every number of
\* runs, partitions, consumers, crashes and retries.
THEOREM NothingIsLost == Spec => []NothingLost
<1>1. IInv => NothingLost
  BY DEF IInv, SuccessDone, RunDone, NothingLost
<1> QED
  BY <1>1, InvariantHolds, PTL

\* At-least-once: offsets are committed over durable effects only.
THEOREM CommitsAreDurable == Spec => []CommittedIsDurable
<1>1. IInv => CommittedIsDurable
  BY DEF IInv
<1> QED
  BY <1>1, InvariantHolds, PTL

\* A clean marker has every record of its run and partition before it.
THEOREM BoundaryIsLast == Spec => []BoundaryComesLast
<1>1. IInv => BoundaryComesLast
  BY DEF IInv
<1> QED
  BY <1>1, InvariantHolds, PTL

(***************************************************************************)
(* StreamPipeline implements RunContract: offsets, markers, transactions,  *)
(* restarts and retries show in no run as anything but publishing,         *)
(* settling, and a close when all is settled.                              *)
(***************************************************************************)

Body(e) == <<e.run, e.body>>

\* What consumers handle was published: no record comes out of nothing.
LoggedIsPublished ==
  \A t \in Topics, p \in Partitions : \A i \in 1 .. Len(log[<<t, p>>]) :
    ~IsMarker(log[<<t, p>>][i]) => Body(log[<<t, p>>][i]) \in published

\* A run that publishes is open, or was taken for dead.
ProducingIsOpen == \A r \in Runs : dag[r] = "producing" => status[r] \in {"running", "failed"}

\* What is on books.clean was readable, is on its partition, and is nothing the
\* transform parks.
CleanIsForwarded ==
  \A p \in Partitions : \A i \in 1 .. Len(log[<<"clean", p>>]) :
    ~IsMarker(log[<<"clean", p>>][i]) =>
      /\ log[<<"clean", p>>][i].body \notin Undecodable \cup TransformRejects
      /\ CleanPartition[log[<<"clean", p>>][i].body] = p

CInv == IInv /\ LoggedIsPublished /\ ProducingIsOpen

\* The event at hand is a readable record that its run published.
LEMMA CurrentIsReadable ==
  ASSUME CInv, NEW c \in Consumers, stage[c] = "handling", ~IsMarker(Current(c))
  PROVE  /\ Body(Current(c)) \in Readable /\ Current(c).run \in Runs /\ Current(c).body \in Records
         /\ Topic(c) \in Topics
<1>1. /\ Topic(c) \in Topics /\ at[c][1] \in Partitions /\ at[c][2] \in 1 .. Len(log[Here(c)])
      /\ Here(c) = <<Topic(c), at[c][1]>>
  BY CurrentType DEF CInv, IInv, Here
<1>2. Body(Current(c)) \in published
  BY <1>1 DEF CInv, LoggedIsPublished, Current
<1>3. Current(c).run \in Runs /\ Current(c).body \in Records
  BY <1>1, LogFacts DEF CInv, IInv, Current, IsMarker
<1>4. Current(c).body \notin Undecodable
  BY DEF CInv, IInv, PositionDurable, AtDurable, Decodable
<1>5. Body(Current(c))[2] = Current(c).body
  BY DEF Body
<1> QED BY <1>1, <1>2, <1>3, <1>4, <1>5 DEF Readable

(***************************************************************************)
(* The additions are invariant.                                            *)
(***************************************************************************)

LEMMA ProduceKeepsLogged ==
  ASSUME CInv, NEW t \in Topics, NEW p \in Partitions, NEW r \in Runs, NEW body \in Records \cup {Boundary},
         Produce(t, p, r, body), published \subseteq published', body = Boundary \/ <<r, body>> \in published'
  PROVE  LoggedIsPublished'
<1>1. /\ log' \in [Topics \X Partitions -> Seq(Event)]
      /\ Len(log'[<<t, p>>]) = Len(log[<<t, p>>]) + 1
      /\ log'[<<t, p>>][Len(log[<<t, p>>]) + 1] = [run |-> r, body |-> body]
      /\ \A i \in 1 .. Len(log[<<t, p>>]) : log'[<<t, p>>][i] = log[<<t, p>>][i]
      /\ \A u \in Topics, q \in Partitions : ~(u = t /\ q = p) => log'[<<u, q>>] = log[<<u, q>>]
  BY ProduceStep DEF CInv, IInv
<1> SUFFICES ASSUME NEW u \in Topics, NEW q \in Partitions, NEW i \in 1 .. Len(log'[<<u, q>>]),
                    log'[<<u, q>>][i].body # Boundary
             PROVE  Body(log'[<<u, q>>][i]) \in published'
  BY DEF LoggedIsPublished, IsMarker, Body
<1>2. Len(log[<<u, q>>]) \in Nat
  BY LogFacts DEF CInv, IInv
<1>3. CASE u = t /\ q = p /\ i = Len(log[<<t, p>>]) + 1
  <2>1. log'[<<u, q>>][i] = [run |-> r, body |-> body]
    BY <1>1, <1>3
  <2>2. body # Boundary /\ <<r, body>> \in published'
    BY <2>1
  <2> QED BY <2>1, <2>2 DEF Body
<1>4. CASE ~(u = t /\ q = p /\ i = Len(log[<<t, p>>]) + 1)
  <2>1. i \in 1 .. Len(log[<<u, q>>]) /\ log'[<<u, q>>][i] = log[<<u, q>>][i]
    <3>1. CASE u = t /\ q = p
      <4>1. i \in 1 .. Len(log[<<t, p>>]) + 1 /\ i # Len(log[<<t, p>>]) + 1 /\ Len(log[<<t, p>>]) \in Nat
        BY <1>1, <1>2, <1>4, <3>1
      <4>2. i \in 1 .. Len(log[<<t, p>>])
        BY <4>1
      <4> QED BY <1>1, <3>1, <4>2
    <3>2. CASE ~(u = t /\ q = p)
      BY <1>1, <3>2
    <3> QED BY <3>1, <3>2
  <2> QED BY <2>1 DEF CInv, LoggedIsPublished, IsMarker
<1> QED BY <1>3, <1>4

LEMMA LoggedStep == ASSUME CInv, [Next]_vars PROVE LoggedIsPublished'
<1>1. TypeOK /\ published \subseteq published' /\ Framed
  BY StepBasics DEF CInv, Extends
<1> USE PipelineAssumption
<1>2. CASE UNCHANGED log
  BY <1>1, <1>2 DEF CInv, LoggedIsPublished, IsMarker, Body
<1>3. ASSUME NEW r \in Runs, NEW b \in Records, PublishRecord(r, b) PROVE LoggedIsPublished'
  <2>1. /\ Produce("raw", RawPartition[b], r, b) /\ RawPartition[b] \in Partitions /\ "raw" \in Topics
        /\ <<r, b>> \in published'
    BY <1>3 DEF PublishRecord, PipelineAssumption, Topics
  <2> QED BY <1>1, <2>1, ProduceKeepsLogged
<1>4. ASSUME NEW r \in Runs, NEW p \in Partitions, EmitRawMarker(r, p) PROVE LoggedIsPublished'
  <2>1. Produce("raw", p, r, Boundary) /\ "raw" \in Topics
    BY <1>4 DEF EmitRawMarker, Topics
  <2> QED BY <1>1, <2>1, ProduceKeepsLogged
<1>5. ASSUME NEW c \in Consumers, TransformBook(c) PROVE LoggedIsPublished'
  <2>1. Body(Current(c)) \in published /\ Current(c).run \in Runs /\ Current(c).body \in Records
    BY <1>5, CurrentIsReadable DEF TransformBook, Readable
  <2>2. CASE UNCHANGED log
    BY <1>2, <2>2
  <2>3. CASE Produce("clean", CleanPartition[Current(c).body], Current(c).run, Current(c).body)
    <3>1. CleanPartition[Current(c).body] \in Partitions /\ "clean" \in Topics
      BY <2>1 DEF PipelineAssumption, Topics
    <3> QED BY <1>1, <2>1, <2>3, <3>1, ProduceKeepsLogged DEF Body
  <2> QED BY <1>5, <2>2, <2>3 DEF TransformBook
<1>6. ASSUME NEW c \in Consumers, NEW x \in Runs \X Partitions, SendCleanMarker(c, x) PROVE LoggedIsPublished'
  <2>1. Produce("clean", x[2], x[1], Boundary) /\ "clean" \in Topics
    BY <1>6 DEF SendCleanMarker, Topics
  <2> QED BY <1>1, <2>1, ProduceKeepsLogged
<1> QED BY <1>1, <1>2, <1>3, <1>4, <1>5, <1>6 DEF Framed

(***************************************************************************)
(* Steps of the pipeline are steps of the contract.                        *)
(***************************************************************************)

\* A step that neither publishes, settles nor decides is a stutter.
Silent == UNCHANGED <<status, published, catalogue, dlq>>

LEMMA SilentStutters == Silent => UNCHANGED Contract!vars
BY DEF Silent, Contract!vars, Readable, Settled

LEMMA DagContract ==
  ASSUME CInv, NEW r \in Runs, DagStep(r) PROVE Contract!Next \/ UNCHANGED Contract!vars
<1>1. CASE BeginResolution(r)
  <2>1. Contract!Open(r)
    BY <1>1 DEF BeginResolution, StartRun, Contract!Open, Readable, Settled, storeVars
  <2> QED BY <2>1 DEF Contract!Next
<1>2. CASE ResolutionFails(r)
  <2>1. Contract!Fail(r)
    BY <1>2 DEF CInv, ProducingIsOpen, ResolutionFails, FailRun, Contract!Fail, Readable, Settled, storeVars
  <2> QED BY <2>1 DEF Contract!Next
<1>3. CASE BeginBoundary(r)
  <2>1. UNCHANGED <<published, catalogue, dlq>>
    BY <1>3 DEF BeginBoundary, storeVars
  <2>2. CASE status[r] = "running"
    <3>1. Contract!HandOver(r)
      BY <1>3, <2>1, <2>2 DEF BeginBoundary, FreezeTopology, Contract!HandOver, Readable, Settled
    <3> QED BY <3>1 DEF Contract!Next
  <2>3. CASE status[r] # "running"
    BY <1>3, <2>1, <2>3, SilentStutters DEF BeginBoundary, FreezeTopology, Silent
  <2> QED BY <2>2, <2>3
<1>4. ASSUME NEW b \in Records, PublishRecord(r, b) PROVE Contract!Next \/ UNCHANGED Contract!vars
  <2> DEFINE x == <<r, b>>
  <2>1. published' = published \cup {x} /\ UNCHANGED <<status, catalogue, dlq>> /\ x[2] = b
    BY <1>4 DEF PublishRecord, markerVars, storeVars
  <2>2. status[r] \in {"running", "failed"}
    BY <1>4 DEF CInv, ProducingIsOpen, PublishRecord
  <2> HIDE DEF x
  <2>3. CASE b \in Undecodable
    <3>1. Readable' = Readable
      BY <2>1, <2>3 DEF Readable
    <3> QED BY <2>1, <3>1 DEF Contract!vars, Settled
  <2>4. CASE b \notin Undecodable
    <3>1. Readable' = Readable \cup {x}
      BY <2>1, <2>4 DEF Readable
    <3>2. Contract!Publish(r, b)
      BY <2>1, <2>2, <3>1 DEF Contract!Publish, Settled, x
    <3> QED BY <3>2 DEF Contract!Next
  <2> QED BY <2>3, <2>4
<1>5. CASE ResolutionAbandoned(r) \/ ResolutionDone(r) \/ BoundaryFails(r) \/ BoundaryDone(r)
           \/ \E p \in Partitions : EmitRawMarker(r, p)
  BY <1>5, SilentStutters
     DEF ResolutionAbandoned, ResolutionDone, BoundaryFails, BoundaryDone, EmitRawMarker, Silent, markerVars, storeVars
<1> QED BY <1>1, <1>2, <1>3, <1>4, <1>5 DEF DagStep

\* The commit of a marker transaction closes a run whose records are settled.
LEMMA CommitContract ==
  ASSUME CInv, NEW c \in Consumers, CommitTxn(c), UNCHANGED <<published, catalogue, dlq>>
  PROVE  Contract!Next \/ UNCHANGED Contract!vars
<1> DEFINE r == txn[c].run
<1>1. CASE txn[c].topic = "clean" /\ txn[c].full /\ status[r] = "processing"
  <2>1. RunDone(r)
    BY <1>1 DEF CInv, IInv, FullDone, CommitTxn
  <2>2. r \in Runs
    BY DEF CInv, IInv, TypeOK, MarkersTypeOK, CommitTxn, Txn
  <2>3. status' = [status EXCEPT ![r] = "success"]
    BY <1>1 DEF CommitTxn
  <2> HIDE DEF r
  <2>4. Contract!Close(r)
    BY <1>1, <2>1, <2>3 DEF RunDone, Contract!Close, Contract!Of, Readable, Settled
  <2> QED BY <2>2, <2>4 DEF Contract!Next
<1>2. CASE ~(txn[c].topic = "clean" /\ txn[c].full /\ status[r] = "processing")
  BY <1>2, SilentStutters DEF CommitTxn, Silent
<1> QED BY <1>1, <1>2

\* A load or a park settles the record at hand.
LEMMA BookContract ==
  ASSUME CInv, NEW c \in Consumers, TransformBook(c) \/ LoadBook(c)
  PROVE  Contract!Next \/ UNCHANGED Contract!vars
<1> DEFINE r == Current(c).run
           b == Current(c).body
<1>1. <<r, b>> \in Readable /\ r \in Runs /\ b \in Records
  BY CurrentIsReadable DEF TransformBook, LoadBook, Body
<1>2. UNCHANGED <<status, published>>
  BY DEF TransformBook, LoadBook, markerVars, dagVars
<1>3. Settled' = Settled \cup {<<r, b>>} \/ UNCHANGED <<catalogue, dlq>>
  BY DEF TransformBook, LoadBook, Settled
<1> HIDE DEF r, b
<1>4. CASE Settled' = Settled \cup {<<r, b>>}
  <2>1. Contract!Settle(r, b)
    BY <1>1, <1>2, <1>4 DEF Contract!Settle, Readable
  <2> QED BY <1>1, <2>1 DEF Contract!Next
<1>5. CASE UNCHANGED <<catalogue, dlq>>
  BY <1>2, <1>5, SilentStutters DEF Silent
<1> QED BY <1>3, <1>4, <1>5

LEMMA WorkContract ==
  ASSUME CInv, NEW c \in Consumers, Work(c) \/ Crash(c) PROVE Contract!Next \/ UNCHANGED Contract!vars
<1>1. CASE EndSweepRun(c) \/ EndMarker(c)
  BY <1>1, CommitContract DEF EndSweepRun, EndMarker, dagVars, storeVars
<1>2. CASE TransformBook(c) \/ LoadBook(c)
  BY <1>2, BookContract
<1>3. ASSUME Restarted(c) PROVE UNCHANGED Contract!vars
  BY <1>3, SilentStutters DEF Restarted, RollbackTxn, markerVars, dagVars, storeVars, Silent
<1>4. CASE \/ BeginSweep(c) \/ BeginPolling(c) \/ ObserveMarker(c) \/ CommitOffset(c)
           \/ \E r \in Runs : SweepRun(c, r)
           \/ \E p \in Partitions : \E k \in 1 .. Len(log[<<Topic(c), p>>]) : Poll(c, p, k)
           \/ \E x \in Runs \X Partitions : SendCleanMarker(c, x)
  BY <1>4, SilentStutters
     DEF BeginSweep, BeginPolling, ObserveMarker, RecordMarker, CommitOffset, SweepRun, CountMarkers, Poll, SendCleanMarker,
         Silent, markerVars, dagVars, storeVars
<1> QED BY <1>1, <1>2, <1>3, <1>4 DEF Work, CommitRefused, Crash

\* A run that publishes stays open until it is done: it is only failed.
LEMMA ProducingStep == ASSUME CInv, [Next]_vars PROVE ProducingIsOpen'
<1>0. /\ status \in [Runs -> Statuses] /\ dag \in [Runs -> DagStates]
  BY DEF CInv, IInv, TypeOK, MarkersTypeOK
<1>1. ASSUME NEW r \in Runs, DagStep(r) PROVE ProducingIsOpen'
  <2>1. CASE BeginResolution(r)
    BY <1>0, <2>1 DEF CInv, ProducingIsOpen, BeginResolution, StartRun
  <2>2. CASE ResolutionFails(r)
    BY <1>0, <2>2 DEF CInv, ProducingIsOpen, ResolutionFails, FailRun
  <2>3. CASE BeginBoundary(r)
    BY <1>0, <2>3 DEF CInv, ProducingIsOpen, BeginBoundary, FreezeTopology
  <2>4. CASE ResolutionAbandoned(r) \/ ResolutionDone(r) \/ BoundaryFails(r) \/ BoundaryDone(r)
    BY <1>0, <2>4 DEF CInv, ProducingIsOpen, ResolutionAbandoned, ResolutionDone, BoundaryFails, BoundaryDone, markerVars
  <2>5. CASE (\E p \in Partitions : EmitRawMarker(r, p)) \/ \E b \in Records : PublishRecord(r, b)
    BY <2>5 DEF CInv, ProducingIsOpen, EmitRawMarker, PublishRecord, markerVars
  <2> QED BY <1>1, <2>1, <2>2, <2>3, <2>4, <2>5 DEF DagStep
<1>2. ASSUME NEW c \in Consumers, CommitTxn(c), UNCHANGED dag PROVE ProducingIsOpen'
  BY <1>0, <1>2 DEF CInv, ProducingIsOpen, CommitTxn
<1>3. ASSUME UNCHANGED <<dag, status>> PROVE ProducingIsOpen'
  BY <1>3 DEF CInv, ProducingIsOpen
<1>4. ASSUME NEW c \in Consumers, Work(c) \/ Crash(c) PROVE ProducingIsOpen'
  <2>1. UNCHANGED dag
    BY <1>4 DEF Work, Crash, CommitRefused, Restarted, BeginSweep, EndSweepRun, BeginPolling, SweepRun, Poll, TransformBook,
       LoadBook, ObserveMarker, EndMarker, SendCleanMarker, CommitOffset, dagVars
  <2>2. CommitTxn(c) \/ UNCHANGED status
    BY <1>4 DEF Work, Crash, CommitRefused, Restarted, RollbackTxn, BeginSweep, EndSweepRun, BeginPolling, SweepRun,
       CountMarkers, RecordMarker, Poll, TransformBook, LoadBook, ObserveMarker, EndMarker, SendCleanMarker, CommitOffset,
       markerVars
  <2> QED BY <1>2, <1>3, <2>1, <2>2
<1> QED BY <1>1, <1>3, <1>4 DEF Next, vars, markerVars, dagVars

LEMMA InitContract == Init => CInv /\ Contract!Init
<1> SUFFICES ASSUME Init PROVE CInv /\ Contract!Init
  OBVIOUS
<1>1. IInv
  BY InitInv
<1>2. \A t \in Topics, p \in Partitions : log[<<t, p>>] = <<>>
  BY DEF Init
<1>3. LoggedIsPublished
  BY <1>2 DEF LoggedIsPublished
<1>4. ProducingIsOpen
  BY DEF Init, ProducingIsOpen
<1>5. Contract!Init
  BY DEF Init, MarkersInit, Contract!Init, Readable, Settled
<1> QED BY <1>1, <1>3, <1>4, <1>5 DEF CInv

\* The pipeline implements the contract, for every number of runs, records,
\* partitions and consumers, and whatever crashes, is retried or redelivered:
\* a run becomes a success only when all it published is settled.
THEOREM ImplementsContract == Spec => ContractSpec
<1>1. Init => CInv /\ Contract!Init
  BY InitContract
<1>2. CInv /\ [Next]_vars => CInv'
  BY NextInv, LoggedStep, ProducingStep DEF CInv
<1>3. CInv /\ [Next]_vars => [Contract!Next]_Contract!vars
  <2> SUFFICES ASSUME CInv, [Next]_vars PROVE Contract!Next \/ UNCHANGED Contract!vars
    OBVIOUS
  <2>1. CASE UNCHANGED vars
    BY <2>1, SilentStutters DEF vars, markerVars, dagVars, storeVars, Silent
  <2> QED BY <2>1, DagContract, WorkContract DEF Next
<1> QED BY <1>1, <1>2, <1>3, PTL DEF Spec, ContractSpec, Contract!Spec

(***************************************************************************)
(* What the load consumer is fed.                                          *)
(***************************************************************************)

\* One event is appended to one partition, and what it says of books.clean holds.
LEMMA ProduceKeepsForwarded ==
  ASSUME CInv, CleanIsForwarded, NEW t \in Topics, NEW p \in Partitions, NEW r \in Runs,
         NEW body \in Records \cup {Boundary}, Produce(t, p, r, body),
         t = "clean" /\ body # Boundary => body \notin Undecodable \cup TransformRejects /\ CleanPartition[body] = p
  PROVE  CleanIsForwarded'
<1>1. /\ Len(log'[<<t, p>>]) = Len(log[<<t, p>>]) + 1
      /\ log'[<<t, p>>][Len(log[<<t, p>>]) + 1] = [run |-> r, body |-> body]
      /\ \A i \in 1 .. Len(log[<<t, p>>]) : log'[<<t, p>>][i] = log[<<t, p>>][i]
      /\ \A u \in Topics, q \in Partitions : ~(u = t /\ q = p) => log'[<<u, q>>] = log[<<u, q>>]
  BY ProduceStep DEF CInv, IInv
<1> SUFFICES ASSUME NEW q \in Partitions, NEW i \in 1 .. Len(log'[<<"clean", q>>]),
                    log'[<<"clean", q>>][i].body # Boundary
             PROVE  /\ log'[<<"clean", q>>][i].body \notin Undecodable \cup TransformRejects
                    /\ CleanPartition[log'[<<"clean", q>>][i].body] = q
  BY DEF CleanIsForwarded, IsMarker
<1>2. "clean" \in Topics /\ Len(log[<<"clean", q>>]) \in Nat
  BY LogFacts DEF CInv, IInv, Topics
<1>3. CASE t = "clean" /\ q = p /\ i = Len(log[<<t, p>>]) + 1
  <2>1. log'[<<"clean", q>>][i].body = body
    BY <1>1, <1>3
  <2> QED BY <1>3, <2>1
<1>4. CASE ~(t = "clean" /\ q = p /\ i = Len(log[<<t, p>>]) + 1)
  <2>1. i \in 1 .. Len(log[<<"clean", q>>]) /\ log'[<<"clean", q>>][i] = log[<<"clean", q>>][i]
    BY <1>1, <1>2, <1>4
  <2> QED BY <2>1 DEF CleanIsForwarded, IsMarker
<1> QED BY <1>3, <1>4

LEMMA ForwardedStep == ASSUME CInv, CleanIsForwarded, [Next]_vars PROVE CleanIsForwarded'
<1>1. TypeOK /\ Framed
  BY StepBasics DEF CInv
<1> USE PipelineAssumption
<1>2. CASE UNCHANGED log
  BY <1>2 DEF CleanIsForwarded, IsMarker
<1>3. ASSUME NEW r \in Runs, NEW b \in Records, PublishRecord(r, b) PROVE CleanIsForwarded'
  <2>1. Produce("raw", RawPartition[b], r, b) /\ RawPartition[b] \in Partitions /\ "raw" \in Topics
    BY <1>3 DEF PublishRecord, PipelineAssumption, Topics
  <2> QED BY <2>1, ProduceKeepsForwarded
<1>4. ASSUME NEW r \in Runs, NEW p \in Partitions, EmitRawMarker(r, p) PROVE CleanIsForwarded'
  <2>1. Produce("raw", p, r, Boundary) /\ "raw" \in Topics
    BY <1>4 DEF EmitRawMarker, Topics
  <2> QED BY <2>1, ProduceKeepsForwarded
<1>5. ASSUME NEW c \in Consumers, TransformBook(c) PROVE CleanIsForwarded'
  <2>1. /\ Body(Current(c)) \in Readable /\ Current(c).run \in Runs /\ Current(c).body \in Records
        /\ Body(Current(c))[2] = Current(c).body
    BY <1>5, CurrentIsReadable DEF TransformBook, Body
  <2>2. CASE UNCHANGED log
    BY <1>2, <2>2
  <2>3. CASE Current(c).body \notin TransformRejects /\ Produce("clean", CleanPartition[Current(c).body], Current(c).run, Current(c).body)
    <3>1. CleanPartition[Current(c).body] \in Partitions /\ "clean" \in Topics
      BY <2>1 DEF PipelineAssumption, Topics
    <3>2. Current(c).body \notin Undecodable
      BY <2>1 DEF Readable
    <3> QED BY <2>1, <2>3, <3>1, <3>2, ProduceKeepsForwarded
  <2> QED BY <1>5, <2>2, <2>3 DEF TransformBook
<1>6. ASSUME NEW c \in Consumers, NEW x \in Runs \X Partitions, SendCleanMarker(c, x) PROVE CleanIsForwarded'
  <2>1. Produce("clean", x[2], x[1], Boundary) /\ "clean" \in Topics
    BY <1>6 DEF SendCleanMarker, Topics
  <2> QED BY <2>1, ProduceKeepsForwarded
<1> QED BY <1>1, <1>2, <1>3, <1>4, <1>5, <1>6 DEF Framed

\* The record is one that belongs before the boundary, and it was not parked.
LEMMA ForwardedIsDelivered ==
  ASSUME CInv, CleanIsForwarded, NEW p \in Partitions PROVE OnlyCopiesBehind(log[<<"clean", p>>], Boundary)
<1> DEFINE s == log[<<"clean", p>>]
<1> SUFFICES ASSUME NEW i \in 1 .. Len(s), NEW j \in 1 .. Len(s),
                    s[i].body = Boundary, s[j].body # Boundary, s[i].run = s[j].run
             PROVE  \E k \in 1 .. i - 1 : s[k] = s[j]
  BY DEF OnlyCopiesBehind
<1> DEFINE x == Body(s[j])
<1>1. "clean" \in Topics /\ s[j] \in Event
  BY LogFacts DEF CInv, IInv, Topics
<1>2. x \in published /\ x[2] \notin Undecodable \cup TransformRejects /\ CleanPartition[x[2]] = p /\ x[1] = s[i].run
  BY <1>1 DEF CInv, LoggedIsPublished, CleanIsForwarded, IsMarker, Body
<1>3. BookEvent(x) = s[j]
  BY <1>1 DEF BookEvent, Body, Event
<1>4. \E k \in 1 .. i - 1 : s[k] = BookEvent(x)
  BY <1>2 DEF CInv, IInv, BoundaryComesLast, Readable, ParkedByTransform, IsMarker
<1> QED BY <1>3, <1>4

\* On books.clean nothing new of a run comes behind its boundary, whatever was
\* redelivered or forwarded twice: what LoadConsumer assumes of its Feed.
THEOREM FeedIsDelivered == Spec => [](\A p \in Partitions : OnlyCopiesBehind(log[<<"clean", p>>], Boundary))
<1>1. Init => CInv /\ CleanIsForwarded
  <2>1. Init => \A p \in Partitions : log[<<"clean", p>>] = <<>>
    BY DEF Init, Topics
  <2> QED BY <2>1, InitContract DEF CleanIsForwarded
<1>2. CInv /\ CleanIsForwarded /\ [Next]_vars => (CInv /\ CleanIsForwarded)'
  BY NextInv, LoggedStep, ProducingStep, ForwardedStep DEF CInv
<1>3. CInv /\ CleanIsForwarded => \A p \in Partitions : OnlyCopiesBehind(log[<<"clean", p>>], Boundary)
  BY ForwardedIsDelivered
<1> QED BY <1>1, <1>2, <1>3, PTL DEF Spec

(***************************************************************************)
(* The pipeline is an environment RunMarkers allows for: what is proved of *)
(* the markers by themselves holds of every run of the pipeline.           *)
(***************************************************************************)

\* With these frozen topologies and marker rows, every raw partition of the run
\* has reported or is among the rows own.
RawComplete(topology, rows, r, own) ==
  <<r, "raw">> \in topology /\ Cardinality({p \in Partitions : <<r, "raw", p>> \in rows} \cup own) >= Cardinality(Partitions)

\* A clean marker is sent for a run whose raw topic was counted complete.
CleanMeansComplete ==
  /\ \A p \in Partitions : \A i \in 1 .. Len(log[<<"clean", p>>]) :
       IsMarker(log[<<"clean", p>>][i]) => RawComplete(frozen, marker, log[<<"clean", p>>][i].run, {})
  /\ \A c \in Consumers : \A x \in sending[c] : RawComplete(frozen, marker, x[1], {})
  /\ \A c \in Consumers : txn[c] # NoTxn /\ txn[c].topic = "raw" /\ txn[c].full =>
       RawComplete(frozen, marker, txn[c].run, txn[c].row)

\* A topic that was counted complete stays so when every row counted stays visible.
LEMMA CompleteGrows ==
  ASSUME NEW r, NEW own \in SUBSET Partitions, NEW own1 \in SUBSET Partitions,
         NEW topology, NEW topology1, NEW rows, NEW rows1,
         topology \subseteq topology1, RawComplete(topology, rows, r, own),
         \A p \in Partitions : <<r, "raw", p>> \in rows \/ p \in own => <<r, "raw", p>> \in rows1 \/ p \in own1
  PROVE  RawComplete(topology1, rows1, r, own1)
<1> DEFINE V == {p \in Partitions : <<r, "raw", p>> \in rows} \cup own
           W == {p \in Partitions : <<r, "raw", p>> \in rows1} \cup own1
<1>1. V \in SUBSET Partitions /\ W \in SUBSET Partitions /\ V \subseteq W /\ Cardinality(V) >= Cardinality(Partitions)
  BY DEF RawComplete
<1>2. <<r, "raw">> \in topology1
  BY DEF RawComplete
<1> HIDE DEF V, W
<1>3. IsFiniteSet(W) /\ IsFiniteSet(V) /\ Cardinality(V) <= Cardinality(W)
  BY <1>1, FS_Subset, PartitionsAssumption
<1>4. Cardinality(V) \in Nat /\ Cardinality(W) \in Nat /\ Cardinality(Partitions) \in Nat
  BY <1>3, FS_CardinalityType, PartitionsAssumption
<1>5. Cardinality(W) >= Cardinality(Partitions)
  BY <1>1, <1>3, <1>4
<1> QED BY <1>2, <1>5 DEF RawComplete, W

LEMMA CountIsRawComplete ==
  ASSUME NEW r, NEW own PROVE IsTopicComplete(r, "raw", own) = RawComplete(frozen, marker, r, own)
BY DEF IsTopicComplete, Visible, RawComplete

\* What a consumer owes, and what its transaction counted, after a step.
LEMMA CountedStep ==
  ASSUME IInv, CleanMeansComplete, [Next]_vars, NEW c \in Consumers
  PROVE  /\ \A x \in sending'[c] : RawComplete(frozen', marker', x[1], {})
         /\ txn'[c] # NoTxn /\ txn'[c].topic = "raw" /\ txn'[c].full =>
              RawComplete(frozen', marker', txn'[c].run, txn'[c].row)
<1> DEFINE Counted == /\ \A x \in sending'[c] : RawComplete(frozen', marker', x[1], {})
                      /\ txn'[c] # NoTxn /\ txn'[c].topic = "raw" /\ txn'[c].full =>
                           RawComplete(frozen', marker', txn'[c].run, txn'[c].row)
<1>1. TypeOK /\ TypeOK' /\ Extends /\ Framed
  BY StepBasics
<1>2. ASSUME NEW r, NEW own \in SUBSET Partitions, RawComplete(frozen, marker, r, own) PROVE RawComplete(frozen', marker', r, own)
  <2>1. frozen \subseteq frozen' /\ marker \subseteq marker'
    BY <1>1 DEF Extends
  <2> QED BY <1>2, <2>1, CompleteGrows
<1>3. txn[c] # NoTxn => txn[c] \in Txn /\ txn[c].row \in SUBSET Partitions
  BY <1>1 DEF TypeOK, MarkersTypeOK, Txn
<1>4. ASSUME NEW x \in sending[c] PROVE RawComplete(frozen', marker', x[1], {})
  BY <1>2 DEF CleanMeansComplete
<1>5. txn[c] # NoTxn /\ txn[c].topic = "raw" /\ txn[c].full => RawComplete(frozen', marker', txn[c].run, txn[c].row)
  BY <1>2, <1>3 DEF CleanMeansComplete
<1>6. ASSUME sending'[c] \subseteq sending[c], txn'[c] = txn[c] PROVE Counted
  BY <1>4, <1>5, <1>6
<1>7. ASSUME sending'[c] = Owed(txn[c]), CommitTxn(c) PROVE Counted
  <2>1. txn'[c] = NoTxn /\ txn[c] # NoTxn /\ marker' = marker \cup {<<txn[c].run, txn[c].topic, p>> : p \in txn[c].row}
        /\ frozen' = frozen
    BY <1>1, <1>7 DEF CommitTxn, TypeOK, MarkersTypeOK
  <2>2. ASSUME NEW x \in sending'[c] PROVE RawComplete(frozen', marker', x[1], {})
    <3>1. txn[c].topic = "raw" /\ txn[c].full /\ x[1] = txn[c].run
      BY <1>7, <2>2 DEF Owed
    <3>2. RawComplete(frozen, marker, txn[c].run, txn[c].row)
      BY <2>1, <3>1 DEF CleanMeansComplete
    <3>3. \A p \in Partitions : <<txn[c].run, "raw", p>> \in marker \/ p \in txn[c].row => <<txn[c].run, "raw", p>> \in marker' \/ p \in {}
      BY <2>1, <3>1
    <3>4. RawComplete(frozen', marker', txn[c].run, {})
      BY <1>3, <2>1, <3>2, <3>3, CompleteGrows
    <3> QED BY <3>1, <3>4
  <2> QED BY <2>1, <2>2
<1>8. CASE EndSweepRun(c) \/ EndMarker(c)
  <2>1. CommitTxn(c) /\ sending'[c] = Owed(txn[c])
    BY <1>1, <1>8 DEF EndSweepRun, EndMarker, TypeOK
  <2> QED BY <1>7, <2>1
<1>9. CASE Restarted(c)
  <2>1. sending'[c] = {} /\ txn'[c] = NoTxn
    BY <1>1, <1>9 DEF Restarted, RollbackTxn, TypeOK, MarkersTypeOK, markerVars
  <2> QED BY <2>1
<1>10. ASSUME NEW r \in Runs, NEW t \in Topics, NEW own \in SUBSET Partitions, sending'[c] = sending[c],
              txn'[c] = [run |-> r, topic |-> t, row |-> own, full |-> IsTopicComplete(r, t, own)]
       PROVE  Counted
  <2>1. t = "raw" /\ IsTopicComplete(r, t, own) => RawComplete(frozen', marker', r, own)
    BY <1>2, CountIsRawComplete
  <2> QED BY <1>4, <1>10, <2>1
<1>11. ASSUME NEW r \in Runs, SweepRun(c, r) PROVE Counted
  <2>1. Topic(c) \in Topics
    BY PipelineAssumption DEF PipelineAssumption, Topic
  <2>2. PICK own : own = {}
    OBVIOUS
  <2>3. /\ txn'[c] = [run |-> r, topic |-> Topic(c), row |-> own, full |-> IsTopicComplete(r, Topic(c), own)]
        /\ sending'[c] = sending[c]
    BY <1>1, <1>11, <2>2 DEF SweepRun, CountMarkers, TypeOK, MarkersTypeOK
  <2> QED BY <1>10, <2>1, <2>2, <2>3
<1>12. CASE ObserveMarker(c)
  <2>1. Current(c).run \in Runs /\ Topic(c) \in Topics /\ at[c][1] \in Partitions
    BY <1>1, <1>12, CurrentType DEF ObserveMarker, IInv
  <2>2. PICK own : own = IF <<Current(c).run, Topic(c)>> \in frozen THEN {at[c][1]} ELSE {}
    OBVIOUS
  <2>3. /\ txn'[c] = [run |-> Current(c).run, topic |-> Topic(c), row |-> own, full |-> IsTopicComplete(Current(c).run, Topic(c), own)]
        /\ sending'[c] = sending[c]
    BY <1>1, <1>12, <2>2 DEF ObserveMarker, RecordMarker, TypeOK, MarkersTypeOK
  <2> QED BY <1>10, <2>1, <2>2, <2>3
<1>13. ASSUME NEW x \in Runs \X Partitions, SendCleanMarker(c, x) PROVE Counted
  <2>1. sending'[c] \subseteq sending[c] /\ txn'[c] = txn[c]
    BY <1>1, <1>13 DEF SendCleanMarker, TypeOK, markerVars
  <2> QED BY <1>6, <2>1
<1>14. ASSUME UNCHANGED <<txn, sending>> PROVE Counted
  BY <1>6, <1>14
<1>15. CASE SameLocal(c)
  BY <1>6, <1>15 DEF SameLocal
<1> QED
  BY <1>1, <1>8, <1>9, <1>11, <1>12, <1>13, <1>14, <1>15, StepLocal
     DEF Work, BeginSweep, BeginPolling, Poll, TransformBook, LoadBook, CommitOffset, CommitRefused, Crash, markerVars

LEMMA CleanCompleteStep == ASSUME IInv, CleanMeansComplete, [Next]_vars PROVE CleanMeansComplete'
<1>1. TypeOK /\ TypeOK' /\ Extends /\ Framed
  BY StepBasics
<1>2. ASSUME NEW r, RawComplete(frozen, marker, r, {}) PROVE RawComplete(frozen', marker', r, {})
  BY <1>1, <1>2, CompleteGrows DEF Extends
<1>3. ASSUME NEW p \in Partitions, NEW i \in 1 .. Len(log'[<<"clean", p>>]), log'[<<"clean", p>>][i].body = Boundary
      PROVE  RawComplete(frozen', marker', log'[<<"clean", p>>][i].run, {})
  <2>1. "clean" \in Topics
    BY DEF Topics
  <2>2. PICK r : r = log'[<<"clean", p>>][i].run
    OBVIOUS
  <2>3. RawComplete(frozen, marker, r, {})
    <3>1. CASE i \in 1 .. Len(log[<<"clean", p>>])
      <4>1. log'[<<"clean", p>>][i] = log[<<"clean", p>>][i]
        BY <1>1, <2>1, <3>1, OldEvent
      <4> QED BY <1>3, <2>2, <3>1, <4>1 DEF CleanMeansComplete, IsMarker
    <3>2. CASE i \notin 1 .. Len(log[<<"clean", p>>])
      <4>1. \E c \in Consumers : \E x \in sending[c] : x[1] = r
        BY <1>3, <2>1, <2>2, <3>2, NewMarker
      <4> QED BY <4>1 DEF CleanMeansComplete
    <3> QED BY <3>1, <3>2
  <2> QED BY <1>2, <2>2, <2>3
<1>4. \A p \in Partitions : \A i \in 1 .. Len(log'[<<"clean", p>>]) :
        IsMarker(log[<<"clean", p>>][i])' => RawComplete(frozen, marker, log[<<"clean", p>>][i].run, {})'
  BY <1>3 DEF IsMarker, RawComplete
<1>5. \A c \in Consumers : \A x \in sending'[c] : RawComplete(frozen', marker', x[1], {})
  BY CountedStep
<1>6. \A c \in Consumers : txn'[c] # NoTxn /\ txn'[c].topic = "raw" /\ txn'[c].full =>
        RawComplete(frozen, marker, txn[c].run, txn[c].row)'
  BY CountedStep DEF RawComplete
<1> QED BY <1>4, <1>5, <1>6 DEF CleanMeansComplete, RawComplete, IsMarker

\* A task of the DAG is a task of the markers' environment, or leaves them alone.
LEMMA DagMarkers ==
  ASSUME IInv, NEW r \in Runs, DagStep(r) PROVE MarkersNext \/ UNCHANGED markerVars
<1>1. CASE BeginResolution(r)
  BY <1>1 DEF BeginResolution, MarkersNext
<1>2. CASE ResolutionFails(r)
  <2>1. FailRun(r) /\ <<r, "raw">> \notin frozen
    BY <1>2 DEF ResolutionFails, IInv, FrozenMeansOver, Over, Topics
  <2> QED BY <2>1 DEF MarkersNext
<1>3. CASE BeginBoundary(r)
  BY <1>3 DEF BeginBoundary, MarkersNext
<1> QED BY <1>1, <1>2, <1>3 DEF DagStep, ResolutionAbandoned, ResolutionDone, BoundaryFails, BoundaryDone, PublishRecord, EmitRawMarker

\* A consumer records a marker it was delivered, and sweeps a run that was frozen.
LEMMA ConsumerMarkers ==
  ASSUME IInv, CleanMeansComplete, NEW c \in Consumers, Work(c) \/ Crash(c) PROVE MarkersNext \/ UNCHANGED markerVars
<1>1. Topic(c) \in Topics
  BY PipelineAssumption DEF PipelineAssumption, Topic
<1>2. CASE ObserveMarker(c)
  <2> DEFINE r == Current(c).run
             p == at[c][1]
  <2>1. /\ r \in Runs /\ p \in Partitions /\ at[c][2] \in 1 .. Len(log[Here(c)])
        /\ Here(c) = <<Topic(c), p>> /\ IsMarker(Current(c)) /\ RecordMarker(c, r, Topic(c), p)
    BY <1>2, CurrentType DEF ObserveMarker, IInv
  <2>2. Topic(c) = "raw" => <<r, "raw">> \in frozen
    BY <1>1, <2>1 DEF IInv, MarkersAreFrozen, Current
  <2>3. Topic(c) = "clean" => IsTopicComplete(r, "raw", {})
    BY <2>1, CountIsRawComplete DEF CleanMeansComplete, Current
  <2>4. Deliverable(r, Topic(c))
    BY <1>1, <2>2, <2>3 DEF Deliverable, Topics
  <2> HIDE DEF r, p
  <2> QED BY <1>1, <2>1, <2>4 DEF MarkersNext
<1>3. ASSUME NEW r \in Runs, SweepRun(c, r) PROVE MarkersNext
  <2>1. <<r, Topic(c)>> \in frozen /\ CountMarkers(c, r, Topic(c))
    BY <1>1, <1>3 DEF SweepRun, IInv, MarkersAreFrozen
  <2> QED BY <1>1, <2>1 DEF MarkersNext
<1>4. CASE EndSweepRun(c) \/ EndMarker(c)
  BY <1>4 DEF EndSweepRun, EndMarker, MarkersNext
<1>5. CASE Restarted(c)
  BY <1>5 DEF Restarted, MarkersNext
<1> QED
  BY <1>2, <1>3, <1>4, <1>5 DEF Work, Crash, BeginSweep, BeginPolling, Poll, TransformBook, LoadBook, SendCleanMarker,
     CommitOffset, CommitRefused

\* The pipeline's steps are, on the rows of the boundary, steps of RunMarkers in
\* its environment: a marker reaches a consumer only after the barrier, a clean
\* one only after the raw topic was complete.
THEOREM MarkersAreDelivered == Spec => MarkersSpec
<1>1. Init => IInv /\ CleanMeansComplete /\ MarkersInit
  <2>1. Init => /\ \A p \in Partitions : log[<<"clean", p>>] = <<>>
                /\ \A c \in Consumers : sending[c] = {} /\ txn[c] = NoTxn
                /\ MarkersInit
    BY DEF Init, MarkersInit, Topics
  <2> QED BY <2>1, InitInv DEF CleanMeansComplete
<1>2. IInv /\ CleanMeansComplete /\ [Next]_vars => (IInv /\ CleanMeansComplete)'
  BY NextInv, CleanCompleteStep
<1>3. IInv /\ CleanMeansComplete /\ [Next]_vars => [MarkersNext]_markerVars
  BY DagMarkers, ConsumerMarkers DEF Next, vars
<1> QED BY <1>1, <1>2, <1>3, PTL DEF Spec, MarkersSpec

\* A closed run of the pipeline is never decided again, through whatever
\* redelivery, sweep, crash or retried barrier (markers.py:177-178).
THEOREM PipelineClosesOnce == Spec => ClosedStaysClosed
BY MarkersAreDelivered, ClosedForGood

\* Every clean partition of a run that is a success reported (markers.py:8).
THEOREM PipelineIsReported == Spec => []SuccessMeansReported
BY MarkersAreDelivered, SuccessIsReported
================================================================================
