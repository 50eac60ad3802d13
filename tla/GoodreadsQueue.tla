------------------------------ MODULE GoodreadsQueue ------------------------------
(***************************************************************************)
(* The backlog the enrichment DAG works through, run after run (enrich.py  *)
(* UNENRICHED and _enrich_all): a run takes the first Slice records of the *)
(* backlog in its order, asks about each and loads what it is told.  A     *)
(* record that is completed leaves the backlog; one that is not keeps its  *)
(* place.  Discovery may deliver a record again, which moves it to the end *)
(* and puts it back on the backlog (GoodreadsEvidence).  The backlog of    *)
(* contested.py has another order and is not modelled.                     *)
(***************************************************************************)
EXTENDS Naturals, Sequences, FiniteSets, SequencesExt

CONSTANTS
  Records,      \* the records that are or were on the backlog
  Answerable,   \* those Goodreads has something for
  Slice,        \* enrich_max_per_run
  MaxArrivals   \* bound: deliveries by discovery

QueueAssumption ==
  /\ Answerable \subseteq Records
  /\ Slice \in Nat \ {0}
  /\ MaxArrivals \in Nat

VARIABLES
  order,     \* the records by last_seen_at, oldest first
  pending,   \* records without detail
  batch,     \* what is left of the slice of the run under way
  running,   \* a run is under way
  arrivals

vars == <<order, pending, batch, running, arrivals>>

TypeOK ==
  /\ IsInjective(order) /\ Range(order) = Records
  /\ pending \subseteq Records
  /\ IsInjective(batch) /\ Range(batch) \subseteq Records
  /\ Len(batch) <= Slice
  /\ ~running => batch = <<>>
  /\ arrivals \in 0..MaxArrivals

Init ==
  /\ order \in {s \in [1..Cardinality(Records) -> Records] : IsInjective(s)}
  /\ pending = Records
  /\ batch = <<>>
  /\ running = FALSE
  /\ arrivals = 0

Backlog == SelectSeq(order, LAMBDA r : r \in pending)

\* find_unenriched
Taken == SubSeq(Backlog, 1, IF Len(Backlog) < Slice THEN Len(Backlog) ELSE Slice)

Begin ==
  /\ ~running
  /\ pending # {}
  /\ running' = TRUE
  /\ batch' = Taken
  /\ UNCHANGED <<order, pending, arrivals>>

\* last_seen_at moves with every load of the record.
Seen(r) == Append(SelectSeq(order, LAMBDA x : x # r), r)

\* MUTANT of Complete: the slice goes on without its record.
CompleteUnloaded ==
  /\ batch # <<>>
  /\ Head(batch) \in Answerable
  /\ batch' = Tail(batch)
  /\ UNCHANGED <<order, pending, running, arrivals>>

\* The record in hand is answered, mapped and loaded.
Complete ==
  /\ batch # <<>>
  /\ Head(batch) \in Answerable
  /\ pending' = pending \ {Head(batch)}
  /\ order' = Seen(Head(batch))
  /\ batch' = Tail(batch)
  /\ UNCHANGED <<running, arrivals>>

\* No answer, one that does not map, or none this time: nothing is loaded.
Unchanged ==
  /\ batch # <<>>
  /\ batch' = Tail(batch)
  /\ UNCHANGED <<order, pending, running, arrivals>>

\* The circuit opens, the budget is spent, or the slice is through.
End ==
  /\ running
  /\ batch' = <<>>
  /\ running' = FALSE
  /\ UNCHANGED <<order, pending, arrivals>>

\* Discovery delivers the record once more.
Arrive(r) ==
  /\ arrivals < MaxArrivals
  /\ arrivals' = arrivals + 1
  /\ pending' = pending \cup {r}
  /\ order' = Seen(r)
  /\ UNCHANGED <<batch, running>>

Next == Begin \/ Complete \/ Unchanged \/ End \/ \E r \in Records : Arrive(r)

\* The schedule starts runs and a run ends; a record that Goodreads can answer
\* is answered sooner or later when it is asked about again and again.
Fairness ==
  /\ WF_vars(Begin)
  /\ WF_vars(End)
  /\ \A r \in Answerable : SF_vars(Complete /\ Head(batch) = r)
  /\ \A r \in Records : SF_vars(Unchanged /\ Head(batch) = r)

Spec == Init /\ [][Next]_vars /\ Fairness

(***************************************************************************)
(* Properties                                                              *)
(***************************************************************************)

\* The backlog is worked off: every record Goodreads has something for is
\* completed, whatever is delivered meanwhile.
BacklogDrains == \A r \in Answerable : []<>(r \notin pending)

(* What the code says of itself and does not do *)

\* enrich.py:75-77: oldest first does not revisit the same head of the queue
\* in every run: every record gets asked about.
EveryRecordAsked == \A r \in Answerable : <>(r \notin pending)
===================================================================================
