------------------------------ MODULE MCGoodreads ------------------------------
(***************************************************************************)
(* Everything that asks Goodreads, on small instances, one component in    *)
(* each behaviour: `part` says which one moves, the others stay as they    *)
(* began.  Two DAGs remember refusals; a client asks for its pages; the    *)
(* facts of a page are stored and replayed; a backlog is worked off in     *)
(* slices.                                                                 *)
(***************************************************************************)
EXTENDS GoodreadsRuns, GoodreadsClient, GoodreadsEvidence

CONSTANTS early, later, stuck

VARIABLES part, order, pending, batch, running, arrivals

backlogVars == <<order, pending, batch, running, arrivals>>
all == <<part, runsVars, clientVars, evidenceVars, backlogVars>>

\* Ingestion runs once, the other is tried again.
RetriesOf == [d \in Dags |-> IF d = "ingestion" THEN 0 ELSE 1]

\* Three records, one of which brings nothing, in slices of two.
Q == INSTANCE GoodreadsQueue WITH
  Records <- {early, later, stuck}, Answerable <- {early, later}, Slice <- 2, MaxArrivals <- 2

ASSUME ClientAssumption /\ EvidenceAssumption /\ Q!QueueAssumption

\* One beginning of those there are, when it is not their turn.
NoFacts == card = {} /\ bookPage = {} /\ editions = {}
InOrder == order = <<early, later, stuck>>

GoodreadsInit ==
  /\ part \in {"runs", "client", "evidence", "backlog"}
  /\ RunsInit /\ ClientInit /\ EvidenceInit /\ Q!Init
  /\ part = "evidence" \/ NoFacts
  /\ part = "backlog" \/ InOrder

Remembering == part = "runs" /\ RunsNext /\ UNCHANGED <<part, clientVars, evidenceVars, backlogVars>>
Reading == part = "evidence" /\ EvidenceNext /\ UNCHANGED <<part, runsVars, clientVars, backlogVars>>

Others == UNCHANGED <<part, runsVars, evidenceVars, backlogVars>>
Asks(p) == part = "client" /\ Asking(p) /\ Others
Replies(p) == part = "client" /\ Reply(p) /\ Others
Goes == part = "client" /\ Going /\ Others
Begins ==
  /\ part = "client" /\ Others
  /\ \/ \E way \in Ways, q \in Queries : Take(q, way)
     \/ NextBatch
     \/ \E q \in Queries : Expire(q)

Aside == UNCHANGED <<part, runsVars, clientVars, evidenceVars>>
Begin == part = "backlog" /\ Q!Begin /\ Aside
End == part = "backlog" /\ Q!End /\ Aside
Complete(r) == part = "backlog" /\ Q!Complete /\ Head(batch) = r /\ Aside
Unchanged(r) == part = "backlog" /\ Q!Unchanged /\ Head(batch) = r /\ Aside
Arrive(r) == part = "backlog" /\ Q!Arrive(r) /\ Aside

GoodreadsNext ==
  \/ Remembering \/ Reading \/ Begins \/ Goes
  \/ Begin \/ End \/ \E r \in {early, later, stuck} : Complete(r) \/ Unchanged(r) \/ Arrive(r)
  \/ \E p \in Calls : Asks(p) \/ Replies(p)

GoodreadsSpec ==
  /\ GoodreadsInit /\ [][GoodreadsNext]_all
  /\ WF_all(Goes) /\ \A p \in Calls : WF_all(Asks(p)) /\ WF_all(Replies(p))
  /\ WF_all(Begin) /\ WF_all(End)
  /\ \A r \in {early, later} : SF_all(Complete(r))
  /\ \A r \in {early, later, stuck} : SF_all(Unchanged(r))

\* As in GoodreadsQueue, of a slice that holds what brings nothing and more.
BacklogDrains == part = "backlog" => Q!BacklogDrains

(***************************************************************************)
(* What the repository says and its code does not do: each of these, put   *)
(* alone in place of the properties of GoodreadsHolds.cfg, is violated:    *)
(* RefusalRemembered of GoodreadsRuns; NothingSentOnceOpen,                *)
(* NoMatchMeansAnswered and NoCallLostToTheLoop of GoodreadsClient;        *)
(* RicherSurvives of GoodreadsEvidence.                                    *)
(***************************************************************************)
===============================================================================
