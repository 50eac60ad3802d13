------------------------------- MODULE MCStreams -------------------------------
(***************************************************************************)
(* The pipeline on two instances in a run, or beside its markers alone:    *)
(* `part` says which of them a behaviour is about.                         *)
(***************************************************************************)
EXTENDS MCStreamPipeline

VARIABLE part

pipelineVars == <<dagVars, log, committed, consumerVars, storeVars, crashes>>

(* Two runs, before the second transform has started; one run with both, of  *)
(* a record that is parked and one that cannot be decoded; or the markers,   *)
(* delivered in any order.                                                   *)

Rejecting == INSTANCE StreamPipeline WITH
  Publishes <- AllRecords, TransformRejects <- {o1}, LoadRejects <- {}, Undecodable <- {o2}
Delivered == INSTANCE RunMarkers WITH Consumers <- {t1, l1}

TwoRunsInit == part \in {"two runs", "rejects", "markers"} /\ Init

TwoRunsNext ==
  /\ UNCHANGED part
  /\ \/ /\ part = "two runs"
        /\ (\E r \in Runs : DagStep(r)) \/ \E c \in {t1, l1} : Work(c) \/ Crash(c)
     \/ /\ part = "rejects"
        /\ Rejecting!DagStep(r1) \/ \E c \in Consumers : Rejecting!Work(c) \/ Rejecting!Crash(c)
     \/ part = "markers" /\ Delivered!MarkersNext /\ UNCHANGED pipelineVars

TwoRunsSpec == TwoRunsInit /\ [][TwoRunsNext]_<<part, vars>>

\* As in StreamPipeline, of whichever instance it is.
NothingLostHere == IF part = "rejects" THEN Rejecting!NothingLost ELSE NothingLost
\* As in StreamPipeline, of whichever instance it is.
BoundaryComesLastHere == IF part = "rejects" THEN Rejecting!BoundaryComesLast ELSE BoundaryComesLast

(* Two records on one partition, or one record whose boundary is retried. *)

Retried == INSTANCE StreamPipeline WITH
  Publishes <- OneRecord, RawPartition <- RawOf, MaxTries <- 2

FairInit == part \in {"together", "retried"} /\ Init

FairWork(c) ==
  /\ UNCHANGED part
  /\ \/ part = "together" /\ Work(c)
     \/ part = "retried" /\ Retried!Work(c)

FairNext ==
  \/ \E c \in Consumers : FairWork(c)
  \/ /\ UNCHANGED part
     /\ \/ part = "together" /\ ((\E r \in Runs : DagStep(r)) \/ \E c \in Consumers : Crash(c))
        \/ part = "retried" /\ ((\E r \in Runs : Retried!DagStep(r)) \/ \E c \in Consumers : Retried!Crash(c))

StreamsFairSpec ==
  FairInit /\ [][FairNext]_<<part, vars>> /\ \A c \in Consumers : WF_<<part, vars>>(FairWork(c))
===============================================================================
