------------------------------ MODULE LoadContract ------------------------------
(***************************************************************************)
(* What the load consumers promise together, with no batches, tallies,     *)
(* positions, transactions or members of the group in it: what is written  *)
(* stays; a partition reports the end of a run when all that the run has   *)
(* on it is written; a run closes when every partition reported; and an    *)
(* offset moves forward only, over written records and reported ends       *)
(* (load_consumer.py:117-122).                                             *)
(***************************************************************************)
EXTENDS Naturals, Sequences

CONSTANTS
  Runs, Partitions,
  Feed,      \* partition -> its events
  Boundary   \* the body of the end of a run

VARIABLES
  written,   \* records with an effect that outlives their consumer
  reported,  \* <<run, partition>>
  closed,    \* runs
  passed     \* partition -> offset

vars == <<written, reported, closed, passed>>

Init ==
  /\ written = {} /\ reported = {} /\ closed = {}
  /\ passed = [p \in Partitions |-> 0]

Write ==
  /\ UNCHANGED <<passed, closed, reported>>
  /\ written \subseteq written'

OnlyWritten(r, p) ==
  \A i \in 1..Len(Feed[p]) : Feed[p][i].run = r => Feed[p][i].body = Boundary \/ Feed[p][i] \in written

\* Who reports the last partitions, or finds them reported, may close the run.
Report(r, ps) ==
  /\ \A p \in ps : OnlyWritten(r, p)
  /\ reported' = reported \cup {<<r, p>> : p \in ps}
  /\ \/ UNCHANGED closed
     \/ closed' = closed \cup {r} /\ \A p \in Partitions : <<r, p>> \in reported'
  /\ UNCHANGED <<written, passed>>

Over(p, i) ==
  IF Feed[p][i].body = Boundary THEN <<Feed[p][i].run, p>> \in reported ELSE Feed[p][i] \in written

Acknowledge ==
  /\ \A p \in Partitions :
       /\ passed'[p] \in passed[p]..Len(Feed[p])
       /\ \A i \in 1..passed'[p] : Over(p, i)
  /\ UNCHANGED <<written, reported, closed>>

Next ==
  \/ Write \/ Acknowledge
  \/ \E r \in Runs, ps \in SUBSET Partitions : Report(r, ps)

Spec == Init /\ [][Next]_vars
================================================================================
