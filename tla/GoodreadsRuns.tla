------------------------------ MODULE GoodreadsRuns ------------------------------
(***************************************************************************)
(* Runs of the DAGs that use Goodreads and what they remember of a refusal *)
(* across runs (source_health.py, enrich.py, contested.py, ingest.py and   *)
(* the Goodreads DAGs).  Every run is a process of its own with a circuit  *)
(* of its own (GoodreadsClient); source_runs is all that they share.       *)
(*                                                                         *)
(* One request of a run is one Ask: the client's retries are inside it.    *)
(* Time passes in ticks, and any number of steps fit in a tick.            *)
(***************************************************************************)
EXTENDS Integers, FiniteSets

CONSTANTS
  Dags,        \* "enrichment", "contested" and "ingestion", or some of them
  Cooldown,    \* goodreads_cooldown_minutes, in ticks
  Retries,     \* DAG -> Airflow's retries of the task
  MaxRecords,  \* bound: records of a run
  MaxTime      \* bound: the last tick

ASSUME RunsAssumption ==
  /\ Dags \subseteq {"enrichment", "contested", "ingestion"}
  /\ Cooldown \in Nat
  /\ Retries \in [Dags -> Nat]
  /\ MaxRecords \in Nat \ {0}
  /\ MaxTime \in Nat

VARIABLES
  now,       \* the tick
  refusals,  \* finished_at of the source_runs rows with status refused
  task,      \* DAG -> its task and the circuit of the run it is in
  known,     \* history: when runs that recorded a refusal closed
  met        \* history: when runs that met a refusal ended, recorded or not

runsVars == <<now, refusals, task, known, met>>

Phases == {"idle", "running", "closing", "done"}
Task == [phase: Phases, left: 0..MaxRecords, opened: BOOLEAN, refused: BOOLEAN,
         reported: BOOLEAN, started: 0..MaxTime, tries: Nat]
NewTask(d) == [phase |-> "idle", left |-> 0, opened |-> FALSE, refused |-> FALSE,
               reported |-> FALSE, started |-> 0, tries |-> Retries[d]]

RunsTypeOK ==
  /\ now \in 0..MaxTime
  /\ refusals \subseteq 0..MaxTime
  /\ task \in [Dags -> Task]
  /\ known \subseteq met
  /\ \A d \in Dags : task[d].refused => task[d].opened

RunsInit ==
  /\ now = 0
  /\ refusals = {}
  /\ task = [d \in Dags |-> NewTask(d)]
  /\ known = {}
  /\ met = {}

(***************************************************************************)
(* source_health.py                                                        *)
(***************************************************************************)

\* MUTANT of Recorded: dated from the start of the run.
DatedFromStart(d) == refusals' = refusals \cup {task[d].started}

\* record_refusal
Recorded(d) == refusals' = refusals \cup {now}

\* ensure_not_cooling_down
CoolingDown == Cooldown > 0 /\ \E t \in refusals : t >= now - Cooldown

(***************************************************************************)
(* A task                                                                  *)
(***************************************************************************)

\* The check, in the transaction that opens the run.  Ingestion goes on
\* without the source, the other two end here.
Start(d) ==
  /\ task[d].phase = "idle"
  /\ \/ /\ CoolingDown
        /\ task' = [task EXCEPT ![d] = [NewTask(d) EXCEPT !.phase = "done"]]
     \/ /\ ~CoolingDown
        /\ \E n \in 1..MaxRecords :
             task' = [task EXCEPT ![d] = [@ EXCEPT !.phase = "running", !.left = n, !.started = now,
                                          !.opened = FALSE, !.refused = FALSE, !.reported = FALSE]]
  /\ UNCHANGED <<now, refusals, known, met>>

CanAsk(d) == task[d].phase = "running" /\ task[d].left > 0 /\ ~task[d].opened

\* One record is asked about; a refusal opens the circuit, a source that
\* fails may open it too.
Ask(d) ==
  /\ CanAsk(d)
  /\ \E opens, refusal \in BOOLEAN :
       /\ refusal => opens
       /\ task' = [task EXCEPT ![d].left = @ - 1, ![d].opened = opens, ![d].refused = refusal]
  /\ UNCHANGED <<now, refusals, known, met>>

\* MUTANT of StopAtCircuit: any open circuit is reported as a refusal.
StopAsRefused(d) ==
  /\ d # "ingestion"
  /\ task[d].phase = "running" /\ task[d].left > 0 /\ task[d].opened
  /\ task' = [task EXCEPT ![d].phase = "closing", ![d].reported = TRUE]
  /\ UNCHANGED <<now, refusals, known, met>>

\* The loop looks at the circuit before a record, and stops.
StopAtCircuit(d) ==
  /\ d # "ingestion"
  /\ task[d].phase = "running" /\ task[d].left > 0 /\ task[d].opened
  /\ task' = [task EXCEPT ![d].phase = "closing", ![d].reported = task[d].refused]
  /\ UNCHANGED <<now, refusals, known, met>>

\* Ingestion goes on without the source: the resolver skips it.
SkipSource ==
  \E d \in Dags \cap {"ingestion"} :
    /\ task[d].phase = "running" /\ task[d].left > 0 /\ task[d].opened
    /\ task' = [task EXCEPT ![d].left = @ - 1]
    /\ UNCHANGED <<now, refusals, known, met>>

\* The loop is through.
NoneLeft(d) ==
  /\ task[d].phase = "running" /\ task[d].left = 0
  /\ task' = [task EXCEPT ![d].phase = "closing",
                          ![d].reported = IF d = "ingestion" THEN task[d].refused ELSE @]
  /\ UNCHANGED <<now, refusals, known, met>>

\* enrich_max_run_seconds is spent; it is looked at before the circuit.
BudgetSpent ==
  \E d \in Dags \cap {"enrichment"} :
    /\ task[d].phase = "running" /\ task[d].left > 0
    /\ task' = [task EXCEPT ![d].phase = "closing"]
    /\ UNCHANGED <<now, refusals, known, met>>

Met(d) == met' = IF task[d].refused THEN met \cup {now} ELSE met

\* The transaction that closes the run.
Close(d) ==
  /\ task[d].phase = "closing"
  /\ \/ /\ task[d].reported
        /\ Recorded(d)
        /\ known' = known \cup {now}
     \/ /\ ~task[d].reported
        /\ UNCHANGED <<refusals, known>>
  /\ Met(d)
  /\ task' = [task EXCEPT ![d] = [NewTask(d) EXCEPT !.phase = "done"]]
  /\ UNCHANGED now

\* A load, a query or the closing transaction fails, or Airflow's timeout ends the
\* task: the run is closed as failed, or left, and Airflow tries again while it may.
Fail(d) ==
  /\ task[d].phase \in {"running", "closing"}
  /\ Met(d)
  /\ LET again == task[d].tries > 0
     IN task' = [task EXCEPT ![d] = [NewTask(d) EXCEPT !.phase = IF again THEN "idle" ELSE "done",
                                                       !.tries = IF again THEN task[d].tries - 1 ELSE 0]]
  /\ UNCHANGED <<now, refusals, known>>

\* The next interval of the schedule.
Interval(d) ==
  /\ task[d].phase = "done"
  /\ task' = [task EXCEPT ![d] = NewTask(d)]
  /\ UNCHANGED <<now, refusals, known, met>>

Tick == now < MaxTime /\ now' = now + 1 /\ UNCHANGED <<refusals, task, known, met>>

RunsNext ==
  \/ \E d \in Dags : Start(d) \/ Ask(d) \/ StopAtCircuit(d) \/ NoneLeft(d) \/ Close(d) \/ Fail(d) \/ Interval(d)
  \/ SkipSource
  \/ BudgetSpent
  \/ Tick

RunsSpec == RunsInit /\ [][RunsNext]_runsVars

(***************************************************************************)
(* Properties                                                              *)
(***************************************************************************)

Starts(d) == task[d].phase = "idle" /\ task'[d].phase = "running"

\* No run of any DAG starts to ask within the cooldown of a refusal that was
\* written down, measured from the end of the run that met it.
RecordedRefusalHolds ==
  [][\A d \in Dags : Starts(d) => \A t \in known : t + Cooldown < now]_runsVars

\* What a run writes down as refused is what its circuit said: a source that
\* only failed keeps nobody away.
OnlyRefusalsKeepAway == \A t \in refusals : t \in met

(* What the code says of itself and does not do *)

\* goodreads.py:23-27: a refusal is written to source_runs, so that the next
\* run does not discover it again.
RefusalRemembered ==
  [][\A d \in Dags : Starts(d) => \A t \in met : t + Cooldown < now]_runsVars
==================================================================================
