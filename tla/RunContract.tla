----------------------------- MODULE RunContract ------------------------------
(***************************************************************************)
(* What phase 2 promises of a run, with no topics, offsets, consumers or   *)
(* transactions in it: a run publishes records while it is being           *)
(* extracted; every record is settled at some time, by a row in the        *)
(* catalogue or by an entry on the dead-letter topic; and the run becomes  *)
(* a success only when everything it published has been settled            *)
(* (load_consumer.py:117-122: "a run must not be complete while its        *)
(* records are still in this list").                                       *)
(***************************************************************************)
CONSTANTS Runs, Records

VARIABLES
  status,      \* of each run
  published,   \* <<run, record>> produced to books.raw
  settled      \* <<run, record>> loaded, or parked on the dead-letter topic

vars == <<status, published, settled>>

Of(r, pairs) == {x \in pairs : x[1] = r}

Init ==
  /\ status = [r \in Runs |-> "none"]
  /\ published = {}
  /\ settled = {}

\* A run opens; runs left open long enough to be taken for dead are failed.
Open(r) ==
  /\ status[r] = "none"
  /\ \E stale \in SUBSET {q \in Runs : status[q] = "running"} :
       status' = [q \in Runs |-> IF q = r THEN "running"
                                 ELSE IF q \in stale THEN "failed" ELSE status[q]]
  /\ UNCHANGED <<published, settled>>

\* Only an open run publishes; one that was taken for dead may still be at it.
Publish(r, b) ==
  /\ status[r] \in {"running", "failed"}
  /\ published' = published \cup {<<r, b>>}
  /\ UNCHANGED <<status, settled>>

Settle(r, b) ==
  /\ <<r, b>> \in published
  /\ settled' = settled \cup {<<r, b>>}
  /\ UNCHANGED <<status, published>>

\* Extraction is over: from here on the run publishes nothing.
HandOver(r) ==
  /\ status[r] = "running"
  /\ status' = [status EXCEPT ![r] = "processing"]
  /\ UNCHANGED <<published, settled>>

Fail(r) ==
  /\ status[r] \in {"running", "failed"}
  /\ status' = [status EXCEPT ![r] = "failed"]
  /\ UNCHANGED <<published, settled>>

Close(r) ==
  /\ status[r] = "processing"
  /\ Of(r, published) \subseteq settled
  /\ status' = [status EXCEPT ![r] = "success"]
  /\ UNCHANGED <<published, settled>>

Next ==
  \/ \E r \in Runs : Open(r) \/ HandOver(r) \/ Fail(r) \/ Close(r)
  \/ \E r \in Runs, b \in Records : Publish(r, b) \/ Settle(r, b)

Spec == Init /\ [][Next]_vars
===============================================================================
