----------------------------- MODULE GoodreadsClient -----------------------------
(***************************************************************************)
(* The Goodreads adapter (extract/goodreads.py): _get with its gate, its   *)
(* two retry budgets and the circuit breaker of the run, and the two ways  *)
(* it is used, resolve() for a title or an ISBN and enrich_by_id() for a   *)
(* record that has a Goodreads id.  Candidates are taken one at a time     *)
(* (the resolver's gate, the loops of enrich.py and contested.py), but     *)
(* resolve() asks for the two pages of a book together.                    *)
(*                                                                         *)
(* ingest.py opens an event loop for every batch of candidates and keeps   *)
(* the adapter: a batch is a loop here.  What is between two awaits is one *)
(* step.  The token bucket only adds time inside the gate.                 *)
(***************************************************************************)
EXTENDS Naturals, Sequences, FiniteSets

CONSTANTS
  Queries,          \* cache keys of the candidates
  Threshold,        \* goodreads_circuit_failure_threshold
  TransientRetries, \* goodreads_transient_retries
  BlockRetries,     \* goodreads_block_retries
  MaxDetail,        \* MAX_DETAIL_ATTEMPTS
  Batches,          \* bound: batches of a run, an event loop each
  BatchLen,         \* bound: candidates of a batch
  Ways              \* which of "resolve" and "byId" the run uses

ClientAssumption ==
  /\ Threshold \in Nat \ {0}
  /\ TransientRetries \in Nat
  /\ BlockRetries \in Nat
  /\ MaxDetail \in Nat \ {0}
  /\ Batches \in Nat \ {0}
  /\ BatchLen \in Nat \ {0}
  /\ Ways \subseteq {"resolve", "byId"}

VARIABLES
  loop,      \* the event loop that runs: one per batch
  left,      \* candidates left in the batch
  gate,      \* the call that holds the one-in-flight gate
  gateLoop,  \* the loop the gate was bound to by its first wait
  call,      \* Calls -> where _get is
  circuit,   \* _CircuitBreaker
  cache,     \* queries whose answer is cached
  cand,      \* the candidate in hand
  late,      \* history: requests sent after the circuit opened
  pushed     \* history: the hardest the source has pushed back

clientVars == <<loop, left, gate, gateLoop, call, circuit, cache, cand, late, pushed>>

\* The pages _get is asked for.
Calls == {"search", "book", "work"}

Nobody == "nobody"
\* Ends of a call that got no answer about its page.
Failed == {"unavailable", "error"}
Steps == {"none", "waiting", "inflight", "holding", "pausing", "ended"}
Answers == {"none", "page", "thin", "missing"} \cup Failed
Call == [step: Steps, transient: Nat, blocked: Nat, sent: Nat, answer: Answers]
NoCall == [step |-> "none", transient |-> 0, blocked |-> 0, sent |-> 0, answer |-> "none"]

\* A candidate of the search: one that does not validate, one without a work id.
Cards == {"rejected", "bookonly", "full"}
Outcomes == {"none", "resolved", "no_match", "unavailable", "skipped", "unchanged"}
NoCand == [way |-> "none", query |-> "none", phase |-> "idle", cards |-> <<>>,
           outcome |-> "none", failed |-> FALSE]

ClientTypeOK ==
  /\ loop \in 1..Batches
  /\ left \in 0..BatchLen
  /\ gate \in Calls \cup {Nobody}
  /\ gateLoop \in 0..Batches
  /\ call \in [Calls -> Call]
  /\ circuit \in [failures: Nat, opened: BOOLEAN, refused: BOOLEAN]
  /\ cache \subseteq Queries
  /\ cand.phase \in {"idle", "search", "detail", "work", "done"}
  /\ cand.outcome \in Outcomes
  /\ Len(cand.cards) <= MaxDetail
  /\ late \in Nat
  /\ pushed \in {"no", "blocked", "denied"}
  /\ gate # Nobody => call[gate].step \in {"inflight", "holding"}

ClientInit ==
  /\ loop = 1
  /\ left = BatchLen
  /\ gate = Nobody
  /\ gateLoop = 0
  /\ call = [p \in Calls |-> NoCall]
  /\ circuit = [failures |-> 0, opened |-> FALSE, refused |-> FALSE]
  /\ cache = {}
  /\ cand = NoCand
  /\ late = 0
  /\ pushed = "no"

(***************************************************************************)
(* _CircuitBreaker                                                         *)
(***************************************************************************)

record_failure(refusal) ==
  LET n == circuit.failures + 1
  IN IF n >= Threshold /\ ~circuit.opened
     THEN [failures |-> n, opened |-> TRUE, refused |-> refusal]
     ELSE [circuit EXCEPT !.failures = n]

trip == [circuit EXCEPT !.opened = TRUE, !.refused = TRUE]

record_success == [circuit EXCEPT !.failures = 0]

(***************************************************************************)
(* The gate: asyncio.Semaphore(1), bound to a loop by the first acquire    *)
(* that has to wait.                                                       *)
(***************************************************************************)

Locked(p, g, c) == g # Nobody \/ \E q \in Calls \ {p} : c[q].step = "waiting"

Sent(s) == [s EXCEPT !.step = "inflight", !.sent = @ + 1]
Raised(p, s, c) == [q \in Calls |-> IF q = p THEN [s EXCEPT !.step = "ended", !.answer = "error"] ELSE c[q]]
Late == late' = late + (IF circuit.opened THEN 1 ELSE 0)

\* Call p, in state s, asks for the gate when g holds it and the calls are c.
Acquire(p, s, g, c) ==
  \/ /\ ~Locked(p, g, c)
     /\ gate' = p
     /\ call' = [c EXCEPT ![p] = Sent(s)]
     /\ Late
     /\ UNCHANGED gateLoop
  \/ /\ Locked(p, g, c)
     /\ gateLoop \in {0, loop}
     /\ gate' = g
     /\ gateLoop' = loop
     /\ call' = [c EXCEPT ![p] = [s EXCEPT !.step = "waiting"]]
     /\ UNCHANGED late
  \/ /\ Locked(p, g, c)
     /\ gateLoop \notin {0, loop}          \* RuntimeError: another event loop
     /\ gate' = g
     /\ call' = Raised(p, s, c)
     /\ UNCHANGED <<gateLoop, late>>

Ended(p, answer) == [call EXCEPT ![p].step = "ended", ![p].answer = answer]

(***************************************************************************)
(* _get                                                                    *)
(***************************************************************************)

NoCalls == [p \in Calls |-> NoCall]
Silent == UNCHANGED <<gate, gateLoop, call, late>>

\* MUTANT of Refuses: only a threshold of failures stops a call.
RefusesLate == circuit.failures >= Threshold

\* What a call looks at first, and never again.
Refuses == circuit.opened

Refused(c, ps) ==
  /\ call' = [p \in Calls |-> IF p \in ps THEN [NoCall EXCEPT !.step = "ended", !.answer = "unavailable"]
                              ELSE c[p]]
  /\ UNCHANGED <<gate, gateLoop, late>>

\* Call p begins and finds the gate free.
StartOne(c, p) ==
  \/ Refuses /\ Refused(c, {p})
  \/ ~Refuses /\ Acquire(p, NoCall, gate, c)

\* gather(): both look at the circuit, and the second waits for the first.
StartBoth ==
  \/ Refuses /\ Refused(NoCalls, {"book", "work"})
  \/ ~Refuses /\ Acquire("work", NoCall, "book", [NoCalls EXCEPT !["book"] = Sent(NoCall)])

\* The pause is over: ask for the gate again.
Resume(p) ==
  /\ call[p].step = "pausing"
  /\ Acquire(p, call[p], gate, call)
  /\ UNCHANGED <<loop, left, circuit, cache, cand, pushed>>

\* The gate is handed to a call that waits.
Grant(p) ==
  /\ call[p].step = "waiting"
  /\ gate = Nobody
  /\ gate' = p
  /\ call' = [call EXCEPT ![p] = Sent(@)]
  /\ Late
  /\ UNCHANGED <<loop, left, gateLoop, circuit, cache, cand, pushed>>

\* MUTANT of TransportFailure: the last one leaves without the gate's release.
TransportKeepsGate(p) ==
  /\ call[p].step = "inflight"
  /\ \/ /\ call[p].transient >= TransientRetries
        /\ circuit' = record_failure(FALSE)
        /\ call' = Ended(p, "unavailable")
     \/ /\ call[p].transient < TransientRetries
        /\ call' = [call EXCEPT ![p].transient = @ + 1, ![p].step = "holding"]
        /\ UNCHANGED circuit
  /\ UNCHANGED <<loop, left, gate, gateLoop, cache, cand, late, pushed>>

\* A transport failure is waited out inside the gate.
TransportFailure(p) ==
  /\ call[p].step = "inflight"
  /\ \/ /\ call[p].transient >= TransientRetries
        /\ circuit' = record_failure(FALSE)
        /\ call' = Ended(p, "unavailable")
        /\ gate' = Nobody
     \/ /\ call[p].transient < TransientRetries
        /\ call' = [call EXCEPT ![p].transient = @ + 1, ![p].step = "holding"]
        /\ UNCHANGED <<circuit, gate>>
  /\ UNCHANGED <<loop, left, gateLoop, cache, cand, late, pushed>>

HoldingOver(p) ==
  /\ call[p].step = "holding"
  /\ Acquire(p, call[p], Nobody, call)
  /\ UNCHANGED <<loop, left, circuit, cache, cand, pushed>>

\* A page, useful or with nothing that parses.
Good(p) ==
  /\ call[p].step = "inflight"
  /\ gate' = Nobody
  /\ circuit' = record_success
  /\ \E a \in {"page", "thin"} : call' = Ended(p, a)
  /\ UNCHANGED <<loop, left, gateLoop, cache, cand, late, pushed>>

\* 401, 403, 429 or a challenge page.
Denied(p) ==
  /\ call[p].step = "inflight"
  /\ gate' = Nobody
  /\ circuit' = trip
  /\ pushed' = "denied"
  /\ call' = Ended(p, "unavailable")
  /\ UNCHANGED <<loop, left, gateLoop, cache, cand, late>>

\* Another 4xx: about the page, not counted.
Missing(p) ==
  /\ call[p].step = "inflight"
  /\ gate' = Nobody
  /\ call' = Ended(p, "missing")
  /\ UNCHANGED <<loop, left, gateLoop, circuit, cache, cand, late, pushed>>

\* A 2xx with nothing in it, waited out on a budget of its own.
Blocked(p) ==
  /\ call[p].step = "inflight"
  /\ gate' = Nobody
  /\ \/ /\ call[p].blocked >= BlockRetries
        /\ circuit' = record_failure(TRUE)
        /\ pushed' = IF pushed = "no" THEN "blocked" ELSE pushed
        /\ call' = Ended(p, "unavailable")
     \/ /\ call[p].blocked < BlockRetries
        /\ call' = [call EXCEPT ![p].blocked = @ + 1, ![p].step = "pausing"]
        /\ UNCHANGED <<circuit, pushed>>
  /\ UNCHANGED <<loop, left, gateLoop, cache, cand, late>>

\* A 5xx, waited out outside the gate.
Busy(p) ==
  /\ call[p].step = "inflight"
  /\ gate' = Nobody
  /\ \/ /\ call[p].transient >= TransientRetries
        /\ circuit' = record_failure(FALSE)
        /\ call' = Ended(p, "unavailable")
     \/ /\ call[p].transient < TransientRetries
        /\ call' = [call EXCEPT ![p].transient = @ + 1, ![p].step = "pausing"]
        /\ UNCHANGED circuit
  /\ UNCHANGED <<loop, left, gateLoop, cache, cand, late, pushed>>

(***************************************************************************)
(* resolve() and enrich_by_id()                                            *)
(***************************************************************************)

Failures == \E p \in Calls : call[p].answer \in Failed
Finish(outcome) ==
  /\ cand' = [cand EXCEPT !.phase = "done", !.outcome = outcome, !.failed = @ \/ Failures]
  /\ Silent
Answered(ps) == \A p \in ps : call[p].step = "ended"
Asked == {p \in Calls : call[p].step # "none"}

\* A candidate is taken; with the circuit open every caller skips it.
Take(q, way) ==
  /\ cand.phase = "idle"
  /\ left > 0
  /\ left' = left - 1
  /\ LET c == [NoCand EXCEPT !.way = way, !.query = q]
     IN \/ /\ circuit.opened
           /\ cand' = [c EXCEPT !.phase = "done", !.outcome = "skipped"]
           /\ Silent
        \/ /\ ~circuit.opened /\ way = "resolve" /\ q \in cache
           /\ cand' = [c EXCEPT !.phase = "done", !.outcome = "resolved"]
           /\ Silent
        \/ /\ ~circuit.opened /\ way = "resolve" /\ q \notin cache
           /\ cand' = [c EXCEPT !.phase = "search"]
           /\ StartOne(NoCalls, "search")
        \/ /\ ~circuit.opened /\ way = "byId"
           /\ cand' = [c EXCEPT !.phase = "detail"]
           /\ StartOne(NoCalls, "book")
  /\ UNCHANGED <<loop, circuit, cache, pushed>>

\* _enrich for the first card that validates: both pages at once.
Detail(cards) ==
  LET ok == {i \in DOMAIN cards : cards[i] # "rejected"}
      first == CHOOSE i \in ok : \A j \in ok : i <= j
  IN \/ /\ ok = {}
        /\ Finish("no_match")
     \/ /\ ok # {}
        /\ cand' = [cand EXCEPT !.phase = "detail", !.failed = @ \/ Failures,
                                !.cards = SubSeq(cards, first + 1, Len(cards))]
        /\ IF cards[first] = "full" THEN StartBoth ELSE StartOne(NoCalls, "book")

\* autocomplete and _rank: the cards that are worth a detail request.
SearchAnswered ==
  /\ cand.phase = "search"
  /\ Answered({"search"})
  /\ \/ /\ call["search"].answer \in {"unavailable", "missing"}
        /\ Finish("unavailable")
        /\ UNCHANGED circuit
     \/ /\ call["search"].answer = "thin"           \* not JSON
        /\ circuit' = record_failure(FALSE)
        /\ Finish("unavailable")
     \/ /\ call["search"].answer = "page"
        /\ \E n \in 0..MaxDetail : \E cards \in [1..n -> Cards] : Detail(cards)
        /\ UNCHANGED circuit
  /\ UNCHANGED <<loop, left, cache, pushed>>

PagesAnswered ==
  /\ cand.way = "resolve"
  /\ cand.phase = "detail"
  /\ Answered(Asked)
  /\ \/ /\ \E p \in Asked : call[p].answer = "page"
        /\ cache' = cache \cup {cand.query}
        /\ Finish("resolved")
     \/ /\ \A p \in Asked : call[p].answer # "page"
        /\ Detail(cand.cards)
        /\ UNCHANGED cache
  /\ UNCHANGED <<loop, left, circuit, pushed>>

\* enrich_by_id: the editions page only when the book page withheld a field.
BookAnswered ==
  /\ cand.way = "byId"
  /\ cand.phase = "detail"
  /\ Answered({"book"})
  /\ \/ /\ call["book"].answer \in Failed \cup {"missing", "thin"}
        /\ Finish("unchanged")
     \/ /\ call["book"].answer = "page"
        /\ Finish("resolved")
     \/ /\ call["book"].answer \in {"page", "thin"}
        /\ cand' = [cand EXCEPT !.phase = "work"]
        /\ StartOne(call, "work")
  /\ UNCHANGED <<loop, left, circuit, cache, pushed>>

WorkAnswered ==
  /\ cand.phase = "work"
  /\ Answered({"work"})
  /\ Finish(IF "page" \in {call["book"].answer, call["work"].answer} THEN "resolved" ELSE "unchanged")
  /\ UNCHANGED <<loop, left, circuit, cache, pushed>>

\* The caller records the outcome and goes on.
AttemptRecorded ==
  /\ cand.phase = "done"
  /\ cand' = NoCand
  /\ call' = NoCalls
  /\ UNCHANGED <<loop, left, gate, gateLoop, circuit, cache, late, pushed>>

NextBatch ==
  /\ cand.phase = "idle"
  /\ left = 0
  /\ loop < Batches
  /\ loop' = loop + 1
  /\ left' = BatchLen
  /\ UNCHANGED <<gate, gateLoop, call, circuit, cache, cand, late, pushed>>

\* A cached answer reaches its time to live.
Expire(q) ==
  /\ q \in cache
  /\ cand.phase = "idle"
  /\ cache' = cache \ {q}
  /\ UNCHANGED <<loop, left, gate, gateLoop, call, circuit, cand, late, pushed>>

Asking(p) == Resume(p) \/ Grant(p) \/ HoldingOver(p)
Reply(p) == TransportFailure(p) \/ Good(p) \/ Denied(p) \/ Missing(p) \/ Blocked(p) \/ Busy(p)
Going == SearchAnswered \/ PagesAnswered \/ BookAnswered \/ WorkAnswered \/ AttemptRecorded

ClientNext ==
  \/ \E q \in Queries, way \in Ways : Take(q, way)
  \/ \E p \in Calls : Asking(p) \/ Reply(p)
  \/ Going
  \/ NextBatch
  \/ \E q \in Queries : Expire(q)

\* Every request has a hard timeout and every pause an end.
Fairness == \A p \in Calls : WF_clientVars(Asking(p)) /\ WF_clientVars(Reply(p))

ClientSpec == ClientInit /\ [][ClientNext]_clientVars /\ Fairness /\ WF_clientVars(Going)

(***************************************************************************)
(* Properties                                                              *)
(***************************************************************************)

\* A page is asked for at most once per retry of each budget and once more:
\* the two budgets do not feed each other.
TriesBounded == \A p \in Calls : call[p].sent <= 1 + TransientRetries + BlockRetries

\* What can still be sent once the circuit is open is the tries of one page
\* that was under way beside the one that opened it.
LateBounded == late <= 1 + TransientRetries + BlockRetries

\* Only a source that pushed back is said to have refused, whatever mix of
\* failures opened the circuit, and a denial always is.
RefusedIsTheirs ==
  /\ circuit.refused => pushed # "no"
  /\ pushed = "denied" => circuit.refused

\* The circuit never closes, and no later event takes a refusal back.
OpenForTheRun ==
  [][circuit.opened => circuit'.opened /\ (circuit.refused => circuit'.refused)]_clientVars

\* Every candidate comes to an outcome.
CandidateEnds == (cand.phase # "idle") ~> (cand.phase = "idle")

(* What the code says of itself and does not do *)

\* goodreads.py:127-129: once open, nothing more is asked of the source.
NothingSentOnceOpen == late = 0

\* resolver.py:64-67: no_match says that the source answered.
NoMatchMeansAnswered == cand.outcome = "no_match" => ~cand.failed

\* resolver.py:185-187: a primitive that outlives a loop must not be bound to it.
NoCallLostToTheLoop == \A p \in Calls : call[p].answer # "error"
=================================================================================
