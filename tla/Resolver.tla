------------------------------- MODULE Resolver -------------------------------
(***************************************************************************)
(* Resolution of a manifest (extract/resolver.py, ingest.py): batch after  *)
(* batch, the candidates of a batch go through the hierarchy of sources    *)
(* side by side, each source under a budget of the run, and what became of *)
(* them is accounted for before it is loaded or published.                 *)
(*                                                                         *)
(* Coroutines of one event loop: what a candidate does between two awaits  *)
(* is done at once.  A step here is one source at a time.  One HTTP call   *)
(* and its retries are SourceRequests; the Goodreads adapter is            *)
(* GoodreadsClient.                                                        *)
(***************************************************************************)
EXTENDS Naturals, Sequences, FiniteSets, SequencesExt, FiniteSetsExt, Functions

CONSTANTS
  Manifest,      \* the candidates, a sequence
  Payload,       \* candidate -> the source whose payload discovery retained, or None
  Named,         \* candidate -> discovery_source
  Off,           \* sources with a skip_reason
  Limit,         \* source -> max queries per run
  Concurrency,   \* resolution_concurrency
  BatchSize,     \* RESOLVE_BATCH
  Enrich,        \* enrich_from_documented_sources
  WithGoodreads, \* goodreads_in_resolution
  None

Documented == {"openlibrary", "googlebooks", "gutendex"}
Sources == Documented \cup {"goodreads"}
Candidates == Range(Manifest)

ASSUME ResolverAssumption ==
  /\ Manifest \in Seq(Range(Manifest)) /\ IsInjective(Manifest)
  /\ Payload \in [Candidates -> Sources \cup {None}] /\ None \notin Sources
  /\ Named \in [Candidates -> Sources]
  /\ Off \subseteq Sources
  /\ Limit \in [Documented -> Nat]
  /\ Concurrency \in Nat \ {0} /\ BatchSize \in Nat \ {0}
  /\ Enrich \in BOOLEAN /\ WithGoodreads \in BOOLEAN

VARIABLES
  todo,       \* the candidates that no batch has taken
  batch,      \* those of the batch under way
  at,         \* candidate -> where it is in the hierarchy
  calling,    \* candidates whose call is awaited
  attempts,   \* candidate -> Resolution.attempts, rows [source, no, outcome]
  observed,   \* candidate -> the sources of Resolution.observations
  spent,      \* source -> Budget.spent
  circuit,    \* the Goodreads circuit is open
  stage,      \* of the run: resolving, accounted, ended, failed
  recorded,   \* resolution_attempts of the run
  report,     \* [resolved, unresolved]
  delivered,  \* history: candidates whose observations were loaded or published
  asked,      \* history: source -> calls made
  refused     \* history: sources that said their allowance is spent

resolution == <<at, calling, attempts, observed, spent, circuit, asked, refused>>
progress == <<todo, batch, stage, recorded, report, delivered>>
vars == <<resolution, progress>>

Outcomes == {"resolved", "no_match", "contract_failure", "unavailable", "skipped"}
Attempts == [source: Sources, no: {1, 2}, outcome: Outcomes]
Places == {"waiting", "goodreads", "retained", "openlibrary", "googlebooks", "gutendex", "done"}

TypeOK ==
  /\ IsSuffix(todo, Manifest)
  /\ batch \subseteq Candidates
  /\ at \in [Candidates -> Places]
  /\ calling \subseteq batch
  /\ \A c \in Candidates : attempts[c] \in Seq(Attempts) /\ observed[c] \subseteq Sources
  /\ spent \in [Documented -> Nat] /\ asked \in [Sources -> Nat]
  /\ circuit \in BOOLEAN
  /\ stage \in {"resolving", "accounted", "ended", "failed"}
  /\ recorded \subseteq Candidates \X Attempts
  /\ report.resolved + report.unresolved <= Len(Manifest)
  /\ delivered \subseteq Candidates /\ refused \subseteq Documented

Init ==
  /\ todo = Manifest
  /\ batch = {}
  /\ at = [c \in Candidates |-> "waiting"]
  /\ calling = {}
  /\ attempts = [c \in Candidates |-> <<>>]
  /\ observed = [c \in Candidates |-> {}]
  /\ spent = [s \in Documented |-> 0]
  /\ circuit = FALSE
  /\ stage = "resolving"
  /\ recorded = {}
  /\ report = [resolved |-> 0, unresolved |-> 0]
  /\ delivered = {} /\ refused = {}
  /\ asked = [s \in Sources |-> 0]

(***************************************************************************)
(* The hierarchy                                                           *)
(***************************************************************************)

Resolved(c) == observed[c] # {}

\* Live in resolve, under the semaphore of the batch.
Live == {c \in batch : at[c] \notin {"waiting", "done"}}

\* attempt_no: of a live fallback 2, of all else 1.
No(s) == IF s \in {"openlibrary", "googlebooks"} THEN 2 ELSE 1
Attempt(s, outcome) == [source |-> s, no |-> No(s), outcome |-> outcome]

\* Whether the documented sources are asked about a candidate that has, or has
\* not, an observation.
Asks(found) == Enrich \/ ~found

\* The next place, once c has an observation or has none.
After(place, found) ==
  IF place = "goodreads" THEN "retained"
  ELSE IF place = "openlibrary" THEN "googlebooks"
  ELSE IF place = "gutendex" \/ ~Asks(found) THEN "done"
  ELSE IF place = "retained" THEN "openlibrary" ELSE "gutendex"

\* c leaves its place with this attempt, and with an observation if it resolved.
Leave(c, attempt) ==
  LET found == attempt.outcome = "resolved"
  IN /\ attempts' = [attempts EXCEPT ![c] = Append(@, attempt)]
     /\ observed' = [observed EXCEPT ![c] = IF found THEN @ \cup {attempt.source} ELSE @]
     /\ at' = [at EXCEPT ![c] = After(@, found \/ Resolved(c))]

\* A candidate of the batch gets a place among those in flight.
Start(c) ==
  /\ stage = "resolving"
  /\ c \in batch /\ at[c] = "waiting"
  /\ Cardinality(Live) < Concurrency
  /\ at' = [at EXCEPT ![c] = IF WithGoodreads THEN "goodreads" ELSE "retained"]
  /\ UNCHANGED <<calling, attempts, observed, spent, circuit, asked, refused, progress>>

Promoted(c, outcome) == [source |-> Named[c], no |-> 1, outcome |-> outcome]

\* _try_retained_discovery: the payload is read by the mapper of the source it
\* is said to be of, which reads no other.
Retained(c) ==
  /\ at[c] = "retained"
  /\ \/ Payload[c] = None /\ Leave(c, Promoted(c, "skipped"))
     \/ Payload[c] = Named[c] /\ Leave(c, Promoted(c, "resolved"))
     \/ Payload[c] \notin {None, Named[c]} /\ Leave(c, Promoted(c, "contract_failure"))
  /\ UNCHANGED <<calling, spent, circuit, asked, refused, progress>>

\* MUTANT of Exhausted: one call more.
ExhaustedLate(s) == spent[s] > Limit[s]

\* Budget.try_spend, which fails
Exhausted(s) == spent[s] >= Limit[s]

\* and which succeeds.
try_spend(s) == [spent EXCEPT ![s] = @ + 1]

\* _try_bulk_source before its call: off, out of budget, or asked.
Skip(c) ==
  /\ at[c] \in Documented /\ c \notin calling
  /\ at[c] \in Off \/ Exhausted(at[c])
  /\ Leave(c, Attempt(at[c], "skipped"))
  /\ UNCHANGED <<calling, spent, circuit, asked, refused, progress>>

Ask(c) ==
  /\ at[c] \in Documented /\ c \notin calling
  /\ at[c] \notin Off /\ ~Exhausted(at[c])
  /\ spent' = try_spend(at[c])
  /\ asked' = [asked EXCEPT ![at[c]] = @ + 1]
  /\ calling' = calling \cup {c}
  /\ UNCHANGED <<at, attempts, observed, circuit, refused, progress>>

\* What a source answered: an observation, nothing, a record that is rejected,
\* no answer, or that the allowance is spent.
Answers == {"found", "nothing", "rejected", "unavailable", "quota"}

\* MUTANT of Outcome: a source that gave no answer had nothing.
OutcomeUntold(answer) == IF answer = "found" THEN "resolved" ELSE "no_match"

\* A rejected record is the one item asked for: nothing is left to match.
Outcome(answer) ==
  CASE answer = "found" -> "resolved"
    [] answer \in {"nothing", "rejected"} -> "no_match"
    [] answer \in {"unavailable", "quota"} -> "unavailable"

\* MUTANT of spend_all: the budget stays as it is.
SpendNothing(s) == spent

\* Budget.spend_all
spend_all(s) == [spent EXCEPT ![s] = Limit[s]]

Answer(c, answer) ==
  /\ c \in calling /\ at[c] \in Documented
  /\ calling' = calling \ {c}
  /\ Leave(c, Attempt(at[c], Outcome(answer)))
  /\ spent' = IF answer = "quota" THEN spend_all(at[c]) ELSE spent
  /\ refused' = IF answer = "quota" THEN refused \cup {at[c]} ELSE refused
  /\ UNCHANGED <<circuit, asked, progress>>

\* _goodreads_gate: one request in flight.
Gate == \A c \in calling : at[c] # "goodreads"

\* _try_goodreads: no adapter or not accepted, or a circuit that has opened.
GoodreadsSkip(c) ==
  /\ at[c] = "goodreads" /\ c \notin calling /\ Gate
  /\ "goodreads" \in Off \/ circuit
  /\ Leave(c, Attempt("goodreads", "skipped"))
  /\ UNCHANGED <<calling, spent, circuit, asked, refused, progress>>

GoodreadsAsk(c) ==
  /\ at[c] = "goodreads" /\ c \notin calling /\ Gate
  /\ "goodreads" \notin Off /\ ~circuit
  /\ calling' = calling \cup {c}
  /\ asked' = [asked EXCEPT !["goodreads"] = @ + 1]
  /\ UNCHANGED <<at, attempts, observed, spent, circuit, refused, progress>>

\* A page of a candidate's refuses, or is one failure too many, and opens the
\* circuit of the run, whatever the candidate's other pages give.
Trip ==
  /\ ~circuit /\ \E c \in calling : at[c] = "goodreads"
  /\ circuit' = TRUE
  /\ UNCHANGED <<at, calling, attempts, observed, spent, asked, refused, progress>>

GoodreadsAnswer(c, answer) ==
  /\ c \in calling /\ at[c] = "goodreads"
  /\ answer \in {"found", "nothing", "unavailable"}
  /\ calling' = calling \ {c}
  /\ Leave(c, Attempt("goodreads", Outcome(answer)))
  /\ UNCHANGED <<spent, circuit, asked, refused, progress>>

(***************************************************************************)
(* The run: run_ingestion, run_resolution_to_sink                          *)
(***************************************************************************)

\* _batched
NextBatch ==
  /\ stage = "resolving" /\ batch = {} /\ todo # <<>>
  /\ batch' = Range(SubSeq(todo, 1, Min({BatchSize, Len(todo)})))
  /\ todo' = SubSeq(todo, 1 + Min({BatchSize, Len(todo)}), Len(todo))
  /\ UNCHANGED <<resolution, stage, recorded, report, delivered>>

\* gather returns
Done == batch # {} /\ \A c \in batch : at[c] = "done"

\* One INSERT of a candidate's attempts: ON CONFLICT DO UPDATE takes no row
\* twice.
Clashes(c) == \E i, j \in DOMAIN attempts[c] :
  /\ i < j
  /\ attempts[c][i].source = attempts[c][j].source /\ attempts[c][i].no = attempts[c][j].no

Tally == [resolved |-> report.resolved + Cardinality({c \in batch : Resolved(c)}),
          unresolved |-> report.unresolved + Cardinality({c \in batch : ~Resolved(c)})]

\* account_for, record_attempts: the attempts, in a transaction of their own.
Account ==
  /\ stage = "resolving" /\ Done
  /\ \A c \in batch : ~Clashes(c)
  /\ recorded' = recorded \cup UNION {{c} \X Range(attempts[c]) : c \in batch}
  /\ report' = Tally
  /\ stage' = "accounted"
  /\ UNCHANGED <<resolution, todo, batch, delivered>>

AccountFails ==
  /\ stage = "resolving" /\ Done
  /\ \E c \in batch : Clashes(c)
  /\ stage' = "failed"
  /\ UNCHANGED <<resolution, todo, batch, recorded, report, delivered>>

\* The observations are loaded, or emitted and flushed.
Deliver ==
  /\ stage = "accounted"
  /\ delivered' = delivered \cup {c \in batch : Resolved(c)}
  /\ batch' = {}
  /\ stage' = "resolving"
  /\ UNCHANGED <<resolution, todo, recorded, report>>

\* An error of another kind ends the run: of a call, which gather passes on, or
\* of the load.
Raise ==
  /\ (stage = "resolving" /\ calling # {}) \/ stage = "accounted"
  /\ stage' = "failed"
  /\ calling' = {}
  /\ UNCHANGED <<at, attempts, observed, spent, circuit, asked, refused, todo, batch, recorded, report, delivered>>

End ==
  /\ stage = "resolving" /\ batch = {} /\ todo = <<>>
  /\ stage' = "ended"
  /\ UNCHANGED <<resolution, todo, batch, recorded, report, delivered>>

\* IngestReport.status
status == IF report.resolved = 0 THEN "failed" ELSE IF report.unresolved = 0 THEN "success" ELSE "partial_success"

Resolve(c) ==
  /\ stage = "resolving"
  /\ \/ Retained(c) \/ Skip(c) \/ Ask(c) \/ GoodreadsSkip(c) \/ GoodreadsAsk(c)
     \/ \E answer \in Answers : Answer(c, answer) \/ GoodreadsAnswer(c, answer)

Next ==
  \/ NextBatch \/ Account \/ AccountFails \/ Deliver \/ End \/ Raise \/ Trip
  \/ \E c \in Candidates : Start(c) \/ Resolve(c)

\* A call comes to an end (its timeouts and its attempts are bounded) and the
\* loop runs what is ready.
Fairness ==
  /\ WF_vars(NextBatch \/ Account \/ AccountFails \/ Deliver \/ End)
  /\ \A c \in Candidates : WF_vars(Start(c)) /\ SF_vars(Resolve(c))

Spec == Init /\ [][Next]_vars /\ Fairness

(***************************************************************************)
(* Properties                                                              *)
(***************************************************************************)

\* Budget: however many candidates are in flight, no more calls are made of a
\* source than the run may make.
WithinBudget == \A s \in Documented : asked[s] <= Limit[s]

\* A source that said its allowance is spent is asked no more in the run, whatever
\* the candidates in flight are doing.
NoneAfterRefusal == [][\A s \in refused : asked'[s] = asked[s]]_vars

\* The extractor: one Goodreads request is in flight at most.
OneGoodreadsCall == Cardinality({c \in calling : at[c] = "goodreads"}) <= 1

\* The rows of a candidate that stand for no call of a documented source: that
\* of Goodreads and that of the retained payload.
Uncalled == IF WithGoodreads THEN 2 ELSE 1

\* c has a row of a call that was made of s.
Told(c, s) == \E i \in DOMAIN attempts[c] :
  i > Uncalled /\ attempts[c][i].source = s /\ attempts[c][i].outcome # "skipped"

\* _try_bulk_source: a candidate that is through has one attempt for each call
\* that was made for it, and one that is unavailable where the source refused.
CallsAreAccounted ==
  stage # "failed" => \A s \in Documented :
    /\ asked[s] = Cardinality({c \in Candidates : c \in calling /\ at[c] = s})
                  + Cardinality({c \in Candidates : Told(c, s)})
    /\ s \in refused => \E c \in Candidates : Attempt(s, "unavailable") \in Range(attempts[c])

\* ingest.py account_for: what is loaded or published has the record of how it
\* came about, whatever fails after; and the report counts each candidate once.
DeliveredIsRecorded ==
  \A c \in delivered : \A i \in DOMAIN attempts[c] : <<c, attempts[c][i]>> \in recorded

\* IngestReport: a run that ends as a success has delivered every candidate.
SuccessIsComplete == stage = "ended" /\ status = "success" => delivered = Candidates

\* A run that is started comes to an end.
RunEnds == <>(stage \in {"ended", "failed"})

\* resolver.py:230-232: filling gaps, the documented APIs are skipped once
\* anything valid exists.
GapsOnly == [][~Enrich => \A c \in Candidates : c \in calling' \ calling => ~Resolved(c)]_vars

\* resolver.py:63-66: no_match says that the source had nothing.
NoMatchIsNothing ==
  [][\A c \in calling : Answer(c, "rejected") => Last(attempts'[c]).outcome # "no_match"]_vars

\* gutendex_source.py:58-60: the payload of a candidate discovery found is an
\* observation without another request.
RetainedIsPromoted ==
  \A c \in Candidates : Payload[c] # None => Promoted(c, "contract_failure") \notin Range(attempts[c])

\* postgres.py:961-965: the attempt record never breaks a run.
AttemptsNeverBreak == Done => \A c \in batch : ~Clashes(c)

\* resolver.py:287-290: every exit of a lookup records an attempt.
EveryExitRecorded ==
  stage = "failed" => \A s \in Documented :
    asked[s] <= Cardinality({r \in recorded : r[2].source = s /\ r[2].outcome # "skipped"})
===============================================================================
