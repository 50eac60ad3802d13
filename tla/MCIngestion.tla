----------------------------- MODULE MCIngestion -----------------------------
(***************************************************************************)
(* Phase 1 on small instances, one component in each behaviour: `part`     *)
(* says which one moves, the others stay as they began.  The Resolver      *)
(* enriches or fills gaps, Discovery reads its files, SourceRequests paces *)
(* and repeats the requests to one source.                                 *)
(***************************************************************************)
EXTENDS Resolver, Discovery, SourceRequests, TLC

CONSTANTS dump, bare, export

VARIABLE part

all == <<part, vars, discoveryVars, requestsVars>>

\* A candidate of the dump, one without a payload, one of the export.
Three == <<bare, dump, export>>
PayloadOf == dump :> "openlibrary" @@ bare :> None @@ export :> "goodreads"
NamedOf == dump :> "openlibrary" @@ bare :> "openlibrary" @@ export :> "goodreads"
TwoEach == [s \in Documented |-> 2]

\* The same candidates, filling gaps, with no source off.
G == INSTANCE Resolver WITH Enrich <- FALSE, Off <- {}

\* A record that can be looked up, one with an ISBN and no author, one without
\* a title, one in another language.
Good == [key |-> TRUE, title |-> TRUE, authors |-> TRUE, isbns |-> FALSE, languages |-> {"eng"}]
Bare == [Good EXCEPT !.authors = FALSE, !.isbns = TRUE, !.languages = {}]
Untitled == [Good EXCEPT !.title = FALSE]
Foreign == [Good EXCEPT !.languages = {"fre"}]
FilesOf ==
  "openlibrary_dump" :> <<<<Foreign, Good, Bare>>, <<Good, Untitled>>>>
    @@ "goodreads_export" :> <<<<Untitled, Good>>>> @@ "gutendex" :> <<<<Good, Untitled, Good>>>>

\* Two calls in each of two batches, to a source with a bucket.
BatchOf == [c \in Calls |-> IF c <= 2 THEN 1 ELSE 2]

ASSUME DiscoveryAssumption /\ RequestsAssumption

IngestionInit ==
  /\ part \in {"enriching", "gaps", "discovery", "requests"}
  /\ Init /\ DiscoveryInit /\ RequestsInit

Enriching == part = "enriching" /\ Next /\ UNCHANGED <<part, discoveryVars, requestsVars>>
FillingGaps == part = "gaps" /\ G!Next /\ UNCHANGED <<part, discoveryVars, requestsVars>>
Discovering == part = "discovery" /\ DiscoveryNext /\ UNCHANGED <<part, vars, requestsVars>>
TearingDown == part = "requests" /\ TearDown /\ UNCHANGED <<part, vars, discoveryVars>>
Ticking == part = "requests" /\ Tick /\ UNCHANGED <<part, vars, discoveryVars>>
Calling(c) == part = "requests" /\ CallStep(c) /\ UNCHANGED <<part, vars, discoveryVars>>

IngestionNext == Enriching \/ FillingGaps \/ Discovering \/ Ticking \/ TearingDown \/ \E c \in Calls : Calling(c)

IngestionSpec ==
  /\ IngestionInit /\ [][IngestionNext]_all
  /\ WF_all(Ticking) /\ WF_all(TearingDown) /\ \A c \in Calls : WF_all(Calling(c))

\* As in SourceRequests, of four calls.
CallsEnd == part = "requests" => EveryCallEnds

(***************************************************************************)
(* What the repository says and its code does not do: each of these, put   *)
(* alone in place of the properties of IngestionHolds.cfg, is violated:    *)
(* GapsOnlyHere below; NoMatchIsNothing, AttemptsNeverBreak and            *)
(* EveryExitRecorded of Resolver; ExportResumesAfter,                      *)
(* SliceReachesResolution, ExhaustedIsNoFailure and WholeFileIsRead of     *)
(* Discovery; QuotaMeansRefused and OnlyKnownErrors of SourceRequests.     *)
(***************************************************************************)
\* A source already answered is not asked again (resolver.py:230-232).
GapsOnlyHere == G!GapsOnly
===============================================================================
