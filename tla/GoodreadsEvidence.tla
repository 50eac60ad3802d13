---------------------------- MODULE GoodreadsEvidence ----------------------------
(***************************************************************************)
(* What a Goodreads observation says, what of it is stored, and what the   *)
(* catalogue gets back from the store.  The pages of one book are read     *)
(* (extract/goodreads_parsers.py), their facts are put on the observation  *)
(* and on its payload (extract/goodreads.py), the payload replaces the one *)
(* that book_sources holds for the record, and the canonical book is       *)
(* recomputed from the stored payloads alone (load/postgres.py _replay).   *)
(*                                                                         *)
(* A page is the set of the facts it shows, an observation the set of its  *)
(* fields that have a value; the strings themselves are left out.          *)
(***************************************************************************)
EXTENDS Naturals

CONSTANTS
  MaxLoads      \* bound: observations of the record that are loaded

EvidenceAssumption == MaxLoads \in Nat

VARIABLES
  card,      \* what autocomplete or the export says of the book
  bookPage,  \* what /book/show/ says
  editions,  \* what the first block of /work/editions/ says
  stored,    \* the payload in book_sources
  last,      \* the observation it was loaded from
  loads      \* observations loaded so far

evidenceVars == <<card, bookPage, editions, stored, last, loads>>

CardFacts == {"description", "pages", "series"}
\* json_ld's fields, the time in the page's state, the ARIA label, the
\* /series/ link whose slug agrees, and the link to the editions.
BookFacts == {"description", "pages", "authors", "isbn", "year", "series", "link", "work"}
EditionFacts == {"isbn", "date", "publisher"}

Fields == {"title", "author", "authors", "description", "pages", "isbn", "published", "publisher",
           "inferred", "confirmed"}

Absent == [held |-> FALSE, of |-> {}]
Block(facts) == [held |-> TRUE, of |-> facts]
NoPayload == [card |-> {"none"}, detail |-> Absent, edition |-> Absent]

EvidenceTypeOK ==
  /\ card \subseteq CardFacts
  /\ bookPage \subseteq BookFacts
  /\ editions \subseteq EditionFacts
  /\ stored # NoPayload => /\ stored.card \subseteq CardFacts
                           /\ stored.detail.of \subseteq bookPage
                           /\ stored.edition.of \subseteq editions \cup {"text"}
  /\ last \subseteq Fields
  /\ loads \in 0..MaxLoads

\* parse_book_detail: an id counts only when its slug agrees with the label.
BookPages == {f \in SUBSET BookFacts : "link" \in f => "series" \in f}

EvidenceInit ==
  /\ card \in SUBSET CardFacts
  /\ bookPage \in BookPages
  /\ editions \in SUBSET EditionFacts
  /\ stored = NoPayload
  /\ last = {}
  /\ loads = 0

(***************************************************************************)
(* map_payload: an observation from a payload, with no page at hand        *)
(***************************************************************************)

\* parse_series_from_title.
TitleSeries(c) == IF "series" \in c THEN {"inferred"} ELSE {}

\* MUTANT of ReplayedSeries: the series of the card stands.
SeriesOfCard(p) == TitleSeries(p.card)

\* _replayed_series: the stored label, confirmed by the stored id.
ReplayedSeries(p) ==
  IF "series" \in p.detail.of
  THEN {IF "link" \in p.detail.of THEN "confirmed" ELSE "inferred"}
  ELSE TitleSeries(p.card)

\* _candidate_to_raw_book: the edition block is asked for isbn13, published
\* and publisher.
Mapped(p) ==
  {"title", "author"} \cup (p.card \cap {"description", "pages"}) \cup ReplayedSeries(p)
  \cup (IF "isbn13" \in p.edition.of THEN {"isbn"} ELSE {})
  \cup (IF "published" \in p.edition.of THEN {"published"} ELSE {})
  \cup (IF "publisher" \in p.edition.of THEN {"publisher"} ELSE {})

(***************************************************************************)
(* The facts of the pages, as updates to an observation                    *)
(***************************************************************************)

\* A confirmed series takes the place of an inferred one, and so does any other.
WithSeries(o, s) == IF s = {} THEN o ELSE (o \ {"inferred", "confirmed"}) \cup s
PageSeries(b) == IF "series" \notin b THEN {} ELSE {IF "link" \in b THEN "confirmed" ELSE "inferred"}

\* _enrich: the book page gives no identifier and no year, the editions do.
FromBook(b) == b \cap {"description", "pages", "authors"}
FromEditions(e) == (e \cap {"isbn", "publisher"}) \cup (IF "date" \in e THEN {"published"} ELSE {})

\* _updates_from_detail.
FromDetail(b) == (b \cap {"description", "pages", "authors", "isbn"})
                 \cup (IF "year" \in b THEN {"published"} ELSE {})

\* EditionDetail.payload: the text of the block.
EditionPayload(e) == Block(IF e = {} THEN {} ELSE {"text"})

Load(o, p) ==
  /\ loads < MaxLoads
  /\ loads' = loads + 1
  /\ last' = o
  /\ stored' = p
  /\ UNCHANGED <<card, bookPage, editions>>

(***************************************************************************)
(* Actions                                                                 *)
(***************************************************************************)

CardPayload == [card |-> card, detail |-> Absent, edition |-> Absent]

\* Discovery delivers the record from the export, or again.
Discover == Load(Mapped(CardPayload), CardPayload)

\* resolve(): each of the two pages may fail, and one update is enough.  The card
\* of the search may name the work, whatever the book page says.
Resolve ==
  \E gotBook, gotEditions \in BOOLEAN :
    LET b == IF gotBook THEN bookPage ELSE {}
        e == IF gotEditions THEN editions ELSE {}
        o == WithSeries(Mapped(CardPayload) \cup FromBook(b) \cup FromEditions(e), PageSeries(b))
    IN /\ FromBook(b) \cup FromEditions(e) \cup PageSeries(b) # {}
       /\ Load(o, [CardPayload EXCEPT
                     !.detail = IF gotBook THEN Block(b) ELSE Absent,
                     !.edition = IF gotEditions THEN EditionPayload(e) ELSE Absent])

Unenriched(p) == p # NoPayload /\ ~p.detail.held /\ ~p.edition.held

\* MUTANT of EnrichById: the facts are loaded and the block is not kept.
EnrichUnstored ==
  /\ Unenriched(stored)
  /\ LET u == FromDetail(bookPage)
     IN /\ u \cup PageSeries(bookPage) # {}
        /\ Load(WithSeries(Mapped(stored) \cup u, PageSeries(bookPage)), stored)

\* enrich_by_id(): the editions page when the book page withheld the ISBN or
\* the year, and it may fail.
EnrichById ==
  /\ Unenriched(stored)
  /\ \E gotEditions \in BOOLEAN :
       LET e == IF gotEditions THEN editions ELSE {}
           u == FromDetail(bookPage) \cup FromEditions(e)
       IN /\ gotEditions => "work" \in bookPage /\ ~({"isbn", "year"} \subseteq bookPage)
          /\ u \cup PageSeries(bookPage) # {}
          /\ Load(WithSeries(Mapped(stored) \cup u, PageSeries(bookPage)),
                  [stored EXCEPT !.detail = Block(bookPage),
                                 !.edition = IF gotEditions THEN EditionPayload(e) ELSE Absent])

EvidenceNext == Discover \/ Resolve \/ EnrichById

EvidenceSpec == EvidenceInit /\ [][EvidenceNext]_evidenceVars

(***************************************************************************)
(* Properties                                                              *)
(***************************************************************************)

\* The catalogue gets the series back as the observation had it: replaying a
\* stored payload never turns a confirmed series into an inferred one.
SeriesReplayed ==
  stored # NoPayload => Mapped(stored) \cap {"inferred", "confirmed"} = last \cap {"inferred", "confirmed"}

\* Completing a record takes it off the backlog, so that a book is asked for once.
EnrichedLeavesBacklog == [][EnrichById => ~Unenriched(stored')]_evidenceVars

(* What the code says of itself and does not do *)

\* goodreads.py:748-751: what the pages contributed is rebuilt from what was saved.
DetailReplayed == stored # NoPayload => last \ {"author"} \subseteq Mapped(stored)

\* postgres.py:421-423: a later sparse record does not erase a richer one.
RicherSurvives == [][stored.detail.held => stored'.detail.held]_evidenceVars
==================================================================================
