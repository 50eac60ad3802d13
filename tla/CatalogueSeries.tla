----------------------------- MODULE CatalogueSeries -----------------------------
(***************************************************************************)
(* Series in the catalogue (load/postgres.py _sync_series and what it      *)
(* calls, transform/series.py): every load of a record replays what the    *)
(* sources of its book say of series, links the book to them, and folds a  *)
(* series known by its name alone into one that a source has named.        *)
(*                                                                         *)
(* A load or a merge is one transaction and one step here; CatalogueLoad   *)
(* has them side by side.  A source reports a series either with an id,    *)
(* which is confirmed, or by name alone (goodreads.py, GoodreadsEvidence). *)
(***************************************************************************)
EXTENDS Naturals, FiniteSets, FiniteSetsExt, Folds

CONSTANTS
  Works,        \* the books that may be there
  Observed,     \* the source records: numbers, in (source, source_id) order
  Home,         \* Observed -> the book a record was first loaded for
  SeriesNames,  \* normalised series names
  SeriesIds,    \* ids that a source gives to series
  NoId,         \* a series known by name alone
  Displays,     \* the forms a name is displayed in: numbers, in their order
  Positions,    \* positions in a series
  Unsaid        \* no position, or no series at all

SeriesKeys == SeriesNames \cup SeriesIds
Places == Positions \cup {Unsaid}
Claims == [name: SeriesNames, id: SeriesIds \cup {NoId}, display: Displays, position: Places]

SeriesAssumption ==
  /\ Observed \subseteq Nat /\ IsFiniteSet(Observed)
  /\ Home \in [Observed -> Works]
  /\ Displays \subseteq Nat
  /\ SeriesNames \cap SeriesIds = {} /\ NoId \notin SeriesIds
  /\ Unsaid \notin Positions /\ Unsaid \notin Claims

VARIABLES
  said,     \* source record -> the series its stored payload reports
  book,     \* source record -> its book
  gone,     \* books merged away
  row,      \* series: rows [key, name, normalized]
  link,     \* book_series: rows [book, series, position, confirmed]
  account,  \* book_series_sources: rows [record, series, book, position]
  text      \* books.series_search_text

seriesVars == <<said, book, gone, row, link, account, text>>

\* series_identity_key: the id if there is one, else the name.
series_identity_key(claim) == IF claim.id = NoId THEN claim.name ELSE claim.id

IsInjectiveOn(rows, Key(_)) == \A x, y \in rows : Key(x) = Key(y) => x = y
SeriesTypeOK ==
  /\ said \in [Observed -> Claims \cup {Unsaid}]
  /\ book \in [Observed -> Works \ gone]
  /\ row \subseteq [key: SeriesKeys, name: Displays, normalized: SeriesNames]
  /\ link \subseteq [book: Works \ gone, series: {r.key : r \in row}, position: Places, confirmed: BOOLEAN]
  /\ account \subseteq [record: Observed, series: SeriesIds, book: Works \ gone, position: Places]
  /\ \A a \in account : \E m \in link : m.book = a.book /\ m.series = a.series
  /\ IsInjectiveOn(row, LAMBDA r : r.key)
  /\ IsInjectiveOn(link, LAMBDA m : <<m.book, m.series>>)

SeriesInit ==
  /\ said = [r \in Observed |-> Unsaid]
  /\ book = Home
  /\ gone = {}
  /\ row = {} /\ link = {} /\ account = {}
  /\ text = [b \in Works |-> {}]

(***************************************************************************)
(* One series of a book                                                    *)
(***************************************************************************)

Coalesce(x, y) == IF x = Unsaid THEN y ELSE x

\* MUTANT of Joined: the later position, whatever it is.
Overwritten(kept, other) == [kept EXCEPT !.position = other.position, !.confirmed = other.confirmed]

\* One membership out of two: the first that has a position gives it.
Joined(kept, other) ==
  [kept EXCEPT !.position = Coalesce(@, other.position), !.confirmed = @ \/ other.confirmed]

\* INSERT ... ON CONFLICT: new joins what is in its place, now before stored.
With(links, new) ==
  LET there == {m \in links : m.book = new.book /\ m.series = new.series}
  IN (links \ there) \cup IF there = {} THEN {new} ELSE {Joined(new, m) : m \in there}

\* _upsert_series: an existing row keeps the name it was created with.
Upserted(db, claim) ==
  IF \E r \in db.row : r.key = series_identity_key(claim)
  THEN [db EXCEPT !.row = {IF r.key = series_identity_key(claim) THEN [r EXCEPT !.normalized = claim.name] ELSE r : r \in @}]
  ELSE [db EXCEPT !.row = @ \cup {[key |-> series_identity_key(claim), name |-> claim.display, normalized |-> claim.name]}]

\* MUTANT of Absorbed: the inferred row goes, and its memberships with it.
Cascaded(db, claim) ==
  IF claim.id = NoId THEN db
  ELSE [db EXCEPT !.row = {r \in @ : r.key # claim.name}, !.link = {m \in @ : m.series # claim.name}]

\* _absorb_inferred_series: its memberships go to the row that was named, one
\* that is there coming first, and then it is deleted.
Absorbed(db, claim) ==
  LET moved == {[m EXCEPT !.series = claim.id] : m \in {l \in db.link : l.series = claim.name}}
      named == {m \in db.link : m.series = claim.id}
      both(m) == {l \in moved : l.book = m.book}
  IN IF claim.id = NoId THEN db
     ELSE [db EXCEPT
        !.row = {r \in @ : r.key # claim.name},
        !.link = {m \in @ : m.series \notin {claim.name, claim.id}}
                 \cup {m \in moved : \A l \in named : l.book # m.book}
                 \cup {m \in named : both(m) = {}}
                 \cup UNION {{Joined(m, l) : l \in both(m)} : m \in named}]

\* _link_series
Linked(db, b, claim) ==
  [db EXCEPT !.link = With(@, [book |-> b, series |-> series_identity_key(claim),
                               position |-> claim.position, confirmed |-> claim.id # NoId])]

\* One opinion of the book's: _upsert_series, and its link.
Opinion(db, b, claim) == Linked(Absorbed(Upserted(db, claim), claim), b, claim)

(***************************************************************************)
(* One book                                                                *)
(***************************************************************************)

\* MUTANT of Reported: the records that were its own.
OwnOnly(b) == [r \in {q \in Observed : book[q] = b /\ said'[q] # Unsaid} |-> said'[r]]

\* What the records of b report.
Reported(b) == [r \in {q \in Observed : book'[q] = b /\ said'[q] # Unsaid} |-> said'[r]]

\* The first record for each series: its opinion is the book's.
Best(claims) ==
  {r \in DOMAIN claims : \A q \in DOMAIN claims : q < r => series_identity_key(claims[q]) # series_identity_key(claims[r])}

\* They are taken in the order of the records.
Opinions(db, b, claims) ==
  MapThenFoldSet(LAMBDA r, now : Opinion(now, b, claims[r]), db, LAMBDA r : r, LAMBDA s : Max(s), Best(claims))

\* _record_series_source, _link_series_source: each source's own account.
Accounts(db, b, claims) ==
  LET naming == {r \in DOMAIN claims : claims[r].id # NoId}
  IN [db EXCEPT !.account = {a \in @ : \A r \in naming : a.record # r \/ a.series # claims[r].id}
        \cup {[record |-> r, series |-> claims[r].id, book |-> b, position |-> claims[r].position] : r \in naming}]

\* _refresh_series_search_text, series_search_text: for each name, the least
\* of the forms it is displayed in.  A form is taken to normalise to the name that its
\* row was normalised to when it was written.
Projection(db, b) ==
  LET mine == {r \in db.row : \E m \in db.link : m.book = b /\ m.series = r.key}
  IN {<<n, Min({r.name : r \in {q \in mine : q.normalized = n}})>> : n \in {r.normalized : r \in mine}}

\* _sync_series
Sync(db, b) ==
  \E synced \in {Accounts(Opinions(db, b, Reported(b)), b, Reported(b))} :
    /\ row' = synced.row /\ link' = synced.link /\ account' = synced.account
    /\ text' = [text EXCEPT ![b] = Projection(synced, b)]

Stored == [row |-> row, link |-> link, account |-> account]

\* A record is loaded with what it says now.
LoadSeries(r, claim) ==
  /\ said' = [said EXCEPT ![r] = claim]
  /\ UNCHANGED <<book, gone>>
  /\ Sync(Stored, book[r])

\* The orphan's links and the accounts under them go with it.
Bereft(orphan) ==
  [Stored EXCEPT !.link = {m \in @ : m.book # orphan}, !.account = {a \in @ : a.book # orphan}]

\* _merge, then the load that caused it: the sources move to the survivor.
Merge(orphan, survivor) ==
  /\ orphan # survivor /\ {orphan, survivor} \cap gone = {}
  /\ gone' = gone \cup {orphan}
  /\ book' = [r \in Observed |-> IF book[r] = orphan THEN survivor ELSE book[r]]
  /\ UNCHANGED said
  /\ Sync(Bereft(orphan), survivor)

SeriesNext ==
  \/ \E r \in Observed, claim \in Claims \cup {Unsaid} : LoadSeries(r, claim)
  \/ \E orphan, survivor \in Works : Merge(orphan, survivor)

SeriesSpec == SeriesInit /\ [][SeriesNext]_seriesVars

(***************************************************************************)
(* Properties                                                              *)
(***************************************************************************)

\* The memberships of b in the series k, or in one that k was folded into.
In(b, k) == {m \in link : m.book = b /\ (m.series = k \/ \E r \in row : r.key = m.series /\ r.normalized = k)}

\* No load costs another book, or its own, a series it was in: when a row is
\* absorbed its memberships go over to the row that was named.
NoMembershipLost == [][\A m \in link : m.book \notin gone' => In(m.book, m.series)' # {}]_seriesVars

\* What a book once knew of its place in a series it keeps, on one row or
\* another: a position is not blanked and a confirmation not taken back
\* (postgres.py:733-737), but by a merge, which starts from the payloads.
PlaceKept ==
  [][\A m \in link : m.book \notin gone' =>
       /\ m.position # Unsaid => \E n \in In(m.book, m.series)' : n.position # Unsaid
       /\ m.confirmed => \E n \in In(m.book, m.series)' : n.confirmed]_seriesVars

\* After a merge the survivor is in every series that the sources of either
\* book report, though the orphan's links are deleted (postgres.py:355-366).
MergeKeepsTheSeries ==
  [][\A r, q \in Observed, b \in Works, claim \in Claims :
       gone' # gone /\ book[q] # b /\ book'[q] = b /\ book'[r] = b /\ said[r] = claim
         => In(b, series_identity_key(claim))' # {}]_seriesVars

(* What the code says of itself and does not do *)

\* tests/integration/test_load.py:1251: one series, one row, however the
\* evidence arrived: none by its name beside the one that was named.
OneSeriesOneRow ==
  \A r, q \in row : r.key \in SeriesNames /\ q.key \in SeriesIds => r.normalized # q.normalized

\* models/db.py:102-105: series_search_text is recomputed in the transaction
\* that changes a relationship.
TextFollows == \A b \in Works \ gone : text[b] = Projection(Stored, b)
=================================================================================
