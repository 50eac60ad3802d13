------------------------------ MODULE CatalogueNames ------------------------------
(***************************************************************************)
(* Authors and subjects, which the books share (load/postgres.py           *)
(* _sync_authors, _sync_subjects).  A transaction loads a batch, record    *)
(* after record: it upserts the names of each record's book, one row after *)
(* the other in the order of the statements, and holds the rows until the  *)
(* batch ends.  What happens to the books and their sources, and who       *)
(* waits for whom on them, is in CatalogueLoad; a batch that is retried is *)
(* here another batch of the same records.                                 *)
(***************************************************************************)
EXTENDS Naturals, FiniteSets, FiniteSetsExt

CONSTANTS
  Loaders,
  Books,
  Authors,   \* normalised author names, as numbers in their order
  Subjects,  \* normalised subjects, as numbers after those of the authors
  Years,     \* years of birth and death
  Nothing,
  BatchLength, \* records a transaction loads at most
  MaxLoads     \* bound: records loaded

NamesAssumption ==
  /\ Authors \cup Subjects \cup Years \subseteq Nat
  /\ Authors \cap Subjects = {}
  /\ IsFiniteSet(Authors) /\ IsFiniteSet(Subjects)
  /\ Nothing \notin Loaders \cup Books \cup Years
  /\ BatchLength \in Nat \ {0} /\ MaxLoads \in Nat

VARIABLES
  span,    \* authors: name -> [birth, death], as the holder of the row has it
  kept,    \* authors: the same, as committed
  holder,  \* name -> the writer that holds its row
  linked,  \* book_authors, book_subjects: <<book, name>>, committed
  naming,  \* writer -> its batch: which record it is at, and what it linked before
  loads

nameVars == <<span, kept, holder, linked, naming, loads>>

Names == Authors \cup Subjects
Spans == [birth: Years \cup {Nothing}, death: Years \cup {Nothing}]

\* A record's authors have lived forwards (RawAuthor._check_lifespan_order).
Ordered(s) == Nothing \in {s.birth, s.death} \/ s.birth <= s.death

Unnamed == [nth |-> 0, book |-> Nothing, names |-> {}, left |-> {}, spans |-> <<>>, links |-> {}]

\* Upserted for the record in hand.
Taken(w) == naming[w].names \ naming[w].left

\* What w's batch has linked once its record in hand is loaded: links are only
\* added.
Links(w) == naming[w].links \cup ({naming[w].book} \X naming[w].names)

NamesTypeOK ==
  /\ {span, kept} \subseteq [Authors -> Spans \cup {Nothing}]
  /\ holder \in [Names -> Loaders \cup {Nothing}]
  /\ \A a \in Authors : holder[a] = Nothing => span[a] = kept[a]
  /\ linked \subseteq Books \X Names
  /\ \A w \in Loaders :
       /\ naming[w].nth \in 0..BatchLength /\ naming[w].left \subseteq naming[w].names
       /\ {n \in Names : holder[n] = w} = Taken(w) \cup {link[2] : link \in naming[w].links}
  /\ loads \in 0..MaxLoads

NamesInit ==
  /\ span = [a \in Authors |-> Nothing] /\ kept = span
  /\ holder = [n \in Names |-> Nothing]
  /\ linked = {}
  /\ naming = [w \in Loaders |-> Unnamed]
  /\ loads = 0

\* The next record of the batch, the first when there is none: its book's
\* authors, each with the lifespan of the first source that has one, and the
\* subjects of the book's best record.
NextBook(w) ==
  /\ naming[w].left = {} /\ naming[w].nth < BatchLength /\ loads < MaxLoads
  /\ \E b \in Books, names \in SUBSET Names :
       \E spans \in [names \cap Authors -> {s \in Spans : Ordered(s)}] :
         naming' = [naming EXCEPT ![w] = [nth |-> @.nth + 1, book |-> b, names |-> names,
                                          left |-> names, spans |-> spans, links |-> Links(w)]]
  /\ loads' = loads + 1
  /\ UNCHANGED <<span, kept, holder, linked>>

\* MUTANT of NextName: the rows in any order.
AnyName(w, n) == n \in naming[w].left

\* Sorted by the key they conflict on; authors before subjects.
NextName(w, n) == naming[w].left # {} /\ n = Min(naming[w].left)

\* A year that is there stays; one that is not is filled in.
Coalesced(old, new) ==
  IF old = Nothing THEN new
  ELSE [birth |-> IF old.birth = Nothing THEN new.birth ELSE old.birth,
        death |-> IF old.death = Nothing THEN new.death ELSE old.death]

\* Everything w holds is free again.
Freed(w) == holder' = [n \in Names |-> IF holder[n] = w THEN Nothing ELSE holder[n]]

\* The row is refused by authors.lifespan_order: the batch fails.
Refused(w, n) == n \in Authors /\ ~Ordered(Coalesced(span[n], naming[w].spans[n]))

RollBack(w) ==
  /\ Freed(w)
  /\ span' = [a \in Authors |-> IF holder[a] = w THEN kept[a] ELSE span[a]]
  /\ naming' = [naming EXCEPT ![w] = Unnamed]
  /\ UNCHANGED <<kept, linked, loads>>

\* One row of INSERT ... ON CONFLICT DO UPDATE.
Upsert(w) ==
  \E n \in Names :
    /\ NextName(w, n)
    /\ holder[n] \in {Nothing, w}
    /\ \/ Refused(w, n) /\ RollBack(w)
       \/ /\ ~Refused(w, n)
          /\ holder' = [holder EXCEPT ![n] = w]
          /\ span' = [a \in Authors |-> IF a = n THEN Coalesced(span[a], naming[w].spans[a]) ELSE span[a]]
          /\ naming' = [naming EXCEPT ![w].left = @ \ {n}]
          /\ UNCHANGED <<kept, linked, loads>>

\* The batch is loaded.
Commit(w) ==
  /\ naming[w].nth > 0 /\ naming[w].left = {}
  /\ kept' = [a \in Authors |-> IF holder[a] = w THEN span[a] ELSE kept[a]]
  /\ linked' = linked \cup Links(w)
  /\ Freed(w)
  /\ naming' = [naming EXCEPT ![w] = Unnamed]
  /\ UNCHANGED <<span, loads>>

\* The server picks it as the victim of a circle, an error of another row, or
\* the end of the process.
Abort(w) == naming[w].nth > 0 /\ RollBack(w)

NamesNext == \E w \in Loaders : NextBook(w) \/ Upsert(w) \/ Commit(w) \/ Abort(w)

NamesSpec == NamesInit /\ [][NamesNext]_nameVars

(***************************************************************************)
(* Properties                                                              *)
(***************************************************************************)

WaitsOn(v, w, n) == NextName(v, n) /\ holder[n] = w

WaitInCircle(circle) ==
  circle # {} /\ \A v \in circle : \E w \in circle \ {v}, n \in Names : WaitsOn(v, w, n)

\* Sorting is as good as it can be: writers that wait for one another in a
\* circle on authors and subjects do so only because a transaction goes on to
\* another record.  Some wait of every circle is for a row that its holder kept
\* from an earlier record of the batch, never for one that it took for the
\* record in hand; so batches of one record meet in no circle
\* (postgres.py:70-74, 886-894).
CirclesCrossRecords ==
  \A circle \in SUBSET Loaders : WaitInCircle(circle) =>
    \E v \in circle, w \in circle, n \in Names : WaitsOn(v, w, n) /\ n \notin Taken(w)

\* A year that one source supplied is not blanked nor changed by another, and
\* an author or subject once attached to a book stays (postgres.py:818-819).
SourcesOnlyAdd ==
  [][/\ \A a \in Authors : kept[a] # Nothing =>
          /\ kept[a].birth # Nothing => kept'[a].birth = kept[a].birth
          /\ kept[a].death # Nothing => kept'[a].death = kept[a].death
     /\ linked \subseteq linked']_nameVars

(* What the code says of itself and does not do *)

\* postgres.py:818-819: one source's lifespan and another's are put together
\* so that neither is lost: together they may be no lifespan, and the load of
\* the book is refused.
SpansFit == \A w \in Loaders, n \in Names : NextName(w, n) => ~Refused(w, n)

\* Not what the code says (postgres.py:70-74 expects deadlocks), but what the
\* sorting alone suggests: it orders the rows of one record, and the batch goes on
\* to another, so batches of two records may each hold what the other waits for.
SortedNeverCircle == \A circle \in SUBSET Loaders : ~WaitInCircle(circle)
==================================================================================
