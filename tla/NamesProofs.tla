------------------------------ MODULE NamesProofs ------------------------------
(***************************************************************************)
(* What sorting the upserts of authors and subjects gives, for every       *)
(* number of writers, records of a batch, books and names: a row that was  *)
(* taken for the record in hand lies before every row its holder has yet   *)
(* to take for it, so a circle of waits for such rows alone would descend  *)
(* for ever among the finitely many names.  A circle needs a row kept from *)
(* an earlier record of a batch.                                           *)
(***************************************************************************)
EXTENDS CatalogueNames, FiniteSetTheorems, TLAPS

(***************************************************************************)
(* The inductive invariant                                                 *)
(***************************************************************************)

Loading == [nth: 0..BatchLength, book: Books \cup {Nothing}, names: SUBSET Names, left: SUBSET Names,
            spans: {<<>>} \cup UNION {[some -> Spans] : some \in SUBSET Authors},
            links: SUBSET (Books \X Names)]

NamesTypes == naming \in [Loaders -> Loading] /\ holder \in [Names -> Loaders \cup {Nothing}]

IdleHasNothing == \A w \in Loaders : naming[w].nth = 0 =>
                    naming[w].names = {} /\ naming[w].links = {} /\ \A n \in Names : holder[n] # w

WorkHasBook == \A w \in Loaders : naming[w].nth > 0 => naming[w].book \in Books

LeftOfNames == \A w \in Loaders : naming[w].left \subseteq naming[w].names

\* A row is held for the record in hand or for a book linked before.
HeldForBatch == \A w \in Loaders, n \in Names : holder[n] = w =>
                  n \in Taken(w) \/ \E b \in Books : <<b, n>> \in naming[w].links

\* In the first record of a batch nothing was linked before.
FirstLinkedNothing == \A w \in Loaders : naming[w].nth <= 1 => naming[w].links = {}

TakenComesFirst == \A w \in Loaders : \A n \in Taken(w) : \A m \in naming[w].left : n < m

NamesInv == /\ NamesTypes /\ IdleHasNothing /\ WorkHasBook /\ LeftOfNames
            /\ HeldForBatch /\ FirstLinkedNothing /\ TakenComesFirst

LEMMA NamesAreNumbers ==
  ASSUME NamesAssumption
  PROVE  /\ Names \subseteq Nat /\ IsFiniteSet(Names)
         /\ Nothing \notin Loaders /\ Nothing \notin Books
BY FS_Union DEF NamesAssumption, Names

\* Min is what its name says on the names a writer has left.
LEMMA MinIsFirst ==
  ASSUME NEW left, left \subseteq Nat, left # {}
  PROVE  Min(left) \in left /\ \A m \in left : Min(left) <= m
<1>1. PICK first \in left : \A m \in left : <<m, first>> \notin OpToRel(<, Nat)
  BY WFMin, NatLessThanWellFounded, Zenon
<1>2. \A m \in left : ~(m < first)
  BY <1>1, Zenon DEF OpToRel
<1>3. \A m \in left : first <= m
  BY <1>2
<1> QED BY <1>3, Zenon DEF Min

LEMMA InitNamesInv == NamesAssumption /\ NamesInit => NamesInv
<1> SUFFICES ASSUME NamesAssumption, NamesInit
             PROVE  NamesInv
  OBVIOUS
<1>1. Unnamed \in Loading
  BY DEF Unnamed, Loading, NamesAssumption
<1>2. NamesTypes /\ IdleHasNothing /\ HeldForBatch
  BY <1>1, NamesAreNumbers DEF NamesInit, NamesTypes, IdleHasNothing, HeldForBatch, Unnamed
<1> QED BY <1>2 DEF NamesInit, NamesInv, WorkHasBook, LeftOfNames, FirstLinkedNothing, TakenComesFirst, Taken, Unnamed

\* A transaction that ends lets its rows go, and the others keep theirs.
LEMMA EndKeepsNamesInv ==
  ASSUME NamesAssumption, NamesInv, NEW w \in Loaders, Freed(w), naming' = [naming EXCEPT ![w] = Unnamed]
  PROVE  NamesInv'
<1>1. Unnamed \in Loading
  BY DEF Unnamed, Loading, NamesAssumption
<1>2. NamesTypes'
  BY <1>1 DEF NamesInv, NamesTypes, Freed
<1>3. /\ naming'[w] = Unnamed /\ \A v \in Loaders : v # w => naming'[v] = naming[v]
      /\ \A n \in Names : holder'[n] = IF holder[n] = w THEN Nothing ELSE holder[n]
  BY DEF NamesInv, NamesTypes, Freed
<1>4. \A n \in Names : holder'[n] # w
  BY <1>3, NamesAreNumbers
<1>5. IdleHasNothing'
  BY <1>3, <1>4, NamesAreNumbers DEF NamesInv, IdleHasNothing, Unnamed
<1>6. WorkHasBook' /\ LeftOfNames' /\ FirstLinkedNothing'
  BY <1>3 DEF NamesInv, WorkHasBook, LeftOfNames, FirstLinkedNothing, Unnamed
<1>7. HeldForBatch'
  BY <1>3, <1>4, NamesAreNumbers DEF NamesInv, HeldForBatch, Taken
<1>8. TakenComesFirst'
  BY <1>3 DEF NamesInv, TakenComesFirst, Taken, Unnamed
<1> QED BY <1>2, <1>5, <1>6, <1>7, <1>8 DEF NamesInv

\* The next record starts with nothing taken, and what was taken is linked.
LEMMA NextBookKeepsNamesInv ==
  ASSUME NamesAssumption, NamesInv, NEW w \in Loaders, NextBook(w)
  PROVE  NamesInv'
<1>1. PICK b \in Books, names \in SUBSET Names :
        \E spans \in [names \cap Authors -> {s \in Spans : Ordered(s)}] :
          naming' = [naming EXCEPT ![w] = [nth |-> naming[w].nth + 1, book |-> b, names |-> names,
                                           left |-> names, spans |-> spans, links |-> Links(w)]]
  BY DEF NextBook
<1>2. PICK spans \in [names \cap Authors -> {s \in Spans : Ordered(s)}] :
        naming' = [naming EXCEPT ![w] = [nth |-> naming[w].nth + 1, book |-> b, names |-> names,
                                         left |-> names, spans |-> spans, links |-> Links(w)]]
  BY <1>1
<1>3. naming[w].left = {} /\ naming[w].nth < BatchLength /\ holder' = holder /\ naming[w] \in Loading
  BY DEF NextBook, NamesInv, NamesTypes
<1>4. spans \in UNION {[some -> Spans] : some \in SUBSET Authors}
  <2>1. spans \in [names \cap Authors -> Spans]
    OBVIOUS
  <2> QED BY <2>1
<1>5. Links(w) \in SUBSET (Books \X Names)
  <2>1. CASE naming[w].nth = 0
    BY <2>1, <1>3 DEF NamesInv, IdleHasNothing, Links, Loading
  <2>2. CASE naming[w].nth > 0
    BY <2>2, <1>3 DEF NamesInv, WorkHasBook, Links, Loading
  <2> QED BY <1>3, <2>1, <2>2 DEF Loading, NamesAssumption
<1>6. naming[w].nth + 1 \in 0..BatchLength /\ naming[w].nth \in Nat
  BY <1>3 DEF Loading, NamesAssumption
<1>7. NamesTypes'
  <2>1. [nth |-> naming[w].nth + 1, book |-> b, names |-> names,
         left |-> names, spans |-> spans, links |-> Links(w)] \in Loading
    BY <1>4, <1>5, <1>6 DEF Loading
  <2> QED BY <1>2, <1>3, <2>1 DEF NamesInv, NamesTypes
<1>8. /\ naming'[w].nth = naming[w].nth + 1 /\ naming'[w].book = b /\ naming'[w].names = names
      /\ naming'[w].left = names /\ naming'[w].links = Links(w)
      /\ \A v \in Loaders : v # w => naming'[v] = naming[v]
  BY <1>2 DEF NamesInv, NamesTypes
<1>9. IdleHasNothing' /\ WorkHasBook' /\ LeftOfNames'
  BY <1>3, <1>6, <1>8 DEF NamesInv, IdleHasNothing, WorkHasBook, LeftOfNames
<1>10. FirstLinkedNothing'
  <2>1. naming'[w].nth <= 1 => naming[w].nth = 0
    BY <1>6, <1>8
  <2>2. naming[w].nth = 0 => Links(w) = {}
    BY DEF NamesInv, IdleHasNothing, Links
  <2> QED BY <1>8, <2>1, <2>2 DEF NamesInv, FirstLinkedNothing
<1>11. HeldForBatch'
  <2> SUFFICES ASSUME NEW n \in Names, holder[n] = w
               PROVE  \E c \in Books : <<c, n>> \in Links(w)
    BY <1>3, <1>8 DEF NamesInv, HeldForBatch, Taken
  <2>1. naming[w].nth > 0
    BY <1>6 DEF NamesInv, IdleHasNothing
  <2>2. CASE n \in Taken(w)
    BY <2>1, <2>2 DEF NamesInv, WorkHasBook, Taken, Links
  <2>3. CASE \E c \in Books : <<c, n>> \in naming[w].links
    BY <2>3 DEF Links
  <2> QED BY <2>2, <2>3 DEF NamesInv, HeldForBatch
<1>12. TakenComesFirst'
  BY <1>8 DEF NamesInv, TakenComesFirst, Taken
<1> QED BY <1>7, <1>9, <1>10, <1>11, <1>12 DEF NamesInv

\* The row that is taken is the first of those left.
LEMMA TakeKeepsNamesInv ==
  ASSUME NamesAssumption, NamesInv, NEW w \in Loaders, NEW n \in Names, NextName(w, n),
         holder' = [holder EXCEPT ![n] = w], naming' = [naming EXCEPT ![w].left = @ \ {n}]
  PROVE  NamesInv'
<1>1. naming[w] \in Loading /\ naming[w].left \subseteq Names /\ naming[w].left # {}
  BY DEF NamesInv, NamesTypes, Loading, NextName
<1>2. n \in naming[w].left /\ \A m \in naming[w].left : n <= m
  BY <1>1, MinIsFirst, NamesAreNumbers DEF NextName
<1>3. naming' = [naming EXCEPT ![w] = [naming[w] EXCEPT !.left = naming[w].left \ {n}]]
  OBVIOUS
<1>4. [naming[w] EXCEPT !.left = naming[w].left \ {n}] \in Loading
  BY <1>1 DEF Loading
<1>5. NamesTypes'
  BY <1>3, <1>4 DEF NamesInv, NamesTypes
<1>6. /\ naming'[w].left = naming[w].left \ {n} /\ naming'[w].book = naming[w].book
      /\ naming'[w].nth = naming[w].nth /\ naming'[w].names = naming[w].names /\ naming'[w].links = naming[w].links
      /\ \A v \in Loaders : v # w => naming'[v] = naming[v]
  BY <1>1, <1>3 DEF NamesInv, NamesTypes, Loading
<1>7. holder'[n] = w /\ \A m \in Names : m # n => holder'[m] = holder[m]
  BY DEF NamesInv, NamesTypes
<1>8. n \in naming[w].names
  BY <1>2 DEF NamesInv, LeftOfNames
<1>9. IdleHasNothing'
  BY <1>6, <1>7, <1>8 DEF NamesInv, IdleHasNothing
<1>10. WorkHasBook' /\ FirstLinkedNothing' /\ LeftOfNames'
  BY <1>6 DEF NamesInv, WorkHasBook, FirstLinkedNothing, LeftOfNames
<1>11. Taken(w)' = Taken(w) \cup {n} /\ \A v \in Loaders : v # w => Taken(v)' = Taken(v)
  BY <1>2, <1>6, <1>8 DEF Taken
<1>12. HeldForBatch'
  BY <1>6, <1>7, <1>11 DEF NamesInv, HeldForBatch
<1>13. TakenComesFirst'
  <2>1. \A m \in naming[w].left \ {n} : n < m
    BY <1>1, <1>2, NamesAreNumbers
  <2>2. \A k \in Taken(w)' : \A m \in naming'[w].left : k < m
    BY <1>6, <1>11, <2>1 DEF NamesInv, TakenComesFirst
  <2>3. \A v \in Loaders : v # w => \A k \in Taken(v)' : \A m \in naming'[v].left : k < m
    BY <1>6, <1>11 DEF NamesInv, TakenComesFirst
  <2> QED BY <2>2, <2>3 DEF TakenComesFirst
<1> QED BY <1>5, <1>9, <1>10, <1>12, <1>13 DEF NamesInv

LEMMA NextKeepsNamesInv == NamesAssumption /\ NamesInv /\ [NamesNext]_nameVars => NamesInv'
<1> SUFFICES ASSUME NamesAssumption, NamesInv, [NamesNext]_nameVars
             PROVE  NamesInv'
  OBVIOUS
<1>1. CASE UNCHANGED nameVars
  BY <1>1 DEF nameVars, NamesInv, NamesTypes, IdleHasNothing, WorkHasBook, LeftOfNames,
              HeldForBatch, FirstLinkedNothing, TakenComesFirst, Taken
<1>2. ASSUME NEW w \in Loaders, NextBook(w) PROVE NamesInv'
  BY <1>2, NextBookKeepsNamesInv
<1>3. ASSUME NEW w \in Loaders, RollBack(w) PROVE NamesInv'
  BY <1>3, EndKeepsNamesInv DEF RollBack
<1>4. ASSUME NEW w \in Loaders, Upsert(w) PROVE NamesInv'
  <2>1. PICK n \in Names :
          /\ NextName(w, n)
          /\ \/ RollBack(w)
             \/ holder' = [holder EXCEPT ![n] = w] /\ naming' = [naming EXCEPT ![w].left = @ \ {n}]
    BY <1>4 DEF Upsert
  <2> QED BY <2>1, <1>3, TakeKeepsNamesInv
<1>5. ASSUME NEW w \in Loaders, Commit(w) PROVE NamesInv'
  BY <1>5, EndKeepsNamesInv DEF Commit
<1>6. ASSUME NEW w \in Loaders, Abort(w) PROVE NamesInv'
  BY <1>6, <1>3 DEF Abort
<1> QED BY <1>1, <1>2, <1>4, <1>5, <1>6 DEF NamesNext

(***************************************************************************)
(* Waits ascend                                                            *)
(***************************************************************************)

\* The names a writer that waits may still come to wait for.
Ahead(v) == {m \in Names : Min(naming[v].left) <= m}

\* Whoever waits for a row that a waiting writer took for the record in hand is
\* behind that writer.
LEMMA WaitsAscend ==
  ASSUME NamesAssumption, NamesInv, NEW v \in Loaders, NEW w \in Loaders, NEW n \in Names,
         WaitsOn(v, w, n), n \in Taken(w), naming[w].left # {}
  PROVE  Ahead(w) \subseteq Ahead(v) /\ Ahead(w) # Ahead(v)
<1>1. n = Min(naming[v].left)
  BY DEF WaitsOn, NextName
<1>2. naming[w].left \subseteq Names
  BY DEF NamesInv, NamesTypes, Loading
<1>3. Min(naming[w].left) \in Names /\ Min(naming[w].left) \in naming[w].left
  BY <1>2, MinIsFirst, NamesAreNumbers
<1>4. n < Min(naming[w].left)
  BY <1>1, <1>3 DEF NamesInv, TakenComesFirst
<1>5. n \in Ahead(v) /\ n \notin Ahead(w)
  BY <1>1, <1>3, <1>4, NamesAreNumbers DEF Ahead
<1>6. Ahead(w) \subseteq Ahead(v)
  BY <1>1, <1>3, <1>4, NamesAreNumbers DEF Ahead
<1> QED BY <1>5, <1>6

LEMMA NamesInvImpliesCirclesCrossRecords ==
  ASSUME NamesAssumption, NamesInv
  PROVE  CirclesCrossRecords
<1> SUFFICES ASSUME NEW circle \in SUBSET Loaders, WaitInCircle(circle),
                    \A v \in circle, w \in circle, n \in Names : WaitsOn(v, w, n) => n \in Taken(w)
             PROVE  FALSE
  BY DEF CirclesCrossRecords
<1> DEFINE Reaches == {Ahead(v) : v \in circle}
<1>1. Reaches \subseteq FiniteSubsetsOf(Names)
  <2>1. FiniteSubsetsOf(Names) = SUBSET Names
    BY NamesAreNumbers, FS_FiniteSubsetsOfFinite
  <2> QED BY <2>1 DEF Ahead
<1>2. PICK least \in Reaches : \A other \in Reaches : <<other, least>> \notin StrictSubsetOrdering(Names)
  <2>1. IsWellFoundedOn(StrictSubsetOrdering(Names), FiniteSubsetsOf(Names))
    BY FS_StrictSubsetOrderingWellFounded
  <2>2. Reaches # {}
    BY DEF WaitInCircle
  <2> HIDE DEF Reaches
  <2> QED BY <1>1, <2>1, <2>2, WFMin, Zenon
<1>3. PICK v \in circle : least = Ahead(v)
  OBVIOUS
<1>4. PICK w \in circle, n \in Names : WaitsOn(v, w, n)
  BY DEF WaitInCircle
<1>5. naming[w].left # {}
  BY DEF WaitInCircle, WaitsOn, NextName
<1>6. Ahead(w) \subseteq Ahead(v) /\ Ahead(w) # Ahead(v)
  BY <1>4, <1>5, WaitsAscend
<1>7. <<Ahead(w), Ahead(v)>> \in StrictSubsetOrdering(Names)
  BY <1>6 DEF StrictSubsetOrdering, Ahead
<1> QED BY <1>2, <1>3, <1>7

\* Within the first record of its batch a writer holds only what it took for it.
LEMMA FirstHoldsTaken ==
  ASSUME NamesInv, NEW w \in Loaders, NEW n \in Names, holder[n] = w, naming[w].nth <= 1
  PROVE  n \in Taken(w)
BY DEF NamesInv, HeldForBatch, FirstLinkedNothing

(***************************************************************************)
(* The theorems                                                            *)
(***************************************************************************)

\* A row that a load took for its record in hand lies before every row it has
\* yet to take for it, and every other row it holds is of a book that its batch
\* has linked already.
THEOREM NamesInvariant ==
  ASSUME NamesAssumption
  PROVE  NamesSpec => []NamesInv
<1>1. NamesInit => NamesInv
  BY InitNamesInv
<1>2. NamesInv /\ [NamesNext]_nameVars => NamesInv'
  BY NextKeepsNamesInv
<1> QED BY <1>1, <1>2, PTL DEF NamesSpec

\* However many batches of whatever records there are: in every circle of waits
\* on authors and subjects somebody waits for a row that was kept from an earlier
\* record of a batch.
THEOREM CirclesNeedEarlierRecords ==
  ASSUME NamesAssumption
  PROVE  NamesSpec => []CirclesCrossRecords
<1>1. NamesInv => CirclesCrossRecords
  BY NamesInvImpliesCirclesCrossRecords
<1>2. NamesSpec => []NamesInv
  BY NamesInvariant
<1> QED BY <1>1, <1>2, PTL

\* Writers that are all at the first record of their batches, as they always are
\* with DEFAULT_LOAD_BATCH (load_consumer.py:44-53), never wait for one another
\* in a circle on authors and subjects.
THEOREM OneRecordNeverCircles ==
  ASSUME NamesAssumption
  PROVE  NamesSpec => []\A circle \in SUBSET Loaders :
                          (\A w \in circle : naming[w].nth <= 1) => ~WaitInCircle(circle)
<1> DEFINE AloneSafe == \A circle \in SUBSET Loaders :
                          (\A w \in circle : naming[w].nth <= 1) => ~WaitInCircle(circle)
<1>1. NamesInv => AloneSafe
  BY NamesInvImpliesCirclesCrossRecords, FirstHoldsTaken DEF CirclesCrossRecords, WaitsOn
<1>2. NamesSpec => []NamesInv
  BY NamesInvariant
<1> HIDE DEF AloneSafe
<1>3. NamesSpec => []AloneSafe
  BY <1>1, <1>2, PTL
<1> QED BY <1>3 DEF AloneSafe
================================================================================
