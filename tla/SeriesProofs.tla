------------------------------ MODULE SeriesProofs ------------------------------
(***************************************************************************)
(* Series in the catalogue, for every number of books, records, names and  *)
(* ids: no step costs a book a series it was in or what it knew of its     *)
(* place there, and a merge brings the series of both books back.          *)
(*                                                                         *)
(* The opinions on a book are taken one after another, a fold over the     *)
(* records that report a series first.  Each is followed in the tables     *)
(* (Opinion), then all of them, by the smallest set of records that would  *)
(* make an exception.                                                      *)
(***************************************************************************)
EXTENDS CatalogueSeries, FiniteSetTheorems, WellFoundedInduction, TLAPS

SeriesRows == [key: SeriesKeys, name: Displays, normalized: SeriesNames]
Memberships == [book: Works, series: SeriesKeys, position: Places, confirmed: BOOLEAN]
AccountRows == [record: Observed, series: SeriesIds, book: Works, position: Places]
Tables == [row: SUBSET SeriesRows, link: SUBSET Memberships, account: SUBSET AccountRows]

\* The keys of the tables, and what refers to what.
Keyed(db) ==
  /\ \A r, q \in db.row : r.key = q.key => r = q
  /\ \A m, n \in db.link : m.book = n.book /\ m.series = n.series => m = n
Referring(db) ==
  /\ \A m \in db.link : \E r \in db.row : r.key = m.series
  /\ \A a \in db.account : \E m \in db.link : m.book = a.book /\ m.series = a.series
Sound(db) == db \in Tables /\ Keyed(db) /\ Referring(db)

LEMMA KeysOfClaims ==
  ASSUME SeriesAssumption, NEW claim \in Claims
  PROVE  /\ claim.name \in SeriesNames /\ claim.position \in Places /\ claim.display \in Displays
         /\ series_identity_key(claim) \in SeriesKeys
         /\ claim.id = NoId => series_identity_key(claim) = claim.name
         /\ claim.id # NoId => series_identity_key(claim) = claim.id /\ claim.id \in SeriesIds /\ claim.id # claim.name
BY DEF SeriesAssumption, Claims, series_identity_key, SeriesKeys

(***************************************************************************)
(* One opinion                                                             *)
(***************************************************************************)

LEMMA UpsertedKeeps ==
  ASSUME SeriesAssumption, NEW db, Sound(db), NEW claim \in Claims, NEW now, now = Upserted(db, claim)
  PROVE  /\ Sound(now) /\ now.link = db.link /\ now.account = db.account
         /\ \E r \in now.row : r.key = series_identity_key(claim) /\ r.normalized = claim.name
         /\ \A r \in db.row : r.key # series_identity_key(claim) => r \in now.row
<1>1. PICK k : k = series_identity_key(claim) /\ k \in SeriesKeys /\ claim.name \in SeriesNames /\ claim.display \in Displays
  BY KeysOfClaims
<1>2. db \in Tables /\ Keyed(db) /\ Referring(db) /\ db.row \subseteq SeriesRows
  BY DEF Sound, Tables
<1>3. CASE \E r \in db.row : r.key = k
  <2> DEFINE renamed(r) == IF r.key = k THEN [r EXCEPT !.normalized = claim.name] ELSE r
             rs == {renamed(r) : r \in db.row}
  <2>1. now = [db EXCEPT !.row = rs]
    BY <1>1, <1>3 DEF Upserted
  <2>2. \A r \in db.row : /\ renamed(r) \in SeriesRows /\ renamed(r).key = r.key
                          /\ r.key = k => renamed(r).normalized = claim.name
                          /\ r.key # k => renamed(r) = r
    BY <1>1, <1>2 DEF SeriesRows
  <2> HIDE DEF renamed
  <2>3. rs \subseteq SeriesRows
    BY <2>2
  <2>4. \A x \in rs : \E r \in db.row : x = renamed(r)
    OBVIOUS
  <2>5. \A r \in db.row : renamed(r) \in rs
    OBVIOUS
  <2> HIDE DEF rs
  <2>6. now \in Tables /\ now.row = rs /\ now.link = db.link /\ now.account = db.account
    BY <1>2, <2>1, <2>3 DEF Tables
  <2>7. \A x, y \in rs : x.key = y.key => x = y
    BY <1>2, <2>2, <2>4 DEF Keyed
  <2>8. \A m \in db.link : \E x \in rs : x.key = m.series
    BY <1>2, <2>2, <2>5 DEF Referring
  <2>9. Sound(now)
    BY <1>2, <2>6, <2>7, <2>8 DEF Sound, Keyed, Referring
  <2>10. \E x \in rs : x.key = k /\ x.normalized = claim.name
    BY <1>3, <2>2, <2>5
  <2>11. \A r \in db.row : r.key # k => r \in rs
    BY <2>2, <2>5
  <2> QED BY <1>1, <2>6, <2>9, <2>10, <2>11
<1>4. CASE ~\E r \in db.row : r.key = k
  <2>1. PICK x \in SeriesRows : x = [key |-> k, name |-> claim.display, normalized |-> claim.name] /\ x.key = k /\ x.normalized = claim.name
    <3> DEFINE y == [key |-> k, name |-> claim.display, normalized |-> claim.name]
    <3>1. y \in SeriesRows /\ y.key = k /\ y.normalized = claim.name
      BY <1>1 DEF SeriesRows
    <3> QED BY <3>1
  <2>2. now = [db EXCEPT !.row = @ \cup {x}]
    BY <1>1, <1>4, <2>1 DEF Upserted
  <2>3. now \in Tables /\ now.row = db.row \cup {x} /\ now.link = db.link /\ now.account = db.account
    BY <1>2, <2>2 DEF Tables
  <2>4. Sound(now)
    BY <1>2, <1>4, <2>1, <2>3 DEF Sound, Keyed, Referring
  <2> QED BY <1>1, <2>1, <2>3, <2>4
<1> QED BY <1>3, <1>4

\* A membership that tells as much of its place as another.
Richer(n, m) == (m.position # Unsaid => n.position # Unsaid) /\ (m.confirmed => n.confirmed)

LEMMA JoinedIsRicher ==
  ASSUME NEW m \in Memberships, NEW n \in Memberships
  PROVE  /\ Joined(m, n) \in Memberships /\ Joined(m, n).book = m.book /\ Joined(m, n).series = m.series
         /\ Richer(Joined(m, n), m) /\ Richer(Joined(m, n), n)
BY DEF Memberships, Joined, Richer, Coalesce

LEMMA LinkedKeeps ==
  ASSUME SeriesAssumption, NEW db, Sound(db), NEW claim \in Claims, NEW b \in Works, NEW now, now = Linked(db, b, claim),
         \E r \in db.row : r.key = series_identity_key(claim)
  PROVE  /\ Sound(now) /\ now.row = db.row /\ now.account = db.account
         /\ \A m \in now.link : m.book = b \/ m \in db.link
         /\ \A m \in db.link : \E n \in now.link : n.book = m.book /\ n.series = m.series /\ Richer(n, m)
         /\ \E n \in now.link : n.book = b /\ n.series = series_identity_key(claim)
<1>1. PICK k : k = series_identity_key(claim) /\ k \in SeriesKeys /\ claim.position \in Places
  BY KeysOfClaims
<1>2. PICK x \in Memberships :
         /\ x = [book |-> b, series |-> k, position |-> claim.position, confirmed |-> claim.id # NoId]
         /\ x.book = b /\ x.series = k
  <2> DEFINE y(c) == [book |-> b, series |-> k, position |-> claim.position, confirmed |-> c]
  <2>1. PICK c \in BOOLEAN : c = (claim.id # NoId)
    OBVIOUS
  <2>2. y(c) \in Memberships /\ y(c).book = b /\ y(c).series = k
    BY <1>1 DEF Memberships
  <2> QED BY <2>1, <2>2
<1>3. db \in Tables /\ Keyed(db) /\ Referring(db) /\ db.link \subseteq Memberships
  BY DEF Sound, Tables
<1> DEFINE there == {m \in db.link : m.book = b /\ m.series = k}
           put == IF there = {} THEN {x} ELSE {Joined(x, m) : m \in there}
           ls == (db.link \ there) \cup put
<1>4. With(db.link, x) = ls
  BY <1>2 DEF With
<1>5. now = [db EXCEPT !.link = ls]
  BY <1>1, <1>2, <1>4 DEF Linked
<1>6. \A m \in there : m \in Memberships
  BY <1>3
<1>7. /\ put \subseteq Memberships /\ put # {}
      /\ \A p \in put : p.book = b /\ p.series = k
      /\ \A m \in there : \E p \in put : Richer(p, m)
  BY <1>2, <1>6, JoinedIsRicher
<1>8. \A p, q \in put : p = q
  BY <1>3 DEF Keyed
<1> HIDE DEF put
<1>9. ls \subseteq Memberships
  BY <1>3, <1>7
<1>10. now \in Tables /\ now.link = ls /\ now.row = db.row /\ now.account = db.account
  BY <1>3, <1>5, <1>9 DEF Tables
<1>11. \A m \in ls : (m \in db.link /\ ~(m.book = b /\ m.series = k)) \/ m \in put
  OBVIOUS
<1>12. \A m \in db.link : \E n \in ls : n.book = m.book /\ n.series = m.series /\ Richer(n, m)
  BY <1>7 DEF Richer
<1>13. \E n \in ls : n.book = b /\ n.series = k
  BY <1>7
<1> HIDE DEF ls, there
<1>14. Keyed(now)
  BY <1>3, <1>7, <1>8, <1>10, <1>11 DEF Keyed
<1>15. Referring(now)
  <2>1. \A m \in ls : \E r \in db.row : r.key = m.series
    BY <1>1, <1>3, <1>7, <1>11 DEF Referring
  <2>2. \A a \in db.account : \E n \in ls : n.book = a.book /\ n.series = a.series
    BY <1>3, <1>12 DEF Referring
  <2> QED BY <1>10, <2>1, <2>2 DEF Referring
<1> QED BY <1>1, <1>7, <1>10, <1>11, <1>12, <1>13, <1>14, <1>15 DEF Sound

LEMMA AbsorbedKeeps ==
  ASSUME SeriesAssumption, NEW db, Sound(db), NEW claim \in Claims, NEW now, now = Absorbed(db, claim), claim.id # NoId,
         \E r \in db.row : r.key = claim.id
  PROVE  /\ Sound(now) /\ now.account = db.account
         /\ now.row = {r \in db.row : r.key # claim.name}
         /\ \A m \in now.link : \E l \in db.link : m.book = l.book
         /\ \A m \in db.link : \E n \in now.link :
              n.book = m.book /\ Richer(n, m) /\ n.series = IF m.series = claim.name THEN claim.id ELSE m.series
<1>1. PICK x, k : /\ x = claim.id /\ k = claim.name /\ x \in SeriesIds /\ x \in SeriesKeys /\ k \in SeriesNames /\ x # k
                  /\ \A a \in SeriesIds : a # k
  BY KeysOfClaims DEF SeriesAssumption, SeriesKeys
<1>2. db \in Tables /\ Keyed(db) /\ Referring(db) /\ db.link \subseteq Memberships /\ db.row \subseteq SeriesRows
      /\ db.account \subseteq AccountRows
  BY DEF Sound, Tables
<1> DEFINE moved(m) == [m EXCEPT !.series = x]
           MovedLinks == {moved(m) : m \in {l \in db.link : l.series = k}}
           Named == {m \in db.link : m.series = x}
           Both(m) == {l \in MovedLinks : l.book = m.book}
           Kept == {m \in db.link : m.series \notin {k, x}}
           Alone == {m \in MovedLinks : \A l \in Named : l.book # m.book}
           Unmoved == {m \in Named : Both(m) = {}}
           Merged == UNION {{Joined(m, l) : l \in Both(m)} : m \in Named}
           ls == Kept \cup Alone \cup Unmoved \cup Merged
           rs == {r \in db.row : r.key # k}
<1>3. now = [db EXCEPT !.row = rs, !.link = ls]
  BY <1>1 DEF Absorbed
<1>4. \A m \in db.link : /\ moved(m) \in Memberships /\ moved(m).book = m.book /\ moved(m).series = x
                         /\ Richer(moved(m), m)
  BY <1>1, <1>2 DEF Memberships, Richer
<1> HIDE DEF moved
<1>5. \A l \in MovedLinks : \E m \in db.link : m.series = k /\ l = moved(m)
  OBVIOUS
<1>6. \A m \in db.link : m.series = k => moved(m) \in MovedLinks
  OBVIOUS
<1> HIDE DEF MovedLinks
<1>7. \A l \in MovedLinks : /\ l \in Memberships /\ l.series = x
                            /\ \E m \in db.link : l.book = m.book
  BY <1>4, <1>5
<1>8. \A l, m \in MovedLinks : l.book = m.book => l = m
  BY <1>2, <1>4, <1>5 DEF Keyed
<1>9. \A m \in Named : m \in db.link /\ m.series = x /\ m \in Memberships
  BY <1>2
<1>10. \A m, l \in Named : m.book = l.book => m = l
  BY <1>2 DEF Keyed
<1> HIDE DEF Named
<1>11. \A y \in Merged : \E m \in Named, l \in MovedLinks : l.book = m.book /\ y = Joined(m, l)
  OBVIOUS
<1>12. \A m \in Named, l \in MovedLinks : l.book = m.book => Joined(m, l) \in Merged
  OBVIOUS
<1> HIDE DEF Merged
<1>13. \A y \in Merged : y \in Memberships /\ y.series = x /\ \E m \in Named, l \in MovedLinks : y.book = m.book /\ l.book = m.book /\ y = Joined(m, l)
  BY <1>7, <1>9, <1>11, JoinedIsRicher
<1> DEFINE New == Alone \cup Unmoved \cup Merged
<1>14. \A y \in New : y \in Memberships /\ y.series = x /\ \E m \in db.link : y.book = m.book
  BY <1>7, <1>9, <1>13
<1>15. \A y, z \in New : y.book = z.book => y = z
  BY <1>8, <1>10, <1>13
<1>16. \A m \in Named : \E n \in New : n.book = m.book /\ Richer(n, m)
  <2> TAKE m \in Named
  <2>1. CASE Both(m) = {}
    <3>1. m \in New /\ Richer(m, m)
      BY <2>1 DEF Richer
    <3> QED BY <3>1
  <2>2. CASE Both(m) # {}
    <3>1. PICK l \in MovedLinks : l.book = m.book
      BY <2>2
    <3>2. Joined(m, l) \in New /\ Joined(m, l).book = m.book /\ Richer(Joined(m, l), m)
      BY <1>7, <1>9, <1>12, <3>1, JoinedIsRicher
    <3> QED BY <3>2
  <2> QED BY <2>1, <2>2
<1>17. \A l \in MovedLinks : \E n \in New : n.book = l.book /\ Richer(n, l)
  <2> TAKE l \in MovedLinks
  <2>1. CASE \A m \in Named : m.book # l.book
    <3>1. l \in New /\ Richer(l, l)
      BY <2>1 DEF Richer
    <3> QED BY <3>1
  <2>2. CASE \E m \in Named : m.book = l.book
    <3>1. PICK m \in Named : l.book = m.book
      BY <2>2
    <3>2. Joined(m, l) \in New /\ Joined(m, l).book = m.book /\ Richer(Joined(m, l), l)
      BY <1>7, <1>9, <1>12, <3>1, JoinedIsRicher
    <3> QED BY <3>1, <3>2
  <2> QED BY <2>1, <2>2
<1>18. ls = Kept \cup New
  OBVIOUS
<1> HIDE DEF ls, New
<1>19. ls \subseteq Memberships /\ rs \subseteq SeriesRows
  BY <1>2, <1>14, <1>18
<1>20. now \in Tables /\ now.row = rs /\ now.link = ls /\ now.account = db.account
  BY <1>2, <1>3, <1>19 DEF Tables
<1>21. \A m \in db.link : \E n \in ls :
         n.book = m.book /\ Richer(n, m) /\ n.series = IF m.series = k THEN x ELSE m.series
  <2> TAKE m \in db.link
  <2>1. CASE m.series = k
    <3>1. PICK n \in New : n.book = moved(m).book /\ Richer(n, moved(m))
      BY <1>6, <1>17, <2>1
    <3>2. n.book = m.book /\ Richer(n, m) /\ n.series = x
      BY <1>4, <1>14, <3>1 DEF Richer
    <3> QED BY <1>18, <2>1, <3>2
  <2>2. CASE m.series = x
    <3>1. PICK n \in New : n.book = m.book /\ Richer(n, m)
      BY <1>16, <2>2 DEF Named
    <3> QED BY <1>1, <1>14, <1>18, <2>2, <3>1
  <2>3. CASE m.series # k /\ m.series # x
    <3>1. m \in ls /\ Richer(m, m)
      BY <1>18, <2>3 DEF Richer
    <3> QED BY <2>3, <3>1
  <2> QED BY <2>1, <2>2, <2>3
<1>22. Keyed(now)
  <2>1. \A m, n \in ls : m.book = n.book /\ m.series = n.series => m = n
    BY <1>2, <1>14, <1>15, <1>18 DEF Keyed
  <2> QED BY <1>2, <1>20, <2>1 DEF Keyed
<1>23. Referring(now)
  <2>1. \A m \in ls : \E r \in rs : r.key = m.series
    BY <1>1, <1>2, <1>14, <1>18 DEF Referring
  <2>2. \A a \in db.account : \E m \in ls : m.book = a.book /\ m.series = a.series
    <3> TAKE a \in db.account
    <3>1. PICK m \in db.link : m.book = a.book /\ m.series = a.series
      BY <1>2 DEF Referring
    <3>2. a.series \in SeriesIds
      BY <1>2 DEF AccountRows
    <3> QED BY <1>1, <1>21, <3>1, <3>2
  <2> QED BY <1>20, <2>1, <2>2 DEF Referring
<1>24. \A m \in ls : \E l \in db.link : m.book = l.book
  BY <1>14, <1>18
<1> QED BY <1>1, <1>20, <1>21, <1>22, <1>23, <1>24 DEF Sound

\* One opinion: where memberships go, and which rows it leaves alone.
LEMMA OpinionKeeps ==
  ASSUME SeriesAssumption, NEW db, Sound(db), NEW claim \in Claims, NEW b \in Works, NEW now, now = Opinion(db, b, claim)
  PROVE  /\ Sound(now) /\ now.account = db.account
         /\ \A m \in now.link : m.book = b \/ \E l \in db.link : m.book = l.book
         /\ \A m \in db.link : \E n \in now.link :
              /\ n.book = m.book /\ Richer(n, m)
              /\ n.series = IF claim.id # NoId /\ m.series = claim.name THEN claim.id ELSE m.series
         /\ \E n \in now.link : n.book = b /\ n.series = series_identity_key(claim)
         /\ \E r \in now.row : r.key = series_identity_key(claim) /\ r.normalized = claim.name
         /\ \A r \in db.row : r.key # series_identity_key(claim) /\ (claim.id # NoId => r.key # claim.name) => r \in now.row
<1>1. PICK up : up = Upserted(db, claim)
  OBVIOUS
<1>2. /\ Sound(up) /\ up.link = db.link /\ up.account = db.account
      /\ \E r \in up.row : r.key = series_identity_key(claim) /\ r.normalized = claim.name
      /\ \A r \in db.row : r.key # series_identity_key(claim) => r \in up.row
  BY <1>1, UpsertedKeeps
<1>3. PICK ab : ab = Absorbed(up, claim)
  OBVIOUS
<1>4. /\ Sound(ab) /\ ab.account = db.account
      /\ \A m \in ab.link : \E l \in db.link : m.book = l.book
      /\ \A m \in db.link : \E n \in ab.link :
           /\ n.book = m.book /\ Richer(n, m)
           /\ n.series = IF claim.id # NoId /\ m.series = claim.name THEN claim.id ELSE m.series
      /\ \E r \in ab.row : r.key = series_identity_key(claim) /\ r.normalized = claim.name
      /\ \A r \in db.row : r.key # series_identity_key(claim) /\ (claim.id # NoId => r.key # claim.name) => r \in ab.row
  <2>1. CASE claim.id = NoId
    <3>1. ab = up
      BY <1>3, <2>1 DEF Absorbed
    <3>2. \A m \in db.link : Richer(m, m)
      BY DEF Richer
    <3> QED BY <1>2, <2>1, <3>1, <3>2
  <2>2. CASE claim.id # NoId
    <3>1. series_identity_key(claim) = claim.id /\ claim.id # claim.name
      BY <2>2, KeysOfClaims
    <3>2. /\ Sound(ab) /\ ab.account = up.account
          /\ ab.row = {r \in up.row : r.key # claim.name}
          /\ \A m \in ab.link : \E l \in up.link : m.book = l.book
          /\ \A m \in up.link : \E n \in ab.link :
               n.book = m.book /\ Richer(n, m) /\ n.series = IF m.series = claim.name THEN claim.id ELSE m.series
      BY <1>2, <1>3, <2>2, <3>1, AbsorbedKeeps
    <3> QED BY <1>2, <2>2, <3>1, <3>2
  <2> QED BY <2>1, <2>2
<1>5. now = Linked(ab, b, claim)
  BY <1>1, <1>3 DEF Opinion
<1>6. /\ Sound(now) /\ now.row = ab.row /\ now.account = ab.account
      /\ \A m \in now.link : m.book = b \/ m \in ab.link
      /\ \A m \in ab.link : \E n \in now.link : n.book = m.book /\ n.series = m.series /\ Richer(n, m)
      /\ \E n \in now.link : n.book = b /\ n.series = series_identity_key(claim)
  <2>1. \E r \in ab.row : r.key = series_identity_key(claim)
    BY <1>4
  <2> QED BY <1>4, <1>5, <2>1, LinkedKeeps
<1>7. \A m \in db.link : \E n \in now.link :
        /\ n.book = m.book /\ Richer(n, m)
        /\ n.series = IF claim.id # NoId /\ m.series = claim.name THEN claim.id ELSE m.series
  <2> TAKE m \in db.link
  <2>1. PICK l \in ab.link : /\ l.book = m.book /\ Richer(l, m)
                             /\ l.series = IF claim.id # NoId /\ m.series = claim.name THEN claim.id ELSE m.series
    BY <1>4
  <2>2. PICK n \in now.link : n.book = l.book /\ n.series = l.series /\ Richer(n, l)
    BY <1>6
  <2>3. Richer(n, m)
    BY <2>1, <2>2 DEF Richer
  <2> QED BY <2>1, <2>2, <2>3
<1> QED BY <1>4, <1>6, <1>7

(***************************************************************************)
(* One opinion after another.  What the fold computes is shown by the      *)
(* least number, or a set none of whose smaller ones is an exception.      *)
(***************************************************************************)

LEMMA LeastNatural ==
  ASSUME NEW T, T \subseteq Nat, T # {}
  PROVE  \E m \in T : \A k \in T : m <= k
<1> DEFINE R == {ss \in Nat \X Nat : ss[1] < ss[2]}
<1>1. IsWellFoundedOn(R, Nat)
  BY NatLessThanWellFounded DEF OpToRel
<1> HIDE DEF R
<1>2. PICK x \in T : \A y \in T : ~(<<y, x>> \in R)
  BY <1>1, WFMin
<1>3. ASSUME NEW k \in T PROVE x <= k
  <2>1. <<k, x>> \in Nat \X Nat /\ ~(<<k, x>> \in R)
    BY <1>2
  <2>2. ~(k < x)
    BY <2>1 DEF R
  <2> QED BY <2>2
<1> QED BY <1>3

\* A set of subsets has them all, if it has each that it has without any one
\* of its elements.
LEMMA SubsetsAllIn ==
  ASSUME NEW S, IsFiniteSet(S), NEW G,
         \A s \in SUBSET S : (\A x \in s : s \ {x} \in G) => s \in G
  PROVE  SUBSET S \subseteq G
<1> DEFINE Bad == {s \in SUBSET S : s \notin G}
<1> SUFFICES ASSUME Bad # {} PROVE FALSE
  OBVIOUS
<1>1. PICK R : R = StrictSubsetOrdering(S)
  OBVIOUS
<1>2. IsWellFoundedOn(R, SUBSET S)
  <2>1. IsWellFoundedOn(StrictSubsetOrdering(S), FiniteSubsetsOf(S))
    BY FS_StrictSubsetOrderingWellFounded
  <2>2. FiniteSubsetsOf(S) = SUBSET S
    BY FS_FiniteSubsetsOfFinite
  <2> QED BY <1>1, <2>1, <2>2
<1>3. Bad \subseteq SUBSET S
  OBVIOUS
<1> HIDE DEF Bad
<1>4. PICK s \in Bad : \A t \in Bad : ~(<<t, s>> \in R)
  BY <1>2, <1>3, WFMin
<1> USE DEF Bad
<1>5. s \in SUBSET S /\ s \notin G
  OBVIOUS
<1>6. ASSUME NEW x \in s PROVE s \ {x} \in G
  <2>1. s \ {x} \in SUBSET S /\ <<s \ {x}, s>> \in R
    BY <1>1, <1>5 DEF StrictSubsetOrdering
  <2> QED BY <1>4, <2>1
<1> QED BY <1>5, <1>6

LEMMA MaxIsLast ==
  ASSUME NEW S, IsFiniteSet(S), S \subseteq Nat, S # {}
  PROVE  Max(S) \in S /\ \A x \in S : x <= Max(S)
<1> DEFINE G == {s \in SUBSET S : s = {} \/ \E x \in s : \A y \in s : y <= x}
<1>1. ASSUME NEW s \in SUBSET S, \A x \in s : s \ {x} \in G PROVE s \in G
  <2> SUFFICES ASSUME s # {} PROVE \E x \in s : \A y \in s : y <= x
    OBVIOUS
  <2>1. PICK z \in s : TRUE
    OBVIOUS
  <2>2. s \ {z} \in G
    BY <1>1, <2>1
  <2>3. CASE s \ {z} = {}
    <3>1. \A y \in s : y <= z
      BY <2>1, <2>3
    <3> QED BY <2>1, <3>1
  <2>4. CASE s \ {z} # {}
    <3>1. PICK x \in s \ {z} : \A y \in s \ {z} : y <= x
      BY <2>2, <2>4
    <3>2. x \in Nat /\ z \in Nat /\ s \subseteq Nat
      BY <2>1, <3>1
    <3>3. CASE z <= x
      BY <3>1, <3>2, <3>3
    <3>4. CASE x <= z
      <4>1. ASSUME NEW y \in s PROVE y <= z
        BY <3>1, <3>2, <3>4
      <4> QED BY <2>1, <4>1
    <3> QED BY <3>2, <3>3, <3>4
  <2> QED BY <2>3, <2>4
<1> HIDE DEF G
<1>2. S \in G
  BY <1>1, SubsetsAllIn
<1> USE DEF G
<1>3. \E x \in S : \A y \in S : x >= y
  BY <1>2
<1>4. Max(S) \in S /\ \A y \in S : Max(S) >= y
  BY <1>3 DEF Max
<1> QED BY <1>4

\* One line of the fold's table.
OpinionLine(g, db, b, claims, s) ==
  IF s = {} THEN db ELSE Opinion(g[s \ {Max(s)}], b, claims[Max(s)])
OpinionLines(g, db, b, claims, S) == [s \in SUBSET S |-> OpinionLine(g, db, b, claims, s)]

\* The table is there: line by line, for sets of more and more records.
LEMMA OpinionTableExists ==
  ASSUME NEW db, NEW b, NEW claims, NEW S, IsFiniteSet(S), S \subseteq Nat
  PROVE  \E g : g = OpinionLines(g, db, b, claims, S)
<1> DEFINE Upto(n) == {s \in SUBSET S : Cardinality(s) <= n}
           Partial(n) == \E g : g = [s \in Upto(n) |-> OpinionLine(g, db, b, claims, s)]
           Bad == {n \in Nat : ~Partial(n)}
<1>1. \A s \in SUBSET S : IsFiniteSet(s) /\ Cardinality(s) \in Nat /\ Cardinality(s) <= Cardinality(S)
  BY FS_Subset, FS_CardinalityType
<1>2. ASSUME NEW s \in SUBSET S, s # {}
      PROVE  s \ {Max(s)} \in SUBSET S /\ Cardinality(s \ {Max(s)}) = Cardinality(s) - 1
  <2>1. Max(s) \in s /\ IsFiniteSet(s)
    BY <1>1, <1>2, MaxIsLast
  <2>2. Cardinality(s \ {Max(s)}) = Cardinality(s) - 1
    BY <2>1, FS_RemoveElement
  <2> QED BY <2>2
<1>3. Partial(0)
  <2> DEFINE h == [s \in Upto(0) |-> db]
  <2>1. \A s \in Upto(0) : s = {}
    <3> TAKE s \in Upto(0)
    <3>1. IsFiniteSet(s) /\ Cardinality(s) = 0
      BY <1>1
    <3> QED BY <3>1, FS_EmptySet
  <2>2. h = [s \in Upto(0) |-> OpinionLine(h, db, b, claims, s)]
    BY <2>1 DEF OpinionLine
  <2> HIDE DEF h
  <2> QED BY <2>2
<1>4. ASSUME NEW n \in Nat, Partial(n) PROVE Partial(n + 1)
  <2>1. PICK g : g = [s \in Upto(n) |-> OpinionLine(g, db, b, claims, s)]
    BY <1>4
  <2> DEFINE h == [s \in Upto(n + 1) |-> OpinionLine(g, db, b, claims, s)]
  <2>2. ASSUME NEW s \in Upto(n + 1), s # {} PROVE s \ {Max(s)} \in Upto(n) /\ s \ {Max(s)} \in Upto(n + 1)
    <3>1. s \in SUBSET S /\ Cardinality(s) \in Nat /\ Cardinality(s) <= n + 1
      BY <1>1
    <3>2. s \ {Max(s)} \in SUBSET S /\ Cardinality(s \ {Max(s)}) = Cardinality(s) - 1
      BY <1>2, <2>2, <3>1
    <3>3. Cardinality(s \ {Max(s)}) <= n /\ Cardinality(s \ {Max(s)}) <= n + 1
      BY <3>1, <3>2
    <3> QED BY <3>2, <3>3
  <2>3. \A s \in Upto(n) : s \in Upto(n + 1) /\ h[s] = g[s]
    <3>1. \A s \in Upto(n) : s \in Upto(n + 1)
      BY <1>1
    <3>2. \A s \in Upto(n) : g[s] = OpinionLine(g, db, b, claims, s)
      BY <2>1
    <3>3. \A s \in Upto(n + 1) : h[s] = OpinionLine(g, db, b, claims, s)
      OBVIOUS
    <3> QED BY <3>1, <3>2, <3>3
  <2>4. h = [s \in Upto(n + 1) |-> h[s]] /\ \A s \in Upto(n + 1) : h[s] = OpinionLine(g, db, b, claims, s)
    OBVIOUS
  <2> HIDE DEF h
  <2>5. \A s \in Upto(n + 1) : h[s] = OpinionLine(h, db, b, claims, s)
    BY <2>2, <2>3, <2>4 DEF OpinionLine
  <2>6. h = [s \in Upto(n + 1) |-> OpinionLine(h, db, b, claims, s)]
    BY <2>4, <2>5
  <2> QED BY <2>6
<1>5. Cardinality(S) \in Nat /\ Upto(Cardinality(S)) = SUBSET S
  BY <1>1, FS_CardinalityType
<1> HIDE DEF Partial, Upto
<1>6. Bad = {}
  <2> SUFFICES ASSUME Bad # {} PROVE FALSE
    OBVIOUS
  <2>1. Bad \subseteq Nat
    OBVIOUS
  <2> HIDE DEF Bad
  <2>2. PICK m \in Bad : \A k \in Bad : m <= k
    BY <2>1, LeastNatural
  <2> USE DEF Bad
  <2>3. m \in Nat /\ ~Partial(m)
    OBVIOUS
  <2>4. m # 0
    BY <1>3, <2>3
  <2>5. PICK k \in Nat : m = k + 1
    BY <2>3, <2>4
  <2>6. k \notin Bad
    BY <2>2, <2>5
  <2> QED BY <1>4, <2>3, <2>5, <2>6
<1>7. Partial(Cardinality(S))
  BY <1>5, <1>6
<1>8. PICK g : g = [s \in Upto(Cardinality(S)) |-> OpinionLine(g, db, b, claims, s)]
  BY <1>7 DEF Partial
<1> QED BY <1>5, <1>8 DEF OpinionLines

LEMMA OpinionTable ==
  ASSUME NEW db, NEW b, NEW claims, IsFiniteSet(Best(claims)), Best(claims) \subseteq Nat
  PROVE  \E g : /\ \A s \in SUBSET Best(claims) : g[s] = OpinionLine(g, db, b, claims, s)
                /\ Opinions(db, b, claims) = g[Best(claims)]
<1>1. PICK S : S = Best(claims) /\ IsFiniteSet(S) /\ S \subseteq Nat
  OBVIOUS
<1>2. \E g : g = OpinionLines(g, db, b, claims, S)
  BY <1>1, OpinionTableExists
<1> DEFINE table == CHOOSE g : g = OpinionLines(g, db, b, claims, S)
<1>3. Opinions(db, b, claims) = table[S]
  BY <1>1 DEF Opinions, MapThenFoldSet, OpinionLine, OpinionLines
<1>4. table = OpinionLines(table, db, b, claims, S)
  BY <1>2
<1> HIDE DEF table
<1>5. \A s \in SUBSET S : table[s] = OpinionLine(table, db, b, claims, s)
  BY <1>4 DEF OpinionLines
<1> QED BY <1>1, <1>3, <1>5

(***************************************************************************)
(* All opinions on a book                                                  *)
(***************************************************************************)

\* The membership n is one in the series k, or in the one k was folded into
\* by what a record of s reports.
Goes(now, claims, s, n, k) ==
  \/ n.series = k
  \/ \E r \in s : /\ claims[r].id # NoId /\ n.series = claims[r].id /\ claims[r].name = k
                  /\ \E x \in now.row : x.key = n.series /\ x.normalized = k

\* The tables after the opinions of the records of s.
Taken(now, db, b, claims, s) ==
  /\ Sound(now) /\ now.account = db.account
  /\ \A m \in now.link : m.book = b \/ \E l \in db.link : m.book = l.book
  /\ \A m \in db.link : \E n \in now.link :
       n.book = m.book /\ Richer(n, m) /\ Goes(now, claims, s, n, m.series)
  /\ \A r \in s : \E n \in now.link :
       n.book = b /\ Goes(now, claims, s, n, series_identity_key(claims[r]))

LEMMA BestAreRows ==
  ASSUME SeriesAssumption, NEW claims, DOMAIN claims \subseteq Observed
  PROVE  /\ Best(claims) \subseteq DOMAIN claims /\ Best(claims) \subseteq Nat /\ IsFiniteSet(Best(claims))
         /\ \A q, r \in Best(claims) : q # r => series_identity_key(claims[q]) # series_identity_key(claims[r])
<1>1. Best(claims) \subseteq DOMAIN claims /\ DOMAIN claims \subseteq Nat /\ IsFiniteSet(Observed)
  BY DEF Best, SeriesAssumption
<1>2. IsFiniteSet(Best(claims))
  <2>1. Best(claims) \subseteq Observed
    BY <1>1
  <2> QED BY <1>1, <2>1, FS_Subset
<1>3. ASSUME NEW q \in Best(claims), NEW r \in Best(claims), q # r
      PROVE  series_identity_key(claims[q]) # series_identity_key(claims[r])
  <2>1. q \in Nat /\ r \in Nat /\ (q < r \/ r < q)
    BY <1>1, <1>3
  <2> QED BY <1>1, <2>1 DEF Best
<1> QED BY <1>1, <1>2, <1>3

\* A membership that has gone to a series goes with it.
LEMMA GoesOn ==
  ASSUME SeriesAssumption, NEW claims, DOMAIN claims \subseteq Observed, \A r \in DOMAIN claims : claims[r] \in Claims,
         NEW s, s \subseteq Best(claims), NEW r \in s, NEW t, t = s \ {r}, NEW claim \in Claims, claim = claims[r],
         NEW now, NEW next, NEW m, NEW n, NEW k, Goes(now, claims, t, m, k),
         n.series = IF claim.id # NoId /\ m.series = claim.name THEN claim.id ELSE m.series,
         \E x \in next.row : x.key = series_identity_key(claim) /\ x.normalized = claim.name,
         \A x \in now.row : x.key # series_identity_key(claim) /\ (claim.id # NoId => x.key # claim.name) => x \in next.row
  PROVE  Goes(next, claims, s, n, k)
<1>1. CASE m.series = k
  <2>1. CASE claim.id # NoId /\ k = claim.name
    <3>1. n.series = claim.id /\ series_identity_key(claim) = claim.id
      BY <1>1, <2>1 DEF series_identity_key
    <3> QED BY <2>1, <3>1 DEF Goes
  <2>2. CASE ~(claim.id # NoId /\ k = claim.name)
    BY <1>1, <2>2 DEF Goes
  <2> QED BY <2>1, <2>2
<1>2. CASE \E q \in t : /\ claims[q].id # NoId /\ m.series = claims[q].id /\ claims[q].name = k
                        /\ \E x \in now.row : x.key = m.series /\ x.normalized = k
  <2>1. PICK q \in t : /\ claims[q].id # NoId /\ m.series = claims[q].id /\ claims[q].name = k
                       /\ \E x \in now.row : x.key = m.series /\ x.normalized = k
    BY <1>2
  <2>2. q \in s /\ q \in Best(claims) /\ r \in Best(claims) /\ q # r /\ claims[q] \in Claims
    BY BestAreRows
  <2>3. series_identity_key(claims[q]) # series_identity_key(claim) /\ series_identity_key(claims[q]) = m.series
    BY <2>1, <2>2, BestAreRows DEF series_identity_key
  <2>4. m.series # claim.name
    <3>1. claims[q].id \in SeriesIds /\ claim.name \in SeriesNames
      BY <2>1, <2>2, KeysOfClaims
    <3> QED BY <2>1, <3>1 DEF SeriesAssumption
  <2>5. n.series = m.series
    BY <2>4
  <2>6. PICK x \in now.row : x.key = m.series /\ x.normalized = k
    BY <2>1
  <2>7. x \in next.row
    BY <2>3, <2>4, <2>6
  <2> QED BY <2>1, <2>2, <2>5, <2>6, <2>7 DEF Goes
<1> QED BY <1>1, <1>2 DEF Goes

LEMMA OpinionTakes ==
  ASSUME SeriesAssumption, NEW claims, DOMAIN claims \subseteq Observed, \A r \in DOMAIN claims : claims[r] \in Claims,
         NEW s, s \subseteq Best(claims), NEW r \in s, NEW t, t = s \ {r}, NEW b \in Works,
         NEW db, NEW now, Taken(now, db, b, claims, t), NEW next, next = Opinion(now, b, claims[r])
  PROVE  Taken(next, db, b, claims, s)
<1>1. PICK claim \in Claims : claim = claims[r]
  BY BestAreRows
<1>2. Sound(now) /\ next = Opinion(now, b, claim)
  BY <1>1 DEF Taken
<1>3. /\ Sound(next) /\ next.account = now.account
      /\ \A m \in next.link : m.book = b \/ \E l \in now.link : m.book = l.book
      /\ \A m \in now.link : \E n \in next.link :
           /\ n.book = m.book /\ Richer(n, m)
           /\ n.series = IF claim.id # NoId /\ m.series = claim.name THEN claim.id ELSE m.series
      /\ \E n \in next.link : n.book = b /\ n.series = series_identity_key(claim)
      /\ \E x \in next.row : x.key = series_identity_key(claim) /\ x.normalized = claim.name
      /\ \A x \in now.row : x.key # series_identity_key(claim) /\ (claim.id # NoId => x.key # claim.name) => x \in next.row
  BY <1>2, OpinionKeeps
<1>4. ASSUME NEW m \in now.link, NEW k, Goes(now, claims, t, m, k)
      PROVE  \E n \in next.link : n.book = m.book /\ Richer(n, m) /\ Goes(next, claims, s, n, k)
  <2>1. PICK n \in next.link :
          /\ n.book = m.book /\ Richer(n, m)
          /\ n.series = IF claim.id # NoId /\ m.series = claim.name THEN claim.id ELSE m.series
    BY <1>3
  <2>2. Goes(next, claims, s, n, k)
    <3>1. /\ \E x \in next.row : x.key = series_identity_key(claim) /\ x.normalized = claim.name
          /\ \A x \in now.row : x.key # series_identity_key(claim) /\ (claim.id # NoId => x.key # claim.name) => x \in next.row
      BY <1>3
    <3>2. n.series = IF claim.id # NoId /\ m.series = claim.name THEN claim.id ELSE m.series
      BY <2>1
    <3>3. Goes(now, claims, t, m, k) /\ claim = claims[r] /\ claim \in Claims /\ r \in s /\ t = s \ {r}
      BY <1>1, <1>4
    <3> QED BY ONLY SeriesAssumption, DOMAIN claims \subseteq Observed, \A q \in DOMAIN claims : claims[q] \in Claims,
                    s \subseteq Best(claims), <3>1, <3>2, <3>3, GoesOn, SMTT(60)
  <2> QED BY <2>1, <2>2
<1>5. ASSUME NEW m \in db.link
      PROVE  \E n \in next.link : n.book = m.book /\ Richer(n, m) /\ Goes(next, claims, s, n, m.series)
  <2>1. PICK l \in now.link : l.book = m.book /\ Richer(l, m) /\ Goes(now, claims, t, l, m.series)
    BY DEF Taken
  <2>2. PICK n \in next.link : n.book = l.book /\ Richer(n, l) /\ Goes(next, claims, s, n, m.series)
    BY <1>4, <2>1
  <2>3. Richer(n, m)
    BY <2>1, <2>2 DEF Richer
  <2> QED BY <2>1, <2>2, <2>3
<1>6. ASSUME NEW q \in s
      PROVE  \E n \in next.link : n.book = b /\ Goes(next, claims, s, n, series_identity_key(claims[q]))
  <2>1. CASE q = r
    BY <1>1, <1>3, <2>1 DEF Goes
  <2>2. CASE q # r
    <3>1. q \in t
      BY <2>2
    <3>2. PICK l \in now.link : l.book = b /\ Goes(now, claims, t, l, series_identity_key(claims[q]))
      BY <3>1 DEF Taken
    <3>3. PICK n \in next.link : n.book = l.book /\ Richer(n, l) /\ Goes(next, claims, s, n, series_identity_key(claims[q]))
      BY <1>4, <3>2
    <3> QED BY <3>2, <3>3
  <2> QED BY <2>1, <2>2
<1>7. \A m \in next.link : m.book = b \/ \E l \in db.link : m.book = l.book
  BY <1>3 DEF Taken
<1> QED BY <1>3, <1>5, <1>6, <1>7 DEF Taken

LEMMA OpinionsTaken ==
  ASSUME SeriesAssumption, NEW claims, DOMAIN claims \subseteq Observed, \A r \in DOMAIN claims : claims[r] \in Claims,
         NEW db, Sound(db), NEW b \in Works
  PROVE  Taken(Opinions(db, b, claims), db, b, claims, Best(claims))
<1>1. PICK S : S = Best(claims) /\ S \subseteq Nat /\ IsFiniteSet(S)
  BY BestAreRows
<1>2. PICK g : /\ \A s \in SUBSET S : g[s] = OpinionLine(g, db, b, claims, s)
               /\ Opinions(db, b, claims) = g[S]
  <2>1. IsFiniteSet(Best(claims)) /\ Best(claims) \subseteq Nat
    BY <1>1
  <2>2. \E g : /\ \A s \in SUBSET Best(claims) : g[s] = OpinionLine(g, db, b, claims, s)
               /\ Opinions(db, b, claims) = g[Best(claims)]
    BY <2>1, OpinionTable
  <2> QED BY <1>1, <2>2
<1> DEFINE G == {s \in SUBSET S : Taken(g[s], db, b, claims, s)}
<1>3. ASSUME NEW s \in SUBSET S, \A x \in s : s \ {x} \in G PROVE s \in G
  <2>1. CASE s = {}
    <3>1. g[s] = db
      BY <1>2, <2>1 DEF OpinionLine
    <3>2. \A m \in db.link : Richer(m, m) /\ Goes(db, claims, s, m, m.series)
      BY DEF Richer, Goes
    <3>3. Taken(db, db, b, claims, s)
      BY <2>1, <3>2 DEF Taken
    <3> QED BY <3>1, <3>3
  <2>2. CASE s # {}
    <3>1. PICK r \in s : r = Max(s)
      <4>1. IsFiniteSet(s) /\ s \subseteq Nat
        BY <1>1, FS_Subset
      <4> QED BY <2>2, <4>1, MaxIsLast
    <3>2. PICK t : t = s \ {r} /\ Taken(g[t], db, b, claims, t)
      BY <1>3
    <3>3. g[s] = Opinion(g[t], b, claims[r])
      BY <1>2, <2>2, <3>1, <3>2 DEF OpinionLine
    <3>4. s \subseteq Best(claims)
      BY <1>1
    <3>5. Taken(g[s], db, b, claims, s)
      BY <3>2, <3>3, <3>4, OpinionTakes
    <3> QED BY <3>5
  <2> QED BY <2>1, <2>2
<1> HIDE DEF G
<1>4. \A s \in SUBSET S : (\A x \in s : s \ {x} \in G) => s \in G
  BY <1>3
<1>5. SUBSET S \subseteq G
  <2>1. IsFiniteSet(S)
    BY <1>1
  <2> QED BY ONLY <1>4, <2>1, SubsetsAllIn
<1>6. S \in G
  BY <1>5
<1> QED BY <1>1, <1>2, <1>6 DEF G

\* Every record that reports has one before it, or itself, with its opinion.
LEMMA ReportsAreTaken ==
  ASSUME SeriesAssumption, NEW claims, DOMAIN claims \subseteq Observed, NEW r \in DOMAIN claims
  PROVE  \E q \in Best(claims) : series_identity_key(claims[q]) = series_identity_key(claims[r])
<1> DEFINE T == {q \in DOMAIN claims : series_identity_key(claims[q]) = series_identity_key(claims[r])}
<1>1. T \subseteq Nat /\ T # {}
  BY DEF SeriesAssumption
<1> HIDE DEF T
<1>2. PICK q \in T : \A p \in T : q <= p
  BY <1>1, LeastNatural
<1>3. ASSUME NEW p \in DOMAIN claims, p < q PROVE series_identity_key(claims[p]) # series_identity_key(claims[q])
  <2>1. p \in Nat /\ q \in Nat
    BY <1>1 DEF SeriesAssumption
  <2>2. p \notin T
    BY <1>2, <1>3, <2>1
  <2> QED BY <1>2, <2>2 DEF T
<1>4. q \in Best(claims)
  BY <1>2, <1>3 DEF Best, T
<1> QED BY <1>2, <1>4 DEF T

(***************************************************************************)
(* The inductive invariant and the steps                                   *)
(***************************************************************************)

SeriesInv ==
  /\ said \in [Observed -> Claims \cup {Unsaid}]
  /\ book \in [Observed -> Works \ gone]
  /\ Sound(Stored)
  /\ \A m \in link : m.book \notin gone

LEMMA SoundIsTyped == ASSUME SeriesInv PROVE SeriesTypeOK
<1>1. /\ row \subseteq SeriesRows /\ link \subseteq Memberships /\ account \subseteq AccountRows
      /\ Keyed(Stored) /\ Referring(Stored) /\ Stored.row = row /\ Stored.link = link /\ Stored.account = account
  BY DEF SeriesInv, Sound, Tables, Stored
<1>2. link \subseteq [book: Works \ gone, series: {r.key : r \in row}, position: Places, confirmed: BOOLEAN]
  <2> SUFFICES ASSUME NEW m \in link
               PROVE  m \in [book: Works \ gone, series: {r.key : r \in row}, position: Places, confirmed: BOOLEAN]
    OBVIOUS
  <2>1. m \in Memberships /\ m.book \notin gone /\ \E r \in row : r.key = m.series
    BY <1>1 DEF SeriesInv, Referring
  <2> QED BY <2>1 DEF Memberships
<1>3. \A a \in account : \E m \in link : m.book = a.book /\ m.series = a.series
  BY <1>1 DEF Referring
<1>4. account \subseteq [record: Observed, series: SeriesIds, book: Works \ gone, position: Places]
  <2> SUFFICES ASSUME NEW a \in account
               PROVE  a \in [record: Observed, series: SeriesIds, book: Works \ gone, position: Places]
    OBVIOUS
  <2>1. a \in AccountRows /\ a.book \notin gone
    BY <1>1, <1>3 DEF SeriesInv
  <2> QED BY <2>1 DEF AccountRows
<1>5. IsInjectiveOn(row, LAMBDA r : r.key)
  BY <1>1 DEF IsInjectiveOn, Keyed
<1>6. IsInjectiveOn(link, LAMBDA m : <<m.book, m.series>>)
  BY <1>1 DEF IsInjectiveOn, Keyed
<1> QED BY <1>1, <1>2, <1>3, <1>4, <1>5, <1>6 DEF SeriesTypeOK, SeriesInv, SeriesRows

LEMMA AccountsKeep ==
  ASSUME SeriesAssumption, NEW claims, DOMAIN claims \subseteq Observed, \A r \in DOMAIN claims : claims[r] \in Claims,
         NEW db, NEW b \in Works, NEW now, Taken(now, db, b, claims, Best(claims)),
         NEW synced, synced = Accounts(now, b, claims)
  PROVE  Sound(synced) /\ synced.row = now.row /\ synced.link = now.link
<1> DEFINE naming == {r \in DOMAIN claims : claims[r].id # NoId}
           New(r) == [record |-> r, series |-> claims[r].id, book |-> b, position |-> claims[r].position]
           as == {a \in now.account : \A r \in naming : a.record # r \/ a.series # claims[r].id} \cup {New(r) : r \in naming}
<1>1. synced = [now EXCEPT !.account = as]
  BY DEF Accounts
<1>2. now \in Tables /\ Keyed(now) /\ Referring(now)
  BY DEF Taken, Sound
<1>3. \A r \in naming : New(r) \in AccountRows /\ New(r).book = b /\ New(r).series = claims[r].id /\ claims[r].id \in SeriesIds
  BY KeysOfClaims DEF AccountRows
<1>4. \A a \in as : a \in now.account \/ \E r \in naming : a = New(r)
  OBVIOUS
<1>5. ASSUME NEW r \in naming PROVE \E m \in now.link : m.book = b /\ m.series = claims[r].id
  <2>1. PICK k : k = claims[r].id /\ k = series_identity_key(claims[r]) /\ k \in SeriesIds
    BY <1>3, <1>5, KeysOfClaims
  <2>2. PICK q \in Best(claims) : series_identity_key(claims[q]) = k
    BY <2>1, ReportsAreTaken
  <2>3. PICK m \in now.link : m.book = b /\ Goes(now, claims, Best(claims), m, k)
    BY <2>2 DEF Taken
  <2>4. \A p \in Best(claims) : claims[p].name # k
    <3> TAKE p \in Best(claims)
    <3>1. claims[p].name \in SeriesNames
      BY BestAreRows, KeysOfClaims
    <3> QED BY <2>1, <3>1 DEF SeriesAssumption
  <2> QED BY <2>1, <2>3, <2>4 DEF Goes
<1> HIDE DEF as, New, naming
<1>6. as \subseteq AccountRows
  BY <1>2, <1>3, <1>4 DEF Tables
<1>7. synced \in Tables /\ synced.account = as /\ synced.row = now.row /\ synced.link = now.link
  BY <1>1, <1>2, <1>6 DEF Tables
<1>8. \A a \in as : \E m \in now.link : m.book = a.book /\ m.series = a.series
  <2> TAKE a \in as
  <2>1. CASE a \in now.account
    BY <1>2, <2>1 DEF Referring
  <2>2. CASE \E r \in naming : a = New(r)
    <3>1. PICK r \in naming : a = New(r)
      BY <2>2
    <3>2. a.book = b /\ a.series = claims[r].id
      BY <1>3, <3>1
    <3> QED BY <1>5, <3>2
  <2> QED BY <1>4, <2>1, <2>2
<1> QED BY <1>2, <1>7, <1>8 DEF Sound, Keyed, Referring

LEMMA SyncTakes ==
  ASSUME SeriesAssumption, said' \in [Observed -> Claims \cup {Unsaid}],
         NEW db, Sound(db), NEW b \in Works, Sync(db, b)
  PROVE  /\ Sound(Stored)'
         /\ \A m \in link' : m.book = b \/ \E l \in db.link : m.book = l.book
         /\ \A m \in db.link : \E n \in In(m.book, m.series)' : Richer(n, m)
         /\ \A k : \A r \in Observed : book'[r] = b /\ said'[r] # Unsaid /\ k = series_identity_key(said'[r]) => In(b, k)' # {}
<1>1. PICK claims : claims = Reported(b)
  OBVIOUS
<1>2. /\ DOMAIN claims = {r \in Observed : book'[r] = b /\ said'[r] # Unsaid}
      /\ \A r \in DOMAIN claims : claims[r] = said'[r] /\ claims[r] \in Claims
  BY <1>1 DEF Reported
<1>3. DOMAIN claims \subseteq Observed /\ \A r \in DOMAIN claims : claims[r] \in Claims
  BY <1>2
<1>4. PICK now : now = Opinions(db, b, claims) /\ Taken(now, db, b, claims, Best(claims))
  BY <1>3, OpinionsTaken
<1>5. PICK synced : /\ synced = Accounts(now, b, claims)
                    /\ row' = synced.row /\ link' = synced.link /\ account' = synced.account
  BY <1>1, <1>4 DEF Sync
<1>6. Sound(synced) /\ row' = now.row /\ link' = now.link
  BY <1>3, <1>4, <1>5, AccountsKeep
<1>7. Stored' = synced
  <2>1. synced \in Tables
    BY <1>6 DEF Sound
  <2> QED BY <1>5, <2>1 DEF Stored, Tables
<1>8. ASSUME NEW n \in link', NEW k, Goes(now, claims, Best(claims), n, k) PROVE n \in In(n.book, k)'
  BY <1>6, <1>8 DEF Goes, In
<1>9. \A m \in db.link : \E n \in In(m.book, m.series)' : Richer(n, m)
  <2> TAKE m \in db.link
  <2>1. PICK n \in link' : n.book = m.book /\ Richer(n, m) /\ Goes(now, claims, Best(claims), n, m.series)
    BY <1>4, <1>6 DEF Taken
  <2> QED BY <1>8, <2>1
<1>10. ASSUME NEW r \in Observed, NEW k, book'[r] = b, said'[r] # Unsaid, k = series_identity_key(said'[r]) PROVE In(b, k)' # {}
  <2>1. r \in DOMAIN claims /\ series_identity_key(claims[r]) = k
    BY <1>2, <1>10
  <2>2. PICK q \in Best(claims) : series_identity_key(claims[q]) = k
    BY <1>3, <2>1, ReportsAreTaken
  <2>3. PICK n \in link' : n.book = b /\ Goes(now, claims, Best(claims), n, k)
    BY <1>4, <1>6, <2>2 DEF Taken
  <2> QED BY <1>8, <2>3
<1>11. Sound(Stored)'
  BY <1>6, <1>7 DEF Sound, Keyed, Referring
<1> QED BY <1>4, <1>6, <1>9, <1>10, <1>11 DEF Taken

\* What a merge deletes refers to the orphan.
LEMMA BereftIsSound ==
  ASSUME Sound(Stored), NEW orphan PROVE Sound(Bereft(orphan)) /\ Bereft(orphan).link = {m \in link : m.book # orphan}
<1>1. PICK db : db = Stored /\ db \in Tables /\ db.link = link /\ db.account = account
  BY DEF Stored, Sound
<1> DEFINE ls == {m \in db.link : m.book # orphan}
           as == {a \in db.account : a.book # orphan}
<1>2. Bereft(orphan) = [db EXCEPT !.link = ls, !.account = as]
  BY <1>1 DEF Bereft
<1>3. PICK new : new = Bereft(orphan) /\ new \in Tables /\ new.row = db.row /\ new.link = ls /\ new.account = as
  BY <1>1, <1>2 DEF Tables
<1> QED BY <1>1, <1>3 DEF Sound, Keyed, Referring

LEMMA LoadSteps ==
  ASSUME SeriesAssumption, SeriesInv, NEW r \in Observed, NEW claim \in Claims \cup {Unsaid}, LoadSeries(r, claim)
  PROVE  /\ SeriesInv' /\ gone' = gone
         /\ \A m \in link : \E n \in In(m.book, m.series)' : Richer(n, m)
<1>1. /\ said' \in [Observed -> Claims \cup {Unsaid}] /\ book' = book /\ gone' = gone /\ book[r] \in Works \ gone
      /\ Sound(Stored) /\ Stored.link = link /\ Sync(Stored, book[r])
  BY DEF LoadSeries, SeriesInv, Stored
<1>2. PICK b \in Works : b = book[r] /\ b \notin gone
  BY <1>1
<1>3. PICK db : db = Stored /\ Sound(db) /\ db.link = link /\ Sync(db, b)
  BY <1>1, <1>2
<1>4. /\ Sound(Stored)'
      /\ \A m \in link' : m.book = b \/ \E l \in db.link : m.book = l.book
      /\ \A m \in db.link : \E n \in In(m.book, m.series)' : Richer(n, m)
  BY <1>1, <1>3, SyncTakes
<1>5. SeriesInv'
  BY <1>1, <1>2, <1>3, <1>4 DEF SeriesInv
<1> QED BY <1>1, <1>3, <1>4, <1>5

LEMMA MergeSteps ==
  ASSUME SeriesAssumption, SeriesInv, NEW orphan \in Works, NEW survivor \in Works, Merge(orphan, survivor)
  PROVE  /\ SeriesInv' /\ said' = said /\ gone' = gone \cup {orphan}
         /\ \A q \in Observed : book'[q] # book[q] => book'[q] = survivor
         /\ \A m \in link : m.book # orphan => \E n \in In(m.book, m.series)' : Richer(n, m)
         /\ \A k : \A r \in Observed : book'[r] = survivor /\ said'[r] # Unsaid /\ k = series_identity_key(said'[r]) => In(survivor, k)' # {}
<1>1. /\ said' = said /\ gone' = gone \cup {orphan} /\ orphan # survivor /\ survivor \notin gone
      /\ book' = [r \in Observed |-> IF book[r] = orphan THEN survivor ELSE book[r]]
      /\ said' \in [Observed -> Claims \cup {Unsaid}] /\ Sync(Bereft(orphan), survivor)
  BY DEF Merge, SeriesInv
<1>2. book' \in [Observed -> Works \ gone'] /\ \A q \in Observed : book'[q] # book[q] => book'[q] = survivor
  BY <1>1 DEF SeriesInv
<1>3. PICK db : db = Bereft(orphan) /\ Sound(db) /\ db.link = {m \in link : m.book # orphan} /\ Sync(db, survivor)
  BY <1>1, BereftIsSound DEF SeriesInv
<1>4. /\ Sound(Stored)'
      /\ \A m \in link' : m.book = survivor \/ \E l \in db.link : m.book = l.book
      /\ \A m \in db.link : \E n \in In(m.book, m.series)' : Richer(n, m)
      /\ \A k : \A r \in Observed : book'[r] = survivor /\ said'[r] # Unsaid /\ k = series_identity_key(said'[r]) => In(survivor, k)' # {}
  BY <1>1, <1>3, SyncTakes
<1>5. \A m \in link' : m.book \notin gone'
  BY <1>1, <1>3, <1>4 DEF SeriesInv
<1>6. SeriesInv'
  BY <1>1, <1>2, <1>4, <1>5 DEF SeriesInv
<1> QED BY <1>1, <1>2, <1>3, <1>4, <1>6

LEMMA InitSeriesInv == SeriesAssumption /\ SeriesInit => SeriesInv
<1> SUFFICES ASSUME SeriesAssumption, SeriesInit PROVE SeriesInv
  OBVIOUS
<1>1. /\ Stored \in Tables /\ Stored.row = {} /\ Stored.link = {} /\ Stored.account = {}
  BY DEF SeriesInit, Stored, Tables
<1>2. Sound(Stored)
  BY <1>1 DEF Sound, Keyed, Referring
<1> QED BY <1>2 DEF SeriesInit, SeriesInv, SeriesAssumption

LEMMA NextKeepsSeriesInv == SeriesAssumption /\ SeriesInv /\ [SeriesNext]_seriesVars => SeriesInv'
<1> SUFFICES ASSUME SeriesAssumption, SeriesInv, [SeriesNext]_seriesVars PROVE SeriesInv'
  OBVIOUS
<1>1. CASE \E r \in Observed, claim \in Claims \cup {Unsaid} : LoadSeries(r, claim)
  BY <1>1, LoadSteps
<1>2. CASE \E orphan, survivor \in Works : Merge(orphan, survivor)
  BY <1>2, MergeSteps
<1>3. CASE UNCHANGED seriesVars
  BY <1>3 DEF seriesVars, SeriesInv, Stored, Sound, Keyed, Referring
<1> QED BY <1>1, <1>2, <1>3 DEF SeriesNext

\* What refers to what in the tables of series, and their keys.
THEOREM SeriesTypes ==
  ASSUME SeriesAssumption PROVE SeriesSpec => []SeriesTypeOK
<1>1. SeriesInit => SeriesInv
  BY InitSeriesInv
<1>2. SeriesInv /\ [SeriesNext]_seriesVars => SeriesInv'
  BY NextKeepsSeriesInv
<1>3. SeriesInv => SeriesTypeOK
  BY SoundIsTyped
<1> QED BY <1>1, <1>2, <1>3, PTL DEF SeriesSpec

\* A membership goes on, with what was known of it, in every step.
LEMMA MembershipsGoOn ==
  ASSUME SeriesAssumption, SeriesInv, [SeriesNext]_seriesVars, NEW m \in link, m.book \notin gone'
  PROVE  \E n \in In(m.book, m.series)' : Richer(n, m)
<1>1. ASSUME NEW r \in Observed, NEW claim \in Claims \cup {Unsaid}, LoadSeries(r, claim)
      PROVE  \E n \in In(m.book, m.series)' : Richer(n, m)
  BY <1>1, LoadSteps
<1>2. ASSUME NEW orphan \in Works, NEW survivor \in Works, Merge(orphan, survivor)
      PROVE  \E n \in In(m.book, m.series)' : Richer(n, m)
  BY <1>2, MergeSteps
<1>3. CASE UNCHANGED seriesVars
  <2>1. m \in In(m.book, m.series)' /\ Richer(m, m)
    BY <1>3 DEF In, seriesVars, Richer
  <2> QED BY <2>1
<1> QED BY <1>1, <1>2, <1>3 DEF SeriesNext

\* No load and no merge costs a book that stays a series it was in, whatever
\* rows are absorbed or renamed on the way.
THEOREM MembershipsKept ==
  ASSUME SeriesAssumption PROVE SeriesSpec => NoMembershipLost
<1>1. SeriesInit => SeriesInv
  BY InitSeriesInv
<1>2. SeriesInv /\ [SeriesNext]_seriesVars => SeriesInv'
  BY NextKeepsSeriesInv
<1>3. SeriesInv /\ [SeriesNext]_seriesVars => [\A m \in link : m.book \notin gone' => In(m.book, m.series)' # {}]_seriesVars
  <2>1. ASSUME SeriesInv, [SeriesNext]_seriesVars, NEW m \in link, m.book \notin gone' PROVE In(m.book, m.series)' # {}
    BY <2>1, MembershipsGoOn
  <2> QED BY <2>1
<1> QED BY <1>1, <1>2, <1>3, PTL DEF SeriesSpec, NoMembershipLost

\* What a book knew of its place in a series it keeps.
THEOREM PlacesKept ==
  ASSUME SeriesAssumption PROVE SeriesSpec => PlaceKept
<1>1. SeriesInit => SeriesInv
  BY InitSeriesInv
<1>2. SeriesInv /\ [SeriesNext]_seriesVars => SeriesInv'
  BY NextKeepsSeriesInv
<1> DEFINE Keeps(m) ==
      /\ m.position # Unsaid => \E n \in In(m.book, m.series)' : n.position # Unsaid
      /\ m.confirmed => \E n \in In(m.book, m.series)' : n.confirmed
<1>3. SeriesInv /\ [SeriesNext]_seriesVars => [\A m \in link : m.book \notin gone' => Keeps(m)]_seriesVars
  <2>1. ASSUME SeriesInv, [SeriesNext]_seriesVars, NEW m \in link, m.book \notin gone' PROVE Keeps(m)
    <3>1. PICK n \in In(m.book, m.series)' : Richer(n, m)
      BY <2>1, MembershipsGoOn
    <3> QED BY <3>1 DEF Richer
  <2> QED BY <2>1
<1> QED BY <1>1, <1>2, <1>3, PTL DEF SeriesSpec, PlaceKept

\* A merge brings back, from the payloads, the series of both books.
THEOREM SeriesFollowTheMerge ==
  ASSUME SeriesAssumption PROVE SeriesSpec => MergeKeepsTheSeries
<1>1. SeriesInit => SeriesInv
  BY InitSeriesInv
<1>2. SeriesInv /\ [SeriesNext]_seriesVars => SeriesInv'
  BY NextKeepsSeriesInv
<1> DEFINE Comes(r, q, b, claim) ==
      gone' # gone /\ book[q] # b /\ book'[q] = b /\ book'[r] = b /\ said[r] = claim => In(b, series_identity_key(claim))' # {}
<1>3. SeriesInv /\ [SeriesNext]_seriesVars => [\A r, q \in Observed, b \in Works, claim \in Claims : Comes(r, q, b, claim)]_seriesVars
  <2>1. ASSUME SeriesInv, [SeriesNext]_seriesVars, NEW r \in Observed, NEW q \in Observed, NEW b \in Works, NEW claim \in Claims
        PROVE  Comes(r, q, b, claim)
    <3>1. ASSUME NEW s \in Observed, NEW c \in Claims \cup {Unsaid}, LoadSeries(s, c) PROVE Comes(r, q, b, claim)
      BY <2>1, <3>1, LoadSteps
    <3>2. ASSUME NEW orphan \in Works, NEW survivor \in Works, Merge(orphan, survivor),
                 book[q] # b, book'[q] = b, book'[r] = b, said[r] = claim
          PROVE  In(b, series_identity_key(claim))' # {}
      <4>1. /\ said' = said /\ \A p \in Observed : book'[p] # book[p] => book'[p] = survivor
            /\ \A k : \A p \in Observed : book'[p] = survivor /\ said'[p] # Unsaid /\ k = series_identity_key(said'[p]) => In(survivor, k)' # {}
        BY <2>1, <3>2, MergeSteps
      <4>2. PICK k : k = series_identity_key(claim)
        OBVIOUS
      <4>3. b = survivor /\ said'[r] # Unsaid /\ k = series_identity_key(said'[r])
        BY <3>2, <4>1, <4>2 DEF SeriesAssumption
      <4>4. In(b, k)' # {}
        BY <3>2, <4>1, <4>3
      <4> QED BY <4>2, <4>4
    <3>3. CASE UNCHANGED seriesVars
      BY <3>3 DEF seriesVars
    <3> QED BY <2>1, <3>1, <3>2, <3>3 DEF SeriesNext
  <2> QED BY <2>1
<1> QED BY <1>1, <1>2, <1>3, PTL DEF SeriesSpec, MergeKeepsTheSeries
=================================================================================
