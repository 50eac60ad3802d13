----------------------------- MODULE MCCatalogueLoad -----------------------------
(* Small instances of the loader: records of two or three sources. *)
EXTENDS CatalogueLoad
CONSTANTS A, B, C, X, Y, F, p, q

Observation(sid, isbn, payload) == [sid |-> sid, isbn13 |-> isbn, title |-> F, payload |-> payload]

\* One source learns the ISBN of a book that another has without it.
Learning == {Observation(A, NoIsbn, 1), Observation(A, X, 2), Observation(B, NoIsbn, 1)}
\* The other's record changes meanwhile.
Changing == Learning \cup {Observation(B, NoIsbn, 2)}
\* And a third source has it from the start.
Merging == Learning \cup {Observation(C, X, 1)}
\* Two sources that come to see two editions of one book.
Editions == {Observation(A, NoIsbn, 1), Observation(A, X, 2), Observation(B, NoIsbn, 1), Observation(B, Y, 2)}
One == {q}
Two == {p, q}
=================================================================================
