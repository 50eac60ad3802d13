------------------------------ MODULE MCResolver ------------------------------
(* Small manifests: a candidate from the dump, one without a payload, one from
   Gutendex, one from the export. *)
EXTENDS Resolver, TLC
CONSTANTS dump, bare, index, export
Mixed == <<bare, dump, export>>
Three == <<bare, dump, index>>
PayloadOf == [c \in Candidates |-> CASE c = dump -> "openlibrary" [] c = bare -> None [] c = index -> "gutendex" [] c = export -> "goodreads"]
NamedOf == [c \in Candidates |-> IF c = export THEN "goodreads" ELSE "openlibrary"]
OneEach == [s \in Documented |-> 1]
TwoEach == [s \in Documented |-> 2]
===============================================================================
