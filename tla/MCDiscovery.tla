------------------------------ MODULE MCDiscovery ------------------------------
(* Small files: a record that can be looked up, one that cannot, one in another
   language, one with no language. *)
EXTENDS Discovery, TLC
Good == [key |-> TRUE, title |-> TRUE, authors |-> TRUE, isbns |-> FALSE, languages |-> {"eng"}]
Bare == [Good EXCEPT !.authors = FALSE, !.isbns = TRUE, !.languages = {}]
Untitled == [Good EXCEPT !.title = FALSE]
Foreign == [Good EXCEPT !.languages = {"fre"}]
Thin == [Good EXCEPT !.authors = FALSE]
August == <<Good, Foreign, Bare, Untitled, Good, Thin>>
September == <<Good, Untitled, Bare>>
Dumps == "openlibrary_dump" :> <<August, September>>
================================================================================
