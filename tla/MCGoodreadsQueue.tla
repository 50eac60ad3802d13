----------------------------- MODULE MCGoodreadsQueue -----------------------------
(* Small instances of the backlog. *)
EXTENDS GoodreadsQueue
CONSTANTS a, b, c, stuck
Four == {a, b, c, stuck}
Three == {a, b, c}
===================================================================================
