---------------------------- MODULE MCCatalogueSeries ----------------------------
(* Small instances of the series of two books. *)
EXTENDS CatalogueSeries
CONSTANTS dune, hyperion
Homes == <<dune, dune, hyperion>>
=================================================================================
