--------------------------- MODULE CatalogueContract ---------------------------
(***************************************************************************)
(* What loading promises of the sources' records, with no rows, locks,     *)
(* books or tries in it: the batch a writer was given is loaded whole, in  *)
(* one step, or not at all ("a partially-committed batch is exactly what   *)
(* the merge logic must never leave behind", postgres.py:144-145), and of  *)
(* each source there is then the record that came last.                    *)
(***************************************************************************)
EXTENDS Naturals, Sequences, FiniteSetsExt

CONSTANTS
  Writers,
  CleanBooks,  \* what sources deliver: records with a sid
  Batches,     \* sequences of them that are delivered together
  None         \* nothing stored

VARIABLES
  stored,     \* of each source, its record
  loaded,     \* records of the batches that were loaded
  delivered   \* of each writer, the batch it was given

vars == <<stored, loaded, delivered>>

Of(s, batch) == {n \in DOMAIN batch : batch[n].sid = s}

Init ==
  /\ stored \in [{r.sid : r \in CleanBooks} -> CleanBooks \cup {None}]
  /\ loaded \in Nat
  /\ delivered = [w \in Writers |-> <<>>]

Deliver(w) ==
  /\ delivered[w] = <<>>
  /\ \E batch \in Batches : delivered' = [delivered EXCEPT ![w] = batch]
  /\ UNCHANGED <<loaded, stored>>

\* However often it was tried.
Load(w) ==
  /\ delivered[w] \in Batches
  /\ loaded' = loaded + Len(delivered[w])
  /\ stored' = [s \in DOMAIN stored |->
       LET of == Of(s, delivered[w]) IN IF of = {} THEN stored[s] ELSE delivered[w][Max(of)]]
  /\ delivered' = [delivered EXCEPT ![w] = <<>>]

\* It fails, or its process dies.
GiveUp(w) ==
  /\ delivered' = [delivered EXCEPT ![w] = <<>>]
  /\ UNCHANGED <<loaded, stored>>

Next == \E w \in Writers : GiveUp(w) \/ Deliver(w) \/ Load(w)

Spec == Init /\ [][Next]_vars
===============================================================================
