---------------------------- MODULE MCLoadConsumer ----------------------------
(* LoadConsumer on small instances: constant values the cfg files name.      *)
EXTENDS LoadConsumer, TLC

CONSTANTS r1, r2, o1, o2, o3, p1, p2, l1, l2

Says(r, b) == [run |-> r, body |-> b]
End(r) == Says(r, Boundary)

\* A batch of two, a record on its own, and the boundary on both partitions.
OneRun == (p1 :> <<Says(r1, o1), Says(r1, o2), End(r1)>>) @@ (p2 :> <<Says(r1, o3), End(r1)>>)
\* Two runs whose records meet in a batch: the first was abandoned before its
\* boundary, and a record of the second is forwarded again behind its own.
TwoRuns == (p1 :> <<Says(r1, o1), Says(r2, o2), Says(r2, o3), End(r2), Says(r2, o2)>>) @@ (p2 :> <<End(r2)>>)
\* Of the first run any load may change a book; of the second each record once.
FirstRun == {Says(r1, o1)}
===============================================================================
