--------------------------- MODULE MCStreamPipeline ---------------------------
(* StreamPipeline on small instances: constant values the cfg files name.   *)
EXTENDS StreamInvariant, TLC

CONSTANTS r1, r2, o1, o2, p1, p2, t1, t2, l1, l2

\* Two records whose partitions cross over: the one hashed to p1 on books.raw
\* goes to p2 on books.clean.
TwoRecords == {o1, o2}
RawOf == (o1 :> p1) @@ (o2 :> p2)
CleanOf == (o1 :> p2) @@ (o2 :> p1)
\* The same two records hashed to one partition of books.raw.
RawTogether == (o1 :> p1) @@ (o2 :> p1)
AllRecords == [r \in Runs |-> Records]
OneRecord == [r \in Runs |-> {o1}]
Growing == [r \in Runs |-> IF r = r1 THEN {o1} ELSE {o1, o2}]

\* One transform and two load consumers; compose runs one and three.
OneTransform == [c \in Consumers |-> IF c = t1 THEN "raw" ELSE "clean"]
TwoTransforms == [c \in Consumers |-> IF c \in {t1, t2} THEN "raw" ELSE "clean"]
===============================================================================
