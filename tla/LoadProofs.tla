------------------------------- MODULE LoadProofs -------------------------------
(***************************************************************************)
(* Proofs about LoadConsumer: whatever crashes, moves or waits in a batch, *)
(* offsets pass written records only, and a boundary closes behind them.   *)
(***************************************************************************)
EXTENDS LoadConsumer, RunMarkersProofs, SequenceTheorems, WellFoundedInduction

(***************************************************************************)
(* The inductive invariant.                                                *)
(***************************************************************************)

\* The steps that an event asks for, and those that its batch must precede.
DueOps == {"append", "park", "insert"}
Ends == {"insert", "close", "commit"}

\* A commit comes last, a marker is inserted before it closes, and what joins
\* the batch is flushed before any of the ends.
Ordered(s) ==
  /\ \A j \in 1..Len(s) : s[j].do = "commit" => j = Len(s)
  /\ \A j \in 1..Len(s) : s[j].do = "insert" => \E k \in 1..Len(s) : j < k /\ s[k].do = "close"
  /\ \A i, j \in 1..Len(s) : s[i].do = "append" /\ s[j].do \in Ends /\ i < j =>
       \E k \in 1..Len(s) : i < k /\ k < j /\ s[k].do = "flush"

\* What is in the batch already is flushed before any of them.
Flushes(s) == \A j \in 1..Len(s) : s[j].do \in Ends => \E k \in 1..Len(s) : k < j /\ s[k].do = "flush"

\* A record of another run than those in the batch is held behind a flush only.
Joins(s, rs) ==
  \A j \in 1..Len(s) : s[j].do = "append" =>
    (\A r \in rs : s[j].of = {r}) \/ \E k \in 1..Len(s) : k < j /\ s[k].do = "flush"

\* What adds to a tally, now or at the next flush.
Counting == {"append", "flush", "park"}

\* A marker is inserted behind a write of the whole tally, or with nothing in
\* the tally, and nothing is counted between.
Reports(s, empty) ==
  \A j \in 1..Len(s) : s[j].do = "insert" =>
    \/ \E k \in 1..Len(s) : /\ k < j /\ s[k].do = "tally" /\ s[k].of = Runs
                            /\ \A m \in k..j : s[m].do \notin Counting
    \/ empty /\ \A m \in 1..j : s[m].do \notin Counting

\* A step is about the event last polled; a sweep comes before any.
StepFits(c, x) ==
  /\ x.do = "sweep" => event[c] = NoEvent
  /\ x.do = "count" => x.of # {}
  /\ x.do \in DueOps => /\ event[c] # NoEvent
                        /\ x.of = {Polled(c).run}
                        /\ x.do = "insert" <=> IsMarker(Polled(c))

Pending(c) == \E x \in Range(todo[c]) : x.do \in DueOps

\* The marker is in the transaction that a step still to be taken commits.
Inserted(c) ==
  /\ txn[c] # NoTxn /\ txn[c].run = Polled(c).run /\ txn[c].topic = "clean"
  /\ event[c][1] \in txn[c].row
  /\ IsMarker(Polled(c))
  /\ \E x \in Range(todo[c]) : x.do = "close"

Durable(p, i) ==
  IF IsMarker(Feed[p][i]) THEN <<Feed[p][i].run, "clean", p>> \in marker ELSE Written(Feed[p][i])

\* An event that a consumer is past has its effect, or waits in the batch, or
\* is the one at hand.
Reached(c, p, i) ==
  \/ Durable(p, i)
  \/ Feed[p][i] \in Range(batch[c])
  \/ event[c] = <<p, i>> /\ (Pending(c) \/ Inserted(c))

ConsumerInv(c) ==
  /\ event[c] # NoEvent => event[c][2] \in 1..Len(Feed[event[c][1]])
  /\ event[c] = NoEvent => batch[c] = <<>>
  /\ Ordered(todo[c])
  /\ batch[c] = <<>> \/ Flushes(todo[c])
  /\ \A x \in Range(todo[c]) : StepFits(c, x)
  /\ \A e \in Range(batch[c]) : ~IsMarker(e)
  /\ Pending(c) => event[c][1] \in Held(c) /\ event[c][2] <= position[c][event[c][1]]
  /\ \A p \in Held(c) : \A i \in 1..position[c][p] : Reached(c, p, i)

LoadInv ==
  /\ LoadTypeOK
  /\ MarkersInv
  /\ position = [c \in Consumers |-> position[c]]
  /\ frozen = Runs \X Topics
  /\ \A c \in Consumers : ConsumerInv(c)
  /\ \A p \in Partitions : \A i \in 1..committed[p] : Durable(p, i)

(***************************************************************************)
(* Lists of steps.                                                         *)
(***************************************************************************)

LEMMA RangeOfTail ==
  ASSUME NEW S, NEW s \in Seq(S), s # <<>>
  PROVE  /\ Head(s) \in S /\ Head(s) = s[1] /\ Tail(s) \in Seq(S) /\ Len(s) \in Nat \ {0}
         /\ Len(Tail(s)) = Len(s) - 1 /\ \A j \in 1..Len(s) - 1 : Tail(s)[j] = s[j + 1]
         /\ Range(s) = {Head(s)} \cup Range(Tail(s))
<1>1. /\ Head(s) \in S /\ Head(s) = s[1] /\ Tail(s) \in Seq(S) /\ Len(s) \in Nat \ {0}
      /\ Len(Tail(s)) = Len(s) - 1 /\ \A j \in 1..Len(s) - 1 : Tail(s)[j] = s[j + 1]
  BY HeadTailProperties
<1>2. Range(s) = {s[j] : j \in 1..Len(s)} /\ Range(Tail(s)) = {Tail(s)[j] : j \in 1..Len(s) - 1}
  BY <1>1, RangeEquality
<1>3. ASSUME NEW j \in 1..Len(s), j # 1 PROVE s[j] \in Range(Tail(s))
  <2>1. j - 1 \in 1..Len(s) - 1 /\ Tail(s)[j - 1] = s[j]
    BY <1>1, <1>3
  <2> QED BY <1>2, <2>1
<1>4. ASSUME NEW j \in 1..Len(s) - 1 PROVE Tail(s)[j] \in Range(s)
  <2>1. j + 1 \in 1..Len(s) /\ Tail(s)[j] = s[j + 1]
    BY <1>1, <1>4
  <2> QED BY <1>2, <2>1
<1>5. 1 \in 1..Len(s)
  BY <1>1
<1> QED BY <1>1, <1>2, <1>3, <1>4, <1>5

LEMMA Prepended ==
  ASSUME NEW S, NEW t \in Seq(S), NEW x \in S
  PROVE  LET s == <<x>> \o t
         IN  /\ s \in Seq(S) /\ s # <<>> /\ Len(s) = Len(t) + 1 /\ Head(s) = x /\ Tail(s) = t
             /\ Range(s) = {x} \cup Range(t)
<1> DEFINE s == <<x>> \o t
<1>1. <<x>> \in Seq(S) /\ Len(<<x>>) = 1 /\ <<x>>[1] = x
  OBVIOUS
<1>2. /\ s \in Seq(S) /\ Len(s) = Len(t) + 1
      /\ \A i \in 1..Len(t) + 1 : s[i] = IF i <= 1 THEN <<x>>[i] ELSE t[i - 1]
  BY <1>1, ConcatProperties
<1>3. Len(t) \in Nat
  OBVIOUS
<1>4. s # <<>> /\ s[1] = x /\ \A i \in 1..Len(t) : s[i + 1] = t[i]
  BY <1>1, <1>2, <1>3
<1> HIDE DEF s
<1>5. /\ Head(s) = s[1] /\ Tail(s) \in Seq(S) /\ Len(Tail(s)) = Len(t)
      /\ \A j \in 1..Len(t) : Tail(s)[j] = s[j + 1] /\ Range(s) = {Head(s)} \cup Range(Tail(s))
  BY <1>2, <1>3, <1>4, RangeOfTail
<1>6. Tail(s) = t
  BY <1>4, <1>5
<1>7. Range(s) = {Head(s)} \cup Range(Tail(s))
  BY <1>2, <1>4, RangeOfTail
<1> QED BY <1>2, <1>4, <1>5, <1>6, <1>7 DEF s

LEMMA TailOrdered ==
  ASSUME NEW s \in Seq(Step), s # <<>>, Ordered(s) PROVE Ordered(Tail(s))
<1> DEFINE t == Tail(s)
<1>1. Len(s) \in Nat \ {0} /\ Len(t) = Len(s) - 1 /\ \A j \in 1..Len(s) - 1 : t[j] = s[j + 1]
  BY RangeOfTail
<1> HIDE DEF t
<1>2. \A j \in 1..Len(t) : j + 1 \in 1..Len(s) /\ t[j] = s[j + 1]
  BY <1>1
<1>3. ASSUME NEW j \in 1..Len(t), t[j].do = "commit" PROVE j = Len(t)
  <2>1. j + 1 \in 1..Len(s) /\ s[j + 1].do = "commit"
    BY <1>2, <1>3
  <2>2. j + 1 = Len(s)
    BY <2>1 DEF Ordered
  <2> QED BY <1>1, <2>2
<1>4. ASSUME NEW j \in 1..Len(t), t[j].do = "insert" PROVE \E k \in 1..Len(t) : j < k /\ t[k].do = "close"
  <2>1. PICK k \in 1..Len(s) : j + 1 < k /\ s[k].do = "close"
    BY <1>2, <1>4 DEF Ordered
  <2>2. k - 1 \in 1..Len(t) /\ j < k - 1 /\ t[k - 1].do = "close"
    BY <1>1, <2>1
  <2> QED BY <2>2
<1>5. ASSUME NEW i \in 1..Len(t), NEW j \in 1..Len(t), t[i].do = "append", t[j].do \in Ends, i < j
      PROVE  \E k \in 1..Len(t) : i < k /\ k < j /\ t[k].do = "flush"
  <2>1. PICK k \in 1..Len(s) : i + 1 < k /\ k < j + 1 /\ s[k].do = "flush"
    BY <1>2, <1>5 DEF Ordered
  <2>2. k - 1 \in 1..Len(t) /\ i < k - 1 /\ k - 1 < j /\ t[k - 1].do = "flush"
    BY <1>1, <2>1
  <2> QED BY <2>2
<1> QED BY <1>3, <1>4, <1>5 DEF Ordered, t

LEMMA TailFlushes ==
  ASSUME NEW s \in Seq(Step), s # <<>>, Head(s).do # "flush", Flushes(s) PROVE Flushes(Tail(s))
<1> DEFINE t == Tail(s)
<1>1. /\ Len(s) \in Nat \ {0} /\ Len(t) = Len(s) - 1 /\ s[1].do # "flush"
      /\ \A j \in 1..Len(s) - 1 : t[j] = s[j + 1]
  BY RangeOfTail
<1> HIDE DEF t
<1>2. ASSUME NEW j \in 1..Len(t), t[j].do \in Ends PROVE \E k \in 1..Len(t) : k < j /\ t[k].do = "flush"
  <2>1. j + 1 \in 1..Len(s) /\ s[j + 1].do \in Ends
    BY <1>1, <1>2
  <2>2. PICK k \in 1..Len(s) : k < j + 1 /\ s[k].do = "flush"
    BY <2>1 DEF Flushes
  <2>3. k - 1 \in 1..Len(t) /\ k - 1 < j /\ t[k - 1].do = "flush"
    BY <1>1, <2>2
  <2> QED BY <2>3
<1> QED BY <1>2 DEF Flushes, t

LEMMA TailJoins ==
  ASSUME NEW s \in Seq(Step), s # <<>>, Head(s).do # "flush", NEW rs, Joins(s, rs) PROVE Joins(Tail(s), rs)
<1> DEFINE t == Tail(s)
<1>1. /\ Len(s) \in Nat \ {0} /\ Len(t) = Len(s) - 1 /\ s[1].do # "flush"
      /\ \A j \in 1..Len(s) - 1 : t[j] = s[j + 1]
  BY RangeOfTail
<1> HIDE DEF t
<1>2. ASSUME NEW j \in 1..Len(t), t[j].do = "append"
      PROVE  (\A r \in rs : t[j].of = {r}) \/ \E k \in 1..Len(t) : k < j /\ t[k].do = "flush"
  <2>1. j + 1 \in 1..Len(s) /\ s[j + 1].do = "append" /\ t[j] = s[j + 1]
    BY <1>1, <1>2
  <2>2. CASE \A r \in rs : s[j + 1].of = {r}
    BY <2>1, <2>2
  <2>3. CASE \E k \in 1..Len(s) : k < j + 1 /\ s[k].do = "flush"
    <3>1. PICK k \in 1..Len(s) : k < j + 1 /\ s[k].do = "flush"
      BY <2>3
    <3>2. k - 1 \in 1..Len(t) /\ k - 1 < j /\ t[k - 1].do = "flush"
      BY <1>1, <3>1
    <3> QED BY <3>2
  <2> QED BY <2>1, <2>2, <2>3 DEF Joins
<1> QED BY <1>2 DEF Joins, t

LEMMA TailReports ==
  ASSUME NEW s \in Seq(Step), s # <<>>, NEW a \in BOOLEAN, NEW b \in BOOLEAN, Reports(s, a),
         a /\ Head(s).do \notin Counting => b, Head(s).do = "tally" /\ Head(s).of = Runs => b
  PROVE  Reports(Tail(s), b)
<1> DEFINE t == Tail(s)
<1>1. /\ Len(s) \in Nat \ {0} /\ Len(t) = Len(s) - 1 /\ s[1] = Head(s)
      /\ \A j \in 1..Len(s) - 1 : t[j] = s[j + 1]
  BY RangeOfTail
<1> HIDE DEF t
<1>2. ASSUME NEW j \in 1..Len(t), t[j].do = "insert"
      PROVE  \/ \E k \in 1..Len(t) : /\ k < j /\ t[k].do = "tally" /\ t[k].of = Runs
                                      /\ \A m \in k..j : t[m].do \notin Counting
             \/ b /\ \A m \in 1..j : t[m].do \notin Counting
  <2>1. j + 1 \in 1..Len(s) /\ s[j + 1].do = "insert"
    BY <1>1, <1>2
  <2>2. \A m \in 1..j : m + 1 \in 1..j + 1 /\ t[m] = s[m + 1]
    BY <1>1
  <2>3. CASE a /\ \A m \in 1..j + 1 : s[m].do \notin Counting
    <3>1. s[1].do \notin Counting
      BY <2>1, <2>3
    <3>2. \A m \in 1..j : t[m].do \notin Counting
      BY <2>2, <2>3
    <3> QED BY <1>1, <2>3, <3>1, <3>2
  <2>4. CASE \E k \in 1..Len(s) : /\ k < j + 1 /\ s[k].do = "tally" /\ s[k].of = Runs
                                   /\ \A m \in k..j + 1 : s[m].do \notin Counting
    <3>1. PICK k \in 1..Len(s) : /\ k < j + 1 /\ s[k].do = "tally" /\ s[k].of = Runs
                                 /\ \A m \in k..j + 1 : s[m].do \notin Counting
      BY <2>4
    <3>2. CASE k = 1
      <4>1. b
        BY <1>1, <3>1, <3>2
      <4>2. \A m \in 1..j : t[m].do \notin Counting
        BY <2>2, <3>1, <3>2
      <4> QED BY <4>1, <4>2
    <3>3. CASE k # 1
      <4>1. k - 1 \in 1..Len(t) /\ k - 1 < j /\ t[k - 1] = s[k]
        BY <1>1, <3>1, <3>3
      <4>2. \A m \in k - 1..j : m \in 1..j /\ m + 1 \in k..j + 1
        BY <4>1
      <4>3. \A m \in k - 1..j : t[m].do \notin Counting
        BY <2>2, <3>1, <4>2
      <4> QED BY <3>1, <4>1, <4>3
    <3> QED BY <3>2, <3>3
  <2> QED BY <2>1, <2>3, <2>4 DEF Reports
<1> QED BY <1>2 DEF Reports, t

\* What joins the batch now is flushed before any end to come.
LEMMA HoldFlushes ==
  ASSUME NEW s \in Seq(Step), s # <<>>, Head(s).do = "append", Ordered(s) PROVE Flushes(Tail(s))
<1> DEFINE t == Tail(s)
<1>1. /\ Len(s) \in Nat \ {0} /\ Len(t) = Len(s) - 1 /\ s[1].do = "append" /\ 1 \in 1..Len(s)
      /\ \A j \in 1..Len(s) - 1 : t[j] = s[j + 1]
  BY RangeOfTail
<1> HIDE DEF t
<1>2. ASSUME NEW j \in 1..Len(t), t[j].do \in Ends PROVE \E k \in 1..Len(t) : k < j /\ t[k].do = "flush"
  <2>1. j + 1 \in 1..Len(s) /\ s[j + 1].do \in Ends /\ 1 < j + 1
    BY <1>1, <1>2
  <2>2. PICK k \in 1..Len(s) : 1 < k /\ k < j + 1 /\ s[k].do = "flush"
    BY <1>1, <2>1 DEF Ordered
  <2>3. k - 1 \in 1..Len(t) /\ k - 1 < j /\ t[k - 1].do = "flush"
    BY <1>1, <2>2
  <2> QED BY <2>3
<1> QED BY <1>2 DEF Flushes, t

LEMMA TallyPrepended ==
  ASSUME NEW t \in Seq(Step), NEW x \in Step, x.do = "tally"
  PROVE  /\ (Ordered(t) => Ordered(<<x>> \o t)) /\ (Flushes(t) => Flushes(<<x>> \o t))
         /\ \A rs : Joins(t, rs) => Joins(<<x>> \o t, rs)
         /\ \A b : Reports(t, b) => Reports(<<x>> \o t, b)
<1> DEFINE s == <<x>> \o t
<1>1. s \in Seq(Step) /\ s # <<>> /\ Len(s) = Len(t) + 1 /\ Head(s) = x /\ Tail(s) = t
  BY Prepended
<1> HIDE DEF s
<1>2. Len(t) \in Nat /\ s[1].do = "tally" /\ \A j \in 1..Len(t) : t[j] = s[j + 1]
  <2>1. Head(s) = s[1] /\ \A j \in 1..Len(s) - 1 : Tail(s)[j] = s[j + 1]
    BY <1>1, RangeOfTail
  <2>2. Len(t) \in Nat /\ Len(s) - 1 = Len(t)
    BY <1>1
  <2> QED BY <1>1, <2>1, <2>2
<1>3. \A j \in 1..Len(s) : j # 1 => j - 1 \in 1..Len(t) /\ s[j] = t[j - 1]
  BY <1>1, <1>2
<1>4. \A k \in 1..Len(t) : k + 1 \in 1..Len(s) /\ s[k + 1] = t[k]
  BY <1>1, <1>2
<1>5. ASSUME Ordered(t) PROVE Ordered(s)
  <2>1. ASSUME NEW j \in 1..Len(s), s[j].do = "commit" PROVE j = Len(s)
    BY <1>1, <1>2, <1>3, <1>5, <2>1 DEF Ordered
  <2>2. ASSUME NEW j \in 1..Len(s), s[j].do = "insert" PROVE \E k \in 1..Len(s) : j < k /\ s[k].do = "close"
    <3>1. j - 1 \in 1..Len(t) /\ t[j - 1].do = "insert"
      BY <1>2, <1>3, <2>2
    <3>2. PICK k \in 1..Len(t) : j - 1 < k /\ t[k].do = "close"
      BY <1>5, <3>1 DEF Ordered
    <3> QED BY <1>4, <3>2
  <2>3. ASSUME NEW i \in 1..Len(s), NEW j \in 1..Len(s), s[i].do = "append", s[j].do \in Ends, i < j
        PROVE  \E k \in 1..Len(s) : i < k /\ k < j /\ s[k].do = "flush"
    <3>1. i - 1 \in 1..Len(t) /\ j - 1 \in 1..Len(t) /\ t[i - 1].do = "append" /\ t[j - 1].do \in Ends
      BY <1>2, <1>3, <2>3 DEF Ends
    <3> i - 1 < j - 1
      BY <1>1, <1>2, <2>3
    <3>2. PICK k \in 1..Len(t) : i - 1 < k /\ k < j - 1 /\ t[k].do = "flush"
      BY <1>5, <2>3, <3>1 DEF Ordered
    <3>3. k + 1 \in 1..Len(s) /\ i < k + 1 /\ k + 1 < j /\ s[k + 1].do = "flush"
      BY <1>1, <1>2, <1>4, <3>2
    <3> QED BY <3>3
  <2> QED BY <2>1, <2>2, <2>3 DEF Ordered
<1>6. ASSUME Flushes(t) PROVE Flushes(s)
  <2>1. ASSUME NEW j \in 1..Len(s), s[j].do \in Ends PROVE \E k \in 1..Len(s) : k < j /\ s[k].do = "flush"
    <3>1. j - 1 \in 1..Len(t) /\ t[j - 1].do \in Ends
      BY <1>2, <1>3, <2>1 DEF Ends
    <3>2. PICK k \in 1..Len(t) : k < j - 1 /\ t[k].do = "flush"
      BY <1>6, <3>1 DEF Flushes
    <3> QED BY <1>4, <3>2
  <2> QED BY <2>1 DEF Flushes
<1>7. ASSUME NEW rs, Joins(t, rs) PROVE Joins(s, rs)
  <2>1. ASSUME NEW j \in 1..Len(s), s[j].do = "append"
        PROVE  (\A r \in rs : s[j].of = {r}) \/ \E k \in 1..Len(s) : k < j /\ s[k].do = "flush"
    <3>1. j - 1 \in 1..Len(t) /\ t[j - 1].do = "append" /\ s[j] = t[j - 1]
      BY <1>2, <1>3, <2>1
    <3>2. CASE \A r \in rs : t[j - 1].of = {r}
      BY <3>1, <3>2
    <3>3. CASE \E k \in 1..Len(t) : k < j - 1 /\ t[k].do = "flush"
      <4>1. PICK k \in 1..Len(t) : k < j - 1 /\ t[k].do = "flush"
        BY <3>3
      <4>2. k + 1 \in 1..Len(s) /\ k + 1 < j /\ s[k + 1].do = "flush"
        BY <1>1, <1>2, <1>4, <4>1
      <4> QED BY <4>2
    <3> QED BY <1>7, <3>1, <3>2, <3>3 DEF Joins
  <2> QED BY <2>1 DEF Joins
<1>8. ASSUME NEW b, Reports(t, b) PROVE Reports(s, b)
  <2> SUFFICES ASSUME NEW j \in 1..Len(s), s[j].do = "insert"
               PROVE  \/ \E k \in 1..Len(s) : /\ k < j /\ s[k].do = "tally" /\ s[k].of = Runs
                                               /\ \A m \in k..j : s[m].do \notin Counting
                      \/ b /\ \A m \in 1..j : s[m].do \notin Counting
    BY DEF Reports
  <2>1. j - 1 \in 1..Len(t) /\ t[j - 1].do = "insert" /\ j <= Len(s)
    BY <1>2, <1>3
  <2>2. \A m \in 1..j : m = 1 \/ (m - 1 \in 1..j - 1 /\ s[m] = t[m - 1])
    BY <1>1, <1>2, <1>3, <2>1
  <2>3. s[1].do \notin Counting
    BY <1>2 DEF Counting
  <2>4. CASE b /\ \A m \in 1..j - 1 : t[m].do \notin Counting
    BY <2>2, <2>3, <2>4
  <2>5. CASE \E k \in 1..Len(t) : /\ k < j - 1 /\ t[k].do = "tally" /\ t[k].of = Runs
                                   /\ \A m \in k..j - 1 : t[m].do \notin Counting
    <3>1. PICK k \in 1..Len(t) : /\ k < j - 1 /\ t[k].do = "tally" /\ t[k].of = Runs
                                 /\ \A m \in k..j - 1 : t[m].do \notin Counting
      BY <2>5
    <3>2. k + 1 \in 1..Len(s) /\ k + 1 < j /\ s[k + 1] = t[k]
      BY <1>1, <1>2, <1>4, <3>1
    <3>3. \A m \in k + 1..j : m \in 1..j /\ m # 1 /\ m - 1 \in k..j - 1
      BY <3>1
    <3>4. \A m \in k + 1..j : s[m].do \notin Counting
      BY <2>2, <3>1, <3>3
    <3> QED BY <3>1, <3>2, <3>4
  <2> QED BY <1>8, <2>1, <2>4, <2>5 DEF Reports
<1> QED BY <1>5, <1>6, <1>7, <1>8 DEF s

LEMMA JoinTwo ==
  ASSUME NEW S, NEW a \in S, NEW b \in S PROVE <<a>> \o <<b>> = <<a, b>>
<1> DEFINE s == <<a>>
           t == <<b>>
           u == <<a, b>>
<1>1. /\ s \in Seq(S) /\ t \in Seq(S) /\ u \in Seq(S) /\ Len(s) = 1 /\ Len(t) = 1 /\ Len(u) = 2
      /\ s[1] = a /\ t[1] = b
      /\ u[1] = a /\ u[2] = b
  OBVIOUS
<1> HIDE DEF s, t, u
<1>2. s \o t \in Seq(S) /\ Len(s \o t) = 2 /\ \A i \in 1..2 : (s \o t)[i] = IF i <= 1 THEN s[i] ELSE t[i - 1]
  BY <1>1, ConcatProperties
<1>3. s \o t = u
  BY <1>1, <1>2, SeqEqual
<1> QED BY <1>3 DEF s, t, u

LEMMA JoinThree ==
  ASSUME NEW S, NEW a \in S, NEW b \in S, NEW c \in S PROVE <<a>> \o <<b, c>> = <<a, b, c>>
<1> DEFINE s == <<a>>
           t == <<b, c>>
           u == <<a, b, c>>
<1>1. /\ s \in Seq(S) /\ t \in Seq(S) /\ u \in Seq(S) /\ Len(s) = 1 /\ Len(t) = 2 /\ Len(u) = 3
      /\ s[1] = a /\ t[1] = b /\ t[2] = c
      /\ u[1] = a /\ u[2] = b /\ u[3] = c
  OBVIOUS
<1> HIDE DEF s, t, u
<1>2. s \o t \in Seq(S) /\ Len(s \o t) = 3 /\ \A i \in 1..3 : (s \o t)[i] = IF i <= 1 THEN s[i] ELSE t[i - 1]
  <2>1. /\ s \o t \in Seq(S) /\ Len(s \o t) = Len(s) + Len(t)
        /\ \A i \in 1..Len(s) + Len(t) : (s \o t)[i] = IF i <= Len(s) THEN s[i] ELSE t[i - Len(s)]
    BY <1>1, ConcatProperties
  <2>2. Len(s) = 1 /\ Len(s) + Len(t) = 3
    BY <1>1
  <2> QED BY <2>1, <2>2
<1>3. (s \o t)[1] = u[1]
  <2>1. 1 \in 1..3 /\ 1 <= 1
    OBVIOUS
  <2> QED BY <1>1, <1>2, <2>1
<1>4. (s \o t)[2] = u[2]
  <2>1. 2 \in 1..3 /\ ~(2 <= 1) /\ 2 - 1 = 1
    OBVIOUS
  <2> QED BY <1>1, <1>2, <2>1
<1>5. (s \o t)[3] = u[3]
  <2>1. 3 \in 1..3 /\ ~(3 <= 1) /\ 3 - 1 = 2
    OBVIOUS
  <2> QED BY <1>1, <1>2, <2>1
<1>6. s \o t = u
  BY <1>1, <1>2, <1>3, <1>4, <1>5, SeqEqual
<1> QED BY <1>6 DEF s, t, u

LEMMA JoinFour ==
  ASSUME NEW S, NEW a \in S, NEW b \in S, NEW c \in S, NEW d \in S PROVE <<a, b>> \o <<c, d>> = <<a, b, c, d>>
<1> DEFINE s == <<a, b>>
           t == <<c, d>>
           u == <<a, b, c, d>>
<1>1. /\ s \in Seq(S) /\ t \in Seq(S) /\ u \in Seq(S) /\ Len(s) = 2 /\ Len(t) = 2 /\ Len(u) = 4
      /\ s[1] = a /\ s[2] = b /\ t[1] = c /\ t[2] = d
      /\ u[1] = a /\ u[2] = b /\ u[3] = c /\ u[4] = d
  OBVIOUS
<1> HIDE DEF s, t, u
<1>2. s \o t \in Seq(S) /\ Len(s \o t) = 4 /\ \A i \in 1..4 : (s \o t)[i] = IF i <= 2 THEN s[i] ELSE t[i - 2]
  <2>1. /\ s \o t \in Seq(S) /\ Len(s \o t) = Len(s) + Len(t)
        /\ \A i \in 1..Len(s) + Len(t) : (s \o t)[i] = IF i <= Len(s) THEN s[i] ELSE t[i - Len(s)]
    BY <1>1, ConcatProperties
  <2>2. Len(s) = 2 /\ Len(s) + Len(t) = 4
    BY <1>1
  <2> QED BY <2>1, <2>2
<1>3. (s \o t)[1] = u[1]
  <2>1. 1 \in 1..4 /\ 1 <= 2
    OBVIOUS
  <2> QED BY <1>1, <1>2, <2>1
<1>4. (s \o t)[2] = u[2]
  <2>1. 2 \in 1..4 /\ 2 <= 2
    OBVIOUS
  <2> QED BY <1>1, <1>2, <2>1
<1>5. (s \o t)[3] = u[3]
  <2>1. 3 \in 1..4 /\ ~(3 <= 2) /\ 3 - 2 = 1
    OBVIOUS
  <2> QED BY <1>1, <1>2, <2>1
<1>6. (s \o t)[4] = u[4]
  <2>1. 4 \in 1..4 /\ ~(4 <= 2) /\ 4 - 2 = 2
    OBVIOUS
  <2> QED BY <1>1, <1>2, <2>1
<1>7. s \o t = u
  BY <1>1, <1>2, <1>3, <1>4, <1>5, <1>6, SeqEqual
<1> QED BY <1>7 DEF s, t, u

\* What an event asks for: an effect of its own, everything in its order, and
\* the batch before any of the ends.
Fits(e, x) == x.do \notin {"sweep", "count"} /\ (x.do \in DueOps => x.of = {e.run} /\ (x.do = "insert" <=> IsMarker(e)))

Script(e, s) ==
  /\ s \in Seq(Step) /\ Ordered(s) /\ Flushes(s)
  /\ \A x \in Range(s) : Fits(e, x)
  /\ \E x \in Range(s) : x.do \in DueOps

LEMMA DoIsStep == \A op \in Ops : \A rs \in SUBSET Runs : Do(op, rs) \in Step /\ Do(op, rs).do = op /\ Do(op, rs).of = rs
BY DEF Do, Step

LEMMA MarkerScript ==
  ASSUME NEW e \in Event, IsMarker(e) PROVE Script(e, MarkerSteps(e.run))
<1> DEFINE r == e.run
           s == MarkerSteps(r)
<1>1. r \in Runs
  BY DEF Event
<1> HIDE DEF r
<1>2. /\ s \in Seq(Step) /\ Len(s) = 5
      /\ s[1] = Do("flush", {}) /\ s[2] = Do("tally", Runs) /\ s[3] = Do("insert", {r})
      /\ s[4] = Do("close", {r}) /\ s[5] = Do("commit", {})
  BY <1>1, DoIsStep DEF MarkerSteps, Ops
<1>3. s[1].do = "flush" /\ s[2].do = "tally" /\ s[3].do = "insert" /\ s[4].do = "close" /\ s[5].do = "commit" /\ s[3].of = {r}
  BY <1>2, <1>1, DoIsStep DEF Ops
<1> HIDE DEF s
<1>4. Range(s) = {s[j] : j \in 1..5}
  BY <1>2, RangeEquality
<1>5. Ordered(s)
  BY <1>2, <1>3 DEF Ordered, Ends
<1>6. Flushes(s)
  BY <1>2, <1>3 DEF Flushes, Ends
<1>7. \A x \in Range(s) : Fits(e, x)
  BY <1>3, <1>4 DEF Fits, DueOps, r
<1>8. \E x \in Range(s) : x.do \in DueOps
  BY <1>3, <1>4 DEF DueOps
<1> QED BY <1>2, <1>5, <1>6, <1>7, <1>8 DEF Script, s, r

LEMMA ParkScript ==
  ASSUME NEW e \in Event, ~IsMarker(e) PROVE Script(e, ParkSteps(e.run))
<1> DEFINE r == e.run
           s == ParkSteps(r)
<1>1. r \in Runs
  BY DEF Event
<1> HIDE DEF r
<1>2. /\ s \in Seq(Step) /\ Len(s) = 3
      /\ s[1] = Do("park", {r}) /\ s[2] = Do("flush", {}) /\ s[3] = Do("commit", {})
  BY <1>1, DoIsStep DEF ParkSteps, Ops
<1>3. s[1].do = "park" /\ s[2].do = "flush" /\ s[3].do = "commit" /\ s[1].of = {r}
  BY <1>2, <1>1, DoIsStep DEF Ops
<1> HIDE DEF s
<1>4. Range(s) = {s[j] : j \in 1..3}
  BY <1>2, RangeEquality
<1>5. Ordered(s) /\ Flushes(s)
  BY <1>2, <1>3 DEF Ordered, Flushes, Ends
<1>6. \A x \in Range(s) : Fits(e, x)
  BY <1>3, <1>4 DEF Fits, DueOps, r
<1>7. \E x \in Range(s) : x.do \in DueOps
  BY <1>3, <1>4 DEF DueOps
<1> QED BY <1>2, <1>5, <1>6, <1>7 DEF Script, s, r

LEMMA BookScript ==
  ASSUME NEW e \in Event, ~IsMarker(e), NEW pending
  PROVE  Script(e, BookSteps(e, pending)) /\ \A x \in Range(BookSteps(e, pending)) : x.do # "park"
<1> DEFINE r == e.run
           F == Do("flush", {})
           A == Do("append", {r})
           X == Do("commit", {})
           s == BookSteps(e, pending)
<1>1. r \in Runs
  BY DEF Event
<1>2. F \in Step /\ A \in Step /\ X \in Step /\ F.do = "flush" /\ A.do = "append" /\ A.of = {r} /\ X.do = "commit"
  BY <1>1, DoIsStep DEF Ops
<1>3. s \in {<<A>>, <<F, A>>, <<A, F, X>>, <<F, A, F, X>>}
  <2>1. s = (IF pending # <<>> /\ Last(pending).run # e.run THEN <<F>> ELSE <<>>) \o <<A>>
            \o (IF (IF pending # <<>> /\ Last(pending).run # e.run THEN 1 ELSE Len(pending) + 1) >= BatchSize THEN <<F, X>> ELSE <<>>)
    BY DEF BookSteps
  <2> HIDE DEF F, A, X, s
  <2>2. ASSUME NEW f \in {<<F>>, <<>>}, NEW x \in {<<F, X>>, <<>>}
        PROVE  f \o <<A>> \o x \in {<<A>>, <<F, A>>, <<A, F, X>>, <<F, A, F, X>>}
    <3> <<A>> \in Seq(Step) /\ <<F, A>> \in Seq(Step)
      BY <1>2
    <3>1. CASE f = <<>> /\ x = <<>>
      BY <3>1, ConcatEmptySeq
    <3>2. CASE f = <<>> /\ x = <<F, X>>
      <4>1. <<>> \o <<A>> = <<A>> /\ <<A>> \o <<F, X>> = <<A, F, X>>
        BY <1>2, ConcatEmptySeq, JoinThree
      <4> QED BY <3>2, <4>1
    <3>3. CASE f = <<F>> /\ x = <<>>
      <4>1. <<F>> \o <<A>> = <<F, A>> /\ <<F, A>> \o <<>> = <<F, A>>
        BY <1>2, ConcatEmptySeq, JoinTwo
      <4> QED BY <3>3, <4>1
    <3>4. CASE f = <<F>> /\ x = <<F, X>>
      <4>1. <<F>> \o <<A>> = <<F, A>> /\ <<F, A>> \o <<F, X>> = <<F, A, F, X>>
        BY <1>2, JoinTwo, JoinFour
      <4> QED BY <3>4, <4>1
    <3> QED BY <2>2, <3>1, <3>2, <3>3, <3>4
  <2> QED BY <2>1, <2>2
<1> HIDE DEF F, A, X, s
<1>4. ASSUME NEW t \in {<<A>>, <<F, A>>, <<A, F, X>>, <<F, A, F, X>>} PROVE Script(e, t) /\ \A x \in Range(t) : x.do # "park"
  <2> HIDE DEF r
  <2>1. CASE t = <<A>>
    <3>1. t \in Seq(Step) /\ Len(t) = 1 /\ t[1] = A
      BY <1>2, <2>1
    <3>2. Range(t) = {t[j] : j \in 1..1}
      BY <3>1, RangeEquality
    <3> QED BY <1>2, <3>1, <3>2 DEF Script, Ordered, Flushes, Ends, DueOps, Fits, r
  <2>2. CASE t = <<F, A>>
    <3>1. t \in Seq(Step) /\ Len(t) = 2 /\ t[1] = F /\ t[2] = A
      BY <1>2, <2>2
    <3>2. Range(t) = {t[j] : j \in 1..2}
      BY <3>1, RangeEquality
    <3> QED BY <1>2, <3>1, <3>2 DEF Script, Ordered, Flushes, Ends, DueOps, Fits, r
  <2>3. CASE t = <<A, F, X>>
    <3>1. t \in Seq(Step) /\ Len(t) = 3 /\ t[1] = A /\ t[2] = F /\ t[3] = X
      BY <1>2, <2>3
    <3>2. Range(t) = {t[j] : j \in 1..3}
      BY <3>1, RangeEquality
    <3>3. Ordered(t) /\ Flushes(t)
      BY <1>2, <3>1 DEF Ordered, Flushes, Ends
    <3> QED BY <1>2, <3>1, <3>2, <3>3 DEF Script, DueOps, Fits, r
  <2>4. CASE t = <<F, A, F, X>>
    <3>1. t \in Seq(Step) /\ Len(t) = 4 /\ t[1] = F /\ t[2] = A /\ t[3] = F /\ t[4] = X
      BY <1>2, <2>4
    <3>2. Range(t) = {t[j] : j \in 1..4}
      BY <3>1, RangeEquality
    <3>3. Ordered(t) /\ Flushes(t)
      BY <1>2, <3>1 DEF Ordered, Flushes, Ends
    <3> QED BY <1>2, <3>1, <3>2, <3>3 DEF Script, DueOps, Fits, r
  <2> QED BY <1>4, <2>1, <2>2, <2>3, <2>4
<1> QED BY <1>3, <1>4 DEF s

LEMMA EventScript ==
  ASSUME NEW e \in Event, NEW pending PROVE Script(e, StepsFor(e, pending))
BY MarkerScript, ParkScript, BookScript DEF StepsFor

(***************************************************************************)
(* What a step leaves of the list, and of the other consumers.             *)
(***************************************************************************)

\* t is what is left of s once its first step is taken, behind a write of the
\* tally perhaps.
LeftOf(s, t) ==
  /\ t \in Seq(Step) /\ Ordered(t)
  /\ Head(s).do # "flush" /\ Flushes(s) => Flushes(t)
  /\ Head(s).do = "append" => Flushes(t)
  /\ Head(s).do # "flush" => \A rs : Joins(s, rs) => Joins(t, rs)
  /\ \A a, b \in BOOLEAN :
       /\ Reports(s, a)
       /\ a /\ Head(s).do \notin Counting => b
       /\ Head(s).do = "tally" /\ Head(s).of = Runs => b
       => Reports(t, b)
  /\ Range(Tail(s)) \subseteq Range(t)
  /\ \A x \in Range(t) : x \in Range(Tail(s)) \/ x.do = "tally"

LEMMA TailIsLeft ==
  ASSUME NEW s \in Seq(Step), s # <<>>, Ordered(s) PROVE LeftOf(s, Tail(s))
BY RangeOfTail, TailOrdered, TailFlushes, TailJoins, TailReports, HoldFlushes DEF LeftOf

LEMMA TallyIsLeft ==
  ASSUME NEW s \in Seq(Step), s # <<>>, Ordered(s), NEW x \in Step, x.do = "tally"
  PROVE  LeftOf(s, <<x>> \o Tail(s))
<1> DEFINE t == Tail(s)
           u == <<x>> \o t
<1>1. t \in Seq(Step) /\ LeftOf(s, t)
  BY TailIsLeft, RangeOfTail
<1>2. Ordered(t) => Ordered(u)
  BY <1>1, TallyPrepended
<1>3. Flushes(t) => Flushes(u)
  BY <1>1, TallyPrepended
<1>4. u \in Seq(Step) /\ Range(u) = {x} \cup Range(t)
  BY <1>1, Prepended
<1>5. (\A rs : Joins(t, rs) => Joins(u, rs)) /\ \A b : Reports(t, b) => Reports(u, b)
  BY <1>1, TallyPrepended
<1> HIDE DEF u, t
<1>6. LeftOf(s, u)
  BY <1>1, <1>2, <1>3, <1>4, <1>5 DEF LeftOf, t
<1> QED BY <1>6 DEF u, t

LEMMA ThenLeaves ==
  ASSUME NEW c \in Consumers, todo \in [Consumers -> Seq(Step)], Ordered(todo[c]), todo[c] # <<>>, Then(c)
  PROVE  \E t : LeftOf(todo[c], t) /\ todo' = [todo EXCEPT ![c] = t]
BY TailIsLeft DEF Then

LEMMA CountLeaves ==
  ASSUME NEW c \in Consumers, todo \in [Consumers -> Seq(Step)], Ordered(todo[c]), todo[c] # <<>>,
         NEW r \in Runs, NEW n, Count(c, r, n)
  PROVE  \E t : LeftOf(todo[c], t) /\ todo' = [todo EXCEPT ![c] = t]
<1> DEFINE x == Do("tally", {r})
<1>1. x \in Step /\ x.do = "tally"
  BY DoIsStep DEF Ops
<1> HIDE DEF x
<1>2. LeftOf(todo[c], <<x>> \o Tail(todo[c])) /\ LeftOf(todo[c], Tail(todo[c]))
  BY <1>1, TallyIsLeft, TailIsLeft
<1>3. \/ todo' = [todo EXCEPT ![c] = <<x>> \o Tail(todo[c])]
      \/ todo' = [todo EXCEPT ![c] = Tail(todo[c])]
  BY DEF Count, x
<1> QED BY <1>2, <1>3

\* Effects are never undone.
Grows == catalogue \subseteq catalogue' /\ dlq \subseteq dlq' /\ marker \subseteq marker'

LEMMA DurableGrows == ASSUME Grows PROVE \A p, i : Durable(p, i) => Durable(p, i)'
BY DEF Grows, Durable, Written, Loaded

Untouched(d) == /\ todo'[d] = todo[d] /\ batch'[d] = batch[d] /\ event'[d] = event[d]
                /\ position'[d] = position[d] /\ txn'[d] = txn[d]

LEMMA OtherKeeps ==
  ASSUME Grows, NEW d, ConsumerInv(d), Untouched(d) PROVE ConsumerInv(d)'
<1>1. Polled(d)' = Polled(d) /\ Pending(d)' = Pending(d) /\ Inserted(d)' = Inserted(d) /\ Held(d)' = Held(d)
  BY DEF Untouched, Polled, Pending, Inserted, Held
<1>2. \A p, i : Reached(d, p, i) => Reached(d, p, i)'
  BY <1>1, DurableGrows DEF Reached, Untouched
<1>3. \A x : StepFits(d, x)' = StepFits(d, x)
  BY <1>1 DEF StepFits, Untouched
<1> QED BY <1>1, <1>2, <1>3 DEF ConsumerInv, Untouched

\* A step that takes nothing from the batch: what it was due to do for the
\* event at hand is done, or is in the transaction.
LEMMA QuietKeeps ==
  ASSUME Grows, NEW c, ConsumerInv(c), NEW t, todo[c] \in Seq(Step), todo[c] # <<>>, LeftOf(todo[c], t),
         todo'[c] = t, batch'[c] = batch[c], event'[c] = event[c], position'[c] = position[c],
         Head(todo[c]).do \notin {"flush", "append"},
         \A p, i : event[c] = <<p, i>> /\ (Head(todo[c]).do \in DueOps \/ Inserted(c)) =>
           Durable(p, i)' \/ Inserted(c)'
  PROVE  ConsumerInv(c)'
<1> DEFINE s == todo[c]
<1>1. Range(s) = {Head(s)} \cup Range(Tail(s))
  BY RangeOfTail
<1>2. Polled(c)' = Polled(c) /\ Held(c)' = Held(c)
  BY DEF Polled, Held
<1>3. Range(Tail(s)) \subseteq Range(t) /\ \A x \in Range(t) : x \in Range(s) \/ x.do = "tally"
  BY <1>1 DEF LeftOf
<1>4. Pending(c)' => Pending(c)
  BY <1>3 DEF Pending, DueOps
<1>5. ASSUME NEW p, NEW i, Reached(c, p, i) PROVE Reached(c, p, i)'
  <2>1. CASE Durable(p, i)
    BY <2>1, DurableGrows DEF Reached
  <2>2. CASE Feed[p][i] \in Range(batch[c])
    BY <2>2 DEF Reached
  <2>3. CASE event[c] = <<p, i>> /\ Pending(c)
    <3>1. CASE Head(s).do \in DueOps
      BY <2>3, <3>1 DEF Reached
    <3>2. CASE Head(s).do \notin DueOps
      <4>1. Pending(c)'
        BY <1>1, <1>3, <2>3, <3>2 DEF Pending
      <4> QED BY <2>3, <4>1 DEF Reached
    <3> QED BY <3>1, <3>2
  <2>4. CASE event[c] = <<p, i>> /\ Inserted(c)
    BY <2>4 DEF Reached
  <2> QED BY <1>5, <2>1, <2>2, <2>3, <2>4 DEF Reached
<1>6. \A x \in Range(t) : StepFits(c, x)'
  BY <1>2, <1>3 DEF StepFits, ConsumerInv, DueOps
<1>7. Ordered(t) /\ (batch[c] = <<>> \/ Flushes(t))
  BY DEF LeftOf, ConsumerInv
<1> QED BY <1>2, <1>4, <1>5, <1>6, <1>7 DEF ConsumerInv

(***************************************************************************)
(* The steps of a consumer.                                                *)
(***************************************************************************)

\* The list of a consumer at a step, and the event it is about.
LEMMA AtAStep ==
  ASSUME LoadInv, NEW c \in Consumers, NEW op, AtStep(c, op)
  PROVE  /\ todo \in [Consumers -> Seq(Step)] /\ todo[c] \in Seq(Step) /\ todo[c] # <<>> /\ Ordered(todo[c])
         /\ Head(todo[c]) \in Range(todo[c]) /\ Head(todo[c]).do = op /\ Head(todo[c]).of \subseteq Runs
         /\ Range(todo[c]) = {Head(todo[c])} \cup Range(Tail(todo[c]))
<1>1. todo \in [Consumers -> Seq(Step)] /\ todo[c] \in Seq(Step) /\ todo[c] # <<>> /\ Ordered(todo[c])
  BY DEF LoadInv, LoadTypeOK, ConsumerInv, AtStep
<1>2. Head(todo[c]) \in Step /\ Range(todo[c]) = {Head(todo[c])} \cup Range(Tail(todo[c]))
  BY <1>1, RangeOfTail
<1> QED BY <1>1, <1>2 DEF AtStep, Step

\* A step that is due is about an event of the feed.
LEMMA AtADueStep ==
  ASSUME LoadInv, NEW c \in Consumers, NEW op \in DueOps, AtStep(c, op)
  PROVE  /\ event[c] = <<event[c][1], event[c][2]>> /\ event[c][1] \in Partitions
         /\ event[c][2] \in 1..Len(Feed[event[c][1]])
         /\ Polled(c) \in Event /\ Polled(c).run \in Runs /\ Subject(c) = Polled(c).run
         /\ op = "insert" <=> IsMarker(Polled(c))
         /\ event[c][1] \in Held(c) /\ event[c][2] <= position[c][event[c][1]]
<1>1. Head(todo[c]) \in Range(todo[c]) /\ Head(todo[c]).do = op /\ ConsumerInv(c)
  BY AtAStep DEF LoadInv
<1>2. StepFits(c, Head(todo[c])) /\ Pending(c)
  BY <1>1 DEF ConsumerInv, Pending
<1>3. event[c] \in Partitions \X Nat
  BY <1>1, <1>2 DEF StepFits, LoadInv, LoadTypeOK
<1>4. event[c][2] \in 1..Len(Feed[event[c][1]]) /\ event[c][1] \in Held(c) /\ event[c][2] <= position[c][event[c][1]]
  BY <1>1, <1>2 DEF ConsumerInv, StepFits
<1>5. Polled(c) \in Event
  BY <1>3, <1>4, LoadAssumption DEF LoadAssumption, Polled
<1>6. Subject(c) = Polled(c).run
  BY <1>1, <1>2 DEF StepFits, Subject
<1> QED BY <1>1, <1>2, <1>3, <1>4, <1>5, <1>6 DEF StepFits, Event

LEMMA CountHasSubject ==
  ASSUME LoadInv, NEW c \in Consumers, AtStep(c, "count") PROVE Subject(c) \in Runs
<1>1. Head(todo[c]).of \subseteq Runs /\ StepFits(c, Head(todo[c])) /\ Head(todo[c]).do = "count"
  BY AtAStep DEF LoadInv, ConsumerInv
<1>2. Head(todo[c]).of # {}
  BY <1>1 DEF StepFits
<1> QED BY <1>1, <1>2 DEF Subject

LEMMA TallyStep ==
  ASSUME LoadInv, NEW c \in Consumers, WriteTally(c) PROVE ConsumerInv(c)'
<1>1. PICK t : LeftOf(todo[c], t) /\ todo' = [todo EXCEPT ![c] = t]
  BY AtAStep, ThenLeaves DEF WriteTally
<1>2. Head(todo[c]).do = "tally" /\ todo[c] \in Seq(Step) /\ todo[c] # <<>> /\ todo'[c] = t
  BY <1>1, AtAStep DEF WriteTally
<1>3. UNCHANGED <<batch, event, position, catalogue, dlq, marker, txn>>
  BY DEF WriteTally, markerVars
<1>4. Inserted(c) => Inserted(c)'
  <2>1. Range(Tail(todo[c])) \subseteq Range(t) /\ Range(todo[c]) = {Head(todo[c])} \cup Range(Tail(todo[c]))
    BY <1>1, AtAStep DEF LeftOf, WriteTally
  <2> QED BY <1>2, <1>3, <2>1 DEF Inserted, Polled
<1> QED BY <1>1, <1>2, <1>3, <1>4, QuietKeeps DEF Grows, DueOps, LoadInv

LEMMA CountStep ==
  ASSUME LoadInv, NEW c \in Consumers, CountRun(c) PROVE ConsumerInv(c)'
<1>1. PICK t : LeftOf(todo[c], t) /\ todo' = [todo EXCEPT ![c] = t]
  BY AtAStep, ThenLeaves DEF CountRun
<1>2. Head(todo[c]).do = "count" /\ todo[c] \in Seq(Step) /\ todo[c] # <<>> /\ todo'[c] = t
  BY <1>1, AtAStep DEF CountRun
<1>3. UNCHANGED <<batch, event, position, catalogue, dlq, marker>> /\ txn[c] = NoTxn
  BY DEF CountRun, CountMarkers
<1>4. ~Inserted(c)
  BY <1>3 DEF Inserted
<1> QED BY <1>1, <1>2, <1>3, <1>4, QuietKeeps DEF Grows, DueOps, LoadInv

LEMMA InsertStep ==
  ASSUME LoadInv, NEW c \in Consumers, InsertMarker(c) PROVE ConsumerInv(c)'
<1>1. PICK t : LeftOf(todo[c], t) /\ todo' = [todo EXCEPT ![c] = t]
  BY AtAStep, ThenLeaves DEF InsertMarker
<1>2. Head(todo[c]).do = "insert" /\ todo[c] \in Seq(Step) /\ todo[c] # <<>> /\ todo'[c] = t /\ Ordered(todo[c])
  BY <1>1, AtAStep DEF InsertMarker
<1>3. UNCHANGED <<batch, event, position, catalogue, dlq, marker>>
  BY DEF InsertMarker, RecordMarker
<1>4. /\ Subject(c) = Polled(c).run /\ Polled(c).run \in Runs /\ event[c][1] \in Partitions /\ IsMarker(Polled(c))
  BY AtADueStep DEF DueOps, InsertMarker
<1>5. Inserted(c)'
  <2> DEFINE r == Polled(c).run
             x == [run |-> r, topic |-> "clean", row |-> {event[c][1]}, full |-> IsTopicComplete(r, "clean", {event[c][1]})]
  <2>1. <<r, "clean">> \in frozen
    BY <1>4 DEF LoadInv, Topics
  <2>2. txn' = [txn EXCEPT ![c] = x] /\ txn \in [Consumers -> Txn \cup {NoTxn}]
    BY <1>4, <2>1 DEF InsertMarker, RecordMarker, LoadInv, LoadTypeOK, MarkersTypeOK
  <2>3. x \in Txn
    BY <1>4 DEF Txn, Topics, IsTopicComplete
  <2>4. txn'[c] = x /\ x # NoTxn
    BY <2>2, <2>3, NoTxnAssumption
  <2>5. \E y \in Range(t) : y.do = "close"
    <3>1. Len(todo[c]) \in Nat \ {0} /\ todo[c][1].do = "insert" /\ 1 \in 1..Len(todo[c])
      BY <1>2, RangeOfTail
    <3>2. PICK k \in 1..Len(todo[c]) : 1 < k /\ todo[c][k].do = "close"
      BY <1>2, <3>1 DEF Ordered
    <3>3. todo[c][k] \in Range(todo[c])
      BY <1>2, RangeEquality
    <3>4. todo[c][k] \in Range(Tail(todo[c]))
      BY <1>2, <3>2, <3>3, RangeOfTail
    <3> QED BY <1>1, <3>2, <3>4 DEF LeftOf
  <2> QED BY <1>2, <1>3, <1>4, <2>4, <2>5 DEF Inserted, Polled
<1> QED BY <1>1, <1>2, <1>3, <1>5, QuietKeeps DEF Grows, DueOps, LoadInv

LEMMA CloseStep ==
  ASSUME LoadInv, NEW c \in Consumers, CloseRun(c) PROVE ConsumerInv(c)'
<1>1. PICK t : LeftOf(todo[c], t) /\ todo' = [todo EXCEPT ![c] = t]
  BY AtAStep, ThenLeaves DEF CloseRun
<1>2. Head(todo[c]).do = "close" /\ todo[c] \in Seq(Step) /\ todo[c] # <<>> /\ todo'[c] = t
  BY <1>1, AtAStep DEF CloseRun
<1>3. UNCHANGED <<batch, event, position, catalogue, dlq>>
      /\ marker' = marker \cup {<<txn[c].run, txn[c].topic, p>> : p \in txn[c].row}
  BY DEF CloseRun, CommitTxn
<1>4. ASSUME NEW p, NEW i, event[c] = <<p, i>>, Inserted(c) PROVE Durable(p, i)'
  <2>1. Polled(c) = Feed[p][i] /\ event[c][1] = p
    BY <1>4 DEF Polled
  <2> QED BY <1>3, <1>4, <2>1 DEF Inserted, Durable
<1>5. \A p, i : event[c] = <<p, i>> /\ (Head(todo[c]).do \in DueOps \/ Inserted(c)) => Durable(p, i)'
  BY <1>2, <1>4 DEF DueOps
<1> QED BY <1>1, <1>2, <1>3, <1>5, QuietKeeps DEF Grows, LoadInv

LEMMA ParkStep ==
  ASSUME LoadInv, NEW c \in Consumers, Park(c) PROVE ConsumerInv(c)'
<1>1. /\ event[c] = <<event[c][1], event[c][2]>> /\ Polled(c).run \in Runs /\ Subject(c) = Polled(c).run
      /\ ~IsMarker(Polled(c))
  BY AtADueStep DEF DueOps, Park
<1>2. PICK t : LeftOf(todo[c], t) /\ todo' = [todo EXCEPT ![c] = t]
  BY <1>1, AtAStep, CountLeaves DEF Park
<1>3. Head(todo[c]).do = "park" /\ todo[c] \in Seq(Step) /\ todo[c] # <<>> /\ todo'[c] = t
  BY <1>2, AtAStep DEF Park
<1>4. UNCHANGED <<batch, event, position, catalogue, marker>>
      /\ dlq' = dlq \cup {<<Polled(c).run, Polled(c).body>>}
  BY DEF Park, markerVars
<1>5. ASSUME NEW p, NEW i, event[c] = <<p, i>> PROVE Durable(p, i)'
  <2>1. Polled(c) = Feed[p][i]
    BY <1>5 DEF Polled
  <2> QED BY <1>1, <1>4, <2>1 DEF Durable, Written
<1> QED BY <1>2, <1>3, <1>4, <1>5, QuietKeeps DEF Grows, DueOps, LoadInv

\* The offset moves past events that have their effect.
LEMMA CommitsReached ==
  ASSUME LoadInv, NEW c \in Consumers, CommitPositions(c)
  PROVE  ConsumerInv(c)' /\ \A p \in Held(c) : \A i \in 1..position[c][p] : Durable(p, i)
<1>1. PICK t : LeftOf(todo[c], t) /\ todo' = [todo EXCEPT ![c] = t]
  BY AtAStep, ThenLeaves DEF CommitPositions
<1>2. /\ Head(todo[c]).do = "commit" /\ todo[c] \in Seq(Step) /\ todo[c] # <<>> /\ todo'[c] = t /\ Ordered(todo[c])
      /\ ConsumerInv(c)
  BY <1>1, AtAStep DEF CommitPositions, LoadInv
<1>3. UNCHANGED <<batch, event, position, catalogue, dlq, marker>>
  BY DEF CommitPositions, markerVars
<1>4. Len(todo[c]) = 1 /\ todo[c][1].do = "commit"
  <2>1. todo[c][1].do = "commit" /\ 1 \in 1..Len(todo[c])
    BY <1>2, RangeOfTail
  <2> QED BY <1>2, <2>1 DEF Ordered
<1>5. Range(todo[c]) = {todo[c][1]}
  <2>1. Range(todo[c]) = {todo[c][i] : i \in 1..1}
    BY <1>2, <1>4, RangeEquality
  <2> QED BY <2>1
<1>6. ~Pending(c) /\ ~Inserted(c)
  BY <1>4, <1>5 DEF Pending, Inserted, DueOps
<1>7. batch[c] = <<>>
  <2>1. ~Flushes(todo[c])
    BY <1>4 DEF Flushes, Ends
  <2> QED BY <1>2, <2>1 DEF ConsumerInv
<1>8. Range(batch[c]) = {}
  BY <1>7 DEF Range
<1>9. \A p \in Held(c) : \A i \in 1..position[c][p] : Durable(p, i)
  BY <1>2, <1>6, <1>8 DEF ConsumerInv, Reached
<1> QED BY <1>1, <1>2, <1>3, <1>6, <1>9, QuietKeeps DEF Grows, DueOps

LEMMA HoldStep ==
  ASSUME LoadInv, NEW c \in Consumers, Hold(c) PROVE ConsumerInv(c)'
<1> DEFINE s == todo[c]
<1>1. PICK t : LeftOf(s, t) /\ todo' = [todo EXCEPT ![c] = t]
  BY AtAStep, ThenLeaves DEF Hold
<1>2. /\ Head(s).do = "append" /\ s # <<>> /\ todo'[c] = t /\ Head(s) \in Range(s)
      /\ Range(s) = {Head(s)} \cup Range(Tail(s)) /\ ConsumerInv(c)
  BY <1>1, AtAStep DEF Hold, LoadInv
<1>3. event[c] # NoEvent /\ Polled(c) \in Event /\ ~IsMarker(Polled(c)) /\ Pending(c)
  <2>1. Polled(c) \in Event /\ ~IsMarker(Polled(c))
    BY AtADueStep DEF DueOps, Hold
  <2> QED BY <1>2, <2>1 DEF ConsumerInv, StepFits, DueOps, Pending
<1>4. UNCHANGED <<event, position, catalogue, dlq, marker, txn>>
  BY DEF Hold, markerVars
<1>5. batch'[c] = Append(batch[c], Polled(c)) /\ batch[c] \in Seq(Event)
  BY DEF Hold, LoadInv, LoadTypeOK
<1>6. Range(batch'[c]) = Range(batch[c]) \cup {Polled(c)}
  <2> DEFINE one == <<Polled(c)>>
  <2>1. batch'[c] = batch[c] \o one
    BY <1>3, <1>5, AppendIsConcat
  <2>2. one \in Seq(Event) /\ Len(one) = 1 /\ one[1] = Polled(c)
    BY <1>3
  <2> HIDE DEF one
  <2>3. Range(one) = {one[j] : j \in 1..1}
    BY <2>2, RangeEquality
  <2>4. Range(one) = {Polled(c)}
    BY <2>2, <2>3
  <2>5. Range(batch[c] \o one) = Range(batch[c]) \cup Range(one)
    BY <1>5, <2>2, RangeConcatenation
  <2> QED BY <2>1, <2>4, <2>5
<1>7. Polled(c)' = Polled(c) /\ Held(c)' = Held(c)
  BY <1>4 DEF Polled, Held
<1>8. ASSUME NEW p, NEW i, Reached(c, p, i) PROVE Reached(c, p, i)'
  <2>1. Durable(p, i) => Durable(p, i)'
    BY <1>4, DurableGrows DEF Grows
  <2>2. event[c] = <<p, i>> => Polled(c) = Feed[p][i]
    BY DEF Polled
  <2> QED BY <1>6, <1>8, <2>1, <2>2 DEF Reached
<1>9. \A x \in Range(t) : StepFits(c, x)'
  BY <1>1, <1>2, <1>4, <1>7 DEF StepFits, ConsumerInv, LeftOf, DueOps
<1>10. Ordered(t) /\ Flushes(t)
  BY <1>1, <1>2 DEF LeftOf
<1> QED BY <1>2, <1>3, <1>4, <1>6, <1>7, <1>8, <1>9, <1>10 DEF ConsumerInv

LEMMA FlushStep ==
  ASSUME LoadInv, NEW c \in Consumers, FlushBatch(c) PROVE ConsumerInv(c)' /\ Grows
<1> DEFINE s == todo[c]
<1>1. batch[c] \in Seq(Event) /\ (batch[c] # <<>> => Last(batch[c]).run \in Runs)
  <2>1. batch[c] \in Seq(Event)
    BY DEF LoadInv, LoadTypeOK
  <2>2. batch[c] # <<>> => Last(batch[c]) \in Event
    BY <2>1 DEF Last
  <2> QED BY <2>1, <2>2 DEF Event
<1>2. PICK t : LeftOf(s, t) /\ todo' = [todo EXCEPT ![c] = t]
  BY <1>1, AtAStep, ThenLeaves, CountLeaves DEF FlushBatch
<1>3. /\ Head(s).do = "flush" /\ todo'[c] = t /\ Range(s) = {Head(s)} \cup Range(Tail(s)) /\ ConsumerInv(c)
  BY <1>2, AtAStep DEF FlushBatch, LoadInv
<1>4. UNCHANGED <<event, position, dlq, marker, txn>> /\ batch'[c] = <<>> /\ catalogue' = catalogue \cup FirstLoads(c)
  BY DEF FlushBatch, markerVars, LoadInv, LoadTypeOK
<1>5. Grows
  BY <1>4 DEF Grows
<1>6. Polled(c)' = Polled(c) /\ Held(c)' = Held(c) /\ Range(batch'[c]) = {}
  BY <1>4 DEF Polled, Held, Range
<1>7. \A x \in Range(t) : x \in Range(s) \/ x.do = "tally"
  BY <1>2, <1>3 DEF LeftOf
<1>8. Range(s) \subseteq Range(t) \cup {Head(s)}
  BY <1>2, <1>3 DEF LeftOf
<1>9. Pending(c)' = Pending(c) /\ (Inserted(c) => Inserted(c)')
  <2>1. Pending(c)' = Pending(c)
    BY <1>3, <1>7, <1>8 DEF Pending, DueOps
  <2>2. Inserted(c) => Inserted(c)'
    BY <1>3, <1>4, <1>6, <1>8 DEF Inserted
  <2> QED BY <2>1, <2>2
<1>10. ASSUME NEW p, NEW i, Feed[p][i] \in Range(batch[c]) PROVE Durable(p, i)'
  <2> DEFINE e == Feed[p][i]
  <2>1. ~IsMarker(e)
    BY <1>3, <1>10 DEF ConsumerInv
  <2>2. e.body \in Loaded'
    <3>1. CASE e.body \in Loaded
      BY <3>1, <1>4 DEF Loaded
    <3>2. CASE e.body \notin Loaded
      <4>1. <<e.run, e.body>> \in catalogue'
        BY <1>4, <1>10, <3>2 DEF FirstLoads
      <4> QED BY <4>1 DEF Loaded
    <3> QED BY <3>1, <3>2
  <2> QED BY <2>1, <2>2 DEF Durable, Written
<1>11. ASSUME NEW p, NEW i, Reached(c, p, i) PROVE Reached(c, p, i)'
  <2>1. Durable(p, i) => Durable(p, i)'
    BY <1>5, DurableGrows
  <2> QED BY <1>4, <1>9, <1>10, <1>11, <2>1 DEF Reached
<1>12. \A x \in Range(t) : StepFits(c, x)'
  BY <1>4, <1>6, <1>7, <1>3 DEF StepFits, ConsumerInv, DueOps
<1>13. Ordered(t)
  BY <1>2 DEF LeftOf
<1> QED BY <1>3, <1>4, <1>5, <1>6, <1>9, <1>11, <1>12, <1>13 DEF ConsumerInv

LEMMA PollStep ==
  ASSUME LoadInv, NEW c \in Consumers, NEW p \in Partitions, PollEvent(c, p) PROVE ConsumerInv(c)'
<1> DEFINE k == position[c][p] + 1
           e == Feed[p][k]
           t == StepsFor(e, batch[c])
<1>1. /\ todo[c] = <<>> /\ p \in Held(c) /\ ConsumerInv(c)
      /\ position \in [Consumers -> [Held(c) -> Nat]] \/ position[c] \in [Held(c) -> Nat]
  BY DEF PollEvent, LoadInv, LoadTypeOK
<1>2. position[c] \in [Held(c) -> Nat] /\ position[c][p] \in Nat
  BY <1>1 DEF LoadInv, LoadTypeOK
<1>3. Len(Feed[p]) \in Nat /\ k \in 1..Len(Feed[p]) /\ e \in Event
  <2>1. Feed[p] \in Seq(Event) /\ Len(Feed[p]) \in Nat
    BY LoadAssumption DEF LoadAssumption
  <2>2. k \in 1..Len(Feed[p])
    BY <1>2, <2>1 DEF PollEvent
  <2> QED BY <2>1, <2>2
<1>4. Script(e, t)
  BY <1>3, EventScript
<1> HIDE DEF t
<1>5. event' = [event EXCEPT ![c] = <<p, k>>] /\ position' = [position EXCEPT ![c][p] = k] /\ todo' = [todo EXCEPT ![c] = t]
      /\ UNCHANGED <<batch, catalogue, dlq, marker>>
  BY DEF PollEvent, markerVars, t
<1> HIDE DEF e, k
<1>6. event'[c] = <<p, k>> /\ todo'[c] = t
  BY <1>5 DEF LoadInv, LoadTypeOK
<1>7. event'[c] # NoEvent /\ Polled(c)' = Feed[p][k] /\ event'[c][1] = p /\ event'[c][2] = k
  BY <1>6 DEF Polled, NoEvent
<1>8. Held(c)' = Held(c) /\ position'[c][p] = k /\ \A q \in Held(c) : q # p => position'[c][q] = position[c][q]
  <2>1. position'[c] = [position[c] EXCEPT ![p] = k]
    BY <1>5 DEF LoadInv, LoadTypeOK
  <2> QED BY <1>1, <1>2, <2>1 DEF Held
<1>9. Pending(c)'
  BY <1>4, <1>6 DEF Script, Pending
<1>10. ASSUME NEW q \in Held(c), NEW i \in 1..position'[c][q] PROVE Reached(c, q, i)'
  <2>1. CASE q = p /\ i = k
    BY <1>6, <1>9, <2>1 DEF Reached
  <2>2. CASE ~(q = p /\ i = k)
    <3>1. i \in 1..position[c][q]
      BY <1>2, <1>8, <2>2 DEF k
    <3>2. ~Pending(c) /\ ~Inserted(c)
      BY <1>1 DEF Pending, Inserted, Range
    <3>3. Durable(q, i) \/ Feed[q][i] \in Range(batch[c])
      BY <1>1, <3>1, <3>2 DEF ConsumerInv, Reached
    <3>4. Durable(q, i) => Durable(q, i)'
      BY <1>5, DurableGrows DEF Grows
    <3> QED BY <1>5, <3>3, <3>4 DEF Reached
  <2> QED BY <2>1, <2>2
<1>11. \A x \in Range(t) : StepFits(c, x)'
  BY <1>4, <1>6, <1>7 DEF Script, Fits, StepFits, e, DueOps
<1> QED BY <1>1, <1>2, <1>3, <1>4, <1>5, <1>6, <1>7, <1>8, <1>10, <1>11 DEF ConsumerInv, Script, k

\* The sweep of a consumer that starts: it has polled nothing.
LEMMA SweepStep ==
  ASSUME LoadInv, NEW c \in Consumers, ReadAwaiting(c) PROVE ConsumerInv(c)' /\ todo'[c] \in Seq(Step)
<1>1. PICK s \in SetToSeqs(RunsAwaiting("clean")) :
        todo' = [todo EXCEPT ![c] =
          [i \in 1 .. 2 * Len(s) |-> Do(IF i % 2 = 1 THEN "count" ELSE "close", {s[(i + 1) \div 2]})]]
  BY DEF ReadAwaiting
<1>2. Len(s) \in Nat /\ \A j \in 1..Len(s) : s[j] \in Runs
  <2>1. RunsAwaiting("clean") \subseteq Runs
    BY DEF RunsAwaiting
  <2>2. IsFiniteSet(RunsAwaiting("clean"))
    BY <2>1, FS_Subset, LoadAssumption DEF LoadAssumption
  <2>3. Cardinality(RunsAwaiting("clean")) \in Nat
    BY <2>2, FS_CardinalityType
  <2>4. s \in [1..Cardinality(RunsAwaiting("clean")) -> RunsAwaiting("clean")]
    BY DEF SetToSeqs
  <2>5. s \in Seq(Runs)
    BY <2>1, <2>3, <2>4
  <2> QED BY <2>5
<1> DEFINE n == 2 * Len(s)
           x(i) == Do(IF i % 2 = 1 THEN "count" ELSE "close", {s[(i + 1) \div 2]})
           t == [i \in 1..n |-> x(i)]
<1>3. n \in Nat
  BY <1>2
<1>4. ASSUME NEW i \in 1..n PROVE x(i) \in Step /\ x(i).do \in {"count", "close"} /\ x(i).of # {}
  <2>1. (i + 1) \div 2 \in 1..Len(s)
    BY <1>2
  <2>2. {s[(i + 1) \div 2]} \in SUBSET Runs
    BY <1>2, <2>1
  <2> DEFINE op == IF i % 2 = 1 THEN "count" ELSE "close"
             rs == {s[(i + 1) \div 2]}
  <2>3. op \in Ops /\ op \in {"count", "close"} /\ rs # {}
    BY DEF Ops
  <2> HIDE DEF op, rs
  <2>4. Do(op, rs) \in Step /\ Do(op, rs).do = op /\ Do(op, rs).of = rs
    BY <2>2, <2>3, DoIsStep DEF rs
  <2> QED BY <2>3, <2>4 DEF op, rs
<1>5. t \in Seq(Step) /\ Len(t) = n /\ \A i \in 1..n : t[i].do \in {"count", "close"} /\ t[i].of # {}
  <2> HIDE DEF x
  <2>1. t \in [1..n -> Step]
    BY <1>4
  <2> HIDE DEF n
  <2> QED BY <1>3, <1>4, <2>1
<1>6. todo'[c] = t
  BY <1>1 DEF LoadInv, LoadTypeOK
<1> HIDE DEF t, n, x
<1>7. UNCHANGED <<batch, event, position, catalogue, dlq, marker, txn>>
  BY DEF ReadAwaiting, markerVars
<1>8. event[c] = NoEvent /\ batch[c] = <<>> /\ ConsumerInv(c)
  <2>1. Head(todo[c]) \in Range(todo[c]) /\ Head(todo[c]).do = "sweep"
    BY AtAStep DEF ReadAwaiting
  <2> QED BY <2>1 DEF LoadInv, ConsumerInv, StepFits
<1>9. Range(t) = {t[i] : i \in 1..n}
  BY <1>5, RangeEquality
<1>10. ~Pending(c)' /\ \A y \in Range(t) : StepFits(c, y)'
  BY <1>5, <1>6, <1>9 DEF Pending, StepFits, DueOps
<1>11. Ordered(t)
  BY <1>5 DEF Ordered
<1>12. ASSUME NEW p \in Held(c), NEW i \in 1..position[c][p] PROVE Durable(p, i)'
  <2>1. Reached(c, p, i)
    BY <1>8 DEF ConsumerInv
  <2>2. event[c] # <<p, i>> /\ Range(batch[c]) = {}
    BY <1>8 DEF NoEvent, Range
  <2>3. Durable(p, i)
    BY <2>1, <2>2 DEF Reached
  <2> QED BY <1>7, <2>3, DurableGrows DEF Grows
<1> QED BY <1>5, <1>6, <1>7, <1>8, <1>10, <1>11, <1>12 DEF ConsumerInv, Reached, Held

\* A new process starts from committed offsets.
LEMMA RebornKeeps ==
  ASSUME LoadInv, NEW c \in Consumers, Reborn(c)
  PROVE  ConsumerInv(c)' /\ Grows /\ \A d \in Consumers \ {c} : Untouched(d)
<1>1. /\ event'[c] = NoEvent /\ batch'[c] = <<>> /\ todo'[c] = StartUp
      /\ \A d \in Consumers \ {c} : event'[d] = event[d] /\ batch'[d] = batch[d] /\ todo'[d] = todo[d]
  BY DEF Reborn, LoadInv, LoadTypeOK
<1>2. position'[c] = [p \in {q \in Partitions : owner[q] = c} |-> committed[p]]
      /\ \A d \in Consumers \ {c} : position'[d] = position[d]
  BY DEF Reborn, LoadInv
<1>3. marker' = marker /\ catalogue' = catalogue /\ dlq' = dlq /\ \A d \in Consumers \ {c} : txn'[d] = txn[d]
  BY DEF Reborn, RollbackTxn, markerVars, LoadInv, LoadTypeOK, MarkersTypeOK
<1>4. Grows
  BY <1>3 DEF Grows
<1>5. ASSUME NEW p \in DOMAIN position'[c], NEW i \in 1..position'[c][p] PROVE Durable(p, i)'
  <2>1. p \in Partitions /\ i \in 1..committed[p]
    BY <1>2
  <2>2. Durable(p, i)
    BY <2>1 DEF LoadInv
  <2> QED BY <1>4, <2>2, DurableGrows
<1>6. Range(StartUp) = {Do("sweep", {})} /\ Ordered(StartUp) /\ Do("sweep", {}).do = "sweep"
  <2> DEFINE x == Do("sweep", {})
  <2>1. x \in Step /\ x.do = "sweep"
    BY DoIsStep DEF Ops
  <2>2. StartUp \in Seq(Step) /\ Len(StartUp) = 1 /\ StartUp[1] = x
    BY <2>1 DEF StartUp
  <2> HIDE DEF x
  <2>3. Range(StartUp) = {StartUp[j] : j \in 1..1}
    BY <2>2, RangeEquality
  <2>4. Ordered(StartUp)
    BY <2>1, <2>2 DEF Ordered
  <2> QED BY <2>1, <2>2, <2>3, <2>4 DEF x
<1>7. ~Pending(c)' /\ \A x \in Range(StartUp) : StepFits(c, x)'
  BY <1>1, <1>6 DEF Pending, StepFits, DueOps
<1>8. Range(batch'[c]) = {}
  BY <1>1 DEF Range
<1>9. ConsumerInv(c)'
  BY <1>1, <1>5, <1>6, <1>7, <1>8 DEF ConsumerInv, Reached, Held
<1> QED BY <1>1, <1>2, <1>3, <1>4, <1>9 DEF Untouched

LEMMA RebalanceKeeps ==
  ASSUME LoadInv, Rebalance, NEW c \in Consumers PROVE ConsumerInv(c)'
<1>1. UNCHANGED <<todo, event, batch, marker, catalogue, dlq, txn>>
  BY DEF Rebalance, markerVars
<1>2. Grows /\ ConsumerInv(c)
  BY <1>1 DEF Grows, LoadInv
<1>3. CASE ~CanJoin(c)
  <2>1. position'[c] = position[c]
    BY <1>3 DEF Rebalance
  <2> QED BY <1>1, <1>2, <2>1, OtherKeeps DEF Untouched
<1>4. CASE CanJoin(c)
  <2>1. PICK o \in [Partitions -> Consumers] :
          position'[c] = [p \in {q \in Partitions : o[q] = c} |-> committed[p]]
    BY <1>4 DEF Rebalance
  <2>2. ASSUME NEW p \in DOMAIN position'[c], NEW i \in 1..position'[c][p] PROVE Durable(p, i)'
    <3>1. Durable(p, i)
      BY <2>1 DEF LoadInv
    <3> QED BY <1>2, <3>1, DurableGrows
  <2>3. ~Pending(c)
    <3>1. CASE todo[c] = <<>>
      BY <3>1 DEF Pending, Range
    <3>2. CASE event[c] = NoEvent
      BY <1>2, <3>2 DEF Pending, ConsumerInv, StepFits
    <3> QED BY <1>4, <3>1, <3>2 DEF CanJoin
  <2>4. ~Pending(c)' /\ \A x : StepFits(c, x)' = StepFits(c, x)
    BY <1>1, <2>3 DEF Pending, StepFits, Polled
  <2> QED BY <1>1, <1>2, <2>2, <2>4 DEF ConsumerInv, Reached, Held
<1> QED BY <1>3, <1>4

(***************************************************************************)
(* Types.                                                                  *)
(***************************************************************************)

\* The rows and transactions of a step are those RunMarkers proves about.
LEMMA MarkersStep ==
  ASSUME LoadInv, LoadNext PROVE MarkersInv' /\ frozen' = frozen
<1>1. ASSUME NEW c \in Consumers, InsertMarker(c) PROVE MarkersInv' /\ frozen' = frozen
  <2> DEFINE r == Subject(c)
             p == event[c][1]
             own == IF <<r, "clean">> \in frozen THEN {p} ELSE {}
  <2>1. r \in Runs /\ p \in Partitions /\ "clean" \in Topics
    BY <1>1, AtADueStep DEF DueOps, InsertMarker, Topics
  <2>2. own \in SUBSET Partitions
    BY <2>1
  <2>3. txn' = [txn EXCEPT ![c] = [run |-> r, topic |-> "clean", row |-> own, full |-> IsTopicComplete(r, "clean", own)]]
        /\ UNCHANGED <<status, frozen, marker>>
    BY <1>1 DEF InsertMarker, RecordMarker
  <2> HIDE DEF own, r
  <2> QED BY <2>1, <2>2, <2>3, OpenStep DEF LoadInv
<1>2. ASSUME NEW c \in Consumers, CountRun(c) PROVE MarkersInv' /\ frozen' = frozen
  <2>1. txn[c] = NoTxn /\ UNCHANGED <<status, frozen, marker>>
    BY <1>2 DEF CountRun, CountMarkers
  <2>2. Subject(c) \in Runs
    BY <1>2, CountHasSubject DEF CountRun
  <2> DEFINE own == {}
             r == Subject(c)
  <2>3. own \in SUBSET Partitions /\ "clean" \in Topics
    BY DEF Topics
  <2>4. txn' = [txn EXCEPT ![c] = [run |-> r, topic |-> "clean", row |-> own, full |-> IsTopicComplete(r, "clean", own)]]
    BY <1>2 DEF CountRun, CountMarkers
  <2> HIDE DEF own, r
  <2> QED BY <2>1, <2>2, <2>3, <2>4, OpenStep DEF LoadInv, r
<1>3. ASSUME NEW c \in Consumers, CloseRun(c) PROVE MarkersInv' /\ frozen' = frozen
  BY <1>3, CommitStep DEF CloseRun, CommitTxn, LoadInv
<1>4. ASSUME NEW c \in Consumers, Reborn(c) PROVE MarkersInv' /\ frozen' = frozen
  <2>1. RollbackTxn(c) \/ UNCHANGED markerVars
    BY <1>4 DEF Reborn
  <2> QED BY <2>1, MarkersNextInv DEF LoadInv, MarkersNext, RollbackTxn, markerVars
<1>5. ASSUME UNCHANGED markerVars PROVE MarkersInv' /\ frozen' = frozen
  BY <1>5, MarkersNextInv DEF LoadInv, markerVars
<1>6. ASSUME NEW c \in Consumers, LoadStep(c) PROVE MarkersInv' /\ frozen' = frozen
  BY <1>1, <1>2, <1>3, <1>4, <1>5, <1>6 DEF LoadStep, PollEvent, ReadAwaiting, Hold, FlushBatch, Park, WriteTally,
     CommitPositions, CommitFenced
<1> QED BY <1>4, <1>5, <1>6 DEF LoadNext, CrashLoader, Rebalance

\* A batch is made of records, and what it loads first can be counted.
LEMMA FirstLoadsTyped ==
  ASSUME LoadInv, NEW c \in Consumers
  PROVE  FirstLoads(c) \subseteq Runs \X Records /\ IsFiniteSet(FirstLoads(c)) /\ Cardinality(FirstLoads(c)) \in Nat
<1> DEFINE b == batch[c]
           S == {f \in Range(b) : f.body \notin Loaded}
           g == [e \in S |-> <<e.run, e.body>>]
<1>1. b \in Seq(Event) /\ Len(b) \in Nat /\ \A e \in Range(b) : ~IsMarker(e)
  BY DEF LoadInv, LoadTypeOK, ConsumerInv
<1>2. Range(b) = {b[j] : j \in 1..Len(b)} /\ Range(b) \subseteq Event
  BY <1>1, RangeEquality, RangeOfSeq
<1>3. IsFiniteSet(Range(b))
  <2> DEFINE f == [j \in 1..Len(b) |-> b[j]]
  <2>1. f \in Surjection(1..Len(b), Range(b))
    BY <1>2 DEF Surjection
  <2>2. IsFiniteSet(1..Len(b))
    BY <1>1, FS_Interval
  <2> QED BY <2>1, <2>2, FS_Surjection
<1>4. IsFiniteSet(S)
  BY <1>3, FS_Subset
<1>5. g \in Surjection(S, FirstLoads(c))
  BY DEF Surjection, FirstLoads
<1>6. IsFiniteSet(FirstLoads(c)) /\ Cardinality(FirstLoads(c)) \in Nat
  BY <1>4, <1>5, FS_Surjection, FS_CardinalityType
<1>7. FirstLoads(c) \subseteq Runs \X Records
  BY <1>1, <1>2 DEF FirstLoads, Event, IsMarker
<1> QED BY <1>6, <1>7

LEMMA ChangesTyped ==
  ASSUME LoadInv, NEW c \in Consumers, NEW n \in Changes(c)
  PROVE  n \in Nat /\ [loaded |-> n, rejected |-> 0] \in Counts
<1> DEFINE steady == {x \in FirstLoads(c) : [run |-> x[1], body |-> x[2]] \notin Restless}
           restless == {i \in DOMAIN batch[c] : batch[c][i] \in Restless}
<1>1. PICK k \in 0..Cardinality(restless) : n = Cardinality(steady) + k
  BY DEF Changes
<1>2. Cardinality(steady) \in Nat
  BY FirstLoadsTyped, FS_Subset, FS_CardinalityType
<1>3. k \in Nat
  OBVIOUS
<1>4. n \in Nat
  BY <1>1, <1>2, <1>3
<1> QED BY <1>4 DEF Counts

LEMMA CountTyped ==
  ASSUME tally \in [Consumers -> [Runs -> Counts]], NEW c \in Consumers, NEW r \in Runs, NEW n \in Counts, Count(c, r, n)
  PROVE  tally' \in [Consumers -> [Runs -> Counts]]
<1> DEFINE sum == [loaded |-> tally[c][r].loaded + n.loaded, rejected |-> tally[c][r].rejected + n.rejected]
<1>1. tally[c][r] \in Counts
  OBVIOUS
<1>2. sum \in Counts
  BY <1>1 DEF Counts
<1>3. tally' = [tally EXCEPT ![c][r] = sum]
  BY DEF Count
<1> HIDE DEF sum
<1> QED BY <1>2, <1>3

LEMMA ZeroCounts == Zero \in Counts
BY DEF Zero, Counts

TodoTyped == todo \in [Consumers -> Seq(Step)]

Positions == /\ position = [c \in Consumers |-> position[c]]
             /\ \A c \in Consumers : Held(c) \subseteq Partitions /\ position[c] \in [Held(c) -> Nat]

LEMMA StepTyped ==
  ASSUME LoadInv, NEW c \in Consumers, LoadStep(c) \/ Reborn(c)
  PROVE  TodoTyped' /\ Positions' /\ event' \in [Consumers -> (Partitions \X Nat) \cup {NoEvent}]
         /\ batch' \in [Consumers -> Seq(Event)]
<1> DEFINE Goal == /\ TodoTyped' /\ Positions' /\ event' \in [Consumers -> (Partitions \X Nat) \cup {NoEvent}]
                   /\ batch' \in [Consumers -> Seq(Event)]
<1>1. /\ TodoTyped /\ Positions /\ event \in [Consumers -> (Partitions \X Nat) \cup {NoEvent}]
      /\ batch \in [Consumers -> Seq(Event)]
  BY DEF LoadInv, LoadTypeOK, TodoTyped, Positions
<1>2. ASSUME NEW t \in Seq(Step), todo' = [todo EXCEPT ![c] = t] PROVE TodoTyped'
  BY <1>1, <1>2 DEF TodoTyped
<1>3. ASSUME NEW t, LeftOf(todo[c], t), todo' = [todo EXCEPT ![c] = t] PROVE TodoTyped'
  BY <1>2, <1>3 DEF LeftOf
<1>4. ASSUME NEW op, AtStep(c, op), Then(c) PROVE TodoTyped'
  BY <1>3, <1>4, AtAStep, ThenLeaves
<1>5. ASSUME UNCHANGED position PROVE Positions'
  BY <1>1, <1>5 DEF Positions, Held
<1>6. ASSUME NEW p \in Partitions, PollEvent(c, p) PROVE Goal
  <2> DEFINE k == position[c][p] + 1
  <2>1. /\ position' = [position EXCEPT ![c][p] = k] /\ event' = [event EXCEPT ![c] = <<p, k>>]
        /\ todo' = [todo EXCEPT ![c] = StepsFor(Feed[p][k], batch[c])] /\ batch' = batch /\ p \in Held(c)
    BY <1>6 DEF PollEvent
  <2>2. k \in Nat /\ k \in 1..Len(Feed[p]) /\ Feed[p] \in Seq(Event)
    BY <1>1, <1>6, LoadAssumption DEF PollEvent, Positions, Held, LoadAssumption
  <2>3. Feed[p][k] \in Event
    BY <2>2
  <2>4. StepsFor(Feed[p][k], batch[c]) \in Seq(Step)
    BY <2>3, EventScript DEF Script
  <2> HIDE DEF k
  <2>5. event' \in [Consumers -> (Partitions \X Nat) \cup {NoEvent}]
    BY <1>1, <2>1, <2>2
  <2>6. Positions'
    <3>1. position'[c] = [position[c] EXCEPT ![p] = k] /\ \A d \in Consumers : d # c => position'[d] = position[d]
      BY <1>1, <2>1 DEF Positions
    <3>2. position' = [d \in Consumers |-> position'[d]]
      BY <1>1, <2>1 DEF Positions
    <3>3. Held(c) \subseteq Partitions /\ position'[c] \in [Held(c) -> Nat] /\ DOMAIN position'[c] = Held(c)
      BY <1>1, <2>1, <2>2, <3>1 DEF Positions
    <3>4. \A d \in Consumers : DOMAIN position'[d] \subseteq Partitions /\ position'[d] \in [DOMAIN position'[d] -> Nat]
      BY <1>1, <3>1, <3>3 DEF Positions, Held
    <3> QED BY <3>2, <3>4 DEF Positions, Held
  <2> QED BY <1>1, <1>2, <2>1, <2>4, <2>5, <2>6
<1>7. CASE ReadAwaiting(c)
  <2>1. TodoTyped'
    BY <1>1, <1>7, SweepStep DEF ReadAwaiting, TodoTyped
  <2> QED BY <1>1, <1>5, <1>7, <2>1 DEF ReadAwaiting
<1>8. CASE CountRun(c) \/ InsertMarker(c) \/ CloseRun(c) \/ WriteTally(c) \/ CommitPositions(c)
  BY <1>1, <1>4, <1>5, <1>8 DEF CountRun, InsertMarker, CloseRun, WriteTally, CommitPositions
<1>9. CASE Hold(c)
  <2>1. Polled(c) \in Event
    BY <1>9, AtADueStep DEF Hold, DueOps
  <2>2. batch' = [batch EXCEPT ![c] = Append(@, Polled(c))]
    BY <1>9 DEF Hold
  <2>3. batch' \in [Consumers -> Seq(Event)]
    BY <1>1, <2>1, <2>2
  <2> QED BY <1>1, <1>4, <1>5, <1>9, <2>3 DEF Hold
<1>10. CASE FlushBatch(c)
  <2>1. batch' = [batch EXCEPT ![c] = <<>>] /\ UNCHANGED <<position, event>>
    BY <1>10 DEF FlushBatch
  <2>2. batch[c] # <<>> => Last(batch[c]) \in Event
    BY <1>1 DEF Last
  <2>3. TodoTyped'
    BY <1>1, <1>3, <1>4, <1>10, <2>2, AtAStep, CountLeaves DEF FlushBatch, TodoTyped, Event
  <2>4. batch' \in [Consumers -> Seq(Event)]
    BY <1>1, <2>1
  <2> QED BY <1>1, <1>5, <2>1, <2>3, <2>4
<1>11. CASE Park(c)
  <2>1. Subject(c) \in Runs
    BY <1>11, AtADueStep DEF Park, DueOps
  <2>2. TodoTyped'
    BY <1>1, <1>3, <1>11, <2>1, AtAStep, CountLeaves DEF Park, TodoTyped
  <2> QED BY <1>1, <1>5, <1>11, <2>2 DEF Park
<1>12. CASE Reborn(c)
  <2>1. /\ todo' = [todo EXCEPT ![c] = StartUp] /\ event' = [event EXCEPT ![c] = NoEvent] /\ batch' = [batch EXCEPT ![c] = <<>>]
        /\ position' = [position EXCEPT ![c] = [p \in {q \in Partitions : owner[q] = c} |-> committed[p]]]
    BY <1>12 DEF Reborn
  <2>2. StartUp \in Seq(Step)
    BY DoIsStep DEF StartUp, Ops
  <2>3. Positions'
    <3>1. committed \in [Partitions -> Nat]
      BY DEF LoadInv, LoadTypeOK
    <3> DEFINE q == [p \in {x \in Partitions : owner[x] = c} |-> committed[p]]
    <3>2. DOMAIN q \subseteq Partitions /\ q \in [DOMAIN q -> Nat]
      BY <3>1
    <3>3. position' = [position EXCEPT ![c] = q]
      BY <2>1
    <3> HIDE DEF q
    <3>4. position' = [d \in Consumers |-> position'[d]] /\ position'[c] = q /\ \A d \in Consumers : d # c => position'[d] = position[d]
      BY <1>1, <3>3 DEF Positions
    <3>5. \A d \in Consumers : DOMAIN position'[d] \subseteq Partitions /\ position'[d] \in [DOMAIN position'[d] -> Nat]
      BY <1>1, <3>2, <3>4 DEF Positions
    <3> QED BY <3>4, <3>5 DEF Positions, Held
  <2>4. TodoTyped'
    BY <1>2, <2>1, <2>2
  <2>5. event' \in [Consumers -> (Partitions \X Nat) \cup {NoEvent}] /\ batch' \in [Consumers -> Seq(Event)]
    BY <1>1, <2>1, EmptySeq
  <2> QED BY <2>3, <2>4, <2>5
<1> QED BY <1>6, <1>7, <1>8, <1>9, <1>10, <1>11, <1>12 DEF LoadStep, CommitFenced

LEMMA EffectsTyped ==
  ASSUME LoadInv, NEW c \in Consumers, LoadStep(c) \/ Reborn(c)
  PROVE  /\ tally' \in [Consumers -> [Runs -> Counts]] /\ figures' \in [Runs -> Counts]
         /\ catalogue' \subseteq Runs \X Records /\ dlq' \subseteq Runs \X Records
<1> DEFINE Tallies == tally' \in [Consumers -> [Runs -> Counts]]
           Rest == /\ figures' \in [Runs -> Counts]
                   /\ catalogue' \subseteq Runs \X Records /\ dlq' \subseteq Runs \X Records
<1>1. /\ tally \in [Consumers -> [Runs -> Counts]] /\ figures \in [Runs -> Counts]
      /\ catalogue \subseteq Runs \X Records /\ dlq \subseteq Runs \X Records
  BY DEF LoadInv, LoadTypeOK
<1>2. CASE FlushBatch(c)
  <2>1. FirstLoads(c) \subseteq Runs \X Records /\ Cardinality(FirstLoads(c)) \in Nat
    BY FirstLoadsTyped
  <2>2. Rest
    BY <1>1, <1>2, <2>1 DEF FlushBatch
  <2>3. \A n \in Changes(c) : [loaded |-> n, rejected |-> 0] \in Counts
    BY ChangesTyped
  <2>4. batch[c] # <<>> => Last(batch[c]).run \in Runs
    <3>1. batch[c] \in Seq(Event)
      BY DEF LoadInv, LoadTypeOK
    <3>2. batch[c] # <<>> => Last(batch[c]) \in Event
      BY <3>1 DEF Last
    <3> QED BY <3>2 DEF Event
  <2>5. Tallies
    BY <1>1, <1>2, <2>3, <2>4, CountTyped DEF FlushBatch
  <2> QED BY <2>2, <2>5
<1>3. CASE Park(c)
  <2>1. Polled(c) \in Event /\ Subject(c) \in Runs /\ ~IsMarker(Polled(c))
    BY <1>3, AtADueStep DEF Park, DueOps
  <2>2. <<Polled(c).run, Polled(c).body>> \in Runs \X Records
    BY <2>1 DEF Event, IsMarker
  <2>3. Rest
    BY <1>1, <1>3, <2>2 DEF Park
  <2>4. [loaded |-> 0, rejected |-> 1] \in Counts
    BY DEF Counts
  <2>5. Tallies
    BY <1>1, <1>3, <2>1, <2>4, CountTyped DEF Park
  <2> QED BY <2>3, <2>5
<1>4. CASE WriteTally(c)
  <2> DEFINE rs == Head(todo[c]).of
  <2>1. tally' = [tally EXCEPT ![c] = [r \in Runs |-> IF r \in rs THEN Zero ELSE tally[c][r]]]
    BY <1>1, <1>4 DEF WriteTally
  <2>2. [r \in Runs |-> IF r \in rs THEN Zero ELSE tally[c][r]] \in [Runs -> Counts]
    BY <1>1, ZeroCounts
  <2>3. Tallies
    BY <1>1, <2>1, <2>2
  <2>4. \A r \in Runs : [loaded |-> figures[r].loaded + tally[c][r].loaded,
                         rejected |-> figures[r].rejected + tally[c][r].rejected] \in Counts
    <3> SUFFICES ASSUME NEW r \in Runs
                 PROVE  [loaded |-> figures[r].loaded + tally[c][r].loaded,
                         rejected |-> figures[r].rejected + tally[c][r].rejected] \in Counts
      OBVIOUS
    <3>1. figures[r] \in Counts /\ tally[c][r] \in Counts
      BY <1>1
    <3> QED BY <3>1 DEF Counts
  <2>5. figures' \in [Runs -> Counts]
    <3>1. figures' = [r \in Runs |-> IF r \in rs THEN [loaded |-> figures[r].loaded + tally[c][r].loaded,
                                                        rejected |-> figures[r].rejected + tally[c][r].rejected]
                                                 ELSE figures[r]]
      BY <1>4 DEF WriteTally
    <3> QED BY <1>1, <2>4, <3>1
  <2> QED BY <1>1, <1>4, <2>3, <2>5 DEF WriteTally
<1>5. CASE Reborn(c)
  <2>1. tally' = [tally EXCEPT ![c] = [r \in Runs |-> Zero]]
    BY <1>5 DEF Reborn
  <2>2. Tallies
    BY <1>1, <2>1, ZeroCounts
  <2> QED BY <1>1, <1>5, <2>2 DEF Reborn
<1>6. CASE UNCHANGED <<tally, figures, catalogue, dlq>>
  BY <1>1, <1>6
<1> QED BY <1>2, <1>3, <1>4, <1>5, <1>6 DEF LoadStep, PollEvent, ReadAwaiting, CountRun, InsertMarker, CloseRun, Hold,
     CommitPositions, CommitFenced

(***************************************************************************)
(* The invariant is kept.                                                  *)
(***************************************************************************)

LEMMA InitLoadInv == LoadInit => LoadInv
<1> SUFFICES ASSUME LoadInit PROVE LoadInv
  OBVIOUS
<1>1. MarkersInv
  BY DEF LoadInit, MarkersInv, MarkersTypeOK, Statuses, Topics, CountedIsReported, HandedOverIsFrozen, SuccessMeansReported
<1>2. position = [c \in Consumers |-> [p \in {q \in Partitions : owner[q] = c} |-> 0]]
  BY DEF LoadInit
<1>3. Positions
  BY <1>2 DEF Positions, Held
<1>4. LoadTypeOK
  <2>1. StartUp \in Seq(Step)
    BY DoIsStep DEF StartUp, Ops
  <2>2. <<>> \in Seq(Event)
    OBVIOUS
  <2> QED BY <1>1, <1>3, <2>1, <2>2, ZeroCounts DEF LoadInit, LoadTypeOK, Positions, MarkersInv
<1>5. ASSUME NEW c \in Consumers PROVE ConsumerInv(c)
  <2> DEFINE x == Do("sweep", {})
  <2>1. x \in Step /\ x.do = "sweep"
    BY DoIsStep DEF Ops
  <2>2. StartUp \in Seq(Step) /\ Len(StartUp) = 1 /\ StartUp[1] = x
    BY <2>1 DEF StartUp
  <2> HIDE DEF x
  <2>3. Range(StartUp) = {StartUp[j] : j \in 1..1}
    BY <2>2, RangeEquality
  <2>4. Ordered(StartUp)
    BY <2>1, <2>2 DEF Ordered
  <2>5. todo[c] = StartUp /\ event[c] = NoEvent /\ batch[c] = <<>> /\ Range(batch[c]) = {}
    BY DEF LoadInit, Range
  <2>6. ~Pending(c) /\ \A y \in Range(todo[c]) : StepFits(c, y)
    BY <2>1, <2>2, <2>3, <2>5 DEF Pending, StepFits, DueOps
  <2>7. \A p \in Held(c) : 1..position[c][p] = {}
    BY <1>2 DEF Held
  <2> QED BY <2>4, <2>5, <2>6, <2>7 DEF ConsumerInv
<1>6. \A p \in Partitions : 1..committed[p] = {}
  BY DEF LoadInit
<1>7. frozen = Runs \X Topics
  BY DEF LoadInit
<1> QED BY <1>1, <1>3, <1>4, <1>5, <1>6, <1>7 DEF LoadInv, Positions

LEMMA StepConsumers ==
  ASSUME LoadInv, NEW c \in Consumers, LoadStep(c)
  PROVE  ConsumerInv(c)' /\ Grows /\ \A d \in Consumers \ {c} : Untouched(d)
<1>1. CASE CommitFenced(c)
  BY <1>1, RebornKeeps DEF CommitFenced
<1>2. CASE ~CommitFenced(c)
  <2>1. ConsumerInv(c)'
    BY <1>2, TallyStep, CountStep, InsertStep, CloseStep, ParkStep, CommitsReached, HoldStep, FlushStep, PollStep, SweepStep
       DEF LoadStep
  <2>2. Grows
    BY <1>2 DEF LoadStep, Grows, markerVars, PollEvent, ReadAwaiting, CountRun, CountMarkers, InsertMarker, RecordMarker, CloseRun,
       CommitTxn, Hold, FlushBatch, Park, WriteTally, CommitPositions
  <2>3. ASSUME NEW d \in Consumers \ {c} PROVE todo'[d] = todo[d] /\ batch'[d] = batch[d] /\ event'[d] = event[d]
    BY <1>2 DEF LoadInv, LoadTypeOK, LoadStep, PollEvent, ReadAwaiting, CountRun, InsertMarker, CloseRun,
       Hold, FlushBatch, Park, WriteTally, CommitPositions, Then, Count
  <2>4. ASSUME NEW d \in Consumers \ {c} PROVE position'[d] = position[d] /\ txn'[d] = txn[d]
    BY <1>2 DEF LoadInv, LoadTypeOK, MarkersTypeOK, LoadStep, PollEvent, ReadAwaiting, CountRun, CountMarkers, InsertMarker,
       RecordMarker, CloseRun, CommitTxn, Hold, FlushBatch, Park, WriteTally, CommitPositions, markerVars
  <2> QED BY <2>1, <2>2, <2>3, <2>4 DEF Untouched
<1> QED BY <1>1, <1>2

LEMMA StepKeepsLoadInv ==
  ASSUME LoadInv, [LoadNext]_loadVars PROVE LoadInv'
<1>1. ASSUME NEW c \in Consumers, LoadStep(c) \/ CrashLoader(c) PROVE LoadInv'
  <2>1. /\ ConsumerInv(c)' /\ Grows /\ \A d \in Consumers \ {c} : Untouched(d)
    BY <1>1, StepConsumers, RebornKeeps DEF CrashLoader
  <2>2. \A d \in Consumers : ConsumerInv(d)'
    BY <2>1, OtherKeeps DEF LoadInv
  <2>3. MarkersInv' /\ frozen' = frozen
    BY <1>1, MarkersStep DEF LoadNext
  <2>4. /\ TodoTyped' /\ Positions' /\ event' \in [Consumers -> (Partitions \X Nat) \cup {NoEvent}]
        /\ batch' \in [Consumers -> Seq(Event)]
    BY <1>1, StepTyped DEF CrashLoader
  <2>5. /\ tally' \in [Consumers -> [Runs -> Counts]] /\ figures' \in [Runs -> Counts]
        /\ catalogue' \subseteq Runs \X Records /\ dlq' \subseteq Runs \X Records
    BY <1>1, EffectsTyped DEF CrashLoader
  <2>6. owner' = owner /\ rebalances' = rebalances /\ crashes' \in Nat
    BY <1>1 DEF LoadInv, LoadTypeOK, LoadStep, CrashLoader, Reborn, PollEvent, ReadAwaiting, CountRun, InsertMarker, CloseRun, Hold,
       FlushBatch, Park, WriteTally, CommitPositions, CommitFenced, groupVars, boundVars
  <2>7. committed' \in [Partitions -> Nat] /\ \A p \in Partitions : \A i \in 1..committed'[p] : Durable(p, i)'
    <3>1. CASE CommitPositions(c)
      <4>1. committed' = [p \in Partitions |-> IF p \in Held(c) THEN position[c][p] ELSE committed[p]]
        BY <3>1 DEF CommitPositions
      <4>2. \A p \in Held(c) : position[c][p] \in Nat /\ \A i \in 1..position[c][p] : Durable(p, i)
        BY <3>1, CommitsReached DEF LoadInv, LoadTypeOK
      <4> QED BY <2>1, <4>1, <4>2, DurableGrows DEF LoadInv, LoadTypeOK
    <3>2. CASE ~CommitPositions(c)
      <4>1. committed' = committed
        BY <1>1, <3>2 DEF LoadStep, CrashLoader, Reborn, PollEvent, ReadAwaiting, CountRun, InsertMarker, CloseRun, Hold,
           FlushBatch, Park, WriteTally, CommitFenced, groupVars
      <4> QED BY <2>1, <4>1, DurableGrows DEF LoadInv, LoadTypeOK
    <3> QED BY <3>1, <3>2
  <2> QED BY <2>2, <2>3, <2>4, <2>5, <2>6, <2>7 DEF LoadInv, LoadTypeOK, TodoTyped, Positions, MarkersInv
<1>2. CASE Rebalance
  <2>1. \A c \in Consumers : ConsumerInv(c)'
    BY <1>2, RebalanceKeeps
  <2>2. MarkersInv' /\ frozen' = frozen
    BY <1>2, MarkersStep DEF LoadNext
  <2>3. /\ UNCHANGED <<committed, todo, event, batch, tally, figures, catalogue, dlq, crashes, marker>>
        /\ rebalances' \in Nat
    BY <1>2 DEF Rebalance, markerVars, LoadInv, LoadTypeOK
  <2>4. owner' \in [Partitions -> Consumers] /\ Positions'
    <3>1. PICK o \in [Partitions -> {c \in Consumers : CanJoin(c)}] :
            /\ owner' = o
            /\ position' = [c \in Consumers |->
                 IF CanJoin(c) THEN [p \in {q \in Partitions : o[q] = c} |-> committed[p]] ELSE position[c]]
      BY <1>2 DEF Rebalance
    <3>2. committed \in [Partitions -> Nat] /\ Positions
      BY DEF LoadInv, LoadTypeOK, Positions
    <3>3. ASSUME NEW c \in Consumers PROVE DOMAIN position'[c] \subseteq Partitions /\ position'[c] \in [DOMAIN position'[c] -> Nat]
      BY <3>1, <3>2 DEF Positions, Held
    <3>4. position' = [c \in Consumers |-> position'[c]]
      BY <3>1
    <3> QED BY <3>1, <3>3, <3>4 DEF Positions, Held
  <2>5. \A p, i : Durable(p, i) => Durable(p, i)'
    BY <2>3, DurableGrows DEF Grows
  <2> QED BY <2>1, <2>2, <2>3, <2>4, <2>5 DEF LoadInv, LoadTypeOK, Positions, MarkersInv
<1>3. CASE UNCHANGED loadVars
  <2>1. /\ UNCHANGED <<status, frozen, marker, txn, owner, committed, position, todo, event, batch, tally>>
        /\ UNCHANGED <<figures, catalogue, dlq, crashes, rebalances>> /\ UNCHANGED markerVars
    BY <1>3 DEF loadVars, markerVars, groupVars, memoryVars, boundVars
  <2>2. MarkersInv'
    BY <2>1, MarkersNextInv DEF LoadInv
  <2>3. Grows /\ \A c \in Consumers : Untouched(c)
    BY <2>1 DEF Grows, Untouched
  <2>4. \A c \in Consumers : ConsumerInv(c)'
    BY <2>3, OtherKeeps DEF LoadInv
  <2> QED BY <2>1, <2>2, <2>3, <2>4, DurableGrows DEF LoadInv, LoadTypeOK, MarkersInv, Held
<1> QED BY <1>1, <1>2, <1>3 DEF LoadNext

(***************************************************************************)
(* The theorems.                                                           *)
(***************************************************************************)

\* The invariant above holds in every reachable state (load_consumer.py).
THEOREM LoadInvariant == LoadSpec => []LoadInv
BY InitLoadInv, StepKeepsLoadInv, PTL DEF LoadSpec

\* Every variable keeps its type.
THEOREM LoadTypes == LoadSpec => []LoadTypeOK
BY LoadInvariant, PTL DEF LoadInv

\* "The offset is committed only after the write", whatever the batch size
\* and the order of runs, parked records, crashes and rebalances.
THEOREM CommitsAfterWrites == LoadSpec => []CommittedIsWritten
<1>1. LoadInv => CommittedIsWritten
  BY DEF LoadInv, CommittedIsWritten, Durable
<1> QED BY <1>1, LoadInvariant, PTL

(***************************************************************************)
(* What a row of the marker table says.                                    *)
(***************************************************************************)

AllWritten(r, p) ==
  \A i \in 1..Len(Feed[p]) : Feed[p][i].run = r /\ ~IsMarker(Feed[p][i]) => Written(Feed[p][i])

\* A row, committed or not, is inserted when its run has nothing left to write
\* on its partition.
RowsMean ==
  /\ \A r \in Runs, p \in Partitions : <<r, "clean", p>> \in marker => AllWritten(r, p)
  /\ \A c \in Consumers : txn[c] # NoTxn => \A p \in txn[c].row : AllWritten(txn[c].run, p)

LEMMA WrittenGrows == ASSUME Grows PROVE \A r, p : AllWritten(r, p) => AllWritten(r, p)'
  BY DEF Grows, AllWritten, Written, Loaded, IsMarker

\* The marker at hand lies behind a copy of every record of its run, and nothing
\* waits in the batch when it is inserted.
LEMMA InsertIsBehind ==
  ASSUME LoadInv, NEW c \in Consumers, InsertMarker(c)
  PROVE  AllWritten(Subject(c), event[c][1])
<1> DEFINE p == event[c][1]
           k == event[c][2]
<1>1. /\ event[c] = <<p, k>> /\ p \in Partitions /\ k \in 1..Len(Feed[p])
      /\ p \in Held(c) /\ k <= position[c][p]
      /\ Subject(c) = Polled(c).run /\ IsMarker(Polled(c))
  BY AtADueStep DEF InsertMarker, DueOps
<1>2. ConsumerInv(c)
  BY DEF LoadInv
<1>3. batch[c] = <<>>
  <2>1. /\ Head(todo[c]).do = "insert" /\ todo[c] \in Seq(Step) /\ todo[c] # <<>>
    BY AtAStep DEF InsertMarker
  <2>2. Len(todo[c]) \in Nat \ {0} /\ todo[c][1].do = "insert"
    BY <2>1, RangeOfTail
  <2> QED BY <1>2, <2>2 DEF ConsumerInv, Flushes, Ends
<1> HIDE DEF p, k
<1>5. Len(Feed[p]) \in Nat /\ position[c][p] \in Nat
  BY <1>1, LoadAssumption DEF LoadAssumption, LoadInv, LoadTypeOK
<1>6. Feed[p][k].body = Boundary /\ Feed[p][k].run = Subject(c)
  BY <1>1 DEF Polled, IsMarker
<1>7. ASSUME NEW i \in 1..Len(Feed[p]), Feed[p][i].run = Subject(c), ~IsMarker(Feed[p][i]) PROVE Written(Feed[p][i])
  <2>1. PICK j \in 1..k - 1 : Feed[p][j] = Feed[p][i]
    BY <1>1, <1>6, <1>7, FeedAssumption DEF OnlyCopiesBehind, IsMarker
  <2>2. j \in 1..position[c][p] /\ event[c] # <<p, j>>
    BY <1>1, <1>5, <2>1
  <2>3. Reached(c, p, j)
    BY <1>1, <1>2, <2>2 DEF ConsumerInv
  <2>4. Range(batch[c]) = {}
    BY <1>3 DEF Range
  <2>5. Durable(p, j)
    BY <2>2, <2>3, <2>4 DEF Reached
  <2> QED BY <1>7, <2>1, <2>5 DEF Durable
<1> QED BY <1>7 DEF AllWritten, p

LEMMA StepGrows == ASSUME LoadInv, [LoadNext]_loadVars PROVE Grows
<1>1. ASSUME NEW c \in Consumers, LoadStep(c) \/ CrashLoader(c) PROVE Grows
  BY <1>1, StepConsumers, RebornKeeps DEF CrashLoader
<1>2. CASE Rebalance \/ UNCHANGED loadVars
  BY <1>2 DEF Rebalance, loadVars, markerVars, Grows
<1> QED BY <1>1, <1>2 DEF LoadNext

LEMMA RowsKeepMeaning ==
  ASSUME LoadInv, RowsMean, [LoadNext]_loadVars PROVE RowsMean'
<1>1. \A r, p : AllWritten(r, p) => AllWritten(r, p)'
  BY StepGrows, WrittenGrows
<1>2. /\ txn \in [Consumers -> Txn \cup {NoTxn}] /\ marker \subseteq Runs \X Topics \X Partitions
  BY DEF LoadInv, LoadTypeOK, MarkersTypeOK
<1>3. ASSUME NEW c \in Consumers, InsertMarker(c) PROVE RowsMean'
  <2> DEFINE r == Subject(c)
             p == event[c][1]
             own == IF <<r, "clean">> \in frozen THEN {p} ELSE {}
             x == [run |-> r, topic |-> "clean", row |-> own, full |-> IsTopicComplete(r, "clean", own)]
  <2>1. txn' = [txn EXCEPT ![c] = x] /\ marker' = marker
    BY <1>3 DEF InsertMarker, RecordMarker
  <2>2. AllWritten(r, p)
    BY <1>3, InsertIsBehind
  <2>3. x.run = r /\ x.row \subseteq {p}
    OBVIOUS
  <2> HIDE DEF x, r, p
  <2>4. ASSUME NEW d \in Consumers, txn'[d] # NoTxn, NEW q \in txn'[d].row PROVE AllWritten(txn'[d].run, q)
    <3>1. CASE d = c
      BY <1>2, <2>1, <2>2, <2>3, <2>4, <3>1
    <3>2. CASE d # c
      BY <1>2, <2>1, <2>4, <3>2 DEF RowsMean
    <3> QED BY <3>1, <3>2
  <2> QED BY <1>1, <2>1, <2>4 DEF RowsMean
<1>4. ASSUME NEW c \in Consumers, CountRun(c) PROVE RowsMean'
  <2>1. txn'[c].row = {} /\ marker' = marker /\ \A d \in Consumers : d # c => txn'[d] = txn[d]
    BY <1>2, <1>4 DEF CountRun, CountMarkers
  <2> QED BY <1>1, <2>1 DEF RowsMean
<1>5. ASSUME NEW c \in Consumers, CloseRun(c) PROVE RowsMean'
  <2>1. /\ txn[c] # NoTxn /\ txn'[c] = NoTxn /\ \A d \in Consumers : d # c => txn'[d] = txn[d]
        /\ marker' = marker \cup {<<txn[c].run, txn[c].topic, p>> : p \in txn[c].row}
    BY <1>2, <1>5 DEF CloseRun, CommitTxn
  <2>2. ASSUME NEW r \in Runs, NEW p \in Partitions, <<r, "clean", p>> \in marker' PROVE AllWritten(r, p)
    BY <2>1, <2>2 DEF RowsMean
  <2> QED BY <1>1, <2>1, <2>2 DEF RowsMean
<1>6. ASSUME NEW c \in Consumers, Reborn(c) PROVE RowsMean'
  <2>1. marker' = marker /\ \A d \in Consumers : txn'[d] \in {txn[d], NoTxn}
    BY <1>2, <1>6 DEF Reborn, RollbackTxn, markerVars
  <2> QED BY <1>1, <2>1 DEF RowsMean
<1>7. ASSUME UNCHANGED <<marker, txn>> PROVE RowsMean'
  BY <1>1, <1>7 DEF RowsMean
<1>8. ASSUME NEW c \in Consumers, LoadStep(c) PROVE RowsMean'
  BY <1>3, <1>4, <1>5, <1>6, <1>7, <1>8 DEF LoadStep, PollEvent, ReadAwaiting, Hold, FlushBatch, Park, WriteTally,
     CommitPositions, CommitFenced, markerVars
<1> QED BY <1>6, <1>7, <1>8 DEF LoadNext, CrashLoader, Rebalance, loadVars, markerVars

\* "A batch is always written before the marker that follows it": a run that
\* closed has no record left in anyone's batch, for every feed whose runs end
\* in their boundary.
THEOREM ClosesAfterWrites == LoadSpec => []ClosedRunIsWritten
<1>1. LoadInit => LoadInv /\ RowsMean
  BY InitLoadInv DEF LoadInit, RowsMean
<1>2. LoadInv /\ RowsMean /\ [LoadNext]_loadVars => (LoadInv /\ RowsMean)'
  BY StepKeepsLoadInv, RowsKeepMeaning
<1>3. LoadInv /\ RowsMean => ClosedRunIsWritten
  BY DEF LoadInv, MarkersInv, SuccessMeansReported, RowsMean, AllWritten, ClosedRunIsWritten
<1> QED BY <1>1, <1>2, <1>3, PTL DEF LoadSpec
(***************************************************************************)
(* What is counted.                                                        *)
(***************************************************************************)

RunsOf(c) == {e.run : e \in Range(batch[c])}

\* A batch is of one run, and stays so.
OneRunInBatch(c) == (\A r, q \in RunsOf(c) : r = q) /\ Joins(todo[c], RunsOf(c))

\* Of a run, what every consumer has still to write.
Unwritten(r) == [c \in Consumers |-> tally[c][r].loaded]

Covered(r) == figures[r].loaded + SumFunctionOnSet(Unwritten(r), Consumers) <= Cardinality(Of(r, catalogue))

CountInv ==
  /\ IsFiniteSet(catalogue)
  /\ \A c \in Consumers : OneRunInBatch(c)
  /\ \A r \in Runs : Steady(r) => Covered(r)

LEMMA EventJoins ==
  ASSUME NEW e \in Event, NEW pending, NEW rs, pending = <<>> => rs = {}, pending # <<>> => rs \subseteq {Last(pending).run}
  PROVE  Joins(StepsFor(e, pending), rs)
<1> DEFINE s == StepsFor(e, pending)
           r == e.run
           P == Do("park", {r})
           F == Do("flush", {})
           A == Do("append", {r})
           X == Do("commit", {})
<1>1. Script(e, s)
  BY EventScript
<1>2. /\ P \in Step /\ F \in Step /\ A \in Step /\ X \in Step
      /\ P.do = "park" /\ F.do = "flush" /\ X.do = "commit"
  BY DoIsStep DEF Ops, Event
<1>3. \A j \in 1..Len(s) : s[j] \in Range(s) /\ Fits(e, s[j])
  <2>1. s \in Seq(Step) /\ Range(s) = {s[j] : j \in 1..Len(s)}
    BY <1>1, RangeEquality DEF Script
  <2> HIDE DEF s
  <2> QED BY <1>1, <2>1 DEF Script
<1>4. CASE IsMarker(e)
  <2> HIDE DEF s
  <2>1. \A j \in 1..Len(s) : s[j].do # "append"
    BY <1>3, <1>4 DEF Fits, DueOps
  <2> QED BY <2>1 DEF Joins, s
<1>5. CASE ~IsMarker(e) /\ e.body \in Rejects
  <2>1. s = <<P, F, X>>
    BY <1>5 DEF StepsFor, ParkSteps
  <2> HIDE DEF s, P, F, X
  <2>2. Len(s) = 3 /\ s[1] = P /\ s[2] = F /\ s[3] = X
    BY <1>2, <2>1
  <2>3. \A j \in 1..Len(s) : s[j].do # "append"
    BY <1>2, <2>2
  <2> QED BY <2>3 DEF Joins, s
<1>6. CASE ~IsMarker(e) /\ e.body \notin Rejects /\ (pending = <<>> \/ Last(pending).run = r)
  <2>1. rs \subseteq {r}
    BY <1>6
  <2> HIDE DEF s
  <2>2. \A j \in 1..Len(s) : s[j].do = "append" => s[j].of = {r}
    BY <1>3 DEF Fits, DueOps
  <2> QED BY <2>1, <2>2 DEF Joins, s
<1>7. CASE ~IsMarker(e) /\ e.body \notin Rejects /\ pending # <<>> /\ Last(pending).run # r
  <2> DEFINE full == 1 >= BatchSize
             x == IF full THEN <<F, X>> ELSE <<>>
  <2>1. s = <<F>> \o <<A>> \o x
    BY <1>7 DEF StepsFor, BookSteps
  <2> HIDE DEF s, F, A, X
  <2>2. <<F>> \o <<A>> = <<F, A>> /\ x \in Seq(Step) /\ <<F, A>> \in Seq(Step) /\ Len(<<F, A>>) = 2 /\ <<F, A>>[1] = F
    BY <1>2, JoinTwo
  <2> HIDE DEF x
  <2>3. s[1] = F
    <3>1. \A i \in 1..Len(<<F, A>>) + Len(x) : (<<F, A>> \o x)[i] = IF i <= Len(<<F, A>>) THEN <<F, A>>[i] ELSE x[i - Len(<<F, A>>)]
      BY <2>2, ConcatProperties
    <3>2. Len(x) \in Nat
      BY <2>2
    <3>3. (<<F, A>> \o x)[1] = <<F, A>>[1]
      BY <2>2, <3>1, <3>2
    <3> QED BY <2>1, <2>2, <3>3
  <2>4. ASSUME NEW j \in 1..Len(s), s[j].do = "append" PROVE \E k \in 1..Len(s) : k < j /\ s[k].do = "flush"
    <3>1. Len(s) \in Nat /\ 1 \in 1..Len(s) /\ j # 1
      BY <1>1, <1>2, <2>3, <2>4 DEF Script
    <3>2. 1 < j
      BY <3>1
    <3> QED BY <1>2, <2>3, <3>1, <3>2
  <2> QED BY <2>4 DEF Joins, s
<1> QED BY <1>4, <1>5, <1>6, <1>7

LEMMA HoldRange ==
  ASSUME LoadInv, NEW c \in Consumers, Hold(c) PROVE Range(batch'[c]) \subseteq Range(batch[c]) \cup {Polled(c)}
<1> DEFINE b == batch[c]
           e == Polled(c)
           u == Append(b, e)
<1>1. b \in Seq(Event) /\ e \in Event /\ batch'[c] = u
  BY AtADueStep DEF Hold, DueOps, LoadInv, LoadTypeOK
<1>2. u \in Seq(Event) /\ Len(u) = Len(b) + 1 /\ u[Len(b) + 1] = e /\ (\A j \in 1..Len(b) : u[j] = b[j]) /\ Len(b) \in Nat
  BY <1>1, AppendProperties
<1>3. Range(u) = {u[j] : j \in 1..Len(u)} /\ Range(b) = {b[j] : j \in 1..Len(b)}
  BY <1>1, <1>2, RangeEquality
<1> HIDE DEF u
<1>4. \A j \in 1..Len(u) : j \in 1..Len(b) \/ j = Len(b) + 1
  BY <1>2
<1>5. Range(u) \subseteq Range(b) \cup {e}
  BY <1>2, <1>3, <1>4
<1> QED BY <1>1, <1>5

LEMMA HoldRuns ==
  ASSUME LoadInv, NEW c \in Consumers, Hold(c) PROVE RunsOf(c)' \subseteq RunsOf(c) \cup {Polled(c).run}
BY HoldRange DEF RunsOf

\* A step of the consumer leaves its batch of one run.
LEMMA StepKeepsOneRun ==
  ASSUME LoadInv, NEW c \in Consumers, OneRunInBatch(c), LoadStep(c) \/ Reborn(c) PROVE OneRunInBatch(c)'
<1>1. batch[c] \in Seq(Event) /\ todo \in [Consumers -> Seq(Step)] /\ batch \in [Consumers -> Seq(Event)]
  BY DEF LoadInv, LoadTypeOK
<1>2. ASSUME batch'[c] = <<>> PROVE OneRunInBatch(c)'
  <2>1. RunsOf(c)' = {}
    BY <1>2 DEF RunsOf, Range
  <2> QED BY <2>1 DEF OneRunInBatch, Joins
<1>3. ASSUME NEW op, op # "flush", AtStep(c, op), NEW t, LeftOf(todo[c], t), todo' = [todo EXCEPT ![c] = t], batch' = batch
      PROVE  OneRunInBatch(c)'
  <2>1. todo'[c] = t /\ RunsOf(c)' = RunsOf(c) /\ Head(todo[c]).do # "flush"
    BY <1>1, <1>3 DEF RunsOf, AtStep
  <2> QED BY <1>3, <2>1 DEF OneRunInBatch, LeftOf
<1>4. ASSUME NEW op, op # "flush", AtStep(c, op), Then(c), batch' = batch PROVE OneRunInBatch(c)'
  <2>1. PICK t : LeftOf(todo[c], t) /\ todo' = [todo EXCEPT ![c] = t]
    BY <1>4, AtAStep, ThenLeaves
  <2> QED BY <1>3, <1>4, <2>1
<1>5. CASE CountRun(c) \/ InsertMarker(c) \/ CloseRun(c) \/ WriteTally(c) \/ CommitPositions(c)
  BY <1>4, <1>5 DEF CountRun, InsertMarker, CloseRun, WriteTally, CommitPositions
<1>6. CASE Park(c)
  <2>1. Subject(c) \in Runs
    BY <1>6, AtADueStep DEF Park, DueOps
  <2>2. PICK t : LeftOf(todo[c], t) /\ todo' = [todo EXCEPT ![c] = t]
    BY <1>6, <2>1, AtAStep, CountLeaves DEF Park
  <2> QED BY <1>3, <1>6, <2>2 DEF Park
<1>7. CASE FlushBatch(c) \/ Reborn(c)
  BY <1>1, <1>2, <1>7 DEF FlushBatch, Reborn
<1>8. CASE ReadAwaiting(c)
  <2>1. batch[c] = <<>>
    <3>1. Head(todo[c]) \in Range(todo[c]) /\ Head(todo[c]).do = "sweep"
      BY <1>8, AtAStep DEF ReadAwaiting
    <3> QED BY <3>1 DEF LoadInv, ConsumerInv, StepFits
  <2> QED BY <1>2, <1>8, <2>1 DEF ReadAwaiting
<1>9. CASE Hold(c)
  <2> DEFINE s == todo[c]
             r == Polled(c).run
  <2>1. PICK t : LeftOf(s, t) /\ todo' = [todo EXCEPT ![c] = t]
    BY <1>9, AtAStep, ThenLeaves DEF Hold
  <2>2. /\ s \in Seq(Step) /\ s # <<>> /\ Head(s).do = "append" /\ Head(s) \in Range(s) /\ todo'[c] = t
        /\ Range(s) = {Head(s)} \cup Range(Tail(s)) /\ ConsumerInv(c)
    BY <1>1, <1>9, <2>1, AtAStep DEF Hold, LoadInv
  <2>3. Head(s) = s[1] /\ Len(s) \in Nat \ {0}
    BY <2>2, RangeOfTail
  <2>4. Head(s).of = {r} /\ Polled(c) \in Event
    BY <1>9, <2>2, AtADueStep DEF ConsumerInv, StepFits, DueOps, Hold
  <2>5. \A q \in RunsOf(c) : q = r
    <3>1. 1 \in 1..Len(s) /\ ~\E k \in 1..Len(s) : k < 1 /\ s[k].do = "flush"
      BY <2>3
    <3>2. \A q \in RunsOf(c) : s[1].of = {q}
      BY <2>2, <2>3, <3>1 DEF OneRunInBatch, Joins
    <3> QED BY <2>3, <2>4, <3>2
  <2>6. RunsOf(c)' \subseteq {r}
    BY <1>9, <2>5, HoldRuns
  <2>7. Joins(t, {r})
    <3>1. t \in Seq(Step) /\ \A x \in Range(t) : x \in Range(s) \/ x.do = "tally"
      BY <2>1, <2>2 DEF LeftOf
    <3>2. \A j \in 1..Len(t) : t[j] \in Range(t)
      BY <3>1, RangeEquality
    <3>3. \A x \in Range(s) : x.do = "append" => x.of = {r}
      BY <2>2 DEF ConsumerInv, StepFits, DueOps
    <3> QED BY <3>1, <3>2, <3>3 DEF Joins
  <2> QED BY <2>2, <2>6, <2>7 DEF OneRunInBatch, Joins
<1>10. ASSUME NEW p \in Partitions, PollEvent(c, p) PROVE OneRunInBatch(c)'
  <2> DEFINE k == position[c][p] + 1
             e == Feed[p][k]
             b == batch[c]
             rs == RunsOf(c)
  <2>1. todo' = [todo EXCEPT ![c] = StepsFor(e, b)] /\ batch' = batch /\ k \in 1..Len(Feed[p])
    <3>1. p \in Held(c) /\ position[c] \in [Held(c) -> Nat] /\ position[c][p] < Len(Feed[p])
      BY <1>10 DEF PollEvent, LoadInv, LoadTypeOK
    <3>2. Feed[p] \in Seq(Event)
      BY LoadAssumption DEF LoadAssumption
    <3>3. k \in 1..Len(Feed[p])
      BY <3>1, <3>2
    <3> QED BY <1>10, <3>3 DEF PollEvent
  <2>2. e \in Event
    BY <2>1, LoadAssumption DEF LoadAssumption
  <2>3. b = <<>> => rs = {}
    BY DEF RunsOf, Range
  <2>4. b # <<>> => rs \subseteq {Last(b).run}
    <3> SUFFICES ASSUME b # <<>> PROVE rs \subseteq {Last(b).run}
      OBVIOUS
    <3>1. Len(b) \in 1..Len(b) /\ Last(b) = b[Len(b)]
      BY <1>1 DEF Last
    <3>2. Last(b) \in Range(b)
      BY <1>1, <3>1, RangeEquality
    <3>3. Last(b).run \in rs
      BY <3>2 DEF RunsOf
    <3> QED BY <3>3 DEF OneRunInBatch
  <2> HIDE DEF e, rs, b, k
  <2>5. Joins(StepsFor(e, b), rs)
    BY <2>2, <2>3, <2>4, EventJoins
  <2>6. todo'[c] = StepsFor(e, b) /\ RunsOf(c)' = rs
    BY <1>1, <2>1 DEF RunsOf, rs
  <2> QED BY <2>5, <2>6 DEF OneRunInBatch, rs
<1> QED BY <1>5, <1>6, <1>7, <1>8, <1>9, <1>10 DEF LoadStep, CommitFenced

(***************************************************************************)
(* The sum over a finite set, as the fold of Functions computes it.  It is *)
(* shown by the least number or subset that would make an exception.       *)
(***************************************************************************)

LEMMA LeastNatural ==
  ASSUME NEW T, T \subseteq Nat, T # {}
  PROVE  \E m \in T : \A k \in T : m <= k
<1> DEFINE R == {ss \in Nat \X Nat : ss[1] < ss[2]}
<1>1. IsWellFoundedOn(R, Nat)
  BY NatLessThanWellFounded DEF OpToRel
<1> HIDE DEF R
<1>2. PICK x \in T : \A y \in T : ~(<<y, x>> \in R)
  BY <1>1, WFMin
<1>3. ASSUME NEW k \in T PROVE x <= k
  <2>1. <<k, x>> \in Nat \X Nat /\ ~(<<k, x>> \in R)
    BY <1>2
  <2>2. ~(k < x)
    BY <2>1 DEF R
  <2> QED BY <2>2
<1> QED BY <1>3





\* The element the fold takes next, and one line of its table.
Pick(s) == CHOOSE x \in s : TRUE
SumLine(f, g, s) == IF s = {} THEN 0 ELSE f[Pick(s)] + g[s \ {Pick(s)}]

\* A set of subsets that has the empty one, and every one whose fold goes on
\* with one that it has, has them all.
LEMMA SubsetInduction ==
  ASSUME NEW S, IsFiniteSet(S), NEW G, {} \in G,
         \A s \in SUBSET S : s # {} /\ s \ {Pick(s)} \in G => s \in G
  PROVE  SUBSET S \subseteq G
<1> DEFINE Bad == {s \in SUBSET S : s \notin G}
<1> SUFFICES ASSUME Bad # {} PROVE FALSE
  OBVIOUS
<1>1. PICK R : R = StrictSubsetOrdering(S)
  OBVIOUS
<1>2. IsWellFoundedOn(R, SUBSET S)
  BY <1>1, FS_StrictSubsetOrderingWellFounded, FS_FiniteSubsetsOfFinite
<1>3. Bad \subseteq SUBSET S
  OBVIOUS
<1> HIDE DEF Bad
<1>4. PICK s \in Bad : \A t \in Bad : ~(<<t, s>> \in R)
  BY <1>2, <1>3, WFMin
<1> USE DEF Bad
<1>5. s \in SUBSET S /\ s # {}
  OBVIOUS
<1>6. Pick(s) \in s
  BY <1>5 DEF Pick
<1>7. s \ {Pick(s)} \in SUBSET S /\ <<s \ {Pick(s)}, s>> \in R
  BY <1>1, <1>5, <1>6 DEF StrictSubsetOrdering
<1>8. s \ {Pick(s)} \in G
  BY <1>4, <1>7
<1> QED BY <1>5, <1>8

\* The table is there: line by line, for sets of more and more elements.
LEMMA TableExists ==
  ASSUME NEW f, NEW S, IsFiniteSet(S)
  PROVE  \E g : g = [s \in SUBSET S |-> SumLine(f, g, s)]
<1> DEFINE Upto(n) == {s \in SUBSET S : Cardinality(s) <= n}
           Partial(n) == \E g : g = [s \in Upto(n) |-> SumLine(f, g, s)]
           Bad == {n \in Nat : ~Partial(n)}
<1>1. \A s \in SUBSET S : IsFiniteSet(s) /\ Cardinality(s) \in Nat /\ Cardinality(s) <= Cardinality(S)
  BY FS_Subset, FS_CardinalityType
<1>2. ASSUME NEW s \in SUBSET S, s # {}
      PROVE  s \ {Pick(s)} \in SUBSET S /\ Cardinality(s \ {Pick(s)}) = Cardinality(s) - 1
  <2>1. Pick(s) \in s /\ IsFiniteSet(s)
    BY <1>1, <1>2 DEF Pick
  <2>2. Cardinality(s \ {Pick(s)}) = Cardinality(s) - 1
    BY <2>1, FS_RemoveElement
  <2> QED BY <2>2
<1>3. Partial(0)
  <2> DEFINE h == [s \in Upto(0) |-> 0]
  <2>1. \A s \in Upto(0) : s = {}
    <3> TAKE s \in Upto(0)
    <3>1. IsFiniteSet(s) /\ Cardinality(s) = 0
      BY <1>1
    <3> QED BY <3>1, FS_EmptySet
  <2>2. h = [s \in Upto(0) |-> SumLine(f, h, s)]
    BY <2>1 DEF SumLine
  <2> HIDE DEF h
  <2> QED BY <2>2
<1>4. ASSUME NEW n \in Nat, Partial(n) PROVE Partial(n + 1)
  <2>1. PICK g : g = [s \in Upto(n) |-> SumLine(f, g, s)]
    BY <1>4
  <2> DEFINE h == [s \in Upto(n + 1) |-> SumLine(f, g, s)]
  <2>2. ASSUME NEW s \in Upto(n + 1), s # {} PROVE s \ {Pick(s)} \in Upto(n) /\ s \ {Pick(s)} \in Upto(n + 1)
    BY <1>1, <1>2, <2>2
  <2>3. \A s \in Upto(n) : s \in Upto(n + 1) /\ h[s] = g[s]
    <3>1. \A s \in Upto(n) : s \in Upto(n + 1)
      BY <1>1
    <3>2. \A s \in Upto(n) : g[s] = SumLine(f, g, s)
      BY <2>1
    <3>3. \A s \in Upto(n + 1) : h[s] = SumLine(f, g, s)
      OBVIOUS
    <3> QED BY <3>1, <3>2, <3>3
  <2>4. h = [s \in Upto(n + 1) |-> h[s]] /\ \A s \in Upto(n + 1) : h[s] = SumLine(f, g, s)
    OBVIOUS
  <2> HIDE DEF h
  <2>5. \A s \in Upto(n + 1) : h[s] = SumLine(f, h, s)
    BY <2>2, <2>3, <2>4 DEF SumLine
  <2>6. h = [s \in Upto(n + 1) |-> SumLine(f, h, s)]
    BY <2>4, <2>5
  <2> QED BY <2>6
<1>5. Cardinality(S) \in Nat /\ Upto(Cardinality(S)) = SUBSET S
  BY <1>1, FS_CardinalityType
<1> HIDE DEF Partial, Upto
<1>6. Bad = {}
  <2> SUFFICES ASSUME Bad # {} PROVE FALSE
    OBVIOUS
  <2>1. Bad \subseteq Nat
    OBVIOUS
  <2> HIDE DEF Bad
  <2>2. PICK m \in Bad : \A k \in Bad : m <= k
    BY <2>1, LeastNatural
  <2> USE DEF Bad
  <2>3. m \in Nat /\ ~Partial(m)
    OBVIOUS
  <2>4. m # 0
    BY <1>3, <2>3
  <2>5. PICK k \in Nat : m = k + 1
    BY <2>3, <2>4
  <2>6. k \notin Bad
    BY <2>2, <2>5
  <2> QED BY <1>4, <2>3, <2>5, <2>6
<1>7. Partial(Cardinality(S))
  BY <1>5, <1>6
<1>8. PICK g : g = [s \in Upto(Cardinality(S)) |-> SumLine(f, g, s)]
  BY <1>7 DEF Partial
<1> QED BY <1>5, <1>8

LEMMA SumTable ==
  ASSUME NEW f, NEW S, IsFiniteSet(S)
  PROVE  \E g : (\A s \in SUBSET S : g[s] = SumLine(f, g, s)) /\ SumFunctionOnSet(f, S) = g[S]
<1> DEFINE table == CHOOSE g : g = [s \in SUBSET S |-> SumLine(f, g, s)]
<1>1. SumFunctionOnSet(f, S) = table[S]
  BY DEF SumFunctionOnSet, FoldFunctionOnSet, MapThenFoldSet, SumLine, Pick
<1>2. table = [s \in SUBSET S |-> SumLine(f, table, s)]
  <2>1. \E g : g = [s \in SUBSET S |-> SumLine(f, g, s)]
    BY TableExists
  <2> QED BY <2>1
<1> HIDE DEF table
<1>3. \A s \in SUBSET S : table[s] = SumLine(f, table, s)
  BY <1>2
<1> QED BY <1>1, <1>3

\* Another number for one element changes the sum by the difference.
LEMMA SumChanges ==
  ASSUME NEW S, IsFiniteSet(S), NEW f \in [S -> Nat], NEW e \in [S -> Nat], NEW c \in S,
         \A d \in S : d # c => e[d] = f[d]
  PROVE  /\ SumFunctionOnSet(f, S) \in Nat /\ SumFunctionOnSet(e, S) \in Nat
         /\ SumFunctionOnSet(e, S) + f[c] = SumFunctionOnSet(f, S) + e[c]
<1>1. PICK g : (\A s \in SUBSET S : g[s] = SumLine(f, g, s)) /\ SumFunctionOnSet(f, S) = g[S]
  BY SumTable
<1>2. PICK h : (\A s \in SUBSET S : h[s] = SumLine(e, h, s)) /\ SumFunctionOnSet(e, S) = h[S]
  BY SumTable
<1> DEFINE G == {s \in SUBSET S : /\ g[s] \in Nat /\ h[s] \in Nat
                                  /\ IF c \in s THEN h[s] + f[c] = g[s] + e[c] ELSE h[s] = g[s]}
<1>3. {} \in G
  <2>1. {} \in SUBSET S /\ c \notin {}
    OBVIOUS
  <2>2. g[{}] = 0 /\ h[{}] = 0
    BY <1>1, <1>2, <2>1 DEF SumLine
  <2> QED BY <2>1, <2>2
<1>4. ASSUME NEW s \in SUBSET S, s # {}, s \ {Pick(s)} \in G
      PROVE  s \in G
  <2>1. PICK x \in s : x = Pick(s)
    BY <1>4 DEF Pick
  <2>2. g[s] = f[x] + g[s \ {x}] /\ h[s] = e[x] + h[s \ {x}]
    BY <1>1, <1>2, <1>4, <2>1 DEF SumLine
  <2>3. f[x] \in Nat /\ e[x] \in Nat /\ f[c] \in Nat /\ e[c] \in Nat
    OBVIOUS
  <2>4. PICK a \in Nat, b \in Nat : a = g[s \ {x}] /\ b = h[s \ {x}]
    BY <1>4, <2>1
  <2>5. IF c \in s \ {x} THEN b + f[c] = a + e[c] ELSE b = a
    BY <1>4, <2>1, <2>4
  <2>6. CASE x = c
    BY <2>2, <2>3, <2>4, <2>5, <2>6
  <2>7. CASE x # c
    BY <2>2, <2>3, <2>4, <2>5, <2>7
  <2> QED BY <2>6, <2>7
<1> HIDE DEF G
<1>5. S \in G
  BY <1>3, <1>4, SubsetInduction
<1> QED BY <1>1, <1>2, <1>5 DEF G

\* Nothing sums to nothing.
LEMMA SumOfZeros ==
  ASSUME NEW S, IsFiniteSet(S), NEW f \in [S -> Nat], \A d \in S : f[d] = 0 PROVE SumFunctionOnSet(f, S) = 0
<1>1. PICK g : (\A s \in SUBSET S : g[s] = SumLine(f, g, s)) /\ SumFunctionOnSet(f, S) = g[S]
  BY SumTable
<1> DEFINE G == {s \in SUBSET S : g[s] = 0}
<1>2. {} \in G
  BY <1>1 DEF SumLine
<1>3. ASSUME NEW s \in SUBSET S, s # {}, s \ {Pick(s)} \in G PROVE s \in G
  <2>1. PICK x \in s : x = Pick(s)
    BY <1>3 DEF Pick
  <2>2. g[s] = f[x] + g[s \ {x}] /\ g[s \ {x}] = 0 /\ f[x] = 0
    BY <1>1, <1>3, <2>1 DEF SumLine
  <2> QED BY <2>2
<1> HIDE DEF G
<1>4. S \in G
  BY <1>2, <1>3, SubsetInduction
<1> QED BY <1>1, <1>4 DEF G

(***************************************************************************)
(* What is counted is in the catalogue.                                    *)
(***************************************************************************)

LEMMA UnwrittenTyped ==
  ASSUME tally \in [Consumers -> [Runs -> Counts]], NEW r \in Runs PROVE Unwritten(r) \in [Consumers -> Nat]
BY DEF Unwritten, Counts

LEMMA SumTyped ==
  ASSUME NEW S, IsFiniteSet(S), NEW f \in [S -> Nat] PROVE SumFunctionOnSet(f, S) \in Nat
<1>1. CASE S = {}
  <2>1. \A d \in S : f[d] = 0
    BY <1>1
  <2>2. SumFunctionOnSet(f, S) = 0
    BY <2>1, SumOfZeros
  <2> QED BY <2>2
<1>2. CASE S # {}
  <2>1. PICK c \in S : TRUE
    BY <1>2
  <2> QED BY <2>1, SumChanges
<1> QED BY <1>1, <1>2

\* What a consumer writes, or has no longer to write, was in the sum.
LEMMA CoveredMoves ==
  ASSUME LoadTypeOK, LoadTypeOK', NEW c \in Consumers, NEW r \in Runs, NEW n \in Nat, NEW m \in Nat,
         \A d \in Consumers : d # c => tally'[d][r].loaded = tally[d][r].loaded,
         tally'[c][r].loaded + n = tally[c][r].loaded + m,
         NEW i \in Nat, NEW j \in Nat, figures'[r].loaded + j = figures[r].loaded + i,
         NEW k \in Nat, IsFiniteSet(catalogue), IsFiniteSet(catalogue'),
         Cardinality(Of(r, catalogue)') = Cardinality(Of(r, catalogue)) + k,
         i + m <= n + j + k, Covered(r)
  PROVE  Covered(r)'
<1> DEFINE f == Unwritten(r)
           e == Unwritten(r)'
<1>1. f \in [Consumers -> Nat]
  BY UnwrittenTyped DEF LoadTypeOK
<1>2. e \in [Consumers -> Nat]
  BY DEF LoadTypeOK, Unwritten, Counts
<1>3. IsFiniteSet(Consumers)
  BY LoadAssumption DEF LoadAssumption
<1>4. \A d \in Consumers : d # c => e[d] = f[d]
  BY DEF Unwritten
<1>5. f[c] = tally[c][r].loaded /\ e[c] = tally'[c][r].loaded /\ f[c] \in Nat /\ e[c] \in Nat
  BY <1>1, <1>2 DEF Unwritten
<1> HIDE DEF f, e
<1>6. /\ SumFunctionOnSet(f, Consumers) \in Nat /\ SumFunctionOnSet(e, Consumers) \in Nat
      /\ SumFunctionOnSet(e, Consumers) + f[c] = SumFunctionOnSet(f, Consumers) + e[c]
  BY <1>1, <1>2, <1>3, <1>4, SumChanges
<1>7. figures[r].loaded \in Nat /\ figures'[r].loaded \in Nat
  BY DEF LoadTypeOK, Counts
<1>8. Cardinality(Of(r, catalogue)) \in Nat
  <2>1. Of(r, catalogue) \subseteq catalogue
    BY DEF Of
  <2> QED BY <2>1, FS_Subset, FS_CardinalityType
<1>9. PICK a \in Nat, b \in Nat, x \in Nat, y \in Nat, u \in Nat, v \in Nat, z \in Nat :
        /\ a = SumFunctionOnSet(f, Consumers) /\ b = SumFunctionOnSet(e, Consumers) /\ x = f[c] /\ y = e[c]
        /\ u = figures[r].loaded /\ v = figures'[r].loaded /\ z = Cardinality(Of(r, catalogue))
  BY <1>5, <1>6, <1>7, <1>8
<1>10. b + x = a + y /\ y + n = x + m /\ v + j = u + i /\ u + a <= z
  BY <1>5, <1>6, <1>9 DEF Covered, f
<1>11. v + b <= z + k
  BY <1>9, <1>10
<1> QED BY <1>9, <1>11 DEF Covered, e

\* Of a steady run, what the batch loads first is what it changes.
LEMMA SteadyChanges ==
  ASSUME LoadInv, NEW c \in Consumers, OneRunInBatch(c), batch[c] # <<>>, Steady(Last(batch[c]).run)
  PROVE  Changes(c) = {Cardinality(FirstLoads(c))}
<1> DEFINE b == batch[c]
           q == Last(b).run
           steady == {x \in FirstLoads(c) : [run |-> x[1], body |-> x[2]] \notin Restless}
           restless == {i \in DOMAIN b : b[i] \in Restless}
<1>1. b \in Seq(Event) /\ Last(b) \in Range(b)
  <2>1. b \in Seq(Event)
    BY DEF LoadInv, LoadTypeOK
  <2>2. Len(b) \in 1..Len(b) /\ Last(b) = b[Len(b)]
    BY <2>1 DEF Last
  <2> QED BY <2>1, <2>2, RangeEquality
<1>2. \A e \in Range(b) : e.run = q /\ e \in Event /\ e \notin Restless
  <2> TAKE e \in Range(b)
  <2>1. e.run = q
    BY <1>1 DEF OneRunInBatch, RunsOf
  <2>2. e \in Event
    BY <1>1, RangeOfSeq
  <2> QED BY <2>1, <2>2 DEF Steady
<1>3. restless = {}
  <2>1. \A i \in DOMAIN b : b[i] \in Range(b)
    BY DEF Range
  <2> QED BY <1>2, <2>1
<1>4. steady = FirstLoads(c)
  <2>1. ASSUME NEW x \in FirstLoads(c) PROVE [run |-> x[1], body |-> x[2]] \notin Restless
    <3>1. PICK e \in Range(b) : x = <<e.run, e.body>>
      BY <2>1 DEF FirstLoads
    <3>2. [run |-> x[1], body |-> x[2]] = e
      BY <1>2, <3>1 DEF Event
    <3> QED BY <1>2, <3>2
  <2> QED BY <2>1
<1>5. Cardinality(restless) = 0 /\ Cardinality(steady) \in Nat
  BY <1>3, <1>4, FS_EmptySet, FirstLoadsTyped
<1> DEFINE m == Cardinality(restless)
           n == Cardinality(steady)
<1>6. Changes(c) = {n + k : k \in 0..m}
  BY DEF Changes
<1>7. m = 0 /\ n \in Nat /\ n = Cardinality(FirstLoads(c))
  BY <1>4, <1>5
<1> HIDE DEF m, n
<1>8. {n + k : k \in 0..m} = {n}
  BY <1>7
<1> QED BY <1>6, <1>7, <1>8

\* What a load of the batch adds is counted for the run of its last record.
LEMMA FirstLoadsAreNew ==
  ASSUME LoadInv, NEW c \in Consumers, OneRunInBatch(c), IsFiniteSet(catalogue), batch[c] # <<>>
  PROVE  LET both == catalogue \cup FirstLoads(c)
             n == Cardinality(FirstLoads(c))
         IN  /\ Last(batch[c]).run \in Runs /\ n \in Nat /\ IsFiniteSet(both)
             /\ Cardinality(Of(Last(batch[c]).run, both)) = Cardinality(Of(Last(batch[c]).run, catalogue)) + n
             /\ \A r : r # Last(batch[c]).run => Of(r, both) = Of(r, catalogue)
<1> DEFINE b == batch[c]
           q == Last(b).run
           both == catalogue \cup FirstLoads(c)
<1>1. b \in Seq(Event) /\ Last(b) \in Range(b) /\ Last(b) \in Event
  <2>1. b \in Seq(Event)
    BY DEF LoadInv, LoadTypeOK
  <2>2. Len(b) \in 1..Len(b) /\ Last(b) = b[Len(b)]
    BY <2>1 DEF Last
  <2> QED BY <2>1, <2>2, RangeEquality
<1>2. q \in Runs /\ q \in RunsOf(c)
  BY <1>1 DEF Event, RunsOf
<1>3. IsFiniteSet(FirstLoads(c)) /\ Cardinality(FirstLoads(c)) \in Nat
  BY FirstLoadsTyped
<1>4. \A x \in FirstLoads(c) : x[1] = q /\ x \notin catalogue
  <2> SUFFICES ASSUME NEW e \in Range(b), e.body \notin Loaded PROVE e.run = q /\ <<e.run, e.body>> \notin catalogue
    BY DEF FirstLoads
  <2>1. e.run = q
    BY <1>2 DEF OneRunInBatch, RunsOf
  <2>2. <<e.run, e.body>> \notin catalogue
    BY DEF Loaded
  <2> QED BY <2>1, <2>2
<1> HIDE DEF q, b
<1>5. Of(q, both) = Of(q, catalogue) \cup FirstLoads(c) /\ Of(q, catalogue) \cap FirstLoads(c) = {}
  BY <1>4 DEF Of
<1>6. \A r : r # q => Of(r, both) = Of(r, catalogue)
  BY <1>4 DEF Of
<1>7. IsFiniteSet(Of(q, catalogue)) /\ IsFiniteSet(both)
  <2>1. Of(q, catalogue) \subseteq catalogue
    BY DEF Of
  <2>2. IsFiniteSet(Of(q, catalogue))
    BY <2>1, FS_Subset
  <2>3. IsFiniteSet(both)
    BY <1>3, FS_Union
  <2> QED BY <2>2, <2>3
<1>8. Cardinality(Of(q, both)) = Cardinality(Of(q, catalogue)) + Cardinality(FirstLoads(c))
  <2>1. Cardinality(Of(q, catalogue) \cap FirstLoads(c)) = 0
    BY <1>5, FS_EmptySet
  <2>2. Cardinality(Of(q, catalogue)) \in Nat
    BY <1>7, FS_CardinalityType
  <2>3. /\ Of(q, both) = Of(q, catalogue) \cup FirstLoads(c)
        /\ Cardinality(Of(q, both)) = Cardinality(Of(q, catalogue)) + Cardinality(FirstLoads(c)) - Cardinality(Of(q, catalogue) \cap FirstLoads(c))
    BY <1>3, <1>5, <1>7, FS_Union
  <2> QED BY <1>3, <2>1, <2>2, <2>3
<1> QED BY <1>2, <1>3, <1>6, <1>7, <1>8 DEF q, b

\* What _count adds to a consumer's tally.
LEMMA Counted ==
  ASSUME tally \in [Consumers -> [Runs -> Counts]], NEW c \in Consumers, NEW q \in Runs, NEW n \in Counts, Count(c, q, n)
  PROVE  /\ tally'[c][q].loaded = tally[c][q].loaded + n.loaded /\ tally'[c][q].rejected = tally[c][q].rejected + n.rejected
         /\ \A d \in Consumers, r \in Runs : d # c \/ r # q => tally'[d][r] = tally[d][r]
<1> DEFINE sum == [loaded |-> tally[c][q].loaded + n.loaded, rejected |-> tally[c][q].rejected + n.rejected]
<1>1. tally' = [tally EXCEPT ![c][q] = sum]
  BY DEF Count
<1>2. sum.loaded = tally[c][q].loaded + n.loaded /\ sum.rejected = tally[c][q].rejected + n.rejected
  OBVIOUS
<1> HIDE DEF sum
<1> QED BY <1>1, <1>2

LEMMA SameCovered ==
  ASSUME NEW r \in Runs, Covered(r), tally \in [Consumers -> [Runs -> Counts]],
         \A d \in Consumers : tally'[d][r].loaded = tally[d][r].loaded,
         figures'[r] = figures[r], Of(r, catalogue)' = Of(r, catalogue)
  PROVE  Covered(r)'
<1>1. Unwritten(r)' = Unwritten(r)
  BY DEF Unwritten
<1> QED BY <1>1 DEF Covered

LEMMA StepCounts ==
  ASSUME LoadInv, LoadInv', CountInv, NEW c \in Consumers, LoadStep(c) \/ Reborn(c)
  PROVE  IsFiniteSet(catalogue)' /\ \A r \in Runs : Steady(r) => Covered(r)'
<1>1. /\ LoadTypeOK /\ LoadTypeOK' /\ tally \in [Consumers -> [Runs -> Counts]] /\ figures \in [Runs -> Counts]
      /\ IsFiniteSet(catalogue) /\ \A r \in Runs : Steady(r) => Covered(r)
  BY DEF LoadInv, LoadTypeOK, CountInv
<1>2. \A d \in Consumers, r \in Runs : /\ tally[d][r].loaded \in Nat /\ figures[r].loaded \in Nat
                                       /\ figures'[r].loaded \in Nat /\ tally'[d][r].loaded \in Nat
  BY <1>1 DEF LoadTypeOK, Counts
<1>3. CASE UNCHANGED <<tally, figures, catalogue>>
  BY <1>1, <1>3, SameCovered
<1>4. CASE FlushBatch(c)
  <2>1. catalogue' = catalogue \cup FirstLoads(c) /\ figures' = figures
    BY <1>4 DEF FlushBatch
  <2>2. CASE batch[c] = <<>>
    <3>1. FirstLoads(c) = {}
      BY <2>2 DEF FirstLoads, Range
    <3> QED BY <1>3, <1>4, <2>1, <2>2, <3>1 DEF FlushBatch
  <2>3. CASE batch[c] # <<>>
    <3>1. PICK q \in Runs, n \in Nat :
            /\ q = Last(batch[c]).run /\ n = Cardinality(FirstLoads(c)) /\ IsFiniteSet(catalogue')
            /\ Cardinality(Of(q, catalogue')) = Cardinality(Of(q, catalogue)) + n
            /\ \A r : r # q => Of(r, catalogue') = Of(r, catalogue)
      BY <1>1, <2>1, <2>3, FirstLoadsAreNew DEF CountInv
    <3>2. PICK m \in Changes(c) : Count(c, q, [loaded |-> m, rejected |-> 0])
      BY <1>4, <2>3, <3>1 DEF FlushBatch
    <3>3. m \in Nat /\ [loaded |-> m, rejected |-> 0] \in Counts
      BY ChangesTyped
    <3>4. /\ tally'[c][q].loaded = tally[c][q].loaded + m
          /\ \A d \in Consumers, r \in Runs : d # c \/ r # q => tally'[d][r] = tally[d][r]
      BY <1>1, <3>1, <3>2, <3>3, Counted
    <3>5. ASSUME Steady(q) PROVE Covered(q)'
      <4>1. \A d \in Consumers : d # c => tally'[d][q].loaded = tally[d][q].loaded
        BY <3>1, <3>4
      <4>2. PICK i \in Nat : i = 0
        OBVIOUS
      <4>3. m = n
        BY <2>3, <3>1, <3>5, SteadyChanges DEF CountInv
      <4>4. tally'[c][q].loaded + i = tally[c][q].loaded + n /\ figures'[q].loaded + i = figures[q].loaded + i /\ i + n <= i + i + n
        BY <1>2, <2>1, <3>1, <3>4, <4>2, <4>3
      <4>5. Covered(q) /\ Of(q, catalogue)' = Of(q, catalogue')
        BY <1>1, <3>1, <3>5 DEF Of
      <4> QED BY <1>1, <3>1, <4>1, <4>4, <4>5, CoveredMoves
    <3>6. ASSUME NEW r \in Runs, r # q, Steady(r) PROVE Covered(r)'
      <4>1. Of(r, catalogue)' = Of(r, catalogue)
        BY <3>1, <3>6 DEF Of
      <4> QED BY <1>1, <2>1, <3>4, <3>6, <4>1, SameCovered
    <3> QED BY <3>1, <3>5, <3>6
  <2> QED BY <2>2, <2>3
<1>5. CASE Park(c)
  <2>1. Count(c, Subject(c), [loaded |-> 0, rejected |-> 1]) /\ figures' = figures /\ catalogue' = catalogue
    BY <1>5 DEF Park
  <2>2. Subject(c) \in Runs
    BY <1>5, AtADueStep DEF Park, DueOps
  <2>3. [loaded |-> 0, rejected |-> 1] \in Counts
    BY DEF Counts
  <2>4. ASSUME NEW d \in Consumers, NEW r \in Runs PROVE tally'[d][r].loaded = tally[d][r].loaded
    BY <1>1, <1>2, <2>1, <2>2, <2>3, Counted
  <2> QED BY <1>1, <2>1, <2>4, SameCovered DEF Of
<1>6. CASE WriteTally(c)
  <2> DEFINE rs == Head(todo[c]).of
  <2>1. tally' = [tally EXCEPT ![c] = [r \in Runs |-> IF r \in rs THEN Zero ELSE tally[c][r]]] /\ catalogue' = catalogue
    BY <1>1, <1>6 DEF WriteTally
  <2>2. \A r \in Runs : figures'[r].loaded = IF r \in rs THEN figures[r].loaded + tally[c][r].loaded ELSE figures[r].loaded
    BY <1>6 DEF WriteTally
  <2>3. \A r \in Runs : tally'[c][r] = IF r \in rs THEN Zero ELSE tally[c][r]
    BY <1>1, <2>1
  <2>4. \A d \in Consumers : d # c => tally'[d] = tally[d]
    BY <1>1, <2>1
  <2>5. ASSUME NEW r \in Runs, r \in rs, Steady(r) PROVE Covered(r)'
    <3>1. PICK i \in Nat, n \in Nat : i = 0 /\ n = tally[c][r].loaded
      BY <1>2
    <3>2. tally'[c][r].loaded + n = tally[c][r].loaded + i /\ figures'[r].loaded + i = figures[r].loaded + n /\ n + i <= n + i + i
      BY <1>2, <2>2, <2>3, <2>5, <3>1 DEF Zero
    <3>3. Of(r, catalogue)' = Of(r, catalogue)
      BY <2>1 DEF Of
    <3>4. IsFiniteSet(Of(r, catalogue))
      <4>1. Of(r, catalogue) \subseteq catalogue
        BY DEF Of
      <4> QED BY <1>1, <4>1, FS_Subset
    <3>5. Cardinality(Of(r, catalogue)') = Cardinality(Of(r, catalogue)) + i
      BY <3>1, <3>3, <3>4, FS_CardinalityType
    <3>6. IsFiniteSet(catalogue')
      BY <1>1, <2>1
    <3>7. \A d \in Consumers : d # c => tally'[d][r].loaded = tally[d][r].loaded
      BY <2>4
    <3> QED BY <1>1, <2>5, <3>2, <3>5, <3>6, <3>7, CoveredMoves
  <2>6. ASSUME NEW r \in Runs, r \notin rs, Steady(r) PROVE Covered(r)'
    <3>1. figures'[r] = figures[r]
      BY <1>6, <2>6 DEF WriteTally
    <3>2. \A d \in Consumers : tally'[d][r].loaded = tally[d][r].loaded
      BY <2>3, <2>4, <2>6
    <3>3. Of(r, catalogue)' = Of(r, catalogue)
      BY <2>1 DEF Of
    <3> QED BY <1>1, <2>6, <3>1, <3>2, <3>3, SameCovered
  <2> QED BY <1>1, <2>1, <2>5, <2>6
<1>7. CASE Reborn(c)
  <2>1. tally' = [tally EXCEPT ![c] = [r \in Runs |-> Zero]] /\ catalogue' = catalogue /\ figures' = figures
    BY <1>7 DEF Reborn
  <2>2. \A d \in Consumers : d # c => tally'[d] = tally[d]
    BY <1>1, <2>1
  <2>3. ASSUME NEW r \in Runs, Steady(r) PROVE Covered(r)'
    <3>1. PICK i \in Nat, n \in Nat : i = 0 /\ n = tally[c][r].loaded
      BY <1>2
    <3>2. tally'[c][r].loaded + n = tally[c][r].loaded + i /\ figures'[r].loaded + i = figures[r].loaded + i /\ i + i <= n + i + i
      BY <1>1, <1>2, <2>1, <3>1 DEF Zero
    <3>3. Of(r, catalogue)' = Of(r, catalogue)
      BY <2>1 DEF Of
    <3>4. IsFiniteSet(Of(r, catalogue))
      <4>1. Of(r, catalogue) \subseteq catalogue
        BY DEF Of
      <4> QED BY <1>1, <4>1, FS_Subset
    <3>5. Cardinality(Of(r, catalogue)') = Cardinality(Of(r, catalogue)) + i
      BY <3>1, <3>3, <3>4, FS_CardinalityType
    <3>6. IsFiniteSet(catalogue') /\ \A d \in Consumers : d # c => tally'[d][r].loaded = tally[d][r].loaded
      BY <1>1, <2>1, <2>2
    <3> QED BY <1>1, <2>3, <3>2, <3>5, <3>6, CoveredMoves
  <2> QED BY <1>1, <2>1, <2>3
<1> QED BY <1>3, <1>4, <1>5, <1>6, <1>7 DEF LoadStep, PollEvent, ReadAwaiting, CountRun, InsertMarker, CloseRun, Hold,
     CommitPositions, CommitFenced

LEMMA InitCountInv == LoadInit => CountInv
<1> SUFFICES ASSUME LoadInit PROVE CountInv
  OBVIOUS
<1>1. LoadInv /\ IsFiniteSet(catalogue) /\ IsFiniteSet(Consumers)
  BY InitLoadInv, FS_EmptySet, LoadAssumption DEF LoadInit, LoadAssumption
<1>2. ASSUME NEW c \in Consumers PROVE OneRunInBatch(c)
  <2>1. RunsOf(c) = {}
    BY DEF LoadInit, RunsOf, Range
  <2> QED BY <2>1 DEF OneRunInBatch, Joins
<1>3. ASSUME NEW r \in Runs PROVE Covered(r)
  <2>1. Of(r, catalogue) = {} /\ figures[r].loaded = 0 /\ \A c \in Consumers : tally[c][r].loaded = 0
    BY DEF LoadInit, Zero, Of
  <2> DEFINE f == Unwritten(r)
  <2>2. f \in [Consumers -> Nat] /\ \A c \in Consumers : f[c] = 0
    BY <2>1 DEF Unwritten
  <2> HIDE DEF f
  <2>3. SumFunctionOnSet(f, Consumers) = 0
    BY <1>1, <2>2, SumOfZeros
  <2>4. Cardinality(Of(r, catalogue)) = 0
    BY <2>1, FS_EmptySet
  <2> QED BY <2>1, <2>3, <2>4 DEF Covered, f
<1> QED BY <1>1, <1>2, <1>3 DEF CountInv

LEMMA OthersKeepOneRun ==
  ASSUME NEW d, OneRunInBatch(d), Untouched(d) PROVE OneRunInBatch(d)'
<1>1. RunsOf(d)' = RunsOf(d)
  BY DEF Untouched, RunsOf
<1> QED BY <1>1 DEF OneRunInBatch, Untouched

LEMMA StepKeepsCount ==
  ASSUME LoadInv, LoadInv', CountInv, [LoadNext]_loadVars PROVE CountInv'
<1>1. ASSUME NEW c \in Consumers, LoadStep(c) \/ CrashLoader(c) PROVE CountInv'
  <2>1. LoadStep(c) \/ Reborn(c)
    BY <1>1 DEF CrashLoader
  <2>2. OneRunInBatch(c)'
    BY <2>1, StepKeepsOneRun DEF CountInv
  <2>3. ASSUME NEW d \in Consumers, d # c PROVE OneRunInBatch(d)'
    <3>1. Untouched(d)
      BY <2>1, <2>3, StepConsumers, RebornKeeps
    <3> QED BY <3>1, OthersKeepOneRun DEF CountInv
  <2> QED BY <2>1, <2>2, <2>3, StepCounts DEF CountInv
<1>2. CASE Rebalance \/ UNCHANGED loadVars
  <2>1. UNCHANGED <<todo, event, batch, tally, figures, catalogue>>
    BY <1>2 DEF Rebalance, loadVars, memoryVars
  <2>2. \A d \in Consumers : OneRunInBatch(d)'
    BY <2>1 DEF CountInv, OneRunInBatch, RunsOf
  <2>3. \A r \in Runs : Steady(r) => Covered(r)'
    BY <2>1 DEF CountInv, Covered, Unwritten, Of
  <2> QED BY <2>1, <2>2, <2>3 DEF CountInv
<1> QED BY <1>1, <1>2 DEF LoadNext

\* A run whose records change their books once and no more never reports more than
\* it loaded, with what its consumers have yet to report: whatever is replayed, by
\* whomever, after whichever crash, and whatever the other runs' records do.
THEOREM NeverInflated == LoadSpec => []LoadedNeverInflated
<1>1. LoadInit => LoadInv /\ CountInv
  BY InitLoadInv, InitCountInv
<1>2. LoadInv /\ CountInv /\ [LoadNext]_loadVars => (LoadInv /\ CountInv)'
  BY StepKeepsLoadInv, StepKeepsCount
<1>3. LoadInv /\ CountInv => LoadedNeverInflated
  <2> SUFFICES ASSUME CountInv, NEW r \in Runs, Steady(r)
               PROVE  CountedLoads(r) <= Cardinality(Of(r, catalogue))
    BY DEF LoadedNeverInflated
  <2>1. Covered(r) /\ DOMAIN Unwritten(r) = Consumers
    BY DEF CountInv, Unwritten
  <2> QED BY <2>1 DEF CountedLoads, Covered, Unwritten, SumFunction
<1> QED BY <1>1, <1>2, <1>3, PTL DEF LoadSpec

(***************************************************************************)
(* A run's figures while no consumer dies and no partition moves.          *)
(***************************************************************************)

Quiet == crashes + rebalances = 0

Empty(c) == tally[c] = [r \in Runs |-> Zero]

\* The event at hand is the last polled of a partition that is the consumer's.
AtHand(c) ==
  /\ Held(c) = {p \in Partitions : owner[p] = c}
  /\ \A p \in Held(c) : position[c][p] <= Len(Feed[p])
  /\ event[c] # NoEvent => event[c][1] \in Held(c) /\ event[c][2] = position[c][event[c][1]]

\* What is parked is parked first.
ParksFirst(c) == \A j \in 1..Len(todo[c]) : todo[c][j].do = "park" => j = 1 /\ Polled(c).body \in Rejects

\* The events of a partition that were polled.
Polls(p) == 1..position[owner[p]][p]

\* A row of the marker table, committed or not.
HasRow(r, p) ==
  \/ <<r, "clean", p>> \in marker
  \/ \E c \in Consumers : txn[c] # NoTxn /\ txn[c].run = r /\ p \in txn[c].row

RowsWerePolled ==
  \A r \in Runs, p \in Partitions : HasRow(r, p) =>
    \E i \in Polls(p) : IsMarker(Feed[p][i]) /\ Feed[p][i].run = r

ToPark(c, p, i) == event[c] = <<p, i>> /\ \E x \in Range(todo[c]) : x.do = "park"

ParkedWerePolled ==
  \A x \in dlq :
    /\ x[2] \in Rejects
    /\ \E p \in Partitions : \E i \in Polls(p) :
         /\ x = <<Feed[p][i].run, Feed[p][i].body>>
         /\ \A c \in Consumers : ~ToPark(c, p, i)

\* The runs of which the batch has something new.
Fresh(c) == {x[1] : x \in FirstLoads(c)}

\* A steady run of which someone's memory has a count, or something new to load,
\* has a partition that has not reported.
OpenWhileHeld ==
  \A c \in Consumers, r \in Runs : Steady(r) /\ (tally[c][r] # Zero \/ r \in Fresh(c)) =>
    \E p \in Held(c) : ~HasRow(r, p)

UnwrittenRejects(r) == [c \in Consumers |-> tally[c][r].rejected]

LoadsExact(r) == figures[r].loaded + SumFunctionOnSet(Unwritten(r), Consumers) = Cardinality(Of(r, catalogue))
RejectsExact(r) == figures[r].rejected + SumFunctionOnSet(UnwrittenRejects(r), Consumers) = Cardinality(Of(r, dlq))

QuietInv ==
  /\ \A c \in Consumers : AtHand(c) /\ ParksFirst(c) /\ Reports(todo[c], Empty(c))
  /\ RowsWerePolled
  /\ ParkedWerePolled
  /\ OpenWhileHeld
  /\ IsFiniteSet(dlq)
  /\ \A r \in Runs : (Steady(r) => LoadsExact(r)) /\ RejectsExact(r)

LEMMA StepLeaves ==
  ASSUME LoadInv, NEW c \in Consumers, LoadStep(c), ~CommitFenced(c), ~ReadAwaiting(c), \A p \in Partitions : ~PollEvent(c, p)
  PROVE  /\ todo[c] # <<>> /\ todo[c] \in Seq(Step) /\ event' = event /\ position' = position
         /\ \E t : LeftOf(todo[c], t) /\ todo' = [todo EXCEPT ![c] = t] /\ todo'[c] = t
<1> DEFINE Goal == /\ todo[c] # <<>> /\ todo[c] \in Seq(Step) /\ event' = event /\ position' = position
                   /\ \E t : LeftOf(todo[c], t) /\ todo' = [todo EXCEPT ![c] = t] /\ todo'[c] = t
<1>1. ASSUME NEW op, AtStep(c, op) PROVE /\ todo \in [Consumers -> Seq(Step)] /\ Ordered(todo[c]) /\ todo[c] # <<>>
  BY <1>1, AtAStep
<1>2. ASSUME NEW op, AtStep(c, op), Then(c), event' = event, position' = position PROVE Goal
  <2>1. PICK t : LeftOf(todo[c], t) /\ todo' = [todo EXCEPT ![c] = t]
    BY <1>1, <1>2, ThenLeaves
  <2> QED BY <1>1, <1>2, <2>1
<1>3. ASSUME NEW op, AtStep(c, op), NEW r \in Runs, NEW n, Count(c, r, n), event' = event, position' = position PROVE Goal
  <2>1. PICK t : LeftOf(todo[c], t) /\ todo' = [todo EXCEPT ![c] = t]
    BY <1>1, <1>3, CountLeaves
  <2> QED BY <1>1, <1>3, <2>1
<1>4. CASE FlushBatch(c)
  <2>1. batch[c] # <<>> => Last(batch[c]).run \in Runs
    <3>1. batch[c] \in Seq(Event)
      BY DEF LoadInv, LoadTypeOK
    <3>2. batch[c] # <<>> => Last(batch[c]) \in Event
      BY <3>1 DEF Last
    <3> QED BY <3>2 DEF Event
  <2> QED BY <1>2, <1>3, <1>4, <2>1 DEF FlushBatch
<1>5. CASE Park(c)
  <2>1. Subject(c) \in Runs
    BY <1>5, AtADueStep DEF Park, DueOps
  <2> QED BY <1>3, <1>5, <2>1 DEF Park
<1>6. CASE CountRun(c) \/ InsertMarker(c) \/ CloseRun(c) \/ WriteTally(c) \/ CommitPositions(c) \/ Hold(c)
  BY <1>2, <1>6 DEF CountRun, InsertMarker, CloseRun, WriteTally, CommitPositions, Hold
<1> QED BY <1>4, <1>5, <1>6 DEF LoadStep

\* The event polled, and the steps it calls for.
LEMMA PollLeaves ==
  ASSUME LoadInv, NEW c \in Consumers, NEW p \in Partitions, PollEvent(c, p)
  PROVE  \E k \in 1..Len(Feed[p]) :
           /\ k = position[c][p] + 1 /\ p \in Held(c) /\ owner[p] = c /\ Feed[p][k] \in Event
           /\ event'[c] = <<p, k>> /\ Polled(c)' = Feed[p][k] /\ event'[c] # NoEvent
           /\ todo'[c] = StepsFor(Feed[p][k], batch[c]) /\ Script(Feed[p][k], todo'[c])
           /\ Held(c)' = Held(c) /\ position'[c][p] = k /\ \A q \in Held(c) : q # p => position'[c][q] = position[c][q]
<1>1. p \in Held(c) /\ position[c] \in [Held(c) -> Nat] /\ position[c][p] < Len(Feed[p]) /\ Feed[p] \in Seq(Event)
  BY LoadAssumption DEF PollEvent, LoadInv, LoadTypeOK, LoadAssumption
<1>2. PICK k \in 1..Len(Feed[p]) : k = position[c][p] + 1
  BY <1>1
<1>3. Feed[p][k] \in Event
  BY <1>1
<1>4. event'[c] = <<p, k>> /\ todo'[c] = StepsFor(Feed[p][k], batch[c])
  BY <1>2 DEF PollEvent, LoadInv, LoadTypeOK
<1>5. event'[c] # NoEvent /\ Polled(c)' = Feed[p][k]
  BY <1>4 DEF Polled, NoEvent
<1>6. Script(Feed[p][k], todo'[c])
  BY <1>3, <1>4, EventScript
<1>7. position'[c] = [position[c] EXCEPT ![p] = k]
  BY <1>2 DEF PollEvent, LoadInv
<1>8. Held(c)' = Held(c) /\ position'[c][p] = k /\ \A q \in Held(c) : q # p => position'[c][q] = position[c][q]
  BY <1>1, <1>7 DEF Held
<1> QED BY <1>1, <1>2, <1>3, <1>4, <1>5, <1>6, <1>8 DEF PollEvent

LEMMA SweepLeaves ==
  ASSUME LoadInv, NEW c \in Consumers, ReadAwaiting(c)
  PROVE  \A j \in 1..Len(todo'[c]) : todo'[c][j].do \in {"count", "close"}
<1>1. PICK s \in SetToSeqs(RunsAwaiting("clean")) :
        todo' = [todo EXCEPT ![c] =
          [i \in 1 .. 2 * Len(s) |-> Do(IF i % 2 = 1 THEN "count" ELSE "close", {s[(i + 1) \div 2]})]]
  BY DEF ReadAwaiting
<1> DEFINE n == 2 * Len(s)
           t == [i \in 1..n |-> Do(IF i % 2 = 1 THEN "count" ELSE "close", {s[(i + 1) \div 2]})]
<1>2. todo'[c] = t /\ todo'[c] \in Seq(Step)
  BY <1>1, SweepStep DEF LoadInv, LoadTypeOK
<1>3. \A i \in 1..n : t[i].do \in {"count", "close"}
  BY DEF Do
<1>4. 1..Len(todo'[c]) = DOMAIN todo'[c]
  BY <1>2
<1>5. DOMAIN t = 1..n
  OBVIOUS
<1> HIDE DEF t, n
<1> QED BY <1>2, <1>3, <1>4, <1>5

QuietConsumer(c) == AtHand(c) /\ ParksFirst(c) /\ Reports(todo[c], Empty(c))

LEMMA NotFenced == ASSUME NEW c \in Consumers, AtHand(c) PROVE ~CommitFenced(c)
BY DEF CommitFenced, AtHand

\* The steps of an event count, report and park in their order.
LEMMA EventReports ==
  ASSUME NEW e \in Event, NEW pending, NEW b \in BOOLEAN
  PROVE  LET s == StepsFor(e, pending)
         IN  Reports(s, b) /\ \A j \in 1..Len(s) : s[j].do = "park" => j = 1 /\ e.body \in Rejects
<1> DEFINE s == StepsFor(e, pending)
           r == e.run
           P == Do("park", {r})
           F == Do("flush", {})
           T == Do("tally", Runs)
           N == Do("insert", {r})
           C == Do("close", {r})
           X == Do("commit", {})
<1>1. Script(e, s)
  BY EventScript
<1>2. /\ P \in Step /\ F \in Step /\ T \in Step /\ N \in Step /\ C \in Step /\ X \in Step
      /\ P.do = "park" /\ F.do = "flush" /\ X.do = "commit" /\ T.do = "tally" /\ T.of = Runs /\ N.do = "insert" /\ C.do = "close"
  BY DoIsStep DEF Ops, Event
<1>3. \A j \in 1..Len(s) : s[j] \in Range(s) /\ Fits(e, s[j])
  <2>1. s \in Seq(Step) /\ Range(s) = {s[j] : j \in 1..Len(s)}
    BY <1>1, RangeEquality DEF Script
  <2> HIDE DEF s
  <2> QED BY <1>1, <2>1 DEF Script
<1>4. CASE IsMarker(e)
  <2>1. s = <<F, T, N, C, X>>
    BY <1>4 DEF StepsFor, MarkerSteps
  <2> HIDE DEF s, F, T, N, C, X
  <2>2. Len(s) = 5 /\ s[1] = F /\ s[2] = T /\ s[3] = N /\ s[4] = C /\ s[5] = X
    BY <1>2, <2>1
  <2>3. \A m \in 2..3 : s[m].do \notin Counting
    BY <1>2, <2>2 DEF Counting
  <2>4. ASSUME NEW j \in 1..Len(s), s[j].do = "insert"
        PROVE  \E k \in 1..Len(s) : k < j /\ s[k].do = "tally" /\ s[k].of = Runs /\ \A m \in k..j : s[m].do \notin Counting
    <3>1. j = 3
      BY <1>2, <2>2, <2>4
    <3>2. 2 \in 1..Len(s) /\ 2 < j
      BY <2>2, <3>1
    <3> QED BY <1>2, <2>2, <2>3, <3>1, <3>2
  <2>5. \A j \in 1..Len(s) : s[j].do # "park"
    BY <1>2, <2>2
  <2> QED BY <2>4, <2>5 DEF Reports, s
<1>5. CASE ~IsMarker(e)
  <2>1. Reports(s, b)
    <3> HIDE DEF s
    <3>1. \A j \in 1..Len(s) : s[j].do # "insert"
      BY <1>3, <1>5 DEF Fits, DueOps
    <3> QED BY <3>1 DEF Reports
  <2>2. CASE e.body \in Rejects
    <3>1. s = <<P, F, X>>
      BY <1>5, <2>2 DEF StepsFor, ParkSteps
    <3> HIDE DEF s, P, F, X
    <3>2. Len(s) = 3 /\ s[1] = P /\ s[2] = F /\ s[3] = X
      BY <1>2, <3>1
    <3>3. \A j \in 1..Len(s) : s[j].do = "park" => j = 1
      BY <1>2, <3>2
    <3> QED BY <2>1, <2>2, <3>3 DEF s
  <2>3. CASE e.body \notin Rejects
    <3>1. s = BookSteps(e, pending)
      BY <1>5, <2>3 DEF StepsFor
    <3>2. \A j \in 1..Len(s) : s[j].do # "park"
      <4>1. s \in Seq(Step) /\ \A x \in Range(s) : x.do # "park"
        BY <1>1, <1>5, <3>1, BookScript DEF Script
      <4> HIDE DEF s
      <4> QED BY <4>1, RangeEquality
    <3> QED BY <2>1, <3>2
  <2> QED BY <2>2, <2>3
<1> QED BY <1>4, <1>5

LEMMA StepKeepsQuietConsumer ==
  ASSUME LoadInv, LoadInv', NEW c \in Consumers, LoadStep(c), QuietConsumer(c) PROVE QuietConsumer(c)' /\ owner' = owner
<1>1. ~CommitFenced(c) /\ tally \in [Consumers -> [Runs -> Counts]] /\ Empty(c) \in BOOLEAN
  BY NotFenced DEF QuietConsumer, LoadInv, LoadTypeOK, Empty
<1>2. owner' = owner
  BY <1>1 DEF LoadStep, PollEvent, ReadAwaiting, CountRun, InsertMarker, CloseRun, Hold, FlushBatch, Park, WriteTally,
     CommitPositions, groupVars
<1>3. ASSUME NEW p \in Partitions, PollEvent(c, p) PROVE QuietConsumer(c)'
  <2>1. PICK k \in 1..Len(Feed[p]) :
           /\ k = position[c][p] + 1 /\ p \in Held(c) /\ owner[p] = c /\ Feed[p][k] \in Event
           /\ event'[c] = <<p, k>> /\ Polled(c)' = Feed[p][k] /\ event'[c] # NoEvent
           /\ todo'[c] = StepsFor(Feed[p][k], batch[c]) /\ Script(Feed[p][k], todo'[c])
           /\ Held(c)' = Held(c) /\ position'[c][p] = k /\ \A q \in Held(c) : q # p => position'[c][q] = position[c][q]
    BY <1>3, PollLeaves
  <2>2. AtHand(c)'
    <3>1. k <= Len(Feed[p])
      OBVIOUS
    <3>2. \A q \in Held(c) : position'[c][q] <= Len(Feed[q])
      BY <2>1, <3>1 DEF QuietConsumer, AtHand
    <3>3. event'[c][1] = p /\ event'[c][2] = k
      BY <2>1
    <3> QED BY <1>2, <2>1, <3>2, <3>3 DEF QuietConsumer, AtHand
  <2>3. PICK e \in Event : e = Feed[p][k]
    BY <2>1
  <2>4. /\ \A b \in BOOLEAN : Reports(StepsFor(e, batch[c]), b)
        /\ \A j \in 1..Len(StepsFor(e, batch[c])) : StepsFor(e, batch[c])[j].do = "park" => j = 1 /\ e.body \in Rejects
    BY EventReports
  <2>5. ParksFirst(c)'
    BY <2>1, <2>3, <2>4 DEF ParksFirst
  <2>6. Reports(todo'[c], Empty(c)')
    <3>1. Empty(c)' \in BOOLEAN
      BY DEF Empty
    <3> QED BY <2>1, <2>3, <2>4, <3>1
  <2> QED BY <2>2, <2>5, <2>6 DEF QuietConsumer
<1>4. CASE ReadAwaiting(c)
  <2>1. \A j \in 1..Len(todo'[c]) : todo'[c][j].do \in {"count", "close"}
    BY <1>4, SweepLeaves
  <2>2. ParksFirst(c)' /\ Reports(todo'[c], Empty(c)')
    BY <2>1 DEF ParksFirst, Reports
  <2>3. AtHand(c)'
    BY <1>2, <1>4 DEF ReadAwaiting, QuietConsumer, AtHand, Held
  <2> QED BY <1>2, <2>2, <2>3 DEF QuietConsumer
<1>5. CASE ~ReadAwaiting(c) /\ \A p \in Partitions : ~PollEvent(c, p)
  <2> DEFINE s == todo[c]
  <2>1. s # <<>> /\ s \in Seq(Step) /\ event' = event /\ position' = position
        /\ \E t : LeftOf(s, t) /\ todo' = [todo EXCEPT ![c] = t] /\ todo'[c] = t
    BY <1>1, <1>5, StepLeaves
  <2>2. PICK t : LeftOf(s, t) /\ todo'[c] = t
    BY <2>1
  <2>3. AtHand(c)'
    BY <1>2, <2>1 DEF QuietConsumer, AtHand, Held
  <2>4. ParksFirst(c)'
    <3>1. /\ Len(s) \in Nat \ {0} /\ Tail(s) \in Seq(Step) /\ Len(Tail(s)) = Len(s) - 1
          /\ \A j \in 1..Len(s) - 1 : Tail(s)[j] = s[j + 1]
      BY <2>1, RangeOfTail
    <3>2. \A j \in 1..Len(Tail(s)) : Tail(s)[j].do # "park"
      <4> TAKE j \in 1..Len(Tail(s))
      <4>1. j + 1 \in 1..Len(s) /\ j + 1 # 1 /\ Tail(s)[j] = s[j + 1]
        BY <3>1
      <4> QED BY <4>1 DEF QuietConsumer, ParksFirst
    <3>3. \A x \in Range(Tail(s)) : x.do # "park"
      <4>1. PICK u \in Seq(Step) : u = Tail(s)
        BY <3>1
      <4>2. Range(u) = {u[j] : j \in 1..Len(u)}
        BY RangeEquality
      <4> QED BY <3>2, <4>1, <4>2
    <3>4. \A x \in Range(t) : x.do # "park"
      BY <2>2, <3>3 DEF LeftOf
    <3>5. \A j \in 1..Len(t) : t[j] \in Range(t)
      BY <2>2, RangeEquality DEF LeftOf
    <3> QED BY <2>2, <3>4, <3>5 DEF ParksFirst
  <2>5. Reports(t, Empty(c)')
    <3>1. Empty(c)' \in BOOLEAN /\ Reports(s, Empty(c))
      BY DEF Empty, QuietConsumer
    <3>2. Empty(c) /\ Head(s).do \notin Counting => Empty(c)'
      <4> SUFFICES ASSUME Empty(c), Head(s).do \notin Counting PROVE Empty(c)'
        OBVIOUS
      <4>1. CASE WriteTally(c)
        <5>1. tally'[c] = [r \in Runs |-> IF r \in Head(todo[c]).of THEN Zero ELSE tally[c][r]]
          BY <1>1, <4>1 DEF WriteTally
        <5>2. tally'[c] = [r \in Runs |-> Zero]
          BY <5>1 DEF Empty
        <5> QED BY <5>2 DEF Empty
      <4>2. CASE ~WriteTally(c)
        <5>1. tally' = tally
          BY <1>1, <1>5, <4>2 DEF LoadStep, CountRun, InsertMarker, CloseRun, Hold, FlushBatch, Park, CommitPositions, AtStep, Counting
        <5> QED BY <5>1 DEF Empty
      <4> QED BY <4>1, <4>2
    <3>3. Head(s).do = "tally" /\ Head(s).of = Runs => Empty(c)'
      <4> SUFFICES ASSUME Head(s).do = "tally", Head(s).of = Runs PROVE Empty(c)'
        OBVIOUS
      <4>1. WriteTally(c)
        BY <1>1, <1>5 DEF LoadStep, CountRun, InsertMarker, CloseRun, Hold, FlushBatch, Park, CommitPositions, AtStep
      <4>2. tally'[c] = [r \in Runs |-> IF r \in Head(todo[c]).of THEN Zero ELSE tally[c][r]]
        BY <1>1, <4>1 DEF WriteTally
      <4>3. tally'[c] = [r \in Runs |-> Zero]
        BY <4>2
      <4> QED BY <4>3 DEF Empty
    <3> HIDE DEF s
    <3>4. PICK a \in BOOLEAN, b \in BOOLEAN : a = Empty(c) /\ b = Empty(c)'
      BY <1>1, <3>1
    <3> QED BY <2>2, <3>1, <3>2, <3>3, <3>4 DEF LeftOf
  <2> QED BY <1>2, <2>2, <2>3, <2>4, <2>5 DEF QuietConsumer
<1> QED BY <1>2, <1>3, <1>4, <1>5

LEMMA OthersKeepQuiet ==
  ASSUME NEW d, QuietConsumer(d), Untouched(d), tally'[d] = tally[d], owner' = owner PROVE QuietConsumer(d)' /\ Held(d)' = Held(d)
<1>1. Held(d)' = Held(d) /\ Polled(d)' = Polled(d) /\ Empty(d)' = Empty(d)
  BY DEF Held, Polled, Empty, Untouched
<1> QED BY <1>1 DEF QuietConsumer, AtHand, ParksFirst, Untouched

LEMMA OtherTallies ==
  ASSUME LoadInv, NEW c \in Consumers, LoadStep(c) PROVE \A d \in Consumers : d # c => tally'[d] = tally[d]
BY DEF LoadInv, LoadTypeOK, LoadStep, PollEvent, ReadAwaiting, CountRun, InsertMarker, CloseRun, Hold, FlushBatch, Park, WriteTally,
     CommitPositions, CommitFenced, Reborn, Count

\* A row is new when a marker is inserted, and then it is that marker's.
LEMMA RowsStep ==
  ASSUME LoadInv, NEW c \in Consumers, LoadStep(c), ~CommitFenced(c), NEW r \in Runs, NEW p \in Partitions, HasRow(r, p)'
  PROVE  HasRow(r, p) \/ (InsertMarker(c) /\ r = Subject(c) /\ p = event[c][1])
<1>1. txn \in [Consumers -> Txn \cup {NoTxn}]
  BY DEF LoadInv, LoadTypeOK, MarkersTypeOK
<1>2. CASE UNCHANGED <<marker, txn>>
  BY <1>2 DEF HasRow
<1>3. CASE InsertMarker(c)
  <2> DEFINE q == Subject(c)
             own == IF <<q, "clean">> \in frozen THEN {event[c][1]} ELSE {}
             x == [run |-> q, topic |-> "clean", row |-> own, full |-> IsTopicComplete(q, "clean", own)]
  <2>1. txn' = [txn EXCEPT ![c] = x] /\ marker' = marker
    BY <1>3 DEF InsertMarker, RecordMarker
  <2>2. x.run = q /\ x.row \subseteq {event[c][1]}
    OBVIOUS
  <2> HIDE DEF x, q
  <2>3. \A d \in Consumers : txn'[d] = txn[d] \/ (d = c /\ txn'[d] = x)
    BY <1>1, <2>1
  <2> QED BY <1>3, <2>1, <2>2, <2>3 DEF HasRow, q
<1>4. CASE CountRun(c)
  <2>1. marker' = marker /\ txn'[c].row = {} /\ \A d \in Consumers : d # c => txn'[d] = txn[d]
    BY <1>1, <1>4 DEF CountRun, CountMarkers
  <2> QED BY <2>1 DEF HasRow
<1>5. CASE CloseRun(c)
  <2>1. /\ txn[c] # NoTxn /\ txn'[c] = NoTxn /\ \A d \in Consumers : d # c => txn'[d] = txn[d]
        /\ marker' = marker \cup {<<txn[c].run, txn[c].topic, q>> : q \in txn[c].row}
    BY <1>1, <1>5 DEF CloseRun, CommitTxn
  <2> QED BY <2>1 DEF HasRow
<1> QED BY <1>2, <1>3, <1>4, <1>5 DEF LoadStep, PollEvent, ReadAwaiting, Hold, FlushBatch, Park, WriteTally, CommitPositions, markerVars

\* The run of a record at hand has no row there, its boundary is yet to be
\* polled; or the record is a copy of what is loaded.
LEMMA AtHandIsOpen ==
  ASSUME RejectsOnce, LoadInv, RowsMean, RowsWerePolled, ParkedWerePolled,
         NEW c \in Consumers, AtHand(c), NEW op \in {"append", "park"}, AtStep(c, op)
  PROVE  /\ event[c][1] \in Held(c) /\ event[c][1] \in Partitions /\ Polled(c).run \in Runs
         /\ HasRow(Polled(c).run, event[c][1]) => Polled(c).body \notin Rejects /\ Polled(c).body \in Loaded
<1> DEFINE p == event[c][1]
           k == event[c][2]
           r == Polled(c).run
<1>1. op \in DueOps /\ op # "insert"
  BY DEF DueOps
<1>2. /\ p \in Partitions /\ k \in 1..Len(Feed[p]) /\ Polled(c) = Feed[p][k] /\ r \in Runs
      /\ ~IsMarker(Polled(c)) /\ p \in Held(c)
  BY <1>1, AtADueStep DEF Polled
<1>3. k = position[c][p] /\ owner[p] = c /\ position[c][p] <= Len(Feed[p])
  <2>1. event[c] # NoEvent
    <3>1. StepFits(c, Head(todo[c])) /\ Head(todo[c]).do = op
      BY <1>1, AtAStep DEF LoadInv, ConsumerInv
    <3> QED BY <1>1, <3>1 DEF StepFits
  <2> QED BY <1>2, <2>1 DEF AtHand
<1>4. HasRow(r, p) => AllWritten(r, p)
  BY <1>2 DEF HasRow, RowsMean
<1> HIDE DEF p, k, r
<1>5. ASSUME HasRow(r, p) PROVE Polled(c).body \notin Rejects /\ Polled(c).body \in Loaded
  <2>1. PICK i \in Polls(p) : IsMarker(Feed[p][i]) /\ Feed[p][i].run = r
    BY <1>2, <1>5 DEF RowsWerePolled
  <2>2. Len(Feed[p]) \in Nat
    BY <1>2, LoadAssumption DEF LoadAssumption
  <2>3. i \in 1..k /\ i \in 1..Len(Feed[p])
    BY <1>2, <1>3, <2>1, <2>2 DEF Polls
  <2>4. PICK j \in 1..i - 1 : Feed[p][j] = Feed[p][k]
    BY <1>2, <2>1, <2>3, FeedAssumption DEF OnlyCopiesBehind, IsMarker, r
  <2>5. j \in 1..Len(Feed[p]) /\ j # k
    BY <2>2, <2>3, <2>4
  <2>6. Polled(c).body \notin Rejects
    BY <1>2, <2>4, <2>5 DEF RejectsOnce
  <2>7. Written(Polled(c))
    BY <1>2, <1>4, <1>5 DEF AllWritten, r
  <2>8. <<Polled(c).run, Polled(c).body>> \notin dlq
    BY <2>6 DEF ParkedWerePolled
  <2> QED BY <2>6, <2>7, <2>8 DEF Written
<1> QED BY <1>2, <1>5 DEF p, k, r

LEMMA PollsGrow ==
  ASSUME LoadInv, LoadInv', \A d \in Consumers : QuietConsumer(d), NEW c \in Consumers, LoadStep(c), NEW p \in Partitions
  PROVE  /\ Polls(p) \subseteq Polls(p)' /\ \A i \in Polls(p) : i \in 1..Len(Feed[p])
         /\ owner[p] \in Consumers /\ p \in Held(owner[p]) /\ position[owner[p]][p] \in Nat
<1>1. PICK d \in Consumers : d = owner[p]
  BY DEF LoadInv, LoadTypeOK
<1>2. p \in Held(d) /\ owner' = owner /\ position[d][p] <= Len(Feed[p]) /\ ~CommitFenced(c)
  BY <1>1, StepKeepsQuietConsumer, NotFenced DEF QuietConsumer, AtHand
<1>3. position[d][p] \in Nat /\ Len(Feed[p]) \in Nat
  BY <1>2, LoadAssumption DEF LoadInv, LoadTypeOK, LoadAssumption
<1>4. position'[d][p] \in Nat /\ position[d][p] <= position'[d][p]
  <2>1. CASE d # c
    <3>1. Untouched(d)
      BY <2>1, StepConsumers
    <3> QED BY <1>3, <3>1 DEF Untouched
  <2>2. CASE d = c /\ \E q \in Partitions : PollEvent(c, q)
    <3>1. PICK q \in Partitions : PollEvent(c, q)
      BY <2>2
    <3>2. position'[c][q] = position[c][q] + 1 /\ \A x \in Held(c) : x # q => position'[c][x] = position[c][x]
      BY <3>1, PollLeaves
    <3> QED BY <1>2, <1>3, <2>2, <3>2
  <2>3. CASE d = c /\ ~\E q \in Partitions : PollEvent(c, q)
    <3>1. position' = position
      BY <1>2, <2>3 DEF LoadStep, ReadAwaiting, CountRun, InsertMarker, CloseRun, Hold, FlushBatch, Park, WriteTally, CommitPositions
    <3> QED BY <1>3, <3>1
  <2> QED BY <2>1, <2>2, <2>3
<1>5. Polls(p) = 1..position[d][p] /\ Polls(p)' = 1..position'[d][p]
  BY <1>1, <1>2 DEF Polls
<1> QED BY <1>1, <1>2, <1>3, <1>4, <1>5

LEMMA StepKeepsRowsPolled ==
  ASSUME LoadInv, LoadInv', \A d \in Consumers : QuietConsumer(d), RowsWerePolled, NEW c \in Consumers, LoadStep(c)
  PROVE  RowsWerePolled'
<1> SUFFICES ASSUME NEW r \in Runs, NEW p \in Partitions, HasRow(r, p)'
             PROVE  \E i \in Polls(p)' : IsMarker(Feed[p][i]) /\ Feed[p][i].run = r
  BY DEF RowsWerePolled, IsMarker
<1>1. Polls(p) \subseteq Polls(p)'
  BY PollsGrow
<1>2. HasRow(r, p) \/ (InsertMarker(c) /\ r = Subject(c) /\ p = event[c][1])
  BY RowsStep, NotFenced DEF QuietConsumer
<1>3. CASE HasRow(r, p)
  BY <1>1, <1>3 DEF RowsWerePolled
<1>4. CASE InsertMarker(c) /\ r = Subject(c) /\ p = event[c][1]
  <2> DEFINE k == event[c][2]
  <2>1. /\ k \in 1..Len(Feed[p]) /\ Polled(c) = Feed[p][k] /\ Polled(c).run = r /\ IsMarker(Polled(c)) /\ event[c] # NoEvent
        /\ p \in Held(c)
    <3>1. /\ k \in 1..Len(Feed[p]) /\ Polled(c).run = r /\ IsMarker(Polled(c)) /\ event[c] = <<p, k>> /\ p \in Held(c)
      BY <1>4, AtADueStep DEF InsertMarker, DueOps
    <3>2. event[c] # NoEvent
      BY <3>1 DEF NoEvent
    <3> QED BY <1>4, <3>1, <3>2 DEF Polled
  <2>2. k = position[c][p] /\ owner[p] = c
    BY <1>4, <2>1 DEF QuietConsumer, AtHand
  <2>3. k \in Polls(p)
    BY <2>1, <2>2 DEF Polls
  <2> QED BY <1>1, <2>1, <2>3
<1> QED BY <1>2, <1>3, <1>4

\* What is on the consumer's hands after a step is not an event polled before
\* and parked.
LEMMA ParksOnce ==
  ASSUME LoadInv, LoadInv', \A d \in Consumers : QuietConsumer(d), NEW c \in Consumers, LoadStep(c),
         NEW p \in Partitions, NEW i \in Polls(p), \A d \in Consumers : ~ToPark(d, p, i) \/ (d = c /\ Park(c))
  PROVE  \A d \in Consumers : ~ToPark(d, p, i)'
<1>1. ~CommitFenced(c)
  BY NotFenced DEF QuietConsumer
<1>2. ASSUME NEW d \in Consumers, d # c PROVE ~ToPark(d, p, i)'
  <2>1. Untouched(d)
    BY <1>2, StepConsumers
  <2>2. ToPark(d, p, i)' = ToPark(d, p, i)
    BY <2>1 DEF Untouched, ToPark
  <2> QED BY <1>2, <2>2
<1>3. CASE \E q \in Partitions : PollEvent(c, q)
  <2>1. PICK q \in Partitions : PollEvent(c, q)
    BY <1>3
  <2>2. event'[c] = <<q, position[c][q] + 1>> /\ owner[q] = c
    BY <2>1, PollLeaves
  <2>3. CASE event'[c] = <<p, i>>
    <3>1. q = p /\ i = position[owner[p]][p] + 1
      BY <2>2, <2>3
    <3>2. i \in 1..position[owner[p]][p] /\ position[owner[p]][p] \in Nat
      BY PollsGrow DEF Polls
    <3> QED BY <3>1, <3>2
  <2>4. CASE event'[c] # <<p, i>>
    BY <1>2, <2>4 DEF ToPark
  <2> QED BY <2>3, <2>4
<1>4. CASE ~\E q \in Partitions : PollEvent(c, q)
  <2>1. \A x \in Range(todo'[c]) : x.do # "park"
    <3>1. todo'[c] \in Seq(Step)
      BY DEF LoadInv, LoadTypeOK
    <3>2. CASE ReadAwaiting(c)
      BY <3>1, <3>2, SweepLeaves, RangeEquality
    <3>3. CASE ~ReadAwaiting(c)
      <4>1. todo[c] # <<>> /\ todo[c] \in Seq(Step) /\ \E t : LeftOf(todo[c], t) /\ todo'[c] = t
        BY <1>1, <1>4, <3>3, StepLeaves
      <4>2. PICK t : LeftOf(todo[c], t) /\ todo'[c] = t
        BY <4>1
      <4>3. PICK s \in Seq(Step), u \in Seq(Step) : s = todo[c] /\ u = Tail(s)
        BY <4>1, RangeOfTail
      <4>4. Len(s) \in Nat \ {0} /\ Len(u) = Len(s) - 1 /\ \A j \in 1..Len(s) - 1 : u[j] = s[j + 1]
        BY <4>1, <4>3, RangeOfTail
      <4>5. \A j \in 1..Len(s) : s[j].do = "park" => j = 1
        BY <4>3 DEF QuietConsumer, ParksFirst
      <4>6. \A j \in 1..Len(u) : u[j].do # "park"
        <5> TAKE j \in 1..Len(u)
        <5>1. j + 1 \in 1..Len(s) /\ j + 1 # 1 /\ u[j] = s[j + 1]
          BY <4>4
        <5> QED BY <4>5, <5>1
      <4>7. Range(u) = {u[j] : j \in 1..Len(u)}
        BY RangeEquality
      <4> QED BY <4>2, <4>3, <4>6, <4>7 DEF LeftOf
    <3> QED BY <3>2, <3>3
  <2> QED BY <1>2, <2>1 DEF ToPark
<1> QED BY <1>3, <1>4

LEMMA ParkedIsReject ==
  ASSUME LoadInv, NEW c \in Consumers, QuietConsumer(c), AtStep(c, "park") PROVE Polled(c).body \in Rejects
<1>1. /\ Head(todo[c]).do = "park" /\ Head(todo[c]) = todo[c][1] /\ 1 \in 1..Len(todo[c])
  BY AtAStep, RangeOfTail
<1> QED BY <1>1 DEF QuietConsumer, ParksFirst

LEMMA StepKeepsParked ==
  ASSUME LoadInv, LoadInv', \A d \in Consumers : QuietConsumer(d), ParkedWerePolled, NEW c \in Consumers, LoadStep(c)
  PROVE  ParkedWerePolled'
<1> SUFFICES ASSUME NEW x \in dlq'
             PROVE  /\ x[2] \in Rejects
                    /\ \E p \in Partitions : \E i \in Polls(p)' :
                         x = <<Feed[p][i].run, Feed[p][i].body>> /\ \A d \in Consumers : ~ToPark(d, p, i)'
  BY DEF ParkedWerePolled
<1>1. CASE x \in dlq
  <2>1. PICK p \in Partitions : \E i \in Polls(p) : x = <<Feed[p][i].run, Feed[p][i].body>> /\ \A d \in Consumers : ~ToPark(d, p, i)
    BY <1>1 DEF ParkedWerePolled
  <2>2. PICK i \in Polls(p) : x = <<Feed[p][i].run, Feed[p][i].body>> /\ \A d \in Consumers : ~ToPark(d, p, i)
    BY <2>1
  <2>3. \A d \in Consumers : ~ToPark(d, p, i)'
    BY <2>2, ParksOnce
  <2>4. i \in Polls(p)'
    BY PollsGrow
  <2> QED BY <1>1, <2>2, <2>3, <2>4 DEF ParkedWerePolled
<1>2. CASE x \notin dlq
  <2>1. Park(c) /\ x = <<Polled(c).run, Polled(c).body>>
    BY <1>2, NotFenced DEF QuietConsumer, LoadStep, PollEvent, ReadAwaiting, CountRun, InsertMarker, CloseRun, Hold, FlushBatch, Park,
       WriteTally, CommitPositions
  <2>2. PICK p, i : /\ event[c] = <<p, i>> /\ p \in Partitions /\ i \in 1..Len(Feed[p])
                    /\ event[c][1] = p /\ event[c][2] = i
    BY <2>1, AtADueStep DEF Park, DueOps
  <2>3. Polled(c) = Feed[p][i] /\ p \in Held(c) /\ event[c] # NoEvent
    BY <2>1, <2>2, AtADueStep DEF Park, DueOps, Polled, NoEvent
  <2>4. i = position[c][p] /\ owner[p] = c
    BY <2>2, <2>3 DEF QuietConsumer, AtHand
  <2>5. i \in Polls(p)
    BY <2>2, <2>4 DEF Polls
  <2>6. ASSUME NEW d \in Consumers, d # c PROVE ~ToPark(d, p, i)
    <3>1. CASE event[d] = <<p, i>>
      <4>1. event[d] # NoEvent /\ event[d][1] = p
        BY <3>1 DEF NoEvent
      <4>2. p \in Held(d)
        BY <3>1, <4>1 DEF QuietConsumer, AtHand
      <4> QED BY <2>4, <2>6, <4>2 DEF QuietConsumer, AtHand
    <3>2. CASE event[d] # <<p, i>>
      BY <3>2 DEF ToPark
    <3> QED BY <3>1, <3>2
  <2>7. \A d \in Consumers : ~ToPark(d, p, i)'
    BY <2>1, <2>2, <2>5, <2>6, ParksOnce
  <2>8. i \in Polls(p)'
    BY <2>2, <2>5, PollsGrow
  <2>9. Polled(c).body \in Rejects
    BY <2>1, ParkedIsReject DEF Park
  <2> QED BY <2>1, <2>2, <2>3, <2>7, <2>8, <2>9
<1> QED BY <1>1, <1>2

\* What a consumer has new to load becomes less as others load.
LEMMA OthersFresh == ASSUME NEW d, batch'[d] = batch[d], catalogue \subseteq catalogue' PROVE Fresh(d)' \subseteq Fresh(d)
BY DEF Fresh, FirstLoads, Loaded

LEMMA StepKeepsOpen ==
  ASSUME RejectsOnce, LoadInv, LoadInv', CountInv, RowsMean, \A d \in Consumers : QuietConsumer(d),
         RowsWerePolled, ParkedWerePolled, OpenWhileHeld, NEW c \in Consumers, LoadStep(c)
  PROVE  OpenWhileHeld'
<1>1. ~CommitFenced(c) /\ tally \in [Consumers -> [Runs -> Counts]]
  BY NotFenced DEF QuietConsumer, LoadInv, LoadTypeOK
<1>2. ASSUME NEW d \in Consumers PROVE Held(d)' = Held(d) /\ Held(d) \subseteq Partitions
  <2>1. CASE d # c
    <3>1. Untouched(d)
      BY <2>1, StepConsumers
    <3> QED BY <3>1 DEF Untouched, Held, LoadInv, LoadTypeOK
  <2>2. CASE d = c
    <3>1. owner' = owner /\ QuietConsumer(c) /\ QuietConsumer(c)'
      BY StepKeepsQuietConsumer
    <3>2. Held(c)' = Held(c) /\ Held(c) \subseteq Partitions
      BY <3>1 DEF QuietConsumer, AtHand
    <3> QED BY <2>2, <3>2
  <2> QED BY <2>1, <2>2
<1>3. ASSUME NEW d \in Consumers, d # c, NEW r \in Runs, Steady(r), tally'[d][r] # Zero \/ r \in Fresh(d)'
      PROVE  \E p \in Held(d)' : ~HasRow(r, p)'
  <2>1. tally'[d] = tally[d] /\ Fresh(d)' \subseteq Fresh(d)
    BY <1>3, OtherTallies, OthersFresh, StepConsumers DEF Untouched, Grows
  <2>2. PICK p \in Held(d) : ~HasRow(r, p)
    BY <1>3, <2>1 DEF OpenWhileHeld
  <2>3. p \in Partitions /\ (p # event[c][1] \/ ~InsertMarker(c))
    <3>1. InsertMarker(c) => event[c][1] \in Held(c)
      BY AtADueStep DEF InsertMarker, DueOps
    <3> QED BY <1>2, <1>3, <3>1 DEF QuietConsumer, AtHand
  <2>4. ~HasRow(r, p)'
    BY <1>1, <1>2, <2>2, <2>3, RowsStep
  <2> QED BY <1>2, <2>4
<1>4. ASSUME NEW r \in Runs, Steady(r), tally'[c][r] # Zero \/ r \in Fresh(c)' PROVE \E p \in Held(c)' : ~HasRow(r, p)'
  <2>1. CASE InsertMarker(c)
    <3> DEFINE s == todo[c]
    <3>1. s \in Seq(Step) /\ s # <<>> /\ Head(s).do = "insert"
      BY <2>1, AtAStep DEF InsertMarker
    <3>2. Len(s) \in Nat \ {0} /\ s[1].do = "insert" /\ 1 \in 1..Len(s)
      BY <3>1, RangeOfTail
    <3>3. Empty(c)
      <4>1. ~\E k \in 1..Len(s) : k < 1
        BY <3>2
      <4> QED BY <3>2, <4>1 DEF QuietConsumer, Reports
    <3>4. batch[c] = <<>>
      BY <3>2 DEF LoadInv, ConsumerInv, Flushes, Ends
    <3>5. tally' = tally /\ batch' = batch
      BY <2>1 DEF InsertMarker
    <3> QED BY <1>4, <3>3, <3>4, <3>5 DEF Empty, Fresh, FirstLoads, Range
  <2>2. CASE ~InsertMarker(c) /\ (tally[c][r] # Zero \/ r \in Fresh(c))
    <3>1. PICK p \in Held(c) : ~HasRow(r, p)
      BY <1>4, <2>2 DEF OpenWhileHeld
    <3>2. p \in Partitions
      BY <1>2
    <3> QED BY <1>1, <1>2, <2>2, <3>1, <3>2, RowsStep
  <2>3. CASE ~InsertMarker(c) /\ tally[c][r] = Zero /\ r \notin Fresh(c)
    <3>1. \/ Hold(c) /\ r = Polled(c).run /\ Polled(c).body \notin Loaded
          \/ Park(c) /\ r = Polled(c).run
      <4>1. CASE Hold(c)
        <5>1. tally' = tally /\ catalogue' = catalogue
          BY <4>1 DEF Hold
        <5>2. Range(batch'[c]) \subseteq Range(batch[c]) \cup {Polled(c)}
          BY <4>1, HoldRange
        <5>3. Loaded' = Loaded
          BY <5>1 DEF Loaded
        <5>4. \A q \in Fresh(c)' : q \in Fresh(c) \/ (q = Polled(c).run /\ Polled(c).body \notin Loaded)
          BY <5>2, <5>3 DEF Fresh, FirstLoads
        <5> QED BY <1>4, <2>3, <4>1, <5>1, <5>4
      <4>2. CASE Park(c)
        <5>1. batch' = batch /\ catalogue' = catalogue /\ Count(c, Subject(c), [loaded |-> 0, rejected |-> 1])
          BY <4>2 DEF Park
        <5>2. Subject(c) = Polled(c).run /\ Polled(c).run \in Runs
          BY <4>2, AtADueStep DEF Park, DueOps
        <5>3. [loaded |-> 0, rejected |-> 1] \in Counts
          BY DEF Counts
        <5>4. r # Subject(c) => tally'[c][r] = tally[c][r]
          BY <1>1, <5>1, <5>2, <5>3, Counted
        <5>5. Fresh(c)' \subseteq Fresh(c)
          BY <5>1, OthersFresh
        <5> QED BY <1>4, <2>3, <4>2, <5>2, <5>4, <5>5
      <4>3. CASE FlushBatch(c)
        <5>1. Fresh(c)' = {}
          BY <4>3 DEF FlushBatch, LoadInv, LoadTypeOK, Fresh, FirstLoads, Range
        <5>2. CASE batch[c] = <<>>
          BY <1>4, <2>3, <4>3, <5>1, <5>2 DEF FlushBatch
        <5>3. CASE batch[c] # <<>>
          <6> DEFINE q == Last(batch[c]).run
          <6>1. PICK m \in Changes(c) : Count(c, q, [loaded |-> m, rejected |-> 0])
            BY <4>3, <5>3 DEF FlushBatch
          <6> DEFINE n == [loaded |-> m, rejected |-> 0]
          <6>2. n \in Counts /\ Count(c, q, n)
            BY <6>1, ChangesTyped
          <6>3. q \in Runs /\ q \in RunsOf(c)
            <7>1. batch[c] \in Seq(Event)
              BY DEF LoadInv, LoadTypeOK
            <7>2. Len(batch[c]) \in 1..Len(batch[c]) /\ Last(batch[c]) = batch[c][Len(batch[c])] /\ Last(batch[c]) \in Event
              BY <5>3, <7>1 DEF Last
            <7>3. Last(batch[c]) \in Range(batch[c])
              BY <7>1, <7>2, RangeEquality
            <7> QED BY <7>2, <7>3 DEF RunsOf, Event
          <6>4. FirstLoads(c) # {} => q \in Fresh(c)
            <7>1. \A y \in Fresh(c) : y \in RunsOf(c)
              BY DEF Fresh, FirstLoads, RunsOf
            <7>2. FirstLoads(c) # {} => \E y : y \in Fresh(c)
              BY DEF Fresh
            <7> QED BY <6>3, <7>1, <7>2 DEF CountInv, OneRunInBatch
          <6>5. Steady(q) /\ FirstLoads(c) = {} => n = Zero
            <7> SUFFICES ASSUME Steady(q), FirstLoads(c) = {} PROVE m = 0
              BY DEF Zero
            <7>1. Changes(c) = {Cardinality(FirstLoads(c))}
              BY <5>3, SteadyChanges DEF CountInv
            <7> QED BY <7>1, FS_EmptySet
          <6>6. Zero \in Counts /\ Zero.loaded = 0 /\ Zero.rejected = 0
            BY ZeroCounts DEF Zero
          <6> HIDE DEF q, n
          <6>7. r # q => tally'[c][r] = tally[c][r]
            BY <1>1, <6>2, <6>3, Counted
          <6>8. n = Zero => tally'[c][q] = tally[c][q]
            <7> SUFFICES ASSUME n = Zero PROVE tally'[c][q] = tally[c][q]
              OBVIOUS
            <7>1. tally'[c][q] \in Counts /\ tally[c][q] \in Counts
              BY <1>1, <6>3 DEF LoadInv, LoadTypeOK
            <7>2. tally'[c][q].loaded = tally[c][q].loaded + 0 /\ tally'[c][q].rejected = tally[c][q].rejected + 0
              BY <1>1, <6>2, <6>3, <6>6, Counted
            <7> QED BY <7>1, <7>2 DEF Counts
          <6> QED BY <1>4, <2>3, <5>1, <6>4, <6>5, <6>7, <6>8
        <5> QED BY <5>2, <5>3
      <4>4. CASE WriteTally(c)
        <5>1. batch' = batch /\ catalogue' = catalogue
              /\ tally'[c] = [q \in Runs |-> IF q \in Head(todo[c]).of THEN Zero ELSE tally[c][q]]
          BY <1>1, <4>4 DEF WriteTally
        <5>2. tally'[c][r] = Zero /\ Fresh(c)' \subseteq Fresh(c)
          BY <2>3, <5>1, OthersFresh
        <5> QED BY <1>4, <2>3, <5>2
      <4>5. CASE UNCHANGED <<tally, batch, catalogue>>
        <5>1. Fresh(c)' \subseteq Fresh(c)
          BY <4>5, OthersFresh
        <5> QED BY <1>4, <2>3, <4>5, <5>1
      <4> QED BY <1>1, <2>3, <4>1, <4>2, <4>3, <4>4, <4>5 DEF LoadStep, PollEvent, ReadAwaiting, CountRun, CloseRun, CommitPositions
    <3>2. PICK op \in {"append", "park"} : AtStep(c, op)
      BY <3>1 DEF Hold, Park
    <3>3. event[c][1] \in Held(c) /\ event[c][1] \in Partitions /\ ~HasRow(r, event[c][1])
      <4>1. Park(c) => Polled(c).body \in Rejects
        BY ParkedIsReject DEF Park
      <4> QED BY <3>1, <3>2, <4>1, AtHandIsOpen DEF QuietConsumer
    <3>4. ~HasRow(r, event[c][1])'
      <4> DEFINE p == event[c][1]
      <4>1. PICK q \in Partitions : q = p
        BY <3>3
      <4>2. ~HasRow(r, q)'
        BY <1>1, <2>3, <3>3, <4>1, RowsStep
      <4>3. event' = event
        BY <3>1 DEF Hold, Park
      <4> QED BY <4>1, <4>2, <4>3
    <3>5. event' = event
      BY <3>1 DEF Hold, Park
    <3> QED BY <1>2, <3>3, <3>4, <3>5
  <2> QED BY <2>1, <2>2, <2>3
<1> QED BY <1>3, <1>4 DEF OpenWhileHeld

\* What a consumer counts, and what it writes, moves within the sum.
LEMMA CountingMoves ==
  ASSUME NEW f \in [Consumers -> Nat], NEW e \in [Consumers -> Nat], NEW c \in Consumers, NEW n \in Nat,
         \A d \in Consumers : d # c => e[d] = f[d], e[c] = f[c] + n
  PROVE  /\ SumFunctionOnSet(f, Consumers) \in Nat
         /\ SumFunctionOnSet(e, Consumers) = SumFunctionOnSet(f, Consumers) + n
<1>1. IsFiniteSet(Consumers)
  BY LoadAssumption DEF LoadAssumption
<1>2. /\ SumFunctionOnSet(f, Consumers) \in Nat /\ SumFunctionOnSet(e, Consumers) \in Nat
      /\ SumFunctionOnSet(e, Consumers) + f[c] = SumFunctionOnSet(f, Consumers) + e[c]
  BY <1>1, SumChanges
<1>3. PICK a \in Nat, b \in Nat, p \in Nat, q \in Nat :
        a = SumFunctionOnSet(f, Consumers) /\ b = SumFunctionOnSet(e, Consumers) /\ p = f[c] /\ q = e[c]
  BY <1>2
<1>4. b + p = a + q /\ q = p + n
  BY <1>2, <1>3
<1>5. b = a + n
  BY <1>4
<1> QED BY <1>3, <1>5

LEMMA WritingMoves ==
  ASSUME NEW f \in [Consumers -> Nat], NEW e \in [Consumers -> Nat], NEW c \in Consumers,
         \A d \in Consumers : d # c => e[d] = f[d], e[c] = 0
  PROVE  /\ SumFunctionOnSet(e, Consumers) \in Nat
         /\ SumFunctionOnSet(f, Consumers) = SumFunctionOnSet(e, Consumers) + f[c]
<1>1. f[c] \in Nat /\ f[c] = e[c] + f[c] /\ \A d \in Consumers : d # c => f[d] = e[d]
  OBVIOUS
<1> QED BY <1>1, CountingMoves

LEMMA LoadsCounted ==
  ASSUME LoadTypeOK, LoadTypeOK', NEW c \in Consumers, NEW r \in Runs, NEW n \in Nat,
         \A d \in Consumers : d # c => tally'[d][r].loaded = tally[d][r].loaded,
         tally'[c][r].loaded = tally[c][r].loaded + n, figures'[r].loaded = figures[r].loaded,
         Cardinality(Of(r, catalogue)') = Cardinality(Of(r, catalogue)) + n, LoadsExact(r)
  PROVE  LoadsExact(r)'
<1>1. Unwritten(r) \in [Consumers -> Nat] /\ Unwritten(r)' \in [Consumers -> Nat]
  BY DEF LoadTypeOK, Unwritten, Counts
<1>2. PICK f \in [Consumers -> Nat], e \in [Consumers -> Nat] : f = Unwritten(r) /\ e = Unwritten(r)'
  BY <1>1
<1>3. PICK u \in Nat : u = figures[r].loaded /\ u = figures'[r].loaded
  BY DEF LoadTypeOK, Counts
<1>4. (\A d \in Consumers : d # c => e[d] = f[d]) /\ e[c] = f[c] + n
  BY <1>2 DEF Unwritten
<1>5. /\ SumFunctionOnSet(f, Consumers) \in Nat
      /\ SumFunctionOnSet(e, Consumers) = SumFunctionOnSet(f, Consumers) + n
  BY <1>4, CountingMoves
<1>6. u + SumFunctionOnSet(f, Consumers) = Cardinality(Of(r, catalogue))
  BY <1>2, <1>3 DEF LoadsExact
<1>7. u + SumFunctionOnSet(e, Consumers) = Cardinality(Of(r, catalogue)')
  BY <1>5, <1>6
<1>8. figures'[r].loaded + SumFunctionOnSet(Unwritten(r)', Consumers) = Cardinality(Of(r, catalogue)')
  BY <1>2, <1>3, <1>7
<1> QED BY <1>8 DEF LoadsExact

LEMMA LoadsWritten ==
  ASSUME LoadTypeOK, LoadTypeOK', NEW c \in Consumers, NEW r \in Runs,
         \A d \in Consumers : d # c => tally'[d][r].loaded = tally[d][r].loaded,
         tally'[c][r].loaded = 0, figures'[r].loaded = figures[r].loaded + tally[c][r].loaded,
         Of(r, catalogue)' = Of(r, catalogue), LoadsExact(r)
  PROVE  LoadsExact(r)'
<1>1. Unwritten(r) \in [Consumers -> Nat] /\ Unwritten(r)' \in [Consumers -> Nat]
  BY DEF LoadTypeOK, Unwritten, Counts
<1>2. PICK f \in [Consumers -> Nat], e \in [Consumers -> Nat] : f = Unwritten(r) /\ e = Unwritten(r)'
  BY <1>1
<1>3. PICK u \in Nat : u = figures[r].loaded
  BY DEF LoadTypeOK, Counts
<1>4. (\A d \in Consumers : d # c => e[d] = f[d]) /\ e[c] = 0 /\ tally[c][r].loaded = f[c]
  BY <1>2 DEF Unwritten
<1>5. /\ SumFunctionOnSet(e, Consumers) \in Nat
      /\ SumFunctionOnSet(f, Consumers) = SumFunctionOnSet(e, Consumers) + f[c]
  BY <1>4, WritingMoves
<1>6. u + SumFunctionOnSet(f, Consumers) = Cardinality(Of(r, catalogue))
  BY <1>2, <1>3 DEF LoadsExact
<1>7. (u + f[c]) + SumFunctionOnSet(e, Consumers) = Cardinality(Of(r, catalogue))
  BY <1>5, <1>6
<1>8. figures'[r].loaded + SumFunctionOnSet(Unwritten(r)', Consumers) = Cardinality(Of(r, catalogue)')
  BY <1>2, <1>3, <1>4, <1>7
<1> QED BY <1>8 DEF LoadsExact

LEMMA RejectsCounted ==
  ASSUME LoadTypeOK, LoadTypeOK', NEW c \in Consumers, NEW r \in Runs, NEW n \in Nat,
         \A d \in Consumers : d # c => tally'[d][r].rejected = tally[d][r].rejected,
         tally'[c][r].rejected = tally[c][r].rejected + n, figures'[r].rejected = figures[r].rejected,
         Cardinality(Of(r, dlq)') = Cardinality(Of(r, dlq)) + n, RejectsExact(r)
  PROVE  RejectsExact(r)'
<1>1. UnwrittenRejects(r) \in [Consumers -> Nat] /\ UnwrittenRejects(r)' \in [Consumers -> Nat]
  <2>1. \A d \in Consumers : tally[d][r].rejected \in Nat /\ tally'[d][r].rejected \in Nat
    BY DEF LoadTypeOK, Counts
  <2> QED BY <2>1 DEF UnwrittenRejects
<1>2. PICK f \in [Consumers -> Nat], e \in [Consumers -> Nat] : f = UnwrittenRejects(r) /\ e = UnwrittenRejects(r)'
  BY <1>1
<1>3. PICK u \in Nat : u = figures[r].rejected /\ u = figures'[r].rejected
  BY DEF LoadTypeOK, Counts
<1>4. (\A d \in Consumers : d # c => e[d] = f[d]) /\ e[c] = f[c] + n
  BY <1>2 DEF UnwrittenRejects
<1>5. /\ SumFunctionOnSet(f, Consumers) \in Nat
      /\ SumFunctionOnSet(e, Consumers) = SumFunctionOnSet(f, Consumers) + n
  BY <1>4, CountingMoves
<1>6. u + SumFunctionOnSet(f, Consumers) = Cardinality(Of(r, dlq))
  BY <1>2, <1>3 DEF RejectsExact
<1>7. u + SumFunctionOnSet(e, Consumers) = Cardinality(Of(r, dlq)')
  BY <1>5, <1>6
<1>8. figures'[r].rejected + SumFunctionOnSet(UnwrittenRejects(r)', Consumers) = Cardinality(Of(r, dlq)')
  BY <1>2, <1>3, <1>7
<1> QED BY <1>8 DEF RejectsExact

LEMMA RejectsWritten ==
  ASSUME LoadTypeOK, LoadTypeOK', NEW c \in Consumers, NEW r \in Runs,
         \A d \in Consumers : d # c => tally'[d][r].rejected = tally[d][r].rejected,
         tally'[c][r].rejected = 0, figures'[r].rejected = figures[r].rejected + tally[c][r].rejected,
         Of(r, dlq)' = Of(r, dlq), RejectsExact(r)
  PROVE  RejectsExact(r)'
<1>1. UnwrittenRejects(r) \in [Consumers -> Nat] /\ UnwrittenRejects(r)' \in [Consumers -> Nat]
  <2>1. \A d \in Consumers : tally[d][r].rejected \in Nat /\ tally'[d][r].rejected \in Nat
    BY DEF LoadTypeOK, Counts
  <2> QED BY <2>1 DEF UnwrittenRejects
<1>2. PICK f \in [Consumers -> Nat], e \in [Consumers -> Nat] : f = UnwrittenRejects(r) /\ e = UnwrittenRejects(r)'
  BY <1>1
<1>3. PICK u \in Nat : u = figures[r].rejected
  BY DEF LoadTypeOK, Counts
<1>4. (\A d \in Consumers : d # c => e[d] = f[d]) /\ e[c] = 0 /\ tally[c][r].rejected = f[c]
  BY <1>2 DEF UnwrittenRejects
<1>5. /\ SumFunctionOnSet(e, Consumers) \in Nat
      /\ SumFunctionOnSet(f, Consumers) = SumFunctionOnSet(e, Consumers) + f[c]
  BY <1>4, WritingMoves
<1>6. u + SumFunctionOnSet(f, Consumers) = Cardinality(Of(r, dlq))
  BY <1>2, <1>3 DEF RejectsExact
<1>7. (u + f[c]) + SumFunctionOnSet(e, Consumers) = Cardinality(Of(r, dlq))
  BY <1>5, <1>6
<1>8. figures'[r].rejected + SumFunctionOnSet(UnwrittenRejects(r)', Consumers) = Cardinality(Of(r, dlq)')
  BY <1>2, <1>3, <1>4, <1>7
<1> QED BY <1>8 DEF RejectsExact

LEMMA SameLoads ==
  ASSUME NEW r \in Runs, LoadsExact(r), \A d \in Consumers : tally'[d][r].loaded = tally[d][r].loaded,
         figures'[r].loaded = figures[r].loaded, Of(r, catalogue)' = Of(r, catalogue)
  PROVE  LoadsExact(r)'
<1>1. Unwritten(r)' = Unwritten(r)
  BY DEF Unwritten
<1> QED BY <1>1 DEF LoadsExact

LEMMA SameRejects ==
  ASSUME NEW r \in Runs, RejectsExact(r), \A d \in Consumers : tally'[d][r].rejected = tally[d][r].rejected,
         figures'[r].rejected = figures[r].rejected, Of(r, dlq)' = Of(r, dlq)
  PROVE  RejectsExact(r)'
<1>1. UnwrittenRejects(r)' = UnwrittenRejects(r)
  BY DEF UnwrittenRejects
<1> QED BY <1>1 DEF RejectsExact

LEMMA OfFinite == ASSUME NEW X, IsFiniteSet(X), NEW r PROVE IsFiniteSet(Of(r, X)) /\ Cardinality(Of(r, X)) \in Nat
<1>1. Of(r, X) \subseteq X
  BY DEF Of
<1> QED BY <1>1, FS_Subset, FS_CardinalityType

\* Each record is parked once: the one at hand has not been.
LEMMA ParkedIsNew ==
  ASSUME RejectsOnce, LoadInv, LoadInv', \A d \in Consumers : QuietConsumer(d), ParkedWerePolled, NEW c \in Consumers, Park(c)
  PROVE  <<Polled(c).run, Polled(c).body>> \notin dlq /\ Subject(c) = Polled(c).run /\ Polled(c).run \in Runs
<1>1. PICK q, k : /\ event[c] = <<q, k>> /\ q \in Partitions /\ k \in 1..Len(Feed[q])
                  /\ event[c][1] = q /\ event[c][2] = k
  BY AtADueStep DEF Park, DueOps
<1>2. Polled(c) = Feed[q][k] /\ Polled(c) \in Event /\ Subject(c) = Polled(c).run /\ Polled(c).run \in Runs
  BY <1>1, AtADueStep DEF Park, DueOps, Polled
<1>3. /\ todo[c] \in Seq(Step) /\ todo[c] # <<>> /\ Head(todo[c]) \in Range(todo[c]) /\ Head(todo[c]).do = "park"
      /\ Head(todo[c]) = todo[c][1] /\ 1 \in 1..Len(todo[c])
  BY AtAStep, RangeOfTail DEF Park
<1>4. Polled(c).body \in Rejects
  BY <1>3 DEF QuietConsumer, ParksFirst
<1>5. ASSUME <<Polled(c).run, Polled(c).body>> \in dlq PROVE FALSE
  <2>1. PICK p \in Partitions : \E i \in Polls(p) : <<Polled(c).run, Polled(c).body>> = <<Feed[p][i].run, Feed[p][i].body>> /\ ~ToPark(c, p, i)
    BY <1>5 DEF ParkedWerePolled
  <2>2. PICK i \in Polls(p) : Polled(c).run = Feed[p][i].run /\ Polled(c).body = Feed[p][i].body /\ ~ToPark(c, p, i)
    BY <2>1
  <2>3. i \in 1..Len(Feed[p])
    BY PollsGrow, <2>2 DEF LoadStep
  <2>4. Feed[p][i] \in Event
    BY <2>3, LoadAssumption DEF LoadAssumption
  <2>5. Feed[p][i] = Feed[q][k]
    BY <1>2, <2>2, <2>4 DEF Event
  <2>6. p = q /\ i = k
    BY <1>1, <1>2, <1>4, <2>3, <2>5 DEF RejectsOnce
  <2> QED BY <1>1, <1>3, <2>2, <2>6 DEF ToPark
<1> QED BY <1>2, <1>5

LEMMA StepKeepsExact ==
  ASSUME RejectsOnce, LoadInv, LoadInv', CountInv, \A d \in Consumers : QuietConsumer(d), ParkedWerePolled, IsFiniteSet(dlq),
         \A r \in Runs : (Steady(r) => LoadsExact(r)) /\ RejectsExact(r), NEW c \in Consumers, LoadStep(c)
  PROVE  IsFiniteSet(dlq)' /\ \A r \in Runs : (Steady(r) => LoadsExact(r)') /\ RejectsExact(r)'
<1>1. /\ LoadTypeOK /\ LoadTypeOK' /\ tally \in [Consumers -> [Runs -> Counts]] /\ figures \in [Runs -> Counts]
      /\ IsFiniteSet(catalogue) /\ IsFiniteSet(dlq) /\ ~CommitFenced(c)
  BY NotFenced DEF LoadInv, LoadTypeOK, CountInv, QuietConsumer
<1>2. \A d \in Consumers, r \in Runs : /\ tally[d][r].loaded \in Nat /\ figures[r].loaded \in Nat
                                       /\ tally[d][r].rejected \in Nat /\ figures[r].rejected \in Nat
  BY <1>1 DEF Counts
<1>3. CASE UNCHANGED <<tally, figures, catalogue, dlq>>
  BY <1>1, <1>3, SameLoads, SameRejects DEF Of
<1>4. CASE FlushBatch(c)
  <2>1. catalogue' = catalogue \cup FirstLoads(c) /\ figures' = figures /\ dlq' = dlq
    BY <1>4 DEF FlushBatch
  <2>2. CASE batch[c] = <<>>
    <3>1. FirstLoads(c) = {}
      BY <2>2 DEF FirstLoads, Range
    <3> QED BY <1>3, <1>4, <2>1, <2>2, <3>1 DEF FlushBatch
  <2>3. CASE batch[c] # <<>>
    <3>1. PICK q \in Runs, n \in Nat :
            /\ q = Last(batch[c]).run /\ n = Cardinality(FirstLoads(c)) /\ IsFiniteSet(catalogue')
            /\ Cardinality(Of(q, catalogue')) = Cardinality(Of(q, catalogue)) + n
            /\ \A r : r # q => Of(r, catalogue') = Of(r, catalogue)
      BY <1>1, <2>1, <2>3, FirstLoadsAreNew DEF CountInv
    <3>2. PICK m \in Changes(c) : Count(c, q, [loaded |-> m, rejected |-> 0])
      BY <1>4, <2>3, <3>1 DEF FlushBatch
    <3>3. m \in Nat /\ [loaded |-> m, rejected |-> 0] \in Counts
      BY ChangesTyped
    <3>4. /\ tally'[c][q].loaded = tally[c][q].loaded + m /\ tally'[c][q].rejected = tally[c][q].rejected + 0
          /\ \A d \in Consumers, r \in Runs : d # c \/ r # q => tally'[d][r] = tally[d][r]
      BY <1>1, <3>1, <3>2, <3>3, Counted
    <3>5. ASSUME Steady(q) PROVE LoadsExact(q)'
      <4>1. \A d \in Consumers : d # c => tally'[d][q].loaded = tally[d][q].loaded
        BY <3>1, <3>4
      <4>2. Cardinality(Of(q, catalogue)') = Cardinality(Of(q, catalogue)) + n
        BY <3>1 DEF Of
      <4>3. m = n
        BY <2>3, <3>1, <3>5, SteadyChanges DEF CountInv
      <4> QED BY <1>1, <2>1, <3>4, <3>5, <4>1, <4>2, <4>3, LoadsCounted
    <3>6. ASSUME NEW r \in Runs, r # q, Steady(r) PROVE LoadsExact(r)'
      <4>1. Of(r, catalogue)' = Of(r, catalogue)
        BY <3>1, <3>6 DEF Of
      <4> QED BY <1>1, <2>1, <3>4, <3>6, <4>1, SameLoads
    <3>7. ASSUME NEW r \in Runs PROVE RejectsExact(r)'
      <4>1. \A d \in Consumers : tally'[d][r].rejected = tally[d][r].rejected
        BY <1>2, <3>4
      <4> QED BY <2>1, <4>1, SameRejects DEF Of
    <3> QED BY <1>1, <2>1, <3>5, <3>6, <3>7
  <2> QED BY <2>2, <2>3
<1>5. CASE Park(c)
  <2>1. PICK q, x : /\ q \in Runs /\ q = Subject(c) /\ x = <<Polled(c).run, Polled(c).body>> /\ x[1] = q /\ x \notin dlq
    BY <1>5, ParkedIsNew
  <2>2. /\ Count(c, q, [loaded |-> 0, rejected |-> 1]) /\ figures' = figures /\ catalogue' = catalogue
        /\ dlq' = dlq \cup {x}
    BY <1>5, <2>1 DEF Park
  <2>3. [loaded |-> 0, rejected |-> 1] \in Counts
    BY DEF Counts
  <2>4. /\ tally'[c][q].loaded = tally[c][q].loaded + 0 /\ tally'[c][q].rejected = tally[c][q].rejected + 1
        /\ \A d \in Consumers, r \in Runs : d # c \/ r # q => tally'[d][r] = tally[d][r]
    <3>1. PICK m \in Counts : m = [loaded |-> 0, rejected |-> 1] /\ m.loaded = 0 /\ m.rejected = 1
      BY <2>3
    <3>2. Count(c, q, m)
      BY <2>2, <3>1
    <3> QED BY <1>1, <2>1, <3>1, <3>2, Counted
  <2>5. ASSUME NEW r \in Runs, Steady(r) PROVE LoadsExact(r)'
    <3>1. \A d \in Consumers : tally'[d][r].loaded = tally[d][r].loaded
      BY <1>2, <2>4
    <3> QED BY <2>2, <2>5, <3>1, SameLoads DEF Of
  <2>6. IsFiniteSet(dlq') /\ Of(q, dlq') = Of(q, dlq) \cup {x} /\ x \notin Of(q, dlq)
    <3>1. IsFiniteSet(dlq')
      BY <1>1, <2>2, FS_AddElement
    <3> QED BY <2>1, <2>2, <3>1 DEF Of
  <2>7. Cardinality(Of(q, dlq')) = Cardinality(Of(q, dlq)) + 1
    <3>1. IsFiniteSet(Of(q, dlq)) /\ Cardinality(Of(q, dlq)) \in Nat
      BY <1>1, OfFinite
    <3> QED BY <2>6, <3>1, FS_AddElement
  <2>8. RejectsExact(q)'
    <3>1. Cardinality(Of(q, dlq)') = Cardinality(Of(q, dlq)) + 1
      BY <2>7 DEF Of
    <3>2. \A d \in Consumers : d # c => tally'[d][q].rejected = tally[d][q].rejected
      BY <2>1, <2>4
    <3>3. figures'[q].rejected = figures[q].rejected /\ 1 \in Nat /\ RejectsExact(q) /\ q \in Runs
      BY <2>1, <2>2
    <3> QED BY <1>1, <2>4, <3>1, <3>2, <3>3, RejectsCounted
  <2>9. ASSUME NEW r \in Runs, r # q PROVE RejectsExact(r)'
    <3>1. Of(r, dlq)' = Of(r, dlq)
      BY <2>1, <2>2, <2>9 DEF Of
    <3> QED BY <2>2, <2>4, <2>9, <3>1, SameRejects
  <2> QED BY <2>5, <2>6, <2>8, <2>9
<1>6. CASE WriteTally(c)
  <2> DEFINE rs == Head(todo[c]).of
  <2>1. /\ tally' = [tally EXCEPT ![c] = [r \in Runs |-> IF r \in rs THEN Zero ELSE tally[c][r]]]
        /\ catalogue' = catalogue /\ dlq' = dlq
    BY <1>1, <1>6 DEF WriteTally
  <2>2. \A r \in Runs : /\ figures'[r].loaded = IF r \in rs THEN figures[r].loaded + tally[c][r].loaded ELSE figures[r].loaded
                        /\ figures'[r].rejected = IF r \in rs THEN figures[r].rejected + tally[c][r].rejected ELSE figures[r].rejected
    BY <1>6 DEF WriteTally
  <2>3. \A r \in Runs : tally'[c][r] = IF r \in rs THEN Zero ELSE tally[c][r]
    BY <1>1, <2>1
  <2>4. \A d \in Consumers : d # c => tally'[d] = tally[d]
    BY <1>1, <2>1
  <2>5. ASSUME NEW r \in Runs PROVE Of(r, catalogue)' = Of(r, catalogue) /\ Of(r, dlq)' = Of(r, dlq)
    BY <2>1 DEF Of
  <2>6. ASSUME NEW r \in Runs, r \in rs, Steady(r) PROVE LoadsExact(r)'
    <3>1. tally'[c][r].loaded = 0 /\ figures'[r].loaded = figures[r].loaded + tally[c][r].loaded
      BY <2>2, <2>3, <2>6 DEF Zero
    <3>2. \A d \in Consumers : d # c => tally'[d][r].loaded = tally[d][r].loaded
      BY <2>4
    <3> QED BY <1>1, <2>5, <2>6, <3>1, <3>2, LoadsWritten
  <2>7. ASSUME NEW r \in Runs, r \in rs PROVE RejectsExact(r)'
    <3>1. tally'[c][r].rejected = 0 /\ figures'[r].rejected = figures[r].rejected + tally[c][r].rejected
      BY <2>2, <2>3, <2>7 DEF Zero
    <3>2. \A d \in Consumers : d # c => tally'[d][r].rejected = tally[d][r].rejected
      BY <2>4
    <3> QED BY <1>1, <2>5, <3>1, <3>2, RejectsWritten
  <2>8. ASSUME NEW r \in Runs, r \notin rs PROVE (Steady(r) => LoadsExact(r)') /\ RejectsExact(r)'
    <3>1. figures'[r].loaded = figures[r].loaded /\ figures'[r].rejected = figures[r].rejected
      BY <2>2, <2>8
    <3>2. \A d \in Consumers : tally'[d][r] = tally[d][r]
      BY <2>3, <2>4, <2>8
    <3> QED BY <2>5, <3>1, <3>2, SameLoads, SameRejects
  <2> QED BY <1>1, <2>1, <2>6, <2>7, <2>8
<1> QED BY <1>1, <1>3, <1>4, <1>5, <1>6 DEF LoadStep, PollEvent, ReadAwaiting, CountRun, InsertMarker, CloseRun, Hold, CommitPositions

LEMMA NothingUnwritten ==
  ASSUME NEW r \in Runs, \A c \in Consumers : tally[c][r].loaded = 0 /\ tally[c][r].rejected = 0
  PROVE  SumFunctionOnSet(Unwritten(r), Consumers) = 0 /\ SumFunctionOnSet(UnwrittenRejects(r), Consumers) = 0
<1> DEFINE f == Unwritten(r)
           g == UnwrittenRejects(r)
<1>1. f \in [Consumers -> Nat] /\ \A c \in Consumers : f[c] = 0
  BY DEF Unwritten
<1>2. g \in [Consumers -> Nat] /\ \A c \in Consumers : g[c] = 0
  BY DEF UnwrittenRejects
<1>3. IsFiniteSet(Consumers)
  BY LoadAssumption DEF LoadAssumption
<1> HIDE DEF f, g
<1>4. SumFunctionOnSet(f, Consumers) = 0 /\ SumFunctionOnSet(g, Consumers) = 0
  BY <1>1, <1>2, <1>3, SumOfZeros
<1> QED BY <1>4 DEF f, g

LEMMA InitQuietInv == LoadInit => QuietInv
<1> SUFFICES ASSUME LoadInit PROVE QuietInv
  OBVIOUS
<1>1. LoadInv /\ IsFiniteSet(Consumers) /\ IsFiniteSet(dlq)
  BY InitLoadInv, FS_EmptySet, LoadAssumption DEF LoadInit, LoadAssumption
<1>2. ASSUME NEW c \in Consumers PROVE AtHand(c) /\ ParksFirst(c) /\ Reports(todo[c], Empty(c))
  <2>1. event[c] = NoEvent /\ todo[c] = StartUp /\ position[c] = [p \in {q \in Partitions : owner[q] = c} |-> 0]
    BY DEF LoadInit
  <2> DEFINE x == Do("sweep", {})
  <2>2. x \in Step /\ x.do = "sweep"
    BY DoIsStep DEF Ops
  <2>3. Len(StartUp) = 1 /\ StartUp[1] = x
    BY <2>2 DEF StartUp
  <2> HIDE DEF x
  <2>4. \A j \in 1..Len(StartUp) : StartUp[j].do = "sweep"
    BY <2>2, <2>3
  <2>5. AtHand(c)
    <3>1. \A p \in Partitions : Len(Feed[p]) \in Nat
      BY LoadAssumption DEF LoadAssumption
    <3> QED BY <2>1, <3>1 DEF AtHand, Held
  <2> QED BY <2>1, <2>4, <2>5 DEF ParksFirst, Reports
<1>3. \A r, p : ~HasRow(r, p)
  BY DEF LoadInit, HasRow
<1>4. ASSUME NEW r \in Runs PROVE LoadsExact(r) /\ RejectsExact(r)
  <2>1. /\ Of(r, catalogue) = {} /\ Of(r, dlq) = {} /\ figures[r].loaded = 0 /\ figures[r].rejected = 0
        /\ \A c \in Consumers : tally[c][r].loaded = 0 /\ tally[c][r].rejected = 0
    BY DEF LoadInit, Zero, Of
  <2>2. SumFunctionOnSet(Unwritten(r), Consumers) = 0 /\ SumFunctionOnSet(UnwrittenRejects(r), Consumers) = 0
    BY <1>1, <2>1, NothingUnwritten
  <2>5. Cardinality(Of(r, catalogue)) = 0 /\ Cardinality(Of(r, dlq)) = 0
    BY <2>1, FS_EmptySet
  <2> QED BY <2>1, <2>2, <2>5 DEF LoadsExact, RejectsExact
<1>5. \A c \in Consumers, r \in Runs : tally[c][r] = Zero /\ r \notin Fresh(c)
  BY DEF LoadInit, Fresh, FirstLoads, Range
<1>6. ParkedWerePolled
  BY DEF LoadInit, ParkedWerePolled
<1> QED BY <1>1, <1>2, <1>3, <1>4, <1>5, <1>6 DEF QuietInv, RowsWerePolled, OpenWhileHeld

LEMMA StepKeepsQuiet ==
  ASSUME RejectsOnce, LoadInv, LoadInv', RowsMean, CountInv, Quiet => QuietInv, [LoadNext]_loadVars, Quiet' PROVE QuietInv'
<1>1. crashes \in Nat /\ rebalances \in Nat /\ crashes' \in Nat /\ rebalances' \in Nat /\ crashes' = 0 /\ rebalances' = 0
  BY DEF LoadInv, LoadTypeOK, Quiet
<1>2. ~Rebalance /\ \A c \in Consumers : ~CrashLoader(c)
  BY <1>1 DEF Rebalance, CrashLoader
<1>3. ASSUME NEW c \in Consumers, LoadStep(c) PROVE QuietInv'
  <2>1. Quiet
    <3>1. crashes' = crashes /\ rebalances' = rebalances
      BY <1>3 DEF LoadStep, PollEvent, ReadAwaiting, CountRun, InsertMarker, CloseRun, Hold, FlushBatch, Park, WriteTally,
         CommitPositions, CommitFenced, boundVars
    <3> QED BY <1>1, <3>1 DEF Quiet
  <2>2. QuietInv /\ \A d \in Consumers : QuietConsumer(d)
    BY <2>1 DEF QuietInv, QuietConsumer
  <2>3. ASSUME NEW d \in Consumers PROVE QuietConsumer(d)'
    <3>1. QuietConsumer(c)' /\ owner' = owner
      BY <1>3, <2>2, StepKeepsQuietConsumer
    <3>2. CASE d # c
      <4>1. Untouched(d) /\ tally'[d] = tally[d]
        BY <1>3, <3>2, StepConsumers, OtherTallies
      <4> QED BY <2>2, <3>1, <4>1, OthersKeepQuiet
    <3> QED BY <3>1, <3>2
  <2>4. RowsWerePolled'
    BY <1>3, <2>2, StepKeepsRowsPolled DEF QuietInv
  <2>5. ParkedWerePolled'
    BY <1>3, <2>2, StepKeepsParked DEF QuietInv
  <2>6. OpenWhileHeld'
    BY <1>3, <2>2, StepKeepsOpen DEF QuietInv
  <2>7. IsFiniteSet(dlq)' /\ \A r \in Runs : (Steady(r) => LoadsExact(r)') /\ RejectsExact(r)'
    BY <1>3, <2>2, StepKeepsExact DEF QuietInv
  <2> QED BY <2>3, <2>4, <2>5, <2>6, <2>7 DEF QuietInv, QuietConsumer
<1>4. CASE UNCHANGED loadVars
  <2>1. /\ UNCHANGED <<status, frozen, marker, txn, owner, committed, position, todo, event, batch, tally>>
        /\ UNCHANGED <<figures, catalogue, dlq, crashes, rebalances>>
    BY <1>4 DEF loadVars, markerVars, groupVars, memoryVars, boundVars
  <2>2. QuietInv
    BY <2>1 DEF Quiet
  <2>3. \A c \in Consumers : (AtHand(c) /\ ParksFirst(c) /\ Reports(todo[c], Empty(c)))'
    BY <2>1, <2>2 DEF QuietInv, AtHand, ParksFirst, Empty, Held, Polled
  <2>4. RowsWerePolled' /\ ParkedWerePolled' /\ OpenWhileHeld' /\ IsFiniteSet(dlq)'
    <3>1. \A r, p : HasRow(r, p)' <=> HasRow(r, p)
      BY <2>1 DEF HasRow
    <3>2. \A p \in Partitions : Polls(p)' = Polls(p)
      BY <2>1 DEF Polls
    <3>3. \A c, p, i : ToPark(c, p, i)' <=> ToPark(c, p, i)
      BY <2>1 DEF ToPark
    <3>4. \A c \in Consumers : Fresh(c)' = Fresh(c) /\ Held(c)' = Held(c)
      BY <2>1 DEF Fresh, FirstLoads, Loaded, Held
    <3>5. RowsWerePolled'
      BY <2>2, <3>1, <3>2 DEF QuietInv, RowsWerePolled
    <3>6. ParkedWerePolled'
      BY <2>1, <2>2, <3>2, <3>3 DEF QuietInv, ParkedWerePolled
    <3>7. OpenWhileHeld'
      BY <2>1, <2>2, <3>1, <3>4 DEF QuietInv, OpenWhileHeld
    <3> QED BY <2>1, <2>2, <3>5, <3>6, <3>7 DEF QuietInv
  <2>5. \A r \in Runs : (Steady(r) => LoadsExact(r)') /\ RejectsExact(r)'
    BY <2>1, <2>2 DEF QuietInv, LoadsExact, RejectsExact, Unwritten, UnwrittenRejects, Of
  <2> QED BY <2>3, <2>4, <2>5 DEF QuietInv
<1> QED BY <1>2, <1>3, <1>4 DEF LoadNext

\* Nothing of a closed steady run is in anyone's memory, so its figures are final.
LEMMA ClosedIsExact ==
  ASSUME LoadInv, QuietInv, NEW r \in Runs, Steady(r), status[r] = "success"
  PROVE  figures[r].loaded = Cardinality(Of(r, catalogue)) /\ figures[r].rejected = Cardinality(Of(r, dlq))
<1>1. \A p \in Partitions : HasRow(r, p)
  BY DEF LoadInv, MarkersInv, SuccessMeansReported, HasRow
<1>2. \A c \in Consumers : tally[c][r] = Zero
  BY <1>1 DEF QuietInv, OpenWhileHeld, LoadInv, LoadTypeOK
<1>3. \A c \in Consumers : tally[c][r].loaded = 0 /\ tally[c][r].rejected = 0
  BY <1>2 DEF Zero
<1>4. SumFunctionOnSet(Unwritten(r), Consumers) = 0 /\ SumFunctionOnSet(UnwrittenRejects(r), Consumers) = 0
  BY <1>3, NothingUnwritten
<1>5. LoadsExact(r) /\ RejectsExact(r)
  BY DEF QuietInv
<1>6. figures[r].loaded \in Nat /\ figures[r].rejected \in Nat
  BY DEF LoadInv, LoadTypeOK, Counts
<1>7. figures[r].loaded + 0 = Cardinality(Of(r, catalogue)) /\ figures[r].rejected + 0 = Cardinality(Of(r, dlq))
  BY <1>4, <1>5 DEF LoadsExact, RejectsExact
<1> QED BY <1>6, <1>7

\* "A run's final figures are still exact, because the marker that ends it
\* flushes the tally before anything finalises": while no consumer dies and no
\* partition moves, for records that are parked once and runs whose records change
\* their books once.
THEOREM QuietFiguresAreExact ==
  ASSUME RejectsOnce PROVE LoadSpec => []QuietFiguresExact
<1> DEFINE Inv == LoadInv /\ RowsMean /\ CountInv /\ (Quiet => QuietInv)
<1>1. LoadInit => Inv
  BY InitLoadInv, InitCountInv, InitQuietInv DEF LoadInit, RowsMean
<1>2. Inv /\ [LoadNext]_loadVars => Inv'
  <2> SUFFICES ASSUME Inv, [LoadNext]_loadVars PROVE Inv'
    OBVIOUS
  <2>1. LoadInv' /\ RowsMean'
    BY StepKeepsLoadInv, RowsKeepMeaning
  <2>2. CountInv'
    BY <2>1, StepKeepsCount
  <2>3. (Quiet => QuietInv)'
    BY <2>1, StepKeepsQuiet
  <2> QED BY <2>1, <2>2, <2>3
<1>3. Inv => QuietFiguresExact
  BY ClosedIsExact DEF QuietFiguresExact, FinalFiguresExact, Quiet
<1> HIDE DEF Inv
<1> QED BY <1>1, <1>2, <1>3, PTL DEF LoadSpec

(***************************************************************************)
(* The contract: effects, reports and offsets.                             *)
(***************************************************************************)

\* Who holds a partition and is its member is at its offset, or past it.
OffsetsInv ==
  /\ \A p \in Partitions : committed[p] <= Len(Feed[p])
  /\ \A c \in Consumers : \A p \in Held(c) :
       position[c][p] <= Len(Feed[p]) /\ (owner[p] = c => committed[p] <= position[c][p])

LEMMA StepKeepsOffsets ==
  ASSUME LoadInv, OffsetsInv, NEW c \in Consumers, LoadStep(c), ~CommitFenced(c)
  PROVE  OffsetsInv'
<1>1. owner' = owner /\ committed \in [Partitions -> Nat] /\ Positions
  BY DEF LoadInv, LoadTypeOK, Positions, LoadStep, PollEvent, ReadAwaiting, CountRun, InsertMarker, CloseRun, Hold, FlushBatch, Park,
         WriteTally, CommitPositions, groupVars
<1>2. CASE CommitPositions(c)
  <2>1. position' = position /\ committed' = [p \in Partitions |-> IF p \in Held(c) THEN position[c][p] ELSE committed[p]]
        /\ \A p \in Held(c) : owner[p] = c
    BY <1>2 DEF CommitPositions
  <2>2. \A d \in Consumers : Held(d)' = Held(d)
    BY <2>1 DEF Held
  <2>3. \A d \in Consumers : \A p \in Held(d) : position[d][p] \in Nat /\ p \in Partitions
    BY <1>1 DEF Positions
  <2>4. \A p \in Partitions : Len(Feed[p]) \in Nat
    BY LoadAssumption DEF LoadAssumption
  <2> QED BY <1>1, <2>1, <2>2, <2>3, <2>4 DEF OffsetsInv
<1>3. CASE \E p \in Partitions : PollEvent(c, p)
  <2>1. PICK p \in Partitions : PollEvent(c, p)
    BY <1>3
  <2> DEFINE k == position[c][p] + 1
  <2>2. position' = [position EXCEPT ![c][p] = k] /\ committed' = committed /\ p \in Held(c) /\ position[c][p] < Len(Feed[p])
    BY <2>1 DEF PollEvent, groupVars
  <2>3. position[c][p] \in Nat /\ Len(Feed[p]) \in Nat /\ committed[p] \in Nat
    BY <1>1, <2>2, LoadAssumption DEF Positions, LoadAssumption
  <2>4. k <= Len(Feed[p]) /\ (owner[p] = c => committed[p] <= k)
    BY <2>2, <2>3 DEF OffsetsInv
  <2> HIDE DEF k
  <2>5. position'[c] = [position[c] EXCEPT ![p] = k] /\ \A d \in Consumers : d # c => position'[d] = position[d]
    BY <1>1, <2>2 DEF Positions
  <2>6. \A d \in Consumers : Held(d)' = Held(d)
    BY <1>1, <2>2, <2>5 DEF Held, Positions
  <2>7. \A q \in Held(c) : position'[c][q] = IF q = p THEN k ELSE position[c][q]
    BY <1>1, <2>2, <2>5 DEF Held, Positions
  <2> QED BY <1>1, <2>2, <2>4, <2>5, <2>6, <2>7 DEF OffsetsInv
<1>4. CASE UNCHANGED <<position, committed>>
  BY <1>1, <1>4 DEF OffsetsInv, Held
<1> QED BY <1>2, <1>3, <1>4 DEF LoadStep, ReadAwaiting, CountRun, InsertMarker, CloseRun, Hold, FlushBatch, Park, WriteTally, groupVars

LEMMA NextKeepsOffsets ==
  ASSUME LoadInv, OffsetsInv, [LoadNext]_loadVars
  PROVE  OffsetsInv'
<1>1. committed \in [Partitions -> Nat] /\ Positions
  BY DEF LoadInv, LoadTypeOK, Positions
<1>2. ASSUME NEW c \in Consumers, Reborn(c) PROVE OffsetsInv'
  <2>1. UNCHANGED groupVars /\ position' = [position EXCEPT ![c] = [p \in {q \in Partitions : owner[q] = c} |-> committed[p]]]
    BY <1>2 DEF Reborn
  <2>2. position'[c] = [p \in {q \in Partitions : owner[q] = c} |-> committed[p]] /\ \A d \in Consumers : d # c => position'[d] = position[d]
    BY <1>1, <2>1 DEF Positions
  <2> QED BY <1>1, <2>1, <2>2 DEF OffsetsInv, Held, groupVars
<1>3. CASE Rebalance
  <2>1. PICK o \in [Partitions -> {c \in Consumers : CanJoin(c)}] :
          /\ owner' = o
          /\ position' = [c \in Consumers |->
               IF CanJoin(c) THEN [p \in {q \in Partitions : o[q] = c} |-> committed[p]] ELSE position[c]]
    BY <1>3 DEF Rebalance
  <2>2. committed' = committed
    BY <1>3 DEF Rebalance
  <2>3. ASSUME NEW c \in Consumers, NEW p \in Held(c)'
        PROVE  position'[c][p] <= Len(Feed[p]) /\ (owner'[p] = c => committed[p] <= position'[c][p])
    <3>1. CASE CanJoin(c)
      <4>1. position'[c] = [q \in {q \in Partitions : o[q] = c} |-> committed[q]]
        BY <2>1, <3>1
      <4> QED BY <1>1, <2>3, <4>1 DEF OffsetsInv, Held
    <3>2. CASE ~CanJoin(c)
      <4>1. position'[c] = position[c] /\ p \in Held(c) /\ p \in Partitions
        BY <1>1, <2>1, <2>3, <3>2 DEF Held, Positions
      <4>2. owner'[p] # c
        BY <2>1, <3>2, <4>1
      <4> QED BY <4>1, <4>2 DEF OffsetsInv
    <3> QED BY <3>1, <3>2
  <2> QED BY <2>2, <2>3 DEF OffsetsInv
<1>4. CASE UNCHANGED loadVars
  BY <1>4 DEF OffsetsInv, Held, loadVars, groupVars, memoryVars
<1> QED BY <1>2, <1>3, <1>4, StepKeepsOffsets DEF LoadNext, CrashLoader, CommitFenced

LEMMA InitOffsets == LoadInit => OffsetsInv
<1> SUFFICES ASSUME LoadInit PROVE OffsetsInv
  OBVIOUS
<1>1. \A p \in Partitions : committed[p] = 0 /\ Len(Feed[p]) \in Nat
  BY LoadAssumption DEF LoadInit, LoadAssumption
<1>2. \A c \in Consumers : \A p \in Held(c) : position[c][p] = 0 /\ p \in Partitions
  BY DEF LoadInit, Held
<1> QED BY <1>1, <1>2 DEF OffsetsInv

\* What the contract does not see.
LEMMA EffectsStutter ==
  ASSUME UNCHANGED <<status, marker, catalogue, dlq, committed>> PROVE UNCHANGED Effects!vars
BY DEF Effects!vars, Written, Loaded

LEMMA WritesAreEffects ==
  ASSUME Grows, UNCHANGED <<status, marker, committed>> PROVE Effects!Write
BY DEF Effects!Write, Grows, Written, Loaded

\* A row is committed when its run has nothing left to write on its partition,
\* and the run closes when all the rows are there.
LEMMA CloseReports ==
  ASSUME LoadInv, RowsMean, NEW c \in Consumers, CloseRun(c)
  PROVE  UNCHANGED Effects!vars \/ \E r \in Runs, ps \in SUBSET Partitions : Effects!Report(r, ps)
<1>1. txn[c] # NoTxn /\ txn \in [Consumers -> Txn \cup {NoTxn}] /\ status \in [Runs -> Statuses]
  BY DEF CloseRun, CommitTxn, LoadInv, LoadTypeOK, MarkersTypeOK
<1>2. PICK x \in Txn : x = txn[c]
  BY <1>1
<1>3. /\ marker' = marker \cup {<<x.run, x.topic, p>> : p \in x.row}
      /\ status' = IF x.topic = "clean" /\ x.full /\ status[x.run] = "processing"
                     THEN [status EXCEPT ![x.run] = "success"] ELSE status
      /\ UNCHANGED <<catalogue, dlq, committed>>
  BY <1>2 DEF CloseRun, CommitTxn, groupVars
<1>4. x.run \in Runs /\ x.row \in SUBSET Partitions /\ x.topic \in Topics
  BY DEF Txn
<1> DEFINE Rows(m) == {<<y[1], y[3]>> : y \in {z \in m : z[2] = "clean"}}
           Successes(st) == {r \in Runs : st[r] = "success"}
           W == {e \in Event : Written(e)}
<1>5. W' = W
  BY <1>3 DEF Written, Loaded
<1>6. CASE x.topic # "clean"
  <2>1. Rows(marker') = Rows(marker) /\ status' = status
    BY <1>3, <1>6
  <2> QED BY <1>3, <1>5, <2>1 DEF Effects!vars
<1>7. CASE x.topic = "clean"
  <2>1. Rows(marker') = Rows(marker) \cup {<<x.run, p>> : p \in x.row}
    <3> DEFINE added == {<<x.run, "clean", p>> : p \in x.row}
               cleanOf(m) == {z \in m : z[2] = "clean"}
    <3>1. cleanOf(marker') = cleanOf(marker) \cup added
      <4>1. \A z \in added : z[2] = "clean"
        OBVIOUS
      <4>2. marker' = marker \cup added
        BY <1>3, <1>7
      <4> HIDE DEF added
      <4> QED BY <4>1, <4>2
    <3>2. {<<y[1], y[3]>> : y \in added} = {<<x.run, p>> : p \in x.row}
      <4>1. ASSUME NEW y \in added PROVE <<y[1], y[3]>> \in {<<x.run, p>> : p \in x.row}
        <5>1. PICK p \in x.row : y = <<x.run, "clean", p>>
          OBVIOUS
        <5>2. y[1] = x.run /\ y[3] = p
          BY <5>1
        <5> QED BY <5>2
      <4>2. ASSUME NEW p \in x.row PROVE <<x.run, p>> \in {<<y[1], y[3]>> : y \in added}
        <5>1. PICK y \in added : y = <<x.run, "clean", p>>
          OBVIOUS
        <5>2. y[1] = x.run /\ y[3] = p
          BY <5>1
        <5> HIDE DEF added
        <5> QED BY <5>2
      <4> HIDE DEF added
      <4> QED BY <4>1, <4>2
    <3>3. ASSUME NEW m, NEW n
          PROVE  {<<y[1], y[3]>> : y \in m \cup n} = {<<y[1], y[3]>> : y \in m} \cup {<<y[1], y[3]>> : y \in n}
      <4> DEFINE pair(y) == <<y[1], y[3]>>
      <4> HIDE DEF pair
      <4>1. {pair(y) : y \in m \cup n} = {pair(y) : y \in m} \cup {pair(y) : y \in n}
        OBVIOUS
      <4> QED BY <4>1 DEF pair
    <3> HIDE DEF added, cleanOf
    <3>4. {<<y[1], y[3]>> : y \in cleanOf(marker')} =
            {<<y[1], y[3]>> : y \in cleanOf(marker)} \cup {<<y[1], y[3]>> : y \in added}
      BY <3>1, <3>3
    <3> QED BY <3>2, <3>4 DEF cleanOf
  <2>2. \A p \in x.row : AllWritten(x.run, p)
    BY <1>1, <1>2 DEF RowsMean
  <2>3. ASSUME NEW p \in x.row PROVE Effects!OnlyWritten(x.run, p)
    <3>1. \A i \in 1..Len(Feed[p]) : Feed[p][i] \in Event
      BY <1>4, LoadAssumption DEF LoadAssumption
    <3> QED BY <2>2, <3>1 DEF Effects!OnlyWritten, AllWritten, IsMarker
  <2>4. \/ Successes(status') = Successes(status)
        \/ /\ Successes(status') = Successes(status) \cup {x.run}
           /\ \A p \in Partitions : <<x.run, p>> \in Rows(marker')
    <3>1. CASE x.full /\ status[x.run] = "processing"
      <4>1. Successes(status') = Successes(status) \cup {x.run}
        BY <1>1, <1>3, <1>4, <1>7, <3>1
      <4>2. \A p \in Partitions : <<x.run, "clean", p>> \in marker \/ p \in x.row
        BY <1>1, <1>2, <1>7, <3>1 DEF LoadInv, MarkersInv, CountedIsReported
      <4>3. \A p \in Partitions : <<x.run, "clean", p>> \in marker'
        BY <1>3, <1>7, <4>2
      <4>4. \A p \in Partitions : <<x.run, p>> \in Rows(marker')
        <5> SUFFICES ASSUME NEW p \in Partitions
                     PROVE  \E y \in marker' : y[2] = "clean" /\ <<x.run, p>> = <<y[1], y[3]>>
          OBVIOUS
        <5>1. <<x.run, "clean", p>> \in marker'
          BY <4>3
        <5> QED BY <5>1
      <4> HIDE DEF Rows, Successes
      <4> QED BY <4>1, <4>4
    <3>2. CASE ~(x.full /\ status[x.run] = "processing")
      BY <1>3, <3>2
    <3> QED BY <3>1, <3>2
  <2>5. Effects!Report(x.run, x.row)
    BY <1>3, <1>5, <2>1, <2>3, <2>4 DEF Effects!Report
  <2> QED BY <1>4, <2>5
<1> QED BY <1>6, <1>7

\* Positions are committed forwards, by the members that have the partitions.
LEMMA CommitAcknowledges ==
  ASSUME LoadInv, OffsetsInv, NEW c \in Consumers, CommitPositions(c)
  PROVE  Effects!Acknowledge
<1>1. /\ committed' = [p \in Partitions |-> IF p \in Held(c) THEN position[c][p] ELSE committed[p]]
      /\ \A p \in Held(c) : owner[p] = c
      /\ UNCHANGED <<status, marker, catalogue, dlq>>
  BY DEF CommitPositions, markerVars
<1>2. committed \in [Partitions -> Nat] /\ \A p \in Held(c) : position[c][p] \in Nat
  BY DEF LoadInv, LoadTypeOK
<1>3. \A p \in Held(c) : \A i \in 1..position[c][p] : Durable(p, i)
  BY CommitsReached
<1>4. ASSUME NEW p \in Partitions
      PROVE  committed'[p] \in committed[p]..Len(Feed[p]) /\ \A i \in 1..committed'[p] : Durable(p, i)
  <2>1. Len(Feed[p]) \in Nat
    BY LoadAssumption DEF LoadAssumption
  <2> QED BY <1>1, <1>2, <1>3, <2>1 DEF OffsetsInv, LoadInv
<1>5. ASSUME NEW p \in Partitions, NEW i \in 1..Len(Feed[p]), Durable(p, i) PROVE Effects!Over(p, i)
  <2>1. Feed[p][i] \in Event
    BY LoadAssumption DEF LoadAssumption
  <2>2. CASE IsMarker(Feed[p][i])
    <3>1. <<Feed[p][i].run, "clean", p>> \in marker
      BY <1>5, <2>2 DEF Durable
    <3> QED BY <2>2, <3>1 DEF Effects!Over, IsMarker
  <2>3. CASE ~IsMarker(Feed[p][i])
    BY <1>5, <2>1, <2>3 DEF Durable, Effects!Over, IsMarker
  <2> QED BY <2>2, <2>3
<1>6. \A p \in Partitions : Len(Feed[p]) \in Nat
  BY LoadAssumption DEF LoadAssumption
<1>7. \A p \in Partitions : \A i \in 1..committed'[p] : Effects!Over(p, i)
  <2> SUFFICES ASSUME NEW p \in Partitions, NEW i \in 1..committed'[p] PROVE Effects!Over(p, i)
    OBVIOUS
  <2>1. i \in 1..Len(Feed[p])
    BY <1>2, <1>4, <1>6
  <2> QED BY <1>4, <1>5, <2>1
<1>8. UNCHANGED <<{e \in Event : Written(e)}, {<<x[1], x[3]>> : x \in {y \in marker : y[2] = "clean"}}, {r \in Runs : status[r] = "success"}>>
  BY <1>1 DEF Written, Loaded
<1> HIDE DEF Effects!Over
<1> QED BY <1>4, <1>7, <1>8 DEF Effects!Acknowledge

\* The load consumers keep their contract: what is written stays, a run closes
\* behind all of its records, and an offset moves forward only, over what is
\* written, whatever waits in memory, dies, or moves to another member
\* (load_consumer.py:117-122).
THEOREM EffectsLast == LoadSpec => EffectsSpec
<1>1. LoadInit => LoadInv /\ RowsMean /\ OffsetsInv /\ Effects!Init
  <2>1. LoadInit => Effects!Init
    BY DEF LoadInit, Effects!Init, Written, Loaded
  <2> QED BY <2>1, InitLoadInv, InitOffsets DEF LoadInit, RowsMean
<1>2. LoadInv /\ RowsMean /\ OffsetsInv /\ [LoadNext]_loadVars => (LoadInv /\ RowsMean /\ OffsetsInv)'
  BY StepKeepsLoadInv, RowsKeepMeaning, NextKeepsOffsets
<1>3. LoadInv /\ RowsMean /\ OffsetsInv /\ [LoadNext]_loadVars => [Effects!Next]_(Effects!vars)
  <2> SUFFICES ASSUME LoadInv, RowsMean, OffsetsInv, [LoadNext]_loadVars PROVE Effects!Next \/ UNCHANGED Effects!vars
    OBVIOUS
  <2> HIDE DEF Effects!Write, Effects!Report, Effects!Acknowledge, Effects!vars
  <2>1. ASSUME NEW c \in Consumers, CommitPositions(c) PROVE Effects!Next
    BY <2>1, CommitAcknowledges DEF Effects!Next
  <2>2. ASSUME NEW c \in Consumers, CloseRun(c) PROVE Effects!Next \/ UNCHANGED Effects!vars
    BY <2>2, CloseReports DEF Effects!Next
  <2>3. ASSUME NEW c \in Consumers, FlushBatch(c) \/ Park(c) PROVE Effects!Next
    <3>1. UNCHANGED <<status, marker, committed>>
      BY <2>3 DEF FlushBatch, Park, markerVars, groupVars
    <3> QED BY <3>1, StepGrows, WritesAreEffects DEF Effects!Next
  <2>4. ASSUME NEW c \in Consumers, Reborn(c) PROVE UNCHANGED Effects!vars
    BY <2>4, EffectsStutter DEF Reborn, RollbackTxn, markerVars, groupVars
  <2>5. ASSUME UNCHANGED <<status, marker, catalogue, dlq, committed>> PROVE UNCHANGED Effects!vars
    BY <2>5, EffectsStutter
  <2>6. ASSUME NEW c \in Consumers, LoadStep(c) PROVE Effects!Next \/ UNCHANGED Effects!vars
    BY <2>1, <2>2, <2>3, <2>4, <2>5, <2>6 DEF LoadStep, PollEvent, ReadAwaiting, CountRun, InsertMarker, Hold, WriteTally,
       CommitFenced, RecordMarker, CountMarkers, markerVars, groupVars
  <2> QED BY <2>4, <2>5, <2>6 DEF LoadNext, CrashLoader, Rebalance, loadVars, markerVars, groupVars
<1> QED BY <1>1, <1>2, <1>3, PTL DEF LoadSpec, EffectsSpec, Effects!Spec
================================================================================
