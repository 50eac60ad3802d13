----------------------------- MODULE IngestionProofs -----------------------------
(***************************************************************************)
(* Phase 1, for every instance: the budgets of the resolver and what the   *)
(* manifest is told of its calls (Resolver); the requests to one source    *)
(* (SourceRequests); a file read slice by slice and its position           *)
(* (Discovery).                                                            *)
(***************************************************************************)
EXTENDS Resolver, SourceRequests, Discovery, FiniteSetTheorems, SequenceTheorems, WellFoundedInduction, TLAPS

(***************************************************************************)
(* The inductive invariant: each call is paid for before it is awaited, so *)
(* what was spent bounds what was asked, and a refusal leaves nothing to   *)
(* spend.                                                                  *)
(***************************************************************************)

BudgetTypes == spent \in [Documented -> Nat] /\ asked \in [Sources -> Nat] /\ refused \subseteq Documented

CallsArePaid == \A s \in Documented : asked[s] <= spent[s] /\ spent[s] <= Limit[s]

RefusedIsExhausted == \A s \in refused : Exhausted(s)

BudgetInv == BudgetTypes /\ CallsArePaid /\ RefusedIsExhausted

budgets == <<spent, asked, refused>>

LEMMA InitBudgetInv == ResolverAssumption /\ Init => BudgetInv
BY DEF ResolverAssumption, Init, BudgetInv, BudgetTypes, CallsArePaid, RefusedIsExhausted, Sources

\* A step that asks a documented source spends one of its calls.
LEMMA AskKeepsBudgetInv ==
  ASSUME ResolverAssumption, BudgetInv, NEW c, Ask(c)
  PROVE  BudgetInv' /\ \A s \in refused : asked'[s] = asked[s]
<1> DEFINE p == at[c]
<1>1. /\ p \in Documented /\ p \in Sources /\ ~Exhausted(p)
      /\ spent' = [spent EXCEPT ![p] = @ + 1] /\ asked' = [asked EXCEPT ![p] = @ + 1] /\ refused' = refused
  BY DEF Ask, try_spend, Sources
<1>2. Limit \in [Documented -> Nat] /\ spent \in [Documented -> Nat] /\ asked \in [Sources -> Nat]
      /\ Documented \subseteq Sources
  BY DEF ResolverAssumption, BudgetInv, BudgetTypes, Sources
<1> HIDE DEF p
<1>3. spent' \in [Documented -> Nat] /\ asked' \in [Sources -> Nat]
  BY <1>1, <1>2
<1>4. \A s \in Documented : s # p => spent'[s] = spent[s] /\ asked'[s] = asked[s]
  BY <1>1, <1>2
<1>5. spent'[p] = spent[p] + 1 /\ asked'[p] = asked[p] + 1 /\ spent[p] < Limit[p]
  BY <1>1, <1>2 DEF Exhausted
<1>6. CallsArePaid'
  <2>1. asked'[p] <= spent'[p] /\ spent'[p] <= Limit[p]
    BY <1>1, <1>2, <1>5 DEF BudgetInv, CallsArePaid
  <2> QED BY <1>4, <2>1 DEF BudgetInv, CallsArePaid
<1>7. p \notin refused
  BY <1>1 DEF BudgetInv, RefusedIsExhausted
<1>8. RefusedIsExhausted'
  BY <1>1, <1>4, <1>7 DEF BudgetInv, BudgetTypes, RefusedIsExhausted, Exhausted
<1> QED BY <1>1, <1>3, <1>4, <1>6, <1>7, <1>8 DEF BudgetInv, BudgetTypes

\* An answer spends nothing, or all that is left.
LEMMA AnswerKeepsBudgetInv ==
  ASSUME ResolverAssumption, BudgetInv, NEW c, NEW answer, Answer(c, answer)
  PROVE  BudgetInv' /\ asked' = asked
<1> DEFINE p == at[c]
<1>1. /\ p \in Documented
      /\ asked' = asked
      /\ spent' = IF answer = "quota" THEN [spent EXCEPT ![p] = Limit[p]] ELSE spent
      /\ refused' = IF answer = "quota" THEN refused \cup {p} ELSE refused
  BY DEF Answer, spend_all
<1>2. Limit \in [Documented -> Nat] /\ spent \in [Documented -> Nat] /\ asked \in [Sources -> Nat]
      /\ Documented \subseteq Sources
  BY DEF ResolverAssumption, BudgetInv, BudgetTypes, Sources
<1> HIDE DEF p
<1>3. CASE spent' = spent /\ refused' = refused
  BY <1>1, <1>3 DEF BudgetInv, BudgetTypes, CallsArePaid, RefusedIsExhausted, Exhausted
<1>4. CASE spent' = [spent EXCEPT ![p] = Limit[p]] /\ refused' = refused \cup {p}
  <2>1. \A s \in Documented : spent'[s] = IF s = p THEN Limit[p] ELSE spent[s]
    BY <1>2, <1>4
  <2>2. BudgetTypes'
    BY <1>1, <1>2, <1>4 DEF BudgetInv, BudgetTypes
  <2>3. CallsArePaid'
    <3>1. \A s \in Documented : asked[s] \in Nat /\ spent[s] \in Nat /\ Limit[s] \in Nat
      BY <1>2
    <3> QED BY <1>1, <2>1, <3>1 DEF BudgetInv, CallsArePaid
  <2>4. RefusedIsExhausted'
    <3>1. spent'[p] = Limit[p] /\ Limit[p] \in Nat
      BY <1>1, <1>2, <2>1
    <3>2. \A s \in refused : s # p => spent'[s] = spent[s] /\ spent[s] >= Limit[s]
      BY <2>1 DEF BudgetInv, BudgetTypes, RefusedIsExhausted, Exhausted
    <3> QED BY <1>4, <3>1, <3>2 DEF RefusedIsExhausted, Exhausted
  <2> QED BY <1>1, <2>2, <2>3, <2>4 DEF BudgetInv
<1> QED BY <1>1, <1>3, <1>4

LEMMA StepKeepsBudgetInv ==
  ASSUME ResolverAssumption, BudgetInv, [Next]_vars
  PROVE  BudgetInv' /\ \A s \in refused : asked'[s] = asked[s]
<1>1. ASSUME UNCHANGED budgets PROVE BudgetInv' /\ \A s \in refused : asked'[s] = asked[s]
  BY <1>1 DEF budgets, BudgetInv, BudgetTypes, CallsArePaid, RefusedIsExhausted, Exhausted
<1>2. ASSUME NEW c, GoodreadsAsk(c) PROVE BudgetInv' /\ \A s \in refused : asked'[s] = asked[s]
  <2>1. asked' = [asked EXCEPT !["goodreads"] = @ + 1] /\ spent' = spent /\ refused' = refused
    BY <1>2 DEF GoodreadsAsk
  <2>2. "goodreads" \notin Documented /\ "goodreads" \in Sources /\ Documented \subseteq Sources
    BY DEF Sources, Documented
  <2>3. asked' \in [Sources -> Nat] /\ \A s \in Documented : asked'[s] = asked[s]
    BY <2>1, <2>2 DEF BudgetInv, BudgetTypes
  <2> QED BY <2>1, <2>3 DEF BudgetInv, BudgetTypes, CallsArePaid, RefusedIsExhausted, Exhausted
<1>3. ASSUME NEW c, Resolve(c) PROVE BudgetInv' /\ \A s \in refused : asked'[s] = asked[s]
  <2>1. CASE Ask(c)
    BY <2>1, AskKeepsBudgetInv
  <2>2. ASSUME NEW answer, Answer(c, answer) PROVE BudgetInv' /\ asked' = asked
    BY <2>2, AnswerKeepsBudgetInv
  <2>3. CASE Retained(c) \/ Skip(c) \/ GoodreadsSkip(c) \/ \E answer \in Answers : GoodreadsAnswer(c, answer)
    BY <1>1, <2>3 DEF Retained, Skip, GoodreadsSkip, GoodreadsAnswer, budgets
  <2> QED BY <1>2, <1>3, <2>1, <2>2, <2>3 DEF Resolve
<1>4. CASE NextBatch \/ Account \/ AccountFails \/ Deliver \/ End \/ Raise \/ Trip \/ \E c \in Candidates : Start(c)
  BY <1>1, <1>4 DEF NextBatch, Account, AccountFails, Deliver, End, Raise, Trip, Start, progress, resolution, budgets
<1>5. CASE UNCHANGED vars
  BY <1>1, <1>5 DEF vars, resolution, budgets
<1> QED BY <1>3, <1>4, <1>5 DEF Next

(***************************************************************************)
(* Every call has its row: the place of a candidate in the hierarchy says  *)
(* which rows it has, so that a source is never asked twice about one, and *)
(* each call is awaited or told of.                                        *)
(***************************************************************************)

CallTypes ==
  /\ at \in [Candidates -> Places]
  /\ attempts \in [Candidates -> Seq(Attempts)]
  /\ asked \in [Sources -> Nat]
  /\ refused \subseteq Documented

\* The documented sources that come before a place.
Passed(place) ==
  IF place = "googlebooks" THEN {"openlibrary"}
  ELSE IF place = "gutendex" THEN {"openlibrary", "googlebooks"} ELSE {}

\* The rows of c are those of the places that it has passed.
Placed(c) ==
  /\ at[c] = "waiting" => Len(attempts[c]) = 0
  /\ at[c] = "goodreads" => WithGoodreads /\ Len(attempts[c]) = 0
  /\ at[c] = "retained" => Len(attempts[c]) + 1 = Uncalled
  /\ at[c] \in Documented =>
       /\ Len(attempts[c]) >= Uncalled
       /\ \A i \in DOMAIN attempts[c] : i > Uncalled => attempts[c][i].source \in Passed(at[c])

AtSource(c) == c \in calling => at[c] \in Sources

Awaited(s) == {c \in Candidates : c \in calling /\ at[c] = s}
Tellers(s) == {c \in Candidates : Told(c, s)}

CallsCounted == \A s \in Documented : asked[s] = Cardinality(Awaited(s)) + Cardinality(Tellers(s))

RefusalTold(s) == \E c \in Candidates : Attempt(s, "unavailable") \in Range(attempts[c])

CallsInv ==
  /\ CallTypes
  /\ \A c \in Candidates : Placed(c) /\ AtSource(c)
  /\ stage # "failed" => CallsCounted
  /\ \A s \in refused : RefusalTold(s)

LEMMA CandidatesFinite == ResolverAssumption => IsFiniteSet(Candidates)
<1> SUFFICES ASSUME ResolverAssumption PROVE IsFiniteSet(Candidates)
  OBVIOUS
<1> DEFINE n == Len(Manifest)
<1>1. Manifest \in [1..n -> Candidates] /\ DOMAIN Manifest = 1..n /\ n \in Nat
  BY DEF ResolverAssumption, Candidates
<1>2. Manifest \in Surjection(1..n, Candidates)
  BY <1>1 DEF Surjection, Candidates, Range
<1>3. IsFiniteSet(1..n)
  BY <1>1, FS_Interval
<1> QED BY <1>2, <1>3, FS_Surjection

LEMMA CallSetsFinite ==
  ASSUME ResolverAssumption, NEW s
  PROVE  IsFiniteSet(Awaited(s)) /\ IsFiniteSet(Tellers(s))
BY CandidatesFinite, FS_Subset DEF Awaited, Tellers

LEMMA InitCallsInv == ResolverAssumption /\ Init => CallsInv
<1> SUFFICES ASSUME ResolverAssumption, Init PROVE CallsInv
  OBVIOUS
<1>1. CallTypes
  BY DEF Init, CallTypes, Places
<1>2. \A c \in Candidates : at[c] = "waiting" /\ attempts[c] = <<>> /\ Placed(c) /\ AtSource(c)
  BY DEF Init, Placed, AtSource, Documented
<1>3. \A s \in Documented : Awaited(s) = {} /\ Tellers(s) = {} /\ asked[s] = 0
  BY <1>2 DEF Init, Awaited, Tellers, Told, Sources
<1>4. CallsCounted
  <2>1. Cardinality({}) = 0
    BY FS_EmptySet
  <2> SUFFICES ASSUME NEW s \in Documented PROVE asked[s] = Cardinality(Awaited(s)) + Cardinality(Tellers(s))
    BY DEF CallsCounted
  <2>2. Cardinality(Awaited(s)) = 0 /\ Cardinality(Tellers(s)) = 0
    BY <1>3, <2>1
  <2> QED BY <1>3, <2>2
<1> QED BY <1>1, <1>2, <1>4 DEF CallsInv, Init

\* A candidate that leaves its place has one row more, of that place.
LEMMA LeaveAddsARow ==
  ASSUME ResolverAssumption, CallTypes, NEW c \in Candidates, Placed(c), NEW row \in Attempts,
         at[c] \in Sources \cup {"retained"}, at[c] \in Documented => row.source = at[c], Leave(c, row)
  PROVE  /\ at' \in [Candidates -> Places] /\ attempts' \in [Candidates -> Seq(Attempts)]
         /\ \A d \in Candidates \ {c} : at'[d] = at[d] /\ attempts'[d] = attempts[d]
         /\ at'[c] \notin {"waiting", "goodreads", at[c]}
         /\ Placed(c)'
         /\ \A s : Told(c, s)' <=> Told(c, s) \/ (at[c] \in Documented /\ s = at[c] /\ row.outcome # "skipped")
         /\ \A e : e \in Range(attempts'[c]) <=> e \in Range(attempts[c]) \/ e = row
         /\ at[c] \in Documented => ~Told(c, at[c])
<1> DEFINE old == attempts[c]
           new == attempts'[c]
           found == row.outcome = "resolved" \/ Resolved(c)
<1>1. /\ attempts' = [attempts EXCEPT ![c] = Append(old, row)]
      /\ at' = [at EXCEPT ![c] = After(at[c], found)]
  BY DEF Leave
<1>2. old \in Seq(Attempts) /\ at[c] \in Places
  BY DEF CallTypes
<1>3. /\ new = Append(old, row) /\ Len(new) = Len(old) + 1 /\ new \in Seq(Attempts)
      /\ \A i \in 1..Len(old) : new[i] = old[i]
      /\ new[Len(old) + 1] = row
      /\ DOMAIN old = 1..Len(old) /\ DOMAIN new = 1..Len(old) + 1 /\ Len(old) \in Nat
  BY <1>1, <1>2, AppendProperties DEF CallTypes
<1>4. at'[c] = After(at[c], found)
  BY <1>1 DEF CallTypes
<1>5. /\ at'[c] \in Places
      /\ at'[c] \notin {"waiting", "goodreads", at[c]}
      /\ at'[c] = "retained" => at[c] = "goodreads"
      /\ at'[c] = "openlibrary" => at[c] = "retained"
      /\ at'[c] = "googlebooks" => at[c] = "openlibrary"
      /\ at'[c] = "gutendex" => at[c] = "googlebooks"
  BY <1>2, <1>4 DEF After, Places, Sources, Documented
<1>6. at' \in [Candidates -> Places] /\ attempts' \in [Candidates -> Seq(Attempts)]
  <2> HIDE DEF found, new
  <2>1. After(at[c], found) \in Places /\ Append(old, row) \in Seq(Attempts)
    BY <1>3, <1>4, <1>5
  <2> HIDE DEF old
  <2> QED BY <1>1, <2>1 DEF CallTypes
<1>7. \A d \in Candidates \ {c} : at'[d] = at[d] /\ attempts'[d] = attempts[d]
  BY <1>1 DEF CallTypes
<1>8. Uncalled \in {1, 2} /\ (at[c] = "goodreads" => Uncalled = 2 /\ Len(old) = 0)
  BY DEF Uncalled, Placed
<1>9. at[c] = "goodreads" \/ at[c] = "retained" => Len(old) < Uncalled
  BY <1>3, <1>8 DEF Placed
<1> HIDE DEF old, new, found
<1>10. Placed(c)'
  <2>1. at'[c] = "retained" => Len(new) + 1 = Uncalled
    BY <1>3, <1>5, <1>8
  <2>2. at'[c] = "openlibrary" => Len(new) = Uncalled
    BY <1>3, <1>5, <1>8 DEF Placed, old
  <2>3. at'[c] \in {"googlebooks", "gutendex"} => Len(new) > Uncalled
    BY <1>3, <1>5, <1>8 DEF Placed, old, Documented
  <2>4. ASSUME at'[c] \in Documented, NEW i \in DOMAIN new, i > Uncalled PROVE new[i].source \in Passed(at'[c])
    <3>1. CASE at'[c] = "openlibrary"
      BY <1>3, <1>8, <2>2, <2>4, <3>1
    <3>2. CASE at'[c] # "openlibrary"
      <4>1. at[c] \in {"openlibrary", "googlebooks"} /\ at'[c] \in {"googlebooks", "gutendex"}
        BY <1>5, <2>4, <3>2 DEF Documented
      <4>2. i \in 1..Len(old) => new[i].source \in Passed(at[c])
        BY <1>3, <2>4, <4>1 DEF Placed, old, Documented
      <4>3. i = Len(old) + 1 => new[i].source = at[c]
        BY <1>3, <4>1 DEF Documented
      <4>4. i \in 1..Len(old) \/ i = Len(old) + 1
        BY <1>3, <2>4
      <4> QED BY <1>5, <4>1, <4>2, <4>3, <4>4 DEF Passed
    <3> QED BY <3>1, <3>2
  <2>5. Uncalled' = Uncalled
    BY DEF Uncalled
  <2>6. at'[c] \in Documented => Len(new) >= Uncalled
    BY <1>3, <1>8, <2>2, <2>3 DEF Documented
  <2> QED BY <1>5, <2>1, <2>4, <2>5, <2>6 DEF Placed, new
<1>11. ASSUME NEW s
       PROVE  Told(c, s)' <=> Told(c, s) \/ (at[c] \in Documented /\ s = at[c] /\ row.outcome # "skipped")
  <2>1. Told(c, s)' <=> \E i \in 1..Len(old) + 1 : i > Uncalled /\ new[i].source = s /\ new[i].outcome # "skipped"
    BY <1>3 DEF Told, Uncalled, new
  <2>2. Told(c, s) <=> \E i \in 1..Len(old) : i > Uncalled /\ old[i].source = s /\ old[i].outcome # "skipped"
    BY <1>3 DEF Told, old
  <2>3. Told(c, s)' <=> Told(c, s) \/ (Len(old) + 1 > Uncalled /\ row.source = s /\ row.outcome # "skipped")
    BY <1>3, <2>1, <2>2
  <2>4. Len(old) + 1 > Uncalled <=> at[c] \in Documented
    <3>1. at[c] \in Documented => Len(old) >= Uncalled
      BY DEF Placed, old
    <3>2. at[c] \notin Documented => Len(old) < Uncalled
      BY <1>9 DEF Sources
    <3> QED BY <1>3, <1>8, <3>1, <3>2
  <2> QED BY <2>3, <2>4
<1>12. ASSUME NEW e PROVE e \in Range(new) <=> e \in Range(old) \/ e = row
  <2>1. e \in Range(new) <=> \E i \in 1..Len(old) + 1 : e = new[i]
    BY <1>3 DEF Range
  <2>2. e \in Range(old) <=> \E i \in 1..Len(old) : e = old[i]
    BY <1>3 DEF Range
  <2> QED BY <1>3, <2>1, <2>2
<1>13. at[c] \in Documented => ~Told(c, at[c])
  BY DEF Placed, Told, Passed, Documented
<1> QED BY <1>5, <1>6, <1>7, <1>10, <1>11, <1>12, <1>13 DEF old, new

\* What keeps the rows, the places and the calls keeps the invariant.
LEMMA CallsUntouched ==
  ASSUME CallsInv, UNCHANGED <<at, calling, attempts, asked, refused>>, stage = "failed" => stage' = "failed"
  PROVE  CallsInv'
<1>1. CallTypes' /\ \A c \in Candidates : Placed(c)' /\ AtSource(c)'
  BY DEF CallsInv, CallTypes, Placed, AtSource, Uncalled
<1>2. \A s : Awaited(s)' = Awaited(s) /\ Tellers(s)' = Tellers(s) /\ (RefusalTold(s)' <=> RefusalTold(s))
  BY DEF Awaited, Tellers, Told, Uncalled, RefusalTold
<1>3. CallsCounted => CallsCounted'
  BY <1>2 DEF CallsCounted
<1>4. \A s \in refused' : RefusalTold(s)'
  BY <1>2 DEF CallsInv
<1> QED BY <1>1, <1>3, <1>4 DEF CallsInv

\* A row that stands for no call: of a source that is skipped, of Goodreads, of
\* the retained payload.
LEMMA RowWithoutCall ==
  ASSUME ResolverAssumption, CallsInv, NEW c \in Candidates, NEW row \in Attempts,
         at[c] \in Sources \cup {"retained"}, at[c] \in Documented => row.source = at[c] /\ row.outcome = "skipped",
         Leave(c, row), calling' = calling \ {c}, c \in calling => at[c] = "goodreads",
         UNCHANGED <<asked, refused, stage>>
  PROVE  CallsInv'
<1>0. CallTypes /\ Placed(c) /\ (at[c] \in Documented => row.source = at[c])
  BY DEF CallsInv
<1>1. /\ at' \in [Candidates -> Places] /\ attempts' \in [Candidates -> Seq(Attempts)]
      /\ \A d \in Candidates \ {c} : at'[d] = at[d] /\ attempts'[d] = attempts[d]
      /\ at'[c] \notin {"waiting", "goodreads", at[c]}
      /\ Placed(c)'
      /\ \A s : Told(c, s)' <=> Told(c, s) \/ (at[c] \in Documented /\ s = at[c] /\ row.outcome # "skipped")
      /\ \A e : e \in Range(attempts'[c]) <=> e \in Range(attempts[c]) \/ e = row
  BY <1>0, LeaveAddsARow
<1>2. \A d \in Candidates : Placed(d)' /\ AtSource(d)'
  BY <1>1 DEF CallsInv, Placed, AtSource, Uncalled
<1>3. ASSUME NEW s \in Documented PROVE Awaited(s)' = Awaited(s) /\ Tellers(s)' = Tellers(s)
  <2>0. \A d \in Candidates : d # c => (Told(d, s)' <=> Told(d, s))
    BY <1>1 DEF Told, Uncalled
  <2>1. \A d \in Candidates : Told(d, s)' <=> Told(d, s)
    BY <1>1, <2>0
  <2>2. \A d \in Candidates : (d \in calling' /\ at'[d] = s) <=> (d \in calling /\ at[d] = s)
    BY <1>1, <1>3 DEF Documented
  <2> QED BY <2>1, <2>2 DEF Awaited, Tellers
<1>4. CallsCounted => CallsCounted'
  BY <1>3 DEF CallsCounted
<1>5. \A s \in refused : RefusalTold(s)'
  BY <1>1 DEF CallsInv, RefusalTold, Attempt, No
<1> QED BY <1>1, <1>2, <1>4, <1>5 DEF CallsInv, CallTypes

LEMMA AskKeepsCallsInv ==
  ASSUME ResolverAssumption, CallsInv, NEW c \in Candidates, Ask(c), stage' = stage
  PROVE  CallsInv'
<1>0. PICK p \in Documented : p = at[c]
  BY DEF Ask
<1>1. /\ p \in Documented /\ p \in Sources /\ c \notin calling
      /\ asked' = [asked EXCEPT ![p] = @ + 1] /\ calling' = calling \cup {c}
      /\ UNCHANGED <<at, attempts, refused>>
  BY <1>0 DEF Ask, Sources
<1>2. asked \in [Sources -> Nat] /\ Documented \subseteq Sources
  BY DEF CallsInv, CallTypes, Sources
<1>3. asked' \in [Sources -> Nat] /\ asked'[p] = asked[p] + 1 /\ \A s \in Documented : s # p => asked'[s] = asked[s]
  BY <1>1, <1>2
<1>4. \A d \in Candidates : Placed(d)' /\ AtSource(d)'
  BY <1>0, <1>1 DEF CallsInv, Placed, AtSource, Uncalled
<1>5. \A s : Tellers(s)' = Tellers(s)
  BY <1>1 DEF Tellers, Told, Uncalled
<1>6. \A s \in Documented : s # p => Awaited(s)' = Awaited(s)
  BY <1>0, <1>1 DEF Awaited
<1>7. Awaited(p)' = Awaited(p) \cup {c} /\ c \notin Awaited(p)
  BY <1>0, <1>1 DEF Awaited
<1>8. Cardinality(Awaited(p)') = Cardinality(Awaited(p)) + 1
  BY <1>7, CallSetsFinite, FS_AddElement
<1>9. CallsCounted => CallsCounted'
  <2> SUFFICES ASSUME CallsCounted, NEW s \in Documented
               PROVE  asked'[s] = Cardinality(Awaited(s)') + Cardinality(Tellers(s)')
    BY DEF CallsCounted
  <2>1. asked[s] = Cardinality(Awaited(s)) + Cardinality(Tellers(s)) /\ Tellers(s)' = Tellers(s)
    BY <1>5 DEF CallsCounted
  <2>2. CASE s # p
    BY <1>3, <1>6, <2>1, <2>2
  <2>3. CASE s = p
    <3>1. Cardinality(Awaited(p)) \in Nat /\ Cardinality(Tellers(p)) \in Nat
      BY CallSetsFinite, FS_CardinalityType
    <3> QED BY <1>3, <1>8, <2>1, <2>3, <3>1
  <2> QED BY <2>2, <2>3
<1>10. \A s \in refused' : RefusalTold(s)'
  BY <1>1 DEF CallsInv, RefusalTold, Attempt, No
<1>11. CallTypes'
  BY <1>1, <1>3 DEF CallsInv, CallTypes
<1> QED BY <1>4, <1>9, <1>10, <1>11 DEF CallsInv

\* The call that is awaited becomes the row that tells of it.
LEMMA AnswerKeepsCallsInv ==
  ASSUME ResolverAssumption, CallsInv, NEW c \in Candidates, NEW answer \in Answers, Answer(c, answer), stage' = stage
  PROVE  CallsInv'
<1>0. PICK p \in Documented : p = at[c]
  BY DEF Answer
<1> DEFINE row == Attempt(p, Outcome(answer))
<1>1. /\ p \in Documented /\ p \in Sources /\ c \in calling /\ calling' = calling \ {c} /\ asked' = asked
      /\ Leave(c, row)
      /\ refused' = IF answer = "quota" THEN refused \cup {p} ELSE refused
  BY <1>0 DEF Answer, Sources
<1>2. Outcome(answer) \in {"resolved", "no_match", "unavailable"} /\ (answer = "quota" => Outcome(answer) = "unavailable")
  BY DEF Outcome, Answers
<1>3. row \in Attempts /\ row.source = p /\ row.outcome # "skipped" /\ (answer = "quota" => row = Attempt(p, "unavailable"))
  BY <1>1, <1>2 DEF Attempt, Attempts, No, Outcomes
<1>4. CallTypes /\ Placed(c)
  BY DEF CallsInv
<1> HIDE DEF row
<1>5. /\ at' \in [Candidates -> Places] /\ attempts' \in [Candidates -> Seq(Attempts)]
      /\ \A d \in Candidates \ {c} : at'[d] = at[d] /\ attempts'[d] = attempts[d]
      /\ at'[c] \notin {"waiting", "goodreads", p}
      /\ Placed(c)'
      /\ \A s : Told(c, s)' <=> Told(c, s) \/ s = p
      /\ \A e : e \in Range(attempts'[c]) <=> e \in Range(attempts[c]) \/ e = row
      /\ ~Told(c, p)
  <2>1. at[c] \in Sources \cup {"retained"} /\ (at[c] \in Documented => row.source = at[c])
    BY <1>0, <1>1, <1>3
  <2>2. /\ at' \in [Candidates -> Places] /\ attempts' \in [Candidates -> Seq(Attempts)]
        /\ \A d \in Candidates \ {c} : at'[d] = at[d] /\ attempts'[d] = attempts[d]
        /\ at'[c] \notin {"waiting", "goodreads", at[c]}
        /\ Placed(c)'
        /\ \A s : Told(c, s)' <=> Told(c, s) \/ (at[c] \in Documented /\ s = at[c] /\ row.outcome # "skipped")
        /\ \A e : e \in Range(attempts'[c]) <=> e \in Range(attempts[c]) \/ e = row
        /\ at[c] \in Documented => ~Told(c, at[c])
    BY <1>1, <1>3, <1>4, <2>1, LeaveAddsARow
  <2> QED BY <1>0, <1>3, <2>2
<1>6. \A d \in Candidates : Placed(d)' /\ AtSource(d)'
  BY <1>1, <1>5 DEF CallsInv, Placed, AtSource, Uncalled
<1>7. \A d \in Candidates \ {c}, s \in Documented : Told(d, s)' <=> Told(d, s)
  BY <1>5 DEF Told, Uncalled
<1>8. \A s \in Documented : s # p => Awaited(s)' = Awaited(s) /\ Tellers(s)' = Tellers(s)
  <2> SUFFICES ASSUME NEW s \in Documented, s # p PROVE Awaited(s)' = Awaited(s) /\ Tellers(s)' = Tellers(s)
    OBVIOUS
  <2>1. \A d \in Candidates : Told(d, s)' <=> Told(d, s)
    BY <1>5, <1>7
  <2>2. c \notin Awaited(s) /\ c \notin calling'
    BY <1>0, <1>1 DEF Awaited
  <2> QED BY <1>1, <1>5, <2>1, <2>2 DEF Awaited, Tellers
<1>9. Awaited(p)' = Awaited(p) \ {c} /\ c \in Awaited(p)
  BY <1>0, <1>1, <1>5 DEF Awaited
<1>10. Tellers(p)' = Tellers(p) \cup {c} /\ c \notin Tellers(p)
  BY <1>1, <1>5, <1>7 DEF Tellers
<1>11. /\ Cardinality(Awaited(p)') = Cardinality(Awaited(p)) - 1
       /\ Cardinality(Tellers(p)') = Cardinality(Tellers(p)) + 1
       /\ Cardinality(Awaited(p)) \in Nat /\ Cardinality(Tellers(p)) \in Nat
  <2>1. IsFiniteSet(Awaited(p)) /\ IsFiniteSet(Tellers(p))
    BY CallSetsFinite
  <2>2. Cardinality(Awaited(p)) \in Nat /\ Cardinality(Tellers(p)) \in Nat
    BY <2>1, FS_CardinalityType
  <2>3. Cardinality(Awaited(p)') = Cardinality(Awaited(p)) - 1
    <3>1. Cardinality(Awaited(p) \ {c}) = Cardinality(Awaited(p)) - 1
      BY <1>9, <2>1, FS_RemoveElement
    <3> QED BY <1>9, <3>1
  <2>4. Cardinality(Tellers(p)') = Cardinality(Tellers(p)) + 1
    BY <1>10, <2>1, FS_AddElement
  <2> QED BY <2>2, <2>3, <2>4
<1>12. CallsCounted => CallsCounted'
  <2> SUFFICES ASSUME CallsCounted, NEW s \in Documented
               PROVE  asked'[s] = Cardinality(Awaited(s)') + Cardinality(Tellers(s)')
    BY DEF CallsCounted
  <2>1. asked'[s] = Cardinality(Awaited(s)) + Cardinality(Tellers(s))
    BY <1>1 DEF CallsCounted
  <2>2. CASE s # p
    BY <1>8, <2>1, <2>2
  <2>3. CASE s = p
    BY <1>11, <2>1, <2>3
  <2> QED BY <2>2, <2>3
<1>13. \A s \in refused : RefusalTold(s)'
  BY <1>5 DEF CallsInv, RefusalTold, Attempt, No
<1>14. answer = "quota" => RefusalTold(p)'
  BY <1>3, <1>5 DEF RefusalTold, Attempt, No
<1>15. \A s \in refused' : RefusalTold(s)'
  BY <1>1, <1>13, <1>14
<1>16. CallTypes'
  BY <1>1, <1>5 DEF CallsInv, CallTypes
<1> QED BY <1>6, <1>12, <1>15, <1>16 DEF CallsInv

LEMMA ResolveKeepsCallsInv ==
  ASSUME ResolverAssumption, CallsInv, NEW c \in Candidates, Resolve(c)
  PROVE  CallsInv'
<1>1. CASE Retained(c)
  <2>1. PICK outcome \in Outcomes : Leave(c, Promoted(c, outcome))
    BY <1>1 DEF Retained, Outcomes
  <2>2. Promoted(c, outcome) \in Attempts
    BY DEF Promoted, Attempts, ResolverAssumption
  <2>3. at[c] = "retained" /\ c \notin calling
    BY <1>1 DEF Retained, CallsInv, AtSource, Sources, Documented
  <2>4. calling' = calling \ {c} /\ UNCHANGED <<asked, refused, stage>> /\ "retained" \notin Documented
    BY <1>1, <2>3 DEF Retained, progress, Documented
  <2> QED BY <2>1, <2>2, <2>3, <2>4, RowWithoutCall
<1>2. CASE Skip(c)
  <2>1. Attempt(at[c], "skipped") \in Attempts
    BY <1>2 DEF Skip, Attempt, Attempts, No, Outcomes, Sources
  <2>2. at[c] \in Sources /\ c \notin calling /\ Leave(c, Attempt(at[c], "skipped"))
    BY <1>2 DEF Skip, Sources
  <2>3. calling' = calling \ {c} /\ UNCHANGED <<asked, refused, stage>>
    BY <1>2, <2>2 DEF Skip, progress
  <2>4. Attempt(at[c], "skipped").source = at[c] /\ Attempt(at[c], "skipped").outcome = "skipped"
    BY DEF Attempt
  <2> QED BY <2>1, <2>2, <2>3, <2>4, RowWithoutCall
<1>3. CASE Ask(c)
  BY <1>3, AskKeepsCallsInv DEF Ask, progress
<1>4. ASSUME GoodreadsSkip(c) \/ \E answer \in Answers : GoodreadsAnswer(c, answer) PROVE CallsInv'
  <2>1. PICK outcome \in Outcomes : Leave(c, Attempt("goodreads", outcome))
    BY <1>4 DEF GoodreadsSkip, GoodreadsAnswer, Outcome, Outcomes
  <2>2. Attempt("goodreads", outcome) \in Attempts
    BY DEF Attempt, Attempts, No, Sources
  <2>3. at[c] = "goodreads" /\ "goodreads" \in Sources \ Documented
    BY <1>4 DEF GoodreadsSkip, GoodreadsAnswer, Sources, Documented
  <2>4. calling' = calling \ {c} /\ UNCHANGED <<asked, refused, stage>>
    BY <1>4 DEF GoodreadsSkip, GoodreadsAnswer, progress
  <2> QED BY <2>1, <2>2, <2>3, <2>4, RowWithoutCall
<1>5. CASE GoodreadsAsk(c)
  <2>1. /\ at[c] = "goodreads" /\ "goodreads" \in Sources \ Documented
        /\ calling' = calling \cup {c} /\ asked' = [asked EXCEPT !["goodreads"] = @ + 1]
        /\ UNCHANGED <<at, attempts, refused, stage>>
    BY <1>5 DEF GoodreadsAsk, progress, Sources, Documented
  <2>2. asked' \in [Sources -> Nat] /\ \A s \in Documented : asked'[s] = asked[s]
    BY <2>1 DEF CallsInv, CallTypes
  <2>3. CallTypes' /\ \A d \in Candidates : Placed(d)' /\ AtSource(d)'
    BY <2>1, <2>2 DEF CallsInv, CallTypes, Placed, AtSource, Uncalled
  <2>4. \A s \in Documented : Awaited(s)' = Awaited(s) /\ Tellers(s)' = Tellers(s)
    BY <2>1 DEF Awaited, Tellers, Told, Uncalled
  <2>5. CallsCounted => CallsCounted'
    BY <2>2, <2>4 DEF CallsCounted
  <2>6. \A s \in refused' : RefusalTold(s)'
    BY <2>1 DEF CallsInv, RefusalTold, Attempt, No
  <2> QED BY <2>1, <2>3, <2>5, <2>6 DEF CallsInv
<1>6. ASSUME NEW answer \in Answers, Answer(c, answer) PROVE CallsInv'
  <2>1. stage' = stage
    BY <1>6 DEF Answer, progress
  <2> QED BY <1>6, <2>1, AnswerKeepsCallsInv
<1> QED BY <1>1, <1>2, <1>3, <1>4, <1>5, <1>6 DEF Resolve

LEMMA StepKeepsCallsInv == ResolverAssumption /\ CallsInv /\ [Next]_vars => CallsInv'
<1> SUFFICES ASSUME ResolverAssumption, CallsInv, [Next]_vars PROVE CallsInv'
  OBVIOUS
<1>1. CASE NextBatch \/ Account \/ AccountFails \/ Deliver \/ End \/ Trip \/ UNCHANGED vars
  <2>1. UNCHANGED <<at, calling, attempts, asked, refused>> /\ (stage = "failed" => stage' = "failed")
    BY <1>1 DEF NextBatch, Account, AccountFails, Deliver, End, Trip, vars, resolution, progress
  <2> QED BY <2>1, CallsUntouched
<1>2. CASE Raise
  <2>1. stage' = "failed" /\ calling' = {} /\ UNCHANGED <<at, attempts, asked, refused>>
    BY <1>2 DEF Raise
  <2>2. CallTypes' /\ \A c \in Candidates : Placed(c)' /\ AtSource(c)'
    BY <2>1 DEF CallsInv, CallTypes, Placed, AtSource, Uncalled
  <2>3. \A s \in refused' : RefusalTold(s)'
    BY <2>1 DEF CallsInv, RefusalTold, Attempt, No
  <2> QED BY <2>1, <2>2, <2>3 DEF CallsInv
<1>3. ASSUME NEW c \in Candidates, Start(c) PROVE CallsInv'
  <2> DEFINE place == IF WithGoodreads THEN "goodreads" ELSE "retained"
  <2>1. /\ at[c] = "waiting" /\ at' = [at EXCEPT ![c] = place]
        /\ UNCHANGED <<calling, attempts, asked, refused, stage>>
    BY <1>3 DEF Start, progress
  <2>2. at' \in [Candidates -> Places] /\ at'[c] = place /\ \A d \in Candidates : d # c => at'[d] = at[d]
    BY <2>1 DEF CallsInv, CallTypes, Places
  <2>3. c \notin calling /\ Len(attempts[c]) = 0 /\ "waiting" \notin Documented /\ place \notin Documented
    BY <2>1 DEF CallsInv, AtSource, Placed, Sources, Documented
  <2>4. Placed(c)' /\ AtSource(c)'
    BY <2>1, <2>2, <2>3 DEF Placed, AtSource, Uncalled, Documented
  <2>5. \A d \in Candidates : d # c => Placed(d)' /\ AtSource(d)'
    BY <2>1, <2>2 DEF CallsInv, Placed, AtSource, Uncalled
  <2>6. \A s \in Documented : Awaited(s)' = Awaited(s) /\ Tellers(s)' = Tellers(s)
    BY <2>1, <2>2, <2>3 DEF Awaited, Tellers, Told, Uncalled
  <2>7. CallsCounted => CallsCounted'
    BY <2>1, <2>6 DEF CallsCounted
  <2>8. \A s \in refused' : RefusalTold(s)'
    BY <2>1 DEF CallsInv, RefusalTold, Attempt, No
  <2>9. CallTypes'
    BY <2>1, <2>2 DEF CallsInv, CallTypes
  <2> QED BY <2>1, <2>4, <2>5, <2>7, <2>8, <2>9 DEF CallsInv
<1> QED BY <1>1, <1>2, <1>3, ResolveKeepsCallsInv DEF Next

(***************************************************************************)
(* The theorems.                                                           *)
(***************************************************************************)

\* The invariant above holds in every reachable state (resolver.py, Budget).
THEOREM BudgetsInvariant == Spec => []BudgetInv
BY ResolverAssumption, InitBudgetInv, StepKeepsBudgetInv, PTL DEF Spec

\* However many candidates are in flight together, a run makes no more calls
\* of a source than its allowance.
THEOREM BudgetsHold == Spec => []WithinBudget
<1>1. ResolverAssumption /\ BudgetInv => WithinBudget
  <2> SUFFICES ASSUME ResolverAssumption, BudgetInv, NEW s \in Documented PROVE asked[s] <= Limit[s]
    BY DEF WithinBudget
  <2>1. asked[s] \in Nat /\ spent[s] \in Nat /\ Limit[s] \in Nat
    BY DEF ResolverAssumption, BudgetInv, BudgetTypes, Sources
  <2> QED BY <2>1 DEF BudgetInv, CallsArePaid
<1> QED BY <1>1, ResolverAssumption, BudgetsInvariant, PTL

\* A source that said its allowance is spent is asked nothing more in the run,
\* whatever the candidates in flight were about to do.
THEOREM RefusedIsLeftAlone == Spec => NoneAfterRefusal
<1>1. ResolverAssumption /\ BudgetInv /\ [Next]_vars => [\A s \in refused : asked'[s] = asked[s]]_vars
  BY StepKeepsBudgetInv
<1> QED BY <1>1, ResolverAssumption, BudgetsInvariant, PTL DEF Spec, NoneAfterRefusal
\* Every call that a run made of a documented source is awaited still or has a
\* row of its own that is not "skipped", never two and never none, and a source
\* that refused has an "unavailable" row: whatever the candidates in flight.
THEOREM CallsAccounted == Spec => []CallsAreAccounted
<1>1. CallsInv => CallsAreAccounted
  BY DEF CallsInv, CallsCounted, Awaited, Tellers, RefusalTold, CallsAreAccounted
<1>2. Spec => []CallsInv
  BY ResolverAssumption, InitCallsInv, StepKeepsCallsInv, PTL DEF Spec
<1> QED BY <1>1, <1>2, PTL

(***************************************************************************)
(* The requests to one source (SourceRequests): the invariant.             *)
(***************************************************************************)

Locks == [loop : Nat, bound : Nat \cup {Unset}, holder : Calls \cup {Unset}]
Statuses == {Unset, 429, 500}
Rows == [at : {"between", "holding", "waiting", "done"}, attempt : Nat, sleep : Nat,
         last_status : Statuses, refused : BOOLEAN, result : Results \cup Strange \cup {Unset}]

RequestRows == bucket \in Nat /\ since \in Nat /\ lock \in Locks /\ call \in [Calls -> Rows]

\* What is left to wait and what has passed since the last request are Interval.
BucketIsRest == bucket + since = Interval

\* The sleeper inside the bucket holds the lock of its loop, and sleeps for as
\* long as the bucket says at least.
HolderSleeps ==
  \A c \in Calls : At(c, "holding") => lock.holder = c /\ lock.loop = Batch[c] /\ bucket <= call[c].sleep

\* A batch begins when those before it have ended.
InTurn == \A c, d \in Calls : At(c, "holding") /\ Batch[d] < Batch[c] => At(d, "done")

\* A lock is bound to the loop it was made for, or to none yet.
BoundToItsLoop == lock.bound \in {Unset, lock.loop}

\* A row of a call that is over: it ended as a resolver knows and by what it was
\* told, or with an error that is not caught.
Fair(x) == x.result = "error" \/ (x.result \in Results /\ (x.refused => x.result = "quota"))

\* A call that was cut off was so by such an error.
EndedWell ==
  \A c \in Calls : At(c, "done") =>
    \/ Fair(call[c])
    \/ call[c].result = "cancelled" /\ \E d \in Calls : At(d, "done") /\ call[d].result = "error"

RequestsInv == RequestRows /\ BucketIsRest /\ HolderSleeps /\ InTurn /\ BoundToItsLoop /\ EndedWell

\* What a call may become: its row is typed, and well if it is over.
Well(x) == x \in Rows /\ (x.at = "done" => Fair(x))

LEMMA RequestNumbers ==
  ASSUME RequestsAssumption
  PROVE  /\ Interval \in Nat \ {0} /\ MaxAttempts \in Nat \ {0} /\ MaxDelay \in Nat \ {0}
         /\ BaseDelay \in Nat /\ Slack \in Nat /\ Unset \notin Calls /\ Unset \notin Nat
         /\ Batch \in [Calls -> Nat \ {0}]
BY DEF RequestsAssumption

LEMMA InitRequestsInv ==
  ASSUME RequestsAssumption, RequestsInit PROVE RequestsInv
BY RequestNumbers DEF RequestsInit, RequestsInv, RequestRows, Rows, Statuses, Locks, BucketIsRest, HolderSleeps, InTurn,
   BoundToItsLoop, EndedWell, At, Results

\* The lock a call meets is the one there is, or a new one of its loop.
LEMMA LockIsOfLoop ==
  ASSUME RequestsAssumption, RequestsInv, NEW c \in Calls
  PROVE  LockOf(c) \in Locks /\ LockOf(c).loop = Batch[c] /\ LockOf(c).bound \in {Unset, LockOf(c).loop}
BY RequestNumbers DEF LockOf, RequestsInv, RequestRows, Locks, BoundToItsLoop

\* A call that finds the lock free finds nobody asleep inside the bucket.
LEMMA FreeIsAlone ==
  ASSUME RequestsAssumption, RequestsInv, NEW c \in Calls, Due(c), Free(c), NEW d \in Calls
  PROVE  ~At(d, "holding")
<1> SUFFICES ASSUME At(d, "holding") PROVE FALSE
  OBVIOUS
<1>1. lock.holder = d /\ lock.loop = Batch[d] /\ d # Unset
  BY RequestNumbers DEF RequestsInv, HolderSleeps
<1>2. Batch[c] # Batch[d]
  BY <1>1 DEF Free, LockOf
<1>3. CASE Batch[d] < Batch[c]
  BY <1>3 DEF Due, At
<1>4. CASE Batch[c] < Batch[d]
  BY <1>4 DEF Due, At, RequestsInv, InTurn
<1>5. Batch[c] \in Nat /\ Batch[d] \in Nat
  BY RequestNumbers
<1> QED BY <1>2, <1>3, <1>4, <1>5

\* What the fields of a row range over, where only some of the places matter.
LEMMA RowFields ==
  \E A, R : /\ {"between", "holding", "waiting"} \subseteq A
            /\ Rows = [at : A, attempt : Nat, sleep : Nat, last_status : Statuses, refused : BOOLEAN, result : R]
<1> DEFINE A == {"between", "holding", "waiting", "done"}
           R == Results \cup Strange \cup {Unset}
<1>1. /\ {"between", "holding", "waiting"} \subseteq A
      /\ Rows = [at : A, attempt : Nat, sleep : Nat, last_status : Statuses, refused : BOOLEAN, result : R]
  BY DEF Rows
<1> HIDE DEF A, R
<1> QED BY <1>1

\* A call that goes to the gate or to the source is not over, nor one that is
\* tried again.
Gone(r, place, sleep) == [r EXCEPT !.at = place, !.sleep = sleep]

LEMMA RowGoesOn ==
  ASSUME NEW r \in Rows, NEW place \in {"between", "holding", "waiting"}, NEW sleep \in Nat
  PROVE  Well(Gone(r, place, sleep)) /\ Gone(r, place, sleep).at = place /\ Gone(r, place, sleep).sleep = sleep
<1>1. PICK A, R : /\ {"between", "holding", "waiting"} \subseteq A
                  /\ Rows = [at : A, attempt : Nat, sleep : Nat, last_status : Statuses, refused : BOOLEAN, result : R]
  BY RowFields
<1> DEFINE x == Gone(r, place, sleep)
<1>2. x \in Rows /\ x.at = place /\ x.sleep = sleep
  BY <1>1 DEF Gone
<1> HIDE DEF x
<1>3. Well(x) /\ x.at = place /\ x.sleep = sleep
  BY <1>2 DEF Well
<1> QED BY <1>3 DEF x

LEMMA RowAgain ==
  ASSUME NEW r \in Rows, NEW wait \in Nat, NEW told \in Statuses, NEW refusal \in BOOLEAN
  PROVE  Well(Again(r, wait, told, refusal)) /\ Again(r, wait, told, refusal).at = "between"
<1>1. PICK A, R : /\ {"between", "holding", "waiting"} \subseteq A
                  /\ Rows = [at : A, attempt : Nat, sleep : Nat, last_status : Statuses, refused : BOOLEAN, result : R]
  BY RowFields
<1>2. PICK n \in Nat : n = r.attempt + 1
  BY <1>1
<1> DEFINE x == Again(r, wait, told, refusal)
<1>3. x = [r EXCEPT !.at = "between", !.sleep = wait, !.attempt = n, !.last_status = told, !.refused = refusal]
  BY <1>1, <1>2 DEF Again
<1>4. x \in Rows /\ x.at = "between"
  BY <1>1, <1>3
<1> HIDE DEF x
<1>5. Well(x) /\ x.at = "between"
  BY <1>4 DEF Well
<1> QED BY <1>5 DEF x

\* One call moves to a row that is well.
Moves(c, x) == call' = [call EXCEPT ![c] = x]

LEMMA MovedRows ==
  ASSUME RequestsInv, NEW c \in Calls, ~At(c, "done"), NEW x, Well(x), Moves(c, x)
  PROVE  call' \in [Calls -> Rows] /\ call'[c] = x /\ (\A d \in Calls : d # c => call'[d] = call[d]) /\ EndedWell'
<1>1. x \in Rows /\ call \in [Calls -> Rows]
  BY DEF Well, RequestsInv, RequestRows
<1>2. call' \in [Calls -> Rows] /\ call'[c] = x /\ \A d \in Calls : d # c => call'[d] = call[d]
  BY <1>1 DEF Moves
<1>3. \A d \in Calls : At(d, "done") => At(d, "done")' /\ call'[d] = call[d]
  BY <1>2 DEF At
<1>4. EndedWell'
  BY <1>2, <1>3 DEF Well, RequestsInv, EndedWell, At
<1> QED BY <1>2, <1>4

\* A call that was not inside the bucket and is not now leaves it as it was.
LEMMA OutsideKeeps ==
  ASSUME RequestsAssumption, RequestsInv, NEW c \in Calls, NEW x, Well(x), Moves(c, x), UNCHANGED <<bucket, since>>,
         ~At(c, "holding"), ~At(c, "done"), x.at # "holding",
         lock' \in Locks, lock'.bound \in {Unset, lock'.loop},
         lock'.holder = lock.holder /\ lock'.loop = lock.loop
  PROVE  RequestsInv'
<1>1. call' \in [Calls -> Rows] /\ call'[c] = x /\ (\A d \in Calls : d # c => call'[d] = call[d]) /\ EndedWell'
  BY MovedRows
<1> QED BY <1>1 DEF RequestsInv, RequestRows, BucketIsRest, HolderSleeps, InTurn, BoundToItsLoop, At

\* The request goes out when nobody else is inside the bucket.
LEMMA PermitKeeps ==
  ASSUME RequestsAssumption, RequestsInv, NEW c \in Calls, ~At(c, "done"),
         \A d \in Calls : d # c => ~At(d, "holding"),
         NEW l \in Locks, l.bound \in {Unset, l.loop}, Permit(c, l)
  PROVE  RequestsInv'
<1> DEFINE x == Gone(call[c], "waiting", 0)
<1>1. Well(x) /\ x.at = "waiting"
  <2>1. call[c] \in Rows /\ 0 \in Nat
    BY DEF RequestsInv, RequestRows
  <2> QED BY <2>1, RowGoesOn
<1>2. Moves(c, x)
  BY DEF Gone, Permit, Moves, RequestsInv, RequestRows
<1> HIDE DEF x
<1>3. call' \in [Calls -> Rows] /\ call'[c] = x /\ (\A d \in Calls : d # c => call'[d] = call[d]) /\ EndedWell'
  BY <1>1, <1>2, MovedRows
<1>4. \A d \in Calls : ~At(d, "holding")'
  BY <1>1, <1>3 DEF At
<1>5. lock' \in Locks /\ lock'.bound \in {Unset, lock'.loop}
  BY DEF Permit, Locks
<1>6. bucket' \in Nat /\ since' \in Nat /\ bucket' + since' = Interval
  BY RequestNumbers DEF Permit, Schedule
<1> QED BY <1>3, <1>4, <1>5, <1>6 DEF RequestsInv, RequestRows, BucketIsRest, HolderSleeps, InTurn, BoundToItsLoop

\* A request that goes out is far enough from the one before it.
LEMMA AcquireKeeps ==
  ASSUME RequestsAssumption, RequestsInv, NEW c \in Calls, Acquire(c)
  PROVE  /\ RequestsInv'
         /\ \A d \in Calls : Sends(d) => since + Slack >= Interval
<1>1. Due(c) /\ Free(c) /\ ~At(c, "done") /\ ~At(c, "holding")
  BY DEF Acquire, Due, At
<1>2. \A d \in Calls : ~At(d, "holding")
  BY <1>1, FreeIsAlone
<1>3. CASE bucket = 0 /\ Permit(c, LockOf(c))
  <2>1. RequestsInv'
    BY <1>1, <1>2, <1>3, LockIsOfLoop, PermitKeeps
  <2>2. since + Slack >= Interval
    BY <1>3, RequestNumbers DEF RequestsInv, RequestRows, BucketIsRest
  <2> QED BY <2>1, <2>2
<1>4. CASE /\ bucket > 0
           /\ lock' = [LockOf(c) EXCEPT !.holder = c]
           /\ call' = [call EXCEPT ![c].at = "holding", ![c].sleep = bucket]
           /\ UNCHANGED <<bucket, since>>
  <2> DEFINE x == Gone(call[c], "holding", bucket)
  <2>1. Well(x) /\ x.at = "holding" /\ x.sleep = bucket
    <3>1. call[c] \in Rows /\ bucket \in Nat
      BY DEF RequestsInv, RequestRows
    <3> QED BY <3>1, RowGoesOn
  <2>2. Moves(c, x)
    BY <1>4 DEF Gone, Moves, RequestsInv, RequestRows
  <2> HIDE DEF x
  <2>3. call' \in [Calls -> Rows] /\ call'[c] = x /\ (\A d \in Calls : d # c => call'[d] = call[d]) /\ EndedWell'
    BY <1>1, <2>1, <2>2, MovedRows
  <2>4. lock' \in Locks /\ lock'.bound \in {Unset, lock'.loop} /\ lock'.holder = c /\ lock'.loop = Batch[c]
    BY <1>4, LockIsOfLoop DEF Locks
  <2>5. \A d \in Calls : At(d, "holding")' => d = c
    BY <1>2, <2>3 DEF At
  <2>6. \A d \in Calls : At(d, "done") => At(d, "done")'
    BY <1>1, <2>3 DEF At
  <2>7. HolderSleeps'
    <3>1. bucket' <= call'[c].sleep
      BY <1>4, <2>1, <2>3 DEF RequestsInv, RequestRows
    <3> QED BY <2>4, <2>5, <3>1 DEF HolderSleeps
  <2>8. InTurn'
    BY <1>1, <2>5, <2>6 DEF InTurn, Due
  <2>9. \A d \in Calls : ~Sends(d)
    BY <2>1, <2>3 DEF Sends, At
  <2> QED BY <1>4, <2>3, <2>4, <2>7, <2>8, <2>9 DEF RequestsInv, RequestRows, BucketIsRest, BoundToItsLoop
<1> QED BY <1>3, <1>4 DEF Acquire

LEMMA SlotKeeps ==
  ASSUME RequestsAssumption, RequestsInv, NEW c \in Calls, Slot(c)
  PROVE  RequestsInv' /\ since + Slack >= Interval
<1>1. At(c, "holding") /\ call[c].sleep <= Slack /\ Permit(c, lock) /\ ~At(c, "done")
  BY DEF Slot, At
<1>2. \A d \in Calls : d # c => ~At(d, "holding")
  BY <1>1 DEF RequestsInv, HolderSleeps
<1>3. RequestsInv'
  BY <1>1, <1>2, PermitKeeps DEF RequestsInv, RequestRows, BoundToItsLoop
<1>4. bucket <= call[c].sleep /\ call[c].sleep \in Nat
  BY <1>1 DEF RequestsInv, RequestRows, Rows, HolderSleeps
<1>5. since + Slack >= Interval
  BY <1>1, <1>4, RequestNumbers DEF RequestsInv, RequestRows, BucketIsRest
<1> QED BY <1>3, <1>5

\* A lock of a loop that is gone is never contended for.
LEMMA ContendKeeps ==
  ASSUME RequestsAssumption, RequestsInv, NEW c \in Calls, Contend(c)
  PROVE  RequestsInv' /\ call' = call
<1>1. lock.loop = Batch[c] /\ lock.holder # Unset /\ lock.bound # Batch[c]
  BY DEF Contend, Free, LockOf
<1>2. lock.bound = Unset
  BY <1>1 DEF RequestsInv, BoundToItsLoop
<1>3. call' = call /\ lock' = [lock EXCEPT !.bound = Batch[c]] /\ UNCHANGED <<bucket, since>>
  BY <1>2 DEF Contend
<1>4. lock' \in Locks /\ lock'.bound = lock'.loop /\ lock'.holder = lock.holder /\ lock'.loop = lock.loop
  BY <1>1, <1>3, RequestNumbers DEF RequestsInv, RequestRows, Locks
<1> QED BY <1>3, <1>4 DEF RequestsInv, RequestRows, BucketIsRest, HolderSleeps, InTurn, BoundToItsLoop, EndedWell, At

LEMMA UnpacedKeeps ==
  ASSUME RequestsAssumption, RequestsInv, NEW c \in Calls, Unpaced(c)
  PROVE  RequestsInv'
<1> DEFINE x == [call[c] EXCEPT !.at = "waiting"]
<1>1. Well(x) /\ x.at = "waiting"
  BY DEF RequestsInv, RequestRows, Rows, Well
<1>2. Moves(c, x)
  BY DEF Unpaced, Moves, RequestsInv, RequestRows
<1>3. ~At(c, "holding") /\ ~At(c, "done") /\ lock' = lock /\ UNCHANGED <<bucket, since>>
  BY DEF Unpaced, Due, At
<1>4. lock \in Locks /\ lock.bound \in {Unset, lock.loop}
  BY DEF RequestsInv, RequestRows, BoundToItsLoop
<1> HIDE DEF x
<1> QED BY <1>1, <1>2, <1>3, <1>4, OutsideKeeps

\* The waits are numbers.
LEMMA WaitsAreNumbers ==
  ASSUME RequestsAssumption, NEW c, NEW answer \in Responses
  PROVE  \A wait \in Waits(c, answer) : wait \in Nat
<1>1. CASE answer.after # Unset
  <2>1. answer.after \in Nat /\ MaxDelay \in Nat
    BY <1>1, RequestNumbers DEF Responses, RequestsAssumption
  <2>2. Min({answer.after, MaxDelay}) \in Nat
    BY <2>1 DEF Min
  <2> QED BY <1>1, <2>2 DEF Waits
<1>2. CASE answer.after = Unset
  BY <1>2 DEF Waits
<1> QED BY <1>1, <1>2

\* What an answer makes of a call: over, or between two attempts.
LEMMA AnswerMoves ==
  ASSUME RequestsAssumption, RequestsInv, NEW c \in Calls, Respond(c)
  PROVE  \E x : Well(x) /\ Moves(c, x) /\ x.at \in {"between", "done"}
<1>1. PICK answer \in Responses : Decided(c, answer) \/ Retry(c, answer)
  BY DEF Respond
<1>2. call[c] \in Rows
  BY DEF RequestsInv, RequestRows
<1>3. ASSUME NEW refusal \in BOOLEAN, NEW result \in Results \cup {"error"},
             result = "error" \/ (refusal => result = "quota"), call' = Ended(c, refusal, result)
      PROVE  \E x : Well(x) /\ Moves(c, x) /\ x.at \in {"between", "done"}
  <2> DEFINE x == [at |-> "done", attempt |-> 0, sleep |-> 0, last_status |-> Unset,
                   refused |-> refusal, result |-> result]
  <2>1. x \in Rows
    BY DEF Rows, Statuses, Strange
  <2>2. Well(x) /\ Moves(c, x) /\ x.at = "done"
    BY <1>3, <2>1 DEF Well, Fair, Moves, Ended
  <2> HIDE DEF x
  <2> QED BY <2>2
<1>4. CASE Decided(c, answer)
  <2>1. call[c].refused \in BOOLEAN
    BY <1>2 DEF Rows
  <2> QED BY <1>3, <1>4, <2>1 DEF Decided, Results
<1>5. CASE Retry(c, answer)
  <2>1. PICK refusal \in BOOLEAN : refusal = (call[c].refused /\ answer.kind = "plain")
    BY <1>2 DEF Rows
  <2>2. PICK s \in Statuses : s = LastStatus(c, answer) /\ (refusal => s = 429)
    <3>1. answer.kind \in {"lost", "plain", "down"} /\ call[c].last_status \in Statuses
      BY <1>2, <1>5 DEF Retry, Rows
    <3>0. 429 \in Statuses /\ 500 \in Statuses
      BY DEF Statuses
    <3>2. CASE answer.kind = "lost"
      <4>1. LastStatus(c, answer) = call[c].last_status
        BY <3>2 DEF LastStatus
      <4>2. ~refusal
        BY <2>1, <3>2
      <4> QED BY <3>1, <4>1, <4>2
    <3>3. CASE answer.kind = "plain"
      BY <3>0, <3>3 DEF LastStatus
    <3>4. CASE answer.kind = "down"
      <4>1. LastStatus(c, answer) = 500
        BY <3>4 DEF LastStatus
      <4>2. ~refusal
        BY <2>1, <3>4
      <4> QED BY <3>0, <4>1, <4>2
    <3> QED BY <3>1, <3>2, <3>3, <3>4
  <2>3. CASE call' = Ended(c, refusal, GivenUpAs(s))
    <3>1. GivenUpAs(s) \in Results /\ (refusal => GivenUpAs(s) = "quota")
      BY <2>2 DEF GivenUpAs, Results
    <3> QED BY <1>3, <2>3, <3>1
  <2>4. ASSUME NEW wait \in Waits(c, answer), call' = [call EXCEPT ![c] = Again(@, wait, s, refusal)]
        PROVE  \E x : Well(x) /\ Moves(c, x) /\ x.at \in {"between", "done"}
    <3>1. PICK x : x = Again(call[c], wait, s, refusal)
      OBVIOUS
    <3>2. Well(x) /\ x.at = "between"
      BY <1>2, <3>1, WaitsAreNumbers, RowAgain
    <3>3. Moves(c, x)
      BY <2>4, <3>1 DEF Moves
    <3> QED BY <3>2, <3>3
  <2>5. CASE \E wait \in Waits(c, answer) : call' = [call EXCEPT ![c] = Again(@, wait, s, refusal)]
    BY <2>4, <2>5
  <2>6. \/ \E wait \in Waits(c, answer) : call' = [call EXCEPT ![c] = Again(@, wait, s, refusal)]
        \/ call' = Ended(c, refusal, GivenUpAs(s))
    BY <1>5, <2>1, <2>2 DEF Retry
  <2> QED BY <2>3, <2>5, <2>6
<1> QED BY <1>1, <1>4, <1>5

LEMMA RespondKeeps ==
  ASSUME RequestsAssumption, RequestsInv, NEW c \in Calls, Respond(c)
  PROVE  RequestsInv' /\ \A d \in Calls : ~Sends(d)
<1>1. PICK x : Well(x) /\ Moves(c, x) /\ x.at \in {"between", "done"}
  BY AnswerMoves
<1>2. At(c, "waiting") /\ UNCHANGED <<bucket, lock, since>>
  BY DEF Respond
<1>3. lock \in Locks /\ lock.bound \in {Unset, lock.loop}
  BY DEF RequestsInv, RequestRows, BoundToItsLoop
<1>4. ~At(c, "holding") /\ ~At(c, "done") /\ x.at # "holding"
  BY <1>1, <1>2 DEF At
<1>5. RequestsInv'
  BY <1>1, <1>2, <1>3, <1>4, OutsideKeeps
<1>6. call'[c] = x /\ \A d \in Calls : d # c => call'[d] = call[d]
  BY <1>1, <1>4, MovedRows
<1> QED BY <1>1, <1>2, <1>5, <1>6 DEF Sends, At

LEMMA TickKeeps ==
  ASSUME RequestsAssumption, RequestsInv, Tick
  PROVE  RequestsInv' /\ \A c \in Calls : ~Sends(c)
<1>1. \A n \in Nat : Less(n) \in Nat /\ \A m \in Nat : m <= n => Less(m) <= Less(n)
  BY DEF Less
<1>2. ASSUME NEW c \in Calls
      PROVE  call'[c] \in Rows /\ call'[c] = [call[c] EXCEPT !.sleep = Less(call[c].sleep)]
  <2>1. PICK n \in Nat : n = Less(call[c].sleep)
    BY <1>1 DEF RequestsInv, RequestRows, Rows
  <2>2. call'[c] = [call[c] EXCEPT !.sleep = n]
    BY <2>1 DEF Tick
  <2>3. call'[c] \in Rows
    BY <2>2 DEF RequestsInv, RequestRows, Rows
  <2> QED BY <2>1, <2>2, <2>3
<1>3. \A c \in Calls : /\ call'[c].at = call[c].at /\ call'[c].sleep = Less(call[c].sleep)
                       /\ call'[c].refused = call[c].refused /\ call'[c].result = call[c].result
  <2> TAKE c \in Calls
  <2>1. call[c] \in Rows /\ call'[c] = [call[c] EXCEPT !.sleep = Less(call[c].sleep)]
    BY <1>2 DEF RequestsInv, RequestRows
  <2> QED BY <2>1 DEF Rows
<1>4. call' \in [Calls -> Rows]
  BY <1>2 DEF Tick
<1>5. bucket' \in Nat /\ since' \in Nat /\ bucket' + since' = Interval
  <2>1. since' = IF since + 1 <= Interval THEN since + 1 ELSE Interval
    BY RequestNumbers DEF Tick, Min, RequestsInv, RequestRows
  <2> QED BY <2>1, RequestNumbers DEF Tick, Less, RequestsInv, RequestRows, BucketIsRest
<1>6. HolderSleeps'
  <2> SUFFICES ASSUME NEW c \in Calls, At(c, "holding")'
               PROVE  lock'.holder = c /\ lock'.loop = Batch[c] /\ bucket' <= call'[c].sleep
    BY DEF HolderSleeps
  <2>1. lock.holder = c /\ lock.loop = Batch[c] /\ bucket <= call[c].sleep
    BY <1>3 DEF At, RequestsInv, HolderSleeps
  <2>2. bucket \in Nat /\ call[c].sleep \in Nat
    BY DEF RequestsInv, RequestRows, Rows
  <2> QED BY <1>1, <1>3, <2>1, <2>2 DEF Tick
<1>7. \A c \in Calls, place \in {"holding", "done", "waiting"} : At(c, place)' <=> At(c, place)
  BY <1>3 DEF At
<1>8. InTurn' /\ EndedWell'
  <2>1. InTurn'
    BY <1>3, <1>7 DEF RequestsInv, InTurn
  <2>2. \A c \in Calls : Fair(call[c]) => Fair(call'[c])
    BY <1>3 DEF Fair
  <2>3. \A c \in Calls : (At(c, "done"))' => At(c, "done")
    BY <1>7
  <2>4. ASSUME NEW c \in Calls, call'[c].at = "done"
        PROVE  \/ Fair(call'[c])
               \/ call'[c].result = "cancelled" /\ \E d \in Calls : call'[d].at = "done" /\ call'[d].result = "error"
    BY <1>3, <2>2, <2>4 DEF RequestsInv, EndedWell, At
  <2>5. EndedWell'
    BY <2>4 DEF EndedWell, Fair, At
  <2> QED BY <2>1, <2>5
<1>9. lock' = lock
  BY DEF Tick
<1> QED BY <1>4, <1>5, <1>6, <1>7, <1>8, <1>9 DEF RequestsInv, RequestRows, BucketIsRest, BoundToItsLoop, Sends

\* What is cut off was not over, and the error that cuts it off stays.
LEMMA TearDownKeeps ==
  ASSUME RequestsAssumption, RequestsInv, TearDown
  PROVE  RequestsInv' /\ \A c \in Calls : ~Sends(c)
<1>1. PICK d \in Calls : At(d, "done") /\ call[d].result = "error"
  <2>1. PICK e \in Calls : At(e, "done") /\ call[e].result \in Strange
    BY DEF TearDown
  <2> QED BY <2>1 DEF RequestsInv, EndedWell, Fair, Results, Strange
<1>2. \A c \in Calls : call'[c] = IF At(c, "done") THEN call[c] ELSE Ended(c, call[c].refused, "cancelled")[c]
  BY DEF TearDown
<1>3. \A c \in Calls : /\ call'[c] \in Rows /\ call'[c].at = "done"
                       /\ ~At(c, "done") => call'[c].result = "cancelled"
  <2> TAKE c \in Calls
  <2>1. call[c] \in Rows
    BY DEF RequestsInv, RequestRows
  <2>2. CASE At(c, "done")
    BY <1>2, <2>1, <2>2 DEF At
  <2>3. CASE ~At(c, "done")
    <3>1. call'[c] = [at |-> "done", attempt |-> 0, sleep |-> 0, last_status |-> Unset,
                      refused |-> call[c].refused, result |-> "cancelled"]
      BY <1>2, <2>3 DEF Ended, RequestsInv, RequestRows
    <3> QED BY <2>1, <3>1 DEF Rows, Statuses, Strange
  <2> QED BY <2>2, <2>3
<1>5. call' \in [Calls -> Rows]
  BY <1>3 DEF TearDown
<1>6. EndedWell'
  <2> SUFFICES ASSUME NEW c \in Calls
               PROVE  \/ Fair(call'[c])
                      \/ call'[c].result = "cancelled" /\ \E e \in Calls : call'[e].at = "done" /\ call'[e].result = "error"
    BY DEF EndedWell, At, Fair
  <2>1. call'[d].at = "done" /\ call'[d].result = "error"
    BY <1>1, <1>2, <1>3
  <2>2. CASE At(c, "done")
    <3>1. call'[c] = call[c]
      BY <1>2, <2>2
    <3> QED BY <2>1, <2>2, <3>1 DEF RequestsInv, EndedWell
  <2>3. CASE ~At(c, "done")
    BY <1>3, <2>1, <2>3
  <2> QED BY <2>2, <2>3
<1>7. lock' \in Locks /\ lock'.bound \in {Unset, lock'.loop}
  BY DEF TearDown, RequestsInv, RequestRows, Locks, BoundToItsLoop
<1>8. UNCHANGED <<bucket, since>>
  BY DEF TearDown
<1> QED BY <1>3, <1>5, <1>6, <1>7, <1>8
        DEF RequestsInv, RequestRows, BucketIsRest, HolderSleeps, InTurn, BoundToItsLoop, Sends, At

LEMMA StepKeepsRequestsInv ==
  ASSUME RequestsAssumption, RequestsInv, [RequestsNext]_requestsVars
  PROVE  RequestsInv' /\ (Paced => \A c \in Calls : Sends(c) => since + Slack >= Interval)
<1>1. CASE UNCHANGED requestsVars
  BY <1>1 DEF requestsVars, RequestsInv, RequestRows, BucketIsRest, HolderSleeps, InTurn, BoundToItsLoop, EndedWell,
     At, Sends
<1>2. ASSUME NEW c \in Calls, Contend(c)
      PROVE  RequestsInv' /\ \A d \in Calls : ~Sends(d)
  BY <1>2, ContendKeeps DEF Sends, At
<1>3. ASSUME NEW c \in Calls, Unpaced(c)
      PROVE  RequestsInv' /\ ~Paced
  BY <1>3, UnpacedKeeps DEF Unpaced
<1> QED BY <1>1, <1>2, <1>3, TickKeeps, AcquireKeeps, SlotKeeps, RespondKeeps, TearDownKeeps
        DEF RequestsNext, CallStep, Over

(***************************************************************************)
(* The requests to one source: the theorems.                               *)
(***************************************************************************)

\* TokenBucket: whichever candidates contend and whatever batch they are of, two
\* requests to a paced source are Interval apart, but for what one sleep came
\* back early.
THEOREM RequestsAreSpaced ==
  ASSUME RequestsAssumption PROVE RequestsSpec => Spaced
<1>1. RequestsInit => RequestsInv
  BY InitRequestsInv
<1>2. RequestsInv /\ [RequestsNext]_requestsVars =>
        RequestsInv' /\ [Paced => \A c \in Calls : Sends(c) => since + Slack >= Interval]_requestsVars
  BY StepKeepsRequestsInv
<1> QED BY <1>1, <1>2, PTL DEF RequestsSpec, Spaced

\* base.py:345-347: a call refused on every attempt says that the allowance is
\* spent, unless an error that is not caught ends it.
THEOREM RefusalsEndAsQuota ==
  ASSUME RequestsAssumption PROVE RequestsSpec => []RefusalsAreQuota
<1>1. RequestsInit => RequestsInv
  BY InitRequestsInv
<1>2. RequestsInv /\ [RequestsNext]_requestsVars => RequestsInv'
  BY StepKeepsRequestsInv
<1>3. RequestsInv => RefusalsAreQuota
  BY DEF RequestsInv, EndedWell, Fair, RefusalsAreQuota, Strange
<1> QED BY <1>1, <1>2, <1>3, PTL DEF RequestsSpec

\* base.py:386-406: no call of any batch ends on a lock of a loop that is gone, and
\* one that ends otherwise than a resolver knows does so by an error of the client
\* or of a body that is not caught, its own or another's.
THEOREM EndsAreExplained ==
  ASSUME RequestsAssumption PROVE RequestsSpec => []EndsExplained
<1>1. RequestsInit => RequestsInv
  BY InitRequestsInv
<1>2. RequestsInv /\ [RequestsNext]_requestsVars => RequestsInv'
  BY StepKeepsRequestsInv
<1>3. RequestsInv => EndsExplained
  BY DEF RequestsInv, EndedWell, Fair, EndsExplained, Results
<1> QED BY <1>1, <1>2, <1>3, PTL DEF RequestsSpec

(***************************************************************************)
(* The files of Discovery: what a pass over one reads.                     *)
(***************************************************************************)

\* A set of numbers has a least one: what an induction over lines comes down to.
LEMMA LeastNatural ==
  ASSUME NEW T, T \subseteq Nat, T # {}
  PROVE  \E m \in T : \A k \in T : m <= k
<1> DEFINE R == {ss \in Nat \X Nat : ss[1] < ss[2]}
<1>1. IsWellFoundedOn(R, Nat)
  BY NatLessThanWellFounded DEF OpToRel
<1> HIDE DEF R
<1>2. PICK x \in T : \A y \in T : ~(<<y, x>> \in R)
  BY <1>1, WFMin
<1>3. ASSUME NEW k \in T PROVE x <= k
  <2>1. <<k, x>> \in Nat \X Nat /\ ~(<<k, x>> \in R)
    BY <1>2
  <2>2. ~(k < x)
    BY <2>1 DEF R
  <2> QED BY <2>2
<1> QED BY <1>3

LEMMA PathsAreFiles ==
  ASSUME DiscoveryAssumption
  PROVE  /\ \A s \in Feeds : \A e \in DOMAIN Files[s] : <<s, e>> \in Paths
         /\ \A file \in Paths : /\ file[1] \in Feeds /\ file[2] \in DOMAIN Files[file[1]]
                                /\ file = <<file[1], file[2]>> /\ Len(Records(file)) \in Nat
<1>1. \A s \in Feeds : \A e \in DOMAIN Files[s] : Files[s][e] \in Seq(Record) /\ Len(Files[s][e]) \in Nat
  <2> TAKE s \in Feeds
  <2> TAKE e \in DOMAIN Files[s]
  <2>1. PICK R : R = Record
    OBVIOUS
  <2>2. Files[s] \in Seq(Seq(R))
    BY <2>1 DEF DiscoveryAssumption
  <2>3. Files[s][e] \in Seq(R)
    BY <2>2
  <2> QED BY <2>1, <2>3
<1>2. \A file \in Paths : \E s \in Feeds : \E e \in DOMAIN Files[s] : file = <<s, e>>
  BY DEF Paths
<1> QED BY <1>1, <1>2 DEF Paths, Records

\* dump_key: a size is of one edition.
LEMMA KeysTellFiles ==
  ASSUME DiscoveryAssumption, NEW file \in Paths, NEW other \in Paths, dump_key(file) = dump_key(other)
  PROVE  file = other
<1>1. file[1] = other[1] /\ Len(Files[file[1]][file[2]]) = Len(Files[file[1]][other[2]])
  BY DEF dump_key, Records
<1>2. file[2] = other[2]
  BY <1>1, PathsAreFiles DEF DiscoveryAssumption
<1> QED BY <1>1, <1>2, PathsAreFiles

LEMMA UsableSplits ==
  ASSUME NEW file, NEW a \in Nat, NEW b \in Nat, a <= b
  PROVE  Usable(file, 0, b) = Usable(file, 0, a) \cup Usable(file, a, b)
BY DEF Usable

\* A stretch of a file has no more candidates than lines.
LEMMA WrittenIsBounded ==
  ASSUME NEW file, NEW a \in Nat, NEW b \in Nat, a <= b
  PROVE  /\ IsFiniteSet(Usable(file, a, b)) /\ Written(file, a, b) \in Nat
         /\ a + Written(file, a, b) <= b
<1>1. /\ IsFiniteSet((a + 1)..b)
      /\ Cardinality((a + 1)..b) = IF a + 1 > b THEN 0 ELSE b - (a + 1) + 1
  BY FS_Interval
<1>2. Usable(file, a, b) \in SUBSET ((a + 1)..b)
  BY DEF Usable
<1>3. /\ IsFiniteSet(Usable(file, a, b))
      /\ Cardinality(Usable(file, a, b)) <= Cardinality((a + 1)..b)
  BY <1>1, <1>2, FS_Subset
<1>4. Cardinality(Usable(file, a, b)) \in Nat
  BY <1>3, FS_CardinalityType
<1> QED BY <1>1, <1>3, <1>4 DEF Written

\* One line more is one candidate more, or none.
LEMMA WrittenGrows ==
  ASSUME NEW file, NEW a \in Nat, NEW b \in Nat, a <= b
  PROVE  \/ Written(file, a, b + 1) = Written(file, a, b)
         \/ (b + 1) \in Usable(file, a, b + 1) /\ Written(file, a, b + 1) = Written(file, a, b) + 1
<1>1. CASE IsCandidate(file[1], Records(file)[b + 1])
  <2>1. Usable(file, a, b + 1) = Usable(file, a, b) \cup {b + 1} /\ (b + 1) \notin Usable(file, a, b)
    BY <1>1 DEF Usable
  <2> QED BY <2>1, WrittenIsBounded, FS_AddElement DEF Written
<1>2. CASE ~IsCandidate(file[1], Records(file)[b + 1])
  <2>1. Usable(file, a, b + 1) = Usable(file, a, b)
    BY <1>2 DEF Usable
  <2> QED BY <2>1 DEF Written
<1> QED BY <1>1, <1>2

\* The cap is met at a line: no candidate raises the count by more than one.
LEMMA CapIsMet ==
  ASSUME NEW file, NEW start \in Nat, NEW size \in Nat, start <= size,
         NEW limit \in Nat \ {0}, Written(file, start, size) >= limit
  PROVE  \E n \in Usable(file, start, size) : Written(file, start, n) = limit
<1> DEFINE T == {n \in start..size : Written(file, start, n) >= limit}
<1>1. PICK n \in T : \A k \in T : n <= k
  <2>1. T \subseteq Nat /\ size \in T
    OBVIOUS
  <2> QED BY <2>1, LeastNatural
<1>2. n \in Nat /\ start <= n /\ n <= size /\ Written(file, start, n) >= limit
  BY <1>1
<1>3. Written(file, start, start) = 0
  <2>1. Usable(file, start, start) = {}
    BY DEF Usable
  <2> QED BY <2>1, FS_EmptySet DEF Written
<1>4. n # start
  BY <1>2, <1>3
<1>5. PICK m \in Nat : n = m + 1 /\ start <= m
  BY <1>2, <1>4
<1>6. ~(Written(file, start, m) >= limit) /\ Written(file, start, m) \in Nat
  <2>1. m \notin T
    BY <1>1, <1>2, <1>5
  <2>2. m \in start..size
    BY <1>2, <1>5
  <2>3. ~(Written(file, start, m) >= limit)
    BY <2>1, <2>2
  <2>4. Written(file, start, m) \in Nat
    BY <1>5, WrittenIsBounded
  <2> QED BY <2>3, <2>4
<1>7. (m + 1) \in Usable(file, start, m + 1) /\ Written(file, start, m + 1) = Written(file, start, m) + 1
  BY <1>2, <1>5, <1>6, WrittenGrows
<1>8. n \in Usable(file, start, size)
  BY <1>2, <1>5, <1>7 DEF Usable
<1> QED BY <1>2, <1>5, <1>6, <1>7, <1>8

\* stream_candidates: the last line read is in the file and not before the start.
LEMMA LastIsThere ==
  ASSUME DiscoveryAssumption, NEW file \in Paths, NEW start \in Nat, start <= Len(Records(file)), NEW limit \in Limits
  PROVE  /\ LastTaken(file, start, limit) \in Nat
         /\ start <= LastTaken(file, start, limit) /\ LastTaken(file, start, limit) <= Len(Records(file))
         /\ RanOut(file, start, limit) => LastTaken(file, start, limit) = Len(Records(file))
<1>1. PICK size \in Nat : size = Len(Records(file))
  BY PathsAreFiles
<1>2. CASE Capped(file, start, limit)
  <2>1. limit \in Nat \ {0} /\ Written(file, start, size) >= limit
    BY <1>1, <1>2 DEF Capped, DiscoveryAssumption
  <2>2. \E n \in Usable(file, start, size) : Written(file, start, n) = limit
    BY <1>1, <2>1, CapIsMet
  <2>3. LastTaken(file, start, limit) \in Usable(file, start, size)
    BY <1>1, <1>2, <2>2 DEF LastTaken
  <2>4. \A n \in Usable(file, start, size) : n \in Nat /\ start <= n /\ n <= size
    BY DEF Usable
  <2> QED BY <1>1, <1>2, <2>3, <2>4 DEF RanOut
<1>3. CASE ~Capped(file, start, limit)
  BY <1>1, <1>3 DEF LastTaken
<1> QED BY <1>2, <1>3

(***************************************************************************)
(* Discovery: the invariant.                                               *)
(***************************************************************************)

Dump == "openlibrary_dump"
Export == "goodreads_export"

Positions == [line_offset : Nat, exhausted : BOOLEAN]
Slices == [file : Paths \cup {<<"none", 0>>}, start : Nat, lines : SUBSET Nat, lines_read : Nat, exhausted : BOOLEAN]
RunLimits == Limits \cup {1}
RunRecords == [at : Tasks \cup {"ended", "failed"}, source : Feeds \cup {"none"}, limit : RunLimits,
               resume : BOOLEAN, refresh : BOOLEAN, tries : Nat, slice : Slices,
               found : {"none", "success", "exhausted", "failed"}, worked : BOOLEAN]

DiscoveryRows == run \in RunRecords /\ state \in [Keys -> Positions] /\ manifest \subseteq manifested

\* There is an edition of every source, and one of the dump on disk from its
\* fetch on.
EditionsThere ==
  /\ published \in [Feeds -> Nat] /\ \A s \in Feeds : published[s] \in DOMAIN Files[s]
  /\ disk # 0 => Dump \in Feeds /\ disk \in DOMAIN Files[Dump]
  /\ run.at \in Tasks => run.source \in Feeds /\ run.limit \in Limits
  /\ run.at \in Tasks \ {"fetch"} /\ run.source = Dump => disk # 0

\* Positions lie in their files; an exhausted one is at the end.
PositionsInFiles ==
  \A file \in Paths : LET p == state[dump_key(file)] IN
    p.line_offset <= Len(Records(file)) /\ (p.exhausted => p.line_offset = Len(Records(file)))

\* Between the manifest and the position: what was read is what was written
\* down, from a start that had nothing behind it left out.
PassInHand ==
  LET s == run.slice IN
  run.at = "written" =>
    /\ run.source \in {Dump, Export} /\ s.file \in Paths /\ s.file[1] = run.source
    /\ s.start <= s.lines_read /\ s.lines_read <= Len(Records(s.file))
    /\ s.exhausted => s.lines_read = Len(Records(s.file))
    /\ s.lines = Usable(s.file, s.start, s.lines_read)
    /\ manifest = Lines(s.file, s.lines)
    /\ Lines(s.file, Usable(s.file, 0, s.start)) \subseteq manifested
    /\ run.resume => s.start = state[dump_key(s.file)].line_offset

\* The dump's settled lines lie before its position.
SettledBehind ==
  \A line \in settled : line[1] = Dump =>
    /\ <<line[1], line[2]>> \in Paths /\ line[3] \in Nat
    /\ line[3] <= state[dump_key(<<line[1], line[2]>>)].line_offset

DiscoveryInv == DiscoveryRows /\ EditionsThere /\ PositionsInFiles /\ NothingSkipped /\ PassInHand /\ SettledBehind

\* What the fields of a run range over, where only some matter.
RunShape(A, S, L, C, F) ==
  /\ Tasks \cup {"ended", "failed"} = A /\ Feeds \subseteq S /\ "none" \in S /\ Limits \subseteq L /\ 1 \in L
  /\ {"none", "success", "exhausted", "failed"} = F /\ C = Slices
  /\ RunRecords = [at : A, source : S, limit : L, resume : BOOLEAN, refresh : BOOLEAN, tries : Nat, slice : C,
                   found : F, worked : BOOLEAN]

LEMMA RunFields == \E A, S, L, C, F : RunShape(A, S, L, C, F)
BY DEF RunShape, RunRecords, RunLimits

\* A run goes to another task and keeps what it was started with.
LEMMA RunGoes ==
  ASSUME run \in RunRecords, NEW task \in Tasks \cup {"ended", "failed"}
  PROVE  /\ Goes(task) \in RunRecords /\ Goes(task).at = task
         /\ Goes(task).source = run.source /\ Goes(task).limit = run.limit /\ Goes(task).slice = run.slice
         /\ Goes(task).resume = run.resume
<1>1. PICK A, S, L, C, F : RunShape(A, S, L, C, F)
  BY RunFields
<1> USE DEF RunShape
<1>2. task \in A
  BY <1>1
<1> QED BY <1>1, <1>2 DEF Goes

LEMMA InitDiscoveryInv ==
  ASSUME DiscoveryAssumption, DiscoveryInit PROVE DiscoveryInv
<1>1. run \in RunRecords
  <2>1. NoPass \in Slices
    BY DEF NoPass, Slices
  <2>2. PICK A, S, L, C, F : RunShape(A, S, L, C, F)
    BY RunFields
  <2> USE DEF RunShape
  <2> QED BY <2>1, <2>2 DEF DiscoveryInit
<1>2. state \in [Keys -> Positions] /\ \A k \in Keys : state[k].line_offset = 0 /\ ~state[k].exhausted
  BY DEF DiscoveryInit, Positions, Beginning
<1>3. \A file \in Paths : dump_key(file) \in Keys /\ Usable(file, 0, 0) = {}
  BY DEF Keys, Usable
<1>4. PositionsInFiles /\ NothingSkipped
  BY <1>2, <1>3, PathsAreFiles DEF PositionsInFiles, NothingSkipped, Lines
<1>5. run.at = "ended" /\ disk = 0 /\ settled = {} /\ manifest = {}
  BY DEF DiscoveryInit
<1>6. EditionsThere
  <2>1. \A s \in Feeds : 1 \in DOMAIN Files[s]
    <3> TAKE s \in Feeds
    <3>1. PICK R : R = Seq(Record)
      OBVIOUS
    <3>2. Files[s] \in Seq(R) /\ Files[s] # <<>>
      BY <3>1 DEF DiscoveryAssumption
    <3> QED BY <3>2
  <2> QED BY <1>5, <2>1 DEF EditionsThere, DiscoveryInit, Tasks
<1> QED BY <1>1, <1>2, <1>4, <1>5, <1>6 DEF DiscoveryInv, DiscoveryRows, PassInHand, SettledBehind

(***************************************************************************)
(* Discovery: each task keeps the invariant.                               *)
(***************************************************************************)

\* Steps that leave manifest and position alone.
LEMMA QuietKeeps ==
  ASSUME DiscoveryAssumption, DiscoveryInv, UNCHANGED <<state, manifest, manifested, settled>>,
         run' \in RunRecords, run'.at = "written" => run' = run, EditionsThere'
  PROVE  DiscoveryInv'
<1>1. DiscoveryRows' /\ PositionsInFiles' /\ NothingSkipped' /\ SettledBehind'
  BY DEF DiscoveryInv, DiscoveryRows, PositionsInFiles, NothingSkipped, SettledBehind
<1>2. PassInHand'
  BY DEF DiscoveryInv, PassInHand
<1> QED BY <1>1, <1>2 DEF DiscoveryInv

LEMMA RunIsTyped ==
  ASSUME DiscoveryInv
  PROVE  run \in RunRecords /\ run.at \in Tasks \cup {"ended", "failed"} /\ run.resume \in BOOLEAN
         /\ run.slice \in Slices
<1>1. run \in RunRecords
  BY DEF DiscoveryInv, DiscoveryRows
<1> QED BY <1>1, RunFields DEF RunShape

LEMMA PublishKeeps ==
  ASSUME DiscoveryAssumption, DiscoveryInv, NEW s \in Feeds, Publish(s)
  PROVE  DiscoveryInv'
<1>1. PICK R : Files[s] \in Seq(R)
  BY DEF DiscoveryAssumption
<1>2. published' \in [Feeds -> Nat] /\ \A t \in Feeds : published'[t] \in DOMAIN Files[t]
  BY <1>1 DEF Publish, DiscoveryInv, EditionsThere
<1>3. EditionsThere'
  BY <1>2 DEF Publish, DiscoveryInv, EditionsThere
<1> QED BY <1>3, RunIsTyped, QuietKeeps DEF Publish

LEMMA BeginKeeps ==
  ASSUME DiscoveryAssumption, DiscoveryInv, Begin
  PROVE  DiscoveryInv'
<1>1. PICK s \in Feeds, limit \in Limits, resume \in Resumes, refresh \in Refreshes :
        run' = [at |-> "fetch", source |-> s, limit |-> limit, resume |-> resume, refresh |-> refresh,
                tries |-> 0, slice |-> NoPass, found |-> "none", worked |-> FALSE]
  BY DEF Begin
<1>2. run' \in RunRecords
  <2>1. NoPass \in Slices
    BY DEF NoPass, Slices
  <2>2. resume \in BOOLEAN /\ refresh \in BOOLEAN
    BY DEF DiscoveryAssumption
  <2>3. "fetch" \in Tasks
    BY DEF Tasks
  <2>4. PICK A, S, L, C, F : RunShape(A, S, L, C, F)
    BY RunFields
  <2> USE DEF RunShape
  <2>5. "fetch" \in A
    BY <2>3, <2>4
  <2> QED BY <1>1, <2>1, <2>2, <2>4, <2>5
<1>3. run'.at = "fetch" /\ run'.source \in Feeds /\ run'.limit \in Limits
  BY <1>1
<1>4. EditionsThere'
  BY <1>3 DEF Begin, DiscoveryInv, EditionsThere
<1> QED BY <1>2, <1>3, <1>4, QuietKeeps DEF Begin

\* A run that goes from a task to another of its own, or ends.
LEMMA GoingKeeps ==
  ASSUME DiscoveryAssumption, DiscoveryInv, UNCHANGED <<published, state, manifest, manifested, settled>>,
         run' \in RunRecords, run'.at # "written", run'.source = run.source, run'.limit = run.limit, run.at \in Tasks,
         disk' # 0 => Dump \in Feeds /\ disk' \in DOMAIN Files[Dump],
         run'.at \in Tasks \ {"fetch"} /\ run.source = Dump => disk' # 0
  PROVE  DiscoveryInv'
<1>1. EditionsThere'
  BY DEF DiscoveryInv, EditionsThere
<1> QED BY <1>1, QuietKeeps

LEMMA FetchKeeps ==
  ASSUME DiscoveryAssumption, DiscoveryInv, Fetch
  PROVE  DiscoveryInv'
<1>1. run.at = "fetch" /\ run' = Goes("check") /\ "check" \in Tasks /\ "fetch" \in Tasks
  BY DEF Fetch, Tasks
<1>2. run' \in RunRecords /\ run'.at = "check" /\ run'.source = run.source /\ run'.limit = run.limit
  BY <1>1, RunIsTyped, RunGoes
<1>3. disk' # 0 => Dump \in Feeds /\ disk' \in DOMAIN Files[Dump]
  BY <1>1 DEF Fetch, Kept, Downloaded, DiscoveryInv, EditionsThere, Dump
<1>4. run.source = Dump => disk' # 0
  <2> SUFFICES ASSUME run.source = Dump PROVE disk' # 0
    OBVIOUS
  <2>1. Dump \in Feeds
    BY <1>1 DEF DiscoveryInv, EditionsThere
  <2>2. published[Dump] \in DOMAIN Files[Dump]
    BY <2>1 DEF DiscoveryInv, EditionsThere
  <2>3. PICK R : Files[Dump] \in Seq(R)
    BY <2>1 DEF DiscoveryAssumption
  <2>4. published[Dump] # 0
    BY <2>2, <2>3
  <2> QED BY <2>4 DEF Fetch, Downloaded, Cached, Dump
<1> QED BY <1>1, <1>2, <1>3, <1>4, GoingKeeps DEF Fetch

\* The tasks that only report, and the failures.
LEMMA ReportKeeps ==
  ASSUME DiscoveryAssumption, DiscoveryInv,
         Check \/ NothingLeft \/ Unlimited \/ Return \/ ResolveManifest \/ Assess
  PROVE  DiscoveryInv' /\ run'.at # "written"
<1>1. run \in RunRecords /\ run.at \in Tasks /\ run.at # "fetch"
  BY RunIsTyped DEF Check, NothingLeft, Unlimited, Return, ResolveManifest, Assess, Tasks
<1>2. UNCHANGED <<published, disk, state, manifest, manifested, settled>>
  BY DEF Check, NothingLeft, Unlimited, Return, ResolveManifest, Assess
<1>3. run' \in RunRecords /\ run'.at # "written" /\ run'.source = run.source /\ run'.limit = run.limit
  <2>1. PICK A, S, L, C, F : RunShape(A, S, L, C, F)
    BY RunFields
  <2> USE DEF RunShape
  <2>2. {"discover", "resolve", "assess", "ended", "failed"} \subseteq A
    BY <2>1 DEF Tasks
  <2>3. CASE Check
    BY <1>1, <2>1, <2>2, <2>3 DEF Check, Goes
  <2>4. CASE NothingLeft
    BY <1>1, <2>1, <2>2, <2>4 DEF NothingLeft, Goes
  <2>5. CASE Unlimited
    BY <1>1, <2>1, <2>2, <2>5 DEF Unlimited
  <2>6. CASE Return
    BY <1>1, <2>1, <2>2, <2>6 DEF Return, Goes
  <2>7. CASE ResolveManifest
    <3>1. PICK worked \in BOOLEAN : run' = [Goes("assess") EXCEPT !.worked = worked]
      BY <2>7 DEF ResolveManifest
    <3> QED BY <1>1, <2>1, <2>2, <3>1 DEF Goes
  <2>8. CASE Assess
    BY <1>1, <2>1, <2>2, <2>8 DEF Assess, Goes
  <2> QED BY <2>3, <2>4, <2>5, <2>6, <2>7, <2>8
<1>4. /\ disk' # 0 => Dump \in Feeds /\ disk' \in DOMAIN Files[Dump]
      /\ run.source = Dump => disk' # 0
  BY <1>1, <1>2 DEF DiscoveryInv, EditionsThere
<1> QED BY <1>1, <1>2, <1>3, <1>4, GoingKeeps

LEMMA FailKeeps ==
  ASSUME DiscoveryAssumption, DiscoveryInv, Fail
  PROVE  DiscoveryInv' /\ run'.at # "written"
<1>1. run \in RunRecords /\ run.at \in Tasks
  BY RunIsTyped DEF Fail
<1>2. First(run.at) \in Tasks /\ First(run.at) # "written" /\ (First(run.at) = "fetch" <=> run.at = "fetch")
  BY <1>1 DEF First, Tasks
<1>3. /\ run' \in RunRecords /\ run'.source = run.source /\ run'.limit = run.limit
      /\ run'.at \in {First(run.at), "failed"}
  <2>1. PICK A, S, L, C, F : RunShape(A, S, L, C, F)
    BY RunFields
  <2> USE DEF RunShape
  <2>2. PICK f \in A : f = First(run.at)
    BY <1>2, <2>1
  <2>3. run' = IF run.tries < Retries THEN [run EXCEPT !.at = f, !.tries = run.tries + 1] ELSE [run EXCEPT !.at = "failed"]
    BY <1>1, <2>1, <2>2 DEF Fail
  <2>4. "failed" \in A
    BY <2>1
  <2>5. PICK t \in Nat : t = run.tries + 1
    BY <1>1, <2>1
  <2>6. run' = [run EXCEPT !.at = f, !.tries = t] \/ run' = [run EXCEPT !.at = "failed"]
    BY <2>3, <2>5
  <2>7. CASE run' = [run EXCEPT !.at = f, !.tries = t]
    BY <1>1, <2>1, <2>2, <2>7
  <2>8. CASE run' = [run EXCEPT !.at = "failed"]
    BY <1>1, <2>1, <2>4, <2>8
  <2> QED BY <2>6, <2>7, <2>8
<1>4. run'.at # "written"
  BY <1>2, <1>3
<1>5. disk' # 0 => Dump \in Feeds /\ disk' \in DOMAIN Files[Dump]
  BY DEF Fail, Kept, DiscoveryInv, EditionsThere
<1>6. run'.at \in Tasks \ {"fetch"} /\ run.source = Dump => disk' # 0
  <2>1. "failed" \notin Tasks
    BY DEF Tasks
  <2> QED BY <1>1, <1>2, <1>3, <2>1 DEF Fail, DiscoveryInv, EditionsThere
<1> QED BY <1>1, <1>3, <1>4, <1>5, <1>6, GoingKeeps DEF Fail

\* What a pass reads is the candidates from its start to the last line it read.
LEMMA PassReads ==
  ASSUME DiscoveryAssumption, NEW file \in Paths, NEW start \in Nat, start <= Len(Records(file)), NEW limit \in Limits,
         NEW slice, slice = Pass(file, start, limit)
  PROVE  /\ slice \in Slices /\ slice.file = file /\ slice.start = start
         /\ slice.lines = Usable(file, start, slice.lines_read)
         /\ start <= slice.lines_read /\ slice.lines_read <= Len(Records(file))
         /\ slice.exhausted => slice.lines_read = Len(Records(file))
<1>1. PICK last : last = LastTaken(file, start, limit)
  OBVIOUS
<1>2. last \in Nat /\ start <= last /\ last <= Len(Records(file)) /\ (RanOut(file, start, limit) => last = Len(Records(file)))
  BY <1>1, LastIsThere
<1>3. PICK out \in BOOLEAN : out = RanOut(file, start, limit)
  BY DEF RanOut
<1>4. slice = [file |-> file, start |-> start, lines |-> Usable(file, start, last), lines_read |-> last, exhausted |-> out]
  BY <1>1, <1>3 DEF Pass, LinesRead
<1>5. Usable(file, start, last) \in SUBSET Nat
  BY <1>2 DEF Usable
<1> QED BY <1>2, <1>3, <1>4, <1>5 DEF Slices

\* A slice replaces the manifest.
LEMMA BuildKeeps ==
  ASSUME DiscoveryAssumption, DiscoveryInv, run.at = "discover",
         NEW file \in Paths, NEW start \in Nat, start <= Len(Records(file)),
         Lines(file, Usable(file, 0, start)) \subseteq manifested,
         NEW slice, slice = Pass(file, start, run.limit),
         NEW task \in {"written", "saved"}, NEW found \in {"none", "success", "exhausted", "failed"},
         task = "written" => /\ run.source \in {Dump, Export} /\ file[1] = run.source
                             /\ run.resume => start = state[dump_key(file)].line_offset,
         Build(slice, task, found)
  PROVE  DiscoveryInv'
<1>1. run \in RunRecords /\ run.at \in Tasks /\ run.limit \in Limits
  <2>1. run.at \in Tasks
    BY DEF Tasks
  <2> QED BY <2>1, RunIsTyped DEF DiscoveryInv, EditionsThere
<1>2. /\ slice \in Slices /\ slice.file = file /\ slice.start = start
      /\ slice.lines = Usable(file, start, slice.lines_read)
      /\ start <= slice.lines_read /\ slice.lines_read <= Len(Records(file))
      /\ slice.exhausted => slice.lines_read = Len(Records(file))
  BY <1>1, PassReads
<1>3. /\ run' \in RunRecords /\ run'.at = task /\ run'.source = run.source /\ run'.limit = run.limit
      /\ run'.slice = slice /\ run'.resume = run.resume
  <2>1. PICK A, S, L, C, F : RunShape(A, S, L, C, F)
    BY RunFields
  <2> USE DEF RunShape
  <2>2. task \in A
    BY <2>1 DEF Tasks
  <2>3. found \in F /\ slice \in C
    BY <1>2, <2>1
  <2> QED BY <1>1, <2>1, <2>2, <2>3 DEF Build
<1>4. /\ manifest' = Lines(slice.file, slice.lines) /\ manifested' = manifested \cup manifest'
      /\ UNCHANGED <<published, disk, state, settled>>
  BY DEF Build
<1>5. DiscoveryRows' /\ PositionsInFiles' /\ SettledBehind' /\ NothingSkipped'
  BY <1>3, <1>4 DEF DiscoveryInv, DiscoveryRows, PositionsInFiles, SettledBehind, NothingSkipped
<1>6. EditionsThere'
  <2>1. task \in Tasks \ {"fetch"} /\ run.at \in Tasks \ {"fetch"}
    BY DEF Tasks
  <2> QED BY <1>3, <1>4, <2>1 DEF DiscoveryInv, EditionsThere
<1>7. PassInHand'
  BY <1>2, <1>3, <1>4 DEF PassInHand
<1> QED BY <1>5, <1>6, <1>7 DEF DiscoveryInv

\* The file a task reads is there, and the position it resumes from is in it.
LEMMA ReadsThere ==
  ASSUME DiscoveryAssumption, DiscoveryInv, run.at = "discover"
  PROVE  /\ Path(run.source) \in Paths /\ Path(run.source)[1] = run.source
         /\ Resumed(Path(run.source)).line_offset \in Nat
         /\ Resumed(Path(run.source)).line_offset <= Len(Records(Path(run.source)))
         /\ LET start == Resumed(Path(run.source)).line_offset
            IN Lines(Path(run.source), Usable(Path(run.source), 0, start)) \subseteq manifested
         /\ run.resume => Resumed(Path(run.source)) = state[dump_key(Path(run.source))]
<1>1. run.at \in Tasks \ {"fetch"} /\ run.at \in Tasks
  BY DEF Tasks
<1>2. run.source \in Feeds /\ (run.source = Dump => disk \in DOMAIN Files[Dump])
      /\ published[run.source] \in DOMAIN Files[run.source]
  BY <1>1 DEF DiscoveryInv, EditionsThere
<1>3. PICK file : file = Path(run.source)
  OBVIOUS
<1>4. PICK e \in DOMAIN Files[run.source] : file = <<run.source, e>>
  BY <1>2, <1>3 DEF Path, Dump
<1>5. file \in Paths /\ file[1] = run.source
  BY <1>2, <1>4, PathsAreFiles
<1>6. CASE run.resume
  <2>1. Resumed(file) = state[dump_key(file)]
    BY <1>6 DEF Resumed
  <2>2. dump_key(file) \in Keys
    BY <1>5 DEF Keys
  <2>3. state[dump_key(file)].line_offset \in Nat
    BY <2>2 DEF DiscoveryInv, DiscoveryRows, Positions
  <2> QED BY <1>3, <1>5, <1>6, <2>1, <2>3 DEF DiscoveryInv, PositionsInFiles, NothingSkipped
<1>7. CASE ~run.resume
  <2>1. Resumed(file).line_offset = 0
    BY <1>7 DEF Resumed, Beginning
  <2>2. Usable(file, 0, 0) = {} /\ 0 <= Len(Records(file))
    BY <1>5, PathsAreFiles DEF Usable
  <2> QED BY <1>3, <1>5, <1>7, <2>1, <2>2 DEF Lines
<1> QED BY <1>6, <1>7

LEMMA BuildFromDumpKeeps ==
  ASSUME DiscoveryAssumption, DiscoveryInv, BuildFromDump
  PROVE  DiscoveryInv' /\ (run.resume => manifest' \cap settled = {})
<1>1. run.at = "discover" /\ run.source = Dump
  BY DEF BuildFromDump, Dump
<1>2. PICK file : file = Path(run.source)
  OBVIOUS
<1>3. PICK start : start = Resumed(file).line_offset
  OBVIOUS
<1>4. /\ file \in Paths /\ file[1] = Dump /\ start \in Nat /\ start <= Len(Records(file))
      /\ Lines(file, Usable(file, 0, start)) \subseteq manifested
      /\ run.resume => start = state[dump_key(file)].line_offset
  BY <1>1, <1>2, <1>3, ReadsThere
<1>5. PICK slice : slice = Pass(file, start, run.limit)
  OBVIOUS
<1>6. PICK found \in {"none", "success", "exhausted", "failed"} : Build(slice, "written", found)
  <2>1. Build(slice, "written", IF slice.lines # {} THEN "success" ELSE "failed")
    BY <1>1, <1>2, <1>3, <1>5 DEF BuildFromDump, Dump
  <2> QED BY <2>1
<1>7. DiscoveryInv'
  BY <1>1, <1>4, <1>5, <1>6, BuildKeeps
<1>8. ASSUME run.resume, NEW line \in settled, line \in manifest'
      PROVE  FALSE
  <2>1. run.limit \in Limits
    BY <1>1 DEF DiscoveryInv, EditionsThere, Tasks
  <2>2. slice.file = file /\ slice.lines = Usable(file, start, slice.lines_read) /\ slice \in Slices
    BY <1>4, <1>5, <2>1, PassReads
  <2>3. slice.lines_read \in Nat
    BY <2>2 DEF Slices
  <2>4. line \in Lines(file, slice.lines)
    BY <1>6, <1>8, <2>2 DEF Build
  <2>5. PICK n \in slice.lines : line = <<file[1], file[2], n>>
    BY <2>4 DEF Lines
  <2>6. n \in Nat /\ n > start
    BY <1>4, <2>2, <2>3, <2>5 DEF Usable
  <2>7. line[1] = Dump /\ <<line[1], line[2]>> = file /\ line[3] = n
    BY <1>4, <2>5, PathsAreFiles
  <2>8. n <= state[dump_key(file)].line_offset
    BY <1>8, <2>7 DEF DiscoveryInv, SettledBehind
  <2> QED BY <1>4, <1>8, <2>6, <2>8
<1> QED BY <1>7, <1>8

LEMMA BuildFromExportKeeps ==
  ASSUME DiscoveryAssumption, DiscoveryInv, BuildFromExport
  PROVE  DiscoveryInv'
<1>1. run.at = "discover" /\ run.source = Export
  BY DEF BuildFromExport, Export
<1>2. PICK file : file = Path(run.source)
  OBVIOUS
<1>3. PICK start : start = Resumed(file).line_offset
  OBVIOUS
<1>4. /\ file \in Paths /\ file[1] = Export /\ start \in Nat /\ start <= Len(Records(file))
      /\ Lines(file, Usable(file, 0, start)) \subseteq manifested
      /\ run.resume => start = state[dump_key(file)].line_offset
  BY <1>1, <1>2, <1>3, ReadsThere
<1>5. PICK slice : slice = Pass(file, start, run.limit)
  OBVIOUS
<1>6. Build(slice, "written", "success") \/ Build(slice, "saved", "exhausted")
  BY <1>1, <1>2, <1>3, <1>5 DEF BuildFromExport, Export
<1> QED BY <1>1, <1>4, <1>5, <1>6, BuildKeeps

LEMMA BuildFromGutendexKeeps ==
  ASSUME DiscoveryAssumption, DiscoveryInv, BuildFromGutendex
  PROVE  DiscoveryInv' /\ run'.at # "written"
<1>1. run.at = "discover" /\ run.source = "gutendex"
  BY DEF BuildFromGutendex
<1>2. PICK file : file = Path(run.source)
  OBVIOUS
<1>3. /\ file \in Paths /\ 0 \in Nat /\ 0 <= Len(Records(file))
      /\ Lines(file, Usable(file, 0, 0)) \subseteq manifested
  <2>1. file \in Paths /\ Usable(file, 0, 0) = {}
    BY <1>1, <1>2, ReadsThere DEF Usable
  <2> QED BY <2>1, PathsAreFiles DEF Lines
<1>4. PICK slice : slice = Pass(file, 0, run.limit)
  OBVIOUS
<1>5. PICK found \in {"none", "success", "exhausted", "failed"} : Build(slice, "saved", found)
  <2>1. Build(slice, "saved", IF slice.lines # {} THEN "success" ELSE "failed")
    BY <1>1, <1>2, <1>4 DEF BuildFromGutendex
  <2> QED BY <2>1
<1>6. DiscoveryInv'
  BY <1>1, <1>3, <1>4, <1>5, BuildKeeps
<1>7. run'.at = "saved"
  <2>1. PICK A, S, L, C, F : RunShape(A, S, L, C, F)
    BY RunFields
  <2> USE DEF RunShape
  <2> QED BY <1>5, <2>1, RunIsTyped DEF Build
<1> QED BY <1>6, <1>7

\* The position that is saved: no further than what was read, and at the end
\* if it is exhausted.
LEMMA PositionIsRead ==
  ASSUME DiscoveryAssumption, DiscoveryInv, run.at = "written"
  PROVE  /\ Position \in Positions
         /\ Position.line_offset <= run.slice.lines_read
         /\ run.source = Dump => Position.line_offset = run.slice.lines_read
         /\ Position.exhausted => Position.line_offset = Len(Records(run.slice.file))
<1>1. PICK s \in Slices : s = run.slice
  BY RunIsTyped
<1>2. /\ s.file \in Paths /\ s.start <= s.lines_read /\ (s.exhausted => s.lines_read = Len(Records(s.file)))
      /\ s.lines = Usable(s.file, s.start, s.lines_read)
  BY <1>1 DEF DiscoveryInv, PassInHand
<1>3. s.start \in Nat /\ s.lines_read \in Nat /\ s.exhausted \in BOOLEAN
  BY <1>1 DEF Slices
<1>4. CASE run.source = Dump
  BY <1>1, <1>2, <1>3, <1>4 DEF Position, Positions, Dump
<1>5. CASE run.source # Dump
  <2>1. PICK count \in Nat : count = Cardinality(s.lines) /\ s.start + count <= s.lines_read
    BY <1>2, <1>3, WrittenIsBounded DEF Written
  <2>2. Position = [line_offset |-> s.start + count, exhausted |-> FALSE]
    BY <1>1, <1>5, <2>1 DEF Position, Dump
  <2> QED BY <1>1, <1>3, <1>5, <2>1, <2>2 DEF Positions
<1> QED BY <1>4, <1>5

LEMMA SaveKeeps ==
  ASSUME DiscoveryAssumption, DiscoveryInv, Save
  PROVE  DiscoveryInv' /\ run'.at # "written"
<1>1. PICK s \in Slices : s = run.slice
  BY RunIsTyped
<1>2. run.at = "written" /\ run.at \in Tasks
  BY DEF Save, Tasks
<1>3. /\ run.source \in {Dump, Export} /\ s.file \in Paths /\ s.file[1] = run.source
      /\ s.start <= s.lines_read /\ s.lines_read <= Len(Records(s.file))
      /\ s.lines = Usable(s.file, s.start, s.lines_read) /\ manifest = Lines(s.file, s.lines)
      /\ Lines(s.file, Usable(s.file, 0, s.start)) \subseteq manifested
      /\ run.resume => s.start = state[dump_key(s.file)].line_offset
  BY <1>1, <1>2 DEF DiscoveryInv, PassInHand
<1>4. s.start \in Nat /\ s.lines_read \in Nat
  BY <1>1 DEF Slices
<1>5. PICK p \in Positions : /\ p = Position /\ p.line_offset <= s.lines_read
                             /\ run.source = Dump => p.line_offset = s.lines_read
                             /\ p.exhausted => p.line_offset = Len(Records(s.file))
  BY <1>1, <1>2, PositionIsRead
<1>6. p.line_offset \in Nat
  BY <1>5 DEF Positions
<1>7. dump_key(s.file) \in Keys /\ \A file \in Paths : dump_key(file) \in Keys
  BY <1>3 DEF Keys
<1>8. /\ state' \in [Keys -> Positions] /\ state'[dump_key(s.file)] = p
      /\ \A file \in Paths : file # s.file => state'[dump_key(file)] = state[dump_key(file)]
  <2>1. state' = [state EXCEPT ![dump_key(s.file)] = p] /\ state \in [Keys -> Positions]
    BY <1>1, <1>5 DEF Save, DiscoveryInv, DiscoveryRows
  <2>2. \A file \in Paths : file # s.file => dump_key(file) # dump_key(s.file)
    BY <1>3, KeysTellFiles
  <2> QED BY <1>5, <1>7, <2>1, <2>2
<1>9. run' \in RunRecords /\ run'.at = "saved" /\ run'.source = run.source /\ run'.limit = run.limit
  <2>1. PICK A, S, L, C, F : RunShape(A, S, L, C, F)
    BY RunFields
  <2> USE DEF RunShape
  <2>2. "saved" \in A
    BY <2>1 DEF Tasks
  <2> QED BY <2>1, <2>2, RunIsTyped DEF Save
<1>10. UNCHANGED <<published, disk, manifest, manifested>> /\ manifest \subseteq manifested
  BY DEF Save, DiscoveryInv, DiscoveryRows
<1>11. PositionsInFiles'
  <2> SUFFICES ASSUME NEW file \in Paths
               PROVE  /\ state'[dump_key(file)].line_offset <= Len(Records(file))
                      /\ state'[dump_key(file)].exhausted => state'[dump_key(file)].line_offset = Len(Records(file))
    BY DEF PositionsInFiles
  <2>1. CASE file = s.file
    <3>1. Len(Records(s.file)) \in Nat
      BY <1>3, PathsAreFiles
    <3> QED BY <1>3, <1>4, <1>5, <1>6, <1>8, <2>1, <3>1
  <2>2. CASE file # s.file
    BY <1>8, <2>2 DEF DiscoveryInv, PositionsInFiles
  <2> QED BY <2>1, <2>2
<1>12. NothingSkipped'
  <2> SUFFICES ASSUME NEW file \in Paths
               PROVE  Lines(file, Usable(file, 0, state'[dump_key(file)].line_offset)) \subseteq manifested
    BY <1>10 DEF NothingSkipped
  <2>1. CASE file = s.file
    <3>1. Usable(file, 0, p.line_offset) \subseteq Usable(file, 0, s.lines_read)
      BY <1>4, <1>5, <1>6 DEF Usable
    <3>2. Usable(s.file, 0, s.lines_read) = Usable(s.file, 0, s.start) \cup Usable(s.file, s.start, s.lines_read)
      BY <1>3, <1>4, UsableSplits
    <3> QED BY <1>3, <1>8, <1>10, <2>1, <3>1, <3>2 DEF Lines
  <2>2. CASE file # s.file
    BY <1>8, <2>2 DEF DiscoveryInv, NothingSkipped
  <2> QED BY <2>1, <2>2
<1>13. SettledBehind'
  <2> SUFFICES ASSUME NEW line \in settled', line[1] = Dump
               PROVE  /\ <<line[1], line[2]>> \in Paths /\ line[3] \in Nat
                      /\ line[3] <= state'[dump_key(<<line[1], line[2]>>)].line_offset
    BY DEF SettledBehind
  <2>1. settled' = manifest \cup {old \in settled : run.resume \/ old[1] # run.source}
    BY DEF Save
  <2>2. CASE line \in manifest
    <3>1. PICK n \in s.lines : line = <<s.file[1], s.file[2], n>>
      BY <1>3, <2>2 DEF Lines
    <3>2. n \in Nat /\ n <= s.lines_read
      BY <1>3, <1>4 DEF Usable
    <3>3. <<line[1], line[2]>> = s.file /\ line[3] = n
      BY <1>3, <3>1, PathsAreFiles
    <3>4. run.source = Dump
      BY <1>3, <3>1
    <3> QED BY <1>3, <1>5, <1>8, <3>2, <3>3, <3>4
  <2>3. CASE line \in settled /\ (run.resume \/ line[1] # run.source)
    <3>1. PICK file \in Paths : /\ file = <<line[1], line[2]>> /\ line[3] \in Nat
                                /\ line[3] <= state[dump_key(file)].line_offset
      BY <2>3 DEF DiscoveryInv, SettledBehind
    <3>2. CASE file = s.file
      <4>1. run.source = Dump /\ run.resume
        BY <1>3, <2>3, <3>1, <3>2
      <4> QED BY <1>3, <1>4, <1>5, <1>8, <3>1, <3>2, <4>1
    <3>3. CASE file # s.file
      BY <1>8, <3>1, <3>3
    <3> QED BY <3>2, <3>3
  <2> QED BY <2>1, <2>2, <2>3
<1>14. EditionsThere'
  <2>1. {"written", "saved"} \subseteq Tasks \ {"fetch"}
    BY DEF Tasks
  <2> QED BY <1>2, <1>9, <1>10, <2>1 DEF DiscoveryInv, EditionsThere
<1> QED BY <1>8, <1>9, <1>10, <1>11, <1>12, <1>13, <1>14 DEF DiscoveryInv, DiscoveryRows, PassInHand

LEMMA StepKeepsDiscoveryInv ==
  ASSUME DiscoveryAssumption, DiscoveryInv, [DiscoveryNext]_discoveryVars
  PROVE  /\ DiscoveryInv'
         /\ run.source = Dump /\ run.resume /\ run.at = "discover" /\ run'.at = "written" => manifest' \cap settled = {}
<1>1. CASE UNCHANGED discoveryVars
  BY <1>1 DEF discoveryVars, DiscoveryInv, DiscoveryRows, EditionsThere, PositionsInFiles, NothingSkipped, PassInHand,
     SettledBehind, Path
<1>2. ASSUME NEW s \in Feeds, Publish(s)
      PROVE  DiscoveryInv' /\ run' = run
  BY <1>2, PublishKeeps DEF Publish
<1>3. ASSUME Begin
      PROVE  DiscoveryInv' /\ run.at # "discover"
  BY <1>3, BeginKeeps DEF Begin
<1>4. ASSUME Fetch
      PROVE  DiscoveryInv' /\ run.at # "discover"
  BY <1>4, FetchKeeps DEF Fetch
<1>5. ASSUME BuildFromExport
      PROVE  DiscoveryInv' /\ run.source # Dump
  BY <1>5, BuildFromExportKeeps DEF BuildFromExport, Dump
<1> QED BY <1>1, <1>2, <1>3, <1>4, <1>5, ReportKeeps, FailKeeps, BuildFromDumpKeeps, BuildFromGutendexKeeps, SaveKeeps
        DEF DiscoveryNext, TaskStep

(***************************************************************************)
(* Discovery: the theorems.                                                *)
(***************************************************************************)

\* state.py save_position: whatever is published, fails or is run again between
\* a manifest and its position, no position of a file passes a record that could
\* be looked up and that no manifest has held; an exhausted one is at the end of
\* its file.
THEOREM NothingIsSkipped ==
  ASSUME DiscoveryAssumption PROVE DiscoverySpec => []NothingSkipped
<1>1. DiscoveryInit => DiscoveryInv
  BY InitDiscoveryInv
<1>2. DiscoveryInv /\ [DiscoveryNext]_discoveryVars => DiscoveryInv'
  BY StepKeepsDiscoveryInv
<1>3. DiscoveryInv => NothingSkipped
  BY DEF DiscoveryInv
<1> QED BY <1>1, <1>2, <1>3, PTL DEF DiscoverySpec

\* stream_candidates: a dump is exhausted only once its last line was read.
THEOREM ExhaustedDumpIsRead ==
  ASSUME DiscoveryAssumption PROVE DiscoverySpec => []ExhaustedIsRead
<1>1. DiscoveryInit => DiscoveryInv
  BY InitDiscoveryInv
<1>2. DiscoveryInv /\ [DiscoveryNext]_discoveryVars => DiscoveryInv'
  BY StepKeepsDiscoveryInv
<1>3. DiscoveryInv => ExhaustedIsRead
  <2>1. \A k \in Keys : \E file \in Paths : k = dump_key(file) /\ k[2] = Len(Records(file))
    BY DEF Keys, dump_key
  <2> QED BY <2>1 DEF DiscoveryInv, PositionsInFiles, ExhaustedIsRead
<1> QED BY <1>1, <1>2, <1>3, PTL DEF DiscoverySpec

\* A run that resumes the dump writes no line that a run before it had settled.
THEOREM DumpResumesAfter ==
  ASSUME DiscoveryAssumption PROVE DiscoverySpec => ResumesAfter
<1>1. DiscoveryInit => DiscoveryInv
  BY InitDiscoveryInv
<1>2. DiscoveryInv /\ [DiscoveryNext]_discoveryVars =>
        DiscoveryInv' /\ [run.source = "openlibrary_dump" /\ run.resume /\ run.at = "discover" /\ run'.at = "written" =>
                            manifest' \cap settled = {}]_discoveryVars
  BY StepKeepsDiscoveryInv DEF Dump
<1> QED BY <1>1, <1>2, PTL DEF DiscoverySpec, ResumesAfter
=================================================================================
