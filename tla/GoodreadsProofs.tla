----------------------------- MODULE GoodreadsProofs -----------------------------
(***************************************************************************)
(* What source_runs is for, for every number of DAGs, retries, records and *)
(* ticks: who is kept away from Goodreads, and by what.  What the catalogue*)
(* gets back of a record's series, whatever its pages say.  And what the   *)
(* client sends, for every threshold, every pair of retry budgets, every   *)
(* number of candidates and batches: the tries of a page, the requests     *)
(* that leave after the circuit opened, and what a refusal rests on.       *)
(***************************************************************************)
EXTENDS GoodreadsRuns, GoodreadsClient, GoodreadsEvidence, TLAPS

(***************************************************************************)
(* The inductive invariant of the runs.                                    *)
(***************************************************************************)

\* A run that reports a refusal has met one, and reports only as it closes.
ReportsAreMet ==
  \A d \in Dags : task[d].reported => task[d].refused /\ task[d].phase = "closing"

\* What is known of a refusal is in source_runs under the same tick.
KnownIsRecorded == known \subseteq refusals

RefusalInv == RunsTypeOK /\ ReportsAreMet /\ KnownIsRecorded /\ OnlyRefusalsKeepAway

LEMMA InitRefusalInv == RunsAssumption /\ RunsInit => RefusalInv
BY SMTT(20) DEF RunsAssumption, RunsInit, RefusalInv, RunsTypeOK, ReportsAreMet, KnownIsRecorded, OnlyRefusalsKeepAway,
   NewTask, Task, Phases

\* What a task may become.
Sound(x) == x \in Task /\ (x.refused => x.opened) /\ (x.reported => x.refused /\ x.phase = "closing")

\* A step of one task leaves the others as they were, and keeps what the
\* invariant says of tasks if it says so of what this one becomes.
LEMMA OneTaskStep ==
  ASSUME RunsTypeOK, ReportsAreMet, NEW d \in Dags, NEW x, Sound(x), task' = [task EXCEPT ![d] = x]
  PROVE  task' \in [Dags -> Task] /\ (\A e \in Dags : task'[e].refused => task'[e].opened) /\ ReportsAreMet'
<1>1. task \in [Dags -> Task] /\ x \in Task
  BY DEF RunsTypeOK, Sound
<1>2. \A e \in Dags : task'[e] = IF e = d THEN x ELSE task[e]
  BY <1>1
<1> QED BY <1>1, <1>2 DEF RunsTypeOK, ReportsAreMet, Sound

\* What the steps below make of a task t is sound in that sense.
LEMMA NewTaskSound ==
  ASSUME RunsAssumption, NEW d \in Dags PROVE Sound(NewTask(d)) /\ NewTask(d).tries \in Nat /\ ~NewTask(d).refused
<1>1. Retries[d] \in Nat /\ 0 \in 0..MaxTime /\ 0 \in 0..MaxRecords
  BY DEF RunsAssumption
<1> QED BY <1>1 DEF Sound, NewTask, Task, Phases

LEMMA Begun ==
  ASSUME NEW t, Sound(t), NEW n \in 0..MaxRecords, NEW s \in 0..MaxTime
  PROVE  Sound([t EXCEPT !.phase = "running", !.left = n, !.started = s,
                         !.opened = FALSE, !.refused = FALSE, !.reported = FALSE])
<1> DEFINE x == [t EXCEPT !.phase = "running", !.left = n, !.started = s,
                          !.opened = FALSE, !.refused = FALSE, !.reported = FALSE]
<1>1. x \in Task
  BY DEF Sound, Task, Phases
<1>2. x.refused = FALSE /\ x.reported = FALSE
  BY DEF Sound, Task
<1> QED BY <1>1, <1>2 DEF Sound

LEMMA WasAsked ==
  ASSUME NEW t, Sound(t), t.phase = "running", NEW l \in 0..MaxRecords,
         NEW opens \in BOOLEAN, NEW refusal \in BOOLEAN, refusal => opens
  PROVE  Sound([t EXCEPT !.left = l, !.opened = opens, !.refused = refusal])
BY DEF Sound, Task, Phases

LEMMA Stopped ==
  ASSUME NEW t, Sound(t) PROVE Sound([t EXCEPT !.phase = "closing", !.reported = t.refused])
BY DEF Sound, Task, Phases

LEMMA HasEnded ==
  ASSUME NEW t, Sound(t), t.phase = "running" PROVE Sound([t EXCEPT !.phase = "closing"])
BY DEF Sound, Task, Phases

LEMMA Skipped ==
  ASSUME NEW t, Sound(t), NEW l \in 0..MaxRecords PROVE Sound([t EXCEPT !.left = l])
BY DEF Sound, Task, Phases

LEMMA Over ==
  ASSUME NEW t, Sound(t), ~t.refused, NEW phase \in Phases, NEW tries \in Nat
  PROVE  Sound([t EXCEPT !.phase = phase, !.tries = tries])
BY DEF Sound, Task

LEMMA LeftFalls ==
  ASSUME RunsAssumption, NEW t \in Task, t.left > 0 PROVE t.left - 1 \in 0..MaxRecords
BY DEF Task, RunsAssumption

\* A task that is over, with the circuit of its run gone.
LEMMA DoneSound ==
  ASSUME RunsAssumption, NEW d \in Dags PROVE Sound([NewTask(d) EXCEPT !.phase = "done"])
<1> DEFINE t == NewTask(d)
<1>1. Sound(t) /\ t.tries \in Nat /\ ~t.refused
  BY NewTaskSound
<1> HIDE DEF t
<1>2. Sound([t EXCEPT !.phase = "done"])
  BY <1>1 DEF Sound, Task, Phases
<1> QED BY <1>2 DEF t

\* Every step of one task is sound.
LEMMA TaskStep ==
  ASSUME RunsAssumption, RefusalInv, NEW d \in Dags,
         Start(d) \/ Ask(d) \/ StopAtCircuit(d) \/ NoneLeft(d) \/ Close(d) \/ Fail(d) \/ Interval(d)
  PROVE  \E x : Sound(x) /\ task' = [task EXCEPT ![d] = x]
<1> DEFINE t == task[d]
<1>1. task \in [Dags -> Task] /\ t \in Task /\ Sound(t)
  BY DEF RefusalInv, RunsTypeOK, ReportsAreMet, Sound
<1>2. CASE Start(d)
  <2>1. now \in 0..MaxTime /\ 1..MaxRecords \subseteq 0..MaxRecords
    BY DEF RefusalInv, RunsTypeOK, RunsAssumption
  <2>2. ASSUME NEW n \in 1..MaxRecords,
               task' = [task EXCEPT ![d] = [@ EXCEPT !.phase = "running", !.left = n, !.started = now,
                                              !.opened = FALSE, !.refused = FALSE, !.reported = FALSE]]
        PROVE  \E x : Sound(x) /\ task' = [task EXCEPT ![d] = x]
    <3> DEFINE x == [t EXCEPT !.phase = "running", !.left = n, !.started = now,
                              !.opened = FALSE, !.refused = FALSE, !.reported = FALSE]
    <3>1. Sound(x)
      BY <1>1, <2>1, Begun
    <3>2. task' = [task EXCEPT ![d] = x]
      BY <2>2
    <3> HIDE DEF x
    <3> QED BY <3>1, <3>2
  <2> QED BY <1>2, <2>2, DoneSound DEF Start
<1>3. CASE Ask(d)
  <2>1. PICK opens \in BOOLEAN, refusal \in BOOLEAN :
          /\ refusal => opens
          /\ task' = [task EXCEPT ![d].left = @ - 1, ![d].opened = opens, ![d].refused = refusal]
    BY <1>3 DEF Ask
  <2>2. t.phase = "running" /\ t.left > 0
    BY <1>3 DEF Ask, CanAsk
  <2>3. t.left - 1 \in 0..MaxRecords
    BY <1>1, <2>2, LeftFalls
  <2> DEFINE x == [t EXCEPT !.left = t.left - 1, !.opened = opens, !.refused = refusal]
  <2>4. Sound(x)
    BY <1>1, <2>1, <2>2, <2>3, WasAsked
  <2>5. task' = [task EXCEPT ![d] = x]
    BY <2>1, <1>1 DEF Task
  <2> HIDE DEF x
  <2> QED BY <2>4, <2>5
<1>4. CASE StopAtCircuit(d)
  <2> DEFINE x == [t EXCEPT !.phase = "closing", !.reported = t.refused]
  <2>1. Sound(x)
    BY <1>1, Stopped
  <2>2. task' = [task EXCEPT ![d] = x]
    BY <1>4, <1>1 DEF StopAtCircuit, Task
  <2> HIDE DEF x
  <2> QED BY <2>1, <2>2
<1>5. CASE NoneLeft(d)
  <2>1. t.phase = "running"
    BY <1>5 DEF NoneLeft
  <2>2. CASE d = "ingestion"
    <3> DEFINE x == [t EXCEPT !.phase = "closing", !.reported = t.refused]
    <3>1. Sound(x)
      BY <1>1, Stopped
    <3>2. task' = [task EXCEPT ![d] = x]
      BY <1>5, <1>1, <2>2 DEF NoneLeft, Task
    <3> HIDE DEF x
    <3> QED BY <3>1, <3>2
  <2>3. CASE d # "ingestion"
    <3> DEFINE x == [t EXCEPT !.phase = "closing"]
    <3>1. Sound(x)
      BY <1>1, <2>1, HasEnded
    <3>2. task' = [task EXCEPT ![d] = x]
      BY <1>5, <1>1, <2>3 DEF NoneLeft, Task
    <3> HIDE DEF x
    <3> QED BY <3>1, <3>2
  <2> QED BY <2>2, <2>3
<1>6. CASE Close(d)
  BY <1>6, DoneSound DEF Close
<1>7. CASE Fail(d)
  <2> DEFINE again == t.tries > 0
             phase == IF again THEN "idle" ELSE "done"
             tries == IF again THEN t.tries - 1 ELSE 0
             x == [NewTask(d) EXCEPT !.phase = phase, !.tries = tries]
  <2>1. phase \in Phases
    BY DEF Phases
  <2>2. t.tries \in Nat
    BY <1>1 DEF Task
  <2>3. tries \in Nat
    BY <2>2
  <2>4. task' = [task EXCEPT ![d] = x]
    BY <1>7 DEF Fail
  <2> HIDE DEF phase, tries
  <2>5. Sound(x)
    BY <2>1, <2>3, NewTaskSound, Over
  <2> HIDE DEF x
  <2> QED BY <2>4, <2>5
<1>8. CASE Interval(d)
  BY <1>8, NewTaskSound DEF Interval
<1> QED BY <1>2, <1>3, <1>4, <1>5, <1>6, <1>7, <1>8

\* The steps of one task leave the clock alone, and write down a refusal only
\* with the run that met it.
LEMMA StepKeepsRefusalInv ==
  ASSUME RunsAssumption, RefusalInv, [RunsNext]_runsVars PROVE RefusalInv'
<1>1. ASSUME NEW d \in Dags,
             Start(d) \/ Ask(d) \/ StopAtCircuit(d) \/ NoneLeft(d) \/ Close(d) \/ Fail(d) \/ Interval(d)
      PROVE  RefusalInv'
  <2>1. PICK x : Sound(x) /\ task' = [task EXCEPT ![d] = x]
    BY <1>1, TaskStep
  <2>2. task' \in [Dags -> Task] /\ (\A e \in Dags : task'[e].refused => task'[e].opened) /\ ReportsAreMet'
    BY <2>1, OneTaskStep DEF RefusalInv
  <2>3. now' = now
    BY <1>1 DEF Start, Ask, StopAtCircuit, NoneLeft, Close, Fail, Interval
  <2>4. CASE Close(d)
    <3>1. task[d].reported => task[d].refused
      BY DEF RefusalInv, ReportsAreMet
    <3>2. /\ refusals' \subseteq refusals \cup {now} /\ known' \subseteq refusals'
          /\ known' \subseteq met' /\ refusals' \subseteq met'
      BY <2>4, <3>1 DEF Close, Met, Recorded, RefusalInv, RunsTypeOK, KnownIsRecorded, OnlyRefusalsKeepAway
    <3> QED BY <2>2, <2>3, <3>2 DEF RefusalInv, RunsTypeOK, KnownIsRecorded, OnlyRefusalsKeepAway
  <2>5. CASE ~Close(d)
    <3>1. refusals' = refusals /\ known' = known /\ met \subseteq met'
      BY <1>1, <2>5 DEF Start, Ask, StopAtCircuit, NoneLeft, Fail, Interval, Met
    <3> QED BY <2>2, <2>3, <3>1 DEF RefusalInv, RunsTypeOK, KnownIsRecorded, OnlyRefusalsKeepAway
  <2> QED BY <2>4, <2>5
<1>2. ASSUME SkipSource \/ BudgetSpent PROVE RefusalInv'
  <2>1. PICK d \in Dags : /\ task[d].phase = "running" /\ task[d].left > 0
                         /\ \/ task' = [task EXCEPT ![d].left = @ - 1]
                            \/ task' = [task EXCEPT ![d].phase = "closing"]
    BY <1>2 DEF SkipSource, BudgetSpent
  <2>2. task \in [Dags -> Task] /\ task[d] \in Task /\ Sound(task[d])
    BY DEF RefusalInv, RunsTypeOK, ReportsAreMet, Sound
  <2> DEFINE fewer == [task[d] EXCEPT !.left = task[d].left - 1]
             ended == [task[d] EXCEPT !.phase = "closing"]
  <2>3. Sound(fewer) /\ Sound(ended)
    BY <2>1, <2>2, LeftFalls, Skipped, HasEnded
  <2>4. task' = [task EXCEPT ![d] = fewer] \/ task' = [task EXCEPT ![d] = ended]
    BY <2>1, <2>2 DEF Task
  <2> HIDE DEF fewer, ended
  <2>5. task' \in [Dags -> Task] /\ (\A e \in Dags : task'[e].refused => task'[e].opened) /\ ReportsAreMet'
    BY <2>3, <2>4, OneTaskStep DEF RefusalInv
  <2>6. UNCHANGED <<now, refusals, known, met>>
    BY <1>2 DEF SkipSource, BudgetSpent
  <2> QED BY <2>5, <2>6 DEF RefusalInv, RunsTypeOK, KnownIsRecorded, OnlyRefusalsKeepAway
<1>3. ASSUME Tick PROVE RefusalInv'
  BY <1>3, SMTT(20) DEF Tick, RunsAssumption, RefusalInv, RunsTypeOK, ReportsAreMet, KnownIsRecorded, OnlyRefusalsKeepAway
<1>4. ASSUME UNCHANGED runsVars PROVE RefusalInv'
  BY <1>4 DEF RefusalInv, RunsTypeOK, ReportsAreMet, KnownIsRecorded, OnlyRefusalsKeepAway, runsVars
<1> QED BY <1>1, <1>2, <1>3, <1>4 DEF RunsNext

(***************************************************************************)
(* The theorems.                                                           *)
(***************************************************************************)

\* The invariant above holds in every reachable state (source_health.py,
\* and the closing transactions of the three DAGs).
THEOREM RefusalsInvariant == RunsSpec => []RefusalInv
BY RunsAssumption, InitRefusalInv, StepKeepsRefusalInv, PTL DEF RunsSpec

\* A source that only failed keeps nobody away: every row with status refused
\* is of a run whose circuit opened on a refusal.
THEOREM OnlyRefusals == RunsSpec => []OnlyRefusalsKeepAway
BY RefusalsInvariant, PTL DEF RefusalInv

\* With a cooldown set, no run of any DAG starts to ask Goodreads within it
\* after a refusal that was written down.
THEOREM RefusalsHold == ASSUME Cooldown > 0 PROVE RunsSpec => RecordedRefusalHolds
<1>1. ASSUME RefusalInv, [RunsNext]_runsVars, NEW d \in Dags, Starts(d), NEW t \in known PROVE t + Cooldown < now
  <2>1. Start(d)
    <3>1. task \in [Dags -> Task] /\ task[d].phase = "idle" /\ task'[d].phase = "running"
      BY <1>1 DEF Starts, RefusalInv, RunsTypeOK
    <3>2. task' # task
      BY <3>1
    <3>3. ASSUME NEW e \in Dags,
                 Ask(e) \/ StopAtCircuit(e) \/ NoneLeft(e) \/ Close(e) \/ Fail(e) \/ Interval(e)
          PROVE  FALSE
      <4>1. task[e].phase # "idle"
        BY <3>3 DEF Ask, CanAsk, StopAtCircuit, NoneLeft, Close, Fail, Interval
      <4>2. \A f \in Dags \ {e} : task'[f] = task[f]
        BY <3>1, <3>3 DEF Ask, StopAtCircuit, NoneLeft, Close, Fail, Interval
      <4> QED BY <3>1, <4>1, <4>2
    <3>4. ASSUME SkipSource \/ BudgetSpent PROVE FALSE
      <4>1. PICK e \in Dags : /\ task[e].phase = "running"
                             /\ \A f \in Dags \ {e} : task'[f] = task[f]
        BY <3>1, <3>4 DEF SkipSource, BudgetSpent
      <4> QED BY <3>1, <4>1
    <3>5. ~Tick /\ ~UNCHANGED runsVars
      BY <3>2 DEF Tick, runsVars
    <3>6. PICK e \in Dags : Start(e)
      BY <1>1, <3>3, <3>4, <3>5 DEF RunsNext
    <3>7. \A f \in Dags \ {e} : task'[f] = task[f]
      BY <3>1, <3>6 DEF Start
    <3> QED BY <3>1, <3>6, <3>7
  <2>2. ~CoolingDown
    BY <1>1, <2>1 DEF RefusalInv, RunsTypeOK, Starts, Start, NewTask
  <2>3. t \in refusals /\ t \in Int /\ now \in Int
    BY <1>1 DEF RefusalInv, RunsTypeOK, KnownIsRecorded
  <2> QED BY <2>2, <2>3, RunsAssumption DEF CoolingDown, RunsAssumption
<1>2. RefusalInv /\ [RunsNext]_runsVars => [\A d \in Dags : Starts(d) => \A t \in known : t + Cooldown < now]_runsVars
  BY <1>1
<1> QED BY <1>2, RefusalsInvariant, PTL DEF RunsSpec, RecordedRefusalHolds

(***************************************************************************)
(* The facts of a record (GoodreadsEvidence): the invariant.               *)
(***************************************************************************)

Payloads == [card: SUBSET (CardFacts \cup {"none"}),
             detail: [held: BOOLEAN, of: SUBSET BookFacts],
             edition: [held: BOOLEAN, of: SUBSET (EditionFacts \cup {"text"})]]

\* A block of the book page that is not held says nothing.
AbsentSaysNothing == ~stored.detail.held => stored.detail.of = {}

EvidenceInv ==
  /\ card \subseteq CardFacts /\ bookPage \subseteq BookFacts /\ editions \subseteq EditionFacts
  /\ stored \in Payloads
  /\ AbsentSaysNothing
  /\ SeriesReplayed

Series == {"inferred", "confirmed"}

\* Of the fields of an observation only the replayed ones are of a series.
LEMMA MappedSeries ==
  ASSUME NEW p PROVE Mapped(p) \cap Series = ReplayedSeries(p)
BY DEF Mapped, Series, ReplayedSeries, TitleSeries

\* What a page says of the series stands in front of what was there before,
\* and where it says nothing that stays; no other fact is of a series.
LEMMA SeriesOfUpdate ==
  ASSUME NEW o, NEW u, u \cap Series = {}, NEW b
  PROVE  WithSeries(o \cup u, PageSeries(b)) \cap Series
           = IF "series" \in b THEN PageSeries(b) ELSE o \cap Series
BY DEF WithSeries, PageSeries, Series

LEMMA FactsAreNoSeries ==
  ASSUME NEW b, NEW e
  PROVE  /\ (FromBook(b) \cup FromEditions(e)) \cap Series = {}
         /\ (FromDetail(b) \cup FromEditions(e)) \cap Series = {}
BY DEF FromBook, FromEditions, FromDetail, Series

\* The observation that was loaded and the payload that was stored agree.
LEMMA LoadReplays ==
  ASSUME NEW o, NEW p \in Payloads, Load(o, p), EvidenceInv,
         o \cap Series = ReplayedSeries(p), ~p.detail.held => p.detail.of = {}
  PROVE  EvidenceInv'
<1>1. Mapped(p) \cap Series = o \cap Series
  BY MappedSeries
<1>2. stored' = p /\ last' = o /\ UNCHANGED <<card, bookPage, editions>>
  BY DEF Load
<1> QED BY <1>1, <1>2 DEF EvidenceInv, AbsentSaysNothing, SeriesReplayed, Series

LEMMA BlocksAreTyped ==
  ASSUME NEW e, e \subseteq EditionFacts
  PROVE  /\ Absent \in [held: BOOLEAN, of: SUBSET BookFacts]
         /\ Absent \in [held: BOOLEAN, of: SUBSET (EditionFacts \cup {"text"})]
         /\ EditionPayload(e) \in [held: BOOLEAN, of: SUBSET (EditionFacts \cup {"text"})]
         /\ \A b \in SUBSET BookFacts : Block(b) \in [held: BOOLEAN, of: SUBSET BookFacts] /\ Block(b).held
         /\ \A b : Block(b).of = b
         /\ Absent.of = {}
BY DEF Absent, Block, EditionPayload

LEMMA DiscoverReplays ==
  ASSUME EvidenceInv, Discover PROVE EvidenceInv'
<1>1. CardPayload \in Payloads /\ CardPayload.detail = Absent
  BY BlocksAreTyped DEF CardPayload, Payloads, EvidenceInv
<1>2. Mapped(CardPayload) \cap Series = ReplayedSeries(CardPayload)
  BY MappedSeries
<1>3. CardPayload.detail.of = {}
  BY <1>1, BlocksAreTyped
<1> QED BY <1>1, <1>2, <1>3, LoadReplays DEF Discover

LEMMA ResolveReplays ==
  ASSUME EvidenceInv, Resolve PROVE EvidenceInv'
<1>1. PICK gotBook \in BOOLEAN, gotEditions \in BOOLEAN :
        LET b == IF gotBook THEN bookPage ELSE {}
            e == IF gotEditions THEN editions ELSE {}
            o == WithSeries(Mapped(CardPayload) \cup FromBook(b) \cup FromEditions(e), PageSeries(b))
        IN Load(o, [CardPayload EXCEPT
                      !.detail = IF gotBook THEN Block(b) ELSE Absent,
                      !.edition = IF gotEditions THEN EditionPayload(e) ELSE Absent])
  BY DEF Resolve
<1> DEFINE b == IF gotBook THEN bookPage ELSE {}
           e == IF gotEditions THEN editions ELSE {}
           u == FromBook(b) \cup FromEditions(e)
           o == WithSeries(Mapped(CardPayload) \cup u, PageSeries(b))
           d == IF gotBook THEN Block(b) ELSE Absent
           f == IF gotEditions THEN EditionPayload(e) ELSE Absent
           p == [CardPayload EXCEPT !.detail = d, !.edition = f]
<1>2. Load(o, p)
  <2>1. Mapped(CardPayload) \cup FromBook(b) \cup FromEditions(e) = Mapped(CardPayload) \cup u
    OBVIOUS
  <2> HIDE DEF b, e, u
  <2> QED BY <1>1, <2>1 DEF b, e
<1>3. b \in SUBSET BookFacts /\ e \subseteq EditionFacts
  BY DEF EvidenceInv
<1>4. d \in [held: BOOLEAN, of: SUBSET BookFacts] /\ d.of = b /\ (~d.held => d.of = {})
  <2> HIDE DEF e
  <2> QED BY <1>3, BlocksAreTyped
<1>5. f \in [held: BOOLEAN, of: SUBSET (EditionFacts \cup {"text"})]
  <2> HIDE DEF b
  <2> QED BY <1>3, BlocksAreTyped
<1>6. u \cap Series = {}
  BY FactsAreNoSeries
<1> HIDE DEF b, e, u, d, f
<1>7. p \in Payloads /\ p.detail = d /\ p.card = card
  BY <1>4, <1>5, BlocksAreTyped DEF CardPayload, Payloads, EvidenceInv
<1>8. ReplayedSeries(CardPayload) = TitleSeries(card)
  <2>1. CardPayload.card = card /\ CardPayload.detail.of = {}
    BY BlocksAreTyped DEF CardPayload
  <2> QED BY <2>1 DEF ReplayedSeries
<1>9. o \cap Series = IF "series" \in b THEN PageSeries(b) ELSE TitleSeries(card)
  BY <1>6, <1>8, SeriesOfUpdate, MappedSeries
<1> HIDE DEF o, p
<1>10. ReplayedSeries(p) = IF "series" \in b THEN PageSeries(b) ELSE TitleSeries(card)
  BY <1>4, <1>7 DEF ReplayedSeries, PageSeries
<1> QED BY <1>2, <1>4, <1>7, <1>9, <1>10, LoadReplays

\* What EnrichById stores: the book page's facts beside the card's.
Completed(p) ==
  \E gotEditions \in BOOLEAN :
    LET e == IF gotEditions THEN editions ELSE {}
    IN p = [stored EXCEPT !.detail = Block(bookPage),
                          !.edition = IF gotEditions THEN EditionPayload(e) ELSE Absent]

LEMMA CompletedIsHeld ==
  ASSUME EvidenceInv, NEW p, Completed(p)
  PROVE  p \in Payloads /\ p.detail = Block(bookPage) /\ p.card = stored.card
<1>1. PICK gotEditions \in BOOLEAN :
        p = [stored EXCEPT !.detail = Block(bookPage),
                           !.edition = IF gotEditions THEN EditionPayload(IF gotEditions THEN editions ELSE {})
                                       ELSE Absent]
  BY DEF Completed
<1> DEFINE f == IF gotEditions THEN EditionPayload(IF gotEditions THEN editions ELSE {}) ELSE Absent
<1>2. f \in [held: BOOLEAN, of: SUBSET (EditionFacts \cup {"text"})]
  BY BlocksAreTyped DEF EvidenceInv
<1>3. Block(bookPage) \in [held: BOOLEAN, of: SUBSET BookFacts]
  BY BlocksAreTyped DEF EvidenceInv
<1>4. p = [stored EXCEPT !.detail = Block(bookPage), !.edition = f]
  BY <1>1
<1> HIDE DEF f
<1> QED BY <1>2, <1>3, <1>4 DEF EvidenceInv, Payloads

LEMMA EnrichReplays ==
  ASSUME EvidenceInv, EnrichById
  PROVE  EvidenceInv' /\ stored'.detail = Block(bookPage)
<1>1. PICK gotEditions \in BOOLEAN :
        LET e == IF gotEditions THEN editions ELSE {}
            u == FromDetail(bookPage) \cup FromEditions(e)
        IN Load(WithSeries(Mapped(stored) \cup u, PageSeries(bookPage)),
                [stored EXCEPT !.detail = Block(bookPage),
                               !.edition = IF gotEditions THEN EditionPayload(e) ELSE Absent])
  BY DEF EnrichById
<1> DEFINE e == IF gotEditions THEN editions ELSE {}
           u == FromDetail(bookPage) \cup FromEditions(e)
           o == WithSeries(Mapped(stored) \cup u, PageSeries(bookPage))
           p == [stored EXCEPT !.detail = Block(bookPage),
                               !.edition = IF gotEditions THEN EditionPayload(e) ELSE Absent]
<1>2. Load(o, p)
  BY <1>1
<1>3. Completed(p)
  BY DEF Completed
<1>4. u \cap Series = {}
  BY FactsAreNoSeries
<1> HIDE DEF u, p
<1>5. p \in Payloads /\ p.detail = Block(bookPage) /\ p.card = stored.card
  BY <1>3, CompletedIsHeld
<1>6. p.detail.held /\ p.detail.of = bookPage
  BY <1>5, BlocksAreTyped DEF EvidenceInv
<1>7. ReplayedSeries(stored) = TitleSeries(stored.card)
  BY DEF EnrichById, Unenriched, EvidenceInv, AbsentSaysNothing, ReplayedSeries
<1>8. o \cap Series = IF "series" \in bookPage THEN PageSeries(bookPage) ELSE TitleSeries(stored.card)
  BY <1>4, <1>7, SeriesOfUpdate, MappedSeries
<1> HIDE DEF o
<1>9. ReplayedSeries(p) = IF "series" \in bookPage THEN PageSeries(bookPage) ELSE TitleSeries(stored.card)
  BY <1>5, <1>6 DEF ReplayedSeries, PageSeries
<1>10. EvidenceInv'
  BY <1>2, <1>5, <1>6, <1>8, <1>9, LoadReplays
<1> QED BY <1>2, <1>5, <1>10 DEF Load

LEMMA InitEvidenceInv == EvidenceInit => EvidenceInv
BY DEF EvidenceInit, EvidenceInv, BookPages, Payloads, NoPayload, Absent, AbsentSaysNothing, SeriesReplayed

LEMMA StepKeepsEvidenceInv == EvidenceInv /\ [EvidenceNext]_evidenceVars => EvidenceInv'
<1>1. EvidenceInv /\ UNCHANGED evidenceVars => EvidenceInv'
  BY DEF EvidenceInv, evidenceVars, AbsentSaysNothing, SeriesReplayed
<1> QED BY <1>1, DiscoverReplays, ResolveReplays, EnrichReplays DEF EvidenceNext

(***************************************************************************)
(* The facts of a record: the theorems.                                    *)
(***************************************************************************)

\* Whatever pages a record was resolved or completed from, and whichever of
\* them failed, the series that _replay finds in the stored payload is the one
\* its last observation had: a confirmed series stays confirmed.
THEOREM SeriesComesBack == EvidenceSpec => []SeriesReplayed
<1>1. EvidenceInv => SeriesReplayed
  BY DEF EvidenceInv
<1> QED BY <1>1, InitEvidenceInv, StepKeepsEvidenceInv, PTL DEF EvidenceSpec

\* enrich_by_id() stores the block of the book page even when the page says
\* nothing of the book, so the record is off the backlog however sparse it was.
THEOREM CompletedOnce == EvidenceSpec => EnrichedLeavesBacklog
<1>1. EvidenceInv /\ [EvidenceNext]_evidenceVars => [EnrichById => ~Unenriched(stored')]_evidenceVars
  <2> SUFFICES ASSUME EvidenceInv, EnrichById PROVE ~Unenriched(stored')
    OBVIOUS
  <2>1. stored'.detail.held
    BY EnrichReplays, BlocksAreTyped DEF EvidenceInv
  <2> QED BY <2>1 DEF Unenriched
<1> QED BY <1>1, InitEvidenceInv, StepKeepsEvidenceInv, PTL DEF EvidenceSpec, EnrichedLeavesBacklog

(***************************************************************************)
(* The inductive invariant of the client                                   *)
(***************************************************************************)

Active(s) == s.step \in {"waiting", "inflight", "holding", "pausing"}

\* A call that has yet to send its next request has paid for it.
Paid(s) == s.sent <= s.transient + s.blocked

WithinTries(s) ==
  /\ s \in Call
  /\ s.transient <= TransientRetries /\ s.blocked <= BlockRetries
  /\ s.sent <= 1 + s.transient + s.blocked
  /\ s.step \in {"waiting", "holding", "pausing"} => Paid(s)

Tries == 1 + TransientRetries + BlockRetries

CallsWithinTries == call \in [Calls -> Call] /\ \A p \in Calls : WithinTries(call[p])

Circuit == [failures: Nat, opened: BOOLEAN, refused: BOOLEAN]

\* A candidate is in some phase.
HasPhase(c) == "phase" \in DOMAIN c

\* The search is never under way beside a page of a book.
SearchIsAlone ==
  /\ cand.phase = "search" => ~Active(call["book"]) /\ ~Active(call["work"])
  /\ cand.phase # "search" => ~Active(call["search"])

\* Once the circuit is open there is one call at most that may still send, and
\* all that was sent since it sent itself.
LateIsOfOne ==
  /\ ~circuit.opened => late = 0
  /\ late <= Tries
  /\ circuit.opened =>
       \A p \in Calls : Active(call[p]) =>
         late <= call[p].sent /\ \A q \in Calls : Active(call[q]) => q = p

RefusalIsPushed ==
  /\ circuit.refused => circuit.opened
  /\ RefusedIsTheirs

ClientInv ==
  /\ circuit \in Circuit /\ late \in Nat /\ HasPhase(cand)
  /\ CallsWithinTries
  /\ SearchIsAlone
  /\ LateIsOfOne
  /\ RefusalIsPushed

USE DEF Calls

LEMMA BudgetsAreNumbers ==
  ASSUME ClientAssumption
  PROVE  TransientRetries \in Nat /\ BlockRetries \in Nat /\ Tries \in Nat /\ Threshold \in Nat
BY DEF ClientAssumption, Tries

LEMMA NoCallWithinTries ==
  ASSUME ClientAssumption
  PROVE  /\ WithinTries(NoCall) /\ Paid(NoCall) /\ ~Active(NoCall)
         /\ NoCalls \in [Calls -> Call] /\ \A p \in Calls : NoCalls[p] = NoCall
BY BudgetsAreNumbers DEF NoCalls, NoCall, WithinTries, Paid, Active, Call, Steps, Answers, Failed

LEMMA RefusedWithinTries ==
  ASSUME ClientAssumption
  PROVE  LET e == [NoCall EXCEPT !.step = "ended", !.answer = "unavailable"]
         IN  WithinTries(e) /\ e \in Call /\ ~Active(e)
<1>1. PICK s : s = NoCall
  OBVIOUS
<1>2. s \in Call /\ WithinTries(s)
  BY <1>1, NoCallWithinTries DEF WithinTries
<1> DEFINE e == [s EXCEPT !.step = "ended", !.answer = "unavailable"]
<1>3. WithinTries(e) /\ e \in Call /\ ~Active(e)
  BY <1>2 DEF WithinTries, Call, Steps, Answers, Failed, Active
<1> QED BY <1>1, <1>3

LEMMA SentWithinTries ==
  ASSUME ClientAssumption, NEW s, WithinTries(s), Paid(s)
  PROVE  WithinTries(Sent(s)) /\ Sent(s).sent = s.sent + 1 /\ Active(Sent(s)) /\ Sent(s).sent <= Tries
<1>1. s \in Call /\ s.transient <= TransientRetries /\ s.blocked <= BlockRetries
  BY DEF WithinTries
<1>2. /\ Sent(s) \in Call /\ Sent(s).sent = s.sent + 1 /\ Sent(s).step = "inflight"
      /\ Sent(s).transient = s.transient /\ Sent(s).blocked = s.blocked
  <2> DEFINE n == s.sent + 1
  <2>1. n \in Nat /\ "inflight" \in Steps
    BY <1>1 DEF Call, Steps
  <2>2. Sent(s) = [s EXCEPT !.step = "inflight", !.sent = n]
    BY DEF Sent
  <2> HIDE DEF n
  <2>3. /\ Sent(s) \in Call /\ Sent(s).sent = n /\ Sent(s).step = "inflight"
        /\ Sent(s).transient = s.transient /\ Sent(s).blocked = s.blocked
    BY <1>1, <2>1, <2>2 DEF Call
  <2> QED BY <2>3 DEF n
<1>3. s.sent \in Nat /\ s.transient \in Nat /\ s.blocked \in Nat
  BY <1>1 DEF Call
<1>4. Sent(s).sent <= 1 + s.transient + s.blocked
  BY <1>2, <1>3 DEF Paid
<1>5. WithinTries(Sent(s))
  BY <1>1, <1>2, <1>4 DEF WithinTries
<1>6. Sent(s).sent <= Tries
  BY <1>1, <1>2, <1>3, <1>4, BudgetsAreNumbers DEF Tries
<1> QED BY <1>2, <1>5, <1>6 DEF Active

\* However the gate is found, one call moves, and a request that leaves late is
\* one more of that call.
LEMMA AcquireMoves ==
  ASSUME ClientAssumption, late \in Nat, NEW p \in Calls, NEW s, WithinTries(s), Paid(s), NEW g,
         NEW c \in [Calls -> Call], \A q \in Calls : WithinTries(c[q]), Acquire(p, s, g, c)
  PROVE  /\ call' \in [Calls -> Call] /\ \A q \in Calls : WithinTries(call'[q])
         /\ \A q \in Calls : q # p => call'[q] = c[q]
         /\ late' \in Nat
         /\ ~circuit.opened => late' = late
         /\ late <= s.sent /\ Active(call'[p]) => late' <= call'[p].sent
         /\ late' = late \/ (late' = late + 1 /\ Active(call'[p]) /\ call'[p].sent = s.sent + 1 /\ s.sent + 1 <= Tries)
<1>1. s \in Call /\ s.sent \in Nat
  BY DEF WithinTries, Call
<1>2. CASE call' = [c EXCEPT ![p] = Sent(s)] /\ Late
  <2>1. WithinTries(Sent(s)) /\ Sent(s) \in Call
    BY SentWithinTries DEF WithinTries
  <2>2. call'[p] = Sent(s) /\ (\A q \in Calls : q # p => call'[q] = c[q]) /\ call' \in [Calls -> Call]
    BY <1>2, <2>1
  <2>3. late' = late \/ (circuit.opened /\ late' = late + 1)
    BY <1>2 DEF Late
  <2> QED BY <1>1, <2>1, <2>2, <2>3, SentWithinTries
<1>3. CASE call' = [c EXCEPT ![p] = [s EXCEPT !.step = "waiting"]] /\ late' = late
  <2> DEFINE w == [s EXCEPT !.step = "waiting"]
  <2>1. WithinTries(w) /\ w \in Call /\ w.sent = s.sent
    BY <1>1 DEF WithinTries, Paid, Call, Steps
  <2> HIDE DEF w
  <2>2. call'[p] = w /\ (\A q \in Calls : q # p => call'[q] = c[q]) /\ call' \in [Calls -> Call]
    BY <1>3, <2>1 DEF w
  <2> QED BY <1>3, <2>1, <2>2
<1>4. CASE call' = Raised(p, s, c) /\ late' = late
  <2> DEFINE e == [s EXCEPT !.step = "ended", !.answer = "error"]
  <2>1. WithinTries(e) /\ e \in Call /\ e.sent = s.sent
    BY <1>1 DEF WithinTries, Call, Steps, Answers, Failed
  <2>2. call' = [q \in Calls |-> IF q = p THEN e ELSE c[q]]
    BY <1>4 DEF Raised
  <2> HIDE DEF e
  <2>3. call'[p] = e /\ (\A q \in Calls : q # p => call'[q] = c[q]) /\ call' \in [Calls -> Call]
    BY <2>1, <2>2
  <2> QED BY <1>4, <2>1, <2>3
<1> QED BY <1>2, <1>3, <1>4 DEF Acquire

LEMMA InitClientInv ==
  ASSUME ClientAssumption, ClientInit
  PROVE  ClientInv
<1>1. call = NoCalls
  BY DEF ClientInit, NoCalls
<1>2. CallsWithinTries /\ \A p \in Calls : ~Active(call[p])
  BY <1>1, NoCallWithinTries DEF CallsWithinTries
<1>3. LateIsOfOne
  BY <1>2, BudgetsAreNumbers DEF ClientInit, LateIsOfOne
<1> QED BY <1>2, <1>3 DEF ClientInit, ClientInv, SearchIsAlone, RefusalIsPushed, RefusedIsTheirs, Circuit, HasPhase, NoCand

(***************************************************************************)
(* Steps of a call                                                         *)
(***************************************************************************)

\* A call that asks again for the gate, or is handed it.
LEMMA AskingKeeps ==
  ASSUME ClientAssumption, ClientInv, NEW p \in Calls, Asking(p)
  PROVE  ClientInv' /\ circuit' = circuit
<1>1. UNCHANGED <<circuit, cand, pushed>>
  BY DEF Asking, Resume, Grant, HoldingOver
<1>2. Active(call[p]) /\ WithinTries(call[p]) /\ Paid(call[p]) /\ late \in Nat
  BY DEF Asking, Resume, Grant, HoldingOver, Active, ClientInv, CallsWithinTries, WithinTries
<1>3. /\ call' \in [Calls -> Call] /\ \A q \in Calls : WithinTries(call'[q])
      /\ \A q \in Calls : q # p => call'[q] = call[q]
      /\ late' \in Nat
      /\ ~circuit.opened => late' = late
      /\ late <= call[p].sent /\ Active(call'[p]) => late' <= call'[p].sent
      /\ late' = late \/ (late' = late + 1 /\ Active(call'[p]) /\ call'[p].sent = call[p].sent + 1 /\ call[p].sent + 1 <= Tries)
  <2>1. CASE \E g : Acquire(p, call[p], g, call)
    <3>1. PICK g : Acquire(p, call[p], g, call)
      BY <2>1
    <3> QED BY <1>2, <3>1, AcquireMoves DEF ClientInv, CallsWithinTries
  <2>2. CASE call' = [call EXCEPT ![p] = Sent(@)] /\ Late
    <3>1. WithinTries(Sent(call[p])) /\ Sent(call[p]) \in Call /\ call[p].sent \in Nat
      BY <1>2, SentWithinTries DEF WithinTries, Call
    <3>2. call'[p] = Sent(call[p]) /\ (\A q \in Calls : q # p => call'[q] = call[q]) /\ call' \in [Calls -> Call]
      BY <2>2, <3>1 DEF ClientInv, CallsWithinTries
    <3>3. late' = late \/ (circuit.opened /\ late' = late + 1)
      BY <1>2, <2>2 DEF Late
    <3>4. \A q \in Calls : WithinTries(call[q])
      BY DEF ClientInv, CallsWithinTries
    <3> QED BY <1>2, <3>1, <3>2, <3>3, <3>4, SentWithinTries
  <2> QED BY <2>1, <2>2 DEF Asking, Resume, Grant, HoldingOver
<1>4. CallsWithinTries'
  BY <1>3 DEF CallsWithinTries
<1>5. SearchIsAlone'
  BY <1>1, <1>2, <1>3 DEF ClientInv, SearchIsAlone
<1>6. LateIsOfOne'
  <2>1. late' <= Tries
    <3>1. late <= Tries /\ (circuit.opened => late <= call[p].sent) /\ call[p].sent \in Nat
      BY <1>2 DEF ClientInv, LateIsOfOne, WithinTries, Call
    <3> QED BY <1>2, <1>3, <3>1, BudgetsAreNumbers
  <2> QED BY <1>1, <1>2, <1>3, <2>1 DEF ClientInv, LateIsOfOne
<1>7. RefusalIsPushed'
  BY <1>1 DEF ClientInv, RefusalIsPushed, RefusedIsTheirs
<1> QED BY <1>1, <1>3, <1>4, <1>5, <1>6, <1>7 DEF ClientInv

\* What a reply does to a call that was in flight.
LEMMA ReplyMoves ==
  ASSUME ClientAssumption, ClientInv, NEW p \in Calls, Reply(p)
  PROVE  /\ Active(call[p])
         /\ \E s : /\ call' = [call EXCEPT ![p] = s]
                   /\ WithinTries(s) /\ s.sent = call[p].sent
                   /\ circuit'.opened # circuit.opened => ~Active(s)
<1>1. call[p].step = "inflight" /\ WithinTries(call[p])
  BY DEF Reply, TransportFailure, Good, Denied, Missing, Blocked, Busy, ClientInv, CallsWithinTries
<1>2. call[p] \in Call
  BY <1>1 DEF WithinTries
<1>3. ASSUME NEW a \in Answers, call' = Ended(p, a)
      PROVE  \E s : call' = [call EXCEPT ![p] = s] /\ WithinTries(s) /\ s.sent = call[p].sent /\ ~Active(s)
  <2> DEFINE e == [call[p] EXCEPT !.step = "ended", !.answer = a]
  <2>1. call' = [call EXCEPT ![p] = e]
    BY <1>3 DEF Ended, ClientInv, CallsWithinTries
  <2>2. WithinTries(e) /\ e.sent = call[p].sent /\ ~Active(e)
    BY <1>1, <1>2 DEF WithinTries, Active, Call, Steps
  <2> QED BY <2>1, <2>2
<1>4. ASSUME NEW step \in {"holding", "pausing"}, call[p].transient < TransientRetries,
             call' = [call EXCEPT ![p].transient = @ + 1, ![p].step = step]
      PROVE  \E s : call' = [call EXCEPT ![p] = s] /\ WithinTries(s) /\ s.sent = call[p].sent
  <2> DEFINE e == [call[p] EXCEPT !.transient = @ + 1, !.step = step]
  <2>1. call' = [call EXCEPT ![p] = e]
    BY <1>4 DEF ClientInv, CallsWithinTries
  <2>2. /\ e \in Call /\ e.sent = call[p].sent /\ e.transient = call[p].transient + 1
        /\ e.blocked = call[p].blocked
    <3> DEFINE n == call[p].transient + 1
    <3>1. n \in Nat /\ step \in Steps
      BY <1>2 DEF Call, Steps
    <3>2. e = [call[p] EXCEPT !.transient = n, !.step = step]
      OBVIOUS
    <3> HIDE DEF n, e
    <3>3. e \in Call /\ e.sent = call[p].sent /\ e.transient = n /\ e.blocked = call[p].blocked
      BY <1>2, <3>1, <3>2 DEF Call
    <3> QED BY <3>3 DEF n
  <2>3. call[p].sent \in Nat /\ call[p].transient \in Nat /\ call[p].blocked \in Nat
    BY <1>2 DEF Call
  <2>4. e.transient <= TransientRetries /\ e.sent <= e.transient + e.blocked /\ e.sent <= 1 + e.transient + e.blocked
    BY <1>1, <1>4, <2>2, <2>3, BudgetsAreNumbers DEF WithinTries
  <2>5. WithinTries(e)
    BY <1>1, <2>2, <2>4 DEF WithinTries, Paid
  <2> QED BY <2>1, <2>2, <2>5
<1>5. ASSUME call[p].blocked < BlockRetries,
             call' = [call EXCEPT ![p].blocked = @ + 1, ![p].step = "pausing"]
      PROVE  \E s : call' = [call EXCEPT ![p] = s] /\ WithinTries(s) /\ s.sent = call[p].sent
  <2> DEFINE e == [call[p] EXCEPT !.blocked = @ + 1, !.step = "pausing"]
  <2>1. call' = [call EXCEPT ![p] = e]
    BY <1>5 DEF ClientInv, CallsWithinTries
  <2>2. /\ e \in Call /\ e.sent = call[p].sent /\ e.blocked = call[p].blocked + 1
        /\ e.transient = call[p].transient
    <3> DEFINE n == call[p].blocked + 1
    <3>1. n \in Nat /\ "pausing" \in Steps
      BY <1>2 DEF Call, Steps
    <3>2. e = [call[p] EXCEPT !.blocked = n, !.step = "pausing"]
      OBVIOUS
    <3> HIDE DEF n, e
    <3>3. e \in Call /\ e.sent = call[p].sent /\ e.blocked = n /\ e.transient = call[p].transient
      BY <1>2, <3>1, <3>2 DEF Call
    <3> QED BY <3>3 DEF n
  <2>3. call[p].sent \in Nat /\ call[p].transient \in Nat /\ call[p].blocked \in Nat
    BY <1>2 DEF Call
  <2>4. e.blocked <= BlockRetries /\ e.sent <= e.transient + e.blocked /\ e.sent <= 1 + e.transient + e.blocked
    BY <1>1, <1>5, <2>2, <2>3, BudgetsAreNumbers DEF WithinTries
  <2>5. WithinTries(e)
    BY <1>1, <2>2, <2>4 DEF WithinTries, Paid
  <2> QED BY <2>1, <2>2, <2>5
<1>6. CASE \E a \in Answers : call' = Ended(p, a)
  BY <1>1, <1>3, <1>6 DEF Active
<1>7. CASE /\ circuit' = circuit
           /\ \E step \in {"holding", "pausing"} :
                /\ call[p].transient < TransientRetries
                /\ call' = [call EXCEPT ![p].transient = @ + 1, ![p].step = step]
  BY <1>1, <1>4, <1>7 DEF Active
<1>8. CASE /\ circuit' = circuit /\ call[p].blocked < BlockRetries
           /\ call' = [call EXCEPT ![p].blocked = @ + 1, ![p].step = "pausing"]
  BY <1>1, <1>5, <1>8 DEF Active
<1>9. {"unavailable", "missing", "page", "thin"} \subseteq Answers
  BY DEF Answers, Failed
<1>10. CASE TransportFailure(p)
  BY <1>6, <1>7, <1>9, <1>10 DEF TransportFailure
<1>11. CASE Blocked(p)
  BY <1>6, <1>8, <1>9, <1>11 DEF Blocked
<1>12. CASE Busy(p)
  BY <1>6, <1>7, <1>9, <1>12 DEF Busy
<1>13. CASE Good(p) \/ Denied(p) \/ Missing(p)
  BY <1>6, <1>9, <1>13 DEF Good, Denied, Missing
<1> QED BY <1>10, <1>11, <1>12, <1>13 DEF Reply

\* The circuit does not close, and a refusal is not taken back.
Grows == circuit.opened => circuit'.opened /\ (circuit.refused => circuit'.refused)

\* A failure opens the circuit at most, and says so only of a source that
\* pushed back.
LEMMA FailureOpens ==
  ASSUME ClientAssumption, circuit \in Circuit, NEW refusal \in BOOLEAN
  PROVE  /\ record_failure(refusal) \in Circuit
         /\ circuit.opened => /\ record_failure(refusal).opened
                              /\ record_failure(refusal).refused = circuit.refused
         /\ record_failure(refusal).refused => refusal \/ circuit.refused
         /\ ~circuit.refused /\ record_failure(refusal).refused => record_failure(refusal).opened
<1> DEFINE n == circuit.failures + 1
<1>1. n \in Nat
  BY DEF Circuit
<1> HIDE DEF n
<1>2. CASE n >= Threshold /\ ~circuit.opened
  <2>1. record_failure(refusal) = [failures |-> n, opened |-> TRUE, refused |-> refusal]
    BY <1>2 DEF record_failure, n
  <2> QED BY <1>1, <1>2, <2>1 DEF Circuit
<1>3. CASE ~(n >= Threshold /\ ~circuit.opened)
  <2>1. record_failure(refusal) = [circuit EXCEPT !.failures = n]
    BY <1>3, Zenon DEF record_failure, n
  <2>2. record_failure(refusal) \in Circuit
        /\ record_failure(refusal).opened = circuit.opened /\ record_failure(refusal).refused = circuit.refused
    BY <1>1, <2>1 DEF Circuit
  <2> QED BY <2>2
<1> QED BY <1>2, <1>3

LEMMA ReplyOpens ==
  ASSUME ClientAssumption, ClientInv, NEW p \in Calls, Reply(p)
  PROVE  circuit' \in Circuit /\ RefusalIsPushed' /\ Grows
<1>1. circuit \in Circuit /\ RefusalIsPushed
  BY DEF ClientInv
<1>2. CASE circuit' = circuit /\ pushed' = pushed
  BY <1>1, <1>2 DEF RefusalIsPushed, RefusedIsTheirs, Grows
<1>3. CASE circuit' = record_failure(FALSE) /\ pushed' = pushed
  BY <1>1, <1>3, FailureOpens DEF RefusalIsPushed, RefusedIsTheirs, Grows, Circuit
<1>4. CASE Denied(p)
  <2>1. circuit' = [circuit EXCEPT !.opened = TRUE, !.refused = TRUE] /\ pushed' = "denied"
    BY <1>4 DEF Denied, trip
  <2>2. circuit' \in Circuit /\ circuit'.opened /\ circuit'.refused
    BY <1>1, <2>1 DEF Circuit
  <2> QED BY <2>1, <2>2 DEF RefusalIsPushed, RefusedIsTheirs, Grows
<1>5. CASE circuit' = record_failure(TRUE) /\ pushed' = IF pushed = "no" THEN "blocked" ELSE pushed
  BY <1>1, <1>5, FailureOpens DEF RefusalIsPushed, RefusedIsTheirs, Grows, Circuit
<1>6. CASE Good(p)
  <2>1. circuit' = [circuit EXCEPT !.failures = 0] /\ pushed' = pushed
    BY <1>6 DEF Good, record_success
  <2>2. circuit' \in Circuit /\ circuit'.opened = circuit.opened /\ circuit'.refused = circuit.refused
    BY <1>1, <2>1 DEF Circuit
  <2> QED BY <1>1, <2>1, <2>2 DEF RefusalIsPushed, RefusedIsTheirs, Grows
<1> QED BY <1>2, <1>3, <1>4, <1>5, <1>6 DEF Reply, TransportFailure, Missing, Blocked, Busy

\* The call that opens the circuit ends, and what stays is at most one more.
LEMMA ReplyKeeps ==
  ASSUME ClientAssumption, ClientInv, NEW p \in Calls, Reply(p)
  PROVE  ClientInv' /\ Grows
<1>1. UNCHANGED <<cand, late>>
  BY DEF Reply, TransportFailure, Good, Denied, Missing, Blocked, Busy
<1>2. PICK s : /\ call' = [call EXCEPT ![p] = s]
               /\ WithinTries(s) /\ s.sent = call[p].sent
               /\ circuit'.opened # circuit.opened => ~Active(s)
  BY ReplyMoves
<1>3. Active(call[p])
  BY ReplyMoves
<1>4. call' \in [Calls -> Call] /\ call'[p] = s /\ \A q \in Calls : q # p => call'[q] = call[q]
  BY <1>2 DEF ClientInv, CallsWithinTries, WithinTries
<1>5. CallsWithinTries'
  BY <1>2, <1>4 DEF ClientInv, CallsWithinTries
<1>6. SearchIsAlone'
  BY <1>1, <1>3, <1>4 DEF ClientInv, SearchIsAlone
<1>7. circuit' \in Circuit /\ RefusalIsPushed' /\ Grows
  BY ReplyOpens
<1>8. LateIsOfOne'
  <2>1. CASE circuit'.opened = circuit.opened
    BY <1>1, <1>2, <1>3, <1>4, <2>1 DEF ClientInv, LateIsOfOne
  <2>2. CASE circuit'.opened # circuit.opened
    <3>1. ~circuit.opened /\ circuit'.opened /\ late = 0
      BY <1>7, <2>2 DEF ClientInv, LateIsOfOne, Circuit, Grows
    <3>2. ~Active(call'[p])
      BY <1>2, <1>4, <2>2
    <3>3. \A q, r \in Calls : Active(call'[q]) /\ Active(call'[r]) => q = r
      BY <1>3, <1>4, <3>2 DEF ClientInv, SearchIsAlone
    <3>4. \A q \in Calls : call'[q].sent \in Nat
      BY <1>4 DEF Call
    <3> QED BY <1>1, <3>1, <3>3, <3>4, BudgetsAreNumbers DEF LateIsOfOne
  <2> QED BY <2>1, <2>2
<1> QED BY <1>1, <1>5, <1>6, <1>7, <1>8 DEF ClientInv

(***************************************************************************)
(* Steps of a candidate                                                    *)
(***************************************************************************)

\* A call that begins does so with the circuit closed, so nothing is late.
LEMMA StartsWithinTries ==
  ASSUME ClientAssumption, ClientInv, NEW p \in Calls, NEW c \in [Calls -> Call],
         \A q \in Calls : WithinTries(c[q]), StartOne(c, p)
  PROVE  /\ call' \in [Calls -> Call] /\ \A q \in Calls : WithinTries(call'[q])
         /\ \A q \in Calls : q # p => call'[q] = c[q]
         /\ late' = late
         /\ circuit.opened => ~Active(call'[p])
<1>1. CASE ~Refuses /\ Acquire(p, NoCall, gate, c)
  BY <1>1, NoCallWithinTries, AcquireMoves DEF Refuses, ClientInv
<1>2. CASE Refuses /\ Refused(c, {p})
  <2> DEFINE e == [NoCall EXCEPT !.step = "ended", !.answer = "unavailable"]
  <2>1. WithinTries(e) /\ e \in Call /\ ~Active(e)
    BY RefusedWithinTries
  <2>2. call' = [q \in Calls |-> IF q = p THEN e ELSE c[q]] /\ late' = late
    BY <1>2 DEF Refused
  <2> HIDE DEF e
  <2> QED BY <2>1, <2>2
<1> QED BY <1>1, <1>2 DEF StartOne

LEMMA BothWithinTries ==
  ASSUME ClientAssumption, ClientInv, StartBoth
  PROVE  /\ call' \in [Calls -> Call] /\ \A q \in Calls : WithinTries(call'[q])
         /\ ~Active(call'["search"])
         /\ late' = late
         /\ circuit.opened => \A q \in Calls : ~Active(call'[q])
<1> DEFINE c == [NoCalls EXCEPT !["book"] = Sent(NoCall)]
<1>1. /\ Sent(NoCall) \in Call /\ WithinTries(Sent(NoCall))
  BY NoCallWithinTries, SentWithinTries DEF WithinTries
<1>2. c \in [Calls -> Call] /\ (\A q \in Calls : WithinTries(c[q])) /\ c["search"] = NoCall
  BY <1>1, NoCallWithinTries
<1>3. CASE ~Refuses /\ Acquire("work", NoCall, "book", c)
  <2> HIDE DEF c
  <2> QED BY <1>2, <1>3, NoCallWithinTries, AcquireMoves DEF Refuses, ClientInv
<1>4. CASE Refuses /\ Refused(NoCalls, {"book", "work"})
  <2> DEFINE e == [NoCall EXCEPT !.step = "ended", !.answer = "unavailable"]
  <2>1. WithinTries(e) /\ e \in Call /\ ~Active(e)
    BY RefusedWithinTries
  <2>2. call' = [q \in Calls |-> IF q \in {"book", "work"} THEN e ELSE NoCalls[q]] /\ late' = late
    BY <1>4 DEF Refused
  <2> HIDE DEF e
  <2> QED BY <2>1, <2>2, NoCallWithinTries
<1> QED BY <1>3, <1>4 DEF StartBoth

\* The candidate moves on; a call that is new while the circuit is open is over.
LEMMA MovesKeep ==
  ASSUME ClientAssumption, ClientInv, UNCHANGED <<circuit, pushed, late>>, HasPhase(cand'), SearchIsAlone',
         call' \in [Calls -> Call], \A q \in Calls : WithinTries(call'[q]),
         circuit.opened => \A q \in Calls : Active(call'[q]) => call'[q] = call[q]
  PROVE  ClientInv' /\ Grows
<1>1. LateIsOfOne'
  BY DEF ClientInv, LateIsOfOne
<1>2. RefusalIsPushed' /\ Grows
  BY DEF ClientInv, RefusalIsPushed, RefusedIsTheirs, Grows
<1> QED BY <1>1, <1>2 DEF ClientInv, CallsWithinTries

\* The calls stay as they are.
LEMMA SilentKeeps ==
  ASSUME ClientAssumption, ClientInv, UNCHANGED <<circuit, pushed>>, Silent, HasPhase(cand'),
         cand'.phase # "search", ~Active(call["search"])
  PROVE  ClientInv' /\ Grows
<1>1. SearchIsAlone'
  BY DEF Silent, SearchIsAlone
<1> QED BY <1>1, MovesKeep DEF Silent, ClientInv, CallsWithinTries

\* A page is asked for; of the calls before only those of the book stay.
LEMMA StartKeeps ==
  ASSUME ClientAssumption, ClientInv, UNCHANGED <<circuit, pushed>>, HasPhase(cand'), NEW p \in Calls,
         NEW c \in {call, NoCalls}, StartOne(c, p),
         IF p = "search" THEN c = NoCalls /\ cand'.phase = "search"
         ELSE cand'.phase # "search" /\ ~Active(c["search"])
  PROVE  ClientInv' /\ Grows
<1>1. c \in [Calls -> Call] /\ \A q \in Calls : WithinTries(c[q])
  BY NoCallWithinTries DEF ClientInv, CallsWithinTries
<1>2. /\ call' \in [Calls -> Call] /\ \A q \in Calls : WithinTries(call'[q])
      /\ \A q \in Calls : q # p => call'[q] = c[q]
      /\ late' = late
      /\ circuit.opened => ~Active(call'[p])
  BY <1>1, StartsWithinTries
<1>3. SearchIsAlone'
  BY <1>2, NoCallWithinTries DEF SearchIsAlone
<1>4. \A q \in Calls : Active(call'[q]) => call'[q] = call[q] \/ q = p
  BY <1>2, NoCallWithinTries
<1> QED BY <1>2, <1>3, <1>4, MovesKeep

LEMMA TakeKeeps ==
  ASSUME ClientAssumption, ClientInv, NEW q, NEW way, Take(q, way)
  PROVE  ClientInv' /\ Grows
<1> DEFINE c == [NoCand EXCEPT !.way = way, !.query = q]
<1>1. UNCHANGED <<circuit, pushed>> /\ ~Active(call["search"])
  BY DEF Take, ClientInv, SearchIsAlone
<1>2. \A phase, outcome : /\ HasPhase([c EXCEPT !.phase = phase])
                          /\ [c EXCEPT !.phase = phase].phase = phase
                          /\ HasPhase([c EXCEPT !.phase = phase, !.outcome = outcome])
                          /\ [c EXCEPT !.phase = phase, !.outcome = outcome].phase = phase
  BY DEF HasPhase, NoCand
<1> HIDE DEF c
<1>3. CASE Silent /\ \E outcome : cand' = [c EXCEPT !.phase = "done", !.outcome = outcome]
  <2>1. PICK outcome : cand' = [c EXCEPT !.phase = "done", !.outcome = outcome]
    BY <1>3
  <2>2. HasPhase(cand') /\ cand'.phase = "done"
    BY <1>2, <2>1, Zenon
  <2> QED BY <1>1, <1>3, <2>2, SilentKeeps
<1>4. CASE cand' = [c EXCEPT !.phase = "search"] /\ StartOne(NoCalls, "search")
  BY <1>1, <1>2, <1>4, StartKeeps
<1>5. CASE cand' = [c EXCEPT !.phase = "detail"] /\ StartOne(NoCalls, "book")
  BY <1>1, <1>2, <1>5, NoCallWithinTries, StartKeeps
<1> QED BY <1>3, <1>4, <1>5 DEF Take, c

\* The candidate comes to an outcome.
LEMMA FinishKeeps ==
  ASSUME ClientAssumption, ClientInv, UNCHANGED <<circuit, pushed>>, ~Active(call["search"]), NEW outcome, Finish(outcome)
  PROVE  ClientInv' /\ Grows
<1>1. HasPhase(cand') /\ cand'.phase = "done"
  BY DEF Finish, ClientInv, HasPhase
<1> QED BY <1>1, SilentKeeps DEF Finish

LEMMA DetailKeeps ==
  ASSUME ClientAssumption, ClientInv, UNCHANGED <<circuit, pushed>>, ~Active(call["search"]), NEW cards, Detail(cards)
  PROVE  ClientInv' /\ Grows
<1>1. CASE Finish("no_match")
  BY <1>1, FinishKeeps
<1>2. CASE /\ \E failed, rest : cand' = [cand EXCEPT !.phase = "detail", !.failed = failed, !.cards = rest]
           /\ StartBoth \/ StartOne(NoCalls, "book")
  <2>1. HasPhase(cand') /\ cand'.phase = "detail"
    BY <1>2 DEF ClientInv, HasPhase
  <2>2. CASE StartOne(NoCalls, "book")
    BY <2>1, <2>2, NoCallWithinTries, StartKeeps
  <2>3. CASE StartBoth
    <3>1. /\ call' \in [Calls -> Call] /\ \A q \in Calls : WithinTries(call'[q])
          /\ ~Active(call'["search"])
          /\ late' = late
          /\ circuit.opened => \A q \in Calls : ~Active(call'[q])
      BY <2>3, BothWithinTries
    <3>2. SearchIsAlone'
      BY <2>1, <3>1 DEF SearchIsAlone
    <3> QED BY <2>1, <3>1, <3>2, MovesKeep
  <2> QED BY <1>2, <2>2, <2>3
<1> QED BY <1>1, <1>2, Zenon DEF Detail

LEMMA GoingKeeps ==
  ASSUME ClientAssumption, ClientInv, Going
  PROVE  ClientInv' /\ Grows
<1>1. CASE SearchAnswered
  <2>1. ~Active(call["search"]) /\ \A p \in Calls : ~Active(call[p])
    BY <1>1 DEF SearchAnswered, Answered, Active, ClientInv, SearchIsAlone
  <2>2. CASE UNCHANGED circuit
    BY <1>1, <2>1, <2>2, FinishKeeps, DetailKeeps DEF SearchAnswered
  <2>3. CASE circuit' = record_failure(FALSE) /\ Finish("unavailable")
    <3>1. HasPhase(cand') /\ cand'.phase = "done" /\ call' = call /\ late' = late /\ pushed' = pushed
      BY <1>1, <2>3 DEF SearchAnswered, Finish, Silent, ClientInv, HasPhase
    <3>2. circuit' \in Circuit /\ RefusalIsPushed' /\ Grows
      BY <2>3, <3>1, FailureOpens DEF ClientInv, RefusalIsPushed, RefusedIsTheirs, Grows, Circuit
    <3>3. LateIsOfOne'
      BY <2>1, <3>1, <3>2 DEF ClientInv, LateIsOfOne, Grows
    <3> QED BY <2>1, <3>1, <3>2, <3>3 DEF ClientInv, CallsWithinTries, SearchIsAlone
  <2> QED BY <1>1, <2>2, <2>3 DEF SearchAnswered
<1>2. CASE PagesAnswered
  <2>1. UNCHANGED <<circuit, pushed>> /\ ~Active(call["search"])
    BY <1>2 DEF PagesAnswered, ClientInv, SearchIsAlone
  <2> QED BY <1>2, <2>1, FinishKeeps, DetailKeeps DEF PagesAnswered
<1>3. CASE BookAnswered
  <2>1. UNCHANGED <<circuit, pushed>> /\ ~Active(call["search"])
    BY <1>3 DEF BookAnswered, ClientInv, SearchIsAlone
  <2>2. CASE cand' = [cand EXCEPT !.phase = "work"] /\ StartOne(call, "work")
    <3>1. HasPhase(cand') /\ cand'.phase = "work"
      BY <2>2 DEF ClientInv, HasPhase
    <3> QED BY <2>1, <2>2, <3>1, StartKeeps
  <2> QED BY <1>3, <2>1, <2>2, FinishKeeps DEF BookAnswered
<1>4. CASE WorkAnswered
  <2>1. UNCHANGED <<circuit, pushed>> /\ ~Active(call["search"])
    BY <1>4 DEF WorkAnswered, ClientInv, SearchIsAlone
  <2> QED BY <1>4, <2>1, FinishKeeps DEF WorkAnswered
<1>5. CASE AttemptRecorded
  <2>1. HasPhase(cand') /\ call' = NoCalls /\ UNCHANGED <<circuit, pushed, late>>
    BY <1>5 DEF AttemptRecorded, HasPhase, NoCand
  <2>2. \A p \in Calls : ~Active(call'[p]) /\ WithinTries(call'[p])
    BY <2>1, NoCallWithinTries
  <2> QED BY <2>1, <2>2, NoCallWithinTries, MovesKeep DEF SearchIsAlone
<1> QED BY <1>1, <1>2, <1>3, <1>4, <1>5 DEF Going

LEMMA NextKeeps ==
  ASSUME ClientAssumption, ClientInv, [ClientNext]_clientVars
  PROVE  ClientInv' /\ Grows
<1>1. CASE UNCHANGED <<call, circuit, cand, late, pushed>>
  <2>1. ClientInv'
    BY <1>1 DEF ClientInv, CallsWithinTries, SearchIsAlone, LateIsOfOne, RefusalIsPushed, RefusedIsTheirs
  <2> QED BY <1>1, <2>1 DEF Grows
<1>2. ASSUME NEW p \in Calls, Asking(p) PROVE ClientInv' /\ Grows
  BY <1>2, AskingKeeps DEF Grows
<1> QED BY <1>1, <1>2, TakeKeeps, ReplyKeeps, GoingKeeps DEF ClientNext, clientVars, NextBatch, Expire

(***************************************************************************)
(* The theorems                                                            *)
(***************************************************************************)

\* Requests are paid for out of the two budgets, and once the circuit is open
\* one call at most may still send.
THEOREM ClientInvariant ==
  ASSUME ClientAssumption
  PROVE  ClientSpec => []ClientInv
<1>1. ClientInit => ClientInv
  BY InitClientInv
<1>2. ClientInv /\ [ClientNext]_clientVars => ClientInv'
  BY NextKeeps
<1> QED BY <1>1, <1>2, PTL DEF ClientSpec

\* A page is asked for at most once per retry of each budget and once more,
\* and that many requests at most leave after the circuit opened.
THEOREM TriesAndLateBounded ==
  ASSUME ClientAssumption
  PROVE  ClientSpec => [](TriesBounded /\ LateBounded)
<1>1. ClientInv => TriesBounded /\ LateBounded
  <2> SUFFICES ASSUME ClientInv PROVE TriesBounded /\ LateBounded
    OBVIOUS
  <2>1. ASSUME NEW p \in Calls PROVE call[p].sent <= Tries
    <3>1. /\ call[p] \in Call /\ call[p].sent <= 1 + call[p].transient + call[p].blocked
          /\ call[p].transient <= TransientRetries /\ call[p].blocked <= BlockRetries
      BY DEF ClientInv, CallsWithinTries, WithinTries
    <3>2. call[p].sent \in Nat /\ call[p].transient \in Nat /\ call[p].blocked \in Nat
      BY <3>1 DEF Call
    <3> QED BY <3>1, <3>2, BudgetsAreNumbers DEF Tries
  <2> QED BY <2>1 DEF ClientInv, LateIsOfOne, TriesBounded, LateBounded, Tries
<1>2. ClientSpec => []ClientInv
  BY ClientInvariant
<1> QED BY <1>1, <1>2, PTL

\* Only a source that pushed back is said to have refused, and a denial always is.
THEOREM RefusedOnlyIfPushed ==
  ASSUME ClientAssumption
  PROVE  ClientSpec => []RefusedIsTheirs
<1>1. ClientInv => RefusedIsTheirs
  BY DEF ClientInv, RefusalIsPushed
<1>2. ClientSpec => []ClientInv
  BY ClientInvariant
<1> QED BY <1>1, <1>2, PTL

\* The circuit never closes, and no later event takes a refusal back.
THEOREM CircuitStaysOpen ==
  ASSUME ClientAssumption
  PROVE  ClientSpec => OpenForTheRun
<1>1. ClientInv /\ [ClientNext]_clientVars =>
        [circuit.opened => circuit'.opened /\ (circuit.refused => circuit'.refused)]_clientVars
  BY NextKeeps DEF Grows
<1>2. ClientSpec => []ClientInv
  BY ClientInvariant
<1> QED BY <1>1, <1>2, PTL DEF ClientSpec, OpenForTheRun
=================================================================================
