------------------------------- MODULE Discovery -------------------------------
(***************************************************************************)
(* Discovery (dags/book_ingestion_dag.py, pipeline/discover): run after    *)
(* run, a slice of a file of records becomes the manifest that the next    *)
(* task resolves, and the position in the file is kept in discovery_state. *)
(* Airflow runs one DAG run at a time and a task that fails again, a few   *)
(* times; a file may be published anew between runs.                       *)
(*                                                                         *)
(* A line is <<source, edition, number>>.  What resolution does with a     *)
(* manifest is in Resolver.                                                *)
(***************************************************************************)
EXTENDS Naturals, Sequences, FiniteSets

CONSTANTS
  Files,      \* source -> its editions, each a sequence of records
  Languages,  \* discovery_language_set
  Feeds,      \* the sources that runs are started for
  Limits,     \* max_candidates of a run
  NoLimit,    \* -1, the whole file
  Resumes,    \* params["resume"]
  Refreshes,  \* params["refresh_dump"]
  Sliced,     \* dump_fetch_max_lines is set
  Retries,    \* DEFAULT_ARGS["retries"]
  MaxFaults   \* bound: failures of a task

\* What the three parsers look at in a line.
Record == [key : BOOLEAN, title : BOOLEAN, authors : BOOLEAN, isbns : BOOLEAN, languages : SUBSET STRING]

DiscoveryAssumption ==
  /\ \A s \in Feeds : Files[s] \in Seq(Seq(Record)) \ {<<>>}
  /\ Feeds \subseteq {"openlibrary_dump", "goodreads_export", "gutendex"}
  /\ Limits \subseteq (Nat \ {0}) \cup {NoLimit}
  /\ Resumes \subseteq BOOLEAN /\ Refreshes \subseteq BOOLEAN /\ Sliced \in BOOLEAN
  \* fetch.py:47-49: the size of a file moves with its content.
  /\ \A s \in Feeds : \A e, f \in DOMAIN Files[s] : Len(Files[s][e]) = Len(Files[s][f]) => e = f
  /\ Retries \in Nat /\ MaxFaults \in Nat

VARIABLES
  published,   \* source -> the edition that is offered
  disk,        \* the edition of the dump on disk, 0 if none is
  state,       \* discovery_state: dump_key -> position
  manifest,    \* the lines of the manifest on disk
  run,         \* the DAG run under way, or the last
  faults,
  manifested,  \* history: the lines that a manifest has held
  settled,     \* history: those whose position was then saved, since the last reading from the start
  resolved     \* history: those whose resolution came to its end

discoveryVars == <<published, disk, state, manifest, run, faults, manifested, settled, resolved>>

\* The dump is named in a run as it is on disk, the export and the index as
\* they are.
Path(source) == <<source, IF source = "openlibrary_dump" THEN disk ELSE published[source]>>
Records(file) == Files[file[1]][file[2]]
Paths == UNION {{<<source, e>> : e \in DOMAIN Files[source]} : source \in Feeds}

\* Name and size.
dump_key(file) == <<file[1], Len(Records(file))>>
Keys == {dump_key(file) : file \in Paths}
Beginning == [line_offset |-> 0, exhausted |-> FALSE]

\* _to_candidate and the language filter: a title, and something to look it up
\* with.
DumpCandidate(r) ==
  /\ r.key /\ r.title
  /\ r.authors \/ r.isbns
  /\ r.languages = {} \/ r.languages \cap Languages # {}

\* to_goodreads_payload
ExportCandidate(r) == r.key /\ r.title

\* gutendex_source.py _to_candidate
IndexCandidate(r) == r.key /\ r.title /\ r.authors

IsCandidate(source, r) ==
  \/ source = "openlibrary_dump" /\ DumpCandidate(r)
  \/ source = "goodreads_export" /\ ExportCandidate(r)
  \/ source = "gutendex" /\ IndexCandidate(r)

Usable(file, after, upto) == {n \in (after + 1)..upto : IsCandidate(file[1], Records(file)[n])}
Lines(file, numbers) == {<<file[1], file[2], n>> : n \in numbers}
AllLines(file) == Lines(file, Usable(file, 0, Len(Records(file))))

(***************************************************************************)
(* One pass over a file: stream_candidates, build_manifest                 *)
(***************************************************************************)

Written(file, start, stop) == Cardinality(Usable(file, start, stop))
Capped(file, start, limit) == limit # NoLimit /\ Written(file, start, Len(Records(file))) >= limit

\* The line of the last candidate that is taken, or the end of the file.
LastTaken(file, start, limit) ==
  IF Capped(file, start, limit)
  THEN CHOOSE n \in Usable(file, start, Len(Records(file))) : Written(file, start, n) = limit
  ELSE Len(Records(file))

\* MUTANT of LinesRead: the line is counted before the cap is checked.
LinesReadPastCap(file, start, limit) ==
  IF LastTaken(file, start, limit) < Len(Records(file)) THEN LastTaken(file, start, limit) + 1 ELSE Len(Records(file))

\* The cap is checked before the next line is counted.
LinesRead(file, start, limit) == LastTaken(file, start, limit)

\* The file ran out, and not the cap.
RanOut(file, start, limit) == ~Capped(file, start, limit)

Pass(file, start, limit) ==
  [file |-> file, start |-> start, lines |-> Usable(file, start, LastTaken(file, start, limit)),
   lines_read |-> LinesRead(file, start, limit), exhausted |-> RanOut(file, start, limit)]

(***************************************************************************)
(* State                                                                   *)
(***************************************************************************)

Tasks == {"fetch", "check", "discover", "written", "saved", "resolve", "assess"}
NoPass == [file |-> <<"none", 0>>, start |-> 0, lines |-> {}, lines_read |-> 0, exhausted |-> FALSE]

DiscoveryTypeOK ==
  /\ published \in [Feeds -> Nat] /\ \A s \in Feeds : published[s] \in DOMAIN Files[s]
  /\ disk \in Nat
  /\ DOMAIN state = Keys
  /\ \A k \in Keys : state[k].line_offset \in 0..k[2] /\ state[k].exhausted \in BOOLEAN
  /\ run.at \in Tasks \cup {"ended", "failed"}
  /\ run.found \in {"none", "success", "exhausted", "failed"}
  /\ run.at \in {"resolve", "assess"} => run.found # "none"
  /\ run.tries \in 0..Retries
  /\ manifest \subseteq manifested /\ resolved \subseteq manifested /\ settled \subseteq manifested
  /\ faults \in 0..MaxFaults

DiscoveryInit ==
  /\ published = [s \in Feeds |-> 1]
  /\ disk = 0
  /\ state = [k \in Keys |-> Beginning]
  /\ manifest = {}
  /\ run = [at |-> "ended", source |-> "none", limit |-> 1, resume |-> TRUE, refresh |-> FALSE,
            tries |-> 0, slice |-> NoPass, found |-> "none", worked |-> FALSE]
  /\ faults = 0
  /\ manifested = {} /\ settled = {} /\ resolved = {}

(***************************************************************************)
(* Tasks of a run                                                          *)
(***************************************************************************)

\* The task in hand succeeds and the next begins.
Goes(at) == [run EXCEPT !.at = at, !.tries = 0]

\* The next edition is published, or the export replaced.
Publish(s) ==
  /\ published[s] < Len(Files[s])
  /\ published' = [published EXCEPT ![s] = @ + 1]
  /\ UNCHANGED <<disk, state, manifest, run, faults, manifested, settled, resolved>>

\* By the schedule with every default, or by an operator.
Begin ==
  /\ run.at \in {"ended", "failed"}
  /\ \E s \in Feeds, limit \in Limits, resume \in Resumes, refresh \in Refreshes :
       run' = [at |-> "fetch", source |-> s, limit |-> limit, resume |-> resume, refresh |-> refresh,
               tries |-> 0, slice |-> NoPass, found |-> "none", worked |-> FALSE]
  /\ UNCHANGED <<published, disk, state, manifest, faults, manifested, settled, resolved>>

\* fetch_dump: a slice is kept as it is, a whole file while its size is the
\* published one.
Cached ==
  /\ disk # 0 /\ ~run.refresh
  /\ Sliced \/ dump_key(<<"openlibrary_dump", disk>>) = dump_key(<<"openlibrary_dump", published["openlibrary_dump"]>>)

\* The file that is there in the end is whole, and is the published one.
Downloaded == published["openlibrary_dump"]

\* A forced download removes the file, before the source is looked at.
Kept == IF run.refresh THEN 0 ELSE disk

Fetch ==
  /\ run.at = "fetch"
  /\ disk' = IF run.source # "openlibrary_dump" THEN Kept ELSE IF Cached THEN disk ELSE Downloaded
  /\ run' = Goes("check")
  /\ UNCHANGED <<published, state, manifest, faults, manifested, settled, resolved>>

\* check_export: an export without one usable record fails the run.
Check ==
  /\ run.at = "check"
  /\ run' = IF run.source = "goodreads_export" /\ AllLines(Path(run.source)) = {}
            THEN [run EXCEPT !.at = "failed"] ELSE Goes("discover")
  /\ UNCHANGED <<published, disk, state, manifest, faults, manifested, settled, resolved>>

\* read_position, unless the run is to read all again.
Resumed(file) == IF run.resume THEN state[dump_key(file)] ELSE Beginning

\* Nothing is left of this dump: the manifest of an earlier run stays.
NothingLeft ==
  /\ run.at = "discover"
  /\ run.source = "openlibrary_dump"
  /\ Resumed(Path(run.source)).exhausted
  /\ run' = [Goes("resolve") EXCEPT !.found = "exhausted"]
  /\ UNCHANGED <<published, disk, state, manifest, faults, manifested, settled, resolved>>

\* A slice is read and replaces the manifest, in one move of a file.
Build(slice, at, found) ==
  /\ manifest' = Lines(slice.file, slice.lines)
  /\ manifested' = manifested \cup manifest'
  /\ run' = [run EXCEPT !.at = at, !.slice = slice, !.found = found]
  /\ UNCHANGED <<published, disk, state, faults, settled, resolved>>

BuildFromDump ==
  LET file == Path("openlibrary_dump")
      slice == Pass(file, Resumed(file).line_offset, run.limit)
  IN /\ run.at = "discover" /\ run.source = "openlibrary_dump"
     /\ ~Resumed(file).exhausted
     /\ Build(slice, "written", IF slice.lines # {} THEN "success" ELSE "failed")

\* The position is saved if anything was written.  The file is measured and then
\* read: that it is not replaced in between is taken for granted.
BuildFromExport ==
  LET file == Path("goodreads_export")
      slice == Pass(file, Resumed(file).line_offset, run.limit)
  IN /\ run.at = "discover" /\ run.source = "goodreads_export"
     /\ \/ slice.lines # {} /\ Build(slice, "written", "success")
        \/ slice.lines = {} /\ Build(slice, "saved", "exhausted")

\* The first records of the index, and no position.
BuildFromGutendex ==
  LET slice == Pass(Path("gutendex"), 0, run.limit)
  IN /\ run.at = "discover" /\ run.source = "gutendex"
     /\ run.limit # NoLimit
     /\ Build(slice, "saved", IF slice.lines # {} THEN "success" ELSE "failed")

\* It cannot be asked for everything: the comparison with no limit raises.
Unlimited ==
  /\ run.at = "discover"
  /\ run.source = "gutendex" /\ run.limit = NoLimit
  /\ run' = [run EXCEPT !.at = "failed"]
  /\ UNCHANGED <<published, disk, state, manifest, faults, manifested, settled, resolved>>

\* MUTANT of Position: the dump's position counts what was written.
PositionWritten ==
  [line_offset |-> run.slice.start + Cardinality(run.slice.lines), exhausted |-> run.slice.exhausted]

\* The dump's position is the lines read; the export's adds what was written.
Position ==
  IF run.source = "openlibrary_dump"
  THEN [line_offset |-> run.slice.lines_read, exhausted |-> run.slice.exhausted]
  ELSE [line_offset |-> run.slice.start + Cardinality(run.slice.lines), exhausted |-> FALSE]

\* save_position, in a transaction after the manifest.
Save ==
  /\ run.at = "written"
  /\ state' = [state EXCEPT ![dump_key(run.slice.file)] = Position]
  /\ settled' = manifest \cup {line \in settled : run.resume \/ line[1] # run.source}
  /\ run' = [run EXCEPT !.at = "saved"]
  /\ UNCHANGED <<published, disk, manifest, faults, manifested, resolved>>

\* The task returns what it found.
Return ==
  /\ run.at = "saved"
  /\ run' = Goes("resolve")
  /\ UNCHANGED <<published, disk, state, manifest, faults, manifested, settled, resolved>>

\* The manifest that is there, whichever run wrote it.
candidate_source == manifest

\* resolve_and_load, resolve_and_produce
ResolveManifest ==
  /\ run.at = "resolve"
  /\ resolved' = resolved \cup candidate_source
  /\ \E worked \in {w \in BOOLEAN : w => candidate_source # {}} : run' = [Goes("assess") EXCEPT !.worked = worked]
  /\ UNCHANGED <<published, disk, state, manifest, faults, manifested, settled>>

\* assess_extraction
Assess ==
  /\ run.at = "assess"
  /\ run' = Goes(IF run.found = "success" /\ run.worked THEN "ended" ELSE "failed")
  /\ UNCHANGED <<published, disk, state, manifest, faults, manifested, settled, resolved>>

\* A task that is run again starts at its beginning.
First(at) == IF at \in {"written", "saved"} THEN "discover" ELSE at

\* A task fails or its worker dies: it is run again, or the run has failed.
\* A forced download may then have removed the file.
Fail ==
  /\ run.at \in Tasks
  /\ faults < MaxFaults
  /\ faults' = faults + 1
  /\ run' = IF run.tries < Retries THEN [run EXCEPT !.at = First(@), !.tries = @ + 1]
            ELSE [run EXCEPT !.at = "failed"]
  /\ disk' \in IF run.at = "fetch" THEN {disk, Kept} ELSE {disk}
  /\ UNCHANGED <<published, state, manifest, manifested, settled, resolved>>

TaskStep ==
  \/ Fetch \/ Check
  \/ NothingLeft \/ BuildFromDump \/ BuildFromExport \/ BuildFromGutendex \/ Unlimited
  \/ Save \/ Return
  \/ ResolveManifest \/ Assess

DiscoveryNext == Begin \/ TaskStep \/ Fail \/ \E s \in Feeds : Publish(s)

\* The schedule starts a run every day and the tasks of a run are executed.
DiscoveryFairness == WF_discoveryVars(Begin) /\ WF_discoveryVars(TaskStep)

DiscoverySpec == DiscoveryInit /\ [][DiscoveryNext]_discoveryVars /\ DiscoveryFairness

(***************************************************************************)
(* Properties                                                              *)
(***************************************************************************)

\* state.py save_position: a position never passes a record that could be
\* looked up and that no manifest has held, whatever fails between the two.
NothingSkipped ==
  \A file \in Paths :
    Lines(file, Usable(file, 0, state[dump_key(file)].line_offset)) \subseteq manifested

\* stream_candidates: a dump counts as exhausted once its last line was read,
\* and never because a run had enough.
ExhaustedIsRead ==
  \A k \in Keys : state[k].exhausted => state[k].line_offset = k[2]

\* A run that resumes the dump puts nothing in its manifest that a run before it had
\* in its own when its position was saved.
ResumesAfter ==
  [][run.source = "openlibrary_dump" /\ run.resume /\ run.at = "discover" /\ run'.at = "written" =>
       manifest' \cap settled = {}]_discoveryVars

\* Scheduled night after night, discovery comes to the end of the file.
ReadToTheEnd ==
  \A s \in Feeds : <>[](Path(s)[2] # 0 /\ AllLines(Path(s)) \subseteq manifested)

\* book_ingestion_dag.py:145-147: the cached dump is refreshed when the
\* published file changes.
Refreshed == \A e \in DOMAIN Files["openlibrary_dump"] :
  (published["openlibrary_dump"] = e) ~> (disk = e \/ published["openlibrary_dump"] # e)

\* goodreads_export.py:182-184: a resumed run continues where the last one
\* stopped.
ExportResumesAfter ==
  [][run.source = "goodreads_export" /\ run.at = "discover" /\ run'.at = "written" => manifest' \cap settled = {}]_discoveryVars

\* book_ingestion_dag.py:366-368: no slice of the file is skipped for ever; what
\* lies before the position was resolved or is in the manifest.
SliceReachesResolution ==
  \A file \in Paths : file = Path(file[1]) =>
    Lines(file, Usable(file, 0, state[dump_key(file)].line_offset)) \subseteq resolved \cup manifest

\* book_ingestion_dag.py:347-349: a dump with nothing left is not a failure.
ExhaustedIsNoFailure == run.at = "failed" => run.found # "exhausted"

\* book_ingestion_dag.py:117-121: -1 reads the whole file; a run is not failed
\* for having asked for it.
WholeFileIsRead == run.at = "failed" /\ run.limit = NoLimit => run.found # "none"
================================================================================
