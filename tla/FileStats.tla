----------------------------- MODULE FileStats -----------------------------
(***************************************************************************)
(* What RootOutput remembers of the output file it writes, what it puts    *)
(* into the file's catalogue metadata from it, and the name it gives the   *)
(* file once closed (FileStatsCollector, RootOutputFile::                  *)
(* writeFileCatalogMetadata, PostCloseFileRenamer).                        *)
(*                                                                         *)
(* One module with a file name pattern writes a series of output files     *)
(* while the job goes through its input files.  A number that is invalid   *)
(* sorts first, as -1 does.  A name is its characters, but for the name of *)
(* an input file in it, which is one symbol.                               *)
(***************************************************************************)
EXTENDS Integers, Sequences, FiniteSets, SequencesExt

CONSTANTS Runs, SubRuns, Events,   \* the numbers in use
          Inputs,        \* the names of the input files
          Pattern,       \* the file name's substitutions "#", "r", "R", "s", "S" and "if",
                         \* and the characters between them
          MaxFiles,      \* bound: output files written
          MaxSources,    \* bound: input files that are open while one output file is
          MaxRecords     \* bound: different entries and events written to one output file

None == -1   \* an invalid number
Absent == "-"   \* what is substituted for a name there is none of
StatsAssumption ==
  /\ Runs \subseteq Nat /\ SubRuns \subseteq Nat /\ Events \subseteq Nat
  /\ Pattern \in Seq(STRING) /\ MaxFiles \in Nat

VARIABLES stats,   \* the FileStatsCollector of the module
          isOpen,  \* its output file is open
          input,   \* the input file that is open
          run, subRun,   \* the run and the sub-run that are open (None: none)
          drops,   \* what the module is configured not to write
          recorded,   \* what was written to the open file
          sources,    \* the input files that were open while it was
          files,   \* the files closed so far: their metadata, and what they hold
          disk     \* which of them is found under a name

vars == <<stats, isOpen, input, run, subRun, drops, recorded, sources, files, disk>>

-----------------------------------------------------------------------------
\* FileStatsCollector.

SubRunID(r, s) == [run |-> r, subRun |-> s]
EventID(r, s, e) == [run |-> r, subRun |-> s, event |-> e]
NoSubRun == SubRunID(None, None)
NoEvent == EventID(None, None, None)

SubRunLess(a, b) == a.run < b.run \/ (a.run = b.run /\ a.subRun < b.subRun)
EventLess(a, b) ==
  \/ SubRunLess(a, b)
  \/ a.run = b.run /\ a.subRun = b.subRun /\ a.event < b.event

NewStats ==
  [lowest |-> NoSubRun, highest |-> NoSubRun, firstEvent |-> NoEvent, lastEvent |-> NoEvent,
   seqNo |-> 0, lastInput |-> Absent, inputs |-> <<>>, nEvents |-> 0, seen |-> {}]

Reset(st) ==
  [st EXCEPT !.lowest = NoSubRun, !.highest = NoSubRun, !.inputs = <<>>, !.nEvents = 0, !.seen = {}]

RecordFileOpen(st) ==
  LET fresh == Reset(st) IN
  IF fresh.inputs = <<>> THEN fresh
  ELSE [fresh EXCEPT !.inputs = Append(@, fresh.lastInput)]

RecordInputFile(st, f) == [st EXCEPT !.inputs = Append(@, f), !.lastInput = f]

RecordRun(st, r) ==
  [st EXCEPT
     !.lowest = IF @.run = None \/ r < @.run THEN SubRunID(r, None) ELSE @,
     !.highest = IF r > @.run THEN SubRunID(r, None) ELSE @]

\* Faulty: a sub-run is compared with the lowest one though that is of another run or none.
RecordSubRunPlain(st, sr) ==
  LET ran == RecordRun(st, sr.run) IN
  [ran EXCEPT
     !.lowest = IF SubRunLess(sr, @) THEN sr ELSE @,
     !.highest = IF SubRunLess(@, sr) THEN sr ELSE @,
     !.seen = @ \union {sr}]

RecordSubRun(st, sr) ==
  LET ran == RecordRun(st, sr.run) IN
  [ran EXCEPT
     !.lowest = IF sr.run = @.run /\ (@.subRun = None \/ SubRunLess(sr, @)) THEN sr ELSE @,
     !.highest = IF SubRunLess(@, sr) THEN sr ELSE @,
     !.seen = @ \union {sr}]

RecordEvent(st, id) ==
  RecordSubRun(
    [st EXCEPT
       !.nEvents = @ + 1,
       !.firstEvent = IF @ = NoEvent \/ EventLess(id, @) THEN id ELSE @,
       !.lastEvent = IF EventLess(@, id) THEN id ELSE @],
    SubRunID(id.run, id.subRun))

RecordFileClose(st) == [st EXCEPT !.seqNo = @ + 1]

-----------------------------------------------------------------------------
\* RootOutputFile::writeFileCatalogMetadata.

\* The entries a value lists, in the order of the set they come from.
InOrder(S) ==
  LET before(sr) == Cardinality({other \in S : SubRunLess(other, sr)}) IN
  [i \in 1 .. Cardinality(S) |-> CHOOSE sr \in S : before(sr) = i - 1]

\* The last delimiter is overwritten by the closing bracket.
Rewound(text) == [text EXCEPT ![Len(text)] = "]"]

\* The value of "runs": a delimiter before each entry but the first and after each entry.
RunsValue(seen) ==
  LET entries == InOrder(seen)
      upTo[n \in 0 .. Len(entries)] ==
        IF n = 0 THEN <<"[">>
        ELSE upTo[n - 1] \o (IF n = 1 THEN <<>> ELSE <<",">>) \o <<"entry", ",">>
  IN Rewound(upTo[Len(entries)])

Metadata(st) ==
  [firstEvent |-> st.firstEvent, lastEvent |-> st.lastEvent, eventCount |-> st.nEvents,
   runs |-> IF st.seen = {} THEN <<>> ELSE RunsValue(st.seen), parents |-> st.inputs]

-----------------------------------------------------------------------------
\* PostCloseFileRenamer.

\* A number as it is written, or "-" when there is none.
Digit == <<"0", "1", "2", "3", "4", "5", "6", "7", "8", "9">>
Digits[n \in Nat] ==
  (IF n < 10 THEN <<>> ELSE Digits[n \div 10]) \o <<Digit[(n % 10) + 1]>>
Number(n) == IF n = None THEN <<"-">> ELSE Digits[n]

Substitution(st, code) ==
  CASE code = "#" -> Number(st.seqNo)
    [] code = "r" -> Number(st.lowest.run)
    [] code = "R" -> Number(st.highest.run)
    [] code = "s" -> Number(st.lowest.subRun)
    [] code = "S" -> Number(st.highest.subRun)
    [] code = "if" -> <<st.lastInput>>
    [] OTHER -> <<code>>

ApplySubstitutions(st) == FlattenSeq([i \in DOMAIN Pattern |-> Substitution(st, Pattern[i])])

\* The file replaces one that has the name already.
MaybeRenameFile(name, n) == [x \in DOMAIN disk \union {name} |-> IF x = name THEN n ELSE disk[x]]

-----------------------------------------------------------------------------
\* RootOutput and the job around it.

Written(e) == recorded' = recorded \union {e}

\* The order the processor opens files in: the input file, then the output files.
OpenInput(f) ==
  /\ run = None /\ input # f
  /\ isOpen => Len(sources) < MaxSources
  /\ input' = f
  /\ IF isOpen
     THEN stats' = RecordInputFile(stats, f) /\ sources' = Append(sources, f)
     ELSE UNCHANGED <<stats, sources>>
  /\ UNCHANGED <<isOpen, run, subRun, drops, recorded, files, disk>>

\* doOpenFile(), then respondToOpenInputFile() with the file that is open.
OpenOutput ==
  /\ ~isOpen /\ input # Absent /\ Len(files) < MaxFiles
  /\ stats' = RecordInputFile(RecordFileOpen(stats), input)
  /\ isOpen' = TRUE /\ recorded' = {} /\ sources' = <<input>>
  /\ UNCHANGED <<input, run, subRun, drops, files, disk>>

BeginRun(r) ==
  /\ isOpen /\ run = None /\ run' = r
  /\ UNCHANGED <<stats, isOpen, input, subRun, drops, recorded, sources, files, disk>>

BeginSubRun(s) ==
  /\ run # None /\ subRun = None /\ subRun' = s
  /\ UNCHANGED <<stats, isOpen, input, run, drops, recorded, sources, files, disk>>

Room == Cardinality(recorded) < MaxRecords /\ stats.nEvents < MaxRecords

WriteEvent(e) ==
  /\ subRun # None /\ Room
  /\ drops = {}
  /\ stats' = RecordEvent(stats, EventID(run, subRun, e))
  /\ Written(EventID(run, subRun, e))
  /\ UNCHANGED <<isOpen, input, run, subRun, drops, sources, files, disk>>

WriteSubRun ==
  /\ subRun # None /\ Room
  /\ subRun' = None
  /\ IF "subRuns" \in drops THEN UNCHANGED <<stats, recorded>>
     ELSE /\ stats' = RecordSubRun(stats, SubRunID(run, subRun))
          /\ Written(SubRunID(run, subRun))
  /\ UNCHANGED <<isOpen, input, run, drops, sources, files, disk>>

WriteRun ==
  /\ run # None /\ subRun = None /\ Room
  /\ run' = None
  /\ stats' = RecordRun(stats, run) /\ Written([run |-> run])
  /\ UNCHANGED <<isOpen, input, subRun, drops, sources, files, disk>>

\* What the metadata of a file is compared with.
EventsOf(rec) == {x \in rec : "event" \in DOMAIN x}

\* The metadata is written, the file closed, and then renamed.
CloseOutput ==
  /\ isOpen /\ run = None
  /\ LET closed == RecordFileClose(stats)
         name == ApplySubstitutions(closed)
     IN /\ stats' = closed
        /\ files' = Append(files, [metadata |-> Metadata(stats), name |-> name,
                                   events |-> EventsOf(recorded), sources |-> sources])
        /\ disk' = MaybeRenameFile(name, Len(files) + 1)
  /\ isOpen' = FALSE
  /\ UNCHANGED <<input, run, subRun, drops, recorded, sources>>

Init ==
  /\ stats = NewStats /\ isOpen = FALSE /\ input = Absent
  /\ run = None /\ subRun = None
  /\ drops \in {{}, {"events"}, {"events", "subRuns"}}
  /\ recorded = {} /\ sources = <<>> /\ files = <<>> /\ disk = <<>>

Next ==
  \/ \E f \in Inputs : OpenInput(f)
  \/ OpenOutput
  \/ \E r \in Runs : BeginRun(r)
  \/ \E s \in SubRuns : BeginSubRun(s)
  \/ \E e \in Events : WriteEvent(e)
  \/ WriteSubRun
  \/ WriteRun
  \/ CloseOutput

Spec == Init /\ [][Next]_vars

-----------------------------------------------------------------------------
\* What was written, and what the file says of it.

RunsOf(rec) == {x.run : x \in rec}
SubRunsOf(rec) == {SubRunID(x.run, x.subRun) : x \in {x \in rec : "subRun" \in DOMAIN x}}

\* a is the first, or the last, of its sub-runs in the first, or the last, run there is.
IsLowest(a, rec) ==
  LET mine == {sr \in SubRunsOf(rec) : sr.run = a.run} IN
  IF rec = {} THEN a = NoSubRun
  ELSE /\ a.run \in RunsOf(rec) /\ \A r \in RunsOf(rec) : a.run <= r
       /\ IF mine = {} THEN a.subRun = None
          ELSE a \in mine /\ \A sr \in mine : a.subRun <= sr.subRun

IsHighest(a, rec) ==
  LET mine == {sr \in SubRunsOf(rec) : sr.run = a.run} IN
  IF rec = {} THEN a = NoSubRun
  ELSE /\ a.run \in RunsOf(rec) /\ \A r \in RunsOf(rec) : r <= a.run
       /\ IF mine = {} THEN a.subRun = None
          ELSE a \in mine /\ \A sr \in mine : sr.subRun <= a.subRun

\* The range of sub-runs a file is named by is that of what was written to it,
\* in any order of runs and sub-runs, with runs that have no sub-run, and
\* whatever the files before it held.
RangeOfFile == isOpen => IsLowest(stats.lowest, recorded) /\ IsHighest(stats.highest, recorded)

\* The parents a file lists are the input files that were open while it was
\* open, also when it spans several or one is shared by several.
ParentsOfFile == \A i \in DOMAIN files : files[i].metadata.parents = files[i].sources

\* What a name may be made of for the n-th file.
NamedBy(n) ==
  LET ids == [run : Runs \union {None}, subRun : SubRuns \union {None}]
  IN [seqNo : {n}, lowest : ids, highest : ids, lastInput : Inputs \union {Absent}]

\* The pattern tells files of different sequence numbers apart, as one does that
\* separates the number from the others; "r" followed by "#" does not: the first
\* file of run 11 and the eleventh of run 1 get one name.
Numbered ==
  \A n, m \in 1 .. MaxFiles :
    n # m => {ApplySubstitutions(st) : st \in NamedBy(n)}
               \intersect {ApplySubstitutions(st) : st \in NamedBy(m)} = {}

\* No closed file is replaced by a later one, when the pattern tells them apart.
EachFileKept == \A i \in DOMAIN files : disk[files[i].name] = i

\* The first and the last event in the metadata are of that file ("reset_(); // Reset
\* statistics." where the file is opened).
EventsOfFile ==
  \A i \in DOMAIN files :
    /\ files[i].metadata.firstEvent \in files[i].events \union {NoEvent}
    /\ files[i].metadata.lastEvent \in files[i].events \union {NoEvent}

\* A list in the metadata has one delimiter between two entries.
ListWellFormed(text) ==
  \A i \in 1 .. Len(text) - 1 : (text[i] = ",") => (text[i + 1] = "entry")

\* The value of "runs" is a list ("Rewind over last delimiter.").
RunsWellFormed == \A i \in DOMAIN files : ListWellFormed(files[i].metadata.runs)

=============================================================================
