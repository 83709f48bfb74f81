------------------------------ MODULE RootInput ------------------------------
(***************************************************************************)
(* The source that reads art files (RootInput, RootInputFileSequence) on   *)
(* the base of the sources, used by the event processor: it opens the      *)
(* files of the catalogue one after the other and gives their runs,        *)
(* sub-runs and events in the order of each file's index.                  *)
(*                                                                         *)
(* The source is a record, which has                                       *)
(*   files, open        the names of the files and which of them is open   *)
(*   indexes, sort, it  the index of each file, the order it is sorted by, *)
(*                      and the position in that of the open file          *)
(*   toSkip             the events still to skip                           *)
(*   orig, mode         the first event wanted, and the processing mode    *)
(*   check, dataType, seen, unique     the state of the duplicate checker  *)
(* and what the sequence of files adds.                                    *)
(***************************************************************************)
EXTENDS FileIndex, TLC

CONSTANTS Contents,         \* of each file its index, and whether its data are real and it can be opened
          Configurations,   \* records of the parameters
          MaxChoices        \* bound on the choices of the user interaction

VARIABLES src,              \* the source
          at,               \* where the event processor is
          fileOpen,         \* whether it has the source's file open
          run, subRun,      \* the run and sub-run it processes
          got,              \* [runs, subRuns, events]: the sequences it got since the last rewind
          choices           \* how often the user interfered
vars == <<src, at, fileOpen, run, subRun, got, choices>>

-----------------------------------------------------------------------------
\* One open file (RootInputFile).

\* The index of a file as it was written, or sorted again by entry.
IndexOf(f, state) == IF state = "EventEntry" THEN StableSort(Contents[f].index, state) ELSE Contents[f].index

Index(s) == s.indexes[s.open]
IsReal(s) == Contents[s.files[s.open]].real

AtEnd(s) == s.it = End(Index(s))
Here(s) == Index(s)[s.it].id
NextEntry(s) == [s EXCEPT !.it = @ + 1]

-----------------------------------------------------------------------------
\* DuplicateChecker.

PerFile(s) == s.check \in {"EachFile", "EachRealDataFile"}

\* The first event of the file says whether its data are real; a file without
\* events is not looked at.
InitChecker(s) ==
  LET type == IF IsReal(s) THEN "real" ELSE "simulation"
      looks == s.check = "EachFile" \/ (s.check = "EachRealDataFile" /\ IsReal(s))
  IN IF ~PerFile(s) \/ \A i \in DOMAIN Index(s) : EntryType(Index(s), i) # "Event" THEN s
     ELSE [s EXCEPT !.dataType = type,
                    !.unique = IF looks THEN EventsUniqueAndOrdered(Index(s)) ELSE @]

FileClosed(s) ==
  IF PerFile(s) THEN [s EXCEPT !.dataType = "unknown", !.seen = {}, !.unique = FALSE] ELSE s

RewindChecker(s) == [s EXCEPT !.seen = {}]

CheckActive(s) ==
  /\ s.check # "None"
  /\ ~(s.check = "EachRealDataFile" /\ s.dataType = "simulation")
  /\ ~(PerFile(s) /\ s.unique)

IsDuplicate(s) == CheckActive(s) /\ Here(s) \in s.seen
Register(s) == IF CheckActive(s) THEN [s EXCEPT !.seen = @ \union {Here(s)}] ELSE s

-----------------------------------------------------------------------------
\* Where the next entry is that is wanted: [s |-> the source there, type].

\* A header is taken for a duplicate by the number of its sub-run alone.
RECURSIVE SkipDuplicateHeaders(_)
SkipDuplicateHeaders(s) ==
  IF AtEnd(s) \/ s.it = 1 \/ ValidEvent(Here(s)) \/ Index(s)[s.it - 1].id.subRun # Here(s).subRun
  THEN s ELSE SkipDuplicateHeaders(NextEntry(s))

\* The events of the sub-run that are still to skip; duplicates do not count.
RECURSIVE SkipDuplicates(_)
SkipDuplicates(s) ==
  IF s.toSkip = 0 \/ EntryType(Index(s), s.it) # "Event" THEN s
  ELSE IF IsDuplicate(s) THEN SkipDuplicates(NextEntry(s)) ELSE Register(s)

RECURSIVE SkipCounted(_), SkipOne(_)
SkipCounted(s) == IF s.toSkip = 0 \/ AtEnd(s) THEN s ELSE SkipOne(SkipDuplicateHeaders(s))
SkipOne(s) ==
  IF EntryType(Index(s), s.it) # "Event" THEN s
  ELSE SkipCounted(SkipDuplicates([NextEntry(s) EXCEPT !.toSkip = @ - 1]))

AfterSubRun(s) == FindSubRunOrRunPosition(Index(s), s.sort, CHOOSE sr \in NextSubRun(SubRunOf(Here(s))) : TRUE)
AfterRun(s) == FindRunPosition(Index(s), s.sort, CHOOSE r \in NextRun(Here(s).run) : TRUE, FALSE)

\* Where an unwanted entry sends the search, or the entry's own position.
Jump(s, type) ==
  CASE type = "Run" /\ RunLess(Here(s).run, s.orig.run) -> FindRunPosition(Index(s), s.sort, s.orig.run, FALSE)
    [] type # "Run" /\ s.mode = "Runs" -> AfterRun(s)
    [] type = "SubRun" /\ Here(s).run = s.orig.run /\ SubRunLess(SubRunOf(Here(s)), SubRunOf(s.orig)) ->
         FindSubRunOrRunPosition(Index(s), s.sort, SubRunOf(s.orig))
    [] type = "Event" /\ s.mode = "RunsAndSubRuns" -> AfterSubRun(s)
    [] type = "Event" /\ s.mode = "RunsSubRunsAndEvents" /\ EventLess(Here(s), s.orig) -> LowerBound(Index(s), s.sort, s.orig)
    [] OTHER -> s.it

\* The end of the file, or a flush value in it, ends the search.
RECURSIVE NextWantedEntry(_), Considered(_, _), WantedUnless(_, _, _)
NextWantedEntry(s) == LET t == SkipDuplicateHeaders(s) IN Considered(t, EntryType(Index(t), t.it))
Considered(s, type) ==
  IF AtEnd(s) \/ ~ValidRun(Here(s).run) THEN [s |-> s, type |-> "End"]
  ELSE WantedUnless(s, type, Jump(s, type))
WantedUnless(s, type, jump) ==
  CASE jump # s.it -> NextWantedEntry([s EXCEPT !.it = jump])
    [] jump = s.it /\ type # "Event" -> [s |-> s, type |-> type]
    [] jump = s.it /\ type = "Event" ->
         IF IsDuplicate(s) THEN NextWantedEntry(NextEntry(s))
         ELSE IF s.toSkip = 0 THEN [s |-> Register(s), type |-> "Event"]
         ELSE NextWantedEntry(SkipCounted(Register(s)))

-----------------------------------------------------------------------------
\* The sequence of files.

NoFile == 0
NoRun == 0
NoSubRun == [run |-> NoRun]
NoEvent == [run |-> NoRun]
Failed(s, how) == [s EXCEPT !.failed = IF @ = "no" THEN how ELSE @]
Checked(s, holds) == IF holds THEN s ELSE Failed(s, "assertion")

HasNextFile(s) == s.cat < Len(s.files)

CloseFile(s) ==
  IF s.open = NoFile THEN s ELSE FileClosed([s EXCEPT !.seqToSkip = s.toSkip, !.open = NoFile])

\* initFile: the open file is closed first, and a bad file may be left out.
InitFile(s, skipBad) ==
  LET closed == CloseFile(s)
      opened == [closed EXCEPT !.open = s.cat, !.it = 1, !.toSkip = closed.seqToSkip]
  IN IF Contents[s.files[s.cat]].good THEN InitChecker(opened)
     ELSE IF skipBad THEN closed ELSE Failed(closed, "exception")

NextFile(s) == InitFile([s EXCEPT !.cat = @ + 1], s.skipBad)

\* The constructor opens the first file that can be opened.
RECURSIVE FirstGoodFile(_)
FirstGoodFile(s) ==
  IF s.open # NoFile \/ ~HasNextFile(s) \/ s.failed # "no" THEN s ELSE FirstGoodFile(NextFile(s))

\* setForcedRunOffset: the first run read gets the number wanted.
ForceRun(s, setRun) ==
  LET offset == setRun - Index(s)[1].id.run
  IN IF setRun = NoRun \/ s.open = NoFile THEN s
     ELSE IF offset < 0 THEN Failed(s, "exception") ELSE [s EXCEPT !.offset = offset]

\* At the end of a file the next one follows, or nothing does.
FileFollows(s) == [s |-> s, type |-> IF HasNextFile(s) THEN "File" ELSE "Stop"]
OrFileFollows(wanted) == IF wanted.type # "End" THEN wanted ELSE FileFollows(wanted.s)

SequenceNextItemType(s) ==
  IF s.first THEN [s |-> s, type |-> IF s.open = NoFile THEN "Stop" ELSE "File"]
  ELSE IF s.open = NoFile THEN FileFollows(s)
  ELSE OrFileFollows(NextWantedEntry(s))

SequenceReadFile(s) ==
  IF s.first THEN LET begun == [s EXCEPT !.first = FALSE] IN IF s.open = NoFile THEN InitFile(begun, s.skipBad) ELSE begun
  ELSE IF HasNextFile(s) THEN NextFile(s) ELSE Failed(s, "assertion")

\* RootInputFile's readRun, readSubRun and readEvent.
At(s, type) == s.open # NoFile /\ EntryType(Index(s), s.it) = type

SequenceReadRun(s) ==
  IF ~At(s, "Run") THEN [s |-> Failed(s, "assertion"), run |-> NoRun]
  ELSE [s |-> NextEntry(s), run |-> Here(s).run + s.offset]

SequenceReadSubRun(s) ==
  IF ~At(s, "SubRun") THEN [s |-> Failed(s, "assertion"), subRun |-> NoSubRun]
  ELSE LET sr == [run |-> Here(s).run + s.offset, subRun |-> Here(s).subRun]
       IN [s |-> Checked(NextEntry(s), sr.run = s.run), subRun |-> sr]

SequenceReadEvent(s) ==
  IF ~At(s, "Event") THEN [s |-> Failed(s, "assertion"), id |-> NoEvent]
  ELSE LET id == [Here(s) EXCEPT !.run = @ + s.offset]
           allowed == IF s.offset # 0 /\ IsReal(s) THEN Failed(s, "exception") ELSE s
       IN [s |-> Checked(NextEntry(allowed), SubRunOf(id) = SubRunOf(Here(s))), id |-> id]

\* Faulty: the events of the first pass are still known to the check.
SequenceRewindRemembers(s) == [s EXCEPT !.first = TRUE, !.cat = 1]

SequenceRewind(s) == RewindChecker([s EXCEPT !.first = TRUE, !.cat = 1])

Base == INSTANCE InputSourceBase WITH
  GetNextItemType <- SequenceNextItemType, ReadRun <- SequenceReadRun, ReadSubRun <- SequenceReadSubRun,
  ReadEvent <- SequenceReadEvent, ReadFile <- SequenceReadFile, RewindSource <- SequenceRewind

SortOf(c) == IF c.noEventSort THEN "EventEntry" ELSE "Event"
NewSource(c) ==
  ForceRun(FirstGoodFile(Base!BaseFields(c.maxEvents, c.maxSubRuns, c.mode) @@
    [files |-> c.files, skipBad |-> c.skipBad, check |-> c.check, orig |-> c.orig, seqToSkip |-> c.skip,
     sort |-> SortOf(c), indexes |-> [k \in DOMAIN c.files |-> IndexOf(c.files[k], SortOf(c))],
     first |-> TRUE, cat |-> 0, open |-> NoFile, offset |-> 0, setRun |-> c.setRun,
     it |-> 1, toSkip |-> 0, dataType |-> "unknown", seen |-> {}, unique |-> FALSE,
     skip |-> c.skip]), c.setRun)

-----------------------------------------------------------------------------
\* The event processor takes the items in the order the source gives them.

Nothing == [runs |-> <<>>, subRuns |-> <<>>, events |-> <<>>]

Init ==
  /\ \E c \in Configurations : src = NewSource(c)
  /\ at = "ask" /\ fileOpen = FALSE
  /\ run = NoRun /\ subRun = NoSubRun
  /\ got = Nothing /\ choices = 0

NextItem ==
  /\ at = "ask" /\ src.failed = "no"
  /\ src' = Base!NextItemType(src)
  /\ at' = src'.state
  /\ UNCHANGED <<fileOpen, run, subRun, got, choices>>

\* The file that is open is closed before the next.
ReadFile ==
  /\ at = "File" /\ at' = "ask" /\ fileOpen' = TRUE
  /\ src' = Base!TakeFile(IF fileOpen THEN CloseFile(src) ELSE src)
  /\ UNCHANGED <<run, subRun, got, choices>>

ReadRun ==
  /\ at = "Run" /\ src' = Base!TakeRun(src) /\ at' = "ask"
  /\ run' = src.run
  /\ got' = [got EXCEPT !.runs = Append(@, src.run)]
  /\ UNCHANGED <<fileOpen, subRun, choices>>

ReadSubRun ==
  /\ at = "SubRun" /\ src' = Base!TakeSubRun(src, run) /\ at' = "ask"
  /\ subRun' = src.subRun
  /\ got' = [got EXCEPT !.subRuns = Append(@, src.subRun)]
  /\ UNCHANGED <<fileOpen, run, choices>>

ReadEvent ==
  /\ at = "Event" /\ at' = "user"
  /\ LET read == Base!TakeEvent(src, subRun)
     IN src' = read.s /\ got' = [got EXCEPT !.events = Append(@, read.id)]
  /\ UNCHANGED <<fileOpen, run, subRun, choices>>

\* UserInteraction::postEvent, after the event was processed.
GoOn ==
  /\ at = "user" /\ at' = "ask"
  /\ UNCHANGED <<src, fileOpen, run, subRun, got, choices>>

RewindFile ==
  /\ at = "user" /\ at' = "ask"
  /\ choices < MaxChoices /\ choices' = choices + 1
  /\ src' = Base!Rewind(src) /\ got' = Nothing
  /\ UNCHANGED <<fileOpen, run, subRun>>

\* The file is closed after the last item.
Finish ==
  /\ at = "Stop" /\ at' = "finished"
  /\ src' = CloseFile(src) /\ fileOpen' = FALSE
  /\ UNCHANGED <<run, subRun, got, choices>>

Next ==
  \/ NextItem \/ ReadFile \/ ReadRun \/ ReadSubRun \/ ReadEvent
  \/ GoOn \/ RewindFile \/ Finish

Spec == Init /\ [][Next]_vars

-----------------------------------------------------------------------------
(***************************************************************************)
(* What the configuration asks for, said of the files alone.               *)
(***************************************************************************)
Wanted(k, type, keep(_)) ==
  LET wanted == SelectSeq(src.indexes[k], LAMBDA x : EntryType(<<x>>, 1) = type /\ keep(x.id))
  IN [i \in DOMAIN wanted |-> wanted[i].id]
GoodFiles == {k \in DOMAIN src.files : Contents[src.files[k]].good}
AllFiles(of(_)) == FlattenSeq([k \in DOMAIN src.files |-> IF k \in GoodFiles THEN of(k) ELSE <<>>])

\* A sequence without the elements that came before.
FirstOnes(seq) ==
  LET firsts == {i \in DOMAIN seq : \A j \in 1 .. i - 1 : seq[j] # seq[i]}
  IN [n \in 1 .. Cardinality(firsts) |-> seq[CHOOSE i \in firsts : Cardinality({j \in firsts : j <= i}) = n]]

ExpectedEvents ==
  LET wanted(k) == Wanted(k, "Event", LAMBDA id : ~EventLess(id, src.orig))
      perFile(k) == src.check = "EachFile" \/ (src.check = "EachRealDataFile" /\ Contents[src.files[k]].real)
      ofFile(k) == IF perFile(k)
                   THEN FirstOnes(wanted(k)) ELSE wanted(k)
      all == IF src.check = "AllFilesOpened" THEN FirstOnes(AllFiles(wanted)) ELSE AllFiles(ofFile)
  IN IF src.mode = "RunsSubRunsAndEvents" THEN SubSeq(all, src.skip + 1, Len(all)) ELSE <<>>

ExpectedRuns ==
  LET ofFile(k) == FirstOnes(Wanted(k, "Run", LAMBDA id : ~RunLess(id.run, src.orig.run)))
  IN [i \in DOMAIN AllFiles(ofFile) |-> AllFiles(ofFile)[i].run]

ExpectedSubRuns ==
  LET ofFile(k) == FirstOnes(Wanted(k, "SubRun", LAMBDA id : ~SubRunLess(SubRunOf(id), SubRunOf(src.orig))))
      all == AllFiles(ofFile)
  IN IF src.mode = "Runs" THEN <<>> ELSE [i \in DOMAIN all |-> SubRunOf(all[i])]

\* The events are those asked for, in order, from the first on, each once: after
\* the events to skip, without the duplicates that the check is to find, in every
\* pass over the files (RootInputFile::getNextEntryTypeWanted).
EventsAsAsked == IsPrefix(got.events, ExpectedEvents)

\* Runs and sub-runs are announced, each once in a file, whether or not an event
\* of theirs is wanted.
HeadersAsAsked == IsPrefix(got.runs, ExpectedRuns) /\ IsPrefix(got.subRuns, ExpectedSubRuns)

\* No assertion of the source fails: in particular each event is read into its
\* own run and sub-run, and each sub-run into its own run.
InContext == src.failed # "assertion"

\* At the end nothing is left that was asked for, unless a limit was reached.
CompleteAtStop ==
  at = "Stop" =>
    \/ Len(got.events) = src.maxEvents
    \/ Len(got.subRuns) = src.maxSubRuns
    \/ got.events = ExpectedEvents /\ got.subRuns = ExpectedSubRuns /\ got.runs = ExpectedRuns

-----------------------------------------------------------------------------
\* "skips duplicate run or subRun entries": no other entry is skipped.
OnlyDuplicatesSkipped == HeadersAsAsked

\* "Rewind to before the first event that was read."
RewindsToTheFirst == got.events # <<>> => got.events[1] = ExpectedEvents[1]

\* A run number can be set for simulated data: "the 'setRunNumber' parameter of
\* RootInput cannot be used with real data."
RunNumberCanBeSet == src.offset # 0 /\ ~Contents[src.files[1]].real => InContext
=============================================================================
