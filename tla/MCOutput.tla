------------------------------ MODULE MCOutput ------------------------------
(***************************************************************************)
(* What an output module does, in five parts of which a behaviour shows    *)
(* the one its kind names: which events it selects (by one selector, or by *)
(* the results of several processes), the rows it writes for them          *)
(* (RootOutput), what it says of the files it made (FileStats), and the    *)
(* database it keeps in them (TKeyVFS).  The variables of the other parts  *)
(* keep idle values.                                                       *)
(***************************************************************************)
EXTENDS Integers, Sequences, FiniteSets, TLC

CONSTANT Kinds   \* the parts that are checked

VARIABLES
  kind,
  names, specs, tr,                                              \* EventSelector
  selectors, loadDone, numberFound, running, last,               \* EventObserver
  job, fastCloning, number, left, at, enabled, toggles, kept,    \* RootOutput
  inputs, out, files, wanted, stopped, failed,
  stats, isOpen, input, run, subRun, drops, recorded, sources, disk,  \* FileStats, and files
  unixFiles, keys, writable, written, stored                     \* TKeyVFS

selectorVars == <<names, specs, tr>>
observerVars == <<selectors, loadDone, numberFound, running, last>>
outputVars == <<job, fastCloning, number, left, at, enabled, toggles, kept, inputs, out, wanted, stopped, failed>>
statsVars == <<stats, isOpen, input, run, subRun, drops, recorded, sources, disk>>
databaseVars == <<unixFiles, keys, writable, written, stored>>
allVars == <<kind, selectorVars, observerVars, outputVars, files, statsVars, databaseVars>>

-----------------------------------------------------------------------------
\* A selector is given specifications one by one and then meets events.

Globs == [s \in {"*", "a*", "b?"} |->
            CASE s = "*" -> {"a", "a1", "a2", "b"} [] s = "a*" -> {"a", "a1", "a2"} [] s = "b?" -> {}]
TriggerNames == {<<"a1">>, <<"b", "a1">>, <<"a1", "a2">>, <<"a1", "b", "a2">>}
MaxSpecs == 2
SpecsGiven == [neg : BOOLEAN, exc : BOOLEAN, noex : {"no", "full"}, name : {"a1", "*", "a*", "b?"}]

Selection == INSTANCE EventSelector WITH Glob <- Globs

selector == Selection!InitSelector(specs, names)

GiveSpec ==
  /\ tr = <<>> /\ Len(specs) < MaxSpecs
  /\ \E s \in SpecsGiven : specs' = Append(specs, s)
  /\ UNCHANGED <<names, tr>>

BeginEvent ==
  /\ tr = <<>> /\ ~selector.failed
  /\ tr' \in [DOMAIN names -> {Selection!Ready, Selection!Pass, Selection!Fail, Selection!Exception}]
  /\ UNCHANGED <<names, specs>>

EndEvent == tr # <<>> /\ tr' = <<>> /\ UNCHANGED <<names, specs>>

-----------------------------------------------------------------------------
\* Two processes, "OLD" and the current one "NOW".  Files of "OLD" differ in the
\* names of its paths.  An output module selects by OLD alone or takes all
\* events, an analyzer selects by both.

Plain(n) == [neg |-> FALSE, exc |-> FALSE, noex |-> "no", name |-> n]
NowPass == [spec |-> [Plain("b") EXCEPT !.neg = TRUE], process |-> ""]
OldPass == [spec |-> Plain("a"), process |-> "OLD"]
OldStar == [spec |-> [Plain("*") EXCEPT !.neg = TRUE], process |-> "OLD"]

Names == [pab |-> <<"a", "b">>, pba |-> <<"b", "a">>]

ByOld == INSTANCE EventObserver WITH
  Glob <- Globs, ThisProcess <- "NOW", TrigPaths <- <<"a", "b">>,
  ProcessOrder <- <<"NOW", "OLD">>, Registered <- Names, Tolerated <- {"ProductNotFound"},
  PathSpecs <- <<OldPass, OldStar>>, Writes <- TRUE
ByBoth == INSTANCE EventObserver WITH
  Glob <- Globs, ThisProcess <- "NOW", TrigPaths <- <<"a", "b">>,
  ProcessOrder <- <<"NOW", "OLD">>, Registered <- Names, Tolerated <- {"ProductNotFound"},
  PathSpecs <- <<OldPass, NowPass>>, Writes <- FALSE
TakesAll == INSTANCE EventObserver WITH
  Glob <- Globs, ThisProcess <- "NOW", TrigPaths <- <<"a", "b">>,
  ProcessOrder <- <<"NOW", "OLD">>, Registered <- Names, Tolerated <- {"ProductNotFound"},
  PathSpecs <- <<>>, Writes <- TRUE

Results(process, ids) ==
  {[process |-> process, id |-> i, states |-> s] :
     i \in ids, s \in [1 .. 2 -> {Selection!Pass, Selection!Fail, Selection!Exception}]}

Events ==
  LET old == {<<>>} \union {<<r>> : r \in Results("OLD", {"pab", "pba"})}
      now == {<<>>} \union {<<r>> : r \in Results("NOW", {"pab"})}
  IN {o \o n : o \in old, n \in now}

-----------------------------------------------------------------------------
\* Input files of RootOutput: with no, one and two events, with and without each
\* of two branches, of the same layout as the output or not, with an index in
\* the order of entries or not.

FilesOf(lists) ==
  {[events |-> e, branches |-> b, sameLayout |-> l, inOrder |-> o] :
     e \in lists, b \in {{"a"}, {"b"}, {"a", "b"}}, l \in BOOLEAN, o \in BOOLEAN}
InputFiles == FilesOf({<<>>, <<1>>, <<1, 2>>})
\* Also with an event that comes twice.
RepeatingFiles == {f \in FilesOf({<<>>, <<1>>, <<1, 2>>, <<1, 1>>}) : f.sameLayout}
\* Three files without an odd one among them.
PlainFiles == {f \in InputFiles : f.events # <<>> /\ f.branches # {"a", "b"} /\ (f.sameLayout \/ f.inOrder)}

Cloning == INSTANCE RootOutput WITH
  Produced <- {"p"}, Jobs <- [1 .. 2 -> InputFiles] \union [1 .. 3 -> PlainFiles], FastCloning <- BOOLEAN,
  ChecksDuplicates <- TRUE, WriteFails <- FALSE, Stops <- TRUE, MaxToggles <- 0
\* Without cloning: events may come twice or fail to be written, and the module
\* may be disabled.
Filling == INSTANCE RootOutput WITH
  Produced <- {"p"}, Jobs <- [1 .. 2 -> RepeatingFiles], FastCloning <- {FALSE},
  ChecksDuplicates <- TRUE, WriteFails <- TRUE, Stops <- FALSE, MaxToggles <- 2

Stats == INSTANCE FileStats WITH
  Inputs <- {"a.root", "b.root"}, Pattern <- <<"r", "_", "s", "_", "R", "_", "S", "_", "#", "_", "if">>,
  Runs <- {1, 2}, SubRuns <- {0, 1}, Events <- {1}, MaxFiles <- 2, MaxSources <- 2, MaxRecords <- 4

\* The run and the sequence number side by side.
Unseparated == INSTANCE FileStats WITH
  Inputs <- {"a.root"}, Pattern <- <<"r", "#">>, Runs <- {1, 11}, SubRuns <- {0}, Events <- {1},
  MaxFiles <- 11, MaxSources <- 1, MaxRecords <- 1

Database == INSTANCE TKeyVFS WITH
  Handles <- {"db"}, Writes <- {<<1>>}, MEMPAGE <- 2, Chunks <- {3}, MaxSize <- 3, MaxKeys <- 2

ASSUME OutputAssumption ==
  /\ Database!VFSAssumption /\ Stats!StatsAssumption /\ Stats!Numbered
  /\ ~Unseparated!Numbered
  /\ Cloning!RootOutputAssumption /\ Filling!RootOutputAssumption

-----------------------------------------------------------------------------
NoSelector == names = <<>> /\ specs = <<>> /\ tr = <<>>
NoObserver == selectors = <<>> /\ loadDone = FALSE /\ numberFound = 0 /\ running = FALSE /\ last = "none"
NoOutput ==
  /\ job = <<>> /\ fastCloning = FALSE /\ number = 0 /\ left = <<>> /\ at = "none" /\ enabled = FALSE /\ toggles = 0
  /\ kept = {} /\ inputs = 0 /\ out = "none" /\ wanted = <<>> /\ stopped = FALSE /\ failed = "no"
NoStats ==
  /\ stats = "none" /\ isOpen = FALSE /\ input = "none" /\ run = 0 /\ subRun = 0 /\ drops = {}
  /\ recorded = {} /\ sources = <<>> /\ disk = <<>>

NoDatabase == unixFiles = <<>> /\ keys = <<>> /\ writable = FALSE /\ written = <<>> /\ stored = <<>>

Init ==
  /\ kind \in Kinds
  /\ IF kind = "database" THEN Database!Init ELSE NoDatabase
  /\ \/ /\ kind = "selector"
        /\ names \in TriggerNames /\ specs = <<>> /\ tr = <<>>
        /\ NoObserver /\ NoOutput /\ NoStats /\ files = <<>>
     \/ kind = "by old" /\ ByOld!Init /\ NoSelector /\ NoOutput /\ NoStats /\ files = <<>>
     \/ kind = "by both" /\ ByBoth!Init /\ NoSelector /\ NoOutput /\ NoStats /\ files = <<>>
     \/ kind = "takes all" /\ TakesAll!Init /\ NoSelector /\ NoOutput /\ NoStats /\ files = <<>>
     \/ kind = "cloning" /\ Cloning!Init /\ NoSelector /\ NoObserver /\ NoStats
     \/ kind = "filling" /\ Filling!Init /\ NoSelector /\ NoObserver /\ NoStats
     \/ kind = "database" /\ NoSelector /\ NoObserver /\ NoOutput /\ NoStats /\ files = <<>>
     \/ kind = "stats" /\ Stats!Init /\ NoSelector /\ NoObserver /\ NoOutput

SelectorStep ==
  /\ kind = "selector" /\ (GiveSpec \/ BeginEvent \/ EndEvent)
  /\ UNCHANGED <<kind, observerVars, outputVars, statsVars, files, databaseVars>>
ByOldStep ==
  /\ kind = "by old" /\ \E event \in Events : ByOld!DoEvent(event, FALSE)
  /\ UNCHANGED <<kind, selectorVars, outputVars, statsVars, files, databaseVars>>
ByBothStep ==
  /\ kind = "by both" /\ \E event \in Events, asks \in BOOLEAN : ByBoth!DoEvent(event, asks)
  /\ UNCHANGED <<kind, selectorVars, outputVars, statsVars, files, databaseVars>>
TakesAllStep ==
  /\ kind = "takes all" /\ \E event \in Events : TakesAll!DoEvent(event, FALSE)
  /\ UNCHANGED <<kind, selectorVars, outputVars, statsVars, files, databaseVars>>
CloningStep == kind = "cloning" /\ Cloning!Next /\ UNCHANGED <<kind, selectorVars, observerVars, statsVars, databaseVars>>
FillingStep == kind = "filling" /\ Filling!Next /\ UNCHANGED <<kind, selectorVars, observerVars, statsVars, databaseVars>>
StatsStep ==
  kind = "stats" /\ Stats!Next /\ UNCHANGED <<kind, selectorVars, observerVars, outputVars, databaseVars>>
DatabaseStep ==
  /\ kind = "database" /\ Database!Next
  /\ UNCHANGED <<kind, selectorVars, observerVars, outputVars, files, statsVars>>

Next == SelectorStep \/ ByOldStep \/ ByBothStep \/ TakesAllStep \/ CloningStep \/ FillingStep \/ StatsStep \/ DatabaseStep

Spec == Init /\ [][Next]_allVars

-----------------------------------------------------------------------------
\* What one specification asks of the results states of paths.
Meets(paths, states, spec) ==
  LET hits == Selection!RegexMatch(paths, spec.name)
  IN /\ spec.noex # "no" => ~Selection!ContainsExceptions(states)
     /\ CASE spec.exc -> \E i \in hits : states[i] = Selection!Exception
          [] spec.neg -> \A i \in hits : states[i] = Selection!Fail
          [] OTHER    -> \E i \in hits : states[i] = Selection!Pass

\* The results in an array of bits, and those of an event with twice as many
\* paths, are read back as they were (acceptEvent of an array of bits).
BitsAreResults ==
  LET twice == tr \o tr
      result(k) == IF k \in DOMAIN twice THEN twice[k] ELSE 0
      bytes == [b \in 1 .. 2 |-> result(4*b - 3) + 4 * result(4*b - 2) + 16 * result(4*b - 1) + 64 * result(4*b)]
  IN /\ Selection!Unpack(bytes, Len(twice)) = twice
     /\ Selection!AcceptBitArray(selector, bytes, Len(tr)) <=> Selection!SelectionDecision(selector, tr)

\* Without an exception, the mask of an event keeps something exactly if a
\* specification accepts the event (maskTriggerResults, selectionDecision).
MaskAgreesWithDecision ==
  (~Selection!ContainsExceptions(tr) /\ ~selector.accept_all) =>
    ((\E i \in DOMAIN tr : Selection!MaskTriggerResults(selector, tr)[i] # Selection!Ready)
       <=> Selection!SelectionDecision(selector, tr))

\* A selector accepts an event exactly if it satisfies one of the specifications,
\* in whatever order and combination they were given (init, selectionDecision);
\* the decision from an array of bits and the mask agree with it.
DecisionIsAnySpec ==
  kind = "selector" /\ tr # <<>> =>
    /\ Selection!SelectionDecision(selector, tr) <=>
         \/ specs = <<>>
         \/ \A s \in Selection!Stars : \E i \in DOMAIN specs : specs[i] = s
         \/ \E i \in DOMAIN specs : Meets(names, tr, specs[i])
    /\ BitsAreResults /\ MaskAgreesWithDecision

-----------------------------------------------------------------------------
PathSpecs == CASE kind = "by old" -> <<OldPass, OldStar>> [] kind = "by both" -> <<OldPass, NowPass>> [] OTHER -> <<>>

Satisfies(event) ==
  \E i \in DOMAIN event : \E k \in DOMAIN PathSpecs :
    /\ event[i].process = IF PathSpecs[k].process = "" THEN "NOW" ELSE PathSpecs[k].process
    /\ Meets(IF event[i].process = "NOW" THEN <<"a", "b">> ELSE Names[event[i].id], event[i].states, PathSpecs[k].spec)

\* An event is written or analyzed exactly if the results of one of its
\* processes satisfy a specification for that process, by the names this process
\* gave its paths when the event was made, whatever events came before (wantEvent,
\* acceptEvent).  It fails to be decided only if the process to decide by left no
\* results in it.  The results a module is handed are those of the event, and
\* what a module with one process has written is declared to the catalog.
ChosenByOwnResults ==
  kind \in {"by old", "by both", "takes all"} /\ last.event # <<>> =>
    /\ last.wanted \/ last.raised = "" => (last.wanted <=> PathSpecs = <<>> \/ Satisfies(last.event))
    /\ last.raised # "" /\ ~last.wanted =>
         \E k \in DOMAIN selectors : ByOld!ResultsOf(selectors[k].process, last.event) = ByOld!NoResults
    /\ last.given # ByOld!NoResults => \E i \in DOMAIN last.event : last.event[i] = last.given
    /\ kind = "by old" => (last.written => last.declared)

-----------------------------------------------------------------------------
\* The index of a closed file leads to the rows of its events: the identifier,
\* every product, the provenance and the history of an event are its own,
\* whichever branches were copied, filled or added late; each event to be written
\* is in the index of one file, once and in order; and all branches have a row
\* for each event where the input was read to its end (RootOutputTree).
RowsAligned ==
  /\ kind = "cloning" => Cloning!RowsAligned /\ Cloning!WrittenOnce /\ Cloning!SameEntries
  /\ kind = "filling" => Filling!RowsAligned /\ Filling!WrittenOnce

\* A file is named by the range of what was written to it, in any order of runs
\* and sub-runs and whatever the files before it held; its parents are the input
\* files that were open while it was; and no closed file is replaced by a later
\* one, with a pattern that separates the sequence number (FileStatsCollector,
\* PostCloseFileRenamer).
FilesDescribed == kind = "stats" => Stats!RangeOfFile /\ Stats!ParentsOfFile /\ Stats!EachFileKept

-----------------------------------------------------------------------------
\* What SQLite has written to a file and not cut off is read back as it was
\* written, however the file grew, and what a job had written to the database
\* when it closed it is what a later job finds in the file (seekAndWrite,
\* unixTruncate, fcntlSizeHint, closeUnixFile, unixOpen).
DatabaseSurvives == kind = "database" => Database!CyclesKept /\ Database!ReadsBack

\* What lies behind the end of the file is read as zeros and what lies before it
\* is read, as the comment in unixRead has it.
ShortReadsAreFilled ==
  kind = "database" =>
    \A h \in {g \in {"db"} : unixFiles[g].isOpen} :
      LET f == unixFiles[h]
      IN \A offset \in 0 .. f.fileSize : \A amt \in 1 .. 4 :
           offset + amt > f.fileSize =>
             LET cells == Database!UnixRead(f, offset, amt).cells
             IN \A i \in 1 .. amt : cells[i] = IF offset + i <= f.fileSize THEN f.pBuf[offset + i] ELSE 0
=============================================================================
