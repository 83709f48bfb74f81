----------------------------- MODULE MCSources -----------------------------
(***************************************************************************)
(* The sources of events, each with the event processor that takes its     *)
(* items: EmptyEvent, the template Source<T> over file names and as a      *)
(* generator, and RootInput read in sequence, with events skipped, and by  *)
(* seeking.  A behaviour is that of the source its kind names, for one of  *)
(* the parameters below; the variables of the others keep idle values.     *)
(* Two more kinds are the identifiers by themselves and the index of a file *)
(* that the sources search (Identifiers).                                   *)
(***************************************************************************)
EXTENDS Integers, Sequences, TLC

CONSTANT Kinds   \* the sources that are checked

VARIABLES kind,                                               \* the source of this behaviour
          src, at, run, subRun, events, subRuns, choices,     \* EmptyEvent
          files, read,                                        \* SourceTemplate
          fileOpen, got,                                      \* RootInput
          access, wanted, sameFile, known, since,             \* RootInputSeek
          id, index, sortState, entryOrder                    \* Identifiers
allVars == <<kind, src, at, run, subRun, events, subRuns, choices, files, read, fileOpen, got,
             access, wanted, sameFile, known, since, id, index, sortState, entryOrder>>

Width == 40   \* numbers of runs, sub-runs and events, for 32 bits

IDs == INSTANCE EventIDs WITH Word <- Width

-----------------------------------------------------------------------------
\* EmptyEvent: limits and numbers of events around each other, and first
\* identifiers with and without an offset.

EmptyParameters ==
  [maxEvents : {-1, 0, 1, 4}, maxSubRuns : {-1, 0, 1, 2}, mode : {"RunsSubRunsAndEvents"},
   perRun : {0, 1, 3, 4}, perSubRun : {0, 1, 2}, resetEvent : BOOLEAN,
   first : {IDs!IDOf([run |-> 1, subRun |-> 0], 1), IDs!IDOf([run |-> 2, subRun |-> 1], 2)}]

Empty == INSTANCE EmptyEvent WITH
  Word <- Width, Configurations <- EmptyParameters, MaxDelivered <- 7, MaxChoices <- 2,
  UserActions <- {"rewind"}, NewLoops <- FALSE

-----------------------------------------------------------------------------
\* Source<T>: what the detail class may read.  An event comes with or without
\* its run and sub-run, right or wrong.

RunNumbers == {1, 2}
SubRunsRead == [run : RunNumbers, subRun : RunNumbers] \union {[run |-> 0]}
EventsRead == [run : RunNumbers, subRun : RunNumbers, event : {1}]

Reading(result, r, sr, e) ==
  [result |-> result, run |-> r, subRun |-> sr, event |-> e, sameRun |-> FALSE, sameSubRun |-> FALSE, embedded |-> FALSE]
ReadNothing == Reading(FALSE, 0, [run |-> 0], [run |-> 0])
WithEvent == {ReadNothing} \union {Reading(TRUE, r, sr, e) : r \in RunNumbers \union {0}, sr \in SubRunsRead, e \in EventsRead}

\* Numbers that are invalid and principals that are embedded already.
Odd ==
  LET o == Reading(TRUE, 1, [run |-> 1, subRun |-> 1], [run |-> 1, subRun |-> 1, event |-> 1])
  IN {[o EXCEPT !.run = 99], [o EXCEPT !.subRun.subRun = 99], [o EXCEPT !.event.event = 99],
      [o EXCEPT !.embedded = TRUE], [o EXCEPT !.result = FALSE], [ReadNothing EXCEPT !.result = TRUE]}

Template == INSTANCE SourceTemplate WITH
  Reads <- WithEvent \union Odd, Limits <- {-1, 0, 1, 2}, MaxReads <- 4, MaxFiles <- 3, Generator <- FALSE
Generator == INSTANCE SourceTemplate WITH
  Reads <- WithEvent \union Odd, Limits <- {-1, 0, 1, 2}, MaxReads <- 4, MaxFiles <- 3, Generator <- TRUE

-----------------------------------------------------------------------------
\* RootInput.  R, S and E are the elements of a run, a sub-run and an event in
\* the index of a file, with their entries; the entry of an event is its place
\* in the order of writing.  What occurs twice is what a merged file holds.

ID(run_, subRun_, event_) == IDs!IDOf([run |-> run_, subRun |-> subRun_], event_)
R(run_, n) == [id |-> IDs!RunHeader(run_), entry |-> n]
S(run_, subRun_, n) == [id |-> IDs!InvalidEvent([run |-> run_, subRun |-> subRun_]), entry |-> n]
E(run_, subRun_, event_, n) == [id |-> ID(run_, subRun_, event_), entry |-> n]

Plain == <<R(1, 0), S(1, 0, 0), E(1, 0, 1, 1), E(1, 0, 2, 0)>>
Merged == <<R(1, 0), R(1, 1), S(1, 0, 0), S(1, 0, 1), E(1, 0, 1, 0), E(1, 0, 1, 1), E(1, 0, 2, 2),
            S(1, 1, 2), R(2, 2), S(2, 0, 3), E(2, 0, 1, 3), E(2, 0, 1, 4)>>
Ordered == <<R(1, 0), S(1, 1, 0), E(1, 1, 1, 0), E(1, 1, 2, 1), R(2, 1), S(2, 0, 1), E(2, 0, 1, 2)>>
\* Three files of different runs and one more of a run that occurs before.
Two == <<R(1, 0), S(1, 0, 0), E(1, 0, 1, 0), E(1, 0, 2, 1), S(1, 1, 1), E(1, 1, 1, 2),
         R(2, 1), S(2, 0, 2), E(2, 0, 1, 3)>>
Third == <<R(3, 0), S(3, 0, 0), E(3, 0, 1, 0)>>
More == <<R(1, 0), S(1, 1, 0), E(1, 1, 2, 0)>>

File(elements) == [index |-> elements, real |-> FALSE, good |-> TRUE]
InputFiles ==
  [plain |-> File(Plain), merged |-> File(Merged), realMerged |-> [File(Merged) EXCEPT !.real = TRUE],
   ordered |-> File(Ordered), bad |-> [File(<<>>) EXCEPT !.good = FALSE],
   two |-> File(Two), third |-> File(Third), more |-> File(More)]

Inputs == {<<"plain">>, <<"merged">>, <<"ordered", "plain">>, <<"bad", "realMerged", "ordered">>,
           <<"merged", "bad">>, <<"plain", "plain", "realMerged">>, <<"bad">>}

InputParameters(inputs, skips, modes, origs) ==
  [files : inputs, skip : skips, setRun : {0}, skipBad : {TRUE},
   check : {"None", "EachFile", "EachRealDataFile", "AllFilesOpened"}, noEventSort : {FALSE},
   orig : origs, mode : modes, maxEvents : {-1, 2}, maxSubRuns : {-1, 1}]
FirstEvents == {ID(1, 0, 1), ID(1, 0, 2), ID(1, 1, 1), ID(2, 0, 1)}

\* Rewinding starts with no event to skip; by entry, no first event can be sought.
ByEntry == {[c EXCEPT !.noEventSort = TRUE] :
              c \in InputParameters({<<"plain", "realMerged">>}, {0}, {"RunsSubRunsAndEvents"}, {ID(1, 0, 1)})}
Rewound == ByEntry \union InputParameters(Inputs, {0}, {"RunsSubRunsAndEvents", "RunsAndSubRuns", "Runs"}, FirstEvents)
Skipped == InputParameters(Inputs, {1, 2, 3, 6}, {"RunsSubRunsAndEvents"}, FirstEvents)
Searched ==
  {[files |-> inputs, skip |-> 0, setRun |-> 0, skipBad |-> FALSE, check |-> "None", noEventSort |-> FALSE,
    orig |-> ID(1, 0, 1), mode |-> "RunsSubRunsAndEvents", maxEvents |-> -1, maxSubRuns |-> -1] :
     inputs \in {<<"two">>, <<"two", "third">>, <<"two", "more", "third">>, <<"third", "two", "more">>}}
EventsSought == {ID(1, 0, 1), ID(1, 0, 2), ID(1, 1, 1), ID(1, 1, 2), ID(2, 0, 1), ID(3, 0, 1)}

InOrder == INSTANCE RootInput WITH
  Word <- Width, Contents <- InputFiles, Configurations <- Rewound, MaxChoices <- 1
Skipping == INSTANCE RootInput WITH
  Word <- Width, Contents <- InputFiles, Configurations <- Skipped, MaxChoices <- 0
Seeking == INSTANCE RootInputSeek WITH
  Word <- Width, Contents <- InputFiles, Configurations <- Searched, MaxChoices <- 2,
  Sought <- EventsSought, FilesAhead <- FALSE

\* Identifiers of few bits, so that the largest numbers occur.
Plainly == INSTANCE Identifiers WITH Word <- 6, MaxElements <- 4

ASSUME SourcesAssumption ==
  /\ Plainly!WordAssumption
  /\ IDs!WordAssumption
  /\ Empty!EmptyEventAssumption
  /\ Template!SourceTemplateAssumption /\ Generator!SourceTemplateAssumption

-----------------------------------------------------------------------------
NoEmpty == events = <<>> /\ subRuns = 0
NoTemplate == files = 0 /\ read = <<>>
NoInput == fileOpen = FALSE /\ got = [runs |-> <<>>, subRuns |-> <<>>, events |-> <<>>]
NoSeek == access = "SEQUENTIAL" /\ wanted = [run |-> 0] /\ sameFile = FALSE /\ known = {} /\ since = <<>>

NoIdentifier == id = 0 /\ index = 0 /\ sortState = 0 /\ entryOrder = 0
identifierVars == <<id, index, sortState, entryOrder>>

emptyVars == <<events, subRuns>>
templateVars == <<files, read>>
inputVars == <<fileOpen, got>>
seekVars == <<access, wanted, sameFile, known, since>>

Init ==
  /\ kind \in Kinds
  /\ \/ kind = "EmptyEvent" /\ Empty!Init /\ NoTemplate /\ NoInput /\ NoSeek /\ NoIdentifier
     \/ kind = "Template" /\ Template!Init /\ choices = 0 /\ NoInput /\ NoSeek /\ NoIdentifier
     \/ kind = "Generator" /\ Generator!Init /\ choices = 0 /\ NoInput /\ NoSeek /\ NoIdentifier
     \/ kind = "InOrder" /\ InOrder!Init /\ NoEmpty /\ NoTemplate /\ NoSeek /\ NoIdentifier
     \/ kind = "Skipping" /\ Skipping!Init /\ NoEmpty /\ NoTemplate /\ NoSeek /\ NoIdentifier
     \/ kind = "Seeking" /\ Seeking!SeekInit /\ NoEmpty /\ NoTemplate /\ NoIdentifier
     \/ Plainly!Init /\ kind \in {"id", "index"} /\ src = 0 /\ at = 0 /\ run = 0 /\ subRun = 0 /\ choices = 0
        /\ NoEmpty /\ NoTemplate /\ NoInput /\ NoSeek

EmptyEventStep == kind = "EmptyEvent" /\ Empty!Next /\ UNCHANGED <<kind, templateVars, inputVars, seekVars, identifierVars>>
TemplateStep == kind = "Template" /\ Template!Next /\ UNCHANGED <<kind, choices, inputVars, seekVars, identifierVars>>
GeneratorStep == kind = "Generator" /\ Generator!Next /\ UNCHANGED <<kind, choices, inputVars, seekVars, identifierVars>>
InOrderStep == kind = "InOrder" /\ InOrder!Next /\ UNCHANGED <<kind, emptyVars, templateVars, seekVars, identifierVars>>
SkippingStep == kind = "Skipping" /\ Skipping!Next /\ UNCHANGED <<kind, emptyVars, templateVars, seekVars, identifierVars>>
SeekingStep == kind = "Seeking" /\ Seeking!SeekNext /\ UNCHANGED <<kind, emptyVars, templateVars, identifierVars>>
IdentifierStep ==
  kind \in {"id", "index"} /\ Plainly!Next
  /\ UNCHANGED <<src, at, run, subRun, choices, emptyVars, templateVars, inputVars, seekVars>>

Next == EmptyEventStep \/ TemplateStep \/ GeneratorStep \/ InOrderStep \/ SkippingStep \/ SeekingStep
        \/ IdentifierStep

Spec == Init /\ [][Next]_allVars

-----------------------------------------------------------------------------
\* The events that reach the event processor are those the parameters ask for,
\* in order, each once, also after a rewind or a seek and whatever the runs and
\* sub-runs they come with: numbered by EmptyEvent, read by the detail class of
\* Source<T>, or found in the index of the files from the first event wanted on,
\* without the duplicates and the events to skip.  The runs and sub-runs of a
\* file are announced once each.
EventsAsAsked ==
  /\ kind = "EmptyEvent" => Empty!EventsAsConfigured
  /\ kind \in {"Template", "Generator"} => Template!EventsAsRead
  /\ kind = "InOrder" => InOrder!EventsAsAsked /\ InOrder!HeadersAsAsked
  /\ kind = "Skipping" => Skipping!EventsAsAsked
  /\ kind = "Seeking" => Seeking!ContinuesFromThere

\* Each event is read into its own run and sub-run, each sub-run into its own
\* run, and no assertion of a source fails.
InContext ==
  /\ kind = "EmptyEvent" => Empty!InContext
  /\ kind \in {"Template", "Generator"} => Template!InContext
  /\ kind \in {"InOrder", "Skipping"} => InOrder!InContext
  /\ kind = "Seeking" => Seeking!ReadInContext

\* The limits on events and sub-runs are never passed, and a source stops only
\* when one is reached, after the whole of the sub-run in progress, or when
\* nothing is left to be read.
LimitsKept ==
  /\ kind = "EmptyEvent" => Empty!WithinLimits /\ Empty!StopsAtLimit
  /\ kind = "Template" => Template!WithinLimits /\ Template!CompleteAtStop
  /\ kind = "Generator" => Generator!WithinLimits /\ Generator!CompleteAtStop
  /\ kind = "InOrder" => InOrder!CompleteAtStop
  /\ kind = "Skipping" => Skipping!CompleteAtStop

\* Identifiers are ordered so that an index can be sorted by them, and next()
\* goes from each event to the least one after it, back with previous(). Each
\* search of an index finds what is there, and a sorted index has the layout
\* that its readers and their shortcuts take for granted.
IndexServes ==
  Plainly!OrderSortsAnIndex /\ Plainly!NextIsSuccessor /\ Plainly!SearchesFind /\ Plainly!IndexLayout
=============================================================================
