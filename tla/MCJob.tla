-------------------------------- MODULE MCJob --------------------------------
(***************************************************************************)
(* Jobs, of which a behaviour shows those its kind names: one with modules *)
(* of both kinds, exceptions and signals anywhere, one that restores the   *)
(* states of its engines from events and from a file, chains of jobs that  *)
(* register, read and write products, one that gets its input files from   *)
(* services, one that makes and destroys its services, one that makes its  *)
(* paths of a configuration, and one whose services watch it.              *)
(***************************************************************************)
EXTENDS MCDelivery, SequencesExt

CONSTANTS Kinds,            \* the jobs that are checked
          AskInDestructors  \* whether the destructors of modules ask for services

VARIABLES pc, machine, handling, callEndJob, shutdown, itemsSince, rc, collected,
          enabled, begun, ended, ending, throws,
          rng, saved, eventStart, eventList, product, aborted,
          written, work, registry, lists, principals, output,
          stage, settings, manager, building, context, slots, made, modules, gone,
          procPS, progress, place, errors, allModules, triggerPathNames, protoTrigPathMap, protoEndPathInfo,
          triggerPathsInfo, endPathInfo, signals, allWorkers,
          activity, watchers

jobVars == <<pc, machine, handling, callEndJob, shutdown, itemsSince, rc, collected,
             enabled, begun, ended, ending, throws,
             rng, saved, eventStart, eventList, product, aborted>>
chainVars == <<written, work, registry, lists, principals, output>>
serviceVars == <<stage, settings, manager, building, context, slots, made, modules, gone>>
pathVars == <<procPS, progress, place, errors, allModules, triggerPathNames, protoTrigPathMap,
              protoEndPathInfo, triggerPathsInfo, endPathInfo, signals, allWorkers>>
watchVars == <<activity, watchers>>
allVars == <<deliveryVars, jobVars, chainVars, serviceVars, pathVars, watchVars>>

State(label, state) == [label |-> label, state |-> state]

\* No list, an empty one, lists of one or two engines and of one that is not in the job.
SomeLists == {{}, {<<>>}, {<<State("a", 2)>>}, {<<State("b", 2)>>}, {<<State("a", 2), State("b", 1)>>},
              {<<State("b", 1), State("c", 0)>>}}

\* Up to three exceptions, no state restored.
Failing == INSTANCE Job WITH
  Cycle <- 3, RestoreState <- FALSE, TriggerWorkers <- {"producer"},
  EndWorkers <- {"output", "analyzer"}, Labels <- {"a"}, Toggles <- FALSE,
  EventLists <- {{}}, StateFile <- <<>>, Ignored <- {}, MaxThrows <- 3

\* Two engines, restored from events and one of them from a file before; an event that has
\* a state of that one too is passed over, one that has no states ends the job.
Restoring == INSTANCE Job WITH
  Cycle <- 3, RestoreState <- TRUE, TriggerWorkers <- {"producer"},
  EndWorkers <- {"output"}, Labels <- {"a", "b"}, Toggles <- TRUE,
  EventLists <- SomeLists, StateFile <- <<State("a", 1)>>, Ignored <- {"RANDOM"}, MaxThrows <- 1

\* Four labels, one of a transient class and one that is illegal; class c is in
\* all the others, d in t only.
Parts == [a |-> {"c"}, b |-> {"c"}, t |-> {"a", "d"}, u |-> {}, c |-> {}, d |-> {}]

JobOf(process, pset, inputs, secondaries, produces) ==
  [process |-> process, pset |-> pset, inputs |-> inputs, secondaries |-> secondaries,
   reconstitutes |-> <<>>, produces |-> produces, drops |-> {}, trims |-> FALSE,
   strict |-> TRUE, known |-> DOMAIN Parts]

FirstJobs ==
  {JobOf("A", 1, <<>>, <<>>, p) : p \in {<<"b", "a">>, <<"b">>, <<"a", "t">>}}
    \union {[JobOf("A", 1, <<>>, <<>>, <<"b">>) EXCEPT !.reconstitutes = <<"a">>],
            [JobOf("A", 1, <<>>, <<>>, <<"t">>) EXCEPT !.known = @ \ {"a"}]}

\* The same process once more, with other parameters too, or one that reads the first file.
SecondJobs ==
  {JobOf("A", 2, <<>>, <<>>, <<"b", "a">>), JobOf("A", 1, <<>>, <<>>, <<"a">>),
   JobOf("B", 1, <<1>>, <<>>, <<"a">>), JobOf("B", 1, <<1>>, <<>>, <<>>), JobOf("A", 1, <<1>>, <<>>, <<"b">>)}
    \union {[JobOf("B", 1, <<1>>, <<>>, <<"b">>) EXCEPT !.drops = {"a"}, !.trims = trims] :
              trims \in BOOLEAN}

\* Jobs that read both, one after the other or one beside the other, or fail early.
ThirdJobs ==
  {[JobOf("C", 1, i, s, p) EXCEPT !.strict = strict, !.drops = drops] :
     i \in {<<1>>, <<2, 1>>, <<1, 2>>}, s \in {<<>>, <<2>>}, p \in {<<>>, <<"b">>},
     strict \in BOOLEAN, drops \in {{}, {"b"}}}
    \union {JobOf("C", 1, <<1>>, <<>>, <<"u">>), JobOf("C", 1, <<1>>, <<>>, <<"a", "a">>),
            [JobOf("C", 1, <<>>, <<>>, <<>>) EXCEPT !.reconstitutes = <<"u">>],
            [JobOf("C", 1, <<1>>, <<>>, <<"b">>) EXCEPT !.known = @ \ {"c"}]}

LastJobs ==
  {[JobOf("D", 1, i, s, <<"a">>) EXCEPT !.strict = strict] :
     i \in {<<3>>, <<1, 3>>, <<3, 2>>}, s \in {<<>>, <<3>>, <<2, 1>>}, strict \in BOOLEAN}

Registering == INSTANCE Registration WITH
  Labels <- <<"a", "b", "t", "u">>, Illegal <- {"u"}, Transient <- {"t"}, Components <- Parts,
  Plans <- <<FirstJobs, SecondJobs, ThirdJobs, LastJobs>>

\* Libraries: a uses an interface and, if it is there, the Tracer; b implements the
\* interface and uses c; c and d use each other, in vain or in a cycle.
Requests(always, maybe) ==
  [i \in DOMAIN always |-> [type |-> always[i], optional |-> FALSE]]
    \o [i \in DOMAIN maybe |-> [type |-> maybe[i], optional |-> TRUE]]

PluginOf(type, iface, requests) ==
  [type |-> type, isInterface |-> FALSE, iface |-> iface, helper |-> iface,
   requests |-> requests, throws |-> FALSE]

Libraries ==
  [a |-> PluginOf("A", "", Requests(<<"I">>, <<"Tracer">>)),
   b |-> PluginOf("B", "I", Requests(<<"C">>, <<>>)),
   b2 |-> PluginOf("B2", "I", Requests(<<"ScheduleContext">>, <<"A">>)),
   c |-> PluginOf("C", "", <<>>),
   d |-> PluginOf("D", "", Requests(<<"E">>, <<>>)),
   e |-> PluginOf("E", "", Requests(<<"D", "C">>, <<>>)),
   i |-> [PluginOf("I", "", <<>>) EXCEPT !.isInterface = TRUE],
   x |-> [PluginOf("X", "J", <<>>) EXCEPT !.helper = "I"],
   z |-> [PluginOf("Z", "", Requests(<<"C">>, <<>>)) EXCEPT !.throws = TRUE],
   ScheduleContext |-> PluginOf("ScheduleContext", "", <<>>),
   Tracer |-> PluginOf("Tracer", "", Requests(<<"FileCatalogMetadata">>, <<>>)),
   FileCatalogMetadata |-> PluginOf("FileCatalogMetadata", "", <<>>)]

ConfigurationOf(services, user) ==
  [services |-> services, user |-> user, tracer |-> FALSE, pathSelection |-> FALSE]

SomeServices ==
  {[ConfigurationOf(<<<<"a", "a">>>> \o services, user) EXCEPT !.tracer = tracer, !.pathSelection = tracer] :
     services \in {<<>>, <<<<"c", "c">>>>, <<<<"c", "c">>, <<"i", "b">>>>, <<<<"i", "b">>, <<"j", "b2">>>>},
     user \in {<<>>, <<<<"k", "c">>>>, <<<<"i", "b2">>>>}, tracer \in BOOLEAN}

OddServices ==
  {ConfigurationOf(<<<<"c", "c">>, p>>, <<>>) :
     p \in {<<"b", "b">>, <<"i", "i">>, <<"j", "x">>, <<"z", "z">>, <<"d", "d">>,
            <<"s", "ScheduleContext">>, <<"k", "c">>, <<"Tracer", "Tracer">>}}
    \union {ConfigurationOf(<<<<"d", "d">>, <<"e", "e">>>>, <<>>), ConfigurationOf(<<>>, <<<<"n", "">>>>),
            ConfigurationOf(<<<<"c", "c">>, <<"i", "b">>>>, <<>>),
            ConfigurationOf(<<<<"FileCatalogMetadata", "FileCatalogMetadata">>>>, <<<<"c", "c">>>>)}

\* What the first module, the source, and another one ask for in their destructors.
AsksOf(again) == <<[asks |-> {"C"}, again |-> TRUE], [asks |-> {"I", "TriggerNamesService"}, again |-> again]>>

Types == <<"I", "A", "B2", "C", "B", "Z", "D", "E", "Tracer", "FileCatalogMetadata",
           "PathSelection", "ScheduleContext", "TriggerNamesService", "CurrentModule", "FloatingPointControl">>

Serving == INSTANCE Services WITH
  Plugins <- Libraries, TypeOrder <- Types, Modules <- AsksOf(AskInDestructors),
  Configurations <- SomeServices \union OddServices, MaxSignals <- 2

\* Processes with up to two trigger paths and two end paths, whose modules do or do
\* not belong there, with the ways to leave paths out or to name some that are not there.
Entry(label, mark) == [label |-> label, mark |-> mark]
PathOf(name, entries) == [name |-> name, entries |-> entries]
ProcessOf(modulesOf, paths) ==
  [modules |-> modulesOf, paths |-> paths, trigger |-> {}, end |-> {}, allowUnscheduled |-> FALSE, schedules |-> 1]
TheModules == <<<<"ana", "analyzers", "Ana">>, <<"fil", "filters", "Fil">>, <<"out", "outputs", "Out">>,
                <<"bad", "producers", "Pro">>, <<"pro", "producers", "Pro">>>>

Processes ==
  {[ProcessOf(TheModules, <<PathOf("p", p), PathOf("q", q), PathOf("r", r), PathOf("s", t)>>)
      EXCEPT !.trigger = trigger, !.end = end, !.allowUnscheduled = s[1], !.schedules = s[2]] :
     p \in {<<>>, <<Entry("fil", "!"), Entry("pro", "")>>},
     q \in {<<Entry("pro", "-"), Entry("fil", ""), Entry("pro", "")>>, <<Entry("fil", ""), Entry("ana", "")>>,
            <<Entry("bad", "")>>},
     r \in {<<Entry("out", ""), Entry("ana", "")>>, <<Entry("nix", ""), Entry("ana", "")>>},
     t \in {<<Entry("out", "-")>>, <<Entry("out", "!-")>>},
     trigger \in {{}, {{}}, {{"p"}}, {{"q"}}, {{"p", "z"}}}, end \in {{}, {{"r"}}, {{"p", "s"}}},
     s \in {<<FALSE, 2>>, <<TRUE, 1>>, <<TRUE, 2>>}}
    \union {ProcessOf(Append(TheModules, m), <<PathOf("p", <<Entry("pro", "")>>)>>) :
              m \in {<<"pro2", "producers", "Fil">>, <<"pro", "producers", "Pro">>, <<"pro2", "producers", "Nix">>,
                     <<"pro2", "producers", "Pro">>}}

Configuring == INSTANCE PathManager WITH
  CodedAs <- [Ana |-> "analyzer", Fil |-> "filter", Out |-> "output", Pro |-> "producer"],
  LabelOrder <- <<"ana", "bad", "fil", "out", "pro", "pro2">>, Unmakeable <- {"bad"}

\* A module that makes another one run, which makes a third one run; two that make
\* each other run; events are skipped, fail or end the job.
Watched == INSTANCE Monitors WITH
  ThePaths <- <<[name |-> "p", modules |-> <<"x">>], [name |-> "end_path", modules |-> <<"o">>]>>,
  Calls <- [x |-> {"m"}, m |-> {"n"}, n |-> {"m"}, o |-> {"m"}], Filters <- {"x"},
  Traps <- <<<<"x", {"DivByZero"}>>, <<"default", {}>>, <<"m", {"Invalid"}>>>>,
  Actions <- {"SkipEvent", "Rethrow"},
  Selections <- {{"MemoryTracker", "TimeTracker"}, {"SimpleMemoryCheck", "Timing"}},
  OldRows <- {0, 2}, NumToSkip <- 1, BufferSize <- 2, MaxEvents <- 2, MaxFaults <- 1, MaxVsize <- 1

NoJob ==
  /\ pc = "exit" /\ machine = "none" /\ handling = FALSE /\ callEndJob = FALSE
  /\ shutdown = 0 /\ itemsSince = 0 /\ rc = -1 /\ collected = FALSE /\ throws = 0
  /\ enabled = {} /\ begun = {} /\ ended = <<>> /\ ending = {}
  /\ rng = <<>> /\ saved = <<>> /\ eventStart = <<>> /\ eventList = {} /\ product = <<>> /\ aborted = FALSE

NoChain ==
  /\ written = <<>> /\ work = <<>> /\ registry = <<>> /\ lists = <<>> /\ principals = <<>>
  /\ output = <<>>

NoServices ==
  /\ stage = "" /\ settings = <<>> /\ manager = <<>> /\ building = <<>> /\ context = <<>>
  /\ slots = <<>> /\ made = <<>> /\ modules = 0 /\ gone = <<>>

NoPathManager ==
  /\ procPS = <<>> /\ progress = "" /\ place = 0 /\ errors = {} /\ allModules = <<>>
  /\ triggerPathNames = <<>> /\ protoTrigPathMap = <<>> /\ protoEndPathInfo = <<>>
  /\ triggerPathsInfo = <<>> /\ endPathInfo = <<>> /\ signals = <<>> /\ allWorkers = <<>>

NotWatched == activity = <<>> /\ watchers = <<>>

JobInit ==
  /\ kind \in Kinds /\ DeliveryInit /\ (kind # "Catalog" => ~searchable)
  /\ IF kind = "Failing" THEN Failing!Init ELSE IF kind = "Restoring" THEN Restoring!Init ELSE NoJob
  /\ IF kind = "Registering" THEN Registering!Init ELSE NoChain
  /\ IF kind = "Serving" THEN Serving!Init ELSE NoServices
  /\ IF kind = "Configuring" THEN Configuring!Init ELSE NoPathManager
  /\ IF kind = "Watched" THEN Watched!Init ELSE NotWatched

Delivering(A) == A /\ UNCHANGED <<jobVars, chainVars, serviceVars, pathVars, watchVars>>
FailingStep == kind = "Failing" /\ Failing!Next /\ UNCHANGED <<kind, deliveryVars, chainVars, serviceVars, pathVars, watchVars>>
RestoringStep == kind = "Restoring" /\ Restoring!Next /\ UNCHANGED <<kind, deliveryVars, chainVars, serviceVars, pathVars, watchVars>>
RegisteringStep == kind = "Registering" /\ Registering!Next /\ UNCHANGED <<kind, deliveryVars, jobVars, serviceVars, pathVars, watchVars>>
ServingStep == kind = "Serving" /\ Serving!Next /\ UNCHANGED <<kind, deliveryVars, jobVars, chainVars, pathVars, watchVars>>
ConfiguringStep == kind = "Configuring" /\ Configuring!Next /\ UNCHANGED <<kind, deliveryVars, jobVars, chainVars, serviceVars, watchVars>>
WatchedStep == kind = "Watched" /\ Watched!Next /\ UNCHANGED <<kind, deliveryVars, jobVars, chainVars, serviceVars, pathVars>>

JobNext ==
  \/ Delivering(DeliveryNext)
  \/ FailingStep \/ RestoringStep \/ RegisteringStep \/ ServingStep \/ ConfiguringStep
  \/ WatchedStep

\* The program goes on of itself.
Goes ==
  /\ \/ kind = "Failing" /\ Failing!Step
     \/ kind = "Restoring" /\ Restoring!Step
  /\ UNCHANGED <<kind, deliveryVars, chainVars, serviceVars, pathVars, watchVars>>

JobSpec ==
  /\ JobInit /\ [][JobNext]_<<kind, allVars>>
  /\ WF_<<kind, allVars>>(Goes) /\ WF_<<kind, allVars>>(Delivering(ServicesAnswer))

-----------------------------------------------------------------------------
\* endJob() is called once of every module whose beginJob() returned, whatever
\* threw in between and in endJob() itself, and of no other; and the state
\* machine, and with it the files, is gone when the program ends, whose return
\* code tells whether anything was thrown.
BeginsAreEnded ==
  kind = "Failing" =>
    /\ Failing!BeginsAreEnded /\ Failing!MachineDestroyed
    /\ Failing!LeavesTerminated /\ Failing!ReturnCodeTells

\* The states of the random engines: what RandomNumberSaver puts into an event is
\* what its modules started from, but of the engines that are restored from that
\* event; where states are restored from events each engine an event has a state of
\* starts from it, and an engine whose state was read from a file goes on from it:
\* no event restores it.
StatesReproduced ==
  [][/\ kind = "Failing" => Failing!SavedIsUsed'
     /\ kind = "Restoring" =>
          Restoring!SavedIsUsed' /\ Restoring!EventReproduced' /\ Restoring!KeepsFileEngines]_allVars

\* A signal ends a job, even one whose source has no end, and lets at most the one
\* item in work be processed after it came.
SignalEndsJob ==
  [][kind = "Failing" => Failing!SignalHeeded']_allVars /\ Failing!SignalEndsJob

\* The identifiers of products keep their meaning through the files of a chain of
\* jobs, in each job that reads them.
ProductIDsKeepTheirMeaning == kind = "Registering" => Registering!ProductIDsKeepTheirMeaning

\* A job that goes on with a file knows what the file holds, and one that starts
\* has the dictionaries of all that its products are made of.
FilesAreKnown ==
  kind = "Registering" => Registering!FilesAreKnown /\ Registering!DictionariesAreThere

\* Services are made once and before those that asked for them, an interface is its
\* implementation, they are there when a call needs them and hear of it in order,
\* and go once each.
ServicesServe ==
  kind = "Serving" =>
    /\ Serving!ObjectsAreShared /\ Serving!ServicesAreThere
    /\ Serving!CallsNest /\ Serving!DestroyedInOrder

\* The destructors of modules find the services ~EventProcessor() keeps for them.
ModulesMayUseServices == kind = "Serving" => Serving!ModulesMayUseServices

\* A faulty configuration makes no module; otherwise each module in use is made once
\* and each trigger path has the place in the results that its name has.
PathsAreConfigured ==
  kind = "Configuring" =>
    Configuring!FaultyIsRefused /\ Configuring!PlacesAreNamed /\ Configuring!MadeOnce

\* What services keep of a job is of the module, path and event that run, and what
\* they report adds up.
WatchersKeepUp ==
  kind = "Watched" =>
    /\ Watched!SettingsNest /\ Watched!RowsAreOfTheirEvents /\ Watched!RowsAddUp
    /\ Watched!ReportAddsUp /\ Watched!ReportsAreMade

\* The module that runs is the one that CurrentModule and TFileService know.
CurrentIsRunning == kind = "Watched" => Watched!CurrentIsRunning

SortedKeys == UNION {[1..n -> 0..3] : n \in 0..5}
ASSUME LargestAreKept ==
  \A keys \in SortedKeys, limit \in 1..2 : Watched!KeepsTheLargest(keys, limit)
=============================================================================
