----------------------------- MODULE PathManager -----------------------------
(* How the PathManager turns the configuration of a process into modules,     *)
(* trigger paths and one end path: what is configured is checked as a whole   *)
(* before any module is made; then each module that is used is made once, for *)
(* all paths it is on, and each trigger path gets its place in the results.   *)
EXTENDS Naturals, Sequences, FiniteSets, SequencesExt

CONSTANTS
  Processes,   \* the configurations explored, records as ProcessOf makes
  CodedAs,     \* library -> the type of the modules defined in it
  LabelOrder,  \* the labels in the order of a std::map, a sequence
  Unmakeable   \* the labels of modules whose constructor throws

VARIABLES
  procPS,           \* the configuration of the process
  progress,            \* how far the EventProcessor is with its construction
  place,             \* the next module or path to look at
  errors,           \* error_stream
  allModules,       \* label -> root and type, of the modules configured
  triggerPathNames, \* triggerPathNames_
  protoTrigPathMap, \* protoTrigPathMap_: name -> entries
  protoEndPathInfo, \* protoEndPathInfo_: entries
  triggerPathsInfo, \* of the only schedule
  endPathInfo,      \* of the end path
  signals,          \* sPreModuleConstruction and sPostModuleConstruction
  allWorkers        \* what the watchers of sPostBeginJobWorkers were given

protoVars == <<triggerPathNames, protoTrigPathMap, protoEndPathInfo>>
infoVars == <<triggerPathsInfo, endPathInfo>>
vars == <<procPS, progress, place, errors, allModules, protoVars, infoVars, signals, allWorkers>>

\* The roots of modules in the order they are read, and what is configured there.
AllModulePathRoots == <<"analyzers", "filters", "outputs", "producers">>
ConfigType == [analyzers |-> "analyzer", filters |-> "filter", outputs |-> "output", producers |-> "producer"]
IsObserver(type) == type \in {"analyzer", "output"}
IsModifier(type) == type \in {"filter", "producer"}

\* An entry of a path: a label and what stands before it, "", "!", "-" or more.
FilterAction(entry) ==
  CASE entry.mark = "!" -> "Veto" [] entry.mark = "-" -> "Ignore" [] OTHER -> "Normal"
Illegal(entry) == entry.mark \notin {"", "!", "-"}

\* The modules as <<label, root, library>> in the order of the roots, the paths as
\* [name, entries] in the order of their names, and trigger_paths and end_paths,
\* sets of at most one set of names.
ProcessOf(modules, paths) ==
  [modules |-> modules, paths |-> paths, trigger |-> {}, end |-> {}, allowUnscheduled |-> FALSE, schedules |-> 1]

NoPaths == [workers |-> <<>>, paths |-> <<>>, results |-> 0]

Init ==
  /\ procPS = ProcessOf(<<>>, <<>>) /\ progress = "start" /\ place = 1
  /\ errors = {} /\ allModules = <<>>
  /\ triggerPathNames = <<>> /\ protoTrigPathMap = <<>> /\ protoEndPathInfo = <<>>
  /\ triggerPathsInfo = NoPaths /\ endPathInfo = NoPaths
  /\ signals = <<>> /\ allWorkers = <<>>

PathNames == {procPS.paths[i].name : i \in DOMAIN procPS.paths}
Error(what, of) == [what |-> what, of |-> of]

-----------------------------------------------------------------------------
(* Reading the configuration.                                                *)

Start(p) ==
  /\ progress = "start"
  /\ procPS' = p /\ progress' = "modules"
  /\ UNCHANGED <<place, errors, allModules, protoVars, infoVars, signals, allWorkers>>

\* One round of fillAllModules_(): a library that is not there is an error like the
\* others, and of two modules with one label the first stays.
FillModule ==
  /\ progress = "modules" /\ place <= Len(procPS.modules)
  /\ LET m == procPS.modules[place]
         there == m[3] \in DOMAIN CodedAs
     IN /\ errors' = errors \union
             (IF ~there THEN {Error("library", m[1])}
              ELSE {e \in {Error("type", m[1])} : CodedAs[m[3]] # ConfigType[m[2]]}
                     \union {e \in {Error("label", m[1])} : m[1] \in DOMAIN allModules})
        /\ allModules' = IF there THEN allModules @@ (m[1] :> ConfigType[m[2]]) ELSE allModules
  /\ place' = place + 1
  /\ UNCHANGED <<procPS, progress, protoVars, infoVars, signals, allWorkers>>

Missing(specifiedPaths, parameter) ==
  {Error(parameter, name) : name \in UNION specifiedPaths \ PathNames}

\* The end of fillAllModules_() and the beginning of processPathConfigs_().
ModulesFilled ==
  /\ progress = "modules" /\ place > Len(procPS.modules)
  /\ IF errors # {} \/ (procPS.allowUnscheduled /\ procPS.schedules > 1)
     THEN progress' = "failed" /\ UNCHANGED errors
     ELSE /\ progress' = "paths"
          /\ errors' = Missing(procPS.trigger, "trigger_paths") \union Missing(procPS.end, "end_paths")
  /\ place' = 1
  /\ UNCHANGED <<procPS, allModules, protoVars, infoVars, signals, allWorkers>>

\* The parameters trigger_paths and end_paths leave a path out.
LeavesOut(parameter, name) == \E names \in parameter : name \notin names

\* One round of processOnePathConfig_(), s being what it has found so far: the first
\* configured module decides what the path is, or that it is ignored.
ProcessEntry(name, s, entry) ==
  IF s.ignored THEN s
  ELSE IF entry.label \notin DOMAIN allModules
  THEN [s EXCEPT !.errors = @ \union {Error("entry", entry.label)}]
  ELSE LET cat == IF IsObserver(allModules[entry.label]) THEN "observer" ELSE "modifier"
           info == [label |-> entry.label, action |-> FilterAction(entry)]
           parameter == IF cat = "observer" THEN procPS.end ELSE procPS.trigger
       IN IF s.cat = "unset" /\ LeavesOut(parameter, name) THEN [s EXCEPT !.ignored = TRUE]
          ELSE [s EXCEPT !.cat = IF @ = "unset" THEN cat ELSE @,
                         !.errors = IF s.cat \in {"unset", cat} THEN @ ELSE @ \union {Error("mixed", name)},
                         !.infos = Append(@, info)]

ProcessOnePathConfig(path) ==
  FoldLeft(LAMBDA s, entry : ProcessEntry(path.name, s, entry),
           [cat |-> "unset", ignored |-> FALSE, errors |-> {}, infos |-> <<>>], path.entries)

\* Faulty: a path gets its name before it is known to be wanted.
NamedTooEarly(path, found) ==
  found.cat = "modifier" \/ (found.ignored /\ LeavesOut(procPS.trigger, path.name))

IsTriggerPath(path, found) == found.cat = "modifier"

\* One round of the loop of processPathConfigs_(); an illegal label ends it all.
ProcessPath ==
  /\ progress = "paths" /\ place <= Len(procPS.paths)
  /\ LET path == procPS.paths[place]
         found == ProcessOnePathConfig(path)
         named == IsTriggerPath(path, found)
     IN IF \E entry \in Range(path.entries) : Illegal(entry)
        THEN progress' = "failed" /\ UNCHANGED <<errors, protoVars>>
        ELSE /\ errors' = errors \union found.errors
             /\ triggerPathNames' = IF named THEN Append(triggerPathNames, path.name) ELSE triggerPathNames
             /\ protoTrigPathMap' = IF found.cat = "modifier"
                                    THEN protoTrigPathMap @@ (path.name :> found.infos) ELSE protoTrigPathMap
             /\ protoEndPathInfo' = IF found.cat = "observer"
                                    THEN protoEndPathInfo \o found.infos ELSE protoEndPathInfo
             /\ UNCHANGED progress
  /\ place' = place + 1
  /\ UNCHANGED <<procPS, allModules, infoVars, signals, allWorkers>>

\* The end of processPathConfigs_(); modules that are on no path are only named.
PathsProcessed ==
  /\ progress = "paths" /\ place > Len(procPS.paths)
  /\ progress' = IF errors # {} THEN "failed" ELSE "trigger"
  /\ place' = 1
  /\ UNCHANGED <<procPS, errors, allModules, protoVars, infoVars, signals, allWorkers>>

-----------------------------------------------------------------------------
(* Making the modules.                                                       *)

\* makeWorker_(): the worker of this label is made if it is not there.  `made' holds
\* the labels in the WorkerMap, the signals sent and whether a constructor threw.
MakeWorker(made, label) ==
  IF made.failed \/ label \in made.workers THEN made
  ELSE IF label \in Unmakeable
  THEN [made EXCEPT !.failed = TRUE, !.signals = Append(@, <<"pre", label>>)]
  ELSE [made EXCEPT !.workers = @ \union {label}, !.signals = @ \o <<<<"pre", label>>, <<"post", label>>>>]

MakeWorkers(info, labels) ==
  FoldLeft(MakeWorker, [workers |-> ToSet(info.workers), signals |-> signals, failed |-> FALSE], labels)

InOrder(labels) == SelectSeq(LabelOrder, LAMBDA l : l \in labels)
Labels(infos) == [i \in DOMAIN infos |-> infos[i].label]

\* fillWorkers_(): the path has the workers of its entries, in their order.
FillWorkers(info, bitpos, name, infos) ==
  [info EXCEPT !.workers = InOrder(ToSet(@) \union ToSet(Labels(infos))),
               !.paths = Append(@, [bitpos |-> bitpos, name |-> name, entries |-> infos])]

\* The names of protoTrigPathMap_ in the order of the map, which is that of the paths.
MapOrder == SelectSeq([i \in DOMAIN procPS.paths |-> procPS.paths[i].name],
                      LAMBDA name : name \in DOMAIN protoTrigPathMap)

\* triggerPathsInfo(): the next path.
TriggerPathsInfo ==
  /\ progress = "trigger" /\ triggerPathNames # <<>> /\ place <= Len(MapOrder)
  /\ LET infos == protoTrigPathMap[MapOrder[place]]
         made == MakeWorkers(triggerPathsInfo, Labels(infos))
     IN /\ signals' = made.signals
        /\ IF made.failed THEN progress' = "failed" /\ UNCHANGED triggerPathsInfo
           ELSE /\ triggerPathsInfo' = [FillWorkers(triggerPathsInfo, place - 1, MapOrder[place], infos)
                                          EXCEPT !.results = Len(triggerPathNames)]
                /\ UNCHANGED progress
  /\ place' = place + 1
  /\ UNCHANGED <<procPS, errors, allModules, protoVars, endPathInfo, allWorkers>>

Modifiers == {label \in DOMAIN allModules : IsModifier(allModules[label])}

\* Schedule(): the modules on demand, which go into the map of the trigger paths, and
\* the module that puts the results.
OnDemandWorkers ==
  /\ progress = "trigger" /\ (triggerPathNames # <<>> => place > Len(MapOrder))
  /\ LET made == MakeWorkers(triggerPathsInfo, IF procPS.allowUnscheduled THEN InOrder(Modifiers) ELSE <<>>)
         inserter == IF triggerPathsInfo.paths = <<>> THEN <<>>
                     ELSE <<<<"pre", "TriggerResults">>, <<"post", "TriggerResults">>>>
     IN IF made.failed
        THEN progress' = "failed" /\ signals' = made.signals /\ UNCHANGED triggerPathsInfo
        ELSE /\ progress' = "end" /\ signals' = made.signals \o inserter
             /\ triggerPathsInfo' = [triggerPathsInfo EXCEPT !.workers = InOrder(made.workers)]
  /\ UNCHANGED <<procPS, place, errors, allModules, protoVars, endPathInfo, allWorkers>>

\* endPathInfo(), for the EndPathExecutor.
EndPathInfo ==
  /\ progress = "end"
  /\ LET made == MakeWorkers(endPathInfo, Labels(protoEndPathInfo))
     IN /\ signals' = made.signals
        /\ progress' = IF made.failed THEN "failed" ELSE "made"
        /\ endPathInfo' = IF made.failed \/ protoEndPathInfo = <<>> THEN endPathInfo
                          ELSE FillWorkers(endPathInfo, 0, "end_path", protoEndPathInfo)
  /\ UNCHANGED <<procPS, place, errors, allModules, protoVars, triggerPathsInfo, allWorkers>>

\* invokePostBeginJobWorkers_().
InvokePostBeginJobWorkers ==
  /\ progress = "made"
  /\ allWorkers' = triggerPathsInfo.workers \o endPathInfo.workers
  /\ progress' = "begun"
  /\ UNCHANGED <<procPS, place, errors, allModules, protoVars, infoVars, signals>>

Next ==
  \/ \E p \in Processes : Start(p)
  \/ FillModule \/ ModulesFilled \/ ProcessPath \/ PathsProcessed
  \/ TriggerPathsInfo \/ OnDemandWorkers \/ EndPathInfo \/ InvokePostBeginJobWorkers

Spec == Init /\ [][Next]_vars

-----------------------------------------------------------------------------
(* What a configuration means, said without the order in which it is read.   *)

TypeOf(label) == ConfigType[(CHOOSE m \in Range(procPS.modules) : m[1] = label)[2]]
Configured == {m[1] : m \in Range(procPS.modules)}
EntriesOf(path) == ToSet(Labels(path.entries))

SoundModules ==
  /\ \A m \in Range(procPS.modules) : m[3] \in DOMAIN CodedAs /\ CodedAs[m[3]] = ConfigType[m[2]]
  /\ \A i, j \in DOMAIN procPS.modules : procPS.modules[i][1] = procPS.modules[j][1] => i = j

\* A path that is left out counts from its first module on only.
LeftOut(path) ==
  /\ path.entries # <<>> /\ path.entries[1].label \in Configured
  /\ LeavesOut(IF IsObserver(TypeOf(path.entries[1].label)) THEN procPS.end ELSE procPS.trigger, path.name)

SoundPath(path) ==
  /\ ~\E entry \in Range(path.entries) : Illegal(entry)
  /\ LeftOut(path) \/ /\ EntriesOf(path) \subseteq Configured
                      /\ \A l, k \in EntriesOf(path) : IsObserver(TypeOf(l)) = IsObserver(TypeOf(k))

Sound ==
  /\ SoundModules
  /\ ~(procPS.allowUnscheduled /\ procPS.schedules > 1)
  /\ UNION procPS.trigger \union UNION procPS.end \subseteq PathNames
  /\ \A path \in Range(procPS.paths) : SoundPath(path)

\* The paths that are executed, those of modifiers and those of observers.
Executed(observers) ==
  SelectSeq(procPS.paths, LAMBDA path : /\ path.entries # <<>> /\ ~LeftOut(path)
                                         /\ IsObserver(TypeOf(path.entries[1].label)) = observers)

Made == {signals[i][2] : i \in {j \in DOMAIN signals : signals[j][1] = "post"}}

\* A faulty configuration is found out before any module is made, and no other
\* one is refused.
FaultyIsRefused ==
  /\ progress \in {"trigger", "end", "made", "begun"} => Sound
  /\ progress = "failed" /\ Sound => Len(signals) > 0 /\ signals[Len(signals)][1] = "pre"
  /\ signals # <<>> => Sound

\* TriggerNamesService::findTrigPath(), counted from 0: the number of paths if it is none.
FindTrigPath(name) ==
  LET found == {i \in DOMAIN triggerPathNames : triggerPathNames[i] = name}
  IN IF found = {} THEN Len(triggerPathNames) ELSE (CHOOSE i \in found : TRUE) - 1

Actions(path) == [i \in DOMAIN path.entries |-> [label |-> path.entries[i].label,
                                                 action |-> FilterAction(path.entries[i])]]

\* The results have a place for each trigger path that is executed, in the order of
\* the names that the TriggerNamesService gives, and the paths are what was
\* configured; all end paths are one.
PlacesAreNamed ==
  progress \in {"made", "begun"} =>
    /\ triggerPathNames = [i \in DOMAIN Executed(FALSE) |-> Executed(FALSE)[i].name]
    /\ triggerPathsInfo.paths =
         [i \in DOMAIN Executed(FALSE) |->
            LET path == Executed(FALSE)[i]
            IN [bitpos |-> FindTrigPath(path.name), name |-> path.name, entries |-> Actions(path)]]
    /\ triggerPathsInfo.results = Len(triggerPathNames)
    /\ (IF endPathInfo.paths = <<>> THEN <<>> ELSE endPathInfo.paths[1].entries) =
         FlattenSeq([i \in DOMAIN Executed(TRUE) |-> Actions(Executed(TRUE)[i])])

\* Each module that is used is made once, whatever paths it is on, and no other one;
\* and whoever is given all workers at the beginning of the job is given each once.
MadeOnce ==
  /\ \A i, j \in DOMAIN signals : signals[i] = signals[j] => i = j
  /\ progress \in {"made", "begun"} =>
       LET used == UNION {EntriesOf(path) : path \in Range(Executed(FALSE) \o Executed(TRUE))}
                     \union (IF procPS.allowUnscheduled THEN Modifiers ELSE {})
       IN /\ Made = used \union (IF Executed(FALSE) = <<>> THEN {} ELSE {"TriggerResults"})
          /\ progress = "begun" => ToSet(allWorkers) = used /\ Len(allWorkers) = Cardinality(used)
=============================================================================
