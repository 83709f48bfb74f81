# Formal model of the art event-processing framework

TLA+ specifications of *art* (`src/art`: the event processor, its sources,
paths, output, products, services), TLC configurations that model-check them on
small instances, and proofs checked by TLAPS for all instances. Paths below are
relative to the root of the repository; `Framework/...` and `Persistency/...`
are under `src/art`.

Contents: 1 the system, 2 the modules, 3 the runs, 4 the proofs, 5 what the code
does against its own words, 6 what is not modelled, 7 what could come next.

## 1. The system

A job reads *items* (files, runs, sub-runs, events) from one input source,
passes events through modules, and writes events, sub-runs and runs with
output modules. Everything runs in one thread. What makes it hard is not
parallelism but *order*: a Boost.Statechart machine of sixteen states decides
when files are opened and closed and when runs and sub-runs begin, end and are
written; modules make each other run when they ask for products; services hear
of all this through signals; files go from job to job with what each of them
left out or merged; and exceptions may arise in any call and unwind the lot.

### 1.1 Inventory

| Component | State it keeps | Operations | What is hard | What makes it correct | Modules |
|---|---|---|---|---|---|
| **State machine** `Framework/EventProcessor/EPStates` | its state and contexts, put-off sub-runs, flags of what has begun | reactions, constructors, `exit()`, destructors | nested contexts, exceptions in any call, clean-up twice | every begin ended, nothing lost or written twice | `EPStates`, `EPChart`, `OccurrenceProtocol` |
| **Principal cache** `Framework/Core/PrincipalCache` | maps of runs and sub-runs, current ones | insert (merge), look-up, erase | look-ups that "should never" fail | an entry is there from its reading to its writing | `PrincipalCache` |
| **Run loop and job** `EventProcessor.cc`, `Art/run_art.cc` | machine, shutdown flag, exceptions collected | `beginJob`, `run`, `terminateAbnormally_`, `endJob` | clean-up that throws, signals, several catches | each module ended once, return code true | `Job`, `EPStates` |
| **Schedule, paths, workers, end path** `Framework/Core`, `Framework/Principal/Worker` | worker state, cached exception, path status | one occurrence at a time, production on demand | rethrow, skip, fail or ignore at each of five levels; cycles of requests | run once, no exception lost, status is decision | `Paths` |
| **Path manager** `Core/PathManager.cc` | modules by label, paths | reads the configuration | errors found at several places; order of names and bits | faulty configurations refused, bits and names agree | `PathManager` |
| **Event selector, observers** `Core/EventSelector.cc`, `CachedProducts.cc` | compiled criteria, results of this event | accept, mask | five lists, several processes, changing names | the meaning of the specifications | `EventSelector`, `EventObserver` |
| **Sources** base class, `Source<T>`, `EmptyEvent`, `RootInput` | read-ahead, limits, positions, duplicates seen | next item, read, skip, rewind, seek | read-ahead and limits, skipping and duplicates, random access | each wanted event once, in its context | `InputSourceBase`, `SourceTemplate`, `EmptyEvent`, `RootInput`, `RootInputSeek` |
| **Identifiers, file index** `Persistency/Provenance` | index of a file | order, successor, searches | reserved values, two orders | every search finds what is there | `EventIDs`, `FileIndex`, `Identifiers` |
| **Delivery of files** `IO/Catalog`, `FileServiceProxy` | items, positions, outcomes told | next file, retry, probe, rewind | failures and retries in two services | files in order, one outcome each | `FileServiceProxy`, `InputFileCatalog` |
| **ROOT output** `IO/Root/RootOutput*` | open file, rows, statistics | open, clone, write, close, rename | fast cloning writes rows before events | the index leads to the rows of its events | `RootOutput`, `FileStats` |
| **RootDB** `Persistency/RootDB/tkeyvfs.cc` | a file in memory | read, write, truncate, sync | ends of files, chunks | what was written is read back | `TKeyVFS` |
| **Products** `Framework/Principal` | groups, secondary files, views | get, put, commit, on demand | lazily opened files, dropped products, nesting | what a file has is found unless an earlier one hides it, a view is a transaction | `ProductAccess`, `DataViews` |
| **Registration, provenance** `Persistency/Provenance` | branch lists, registries, histories | register, freeze, merge | identifiers that go through chains of files | an identifier keeps its meaning | `Registration`, `FileLineage` |
| **Pointers, associations** `Persistency/Common` | `Ptr`, `PtrVector`, `Assns` | fill, stream, read | two representations of each | lead where they led | `Pointers` |
| **Mixing** `IO/ProductMix` | secondary files, translation tables | choose, read, translate | wrap-around, changing files | pointers follow, entries used as allowed | `Mixing` |
| **Services** `Services/Registry` | cache of services, context | make, look up, signal, destroy | made on demand, destroyed with the members | made once, there when called | `Services` |
| **Random numbers** `RandomNumberGenerator` | engines, snapshot | save, restore | three origins of a state | events can be reproduced | `RandomNumbers`, `Job` |
| **Monitoring** trackers, timing, tracer, floating-point control | last module, stacks, tables | signals | nesting and unwinding | what is kept is of the module that runs | `Monitors` |
| **Group selection, option handlers, dumpers, dictionaries, MessageFacility, JSON, Reflex tools** | - | - | - | - | not modelled, section 6 |

### 1.2 How they interact

`runCommon_` asks the source for the next item type and passes a statechart
event to the machine. The machine calls back into the `EventProcessor`
(`ep_.readFile()`, `ep_.beginRun(id)` ...), which calls the source, the
principal cache, the schedule and the end path. All these calls are
synchronous and any of them may throw. If one throws inside `process_event`,
Boost.Statechart destroys all states without calling `exit()`, and the
destructors of `HandleSubRuns`, `HandleRuns` and `HandleFiles` clean up and
swallow what they throw themselves. If the source throws outside the machine,
`terminateAbnormally_` raises `alreadyHandlingException_` and sends a `Stop`,
for which every `exit()` returns at once and the destructors work again.

Modules reach products through views of their principals; a request may run
another module, open a secondary file, or read from the input tree. Services are
found through a context that is set for the length of a call and hear of modules,
paths and events through signals. The source gets its files from the delivery and
transfer services, through the catalogue or the proxy. Everything that is written
comes back in a later job: products, the lists that number them, histories, the
index, the database with its metadata, and the states of the random engines.

## 2. Modules

| Module | Models | State and actions |
|---|---|---|
| `PrincipalCache` | `PrincipalCache.cc` | operators on a record: maps as sets of keys, current pointers as identifiers |
| `EPChart` | the static chart of `EPStates.h` | for a leaf and an event the target and the action; operators only |
| `EPStates` | `EPStates.cc`, the `ep_` calls of `EventProcessor.cc` | section 2.1 |
| `OccurrenceProtocol` | what a module may rely on | abstract specification that `EPStates` implements, section 2.2 |
| `Paths` | `Worker`, `WorkerInPath`, `Path`, `Schedule`, `EndPathExecutor`, the action table, production on demand | section 2.3 |
| `PathManager` | `PathManager.cc`, `TriggerNamesService` | one action per stage of the construction; errors are collected or end it |
| `EventSelector` | `EventSelector.cc` | operators: compilation into five lists, decision, mask, arrays of bits |
| `EventObserver` | `EventObserver.cc`, `CachedProducts.cc`, `OutputModule::doEvent` | an event per step, with the results of several processes; the selectors and what is cached |
| `EventIDs` | `RunID`, `SubRunID`, `EventID` | operators of a fixed width; a result is a set, empty where the code throws |
| `FileIndex` | `FileIndex.cc` | operators: both orders and each search |
| `Identifiers` | the same, as used | steps through identifiers; adds entries to an index and sorts it |
| `InputSourceBase` | `DecrepitRelicInputSourceImplementation` | operators on the record of a source: read-ahead, limits, modes |
| `EmptyEvent` | `EmptyEvent_source.cc` on that base, with the event processor | items taken, events numbered, choices of the user |
| `SourceTemplate` | `Source.h` | `readNext_` over any detail class |
| `RootInput` | `RootInputFileSequence.cc`, `RootInput_source.cc`, `RootInputFile.cc`, `DuplicateChecker.cc` | files, items, skips and rewinds; what is wanted of a file, duplicates |
| `RootInputSeek` | the same, `seekToEvent` | random access |
| `FileServiceProxy` | `FileServiceProxy.cc` | an action per answer of a service |
| `InputFileCatalog` | `InputFileCatalog.cc` | a request, each answer of a service, probing and rewinding |
| `RootOutput` | `RootOutput_module.cc`, `RootOutputTree.cc`, filling in `RootOutputFile.cc`, `OutputWorker.cc`, the files of `EndPathExecutor` | operators on a file of branches with rows; files opened, cloned, written, closed, modules switched |
| `FileStats` | `FileStatsCollector.cc`, `PostCloseFileRenamer.cc` | what is seen of a file, its metadata and its name |
| `TKeyVFS` | `tkeyvfs.cc`, `SQLite3Wrapper.cc` | open, write, truncate, close; the contents as cells |
| `ProductAccess` | `Principal.cc`, `RootDelayedReader.cc`, `Group.cc` | one request per step, secondary files opened on the way |
| `DataViews` | `Event`, `DataViewImpl`, `Worker`, `Handle` | gets, puts, commits of modules that run inside each other |
| `Registration` | `MasterProductRegistry`, `BranchIDListHelper`, `BranchDescription`, `History` | chains of jobs that register, open files, read, write |
| `FileLineage` | `BranchChildren`, `RootOutputFile::fillBranches` | chains of jobs that drop and keep |
| `Pointers` | `Ptr.h`, `PtrVector.h`, `Assns.h`, `RefCore` | filled in one job, streamed by several outputs, read and handed on |
| `Mixing` | `MixHelper.cc`, `ProdToProdMapBuilder.cc`, `PtrRemapper.h` | one event mixed per step |
| `RandomNumbers` | `RandomNumberGenerator_service.cc` | operators on the service; a restoration is its closed form (below) |
| `Job` | `run_art.cc`, `EventProcessor.cc`, `RandomNumberSaver_module.cc` | one action per stage of the job, each of which may throw; signals |
| `Services` | `Services/Registry`, `ServiceDirector`, members of `EventProcessor` | construction, look-up, contexts, signals, destruction |
| `Monitors` | trackers, `Timing`, `SimpleMemoryCheck`, `Tracer`, `CurrentModule`, `TFileService`, `FloatingPointControl`, `MFStatusUpdater`, the final report | signals of modules that run each other, with exceptions |
| `MCEPStates`, `MCPaths`, `MCSources`, `MCOutput`, `MCProducts`, `MCDelivery`, `MCJob` | - | instances for TLC, and compositions (section 3) |
| `EPStates_proof`, `EPRuns_proof`, `Paths_proof`, `Job_proof`, `MCJob_proof`, `RootOutput_proof`, `OutputFiles_proof`, `MCOutput_proof` | - | section 4 |

### 2.1 State and actions of `EPStates`

A composite state (`HandleFiles`, `HandleRuns`, `HandleSubRuns`) is nested in
exactly one way, so the contexts alive are a number `depth` (0 to 3) and the
innermost state is `leaf`. `phase` says what `process_event` is doing: leaving
a composite by `exit()` or in its destructor, running the action of a
transition, constructing a composite (`enter`) or the target (`construct`),
waiting (`stable`), or `terminated`.

The C++ call stack is `todo`, the statements the running function has still to
execute, in order. A call with a body of its own is replaced by its body, so
each function of `EPStates.cc` is one action named after it, whose guard says
that its call is at the head. Fields of `HandleRuns` and `HandleSubRuns` are
the records `handleRuns` and `handleSubRuns`; `exitCalled_` is implied by the
phase. An `ep_` call that can throw has a second outcome, `Throws`: in a
destructor the rest of the body is given up and the depth is recorded in
`swallowed`; anywhere else the call is recorded in `primary` and the phase
becomes `destroy` or, with no composite left, `terminated`.

`item` and `source` describe the input: the kind of item announced and not
read yet, and the identifiers last offered. Three history variables record
what no C++ variable holds: begins without an end (`begun`), what was read and
not written (`unwritten`), and what the open output files contain (`written`).

The source is any sequence of items whose sub-runs belong to the run last
offered, with repetitions, missing items and stops anywhere. This is more than
the sources of the repository produce, and what the machine is written for:
unexpected items lead to its `Error` state.

### 2.2 `OccurrenceProtocol`

Five variables: input open, output open, runs and sub-runs in progress, and
whether a sub-run may begin outside its run (`orphans`, which happens only
with `handleEmptyRuns` false and `handleEmptySubRuns` true). Its actions say
that output opens with the input open, that runs and sub-runs exist only while
the output is open, that there is one run and one sub-run at a time, that the
sub-run is of the run, and that an output file closes only between runs. The
refinement mapping is by projection (`Contract`); every other step of the
machine is a stutter.

### 2.3 State and actions of `Paths`

`Paths` is what a `process` call of the state machine does inside: an
occurrence is an event or the begin or end of a run or sub-run ("other").
`stage` says which part of `EventProcessor::processOneOccurrence_` runs: the
trigger paths, the inserter of the trigger results, or the end path; `path` and
`idx` are the loops over paths and over the workers of a path, `goOn` is
`should_continue`, `exc` the category of the exception that is propagating.
`worker` and `cached` are `Worker::state_` and `cached_exception_`, `results`
the status of each path with the index that decided.

`stack` holds the modules that execute: in an event a module may ask for a
product of an on-demand worker, `Group::obtainDesiredProduct` calls `doWork` of
that worker, and so on until a request finds a worker in the state `Working`,
which is reported as `ScheduleExecutionFailure`. Each `doWork` is one step up to
the module (`DoWork`) and one from the module on (`ModuleReturns`,
`ModuleThrows`, `ModuleThrowsForeign`); what a module does is a free choice
between asking, returning, throwing and catching what a request threw.
`ActionTable::find` is `Action`, which answers `Rethrow` for anything but events.

Abstractions: counters and timers are left out; the cached exception is dropped
where it can no longer be read; assertions do nothing, as in a release build; a
module asks each on-demand worker once per run (`asked`), because a second
request finds the product or the cached outcome and changes nothing but the
depth of the C++ stack. The first occurrence is a begin of run, and after an
exception only ends of runs and sub-runs follow, as the state machine has it.
`PathSelection` calls (`SetTriggerPathEnabled`, `SetEndPathModuleEnabled`) come
between occurrences or from a module.

### 2.4 The other modules

**Compositions.** `MCSources`, `MCOutput`, `MCProducts`, `MCDelivery` and `MCJob`
each instantiate several components; the variable `kind`, chosen in the initial
state, says which of them a behaviour shows, and the variables of the others stay
idle. What is composed inside one behaviour: the base class, the source and the
event processor (`EmptyEvent`, `RootInput`); the source template and the processor;
file sequence, file, index and duplicate checker (`RootInputSeek`); output module,
worker, end path and tree (`RootOutput`); principals, files and readers
(`ProductAccess`); a job with its engines (`Job`); several jobs in a row with the
files between them (`Registration`, `FileLineage`, `Pointers`).

**External services.** The delivery and transfer services, the user's detail class
of a `Source<T>`, the user interaction and what modules ask for are free choices: an
answer, a failure or an exception at each call.

**Job.** `pc` is the stage reached in `run_art_common_`, `EventProcessor::beginJob`,
`runToCompletion`, `runCommon_`, `terminateAbnormally_` and `endJob`. The machine is
seen from outside (none, active, terminated). `begun` and `ended` record the calls of
`beginJob` and `endJob`, `collected` is the `ExceptionCollector`. `MaxThrows` bounds
how often something throws; an action that may throw has the outcome as a disjunct.

**Random numbers.** A state of an engine is a number, drawing leads to the next one.
`restoreFromEvent_` and `restoreFromFile_` walk through a list and stop at the first
entry they refuse. `Restored` says the same without walking: which entry is the
first that is refused (`RefusedFromEvent`, `RefusedFromFile`), and that each engine
has the last state listed for it before that entry. This is what can be reasoned
about in a proof, where induction over a list is out of reach.

**Data.** Products, files, labels and names are model values or small numbers.
Sequences of rows or cells stand for trees and buffers. A conversion is modelled by
what it does: merging of lists, mapping of identifiers between files, streaming of
pointers, numbering of events with words of a fixed width.

## 3. Runs

| Run | Question | Instance | Distinct states |
|---|---|---|---|
| `safety` (`EPStatesSafety.cfg`) | is everything read, begun, ended and written in order, and is the protocol implemented, whatever throws? | 2 runs x 2 sub-runs, 8 configurations, put-off list up to 2 | 2.2 million |
| `loops` (`EPStatesLoops.cfg`) | does every `process_event` return and every exception terminate the machine? | 2 runs (one a flush marker), 2 configurations, `endOfLoop` may answer either way | 170 thousand |
| `paths_safety` | what runs, what do paths report, where does each exception go? | 2 trigger paths that share a filter and a producer, one more producer on demand, an end path; 75 tables; 2 occurrences | 580 thousand |
| `paths_switching` | does each occurrence end, with paths and modules switched at any point? | 3 occurrences, one switch | 79 thousand |
| `sources` | do all sources give the events asked for, in context, within limits? | every source with small files, skips, rewinds and seeks; identifiers of 6 numbers, indices of up to 4 entries | 300 thousand |
| `output` | are events selected, written, described and kept as they should be? | up to 2 specifications on up to 3 paths; jobs of 2 input files, cloned or not; series of output files; a database of a few cells | 1.8 million |
| `products` | are products found, recorded, mixed, pointed to and put as they should be? | 3 files, chains of 4 jobs, 3 jobs with pointers, nested views | 370 thousand |
| `job` | does a job begin and end everything, get its files, reproduce its numbers, keep identifiers, services, paths and monitors in order? | up to 3 exceptions, 3 files with retries, chains of 4 jobs, 27 configurations of services, processes of up to 4 paths, modules nested three deep | 750 thousand |
| `short_read`, `lineage_lost`, `on_demand`, `destructors` | does the code do what its comments say? | the smallest of the above | violated |

All passing runs check all properties of their configuration at once. The
properties, each stated with a comment where it is defined:

*State machine* (`EPStates`)

* `NothingLostAtClose` - whenever the output is closed, all that was read has been
  written.
* `ReadInOrder` - the assertions of the leaf states (`LeafInvariant`), an event is
  processed with its own run and sub-run begun, current and cached and with files
  open (`EventInContext`), each item is read once by the call for its kind
  (`SourceInStep`), look-ups succeed, also during clean-up (`LookupsSucceed`).
* `WrittenInOrder` - nothing is written twice (`WrittenOnce`), a run after its
  sub-runs (`SubRunsBeforeRun`), a job without an exception leaves nothing behind
  (`CleanEnd`), the end of all that was begun is tried whatever is thrown and however
  often (`EveryBeginIsEnded`), one exception outside the file calls loses nothing
  (`ExceptionKeepsFiles`).
* `ImplementsProtocol` - refinement of `OccurrenceProtocol`.
* `ProcessEventReturns`, `ExceptionTerminates` - liveness.

*Paths* (`MCPaths`)

* `RunsOnce` - a module runs at most once in an occurrence, also through cycles.
* `StatesAreFresh` - a worker answers for this occurrence only.
* `RethrowIsNotLost` - an exception that has to surface leaves `processOneOccurrence_`,
  whose last handler swallows one with the action `IgnoreCompletely`.
* `ResultsAreFinal` - the trigger results in the event stay true.
* `OutcomesHaveCause` - the status and index of a path are what its modules decided
  (`StatusIsDecision`), an occurrence throws only for an exception whose action allows
  it (`ThrowsForCause`), and the end path reaches its output modules unless one to be
  rethrown, or one foreign to the framework, leaves it (`OutputsStillRun`).
* `OccurrenceEnds` - liveness.

*Sources* (`MCSources`): `EventsAsAsked` (each event wanted, once, in order, also
after a rewind or a seek), `InContext` (in its own run and sub-run; no assertion
fails), `LimitsKept` (never passed, and no stop before one is reached),
`IndexServes` (order, successors, searches against reference definitions).

*Output* (`MCOutput`): `DecisionIsAnySpec` (a selector accepts what one of its
specifications accepts), `ChosenByOwnResults` (by the results of the process named
and the names of the time), `RowsAligned` (the index of a closed file leads to the
rows of its events), `FilesDescribed` (ranges and parents of a series of files, and
no two of one name where the pattern separates the sequence number),
`DatabaseSurvives` (what was written is read back, in this job and later).

*Products* (`MCProducts`): `ProductsAreFound` (a look-up by label finds the product of
the first file that knows it, and nothing only where none has it or an earlier file,
which dropped or lacks it, hides it; with products in several files, dropped in some),
`LineageIsTrue`, `MixedAsRead`, `PointersSurvive`, `ViewsAreTransactions`.

*Job* (`MCJob`, `MCDelivery`): `OneOutcome` (of the proxy's files), `ServedInOrder`
(by the proxy and the catalogue), `RequestsEnd` (delivery of files), `BeginsAreEnded`,
`StatesReproduced` (what is saved with an event is what it started from, for engines it
does not restore, and what it restores is what it starts from), `SignalEndsJob` (the job), `ProductIDsKeepTheirMeaning`, `FilesAreKnown` (chains of jobs),
`ServicesServe`, `PathsAreConfigured`, `WatchersKeepUp`.

### Bounds

*State machine.* `Runs`, `SubRunNums`: two of each, enough for a run or sub-run to be
repeated, interrupted by another, continued in another file, or out of order in the
cache. `MaxDeferred = 2` bounds `unhandledSubRuns_` (guard of `SubRunItem`): two
entries are enough for a sub-run put off twice, and for the loop over them to be
interrupted by an exception at its first, second and last turn. The number of files,
loops and items is unbounded: the state space is finite because counts are not kept.
The eight configurations of `SafetyConfigurations` contain every file mode with
put-off sub-runs and each of the other three settings of the empty-run parameters at
least once. `endOfLoop()` answers `true` in `EventProcessor`; the run `loops` lets it
answer `false` too, so that the `Restart` path is exercised.

*Paths.* `MaxOccurrences` is 2 or 3: what one occurrence leaves to the next is only
`worker`, `cached` and the switches, and the first occurrence after a change already
meets it; three are needed to have an event after an event (the first is a begin of
run). `MaxSwitches = 1` is enough for a disabled path or worker; the workers of an
end path are independent in what a switch changes. Two workers on demand make the
shortest cycles of requests of length one and two.

*Sources.* Input files have up to twelve index entries, with headers and events that
occur twice, as merging leaves them; a job has up to three files, one of which may not
open. `MaxReads` (four calls of `readNext`: a run, its sub-run, an event, and what
comes back again), `MaxDelivered` and `MaxChoices` (two seeks, one rewind) bound what a
source is asked for. Where every identifier is visited, numbers have six values, so that
the first, the largest natural and the two reserved ones are next to each other; an
index has up to four entries.

*Output, products.* Two or three input files of up to two events: rows go out of step
with the first event that is cloned and not written, or the reverse. Two
specifications combine the five lists of a selector in pairs. Two secondary files are
the least in which one that lacks the event is followed by one that has it. In the
instance `Hiding` a product is dropped from the primary file and kept in a secondary
one, another is missing there for one item, and a third is dropped from the first
secondary file. The pattern of file names has a sign between its numbers. Chains of
four jobs let a list be extended, merged, read and dropped.

*Job.* Three exceptions reach every nested handler: one in the loop, one in the
abnormal end, one in `endJob()`. Three files and two or three attempts let a failure
fall on the first, a middle and the last file and attempt; the reader may go back after a
probe or before. Items after a signal are
counted to two, which is one too many.

Symmetry is used for the products of `products` only, which are not ordered;
elsewhere identifiers are ordered. Deadlock is checked for the machine and the
paths; the other jobs end.

### Fairness

`EPStates!FairSpec` assumes weak fairness of `MachineStep` only, the steps the machine
takes by itself inside `process_event`: a plain function call on the only thread
goes on until it returns. Nothing is assumed of the source (`Item`), which may never
offer another item. `Paths!FairSpec` assumes weak fairness of `Process`, everything
between the begin and the end of an occurrence: one call on one thread, and modules
are taken to return. `JobSpec` assumes weak fairness of the job's own steps (`Step`,
which leaves out signals) and of the answers of the services (their calls are
synchronous). Begin of occurrences, switches, requests and signals are never assumed.

## 4. Proofs

TLAPS checks forty-two theorems, each for every value of the constants under the
assumptions named here, which the models declare and TLC evaluates for the instances
of the runs (but for the two of `Job`, which its theorems have as hypotheses).

| Module | Theorems | From |
|---|---|---|
| `EPStates_proof` | `TypeCorrect`, `NothingLost`, `OrderHolds`, `ReadsWhatIsOffered` | `IdAssumption` (identifiers are positive numbers, flush markers are identifiers), `MachineAssumption` (configurations are records of the three parameters) |
| `EPRuns_proof` | `RunsFit`, `BegunAreEnded`, `LookupsAlwaysSucceed`, `EventsInContext`, `EverythingReadInOrder`, `FollowsProtocol`, `EverythingWrittenInOrder` | the same |
| `Paths_proof` | `PathsTypeCorrect`, `ModulesRunOnce`, `FreshAnswers`, `NoExceptionLost`, `TriggerResultsTrue`, `StatusDecided`, `ThrownForCause`, `OutcomesCaused` | `PathsAssumption` (filters and on-demand workers are modifiers, modifiers are not on the end path, trigger paths are not empty); the last for plain end paths, see below |
| `Job_proof` | `EnabledAreEnded`, `BegunAreEnded`, `MachineEnds`, `ReturnCodeTold`, `SignalIsHeeded`, `SavedAsStarted`, `EventsReproduced`, `FileEnginesKept` | where needed `WorkersAssumption` and `ListsAssumption`, see below |
| `MCJob_proof` | `FilesServedInOrder`, `EachFileOneOutcome` | `DeliveryAssumption` (numbers of files, attempts and rewinds are natural numbers, the catalogue makes at least one attempt) |
| `MCJob_proof` | `JobsEndTheirModules`, `JobsReproduceStates` | no assumption: the constants of `Job` have values there |
| `RootOutput_proof` | `IndexLeadsToRows`, `BranchesAreLevel`, `EventsWrittenOnce` | `RootOutputAssumption`, and the hypotheses `NothingLeftOut` and `NothingMissed`, see below |
| `OutputFiles_proof` | `DatabasesArePassedOn`, `FilesReadBack` | `VFSAssumption` (the size of a page, of files and the number of cycles are natural numbers, chunks are sizes, a write is a sequence of cells that is not empty) |
| `OutputFiles_proof` | `RangesAreTrue`, `ParentsAreTrue`, `NamesAreKept` | `StatsAssumption` (runs, sub-runs and events are natural numbers, the pattern is a sequence of strings); the last with the hypothesis `Numbered`, see below |
| `MCOutput_proof` | `OutputRowsAligned`, `OutputDatabaseSurvives`, `OutputFilesDescribed` | no assumption: the constants of the parts have values there |

**`TypeCorrect`** (`EPStates_proof`): `Spec => []TypeOK`. `TypeOK` alone is not
inductive. That `depth - 1` is a depth needs that a composite exists whenever
one is left; that what is cached is a run needs that the source has offered one
when `readAndCacheRun` executes, which may be many steps after the item was
announced. So `TypeInv` adds

* `Nesting`: something to leave, room to enter, and no statement left when the
  machine waits;
* `TodoFits` and `SourceFits`: the statements that read (`Special`) are those
  of the transition under way, and the source has offered what they read;
* `MoveFits`: only a transition to `Starting` rewinds the input, because
  rewinding forgets what was offered;
* `WaitFits`: `EndingLoop` and `Error` post an event before the machine can
  wait there; otherwise an item would meet a state that has no reaction to it.

The proof distinguishes the four things a statement can do to the flow of
control (`Flow`: return, throw, be replaced by a body, loop), so each action
needs only the types of what it assigns.

**`NothingLost`** (`EPStates_proof`): `Spec => []NothingLostAtClose`. Its
invariant `FileInv` says why the cache is empty when `closeOutputFiles`
returns:

* `Conserved`: what is not written is in the cache;
* `ClosesInOrder`: in `todo`, `closeOutputFiles` comes immediately behind
  `respondToCloseOutputFiles`, that behind `writeRunCache`, that behind
  `writeSubRunCache`, unless it is the next statement; and then `Reached` says
  what the statement before it has left behind;
* `ReadersFit`: a run or a sub-run is read only by a constructor inside
  `HandleFiles`;
* `CloseFits` and `OutputFits`: output files are closed only at the end of
  `HandleFiles` or in `NewInputAndOutputFiles`, which opens the next ones, so
  whoever reads finds them open.

Exceptions are what makes the invariant necessary: they cut `todo` anywhere and
put the clean-up of the innermost composite in its place.

The second part of **`EPStates_proof`** says what is still to be executed. `OrderInv`, proved as
`OrderHolds`, adds to `TypeInv`

* `Chained`: the bodies of all functions are chains of statements, so the next one
  (`NextCall`) determines the rest of `todo`, which is `Code(NextCall)`;
* `InPlace`: each statement belongs to certain constructors, exits or actions, at one
  depth of the machine;
* `Between`: in the middle of a transition, which leaf is left for which target, which
  composites are already left or entered, and who may still post an event;
* `LoopFits`: a composite that does not exist has its initial members, and the loop
  over sub-runs put off runs only when `HandleSubRuns` is broken.

With it the state of a function in progress is one value and not a sequence, and
everything below is proved statement by statement: a step executes one statement,
and `OrderInv` says where. `ReadsWhatIsOffered` (`SourceInStep`) follows from
`ItemFits`: unless something was thrown, the item announced is that of the target of
the transition until the statement that reads it (`ReadBefore`).

**`EPRuns_proof`** adds five invariants, each resting on those before it:

* `RunInv`, `SubRunInv` (`RunsFit`): the members of `HandleRuns` and `HandleSubRuns`
  fit the place of the machine, and `begun` is exactly the run and sub-run whose
  members say so (`RunBegun`, `SubRunBegun`), but for flush markers. When the machine
  has terminated there are no composites, so nothing is begun: `BegunAreEnded`, with
  any number of exceptions at any place.
* `CacheInv` (`CacheFits`): the current run and sub-run and those put off are in the
  cache, until `clearCurrentRun` and `clearCurrentSubRun` have thrown them out, and the
  modes that refuse split runs never see one again. Hence `LookupsAlwaysSucceed`.
* `FilesInv` (`FilesFit`): whether the files are open, by the place of the machine;
  what an exception swallowed by a destructor may leave open. Hence `AssertionsHold`,
  `EventsInContext`, `EndsAreClean` and `ExceptionsKeepFiles`.
* `FollowsProtocol` is the refinement of `OccurrenceProtocol`. Its initial state maps
  to the initial state, and each of the statements maps to one step of the protocol
  or to a stutter (`BoundsSurrounded`, `SubjectFits`: a run begins inside files, a
  sub-run inside its run, and what ends is what has begun).
* `WrittenInv`, for as long as nothing is thrown (`Calm`): what has been written is a
  previous run, an earlier sub-run, or one that is about to end (`WrittenFits`); what
  is cached has not been written (`Apart`); and in the modes that write at the end, the
  cache holds the sub-runs that still wait, and no other (`AllWait`). Hence
  `NothingIsWrittenTwice` and `SubRunsComeFirst`.

`EverythingReadInOrder` and `EverythingWrittenInOrder` are the properties of the run.
So every safety property of the machine that TLC checks, and the refinement, is proved
for any number of runs, sub-runs and exceptions and for every configuration.

**`Paths_proof`** proves `TypeOK`, `RunsOnce`, `StatesAreFresh`,
`RethrowIsNotLost` and `ResultsAreFinal` of `Paths` (`PathsTypeCorrect`,
`ModulesRunOnce`, `FreshAnswers`, `NoExceptionLost`, `TriggerResultsTrue`), from
`PathsAssumption` only: filters and on-demand workers are modifiers, modifiers
are not on the end path, trigger paths are not empty. None of the five is
inductive. The invariant `IInv` has four parts:

* `Control`: types, and `PcFits`, `StackFits`, `CachedFits`, `InserterWaits`: a
  path that ends has visited a worker; a module that executes has a worker that
  left `Ready`; a worker in state `Exception` has one to rethrow; the inserter is
  `Ready` until its stage;
* `Visits`: a worker that has run is not `Ready` (so it does not run again), and
  the workers of the end path have not run when they are reset (`ObserversRest`),
  which is why resetting them late is as good as at the begin;
* `Surfacing`: while an occurrence is processed, the only thrown exception that
  must surface is the one in flight (`InFlight`), and the last handler, of
  `processOneOccurrence_` (`EventProcessor.h:239`), lets it through;
* `ResultsFit`: no path that goes on to the inserter has thrown.

All that happens to a worker is one kind of step (`Worked`, `WorkerSteps`), so
each part is proved once for `doWork` and the modules, and otherwise for what
moves through path and schedule.

The second part of **`Paths_proof`** proves what is left of the safety of `Paths`. `OInv` adds to
`IInv` the whole stack of executing modules: a worker on it is `Working`, except that
the one a foreign exception leaves is about to change, and no worker is on it twice. So
the state of a worker that has ended changes no more before the next occurrence, and
what a path has recorded of it stays true: the workers before the index of a path
accepted, the one at the index did not (`StatusDecided`, with no further hypothesis).
`ThrownForCause` needs that the exception a worker keeps has an action that leaves a
worker, and that the last handler swallows what is to be ignored, a foreign exception
included; it holds also with modules of the end path switched, because the exception that a
disabled worker keeps from an earlier occurrence surfaces before an event can meet it.
`OutcomesCaused` is the checked conjunction of these with `OutputsStillRun`, and has the
hypothesis `PlainEndPath`: on the end path no module is a filter, inverted, listed twice
or disabled. It is not there for the proof: with a filter, an inverted or a repeated
module the output modules behind it really do not run, and a disabled one answers with
what it has left over (section 5). The path manager refuses a filter on an end path;
`!` has to be written in the configuration, and repetition comes with two end paths
that share an analyzer. An exception to be rethrown, or one that is none of the framework's
(`StdException`), ends the end path, and the property excepts both.

The first part of **`MCJob_proof`** is about `DeliverySpec`, the composition of proxy and catalogue for
any client; `JobSpec` runs it as two of its kinds. For the proxy the invariant relates
the item it holds, by the step it has reached, to what the service has delivered and was
told (`EachFileOneOutcome`, which is about the proxy only). For the catalogue it
relates the number of items, the position, the highest position, the probe and the call
under way to the service's own record (`FilesServedInOrder`): what was opened is what was
delivered, in that order, and between the highest position and the last item there is at
most the one item that was probed. The reader may go back at any time. Where it takes a
probed file from another place than where it probed (`strayed`), the statement is no
longer made, and the answer "no more" of a probe counts for that place only (`probedAt`):
there the code does hand out a wrong file, or none (section 5).

**`Job_proof`**: what holds of a job depends on how far it has come, so `IInv` is an
invariant by stretches, from `beginJob` to the exit: `CallsInv` and `EndsInv` say which
modules have been asked to begin and to end, `MachineInv` what the machine does,
`SignalInv` how many items came after a signal, `CodeInv` what has been thrown and
collected, `SeedInv` what the engines, the snapshot and the event hold. TLC has checked
each part first. The lemmas (`Way`, `WorkerWay`, `CodeWay`, `SignalFrame`,
`ServiceFrame`) say of `Next` what any of its steps does to one aspect; each conjunct is
then proved from those few cases and not for every action again.

* `EnabledAreEnded` holds with modules switched between the calls, from
  `WorkersAssumption` (no module is both a trigger and an end-path module).
  `BegunAreEnded` is the property as the run states it; it needs `Toggles = FALSE`,
  because a module that is disabled when the job ends is not asked to end.
* `SavedAsStarted` is about every job: what is saved is the snapshot, which is taken before
  the restoration. So it is what the event started from for each engine that is not
  restored from that event, and in a job that restores nothing for all of them; of the
  others it has the state before (section 5).
* `ReturnCodeTold`: the code is 0 unless something was thrown that ends the job. A
  restoration that fails throws inside `processOneOccurrence_`, which passes over it where
  the table of actions says to ignore it (`StartEvent`, `EventProcessor.h:239`).
* `EventsReproduced` needs `ListsAssumption`: no list of states has a label twice, which
  `RandomNumberSaver` cannot produce.
* `FileEnginesKept` is an action property and needs no assumption. It rests on the closed
  form `Restored` of the walk through a list.

These eight theorems are about the module with its constants as parameters. `MCJob`
reaches it through `INSTANCE ... WITH`; the second part of **`MCJob_proof`** instantiates them for the jobs
`Failing` and `Restoring` and shows that every step of `JobSpec` is one of theirs, or of
another kind of behaviour, which leaves them alone (`JobsEndTheirModules`,
`JobsReproduceStates`: the properties of the run).

**`RootOutput_proof`** is about the trees `RootOutput` writes: any jobs of any files with
any branches and events. `RowsInv` says of an open tree

* `TreeFits`: each row so far has, in every branch, what the event of that row has in the
  input (`RowsFit`), and each entry of the index leads to a row of its event (`IndexFits`);
* `Ahead`: while a file is copied, the branches that were copied are ahead of those that
  are filled, by exactly the events that are still to be read, in the order in which they
  will be read; otherwise all branches are of one length (`Level`). This is what makes the
  next event filled fall into the row that was copied for it, and dummies for a branch
  that comes late be as many as there are rows;
* `Known`: the branches of the files up to the present one are in the tree, so that a row
  of an earlier file lacks no branch but one that is in none of them.

It needs two hypotheses, and both are where the code really fails (section 5).
`NothingLeftOut`: in a job that copies at once, each event of a copied file is then
written: the module is not disabled, no write fails, no duplicate is skipped. Otherwise
rows that were copied have no event, and every later event is written into the wrong one.
`NothingMissed`: where a module may be disabled, no file between the first and the last
has a branch that the first has not, because a module that is disabled does not hear of
the branches of a file. TLC finds the counterexample without either. The instances of
`MCOutput` satisfy both, and include duplicates, disabled modules and failed writes where
nothing is copied at once.

`WrittenOnce` is about a recursive function over the closed files. What such a function
computes for every sequence cannot be proved here, but it can be followed along a
behaviour: `EventsInOrder` says that a function with these equations exists and what any
such function gives for the files so far, and a step that closes a file extends it by one
value (`CollectsMore`).

The first part of **`OutputFiles_proof`** is about the file system of the database, for any files, writes, sizes
of chunks and of a page. The invariant `VFSInv` relates the three lengths the code keeps
apart, those of the buffer, of the file and of what the client wrote: `Keeps` says that
the buffer is at least as long as the file, the file as long as what was written, and that
they agree wherever something was written; `KeysFit` says the same of each cycle of the
key. Each operation is a lemma about buffers (`ReallocKept`, `ClearKept`, `WriteKept`,
`ResizeKept`, `GrowthKept`), and that rounding up to chunks and then to pages never makes
a file smaller (`RoundedUp`) is what lets the new buffer hold it. An allocation that fails
either changes nothing or, when a file is truncated to nothing, leaves an empty one. What
a hole or a growth holds is not promised, because the code does not initialise it; nor is
what a read over the end of a file gives (section 5).

The second part is about `FileStats`: any runs, sub-runs, events, input files and file
name patterns. `StatsInv` adds to the properties that a run is open only while the file
is, that the input files noted are those that were open, and that the number of files
closed is the number in the collector, which is in the name of the file it was closed
with. The hard part is the range. `RunExtends` and `SubRunExtends` say what one number more
does to it: the lowest sub-run must be compared with another of the same run only, and not
with an invalid number, which sorts first; for the highest one just that order is right.
Nothing is promised of the first and the last event, which are not reset (section 5).

A name is a sequence of characters, the literals of the pattern and the digits of the
numbers put in their place, joined. `NamesAreKept` is about patterns that are `Numbered`:
files of different numbers get different names, whatever the ranges are that a file can
have. `KeptInv` says that the name of a closed file is made of its own number, and
`NamedByNumber` that the ranges it was made of are among those `Numbered` speaks of, which
follows from the invariant of the range. TLC evaluates `Numbered` for the pattern of the
run, and that one without separators is not.

**`MCOutput_proof`** instantiates `RootOutput_proof` for the jobs `Cloning` and `Filling`
and `OutputFiles_proof` for the database and the statistics of the run, and shows that each
step of the composition is one of theirs or leaves them alone: `OutputRowsAligned`,
`OutputDatabaseSurvives` and `OutputFilesDescribed` are the properties of the run.

### Only model-checked

* *Liveness* (`ProcessEventReturns`, `ExceptionTerminates`, `OccurrenceEnds`,
  `RequestsEnd`, `SignalEndsJob`): rules for fairness need `ENABLED`, which this version of
  TLAPS does not reason about.
* *The components of `MCSources`, `MCProducts` and the rest of `MCOutput` and `MCJob`*: most
  of their operators are recursive functions, folds or searches over sequences
  (`FileIndex`, `EventSelector`, `Registration`, `Pointers`); what these compute for every
  input is induction over data, for which the installed provers have no rule.

## 5. What the code does against its own words

Four runs show a comment or a document contradicted; `PROJECT.json` quotes it.

* **A short read** (run `short_read`). A read over the end of a database file copies as
  many bytes as lie behind the end instead of those before it (`tkeyvfs.cc:607`).
* **Metadata that is not dispensable** (run `lineage_lost`). A file written without
  metadata makes the next job write dummies in place of its products
  (`RootOutputFile.cc:661`).
* **The wrong current module** (run `on_demand`). After a module ran on demand, the one
  that asked goes on under its name (`CurrentModule_service.cc:39`): engines and
  histograms are the other one's.
* **Modules without services** (run `destructors`). Destructors of modules run after the
  context that is kept for them has gone (`EventProcessor.cc:180`).

The following were met while modelling. The models contain the behaviour, and where a
property was weakened for it, the property's comment or this list says how; where an
unchecked definition states what was expected, it is named, so that it can be put into a
configuration.

*State machine and job*

* With NOMERGE, `handleEmptyRuns: false` and `handleEmptySubRuns: true`, a sub-run that is
  put off twice is erased by its first writing and looked up again, which
  `PrincipalCache.cc:84` says "should never happen" (`LookupsNeverFail`;
  `LookupsSucceed` excepts this configuration by name, `MayEraseTooEarly`).
* `openFiles()` runs in the constructor of `HandleFiles`: if it throws after opening the
  input file, no destructor runs, against `EventProcessor.cc:463`
  (`DestructorsCleanUpFiles`). The same for an exception from `closeFiles()` in `exit()`.
* A job that restores states from events saves with each event those from before the
  restoration, so that its own output does not reproduce the event (`RandomNumberGenerator_service.cc:541`, against what
  `RandomNumberGenerator.h:154` says of the snapshot; `StatesReproduced` excepts the
  engines restored from that very event); one that dies in an event saves the states
  of that moment, not those the event started from (`FailedEventReproduced`).
* A module that is disabled when the job ends is never told `endJob`
  (`Job!BeginsAreEnded` with `Toggles`).

*Paths*

* What leaves the end path is caught a last time as an exception of the category
  `EventProcessorFailure` (`EndPathExecutor.h:127`; that this is its root cause is of
  cetlib, which is external): a table that ignores that category ignores every exception
  of the end path of an event, one to be rethrown included (`MustSurface` says so).
* An exception that leaves the schedule and is ignored by the last handler
  (`EventProcessor.h:239`) leaves out the end path, so the event is not written.
* `SkipEvent` leaves out the inserter of the trigger results, against `Schedule.h:16`
  (`ResultsAlwaysInserted`).
* `FailModule` makes `doWork` return true and leaves the state `Fail`, from which the next
  path reads false (`PathsAgree` with `SharedProducer`); on an end path that lists an
  analyzer twice, the output modules behind it do not run (`OutputsStillRun` with
  `TwoEnds`).
* `FailModule` for exceptions from outside the framework trips the assertion in
  `Path.cc:48` (`FailModuleStaysInWorker` with `FailModuleTable`).
* A module on the end path that is disabled before its first call is run
  (`DisabledModulesRest` with a switch).
* `trigger_paths` gives no order: bits follow the alphabetical order of the names, though
  `TriggerNamesService.h` says "The order is the same as in the configuration". A path
  that is ignored is not checked behind its first module.

*Selection*

* `&noex` is refused, and a specification of the mask with conditions is treated as
  unconditional (`MaskAgreesWithDecision` is about events without exceptions).
* With selections by two processes an event is written and then counts as failed; a
  selector whose renewal failed half-way decides with its remains (properties ask for it
  only where no exception was raised).

*Sources and files*

* `EmptyEvent`: stepping back leaves the counts of events in the run and sub-run; a rewind
  at the sub-run limit repeats the first event; in mode `Runs` items are dropped without
  end (`NotEndless`); in mode `RunsAndSubRuns` one sub-run is returned
  (`SubRunsReturned`).
* `Source<T>`: a run or sub-run read without an event dereferences null
  (`EventIsOptional`); handing back the cached run deletes it twice (`NoDoubleDelete`).
* `RootInput`: a header is taken for a duplicate by its sub-run number only
  (`OnlyDuplicatesSkipped`); after a rewind the events to skip are not skipped again
  (`RewindsToTheFirst`); `setRunNumber` trips an assertion (`RunNumberCanBeSet`); a seek
  into a file not yet opened finds only the last file and then reads the one behind it
  (`SeekFinds`, `SeekSetsUp`, with `FilesAhead = TRUE`).
* `RunID::previous()` refuses the largest run; a sub-run number without a run is accepted.
* `InputFileCatalog`: a file whose first transfer failed stays marked as skipped and is
  never reported as consumed (`ConsumedWhenLeft`).
* `InputFileCatalog::rewind()` and `rewindTo()` leave the answer of a probe as it is
  (`InputFileCatalog.cc:222`). An answer "no more" then hides all the files behind the
  place gone back to; a file that was probed is handed out in place of the one that
  follows there, and is written where it does not belong, at worst behind the end of the
  vector. The model does this (`strayed`, `probedAt`, the place `"lost"` of a call), and
  `FilesInOrder`, `PassComplete`, `DispositionsInOrder` and `NamelessIsSkipped` except just
  that; going back and coming again to the place of the probe is harmless, and is not
  excepted. `RootInput` meets none of it as things are: the user goes back or seeks after an
  event, and the probe that led to its file has been used up (`RootInput`, `RootInputSeek`).
  The `Restart` of the state machine rewinds after a probe that said "no more", and would
  read the first file only; `endOfLoop()` never asks for it. `MayRewind` asks for a
  current file, because `RootInput` opens one when it is made.

*Output*

* Fast cloning of a file with duplicates, or a job that stops within a cloned file,
  leaves produced branches shorter than the others (`SameEntries`, `AlwaysSameEntries`);
  after a product could not be read, the next event takes its row.
* An output module that was disabled while an input file was opened, and enabled again
  while it is read, misses the branches only that file has: the events written then lack
  them, and where a later file brings such a branch, the rows before are dummies
  (`RowsAligned`, without `NothingMissed`).
* An output module that was disabled when files were opened dereferences a missing file
  when it is enabled (`JobGoesOn`).
* `FileStatsCollector` keeps the first and last event of an earlier file
  (`EventsOfFile`); the list of runs has doubled delimiters (`RunsWellFormed`).
* A pattern that lets two numbers touch, such as `%r%#`, gives two files one name (the
  first of run 11 and the eleventh of run 1), and the later replaces the earlier
  (`EachFileKept` with the instance `Unseparated` of `MCOutput`).
* `OutputModule::configure()` is called from nowhere, so the limit on output events has no
  effect.
* RootDB: the second branch of `fcntlSizeHint` is dead; growth and holes hand out
  uninitialised memory; a failed load leaves the method set; a database is opened for
  writing in a read-only file and without `CREATE`; `CREATE` ignores an existing key.

*Products*

* A secondary file without the event shifts the index of the others (`RequestsAreAnswered`);
  a product that an earlier file, primary or secondary, dropped or lacks hides the one in a
  later file (`OnlyEarlierFilesHide` is the statement with these exceptions); but asked for
  by its identifier, it is found the first time and not the second, when the dropped one of
  a secondary file that is open by then is taken without asking whether it is there
  (`Principal.cc:478`; `SameProductAgain` and `RequestsAreAnswered` with the instance
  `Hiding`); references read
  from a secondary file cannot be followed (`ReferencesCanBeFollowed`); a run's secondary
  principal is added to the run read last.
* `DoNotRecordParents` has no effect: `RecordInParentless` fills the same list
  (`maybe_record_parents.h:24`; `ParentlessHaveNoParents`).
* A product put twice into a run or sub-run is dropped with a warning; a commit that fails
  half-way leaves the puts before; a module on demand cannot point into its own product
  through the event's getter; what is got through `getRun()` or by following a pointer is
  not recorded as a parent.
* A kept product of which an event says that it was never made is written as a dummy with
  the status "dropped", so the next file tells less than the one it was made of
  (`RootOutputFile.cc:669`).
* Dropping descendants misses those whose link was an intermediate product dropped a job
  earlier (`DescendantsAreDropped`); reading a dummy without provenance dereferences null
  (`WriteSucceeds`).
* `Ptr` and `PtrVector`: an insertion that throws half-way leaves the core and the
  pointers inconsistent; the mutable `begin()` and `at()` evade the check of the core;
  `PtrVectorBase::swap` leaves the indices.
* Registration: `keptProducts_` is never cleared; a class first checked without its
  components hides them later; secondary files are merged whatever `MatchMode` says;
  lists a later file adds get no reverse mapping; histories can be extended at the end only
  past an empty list; only lists are compared, not process names; a file merged from events
  of different histories cannot be read back.
* Mixing: the table that identifies products is never cleared, so a file from which events
  were skimmed is noticed at its second event only; a request larger than every file recurses
  for ever; running out throws, though `MixHelper.h` says the filter returns false;
  flattening leaves out the offsets of missing products; two signatures of `PtrRemapper` do
  not compile; a job that goes on after a rejected file reads it with the tables of the one
  before (`Survives`).

*Services and monitors*

* Services made by `forceCreation()` are not noted in the order of creation and go in the
  order of their types, against `ServicesManager.cc:32`; constructors that need each other
  recurse for ever.
* `FloatingPointControl`: where the list lacks "default", modules that are not listed run
  with all exceptions trapping; the SSE part accumulates what earlier names enabled.
* `MemoryTracker`, `TimeTracker` and `Timing` keep one start, so the time of a module that
  made another run counts from the return of the last one (`RowsAddUp` says that nothing
  is counted twice). Numbers of events are wrong after older rows and for modules that do
  not run in each event. Reports fail without rows (`ReportsAreMade`).
* The status of the message facility saves one label only and loses it two deep
  (`SettingsNest` excepts it). The times of modules in the summary are zero because the
  timer is never started, and CPU and real time of paths are swapped. A worker counts a
  cycle of requests as two errors of one run.

## 6. Not modelled, and why

`PROJECT.json` has every component with its status.

* *Group selection*: a pure function of labels; what is kept is any set in
  `FileLineage` and `Registration`.
* *Command line, configuration of messages, dictionaries, Reflex tools, JSON, dumpers,
  SQL, ROOT trees*: parsing, formatting and input and output of external libraries,
  without an order of calls of their own.
* *Data*: the contents of products and of histograms, times, messages, the text of names other than those
  of output files, of which the number of digits a pattern may ask for (`%3r`), the label,
  the process and the time are left out.
* *In `EPStates`*: the workers behind `processEvent`, `beginRun` and the like (a call that
  returns or throws), the source (any sequence of items whose sub-runs belong to the run
  last offered), the answer of `shouldWeCloseOutput` (either, except that NOMERGE always
  closes). These are what `Paths`, the sources and `RootOutput` are about, each with the
  processor's calls that reach it.
* *In `Paths`*: files, counters and timers (`RootOutput`, `Monitors`).
* *Concurrency*: there is none in this version; signals are.

## 7. What could come next

1. Proofs for components without recursion over data: `EventObserver`, the limits of
   `InputSourceBase`, `DataViews` without its folds.
2. Models: queries of associations (`FindOne`, `FindMany`), output through the catalogue,
   the counters of the final report in `Paths`.
