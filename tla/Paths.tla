------------------------------- MODULE Paths -------------------------------
(***************************************************************************)
(* How one occurrence (an event, or the begin or end of a run or sub-run)   *)
(* passes through the modules: Schedule and EndPathExecutor drive the       *)
(* paths, a Path its workers, a Worker its module, and in an event a module *)
(* that asks for a product may make another worker run (unscheduled         *)
(* execution).  The table of actions says what an exception of a given      *)
(* category does on the way out.                                            *)
(*                                                                          *)
(* "stack" holds the workers whose module is executing, the innermost       *)
(* first; what a module computes is left out, so a module body is a choice  *)
(* between asking for a product, returning and throwing.                    *)
(***************************************************************************)
EXTENDS Integers, Sequences, FiniteSets

CONSTANTS
  Modifiers, Observers,  \* workers of the trigger paths and on demand, of the end path
  Filters,               \* workers whose module may return false
  OnDemand,              \* workers that a request for a product may start
  TriggerPaths,          \* sequence of paths; a path is a sequence of [worker, filter]
  EndPath,               \* the one end path, <<>> when there is none
  UserCategories,        \* categories of the cet::exceptions of modules
  Tables,                \* the tables of actions explored
  MaxOccurrences,        \* bound: occurrences in a behaviour
  MaxSwitches            \* bound: calls that enable or disable something

Inserter == "TriggerResults"
Workers  == Modifiers \cup Observers \cup {Inserter}
States   == {"Ready", "Pass", "Fail", "Working", "Exception"}
HLTStates == {"Ready", "Pass", "Fail", "Exception"}
FilterActions == {"Normal", "Ignore", "Veto"}
ActionCodes == {"IgnoreCompletely", "Rethrow", "SkipEvent", "FailModule", "FailPath"}
\* The last three: anything thrown that is not a cet::exception, the request that
\* makes a module wait for itself, and what the end path throws for any exception.
Categories ==
  UserCategories \cup {"StdException", "ScheduleExecutionFailure", "EventProcessorFailure"}
Steps(ws)  == [worker : ws, filter : FilterActions]

ASSUME PathsAssumption ==
  /\ Modifiers \cap Observers = {}
  /\ Inserter \notin Modifiers \cup Observers
  /\ OnDemand \subseteq Modifiers
  /\ Filters \subseteq Modifiers
  /\ TriggerPaths \in Seq(Seq(Steps(Modifiers)) \ {<<>>})
  /\ EndPath \in Seq(Steps(Observers))
  /\ "None" \notin Categories
  /\ Tables \subseteq [Categories -> ActionCodes]
  /\ MaxOccurrences \in Nat /\ MaxSwitches \in Nat

VARIABLES
  table,           \* the ActionTable, fixed for the job
  pathsEnabled,    \* Schedule::pathsEnabled_
  workersEnabled,  \* EndPathExecutor::workersEnabled_
  occurrence,      \* "event" or "other": what was processed last or is processed now
  outcome,         \* how processOneOccurrence_ ended, "none" while it runs
  stage,           \* which part of processOneOccurrence_ runs
  pc,              \* where in that part
  path, idx,       \* the path that runs, the workers of it visited so far
  goOn,            \* should_continue of that path
  answer,          \* what the last doWork returned
  exc,             \* category of the exception in flight, or "None"
  stack,           \* the modules executing, each with the workers it has asked
  worker,          \* Worker::state_
  cached,          \* Worker::cached_exception_, "None" where it is never read
  results,         \* PathsInfo::pathResults()
  inserted,        \* the TriggerResults put into the event, <<>> when there is none
  runs,            \* history: how often each module was run in this occurrence
  thrown,          \* history: categories thrown in this occurrence, not caught by a module
  failed,          \* history: workers failed by an exception in this occurrence
  count, switches  \* of occurrences, of calls that enable or disable

config  == <<table, pathsEnabled, workersEnabled, switches>>
control == <<stage, pc, path, idx, goOn, answer, exc, stack>>
job     == <<occurrence, outcome, count>>
data    == <<worker, cached, results, inserted>>
history == <<runs, thrown, failed>>
vars    == <<config, control, job, data, history>>

TypeOK ==
  /\ table \in Tables
  /\ pathsEnabled \in [DOMAIN TriggerPaths -> BOOLEAN]
  /\ workersEnabled \in [Observers -> BOOLEAN]
  /\ occurrence \in {"event", "other"} /\ outcome \in {"none", "returned", "threw"}
  /\ stage \in {"idle", "trigger", "inserter", "end"}
  /\ pc \in {"next", "path", "module", "returned", "handle", "caught"}
  /\ path \in 0 .. Len(TriggerPaths) /\ idx \in Nat
  /\ goOn \in BOOLEAN /\ answer \in BOOLEAN
  /\ exc \in Categories \cup {"None"}
  /\ stack \in Seq([worker : Workers, asked : SUBSET OnDemand])
  /\ worker \in [Workers -> States]
  /\ cached \in [Workers -> Categories \cup {"None"}]
  /\ results \in [DOMAIN TriggerPaths -> [state : HLTStates, index : Nat]]
  /\ inserted \in {<<>>} \cup [DOMAIN TriggerPaths -> [state : HLTStates, index : Nat]]
  /\ runs \in [Workers -> Nat]
  /\ thrown \subseteq Categories /\ failed \subseteq Workers
  /\ count \in 0 .. MaxOccurrences /\ switches \in 0 .. MaxSwitches

NoResults == [p \in DOMAIN TriggerPaths |-> [state |-> "Ready", index |-> 0]]

Init ==
  /\ table \in Tables
  /\ pathsEnabled = [p \in DOMAIN TriggerPaths |-> TRUE]
  /\ workersEnabled = [w \in Observers |-> TRUE]
  /\ occurrence = "other" /\ outcome = "returned"
  /\ stage = "idle" /\ pc = "next" /\ path = 0 /\ idx = 0
  /\ goOn = TRUE /\ answer = TRUE /\ exc = "None" /\ stack = <<>>
  /\ worker = [w \in Workers |-> "Ready"] /\ cached = [w \in Workers |-> "None"]
  /\ results = NoResults /\ inserted = <<>>
  /\ runs = [w \in Workers |-> 0] /\ thrown = {} /\ failed = {}
  /\ count = 0 /\ switches = 0

-----------------------------------------------------------------------------
(* Worker::doWork, called with the stack s of its callers: by a path or the *)
(* schedule when s is empty, else by the request of a module.               *)

\* Faulty: asked in the begin and end of runs and sub-runs too.
ActionAlways(c) == table[c]

\* ActionTable::find, asked for events only.
Action(c) == IF occurrence = "event" THEN table[c] ELSE "Rethrow"

\* Only a Path hands doWork a processing context, which knows whether it is the
\* end path.
WorkerAction(c, s) ==
  IF stage = "end" /\ s = <<>> /\ Action(c) \in {"SkipEvent", "FailPath"}
    THEN "FailModule" ELSE Action(c)

\* doWork returns rc; a request for a product ignores it.
Return(rc, s) ==
  /\ stack' = s /\ exc' = "None"
  /\ pc' = IF s = <<>> THEN "returned" ELSE "module"
  /\ answer' = IF s = <<>> THEN rc ELSE answer

\* An exception leaves doWork for its caller.
Raise(c, s) ==
  /\ stack' = s /\ exc' = c
  /\ pc' = IF s # <<>> THEN "module" ELSE IF stage = "inserter" THEN "caught" ELSE "handle"
  /\ UNCHANGED answer

SetState(w, st, c) ==
  worker' = [worker EXCEPT ![w] = st] /\ cached' = [cached EXCEPT ![w] = c]

\* The handlers of doWork for a cet::exception ...
CatchException(w, c, s) ==
  /\ thrown' = thrown \cup {c}
  /\ \/ /\ WorkerAction(c, s) = "IgnoreCompletely"
        /\ SetState(w, "Pass", "None") /\ Return(TRUE, s) /\ UNCHANGED failed
     \/ /\ WorkerAction(c, s) = "FailModule"
        /\ SetState(w, "Fail", "None") /\ Return(TRUE, s) /\ failed' = failed \cup {w}
     \/ /\ WorkerAction(c, s) \notin {"IgnoreCompletely", "FailModule"}
        /\ SetState(w, "Exception", c) /\ Raise(c, s) /\ UNCHANGED failed

\* ... and for everything else, which do not ask the table.
CatchForeign(w, s) ==
  /\ thrown' = thrown \cup {"StdException"} /\ UNCHANGED failed
  /\ SetState(w, "Exception", "StdException") /\ Raise("StdException", s)

\* The state found at the start of doWork decides.
FromCache(w, s) ==
  /\ worker[w] \in {"Pass", "Fail"}
  /\ Return(worker[w] = "Pass", s)
  /\ UNCHANGED <<worker, cached, runs, thrown, failed>>

RethrowCached(w, s) ==
  /\ worker[w] = "Exception"
  /\ Raise(cached[w], s) /\ thrown' = thrown \cup {cached[w]}
  /\ UNCHANGED <<worker, cached, runs, failed>>

Cycle(w, s) ==
  /\ worker[w] = "Working"
  /\ CatchException(w, "ScheduleExecutionFailure", s) /\ UNCHANGED runs

\* Faulty: the state Working is not looked at.
ExecuteAgain(w, s) ==
  /\ worker[w] \in {"Ready", "Working"}
  /\ SetState(w, "Working", "None") /\ runs' = [runs EXCEPT ![w] = @ + 1]
  /\ stack' = <<[worker |-> w, asked |-> {}]>> \o s /\ pc' = "module"
  /\ UNCHANGED <<exc, answer, thrown, failed>>

Execute(w, s) ==
  /\ worker[w] = "Ready"
  /\ SetState(w, "Working", "None") /\ runs' = [runs EXCEPT ![w] = @ + 1]
  /\ stack' = <<[worker |-> w, asked |-> {}]>> \o s /\ pc' = "module"
  /\ UNCHANGED <<exc, answer, thrown, failed>>

DoWork(w, s) ==
  FromCache(w, s) \/ RethrowCached(w, s) \/ Cycle(w, s) \/ Execute(w, s)

-----------------------------------------------------------------------------
(* The body of the module that executes, the head of the stack.             *)

InModule == pc = "module" /\ stack # <<>>
Running  == Head(stack).worker

\* Group::obtainDesiredProduct: the product of an on-demand worker is asked for
\* and not there yet.
GetProduct(w) ==
  /\ InModule /\ exc = "None" /\ occurrence = "event" /\ Running # Inserter
  /\ w \in OnDemand \ Head(stack).asked
  /\ DoWork(w, <<[Head(stack) EXCEPT !.asked = @ \cup {w}]>> \o Tail(stack))
  /\ UNCHANGED <<config, job, stage, path, idx, goOn, results, inserted>>

\* The module returns rc. What it made is committed by then: in the case of the
\* inserter, the status of the paths.
ModuleReturns(rc) ==
  /\ InModule /\ exc = "None"
  /\ rc \/ Running \in Filters
  /\ SetState(Running, IF rc THEN "Pass" ELSE "Fail", "None")
  /\ inserted' = IF Running = Inserter /\ occurrence = "event" THEN results ELSE inserted
  /\ Return(rc, Tail(stack))
  /\ UNCHANGED <<config, job, stage, path, idx, goOn, results, history>>

\* The module throws a cet::exception of its own or lets one pass.
ModuleThrows ==
  /\ InModule
  /\ \E c \in IF exc = "None" THEN UserCategories ELSE {exc} :
       CatchException(Running, c, Tail(stack))
  /\ UNCHANGED <<config, job, stage, path, idx, goOn, results, inserted, runs>>

ModuleThrowsForeign ==
  /\ InModule /\ exc = "None"
  /\ CatchForeign(Running, Tail(stack))
  /\ UNCHANGED <<config, job, stage, path, idx, goOn, results, inserted, runs>>

\* The module catches what its request for a product threw.
ModuleCatches ==
  /\ InModule /\ exc # "None"
  /\ thrown' = thrown \ {exc} /\ exc' = "None"
  /\ UNCHANGED <<config, job, stage, pc, path, idx, goOn, answer, stack, data, runs, failed>>

-----------------------------------------------------------------------------
(* Path::processOneOccurrence                                               *)

CurrentPath == IF stage = "end" THEN EndPath ELSE TriggerPaths[path]

StartPath(p) == path' = p /\ idx' = 0 /\ goOn' = TRUE /\ pc' = "path"

\* The next worker of the path.
RunWorker ==
  /\ pc = "path" /\ goOn /\ idx < Len(CurrentPath)
  /\ idx' = idx + 1
  /\ DoWork(CurrentPath[idx + 1].worker, <<>>)
  /\ UNCHANGED <<config, job, stage, path, goOn, results, inserted>>

\* WorkerInPath::runWorker: whether the path goes on after the answer rc.
Accepts(filter, rc) ==
  \/ occurrence # "event"
  \/ filter = "Ignore"
  \/ filter = "Normal" /\ rc
  \/ filter = "Veto" /\ ~rc

FilterAnswer ==
  /\ pc = "returned" /\ stage \in {"trigger", "end"}
  /\ goOn' = Accepts(CurrentPath[idx].filter, answer)
  /\ answer' = TRUE /\ pc' = "path"
  /\ UNCHANGED <<config, job, data, history, stage, path, idx, exc, stack>>

\* Faulty: nwrwue starts at -1 and is not counted up first.
RecordTooLow(st) ==
  results' = IF occurrence = "event" /\ stage = "trigger"
               THEN [results EXCEPT ![path] = [state |-> st, index |-> idx - 2]] ELSE results

\* recordStatus: the end path has no trigger result.
Record(st) ==
  results' = IF occurrence = "event" /\ stage = "trigger"
               THEN [results EXCEPT ![path] = [state |-> st, index |-> idx - 1]] ELSE results

\* handleWorkerFailure. Its assertion that the action is not FailModule is not in
\* a release build.
FailPath ==
  /\ pc = "handle" /\ Action(exc) = "FailPath"
  /\ goOn' = FALSE /\ exc' = "None" /\ pc' = "path"
  /\ UNCHANGED <<config, job, data, history, stage, path, idx, answer, stack>>

PathThrows ==
  /\ pc = "handle" /\ Action(exc) # "FailPath"
  /\ Record("Exception") /\ pc' = "caught"
  /\ UNCHANGED <<config, job, worker, cached, inserted, history, stage, path, idx, goOn,
                 answer, exc, stack>>

PathDone == pc = "path" /\ (~goOn \/ idx = Len(CurrentPath))

TriggerPathDone ==
  /\ PathDone /\ stage = "trigger"
  /\ Record(IF goOn THEN "Pass" ELSE "Fail")
  /\ pc' = "next" /\ idx' = 0 /\ goOn' = TRUE
  /\ UNCHANGED <<config, job, worker, cached, inserted, history, stage, path, answer, exc, stack>>

-----------------------------------------------------------------------------
(* EventProcessor::processOneOccurrence_                                    *)

\* Faulty: the inserter, which is not in the list of workers, is not reset.
ResetListed(ws) ==
  /\ worker' = [w \in Workers |-> IF w \in ws \ {Inserter} THEN "Ready" ELSE worker[w]]
  /\ cached' = [w \in Workers |-> IF w \in ws \ {Inserter} THEN "None" ELSE cached[w]]

\* Worker::reset for the workers in ws.
Reset(ws) ==
  /\ worker' = [w \in Workers |-> IF w \in ws THEN "Ready" ELSE worker[w]]
  /\ cached' = [w \in Workers |-> IF w \in ws THEN "None" ELSE cached[w]]

\* Schedule::processOneOccurrence. A job begins with the begin of a run, and after
\* an exception only ends of runs and sub-runs follow.
Begin(kind) ==
  /\ stage = "idle" /\ count < MaxOccurrences
  /\ kind = "event" => count > 0 /\ outcome = "returned"
  /\ occurrence' = kind /\ outcome' = "none" /\ count' = count + 1
  /\ Reset(Modifiers \cup {Inserter})
  /\ results' = NoResults /\ inserted' = <<>>
  /\ runs' = [w \in Workers |-> 0] /\ thrown' = {} /\ failed' = {}
  /\ stage' = "trigger" /\ pc' = "next" /\ path' = 0
  /\ UNCHANGED <<config, idx, goOn, answer, exc, stack>>

\* Faulty: the index of the paths may stay where it is.
NextTriggerPathAgain ==
  /\ stage = "trigger" /\ pc = "next"
  /\ \E p \in path .. Len(TriggerPaths) :
       /\ p # 0 /\ pathsEnabled[p] /\ \A q \in path + 1 .. p - 1 : ~pathsEnabled[q]
       /\ StartPath(p)
  /\ UNCHANGED <<config, job, data, history, stage, answer, exc, stack>>

\* runTriggerPaths_: the next enabled path, in the order of the paths.
NextTriggerPath ==
  /\ stage = "trigger" /\ pc = "next"
  /\ \E p \in path + 1 .. Len(TriggerPaths) :
       /\ pathsEnabled[p] /\ \A q \in path + 1 .. p - 1 : ~pathsEnabled[q]
       /\ StartPath(p)
  /\ UNCHANGED <<config, job, data, history, stage, answer, exc, stack>>

\* After the paths the inserter runs, if there is a trigger path at all.
RunInserter ==
  /\ stage = "trigger" /\ pc = "next"
  /\ \A q \in path + 1 .. Len(TriggerPaths) : ~pathsEnabled[q]
  /\ IF TriggerPaths = <<>>
       THEN /\ stage' = "end"
            /\ UNCHANGED <<pc, answer, exc, stack, worker, cached, history>>
       ELSE stage' = "inserter" /\ DoWork(Inserter, <<>>)
  /\ path' = 0
  /\ UNCHANGED <<config, job, idx, goOn, results, inserted>>

InserterDone ==
  /\ stage = "inserter" /\ pc = "returned"
  /\ stage' = "end" /\ pc' = "next" /\ answer' = TRUE
  /\ UNCHANGED <<config, job, data, history, path, idx, goOn, exc, stack>>

EndWith(result) ==
  /\ outcome' = result /\ stage' = "idle" /\ pc' = "next" /\ path' = 0 /\ idx' = 0
  /\ goOn' = TRUE /\ exc' = "None" /\ UNCHANGED <<occurrence, count, answer, stack>>

\* Faulty: the inserter runs for a skipped event as well.
SkipEventInserts ==
  /\ pc = "caught" /\ stage \in {"trigger", "inserter"} /\ Action(exc) = "SkipEvent"
  /\ path' = Len(TriggerPaths) /\ pc' = "next" /\ idx' = 0 /\ goOn' = TRUE /\ exc' = "None"
  /\ UNCHANGED <<config, job, data, history, stage, answer, stack>>

\* Schedule's handler: SkipEvent leaves the rest of the schedule out, the inserter
\* too, but not the end path.
SkipEvent ==
  /\ pc = "caught" /\ stage \in {"trigger", "inserter"} /\ Action(exc) = "SkipEvent"
  /\ stage' = "end" /\ pc' = "next" /\ path' = 0 /\ idx' = 0 /\ goOn' = TRUE /\ exc' = "None"
  /\ UNCHANGED <<config, job, data, history, answer, stack>>

\* Faulty: processOneOccurrence_ has no handler of its own.
ProcessorLets(c) == "threw"

\* EventProcessor's handler: what becomes of an exception of category c that has
\* left the schedule, or of the one that has left the end path.
ProcessorOutcome(c) == IF Action(c) = "IgnoreCompletely" THEN "returned" ELSE "threw"

\* The end path is left out then.
ScheduleThrows ==
  /\ pc = "caught" /\ stage \in {"trigger", "inserter"} /\ Action(exc) # "SkipEvent"
  /\ EndWith(ProcessorOutcome(exc)) /\ UNCHANGED <<config, data, history>>

\* EndPathExecutor::processOneOccurrence resets the enabled workers only.
RunEndPath ==
  /\ stage = "end" /\ pc = "next"
  /\ Reset({w \in Observers : workersEnabled[w]})
  /\ IF EndPath = <<>> THEN EndWith("returned")
       ELSE StartPath(0) /\ UNCHANGED <<job, stage, answer, exc, stack>>
  /\ UNCHANGED <<config, results, inserted, history>>

EndPathDone ==
  /\ PathDone /\ stage = "end"
  /\ EndWith("returned") /\ UNCHANGED <<config, data, history>>

\* EndPathExecutor's handler.
EndPathIgnores ==
  /\ pc = "caught" /\ stage = "end" /\ Action(exc) = "IgnoreCompletely"
  /\ EndWith("returned") /\ UNCHANGED <<config, data, history>>

\* It wraps the exception in one of its own category, which EventProcessor looks up.
EndPathThrows ==
  /\ pc = "caught" /\ stage = "end" /\ Action(exc) # "IgnoreCompletely"
  /\ EndWith(ProcessorOutcome("EventProcessorFailure")) /\ UNCHANGED <<config, data, history>>

\* The PathSelection service may be called between occurrences and by a module.
MaySwitch == switches < MaxSwitches /\ (stage = "idle" \/ (InModule /\ exc = "None"))

SetTriggerPathEnabled(p) ==
  /\ MaySwitch /\ switches' = switches + 1
  /\ pathsEnabled' = [pathsEnabled EXCEPT ![p] = ~@]
  /\ UNCHANGED <<table, workersEnabled, control, job, data, history>>

SetEndPathModuleEnabled(w) ==
  /\ MaySwitch /\ switches' = switches + 1
  /\ workersEnabled' = [workersEnabled EXCEPT ![w] = ~@]
  /\ UNCHANGED <<table, pathsEnabled, control, job, data, history>>

\* The job may end between two occurrences.
Done == stage = "idle" /\ count = MaxOccurrences /\ UNCHANGED vars

Process ==
  \/ \E w \in OnDemand : GetProduct(w)
  \/ \E rc \in BOOLEAN : ModuleReturns(rc)
  \/ ModuleThrows \/ ModuleThrowsForeign \/ ModuleCatches
  \/ RunWorker \/ FilterAnswer \/ FailPath \/ PathThrows \/ TriggerPathDone
  \/ NextTriggerPath \/ RunInserter \/ InserterDone \/ SkipEvent \/ ScheduleThrows
  \/ RunEndPath \/ EndPathDone \/ EndPathIgnores \/ EndPathThrows

Next ==
  \/ Process
  \/ \E kind \in {"event", "other"} : Begin(kind)
  \/ \E p \in DOMAIN TriggerPaths : SetTriggerPathEnabled(p)
  \/ \E w \in Observers : SetEndPathModuleEnabled(w)
  \/ Done

Spec == Init /\ [][Next]_vars

\* The program is one thread that goes on as long as modules return.
FairSpec == Spec /\ WF_vars(Process)

-----------------------------------------------------------------------------
(* Properties.                                                              *)

\* However many paths, requests for products and cycles of requests lead to a
\* worker, its module runs at most once in an occurrence (Worker::doWork); so no
\* module waits for a request that waits for it.
RunsOnce == \A w \in Workers : runs[w] <= 1

\* A worker answers for the occurrence that is processed, never with what it found
\* in an earlier one: a worker that is not Ready has run its module in this
\* occurrence. Schedule resets its workers, EndPathExecutor the enabled ones.
Fresh(w) == worker[w] # "Ready" => runs[w] = 1

StatesAreFresh ==
  /\ stage # "idle" => \A w \in Modifiers \cup {Inserter} : Fresh(w)
  /\ stage = "end" /\ pc # "next" /\ switches = 0 => \A w \in Observers : Fresh(w)

\* The status of a trigger path is what its modules decided: it has passed when all
\* of them accept, else its index is the first position that does not
\* (Path::processOneOccurrence). Paths with a module that FailModule failed are
\* left out, for those see PathsAgree.
Accepted(step) ==
  \/ worker[step.worker] = "Pass" /\ step.filter # "Veto"
  \/ worker[step.worker] = "Fail" /\ step.filter # "Normal"

StatusIsDecision ==
  occurrence = "event" =>
    \A p \in DOMAIN TriggerPaths :
      LET steps == TriggerPaths[p]
          last  == results[p].index + 1
      IN (\A i \in DOMAIN steps : steps[i].worker \notin failed) =>
           /\ results[p].state = "Pass" => \A i \in DOMAIN steps : Accepted(steps[i])
           /\ results[p].state \in {"Fail", "Exception"} =>
                ~Accepted(steps[last]) /\ \A i \in 1 .. last - 1 : Accepted(steps[i])

\* An exception with the action Rethrow, and in the begin or end of a run or
\* sub-run any exception, is never lost on its way through workers, paths, schedule
\* and processOneOccurrence_ unless a module catches it: the occurrence does not
\* return normally. A table that ignores EventProcessorFailure ignores with it
\* whatever leaves the end path of an event (EventProcessor.h:240).
MustSurface(c) ==
  \/ occurrence = "other"
  \/ table[c] = "Rethrow" /\ table["EventProcessorFailure"] # "IgnoreCompletely"

RethrowIsNotLost ==
  stage = "idle" /\ outcome = "returned" => \A c \in thrown : ~MustSurface(c)

\* Conversely an occurrence throws only for an exception whose action allows it:
\* never for one that is ignored, nor for one that skips the event or fails a path or
\* a module, unless it was foreign to the framework or, not to be skipped, left the
\* inserter.
MayThrow(c) ==
  \/ occurrence = "other"
  \/ table[c] = "Rethrow"
  \/ c = "StdException" /\ table[c] # "IgnoreCompletely"
  \/ /\ worker[Inserter] = "Exception" /\ cached[Inserter] = c
     /\ table[c] \notin {"IgnoreCompletely", "SkipEvent"}

ThrowsForCause == stage = "idle" /\ outcome = "threw" => \E c \in thrown : MayThrow(c)

\* What the event holds about the paths is what all of them decided: no path changes
\* its status after the inserter put the TriggerResults, and the event of a path
\* that threw gets none.
ResultsAreFinal ==
  stage \in {"end", "idle"} /\ inserted # <<>> =>
    inserted = results /\ \A p \in DOMAIN TriggerPaths : results[p].state # "Exception"

\* processOneOccurrence_ comes back, whatever the modules ask each other for.
OccurrenceEnds == stage # "idle" ~> stage = "idle"

-----------------------------------------------------------------------------
(* What comments and assertions say and the code does not do.               *)

\* "A TriggerResults object will always be inserted into the event" (Schedule.h:16):
\* the end path of an event finds it.
ResultsAlwaysInserted == stage = "end" /\ occurrence = "event" => inserted # <<>>

\* "execution results (status) are cached and reused until the worker is reset()"
\* (Worker.h:21): two paths that use a worker alike get the same answer, so one
\* does not go on where the other stops.
PathsAgree ==
  \A p, q \in DOMAIN TriggerPaths :
    \A i \in DOMAIN TriggerPaths[p], j \in DOMAIN TriggerPaths[q] :
      ~ /\ TriggerPaths[p][i] = TriggerPaths[q][j]
        /\ results[p].state = "Pass" \/ results[p].index >= i
        /\ results[q].state = "Fail" /\ results[q].index = j - 1

\* In the end path an exception to be skipped fails its module only, "so any
\* subsequent OutputModules are still run" (Worker.h:245): the end path of an event
\* goes on to its next module after every exception but one to be rethrown or one
\* foreign to the framework, which leave it. For end paths whose modules are neither
\* filters nor inverted nor there twice.
OutputsStillRun ==
  stage = "end" /\ occurrence = "event" =>
    /\ pc = "path" => goOn \/ "StdException" \in thrown
    /\ pc = "caught" => exc = "StdException" \/ table[exc] = "Rethrow"

\* The status of a path is what its modules decided, an occurrence throws only for
\* an exception whose action allows it, and the end path of an event is left early
\* only for one that is rethrown or foreign.
OutcomesHaveCause == StatusIsDecision /\ ThrowsForCause /\ OutputsStillRun

\* "assert (action != actions::FailModule)" (Path.cc:48).
FailModuleStaysInWorker == pc = "handle" => Action(exc) # "FailModule"

\* "Temporarily enable or disable a configured end path module"
\* (EndPathExecutor.h:76): a disabled module is not run.
DisabledModulesRest ==
  [][\A w \in Observers : worker[w] = "Ready" /\ worker'[w] = "Working" => workersEnabled[w]]_vars
=============================================================================
