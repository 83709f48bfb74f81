------------------------------ MODULE Monitors ------------------------------
(* The services that watch a job through the signals of its modules, paths    *)
(* and events, and the counters of its final report. Modules run inside each  *)
(* other's calls when they are made on demand, and signals come while an      *)
(* exception unwinds them: what a service keeps from a signal to the next is  *)
(* one value, or a stack, and it has to be that of the module that runs.      *)
EXTENDS Naturals, Integers, Sequences, FiniteSets, SequencesExt

CONSTANTS
  ThePaths,   \* the paths in their order, records [name, modules]; the last is the end path
  Calls,      \* label -> the labels of the modules it may have run on demand
  Filters,    \* the labels of the modules that may reject an event; they take memory
  Traps,      \* moduleNames of FloatingPointControl: a sequence of <<label, exceptions>>
  Actions,    \* what exceptions.* makes of the exceptions that modules throw
  Selections, \* the sets of trackers configured together
  OldRows,    \* how many rows the tables of a database may hold from jobs before
  NumToSkip,  \* ignoreTotal
  BufferSize, \* bufsize of class Ntuple
  MaxEvents, MaxFaults, MaxVsize  \* bounds

VARIABLES
  activity,   \* what the job does, and the counters of its workers and paths
  watchers    \* what the services know of it

vars == <<activity, watchers>>

Labels == DOMAIN Calls
Exceptions == {"DivByZero", "Invalid"}
LastPath == Len(ThePaths)
Watching(name) == name \in activity.selection

-----------------------------------------------------------------------------
\* The floating-point unit: the exceptions that trap, of the x87 and of the SSE
\* part. What a state lacks has its mask bits 0, so that all of them trap.
OSdefault == [x87 |-> {}, sse |-> {}]
ZeroedState == [x87 |-> Exceptions, sse |-> Exceptions]
ControlFpe(env, enabled) == [x87 |-> enabled, sse |-> env.sse \union enabled]

Ordered == SelectSeq(Traps, LAMBDA t : t[1] = "default") \o SelectSeq(Traps, LAMBDA t : t[1] # "default")
Named == IF Traps = <<>> THEN <<<<"default", {}>>>> ELSE Ordered
StateMap ==
  [i \in DOMAIN Named |->
     FoldLeft(LAMBDA env, t : ControlFpe(env, t[2]), OSdefault, SubSeq(Named, 1, i))]
Places(label) == {i \in DOMAIN Named : Named[i][1] = label}
SettingsOf(label) ==
  LET own == Places(label) known == IF own = {} THEN Places("default") ELSE own
  IN  IF known = {} THEN ZeroedState ELSE StateMap[CHOOSE i \in known : TRUE]

FpePreModule(fpe, label) == [env |-> SettingsOf(label), stack |-> Append(fpe.stack, SettingsOf(label))]
\* Faulty: back to the default settings, whoever made the module run.
FpePostModuleDefault(fpe) == [env |-> OSdefault, stack |-> Front(fpe.stack)]

FpePostModule(fpe) == [env |-> Last(Front(fpe.stack)), stack |-> Front(fpe.stack)]

-----------------------------------------------------------------------------
\* The status of the message facility: which messages are enabled is the matter
\* of a label, or of none.
Invalid == "invalid"
SetContext(status, context, label) ==
  [status EXCEPT !.context = context, !.enabled = label, !.saved = status.enabled]
RestoreContext(status, context) ==
  IF status.saved # Invalid
  THEN [status EXCEPT !.context = context, !.enabled = status.saved, !.saved = Invalid]
  ELSE [status EXCEPT !.context = context, !.enabled = "", !.saved = status.enabled]
SetWorkFlowStatus(status, step) == [status EXCEPT !.work = step]

-----------------------------------------------------------------------------
\* A table of a database, "Ntuple": rows wait in a buffer, and the identifier of
\* the last row is known while it waits.
OldRow == [event |-> 0, of |-> <<"", "">>]
NewTable(old) == [stored |-> [i \in 1..old |-> OldRow], buffer |-> <<>>, lastRowid |-> old]
Flush(table) ==
  [stored |-> table.stored \o table.buffer, buffer |-> <<>>,
   lastRowid |-> IF table.buffer = <<>> THEN table.lastRowid ELSE Len(table.stored \o table.buffer)]
Insert(table, row) ==
  LET room == IF Len(table.buffer) = BufferSize THEN Flush(table) ELSE table
  IN  [room EXCEPT !.buffer = Append(@, row), !.lastRowid = @ + 1]
Rows(table) == table.stored \o table.buffer

\* MemoryTracker.
CallbackPre(memory, vsize) == [memory EXCEPT !.baseline = vsize]
CallbackPost(memory, step, of, vsize) ==
  [memory EXCEPT !.summary = Insert(@, [step |-> step, of |-> of, delta |-> vsize - memory.baseline])]
MemoryPrePath(memory, name) == [memory EXCEPT !.path = name]
MemoryPreEvent(memory, event, vsize) ==
  [memory EXCEPT !.count = @ + 1, !.event = event, !.evtData = vsize]
MemoryPostEvent(memory, vsize) ==
  IF memory.count <= NumToSkip THEN memory
  ELSE LET with == Insert(memory.events, [event |-> memory.event, vsize |-> vsize, delta |-> vsize - memory.evtData])
       IN  [memory EXCEPT !.events = with, !.eventHeap = Append(@, with.lastRowid)]
MemoryPreModule(memory, vsize) == [memory EXCEPT !.modData = vsize]
MemoryPostModule(memory, label, vsize) ==
  IF memory.count <= NumToSkip THEN memory
  ELSE LET with == Insert(memory.modules, [event |-> memory.event, of |-> <<memory.path, label>>,
                                           vsize |-> vsize, delta |-> vsize - memory.modData])
       IN  [memory EXCEPT !.modules = with, !.moduleHeap = Append(@, with.lastRowid)]

\* The number that the summary of events prints before a row, and the rows that
\* it prints: five with the largest vsize.
EventNumber(rowid) == rowid + NumToSkip
\* getUniqueEntries() throws when the table is empty.
MemoryPostEndJob(memory) ==
  LET flushed == [memory EXCEPT !.summary = Flush(@), !.events = Flush(@), !.modules = Flush(@)]
  IN  [flushed EXCEPT !.failed = flushed.summary.stored = <<>> \/ flushed.modules.stored = <<>>]

-----------------------------------------------------------------------------
\* TimeTracker.
TimePrePath(time, name) == [time EXCEPT !.path = name]
TimePreEvent(time, event, now) == [time EXCEPT !.event = event, !.eventStart = now]
TimePostEvent(time, now) ==
  [time EXCEPT !.events = Insert(@, [event |-> time.event, time |-> now - time.eventStart])]
TimePreModule(time, now) == [time EXCEPT !.moduleStart = now]
TimePostModule(time, label, now) ==
  [time EXCEPT !.modules = Insert(@, [event |-> time.event, of |-> <<time.path, label>>,
                                      time |-> now - time.moduleStart])]
\* The least time of no rows is no number, and there are no different modules.
TimePostEndJob(time) ==
  LET events == Flush(time.events) modules == Flush(time.modules)
  IN  [time EXCEPT !.events = events, !.modules = modules,
         !.failed = events.stored = <<>> \/ modules.stored = <<>>,
         !.reports = IF events.stored = <<>> THEN 0
                     ELSE 1 + Cardinality({modules.stored[i].of : i \in DOMAIN modules.stored})]

\* Timing, which watches only where TimeTracker is not configured.
TimingPreEvent(timing, event, now) == [timing EXCEPT !.event = event, !.start = now]
TimingPostEvent(timing, now) ==
  LET t == now - timing.start
  IN  [timing EXCEPT !.max = IF t > @ THEN t ELSE @, !.min = IF @ = -1 \/ t < @ THEN t ELSE @,
                     !.sum = @ + t, !.n = @ + 1]

-----------------------------------------------------------------------------
\* A multimap, a sequence of [key, value] in the order of the keys, that keeps at
\* most so many different keys, the largest.
Keys(map) == {map[i].key : i \in DOMAIN map}
Emplace(map, key, value) ==
  SelectSeq(map, LAMBDA e : e.key <= key) \o <<[key |-> key, value |-> value]>>
    \o SelectSeq(map, LAMBDA e : e.key > key)
MaybeEmplace(map, limit, key, value) ==
  IF Cardinality(Keys(map)) < limit THEN Emplace(map, key, value)
  ELSE IF map = <<>> \/ key < map[1].key THEN map
  ELSE LET with == Emplace(map, key, value)
       IN  IF Cardinality(Keys(with)) = limit + 1
           THEN SelectSeq(with, LAMBDA e : e.key # with[1].key)
           ELSE with
FilterNullKeys(map) == SelectSeq(map, LAMBDA e : e.key # 0)

\* SimpleMemoryCheck, which watches only where MemoryTracker is not configured.
Update(check, vsize) ==
  [check EXCEPT !.delta = vsize - check.curr, !.curr = vsize,
                !.maxUpdated = vsize > check.max, !.max = IF vsize > @ THEN vsize ELSE @]
PrintIt(check, what) ==
  IF ~check.maxUpdated \/ check.count < NumToSkip THEN check
  ELSE [check EXCEPT !.printed = Append(@, what)]
UpdateAndPrint(check, what, vsize) == PrintIt(Update(check, vsize), what)
UpdateEventStats(check, event) ==
  LET next == [check EXCEPT !.evtData = check.curr]
  IN  IF check.count < NumToSkip THEN next
      ELSE [next EXCEPT !.byVsize = MaybeEmplace(@, 3, check.curr, event),
                        !.byDelta = MaybeEmplace(@, 5, check.curr - check.evtData, event)]
CheckPostEvent(check, event, vsize) ==
  LET next == UpdateEventStats(UpdateAndPrint(check, "event", vsize), event)
  IN  [next EXCEPT !.count = @ + 1]
UpdateModuleStats(check, label) ==
  IF check.count < NumToSkip
  THEN [check EXCEPT !.stats[label].early = @ + check.delta]
  ELSE [check EXCEPT !.stats[label].total = @ + check.delta, !.stats[label].count = @ + 1]
CheckPostModule(check, label, vsize) ==
  UpdateModuleStats(UpdateAndPrint(check, label, vsize), label)
CheckPostEndJob(check) ==
  [check EXCEPT !.byVsize = FilterNullKeys(@), !.byDelta = FilterNullKeys(@)]

-----------------------------------------------------------------------------
\* The file of histograms, TFileService: what is made goes to the directory of
\* the module that runs, and that is made when it is missing.
SetDirectoryName(tfile, label) == [tfile EXCEPT !.dir = label]
FullPath(path, dir) == Append(path, dir)
Cd(tfile, path) == [tfile EXCEPT !.directories = @ \union {FullPath(path, tfile.dir)}]
Make(tfile, by) ==
  [Cd(tfile, <<>>) EXCEPT !.histograms = @ \union {[by |-> by, in |-> FullPath(<<>>, tfile.dir)]}]

-----------------------------------------------------------------------------
\* What each signal makes of the watchers w; Timed and Weighed are the trackers,
\* of which only those configured watch.
PathSignal(w, name) ==
  [w EXCEPT !.status = SetContext(@, <<"ProcessPath", name>>, ""),
            !.memory = MemoryPrePath(@, name), !.time = TimePrePath(@, name)]
PathDone(w, name) == [w EXCEPT !.status = RestoreContext(@, <<"PostProcessPath", name>>)]

TimedPre(w, now) ==
  IF Watching("TimeTracker") THEN [w EXCEPT !.time = TimePreModule(@, now)] ELSE w
TimedPost(w, label, now) ==
  IF Watching("TimeTracker") THEN [w EXCEPT !.time = TimePostModule(@, label, now)] ELSE w
WeighedPre(w, vsize) ==
  IF Watching("MemoryTracker") THEN [w EXCEPT !.memory = MemoryPreModule(@, vsize)]
  ELSE [w EXCEPT !.check = Update(@, vsize)]
WeighedPost(w, label, vsize) ==
  IF Watching("MemoryTracker") THEN [w EXCEPT !.memory = MemoryPostModule(@, label, vsize)]
  ELSE [w EXCEPT !.check = CheckPostModule(@, label, vsize)]

\* CurrentModule and TFileService note which module is called.
NoteModule(w, label) == [w EXCEPT !.current = label, !.tfile = SetDirectoryName(@, label)]

ModuleSignal(w, label, now, vsize) ==
  LET noted == [NoteModule(w, label) EXCEPT !.fpe = FpePreModule(@, label), !.depth = @ + 1,
                                            !.status = SetContext(@, <<label>>, label)]
  IN  WeighedPre(TimedPre(noted, now), vsize)
ModuleDone(w, label, now, vsize) ==
  LET left == [w EXCEPT !.fpe = FpePostModule(@), !.depth = @ - 1, !.status = RestoreContext(@, <<label>>)]
  IN  WeighedPost(TimedPost(left, label, now), label, vsize)

\* The two signals around a call of a module that is not for an event.
CallSignals(w, phase, label, before, after) ==
  LET set == SetContext(w.status, <<label, phase>>, label)
      noted == [NoteModule(w, label) EXCEPT !.status = RestoreContext(set, <<label, phase>>)]
  IN  IF Watching("MemoryTracker")
      THEN [noted EXCEPT !.memory = CallbackPost(CallbackPre(@, before), phase, label, after)]
      ELSE IF phase \in {"Construction", "beginJob"}
      THEN [noted EXCEPT !.check = UpdateAndPrint(@, label, after)]
      ELSE noted

SourceSignals(w, before, after) ==
  LET told == [w EXCEPT !.status = RestoreContext(SetContext(@, <<"Source">>, ""), <<"PostSource">>)]
  IN  IF Watching("MemoryTracker")
      THEN [told EXCEPT !.memory = CallbackPost(CallbackPre(@, before), "Event source", @.count + 1, after)]
      ELSE [told EXCEPT !.check = UpdateAndPrint(@, "source", after)]

EventSignal(w, event, now, vsize) ==
  [w EXCEPT !.depth = 0, !.status = SetWorkFlowStatus(@, event),
     !.time = IF Watching("TimeTracker") THEN TimePreEvent(@, event, now) ELSE @,
     !.timing = IF Watching("TimeTracker") THEN @ ELSE TimingPreEvent(@, event, now),
     !.memory = IF Watching("MemoryTracker") THEN MemoryPreEvent(@, event, vsize) ELSE @]
EventDone(w, event, now, vsize) ==
  [w EXCEPT !.status = SetWorkFlowStatus(@, "PostProcessEvent"),
     !.tfile.events = Append(@, event),
     !.time = IF Watching("TimeTracker") THEN TimePostEvent(@, now) ELSE @,
     !.timing = IF Watching("TimeTracker") THEN @ ELSE TimingPostEvent(@, now),
     !.memory = IF Watching("MemoryTracker") THEN MemoryPostEvent(@, vsize) ELSE @,
     !.check = IF Watching("MemoryTracker") THEN @ ELSE CheckPostEvent(@, event, vsize)]

JobDone(w) ==
  [w EXCEPT !.fpe.env = OSdefault,
     !.time = IF Watching("TimeTracker") THEN TimePostEndJob(@) ELSE @,
     !.memory = IF Watching("MemoryTracker") THEN MemoryPostEndJob(@) ELSE @,
     !.check = IF Watching("MemoryTracker") THEN @ ELSE CheckPostEndJob(@)]

-----------------------------------------------------------------------------
\* What the job does. Its modules are called once for each of these, then for
\* every event on their paths, then for those of the end.
Begins == <<"Construction", "beginJob", "beginRun", "beginSubRun">>
Ends == <<"endSubRun", "endRun", "endJob">>
Scheduled == FoldLeft(LAMBDA all, path : all \o path.modules, <<>>, ThePaths)

NoCounts == [visited |-> 0, run |-> 0, passed |-> 0, failed |-> 0, except |-> 0]

Init ==
  /\ activity \in
       [phase : {"begin"}, event : {0}, path : {0}, place : {0},
        continue : {TRUE}, thrown : {""}, stack : {<<>>}, state : {[l \in Labels |-> "Ready"]},
        clock : {0}, vsize : {0}, faults : {0}, selection : Selections, old : OldRows,
        workers : {[l \in Labels |-> NoCounts]}, paths : {[p \in DOMAIN ThePaths |-> NoCounts]},
        total : {0}, accepted : {0}, results : {{}}]
  /\ activity.old # 0 => Watching("MemoryTracker") \/ Watching("TimeTracker")
  /\ watchers =
       [fpe |-> [env |-> OSdefault, stack |-> <<OSdefault>>], depth |-> 0, current |-> "",
        status |-> [context |-> <<>>, work |-> "", enabled |-> "", saved |-> Invalid],
        tfile |-> [dir |-> "", directories |-> {}, histograms |-> {}, events |-> <<>>],
        memory |-> [count |-> 0, path |-> "", event |-> 0, evtData |-> 0, modData |-> 0, baseline |-> 0,
                    summary |-> NewTable(activity.old), events |-> NewTable(activity.old),
                    modules |-> NewTable(activity.old), eventHeap |-> <<>>, moduleHeap |-> <<>>,
                    failed |-> FALSE],
        time |-> [path |-> "", event |-> 0, eventStart |-> 0, moduleStart |-> 0,
                  events |-> NewTable(activity.old), modules |-> NewTable(activity.old),
                  reports |-> 0, failed |-> FALSE],
        timing |-> [event |-> 0, start |-> 0, max |-> 0, min |-> -1, sum |-> 0, n |-> 0],
        check |-> [curr |-> 0, delta |-> 0, max |-> 0, maxUpdated |-> FALSE, count |-> 0, evtData |-> 0,
                   byVsize |-> <<>>, byDelta |-> <<>>, printed |-> <<>>,
                   stats |-> [l \in Labels |-> [early |-> 0, total |-> 0, count |-> 0]]]]

Grown == {g \in activity.vsize..(activity.vsize + 1) : g <= MaxVsize}
Top == Last(activity.stack)
Running == activity.stack # <<>>

\* The calls of all modules for these steps; the first that is made may take memory.
CallAll(steps, before, after) ==
  LET CallOf(w, i, step) ==
        CallSignals(w, step, Scheduled[i], IF i = 1 /\ step = steps[1] THEN before ELSE after, after)
      Step(w, step) == FoldLeft(LAMBDA x, i : CallOf(x, i, step), w, [i \in DOMAIN Scheduled |-> i])
  IN  FoldLeft(Step, watchers, steps)

BeginCalls ==
  /\ activity.phase = "begin"
  /\ \E grown \in Grown :
       /\ watchers' = CallAll(Begins, activity.vsize, grown)
       /\ activity' = [activity EXCEPT !.phase = "between", !.vsize = grown]

BeginEvent ==
  /\ activity.phase = "between" /\ activity.event < MaxEvents
  /\ LET event == activity.event + 1
     IN  /\ watchers' = EventSignal(SourceSignals(watchers, activity.vsize, activity.vsize),
                                    event, activity.clock, activity.vsize)
         /\ activity' = [activity EXCEPT !.phase = "event", !.event = event, !.path = 0, !.total = @ + 1,
                           !.clock = @ + 1, !.state = [l \in Labels |-> "Ready"], !.results = {}]

BeginPath ==
  /\ activity.phase = "event" /\ activity.thrown = "" /\ activity.path < LastPath
  /\ LET p == activity.path + 1
     IN  /\ watchers' = PathSignal(watchers, ThePaths[p].name)
         /\ activity' = [activity EXCEPT !.phase = "path", !.path = p, !.place = 0, !.continue = TRUE,
                           !.paths[p].run = @ + 1]

\* Worker::doWork() of a worker that has not run for this event.
StartWork(label, stack) ==
  /\ watchers' = [ModuleSignal(watchers, label, activity.clock, activity.vsize)
                    EXCEPT !.tfile = Make(@, label)]
  /\ activity' = [activity EXCEPT !.stack = Append(stack, [label |-> label, called |-> "no",
                                                          clock |-> activity.clock, vsize |-> activity.vsize]),
                    !.state[label] = "Working", !.clock = @ + 1,
                    !.workers[label] = [@ EXCEPT !.visited = @ + 1, !.run = @ + 1],
                    !.place = IF stack = <<>> THEN @ + 1 ELSE @]

Enter ==
  /\ activity.phase = "path" /\ ~Running /\ activity.continue /\ activity.thrown = ""
  /\ activity.place < Len(ThePaths[activity.path].modules)
  /\ StartWork(ThePaths[activity.path].modules[activity.place + 1], <<>>)

\* The module that runs asks for a product of another one.
MakeOnDemand ==
  /\ Running /\ activity.thrown = "" /\ Top.called = "no"
  /\ \E label \in Calls[Top.label] :
       /\ activity.state[label] = "Ready"
       /\ StartWork(label, activity.stack)

\* What doWork() of a worker that has run, or is running, does: a cached answer,
\* the cached exception again, or the end of a cycle. There are no signals.
AskAgain ==
  /\ Running /\ activity.thrown = "" /\ Top.called = "no"
  /\ \E label \in Calls[Top.label] :
       LET was == activity.state[label]
       IN  /\ was # "Ready"
           /\ activity' = [activity EXCEPT
                !.stack[Len(activity.stack)].called = "cached",
                !.workers[label] = [@ EXCEPT !.visited = @ + 1, !.except = IF was = "Working" THEN @ + 1 ELSE @],
                !.state[label] = IF was = "Working" THEN "Rethrow" ELSE @,
                !.thrown = IF was = "Working" THEN "Rethrow" ELSE IF was \in {"Pass", "Fail"} THEN "" ELSE was]
  /\ UNCHANGED watchers

\* What the worker makes of an exception, in the end path and elsewhere.
ActionOf(code) ==
  IF activity.path = LastPath /\ Len(activity.stack) = 1 /\ code \in {"SkipEvent", "FailPath"}
  THEN "FailModule" ELSE code
Counted(counts, outcome) ==
  CASE outcome \in {"pass", "IgnoreCompletely"} -> [counts EXCEPT !.passed = @ + 1]
    [] outcome \in {"reject", "FailModule"} -> [counts EXCEPT !.failed = @ + 1]
    [] OTHER -> [counts EXCEPT !.except = @ + 1]
\* The state of a worker that threw is what its exception asks for.
StateAfter(outcome) ==
  CASE outcome \in {"pass", "IgnoreCompletely"} -> "Pass"
    [] outcome \in {"reject", "FailModule"} -> "Fail"
    [] OTHER -> outcome

\* The module returns or is unwound by an exception of its own, or one that it
\* was given; its signal is sent either way.
Leave ==
  /\ Running
  /\ \E given \in IF activity.thrown # "" THEN {activity.thrown}
                  ELSE (IF Top.label \in Filters THEN {"pass", "reject"} ELSE {"pass"})
                         \union (IF activity.faults < MaxFaults THEN Actions ELSE {}) :
     \E grown \in IF Top.label \in Filters THEN Grown ELSE {activity.vsize} :
       LET label == Top.label
           outcome == ActionOf(given)
           escapes == StateAfter(outcome) \notin {"Pass", "Fail"}
           rest == Front(activity.stack)
           nested == IF Top.called \in {"ran", "deep"} THEN "deep" ELSE "ran"
       IN  /\ watchers' = ModuleDone([watchers EXCEPT !.tfile = Make(@, label)], label, activity.clock, grown)
           /\ activity' = [activity EXCEPT
                !.stack = IF rest = <<>> THEN rest ELSE [rest EXCEPT ![Len(rest)].called = nested],
                !.state[label] = StateAfter(outcome), !.workers[label] = Counted(@, outcome),
                !.clock = @ + 1, !.vsize = grown,
                !.faults = IF activity.thrown = "" /\ given \in Actions THEN @ + 1 ELSE @,
                !.thrown = IF escapes /\ ~(rest = <<>> /\ outcome = "FailPath") THEN outcome ELSE "",
                !.continue = IF rest = <<>> THEN outcome # "reject" /\ ~escapes ELSE @]

\* A path ends: rejected, failed, by an exception, or because it is complete.
EndPath ==
  /\ activity.phase = "path" /\ ~Running
  /\ ~activity.continue \/ activity.thrown # "" \/ activity.place = Len(ThePaths[activity.path].modules)
  /\ LET p == activity.path threw == activity.thrown # "" passed == ~threw /\ activity.continue
     IN  /\ watchers' = PathDone(watchers, ThePaths[p].name)
         /\ activity' = [activity EXCEPT
              !.phase = "event",
              !.paths[p] = IF threw THEN [@ EXCEPT !.except = @ + 1]
                           ELSE IF passed THEN [@ EXCEPT !.passed = @ + 1] ELSE [@ EXCEPT !.failed = @ + 1],
              !.results = IF passed THEN @ \union {p} ELSE @,
              !.accepted = IF p = LastPath - 1 /\ ~threw /\ (passed \/ activity.results # {}) THEN @ + 1 ELSE @,
              !.path = IF activity.thrown = "SkipEvent" THEN LastPath - 1 ELSE @,
              !.thrown = IF @ = "SkipEvent" THEN "" ELSE @]

EndEvent ==
  /\ activity.phase = "event" /\ (activity.path = LastPath \/ activity.thrown # "")
  /\ watchers' = EventDone(watchers, activity.event, activity.clock, activity.vsize)
  /\ activity' = [activity EXCEPT !.phase = IF activity.thrown # "" THEN "end" ELSE "between", !.clock = @ + 1]

\* No more events, or an exception that ended them.
EndCalls ==
  /\ activity.phase \in {"between", "end"}
  /\ watchers' = CallAll(Ends, activity.vsize, activity.vsize)
  /\ activity' = [activity EXCEPT !.phase = "report"]

EndJob ==
  /\ activity.phase = "report"
  /\ watchers' = JobDone(watchers)
  /\ activity' = [activity EXCEPT !.phase = "ended"]

Next ==
  \/ BeginCalls \/ BeginEvent \/ BeginPath \/ Enter \/ MakeOnDemand \/ AskAgain
  \/ Leave \/ EndPath \/ EndEvent \/ EndCalls \/ EndJob

Spec == Init /\ [][Next]_vars

-----------------------------------------------------------------------------
\* How many events were begun, and how many were ended.
Begun == activity.event
Done == IF activity.phase \in {"event", "path"} THEN Begun - 1 ELSE Begun
NewRows(table) == SubSeq(Rows(table), activity.old + 1, table.lastRowid)
SumOf(rows, Column(_)) == FoldLeft(LAMBDA sum, row : sum + Column(row), 0, rows)
RowsOfEvent(table, event) == SelectSeq(NewRows(table), LAMBDA row : row.event = event)
SumOver(labels, Number(_)) == FoldSet(LAMBDA l, sum : sum + Number(l), 0, labels)

\* Whatever modules make each other run, by whatever exception they are left: the
\* floating-point unit traps what the module that runs asked for, the depth of
\* the trace is how deep it is, and the messages enabled are its own, unless
\* another that it made run made a third one run.
SettingsNest ==
  /\ watchers.fpe.stack = <<OSdefault>> \o [i \in DOMAIN activity.stack |-> SettingsOf(activity.stack[i].label)]
  /\ watchers.fpe.env = Last(watchers.fpe.stack)
  /\ watchers.depth = Len(activity.stack)
  /\ Running /\ Top.called # "deep" => watchers.status.enabled = Top.label

\* Each row says of which event it is, also where rows of other jobs came before
\* and rows wait in the buffer: MemoryTracker's rows begin after the events that
\* are ignored, and its number for an event without older rows is the event's;
\* the rows of the heap refer to the rows they belong to.
RowsAreOfTheirEvents ==
  /\ Watching("MemoryTracker") =>
       LET memory == watchers.memory events == NewRows(memory.events)
       IN  /\ Len(events) = IF Done > NumToSkip THEN Done - NumToSkip ELSE 0
           /\ \A i \in DOMAIN events : events[i].event = NumToSkip + i
           /\ \A i \in DOMAIN memory.eventHeap :
                LET rowid == memory.eventHeap[i] row == Rows(memory.events)[rowid]
                IN  rowid = activity.old + i /\ (activity.old = 0 => row.event = EventNumber(rowid))
           /\ \A table \in {memory.summary, memory.events, memory.modules} : Len(Rows(table)) = table.lastRowid
           /\ memory.moduleHeap = [i \in DOMAIN NewRows(memory.modules) |-> activity.old + i]
  /\ Watching("TimeTracker") =>
       LET rows == NewRows(watchers.time.events)
       IN  Len(rows) = Done /\ \A i \in DOMAIN rows : rows[i].event = i

\* The times of the modules that an event runs are counted once: together they
\* are no longer than the event; a row is there for each run that is over. What
\* modules add to the memory is what their event added.
RowsAddUp ==
  /\ Watching("TimeTracker") =>
       LET events == NewRows(watchers.time.events) modules == watchers.time.modules
       IN  /\ Len(NewRows(modules)) + Len(activity.stack) = SumOver(Labels, LAMBDA l : activity.workers[l].run)
           /\ \A i \in DOMAIN events :
                SumOf(RowsOfEvent(modules, i), LAMBDA row : row.time) <= events[i].time
  /\ Watching("MemoryTracker") =>
       LET events == NewRows(watchers.memory.events)
       IN  \A i \in DOMAIN events :
             events[i].delta = SumOf(RowsOfEvent(watchers.memory.modules, events[i].event), LAMBDA row : row.delta)

\* The report of the end: no visit of a worker has two outcomes and each run has
\* one, each run of a path has exactly one, and no more events are accepted than
\* there were, or than have passed a path.
ReportAddsUp ==
  /\ \A l \in Labels :
       LET w == activity.workers[l] outcomes == w.passed + w.failed + w.except
       IN  outcomes <= w.visited /\ (~Running => w.run <= outcomes)
  /\ \A p \in DOMAIN activity.paths :
       LET c == activity.paths[p] on == IF activity.phase = "path" /\ activity.path = p THEN 1 ELSE 0
       IN  c.run = c.passed + c.failed + c.except + on
  /\ activity.accepted <= activity.total
  /\ activity.accepted <= SumOver(1..LastPath - 1, LAMBDA p : activity.paths[p].passed)

\* Reports fail only where a table is empty: MemoryTracker's without a module in
\* an event that counts, TimeTracker's without any.
ReportsAreMade ==
  activity.phase = "ended" =>
    /\ Watching("TimeTracker") => (watchers.time.failed <=> Rows(watchers.time.modules) = <<>>)
    /\ Watching("MemoryTracker") => (watchers.memory.failed => activity.old = 0 /\ Done <= NumToSkip)

\* A multimap that is given these keys keeps the largest that differ, with all
\* their values in the order that they came.
KeepsTheLargest(keys, limit) ==
  LET given == [i \in DOMAIN keys |-> [key |-> keys[i], value |-> i]]
      Kept(e) == Cardinality({k \in Keys(given) : k > e.key}) < limit
  IN  FoldLeft(LAMBDA map, e : MaybeEmplace(map, limit, e.key, e.value), <<>>, given)
        = SortSeq(SelectSeq(given, Kept), LAMBDA a, b : a.key < b.key \/ (a.key = b.key /\ a.value < b.value))

\* The module that runs is the one that CurrentModule names and that histograms
\* are made for.
CurrentIsRunning ==
  /\ Running => watchers.current = Top.label /\ watchers.tfile.dir = Top.label
  /\ \A h \in watchers.tfile.histograms : h.in = <<h.by>>
=============================================================================
