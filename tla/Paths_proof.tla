---------------------------- MODULE Paths_proof ----------------------------
(***************************************************************************)
(* Theorems about Paths, for all sets of workers, paths and categories,     *)
(* every table of actions and all bounds: in an occurrence a module runs at *)
(* most once and its worker answers for this occurrence, no exception that  *)
(* must surface is lost, the TriggerResults in the event stay true, and the *)
(* status of a path is what its modules decided.                            *)
(*                                                                          *)
(* Everything that happens to a worker is a call of doWork or the end of    *)
(* the module that executes; both are a step of one kind (Worked), so the   *)
(* proofs treat the workers there once, and the other actions only move     *)
(* through path and schedule.                                               *)
(***************************************************************************)
EXTENDS Paths, SequenceTheorems, TLAPS

-----------------------------------------------------------------------------
(* The inductive invariant.                                                 *)

\* Where the schedule, the path and the worker are in their functions, and that
\* an exception is in flight only while one of them handles it.
PcFits ==
  /\ stage = "idle" => pc = "next"
  /\ stage = "trigger" /\ pc # "next" => path \in DOMAIN TriggerPaths
  /\ pc \in {"path", "handle"} => stage \in {"trigger", "end"}
  /\ pc \in {"module", "returned", "handle"} => stage = "inserter" \/ idx >= 1
  /\ pc = "path" /\ ~goOn => idx >= 1
  /\ pc \in {"path", "next", "returned"} => exc = "None"
  /\ stack # <<>> => pc = "module"

\* The worker of a module that executes has left the state Ready; the inserter
\* executes in its own stage only.
Frames == [worker : Workers, asked : SUBSET OnDemand]
Entered == {f \in Frames : worker[f.worker] # "Ready" /\ (f.worker = Inserter => stage = "inserter")}
StackFits == stack \in Seq(Entered)

CachedFits == \A w \in Workers : worker[w] = "Exception" => cached[w] \in Categories
InserterWaits == stage = "trigger" => worker[Inserter] = "Ready"

Control == TypeOK /\ PcFits /\ StackFits /\ CachedFits /\ InserterWaits

\* A module has run at most once, and then its worker is not Ready; the workers of
\* the end path have not run before they are reset.
Once == \A w \in Workers : runs[w] <= 1 /\ (runs[w] = 1 => worker[w] # "Ready")
ObserversRest ==
  stage \in {"trigger", "inserter"} \/ (stage = "end" /\ pc = "next")
    => \A w \in Observers : runs[w] = 0
SwitchFits == switches = 0 => \A w \in Observers : workersEnabled[w]

Visits == Once /\ ObserversRest /\ SwitchFits /\ StatesAreFresh

\* An exception that must surface is the one in flight until the occurrence ends.
InFlight == stage # "idle" => \A c \in thrown : MustSurface(c) => exc = c
Surfacing == InFlight /\ RethrowIsNotLost

\* A path that threw is on its way out, and nothing is inserted before the inserter.
ResultsFit ==
  /\ stage = "trigger" => inserted = <<>>
  /\ stage = "inserter" => inserted \in {<<>>, results}
  /\ stage = "inserter" \/ (stage = "trigger" /\ pc # "caught")
       => \A p \in DOMAIN TriggerPaths : results[p].state # "Exception"
  /\ ResultsAreFinal

IInv == Control /\ Visits /\ Surfacing /\ ResultsFit

-----------------------------------------------------------------------------
(* What happens to a worker.                                                *)

Results == [DOMAIN TriggerPaths -> [state : HLTStates, index : Nat]]

\* A step of the worker w, called with the stack s of its callers: it leaves Ready
\* with a run of its module, it is not Ready afterwards, and its module executes, or
\* an answer or an exception has gone to the caller.
Worked(w, s) ==
  /\ worker' \in [Workers -> States] /\ cached' \in [Workers -> Categories \cup {"None"}]
  /\ runs' \in [Workers -> Nat]
  /\ thrown' \subseteq Categories /\ failed' \subseteq Workers
  /\ answer' \in BOOLEAN /\ exc' \in Categories \cup {"None"}
  /\ CachedFits'
  /\ worker'[w] # "Ready" /\ \A v \in Workers \ {w} : worker'[v] = worker[v]
  /\ runs'[w] = IF worker[w] = "Ready" THEN runs[w] + 1 ELSE runs[w]
  /\ \A v \in Workers \ {w} : runs'[v] = runs[v]
  /\ stack' \in {s, <<[worker |-> w, asked |-> {}]>> \o s}
  /\ stack' # <<>> => pc' = "module"
  /\ pc' = "returned" => exc' = "None"
  /\ pc' \in {"module", "returned"} \cup IF stage = "inserter" THEN {"caught"} ELSE {"handle"}

\* What was thrown in a step of a worker and must surface is in flight after it.
Carried == \A c \in thrown' : MustSurface(c) => exc' = c

\* Handling an exception of the module, or of a cycle of requests.
LEMMA HandledTypes ==
  ASSUME Control, NEW w \in Workers, NEW s \in Seq(Entered), NEW c \in Categories,
         CatchException(w, c, s) \/ (c = "StdException" /\ CatchForeign(w, s)),
         runs' = runs, worker[w] # "Ready"
  PROVE  Worked(w, s)
<1> USE DEF Control, TypeOK, Worked, CachedFits, SetState, Return, Raise, Categories, States
<1>1. CASE CatchForeign(w, s)
  BY <1>1 DEF CatchForeign
<1>2. CASE CatchException(w, c, s)
  <2>1. thrown' \subseteq Categories
    BY <1>2 DEF CatchException
  <2>2. CASE SetState(w, "Exception", c) /\ Raise(c, s) /\ UNCHANGED failed
    BY <2>1, <2>2
  <2>3. CASE SetState(w, "Pass", "None") /\ Return(TRUE, s) /\ UNCHANGED failed
    BY <2>1, <2>3
  <2>4. CASE SetState(w, "Fail", "None") /\ Return(TRUE, s) /\ failed' = failed \cup {w}
    BY <2>1, <2>4
  <2> QED
    BY <1>2, <2>2, <2>3, <2>4 DEF CatchException
<1> QED
  BY <1>1, <1>2

\* Worker::doWork, called by the path, the schedule or the request for a product.
LEMMA DoWorkTypes ==
  ASSUME Control, exc = "None", NEW w \in Workers, NEW s \in Seq(Entered), DoWork(w, s)
  PROVE  Worked(w, s)
<1>1. CASE FromCache(w, s)
  BY <1>1 DEF FromCache, Control, TypeOK, Worked, CachedFits, Return, States
<1>2. CASE RethrowCached(w, s)
  BY <1>2 DEF RethrowCached, Control, TypeOK, Worked, CachedFits, Raise, States
<1>3. CASE Cycle(w, s)
  BY <1>3, HandledTypes DEF Cycle, Categories
<1>4. CASE Execute(w, s)
  <2>1. <<[worker |-> w, asked |-> {}]>> \o s # <<>>
    BY DEF Execute
  <2> QED
    BY <1>4, <2>1 DEF Execute, Control, TypeOK, Worked, CachedFits, SetState, States
<1> QED
  BY <1>1, <1>2, <1>3, <1>4 DEF DoWork

-----------------------------------------------------------------------------
(* The stack of modules.                                                    *)

\* A worker that does not become Ready stays on the stack.
LEMMA StackStays ==
  ASSUME NEW s \in Seq(Entered), stage' = stage,
         \A w \in Workers : worker[w] # "Ready" => worker'[w] # "Ready"
  PROVE  s \in Seq(Entered')
<1>1. Entered \subseteq Entered'
  BY DEF Entered, Frames
<1> QED
  BY <1>1, SeqMonotonic

LEMMA WorkedStack ==
  ASSUME NEW w \in Workers, NEW s \in Seq(Entered), Worked(w, s), stage' = stage,
         w = Inserter => stage = "inserter"
  PROVE  StackFits'
<1>1. s \in Seq(Entered')
  BY StackStays DEF Worked
<1>2. [worker |-> w, asked |-> {}] \in Entered'
  BY DEF Worked, Entered, Frames
<1>3. <<[worker |-> w, asked |-> {}]>> \o s \in Seq(Entered')
  BY <1>1, <1>2, ConcatProperties, <<[worker |-> w, asked |-> {}]>> \in Seq(Entered')
<1> QED
  BY <1>1, <1>3 DEF Worked, StackFits

\* The module that executes, and the modules below it.
LEMMA TopOfStack ==
  ASSUME StackFits, InModule
  PROVE  /\ Running \in Workers /\ worker[Running] # "Ready"
         /\ Running = Inserter => stage = "inserter"
         /\ Tail(stack) \in Seq(Entered)
         /\ \A w \in OnDemand :
              <<[Head(stack) EXCEPT !.asked = @ \cup {w}]>> \o Tail(stack) \in Seq(Entered)
<1>1. Head(stack) \in Entered /\ Tail(stack) \in Seq(Entered)
  BY HeadTailProperties DEF StackFits, InModule
<1>2. ASSUME NEW w \in OnDemand
      PROVE  <<[Head(stack) EXCEPT !.asked = @ \cup {w}]>> \o Tail(stack) \in Seq(Entered)
  <2>1. [Head(stack) EXCEPT !.asked = @ \cup {w}] \in Entered
    BY <1>1 DEF Entered, Frames
  <2> QED
    BY <1>1, <2>1, ConcatProperties,
       <<[Head(stack) EXCEPT !.asked = @ \cup {w}]>> \in Seq(Entered)
<1> QED
  BY <1>1, <1>2 DEF Entered, Frames, Running

-----------------------------------------------------------------------------
(* The steps of a worker, each as one step of the kind above.               *)

\* All that the modules do below the path, and the path's call of doWork.
WorkerStep ==
  \/ \E w \in OnDemand : GetProduct(w)
  \/ \E rc \in BOOLEAN : ModuleReturns(rc)
  \/ ModuleThrows \/ ModuleThrowsForeign \/ RunWorker

\* The next worker of a path.
LEMMA NextWorker ==
  ASSUME Control, pc = "path", idx < Len(CurrentPath)
  PROVE  /\ CurrentPath[idx + 1].worker \in Workers
         /\ stage = "trigger" => CurrentPath[idx + 1].worker \in Modifiers
         /\ stage # "trigger" => CurrentPath[idx + 1].worker \in Observers
<1> DEFINE ws == IF stage = "end" THEN Observers ELSE Modifiers
<1>1. CurrentPath \in Seq(Steps(ws))
  <2>1. CASE stage = "end"
    BY <2>1, PathsAssumption DEF CurrentPath
  <2>2. CASE stage = "trigger"
    BY <2>2, PathsAssumption, ElementOfSeq DEF CurrentPath, Control, PcFits
  <2> QED
    BY <2>1, <2>2 DEF Control, PcFits
<1>2. idx + 1 \in 1 .. Len(CurrentPath)
  BY <1>1, LenProperties DEF Control, TypeOK
<1>3. CurrentPath[idx + 1] \in Steps(ws)
  BY <1>1, <1>2, ElementOfSeq
<1> QED
  BY <1>3 DEF Steps, Workers, Control, PcFits

\* A step of a worker is a step of some worker w; w has work to do for the first
\* time only if it is of the part that runs.
LEMMA WorkerSteps ==
  ASSUME Control, WorkerStep
  PROVE  \E w \in Workers, s \in Seq(Entered) :
           /\ Worked(w, s)
           /\ w = Inserter => stage = "inserter"
           /\ stage # "end" /\ worker[w] = "Ready" => w \notin Observers
           /\ UNCHANGED <<config, job, stage, path, goOn, results>>
           /\ inserted' = inserted \/ (stage = "inserter" /\ inserted' = results)
           /\ idx' \in Nat /\ stage # "idle" /\ pc \in {"module", "path"}
           /\ stage = "inserter" \/ idx' >= 1
<1> USE PathsAssumption DEF Control
<1>1. ASSUME NEW w \in OnDemand, GetProduct(w)
      PROVE  \E s \in Seq(Entered) :
               /\ Worked(w, s) /\ w # Inserter /\ w \notin Observers /\ w \in Workers
               /\ UNCHANGED <<config, job, stage, path, idx, goOn, results, inserted>>
  <2> DEFINE s == <<[Head(stack) EXCEPT !.asked = @ \cup {w}]>> \o Tail(stack)
  <2>1. s \in Seq(Entered) /\ DoWork(w, s) /\ exc = "None"
    BY <1>1, TopOfStack DEF GetProduct
  <2>2. w \in Workers /\ w # Inserter /\ w \notin Observers
    BY DEF Workers
  <2>3. UNCHANGED <<config, job, stage, path, idx, goOn, results, inserted>>
    BY <1>1 DEF GetProduct
  <2>4. Worked(w, s)
    BY <2>1, <2>2, DoWorkTypes
  <2> QED
    BY <2>1, <2>2, <2>3, <2>4
<1>2. ASSUME NEW rc \in BOOLEAN, ModuleReturns(rc)
      PROVE  Worked(Running, Tail(stack))
  BY <1>2, TopOfStack
     DEF ModuleReturns, InModule, Worked, TypeOK, CachedFits, SetState, Return, States, history
<1>3. ASSUME ModuleThrows
      PROVE  Worked(Running, Tail(stack))
  <2>1. PICK c \in IF exc = "None" THEN UserCategories ELSE {exc} :
               CatchException(Running, c, Tail(stack))
    BY <1>3 DEF ModuleThrows
  <2>2. c \in Categories
    BY <2>1 DEF TypeOK, Categories
  <2> QED
    BY <1>3, <2>1, <2>2, TopOfStack, HandledTypes DEF ModuleThrows
<1>4. ASSUME ModuleThrowsForeign
      PROVE  Worked(Running, Tail(stack))
  BY <1>4, TopOfStack, HandledTypes DEF ModuleThrowsForeign, Categories
<1>5. ASSUME RunWorker
      PROVE  LET w == CurrentPath[idx + 1].worker
             IN  /\ Worked(w, <<>>) /\ w \in Workers /\ w # Inserter
                 /\ stage # "end" => w \notin Observers
                 /\ UNCHANGED <<config, job, stage, path, goOn, results, inserted>>
                 /\ idx' \in Nat /\ idx' >= 1 /\ stage # "idle" /\ pc \in {"module", "path"}
  <2> DEFINE w == CurrentPath[idx + 1].worker
  <2>1. /\ pc = "path" /\ idx' = idx + 1 /\ DoWork(w, <<>>) /\ idx < Len(CurrentPath)
        /\ UNCHANGED <<config, job, stage, path, goOn, results, inserted>>
    BY <1>5 DEF RunWorker
  <2>2. w \in Workers /\ w # Inserter /\ (stage # "end" => w \notin Observers)
    BY <2>1, NextWorker DEF PcFits
  <2>3. <<>> \in Seq(Entered) /\ exc = "None"
    BY <2>1, EmptySeq DEF PcFits
  <2>4. Worked(w, <<>>)
    BY <2>1, <2>2, <2>3, DoWorkTypes
  <2>5. idx \in Nat /\ stage # "idle"
    BY <2>1 DEF PcFits, TypeOK
  <2>6. idx' \in Nat /\ idx' >= 1 /\ stage # "idle" /\ pc \in {"module", "path"}
    BY <2>1, <2>5
  <2> HIDE DEF w
  <2> QED
    BY <2>1, <2>2, <2>4, <2>6 DEF w
<1>6. ASSUME InModule
      PROVE  /\ stage # "idle" /\ pc \in {"module", "path"} /\ idx \in Nat
             /\ stage = "inserter" \/ idx >= 1
  BY <1>6 DEF InModule, PcFits, TypeOK
<1>7. CASE \E w \in OnDemand : GetProduct(w)
  <2>1. PICK w \in OnDemand : GetProduct(w)
    BY <1>7
  <2>2. PICK s \in Seq(Entered) :
               /\ Worked(w, s) /\ w # Inserter /\ w \notin Observers /\ w \in Workers
               /\ UNCHANGED <<config, job, stage, path, idx, goOn, results, inserted>>
    BY <1>1, <2>1
  <2>3. InModule
    BY <2>1 DEF GetProduct
  <2> QED
    BY <2>2, <2>3, <1>6
<1>8. CASE \E rc \in BOOLEAN : ModuleReturns(rc)
  <2>1. PICK rc \in BOOLEAN : ModuleReturns(rc)
    BY <1>8
  <2>2. /\ UNCHANGED <<config, job, stage, path, idx, goOn, results>> /\ InModule
        /\ inserted' = inserted \/ (stage = "inserter" /\ inserted' = results)
    BY <2>1, TopOfStack DEF ModuleReturns
  <2> QED
    BY <1>2, <1>6, <2>1, <2>2, TopOfStack
<1>9. CASE ModuleThrows \/ ModuleThrowsForeign
  <2>1. UNCHANGED <<config, job, stage, path, idx, goOn, results, inserted>> /\ InModule
    BY <1>9 DEF ModuleThrows, ModuleThrowsForeign
  <2> QED
    BY <1>3, <1>4, <1>6, <1>9, <2>1, TopOfStack
<1>10. CASE RunWorker
  <2>1. <<>> \in Seq(Entered)
    BY EmptySeq
  <2> QED
    BY <1>5, <1>10, <2>1
<1> QED
  BY <1>7, <1>8, <1>9, <1>10 DEF WorkerStep

-----------------------------------------------------------------------------
(* Types and places.                                                        *)

\* The steps of a path and of the schedule between calls of doWork.
PathStep == FilterAnswer \/ FailPath \/ PathThrows \/ TriggerPathDone
ScheduleStep ==
  \/ NextTriggerPath \/ InserterDone \/ SkipEvent \/ ScheduleThrows
  \/ EndPathDone \/ EndPathIgnores \/ EndPathThrows
SwitchStep ==
  \/ \E p \in DOMAIN TriggerPaths : SetTriggerPathEnabled(p)
  \/ \E w \in Observers : SetEndPathModuleEnabled(w)

\* Begin, RunInserter, RunEndPath and ModuleCatches are the rest.
LEMMA NextSteps ==
  ASSUME [Next]_vars
  PROVE  \/ WorkerStep \/ ModuleCatches \/ PathStep \/ ScheduleStep \/ SwitchStep
         \/ RunInserter \/ RunEndPath
         \/ \E kind \in {"event", "other"} : Begin(kind)
         \/ UNCHANGED vars
  BY DEF Next, Process, Done, WorkerStep, PathStep, ScheduleStep, SwitchStep

\* A path that ends has visited a worker.
LEMMA PathsAreVisited ==
  ASSUME Control, PathDone, stage = "trigger"
  PROVE  idx >= 1 /\ path \in DOMAIN TriggerPaths
<1>1. path \in DOMAIN TriggerPaths /\ idx \in Nat
  BY DEF Control, TypeOK, PcFits, PathDone
<1>2. TriggerPaths[path] \in Seq(Steps(Modifiers)) /\ TriggerPaths[path] # <<>>
  BY <1>1, PathsAssumption, ElementOfSeq
<1>3. Len(TriggerPaths[path]) >= 1
  BY <1>2, EmptySeq, LenProperties
<1> QED
  BY <1>1, <1>3 DEF PathDone, CurrentPath, Control, PcFits

LEMMA RecordTypes ==
  ASSUME Control, NEW st \in HLTStates, Record(st), stage = "trigger" => idx >= 1
  PROVE  results' \in Results
<1>1. CASE results' = results
  BY <1>1 DEF Control, TypeOK, Results
<1>2. CASE stage = "trigger" /\ results' = [results EXCEPT ![path] = [state |-> st, index |-> idx - 1]]
  <2>1. idx - 1 \in Nat
    BY <1>2 DEF Control, TypeOK
  <2> QED
    BY <1>2, <2>1 DEF Control, TypeOK, Results
<1> QED
  BY <1>1, <1>2 DEF Record

\* Outside a module the stack is empty and stays so.
LEMMA NoModule ==
  ASSUME PcFits, pc # "module", stack' = stack
  PROVE  stack' = <<>> /\ StackFits'
  BY EmptySeq DEF PcFits, StackFits

LEMMA SameWorkers ==
  ASSUME Control, UNCHANGED <<worker, stack, stage>>
  PROVE  StackFits' /\ InserterWaits'
  BY StackStays DEF Control, StackFits, InserterWaits

LEMMA WorkerControl ==
  ASSUME Control, WorkerStep
  PROVE  Control'
<1>1. PICK w \in Workers, s \in Seq(Entered) :
           /\ Worked(w, s)
           /\ w = Inserter => stage = "inserter"
           /\ UNCHANGED <<config, job, stage, path, goOn, results>>
           /\ inserted' = inserted \/ (stage = "inserter" /\ inserted' = results)
           /\ idx' \in Nat /\ stage # "idle" /\ pc # "next"
           /\ stage = "inserter" \/ idx' >= 1
  BY WorkerSteps
<1>2. StackFits'
  BY <1>1, WorkedStack
<1>3. stack' \in Seq(Frames)
  <2>1. Entered' \subseteq Frames
    BY DEF Entered
  <2> QED
    BY <1>2, <2>1, SeqMonotonic DEF StackFits
<1>4. TypeOK'
  BY <1>1, <1>3 DEF Control, TypeOK, Worked, config, job, Frames
<1>5. PcFits'
  BY <1>1 DEF Control, TypeOK, PcFits, Worked
<1>6. InserterWaits'
  BY <1>1 DEF Control, InserterWaits, Worked, Workers
<1> QED
  BY <1>1, <1>2, <1>4, <1>5, <1>6 DEF Control, Worked

LEMMA PathControl ==
  ASSUME Control, PathStep
  PROVE  Control'
<1> USE DEF Control, HLTStates
<1>1. /\ UNCHANGED <<config, job, worker, cached, inserted, history, stage, path, stack>>
      /\ pc # "module"
  BY DEF PathStep, FilterAnswer, FailPath, PathThrows, TriggerPathDone, PathDone, data
<1>2. results' \in Results
  <2>1. CASE PathThrows
    BY <2>1, RecordTypes DEF PathThrows, PcFits
  <2>2. CASE TriggerPathDone
    BY <2>2, RecordTypes, PathsAreVisited DEF TriggerPathDone
  <2>3. CASE results' = results
    BY <2>3 DEF TypeOK, Results
  <2> QED
    BY <2>1, <2>2, <2>3 DEF PathStep, FilterAnswer, FailPath, data
<1>3. /\ pc' \in {"next", "path", "caught"} /\ idx' \in Nat /\ goOn' \in BOOLEAN
      /\ answer' \in BOOLEAN /\ exc' \in Categories \cup {"None"}
  <2>1. CASE FilterAnswer
    <3>1. Accepts(CurrentPath[idx].filter, answer) \in BOOLEAN
      BY DEF Accepts
    <3> QED
      BY <2>1, <3>1 DEF TypeOK, FilterAnswer
  <2>2. CASE FailPath
    BY <2>2 DEF TypeOK, FailPath
  <2>3. CASE PathThrows
    BY <2>3 DEF TypeOK, PathThrows
  <2>4. CASE TriggerPathDone
    BY <2>4 DEF TypeOK, TriggerPathDone
  <2> QED
    BY <2>1, <2>2, <2>3, <2>4 DEF PathStep
<1>4. TypeOK'
  BY <1>1, <1>2, <1>3 DEF TypeOK, Results, config, job, history
<1>5. PcFits'
  <2>1. stack' = <<>>
    BY <1>1, NoModule
  <2>2. CASE FilterAnswer
    BY <2>1, <2>2 DEF PcFits, FilterAnswer
  <2>3. CASE FailPath
    BY <2>1, <2>3 DEF PcFits, FailPath
  <2>4. CASE PathThrows
    BY <2>1, <2>4 DEF PcFits, PathThrows
  <2>5. CASE TriggerPathDone
    BY <2>1, <2>5 DEF PcFits, TriggerPathDone, PathDone
  <2> QED
    BY <2>2, <2>3, <2>4, <2>5 DEF PathStep
<1> QED
  BY <1>1, <1>4, <1>5, NoModule, SameWorkers DEF CachedFits

LEMMA ScheduleControl ==
  ASSUME Control, ScheduleStep
  PROVE  Control'
<1> USE PathsAssumption DEF Control
<1>1. UNCHANGED <<config, data, history, occurrence, count, stack>> /\ pc # "module"
  BY DEF ScheduleStep, NextTriggerPath, InserterDone, SkipEvent, ScheduleThrows, EndPathDone,
         PathDone, EndPathIgnores, EndPathThrows, EndWith, job
<1>2. stack' = <<>> /\ StackFits'
  BY <1>1, NoModule
<1>3. CASE NextTriggerPath
  <2>1. PICK p \in path + 1 .. Len(TriggerPaths) : StartPath(p)
    BY <1>3 DEF NextTriggerPath
  <2>2. p \in DOMAIN TriggerPaths /\ p \in 0 .. Len(TriggerPaths)
    BY <2>1, LenProperties DEF TypeOK
  <2> QED
    BY <1>1, <1>2, <1>3, <2>1, <2>2
       DEF NextTriggerPath, StartPath, TypeOK, PcFits, CachedFits, InserterWaits, config, job,
           data, history
<1>4. CASE ~NextTriggerPath
  <2>1. stage' \in {"idle", "end"} /\ pc' = "next" /\ idx' \in Nat /\ goOn' \in BOOLEAN
        /\ path' \in {0, path} /\ exc' = "None" /\ outcome' \in {outcome, "returned", "threw"}
        /\ answer' \in BOOLEAN
    <3>1. CASE InserterDone
      BY <3>1 DEF InserterDone, job, TypeOK, PcFits
    <3>2. CASE SkipEvent
      BY <3>2 DEF SkipEvent, job, TypeOK
    <3>3. answer \in BOOLEAN
      BY DEF TypeOK
    <3>4. CASE EndWith("returned")
      BY <3>3, <3>4 DEF EndWith
    <3>5. CASE EndWith("threw")
      BY <3>3, <3>5 DEF EndWith
    <3>6. ScheduleThrows \/ EndPathThrows => EndWith("returned") \/ EndWith("threw")
      BY DEF ScheduleThrows, EndPathThrows, ProcessorOutcome
    <3> QED
      BY <1>4, <3>1, <3>2, <3>4, <3>5, <3>6 DEF ScheduleStep, EndPathDone, EndPathIgnores
  <2>2. path' \in 0 .. Len(TriggerPaths)
    BY <2>1, LenProperties DEF TypeOK
  <2> QED
    BY <1>1, <1>2, <2>1, <2>2
       DEF TypeOK, PcFits, CachedFits, InserterWaits, config, data, history
<1> QED
  BY <1>3, <1>4

LEMMA SwitchControl ==
  ASSUME Control, SwitchStep
  PROVE  Control'
<1>1. /\ UNCHANGED <<table, control, job, data, history>>
      /\ pathsEnabled' \in [DOMAIN TriggerPaths -> BOOLEAN]
      /\ workersEnabled' \in [Observers -> BOOLEAN]
      /\ switches' \in 0 .. MaxSwitches
  <2>1. ASSUME MaySwitch, switches' = switches + 1
        PROVE  switches' \in 0 .. MaxSwitches
    BY <2>1, PathsAssumption DEF MaySwitch, Control, TypeOK
  <2>2. CASE \E p \in DOMAIN TriggerPaths : SetTriggerPathEnabled(p)
    BY <2>1, <2>2 DEF SetTriggerPathEnabled, Control, TypeOK
  <2>3. CASE \E w \in Observers : SetEndPathModuleEnabled(w)
    BY <2>1, <2>3 DEF SetEndPathModuleEnabled, Control, TypeOK
  <2> QED
    BY <2>2, <2>3 DEF SwitchStep
<1>2. StackFits' /\ InserterWaits'
  BY <1>1, SameWorkers DEF control, data
<1> QED
  BY <1>1, <1>2 DEF Control, TypeOK, PcFits, CachedFits, control, job, data, history

LEMMA CatchControl ==
  ASSUME Control, ModuleCatches
  PROVE  Control'
<1>1. StackFits' /\ InserterWaits'
  BY SameWorkers DEF ModuleCatches, data
<1> QED
  BY <1>1 DEF ModuleCatches, InModule, Control, TypeOK, PcFits, CachedFits, config, job, data

\* The inserter is entered Ready, so its module runs.
LEMMA InserterRuns ==
  ASSUME Control, RunInserter, TriggerPaths # <<>>
  PROVE  Execute(Inserter, <<>>)
  BY DEF Control, InserterWaits, RunInserter, DoWork, FromCache, RethrowCached, Cycle

LEMMA InserterControl ==
  ASSUME Control, RunInserter
  PROVE  Control'
<1> USE DEF Control, RunInserter
<1>1. /\ UNCHANGED <<config, job, idx, goOn, results, inserted>> /\ path' = 0
      /\ 0 \in 0 .. Len(TriggerPaths) /\ exc = "None"
  BY PathsAssumption, LenProperties DEF PcFits
<1>2. CASE TriggerPaths = <<>>
  <2>1. stack' = <<>> /\ StackFits'
    BY <1>2, NoModule
  <2> QED
    BY <1>1, <1>2, <2>1 DEF TypeOK, PcFits, CachedFits, InserterWaits, config, job, history
<1>3. CASE TriggerPaths # <<>>
  <2>1. Inserter \in Workers
    BY DEF Workers
  <2>2. Execute(Inserter, <<>>) /\ stage' = "inserter"
    BY <1>3, InserterRuns
  <2>3. Worked(Inserter, <<>>)
    BY <1>1, <1>3, <2>1, DoWorkTypes, EmptySeq
  <2>4. stack' = <<[worker |-> Inserter, asked |-> {}]>>
    BY <2>2 DEF Execute
  <2>5. [worker |-> Inserter, asked |-> {}] \in Entered' /\ Entered' \subseteq Frames
    BY <2>1, <2>2, <2>3 DEF Worked, Entered, Frames
  <2>6. stack' \in Seq(Entered') /\ stack' \in Seq(Frames)
    BY <2>4, <2>5
  <2>7. TypeOK'
    BY <1>1, <2>2, <2>3, <2>6 DEF TypeOK, Worked, Execute, Frames, config, job
  <2>8. PcFits' /\ InserterWaits'
    BY <1>1, <2>2 DEF PcFits, InserterWaits, Execute
  <2> QED
    BY <2>3, <2>6, <2>7, <2>8 DEF StackFits, Worked
<1> QED
  BY <1>2, <1>3

LEMMA ResetTypes ==
  ASSUME Control, NEW ws \in SUBSET Workers, Reset(ws)
  PROVE  /\ worker' \in [Workers -> States]
         /\ cached' \in [Workers -> Categories \cup {"None"}]
         /\ CachedFits'
  BY DEF Control, TypeOK, Reset, CachedFits, States

LEMMA EndPathControl ==
  ASSUME Control, RunEndPath
  PROVE  Control'
<1> USE DEF Control, RunEndPath
<1>1. stack' = <<>> /\ StackFits'
  BY NoModule DEF EndWith
<1>2. /\ worker' \in [Workers -> States] /\ cached' \in [Workers -> Categories \cup {"None"}]
      /\ CachedFits'
  BY ResetTypes DEF Workers
<1>3. 0 \in 0 .. Len(TriggerPaths)
  BY PathsAssumption, LenProperties
<1>4. CASE EndPath = <<>>
  BY <1>1, <1>2, <1>3, <1>4
     DEF EndWith, TypeOK, PcFits, InserterWaits, config, history
<1>5. CASE EndPath # <<>>
  BY <1>1, <1>2, <1>3, <1>5
     DEF StartPath, TypeOK, PcFits, InserterWaits, config, job, history
<1> QED
  BY <1>4, <1>5

LEMMA NoResultsType == NoResults \in Results
  BY DEF NoResults, Results, HLTStates

LEMMA BeginControl ==
  ASSUME Control, NEW kind \in {"event", "other"}, Begin(kind)
  PROVE  Control'
<1> USE DEF Control, Begin
<1>1. stack' = <<>> /\ StackFits'
  BY NoModule DEF PcFits
<1>2. /\ worker' \in [Workers -> States] /\ cached' \in [Workers -> Categories \cup {"None"}]
      /\ CachedFits'
  BY ResetTypes DEF Workers
<1>3. 0 \in 0 .. Len(TriggerPaths) /\ count + 1 \in 0 .. MaxOccurrences
  BY PathsAssumption, LenProperties DEF TypeOK
<1>4. TypeOK'
  BY <1>1, <1>2, <1>3, NoResultsType DEF TypeOK, Results, config
<1>5. PcFits'
  BY <1>1 DEF PcFits
<1>6. InserterWaits'
  BY DEF InserterWaits, Reset, Workers
<1> QED
  BY <1>1, <1>2, <1>4, <1>5, <1>6

LEMMA ControlInit == Init => Control
<1> SUFFICES ASSUME Init PROVE Control
  OBVIOUS
<1>1. stack = <<>> /\ StackFits
  BY EmptySeq DEF Init, StackFits
<1>2. 0 \in 0 .. Len(TriggerPaths) /\ 0 \in 0 .. MaxOccurrences /\ 0 \in 0 .. MaxSwitches
  BY PathsAssumption, LenProperties
<1>3. TypeOK
  BY <1>1, <1>2, NoResultsType DEF Init, TypeOK, Results, States
<1> QED
  BY <1>1, <1>3 DEF Init, Control, PcFits, CachedFits, InserterWaits

LEMMA ControlNext == Control /\ [Next]_vars => Control'
<1> SUFFICES ASSUME Control, [Next]_vars PROVE Control'
  OBVIOUS
<1>1. CASE UNCHANGED vars
  <2>1. StackFits' /\ InserterWaits'
    BY <1>1, SameWorkers DEF vars, control, data
  <2> QED
    BY <1>1, <2>1 DEF vars, config, control, job, data, history, Control, TypeOK, PcFits, CachedFits
<1> QED
  BY <1>1, NextSteps, WorkerControl, CatchControl, PathControl, ScheduleControl, SwitchControl,
     InserterControl, EndPathControl, BeginControl

-----------------------------------------------------------------------------
(* Modules run once, and workers answer for this occurrence.                *)

LEMMA WorkerVisits ==
  ASSUME Control, Visits, WorkerStep
  PROVE  Visits'
<1>1. PICK w \in Workers, s \in Seq(Entered) :
           /\ Worked(w, s)
           /\ stage # "end" /\ worker[w] = "Ready" => w \notin Observers
           /\ UNCHANGED <<config, stage>> /\ pc # "next"
  BY WorkerSteps
<1>2. Once'
  BY <1>1 DEF Worked, Visits, Once, Control, TypeOK
<1>3. ObserversRest'
  BY <1>1 DEF Worked, Visits, ObserversRest, Workers
<1>4. SwitchFits'
  BY <1>1 DEF Visits, SwitchFits, config
<1>5. StatesAreFresh'
  <2>1. ASSUME NEW v \in Workers, Fresh(v)
        PROVE  Fresh(v)'
    BY <1>1, <2>1 DEF Worked, Visits, Once, Control, TypeOK, Fresh
  <2> QED
    BY <1>1, <2>1 DEF Visits, StatesAreFresh, Workers, config
<1> QED
  BY <1>2, <1>3, <1>4, <1>5 DEF Visits

\* Steps that leave the workers alone.
LEMMA OtherVisits ==
  ASSUME Control, Visits,
         ModuleCatches \/ PathStep \/ ScheduleStep \/ SwitchStep \/ UNCHANGED vars
  PROVE  Visits'
<1>1. /\ UNCHANGED <<worker, runs>>
      /\ stage' = "idle" \/ stage' = stage \/ (stage # "end" /\ pc' = "next")
      /\ stage' = "end" /\ stage = "end" => pc' = pc \/ (pc # "next" /\ pc' # "next")
      /\ UNCHANGED <<switches, workersEnabled>> \/ switches' # 0
      /\ stage' # "idle" => stage # "idle"
  <2>1. CASE ModuleCatches
    BY <2>1 DEF ModuleCatches, config, data
  <2>2. CASE PathStep
    BY <2>2 DEF PathStep, FilterAnswer, FailPath, PathThrows, TriggerPathDone, config, data, history
  <2>3. CASE ScheduleStep
    BY <2>3 DEF ScheduleStep, NextTriggerPath, InserterDone, SkipEvent, ScheduleThrows,
           EndPathDone, EndPathIgnores, EndPathThrows, EndWith, config, data, history, Control, PcFits
  <2>4. CASE SwitchStep
    BY <2>4 DEF SwitchStep, SetTriggerPathEnabled, SetEndPathModuleEnabled, control, data, history,
           Control, TypeOK
  <2>5. CASE UNCHANGED vars
    BY <2>5 DEF vars, config, control, data, history
  <2> QED
    BY <2>1, <2>2, <2>3, <2>4, <2>5
<1>2. stage' = "trigger" \/ stage' = "inserter" => stage' = stage
  <2>1. CASE ScheduleStep
    BY <2>1 DEF ScheduleStep, NextTriggerPath, InserterDone, SkipEvent, ScheduleThrows,
           EndPathDone, EndPathIgnores, EndPathThrows, EndWith
  <2> QED
    BY <2>1 DEF ModuleCatches, PathStep, FilterAnswer, FailPath, PathThrows, TriggerPathDone,
           SwitchStep, SetTriggerPathEnabled, SetEndPathModuleEnabled, control, vars
<1>3. stage' = "end" => stage \in {"trigger", "inserter", "end"}
  BY <1>1 DEF Control, TypeOK
<1>4. Once' /\ SwitchFits'
  BY <1>1 DEF Visits, Once, SwitchFits
<1>5. ObserversRest'
  BY <1>1, <1>2, <1>3 DEF Visits, ObserversRest
<1>6. StatesAreFresh'
  BY <1>1, <1>2, <1>3 DEF Visits, StatesAreFresh, Fresh
<1> QED
  BY <1>4, <1>5, <1>6 DEF Visits

LEMMA InserterVisits ==
  ASSUME Control, Visits, RunInserter
  PROVE  Visits'
<1> USE DEF RunInserter
<1>1. UNCHANGED <<switches, workersEnabled>>
  BY DEF config
<1>2. CASE TriggerPaths = <<>>
  BY <1>1, <1>2 DEF Visits, Once, ObserversRest, SwitchFits, StatesAreFresh, Fresh, history
<1>3. CASE TriggerPaths # <<>>
  <2>1. Inserter \in Workers /\ Inserter \notin Observers
    BY PathsAssumption DEF Workers
  <2>2. Execute(Inserter, <<>>) /\ stage' = "inserter" /\ pc' = "module"
    BY <1>3, InserterRuns DEF Execute
  <2>3. Worked(Inserter, <<>>)
    BY <1>3, <2>1, DoWorkTypes, EmptySeq DEF Control, PcFits
  <2>4. Once' /\ SwitchFits' /\ ObserversRest'
    BY <1>1, <2>1, <2>2, <2>3
       DEF Worked, Visits, Once, SwitchFits, ObserversRest, Control, TypeOK, Workers
  <2>5. StatesAreFresh'
    BY <2>1, <2>2, <2>3 DEF Worked, Visits, Once, StatesAreFresh, Fresh, Control, TypeOK, Workers
  <2> QED
    BY <2>4, <2>5 DEF Visits
<1> QED
  BY <1>2, <1>3

LEMMA EndPathVisits ==
  ASSUME Control, Visits, RunEndPath
  PROVE  Visits'
<1> USE DEF RunEndPath
<1>1. /\ UNCHANGED <<switches, workersEnabled, runs>>
      /\ stage = "end" /\ pc = "next"
      /\ stage' = "idle" \/ (stage' = "end" /\ pc' = "path")
  BY DEF config, history, EndWith, StartPath
<1>2. /\ \A w \in Workers \ Observers : worker'[w] = worker[w]
      /\ switches = 0 => \A w \in Observers : worker'[w] = "Ready"
      /\ \A w \in Observers : runs[w] = 0
  BY <1>1 DEF Visits, ObserversRest, SwitchFits, Reset, Workers
<1>3. Once' /\ SwitchFits' /\ ObserversRest'
  BY <1>1, <1>2 DEF Visits, Once, SwitchFits, ObserversRest
<1>4. StatesAreFresh'
  BY <1>1, <1>2, PathsAssumption DEF Visits, StatesAreFresh, Fresh, Workers
<1> QED
  BY <1>3, <1>4 DEF Visits

LEMMA BeginVisits ==
  ASSUME Control, Visits, NEW kind \in {"event", "other"}, Begin(kind)
  PROVE  Visits'
<1>1. /\ \A w \in Modifiers \cup {Inserter} : worker'[w] = "Ready"
      /\ \A w \in Workers : runs'[w] = 0
      /\ UNCHANGED <<switches, workersEnabled>>
      /\ stage' = "trigger"
  BY DEF Begin, Reset, Workers, config
<1> QED
  BY <1>1 DEF Visits, Once, ObserversRest, SwitchFits, StatesAreFresh, Fresh, Workers

LEMMA VisitsNext == Control /\ Visits /\ [Next]_vars => Visits'
<1> SUFFICES ASSUME Control, Visits, [Next]_vars PROVE Visits'
  OBVIOUS
<1> QED
  BY NextSteps, WorkerVisits, OtherVisits, InserterVisits, EndPathVisits, BeginVisits

LEMMA VisitsInit == Init => Visits
  BY DEF Init, Visits, Once, ObserversRest, SwitchFits, StatesAreFresh, Fresh

-----------------------------------------------------------------------------
(* No exception that must surface is lost.                                  *)

\* Only what may be dropped has an action that drops it.
LEMMA DroppedAllowed ==
  ASSUME NEW c, NEW s, WorkerAction(c, s) \in {"IgnoreCompletely", "FailModule"}
  PROVE  ~MustSurface(c)
  BY DEF WorkerAction, Action, MustSurface

LEMMA HandledCarries ==
  ASSUME NEW w, NEW s, NEW c, \A d \in thrown : MustSurface(d) => d = c,
         CatchException(w, c, s) \/ (c = "StdException" /\ CatchForeign(w, s))
  PROVE  Carried
<1>1. thrown' = thrown \cup {c}
  BY DEF CatchException, CatchForeign
<1>2. CASE exc' = c
  BY <1>1, <1>2 DEF Carried
<1>3. CASE exc' # c
  <2>1. WorkerAction(c, s) \in {"IgnoreCompletely", "FailModule"}
    BY <1>3 DEF CatchException, CatchForeign, Raise
  <2>2. ~MustSurface(c)
    BY <2>1, DroppedAllowed
  <2> QED
    BY <1>1, <2>2 DEF Carried
<1> QED
  BY <1>2, <1>3

\* While no exception is in flight nothing is left that must surface.
LEMMA NothingInFlight ==
  ASSUME Control, InFlight, stage # "idle", exc = "None"
  PROVE  \A c \in thrown : ~MustSurface(c)
  BY PathsAssumption DEF Control, TypeOK, InFlight

LEMMA DoWorkCarries ==
  ASSUME Control, InFlight, stage # "idle", exc = "None",
         NEW w \in Workers, NEW s \in Seq(Entered), DoWork(w, s)
  PROVE  Carried
<1>1. \A c \in thrown : ~MustSurface(c)
  BY NothingInFlight
<1>2. CASE Cycle(w, s)
  BY <1>1, <1>2, HandledCarries DEF Cycle
<1>3. CASE FromCache(w, s) \/ RethrowCached(w, s) \/ Execute(w, s)
  BY <1>1, <1>3 DEF FromCache, RethrowCached, Execute, Raise, Carried
<1> QED
  BY <1>2, <1>3 DEF DoWork

LEMMA WorkerCarries ==
  ASSUME Control, InFlight, WorkerStep
  PROVE  Carried /\ stage' = stage /\ stage # "idle" /\ UNCHANGED <<table, occurrence>>
<1>1. stage' = stage /\ stage # "idle" /\ UNCHANGED <<table, occurrence>>
  BY WorkerSteps DEF config, job
<1>2. ASSUME NEW w \in OnDemand, GetProduct(w)
      PROVE  Carried
  <2>1. w \in Workers
    BY PathsAssumption DEF Workers
  <2> QED
    BY <1>1, <1>2, <2>1, TopOfStack, DoWorkCarries DEF GetProduct, Control
<1>3. ASSUME NEW rc \in BOOLEAN, ModuleReturns(rc)
      PROVE  Carried
  BY <1>1, <1>3, NothingInFlight DEF ModuleReturns, Carried, history
<1>4. CASE ModuleThrows
  <2>1. PICK c \in IF exc = "None" THEN UserCategories ELSE {exc} :
               CatchException(Running, c, Tail(stack))
    BY <1>4 DEF ModuleThrows
  <2>2. \A d \in thrown : MustSurface(d) => d = c
    BY <1>1, <2>1, NothingInFlight DEF InFlight
  <2>3. CatchException(Running, c, Tail(stack))
    BY <2>1
  <2> QED
    BY <1>1, <2>2, <2>3, HandledCarries
<1>5. CASE ModuleThrowsForeign
  BY <1>1, <1>5, NothingInFlight, HandledCarries DEF ModuleThrowsForeign
<1>6. CASE RunWorker
  <2>1. pc = "path" /\ exc = "None"
    BY <1>6 DEF RunWorker, Control, PcFits
  <2>2. CurrentPath[idx + 1].worker \in Workers /\ <<>> \in Seq(Entered)
    BY <1>6, <2>1, NextWorker, EmptySeq DEF RunWorker
  <2> QED
    BY <1>1, <1>6, <2>1, <2>2, DoWorkCarries DEF RunWorker
<1> QED
  BY <1>1, <1>2, <1>3, <1>4, <1>5, <1>6 DEF WorkerStep

\* An occurrence returns with no exception in flight, or with one that the end path
\* ignores.
LEMMA ReturnsClean ==
  ASSUME Control, InFlight, stage # "idle", exc = "None" \/ Action(exc) # "Rethrow"
  PROVE  \A c \in thrown : ~MustSurface(c)
<1>1. CASE exc = "None"
  BY <1>1, NothingInFlight
<1>2. CASE Action(exc) # "Rethrow"
  BY <1>2 DEF InFlight, Action, MustSurface
<1> QED
  BY <1>1, <1>2

LEMMA SurfacingNext == Control /\ Surfacing /\ [Next]_vars => Surfacing'
<1> SUFFICES ASSUME Control, Surfacing, [Next]_vars PROVE Surfacing'
  OBVIOUS
<1> USE DEF Surfacing, InFlight, RethrowIsNotLost, MustSurface
<1>1. CASE WorkerStep
  BY <1>1, WorkerCarries DEF Carried
<1>2. CASE ModuleCatches
  BY <1>2 DEF ModuleCatches, InModule, Control, PcFits, config, job
<1>3. CASE PathStep
  <2>1. /\ UNCHANGED <<table, occurrence, outcome, stage, thrown>>
        /\ exc' = exc \/ Action(exc) # "Rethrow"
        /\ stage # "idle"
    BY <1>3 DEF PathStep, FilterAnswer, FailPath, PathThrows, TriggerPathDone, PathDone, config,
           job, history, Control, PcFits
  <2>2. exc' = exc \/ \A c \in thrown : ~MustSurface(c)
    BY <2>1, ReturnsClean
  <2> QED
    BY <2>1, <2>2
<1>4. CASE ScheduleStep
  <2>1. UNCHANGED <<table, occurrence, thrown>> /\ stage # "idle"
    BY <1>4 DEF ScheduleStep, NextTriggerPath, InserterDone, SkipEvent, ScheduleThrows,
           EndPathDone, EndPathIgnores, EndPathThrows, EndWith, config, job, history
  <2>2. CASE ScheduleThrows \/ EndPathThrows
    <3>1. stage' = "idle"
      BY <2>2 DEF ScheduleThrows, EndPathThrows, EndWith
    <3>2. CASE outcome' = "returned"
      <4>1. CASE ScheduleThrows
        <5>1. Action(exc) # "Rethrow"
          BY <3>2, <4>1 DEF ScheduleThrows, EndWith, ProcessorOutcome
        <5> QED
          BY <2>1, <3>1, <5>1, ReturnsClean
      <4>2. CASE EndPathThrows
        <5>1. Action("EventProcessorFailure") = "IgnoreCompletely"
          BY <3>2, <4>2 DEF EndPathThrows, EndWith, ProcessorOutcome
        <5>2. occurrence = "event" /\ table["EventProcessorFailure"] = "IgnoreCompletely"
          BY <5>1 DEF Action
        <5> QED
          BY <2>1, <3>1, <5>2
      <4> QED
        BY <2>2, <4>1, <4>2
    <3> QED
      BY <3>1, <3>2
  <2>3. CASE ~(ScheduleThrows \/ EndPathThrows)
    <3>1. exc = "None" \/ Action(exc) # "Rethrow"
      BY <1>4, <2>3 DEF ScheduleStep, NextTriggerPath, InserterDone, SkipEvent, EndPathDone,
             PathDone, EndPathIgnores, Control, PcFits
    <3> QED
      BY <2>1, <3>1, ReturnsClean
  <2> QED
    BY <2>2, <2>3
<1>5. CASE SwitchStep
  BY <1>5 DEF SwitchStep, SetTriggerPathEnabled, SetEndPathModuleEnabled, control, job, history
<1>6. CASE RunInserter
  <2>1. exc = "None" /\ stage # "idle" /\ UNCHANGED <<table, occurrence>> /\ stage' # "idle"
    BY <1>6 DEF RunInserter, Control, PcFits, config, job
  <2>2. \A c \in thrown : ~MustSurface(c)
    BY <2>1, NothingInFlight
  <2>3. thrown' = thrown
    BY <1>6, InserterRuns DEF RunInserter, Execute, history
  <2> QED
    BY <2>1, <2>2, <2>3
<1>7. CASE RunEndPath
  <2>1. exc = "None" /\ stage # "idle" /\ UNCHANGED <<table, occurrence, thrown>>
    BY <1>7 DEF RunEndPath, EndWith, Control, PcFits, config, job, history
  <2> QED
    BY <2>1, NothingInFlight
<1>8. CASE \E kind \in {"event", "other"} : Begin(kind)
  BY <1>8 DEF Begin
<1>9. CASE UNCHANGED vars
  BY <1>9 DEF vars, config, control, job, history
<1> QED
  BY <1>1, <1>2, <1>3, <1>4, <1>5, <1>6, <1>7, <1>8, <1>9, NextSteps

LEMMA SurfacingInit == Init => Surfacing
  BY DEF Init, Surfacing, InFlight, RethrowIsNotLost

-----------------------------------------------------------------------------
(* The TriggerResults in the event stay true.                               *)

NoException == \A p \in DOMAIN TriggerPaths : results[p].state # "Exception"

LEMMA RecordFits ==
  ASSUME Control, NoException, NEW st \in {"Pass", "Fail"}, Record(st)
  PROVE  NoException'
<1> SUFFICES ASSUME NEW p \in DOMAIN TriggerPaths
             PROVE  results'[p].state # "Exception"
  BY DEF NoException
<1> QED
  BY DEF Control, TypeOK, NoException, Record

LEMMA ResultsNext == Control /\ ResultsFit /\ [Next]_vars => ResultsFit'
<1> SUFFICES ASSUME Control, ResultsFit, [Next]_vars PROVE ResultsFit'
  OBVIOUS
<1> USE DEF ResultsFit, ResultsAreFinal
<1>1. CASE WorkerStep
  <2>1. /\ UNCHANGED <<stage, results>> /\ pc \in {"module", "path"} /\ stage # "idle"
        /\ inserted' = inserted \/ (stage = "inserter" /\ inserted' = results)
    BY <1>1, WorkerSteps
  <2> QED
    BY <2>1
<1>2. CASE ModuleCatches
  BY <1>2 DEF ModuleCatches, data
<1>3. CASE PathStep
  <2>1. CASE FilterAnswer \/ FailPath
    BY <2>1 DEF FilterAnswer, FailPath, data
  <2>2. CASE PathThrows
    BY <2>2 DEF PathThrows, Record, Control, PcFits
  <2>3. CASE TriggerPathDone
    <3>1. NoException'
      BY <2>3, RecordFits DEF TriggerPathDone, PathDone, NoException
    <3> QED
      BY <2>3, <3>1 DEF TriggerPathDone, NoException
  <2> QED
    BY <1>3, <2>1, <2>2, <2>3 DEF PathStep
<1>4. CASE ScheduleStep
  <2>1. UNCHANGED <<results, inserted>>
    BY <1>4 DEF ScheduleStep, NextTriggerPath, InserterDone, SkipEvent, ScheduleThrows,
           EndPathDone, EndPathIgnores, EndPathThrows, data
  <2>2. CASE NextTriggerPath
    BY <2>1, <2>2 DEF NextTriggerPath, StartPath
  <2>3. CASE ~NextTriggerPath
    <3>1. stage' \in {"idle", "end"} /\ stage \in {"trigger", "inserter", "end"}
      BY <1>4, <2>3 DEF ScheduleStep, InserterDone, SkipEvent, ScheduleThrows,
             EndPathDone, EndPathIgnores, EndPathThrows, EndWith
    <3> QED
      BY <2>1, <3>1
  <2> QED
    BY <2>2, <2>3
<1>5. CASE SwitchStep
  BY <1>5 DEF SwitchStep, SetTriggerPathEnabled, SetEndPathModuleEnabled, control, data
<1>6. CASE RunInserter
  BY <1>6 DEF RunInserter
<1>7. CASE RunEndPath
  BY <1>7 DEF RunEndPath, EndWith
<1>8. CASE \E kind \in {"event", "other"} : Begin(kind)
  BY <1>8 DEF Begin, NoResults
<1>9. CASE UNCHANGED vars
  BY <1>9 DEF vars, control, data
<1> QED
  BY <1>1, <1>2, <1>3, <1>4, <1>5, <1>6, <1>7, <1>8, <1>9, NextSteps

LEMMA ResultsInit == Init => ResultsFit
  BY DEF Init, ResultsFit, ResultsAreFinal, NoResults

-----------------------------------------------------------------------------
(* The theorems.                                                            *)

\* All parts of the invariant together.
THEOREM PathsInvariant == Spec => []IInv
<1>1. Init => IInv
  BY ControlInit, VisitsInit, SurfacingInit, ResultsInit DEF IInv
<1>2. IInv /\ [Next]_vars => IInv'
  BY ControlNext, VisitsNext, SurfacingNext, ResultsNext DEF IInv
<1> QED
  BY <1>1, <1>2, PTL DEF Spec

\* Variables keep their types; an exception is rethrown only by a worker that has one.
THEOREM PathsTypeCorrect == Spec => []TypeOK
<1>1. IInv => TypeOK
  BY DEF IInv, Control
<1> QED
  BY <1>1, PathsInvariant, PTL

\* However the paths and the requests for products lead to it, a module runs at most
\* once in an occurrence.
THEOREM ModulesRunOnce == Spec => []RunsOnce
<1>1. IInv => RunsOnce
  BY DEF IInv, Visits, Once, RunsOnce
<1> QED
  BY <1>1, PathsInvariant, PTL

\* No worker answers with what it found in an earlier occurrence, as long as nothing
\* on the end path has been disabled.
THEOREM FreshAnswers == Spec => []StatesAreFresh
<1>1. IInv => StatesAreFresh
  BY DEF IInv, Visits
<1> QED
  BY <1>1, PathsInvariant, PTL

\* An exception that must surface ends the occurrence, unless a module catches it.
THEOREM NoExceptionLost == Spec => []RethrowIsNotLost
<1>1. IInv => RethrowIsNotLost
  BY DEF IInv, Surfacing
<1> QED
  BY <1>1, PathsInvariant, PTL

\* The TriggerResults of an event are the status of its paths, and stay so.
THEOREM TriggerResultsTrue == Spec => []ResultsAreFinal
<1>1. IInv => ResultsAreFinal
  BY DEF IInv, ResultsFit
<1> QED
  BY <1>1, PathsInvariant, PTL

-----------------------------------------------------------------------------
(* What an occurrence comes to: the status of a path is what its modules    *)
(* decided, an occurrence throws only for an exception whose action allows  *)
(* it, and the end path of an event reaches its output modules.             *)
(*                                                                          *)
(* The argument needs the stack of modules in full: a worker that has ended *)
(* is on the stack no more and is Working no more, so nothing changes its   *)
(* state before the next occurrence, and what a path has recorded of it     *)
(* stays true.                                                              *)

\* The worker that the path or the schedule has called.
Called == IF stage = "inserter" THEN Inserter ELSE CurrentPath[idx].worker

\* The workers on a stack s.
On(s) == {s[i].worker : i \in DOMAIN s}

\* The stack s of a call of c: each worker is on it once, c is the outermost, and the
\* others were started by requests for products.
Nested(s, c) ==
  /\ \A i, j \in DOMAIN s : s[i].worker = s[j].worker => i = j
  /\ s # <<>> => s[Len(s)].worker = c
  /\ \A i \in 1 .. Len(s) - 1 : s[i].worker \in OnDemand

\* Requests for products are made in events, and not by the inserter.
NoRequests == stage = "inserter" \/ occurrence = "other"

Calls ==
  /\ Nested(stack, Called)
  /\ \A w \in Workers : worker[w] = "Working" => w \in On(stack)
  /\ pc = "module" => stack # <<>>
  /\ NoRequests => Len(stack) <= 1 /\ (stack # <<>> => exc = "None" /\ worker[Called] = "Working")
  /\ stage \in {"trigger", "end"} /\ pc # "next" => idx <= Len(CurrentPath)

\* What has come back from the worker that was called.
Answered ==
  /\ pc = "returned" =>
       worker[Called] \in {"Pass", "Fail"} /\ (Called \notin failed => (answer <=> worker[Called] = "Pass"))
  /\ pc \in {"handle", "caught"} => worker[Called] = "Exception" /\ exc = cached[Called]
  /\ exc # "None" => exc \in thrown

\* A worker that has ended and is not executing keeps its state; the path has
\* accepted the step for good, or refused it, unless FailModule failed the module.
Rests(w)  == worker[w] \in {"Pass", "Fail", "Exception"} /\ w \notin On(stack)
Yes(step) == Rests(step.worker) /\ (step.worker \in failed \/ Accepted(step))
No(step)  == Rests(step.worker) /\ (step.worker \in failed \/ ~Accepted(step))

PathSoFar == stage = "trigger" /\ pc # "next" =>
  LET steps == TriggerPaths[path]
  IN  /\ \A j \in 1 .. idx - 1 : Yes(steps[j])
      /\ pc = "path" /\ idx >= 1 => IF goOn THEN Yes(steps[idx]) ELSE No(steps[idx])

Recorded(p) ==
  LET steps == TriggerPaths[p]
      last  == results[p].index + 1
  IN  /\ results[p].state = "Pass" => \A i \in DOMAIN steps : Yes(steps[i])
      /\ results[p].state \in {"Fail", "Exception"} =>
           last \in DOMAIN steps /\ No(steps[last]) /\ \A i \in 1 .. last - 1 : Yes(steps[i])

Decisions == occurrence = "event" => PathSoFar /\ \A p \in DOMAIN TriggerPaths : Recorded(p)

\* What a worker of the schedule, and one of the end path, rethrows in an event.
Escapes(c)  == c = "StdException" \/ table[c] \notin {"IgnoreCompletely", "FailModule"}
Surfaces(c) == c = "StdException" \/ table[c] = "Rethrow"

\* A disabled worker of the end path keeps its exception from one occurrence to the
\* next. It is one that surfaces unless the begin or end of a run or sub-run left it
\* there; but then that occurrence, and every other until an event, has thrown it.
Causes ==
  /\ occurrence = "event" =>
       \A w \in Modifiers \cup {Inserter} : worker[w] = "Exception" => Escapes(cached[w])
  /\ stage = "trigger" /\ pc = "caught" => Action(exc) # "FailPath"
  /\ occurrence = "event" \/ outcome = "returned" =>
       \A w \in Observers : worker[w] = "Exception" => Surfaces(cached[w])
  /\ ThrowsForCause

Others ==
  /\ \A w \in Observers : (\A j \in DOMAIN EndPath : EndPath[j].worker # w) => worker[w] = "Ready"
  /\ stage = "idle" \/ occurrence = "other" => goOn
  /\ stage # "idle" => outcome = "none"
  /\ stage \in {"trigger", "end"} /\ pc = "caught" => idx >= 1
  /\ occurrence = "other" /\ stage = "end" /\ pc \in {"path", "module", "returned"} =>
       \A j \in 1 .. idx : worker[EndPath[j].worker] # "Exception"

\* The end path of an event where nothing has been disabled, and where no module is a
\* filter, inverted or there twice.
EndFits ==
  stage = "end" /\ pc # "next" =>
    /\ \A j \in idx + 1 .. Len(EndPath) : worker[EndPath[j].worker] = "Ready"
    /\ pc = "returned" => answer
    /\ occurrence = "event" /\ ~goOn => pc = "path" /\ "StdException" \in thrown

OInv == Calls /\ Answered /\ Decisions /\ Causes /\ Others

-----------------------------------------------------------------------------
(* The stack of modules.                                                    *)

LEMMA Pushed ==
  ASSUME NEW s \in Seq(Frames), NEW f \in Frames, NEW c, Nested(s, c), f.worker \notin On(s),
         IF s = <<>> THEN f.worker = c ELSE f.worker \in OnDemand
  PROVE  Nested(<<f>> \o s, c) /\ On(<<f>> \o s) = {f.worker} \cup On(s)
<1> DEFINE t == <<f>> \o s
<1>1. /\ t \in Seq(Frames) /\ Len(t) = Len(s) + 1 /\ Len(s) \in Nat
      /\ \A i \in 1 .. Len(s) + 1 : t[i] = IF i = 1 THEN f ELSE s[i - 1]
      /\ DOMAIN t = 1 .. Len(s) + 1 /\ DOMAIN s = 1 .. Len(s)
  <2>1. <<f>> \in Seq(Frames) /\ Len(<<f>>) = 1 /\ <<f>>[1] = f
    OBVIOUS
  <2> QED
    BY <2>1, ConcatProperties, LenProperties
<1> HIDE DEF t
<1>2. \A i \in DOMAIN s : s[i].worker # f.worker
  BY DEF On
<1>3. ASSUME NEW i \in DOMAIN t, NEW j \in DOMAIN t, t[i].worker = t[j].worker
      PROVE  i = j
  <2>1. CASE i = 1 /\ j = 1
    BY <2>1
  <2>2. CASE i = 1 /\ j # 1
    BY <1>1, <1>2, <1>3, <2>2
  <2>3. CASE i # 1 /\ j = 1
    BY <1>1, <1>2, <1>3, <2>3
  <2>4. CASE i # 1 /\ j # 1
    <3>1. i - 1 \in DOMAIN s /\ j - 1 \in DOMAIN s /\ s[i - 1].worker = s[j - 1].worker
      BY <1>1, <1>3, <2>4
    <3>2. i - 1 = j - 1
      BY <3>1 DEF Nested
    <3> QED
      BY <1>1, <3>2
  <2> QED
    BY <2>1, <2>2, <2>3, <2>4
<1>4. t[Len(t)].worker = c
  <2>1. CASE s = <<>>
    BY <1>1, <2>1, EmptySeq
  <2>2. CASE s # <<>>
    <3>1. Len(s) # 0
      BY <2>2, EmptySeq
    <3> QED
      BY <1>1, <2>2, <3>1 DEF Nested
  <2> QED
    BY <2>1, <2>2
<1>5. ASSUME NEW i \in 1 .. Len(t) - 1
      PROVE  t[i].worker \in OnDemand
  <2>1. CASE i = 1
    <3>1. s # <<>>
      BY <1>1, <2>1, EmptySeq
    <3> QED
      BY <1>1, <2>1, <3>1
  <2>2. CASE i # 1
    BY <1>1, <2>2 DEF Nested
  <2> QED
    BY <2>1, <2>2
<1>6. On(t) = {f.worker} \cup On(s)
  <2>1. ASSUME NEW i \in DOMAIN t
        PROVE  t[i].worker \in {f.worker} \cup On(s)
    <3>1. CASE i = 1
      BY <1>1, <3>1
    <3>2. CASE i # 1
      <4>1. i - 1 \in DOMAIN s /\ t[i] = s[i - 1]
        BY <1>1, <3>2
      <4> QED
        BY <4>1 DEF On
    <3> QED
      BY <3>1, <3>2
  <2>2. ASSUME NEW i \in DOMAIN s
        PROVE  s[i].worker \in On(t)
    <3>1. i + 1 \in DOMAIN t /\ t[i + 1] = s[i]
      BY <1>1
    <3> QED
      BY <3>1 DEF On
  <2>3. f.worker \in On(t)
    <3>1. 1 \in DOMAIN t /\ t[1] = f
      BY <1>1
    <3> QED
      BY <3>1 DEF On
  <2> QED
    BY <2>1, <2>2, <2>3 DEF On
<1> QED
  BY <1>3, <1>4, <1>5, <1>6 DEF Nested, t

LEMMA Popped ==
  ASSUME NEW s \in Seq(Frames), s # <<>>, NEW c, Nested(s, c)
  PROVE  /\ Nested(Tail(s), c) /\ Head(s).worker \notin On(Tail(s))
         /\ Head(s).worker \in On(s) /\ On(Tail(s)) \subseteq On(s)
         /\ On(s) = {Head(s).worker} \cup On(Tail(s))
         /\ IF Tail(s) = <<>> THEN Head(s).worker = c ELSE Head(s).worker \in OnDemand
         /\ Head(s) \in Frames /\ Tail(s) \in Seq(Frames)
<1> DEFINE t == Tail(s)
<1>1. /\ t \in Seq(Frames) /\ Len(t) = Len(s) - 1 /\ Len(s) \in Nat /\ Len(s) # 0
      /\ \A i \in 1 .. Len(s) - 1 : t[i] = s[i + 1]
      /\ DOMAIN t = 1 .. Len(s) - 1 /\ DOMAIN s = 1 .. Len(s)
      /\ Head(s) = s[1] /\ Head(s) \in Frames
  BY HeadTailProperties, LenProperties, EmptySeq
<1> HIDE DEF t
<1>2. t = <<>> <=> Len(s) = 1
  <2>1. t = <<>> <=> Len(t) = 0
    BY <1>1, EmptySeq
  <2> QED
    BY <1>1, <2>1
<1>3. ASSUME NEW i \in DOMAIN t, NEW j \in DOMAIN t, t[i].worker = t[j].worker
      PROVE  i = j
  <2>1. i + 1 \in DOMAIN s /\ j + 1 \in DOMAIN s /\ s[i + 1].worker = s[j + 1].worker
    BY <1>1, <1>3
  <2>2. i + 1 = j + 1
    BY <2>1 DEF Nested
  <2> QED
    BY <1>1, <2>2
<1>4. t # <<>> => t[Len(t)].worker = c
  BY <1>1, <1>2 DEF Nested
<1>5. \A i \in 1 .. Len(t) - 1 : t[i].worker \in OnDemand
  BY <1>1 DEF Nested
<1>6. ASSUME NEW i \in DOMAIN t
      PROVE  t[i].worker # s[1].worker /\ t[i].worker \in On(s)
  <2>1. i + 1 \in DOMAIN s /\ t[i] = s[i + 1] /\ 1 \in DOMAIN s /\ i + 1 # 1
    BY <1>1
  <2> QED
    BY <2>1 DEF Nested, On
<1>7. ASSUME NEW i \in DOMAIN s
      PROVE  s[i].worker \in {s[1].worker} \cup On(t)
  <2>1. CASE i = 1
    BY <2>1
  <2>2. CASE i # 1
    <3>1. i - 1 \in DOMAIN t /\ t[i - 1] = s[i]
      BY <1>1, <2>2
    <3> QED
      BY <3>1 DEF On
  <2> QED
    BY <2>1, <2>2
<1>8. s[1].worker \in On(s)
  BY <1>1 DEF On
<1>9. IF t = <<>> THEN s[1].worker = c ELSE s[1].worker \in OnDemand
  BY <1>1, <1>2 DEF Nested
<1>10. Nested(t, c)
  BY <1>3, <1>4, <1>5 DEF Nested
<1>11. s[1].worker \notin On(t) /\ On(t) \subseteq On(s)
  BY <1>6 DEF On
<1>12. On(s) = {s[1].worker} \cup On(t)
  BY <1>7, <1>8, <1>11 DEF On
<1> QED
  BY <1>1, <1>8, <1>9, <1>10, <1>11, <1>12 DEF t

\* The head of the stack notes a request.
LEMMA Noted ==
  ASSUME NEW s \in Seq(Frames), s # <<>>, NEW c, Nested(s, c), NEW w \in OnDemand
  PROVE  LET t == <<[Head(s) EXCEPT !.asked = @ \cup {w}]>> \o Tail(s)
         IN  Nested(t, c) /\ On(t) = On(s) /\ t # <<>> /\ t \in Seq(Frames)
<1> DEFINE f == [Head(s) EXCEPT !.asked = @ \cup {w}]
<1>1. /\ Nested(Tail(s), c) /\ Head(s).worker \notin On(Tail(s))
      /\ On(s) = {Head(s).worker} \cup On(Tail(s))
      /\ IF Tail(s) = <<>> THEN Head(s).worker = c ELSE Head(s).worker \in OnDemand
      /\ Head(s) \in Frames /\ Tail(s) \in Seq(Frames)
  BY Popped
<1>2. f \in Frames /\ f.worker = Head(s).worker
  BY <1>1 DEF Frames
<1> HIDE DEF f
<1>3. <<f>> \in Seq(Frames) /\ Len(<<f>>) = 1
  BY <1>2
<1>4. <<f>> \o Tail(s) \in Seq(Frames) /\ <<f>> \o Tail(s) # <<>>
  BY <1>1, <1>3, ConcatProperties, LenProperties, EmptySeq
<1>5. Nested(<<f>> \o Tail(s), c) /\ On(<<f>> \o Tail(s)) = {f.worker} \cup On(Tail(s))
  BY <1>1, <1>2, Pushed
<1> QED
  BY <1>1, <1>2, <1>4, <1>5 DEF f

LEMMA NothingOn == \A c : Nested(<<>>, c) /\ On(<<>>) = {}
  BY DEF Nested, On

-----------------------------------------------------------------------------
(* The steps of a worker.                                                   *)

\* What doWork lets out to the callers s.
Raised(c, s) == c = "StdException" \/ WorkerAction(c, s) \notin {"IgnoreCompletely", "FailModule"}

\* The work of w ends for its callers s, with an answer or the exception it keeps.
Ended(w, s) ==
  /\ stack' = s /\ worker'[w] \in {"Pass", "Fail", "Exception"}
  /\ exc' = IF worker'[w] = "Exception" THEN cached'[w] ELSE "None"
  /\ pc' = IF s # <<>> THEN "module" ELSE IF worker'[w] # "Exception" THEN "returned"
           ELSE IF stage = "inserter" THEN "caught" ELSE "handle"
  /\ s = <<>> /\ worker'[w] # "Exception" =>
       /\ w \notin failed' => (answer' <=> worker'[w] = "Pass")
       /\ answer' \/ (worker[w] = "Fail" /\ w \notin On(stack)) \/ w \in Filters
  /\ worker'[w] = worker[w] \/ worker[w] = "Working" \/ w \in On(stack)
  /\ worker'[w] = "Exception" =>
       /\ cached'[w] \in thrown'
       /\ (worker[w] = "Exception" /\ cached'[w] = cached[w]) \/ Raised(cached'[w], s)

\* The work of w starts.
Started(w, s) ==
  /\ worker[w] = "Ready" /\ worker'[w] = "Working"
  /\ stack' = <<[worker |-> w, asked |-> {}]>> \o s /\ pc' = "module"
  /\ exc = "None" /\ exc' = "None"

\* The other workers are left alone.
Alone(w) ==
  /\ \A v \in Workers \ {w} : worker'[v] = worker[v] /\ cached'[v] = cached[v]
  /\ failed \subseteq failed' /\ thrown \subseteq thrown'

LEMMA HandledEnds ==
  ASSUME Control, NEW w \in Workers, NEW s, NEW c \in Categories,
         CatchException(w, c, s) \/ (c = "StdException" /\ CatchForeign(w, s)),
         worker[w] = "Working" \/ w \in On(stack)
  PROVE  Ended(w, s) /\ Alone(w)
<1> USE DEF Control, TypeOK, SetState, Return, Raise, Ended, Alone, Raised
<1>1. CASE c = "StdException" /\ CatchForeign(w, s)
  BY <1>1 DEF CatchForeign
<1>2. CASE CatchException(w, c, s)
  <2>1. thrown' = thrown \cup {c}
    BY <1>2 DEF CatchException
  <2>2. CASE WorkerAction(c, s) \notin {"IgnoreCompletely", "FailModule"}
    BY <1>2, <2>1, <2>2 DEF CatchException
  <2>3. CASE WorkerAction(c, s) = "IgnoreCompletely"
    BY <1>2, <2>1, <2>3 DEF CatchException
  <2>4. CASE WorkerAction(c, s) = "FailModule"
    BY <1>2, <2>1, <2>4 DEF CatchException
  <2> QED
    BY <2>2, <2>3, <2>4
<1> QED
  BY <1>1, <1>2

LEMMA DoWorkEnds ==
  ASSUME Control, exc = "None", NEW w \in Workers, NEW s, DoWork(w, s),
         s = <<>> => On(stack) = {}
  PROVE  (Ended(w, s) \/ Started(w, s)) /\ Alone(w)
<1> USE DEF Control, TypeOK
<1>1. CASE FromCache(w, s)
  BY <1>1 DEF FromCache, Return, Ended, Alone
<1>2. CASE RethrowCached(w, s)
  BY <1>2 DEF RethrowCached, Raise, Ended, Alone
<1>3. CASE Cycle(w, s)
  BY <1>3, HandledEnds DEF Cycle, Categories
<1>4. CASE Execute(w, s)
  BY <1>4 DEF Execute, SetState, Started, Alone
<1> QED
  BY <1>1, <1>2, <1>3, <1>4 DEF DoWork

\* What a step of a worker does to it, to its callers and to the path.
Step(w, s) ==
  /\ Ended(w, s) \/ Started(w, s)
  /\ Alone(w)
  /\ s \in Seq(Frames) /\ Nested(s, Called') /\ On(s) \subseteq On(stack) /\ On(stack) \subseteq {w} \cup On(s)
  /\ IF s = <<>> THEN w = Called' ELSE w \in OnDemand /\ ~NoRequests
  /\ UNCHANGED <<table, stage, occurrence, outcome, path, goOn, results>> /\ stage # "idle"
  /\ \/ pc = "module" /\ idx' = idx
     \/ /\ pc = "path" /\ idx' = idx + 1 /\ idx < Len(CurrentPath) /\ goOn
        /\ s = <<>> /\ stack = <<>> /\ exc = "None"

\* The module that executes is the one the path called, if it asks for nothing.
LEMMA Outermost ==
  ASSUME Control, Calls, InModule
  PROVE  /\ stack \in Seq(Frames) /\ Running \in On(stack) /\ Running \in Workers
         /\ On(stack) = {Running} \cup On(Tail(stack))
         /\ On(Tail(stack)) \subseteq On(stack)
         /\ Nested(Tail(stack), Called) /\ Tail(stack) \in Seq(Frames)
         /\ IF Tail(stack) = <<>> THEN Running = Called ELSE Running \in OnDemand /\ ~NoRequests
<1>1. stack \in Seq(Frames) /\ stack # <<>> /\ Nested(stack, Called)
  BY DEF Control, TypeOK, Frames, InModule, Calls
<1>2. /\ Nested(Tail(stack), Called) /\ Running \in On(stack) /\ On(Tail(stack)) \subseteq On(stack)
      /\ On(stack) = {Running} \cup On(Tail(stack)) /\ Tail(stack) \in Seq(Frames)
      /\ IF Tail(stack) = <<>> THEN Running = Called ELSE Running \in OnDemand
  BY <1>1, Popped DEF Running
<1>3. NoRequests => Tail(stack) = <<>>
  <2>1. Len(Tail(stack)) = Len(stack) - 1 /\ Len(stack) \in Nat /\ Len(Tail(stack)) \in Nat
    BY <1>1, HeadTailProperties, LenProperties
  <2>2. NoRequests => Len(stack) <= 1
    BY DEF Calls
  <2>3. NoRequests => Len(Tail(stack)) = 0
    BY <2>1, <2>2
  <2> QED
    BY <1>2, <2>3, EmptySeq
<1> QED
  BY <1>1, <1>2, <1>3, TopOfStack DEF Control

LEMMA WorkerCalls ==
  ASSUME Control, Calls, WorkerStep
  PROVE  \E w \in Workers, s \in Seq(Frames) : Step(w, s)
<1> DEFINE Kept == UNCHANGED <<table, stage, occurrence, outcome, path, goOn, results>>
<1>0. ASSUME InModule
      PROVE  stage # "idle" /\ pc = "module" /\ (UNCHANGED <<stage, path, idx>> => Called' = Called)
  BY <1>0 DEF InModule, Control, PcFits, Called, CurrentPath
<1>1. ASSUME NEW w \in OnDemand, GetProduct(w)
      PROVE  \E v \in Workers, s \in Seq(Frames) : Step(v, s)
  <2> DEFINE s == <<[Head(stack) EXCEPT !.asked = @ \cup {w}]>> \o Tail(stack)
  <2>1. /\ InModule /\ exc = "None" /\ occurrence = "event" /\ Running # Inserter /\ DoWork(w, s)
        /\ Kept /\ idx' = idx
    BY <1>1 DEF GetProduct, config, job
  <2>2. stack \in Seq(Frames) /\ stack # <<>> /\ Nested(stack, Called)
    BY <2>1 DEF Control, TypeOK, Frames, InModule, Calls
  <2>3. Nested(s, Called) /\ On(s) = On(stack) /\ s # <<>> /\ s \in Seq(Frames)
    BY <2>2, Noted
  <2>4. ~NoRequests
    <3>1. ASSUME stage = "inserter"
          PROVE  FALSE
      <4>1. Running = Called
        BY <2>1, <3>1, Outermost DEF NoRequests
      <4> QED
        BY <2>1, <3>1, <4>1 DEF Called
    <3> QED
      BY <2>1, <3>1 DEF NoRequests
  <2>5. w \in Workers
    BY PathsAssumption DEF Workers
  <2> HIDE DEF s
  <2>6. (Ended(w, s) \/ Started(w, s)) /\ Alone(w)
    BY <2>1, <2>3, <2>5, DoWorkEnds
  <2>7. Called' = Called /\ stage # "idle" /\ pc = "module"
    BY <1>0, <2>1
  <2>8. Step(w, s)
    BY <2>1, <2>3, <2>4, <2>6, <2>7 DEF Step
  <2> QED
    BY <2>3, <2>5, <2>8
<1>2. ASSUME InModule, Kept, idx' = idx, Ended(Running, Tail(stack)), Alone(Running)
      PROVE  \E v \in Workers, s \in Seq(Frames) : Step(v, s)
  <2>1. Called' = Called /\ stage # "idle" /\ pc = "module"
    BY <1>0, <1>2
  <2>2. Step(Running, Tail(stack))
    BY <1>2, <2>1, Outermost DEF Step
  <2> QED
    BY <1>2, <2>2, Outermost
<1>3. ASSUME NEW rc \in BOOLEAN, ModuleReturns(rc)
      PROVE  \E v \in Workers, s \in Seq(Frames) : Step(v, s)
  <2>1. InModule /\ Kept /\ idx' = idx
    BY <1>3 DEF ModuleReturns, config, job
  <2>2. Ended(Running, Tail(stack)) /\ Alone(Running)
    BY <1>3, <2>1, Outermost
       DEF ModuleReturns, SetState, Return, Ended, Alone, history, Control, TypeOK
  <2> QED
    BY <1>2, <2>1, <2>2
<1>4. ASSUME ModuleThrows \/ ModuleThrowsForeign
      PROVE  \E v \in Workers, s \in Seq(Frames) : Step(v, s)
  <2>1. InModule /\ Kept /\ idx' = idx
    BY <1>4 DEF ModuleThrows, ModuleThrowsForeign, config, job
  <2>2. Ended(Running, Tail(stack)) /\ Alone(Running)
    <3>1. CASE ModuleThrows
      <4>1. PICK c \in IF exc = "None" THEN UserCategories ELSE {exc} :
                   CatchException(Running, c, Tail(stack))
        BY <3>1 DEF ModuleThrows
      <4>2. c \in Categories
        BY <4>1 DEF Control, TypeOK, Categories
      <4> QED
        BY <2>1, <4>1, <4>2, Outermost, HandledEnds
    <3>2. CASE ModuleThrowsForeign
      BY <2>1, <3>2, Outermost, HandledEnds DEF ModuleThrowsForeign, Categories
    <3> QED
      BY <1>4, <3>1, <3>2
  <2> QED
    BY <1>2, <2>1, <2>2
<1>5. ASSUME RunWorker
      PROVE  \E v \in Workers, s \in Seq(Frames) : Step(v, s)
  <2> DEFINE w == CurrentPath[idx + 1].worker
  <2>1. /\ pc = "path" /\ goOn /\ idx < Len(CurrentPath) /\ idx' = idx + 1 /\ DoWork(w, <<>>)
        /\ Kept
    BY <1>5 DEF RunWorker, config, job
  <2>2. exc = "None" /\ stack = <<>> /\ stage \in {"trigger", "end"}
    BY <2>1 DEF Control, PcFits
  <2>3. w \in Workers /\ w = Called'
    BY <2>1, <2>2, NextWorker DEF Called, CurrentPath
  <2>4. On(stack) = {} /\ On(<<>>) = {} /\ Nested(<<>>, Called') /\ <<>> \in Seq(Frames)
    BY <2>2, NothingOn, EmptySeq
  <2>5. (Ended(w, <<>>) \/ Started(w, <<>>)) /\ Alone(w)
    BY <2>1, <2>2, <2>3, <2>4, DoWorkEnds
  <2> HIDE DEF w
  <2>6. Step(w, <<>>)
    BY <2>1, <2>2, <2>3, <2>4, <2>5 DEF Step
  <2> QED
    BY <2>3, <2>4, <2>6
<1> QED
  BY <1>1, <1>3, <1>4, <1>5 DEF WorkerStep

-----------------------------------------------------------------------------
(* The stack and the answers.                                               *)

LEMMA OnStackEntered ==
  ASSUME Control
  PROVE  \A v \in On(stack) : v \in Workers /\ worker[v] # "Ready"
<1> SUFFICES ASSUME NEW i \in DOMAIN stack
             PROVE  stack[i].worker \in Workers /\ worker[stack[i].worker] # "Ready"
  BY DEF On
<1>1. stack \in Seq(Entered)
  BY DEF Control, StackFits
<1>2. i \in 1 .. Len(stack)
  BY <1>1, LenProperties
<1>3. stack[i] \in Entered
  BY <1>1, <1>2, ElementOfSeq
<1> QED
  BY <1>3 DEF Entered, Frames

\* The steps of a path that runs.
LEMMA CurrentSteps ==
  ASSUME Control, stage = "end" \/ (stage = "trigger" /\ pc # "next")
  PROVE  /\ Len(CurrentPath) \in Nat /\ DOMAIN CurrentPath = 1 .. Len(CurrentPath)
         /\ \A j \in 1 .. Len(CurrentPath) :
              /\ CurrentPath[j].worker \in IF stage = "end" THEN Observers ELSE Modifiers
              /\ CurrentPath[j].filter \in FilterActions
<1> DEFINE ws == IF stage = "end" THEN Observers ELSE Modifiers
<1>1. CurrentPath \in Seq(Steps(ws))
  <2>1. CASE stage = "end"
    BY <2>1, PathsAssumption DEF CurrentPath
  <2>2. CASE stage = "trigger"
    <3>1. path \in DOMAIN TriggerPaths
      BY <2>2 DEF Control, PcFits
    <3>2. TriggerPaths[path] \in Seq(Steps(Modifiers))
      BY <3>1, PathsAssumption, ElementOfSeq
    <3> QED
      BY <2>2, <3>2 DEF CurrentPath
  <2> QED
    BY <2>1, <2>2
<1>2. \A j \in 1 .. Len(CurrentPath) : CurrentPath[j] \in Steps(ws)
  BY <1>1, ElementOfSeq
<1> QED
  BY <1>1, <1>2, LenProperties DEF Steps

\* A step of a worker leaves the stack as it should be.
LEMMA StepCalls ==
  ASSUME Control, Calls, NEW w \in Workers, NEW s \in Seq(Frames), Step(w, s)
  PROVE  /\ Nested(stack', Called') /\ On(stack') \subseteq {w} \cup On(s) /\ On(s) \subseteq On(stack')
         /\ pc' = "module" => stack' # <<>>
         /\ s = <<>> => Len(stack') <= 1
         /\ Started(w, s) => w \in On(stack')
<1>1. CASE Ended(w, s)
  <2>1. Len(<<>>) <= 1
    BY EmptySeq
  <2> QED
    BY <1>1, <2>1 DEF Ended, Started, Step
<1>2. CASE Started(w, s)
  <2> DEFINE f == [worker |-> w, asked |-> {}]
  <2>1. w \notin On(s)
    BY <1>2, OnStackEntered DEF Step, Started
  <2>2. f \in Frames /\ f.worker = w
    BY DEF Frames
  <2>3. <<f>> \in Seq(Frames) /\ Len(<<f>>) = 1 /\ stack' = <<f>> \o s
    BY <1>2, <2>2 DEF Started
  <2> HIDE DEF f
  <2>4. Nested(stack', Called') /\ On(stack') = {w} \cup On(s)
    BY <2>1, <2>2, <2>3, Pushed DEF Step
  <2>5. Len(stack') = 1 + Len(s) /\ Len(s) \in Nat /\ stack' \in Seq(Frames)
    BY <2>3, ConcatProperties, LenProperties
  <2>6. stack' # <<>> /\ (s = <<>> => Len(stack') <= 1)
    BY <2>5, EmptySeq
  <2> QED
    BY <2>4, <2>6
<1> QED
  BY <1>1, <1>2 DEF Step

LEMMA WorkerAnswered ==
  ASSUME Control, Calls, Answered, NEW w \in Workers, NEW s \in Seq(Frames), Step(w, s)
  PROVE  Calls' /\ Answered'
<1>1. \A v \in Workers : worker'[v] = "Working" => v \in On(stack')
  <2>1. ASSUME NEW v \in Workers, worker'[v] = "Working", v # w
        PROVE  v \in On(stack')
    <3>1. v \in On(stack)
      BY <2>1 DEF Step, Alone, Calls
    <3> QED
      BY <2>1, <3>1, StepCalls DEF Step
  <2>2. worker'[w] = "Working" => w \in On(stack')
    BY StepCalls DEF Step, Ended
  <2> QED
    BY <2>1, <2>2
<1>2. NoRequests' => Len(stack') <= 1 /\ (stack' # <<>> => exc' = "None" /\ worker'[Called'] = "Working")
  <2>1. NoRequests' => s = <<>>
    BY DEF Step, NoRequests
  <2> QED
    BY <2>1, StepCalls DEF Step, Ended, Started
<1>3. stage' \in {"trigger", "end"} /\ pc' # "next" => idx' <= Len(CurrentPath')
  <2>1. ASSUME stage \in {"trigger", "end"}
        PROVE  idx' <= Len(CurrentPath)
    <3>1. Len(CurrentPath) \in Nat /\ idx \in Nat /\ pc # "next"
      BY <2>1, CurrentSteps DEF Step, Control, TypeOK
    <3>2. CASE idx' = idx
      BY <2>1, <3>1, <3>2 DEF Calls
    <3>3. CASE idx' = idx + 1 /\ idx < Len(CurrentPath)
      BY <3>1, <3>3
    <3> QED
      BY <3>2, <3>3 DEF Step
  <2> QED
    BY <2>1 DEF Step, CurrentPath
<1>4. Calls'
  BY <1>1, <1>2, <1>3, StepCalls DEF Calls
<1>5. Answered'
  <2>1. CASE Started(w, s)
    BY <2>1 DEF Started, Answered
  <2>2. CASE Ended(w, s)
    <3>1. exc' # "None" => exc' \in thrown'
      BY <2>2 DEF Ended
    <3>2. s = <<>> => w = Called'
      BY DEF Step
    <3> QED
      BY <2>2, <3>1, <3>2 DEF Ended, Answered
  <2> QED
    BY <2>1, <2>2 DEF Step
<1> QED
  BY <1>4, <1>5

LEMMA PathsHaveLength ==
  Len(EndPath) \in Nat /\ \A p \in DOMAIN TriggerPaths : Len(TriggerPaths[p]) \in Nat
<1>1. \A p \in DOMAIN TriggerPaths : TriggerPaths[p] \in Seq(Steps(Modifiers))
  BY PathsAssumption, ElementOfSeq
<1> QED
  BY <1>1, PathsAssumption, LenProperties

\* Outside a module no worker is Working, and resetting makes none.
LEMMA QuietCalls ==
  ASSUME Control, Calls, pc # "module", pc' # "module", stack' = stack,
         \A v \in Workers : worker'[v] \in {worker[v], "Ready"},
         stage' \in {"trigger", "end"} /\ pc' # "next" => idx' <= Len(CurrentPath')
  PROVE  Calls' /\ stack = <<>>
<1>1. stack = <<>> /\ stack' = <<>>
  BY DEF Control, PcFits
<1>2. Nested(stack', Called') /\ On(stack) = {} /\ On(stack') = {}
  BY <1>1, NothingOn
<1>3. Len(stack') <= 1
  BY <1>1, EmptySeq
<1>4. \A v \in Workers : worker'[v] = "Working" => v \in On(stack')
  BY <1>2 DEF Calls
<1> QED
  BY <1>1, <1>2, <1>3, <1>4 DEF Calls

LEMMA PathAnswered ==
  ASSUME Control, Calls, Answered, PathStep
  PROVE  Calls' /\ Answered'
<1>1. /\ pc # "module" /\ pc' \in {"next", "path", "caught"}
      /\ UNCHANGED <<stack, worker, cached, stage, path, thrown, failed>>
      /\ stage \in {"trigger", "end"} /\ pc # "next"
      /\ idx' = idx \/ pc' = "next"
  BY DEF PathStep, FilterAnswer, FailPath, PathThrows, TriggerPathDone, PathDone, data, history,
         Control, PcFits
<1>2. Calls'
  BY <1>1, QuietCalls DEF CurrentPath, Calls
<1>3. Answered'
  <2>1. CASE PathThrows
    BY <1>1, <2>1 DEF PathThrows, Answered, Called, CurrentPath
  <2>2. CASE ~PathThrows
    <3>1. pc' # "caught" /\ exc' = "None"
      BY <2>2 DEF PathStep, FilterAnswer, FailPath, TriggerPathDone, PathDone, Control, PcFits
    <3> QED
      BY <1>1, <3>1 DEF Answered
  <2> QED
    BY <2>1, <2>2
<1> QED
  BY <1>2, <1>3

LEMMA ScheduleAnswered ==
  ASSUME Control, Calls, Answered, ScheduleStep
  PROVE  Calls' /\ Answered'
<1>1. /\ pc # "module" /\ pc' \in {"next", "path"} /\ UNCHANGED <<stack, worker>>
      /\ exc' = "None" /\ (pc' = "path" => idx' = 0 /\ stage' = stage)
  BY DEF ScheduleStep, NextTriggerPath, InserterDone, SkipEvent, ScheduleThrows, EndPathDone,
         PathDone, EndPathIgnores, EndPathThrows, EndWith, StartPath, data, Control, PcFits
<1>2. stage' \in {"trigger", "end"} /\ pc' # "next" => 0 <= Len(CurrentPath')
  BY ScheduleControl, PathsHaveLength DEF Control, PcFits, CurrentPath
<1> QED
  BY <1>1, <1>2, QuietCalls DEF Answered

LEMMA InserterAnswered ==
  ASSUME Control, Calls, Answered, RunInserter
  PROVE  Calls' /\ Answered'
<1>1. stage = "trigger" /\ pc = "next" /\ stack = <<>> /\ exc = "None"
  BY DEF RunInserter, Control, PcFits
<1>2. CASE TriggerPaths = <<>>
  <2>1. UNCHANGED <<pc, answer, exc, stack, worker, cached, history>>
    BY <1>2 DEF RunInserter
  <2> QED
    BY <1>1, <2>1, QuietCalls DEF Answered
<1>3. CASE TriggerPaths # <<>>
  <2> DEFINE f == [worker |-> Inserter, asked |-> {}]
  <2>1. Execute(Inserter, <<>>) /\ stage' = "inserter"
    BY <1>3, InserterRuns DEF RunInserter
  <2>2. /\ stack' = <<f>> \o <<>> /\ pc' = "module" /\ exc' = "None"
        /\ worker' = [worker EXCEPT ![Inserter] = "Working"]
    BY <1>1, <2>1 DEF Execute, SetState
  <2>3. f \in Frames /\ f.worker = Inserter /\ Called' = Inserter
    BY <2>1 DEF Frames, Workers, Called
  <2> HIDE DEF f
  <2>4. Nested(<<>>, Called') /\ On(<<>>) = {} /\ <<>> \in Seq(Frames)
    BY NothingOn, EmptySeq
  <2>5. Nested(stack', Called') /\ On(stack') = {Inserter}
    BY <2>2, <2>3, <2>4, Pushed
  <2>6. <<f>> \in Seq(Frames) /\ Len(<<f>>) = 1
    BY <2>3
  <2>7. Len(stack') <= 1 /\ stack' # <<>>
    <3>1. stack' \in Seq(Frames) /\ Len(stack') = Len(<<f>>) + Len(<<>>)
      BY <2>2, <2>4, <2>6, ConcatProperties
    <3>2. Len(<<>>) = 0
      BY <2>4, EmptySeq
    <3>3. Len(stack') = 1
      BY <2>6, <3>1, <3>2
    <3> QED
      BY <3>1, <3>3, EmptySeq
  <2>8. \A v \in Workers : worker'[v] = "Working" => v \in On(stack')
    BY <1>1, <2>2, <2>4, <2>5 DEF Calls, Control, TypeOK
  <2>9. worker'[Called'] = "Working"
    BY <2>2, <2>3 DEF Control, TypeOK, Workers
  <2> QED
    BY <2>1, <2>2, <2>5, <2>7, <2>8, <2>9 DEF Calls, Answered
<1> QED
  BY <1>2, <1>3

LEMMA AnsweredNext == Control /\ Calls /\ Answered /\ [Next]_vars => Calls' /\ Answered'
<1> SUFFICES ASSUME Control, Calls, Answered, [Next]_vars PROVE Calls' /\ Answered'
  OBVIOUS
<1>1. CASE WorkerStep
  BY <1>1, WorkerCalls, WorkerAnswered
<1>2. CASE ModuleCatches \/ SwitchStep \/ UNCHANGED vars
  <2>1. /\ UNCHANGED <<stack, worker, cached, stage, path, idx, pc, answer, occurrence, failed>>
        /\ UNCHANGED <<exc, thrown>> \/ exc' = "None"
    BY <1>2 DEF ModuleCatches, SwitchStep, SetTriggerPathEnabled, SetEndPathModuleEnabled,
           vars, config, control, job, data, history
  <2>2. Called' = Called /\ CurrentPath' = CurrentPath
    BY <2>1 DEF Called, CurrentPath
  <2>3. Calls'
    BY <2>1, <2>2 DEF Calls, NoRequests
  <2>4. Answered'
    <3>1. CASE UNCHANGED <<exc, thrown>>
      BY <2>1, <2>2, <3>1 DEF Answered
    <3>2. CASE ModuleCatches
      BY <2>1, <2>2, <3>2 DEF Answered, ModuleCatches, InModule
    <3> QED
      BY <1>2, <3>1, <3>2 DEF SwitchStep, SetTriggerPathEnabled, SetEndPathModuleEnabled,
             vars, control, history
  <2> QED
    BY <2>3, <2>4
<1>3. CASE RunEndPath
  <2>1. /\ pc # "module" /\ pc' \in {"next", "path"} /\ stack' = stack /\ exc' = "None"
        /\ \A v \in Workers : worker'[v] \in {worker[v], "Ready"}
        /\ pc' = "path" => idx' = 0 /\ stage' = "end"
        /\ pc' = "next" => stage' = "idle"
    BY <1>3 DEF RunEndPath, Reset, EndWith, StartPath, Control, PcFits
  <2>2. pc' # "next" => 0 <= Len(CurrentPath')
    BY <2>1, PathsHaveLength DEF CurrentPath
  <2> QED
    BY <2>1, <2>2, QuietCalls DEF Answered
<1>4. CASE \E kind \in {"event", "other"} : Begin(kind)
  <2>1. /\ pc # "module" /\ pc' = "next" /\ stack' = stack /\ exc' = "None"
        /\ \A v \in Workers : worker'[v] \in {worker[v], "Ready"}
    BY <1>4 DEF Begin, Reset, Control, PcFits
  <2> QED
    BY <2>1, QuietCalls DEF Answered
<1> QED
  BY <1>1, <1>2, <1>3, <1>4, NextSteps, PathAnswered, ScheduleAnswered, InserterAnswered

LEMMA AnsweredInit == Init => Calls /\ Answered
<1>1. Len(<<>>) = 0
  BY EmptySeq
<1> QED
  BY <1>1, NothingOn DEF Init, Calls, Answered

-----------------------------------------------------------------------------
(* What a path records stays true.                                          *)

LEMMA PathSteps ==
  ASSUME NEW p \in DOMAIN TriggerPaths
  PROVE  /\ Len(TriggerPaths[p]) \in Nat /\ DOMAIN TriggerPaths[p] = 1 .. Len(TriggerPaths[p])
         /\ \A j \in DOMAIN TriggerPaths[p] :
              TriggerPaths[p][j].worker \in Modifiers /\ TriggerPaths[p][j].filter \in FilterActions
<1>1. TriggerPaths[p] \in Seq(Steps(Modifiers))
  BY PathsAssumption, ElementOfSeq
<1>2. /\ Len(TriggerPaths[p]) \in Nat /\ DOMAIN TriggerPaths[p] = 1 .. Len(TriggerPaths[p])
      /\ \A j \in 1 .. Len(TriggerPaths[p]) : TriggerPaths[p][j] \in Steps(Modifiers)
  BY <1>1, LenProperties, ElementOfSeq
<1> QED
  BY <1>2 DEF Steps

\* A worker of a trigger path that has ended keeps its state.
Settle ==
  /\ failed \subseteq failed'
  /\ \A v \in Modifiers : Rests(v) => Rests(v)' /\ worker'[v] = worker[v]

LEMMA StepSettles ==
  ASSUME Control, Calls, NEW w \in Workers, NEW s \in Seq(Frames), Step(w, s)
  PROVE  Settle
<1>1. ASSUME NEW v \in Modifiers, Rests(v)
      PROVE  Rests(v)' /\ worker'[v] = worker[v]
  <2>1. On(stack') \subseteq {w} \cup On(stack)
    BY StepCalls DEF Step
  <2>2. CASE v # w
    BY <1>1, <2>1, <2>2 DEF Rests, Step, Alone, Workers
  <2>3. CASE v = w
    BY <1>1, <2>3 DEF Rests, Step, Ended, Started
  <2> QED
    BY <2>2, <2>3
<1> QED
  BY <1>1 DEF Settle, Step, Alone

LEMMA OtherSettles ==
  ASSUME Control, Calls,
         \/ ModuleCatches \/ PathStep \/ ScheduleStep \/ SwitchStep \/ RunInserter \/ RunEndPath
         \/ UNCHANGED vars
  PROVE  Settle
<1>1. CASE RunInserter
  <2>1. stack = <<>> /\ On(<<>>) = {}
    BY <1>1, NothingOn DEF RunInserter, Control, PcFits
  <2>2. CASE TriggerPaths = <<>>
    BY <1>1, <2>2 DEF RunInserter, Settle, Rests, Control, PcFits, history
  <2>3. CASE TriggerPaths # <<>>
    <3>1. Execute(Inserter, <<>>)
      BY <1>1, <2>3, InserterRuns
    <3>2. <<[worker |-> Inserter, asked |-> {}]>> \o <<>> = <<[worker |-> Inserter, asked |-> {}]>>
      OBVIOUS
    <3>3. stack' = <<[worker |-> Inserter, asked |-> {}]>>
      BY <3>1, <3>2 DEF Execute
    <3>4. On(stack') = {Inserter}
      BY <3>3 DEF On
    <3> QED
      BY <3>1, <3>4, PathsAssumption
         DEF Execute, SetState, Settle, Rests, Control, TypeOK, Workers
  <2> QED
    BY <2>2, <2>3
<1>2. CASE RunEndPath
  <2>1. stack' = stack /\ failed' = failed /\ \A v \in Modifiers : worker'[v] = worker[v]
    BY <1>2, PathsAssumption DEF RunEndPath, EndWith, Reset, Workers, history
  <2> QED
    BY <2>1 DEF Settle, Rests
<1>3. CASE ~RunInserter /\ ~RunEndPath
  <2>1. UNCHANGED <<stack, worker, failed>>
    BY <1>3 DEF ModuleCatches, PathStep, FilterAnswer, FailPath, PathThrows, TriggerPathDone,
           ScheduleStep, NextTriggerPath, InserterDone, SkipEvent, ScheduleThrows, EndPathDone,
           EndPathIgnores, EndPathThrows, EndWith, SwitchStep, SetTriggerPathEnabled,
           SetEndPathModuleEnabled, vars, control, data, history
  <2> QED
    BY <2>1 DEF Settle, Rests
<1> QED
  BY <1>1, <1>2, <1>3

\* So what a path has found out about a step holds on.
LEMMA VerdictsStay ==
  ASSUME Settle, NEW step, step.worker \in Modifiers
  PROVE  (Yes(step) => Yes(step)') /\ (No(step) => No(step)')
  BY DEF Settle, Yes, No, Accepted

LEMMA RecordsStay ==
  ASSUME Settle, NEW p \in DOMAIN TriggerPaths, results'[p] = results[p], Recorded(p)
  PROVE  Recorded(p)'
<1>1. \A j \in DOMAIN TriggerPaths[p] :
        /\ Yes(TriggerPaths[p][j]) => Yes(TriggerPaths[p][j])'
        /\ No(TriggerPaths[p][j]) => No(TriggerPaths[p][j])'
  BY PathSteps, VerdictsStay
<1> QED
  BY <1>1, PathSteps DEF Recorded

\* The part of a path that has been visited.
LEMMA VisitedSteps ==
  ASSUME Control, Calls, stage = "trigger", pc # "next"
  PROVE  /\ path \in DOMAIN TriggerPaths /\ CurrentPath = TriggerPaths[path]
         /\ idx \in Nat /\ 1 .. idx \subseteq DOMAIN TriggerPaths[path]
         /\ Called = TriggerPaths[path][idx].worker
<1>1. path \in DOMAIN TriggerPaths /\ CurrentPath = TriggerPaths[path] /\ idx \in Nat
  BY DEF Control, TypeOK, PcFits, CurrentPath
<1>2. idx <= Len(TriggerPaths[path])
  BY <1>1 DEF Calls
<1> QED
  BY <1>1, <1>2, PathSteps DEF Called

LEMMA WorkerDecides ==
  ASSUME Control, Calls, Decisions, NEW w \in Workers, NEW s \in Seq(Frames), Step(w, s)
  PROVE  Decisions'
<1>1. Settle /\ UNCHANGED <<occurrence, results, path, stage, goOn>>
  BY StepSettles DEF Step
<1>2. ASSUME stage = "trigger", occurrence = "event"
      PROVE  PathSoFar'
  <2> DEFINE steps == TriggerPaths[path]
  <2>1. pc \in {"module", "path"} /\ pc' \in {"module", "returned", "handle"}
    BY <1>2 DEF Step, Ended, Started
  <2>2. path \in DOMAIN TriggerPaths /\ idx \in Nat /\ 1 .. idx \subseteq DOMAIN steps
    BY <1>2, <2>1, VisitedSteps
  <2>3. \A j \in 1 .. idx - 1 : Yes(steps[j])
    BY <1>2, <2>1, <2>2 DEF Decisions, PathSoFar
  <2>4. ASSUME NEW j \in 1 .. idx' - 1
        PROVE  Yes(steps[j])'
    <3>1. j \in DOMAIN steps /\ Yes(steps[j])
      <4>1. CASE idx' = idx
        BY <2>2, <2>3, <4>1
      <4>2. CASE idx' = idx + 1 /\ pc = "path" /\ goOn
        <5>1. idx >= 1 => Yes(steps[idx])
          BY <1>2, <4>2 DEF Decisions, PathSoFar
        <5> QED
          BY <2>2, <2>3, <4>2, <5>1
      <4> QED
        BY <4>1, <4>2 DEF Step
    <3> QED
      BY <1>1, <2>2, <3>1, PathSteps, VerdictsStay
  <2> QED
    BY <1>1, <2>1, <2>4 DEF PathSoFar
<1>3. occurrence = "event" => \A p \in DOMAIN TriggerPaths : Recorded(p)'
  BY <1>1, RecordsStay DEF Decisions
<1> QED
  BY <1>1, <1>2, <1>3 DEF Decisions, PathSoFar

\* A worker that has answered, or thrown, has ended; Accepts is what Accepted says of
\* its state.
LEMMA AnswerDecides ==
  ASSUME Control, Calls, Answered, Decisions, FilterAnswer
  PROVE  Decisions'
<1>1. /\ pc = "returned" /\ pc' = "path" /\ goOn' = Accepts(CurrentPath[idx].filter, answer)
      /\ UNCHANGED <<occurrence, results, path, stage, idx>> /\ stack = <<>>
      /\ UNCHANGED <<stack, worker, failed>>
  BY DEF FilterAnswer, job, data, history, Control, PcFits
<1>2. Settle
  BY OtherSettles DEF PathStep
<1>3. ASSUME stage = "trigger", occurrence = "event"
      PROVE  PathSoFar'
  <2> DEFINE steps == TriggerPaths[path]
  <2>1. /\ path \in DOMAIN TriggerPaths /\ idx \in Nat /\ 1 .. idx \subseteq DOMAIN steps
        /\ idx >= 1 /\ CurrentPath = steps /\ Called = steps[idx].worker
    BY <1>1, <1>3, VisitedSteps DEF Control, PcFits
  <2>2. ASSUME NEW j \in 1 .. idx - 1
        PROVE  Yes(steps[j])'
    <3>1. Yes(steps[j])
      BY <1>1, <1>3 DEF Decisions, PathSoFar
    <3> QED
      BY <1>1, <1>2, <2>1, <3>1, PathSteps, VerdictsStay
  <2>3. /\ worker[steps[idx].worker] \in {"Pass", "Fail"}
        /\ steps[idx].worker \notin failed => (answer <=> worker[steps[idx].worker] = "Pass")
    BY <1>1, <2>1 DEF Answered
  <2>4. steps[idx].filter \in FilterActions /\ steps[idx].worker \in Modifiers
    BY <2>1, PathSteps
  <2>5. Rests(steps[idx].worker)
    BY <1>1, <2>3, NothingOn DEF Rests
  <2>6. IF goOn' THEN Yes(steps[idx]) ELSE No(steps[idx])
    BY <1>1, <1>3, <2>1, <2>3, <2>4, <2>5 DEF Yes, No, Accepts, Accepted, FilterActions
  <2>7. IF goOn' THEN Yes(steps[idx])' ELSE No(steps[idx])'
    BY <1>1, <1>2, <2>4, <2>6, VerdictsStay
  <2> QED
    BY <1>1, <2>2, <2>7 DEF PathSoFar
<1>4. occurrence = "event" => \A p \in DOMAIN TriggerPaths : Recorded(p)'
  BY <1>1, <1>2, RecordsStay DEF Decisions
<1> QED
  BY <1>1, <1>3, <1>4 DEF Decisions, PathSoFar

\* The worker whose exception a path handles has refused its step.
LEMMA ThrownRefuses ==
  ASSUME Control, Calls, Answered, stage = "trigger", pc = "handle"
  PROVE  idx \in DOMAIN TriggerPaths[path] /\ No(TriggerPaths[path][idx])
<1>1. /\ path \in DOMAIN TriggerPaths /\ idx \in DOMAIN TriggerPaths[path]
      /\ Called = TriggerPaths[path][idx].worker
  BY VisitedSteps DEF Control, PcFits
<1>2. worker[Called] = "Exception" /\ stack = <<>>
  BY DEF Answered, Control, PcFits
<1> QED
  BY <1>1, <1>2, NothingOn DEF No, Rests, Accepted

LEMMA FailDecides ==
  ASSUME Control, Calls, Answered, Decisions, FailPath
  PROVE  Decisions'
<1>1. /\ pc = "handle" /\ pc' = "path" /\ ~goOn'
      /\ UNCHANGED <<occurrence, results, path, stage, idx>>
  BY DEF FailPath, job, data
<1>2. Settle
  BY OtherSettles DEF PathStep
<1>3. ASSUME stage = "trigger", occurrence = "event"
      PROVE  PathSoFar'
  <2> DEFINE steps == TriggerPaths[path]
  <2>1. path \in DOMAIN TriggerPaths /\ idx \in Nat /\ 1 .. idx \subseteq DOMAIN steps
    BY <1>1, <1>3, VisitedSteps
  <2>2. idx \in DOMAIN steps /\ No(steps[idx])
    BY <1>1, <1>3, ThrownRefuses
  <2>3. ASSUME NEW j \in 1 .. idx - 1
        PROVE  Yes(steps[j])'
    <3>1. Yes(steps[j])
      BY <1>1, <1>3 DEF Decisions, PathSoFar
    <3> QED
      BY <1>1, <1>2, <2>1, <3>1, PathSteps, VerdictsStay
  <2>4. No(steps[idx])'
    BY <1>1, <1>2, <2>1, <2>2, PathSteps, VerdictsStay
  <2> QED
    BY <1>1, <2>3, <2>4 DEF PathSoFar
<1>4. occurrence = "event" => \A p \in DOMAIN TriggerPaths : Recorded(p)'
  BY <1>1, <1>2, RecordsStay DEF Decisions
<1> QED
  BY <1>1, <1>3, <1>4 DEF Decisions, PathSoFar

\* Recording the status of the path that runs.
LEMMA RecordDecides ==
  ASSUME Control, Calls, Decisions, NEW st \in {"Pass", "Fail", "Exception"}, Record(st), Settle,
         stage = "trigger", pc # "next", idx >= 1, occurrence = "event",
         LET steps == TriggerPaths[path]
         IN  /\ \A j \in 1 .. idx - 1 : Yes(steps[j])
             /\ st = "Pass" => idx = Len(steps) /\ Yes(steps[idx])
             /\ st # "Pass" => No(steps[idx])
  PROVE  \A p \in DOMAIN TriggerPaths : Recorded(p)'
<1> SUFFICES ASSUME NEW p \in DOMAIN TriggerPaths PROVE Recorded(p)'
  OBVIOUS
<1>1. results' = [results EXCEPT ![path] = [state |-> st, index |-> idx - 1]]
  BY DEF Record
<1>2. CASE p # path
  <2>1. results'[p] = results[p]
    BY <1>1, <1>2 DEF Control, TypeOK
  <2> QED
    BY <2>1, RecordsStay DEF Decisions
<1>3. CASE p = path
  <2> DEFINE steps == TriggerPaths[p]
  <2>1. idx \in Nat /\ idx \in DOMAIN steps /\ DOMAIN steps = 1 .. Len(steps) /\ Len(steps) \in Nat
    BY <1>3, VisitedSteps, PathSteps
  <2>2. results'[p].state = st /\ results'[p].index + 1 = idx
    <3>1. results'[p] = [state |-> st, index |-> idx - 1]
      BY <1>1, <1>3 DEF Control, TypeOK
    <3> QED
      BY <2>1, <3>1
  <2>3. \A j \in DOMAIN steps : (Yes(steps[j]) => Yes(steps[j])') /\ (No(steps[j]) => No(steps[j])')
    BY PathSteps, VerdictsStay
  <2>4. \A j \in 1 .. idx - 1 : Yes(steps[j])'
    <3>1. \A j \in 1 .. idx - 1 : j \in DOMAIN steps /\ Yes(steps[j])
      BY <1>3, <2>1
    <3> QED
      BY <2>3, <3>1
  <2>5. CASE st = "Pass"
    BY <1>3, <2>1, <2>2, <2>3, <2>4, <2>5 DEF Recorded
  <2>6. CASE st # "Pass"
    BY <1>3, <2>1, <2>2, <2>3, <2>4, <2>6 DEF Recorded
  <2> QED
    BY <2>5, <2>6
<1> QED
  BY <1>2, <1>3

LEMMA PathDecides ==
  ASSUME Control, Calls, Answered, Decisions, PathThrows \/ TriggerPathDone
  PROVE  Decisions'
<1>1. Settle /\ UNCHANGED <<occurrence, stage, path>> /\ pc # "next" /\ pc \in {"handle", "path"}
  BY OtherSettles DEF PathStep, PathThrows, TriggerPathDone, PathDone, job
<1>2. CASE stage # "trigger" \/ occurrence # "event"
  <2>1. occurrence = "event" => results' = results
    BY <1>2 DEF PathThrows, TriggerPathDone, Record
  <2> QED
    BY <1>1, <1>2, <2>1, RecordsStay DEF Decisions, PathSoFar
<1>3. CASE stage = "trigger" /\ occurrence = "event"
  <2> DEFINE steps == TriggerPaths[path]
  <2>1. /\ path \in DOMAIN TriggerPaths /\ idx \in Nat /\ 1 .. idx \subseteq DOMAIN steps
        /\ CurrentPath = steps
    BY <1>1, <1>3, VisitedSteps
  <2>2. \A j \in 1 .. idx - 1 : Yes(steps[j])
    BY <1>1, <1>3 DEF Decisions, PathSoFar
  <2>3. CASE PathThrows
    <3>1. pc = "handle" /\ pc' = "caught" /\ Record("Exception") /\ idx' = idx /\ idx >= 1
      BY <1>3, <2>3 DEF PathThrows, Control, PcFits
    <3>2. No(steps[idx])
      BY <1>3, <3>1, ThrownRefuses
    <3>3. \A p \in DOMAIN TriggerPaths : Recorded(p)'
      BY <1>1, <1>3, <2>2, <3>1, <3>2, RecordDecides
    <3>4. ASSUME NEW p \in DOMAIN TriggerPaths, p = path
          PROVE  \A j \in 1 .. idx - 1 : Yes(TriggerPaths[p][j])'
      BY <1>1, <2>1, <2>2, <3>4, PathSteps, VerdictsStay
    <3>5. PathSoFar'
      BY <1>1, <2>1, <3>1, <3>4 DEF PathSoFar
    <3> QED
      BY <3>3, <3>5 DEF Decisions
  <2>4. CASE TriggerPathDone
    <3>1. /\ pc = "path" /\ pc' = "next" /\ idx >= 1 /\ Record(IF goOn THEN "Pass" ELSE "Fail")
          /\ goOn => idx = Len(steps)
      BY <1>3, <2>1, <2>4, PathsAreVisited DEF TriggerPathDone, PathDone
    <3>2. IF goOn THEN Yes(steps[idx]) ELSE No(steps[idx])
      BY <1>3, <3>1 DEF Decisions, PathSoFar
    <3>3. \A p \in DOMAIN TriggerPaths : Recorded(p)'
      <4>1. CASE goOn
        BY <1>1, <1>3, <2>2, <3>1, <3>2, <4>1, RecordDecides
      <4>2. CASE ~goOn
        BY <1>1, <1>3, <2>2, <3>1, <3>2, <4>2, RecordDecides
      <4> QED
        BY <4>1, <4>2
    <3> QED
      BY <3>1, <3>3 DEF Decisions, PathSoFar
  <2> QED
    BY <2>3, <2>4
<1> QED
  BY <1>2, <1>3

LEMMA DecisionsNext == Control /\ Calls /\ Answered /\ Decisions /\ [Next]_vars => Decisions'
<1> SUFFICES ASSUME Control, Calls, Answered, Decisions, [Next]_vars PROVE Decisions'
  OBVIOUS
<1>1. CASE WorkerStep
  BY <1>1, WorkerCalls, WorkerDecides
<1>2. CASE PathStep
  BY <1>2, AnswerDecides, FailDecides, PathDecides DEF PathStep
<1>3. CASE ScheduleStep \/ RunInserter \/ RunEndPath
  <2>1. Settle /\ UNCHANGED <<occurrence, results>>
    BY <1>3, OtherSettles
       DEF ScheduleStep, NextTriggerPath, InserterDone, SkipEvent, ScheduleThrows, EndPathDone,
           EndPathIgnores, EndPathThrows, EndWith, RunInserter, RunEndPath, job, data
  <2>2. stage' = "trigger" => idx' = 0
    BY <1>3 DEF ScheduleStep, NextTriggerPath, StartPath, InserterDone, SkipEvent, ScheduleThrows,
           EndPathDone, EndPathIgnores, EndPathThrows, EndWith, RunInserter, RunEndPath
  <2>3. PathSoFar'
    BY <2>2 DEF PathSoFar
  <2> QED
    BY <2>1, <2>3, RecordsStay DEF Decisions
<1>4. CASE SwitchStep \/ ModuleCatches \/ UNCHANGED vars
  <2>1. /\ UNCHANGED <<occurrence, results, stage, pc, path, idx, goOn, stack, worker, failed>>
    BY <1>4 DEF SwitchStep, SetTriggerPathEnabled, SetEndPathModuleEnabled, ModuleCatches,
           vars, control, job, data, history
  <2> QED
    BY <2>1 DEF Decisions, PathSoFar, Recorded, Yes, No, Rests, Accepted
<1>5. CASE \E kind \in {"event", "other"} : Begin(kind)
  BY <1>5 DEF Begin, NoResults, Decisions, PathSoFar, Recorded
<1> QED
  BY <1>1, <1>2, <1>3, <1>4, <1>5, NextSteps

LEMMA DecisionsInit == Init => Decisions
  BY DEF Init, Decisions, NoResults

LEMMA DecisionsAreTrue == Control /\ Decisions => StatusIsDecision
<1> SUFFICES ASSUME Control, Decisions, occurrence = "event", NEW p \in DOMAIN TriggerPaths,
                    \A i \in DOMAIN TriggerPaths[p] : TriggerPaths[p][i].worker \notin failed
             PROVE  LET steps == TriggerPaths[p]
                        last  == results[p].index + 1
                    IN  /\ results[p].state = "Pass" => \A i \in DOMAIN steps : Accepted(steps[i])
                        /\ results[p].state \in {"Fail", "Exception"} =>
                             ~Accepted(steps[last]) /\ \A i \in 1 .. last - 1 : Accepted(steps[i])
  BY DEF StatusIsDecision
<1> DEFINE steps == TriggerPaths[p]
           last  == results[p].index + 1
<1>1. Recorded(p) /\ DOMAIN steps = 1 .. Len(steps) /\ Len(steps) \in Nat
  BY PathSteps DEF Decisions
<1>2. \A i \in DOMAIN steps : (Yes(steps[i]) => Accepted(steps[i])) /\ (No(steps[i]) => ~Accepted(steps[i]))
  BY DEF Yes, No
<1>3. results[p].state = "Pass" => \A i \in DOMAIN steps : Accepted(steps[i])
  BY <1>1, <1>2 DEF Recorded
<1>4. ASSUME results[p].state \in {"Fail", "Exception"}
      PROVE  ~Accepted(steps[last]) /\ \A i \in 1 .. last - 1 : Accepted(steps[i])
  <2>1. last \in DOMAIN steps /\ No(steps[last]) /\ \A i \in 1 .. last - 1 : Yes(steps[i])
    BY <1>1, <1>4 DEF Recorded
  <2>2. 1 .. last - 1 \subseteq DOMAIN steps
    BY <1>1, <2>1
  <2> QED
    BY <1>2, <2>1, <2>2
<1> QED
  BY <1>3, <1>4

-----------------------------------------------------------------------------
(* What an occurrence throws.                                               *)

LEMMA ActionOf ==
  ASSUME Control, NEW c \in Categories
  PROVE  table[c] \in ActionCodes /\ Action(c) \in ActionCodes
  BY PathsAssumption DEF Control, TypeOK, Action, ActionCodes

\* An observer works for the end path only.
LEMMA ObserverSteps ==
  ASSUME Control, Calls, NEW w \in Workers, NEW s \in Seq(Frames), Step(w, s),
         w \in Observers \/ (stage = "end" /\ s = <<>>)
  PROVE  s = <<>> /\ stage = "end" /\ idx' \in DOMAIN EndPath /\ w = EndPath[idx'].worker
<1>1. s = <<>> /\ w = Called'
  BY PathsAssumption DEF Step
<1>2. CASE stage = "inserter"
  BY <1>1, <1>2, PathsAssumption DEF Step, Called
<1>3. CASE stage \in {"trigger", "end"}
  <2>1. pc # "next" /\ idx \in Nat
    BY DEF Step, Control, TypeOK
  <2>2. idx' \in 1 .. Len(CurrentPath)
    <3>1. Len(CurrentPath) \in Nat
      BY <1>3, <2>1, CurrentSteps
    <3>2. CASE pc = "module" /\ idx' = idx
      BY <1>3, <2>1, <3>1, <3>2 DEF Control, PcFits, Calls
    <3>3. CASE idx' = idx + 1 /\ idx < Len(CurrentPath)
      BY <2>1, <3>1, <3>3
    <3> QED
      BY <3>2, <3>3 DEF Step
  <2>3. w = CurrentPath[idx'].worker
    BY <1>1, <1>3 DEF Called, CurrentPath, Step
  <2>4. stage = "end"
    BY <1>3, <2>1, <2>2, <2>3, CurrentSteps, PathsAssumption
  <2> QED
    BY <1>1, <2>2, <2>3, <2>4, CurrentSteps DEF CurrentPath
<1> QED
  BY <1>2, <1>3 DEF Step, Control, TypeOK

\* What may be raised in an event.
LEMMA RaisedEscapes ==
  ASSUME Control, occurrence = "event", NEW c \in Categories, NEW s, Raised(c, s)
  PROVE  Escapes(c) /\ (stage = "end" /\ s = <<>> => Surfaces(c))
  BY ActionOf DEF Raised, Escapes, Surfaces, WorkerAction, Action, ActionCodes

LEMMA WorkerCauses ==
  ASSUME Control, Calls, Causes, Others, NEW w \in Workers, NEW s \in Seq(Frames), Step(w, s),
         CachedFits'
  PROVE  Causes' /\ Others'
<1>1. /\ UNCHANGED <<table, stage, occurrence, outcome, goOn>> /\ stage # "idle"
      /\ outcome = "none" /\ pc' \in {"module", "returned"} \cup IF stage = "inserter" THEN {"caught"} ELSE {"handle"}
  BY DEF Step, Ended, Started, Others
<1>2. ASSUME NEW v \in Workers, worker'[v] = "Exception", occurrence = "event"
      PROVE  \/ worker[v] = "Exception" /\ cached'[v] = cached[v]
             \/ v = w /\ cached'[v] \in Categories /\ Raised(cached'[v], s)
  BY <1>2 DEF Step, Alone, Ended, Started, CachedFits
<1>3. occurrence = "event" =>
        \A v \in Modifiers \cup {Inserter} : worker'[v] = "Exception" => Escapes(cached'[v])
  BY <1>2, RaisedEscapes DEF Causes, Workers
<1>4. occurrence = "event" =>
        \A v \in Observers : worker'[v] = "Exception" => Surfaces(cached'[v])
  BY <1>2, RaisedEscapes, ObserverSteps DEF Causes, Workers
<1>5. Causes'
  BY <1>1, <1>3, <1>4 DEF Causes, Escapes, Surfaces, ThrowsForCause
<1>6. \A v \in Observers : (\A j \in DOMAIN EndPath : EndPath[j].worker # v) => worker'[v] = "Ready"
  BY ObserverSteps DEF Others, Step, Alone, Workers
<1>7. ASSUME occurrence = "other", stage = "end", pc' \in {"path", "module", "returned"}, NEW j \in 1 .. idx'
      PROVE  worker'[EndPath[j].worker] # "Exception"
  <2>1. s = <<>> /\ idx' \in DOMAIN EndPath /\ w = EndPath[idx'].worker
    BY <1>7, ObserverSteps DEF Step, NoRequests
  <2>2. worker'[w] # "Exception"
    BY <1>7, <2>1 DEF Step, Ended, Started
  <2>3. CASE EndPath[j].worker = w
    BY <2>2, <2>3
  <2>4. CASE EndPath[j].worker # w
    <3>0. j # idx' /\ idx \in Nat
      BY <2>1, <2>4 DEF Control, TypeOK
    <3>1. j \in 1 .. idx /\ pc \in {"module", "path"} /\ idx \in Nat
      <4>1. CASE pc = "module" /\ idx' = idx
        BY <3>0, <4>1
      <4>2. CASE pc = "path" /\ idx' = idx + 1
        BY <3>0, <4>2
      <4> QED
        BY <4>1, <4>2 DEF Step
    <3>2. worker[EndPath[j].worker] # "Exception"
      BY <1>7, <3>1 DEF Others
    <3>3. idx <= Len(EndPath) /\ Len(EndPath) \in Nat
      BY <1>7, <3>1, PathsHaveLength DEF Calls, CurrentPath
    <3>4. EndPath[j].worker \in Workers
      BY <1>7, <3>1, <3>3, CurrentSteps DEF CurrentPath, Workers
    <3> QED
      BY <2>4, <3>2, <3>4 DEF Step, Alone
  <2> QED
    BY <2>3, <2>4
<1>8. Others'
  BY <1>1, <1>6, <1>7 DEF Others
<1> QED
  BY <1>5, <1>8

LEMMA PathCauses ==
  ASSUME Control, Causes, Others, PathStep
  PROVE  Causes' /\ Others'
<1>1. /\ UNCHANGED <<table, worker, cached, occurrence, outcome, stage>>
      /\ stage \in {"trigger", "end"} /\ outcome = "none"
  BY DEF PathStep, FilterAnswer, FailPath, PathThrows, TriggerPathDone, PathDone, config, job, data,
         Control, PcFits, Others
<1>2. stage = "trigger" /\ pc' = "caught" => Action(exc') # "FailPath" /\ Action(exc)' = Action(exc)'
  BY DEF PathStep, FilterAnswer, FailPath, PathThrows, TriggerPathDone, config, job, Action
<1>3. Causes'
  BY <1>1, <1>2 DEF Causes, Escapes, Surfaces, ThrowsForCause, Action
<1>4. occurrence = "other" => ~FailPath
  BY DEF FailPath, Action
<1>5. occurrence = "other" => goOn'
  BY <1>1, <1>4 DEF PathStep, FilterAnswer, PathThrows, TriggerPathDone, Accepts, Others
<1>6. stage \in {"trigger", "end"} /\ pc' = "caught" => idx' >= 1
  BY DEF PathStep, FilterAnswer, FailPath, PathThrows, TriggerPathDone, Control, PcFits
<1>7. occurrence = "other" /\ stage = "end" /\ pc' \in {"path", "module", "returned"} =>
        idx' = idx /\ pc = "returned"
  BY <1>4 DEF PathStep, FilterAnswer, PathThrows, TriggerPathDone
<1> QED
  BY <1>1, <1>3, <1>5, <1>6, <1>7 DEF Others

\* The worker whose exception the path handles or has let out.
LEMMA Thrower ==
  ASSUME Control, Calls, Answered, Others, pc \in {"handle", "caught"}
  PROVE  /\ Called \in IF stage = "end" THEN Observers ELSE Modifiers \cup {Inserter}
         /\ stage = "inserter" <=> Called = Inserter
         /\ Called \in Workers /\ worker[Called] = "Exception"
         /\ exc = cached[Called] /\ exc \in Categories /\ exc \in thrown
<1>1. worker[Called] = "Exception" /\ exc = cached[Called]
  BY DEF Answered
<1>2. /\ Called \in IF stage = "end" THEN Observers ELSE Modifiers \cup {Inserter}
      /\ stage = "inserter" <=> Called = Inserter
  <2>1. CASE stage = "inserter"
    BY <2>1 DEF Called
  <2>2. CASE stage \in {"trigger", "end"}
    <3>1. Len(CurrentPath) \in Nat /\ idx \in Nat /\ idx >= 1 /\ idx <= Len(CurrentPath)
      BY <2>2, CurrentSteps DEF Calls, Others, Control, TypeOK, PcFits
    <3>2. CurrentPath[idx].worker \in IF stage = "end" THEN Observers ELSE Modifiers
      BY <2>2, <3>1, CurrentSteps
    <3> QED
      BY <2>2, <3>2, PathsAssumption DEF Called
  <2> QED
    BY <2>1, <2>2 DEF Control, TypeOK, PcFits
<1>3. Called \in Workers
  BY <1>2 DEF Workers
<1>4. exc \in Categories
  BY <1>1, <1>3 DEF Control, CachedFits
<1>5. exc \in thrown
  BY <1>4, PathsAssumption DEF Answered
<1> QED
  BY <1>1, <1>2, <1>3, <1>4, <1>5

\* An exception that ends the schedule and processOneOccurrence_ is one that must
\* surface, is foreign or the inserter's, and is not ignored.
LEMMA ScheduleCause ==
  ASSUME Control, Calls, Answered, Causes, Others, ScheduleThrows
  PROVE  ThrowsForCause'
<1>1. /\ pc = "caught" /\ stage \in {"trigger", "inserter"} /\ Action(exc) # "SkipEvent"
      /\ UNCHANGED <<table, worker, cached, thrown, occurrence>>
      /\ outcome' = ProcessorOutcome(exc)
  BY DEF ScheduleThrows, EndWith, config, data, history
<1>2. exc \in thrown /\ exc \in Categories /\ worker[Called] = "Exception" /\ exc = cached[Called]
      /\ (stage = "inserter" => Called = Inserter)
  BY <1>1, Thrower
<1> SUFFICES ASSUME outcome' = "threw"
             PROVE  MayThrow(exc)
  BY <1>1, <1>2 DEF ThrowsForCause, MayThrow
<1>3. Action(exc) # "IgnoreCompletely"
  BY <1>1 DEF ProcessorOutcome
<1>4. CASE occurrence # "event"
  BY <1>4 DEF MayThrow, Control, TypeOK
<1>5. CASE stage = "inserter" /\ occurrence = "event"
  BY <1>1, <1>2, <1>3, <1>5 DEF MayThrow, Action
<1>6. CASE stage = "trigger" /\ occurrence = "event"
  <2>1. Escapes(exc)
    BY <1>1, <1>6, Thrower DEF Causes
  <2>2. Action(exc) # "FailPath" /\ Action(exc) = table[exc]
    BY <1>1, <1>6 DEF Causes, Action
  <2>3. exc = "StdException" \/ table[exc] = "Rethrow"
    BY <1>1, <1>2, <2>1, <2>2, ActionOf DEF Escapes, ActionCodes
  <2> QED
    BY <1>3, <2>2, <2>3 DEF MayThrow
<1> QED
  BY <1>1, <1>4, <1>5, <1>6

\* So is one that ends the end path.
LEMMA EndPathCause ==
  ASSUME Control, Calls, Answered, Causes, Others, EndPathThrows
  PROVE  ThrowsForCause'
<1>1. /\ pc = "caught" /\ stage = "end" /\ Action(exc) # "IgnoreCompletely"
      /\ UNCHANGED <<table, worker, cached, thrown, occurrence>>
  BY DEF EndPathThrows, EndWith, config, data, history
<1>2. exc \in thrown /\ (occurrence = "event" => Surfaces(exc))
  BY <1>1, Thrower DEF Causes
<1>3. MayThrow(exc)
  BY <1>1, <1>2 DEF MayThrow, Surfaces, Action, Control, TypeOK
<1> QED
  BY <1>1, <1>2, <1>3 DEF ThrowsForCause, MayThrow

LEMMA ScheduleCauses ==
  ASSUME Control, Calls, Answered, Causes, Others, ScheduleStep
  PROVE  Causes' /\ Others'
<1>1. /\ UNCHANGED <<table, worker, cached, occurrence>> /\ stage # "idle" /\ pc' \in {"next", "path"}
      /\ outcome' \in IF stage' # "idle" THEN {"none"}
                        ELSE IF ScheduleThrows \/ EndPathThrows THEN {"threw", "returned"} ELSE {"returned"}
      /\ goOn' = TRUE \/ (goOn' = goOn /\ stage' # "idle")
      /\ stage' = "end" => pc' = "next"
  <2>1. outcome = "none"
    BY DEF Others, ScheduleStep, NextTriggerPath, InserterDone, SkipEvent, ScheduleThrows,
           EndPathDone, EndPathIgnores, EndPathThrows
  <2>2. CASE NextTriggerPath
    BY <2>1, <2>2 DEF NextTriggerPath, StartPath, ScheduleThrows, EndPathThrows, config, job, data
  <2>3. CASE InserterDone
    BY <2>1, <2>3 DEF InserterDone, ScheduleThrows, EndPathThrows, config, job, data
  <2>4. CASE SkipEvent
    BY <2>1, <2>4 DEF SkipEvent, ScheduleThrows, EndPathThrows, config, job, data
  <2>5. CASE ScheduleThrows
    BY <2>5 DEF ScheduleThrows, EndWith, ProcessorOutcome, config, data
  <2>6. CASE EndPathDone
    BY <2>6 DEF EndPathDone, EndWith, ScheduleThrows, EndPathThrows, PathDone, config, data
  <2>7. CASE EndPathIgnores
    BY <2>7 DEF EndPathIgnores, EndWith, ScheduleThrows, EndPathThrows, config, data
  <2>8. CASE EndPathThrows
    BY <2>8 DEF EndPathThrows, EndWith, ProcessorOutcome, config, data
  <2> QED
    BY <2>2, <2>3, <2>4, <2>5, <2>6, <2>7, <2>8 DEF ScheduleStep
<1>2. Others'
  BY <1>1 DEF Others
<1>3. ThrowsForCause'
  <2>1. CASE ScheduleThrows \/ EndPathThrows
    BY <2>1, ScheduleCause, EndPathCause
  <2>2. CASE ~(ScheduleThrows \/ EndPathThrows)
    BY <1>1, <2>2 DEF ThrowsForCause
  <2> QED
    BY <2>1, <2>2
<1>4. ASSUME occurrence = "other", outcome' = "returned"
      PROVE  \A v \in Observers : worker[v] # "Exception"
  <2>0. ~ScheduleThrows /\ ~EndPathThrows
    BY <1>4 DEF ScheduleThrows, EndPathThrows, EndWith, ProcessorOutcome, Action
  <2>1. EndPathDone
    BY <1>1, <1>4, <2>0 DEF ScheduleStep, NextTriggerPath, InserterDone, SkipEvent, EndPathIgnores, Action, job
  <2>2. goOn /\ pc = "path" /\ stage = "end" /\ idx = Len(EndPath)
    BY <1>4, <2>1 DEF EndPathDone, PathDone, Others, CurrentPath
  <2>3. DOMAIN EndPath = 1 .. idx
    BY <2>2, CurrentSteps DEF CurrentPath
  <2>4. \A j \in DOMAIN EndPath : worker[EndPath[j].worker] # "Exception"
    BY <1>4, <2>2, <2>3 DEF Others
  <2> QED
    BY <2>4 DEF Others
<1>5. occurrence \in {"event", "other"} /\ outcome # "returned"
  BY <1>1 DEF Control, TypeOK, Others
<1>6. Causes'
  BY <1>1, <1>3, <1>4, <1>5 DEF Causes, Escapes, Surfaces
<1> QED
  BY <1>2, <1>6

LEMMA InserterCauses ==
  ASSUME Control, Causes, Others, RunInserter
  PROVE  Causes' /\ Others'
<1>1. /\ stage = "trigger" /\ stage' \in {"inserter", "end"} /\ pc' # "caught"
      /\ UNCHANGED <<table, occurrence, outcome, goOn>>
      /\ \A v \in Workers \ {Inserter} : worker'[v] = worker[v] /\ cached'[v] = cached[v]
      /\ worker'[Inserter] # "Exception" /\ (stage' = "end" => pc' = "next")
  <2>1. CASE TriggerPaths = <<>>
    BY <2>1 DEF RunInserter, config, job, Control, InserterWaits
  <2>2. CASE TriggerPaths # <<>>
    BY <2>2, InserterRuns
       DEF RunInserter, Execute, SetState, config, job, Control, TypeOK, Workers
  <2> QED
    BY <2>1, <2>2
<1>2. Inserter \notin Observers /\ outcome = "none"
  BY <1>1, PathsAssumption DEF Others
<1>3. Causes'
  BY <1>1, <1>2 DEF Causes, Escapes, Surfaces, ThrowsForCause, Workers
<1> QED
  BY <1>1, <1>2, <1>3 DEF Others, Workers

LEMMA EndPathCauses ==
  ASSUME Control, Causes, Others, RunEndPath
  PROVE  Causes' /\ Others'
<1>1. /\ stage = "end" /\ UNCHANGED <<table, occurrence>> /\ goOn'
      /\ \A v \in Workers : worker'[v] = "Ready" \/ (worker'[v] = worker[v] /\ cached'[v] = cached[v])
      /\ pc' \in {"next", "path"} /\ stage' \in {"idle", "end"}
      /\ IF EndPath = <<>> THEN stage' = "idle" /\ outcome' = "returned"
           ELSE idx' = 0 /\ outcome' = outcome /\ stage' = "end"
  BY DEF RunEndPath, EndWith, StartPath, Reset, config, job
<1>2. outcome = "none" /\ occurrence \in {"event", "other"}
  BY <1>1 DEF Others, Control, TypeOK
<1>3. EndPath = <<>> => \A v \in Observers : worker[v] = "Ready"
  BY DEF Others
<1>4. Causes'
  BY <1>1, <1>2, <1>3 DEF Causes, Escapes, Surfaces, ThrowsForCause, Workers
<1> QED
  BY <1>1, <1>2, <1>4 DEF Others, Workers

LEMMA BeginCauses ==
  ASSUME Control, Causes, Others, NEW kind \in {"event", "other"}, Begin(kind)
  PROVE  Causes' /\ Others'
<1>1. /\ stage = "idle" /\ stage' = "trigger" /\ pc' = "next"
      /\ UNCHANGED <<table, goOn>> /\ occurrence' = kind /\ outcome' = "none"
      /\ kind = "event" => outcome = "returned"
      /\ \A v \in Modifiers \cup {Inserter} : worker'[v] = "Ready"
      /\ \A v \in Observers : worker'[v] = worker[v] /\ cached'[v] = cached[v]
  BY PathsAssumption DEF Begin, Reset, config, Workers
<1>2. Causes'
  BY <1>1 DEF Causes, Surfaces, ThrowsForCause
<1> QED
  BY <1>1, <1>2 DEF Others

LEMMA CausesNext ==
  Control /\ Calls /\ Answered /\ Causes /\ Others /\ [Next]_vars => Causes' /\ Others'
<1> SUFFICES ASSUME Control, Calls, Answered, Causes, Others, [Next]_vars
             PROVE  Causes' /\ Others'
  OBVIOUS
<1>1. CASE WorkerStep
  <2>1. CachedFits'
    BY <1>1, WorkerControl DEF Control
  <2> QED
    BY <1>1, <2>1, WorkerCalls, WorkerCauses
<1>2. CASE SwitchStep \/ UNCHANGED vars
  <2>1. UNCHANGED <<table, control, job, data, history>>
    BY <1>2 DEF SwitchStep, SetTriggerPathEnabled, SetEndPathModuleEnabled, vars, config
  <2> QED
    BY <2>1 DEF control, job, data, history, Causes, Others, Escapes, Surfaces, ThrowsForCause,
           MayThrow, Action
<1>3. CASE ModuleCatches
  BY <1>3 DEF ModuleCatches, InModule, config, job, data, Causes, Others, Escapes, Surfaces,
         ThrowsForCause, Control, PcFits
<1> QED
  BY <1>1, <1>2, <1>3, NextSteps, PathCauses, ScheduleCauses, InserterCauses, EndPathCauses,
     BeginCauses

LEMMA CausesInit == Init => Causes /\ Others
  BY DEF Init, Causes, Others, ThrowsForCause, Workers

-----------------------------------------------------------------------------
(* The end path of an event.                                                *)

\* The end paths of which the last part is true: nothing on them is disabled, and no
\* module of theirs is a filter, inverted or there twice.
PlainEndPath ==
  /\ MaxSwitches = 0
  /\ \A j \in DOMAIN EndPath : EndPath[j].filter = "Normal"
  /\ \A i, j \in DOMAIN EndPath : EndPath[i].worker = EndPath[j].worker => i = j

LEMMA Beyond ==
  ASSUME NEW m \in Nat, NEW i \in Nat, NEW k \in Nat, i <= k, NEW j \in k + 1 .. m
  PROVE  j \in 1 .. m /\ j # k /\ j \in i + 1 .. m
  OBVIOUS

LEMMA WorkerEnds ==
  ASSUME PlainEndPath, Control, Calls, EndFits,
         NEW w \in Workers, NEW s \in Seq(Frames), Step(w, s)
  PROVE  EndFits'
<1> SUFFICES ASSUME stage' = "end", pc' # "next"
             PROVE  EndFits'
  BY DEF EndFits
<1>1. /\ UNCHANGED <<stage, occurrence, goOn>> /\ stage = "end" /\ pc # "next" /\ idx \in Nat
      /\ pc' # "path" /\ thrown \subseteq thrown'
  BY DEF Step, Alone, Ended, Started, Control, TypeOK
<1> DEFINE size == Len(EndPath)
<1>2. size \in Nat /\ DOMAIN EndPath = 1 .. size
  BY <1>1, CurrentSteps DEF CurrentPath
<1> HIDE DEF size
<1>3. idx \in Nat /\ idx' \in Nat /\ idx' >= idx /\ (pc = "path" => idx' = idx + 1) /\ (pc # "path" => idx' = idx)
  BY <1>1 DEF Step
<1>4. ASSUME NEW j \in idx' + 1 .. size
      PROVE  worker'[EndPath[j].worker] = "Ready"
  <2>1. j \in DOMAIN EndPath /\ j # idx' /\ j \in idx + 1 .. size
    <3>1. size \in Nat /\ idx' \in Nat /\ idx \in Nat /\ idx <= idx'
      BY <1>2, <1>3
    <3>2. j \in 1 .. size /\ j # idx' /\ j \in idx + 1 .. size
      BY <3>1, Beyond
    <3> QED
      BY <1>2, <3>2
  <2>2. worker[EndPath[j].worker] = "Ready" /\ EndPath[j].worker \in Observers
    BY <1>1, <1>2, <2>1, CurrentSteps DEF EndFits, CurrentPath, size
  <2>3. EndPath[j].worker # w
    BY <2>1, <2>2, ObserverSteps DEF PlainEndPath
  <2> QED
    BY <2>2, <2>3 DEF Step, Alone, Workers
<1>5. pc = "path" => worker[w] = "Ready"
  <2>1. ASSUME pc = "path"
        PROVE  worker[w] = "Ready"
    <3>1. s = <<>> /\ idx' = idx + 1
      BY <1>1, <2>1 DEF Step
    <3>2. w = EndPath[idx'].worker /\ idx' \in 1 .. size
      BY <1>1, <1>2, <3>1, ObserverSteps
    <3>3. idx' \in idx + 1 .. size
      BY <1>2, <1>3, <3>1, <3>2
    <3> QED
      BY <1>1, <3>2, <3>3 DEF EndFits, size
  <2> QED
    BY <2>1
<1>6. pc' = "returned" => answer'
  <2>1. ASSUME pc' = "returned"
        PROVE  answer'
    <3>1. s = <<>> /\ Ended(w, s) /\ worker'[w] # "Exception"
      BY <2>1 DEF Step, Ended, Started
    <3>2. w \in Observers /\ w \notin Filters
      BY <1>1, <1>2, <3>1, ObserverSteps, CurrentSteps, PathsAssumption DEF CurrentPath, size
    <3>3. answer' \/ (worker[w] = "Fail" /\ w \notin On(stack))
      BY <3>1, <3>2 DEF Ended
    <3>4. w \notin On(stack) => pc = "path"
      <4>1. CASE pc = "module"
        <5>1. stack # <<>> /\ stack \in Seq(Frames) /\ w = Called /\ Nested(stack, Called)
          BY <1>1, <3>1, <4>1 DEF Calls, Step, Called, CurrentPath, Control, TypeOK, Frames
        <5>2. Len(stack) \in DOMAIN stack
          BY <5>1, LenProperties, EmptySeq
        <5> QED
          BY <5>1, <5>2 DEF Nested, On
      <4> QED
        BY <4>1 DEF Step
    <3> QED
      BY <1>5, <3>3, <3>4
  <2> QED
    BY <2>1
<1>7. occurrence' = "event" => goOn'
  BY <1>1 DEF EndFits, Step
<1> QED
  BY <1>4, <1>6, <1>7 DEF EndFits, size

LEMMA PathEnds ==
  ASSUME PlainEndPath, Control, Calls, Answered, Causes, Others, EndFits, PathStep
  PROVE  EndFits'
<1> SUFFICES ASSUME stage = "end" PROVE EndFits'
  BY DEF EndFits, PathStep, FilterAnswer, FailPath, PathThrows, TriggerPathDone
<1>1. UNCHANGED <<stage, occurrence, idx, worker, thrown>> /\ pc' \in {"path", "caught"} /\ pc # "next"
  BY DEF PathStep, FilterAnswer, FailPath, PathThrows, TriggerPathDone, job, data, history
<1>2. ASSUME occurrence = "event", ~goOn'
      PROVE  pc' = "path" /\ "StdException" \in thrown
  <2>1. CASE FilterAnswer
    <3>1. Len(EndPath) \in Nat /\ DOMAIN EndPath = 1 .. Len(EndPath) /\ idx >= 1 /\ idx <= Len(EndPath)
      BY <2>1, CurrentSteps DEF CurrentPath, FilterAnswer, Control, PcFits, Calls
    <3>2. idx \in DOMAIN EndPath
      BY <3>1 DEF Control, TypeOK
    <3>3. EndPath[idx].filter = "Normal"
      BY <3>2 DEF PlainEndPath
    <3>4. answer /\ goOn' = Accepts(EndPath[idx].filter, answer)
      BY <2>1 DEF FilterAnswer, EndFits, CurrentPath
    <3> QED
      BY <1>2, <3>3, <3>4 DEF Accepts
  <2>2. CASE FailPath
    <3>1. pc = "handle" /\ Action(exc) = "FailPath" /\ pc' = "path"
      BY <2>2 DEF FailPath
    <3>2. Surfaces(exc) /\ exc \in thrown
      BY <1>2, <3>1, Thrower DEF Causes
    <3> QED
      BY <1>2, <3>1, <3>2 DEF Surfaces, Action
  <2>3. CASE PathThrows
    BY <1>2, <2>3 DEF PathThrows, EndFits
  <2> QED
    BY <2>1, <2>2, <2>3 DEF PathStep, TriggerPathDone
<1> QED
  BY <1>1, <1>2 DEF EndFits

LEMMA StartEnds ==
  ASSUME PlainEndPath, Control, Visits, RunEndPath
  PROVE  EndFits'
<1>1. EndPath # <<>> => idx' = 0 /\ goOn' /\ pc' = "path"
  BY DEF RunEndPath, StartPath
<1>2. EndPath = <<>> => stage' = "idle"
  BY DEF RunEndPath, EndWith
<1>3. switches = 0
  BY DEF PlainEndPath, Control, TypeOK
<1>4. \A w \in Observers : worker'[w] = "Ready"
  BY <1>3 DEF RunEndPath, Reset, Workers, Visits, SwitchFits
<1>5. \A j \in 1 .. Len(EndPath) : EndPath[j].worker \in Observers
  BY CurrentSteps DEF RunEndPath, CurrentPath
<1> QED
  BY <1>1, <1>2, <1>4, <1>5 DEF EndFits

LEMMA EndFitsNext ==
  ASSUME PlainEndPath, Control, Visits, Calls, Answered, Causes, Others, EndFits, [Next]_vars
  PROVE  EndFits'
<1>1. CASE WorkerStep
  BY <1>1, WorkerCalls, WorkerEnds
<1>2. CASE ScheduleStep \/ RunInserter \/ \E kind \in {"event", "other"} : Begin(kind)
  <2>1. stage' = "end" => pc' = "next"
    <3>1. CASE ScheduleStep
      BY <3>1 DEF ScheduleStep, NextTriggerPath, InserterDone, SkipEvent, ScheduleThrows, EndPathDone,
             EndPathIgnores, EndPathThrows, EndWith
    <3>2. CASE RunInserter
      BY <3>2 DEF RunInserter
    <3> QED
      BY <1>2, <3>1, <3>2 DEF Begin
  <2> QED
    BY <2>1 DEF EndFits
<1>3. CASE SwitchStep
  <2>1. MaySwitch /\ switches = 0
    BY <1>3 DEF SwitchStep, SetTriggerPathEnabled, SetEndPathModuleEnabled, PlainEndPath, Control, TypeOK
  <2> QED
    BY <2>1 DEF MaySwitch, PlainEndPath
<1>4. CASE ModuleCatches
  BY <1>4 DEF ModuleCatches, InModule, EndFits, config, job, data
<1>5. CASE UNCHANGED vars
  BY <1>5 DEF vars, control, job, data, history, EndFits
<1> QED
  BY <1>1, <1>2, <1>3, <1>4, <1>5, NextSteps, PathEnds, StartEnds

-----------------------------------------------------------------------------
(* The theorems.                                                            *)

LEMMA OutcomesInit == Init => OInv /\ EndFits
  BY AnsweredInit, DecisionsInit, CausesInit DEF OInv, EndFits, Init

LEMMA OutcomesNext == IInv /\ OInv /\ [Next]_vars => OInv'
  BY AnsweredNext, DecisionsNext, CausesNext DEF IInv, OInv

THEOREM OutcomesInvariant == Spec => []OInv
<1>1. Init => OInv
  BY OutcomesInit
<1>2. IInv /\ OInv /\ [Next]_vars => OInv'
  BY OutcomesNext
<1> QED
  BY <1>1, <1>2, PathsInvariant, PTL DEF Spec

\* The status of a path is what its modules decided, however often they are asked for
\* on other paths and by other modules.
THEOREM StatusDecided == Spec => []StatusIsDecision
<1>1. IInv /\ OInv => StatusIsDecision
  BY DecisionsAreTrue DEF IInv, OInv
<1> QED
  BY <1>1, PathsInvariant, OutcomesInvariant, PTL

\* An occurrence throws only for an exception whose action allows it, also where a
\* disabled module of the end path has kept one from an earlier occurrence.
THEOREM ThrownForCause == Spec => []ThrowsForCause
<1>1. OInv => ThrowsForCause
  BY DEF OInv, Causes
<1> QED
  BY <1>1, OutcomesInvariant, PTL

\* Both, and that in an event only an exception to be rethrown or a foreign one keeps
\* the end path from going on to its next module.
THEOREM OutcomesCaused ==
  ASSUME PlainEndPath
  PROVE  Spec => []OutcomesHaveCause
<1>1. Init => EndFits
  BY OutcomesInit
<1>2. IInv /\ OInv /\ EndFits /\ [Next]_vars => EndFits'
  BY EndFitsNext DEF IInv, OInv
<1>3. IInv /\ OInv /\ EndFits => OutcomesHaveCause
  <2> SUFFICES ASSUME IInv, OInv, EndFits
               PROVE  OutcomesHaveCause
    OBVIOUS
  <2>1. ASSUME stage = "end", occurrence = "event", pc = "path"
        PROVE  goOn \/ "StdException" \in thrown
    BY <2>1 DEF EndFits
  <2>2. ASSUME stage = "end", occurrence = "event", pc = "caught"
        PROVE  exc = "StdException" \/ table[exc] = "Rethrow"
    BY <2>2, Thrower DEF IInv, OInv, Causes, Surfaces
  <2>3. OutputsStillRun
    BY <2>1, <2>2 DEF OutputsStillRun
  <2> QED
    BY <2>3, DecisionsAreTrue DEF IInv, OInv, Causes, OutcomesHaveCause
<1> QED
  BY <1>1, <1>2, <1>3, PathsInvariant, OutcomesInvariant, PTL DEF Spec
=============================================================================
