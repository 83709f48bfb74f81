----------------------------- MODULE Job_proof -----------------------------
(***************************************************************************)
(* Theorems about Job, for all modules, engines, lists of states and       *)
(* numbers of exceptions.                                                  *)
(*                                                                         *)
(* What holds of a job depends on how far it has come, so the inductive    *)
(* invariant says for each stretch of it which modules were asked to begin *)
(* and to end, what the machine does and what has been thrown:             *)
(*                                                                         *)
(*   "begin source", "begin modules"          beginJob(): nothing ended;   *)
(*   "run" ... "machine ended"                all have begun, none ended;  *)
(*   "abort", "exception"                     so too, and something thrown;*)
(*   "end job" ... "post end job"             the rest of the modules are  *)
(*                                            those in "ending".           *)
(***************************************************************************)
EXTENDS Job, FiniteSetTheorems, TLAPS

Beginning == {"begin source", "begin modules"}
Handling == {"next item", "item", "event"}
Running == {"run", "machine ended"} \union Handling
Failing == {"abort", "exception"}
Ending == {"end modules", "end path modules", "post end job"}
Places == Beginning \union Running \union Failing \union Ending \union {"end job", "exit", "killed"}

RngShape(r) ==
  /\ DOMAIN r = {"creationOkay", "failed", "dict", "tracker", "snapshot"}
  /\ r.creationOkay \in BOOLEAN /\ r.failed \in BOOLEAN
  /\ DOMAIN r.tracker = DOMAIN r.dict /\ IsFiniteSet(DOMAIN r.dict)

TypeInv ==
  /\ pc \in Places /\ callEndJob \in BOOLEAN /\ collected \in BOOLEAN
  /\ throws \in Nat /\ shutdown \in {0, 1} /\ itemsSince \in {0, 1}
  /\ enabled \subseteq EndWorkers /\ begun \subseteq Workers /\ ending \subseteq Workers
  /\ ended \in [Workers -> {0, 1}]
  /\ RngShape(rng)

\* The modules that endJob() has been called of.
EndedOnes ==
  CASE pc = "end modules" -> TriggerWorkers \ ending
    [] pc = "end path modules" -> TriggerWorkers \union (enabled \ ending)
    [] pc = "post end job" \/ (pc = "exit" /\ JobBegan) -> TriggerWorkers \union enabled
    [] OTHER -> {}

CallsInv ==
  /\ pc \in Beginning => rng.creationOkay /\ enabled = EndWorkers
  /\ pc \in Running \union Failing \union Ending \union {"end job"} => ~rng.creationOkay
  /\ pc \in Running \union Failing => callEndJob
  /\ pc # "killed" /\ ~rng.creationOkay => begun = Workers

EndsInv ==
  /\ pc = "end modules" => ending \subseteq TriggerWorkers
  /\ pc = "end path modules" => ending \subseteq enabled
  /\ pc = "end job" => ending = TriggerWorkers
  /\ pc # "killed" => \A w \in Workers : ended[w] = IF w \in EndedOnes THEN 1 ELSE 0
  /\ \A w \in Workers : ended[w] = 1 => w \in begun

MachineInv ==
  /\ pc \in Beginning \union {"run", "exit"} \union Ending => machine = "none"
  /\ pc \in Handling => machine = "active"
  /\ pc = "machine ended" => machine = "terminated"

SignalInv ==
  /\ shutdown = 0 => itemsSince = 0
  /\ itemsSince = 1 => pc \notin {"item", "event"}

Wrong == throws > 0 \/ rng.failed

CodeInv ==
  /\ pc \in Beginning \union Running => ~Wrong /\ ~collected /\ rc = -1
  /\ pc \in Failing => Wrong /\ ~collected
  /\ pc = "end job" => ~collected
  /\ pc \in {"end job"} \union Ending => (Wrong <=> rc = 1 \/ collected)
  /\ pc = "exit" => rc = IF Wrong THEN 1 ELSE 0

\* No engine has been restored before the job has begun.
SeedInv == pc \in Beginning => \A l \in Established(rng) : rng.tracker[l] = "seed"

IInv == TypeInv /\ CallsInv /\ EndsInv /\ MachineInv /\ SignalInv /\ CodeInv /\ SeedInv

-----------------------------------------------------------------------------
\* The random-number service keeps its shape.

LEMMA EngineCreated ==
  ASSUME NEW r, RngShape(r), NEW label, NEW seed, NEW r2 \in CreateEngine(r, label, seed)
  PROVE  /\ RngShape(r2) /\ r2.creationOkay = r.creationOkay /\ r2.failed = r.failed
         /\ Established(r2) = Established(r) \union {label}
         /\ r2.tracker[label] = "seed"
         /\ \A l \in Established(r) :
              l # label /\ r2.tracker[l] = r.tracker[l] /\ r2.dict[l] = r.dict[l]
<1>1. /\ r2 = [r EXCEPT !.dict = Extended(r.dict, label, seed),
                       !.tracker = Extended(r.tracker, label, "seed")]
      /\ label \notin Established(r)
  BY DEF CreateEngine
<1>2. /\ DOMAIN r2 = DOMAIN r /\ r2.creationOkay = r.creationOkay /\ r2.failed = r.failed
      /\ r2.dict = Extended(r.dict, label, seed) /\ r2.tracker = Extended(r.tracker, label, "seed")
  BY <1>1 DEF RngShape
<1>3. ASSUME NEW f, NEW v
      PROVE  LET g == Extended(f, label, v) IN
             /\ DOMAIN g = DOMAIN f \union {label} /\ g[label] = v
             /\ \A l \in DOMAIN f : l # label => g[l] = f[l]
  BY DEF Extended
<1>4. /\ DOMAIN r2.dict = DOMAIN r.dict \union {label}
      /\ \A l \in DOMAIN r.dict : l # label => r2.dict[l] = r.dict[l]
  BY <1>2, <1>3
<1>5. /\ DOMAIN r2.tracker = DOMAIN r.tracker \union {label} /\ r2.tracker[label] = "seed"
      /\ \A l \in DOMAIN r.tracker : l # label => r2.tracker[l] = r.tracker[l]
  BY <1>2, <1>3
<1>6. IsFiniteSet(DOMAIN r2.dict)
  BY <1>4, FS_AddElement DEF RngShape
<1> QED BY <1>1, <1>2, <1>4, <1>5, <1>6 DEF RngShape, Established

LEMMA Drawn ==
  ASSUME NEW r, RngShape(r), NEW label \in Established(r)
  PROVE  /\ RngShape(Draw(r, label)) /\ Established(Draw(r, label)) = Established(r)
         /\ Draw(r, label).creationOkay = r.creationOkay /\ Draw(r, label).failed = r.failed
         /\ Draw(r, label).tracker = r.tracker /\ Draw(r, label).snapshot = r.snapshot
         /\ \A l \in Established(r) :
              Draw(r, label).dict[l] = IF l = label THEN (r.dict[l] + 1) % Cycle ELSE r.dict[l]
BY DEF RngShape, Draw, Established

LEMMA SnapshotTaken ==
  ASSUME NEW r, RngShape(r)
  PROVE  LET t == TakeSnapshot(r) IN
         /\ RngShape(t) /\ t.creationOkay = r.creationOkay /\ t.failed = r.failed
         /\ t.dict = r.dict /\ t.tracker = r.tracker /\ t.snapshot = Listed(r.dict)
BY DEF RngShape, TakeSnapshot

LEMMA ShapeRestored ==
  ASSUME NEW r, RngShape(r), NEW list, NEW refused, NEW how
  PROVE  LET t == Restored(r, list, refused, how) IN
         /\ RngShape(t) /\ t.creationOkay = r.creationOkay /\ t.failed = (refused # {})
         /\ t.snapshot = r.snapshot /\ Established(t) = Established(r)
<1> DEFINE done == {i \in DOMAIN list : list[i].label \in Established(r) /\ \A j \in refused : i < j}
           ofLabel(l) == {i \in done : list[i].label = l}
           t == Restored(r, list, refused, how)
<1>1. /\ t.failed = (refused # {}) /\ t.creationOkay = r.creationOkay /\ t.snapshot = r.snapshot
      /\ DOMAIN t = DOMAIN r
      /\ DOMAIN t.dict = Established(r) /\ DOMAIN t.tracker = Established(r)
  BY DEF Restored, RngShape
<1> QED BY <1>1 DEF RngShape, Established

\* An entry that is refused, and those behind it, leave their engines alone.
LEMMA RefusedIsKept ==
  ASSUME NEW r, RngShape(r), NEW list, DOMAIN list \subseteq Nat, NEW refused, refused \subseteq DOMAIN list,
         NEW how, NEW l \in Established(r),
         \A i \in DOMAIN list : list[i].label = l => i \in refused
  PROVE  LET t == Restored(r, list, refused, how) IN
         t.dict[l] = r.dict[l] /\ t.tracker[l] = r.tracker[l]
<1> DEFINE done == {i \in DOMAIN list : list[i].label \in Established(r) /\ \A j \in refused : i < j}
           ofLabel(m) == {i \in done : list[i].label = m}
           t == Restored(r, list, refused, how)
<1>1. /\ t.dict = [m \in Established(r) |->
                     IF ofLabel(m) = {} THEN r.dict[m] ELSE list[Max(ofLabel(m))].state]
      /\ t.tracker = [m \in Established(r) |-> IF ofLabel(m) = {} THEN r.tracker[m] ELSE how]
  BY DEF Restored, RngShape
<1>2. ofLabel(l) = {}
  OBVIOUS
<1> QED BY <1>1, <1>2

\* Where none is refused, each engine of the list has the state the list has of it.
LEMMA ListIsRestored ==
  ASSUME NEW r, RngShape(r), NEW list, DOMAIN list \subseteq Nat,
         \A i, j \in DOMAIN list : list[i].label = list[j].label => i = j,
         NEW how, NEW k \in DOMAIN list, list[k].label \in Established(r)
  PROVE  Restored(r, list, {}, how).dict[list[k].label] = list[k].state
<1> DEFINE none == {}
           done == {i \in DOMAIN list : list[i].label \in Established(r) /\ \A j \in none : i < j}
           ofLabel(m) == {i \in done : list[i].label = m}
           t == Restored(r, list, none, how)
<1>1. /\ t.dict = [m \in Established(r) |->
                     IF ofLabel(m) = {} THEN r.dict[m] ELSE list[Max(ofLabel(m))].state]
      /\ t.tracker = [m \in Established(r) |-> IF ofLabel(m) = {} THEN r.tracker[m] ELSE how]
  BY DEF Restored, RngShape
<1>2. ofLabel(list[k].label) = {k}
  OBVIOUS
<1>3. Max({k}) = k
  BY DEF Max
<1>4. t.dict[list[k].label] =
        IF ofLabel(list[k].label) = {} THEN r.dict[list[k].label]
        ELSE list[Max(ofLabel(list[k].label))].state
  BY <1>1
<1>5. t = Restored(r, list, {}, how)
  OBVIOUS
<1> HIDE DEF done, ofLabel, t, none
<1> QED BY <1>2, <1>3, <1>4, <1>5

LEMMA JobRestored ==
  ASSUME NEW r, RngShape(r), NEW file, ~r.failed
  PROVE  LET t == PostBeginJob(r, file) IN
         /\ RngShape(t) /\ Established(t) = Established(r)
         /\ IF t.failed THEN t.creationOkay = r.creationOkay ELSE ~t.creationOkay
<1> DEFINE refused == {i \in DOMAIN file : RefusedFromFile(r, file, i)}
           restored == Restored(r, file, refused, "file")
<1>1. /\ RngShape(restored) /\ restored.creationOkay = r.creationOkay
      /\ Established(restored) = Established(r)
  BY ShapeRestored
<1> HIDE DEF restored
<1>2. PostBeginJob(r, file) = IF restored.failed THEN restored ELSE [restored EXCEPT !.creationOkay = FALSE]
  BY DEF PostBeginJob, RestoreFromFile, restored
<1> QED BY <1>1, <1>2 DEF RngShape, Established

LEMMA EventRestored ==
  ASSUME NEW r, RngShape(r), NEW lists
  PROVE  LET t == PreProcessEvent(r, lists) IN
         /\ RngShape(t) /\ t.creationOkay = r.creationOkay /\ Established(t) = Established(r)
         /\ t.snapshot = Listed(r.dict)
         /\ ~RestoreState => t.dict = r.dict /\ t.failed = r.failed
<1> DEFINE taken == TakeSnapshot(r)
           list == CHOOSE list \in lists : TRUE
           refused == {i \in DOMAIN list : RefusedFromEvent(taken, list[i])}
<1> HIDE DEF list, refused
<1>1. /\ RngShape(taken) /\ taken.creationOkay = r.creationOkay /\ Established(taken) = Established(r)
      /\ taken.snapshot = Listed(r.dict) /\ taken.dict = r.dict /\ taken.failed = r.failed
  BY SnapshotTaken DEF Established
<1> HIDE DEF taken
<1>2. ASSUME NEW some, NEW bad
      PROVE  LET t == Restored(taken, some, bad, "product") IN
             /\ RngShape(t) /\ t.creationOkay = r.creationOkay /\ Established(t) = Established(r)
             /\ t.snapshot = Listed(r.dict)
  <2>1. RngShape(taken)
    BY <1>1
  <2>2. LET t == Restored(taken, some, bad, "product") IN
        /\ RngShape(t) /\ t.creationOkay = taken.creationOkay /\ t.snapshot = taken.snapshot
        /\ Established(t) = Established(taken)
    BY <2>1, ShapeRestored
  <2> QED BY <2>2, <1>1
<1>3. PreProcessEvent(r, lists) =
        IF ~RestoreState THEN taken
        ELSE IF lists = {} THEN [taken EXCEPT !.failed = TRUE]
        ELSE Restored(taken, list, refused, "product")
  BY DEF PreProcessEvent, RestoreSnapshot, taken, list, refused
<1>4. LET t == [taken EXCEPT !.failed = TRUE] IN
      /\ RngShape(t) /\ t.creationOkay = r.creationOkay /\ Established(t) = Established(r)
      /\ t.snapshot = Listed(r.dict)
  BY <1>1 DEF RngShape, Established
<1> QED BY <1>1, <1>2, <1>3, <1>4

\* An engine of which the event has no state keeps the one it had.
LEMMA UnlistedIsKept ==
  ASSUME NEW r, RngShape(r), NEW lists, NEW l \in Established(r), ~Restores(lists, l)
  PROVE  PreProcessEvent(r, lists).dict[l] = r.dict[l]
<1> DEFINE taken == TakeSnapshot(r)
           list == CHOOSE list \in lists : TRUE
           refused == {i \in DOMAIN list : RefusedFromEvent(taken, list[i])}
           t == PreProcessEvent(r, lists)
<1>1. RngShape(taken) /\ taken.dict = r.dict /\ Established(taken) = Established(r)
  BY SnapshotTaken DEF Established
<1>2. t = IF ~RestoreState THEN taken
          ELSE IF lists = {} THEN [taken EXCEPT !.failed = TRUE]
          ELSE Restored(taken, list, refused, "product")
  BY DEF PreProcessEvent, RestoreSnapshot
<1>3. RestoreState /\ lists # {} => \A i \in DOMAIN list : list[i].label # l
  BY DEF Restores
<1> HIDE DEF taken, list, refused, t
<1>4. CASE RestoreState /\ lists # {}
  <2> DEFINE done == {i \in DOMAIN list : list[i].label \in Established(taken) /\ \A j \in refused : i < j}
             ofLabel(m) == {i \in done : list[i].label = m}
  <2>1. t.dict = [m \in Established(taken) |->
                    IF ofLabel(m) = {} THEN taken.dict[m] ELSE list[Max(ofLabel(m))].state]
    BY <1>1, <1>2, <1>4 DEF Restored, RngShape
  <2>2. ofLabel(l) = {}
    BY <1>3, <1>4
  <2> QED BY <1>1, <2>1, <2>2 DEF t
<1>5. CASE ~(RestoreState /\ lists # {})
  BY <1>1, <1>2, <1>5 DEF t, RngShape
<1> QED BY <1>4, <1>5

\* A list has one state of each engine.
LEMMA ListedStates ==
  ASSUME NEW d, IsFiniteSet(DOMAIN d), NEW l \in DOMAIN d
  PROVE  StatesOf(Listed(d), l) = {d[l]}
<1> DEFINE S == DOMAIN d
           n == Cardinality(S)
           labels == SetToSeq(S)
           list == Listed(d)
<1>1. n \in Nat /\ ExistsBijection(1 .. n, S)
  BY FS_CardinalityType
<1>2. \E f \in [1 .. n -> S] : IsInjective(f)
  BY <1>1 DEF ExistsBijection, Bijection, Injection
<1>3. labels \in [1 .. n -> S] /\ IsInjective(labels)
  BY <1>2 DEF SetToSeq
<1>4. list = [i \in DOMAIN labels |-> [label |-> labels[i], state |-> d[labels[i]]]]
  BY DEF Listed
<1>5. labels \in Injection(1 .. n, S)
  BY <1>3 DEF Injection
<1>6. IsFiniteSet(1 .. n) /\ Cardinality(1 .. n) = n
  BY <1>1, FS_Interval
<1> HIDE DEF labels, list, n
<1>7. labels \in Surjection(1 .. n, S)
  BY <1>5, <1>6, FS_Injection DEF n
<1>8. PICK i \in 1 .. n : labels[i] = l
  BY <1>7 DEF Surjection
<1>9. {j \in DOMAIN list : list[j].label = l} = {i}
  BY <1>3, <1>4, <1>8 DEF IsInjective
<1>10. list[i].state = d[l]
  BY <1>3, <1>4, <1>8
<1> QED BY <1>9, <1>10 DEF StatesOf, list

-----------------------------------------------------------------------------

\* Which steps may change what.

LEMMA SignalFrame ==
  ASSUME [Next]_vars
  PROVE  \/ UNCHANGED <<shutdown, itemsSince>>
         \/ /\ CountItem /\ UNCHANGED shutdown
            /\ pc \in {"item", "event"} /\ pc' \in {"next item", "abort"}
         \/ shutdown' \in {shutdown, 1} /\ UNCHANGED itemsSince /\ pc' \in {pc, "killed"}
BY DEF Next, Step, BeginSource, BeginModule, PostBegin, MakeMachine, NextItem, OtherItem, StartEvent,
       EndEvent, Unwinds, Abort, RunEnds, Rethrown, EndMachine, EndModule, EndPathModules, EndSource,
       PostEnd, NewEngine, DrawNumber, SaveSnapshot, SetEnabled, Signal,
       vars, jobVars, workerVars, rngVars, signalVars

\* What a step does with the modules.
WorkerWay ==
  \/ /\ UNCHANGED <<begun, ended, ending>>
     /\ enabled' = enabled \/ (pc = "event" /\ pc' = "event" /\ \E w \in EndWorkers : SetEnabled(w))
     /\ pc' \in {pc, "killed"} \/ pc \in Beginning \union Running \union {"abort", "end job", "post end job"}
          \/ (pc = "exception" /\ ~callEndJob) \/ (pc = "end path modules" /\ pc' = "post end job" /\ ending = {})
     /\ pc = "machine ended" => pc' \in {pc, "killed"}
     /\ pc = "begin modules" /\ pc' = "run" => TriggerWorkers \union enabled \subseteq begun
  \/ \E w \in Workers : BeginModule(w)
  \/ \E w \in Workers : EndModule(w)
  \/ EndPathModules
  \/ /\ pc' = "end job" /\ ending' = TriggerWorkers /\ UNCHANGED <<enabled, begun, ended>>
     /\ pc = "machine ended" \/ (pc = "exception" /\ callEndJob)

LEMMA WorkerWayTaken == [Next]_vars => WorkerWay
BY DEF Next, Step, BeginSource, PostBegin, MakeMachine, NextItem, Stops, OtherItem, StartEvent,
       EndEvent, Unwinds, Abort, RunEnds, Rethrown, EndMachine, EndSource, PostEnd, NewEngine,
       DrawNumber, SaveSnapshot, SetEnabled, Signal, Collects, GivesUp,
       WorkerWay, Beginning, Running, Handling, vars, jobVars, workerVars, rngVars, signalVars

LEMMA ServiceFrame ==
  ASSUME [Next]_vars
  PROVE  \/ rng' = rng /\ ~(pc = "begin modules" /\ pc' = "run")
         \/ \E label \in Labels : NewEngine(label) \/ DrawNumber(label)
         \/ PostBegin \/ PostEnd
         \/ \E lists \in EventLists : StartEvent(lists)
BY DEF Next, Step, BeginSource, BeginModule, MakeMachine, NextItem, Stops, OtherItem,
       EndEvent, Unwinds, Abort, RunEnds, Rethrown, EndMachine, EndModule, EndPathModules, EndSource,
       SaveSnapshot, SetEnabled, Signal, GivesUp,
       vars, jobVars, workerVars, rngVars, signalVars

\* The way of a job, with what each step does to the machine and the sentry.
Way ==
  \/ UNCHANGED <<pc, machine, callEndJob>>
  \/ pc' = "killed" /\ UNCHANGED <<machine, callEndJob>>
  \/ /\ pc \in Beginning /\ pc' \in Beginning \union {"exit"} /\ UNCHANGED <<machine, callEndJob>>
  \/ pc = "begin modules" /\ pc' = "run" /\ UNCHANGED machine /\ callEndJob'
  \/ pc = "run" /\ pc' = "next item" /\ machine' = "active" /\ UNCHANGED callEndJob
  \/ /\ pc \in Handling /\ UNCHANGED callEndJob
     /\ \/ pc' \in Handling /\ UNCHANGED machine
        \/ pc' = "machine ended" /\ machine' = "terminated"
        \/ pc' = "abort"
  \/ pc = "abort" /\ pc' = "exception" /\ UNCHANGED callEndJob
  \/ pc = "machine ended" /\ pc' = "end job" /\ machine' = "none" /\ callEndJob' = FALSE
  \/ pc = "exception" /\ pc' = (IF callEndJob THEN "end job" ELSE "exit") /\ UNCHANGED <<machine, callEndJob>>
  \/ pc = "end job" /\ pc' = "end modules" /\ machine' = "none" /\ UNCHANGED callEndJob
  \/ pc = "end modules" /\ pc' = "end path modules" /\ UNCHANGED <<machine, callEndJob>>
  \/ pc = "end path modules" /\ pc' = "post end job" /\ UNCHANGED <<machine, callEndJob>>
  \/ pc = "post end job" /\ pc' = "exit" /\ UNCHANGED <<machine, callEndJob>>

LEMMA WayTaken == [Next]_vars => Way
BY DEF Next, Step, BeginSource, BeginModule, PostBegin, MakeMachine, NextItem, Stops, OtherItem,
       StartEvent, EndEvent, Unwinds, Abort, RunEnds, Rethrown, EndMachine, EndModule,
       EndPathModules, EndSource, PostEnd, NewEngine, DrawNumber, SaveSnapshot, SetEnabled, Signal,
       GivesUp, MayThrow, Collects, Way, Beginning, Handling,
       vars, jobVars, workerVars, rngVars, signalVars

-----------------------------------------------------------------------------
\* Each step keeps the invariant.

LEMMA MachineStep ==
  ASSUME IInv, [Next]_vars
  PROVE  MachineInv'
BY WayTaken DEF Way, IInv, CallsInv, MachineInv, Beginning, Handling, Running, Failing, Ending

LEMMA ItemCounted ==
  ASSUME itemsSince = 0, CountItem
  PROVE  itemsSince' = IF shutdown > 0 THEN 1 ELSE 0
<1>1. Min({1, 2}) = 1
  BY DEF Min
<1> QED BY <1>1 DEF CountItem

\* Once a signal has come no item is begun.
LEMMA NoItemBegins ==
  ASSUME [Next]_vars, pc' \in {"item", "event"}
  PROVE  pc \in {"item", "event"} \/ shutdown = 0
BY DEF Next, Step, BeginSource, BeginModule, PostBegin, MakeMachine, NextItem, Stops, OtherItem,
       StartEvent, EndEvent, Unwinds, Abort, RunEnds, Rethrown, EndMachine, EndModule,
       EndPathModules, EndSource, PostEnd, NewEngine, DrawNumber, SaveSnapshot, SetEnabled, Signal,
       GivesUp, vars, jobVars, workerVars, rngVars, signalVars

LEMMA SignalStep ==
  ASSUME IInv, [Next]_vars
  PROVE  SignalInv' /\ shutdown' \in {0, 1} /\ itemsSince' \in {0, 1}
<1> USE DEF IInv, TypeInv, SignalInv
<1>1. CASE UNCHANGED <<shutdown, itemsSince>>
  BY <1>1, NoItemBegins
<1>2. CASE /\ CountItem /\ UNCHANGED shutdown
           /\ pc \in {"item", "event"} /\ pc' \in {"next item", "abort"}
  <2>1. itemsSince = 0 /\ shutdown' = shutdown /\ shutdown \in {0, 1}
    BY <1>2
  <2>2. itemsSince' = IF shutdown > 0 THEN 1 ELSE 0
    BY <1>2, <2>1, ItemCounted
  <2> HIDE DEF IInv, TypeInv, SignalInv
  <2>3. itemsSince' \in {0, 1} /\ (shutdown' = 0 => itemsSince' = 0)
    <3>1. CASE shutdown = 0
      BY <3>1, <2>1, <2>2
    <3>2. CASE shutdown = 1
      BY <3>2, <2>1, <2>2
    <3> QED BY <2>1, <3>1, <3>2
  <2> QED BY <1>2, <2>1, <2>3 DEF SignalInv
<1>3. CASE shutdown' \in {shutdown, 1} /\ UNCHANGED itemsSince /\ pc' \in {pc, "killed"}
  BY <1>3
<1> QED BY <1>1, <1>2, <1>3, SignalFrame

\* The start of an event, whether its modules see it or not.
LEMMA EventBegun ==
  ASSUME RngShape(rng), NEW lists, StartEvent(lists)
  PROVE  LET started == PreProcessEvent(rng, lists) IN
         /\ RngShape(rng') /\ rng'.creationOkay = rng.creationOkay
         /\ rng'.dict = started.dict /\ rng'.tracker = started.tracker
         /\ pc' # "abort" => rng'.failed = FALSE
         /\ pc' = "event" => ~started.failed
<1> DEFINE started == PreProcessEvent(rng, lists)
           excused == [started EXCEPT !.failed = FALSE]
<1>1. RngShape(started) /\ started.creationOkay = rng.creationOkay
  BY EventRestored
<1>2. /\ rng' = started \/ rng' = excused
      /\ pc' # "abort" => (rng' = started /\ ~started.failed) \/ rng' = excused
      /\ pc' = "event" => ~started.failed
  BY DEF StartEvent
<1> HIDE DEF started
<1>3. /\ RngShape(excused) /\ excused.creationOkay = rng.creationOkay /\ excused.failed = FALSE
      /\ excused.dict = started.dict /\ excused.tracker = started.tracker
  BY <1>1 DEF RngShape
<1> HIDE DEF excused
<1>4. started.failed \in BOOLEAN
  BY <1>1 DEF RngShape
<1>5. /\ RngShape(rng') /\ rng'.creationOkay = rng.creationOkay
      /\ rng'.dict = started.dict /\ rng'.tracker = started.tracker
      /\ pc' # "abort" => rng'.failed = FALSE
  BY <1>1, <1>2, <1>3, <1>4
<1> QED BY <1>2, <1>5 DEF started

\* What a step does with the random-number service.
ServiceStep ==
  /\ RngShape(rng')
  /\ IF pc = "begin modules" /\ pc' = "run" THEN ~rng'.creationOkay
     ELSE rng'.creationOkay = rng.creationOkay
  /\ rng'.failed # rng.failed =>
       \/ pc = "begin modules" /\ pc' = "exit" /\ rc' = 1
       \/ pc = "item" /\ pc' = "abort"

LEMMA ServiceKept ==
  ASSUME IInv, [Next]_vars
  PROVE  ServiceStep
<1> USE DEF IInv, TypeInv, ServiceStep
<1>1. ASSUME NEW label \in Labels, NewEngine(label) PROVE ServiceStep
  <2>1. rng' \in CreateEngine(rng, label, 0) /\ UNCHANGED pc
    BY <1>1 DEF NewEngine, jobVars
  <2>2. RngShape(rng') /\ rng'.creationOkay = rng.creationOkay /\ rng'.failed = rng.failed
    BY <2>1, EngineCreated
  <2> QED BY <2>1, <2>2
<1>2. ASSUME NEW label \in Labels, DrawNumber(label) PROVE ServiceStep
  BY <1>2, Drawn DEF DrawNumber, jobVars
<1>3. CASE PostBegin
  <2>1. ~rng.failed /\ RngShape(rng)
    BY <1>3 DEF PostBegin, CodeInv, Wrong, Beginning, Running
  <2>2. /\ RngShape(rng')
        /\ IF rng'.failed THEN rng'.creationOkay = rng.creationOkay ELSE ~rng'.creationOkay
    BY <1>3, <2>1, JobRestored DEF PostBegin
  <2>3. /\ pc = "begin modules"
        /\ IF rng'.failed THEN pc' = "exit" /\ rc' = 1 ELSE pc' = "run"
    BY <1>3 DEF PostBegin
  <2> QED BY <2>1, <2>2, <2>3 DEF RngShape
<1>4. ASSUME NEW lists \in EventLists, StartEvent(lists) PROVE ServiceStep
  <2>1. RngShape(rng') /\ rng'.creationOkay = rng.creationOkay
    BY <1>4, EventBegun
  <2>2. ~rng.failed
    BY <1>4 DEF StartEvent, CodeInv, Wrong, Running, Handling
  <2>3. rng'.failed = FALSE \/ (pc = "item" /\ pc' = "abort")
    BY <1>4, EventBegun DEF StartEvent
  <2>4. pc # "begin modules"
    BY <1>4 DEF StartEvent
  <2> QED BY <2>1, <2>2, <2>3, <2>4 DEF RngShape
<1>5. CASE PostEnd
  BY <1>5, SnapshotTaken DEF PostEnd, PostEndJob
<1>6. CASE rng' = rng /\ ~(pc = "begin modules" /\ pc' = "run")
  BY <1>6
<1> QED BY <1>1, <1>2, <1>3, <1>4, <1>5, <1>6, ServiceFrame

LEMMA SeedStep ==
  ASSUME IInv, [Next]_vars
  PROVE  SeedInv'
<1> SUFFICES ASSUME pc' \in Beginning PROVE \A l \in Established(rng') : rng'.tracker[l] = "seed"
  BY DEF SeedInv
<1>1. pc \in Beginning
  BY WayTaken DEF Way, Beginning, Handling
<1>2. \A l \in Established(rng) : rng.tracker[l] = "seed"
  BY <1>1 DEF IInv, SeedInv
<1>3. ASSUME NEW label \in Labels, NewEngine(label)
      PROVE  \A l \in Established(rng') : rng'.tracker[l] = "seed"
  <2>1. rng' \in CreateEngine(rng, label, 0) /\ RngShape(rng)
    BY <1>3 DEF NewEngine, IInv, TypeInv
  <2> QED BY <2>1, <1>2, EngineCreated
<1>4. rng' = rng \/ \E label \in Labels : NewEngine(label)
  BY <1>1, ServiceFrame DEF Beginning, DrawNumber, PostBegin, PostEnd, StartEvent
<1> QED BY <1>2, <1>3, <1>4

\* The modules that end have not ended before.
LEMMA EndsOnce ==
  ASSUME WorkersAssumption, IInv, NEW w \in Workers, EndModule(w)
  PROVE  ended[w] = 0
<1> USE DEF IInv, TypeInv, EndsInv, EndModule
<1>1. CASE pc = "end modules"
  BY <1>1 DEF EndedOnes, Ending
<1>2. CASE pc = "end path modules"
  BY <1>2 DEF EndedOnes, Ending, WorkersAssumption
<1> QED BY <1>1, <1>2

LEMMA TypeStep ==
  ASSUME WorkersAssumption, IInv, [Next]_vars
  PROVE  TypeInv'
<1> USE DEF IInv, TypeInv
<1>1. RngShape(rng')
  BY ServiceKept DEF ServiceStep
<1>2. shutdown' \in {0, 1} /\ itemsSince' \in {0, 1}
  BY SignalStep
<1>3. pc' \in Places /\ callEndJob' \in BOOLEAN
  BY WayTaken DEF Way, Places, Beginning, Running, Handling, Failing, Ending, PostBegin
<1>4. enabled' \subseteq EndWorkers
  BY WorkerWayTaken DEF WorkerWay, SetEnabled, BeginModule, EndModule, EndPathModules
<1>5. begun' \subseteq Workers /\ ending' \subseteq Workers /\ ended' \in [Workers -> {0, 1}]
  <2>1. CASE UNCHANGED <<begun, ended, ending>>
    BY <2>1
  <2>2. ASSUME NEW w \in Workers, EndModule(w)
        PROVE  begun' \subseteq Workers /\ ending' \subseteq Workers /\ ended' \in [Workers -> {0, 1}]
    <3>1. ended' = [ended EXCEPT ![w] = 1] /\ begun' = begun /\ ending' \subseteq ending
      <4>1. ended[w] = 0
        BY <2>2, EndsOnce
      <4>2. ended' = [ended EXCEPT ![w] = ended[w] + 1]
        BY <2>2 DEF EndModule
      <4>3. begun' = begun /\ ending' \subseteq ending
        BY <2>2 DEF EndModule
      <4> QED BY <4>1, <4>2, <4>3
    <3> QED BY <3>1
  <2>3. ASSUME NEW w \in Workers, BeginModule(w)
        PROVE  begun' \subseteq Workers /\ ending' \subseteq Workers /\ ended' \in [Workers -> {0, 1}]
    BY <2>3 DEF BeginModule
  <2>4. ASSUME ending' \in {enabled, TriggerWorkers}, UNCHANGED <<begun, ended>>
        PROVE  begun' \subseteq Workers /\ ending' \subseteq Workers /\ ended' \in [Workers -> {0, 1}]
    BY <2>4 DEF Workers
  <2> QED BY <2>1, <2>2, <2>3, <2>4, WorkerWayTaken DEF WorkerWay, EndPathModules
<1>6. throws' \in Nat /\ collected' \in BOOLEAN
  <2>1. (throws' = throws \/ throws' = throws + 1) /\ (collected' = collected \/ collected' = TRUE)
    BY DEF Next, Step, BeginSource, BeginModule, PostBegin, MakeMachine, NextItem, Stops, OtherItem,
       StartEvent, EndEvent, Unwinds, Abort, RunEnds, Rethrown, EndMachine, EndModule,
       EndPathModules, EndSource, PostEnd, NewEngine, DrawNumber, SaveSnapshot, SetEnabled, Signal,
       GivesUp, MayThrow, Collects, vars, jobVars, workerVars, rngVars, signalVars
  <2>2. throws' \in Nat
    BY <2>1
  <2>3. collected' \in BOOLEAN
    BY <2>1, Zenon
  <2> QED BY <2>2, <2>3
<1> QED BY <1>1, <1>2, <1>3, <1>4, <1>5, <1>6

LEMMA CallsStep ==
  ASSUME WorkersAssumption, IInv, [Next]_vars
  PROVE  CallsInv'
<1> USE DEF IInv, TypeInv
<1>1. pc' \in Beginning => rng'.creationOkay /\ enabled' = EndWorkers
  <2> SUFFICES ASSUME pc' \in Beginning PROVE rng'.creationOkay /\ enabled' = EndWorkers
    OBVIOUS
  <2>1. pc \in Beginning
    BY WayTaken DEF Way, Beginning, Handling
  <2>2. enabled' = enabled
    BY <2>1, WorkerWayTaken DEF WorkerWay, Beginning, BeginModule, EndModule, EndPathModules
  <2> QED BY <2>1, <2>2, ServiceKept DEF ServiceStep, CallsInv, Beginning
<1>2. pc' \in Running \union Failing \union Ending \union {"end job"} => ~rng'.creationOkay
  BY WayTaken, ServiceKept
     DEF Way, ServiceStep, CallsInv, Beginning, Handling, Running, Failing, Ending
<1>3. pc' \in Running \union Failing => callEndJob'
  BY WayTaken DEF Way, CallsInv, Beginning, Handling, Running, Failing, Ending
<1>4. pc' # "killed" /\ ~rng'.creationOkay => begun' = Workers
  <2> SUFFICES ASSUME pc' # "killed", ~rng'.creationOkay PROVE begun' = Workers
    OBVIOUS
  <2>1. begun \subseteq begun' /\ begun' \subseteq Workers
    BY TypeStep, WorkerWayTaken DEF WorkerWay, BeginModule, EndModule, EndPathModules
  <2>2. CASE pc = "begin modules" /\ pc' = "run"
    <3>1. TriggerWorkers \union enabled \subseteq begun
      BY <2>2, WorkerWayTaken DEF WorkerWay, BeginModule, GivesUp, jobVars, EndModule, EndPathModules
    <3> QED BY <2>1, <2>2, <3>1 DEF CallsInv, Beginning, Workers
  <2>3. CASE ~(pc = "begin modules" /\ pc' = "run")
    BY <2>1, <2>3, ServiceKept, WayTaken DEF ServiceStep, Way, CallsInv, Beginning, Handling
  <2> QED BY <2>2, <2>3
<1> QED BY <1>1, <1>2, <1>3, <1>4 DEF CallsInv

LEMMA EndsStep ==
  ASSUME WorkersAssumption, IInv, [Next]_vars
  PROVE  EndsInv'
<1> USE DEF IInv, TypeInv
<1>0. /\ Way /\ RngShape(rng')
      /\ pc' # "run" => rng'.creationOkay = rng.creationOkay
      /\ pc = "exception" => callEndJob
      /\ pc \in Beginning => rng.creationOkay
  BY WayTaken, ServiceKept DEF ServiceStep, CallsInv, Failing
<1>1. CASE /\ UNCHANGED <<begun, ended, ending>>
           /\ enabled' = enabled \/ (pc = "event" /\ pc' = "event")
           /\ pc' \in {pc, "killed"} \/ pc \in Beginning \union Running \union {"abort", "end job", "post end job"}
                \/ (pc = "exception" /\ ~callEndJob)
                \/ (pc = "end path modules" /\ pc' = "post end job" /\ ending = {})
           /\ pc = "machine ended" => pc' \in {pc, "killed"}
  <2>1. pc' # "killed" => EndedOnes' = EndedOnes
    <3>1. CASE pc' = pc
      BY <1>0, <1>1, <3>1 DEF EndedOnes, JobBegan
    <3>2. CASE pc \in Beginning \union Running \union {"abort"} /\ pc' # "killed"
      BY <1>0, <1>1, <3>2 DEF EndedOnes, JobBegan, Way, Beginning, Running, Handling
    <3>3. CASE pc \in {"end job", "post end job", "end path modules"} /\ pc' \notin {pc, "killed"}
      BY <1>0, <1>1, <3>3 DEF EndedOnes, JobBegan, EndsInv, Way, Beginning, Running, Handling, CallsInv, Ending
    <3> QED BY <1>0, <1>1, <3>1, <3>2, <3>3
  <2>2. /\ pc' = "end modules" => ending' \subseteq TriggerWorkers
        /\ pc' = "end path modules" => ending' \subseteq enabled'
        /\ pc' = "end job" => ending' = TriggerWorkers
    BY <1>0, <1>1 DEF EndsInv, Way, Beginning, Running, Handling
  <2>3. pc = "killed" => pc' = "killed"
    BY <1>0 DEF Way, Beginning, Handling
  <2> QED BY <1>1, <2>1, <2>2, <2>3 DEF EndsInv
<1>2. ASSUME NEW w \in Workers, BeginModule(w) PROVE EndsInv'
  <2>1. /\ pc = "begin modules" /\ pc' \in {"begin modules", "exit"} /\ UNCHANGED <<ended, ending>>
        /\ begun \subseteq begun'
    BY <1>2 DEF BeginModule, GivesUp, jobVars
  <2>2. EndedOnes = {} /\ EndedOnes' = {}
    BY <1>0, <2>1 DEF EndedOnes, JobBegan, Beginning
  <2> QED BY <2>1, <2>2 DEF EndsInv
<1>3. ASSUME NEW w \in Workers, EndModule(w) PROVE EndsInv'
  <2>1. /\ pc \in {"end modules", "end path modules"} /\ UNCHANGED <<pc, enabled, begun>>
        /\ w \in ending /\ ending' = ending \ {w}
        /\ ended' = [ended EXCEPT ![w] = ended[w] + 1]
    BY <1>3 DEF EndModule
  <2>2. ended[w] = 0 /\ w \in begun
    BY <1>3, <2>1, EndsOnce DEF CallsInv, Ending
  <2>3. EndedOnes' = EndedOnes \union {w}
    BY <2>1 DEF EndedOnes, JobBegan, EndsInv
  <2>4. \A v \in Workers : ended'[v] = IF v = w THEN 1 ELSE ended[v]
    <3>1. ended[w] + 1 = 1
      BY <2>2
    <3>2. ended' = [ended EXCEPT ![w] = 1]
      BY <2>1, <3>1
    <3> QED BY <3>2
  <2> QED BY <2>1, <2>2, <2>3, <2>4 DEF EndsInv
<1>4. CASE EndPathModules
  <2>1. /\ pc = "end modules" /\ pc' = "end path modules" /\ ending = {} /\ ending' = enabled
        /\ UNCHANGED <<enabled, begun, ended>>
    BY <1>4 DEF EndPathModules
  <2>2. EndedOnes' = EndedOnes
    BY <2>1 DEF EndedOnes, JobBegan
  <2> QED BY <2>1, <2>2 DEF EndsInv
<1>5. CASE /\ pc' = "end job" /\ ending' = TriggerWorkers /\ UNCHANGED <<enabled, begun, ended>>
           /\ pc = "machine ended" \/ (pc = "exception" /\ callEndJob)
  <2>1. EndedOnes = {} /\ EndedOnes' = {}
    BY <1>5 DEF EndedOnes, JobBegan
  <2> QED BY <1>5, <2>1 DEF EndsInv
<1> QED BY <1>1, <1>2, <1>3, <1>4, <1>5, WorkerWayTaken DEF WorkerWay

\* What a step does with the exceptions and the return code.
CodeWay ==
  \/ UNCHANGED <<throws, rc, collected, pc>>
  \/ pc' = "killed" /\ UNCHANGED <<throws, rc, collected>>
  \/ /\ pc \in Beginning \union Running \union {"abort", "end job", "end modules", "end path modules"}
     /\ pc' # "exit" /\ (pc' = "abort" => rng'.failed) /\ UNCHANGED <<throws, rc, collected>>
  \/ /\ pc \in Beginning /\ pc' = "exit" /\ rc' = 1 /\ UNCHANGED collected
     /\ throws' = throws + 1 \/ (rng'.failed /\ UNCHANGED throws)
  \/ pc \in Handling \union {"abort"} /\ throws' = throws + 1 /\ pc' \in Failing /\ UNCHANGED <<rc, collected>>
  \/ pc = "exception" /\ rc' = 1 /\ UNCHANGED <<throws, collected>>
  \/ pc \in Ending /\ pc' \in Ending /\ throws' = throws + 1 /\ collected' = TRUE /\ UNCHANGED rc
  \/ /\ pc = "post end job" /\ pc' = "exit" /\ UNCHANGED <<throws, collected>>
     /\ rc' = IF rc = 1 \/ collected THEN 1 ELSE 0

LEMMA CodeWayTaken == [Next]_vars => CodeWay
BY DEF Next, Step, BeginSource, BeginModule, PostBegin, MakeMachine, NextItem, Stops, OtherItem,
       StartEvent, EndEvent, Unwinds, Abort, RunEnds, Rethrown, EndMachine, EndModule,
       EndPathModules, EndSource, PostEnd, NewEngine, DrawNumber, SaveSnapshot, SetEnabled, Signal,
       GivesUp, MayThrow, Collects, CodeWay, Beginning, Running, Handling, Failing, Ending,
       vars, jobVars, workerVars, rngVars, signalVars

LEMMA CodeStep ==
  ASSUME IInv, [Next]_vars
  PROVE  CodeInv'
<1> USE DEF Beginning, Running, Handling, Failing, Ending
<1>1. /\ CodeInv /\ Way /\ throws \in Nat /\ pc \in Places
      /\ rng.failed \in BOOLEAN /\ rng'.failed \in BOOLEAN
      /\ rng'.failed = rng.failed \/ (pc = "begin modules" /\ pc' = "exit" /\ rc' = 1)
           \/ (pc = "item" /\ pc' = "abort")
  BY WayTaken, ServiceKept DEF IInv, TypeInv, ServiceStep, RngShape
<1>0. throws' = throws + 1 => throws' > 0
  <2>1. throws \in Nat
    BY <1>1
  <2> QED BY <2>1
<1>2. CASE UNCHANGED <<throws, rc, collected, pc>>
  <2>1. Wrong' = Wrong
    BY <1>1, <1>2 DEF Wrong
  <2> QED BY <1>1, <1>2, <2>1 DEF CodeInv
<1>3. CASE pc' = "killed" /\ UNCHANGED <<throws, rc, collected>>
  BY <1>3 DEF CodeInv
<1>4. CASE /\ pc \in Beginning \union Running \union {"abort", "end job", "end modules", "end path modules"}
           /\ pc' # "exit" /\ (pc' = "abort" => rng'.failed) /\ UNCHANGED <<throws, rc, collected>>
  <2>1. CASE pc' = "abort" /\ pc # "abort"
    <3>1. Wrong' /\ pc \in Running
      BY <1>1, <1>4, <2>1 DEF Wrong, Way
    <3> QED BY <1>1, <1>4, <2>1, <3>1 DEF CodeInv
  <2>2. CASE ~(pc' = "abort" /\ pc # "abort")
    <3>1. Wrong' = Wrong
      BY <1>1, <1>4, <2>2 DEF Wrong
    <3>2. CASE pc \in Beginning \union Running
      <4>1. pc' \in Beginning \union Running \union {"end job", "killed"}
        BY <1>1, <1>4, <2>2, <3>2 DEF Way
      <4>2. ~Wrong /\ ~collected /\ rc = -1
        BY <1>1, <3>2 DEF CodeInv
      <4>3. ~Wrong' /\ ~collected'
        BY <1>4, <3>1, <4>2, Zenon
      <4>4. rc' = -1
        BY <1>4, <4>2
      <4>5. rc' # 1
        BY <4>4
      <4>6. pc' \notin Failing \union Ending \union {"exit"}
        BY <4>1
      <4> HIDE DEF Beginning, Running, Handling, Failing, Ending
      <4> QED BY <4>3, <4>4, <4>5, <4>6, Zenon DEF CodeInv
    <3>3. CASE pc = "abort"
      <4>1. pc' \in {"abort", "exception", "killed"}
        BY <1>1, <3>3 DEF Way
      <4> QED BY <1>1, <1>4, <3>1, <3>3, <4>1 DEF CodeInv
    <3>4. CASE pc \in {"end job", "end modules", "end path modules"}
      <4>1. pc' \in {pc, "killed"} \union Ending
        BY <1>1, <3>4 DEF Way
      <4> QED BY <1>1, <1>4, <3>1, <3>4, <4>1 DEF CodeInv
    <3> QED BY <1>4, <3>2, <3>3, <3>4
  <2> QED BY <2>1, <2>2
<1>5. CASE /\ pc \in Beginning /\ pc' = "exit" /\ rc' = 1 /\ UNCHANGED collected
           /\ throws' = throws + 1 \/ (rng'.failed /\ UNCHANGED throws)
  <2>1. Wrong'
    BY <1>0, <1>1, <1>5 DEF Wrong
  <2> QED BY <1>5, <2>1 DEF CodeInv
<1>6. CASE /\ pc \in Handling \union {"abort"} /\ throws' = throws + 1 /\ pc' \in Failing
           /\ UNCHANGED <<rc, collected>>
  <2>1. Wrong'
    BY <1>0, <1>1, <1>6 DEF Wrong
  <2> QED BY <1>1, <1>6, <2>1 DEF CodeInv
<1>7. CASE pc = "exception" /\ rc' = 1 /\ UNCHANGED <<throws, collected>>
  <2>1. Wrong' /\ pc' \in {"end job", "exit", "exception", "killed"}
    BY <1>1, <1>7 DEF Wrong, CodeInv, Way
  <2>2. CASE pc' = "exception"
    BY <1>1, <1>7, <2>1, <2>2 DEF CodeInv
  <2>3. CASE pc' # "exception"
    BY <1>1, <1>7, <2>1, <2>3 DEF CodeInv
  <2> QED BY <2>2, <2>3
<1>8. CASE /\ pc \in Ending /\ pc' \in Ending /\ throws' = throws + 1 /\ collected' = TRUE
           /\ UNCHANGED rc
  <2>1. Wrong'
    BY <1>0, <1>1, <1>8 DEF Wrong
  <2> QED BY <1>8, <2>1 DEF CodeInv
<1>9. CASE /\ pc = "post end job" /\ pc' = "exit" /\ UNCHANGED <<throws, collected>>
           /\ rc' = IF rc = 1 \/ collected THEN 1 ELSE 0
  <2>1. Wrong' = Wrong
    BY <1>1, <1>9 DEF Wrong
  <2> QED BY <1>1, <1>9, <2>1 DEF CodeInv
<1> QED BY <1>2, <1>3, <1>4, <1>5, <1>6, <1>7, <1>8, <1>9, CodeWayTaken DEF CodeWay

-----------------------------------------------------------------------------
\* The invariant holds in each state of a job.

LEMMA InitIInv == Init => IInv
<1> SUFFICES ASSUME Init PROVE IInv
  OBVIOUS
<1> USE DEF Beginning, Running, Handling, Failing, Ending
<1>1. /\ pc = "begin source" /\ machine = "none" /\ callEndJob = FALSE /\ collected = FALSE
      /\ enabled = EndWorkers /\ begun = {} /\ ended = [w \in Workers |-> 0] /\ ending = {}
  BY DEF Init
<1>2. throws = 0 /\ shutdown = 0 /\ itemsSince = 0 /\ rc = -1
  BY DEF Init
<1>3. RngShape(rng) /\ rng.creationOkay /\ ~rng.failed /\ Established(rng) = {}
  <2>1. DOMAIN rng = {"creationOkay", "failed", "dict", "tracker", "snapshot"}
    BY DEF Init, NewService
  <2>2. rng.creationOkay = TRUE /\ rng.failed = FALSE /\ rng.dict = <<>> /\ rng.tracker = <<>>
    BY DEF Init, NewService
  <2> HIDE DEF Init
  <2>3. DOMAIN rng.dict = {} /\ DOMAIN rng.tracker = {}
    BY <2>2
  <2> QED BY <2>1, <2>2, <2>3, FS_EmptySet DEF RngShape, Established
<1>4. TypeInv
  BY <1>1, <1>2, <1>3 DEF TypeInv, Places, Workers
<1>5. CallsInv
  BY <1>1, <1>3 DEF CallsInv
<1>6. EndsInv
  <2>1. EndedOnes = {}
    BY <1>1 DEF EndedOnes
  <2>2. \A w \in Workers : ended[w] = 0
    BY <1>1
  <2>3. \A w \in Workers : ended[w] = (IF w \in EndedOnes THEN 1 ELSE 0) /\ ended[w] # 1
    BY <2>1, <2>2
  <2> HIDE DEF Workers
  <2> QED BY <1>1, <2>3, Zenon DEF EndsInv
<1>7. MachineInv /\ SignalInv /\ SeedInv
  BY <1>1, <1>2, <1>3 DEF MachineInv, SignalInv, SeedInv
<1>8. CodeInv
  <2>1. ~(throws > 0)
    BY <1>2
  <2>2. ~Wrong
    BY <1>3, <2>1, Zenon DEF Wrong
  <2> QED BY <1>1, <1>2, <2>2 DEF CodeInv
<1> QED BY <1>4, <1>5, <1>6, <1>7, <1>8 DEF IInv

LEMMA StepIInv ==
  ASSUME WorkersAssumption, IInv, [Next]_vars
  PROVE  IInv'
BY TypeStep, CallsStep, EndsStep, MachineStep, SignalStep, CodeStep, SeedStep DEF IInv

LEMMA SpecIInv ==
  ASSUME WorkersAssumption
  PROVE  Spec => []IInv
<1>1. IInv /\ [Next]_vars => IInv'
  BY StepIInv
<1> QED BY <1>1, InitIInv, PTL DEF Spec

\* Whatever is thrown in a job and in its end, endJob() is called of no module twice and of
\* none that was not asked to begin; and if the job began, of each module of the trigger
\* paths and of each module of the end path that is enabled then.
EndedOnce ==
  /\ \A w \in Workers : ended[w] <= 1 /\ (ended[w] = 1 => w \in begun)
  /\ Gone /\ JobBegan => \A w \in TriggerWorkers \union enabled : ended[w] = 1

LEMMA EndedByInvariant ==
  ASSUME IInv
  PROVE  EndedOnce
<1> USE DEF IInv, TypeInv
<1>1. \A w \in Workers : ended[w] <= 1
  <2>1. \A w \in Workers : ended[w] \in {0, 1}
    OBVIOUS
  <2> QED BY <2>1
<1>2. \A w \in Workers : ended[w] = 1 => w \in begun
  BY DEF EndsInv
<1>3. ASSUME Gone, JobBegan, NEW w \in TriggerWorkers \union enabled PROVE ended[w] = 1
  BY <1>3 DEF EndsInv, EndedOnes, Gone, Workers
<1> QED BY <1>1, <1>2, <1>3 DEF EndedOnce

THEOREM EnabledAreEnded ==
  ASSUME WorkersAssumption
  PROVE  Spec => []EndedOnce
BY EndedByInvariant, SpecIInv, PTL

\* Nobody enables or disables a module.
NoneDisabled == enabled = EndWorkers

LEMMA NoneDisabledFirst == Init => NoneDisabled
BY DEF Init, NoneDisabled

LEMMA DisabledByNone ==
  ASSUME Toggles = FALSE, NoneDisabled, [Next]_vars
  PROVE  NoneDisabled'
<1>1. ASSUME NEW w \in EndWorkers PROVE ~SetEnabled(w)
  BY DEF SetEnabled
<1>2. enabled' = enabled \/ \E w \in EndWorkers : SetEnabled(w)
  BY WorkerWayTaken DEF WorkerWay, BeginModule, EndModule, EndPathModules
<1>3. enabled' = enabled
  BY <1>1, <1>2, Zenon
<1> QED BY <1>3 DEF NoneDisabled

\* What the invariant says of the end of a job.
LEMMA JobEnds ==
  ASSUME IInv
  PROVE  /\ NoneDisabled => BeginsAreEnded
         /\ LeavesTerminated /\ MachineDestroyed /\ ReturnCodeTells
<1>1. NoneDisabled => BeginsAreEnded
  BY EndedByInvariant DEF NoneDisabled, EndedOnce, BeginsAreEnded, Workers
<1>2. LeavesTerminated /\ MachineDestroyed
  BY DEF IInv, MachineInv, LeavesTerminated, MachineDestroyed, Gone
<1>3. ReturnCodeTells
  BY DEF IInv, CodeInv, Wrong, ReturnCodeTells, Gone
<1> QED BY <1>1, <1>2, <1>3

\* Where no module is disabled, each module that was asked to begin is asked to end, once.
THEOREM BegunAreEnded ==
  ASSUME WorkersAssumption, Toggles = FALSE
  PROVE  Spec => []BeginsAreEnded
<1>1. NoneDisabled /\ [Next]_vars => NoneDisabled'
  BY DisabledByNone
<1> QED BY <1>1, NoneDisabledFirst, JobEnds, SpecIInv, PTL DEF Spec

\* When a job leaves runToCompletion() its machine has terminated, as is asserted there,
\* and when it is gone the machine is destroyed, whatever kept terminateAbnormally_() from it.
THEOREM MachineEnds ==
  ASSUME WorkersAssumption
  PROVE  Spec => [](LeavesTerminated /\ MachineDestroyed)
BY JobEnds, SpecIInv, PTL

\* The return code is 0 if and only if nothing was thrown, also where an exception was
\* collected in endJob() or caught around it.
THEOREM ReturnCodeTold ==
  ASSUME WorkersAssumption
  PROVE  Spec => []ReturnCodeTells
BY JobEnds, SpecIInv, PTL

\* After a signal the item in work is processed and no other.
THEOREM SignalIsHeeded ==
  ASSUME WorkersAssumption
  PROVE  Spec => []SignalHeeded
<1>1. IInv => SignalHeeded
  BY DEF IInv, TypeInv, SignalHeeded
<1> QED BY <1>1, SpecIInv, PTL

-----------------------------------------------------------------------------
\* The states of the random engines.

\* What the snapshot, the event and its list have to do with one another.
IsStart(list, lists, start) ==
  /\ ~RestoreState => list = Listed(start)
  /\ \A label \in DOMAIN start : ~Restores(lists, label) => StatesOf(list, label) = {start[label]}

SnapshotInv ==
  /\ pc = "event" => IsStart(rng.snapshot, eventList, eventStart)
  /\ product # NoList => IsStart(product, eventList, eventStart)

\* The snapshot taken before a restoration has the states of the engines it leaves alone.
LEMMA SnapshotIsStart ==
  ASSUME NEW r, RngShape(r), NEW lists
  PROVE  IsStart(PreProcessEvent(r, lists).snapshot, lists, PreProcessEvent(r, lists).dict)
<1> DEFINE t == PreProcessEvent(r, lists)
<1>1. /\ Established(t) = Established(r) /\ t.snapshot = Listed(r.dict)
      /\ ~RestoreState => t.dict = r.dict
  BY EventRestored
<1>2. ASSUME NEW l \in Established(r), ~Restores(lists, l)
      PROVE  StatesOf(t.snapshot, l) = {t.dict[l]}
  <2>1. t.dict[l] = r.dict[l]
    BY <1>2, UnlistedIsKept
  <2>2. IsFiniteSet(DOMAIN r.dict) /\ l \in DOMAIN r.dict
    BY <1>2 DEF RngShape, Established
  <2>3. StatesOf(Listed(r.dict), l) = {r.dict[l]}
    BY <2>2, ListedStates
  <2> HIDE DEF t
  <2> QED BY <1>1, <2>1, <2>3
<1> HIDE DEF t
<1>3. IsStart(t.snapshot, lists, t.dict)
  BY <1>1, <1>2 DEF IsStart, Established
<1> QED BY <1>3 DEF t

LEMMA SnapshotStep ==
  ASSUME IInv, SnapshotInv, [Next]_vars
  PROVE  SnapshotInv'
<1> USE DEF IInv, TypeInv
<1>1. ASSUME NEW lists \in EventLists, StartEvent(lists) PROVE SnapshotInv'
  <2>1. /\ eventStart' = PreProcessEvent(rng, lists).dict /\ eventList' = lists /\ product' = NoList
        /\ pc' = "event" => rng' = PreProcessEvent(rng, lists)
    BY <1>1 DEF StartEvent
  <2>2. IsStart(PreProcessEvent(rng, lists).snapshot, lists, PreProcessEvent(rng, lists).dict)
    BY SnapshotIsStart
  <2> QED BY <2>1, <2>2 DEF SnapshotInv
<1>2. ASSUME NEW label \in Labels, DrawNumber(label) PROVE SnapshotInv'
  <2>1. /\ pc = "event" /\ rng' = Draw(rng, label) /\ UNCHANGED <<eventStart, eventList, product>>
        /\ label \in Established(rng)
    BY <1>2 DEF DrawNumber
  <2>2. rng'.snapshot = rng.snapshot
    BY <2>1, Drawn
  <2> QED BY <2>1, <2>2 DEF SnapshotInv
<1>3. CASE SaveSnapshot
  BY <1>3 DEF SaveSnapshot, SnapshotInv, jobVars
<1>4. CASE /\ UNCHANGED <<eventStart, eventList, product>>
           /\ pc' = "event" => pc = "event" /\ UNCHANGED rng
  BY <1>4 DEF SnapshotInv
<1>5. \/ \E lists \in EventLists : StartEvent(lists)
      \/ \E label \in Labels : DrawNumber(label)
      \/ SaveSnapshot
      \/ /\ UNCHANGED <<eventStart, eventList, product>>
         /\ pc' = "event" => pc = "event" /\ UNCHANGED rng
  BY DEF Next, Step, BeginSource, BeginModule, PostBegin, MakeMachine, NextItem, Stops, OtherItem,
       EndEvent, Unwinds, Abort, RunEnds, Rethrown, EndMachine, EndModule,
       EndPathModules, EndSource, PostEnd, NewEngine, SetEnabled, Signal,
       GivesUp, MayThrow, Collects, vars, jobVars, workerVars, rngVars, signalVars
<1> QED BY <1>1, <1>2, <1>3, <1>4, <1>5

LEMMA SnapshotStarts == Init => SnapshotInv
BY DEF Init, SnapshotInv

LEMMA SnapshotServes == SnapshotInv => SavedIsUsed
BY DEF SnapshotInv, IsStart, SavedIsUsed

\* The list RandomNumberSaver puts into an event has, of each engine that is not restored from
\* that event, the one state the event started from, however many numbers were drawn before;
\* in a job that restores no states from events it is that of all engines.
THEOREM SavedAsStarted ==
  ASSUME WorkersAssumption
  PROVE  Spec => []SavedIsUsed
<1>1. IInv /\ SnapshotInv /\ [Next]_vars => SnapshotInv'
  BY SnapshotStep
<1> QED BY <1>1, SnapshotStarts, SnapshotServes, SpecIInv, PTL DEF Spec

\* Where the engines are restored, no entry of the list was refused.
RestoredInv ==
  /\ Established(rng) = DOMAIN eventStart \/ pc # "event"
  /\ pc = "event" /\ RestoreState =>
       \A list \in eventList : \A i \in DOMAIN list :
         list[i].label \in DOMAIN eventStart => eventStart[list[i].label] = list[i].state

\* An engine that was read from a file, and what an event holds of the others.
LEMMA EventStarts ==
  ASSUME ListsAssumption, NEW r, RngShape(r), NEW lists \in EventLists, RestoreState
  PROVE  LET t == PreProcessEvent(r, lists) IN
         /\ ~t.failed => \A list \in lists : \A i \in DOMAIN list :
              list[i].label \in Established(t) => t.dict[list[i].label] = list[i].state
         /\ \A l \in Established(r) :
              r.tracker[l] = "file" => t.tracker[l] = "file" /\ t.dict[l] = r.dict[l]
<1> DEFINE taken == TakeSnapshot(r)
           list == CHOOSE list \in lists : TRUE
           refused == {i \in DOMAIN list : RefusedFromEvent(taken, list[i])}
           t == PreProcessEvent(r, lists)
<1>1. /\ RngShape(taken) /\ taken.dict = r.dict /\ taken.tracker = r.tracker
      /\ Established(taken) = Established(r)
  BY SnapshotTaken DEF Established
<1>2. CASE lists = {}
  <2>1. t = [taken EXCEPT !.failed = TRUE]
    BY <1>2 DEF PreProcessEvent, RestoreSnapshot
  <2> HIDE DEF taken, t
  <2>2. t.failed = TRUE /\ t.tracker = taken.tracker /\ t.dict = taken.dict
    BY <2>1, <1>1 DEF RngShape
  <2> QED BY <1>1, <2>2 DEF t
<1>3. CASE lists # {}
  <2>1. t = Restored(taken, list, refused, "product")
    BY <1>3 DEF PreProcessEvent, RestoreSnapshot
  <2>2. list \in lists /\ \A other \in lists : other = list
    BY <1>3 DEF ListsAssumption
  <2>3. refused \subseteq DOMAIN list
    OBVIOUS
  <2>4. \A i \in DOMAIN list :
          i \in refused <=> list[i].label \in Established(taken) /\ taken.tracker[list[i].label] = "file"
    BY DEF RefusedFromEvent
  <2> HIDE DEF taken, list, refused, t
  <2>5. /\ DOMAIN list \subseteq Nat
        /\ \A i, j \in DOMAIN list : list[i].label = list[j].label => i = j
    BY <2>2 DEF ListsAssumption
  <2>6. t.failed = (refused # {}) /\ Established(t) = Established(taken)
    BY <1>1, <2>1, ShapeRestored
  <2>7. ASSUME refused = {}, NEW i \in DOMAIN list, list[i].label \in Established(taken)
        PROVE  t.dict[list[i].label] = list[i].state
    <3>1. Restored(taken, list, {}, "product").dict[list[i].label] = list[i].state
      BY <1>1, <2>5, <2>7, ListIsRestored
    <3> QED BY <2>1, <2>7, <3>1
  <2>8. ASSUME NEW l \in Established(taken), taken.tracker[l] = "file"
        PROVE  t.tracker[l] = "file" /\ t.dict[l] = taken.dict[l]
    <3>1. \A i \in DOMAIN list : list[i].label = l => i \in refused
      BY <2>4, <2>8
    <3> QED BY <1>1, <2>1, <2>3, <2>5, <2>8, <3>1, RefusedIsKept
  <2> QED BY <1>1, <2>2, <2>6, <2>7, <2>8 DEF t
<1> QED BY <1>2, <1>3

LEMMA RestoredStep ==
  ASSUME ListsAssumption, IInv, RestoredInv, [Next]_vars
  PROVE  RestoredInv'
<1> USE DEF IInv, TypeInv
<1>1. ASSUME NEW lists \in EventLists, StartEvent(lists) PROVE RestoredInv'
  <2>1. /\ rng'.dict = PreProcessEvent(rng, lists).dict /\ eventStart' = rng'.dict /\ eventList' = lists
        /\ pc' = "event" => ~PreProcessEvent(rng, lists).failed
    BY <1>1, EventBegun DEF StartEvent
  <2>2. Established(rng') = DOMAIN eventStart' /\ Established(PreProcessEvent(rng, lists)) = DOMAIN eventStart'
    BY <2>1 DEF Established
  <2>3. ASSUME pc' = "event", RestoreState
        PROVE  \A list \in eventList' : \A i \in DOMAIN list :
                 list[i].label \in DOMAIN eventStart' => eventStart'[list[i].label] = list[i].state
    BY <2>1, <2>2, <2>3, EventStarts
  <2> QED BY <2>2, <2>3 DEF RestoredInv
<1>2. ASSUME NEW label \in Labels, DrawNumber(label) PROVE RestoredInv'
  <2>1. /\ pc' = pc /\ rng' = Draw(rng, label) /\ UNCHANGED <<eventStart, eventList>>
        /\ label \in Established(rng)
    BY <1>2 DEF DrawNumber, jobVars
  <2>2. Established(rng') = Established(rng)
    BY <2>1, Drawn
  <2> QED BY <2>1, <2>2 DEF RestoredInv
<1>3. CASE /\ UNCHANGED <<eventStart, eventList>>
           /\ pc' = "event" => pc = "event" /\ UNCHANGED rng
  BY <1>3 DEF RestoredInv, Established
<1>4. \/ \E lists \in EventLists : StartEvent(lists)
      \/ \E label \in Labels : DrawNumber(label)
      \/ /\ UNCHANGED <<eventStart, eventList>>
         /\ pc' = "event" => pc = "event" /\ UNCHANGED rng
  BY DEF Next, Step, BeginSource, BeginModule, PostBegin, MakeMachine, NextItem, Stops, OtherItem,
       EndEvent, Unwinds, Abort, RunEnds, Rethrown, EndMachine, EndModule, SaveSnapshot,
       EndPathModules, EndSource, PostEnd, NewEngine, SetEnabled, Signal,
       GivesUp, MayThrow, Collects, vars, jobVars, workerVars, rngVars, signalVars
<1> QED BY <1>1, <1>2, <1>3, <1>4

LEMMA RestoredStarts == Init => RestoredInv
BY DEF Init, RestoredInv

LEMMA RestoredServes == RestoredInv => EventReproduced
BY DEF RestoredInv, EventReproduced, Established

\* In an event that holds a list of states, each engine of the list that is in the job has
\* started from the state the list has of it, whichever engines the list names.
THEOREM EventsReproduced ==
  ASSUME WorkersAssumption, ListsAssumption
  PROVE  Spec => []EventReproduced
<1>1. IInv /\ RestoredInv /\ [Next]_vars => RestoredInv'
  BY RestoredStep
<1> QED BY <1>1, RestoredStarts, RestoredServes, SpecIInv, PTL DEF Spec

LEMMA FileEnginesStep ==
  ASSUME WorkersAssumption, ListsAssumption, IInv, [Next]_vars
  PROVE  KeepsFileEngines
<1> USE DEF IInv, TypeInv
<1>1. SUFFICES ASSUME NEW l \in Established(rng), rng.tracker[l] = "file"
      PROVE  /\ rng'.tracker[l] = "file"
             /\ rng'.dict[l] # rng.dict[l] => pc = "event" /\ rng'.dict[l] = (rng.dict[l] + 1) % Cycle
  BY DEF KeepsFileEngines
<1>2. pc \notin Beginning
  BY <1>1 DEF SeedInv
<1>3. ASSUME NEW lists \in EventLists, StartEvent(lists)
      PROVE  rng'.tracker[l] = "file" /\ rng'.dict[l] = rng.dict[l]
  <2>1. /\ rng'.dict = PreProcessEvent(rng, lists).dict /\ rng'.tracker = PreProcessEvent(rng, lists).tracker
        /\ RngShape(rng)
    BY <1>3, EventBegun
  <2>2. CASE RestoreState
    BY <1>1, <2>1, <2>2, EventStarts
  <2>3. CASE ~RestoreState
    <3>1. PreProcessEvent(rng, lists) = TakeSnapshot(rng)
      BY <2>3 DEF PreProcessEvent, RestoreSnapshot
    <3> QED BY <1>1, <2>1, <3>1, SnapshotTaken
  <2> QED BY <2>2, <2>3
<1>4. ASSUME NEW label \in Labels, DrawNumber(label)
      PROVE  /\ rng'.tracker[l] = "file"
             /\ rng'.dict[l] # rng.dict[l] => pc = "event" /\ rng'.dict[l] = (rng.dict[l] + 1) % Cycle
  <2>1. pc = "event" /\ rng' = Draw(rng, label) /\ label \in Established(rng)
    BY <1>4 DEF DrawNumber
  <2>2. /\ rng'.tracker = rng.tracker
        /\ rng'.dict[l] = IF l = label THEN (rng.dict[l] + 1) % Cycle ELSE rng.dict[l]
    BY <2>1, Drawn
  <2> QED BY <1>1, <2>1, <2>2
<1>5. CASE PostEnd
  <2>1. rng' = TakeSnapshot(rng) /\ RngShape(rng)
    BY <1>5 DEF PostEnd, PostEndJob
  <2> QED BY <1>1, <2>1, SnapshotTaken
<1>6. ~PostBegin /\ \A label \in Labels : ~NewEngine(label)
  BY <1>2 DEF PostBegin, NewEngine, Beginning
<1>7. \/ rng' = rng \/ PostEnd
      \/ \E lists \in EventLists : StartEvent(lists)
      \/ \E label \in Labels : DrawNumber(label)
  BY <1>6, ServiceFrame
<1>8. CASE rng' = rng
  BY <1>1, <1>8
<1> HIDE DEF IInv, TypeInv
<1> QED BY <1>3, <1>4, <1>5, <1>7, <1>8

\* No step takes the state of an engine that was read from a file but a draw of its own,
\* by one number.
THEOREM FileEnginesKept ==
  ASSUME WorkersAssumption, ListsAssumption
  PROVE  Spec => [][KeepsFileEngines]_vars
<1>1. IInv /\ [Next]_vars => [KeepsFileEngines]_vars
  BY FileEnginesStep
<1> QED BY <1>1, SpecIInv, PTL DEF Spec
=============================================================================
