-------------------------------- MODULE Job --------------------------------
(***************************************************************************)
(* A job from the construction of the modules to the exit of the program   *)
(* (run_art_common_, EventProcessorWithSentry, EventProcessor::beginJob,   *)
(* runToCompletion, runCommon_, terminateAbnormally_, endJob), with the    *)
(* signals that stop it and the random-number service.                     *)
(*                                                                         *)
(* The state machine of the event processor, EPStates, is seen here from   *)
(* outside: it exists and is active or has terminated.  Each step of the   *)
(* job may throw.                                                          *)
(***************************************************************************)
EXTENDS RandomNumbers, FiniteSets, TLC

CONSTANTS TriggerWorkers, EndWorkers,   \* the modules of the two kinds of paths
          Labels,      \* the engines the modules create
          Toggles,     \* end-path modules are enabled and disabled in events
          EventLists,  \* the lists of states events hold: each a set of at most one list
          StateFile,   \* what the file to restore from holds (<<>>: none is configured)
          Ignored,     \* of "ProductNotFound" and "RANDOM", those with the action IgnoreCompletely
          MaxThrows    \* bound: exceptions in a job

Workers == TriggerWorkers \union EndWorkers

\* No module is of both kinds: those of the end path are analyzers and output modules.
WorkersAssumption == TriggerWorkers \intersect EndWorkers = {}

\* RandomNumberSaver puts one list of that name into an event, with each engine in it once.
ListsAssumption ==
  \A lists \in EventLists :
    /\ \A list, other \in lists : list = other
    /\ \A list \in lists : DOMAIN list \subseteq Nat
    /\ \A list \in lists : \A i, j \in DOMAIN list : list[i].label = list[j].label => i = j

VARIABLES pc,        \* where the job is
          machine,   \* the state machine: "none", "active" or "terminated"
          handling,  \* alreadyHandlingException_
          callEndJob,   \* the sentry is on
          shutdown,  \* a signal has arrived (shutdown_flag)
          itemsSince,   \* items processed since it did
          rc,        \* the return code: 0, or 1 after an exception (-1: none yet)
          collected, \* an exception was collected in endJob
          enabled,   \* the end-path modules that are enabled
          begun,     \* the modules whose beginJob has returned
          ended,     \* how often endJob was called of each
          ending,    \* those endJob has still to be called of
          throws,    \* exceptions so far
          rng, saved,   \* the random-number service and the file it saves to
          eventStart,   \* the states the current, or last, event started from
          eventList,    \* the list of states that event holds, if any
          product,   \* the list RandomNumberSaver put into that event
          aborted    \* an exception ended the run within an event

jobVars == <<pc, machine, handling, callEndJob, rc, collected, throws>>
workerVars == <<enabled, begun, ended, ending>>
rngVars == <<rng, saved, eventStart, eventList, product, aborted>>
signalVars == <<shutdown, itemsSince>>
vars == <<jobVars, workerVars, rngVars, signalVars>>

NoList == <<>>

-----------------------------------------------------------------------------
\* Exceptions.

MayThrow == throws < MaxThrows /\ throws' = throws + 1

\* Out of beginJob: the sentry is off and the program ends.
GivesUp == MayThrow /\ pc' = "exit" /\ rc' = 1 /\ UNCHANGED <<machine, handling, callEndJob, collected>>

-----------------------------------------------------------------------------
\* beginJob.

BeginSource ==
  /\ pc = "begin source"
  /\ \/ pc' = "begin modules" /\ UNCHANGED <<machine, handling, callEndJob, rc, collected, throws>>
     \/ GivesUp
  /\ UNCHANGED <<workerVars, rngVars, signalVars>>

\* A module creates an engine, in its constructor or in beginJob.
NewEngine(label) ==
  /\ pc \in {"begin source", "begin modules"}
  /\ rng' \in CreateEngine(rng, label, 0)
  /\ UNCHANGED <<jobVars, workerVars, saved, eventStart, eventList, product, aborted, signalVars>>

\* The modules of the trigger paths, then those of the end path that are enabled.
BeginModule(w) ==
  /\ pc = "begin modules" /\ w \notin begun
  /\ w \in EndWorkers => w \in enabled /\ TriggerWorkers \subseteq begun
  /\ \/ begun' = begun \union {w} /\ UNCHANGED jobVars
     \/ UNCHANGED begun /\ GivesUp
  /\ UNCHANGED <<enabled, ended, ending, rngVars, signalVars>>

PostBegin ==
  /\ pc = "begin modules" /\ TriggerWorkers \union enabled \subseteq begun
  /\ rng' = PostBeginJob(rng, StateFile)
  /\ IF rng'.failed
     THEN pc' = "exit" /\ rc' = 1 /\ UNCHANGED <<machine, handling, callEndJob, collected, throws>>
     ELSE pc' = "run" /\ callEndJob' = TRUE /\ UNCHANGED <<machine, handling, rc, collected, throws>>
  /\ UNCHANGED <<workerVars, saved, eventStart, eventList, product, aborted, signalVars>>

-----------------------------------------------------------------------------
\* runCommon_.

MakeMachine ==
  /\ pc = "run" /\ machine = "none"
  /\ machine' = "active" /\ pc' = "next item"
  /\ UNCHANGED <<handling, callEndJob, rc, collected, throws, workerVars, rngVars, signalVars>>

\* The machine handles Stop: it closes the files and the runs and terminates, also when
\* one of its actions throws.
Stops(next) ==
  /\ machine' = "terminated"
  /\ \/ pc' = next /\ UNCHANGED throws
     \/ pc' = "abort" /\ MayThrow
  /\ UNCHANGED <<handling, callEndJob, rc, collected>>

\* Faulty: the signal is looked at only before a Stop.
NextItemUnheeded ==
  /\ pc = "next item"
  /\ \/ pc' = "item" /\ UNCHANGED <<machine, handling, callEndJob, rc, collected, throws>>
     \/ Stops("machine ended")
     \/ pc' = "abort" /\ MayThrow /\ UNCHANGED <<machine, handling, callEndJob, rc, collected>>
  /\ UNCHANGED <<workerVars, rngVars, signalVars>>

CountItem == itemsSince' = IF shutdown > 0 THEN Min({itemsSince + 1, 2}) ELSE 0

\* The source has been asked; the signal is looked at before its answer.
NextItem ==
  /\ pc = "next item"
  /\ \/ shutdown = 0 /\ pc' = "item" /\ UNCHANGED <<machine, handling, callEndJob, rc, collected, throws>>
     \/ Stops("machine ended")
     \/ pc' = "abort" /\ MayThrow /\ UNCHANGED <<machine, handling, callEndJob, rc, collected>>
  /\ UNCHANGED <<workerVars, rngVars, signalVars>>

\* An exception while the machine is in control terminates it.
Unwinds == MayThrow /\ machine' = "terminated" /\ pc' = "abort" /\ UNCHANGED <<handling, callEndJob, rc, collected>>

\* The machine handles a file, a run or a sub-run.
OtherItem ==
  /\ pc = "item"
  /\ \/ pc' = "next item" /\ UNCHANGED <<machine, handling, callEndJob, rc, collected, throws>>
     \/ Unwinds
  /\ CountItem
  /\ UNCHANGED <<workerVars, rngVars, shutdown>>

\* Of a restoration that fails: the event holds no list, or one of its states is refused.
Category(lists) == IF lists = {} THEN "ProductNotFound" ELSE "RANDOM"

\* sPreProcessEvent, in processOneOccurrence_: the service takes its snapshot and restores
\* the engines from the event. If it fails, the modules do not see the event; the exception
\* ends the run unless its category is ignored.
StartEvent(lists) ==
  LET started == PreProcessEvent(rng, lists) IN
  /\ pc = "item"
  /\ eventStart' = started.dict /\ eventList' = lists /\ product' = NoList
  /\ \/ ~started.failed
        /\ pc' = "event" /\ rng' = started /\ aborted' = FALSE /\ UNCHANGED <<machine, signalVars>>
     \/ started.failed /\ Category(lists) \in Ignored
        /\ pc' = "next item" /\ rng' = [started EXCEPT !.failed = FALSE] /\ aborted' = FALSE
        /\ CountItem /\ UNCHANGED <<machine, shutdown>>
     \/ started.failed /\ Category(lists) \notin Ignored
        /\ pc' = "abort" /\ rng' = started /\ aborted' = TRUE
        /\ machine' = "terminated" /\ UNCHANGED signalVars
  /\ UNCHANGED <<handling, callEndJob, rc, collected, throws, workerVars, saved>>

\* A module draws a number.
DrawNumber(label) ==
  /\ pc = "event" /\ label \in Established(rng)
  /\ rng' = Draw(rng, label)
  /\ UNCHANGED <<jobVars, workerVars, saved, eventStart, eventList, product, aborted, signalVars>>

\* RandomNumberSaver::produce.
SaveSnapshot ==
  /\ pc = "event" /\ product = NoList
  /\ product' = rng.snapshot
  /\ UNCHANGED <<jobVars, workerVars, rng, saved, eventStart, eventList, aborted, signalVars>>

\* A module, or PathSelection, enables or disables a module of the end path.
SetEnabled(w) ==
  /\ Toggles /\ pc = "event"
  /\ enabled' = IF w \in enabled THEN enabled \ {w} ELSE enabled \union {w}
  /\ UNCHANGED <<jobVars, begun, ended, ending, rngVars, signalVars>>

EndEvent ==
  /\ pc = "event"
  /\ \/ pc' = "next item" /\ aborted' = FALSE /\ UNCHANGED <<machine, handling, callEndJob, rc, collected, throws>>
     \/ aborted' = TRUE /\ Unwinds
  /\ CountItem
  /\ UNCHANGED <<workerVars, rng, saved, eventStart, eventList, product, shutdown>>

\* terminateAbnormally_: the flag, the save, the machine and the flag again; the catch around
\* it leaves what follows an exception undone.
Abort ==
  /\ pc = "abort"
  /\ \/ saved' = SaveToFile(rng) /\ machine' = "none" /\ handling' = FALSE /\ UNCHANGED throws
     \/ MayThrow /\ handling' = TRUE /\ UNCHANGED <<saved, machine>>
  /\ pc' = "exception" /\ UNCHANGED <<callEndJob, rc, collected>>
  /\ UNCHANGED <<workerVars, rng, eventStart, eventList, product, aborted, signalVars>>

\* The end of runCommon_ and runToCompletion; the sentry is switched off.
RunEnds ==
  /\ pc = "machine ended"
  /\ Assert(machine = "terminated", "State machine not destroyed on exit from runToCompletion")
  /\ machine' = "none" /\ callEndJob' = FALSE
  /\ pc' = "end job" /\ ending' = TriggerWorkers
  /\ UNCHANGED <<handling, rc, collected, throws, enabled, begun, ended, rngVars, signalVars>>

\* The exception reaches run_art_common_; then the sentry is destroyed, which calls endJob.
Rethrown ==
  /\ pc = "exception"
  /\ rc' = 1
  /\ IF callEndJob THEN pc' = "end job" /\ ending' = TriggerWorkers ELSE pc' = "exit" /\ UNCHANGED ending
  /\ UNCHANGED <<machine, handling, callEndJob, collected, throws, enabled, begun, ended, rngVars, signalVars>>

-----------------------------------------------------------------------------
\* endJob, after the run or by the sentry: what it calls may throw, and the rest is called.

EndMachine ==
  /\ pc = "end job"
  /\ machine' = "none"
  /\ pc' = "end modules"
  /\ UNCHANGED <<handling, callEndJob, rc, collected, throws, workerVars, rngVars, signalVars>>

Collects ==
  \/ UNCHANGED <<collected, throws>>
  \/ MayThrow /\ collected' = TRUE

\* Faulty: an exception ends the calls to the modules of the paths.
EndModuleUntilThrow(w) ==
  /\ pc \in {"end modules", "end path modules"} /\ w \in ending
  /\ ended' = [ended EXCEPT ![w] = @ + 1]
  /\ Collects
  /\ ending' = IF throws' # throws THEN {} ELSE ending \ {w}
  /\ UNCHANGED <<pc, machine, handling, callEndJob, rc, enabled, begun, rngVars, signalVars>>

EndModule(w) ==
  /\ pc \in {"end modules", "end path modules"} /\ w \in ending
  /\ ending' = ending \ {w} /\ ended' = [ended EXCEPT ![w] = @ + 1]
  /\ Collects
  /\ UNCHANGED <<pc, machine, handling, callEndJob, rc, enabled, begun, rngVars, signalVars>>

\* Schedule::endJob is followed by EndPathExecutor::endJob, and that by the source's.
EndPathModules ==
  /\ pc = "end modules" /\ ending = {}
  /\ pc' = "end path modules" /\ ending' = enabled
  /\ UNCHANGED <<machine, handling, callEndJob, rc, collected, throws, enabled, begun, ended, rngVars, signalVars>>

EndSource ==
  /\ pc = "end path modules" /\ ending = {}
  /\ pc' = "post end job"
  /\ Collects
  /\ UNCHANGED <<machine, handling, callEndJob, rc, workerVars, rngVars, signalVars>>

\* The service saves its states; then what was collected is thrown, to be caught by
\* run_art_common_ or, in the sentry, to be forgotten.
PostEnd ==
  /\ pc = "post end job"
  /\ rng' = PostEndJob(rng) /\ saved' = SaveToFile(rng')
  /\ rc' = IF rc = 1 \/ collected THEN 1 ELSE 0
  /\ pc' = "exit"
  /\ UNCHANGED <<machine, handling, callEndJob, collected, throws, workerVars, eventStart, eventList, product, aborted, signalVars>>

-----------------------------------------------------------------------------
\* ep_sigusr2: the second SIGINT terminates the process.

Signal(which) ==
  /\ pc \notin {"exit", "killed"}
  /\ IF which = "SIGINT" /\ shutdown > 0 THEN pc' = "killed" /\ UNCHANGED shutdown
     ELSE shutdown' = 1 /\ UNCHANGED pc
  /\ UNCHANGED <<machine, handling, callEndJob, rc, collected, throws, workerVars, rngVars, itemsSince>>

Init ==
  /\ pc = "begin source" /\ machine = "none" /\ handling = FALSE /\ callEndJob = FALSE
  /\ shutdown = 0 /\ itemsSince = 0 /\ rc = -1 /\ collected = FALSE /\ throws = 0
  /\ enabled = EndWorkers /\ begun = {} /\ ended = [w \in Workers |-> 0] /\ ending = {}
  /\ rng = NewService
  /\ saved = NoList /\ eventStart = rng.dict /\ eventList = {} /\ product = NoList /\ aborted = FALSE

Step ==
  \/ BeginSource \/ (\E w \in Workers : BeginModule(w)) \/ PostBegin
  \/ MakeMachine \/ NextItem \/ OtherItem \/ (\E lists \in EventLists : StartEvent(lists)) \/ EndEvent
  \/ Abort \/ RunEnds \/ Rethrown
  \/ EndMachine \/ (\E w \in Workers : EndModule(w)) \/ EndPathModules \/ EndSource \/ PostEnd

Next ==
  \/ Step
  \/ \E label \in Labels : NewEngine(label) \/ DrawNumber(label)
  \/ SaveSnapshot
  \/ \E w \in EndWorkers : SetEnabled(w)
  \/ \E which \in {"SIGINT", "SIGUSR2"} : Signal(which)

\* The program does not stop of itself, and the modules return from each event.
Spec == Init /\ [][Next]_vars /\ WF_vars(Step)

-----------------------------------------------------------------------------
Gone == pc = "exit"

\* The modules were asked to begin and the run was started.
JobBegan == ~rng.creationOkay

\* endJob() is called once of every module whose beginJob() returned, whatever threw
\* in between and in endJob() itself, once the job has begun, and of no other.
BeginsAreEnded ==
  \A w \in Workers :
    /\ ended[w] <= 1 /\ (ended[w] = 1 => w \in begun)
    /\ Gone /\ JobBegan => ended[w] = 1

\* The state machine, and with it the files, is gone when the program ends, also when
\* an exception kept terminateAbnormally_() from ending it.
MachineDestroyed == Gone => machine = "none"

\* What the assertion of runToCompletion() relies on.
LeavesTerminated == pc = "machine ended" => machine = "terminated"

\* The program returns 0 if and only if nothing was thrown in it, wherever that was caught,
\* but what the table of actions takes for handled within an event.
ReturnCodeTells == Gone => rc = IF throws > 0 \/ rng.failed THEN 1 ELSE 0

\* One item at most, the one in work, is processed after a signal.
SignalHeeded == itemsSince <= 1

\* A signal ends a job, even one whose source has no end.
SignalEndsJob == (shutdown > 0) ~> (pc \in {"exit", "killed"})

\* An event from which the states of engines are restored has one of that label.
Restores(lists, label) ==
  RestoreState /\ \E list \in lists : \E i \in DOMAIN list : list[i].label = label

StatesOf(list, label) == {list[i].state : i \in {j \in DOMAIN list : list[j].label = label}}

\* What RandomNumberSaver puts into an event are the states its modules start from
\* ("the state of all the engines managed by this service can be saved to the event ...
\* to be able to exactly reproduce the earlier process"), but of the engines restored
\* from that very event: the snapshot is taken before (RandomNumberGenerator_service.cc:541).
SavedIsUsed ==
  product # NoList =>
    /\ ~RestoreState => product = Listed(eventStart)
    /\ \A label \in DOMAIN eventStart :
         ~Restores(eventList, label) => StatesOf(product, label) = {eventStart[label]}

\* Where states are restored from events, each engine that an event has a state of
\* starts from it in that event.
EventReproduced ==
  pc = "event" /\ RestoreState =>
    \A list \in eventList : \A i \in DOMAIN list :
      list[i].label \in Established(rng) => eventStart[list[i].label] = list[i].state

\* An engine whose state was read from a file goes on from it: no event restores it.
KeepsFileEngines ==
  \A l \in Established(rng) :
    rng.tracker[l] = "file" =>
      /\ rng'.tracker[l] = "file"
      /\ rng'.dict[l] # rng.dict[l] => pc = "event" /\ rng'.dict[l] = (rng.dict[l] + 1) % Cycle

\* The file a job leaves that died in an event has the states that event started from
\* ("Read the abnormal-termination state file to process the 10th event.").
FailedEventReproduced == Gone /\ aborted => saved = Listed(eventStart)

=============================================================================
