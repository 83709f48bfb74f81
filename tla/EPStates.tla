------------------------------ MODULE EPStates ------------------------------
(***************************************************************************)
(* The state machine that drives the EventProcessor                         *)
(* (art/Framework/EventProcessor/EPStates.cc) together with the ep_ calls   *)
(* it makes on the principal cache and on the files (EventProcessor.cc).    *)
(*                                                                          *)
(* The run loop hands one item of the input source to process_event, which  *)
(* leaves composite states (exit, then destructor, innermost first), runs   *)
(* the action of the transition, constructs at most one composite state and *)
(* then the target leaf.  "todo" holds the statements that the C++ function *)
(* now running has still to execute; one step executes its head, and a      *)
(* statement that calls a function with a body of its own is replaced by    *)
(* that body.  A call that can throw has two outcomes.                      *)
(*                                                                          *)
(* An exception thrown while the machine is in control (primary # "none")   *)
(* makes the library destroy the states innermost first without exit().     *)
(* The destructors then do what exit() did not get to do, and swallow what  *)
(* they throw.  An exception of the run loop itself (external) arrives as a *)
(* Stop that finds every exit() disabled.                                   *)
(***************************************************************************)
EXTENDS PrincipalCache, EPChart, Sequences

CONSTANTS EndOfLoopAnswers,  \* what endOfLoop() may answer: {TRUE} in EventProcessor
          Configurations,    \* the [fileMode, handleEmptyRuns, handleEmptySubRuns] explored
          MaxDeferred        \* bound on unhandledSubRuns_, which the code does not limit

FileModes == {"NOMERGE", "MERGE", "FULLLUMIMERGE", "FULLMERGE"}

ASSUME MachineAssumption ==
  /\ EndOfLoopAnswers \subseteq BOOLEAN /\ EndOfLoopAnswers # {}
  /\ Configurations \subseteq [fileMode : FileModes, handleEmptyRuns : BOOLEAN,
                               handleEmptySubRuns : BOOLEAN]
  /\ MaxDeferred \in Nat

VARIABLES
  config,          \* the parameters of the Machine, fixed for the job
  phase,           \* what process_event is doing
  depth,           \* how many composite states exist
  leaf,            \* the innermost state
  move,            \* the transition under way
  todo,            \* statements left in the function now running
  posted,          \* the event posted by a constructor, or "none"
  item,            \* the source item not read yet, or "none"
  source,          \* ids of the last run and of the last sub-run the source offered
  external,        \* alreadyHandlingException_
  primary,         \* the call that threw inside process_event, or "none"
  swallowed,       \* depths of the composites whose destructor swallowed an exception
  errorState,      \* stateMachineWasInErrorState_
  handleRuns,      \* the fields of HandleRuns
  handleSubRuns,   \* the fields of HandleSubRuns
  cache,           \* principalCache_
  files,           \* whether the input file and the output files are open
  begun,           \* history: runs and sub-runs whose begin was delivered and end not yet tried
  unwritten,       \* history: runs and sub-runs read and not written since
  written          \* history: runs and sub-runs written to the output files now open

control == <<phase, depth, leaf, move, todo, posted>>
failure == <<external, primary, swallowed, errorState>>
objects == <<handleRuns, handleSubRuns>>
history == <<begun, unwritten, written>>
vars == <<config, control, item, source, failure, objects, cache, files, history>>

-----------------------------------------------------------------------------
(* The bodies of the functions, as sequences of statements.                 *)

OpenFiles == <<"readFile", "respondToOpenInputFile", "openOutputFiles", "respondToOpenOutputFiles">>

\* Faulty variants of CloseFiles for the mutation checks: the cached sub-runs
\* are forgotten.
CloseFilesDropsSubRuns == <<"writeRunCache", "respondToCloseOutputFiles",
                            "closeOutputFiles", "respondToCloseInputFile", "closeInputFile">>
CloseFiles == <<"writeSubRunCache", "writeRunCache", "respondToCloseOutputFiles",
                "closeOutputFiles", "respondToCloseInputFile", "closeInputFile">>
GoToNewInputFile == <<"respondToCloseInputFile", "closeInputFile", "readFile", "respondToOpenInputFile">>

\* Faulty: only files are cleaned up.
CleanUpFilesOnly(d) == IF d = 1 THEN CloseFiles ELSE <<>>

\* What exit() and the destructor of the composite at depth d both do.
CleanUp(d) == CASE d = 1 -> CloseFiles
                [] d = 2 -> <<"finalizeRun">>
                [] d = 3 -> <<"finalizeAllSubRuns">>
                [] OTHER -> <<>>

ActionBody(action) ==
  CASE action = "finalizeRun" -> <<"finalizeRun">>
    [] action = "rewindAndPrepareForNextLoop" -> <<"rewindInput">>
    [] OTHER -> <<>>    \* startingNewLoop clears a flag that nothing sets

\* ContinueRun1 and ContinueRun2
ContinueRun == <<"readAndCacheRun">>

\* Faulty: a new sub-run starts without the end of the previous one.
ChangeSubRunOnly == <<"setupCurrentSubRun">>
\* AnotherSubRun
ChangeSubRun == <<"finalizeSubRun", "setupCurrentSubRun">>

\* The constructor of each leaf.
Constructor(target) ==
  CASE target \in {"Starting", "FirstFile"} -> <<>>
    [] target = "EndingLoop" -> <<"endOfLoop">>
    [] target = "Error" -> <<"doErrorStuff">>
    [] target \in {"HandleNewInputFile1", "HandleNewInputFile2", "HandleNewInputFile3"} -> GoToNewInputFile
    [] target = "NewInputAndOutputFiles" -> CloseFiles \o OpenFiles
    [] target = "NewRun" -> <<"setupCurrentRun">>
    [] target \in {"ContinueRun1", "ContinueRun2"} -> ContinueRun
    [] target = "FirstSubRun" -> <<"setupCurrentSubRun">>
    [] target = "AnotherSubRun" -> ChangeSubRun
    [] target = "ContinueSubRun" -> <<"readAndCacheSubRun">>
    [] target = "HandleEvent" ->
         <<"beginRunIfNotDoneAlready", "markSubRunNonEmpty", "readEvent", "processEvent">>

Responses == {"respondToOpenInputFile", "respondToOpenOutputFiles",
              "respondToCloseOutputFiles", "respondToCloseInputFile"}
FileCalls == Responses \cup {"readFile", "openOutputFiles", "closeOutputFiles", "closeInputFile"}
CacheCalls == {"writeSubRunCache", "writeRunCache"}
RunCalls == {"readAndCacheRun", "setupCurrentRun", "beginRunIfNotDoneAlready", "beginRun", "endRun",
             "finalizeRun", "writeRun", "clearCurrentRun"}
SubRunCalls == {"readAndCacheSubRun", "setupCurrentSubRun", "finalizeAllSubRuns", "finalizeSubRun",
                "finalizeOutstandingSubRuns", "nextOutstanding", "markSubRunNonEmpty",
                "startSubRun", "subRunStarted", "beginSubRun", "endSubRun", "writeSubRun",
                "clearCurrentSubRun"}
OtherCalls == {"endOfLoop", "doErrorStuff", "rewindInput", "readEvent", "processEvent"}
Calls == FileCalls \cup CacheCalls \cup RunCalls \cup SubRunCalls \cup OtherCalls

Phases == {"stable", "exit", "destroy", "action", "enter", "construct", "terminated"}
Items == {"none", "File", "Run", "SubRun", "Event"}

NewHandleRuns == [beginRunCalled |-> FALSE, currentRun |-> NoRun, previousRuns |-> {},
                  runException |-> FALSE]
\* iter stands for the iterator of finalizeOutstandingSubRuns, 0 outside its loop.
NewHandleSubRuns == [empty |-> TRUE, current |-> NoSubRun, previous |-> {}, unhandled |-> <<>>,
                     iter |-> 0, exception |-> FALSE]
NoneOf == [runs |-> {}, subRuns |-> {}]
Ids == [runs : SUBSET Runs, subRuns : SUBSET SubRunIDs]

TypeOK ==
  /\ config \in Configurations
  /\ phase \in Phases
  /\ depth \in 0..3
  /\ leaf \in Leaves
  /\ move \in Moves
  /\ todo \in Seq(Calls)
  /\ posted \in {"none", "Stop", "Restart"}
  /\ item \in Items
  /\ source \in [run : Runs \cup {NoRun}, subRun : SubRunIDs \cup {NoSubRun}]
  /\ external \in BOOLEAN
  /\ primary \in Calls \cup {"none"}
  /\ swallowed \subseteq 1..3
  /\ errorState \in BOOLEAN
  /\ handleRuns \in [beginRunCalled : BOOLEAN, currentRun : Runs \cup {NoRun},
                     previousRuns : SUBSET Runs, runException : BOOLEAN]
  /\ handleSubRuns \in [empty : BOOLEAN, current : SubRunIDs \cup {NoSubRun},
                        previous : SUBSET (SubRunIDs \cup {NoSubRun}),
                        unhandled : Seq(SubRunIDs \cup {NoSubRun}), iter : Nat, exception : BOOLEAN]
  /\ cache \in Cache
  /\ files \in [input : BOOLEAN, output : BOOLEAN]
  /\ begun \in Ids /\ unwritten \in Ids /\ written \in Ids

Init ==
  /\ config \in Configurations
  /\ phase = "stable" /\ depth = 0 /\ leaf = "Starting" /\ move = Goto("Starting")
  /\ todo = <<>> /\ posted = "none"
  /\ item = "none" /\ source = [run |-> NoRun, subRun |-> NoSubRun]
  /\ external = FALSE /\ primary = "none" /\ swallowed = {} /\ errorState = FALSE
  /\ handleRuns = NewHandleRuns /\ handleSubRuns = NewHandleSubRuns
  /\ cache = EmptyCache
  /\ files = [input |-> FALSE, output |-> FALSE]
  /\ begun = NoneOf /\ unwritten = NoneOf /\ written = NoneOf

-----------------------------------------------------------------------------
(* Statements and exceptions.                                               *)

\* The statement about to run; the function returns from it; it calls a
\* function of the machine whose body takes its place.
Running(call) == todo # <<>> /\ Head(todo) = call
Returns ==
  /\ todo' = Tail(todo)
  /\ UNCHANGED <<config, phase, depth, leaf, move, source, failure>>
Expands(body) ==
  /\ todo' = body \o Tail(todo)
  /\ UNCHANGED <<config, phase, depth, leaf, move, source, failure>>

\* Faulty: an exception with no composite left goes on unwinding.
UnwoundTooFar(d) == IF d < 0 THEN "terminated" ELSE "destroy"

\* While an exception unwinds, the phase with d composites left.
Unwound(d) == IF d = 0 THEN "terminated" ELSE "destroy"

\* An exception.  A destructor swallows it and gives up its own body.  Anywhere
\* else the states are destroyed, innermost first: a composite whose exit() is
\* the function that threw has exitCalled_ set and does nothing more.  A
\* composite whose constructor threw was never there (depth does not count it).
Throws ==
  /\ UNCHANGED <<config, depth, leaf, move, source, external, errorState>>
  /\ \/ /\ phase = "destroy"
        /\ todo' = <<>> /\ swallowed' = swallowed \cup {depth}
        /\ UNCHANGED <<phase, primary>>
     \/ /\ phase # "destroy"
        /\ primary' = Head(todo)
        /\ phase' = Unwound(depth)
        /\ todo' = IF phase = "exit" THEN <<>> ELSE CleanUp(depth)
        /\ UNCHANGED swallowed

-----------------------------------------------------------------------------
(* Transitions between states.                                              *)

\* With d composites alive, leave the innermost if the transition does not keep
\* it: exit() returns at once when an exception of the run loop is being
\* handled, and then the destructor does the work.  Otherwise run the action.
Leaving(d, target, action, handlingException) ==
  IF d > CommonDepth(leaf, target)
    THEN /\ phase' = IF handlingException THEN "destroy" ELSE "exit"
         /\ todo' = CleanUp(d)
    ELSE /\ phase' = "action"
         /\ todo' = ActionBody(action)

React(m, handlingException) ==
  /\ move' = m
  /\ Leaving(depth, m.target, m.action, handlingException)
  /\ UNCHANGED <<config, depth, leaf, primary, swallowed, errorState,
                 objects, cache, files, history>>

\* The body of exit() is done and the destructor has nothing to add, or the
\* body of the destructor is done: the object is gone.  When an exception is
\* unwinding, the next composite is destroyed too, and with the last one the
\* machine has terminated.
LeaveComposite ==
  /\ phase \in {"exit", "destroy"} /\ todo = <<>>
  /\ depth' = depth - 1
  /\ handleRuns' = IF depth = 2 THEN NewHandleRuns ELSE handleRuns
  /\ handleSubRuns' = IF depth = 3 THEN NewHandleSubRuns ELSE handleSubRuns
  /\ IF primary = "none"
       THEN Leaving(depth - 1, move.target, move.action, external)
       ELSE /\ phase' = Unwound(depth - 1)
            /\ todo' = CleanUp(depth - 1)
  /\ UNCHANGED <<config, leaf, move, posted, item, source, failure, cache, files, history>>

\* After the action: construct the composite around the target if it is not
\* there yet, then the target.  Only the constructor of HandleFiles has a body.
ActionDone ==
  /\ phase = "action" /\ todo = <<>>
  /\ \/ /\ depth < ParentDepth(move.target)
        /\ phase' = "enter"
        /\ todo' = IF depth = 0 THEN OpenFiles ELSE <<>>
        /\ UNCHANGED leaf
     \/ /\ depth = ParentDepth(move.target)
        /\ phase' = "construct"
        /\ leaf' = move.target
        /\ todo' = Constructor(move.target)
  /\ UNCHANGED <<config, depth, move, posted, item, source, failure, objects, cache, files, history>>

EnterComposite ==
  /\ phase = "enter" /\ todo = <<>>
  /\ depth' = depth + 1
  /\ handleRuns' = IF depth = 1 THEN NewHandleRuns ELSE handleRuns
  /\ handleSubRuns' = IF depth = 2 THEN NewHandleSubRuns ELSE handleSubRuns
  /\ phase' = "construct"
  /\ leaf' = move.target
  /\ todo' = Constructor(move.target)
  /\ UNCHANGED <<config, move, posted, item, source, failure, cache, files, history>>

ConstructorDone ==
  /\ phase = "construct" /\ todo = <<>>
  /\ phase' = "stable"
  /\ UNCHANGED <<config, depth, leaf, move, todo, posted, item, source, failure,
                 objects, cache, files, history>>

\* process_event ends by processing the event a constructor has posted.
ProcessPosted ==
  /\ phase = "stable" /\ posted # "none"
  /\ posted' = "none"
  /\ \/ /\ leaf = "EndingLoop" /\ posted = "Stop"
        /\ phase' = "terminated"
        /\ UNCHANGED <<config, depth, leaf, move, todo, primary, swallowed, errorState,
                       objects, cache, files, history>>
     \/ /\ leaf # "EndingLoop" /\ posted = "Stop"
        /\ React(OnStop(leaf), external)
     \/ /\ posted = "Restart"
        /\ React(OnRestart(leaf), external)
  /\ UNCHANGED <<item, source, external>>

-----------------------------------------------------------------------------
(* The items the run loop reads from the source.                            *)

Idle == phase = "stable" /\ posted = "none"

ShouldWeCloseOutput == IF config.fileMode = "NOMERGE" THEN {TRUE} ELSE BOOLEAN

FileItem ==
  /\ Idle
  /\ item' = "File"
  /\ \E close \in ShouldWeCloseOutput : React(OnFile(leaf, close), FALSE)
  /\ UNCHANGED <<posted, source, external>>

RunItem ==
  /\ Idle
  /\ item' = "Run"
  /\ \E r \in Runs :
       /\ source' = [source EXCEPT !.run = r]
       /\ React(OnRun(leaf, r = handleRuns.currentRun), FALSE)
  /\ UNCHANGED <<posted, external>>

\* A source offers sub-runs of the run it has offered last, and flush sub-runs
\* only when that run is a flush marker.
SubRunItem ==
  /\ Idle
  /\ Len(handleSubRuns.unhandled) < MaxDeferred
  /\ item' = "SubRun"
  /\ \E n \in SubRunNums :
       /\ source.run # NoRun
       /\ source.run \in FlushRuns => n \in FlushSubRunNums
       /\ source' = [source EXCEPT !.subRun = <<source.run, n>>]
       /\ React(OnSubRun(leaf, <<source.run, n>> = handleSubRuns.current), FALSE)
  /\ UNCHANGED <<posted, external>>

EventItem ==
  /\ Idle
  /\ item' = "Event"
  /\ React(OnEvent(leaf), FALSE)
  /\ UNCHANGED <<posted, source, external>>

\* The source is exhausted or at a limit, or a shutdown signal came in.
StopItem ==
  /\ Idle
  /\ React(OnStop(leaf), FALSE)
  /\ UNCHANGED <<posted, item, source, external>>

\* nextItemType() throws: terminateAbnormally_ sets the flag and sends a Stop.
SourceThrows ==
  /\ Idle
  /\ external' = TRUE
  /\ React(OnStop(leaf), TRUE)
  /\ UNCHANGED <<posted, item, source>>

-----------------------------------------------------------------------------
(* Files: EventProcessor::readFile ... closeOutputFiles.  A call that throws *)
(* half way may leave what it opens open.                                   *)

ReadFile ==
  /\ Running("readFile")
  /\ \/ Returns /\ files' = [files EXCEPT !.input = TRUE] /\ item' = "none"
     \/ Throws /\ files' \in {files, [files EXCEPT !.input = TRUE]} /\ item' = item
  /\ UNCHANGED <<posted, objects, cache, history>>

CloseInputFile ==
  /\ Running("closeInputFile")
  /\ \/ Returns /\ files' = [files EXCEPT !.input = FALSE]
     \/ Throws /\ UNCHANGED files
  /\ UNCHANGED <<posted, item, objects, cache, history>>

OpenOutputFiles ==
  /\ Running("openOutputFiles")
  /\ \/ Returns /\ files' = [files EXCEPT !.output = TRUE]
     \/ Throws /\ files' \in {files, [files EXCEPT !.output = TRUE]}
  /\ UNCHANGED <<posted, item, objects, cache, history>>

CloseOutputFiles ==
  /\ Running("closeOutputFiles")
  /\ \/ Returns /\ files' = [files EXCEPT !.output = FALSE] /\ written' = NoneOf
     \/ Throws /\ UNCHANGED <<files, written>>
  /\ UNCHANGED <<posted, item, objects, cache, begun, unwritten>>

\* respondToOpenInputFile and the like: the workers are told, any may throw.
Respond ==
  /\ \E call \in Responses : Running(call)
  /\ Returns \/ Throws
  /\ UNCHANGED <<posted, item, objects, cache, files, history>>

-----------------------------------------------------------------------------
(* Reading and writing principals.  Flush markers are cached and erased like *)
(* any other principal, and never written, begun or ended.                  *)

\* A run or a sub-run is written and at once erased from the cache.
WritesRun(r) ==
  /\ cache' = DeleteRun(cache, r)
  /\ unwritten' = [unwritten EXCEPT !.runs = @ \ {r}]
  /\ written' = [written EXCEPT !.runs = @ \cup ({r} \ FlushRuns)]
WritesSubRun(sr) ==
  /\ cache' = DeleteSubRun(cache, sr)
  /\ unwritten' = [unwritten EXCEPT !.subRuns = @ \ {sr}]
  /\ written' = [written EXCEPT !.subRuns = @ \cup ({sr} \ FlushSubRuns)]

\* One turn of the loop of writeSubRunCache, or its end.
WriteSubRunCache ==
  /\ Running("writeSubRunCache")
  /\ \/ /\ cache.subRuns = {}
        /\ Returns
        /\ UNCHANGED <<cache, unwritten, written>>
     \/ /\ \E sr \in cache.subRuns : IsLowestSubRun(cache, sr) /\ WritesSubRun(sr)
        /\ UNCHANGED <<config, phase, depth, leaf, move, todo, source, failure>>
     \/ cache.subRuns # {} /\ Throws /\ UNCHANGED <<cache, unwritten, written>>
  /\ UNCHANGED <<posted, item, objects, files, begun>>

WriteRunCache ==
  /\ Running("writeRunCache")
  /\ \/ /\ cache.runs = {}
        /\ Returns
        /\ UNCHANGED <<cache, unwritten, written>>
     \/ /\ \E r \in cache.runs : IsLowestRun(cache, r) /\ WritesRun(r)
        /\ UNCHANGED <<config, phase, depth, leaf, move, todo, source, failure>>
     \/ cache.runs # {} /\ Throws /\ UNCHANGED <<cache, unwritten, written>>
  /\ UNCHANGED <<posted, item, objects, files, begun>>

\* readAndCacheRun(), readAndCacheSubRun(): the read that fails may be that of
\* a secondary file, with the principal already in the cache.
CachesRun ==
  /\ cache' = InsertRun(cache, source.run)
  /\ unwritten' = [unwritten EXCEPT !.runs = @ \cup ({source.run} \ FlushRuns)]
CachesSubRun ==
  /\ cache' = InsertSubRun(cache, source.subRun)
  /\ unwritten' = [unwritten EXCEPT !.subRuns = @ \cup ({source.subRun} \ FlushSubRuns)]
CachesNothing == UNCHANGED <<cache, unwritten>>

ReadAndCacheRun ==
  /\ Running("readAndCacheRun")
  /\ \/ Returns /\ CachesRun /\ item' = "none"
     \/ Throws /\ (CachesRun \/ CachesNothing) /\ item' = item
  /\ UNCHANGED <<objects, posted, files, begun, written>>

ReadAndCacheSubRun ==
  /\ Running("readAndCacheSubRun")
  /\ \/ Returns /\ CachesSubRun /\ item' = "none"
     \/ Throws /\ (CachesSubRun \/ CachesNothing) /\ item' = item
  /\ UNCHANGED <<objects, posted, files, begun, written>>

-----------------------------------------------------------------------------
(* HandleRuns.                                                              *)

WritesRunsAtEnd == config.fileMode \in {"NOMERGE", "MERGE", "FULLLUMIMERGE"}
RefusesSplitRuns == config.fileMode \in {"MERGE", "FULLLUMIMERGE"}

\* setupCurrentRun(): runException_ is true while reading, and stays true when
\* the run is refused as discontinuous.
SetupCurrentRun ==
  /\ Running("setupCurrentRun")
  /\ \/ /\ CachesRun /\ item' = "none"
        /\ IF RefusesSplitRuns /\ source.run \in handleRuns.previousRuns
             THEN /\ Throws
                  /\ handleRuns' = [handleRuns EXCEPT !.currentRun = source.run, !.runException = TRUE]
             ELSE /\ Expands(IF config.handleEmptyRuns THEN <<"beginRun">> ELSE <<>>)
                  /\ handleRuns' = [handleRuns EXCEPT !.currentRun = source.run, !.runException = FALSE]
     \/ /\ Throws /\ (CachesRun \/ CachesNothing) /\ item' = item
        /\ handleRuns' = [handleRuns EXCEPT !.runException = TRUE]
  /\ UNCHANGED <<posted, handleSubRuns, files, begun, written>>

BeginRunIfNotDoneAlready ==
  /\ Running("beginRunIfNotDoneAlready")
  /\ Expands(IF handleRuns.beginRunCalled THEN <<>> ELSE <<"beginRun">>)
  /\ UNCHANGED <<posted, item, objects, cache, files, history>>

\* beginRun, endRun and writeRun do nothing for a flush run, and throw for any
\* other that is not in the cache.
RunFoundOrFlush == FindsRun(cache, handleRuns.currentRun) \/ handleRuns.currentRun \in FlushRuns

BeginRun ==
  /\ Running("beginRun")
  /\ \/ /\ RunFoundOrFlush
        /\ Returns
        /\ handleRuns' = [handleRuns EXCEPT !.beginRunCalled = TRUE, !.runException = FALSE]
        /\ begun' = [begun EXCEPT !.runs = @ \cup ({handleRuns.currentRun} \ FlushRuns)]
     \/ /\ handleRuns.currentRun \notin FlushRuns /\ Throws
        /\ handleRuns' = [handleRuns EXCEPT !.beginRunCalled = TRUE, !.runException = TRUE]
        /\ UNCHANGED begun
  /\ UNCHANGED <<posted, item, handleSubRuns, cache, files, unwritten, written>>

\* endRun() clears runException_ on return although finalizeRun(), which calls
\* it, has set the flag to cover the writing too.
EndRun ==
  /\ Running("endRun")
  /\ \/ /\ RunFoundOrFlush
        /\ Returns
        /\ handleRuns' = [handleRuns EXCEPT !.beginRunCalled = FALSE, !.runException = FALSE]
     \/ /\ handleRuns.currentRun \notin FlushRuns /\ Throws
        /\ handleRuns' = [handleRuns EXCEPT !.beginRunCalled = FALSE, !.runException = TRUE]
  /\ begun' = [begun EXCEPT !.runs = @ \ {handleRuns.currentRun}]
  /\ UNCHANGED <<posted, item, handleSubRuns, cache, files, unwritten, written>>

FinalizeRun ==
  /\ Running("finalizeRun")
  /\ \/ /\ handleRuns.runException
        /\ Returns
        /\ UNCHANGED handleRuns
     \/ /\ ~handleRuns.runException
        /\ handleRuns' = [handleRuns EXCEPT !.runException = TRUE]
        /\ Expands((IF handleRuns.beginRunCalled THEN <<"endRun">> ELSE <<>>)
                   \o (IF WritesRunsAtEnd THEN <<"writeRun">> ELSE <<>>)
                   \o <<"clearCurrentRun">>)
  /\ UNCHANGED <<posted, item, handleSubRuns, cache, files, history>>

\* ep_.writeRun, ep_.deleteRunFromCache, previousRuns_.insert
WriteRun ==
  /\ Running("writeRun")
  /\ \/ /\ RunFoundOrFlush
        /\ Returns
        /\ WritesRun(handleRuns.currentRun)
        /\ handleRuns' = [handleRuns EXCEPT !.previousRuns = @ \cup {handleRuns.currentRun}]
     \/ /\ handleRuns.currentRun \notin FlushRuns /\ Throws
        /\ UNCHANGED <<handleRuns, cache, unwritten, written>>
  /\ UNCHANGED <<posted, item, handleSubRuns, files, begun>>

ClearCurrentRun ==
  /\ Running("clearCurrentRun")
  /\ Returns
  /\ handleRuns' = [handleRuns EXCEPT !.currentRun = NoRun, !.runException = FALSE]
  /\ UNCHANGED <<posted, item, handleSubRuns, cache, files, history>>

-----------------------------------------------------------------------------
(* HandleSubRuns.                                                           *)

WritesSubRunsAtEnd == config.fileMode \in {"NOMERGE", "MERGE"}
RefusesSplitSubRuns == config.fileMode = "MERGE"
WriteIfAtEnd == IF WritesSubRunsAtEnd THEN <<"writeSubRun">> ELSE <<>>

\* The sub-run a call is about: *iter inside the loop of
\* finalizeOutstandingSubRuns, else the current one.
Subject == IF handleSubRuns.iter = 0 THEN handleSubRuns.current
                                     ELSE handleSubRuns.unhandled[handleSubRuns.iter]

\* Faulty: the flag currentSubRunEmpty_ of the previous sub-run stays.
AcceptedSubRunStale(sr) == [handleSubRuns EXCEPT !.current = sr, !.exception = FALSE]
\* HandleSubRuns once the current sub-run has been read.
AcceptedSubRun(sr) == [handleSubRuns EXCEPT !.current = sr, !.exception = FALSE, !.empty = TRUE]

SubRunFoundOrFlush == FindsSubRun(cache, Subject) \/ Subject \in FlushSubRuns

SetupCurrentSubRun ==
  /\ Running("setupCurrentSubRun")
  /\ \/ /\ CachesSubRun /\ item' = "none"
        /\ IF RefusesSplitSubRuns /\ source.subRun \in handleSubRuns.previous
             THEN /\ Throws
                  /\ handleSubRuns' = [handleSubRuns EXCEPT !.current = source.subRun, !.exception = TRUE]
             ELSE /\ Returns
                  /\ handleSubRuns' = AcceptedSubRun(source.subRun)
     \/ /\ Throws /\ (CachesSubRun \/ CachesNothing) /\ item' = item
        /\ handleSubRuns' = [handleSubRuns EXCEPT !.exception = TRUE]
  /\ UNCHANGED <<posted, handleRuns, files, begun, written>>

FinalizeAllSubRuns ==
  /\ Running("finalizeAllSubRuns")
  /\ Expands(IF handleSubRuns.exception \/ handleRuns.runException
               THEN <<>> ELSE <<"finalizeSubRun", "finalizeOutstandingSubRuns">>)
  /\ UNCHANGED <<posted, item, objects, cache, files, history>>

\* An empty sub-run is begun and ended only if empty sub-runs are handled; when
\* its run has not begun yet, that is put off (unhandledSubRuns_).
FinalizeSubRun ==
  /\ Running("finalizeSubRun")
  /\ \/ /\ ~handleSubRuns.empty
        /\ Expands(<<"endSubRun">> \o WriteIfAtEnd \o <<"clearCurrentSubRun">>)
        /\ handleSubRuns' = [handleSubRuns EXCEPT !.exception = TRUE]
     \/ /\ handleSubRuns.empty /\ config.handleEmptySubRuns /\ handleRuns.beginRunCalled
        /\ Expands(<<"beginSubRun", "endSubRun">> \o WriteIfAtEnd \o <<"clearCurrentSubRun">>)
        /\ handleSubRuns' = [handleSubRuns EXCEPT !.exception = TRUE]
     \/ /\ handleSubRuns.empty /\ config.handleEmptySubRuns /\ ~handleRuns.beginRunCalled
        /\ Expands(<<"clearCurrentSubRun">>)
        /\ handleSubRuns' = [handleSubRuns EXCEPT !.exception = TRUE,
                                !.unhandled = Append(@, handleSubRuns.current),
                                !.previous = @ \cup {handleSubRuns.current}]
     \/ /\ handleSubRuns.empty /\ ~config.handleEmptySubRuns
        /\ Expands(WriteIfAtEnd \o <<"clearCurrentSubRun">>)
        /\ handleSubRuns' = [handleSubRuns EXCEPT !.exception = TRUE]
  /\ UNCHANGED <<posted, item, handleRuns, cache, files, history>>

ClearCurrentSubRun ==
  /\ Running("clearCurrentSubRun")
  /\ Returns
  /\ handleSubRuns' = [handleSubRuns EXCEPT !.current = NoSubRun, !.exception = FALSE]
  /\ UNCHANGED <<posted, item, handleRuns, cache, files, history>>

FinalizeOutstandingSubRuns ==
  /\ Running("finalizeOutstandingSubRuns")
  /\ Expands(<<"nextOutstanding">>)
  /\ handleSubRuns' = [handleSubRuns EXCEPT !.exception = TRUE]
  /\ UNCHANGED <<posted, item, handleRuns, cache, files, history>>

\* Faulty: each turn of the loop starts again with the first sub-run.
NextOutstandingAnew ==
  /\ Running("nextOutstanding")
  /\ \/ /\ handleSubRuns.unhandled # <<>>
        /\ Expands(<<"beginSubRun", "endSubRun">> \o WriteIfAtEnd \o <<"nextOutstanding">>)
        /\ handleSubRuns' = [handleSubRuns EXCEPT !.iter = 1]
     \/ handleSubRuns.unhandled = <<>> /\ Returns /\ UNCHANGED handleSubRuns
  /\ UNCHANGED <<posted, item, handleRuns, cache, files, history>>

\* The loop of finalizeOutstandingSubRuns: the next turn, or clear() after it.
NextOutstanding ==
  /\ Running("nextOutstanding")
  /\ \/ /\ handleSubRuns.iter < Len(handleSubRuns.unhandled)
        /\ Expands(<<"beginSubRun", "endSubRun">> \o WriteIfAtEnd \o <<"nextOutstanding">>)
        /\ handleSubRuns' = [handleSubRuns EXCEPT !.iter = @ + 1]
     \/ /\ handleSubRuns.iter = Len(handleSubRuns.unhandled)
        /\ Returns
        /\ handleSubRuns' = [handleSubRuns EXCEPT !.iter = 0, !.unhandled = <<>>, !.exception = FALSE]
  /\ UNCHANGED <<posted, item, handleRuns, cache, files, history>>

\* The first event of a sub-run begins it, after the sub-runs put off.
MarkSubRunNonEmpty ==
  /\ Running("markSubRunNonEmpty")
  /\ Expands(IF handleSubRuns.empty THEN <<"finalizeOutstandingSubRuns", "startSubRun">> ELSE <<>>)
  /\ UNCHANGED <<posted, item, objects, cache, files, history>>

StartSubRun ==
  /\ Running("startSubRun")
  /\ Expands(<<"beginSubRun", "subRunStarted">>)
  /\ handleSubRuns' = [handleSubRuns EXCEPT !.exception = TRUE]
  /\ UNCHANGED <<posted, item, handleRuns, cache, files, history>>

SubRunStarted ==
  /\ Running("subRunStarted")
  /\ Returns
  /\ handleSubRuns' = [handleSubRuns EXCEPT !.exception = FALSE, !.empty = FALSE]
  /\ UNCHANGED <<posted, item, handleRuns, cache, files, history>>

BeginSubRun ==
  /\ Running("beginSubRun")
  /\ \/ /\ SubRunFoundOrFlush /\ Returns
        /\ begun' = [begun EXCEPT !.subRuns = @ \cup ({Subject} \ FlushSubRuns)]
     \/ Subject \notin FlushSubRuns /\ Throws /\ UNCHANGED begun
  /\ UNCHANGED <<posted, item, objects, cache, files, unwritten, written>>

EndSubRun ==
  /\ Running("endSubRun")
  /\ begun' = [begun EXCEPT !.subRuns = @ \ {Subject}]
  /\ (SubRunFoundOrFlush /\ Returns) \/ (Subject \notin FlushSubRuns /\ Throws)
  /\ UNCHANGED <<posted, item, objects, cache, files, unwritten, written>>

\* ep_.writeSubRun, ep_.deleteSubRunFromCache, previousSubRuns_.insert
WriteSubRun ==
  /\ Running("writeSubRun")
  /\ \/ /\ SubRunFoundOrFlush
        /\ Returns
        /\ WritesSubRun(Subject)
        /\ handleSubRuns' = [handleSubRuns EXCEPT !.previous = @ \cup {Subject}]
     \/ /\ Subject \notin FlushSubRuns /\ Throws
        /\ UNCHANGED <<handleSubRuns, cache, unwritten, written>>
  /\ UNCHANGED <<posted, item, handleRuns, files, begun>>

-----------------------------------------------------------------------------
(* Events, the end of a loop, and the Error state.                          *)

ReadEvent ==
  /\ Running("readEvent")
  /\ (Returns /\ item' = "none") \/ (Throws /\ item' = item)
  /\ UNCHANGED <<posted, objects, cache, files, history>>

\* processEvent(), then shouldWeStop(): a Stop is posted when the output
\* modules ask to terminate.
ProcessEvent ==
  /\ Running("processEvent")
  /\ (Returns /\ posted' \in {"none", "Stop"}) \/ (Throws /\ posted' = posted)
  /\ UNCHANGED <<item, objects, cache, files, history>>

\* Faulty: endOfLoop() is asked even while an exception is handled.
EndOfLoopAsked == {IF answer THEN "Stop" ELSE "Restart" : answer \in EndOfLoopAnswers}
\* endOfLoop() can throw, so it is not asked while an exception is handled.
EndOfLoopEvents == IF external THEN {"Stop"}
                   ELSE {IF answer THEN "Stop" ELSE "Restart" : answer \in EndOfLoopAnswers}
EndOfLoop ==
  /\ Running("endOfLoop")
  /\ \/ Returns /\ posted' \in EndOfLoopEvents
     \/ ~external /\ Throws /\ posted' = posted
  /\ UNCHANGED <<item, objects, cache, files, history>>

DoErrorStuff ==
  /\ Running("doErrorStuff")
  /\ todo' = Tail(todo)
  /\ posted' = "Stop"
  /\ errorState' = TRUE
  /\ UNCHANGED <<config, phase, depth, leaf, move, item, source, external, primary, swallowed,
                 objects, cache, files, history>>

RewindInput ==
  /\ Running("rewindInput")
  /\ \/ /\ todo' = Tail(todo)
        /\ source' = [run |-> NoRun, subRun |-> NoSubRun]
        /\ UNCHANGED <<config, phase, depth, leaf, move, failure>>
     \/ Throws
  /\ UNCHANGED <<posted, item, objects, cache, files, history>>

-----------------------------------------------------------------------------
Item == FileItem \/ RunItem \/ SubRunItem \/ EventItem \/ StopItem \/ SourceThrows

FileStep == ReadFile \/ CloseInputFile \/ OpenOutputFiles \/ CloseOutputFiles \/ Respond
            \/ WriteSubRunCache \/ WriteRunCache

RunStep == ReadAndCacheRun \/ SetupCurrentRun \/ BeginRunIfNotDoneAlready \/ BeginRun \/ EndRun
           \/ FinalizeRun \/ WriteRun \/ ClearCurrentRun

SubRunStep == ReadAndCacheSubRun \/ SetupCurrentSubRun \/ FinalizeAllSubRuns \/ FinalizeSubRun
              \/ ClearCurrentSubRun \/ FinalizeOutstandingSubRuns \/ NextOutstanding
              \/ MarkSubRunNonEmpty \/ StartSubRun \/ SubRunStarted
              \/ BeginSubRun \/ EndSubRun \/ WriteSubRun

TransitionStep == LeaveComposite \/ ActionDone \/ EnterComposite \/ ConstructorDone \/ ProcessPosted

\* What the machine does by itself once process_event has been called.
MachineStep == TransitionStep \/ FileStep \/ RunStep \/ SubRunStep
               \/ ReadEvent \/ ProcessEvent \/ EndOfLoop \/ DoErrorStuff \/ RewindInput

\* The machine has terminated: runCommon_ returns or rethrows.
Done == phase = "terminated" /\ UNCHANGED vars

Next == Item \/ MachineStep \/ Done

Spec == Init /\ [][Next]_vars

\* process_event is a plain function call: it goes on until it returns.
FairSpec == Spec /\ WF_vars(MachineStep)
-----------------------------------------------------------------------------
(* Safety properties.                                                       *)

NextCall == IF todo = <<>> THEN "none" ELSE Head(todo)

\* A run begins its sub-runs late when it begins late itself and may be empty.
DefersSubRuns == config.handleEmptySubRuns /\ ~config.handleEmptyRuns

\* In this configuration a sub-run put off twice, or put off and then met again,
\* is erased from the cache when the first is written.
MayEraseTooEarly == DefersSubRuns /\ config.fileMode = "NOMERGE"

\* The asserts of the leaves: checkInvariant() of every state, and the
\* assertions around setupCurrentRun().  They hold whenever the machine waits
\* in the leaf, hence after its constructor, in its reactions and in its
\* destructor.
LeafInvariant ==
  /\ Idle =>
       /\ depth = ParentDepth(leaf)
       /\ leaf \in RunLeaves \cup SubRunLeaves => handleRuns.currentRun # NoRun
       /\ leaf \in SubRunLeaves =>
            handleSubRuns.current # NoSubRun /\ RunOf(handleSubRuns.current) = handleRuns.currentRun
       /\ leaf \in {"FirstSubRun", "AnotherSubRun"} => handleSubRuns.empty
       /\ leaf \in {"FirstSubRun", "HandleEvent"} => handleSubRuns.unhandled = <<>>
       /\ leaf = "HandleEvent" => handleRuns.beginRunCalled /\ ~handleSubRuns.empty
  /\ depth = 3 => handleRuns.currentRun # NoRun
  /\ NextCall = "setupCurrentRun" => handleRuns.currentRun = NoRun

\* An event reaches the modules only inside its run and its sub-run, each
\* begun, with the principals it hangs on still in the cache, the current ones
\* and of the same run, and with the input and the output files open.
EventInContext ==
  NextCall = "processEvent" =>
    /\ files.input /\ files.output
    /\ begun.runs = {handleRuns.currentRun} \ FlushRuns
    /\ begun.subRuns = {handleSubRuns.current} \ FlushSubRuns
    /\ cache.currentRun = handleRuns.currentRun /\ cache.currentRun \in cache.runs
    /\ cache.currentSubRun = handleSubRuns.current
    /\ cache.currentSubRun \in cache.subRuns \/ MayEraseTooEarly
    /\ RunOf(cache.currentSubRun) = cache.currentRun

\* The look-ups that PrincipalCache says should never fail do not fail, also
\* while exceptions unwind the machine, except in the configuration above.
LookupsSucceed ==
  /\ NextCall \in {"beginRun", "endRun", "writeRun"} => FindsRun(cache, handleRuns.currentRun)
  /\ NextCall \in {"beginSubRun", "endSubRun", "writeSubRun"} =>
       FindsSubRun(cache, Subject) \/ MayEraseTooEarly

\* The claim of PrincipalCache.cc without the exception.
LookupsNeverFail ==
  NextCall \in {"beginSubRun", "endSubRun", "writeSubRun"} => FindsSubRun(cache, Subject)

\* Whenever the output files are closed everything read has been written: no
\* order of files, runs, exceptions and clean-up closes them too early.
NothingLostAtClose == ~files.output => unwritten = NoneOf

\* In the merging modes a run or a sub-run that is waiting in the cache has not
\* been written to the output files that are open, so nothing is written twice
\* as long as no exception is being handled.
WrittenOnce ==
  config.fileMode # "NOMERGE" /\ primary = "none" /\ ~external =>
    cache.runs \cap written.runs = {} /\ cache.subRuns \cap written.subRuns = {}

\* In the modes that write sub-runs as they end, a run is written after all
\* its sub-runs, as long as no exception is being handled.
SubRunsBeforeRun ==
  WritesSubRunsAtEnd /\ primary = "none" /\ ~external /\ NextCall = "writeRun" =>
    \A sr \in cache.subRuns : RunOf(sr) # handleRuns.currentRun

\* Each read asks the source for the kind of item it has offered, and when the
\* loop asks for the next item the previous one has been read: no item is
\* skipped and none is read twice.
SourceInStep ==
  /\ NextCall = "readFile" => item = "File"
  /\ NextCall \in {"setupCurrentRun", "readAndCacheRun"} => item = "Run"
  /\ NextCall \in {"setupCurrentSubRun", "readAndCacheSubRun"} => item = "SubRun"
  /\ NextCall = "readEvent" => item = "Event"
  /\ Idle /\ ~errorState => item = "none"

\* A loop over the input that ends without an exception leaves nothing behind:
\* files closed, cache empty, every run and sub-run ended and written.
CleanEnd ==
  (phase = "terminated" \/ (Idle /\ leaf = "Starting")) /\ primary = "none" /\ swallowed = {} =>
    /\ depth = 0
    /\ ~files.input /\ ~files.output
    /\ cache.runs = {} /\ cache.subRuns = {}
    /\ begun = NoneOf /\ unwritten = NoneOf

\* However many exceptions are thrown and wherever, the end of every run and
\* sub-run begun is tried before the machine has terminated.
EveryBeginIsEnded == phase = "terminated" => begun = NoneOf

\* An exception while reading or processing, with no second one, still leaves
\* the files closed and everything that was read written.
ExceptionKeepsFiles ==
  phase = "terminated" /\ swallowed = {} /\ primary \notin FileCalls \cup CacheCalls =>
    ~files.input /\ ~files.output /\ unwritten = NoneOf

\* What the comment on exception handling in EventProcessor.cc says of every
\* exception thrown inside process_event: the destructors clean up the files.
DestructorsCleanUpFiles ==
  phase = "terminated" /\ primary # "none" /\ swallowed = {} => ~files.input /\ ~files.output

\* What the machine reads is what the source announced, in its context: the state
\* the machine is in fits the objects there are, an event is processed within its
\* sub-run and run, the source is neither skipped nor read twice, and what is
\* looked up in the cache is there.
ReadInOrder == LeafInvariant /\ EventInContext /\ SourceInStep /\ LookupsSucceed

\* Every run and sub-run begun is ended and written once, the sub-runs before
\* their run, and all is closed when the machine ends, after exceptions too but
\* for what an exception in a destructor gives up.
WrittenInOrder ==
  WrittenOnce /\ SubRunsBeforeRun /\ CleanEnd /\ EveryBeginIsEnded /\ ExceptionKeepsFiles

-----------------------------------------------------------------------------
(* The contract the modules see.                                            *)

Contract == INSTANCE OccurrenceProtocol
              WITH input <- files.input, output <- files.output,
                   runs <- begun.runs, subRuns <- begun.subRuns, orphans <- DefersSubRuns

\* The machine implements the protocol of files, runs and sub-runs.
ImplementsProtocol == Contract!Spec

-----------------------------------------------------------------------------
(* Liveness.                                                                *)

\* process_event always returns or throws: the loops over the cache and over
\* the sub-runs put off, the forwarded and the posted events all come to an end.
ProcessEventReturns == ~Idle ~> (Idle \/ phase = "terminated")

\* An exception, inside the machine or in the loop, always terminates it.
ExceptionTerminates == (primary # "none" \/ external) ~> (phase = "terminated")
=============================================================================
