------------------------------- MODULE EPChart -------------------------------
(***************************************************************************)
(* The static part of the state machine of the EventProcessor               *)
(* (art/Framework/EventProcessor/EPStates.h): its states, their nesting     *)
(* and, for each event, the state and the transition action it leads to.    *)
(*                                                                          *)
(*   Starting   EndingLoop   Error   HandleFiles                  depth 1    *)
(*     FirstFile  HandleNewInputFile1  NewInputAndOutputFiles                *)
(*     HandleRuns                                                 depth 2    *)
(*       NewRun  HandleNewInputFile2  ContinueRun1                           *)
(*       HandleSubRuns                                            depth 3    *)
(*         FirstSubRun  AnotherSubRun  HandleEvent                           *)
(*         HandleNewInputFile3  ContinueRun2  ContinueSubRun                 *)
(*                                                                          *)
(* The three composite states are named by their depth; every other state   *)
(* is a leaf, and the machine is always in exactly one leaf.                 *)
(***************************************************************************)
EXTENDS Integers

TopLeaves == {"Starting", "EndingLoop", "Error"}
FileLeaves == {"FirstFile", "HandleNewInputFile1", "NewInputAndOutputFiles"}
RunLeaves == {"NewRun", "HandleNewInputFile2", "ContinueRun1"}
SubRunLeaves == {"FirstSubRun", "AnotherSubRun", "HandleEvent",
                 "HandleNewInputFile3", "ContinueRun2", "ContinueSubRun"}
Leaves == TopLeaves \cup FileLeaves \cup RunLeaves \cup SubRunLeaves

\* How many composite states are around a leaf.
ParentDepth(leaf) == CASE leaf \in SubRunLeaves -> 3
                       [] leaf \in RunLeaves    -> 2
                       [] leaf \in FileLeaves   -> 1
                       [] OTHER                 -> 0

\* The composites that stay active in a transition: the innermost common
\* context of the source leaf and of the target leaf.
CommonDepth(source, target) ==
  IF ParentDepth(source) <= ParentDepth(target) THEN ParentDepth(source)
                                                ELSE ParentDepth(target)

Actions == {"none", "startingNewLoop", "finalizeRun", "rewindAndPrepareForNextLoop"}
Moves == [target : Leaves, action : Actions]
Goto(leaf) == [target |-> leaf, action |-> "none"]
GotoNewRun == [target |-> "NewRun", action |-> "finalizeRun"]

-----------------------------------------------------------------------------
\* File: a new input file.  "close" is what shouldWeCloseOutput() answers.
\* A leaf inside HandleRuns forwards the event when the output must close, and
\* the reaction of HandleRuns goes to NewInputAndOutputFiles.
OnFile(leaf, close) ==
  CASE leaf = "Starting" -> [target |-> "FirstFile", action |-> "startingNewLoop"]
    [] leaf \notin TopLeaves /\ close -> Goto("NewInputAndOutputFiles")
    [] leaf \in FileLeaves /\ ~close -> Goto("HandleNewInputFile1")
    [] leaf \in RunLeaves /\ ~close -> Goto("HandleNewInputFile2")
    [] leaf \in SubRunLeaves /\ ~close -> Goto("HandleNewInputFile3")

\* Run: "same" is whether its id is the current run of HandleRuns.
OnRun(leaf, same) ==
  CASE leaf = "Starting" -> Goto("Error")
    [] leaf \in FileLeaves -> Goto("NewRun")
    [] leaf = "HandleNewInputFile2" /\ same -> Goto("ContinueRun1")
    [] leaf = "HandleNewInputFile3" /\ same -> Goto("ContinueRun2")
    [] OTHER -> GotoNewRun

\* SubRun: "same" is whether its id is the current sub-run of HandleSubRuns.
\* The states with no reaction to it inherit that of HandleFiles: Error.
OnSubRun(leaf, same) ==
  CASE leaf \in {"NewRun", "ContinueRun1"} -> Goto("FirstSubRun")
    [] leaf = "ContinueRun2" /\ same -> Goto("ContinueSubRun")
    [] leaf \in SubRunLeaves \ {"HandleNewInputFile3"} /\ (leaf = "ContinueRun2" => ~same) ->
         Goto("AnotherSubRun")
    [] OTHER -> Goto("Error")

\* Event: legal once a sub-run has been set up.
OnEvent(leaf) ==
  IF leaf \in {"FirstSubRun", "AnotherSubRun", "HandleEvent", "ContinueSubRun"}
    THEN Goto("HandleEvent") ELSE Goto("Error")

\* Stop in Starting runs Machine::startingNewLoop; elsewhere it has no action.
\* EndingLoop reacts to Stop by terminate(), which is not a transition.
OnStop(leaf) ==
  [target |-> "EndingLoop", action |-> IF leaf = "Starting" THEN "startingNewLoop" ELSE "none"]

\* Restart, which only EndingLoop expects.
OnRestart(leaf) ==
  IF leaf = "EndingLoop"
    THEN [target |-> "Starting", action |-> "rewindAndPrepareForNextLoop"]
    ELSE Goto("Error")
=============================================================================
