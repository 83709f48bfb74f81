---------------------------- MODULE EPRuns_proof ----------------------------
(***************************************************************************)
(* Theorems about the sub-runs, the cache, the files and the output of     *)
(* EPStates, for all runs, sub-runs, configurations and bounds: events are *)
(* processed in their context, the machine implements OccurrenceProtocol,  *)
(* what begins is ended, and what is read is written once and in order.    *)
(*                                                                         *)
(* Each section adds an invariant to those before it: the current sub-run  *)
(* and those put off, the cache, the files, and last what was written, for *)
(* as long as no exception is handled.                                     *)
(***************************************************************************)
EXTENDS EPStates_proof

-----------------------------------------------------------------------------
(* The current sub-run and the sub-runs put off.                            *)

subRun == handleSubRuns.current
PutOff == handleSubRuns.unhandled
Turn == handleSubRuns.iter

SubRunKnown ==
  /\ depth = 3 /\ phase = "construct" => (subRun = NoSubRun <=> NextCall = "setupCurrentSubRun")
  /\ depth = 3 /\ subRun = NoSubRun =>
       \/ Broken \/ NextCall = "setupCurrentSubRun"
       \/ GoesDown /\ NextCall \in {"none", "finalizeOutstandingSubRuns"}
  /\ GoesDown /\ NextCall \in {"finalizeOutstandingSubRuns", "nextOutstanding"} => subRun = NoSubRun
  /\ GoesDown /\ InLoop /\ NextCall \in SubRunBodies => subRun = NoSubRun
  /\ GoesDown /\ depth = 3 /\ NextCall = "none" => Broken \/ IsEmpty \/ subRun = NoSubRun

SubRunCallsFit ==
  /\ NextCall \in {"finalizeSubRun", "clearCurrentSubRun"} => subRun # NoSubRun
  /\ NextCall \in SubRunBodies /\ ~InLoop => subRun # NoSubRun
  /\ NextCall \in {"setupCurrentSubRun", "finalizeSubRun"} => ~Broken
  /\ NextCall = "writeSubRun" => WritesSubRunsAtEnd

SubRunBrokenFits ==
  Broken => NextCall \in LoopCalls \/ primary # "none" \/ (phase = "destroy" /\ NextCall = "none" /\ depth = 3)

\* A sub-run starts without events, and gets the first one in HandleEvent.
EmptyFits ==
  /\ phase \in {"construct", "stable"} /\ leaf \in {"FirstSubRun", "AnotherSubRun"} /\ NextCall = "none" => IsEmpty
  /\ phase \in {"construct", "stable"} /\ leaf = "HandleEvent" =>
       /\ NextCall \in {"none", "readEvent", "processEvent"} => ~IsEmpty
       /\ NextCall \in SubRunBodies \cup {"finalizeOutstandingSubRuns", "nextOutstanding", "startSubRun", "subRunStarted"} => IsEmpty

\* Only an empty sub-run waits, and none when a sub-run begins.
PutOffFits ==
  /\ Turn <= Len(PutOff)
  /\ ~DefersSubRuns => PutOff = <<>>
  /\ PutOff # <<>> => IsEmpty
  /\ NextCall \in {"startSubRun", "subRunStarted"} => PutOff = <<>>
  /\ NextCall = "beginSubRun" /\ StartsSubRun => PutOff = <<>>
  /\ leaf = "FirstSubRun" /\ phase \in {"construct", "stable"} => PutOff = <<>>

SubRunBegun ==
  begun.subRuns = IF NextCall \in {"endSubRun", "subRunStarted"} THEN {Subject} \ FlushSubRuns
                  ELSE IF ~IsEmpty /\ ~Broken /\ subRun # NoSubRun THEN {subRun} \ FlushSubRuns ELSE {}

SubRunInv == SubRunKnown /\ SubRunCallsFit /\ SubRunBrokenFits /\ EmptyFits /\ PutOffFits /\ SubRunBegun

LEMMA SubRunInvFrom ==
  ASSUME SubRunKnown', SubRunCallsFit', SubRunBrokenFits', EmptyFits', PutOffFits', SubRunBegun'
  PROVE  SubRunInv'
  BY DEF SubRunInv

-----------------------------------------------------------------------------
(* Steps outside HandleSubRuns.                                             *)

LEMMA NoSubRunOutside ==
  ASSUME OrderInv, depth < 3
  PROVE  /\ subRun = NoSubRun /\ ~Broken /\ IsEmpty /\ PutOff = <<>> /\ Turn = 0 /\ ~InLoop
         /\ NextCall \notin SubRunCalls
<1>1. handleSubRuns = NewHandleSubRuns
  BY DEF OrderInv, LoopFits
<1>2. NextCall \notin SubRunCalls
  BY SubRunThere
<1> QED
  BY <1>1, <1>2 DEF NewHandleSubRuns, subRun, Broken, IsEmpty, PutOff, Turn, InLoop

LEMMA SubRunOutside ==
  ASSUME OrderInv, depth < 3, begun.subRuns = {} PROVE SubRunInv
<1>1. /\ subRun = NoSubRun /\ ~Broken /\ IsEmpty /\ PutOff = <<>> /\ Turn = 0 /\ ~InLoop
      /\ NextCall \notin SubRunCalls /\ depth \in 0..3
  BY NoSubRunOutside DEF OrderInv, TypeInv, Control, ControlOK
<1>2. /\ {"finalizeOutstandingSubRuns", "nextOutstanding", "finalizeSubRun", "clearCurrentSubRun",
          "setupCurrentSubRun", "startSubRun", "subRunStarted", "endSubRun", "beginSubRun"} \subseteq SubRunCalls
      /\ SubRunBodies \subseteq SubRunCalls
  BY DEF SubRunCalls, SubRunBodies
<1>3. leaf = "HandleEvent" /\ phase \in {"construct", "stable"} => depth = 3
  BY DepthOfTargets DEF OrderInv, Between
<1>4. Len(<<>>) = 0
  OBVIOUS
<1>5. SubRunKnown /\ SubRunCallsFit /\ SubRunBrokenFits /\ SubRunBegun
  BY <1>1, <1>2 DEF SubRunKnown, SubRunCallsFit, SubRunBodies, SubRunBrokenFits, SubRunBegun
<1>6. EmptyFits /\ PutOffFits
  BY <1>1, <1>2, <1>3, <1>4 DEF EmptyFits, PutOffFits
<1> QED
  BY <1>5, <1>6 DEF SubRunInv

LEMMA SubRunGone == OrderInv' /\ depth' < 3 /\ begun'.subRuns = {} => SubRunInv'
<1>1. (OrderInv /\ depth < 3 /\ begun.subRuns = {} => SubRunInv)'
  BY SubRunOutside, PTL
<1> QED
  BY <1>1

LEMMA NoneBegunOutside == OrderInv /\ SubRunInv /\ depth < 3 => begun.subRuns = {}
<1> SUFFICES ASSUME OrderInv, SubRunInv, depth < 3 PROVE begun.subRuns = {}
  OBVIOUS
<1>1. "endSubRun" \in SubRunCalls /\ "subRunStarted" \in SubRunCalls
  BY DEF SubRunCalls
<1> QED
  BY <1>1, NoSubRunOutside DEF SubRunInv, SubRunBegun

-----------------------------------------------------------------------------
(* Steps that leave the sub-run alone.                                      *)

SameSubRun ==
  /\ subRun' = subRun /\ (Broken' <=> Broken) /\ (IsEmpty' <=> IsEmpty) /\ PutOff' = PutOff /\ Turn' = Turn
  /\ (InLoop' <=> InLoop) /\ Subject' = Subject /\ begun'.subRuns = begun.subRuns

LEMMA SameSubRuns == ASSUME handleSubRuns' = handleSubRuns, begun'.subRuns = begun.subRuns PROVE SameSubRun
  BY DEF SameSubRun, subRun, Broken, IsEmpty, PutOff, Turn, InLoop, Subject

LEMMA SubjectIs == OrderInv /\ ~InLoop => Subject = subRun
<1> SUFFICES ASSUME OrderInv, ~InLoop PROVE Subject = subRun
  OBVIOUS
<1>1. handleSubRuns.iter \in Nat
  BY DEF OrderInv, TypeInv, DataOK, SubRunFields
<1> QED
  BY <1>1 DEF InLoop, Subject, subRun

QuietSubRun == SubRunCalls \ {"readAndCacheSubRun"}

\* A statement that is not about sub-runs returns.
LEMMA SubRunQuietGoes ==
  ASSUME OrderInv, SubRunInv, NEW next, Goes(next), SameSubRun, depth = 3, NextCall # "none",
         NextCall \notin QuietSubRun, next \notin QuietSubRun \ {"markSubRunNonEmpty"},
         phase = "construct" => leaf \notin {"FirstSubRun", "AnotherSubRun"},
         leaf = "HandleEvent" /\ next \in {"none", "readEvent", "processEvent"} =>
           NextCall \in {"none", "readEvent", "processEvent"}
  PROVE  SubRunInv'
<1>1. /\ {"finalizeOutstandingSubRuns", "nextOutstanding", "finalizeSubRun", "clearCurrentSubRun",
          "setupCurrentSubRun", "startSubRun", "subRunStarted", "endSubRun", "beginSubRun"}
            \subseteq QuietSubRun \ {"markSubRunNonEmpty"}
      /\ SubRunBodies \subseteq QuietSubRun \ {"markSubRunNonEmpty"}
      /\ LoopCalls \subseteq QuietSubRun \ {"markSubRunNonEmpty"}
  BY DEF SubRunCalls, SubRunBodies, QuietSubRun, LoopCalls
<1>2. /\ NextCall' = next
      /\ UNCHANGED <<config, phase, depth, leaf, move, source, external, primary>>
  BY DEF Goes
<1>3. ~GoesDown
  <2>1. GoesDown => NextCall \in {"finalizeAllSubRuns", "finalizeSubRun", "clearCurrentSubRun",
          "finalizeOutstandingSubRuns", "nextOutstanding"} \cup SubRunBodies
    <3>1. NextCall \in Calls
      BY NextIs DEF OrderInv, TypeInv, Control, ControlOK
    <3> QED
      BY <3>1, CallsAre DEF OrderInv, InPlace, RunEnds, Closes, EventCalls, SubRunBodies, GoesDown, ChangesInput, Constructs
  <2>2. "finalizeAllSubRuns" \in QuietSubRun
    BY DEF QuietSubRun, SubRunCalls
  <2> QED
    BY <1>1, <2>1, <2>2
<1>4. ~GoesDown' /\ phase # "stable"
  <2>1. phase # "stable"
    BY WaitsFor
  <2> QED
    BY <1>2, <1>3, <2>1 DEF GoesDown
<1>5. SubRunKnown'
  BY <1>1, <1>2, <1>4 DEF SubRunInv, SubRunKnown, SameSubRun
<1>6. SubRunCallsFit'
  BY <1>1, <1>2 DEF SubRunCallsFit, SubRunBodies
<1>7. SubRunBrokenFits'
  BY <1>1, <1>2, <1>3 DEF SubRunInv, SubRunBrokenFits, SameSubRun
<1>8. EmptyFits'
  BY <1>1, <1>2, <1>4 DEF SubRunInv, EmptyFits, SameSubRun
<1>9. PutOffFits'
  <2>1. DefersSubRuns' <=> DefersSubRuns
    BY <1>2 DEF DefersSubRuns
  <2> QED
    BY <1>1, <1>2, <2>1 DEF SubRunInv, PutOffFits, SameSubRun, StartsSubRun
<1>10. SubRunBegun'
  BY <1>1, <1>2 DEF SubRunInv, SubRunBegun, SameSubRun
<1> QED
  BY <1>5, <1>6, <1>7, <1>8, <1>9, <1>10, SubRunInvFrom

\* An exception in HandleSubRuns.
LEMMA SubRunFails ==
  ASSUME OrderInv, OrderInv', Fails, NextCall # "none", depth = 3,
         subRun' = NoSubRun => Broken' \/ GoesDown,
         GoesDown => Broken' \/ IsEmpty' \/ subRun' = NoSubRun,
         Turn' <= Len(PutOff'), ~DefersSubRuns => PutOff' = <<>>, PutOff' # <<>> => IsEmpty',
         begun'.subRuns = IF ~IsEmpty' /\ ~Broken' /\ subRun' # NoSubRun THEN {subRun'} \ FlushSubRuns ELSE {}
  PROVE  SubRunInv'
<1>1. /\ phase' = "destroy" /\ NextCall' \in {"none", "finalizeAllSubRuns"}
      /\ NextCall' = "none" <=> GoesDown
      /\ primary' # "none" \/ (phase = "destroy" /\ NextCall' = "none")
      /\ UNCHANGED <<config, depth, leaf>>
  BY UnwindsTo, FirstCleanUps DEF Fails, GoesDown, Unwound
<1>2. SubRunKnown'
  BY <1>1 DEF SubRunKnown, GoesDown, SubRunBodies
<1>3. SubRunCallsFit' /\ SubRunBrokenFits'
  BY <1>1 DEF SubRunCallsFit, SubRunBrokenFits, SubRunBodies
<1>4. EmptyFits'
  BY <1>1 DEF EmptyFits
<1>5. PutOffFits'
  BY <1>1 DEF PutOffFits, StartsSubRun, DefersSubRuns
<1>6. SubRunBegun'
  BY <1>1 DEF SubRunBegun
<1> QED
  BY <1>2, <1>3, <1>4, <1>5, <1>6, SubRunInvFrom

LEMMA SubRunQuietFails ==
  ASSUME OrderInv, OrderInv', SubRunInv, Fails, SameSubRun, depth = 3, NextCall # "none",
         NextCall \notin QuietSubRun
  PROVE  SubRunInv'
<1>1. /\ NextCall \notin {"endSubRun", "subRunStarted", "setupCurrentSubRun", "finalizeOutstandingSubRuns"}
      /\ NextCall \notin LoopCalls /\ NextCall # "finalizeAllSubRuns"
  BY DEF SubRunCalls, SubRunBodies, QuietSubRun, LoopCalls
<1>2. ~GoesDown
  <2>1. NextCall \in Calls
    BY NextIs DEF OrderInv, TypeInv, Control, ControlOK
  <2> QED
    BY <1>1, <2>1, CallsAre DEF OrderInv, InPlace, RunEnds, Closes, EventCalls, SubRunBodies, LoopCalls,
         GoesDown, ChangesInput, Constructs, QuietSubRun, SubRunCalls
<1>3. subRun' = NoSubRun => Broken'
  BY <1>1, <1>2 DEF SubRunInv, SubRunKnown, SameSubRun
<1>4. Turn' <= Len(PutOff') /\ (~DefersSubRuns => PutOff' = <<>>) /\ (PutOff' # <<>> => IsEmpty')
  BY DEF SubRunInv, PutOffFits, SameSubRun
<1>5. begun'.subRuns = IF ~IsEmpty' /\ ~Broken' /\ subRun' # NoSubRun THEN {subRun'} \ FlushSubRuns ELSE {}
  BY <1>1 DEF SubRunInv, SubRunBegun, SameSubRun
<1> QED
  BY <1>2, <1>3, <1>4, <1>5, SubRunFails

LEMMA QuietPlaces ==
  ASSUME OrderInv, NextCall \in Calls \ QuietSubRun, phase = "construct"
  PROVE  /\ leaf \notin {"FirstSubRun", "AnotherSubRun"}
         /\ leaf = "HandleEvent" => NextCall \in {"beginRunIfNotDoneAlready", "beginRun", "readEvent", "processEvent"}
  BY CallsAre DEF OrderInv, InPlace, RunEnds, Closes, EventCalls, SubRunBodies, GoesDown, ChangesInput, Constructs,
         QuietSubRun, SubRunCalls

LEMMA SubRunQuietSimple ==
  ASSUME OrderInv, OrderInv', SubRunInv, NEW call \in Calls \ QuietSubRun, NEW next, Simple(call, next), Returns \/ Throws,
         next \notin QuietSubRun \ {"markSubRunNonEmpty"},
         leaf = "HandleEvent" => next \in {"beginRun", "markSubRunNonEmpty"} \/ call \in {"readEvent", "processEvent"},
         handleSubRuns' = handleSubRuns, begun'.subRuns = begun.subRuns
  PROVE  SubRunInv'
<1>1. NextCall = call /\ (Returns => Goes(next)) /\ (Throws => Fails) /\ call # "none" /\ depth \in 0..3
  BY NoneIsNoCall DEF Simple, OrderInv, TypeInv, Control, ControlOK
<1>2. depth' = depth
  BY <1>1 DEF Goes, Fails
<1>3. CASE depth < 3
  BY <1>2, <1>3, NoneBegunOutside, SubRunGone
<1>4. CASE depth = 3
  <2>1. SameSubRun
    BY SameSubRuns
  <2>2. CASE Throws
    BY <1>1, <1>4, <2>1, <2>2, SubRunQuietFails
  <2>3. CASE Returns
    <3>1. phase = "construct" => leaf \notin {"FirstSubRun", "AnotherSubRun"}
      BY <1>1, QuietPlaces
    <3>2. leaf = "HandleEvent" /\ next \in {"none", "readEvent", "processEvent"} => NextCall \in {"none", "readEvent", "processEvent"}
      BY <1>1
    <3> QED
      BY <1>1, <1>4, <2>1, <2>3, <3>1, <3>2, SubRunQuietGoes
  <2> QED
    BY <2>2, <2>3
<1> QED
  BY <1>1, <1>3, <1>4

\* The statements that are about something else.
LEMMA NotInHandleEvent ==
  ASSUME OrderInv, NextCall \in FileCalls \cup CacheCalls \cup {"readAndCacheRun", "readAndCacheSubRun"}
  PROVE  leaf # "HandleEvent" \/ depth < 3
<1>1. leaf = "HandleEvent" => ParentDepth(leaf) = 3
  BY DepthOfTargets
<1> QED
  BY <1>1 DEF OrderInv, Between, InPlace, RunEnds, Closes, GoesDown, ChangesInput, Constructs, FileCalls, CacheCalls, Responses

LEMMA DepthStays ==
  FileStep \/ RunStep \/ SubRunStep \/ ReadEvent \/ ProcessEvent \/ EndOfLoop \/ DoErrorStuff \/ RewindInput
    => depth' = depth
<1>1. Returns \/ Throws => depth' = depth
  BY DEF Returns, Throws
<1>2. ASSUME NEW body, Expands(body) PROVE depth' = depth
  BY <1>2 DEF Expands
<1>3. FileStep => depth' = depth
  BY <1>1 DEF FileStep, ReadFile, CloseInputFile, OpenOutputFiles, CloseOutputFiles, Respond, WriteSubRunCache, WriteRunCache
<1>4. RunStep => depth' = depth
  BY <1>1, <1>2 DEF RunStep, ReadAndCacheRun, SetupCurrentRun, BeginRunIfNotDoneAlready, BeginRun, EndRun,
                    FinalizeRun, WriteRun, ClearCurrentRun
<1>5. SubRunStep => depth' = depth
  BY <1>1, <1>2 DEF SubRunStep, ReadAndCacheSubRun, SetupCurrentSubRun, FinalizeAllSubRuns, FinalizeSubRun,
         ClearCurrentSubRun, FinalizeOutstandingSubRuns, NextOutstanding, MarkSubRunNonEmpty,
         StartSubRun, SubRunStarted, BeginSubRun, EndSubRun, WriteSubRun
<1>6. ReadEvent \/ ProcessEvent \/ EndOfLoop \/ DoErrorStuff \/ RewindInput => depth' = depth
  BY <1>1 DEF ReadEvent, ProcessEvent, EndOfLoop, DoErrorStuff, RewindInput
<1> QED
  BY <1>3, <1>4, <1>5, <1>6

LEMMA OutsideStays ==
  ASSUME OrderInv, OrderInv', SubRunInv, depth < 3, depth' = depth, begun'.subRuns = begun.subRuns
  PROVE  SubRunInv'
  BY NoneBegunOutside, SubRunGone

LEMMA SubRunFileKeeps == OrderInv /\ OrderInv' /\ SubRunInv /\ FileStep => SubRunInv'
<1> SUFFICES ASSUME OrderInv, OrderInv', SubRunInv, FileStep PROVE SubRunInv'
  OBVIOUS
<1>1. begun' = begun /\ handleSubRuns' = handleSubRuns /\ depth' = depth /\ depth \in 0..3
  BY DepthStays DEF FileStep, ReadFile, CloseInputFile, OpenOutputFiles, CloseOutputFiles, Respond,
         WriteSubRunCache, WriteRunCache, objects, history, OrderInv, TypeInv, Control, ControlOK
<1>2. CASE depth < 3
  BY <1>1, <1>2, OutsideStays
<1>3. CASE depth = 3
  <2>1. ASSUME NEW call \in FileCalls, NEW next \in FileCalls \cup {"none"}, Simple(call, next), Returns \/ Throws
        PROVE  SubRunInv'
    <3>1. call \in Calls \ QuietSubRun /\ next \notin QuietSubRun
      BY DEF QuietSubRun, SubRunCalls, Calls, FileCalls, Responses
    <3>2. leaf # "HandleEvent"
      BY <1>3, <2>1, NotInHandleEvent DEF Simple
    <3> QED
      BY <1>1, <2>1, <3>1, <3>2, SubRunQuietSimple
  <2>2. ASSUME NextCall \in CacheCalls PROVE FALSE
    <3>1. depth = 1
      BY <2>2 DEF CacheCalls, Closes, OrderInv, InPlace, Constructs, Between, ParentDepth, FileLeaves, RunLeaves, SubRunLeaves
    <3> QED
      BY <1>3, <3>1
  <2>3. CASE ReadFile
    BY <2>1, <2>3, FileFlows DEF ReadFile, FileCalls, Responses
  <2>4. CASE CloseInputFile
    BY <2>1, <2>4, FileFlows DEF CloseInputFile, FileCalls
  <2>5. CASE OpenOutputFiles
    BY <2>1, <2>5, FileFlows DEF OpenOutputFiles, FileCalls, Responses
  <2>6. CASE CloseOutputFiles
    BY <2>1, <2>6, FileFlows DEF CloseOutputFiles, FileCalls, Responses
  <2>7. CASE Respond
    <3>1. PICK next \in FileCalls \cup {"none"} : Simple(NextCall, next)
      BY <2>7, RespondFlow DEF Simple, FileCalls
    <3> QED
      BY <2>1, <2>7, <3>1, RespondFlow, QuietCalls DEF Respond
  <2>8. CASE WriteSubRunCache \/ WriteRunCache
    BY <2>2, <2>8, CacheFlows DEF Simple, CacheCalls
  <2> QED
    BY <2>3, <2>4, <2>5, <2>6, <2>7, <2>8 DEF FileStep
<1> QED
  BY <1>1, <1>2, <1>3

LEMMA SubRunOtherKeeps ==
  OrderInv /\ OrderInv' /\ SubRunInv /\ (ReadEvent \/ ProcessEvent \/ EndOfLoop \/ DoErrorStuff \/ RewindInput)
    => SubRunInv'
<1> SUFFICES ASSUME OrderInv, OrderInv', SubRunInv,
                    ReadEvent \/ ProcessEvent \/ EndOfLoop \/ DoErrorStuff \/ RewindInput
             PROVE  SubRunInv'
  OBVIOUS
<1>1. begun' = begun /\ handleSubRuns' = handleSubRuns /\ depth' = depth /\ depth \in 0..3
  BY DepthStays DEF ReadEvent, ProcessEvent, EndOfLoop, DoErrorStuff, RewindInput, objects, history,
         OrderInv, TypeInv, Control, ControlOK
<1>2. CASE depth < 3
  BY <1>1, <1>2, OutsideStays
<1>3. CASE depth = 3 /\ ReadEvent
  BY <1>1, <1>3, OtherFlows, SubRunQuietSimple DEF ReadEvent, QuietSubRun, SubRunCalls, Calls, OtherCalls
<1>4. CASE depth = 3 /\ ProcessEvent
  BY <1>1, <1>4, OtherFlows, SubRunQuietSimple DEF ProcessEvent, QuietSubRun, SubRunCalls, Calls, OtherCalls
<1>5. CASE depth = 3 /\ (EndOfLoop \/ DoErrorStuff \/ RewindInput)
  <2>1. NextCall \in {"endOfLoop", "doErrorStuff", "rewindInput"}
    BY <1>5, LastStatements
  <2>2. depth = 0
    BY <2>1 DEF OrderInv, InPlace, Constructs, Between, ParentDepth, FileLeaves, RunLeaves, SubRunLeaves
  <2> QED
    BY <1>5, <2>2
<1> QED
  BY <1>1, <1>2, <1>3, <1>4, <1>5

LEMMA SubRunRunKeeps == OrderInv /\ OrderInv' /\ SubRunInv /\ RunStep => SubRunInv'
<1> SUFFICES ASSUME OrderInv, OrderInv', SubRunInv, RunStep PROVE SubRunInv'
  OBVIOUS
<1>1. handleSubRuns' = handleSubRuns /\ depth' = depth /\ depth \in 0..3
  BY DepthStays DEF RunStep, ReadAndCacheRun, SetupCurrentRun, BeginRunIfNotDoneAlready, BeginRun, EndRun,
                    FinalizeRun, WriteRun, ClearCurrentRun, objects, OrderInv, TypeInv, Control, ControlOK
<1>2. begun'.subRuns = begun.subRuns
  <2>1. begun \in Ids
    BY DEF OrderInv, TypeInv, DataOK
  <2>2. begun' = begun \/ \E S : begun' = [begun EXCEPT !.runs = S]
    BY DEF RunStep, ReadAndCacheRun, SetupCurrentRun, BeginRunIfNotDoneAlready, BeginRun, EndRun,
           FinalizeRun, WriteRun, ClearCurrentRun, history
  <2> QED
    BY <2>1, <2>2 DEF Ids
<1>3. CASE depth < 3
  BY <1>1, <1>2, <1>3, OutsideStays
<1>4. CASE depth = 3
  <2>1. CASE ReadAndCacheRun
    <3>1. Simple("readAndCacheRun", "none") /\ (Returns \/ Throws)
      BY <2>1, RunFlows DEF ReadAndCacheRun
    <3>2. leaf # "HandleEvent"
      BY <1>4, <3>1, NotInHandleEvent DEF Simple
    <3>3. "readAndCacheRun" \in Calls \ QuietSubRun /\ "none" \notin QuietSubRun
      BY DEF QuietSubRun, SubRunCalls, Calls, RunCalls
    <3> QED
      BY <1>1, <1>2, <3>1, <3>2, <3>3, SubRunQuietSimple
  <2>2. CASE BeginRun
    <3>1. /\ Simple("beginRun", IF leaf = "HandleEvent" THEN "markSubRunNonEmpty" ELSE "none")
          /\ Returns \/ Throws
      BY <2>2, RunFlows DEF BeginRun
    <3>2. "beginRun" \in Calls \ QuietSubRun /\ "none" \notin QuietSubRun
      BY DEF QuietSubRun, SubRunCalls, Calls, RunCalls
    <3> QED
      BY <1>1, <1>2, <3>1, <3>2, SubRunQuietSimple
  <2>3. CASE BeginRunIfNotDoneAlready
    <3>1. NextCall = "beginRunIfNotDoneAlready" /\ Goes(IF handleRuns.beginRunCalled THEN "markSubRunNonEmpty" ELSE "beginRun")
      BY <2>3, BeginRunIfNotFlow
    <3>2. NextCall \in Calls \ QuietSubRun /\ "beginRun" \notin QuietSubRun /\ NextCall # "none"
      BY <3>1 DEF QuietSubRun, SubRunCalls, Calls, RunCalls
    <3>3. phase = "construct" => leaf \notin {"FirstSubRun", "AnotherSubRun"}
      BY <3>2, QuietPlaces
    <3>4. PICK next \in {"markSubRunNonEmpty", "beginRun"} : Goes(next)
      BY <3>1
    <3> QED
      BY <1>1, <1>2, <1>4, <3>2, <3>3, <3>4, SameSubRuns, SubRunQuietGoes
  <2>4. CASE SetupCurrentRun \/ EndRun \/ FinalizeRun \/ WriteRun \/ ClearCurrentRun
    <3>1. NextCall = "setupCurrentRun" \/ NextCall \in RunEnds
      BY <2>4, SetupCurrentRunFlow, FinalizeRunFlow, RunFlows DEF Simple, RunEnds
    <3> QED
      BY <1>4, <3>1, RunPlaces
  <2> QED
    BY <2>1, <2>2, <2>3, <2>4 DEF RunStep
<1> QED
  BY <1>1, <1>3, <1>4

-----------------------------------------------------------------------------
(* The statements about sub-runs.                                           *)

LEMMA SubRunPlaces ==
  ASSUME OrderInv
  PROVE  /\ NextCall = "setupCurrentSubRun" => phase = "construct" /\ leaf \in {"FirstSubRun", "AnotherSubRun"}
                                               /\ move.target = leaf
         /\ NextCall = "finalizeAllSubRuns" => GoesDown
         /\ NextCall \in {"finalizeSubRun", "clearCurrentSubRun"} =>
              GoesDown \/ (phase = "construct" /\ leaf = "AnotherSubRun")
         /\ NextCall \in {"finalizeOutstandingSubRuns", "nextOutstanding"} =>
              GoesDown \/ (phase = "construct" /\ leaf = "HandleEvent")
         /\ NextCall \in {"markSubRunNonEmpty", "startSubRun", "subRunStarted"} =>
              phase = "construct" /\ leaf = "HandleEvent" /\ ~InLoop
         /\ NextCall \in SubRunBodies =>
              \/ GoesDown
              \/ phase = "construct" /\ leaf = "AnotherSubRun" /\ ~InLoop
              \/ phase = "construct" /\ leaf = "HandleEvent" /\ (InLoop \/ NextCall = "beginSubRun")
         /\ NextCall \in SubRunCalls => depth = 3
         /\ phase = "construct" => primary = "none"
         /\ InLoop => NextCall \in SubRunBodies \cup {"nextOutstanding", "none", "finalizeAllSubRuns"}
  BY SubRunThere DEF OrderInv, InPlace, Constructs, Between, LoopFits, SubRunBodies, EventCalls

LEMMA SetupCurrentSubRunKeeps == OrderInv /\ OrderInv' /\ SubRunInv /\ SetupCurrentSubRun => SubRunInv'
<1> SUFFICES ASSUME OrderInv, OrderInv', SubRunInv, SetupCurrentSubRun PROVE SubRunInv'
  OBVIOUS
<1>1. Simple("setupCurrentSubRun", "none")
  BY SubRunFlows
<1>2. /\ NextCall = "setupCurrentSubRun" /\ phase = "construct" /\ leaf \in {"FirstSubRun", "AnotherSubRun"}
      /\ move.target = leaf /\ depth = 3 /\ primary = "none" /\ ~InLoop
  BY <1>1, SubRunPlaces DEF Simple, SubRunCalls, SubRunBodies
<1>3. handleSubRuns \in SubRunFields /\ begun' = begun
  BY DEF OrderInv, TypeInv, DataOK, SetupCurrentSubRun
<1>4. source.subRun # NoSubRun
  <2>1. source.subRun \in SubRunIDs
    BY <1>2 DEF OrderInv, TypeInv, Control, SourceFits, SubRunTargets
  <2> QED
    BY <2>1, IdAssumption DEF NoSubRun, SubRunIDs
<1>5. subRun = NoSubRun /\ ~Broken /\ begun'.subRuns = {}
  BY <1>2, <1>3 DEF SubRunInv, SubRunKnown, SubRunCallsFit, SubRunBegun
<1>6. /\ PutOff' = PutOff /\ Turn' = Turn /\ (InLoop' <=> InLoop)
      /\ \/ Throws /\ Broken' /\ (IsEmpty' <=> IsEmpty)
         \/ Returns /\ ~Broken' /\ IsEmpty' /\ subRun' = source.subRun
  BY <1>3 DEF SetupCurrentSubRun, AcceptedSubRun, SubRunFields, subRun, Broken, IsEmpty, PutOff, Turn, InLoop
<1>7. /\ Turn <= Len(PutOff) /\ (~DefersSubRuns => PutOff = <<>>) /\ (PutOff # <<>> => IsEmpty)
      /\ leaf = "FirstSubRun" => PutOff = <<>>
  BY <1>2 DEF SubRunInv, PutOffFits
<1>8. CASE Throws /\ Broken' /\ (IsEmpty' <=> IsEmpty)
  <2>1. Fails
    BY <1>1, <1>8 DEF Simple
  <2> QED
    BY <1>2, <1>5, <1>6, <1>7, <1>8, <2>1, SubRunFails DEF GoesDown
<1>9. CASE Returns /\ ~Broken' /\ IsEmpty' /\ subRun' = source.subRun
  <2>1. NextCall' = "none" /\ UNCHANGED <<config, phase, depth, leaf, primary>>
    BY <1>1, <1>9 DEF Simple, Goes
  <2>2. SubRunKnown' /\ SubRunCallsFit' /\ SubRunBrokenFits'
    BY <1>2, <1>4, <1>9, <2>1 DEF SubRunKnown, SubRunCallsFit, SubRunBrokenFits, GoesDown, SubRunBodies
  <2>3. EmptyFits' /\ SubRunBegun'
    BY <1>2, <1>5, <1>9, <2>1 DEF EmptyFits, SubRunBegun
  <2>4. PutOffFits'
    BY <1>2, <1>6, <1>7, <1>9, <2>1 DEF PutOffFits, DefersSubRuns
  <2> QED
    BY <2>2, <2>3, <2>4, SubRunInvFrom
<1> QED
  BY <1>6, <1>8, <1>9

LEMMA FinalizeAllKeeps == OrderInv /\ OrderInv' /\ RunInv /\ SubRunInv /\ FinalizeAllSubRuns => SubRunInv'
<1> SUFFICES ASSUME OrderInv, OrderInv', RunInv, SubRunInv, FinalizeAllSubRuns PROVE SubRunInv'
  OBVIOUS
<1>1. /\ NextCall = "finalizeAllSubRuns"
      /\ Goes(IF Broken \/ RunBroken THEN "none" ELSE "finalizeSubRun")
  BY FinalizeAllFlow DEF Broken, RunBroken
<1>2. GoesDown /\ depth = 3
  BY <1>1, SubRunPlaces DEF SubRunCalls
<1>3. SameSubRun
  BY SameSubRuns DEF FinalizeAllSubRuns, objects, history
<1>4. /\ NextCall' = IF Broken \/ RunBroken THEN "none" ELSE "finalizeSubRun"
      /\ UNCHANGED <<config, phase, depth, leaf, primary>>
  BY <1>1 DEF Goes
<1>5. RunBroken => IsEmpty
  BY <1>2 DEF RunInv, RunBrokenFits
<1>6. ~Broken => subRun # NoSubRun
  BY <1>1, <1>2 DEF SubRunInv, SubRunKnown
<1>7. SubRunKnown' /\ SubRunCallsFit' 
  BY <1>2, <1>3, <1>4, <1>5, <1>6 DEF SubRunKnown, SubRunCallsFit, SubRunBodies, SameSubRun, GoesDown
<1>8. SubRunBrokenFits'
  BY <1>1, <1>2, <1>3, <1>4 DEF SubRunInv, SubRunBrokenFits, LoopCalls, SubRunBodies, SameSubRun, GoesDown
<1>9. EmptyFits' /\ SubRunBegun'
  BY <1>1, <1>2, <1>3, <1>4 DEF SubRunInv, EmptyFits, SubRunBegun, SameSubRun, GoesDown
<1>10. PutOffFits'
  BY <1>2, <1>3, <1>4 DEF SubRunInv, PutOffFits, DefersSubRuns, SameSubRun, GoesDown
<1> QED
  BY <1>7, <1>8, <1>9, <1>10, SubRunInvFrom

LEMMA FinalizeSubRunKeeps == OrderInv /\ OrderInv' /\ RunInv /\ SubRunInv /\ FinalizeSubRun => SubRunInv'
<1> SUFFICES ASSUME OrderInv, OrderInv', RunInv, SubRunInv, FinalizeSubRun PROVE SubRunInv'
  OBVIOUS
<1>1. NextCall = "finalizeSubRun" /\ Goes(FinalizesWith) /\ ~InLoop
  BY FinalizeSubRunFlow
<1>2. depth = 3 /\ (GoesDown \/ (phase = "construct" /\ leaf = "AnotherSubRun" /\ primary = "none"))
  BY <1>1, SubRunPlaces DEF SubRunCalls
<1>3. /\ FinalizesWith \in {"endSubRun", "writeSubRun", "clearCurrentSubRun", "beginSubRun"}
      /\ FinalizesWith = "endSubRun" <=> ~IsEmpty
      /\ FinalizesWith = "writeSubRun" => WritesSubRunsAtEnd
  BY DEF FinalizesWith, IsEmpty
<1>4. handleSubRuns \in SubRunFields /\ begun' = begun
  BY DEF OrderInv, TypeInv, DataOK, FinalizeSubRun, history
<1>5. /\ subRun' = subRun /\ (IsEmpty' <=> IsEmpty) /\ Turn' = Turn /\ (InLoop' <=> InLoop) /\ Broken'
      /\ \/ PutOff' = PutOff
         \/ PutOff' = Append(PutOff, subRun) /\ IsEmpty /\ config.handleEmptySubRuns /\ ~Began
  BY <1>4 DEF FinalizeSubRun, SubRunFields, subRun, Broken, IsEmpty, PutOff, Turn, InLoop, Began
<1>6. /\ NextCall' = FinalizesWith
      /\ UNCHANGED <<config, phase, depth, leaf, primary>>
  BY <1>1 DEF Goes
<1>7. /\ subRun # NoSubRun /\ ~Broken
      /\ begun.subRuns = IF ~IsEmpty THEN {subRun} \ FlushSubRuns ELSE {}
  BY <1>1 DEF SubRunInv, SubRunCallsFit, SubRunBegun
<1>8. SubRunKnown'
  BY <1>1, <1>2, <1>3, <1>5, <1>6, <1>7 DEF SubRunKnown, GoesDown, SubRunBodies
<1>9. SubRunCallsFit' /\ SubRunBrokenFits'
  BY <1>3, <1>5, <1>6, <1>7 DEF SubRunCallsFit, SubRunBrokenFits, LoopCalls, SubRunBodies, WritesSubRunsAtEnd
<1>10. EmptyFits'
  BY <1>2, <1>3, <1>6 DEF EmptyFits, GoesDown
<1>11. PutOffFits'
  <2>1. Turn = 0 /\ Turn <= Len(PutOff') /\ PutOff \in Seq(SubRunIDs \cup {NoSubRun}) /\ Len(PutOff') \in Nat
    <3>1. handleSubRuns' \in SubRunFields
      BY DEF OrderInv, TypeInv, DataOK
    <3>2. PutOff' \in Seq(SubRunIDs \cup {NoSubRun}) /\ PutOff \in Seq(SubRunIDs \cup {NoSubRun}) /\ Turn \in Nat
      BY <1>4, <3>1 DEF SubRunFields, PutOff, Turn
    <3>3. Len(PutOff') \in Nat
      BY <3>2, LenProperties
    <3> QED
      BY <1>1, <3>2, <3>3 DEF InLoop, Turn
  <2>2. ~DefersSubRuns => PutOff' = <<>>
    <3>1. config.handleEmptyRuns => Began
      BY <1>2 DEF RunInv, RunBeginsAtOnce
    <3> QED
      BY <1>5, <3>1 DEF SubRunInv, PutOffFits, DefersSubRuns
  <2>3. PutOff' # <<>> => IsEmpty'
    BY <1>5 DEF SubRunInv, PutOffFits
  <2>4. /\ ~(NextCall' = "beginSubRun" /\ StartsSubRun')
        /\ ~(leaf' = "FirstSubRun" /\ phase' \in {"construct", "stable"})
    BY <1>2, <1>6 DEF StartsSubRun, GoesDown
  <2> QED
    BY <1>3, <1>5, <1>6, <2>1, <2>2, <2>3, <2>4 DEF PutOffFits, DefersSubRuns
<1>12. SubRunBegun'
  <2>1. NextCall' # "subRunStarted" /\ begun'.subRuns = begun.subRuns
    BY <1>3, <1>4, <1>6
  <2>2. Subject' = subRun
    BY <1>4, <1>1, <1>5 DEF Subject, InLoop, subRun, Turn, SubRunFields
  <2> QED
    BY <1>3, <1>5, <1>6, <1>7, <2>1, <2>2 DEF SubRunBegun
<1> QED
  BY <1>8, <1>9, <1>10, <1>11, <1>12, SubRunInvFrom

LEMMA ClearCurrentSubRunKeeps == OrderInv /\ OrderInv' /\ SubRunInv /\ ClearCurrentSubRun => SubRunInv'
<1> SUFFICES ASSUME OrderInv, OrderInv', SubRunInv, ClearCurrentSubRun PROVE SubRunInv'
  OBVIOUS
<1>1. /\ NextCall = "clearCurrentSubRun"
      /\ Goes(IF phase = "construct" THEN "setupCurrentSubRun" ELSE "finalizeOutstandingSubRuns")
  BY SubRunFlows DEF Simple, ClearCurrentSubRun
<1>2. /\ depth = 3 /\ (GoesDown \/ (phase = "construct" /\ leaf = "AnotherSubRun" /\ primary = "none"))
      /\ ~InLoop
  BY <1>1, SubRunPlaces DEF SubRunCalls, SubRunBodies
<1>3. handleSubRuns \in SubRunFields /\ begun' = begun
  BY DEF OrderInv, TypeInv, DataOK, ClearCurrentSubRun, history
<1>4. subRun' = NoSubRun /\ ~Broken' /\ (IsEmpty' <=> IsEmpty) /\ PutOff' = PutOff /\ Turn' = Turn /\ (InLoop' <=> InLoop)
  BY <1>3 DEF ClearCurrentSubRun, SubRunFields, subRun, Broken, IsEmpty, PutOff, Turn, InLoop
<1>5. /\ NextCall' = (IF phase = "construct" THEN "setupCurrentSubRun" ELSE "finalizeOutstandingSubRuns")
      /\ UNCHANGED <<config, phase, depth, leaf, primary>>
  BY <1>1 DEF Goes
<1>6. begun.subRuns = {}
  <2>1. Broken
    BY <1>1 DEF OrderInv, LoopFits
  <2> QED
    BY <1>1, <2>1 DEF SubRunInv, SubRunBegun
<1>7. SubRunKnown' /\ SubRunCallsFit' /\ SubRunBrokenFits'
  BY <1>2, <1>4, <1>5 DEF SubRunKnown, SubRunCallsFit, SubRunBrokenFits, GoesDown, SubRunBodies
<1>8. EmptyFits' /\ SubRunBegun'
  BY <1>2, <1>3, <1>4, <1>5, <1>6 DEF EmptyFits, SubRunBegun, GoesDown
<1>9. PutOffFits'
  BY <1>2, <1>4, <1>5 DEF SubRunInv, PutOffFits, DefersSubRuns, GoesDown
<1> QED
  BY <1>7, <1>8, <1>9, SubRunInvFrom

LEMMA FinalizeOutstandingKeeps == OrderInv /\ OrderInv' /\ SubRunInv /\ FinalizeOutstandingSubRuns => SubRunInv'
<1> SUFFICES ASSUME OrderInv, OrderInv', SubRunInv, FinalizeOutstandingSubRuns PROVE SubRunInv'
  OBVIOUS
<1>1. NextCall = "finalizeOutstandingSubRuns" /\ Goes("nextOutstanding") /\ ~InLoop
  BY FinalizeOutstandingFlow
<1>2. depth = 3 /\ (GoesDown \/ (phase = "construct" /\ leaf = "HandleEvent" /\ primary = "none"))
  BY <1>1, SubRunPlaces DEF SubRunCalls
<1>3. handleSubRuns \in SubRunFields /\ begun' = begun
  BY DEF OrderInv, TypeInv, DataOK, FinalizeOutstandingSubRuns, history
<1>4. subRun' = subRun /\ Broken' /\ (IsEmpty' <=> IsEmpty) /\ PutOff' = PutOff /\ Turn' = Turn /\ (InLoop' <=> InLoop)
  BY <1>3 DEF FinalizeOutstandingSubRuns, SubRunFields, subRun, Broken, IsEmpty, PutOff, Turn, InLoop
<1>5. NextCall' = "nextOutstanding" /\ UNCHANGED <<config, phase, depth, leaf, primary>>
  BY <1>1 DEF Goes
<1>6. /\ GoesDown => subRun = NoSubRun
      /\ phase = "construct" => subRun # NoSubRun /\ IsEmpty
  BY <1>1, <1>2 DEF SubRunInv, SubRunKnown, EmptyFits
<1>7. begun.subRuns = {}
  BY <1>1, <1>2, <1>6 DEF SubRunInv, SubRunBegun
<1>8. SubRunKnown' /\ SubRunCallsFit' /\ SubRunBrokenFits'
  BY <1>2, <1>4, <1>5, <1>6 DEF SubRunKnown, SubRunCallsFit, SubRunBrokenFits, GoesDown, SubRunBodies, LoopCalls
<1>9. EmptyFits' /\ SubRunBegun'
  BY <1>2, <1>3, <1>4, <1>5, <1>6, <1>7 DEF EmptyFits, SubRunBegun, GoesDown
<1>10. PutOffFits'
  BY <1>2, <1>4, <1>5 DEF SubRunInv, PutOffFits, DefersSubRuns, GoesDown
<1> QED
  BY <1>8, <1>9, <1>10, SubRunInvFrom

LEMMA NextOutstandingKeeps == OrderInv /\ OrderInv' /\ SubRunInv /\ NextOutstanding => SubRunInv'
<1> SUFFICES ASSUME OrderInv, OrderInv', SubRunInv, NextOutstanding PROVE SubRunInv'
  OBVIOUS
<1>1. /\ NextCall = "nextOutstanding"
      /\ Turn < Len(PutOff) => Goes("beginSubRun")
      /\ ~(Turn < Len(PutOff)) => Goes(IF phase = "construct" THEN "startSubRun" ELSE "none")
  BY NextOutstandingFlow DEF Turn, PutOff
<1>2. depth = 3 /\ (GoesDown \/ (phase = "construct" /\ leaf = "HandleEvent" /\ primary = "none"))
  BY <1>1, SubRunPlaces DEF SubRunCalls
<1>3. handleSubRuns \in SubRunFields /\ begun' = begun
  BY DEF OrderInv, TypeInv, DataOK, NextOutstanding, history
<1>4. Turn \in Nat /\ Len(PutOff) \in Nat /\ Broken
  BY <1>1, <1>3, LenProperties DEF SubRunFields, Turn, PutOff, OrderInv, LoopFits
<1>5. /\ subRun' = subRun /\ (IsEmpty' <=> IsEmpty)
      /\ \/ Turn < Len(PutOff) /\ Turn' = Turn + 1 /\ PutOff' = PutOff /\ Broken'
         \/ ~(Turn < Len(PutOff)) /\ Turn' = 0 /\ PutOff' = <<>> /\ ~Broken'
  <2>1. \/ Turn < Len(PutOff) /\ handleSubRuns' = [handleSubRuns EXCEPT !.iter = @ + 1]
        \/ Turn = Len(PutOff) /\ handleSubRuns' = [handleSubRuns EXCEPT !.iter = 0, !.unhandled = <<>>, !.exception = FALSE]
    BY DEF NextOutstanding, PutOff, Turn
  <2>2. CASE Turn < Len(PutOff) /\ handleSubRuns' = [handleSubRuns EXCEPT !.iter = @ + 1]
    BY <1>3, <1>4, <2>2 DEF SubRunFields, subRun, Broken, IsEmpty, PutOff, Turn
  <2>3. CASE Turn = Len(PutOff) /\ handleSubRuns' = [handleSubRuns EXCEPT !.iter = 0, !.unhandled = <<>>, !.exception = FALSE]
    <3>1. subRun' = subRun /\ (IsEmpty' <=> IsEmpty) /\ Turn' = 0 /\ PutOff' = <<>> /\ ~Broken'
      BY <1>3, <2>3 DEF SubRunFields, subRun, Broken, IsEmpty, PutOff, Turn
    <3> QED
      BY <1>4, <2>3, <3>1
  <2> QED
    BY <2>1, <2>2, <2>3
<1>6. /\ GoesDown => subRun = NoSubRun
      /\ phase = "construct" => subRun # NoSubRun /\ IsEmpty
  BY <1>1, <1>2 DEF SubRunInv, SubRunKnown, EmptyFits
<1>7. begun.subRuns = {}
  BY <1>1, <1>4 DEF SubRunInv, SubRunBegun
<1>8. CASE Turn < Len(PutOff) /\ Turn' = Turn + 1 /\ PutOff' = PutOff /\ Broken'
  <2>1. NextCall' = "beginSubRun" /\ UNCHANGED <<config, phase, depth, leaf, primary>>
    BY <1>1, <1>8 DEF Goes
  <2>2. InLoop'
    BY <1>4, <1>8 DEF InLoop, Turn
  <2>3. SubRunKnown' /\ SubRunCallsFit' /\ SubRunBrokenFits'
    BY <1>2, <1>5, <1>6, <1>8, <2>1, <2>2 DEF SubRunKnown, SubRunCallsFit, SubRunBrokenFits, GoesDown, SubRunBodies, LoopCalls
  <2>4. EmptyFits' /\ SubRunBegun'
    BY <1>2, <1>3, <1>5, <1>6, <1>7, <1>8, <2>1 DEF EmptyFits, SubRunBegun, GoesDown
  <2>5. Turn' <= Len(PutOff')
    BY <1>4, <1>8
  <2>6. PutOffFits'
    BY <1>2, <1>5, <1>8, <2>1, <2>2, <2>5 DEF SubRunInv, PutOffFits, DefersSubRuns, GoesDown, StartsSubRun
  <2> QED
    BY <2>3, <2>4, <2>6, SubRunInvFrom
<1>9. CASE ~(Turn < Len(PutOff)) /\ Turn' = 0 /\ PutOff' = <<>> /\ ~Broken'
  <2>1. /\ NextCall' = (IF phase = "construct" THEN "startSubRun" ELSE "none")
        /\ UNCHANGED <<config, phase, depth, leaf, primary>>
    BY <1>1, <1>9 DEF Goes
  <2>3. SubRunKnown' /\ SubRunCallsFit' /\ SubRunBrokenFits'
    BY <1>2, <1>5, <1>6, <1>9, <2>1 DEF SubRunKnown, SubRunCallsFit, SubRunBrokenFits, GoesDown, SubRunBodies, LoopCalls
  <2>4. EmptyFits' /\ SubRunBegun'
    BY <1>2, <1>3, <1>5, <1>6, <1>7, <1>9, <2>1 DEF EmptyFits, SubRunBegun, GoesDown
  <2>5. Turn' <= Len(PutOff')
    BY <1>9
  <2>6. PutOffFits'
    BY <1>9, <2>5 DEF PutOffFits
  <2> QED
    BY <2>3, <2>4, <2>6, SubRunInvFrom
<1> QED
  BY <1>5, <1>8, <1>9

\* The first event of a sub-run.
LEMMA EventPlace ==
  ASSUME OrderInv, SubRunInv, NextCall \in {"markSubRunNonEmpty", "startSubRun", "subRunStarted"}
  PROVE  /\ depth = 3 /\ phase = "construct" /\ leaf = "HandleEvent" /\ primary = "none" /\ ~InLoop
         /\ subRun # NoSubRun
  BY SubRunPlaces DEF SubRunInv, SubRunKnown, SubRunCalls

LEMMA MarkSubRunNonEmptyKeeps == OrderInv /\ OrderInv' /\ SubRunInv /\ MarkSubRunNonEmpty => SubRunInv'
<1> SUFFICES ASSUME OrderInv, OrderInv', SubRunInv, MarkSubRunNonEmpty PROVE SubRunInv'
  OBVIOUS
<1>1. /\ NextCall = "markSubRunNonEmpty"
      /\ Goes(IF IsEmpty THEN "finalizeOutstandingSubRuns" ELSE "readEvent")
  BY MarkSubRunNonEmptyFlow DEF IsEmpty
<1>2. depth = 3 /\ phase = "construct" /\ leaf = "HandleEvent" /\ primary = "none" /\ subRun # NoSubRun
  BY <1>1, EventPlace
<1>3. SameSubRun
  BY SameSubRuns DEF MarkSubRunNonEmpty, objects, history
<1>4. /\ NextCall' = IF IsEmpty THEN "finalizeOutstandingSubRuns" ELSE "readEvent"
      /\ UNCHANGED <<config, phase, depth, leaf, primary>>
  BY <1>1 DEF Goes
<1>5. ~Broken
  BY <1>1, <1>2 DEF SubRunInv, SubRunBrokenFits, LoopCalls, SubRunBodies
<1>6. SubRunKnown' /\ SubRunCallsFit' /\ SubRunBrokenFits'
  BY <1>2, <1>3, <1>4, <1>5 DEF SubRunKnown, SubRunCallsFit, SubRunBrokenFits, GoesDown, SubRunBodies, SameSubRun
<1>7. EmptyFits' /\ SubRunBegun'
  BY <1>1, <1>2, <1>3, <1>4, <1>5 DEF SubRunInv, EmptyFits, SubRunBegun, SameSubRun, SubRunBodies
<1>8. PutOffFits'
  BY <1>2, <1>3, <1>4 DEF SubRunInv, PutOffFits, DefersSubRuns, SameSubRun
<1> QED
  BY <1>6, <1>7, <1>8, SubRunInvFrom

LEMMA StartSubRunKeeps == OrderInv /\ OrderInv' /\ SubRunInv /\ StartSubRun => SubRunInv'
<1> SUFFICES ASSUME OrderInv, OrderInv', SubRunInv, StartSubRun PROVE SubRunInv'
  OBVIOUS
<1>1. NextCall = "startSubRun" /\ Goes("beginSubRun")
  BY StartSubRunFlow
<1>2. depth = 3 /\ phase = "construct" /\ leaf = "HandleEvent" /\ primary = "none" /\ subRun # NoSubRun /\ ~InLoop
  BY <1>1, EventPlace
<1>3. handleSubRuns \in SubRunFields /\ begun' = begun
  BY DEF OrderInv, TypeInv, DataOK, StartSubRun, history
<1>4. subRun' = subRun /\ Broken' /\ (IsEmpty' <=> IsEmpty) /\ PutOff' = PutOff /\ Turn' = Turn /\ (InLoop' <=> InLoop)
  BY <1>3 DEF StartSubRun, SubRunFields, subRun, Broken, IsEmpty, PutOff, Turn, InLoop
<1>5. NextCall' = "beginSubRun" /\ UNCHANGED <<config, phase, depth, leaf, primary>>
  BY <1>1 DEF Goes
<1>6. IsEmpty /\ begun.subRuns = {}
  BY <1>1, <1>2 DEF SubRunInv, EmptyFits, SubRunBegun
<1>7. SubRunKnown' /\ SubRunCallsFit' /\ SubRunBrokenFits'
  BY <1>2, <1>4, <1>5 DEF SubRunKnown, SubRunCallsFit, SubRunBrokenFits, GoesDown, SubRunBodies, LoopCalls
<1>8. EmptyFits' /\ SubRunBegun'
  BY <1>2, <1>3, <1>4, <1>5, <1>6 DEF EmptyFits, SubRunBegun
<1>9. PutOffFits'
  BY <1>1, <1>4, <1>5 DEF SubRunInv, PutOffFits, DefersSubRuns
<1> QED
  BY <1>7, <1>8, <1>9, SubRunInvFrom

LEMMA SubRunStartedKeeps == OrderInv /\ OrderInv' /\ SubRunInv /\ SubRunStarted => SubRunInv'
<1> SUFFICES ASSUME OrderInv, OrderInv', SubRunInv, SubRunStarted PROVE SubRunInv'
  OBVIOUS
<1>1. NextCall = "subRunStarted" /\ Goes("readEvent")
  BY SubRunFlows DEF Simple, SubRunStarted
<1>2. depth = 3 /\ phase = "construct" /\ leaf = "HandleEvent" /\ primary = "none" /\ subRun # NoSubRun /\ ~InLoop
  BY <1>1, EventPlace
<1>3. handleSubRuns \in SubRunFields /\ begun' = begun
  BY DEF OrderInv, TypeInv, DataOK, SubRunStarted, history
<1>4. subRun' = subRun /\ ~Broken' /\ ~IsEmpty' /\ PutOff' = PutOff /\ Turn' = Turn
  BY <1>3 DEF SubRunStarted, SubRunFields, subRun, Broken, IsEmpty, PutOff, Turn
<1>5. NextCall' = "readEvent" /\ UNCHANGED <<config, phase, depth, leaf, primary>>
  BY <1>1 DEF Goes
<1>6. begun.subRuns = {subRun} \ FlushSubRuns
  BY <1>1, <1>2, SubjectIs DEF SubRunInv, SubRunBegun
<1>7. SubRunKnown' /\ SubRunCallsFit' /\ SubRunBrokenFits'
  BY <1>2, <1>4, <1>5 DEF SubRunKnown, SubRunCallsFit, SubRunBrokenFits, GoesDown, SubRunBodies
<1>8. EmptyFits' /\ SubRunBegun'
  BY <1>2, <1>3, <1>4, <1>5, <1>6 DEF EmptyFits, SubRunBegun, SubRunBodies
<1>9. PutOffFits'
  BY <1>1, <1>4, <1>5 DEF SubRunInv, PutOffFits, DefersSubRuns
<1> QED
  BY <1>7, <1>8, <1>9, SubRunInvFrom

\* A statement of a sub-run that begins, ends or is written.
LEMMA BodyPlace ==
  ASSUME OrderInv, SubRunInv, NextCall \in SubRunBodies
  PROVE  /\ depth = 3 /\ phase # "stable" /\ Broken
         /\ Turn <= Len(PutOff) /\ (~DefersSubRuns => PutOff = <<>>) /\ (PutOff # <<>> => IsEmpty)
<1>1. phase # "stable"
  <2>1. "none" \notin SubRunBodies
    BY DEF SubRunBodies
  <2> QED
    BY <2>1, WaitsFor
<1>2. depth = 3 /\ Broken
  BY SubRunPlaces DEF OrderInv, LoopFits, SubRunBodies, SubRunCalls
<1> QED
  BY <1>1, <1>2 DEF SubRunInv, PutOffFits

LEMMA BodyGoes ==
  ASSUME OrderInv, SubRunInv, NextCall \in SubRunBodies, NEW next, Goes(next),
         subRun' = subRun, Broken', IsEmpty' <=> IsEmpty, PutOff' = PutOff, Turn' = Turn, InLoop' <=> InLoop,
         \/ next \in SubRunBodies
         \/ next = AfterTurn
         \/ next = "subRunStarted" /\ NextCall = "beginSubRun" /\ StartsSubRun,
         next = "writeSubRun" => WritesSubRunsAtEnd,
         SubRunBegun'
  PROVE  SubRunInv'
<1>1. NextCall' = next /\ UNCHANGED <<config, phase, depth, leaf, primary>>
  BY DEF Goes
<1>2. depth = 3 /\ phase # "stable" /\ Broken
  BY BodyPlace
<1>3. \/ GoesDown
      \/ phase = "construct" /\ leaf = "AnotherSubRun" /\ ~InLoop
      \/ phase = "construct" /\ leaf = "HandleEvent" /\ (InLoop \/ NextCall = "beginSubRun")
  BY SubRunPlaces
<1>4. next \in LoopCalls
  BY DEF AfterTurn, LoopCalls
<1>5. /\ GoesDown /\ InLoop => subRun = NoSubRun
      /\ ~InLoop => subRun # NoSubRun
      /\ phase = "construct" => subRun # NoSubRun
  BY <1>2 DEF SubRunInv, SubRunKnown, SubRunCallsFit, SubRunBodies
<1>6. SubRunKnown'
  <2>1. next \notin {"none", "setupCurrentSubRun", "finalizeOutstandingSubRuns"}
    BY <1>4 DEF LoopCalls, SubRunBodies
  <2>2. next = "nextOutstanding" => InLoop
    BY DEF AfterTurn, SubRunBodies
  <2> QED
    BY <1>1, <1>5, <2>1, <2>2 DEF SubRunKnown, GoesDown
<1>7. SubRunCallsFit'
  <2>1. next \notin {"finalizeSubRun", "setupCurrentSubRun"}
    BY <1>4 DEF LoopCalls, SubRunBodies
  <2>2. next = "clearCurrentSubRun" => ~InLoop
    BY DEF AfterTurn, SubRunBodies
  <2> QED
    BY <1>1, <1>5, <2>1, <2>2 DEF SubRunCallsFit, WritesSubRunsAtEnd
<1>8. SubRunBrokenFits'
  BY <1>1, <1>4 DEF SubRunBrokenFits
<1>9. EmptyFits'
  <2>1. next \notin {"none", "readEvent", "processEvent"}
    BY <1>4 DEF LoopCalls, SubRunBodies
  <2>2. phase = "construct" /\ leaf = "HandleEvent" => IsEmpty
    BY DEF SubRunInv, EmptyFits
  <2> QED
    BY <1>1, <1>2, <2>1, <2>2 DEF EmptyFits
<1>10. PutOffFits'
  <2>1. /\ Turn <= Len(PutOff) /\ (~DefersSubRuns => PutOff = <<>>) /\ (PutOff # <<>> => IsEmpty)
        /\ leaf = "FirstSubRun" /\ phase \in {"construct", "stable"} => PutOff = <<>>
    BY DEF SubRunInv, PutOffFits
  <2>2. next \in {"startSubRun", "subRunStarted"} => PutOff = <<>>
    BY DEF SubRunInv, PutOffFits, AfterTurn, SubRunBodies
  <2>3. next = "beginSubRun" /\ StartsSubRun' => PutOff = <<>>
    <3>1. StartsSubRun' <=> StartsSubRun
      BY <1>1 DEF StartsSubRun
    <3>2. StartsSubRun => NextCall = "beginSubRun"
      BY <1>3 DEF StartsSubRun, GoesDown
    <3> QED
      BY <3>1, <3>2 DEF SubRunInv, PutOffFits
  <2>4. DefersSubRuns' <=> DefersSubRuns
    BY <1>1 DEF DefersSubRuns
  <2> QED
    BY <1>1, <2>1, <2>2, <2>3, <2>4 DEF PutOffFits
<1> QED
  BY <1>6, <1>7, <1>8, <1>9, <1>10, SubRunInvFrom

LEMMA BodyFails ==
  ASSUME OrderInv, OrderInv', SubRunInv, NextCall \in SubRunBodies, Fails,
         handleSubRuns' = handleSubRuns, begun'.subRuns = {}
  PROVE  SubRunInv'
<1>1. /\ depth = 3 /\ Broken /\ NextCall # "none"
      /\ Turn <= Len(PutOff) /\ (~DefersSubRuns => PutOff = <<>>) /\ (PutOff # <<>> => IsEmpty)
  BY BodyPlace DEF SubRunBodies
<1>2. Broken' /\ (IsEmpty' <=> IsEmpty) /\ PutOff' = PutOff /\ Turn' = Turn
  BY <1>1 DEF Broken, IsEmpty, PutOff, Turn
<1> QED
  BY <1>1, <1>2, SubRunFails

LEMMA BeginSubRunKeeps == OrderInv /\ OrderInv' /\ SubRunInv /\ BeginSubRun => SubRunInv'
<1> SUFFICES ASSUME OrderInv, OrderInv', SubRunInv, BeginSubRun PROVE SubRunInv'
  OBVIOUS
<1>1. Simple("beginSubRun", IF StartsSubRun THEN "subRunStarted" ELSE "endSubRun")
  BY SubRunFlows
<1>2. NextCall = "beginSubRun" /\ NextCall \in SubRunBodies /\ Broken
  BY <1>1, BodyPlace DEF Simple, SubRunBodies
<1>3. begun.subRuns = {}
  BY <1>2 DEF SubRunInv, SubRunBegun
<1>4. handleSubRuns' = handleSubRuns /\ begun \in Ids
  BY DEF BeginSubRun, objects, OrderInv, TypeInv, DataOK
<1>5. \/ Returns /\ begun'.subRuns = {Subject} \ FlushSubRuns
      \/ Throws /\ begun'.subRuns = {}
  BY <1>3, <1>4 DEF BeginSubRun, Ids
<1>6. CASE Throws /\ begun'.subRuns = {}
  BY <1>1, <1>2, <1>4, <1>6, BodyFails DEF Simple
<1>7. CASE Returns /\ begun'.subRuns = {Subject} \ FlushSubRuns
  <2>1. Goes(IF StartsSubRun THEN "subRunStarted" ELSE "endSubRun")
    BY <1>1, <1>7 DEF Simple
  <2>2. /\ subRun' = subRun /\ Broken' /\ (IsEmpty' <=> IsEmpty) /\ PutOff' = PutOff /\ Turn' = Turn
        /\ (InLoop' <=> InLoop) /\ Subject' = Subject
    BY <1>2, <1>4 DEF subRun, Broken, IsEmpty, PutOff, Turn, InLoop, Subject
  <2>3. SubRunBegun'
    BY <1>7, <2>1, <2>2 DEF SubRunBegun, Goes
  <2> QED
    BY <1>2, <2>1, <2>2, <2>3, BodyGoes DEF SubRunBodies
<1> QED
  BY <1>5, <1>6, <1>7

LEMMA EndSubRunKeeps == OrderInv /\ OrderInv' /\ SubRunInv /\ EndSubRun => SubRunInv'
<1> SUFFICES ASSUME OrderInv, OrderInv', SubRunInv, EndSubRun PROVE SubRunInv'
  OBVIOUS
<1>1. Simple("endSubRun", IF WritesSubRunsAtEnd THEN "writeSubRun" ELSE AfterTurn)
  BY SubRunFlows
<1>2. NextCall = "endSubRun" /\ NextCall \in SubRunBodies /\ Broken
  BY <1>1, BodyPlace DEF Simple, SubRunBodies
<1>3. begun.subRuns = {Subject} \ FlushSubRuns
  BY <1>2 DEF SubRunInv, SubRunBegun
<1>4. handleSubRuns' = handleSubRuns /\ begun \in Ids
  BY DEF EndSubRun, objects, OrderInv, TypeInv, DataOK
<1>5. begun'.subRuns = {} /\ (Returns \/ Throws)
  BY <1>3, <1>4 DEF EndSubRun, Ids
<1>6. CASE Throws
  BY <1>1, <1>2, <1>4, <1>5, <1>6, BodyFails DEF Simple
<1>7. CASE Returns
  <2>1. Goes(IF WritesSubRunsAtEnd THEN "writeSubRun" ELSE AfterTurn)
    BY <1>1, <1>7 DEF Simple
  <2>2. /\ subRun' = subRun /\ Broken' /\ (IsEmpty' <=> IsEmpty) /\ PutOff' = PutOff /\ Turn' = Turn
        /\ (InLoop' <=> InLoop)
    BY <1>2, <1>4 DEF subRun, Broken, IsEmpty, PutOff, Turn, InLoop
  <2>3. SubRunBegun'
    BY <1>5, <2>1, <2>2 DEF SubRunBegun, Goes, AfterTurn
  <2> QED
    BY <1>2, <2>1, <2>2, <2>3, BodyGoes DEF SubRunBodies, AfterTurn
<1> QED
  BY <1>5, <1>6, <1>7

LEMMA WriteSubRunKeeps == OrderInv /\ OrderInv' /\ SubRunInv /\ WriteSubRun => SubRunInv'
<1> SUFFICES ASSUME OrderInv, OrderInv', SubRunInv, WriteSubRun PROVE SubRunInv'
  OBVIOUS
<1>1. Simple("writeSubRun", AfterTurn)
  BY SubRunFlows
<1>2. NextCall = "writeSubRun" /\ NextCall \in SubRunBodies /\ Broken
  BY <1>1, BodyPlace DEF Simple, SubRunBodies
<1>3. begun.subRuns = {}
  BY <1>2 DEF SubRunInv, SubRunBegun
<1>4. /\ handleSubRuns \in SubRunFields /\ begun' = begun
      /\ \/ Returns /\ handleSubRuns' = [handleSubRuns EXCEPT !.previous = @ \cup {Subject}]
         \/ Throws /\ handleSubRuns' = handleSubRuns
  BY DEF WriteSubRun, OrderInv, TypeInv, DataOK
<1>5. CASE Throws /\ handleSubRuns' = handleSubRuns
  BY <1>1, <1>2, <1>3, <1>4, <1>5, BodyFails DEF Simple
<1>6. CASE Returns /\ handleSubRuns' = [handleSubRuns EXCEPT !.previous = @ \cup {Subject}]
  <2>1. Goes(AfterTurn)
    BY <1>1, <1>6 DEF Simple
  <2>2. /\ subRun' = subRun /\ Broken' /\ (IsEmpty' <=> IsEmpty) /\ PutOff' = PutOff /\ Turn' = Turn
        /\ (InLoop' <=> InLoop)
    BY <1>2, <1>4, <1>6 DEF SubRunFields, subRun, Broken, IsEmpty, PutOff, Turn, InLoop
  <2>3. SubRunBegun'
    BY <1>3, <1>4, <2>1, <2>2 DEF SubRunBegun, Goes, AfterTurn
  <2> QED
    BY <1>2, <2>1, <2>2, <2>3, BodyGoes DEF AfterTurn
<1> QED
  BY <1>4, <1>5, <1>6

LEMMA ReadAndCacheSubRunKeeps == OrderInv /\ OrderInv' /\ SubRunInv /\ ReadAndCacheSubRun => SubRunInv'
<1> SUFFICES ASSUME OrderInv, OrderInv', SubRunInv, ReadAndCacheSubRun PROVE SubRunInv'
  OBVIOUS
<1>1. Simple("readAndCacheSubRun", "none")
  BY SubRunFlows
<1>2. /\ "readAndCacheSubRun" \in Calls \ QuietSubRun /\ "readAndCacheSubRun" \in SubRunCalls
      /\ "none" \notin QuietSubRun
  BY DEF Calls, QuietSubRun, SubRunCalls
<1>3. leaf # "HandleEvent"
  BY <1>1, <1>2, NotInHandleEvent, SubRunPlaces DEF Simple
<1>4. handleSubRuns' = handleSubRuns /\ begun' = begun /\ (Returns \/ Throws)
  BY DEF ReadAndCacheSubRun, objects
<1> QED
  BY <1>1, <1>2, <1>3, <1>4, SubRunQuietSimple

LEMMA SubRunSubRunKeeps == OrderInv /\ OrderInv' /\ RunInv /\ SubRunInv /\ SubRunStep => SubRunInv'
  BY ReadAndCacheSubRunKeeps, SetupCurrentSubRunKeeps, FinalizeAllKeeps, FinalizeSubRunKeeps, ClearCurrentSubRunKeeps,
     FinalizeOutstandingKeeps, NextOutstandingKeeps, MarkSubRunNonEmptyKeeps, StartSubRunKeeps, SubRunStartedKeeps,
     BeginSubRunKeeps, EndSubRunKeeps, WriteSubRunKeeps DEF SubRunStep

-----------------------------------------------------------------------------
(* The transitions and the sub-run.                                         *)

\* In HandleSubRuns a machine that waits or goes on has a sub-run.
LEMMA SubRunWaits ==
  ASSUME SubRunInv, depth = 3, NextCall = "none", primary = "none", ~GoesDown
  PROVE  ~Broken /\ subRun # NoSubRun
<1>1. ~Broken
  BY DEF SubRunInv, SubRunBrokenFits, LoopCalls, SubRunBodies, GoesDown
<1> QED
  BY <1>1 DEF SubRunInv, SubRunKnown

FirstCalls == SubRunCalls \ {"finalizeSubRun", "finalizeAllSubRuns", "readAndCacheSubRun", "markSubRunNonEmpty"}

LEMMA SubRunInside ==
  ASSUME SubRunInv, depth' = 3, handleSubRuns' = handleSubRuns, begun'.subRuns = begun.subRuns,
         config' = config, ~Broken, subRun # NoSubRun, NextCall = "none",
         NextCall' \notin FirstCalls,
         GoesDown' => NextCall' = "finalizeAllSubRuns",
         leaf' \in {"FirstSubRun", "AnotherSubRun"} /\ phase' \in {"construct", "stable"} /\ NextCall' = "none" => IsEmpty,
         leaf' = "HandleEvent" /\ phase' \in {"construct", "stable"} /\ NextCall' \in {"none", "readEvent", "processEvent"}
           => ~IsEmpty,
         leaf' = "FirstSubRun" /\ phase' \in {"construct", "stable"} => PutOff = <<>>
  PROVE  SubRunInv'
<1>1. SameSubRun
  BY SameSubRuns
<1>2. SubRunBodies \cup {"clearCurrentSubRun", "setupCurrentSubRun", "finalizeOutstandingSubRuns", "nextOutstanding",
          "startSubRun", "subRunStarted"} \subseteq FirstCalls
  BY DEF SubRunCalls, SubRunBodies, FirstCalls
<1>3. SubRunKnown'
  BY <1>1, <1>2 DEF SubRunKnown, SameSubRun
<1>4. SubRunCallsFit' /\ SubRunBrokenFits'
  BY <1>1, <1>2 DEF SubRunCallsFit, SubRunBrokenFits, SameSubRun, SubRunBodies
<1>5. EmptyFits'
  BY <1>1, <1>2 DEF EmptyFits, SameSubRun
<1>6. PutOffFits'
  <2>1. /\ Turn <= Len(PutOff) /\ (~DefersSubRuns => PutOff = <<>>) /\ (PutOff # <<>> => IsEmpty)
    BY DEF SubRunInv, PutOffFits
  <2>2. DefersSubRuns' <=> DefersSubRuns
    BY DEF DefersSubRuns
  <2>3. NextCall' \notin {"startSubRun", "subRunStarted", "beginSubRun"}
    BY <1>2 DEF SubRunBodies
  <2> QED
    BY <1>1, <2>1, <2>2, <2>3 DEF PutOffFits, SameSubRun
<1>7. SubRunBegun'
  <2>1. begun.subRuns = IF ~IsEmpty THEN {subRun} \ FlushSubRuns ELSE {}
    BY DEF SubRunInv, SubRunBegun
  <2>2. NextCall' \notin {"endSubRun", "subRunStarted"}
    BY <1>2 DEF SubRunBodies
  <2> QED
    BY <1>1, <2>1, <2>2 DEF SubRunBegun, SameSubRun
<1> QED
  BY <1>3, <1>4, <1>5, <1>6, <1>7, SubRunInvFrom

\* What a transition within HandleSubRuns does first.
LEMMA FirstOfSubRun ==
  /\ \A target \in Leaves : ParentDepth(target) = 3 /\ target # "FirstSubRun" =>
       /\ FirstConstruct(target) \notin FirstCalls \cup {"none", "readEvent", "processEvent"}
       /\ target \in SubRunLeaves
  /\ FirstConstruct("FirstSubRun") = "setupCurrentSubRun"
  /\ \A action : FirstAction(action) \notin FirstCalls
  /\ "none" \notin FirstCalls /\ "finalizeAllSubRuns" \notin FirstCalls
  BY DEF FirstConstruct, FirstAction, FirstCalls, SubRunCalls, ParentDepth, Leaves, TopLeaves, FileLeaves, RunLeaves,
         SubRunLeaves

LEMMA BeginsSubRun ==
  ASSUME OrderInv, OrderInv', SubRunInv, NEW m, Begins(m) PROVE SubRunInv'
<1>1. /\ phase = "stable" /\ NextCall = "none" /\ primary = "none" /\ Proceeds(depth, m, external')
      /\ UNCHANGED <<config, depth, leaf, handleSubRuns, begun>> /\ depth \in 0..3
  BY WaitsFor DEF Begins, OrderInv, TypeInv, Control, ControlOK
<1>2. CASE depth < 3
  BY <1>1, <1>2, OutsideStays
<1>3. CASE depth = 3
  <2>1. ~Broken /\ subRun # NoSubRun
    BY <1>1, <1>3, SubRunWaits DEF GoesDown
  <2>2. /\ phase' \in {"exit", "destroy", "action"} /\ NextCall' \notin FirstCalls
        /\ GoesDown' => NextCall' = "finalizeAllSubRuns"
    <3>1. CASE phase' = (IF external' THEN "destroy" ELSE "exit") /\ NextCall' = FirstCleanUp(depth)
      BY <1>3, <3>1, FirstCleanUps, FirstOfSubRun
    <3>2. CASE phase' = "action" /\ NextCall' = FirstAction(m.action)
      BY <3>2, FirstOfSubRun DEF GoesDown
    <3> QED
      BY <1>1, <3>1, <3>2 DEF Proceeds
  <2> QED
    BY <1>1, <1>3, <2>1, <2>2, SubRunInside
<1> QED
  BY <1>1, <1>2, <1>3

LEMMA LeaveSubRun == OrderInv /\ OrderInv' /\ SubRunInv /\ LeaveComposite => SubRunInv'
<1> SUFFICES ASSUME OrderInv, OrderInv', SubRunInv, LeaveComposite PROVE SubRunInv'
  OBVIOUS
<1>1. /\ depth \in 1..3 /\ phase \in {"exit", "destroy"} /\ NextCall = "none" /\ depth' = depth - 1
      /\ begun' = begun
  BY LeaveFlow
<1>2. begun.subRuns = {}
  <2>1. CASE depth = 3
    <3>1. Broken \/ IsEmpty \/ subRun = NoSubRun
      BY <1>1, <2>1 DEF SubRunInv, SubRunKnown, GoesDown
    <3> QED
      BY <1>1, <3>1 DEF SubRunInv, SubRunBegun
  <2> QED
    BY <1>1, <2>1, NoneBegunOutside
<1> QED
  BY <1>1, <1>2, SubRunGone

LEMMA ActionSubRun == OrderInv /\ OrderInv' /\ SubRunInv /\ ActionDone => SubRunInv'
<1> SUFFICES ASSUME OrderInv, OrderInv', SubRunInv, ActionDone PROVE SubRunInv'
  OBVIOUS
<1>1. /\ phase = "action" /\ NextCall = "none" /\ primary = "none"
      /\ leaf \in From(move.target) /\ depth = CommonDepth(leaf, move.target)
      /\ \/ depth < ParentDepth(move.target)
         \/ depth = ParentDepth(move.target) /\ Constructed
      /\ UNCHANGED <<config, depth, handleSubRuns, begun>>
  BY ActionFlow
<1>2. depth \in 0..3 /\ move.target \in Leaves
  BY DEF OrderInv, TypeInv, Control, ControlOK, Moves
<1>3. CASE depth < 3
  BY <1>1, <1>3, OutsideStays
<1>4. CASE depth = 3
  <2>1. ~Broken /\ subRun # NoSubRun
    BY <1>1, <1>4, SubRunWaits DEF GoesDown
  <2>2. ParentDepth(move.target) = 3 /\ Constructed
    BY <1>1, <1>2, <1>4, DepthOfTargets
  <2>3. move.target # "FirstSubRun"
    BY <1>1, <1>4 DEF From, CommonDepth, ParentDepth, FileLeaves, RunLeaves, SubRunLeaves
  <2>4. /\ leaf' # "FirstSubRun" /\ phase' = "construct"
        /\ NextCall' \notin FirstCalls \cup {"none", "readEvent", "processEvent"}
    BY <1>2, <2>2, <2>3, FirstOfSubRun DEF Constructed
  <2> QED
    BY <1>1, <1>4, <2>1, <2>4, SubRunInside DEF GoesDown
<1> QED
  BY <1>2, <1>3, <1>4

LEMMA EnterSubRun == OrderInv /\ OrderInv' /\ SubRunInv /\ EnterComposite => SubRunInv'
<1> SUFFICES ASSUME OrderInv, OrderInv', SubRunInv, EnterComposite PROVE SubRunInv'
  OBVIOUS
<1>1. /\ phase = "enter" /\ Constructed
      /\ leaf \in From(move.target) /\ depth = CommonDepth(leaf, move.target)
      /\ depth + 1 = ParentDepth(move.target) /\ depth' = depth + 1
      /\ handleSubRuns' = IF depth = 2 THEN NewHandleSubRuns ELSE handleSubRuns
      /\ begun' = begun
  BY EnterFlow
<1>2. depth \in 0..2 /\ move.target \in Leaves /\ leaf \in Leaves
  BY <1>1, DepthOfTargets DEF OrderInv, TypeInv, Control, ControlOK, Moves
<1>3. begun'.subRuns = {}
  BY <1>1, <1>2, NoneBegunOutside
<1>4. CASE depth < 2
  <2>1. depth' < 3
    BY <1>1, <1>2, <1>4
  <2> QED
    BY <1>3, <2>1, SubRunGone
<1>5. CASE depth = 2
  <2>1. move.target = "FirstSubRun"
    <3>1. move.target \in SubRunLeaves
      BY <1>1, <1>2, <1>5 DEF ParentDepth, Leaves, TopLeaves, FileLeaves, RunLeaves, SubRunLeaves
    <3>2. leaf \in RunLeaves
      BY <1>1, <1>2, <1>5, <3>1 DEF CommonDepth, ParentDepth, Leaves, TopLeaves, FileLeaves, RunLeaves, SubRunLeaves
    <3> QED
      BY <1>1, <3>1, <3>2 DEF From, FileLeaves, RunLeaves, SubRunLeaves
  <2>2. depth' = 3 /\ phase' = "construct" /\ leaf' = "FirstSubRun" /\ NextCall' = "setupCurrentSubRun"
    BY <1>1, <1>5, <2>1, FirstOfSubRun DEF Constructed
  <2>3. subRun' = NoSubRun /\ ~Broken' /\ IsEmpty' /\ PutOff' = <<>> /\ Turn' = 0 /\ Turn' <= Len(PutOff')
    <3>1. Len(<<>>) = 0
      OBVIOUS
    <3> QED
      BY <1>1, <1>5, <3>1 DEF NewHandleSubRuns, subRun, Broken, IsEmpty, PutOff, Turn
  <2>4. SubRunKnown' /\ SubRunCallsFit' /\ SubRunBrokenFits'
    BY <2>2, <2>3 DEF SubRunKnown, SubRunCallsFit, SubRunBrokenFits, SubRunBodies, GoesDown
  <2>5. EmptyFits' /\ PutOffFits' /\ SubRunBegun'
    BY <1>3, <2>2, <2>3 DEF EmptyFits, PutOffFits, SubRunBegun
  <2> QED
    BY <2>4, <2>5, SubRunInvFrom
<1> QED
  BY <1>2, <1>4, <1>5

LEMMA ConstructedSubRun == OrderInv /\ OrderInv' /\ SubRunInv /\ ConstructorDone => SubRunInv'
<1> SUFFICES ASSUME OrderInv, OrderInv', SubRunInv, ConstructorDone PROVE SubRunInv'
  OBVIOUS
<1>1. /\ phase = "construct" /\ NextCall = "none" /\ primary = "none"
      /\ phase' = "stable" /\ NextCall' = "none"
      /\ UNCHANGED <<config, depth, leaf, handleSubRuns, begun>>
  BY ConstructedFlow
<1>2. depth \in 0..3
  BY DEF OrderInv, TypeInv, Control, ControlOK
<1>3. CASE depth < 3
  BY <1>1, <1>3, OutsideStays
<1>4. CASE depth = 3
  <2>1. ~Broken /\ subRun # NoSubRun
    BY <1>1, <1>4, SubRunWaits DEF GoesDown
  <2>2. /\ leaf \in {"FirstSubRun", "AnotherSubRun"} => IsEmpty
        /\ leaf = "HandleEvent" => ~IsEmpty
        /\ leaf = "FirstSubRun" => PutOff = <<>>
    BY <1>1 DEF SubRunInv, EmptyFits, PutOffFits
  <2> QED
    BY <1>1, <1>4, <2>1, <2>2, SubRunInside, FirstOfSubRun DEF GoesDown
<1> QED
  BY <1>2, <1>3, <1>4

LEMMA SubRunTransition == OrderInv /\ OrderInv' /\ SubRunInv /\ TransitionStep => SubRunInv'
<1> SUFFICES ASSUME OrderInv, OrderInv', SubRunInv, TransitionStep PROVE SubRunInv'
  OBVIOUS
<1>1. CASE ProcessPosted
  <2>1. CASE depth = 0 /\ depth' = depth /\ begun' = begun
    BY <2>1, OutsideStays
  <2> QED
    BY <1>1, <2>1, PostedBegins, BeginsSubRun
<1> QED
  BY <1>1, LeaveSubRun, ActionSubRun, EnterSubRun, ConstructedSubRun DEF TransitionStep

LEMMA ItemSubRun == OrderInv /\ OrderInv' /\ SubRunInv /\ Item => SubRunInv'
  BY ItemBegins, BeginsSubRun

LEMMA SubRunInvInit == Init => SubRunInv
  BY OrderInit, SubRunOutside DEF Init, NoneOf

LEMMA SubRunInvStep == OrderInv /\ OrderInv' /\ RunInv /\ SubRunInv /\ [Next]_vars => SubRunInv'
<1> SUFFICES ASSUME OrderInv, OrderInv', RunInv, SubRunInv, [Next]_vars PROVE SubRunInv'
  OBVIOUS
<1>1. CASE UNCHANGED vars
  <2>1. UNCHANGED <<config, phase, depth, leaf, move, todo, primary, handleSubRuns, begun>>
    BY <1>1 DEF vars, control, failure, objects, history
  <2> QED
    BY <2>1 DEF SubRunInv, SubRunKnown, SubRunCallsFit, SubRunBrokenFits, EmptyFits, PutOffFits, SubRunBegun, WritesSubRunsAtEnd,
         subRun, Broken, IsEmpty, PutOff, Turn, InLoop, Subject, GoesDown, NextCall, DefersSubRuns, StartsSubRun
<1> QED
  BY <1>1, SubRunTransition, ItemSubRun, SubRunFileKeeps, SubRunOtherKeeps, SubRunRunKeeps, SubRunSubRunKeeps
     DEF Next, MachineStep, Done

-----------------------------------------------------------------------------
\* The run and the sub-run that the machine has, its flags, and what has begun
\* and not ended, fit where it is in its functions.
THEOREM RunsFit == Spec => [](OrderInv /\ RunInv /\ SubRunInv)
<1>1. Init => OrderInv /\ RunInv /\ SubRunInv
  BY OrderInit, RunInvInit, SubRunInvInit
<1>2. OrderInv /\ RunInv /\ SubRunInv /\ [Next]_vars => (OrderInv /\ RunInv /\ SubRunInv)'
  BY OrderStep, RunInvStep, SubRunInvStep
<1> QED
  BY <1>1, <1>2, PTL DEF Spec

LEMMA AllEnded == OrderInv /\ RunInv /\ SubRunInv => EveryBeginIsEnded
<1> SUFFICES ASSUME OrderInv, RunInv, SubRunInv, phase = "terminated" PROVE begun = NoneOf
  BY DEF EveryBeginIsEnded
<1>1. depth = 0 /\ begun \in Ids
  BY DEF OrderInv, Between, TypeInv, DataOK
<1>2. begun.subRuns = {}
  BY <1>1, NoneBegunOutside
<1>3. begun.runs = {}
  BY <1>1, NoRunOutside DEF RunInv, RunBegun
<1> QED
  BY <1>1, <1>2, <1>3 DEF Ids, NoneOf

\* Every run and sub-run whose begin was delivered has been ended when the machine
\* stops, whatever was thrown on the way.
THEOREM BegunAreEnded == Spec => []EveryBeginIsEnded
  BY RunsFit, AllEnded, PTL

-----------------------------------------------------------------------------
(* The sub-runs that the machine holds, and the cache.                      *)

OfRun(sr) == RunOf(sr) = run /\ (run \in FlushRuns => sr \in FlushSubRuns)
SubRunsOfRun ==
  /\ subRun # NoSubRun => OfRun(subRun) /\ cache.currentSubRun = subRun
  /\ \A i \in DOMAIN PutOff : PutOff[i] # NoSubRun /\ OfRun(PutOff[i])

\* The sub-run that a transition is to read belongs to the run offered.
SubRunOffered ==
  /\ move.target \in {"FirstSubRun", "AnotherSubRun", "ContinueSubRun"} /\ phase \in {"action", "enter", "construct"} =>
       /\ RunOf(source.subRun) = source.run
       /\ source.run \in FlushRuns => source.subRun \in FlushSubRuns
  /\ move.target = "ContinueSubRun" /\ phase \in {"action", "construct"} => source.subRun = subRun

\* What is still to be ended is still in the cache.
SubRunCached ==
  ~MayEraseTooEarly =>
    /\ subRun # NoSubRun /\ NextCall # "clearCurrentSubRun" => subRun \in cache.subRuns
    /\ \A i \in DOMAIN PutOff :
         Turn < i \/ (Turn = i /\ NextCall # "nextOutstanding") => PutOff[i] \in cache.subRuns

\* A mode that refuses split sub-runs meets each one once.
Earlier == handleSubRuns.previous
NoSplit ==
  RefusesSplitSubRuns =>
    /\ \A i \in DOMAIN PutOff : PutOff[i] \in Earlier
    /\ \A i, j \in DOMAIN PutOff : PutOff[i] = PutOff[j] => i = j
    /\ subRun # NoSubRun /\ subRun \in Earlier =>
         NextCall = "clearCurrentSubRun" \/ (Broken /\ NextCall \in {"none", "finalizeAllSubRuns"})

HeldInv == SubRunsOfRun /\ SubRunCached /\ NoSplit
CacheInv == HeldInv /\ SubRunOffered

LEMMA HeldOutside == ASSUME OrderInv, depth < 3 PROVE HeldInv
<1>1. subRun = NoSubRun /\ PutOff = <<>> /\ DOMAIN PutOff = {}
  BY NoSubRunOutside
<1> QED
  BY <1>1 DEF HeldInv, SubRunsOfRun, SubRunCached, NoSplit

LEMMA HeldGone == OrderInv' /\ depth' < 3 => HeldInv'
<1>1. (OrderInv /\ depth < 3 => HeldInv)'
  BY HeldOutside, PTL
<1> QED
  BY <1>1

\* A step that changes neither the sub-runs held nor the cache.
Holds ==
  /\ subRun' = subRun /\ PutOff' = PutOff /\ Turn' = Turn /\ Earlier' = Earlier
  /\ run' = run /\ cache'.subRuns = cache.subRuns /\ cache'.currentSubRun = cache.currentSubRun /\ config' = config

LEMMA HeldStays ==
  ASSUME HeldInv, Holds, NextCall \notin {"clearCurrentSubRun", "nextOutstanding"},
         NextCall \in {"none", "finalizeAllSubRuns"} =>
           ~RefusesSplitSubRuns \/ subRun = NoSubRun \/ subRun \notin Earlier \/ (Broken' /\ NextCall' = "none")
  PROVE  HeldInv'
<1>1. SubRunsOfRun'
  BY DEF HeldInv, SubRunsOfRun, Holds, OfRun
<1>2. SubRunCached'
  <2>1. MayEraseTooEarly' <=> MayEraseTooEarly
    BY DEF Holds, MayEraseTooEarly, DefersSubRuns
  <2> QED
    BY <2>1 DEF HeldInv, SubRunCached, Holds
<1>3. NoSplit'
  BY DEF HeldInv, NoSplit, Holds, RefusesSplitSubRuns
<1> QED
  BY <1>1, <1>2, <1>3 DEF HeldInv

LEMMA HoldsAlso ==
  ASSUME handleSubRuns' = handleSubRuns, run' = run, config' = config,
         cache'.subRuns = cache.subRuns, cache'.currentSubRun = cache.currentSubRun
  PROVE  Holds
  BY DEF Holds, subRun, PutOff, Turn, Earlier

\* Within the functions the transition and the offer stay as they are.
LEMMA OfferStays ==
  ASSUME SubRunOffered, phase' \in {phase, "destroy", "terminated"}, move' = move, source' = source,
         subRun' = subRun \/ move.target # "ContinueSubRun"
  PROVE  SubRunOffered'
  BY DEF SubRunOffered

LEMMA StatementsStay ==
  ASSUME FileStep \/ RunStep \/ SubRunStep \/ ReadEvent \/ ProcessEvent \/ EndOfLoop \/ DoErrorStuff
  PROVE  phase' \in {phase, "destroy", "terminated"} /\ move' = move /\ source' = source /\ config' = config
<1> DEFINE Same == phase' \in {phase, "destroy", "terminated"} /\ move' = move /\ source' = source /\ config' = config
<1>1. Returns \/ Throws => Same
  BY DEF Returns, Throws, Unwound
<1>2. ASSUME NEW body, Expands(body) PROVE Same
  BY <1>2 DEF Expands
<1>3. FileStep => Same
  BY <1>1 DEF FileStep, ReadFile, CloseInputFile, OpenOutputFiles, CloseOutputFiles, Respond, WriteSubRunCache, WriteRunCache
<1>4. RunStep => Same
  BY <1>1, <1>2 DEF RunStep, ReadAndCacheRun, SetupCurrentRun, BeginRunIfNotDoneAlready, BeginRun, EndRun,
                    FinalizeRun, WriteRun, ClearCurrentRun
<1>5. SubRunStep => Same
  BY <1>1, <1>2 DEF SubRunStep, ReadAndCacheSubRun, SetupCurrentSubRun, FinalizeAllSubRuns, FinalizeSubRun,
         ClearCurrentSubRun, FinalizeOutstandingSubRuns, NextOutstanding, MarkSubRunNonEmpty,
         StartSubRun, SubRunStarted, BeginSubRun, EndSubRun, WriteSubRun
<1>6. ReadEvent \/ ProcessEvent \/ EndOfLoop \/ DoErrorStuff => Same
  BY <1>1 DEF ReadEvent, ProcessEvent, EndOfLoop, DoErrorStuff
<1> QED
  BY <1>3, <1>4, <1>5, <1>6

\* Every statement has a name.
LEMMA StatementNamed ==
  ASSUME FileStep \/ RunStep \/ SubRunStep \/ ReadEvent \/ ProcessEvent \/ EndOfLoop \/ DoErrorStuff \/ RewindInput
  PROVE  NextCall # "none"
<1>1. ASSUME NEW call, Running(call) PROVE NextCall = call
  BY <1>1 DEF Running, NextCall
<1>2. FileStep => NextCall # "none"
  BY <1>1 DEF FileStep, ReadFile, CloseInputFile, OpenOutputFiles, CloseOutputFiles, Respond, WriteSubRunCache,
         WriteRunCache, Responses
<1>3. RunStep => NextCall # "none"
  BY <1>1 DEF RunStep, ReadAndCacheRun, SetupCurrentRun, BeginRunIfNotDoneAlready, BeginRun, EndRun,
                    FinalizeRun, WriteRun, ClearCurrentRun
<1>4. SubRunStep => NextCall # "none"
  BY <1>1 DEF SubRunStep, ReadAndCacheSubRun, SetupCurrentSubRun, FinalizeAllSubRuns, FinalizeSubRun,
         ClearCurrentSubRun, FinalizeOutstandingSubRuns, NextOutstanding, MarkSubRunNonEmpty,
         StartSubRun, SubRunStarted, BeginSubRun, EndSubRun, WriteSubRun
<1>5. ReadEvent \/ ProcessEvent \/ EndOfLoop \/ DoErrorStuff \/ RewindInput => NextCall # "none"
  BY <1>1 DEF ReadEvent, ProcessEvent, EndOfLoop, DoErrorStuff, RewindInput
<1> QED
  BY <1>2, <1>3, <1>4, <1>5

-----------------------------------------------------------------------------
(* The statements that are not about sub-runs.                              *)

LEMMA HeldByStatement ==
  ASSUME OrderInv, OrderInv', HeldInv, handleSubRuns' = handleSubRuns, run' = run, config' = config, depth' = depth,
         cache'.subRuns = cache.subRuns, cache'.currentSubRun = cache.currentSubRun,
         NextCall \notin {"none", "finalizeAllSubRuns", "clearCurrentSubRun", "nextOutstanding"}
  PROVE  HeldInv'
<1>1. Holds
  BY HoldsAlso
<1> QED
  BY <1>1, HeldStays

LEMMA HeldFileKeeps == OrderInv /\ OrderInv' /\ HeldInv /\ FileStep => HeldInv'
<1> SUFFICES ASSUME OrderInv, OrderInv', HeldInv, FileStep PROVE HeldInv'
  OBVIOUS
<1>1. handleSubRuns' = handleSubRuns /\ handleRuns' = handleRuns /\ config' = config /\ depth' = depth /\ depth \in 0..3
  BY DepthStays, StatementsStay DEF FileStep, ReadFile, CloseInputFile, OpenOutputFiles, CloseOutputFiles, Respond,
         WriteSubRunCache, WriteRunCache, objects, OrderInv, TypeInv, Control, ControlOK
<1>2. CASE depth < 3
  BY <1>1, <1>2, HeldGone
<1>3. CASE depth = 3
  <2>1. NextCall \notin CacheCalls
    <3>1. NextCall \in CacheCalls => depth = 1
      BY DEF CacheCalls, Closes, OrderInv, InPlace, Constructs, Between, ParentDepth, FileLeaves, RunLeaves, SubRunLeaves
    <3> QED
      BY <1>3, <3>1
  <2>2. ~WriteSubRunCache /\ ~WriteRunCache
    BY <2>1, CacheFlows DEF Simple, CacheCalls
  <2>3. cache' = cache
    BY <2>2 DEF FileStep, ReadFile, CloseInputFile, OpenOutputFiles, CloseOutputFiles, Respond
  <2>4. NextCall \in FileCalls
    BY <2>2, FileFlows, RespondFlow DEF FileStep, Simple, FileCalls, Responses
  <2>5. NextCall \notin {"none", "finalizeAllSubRuns", "clearCurrentSubRun", "nextOutstanding"}
    BY <2>4 DEF FileCalls, Responses
  <2> QED
    BY <1>1, <2>3, <2>5, HeldByStatement DEF run
<1> QED
  BY <1>1, <1>2, <1>3

LEMMA HeldOtherKeeps ==
  OrderInv /\ OrderInv' /\ HeldInv /\ (ReadEvent \/ ProcessEvent \/ EndOfLoop \/ DoErrorStuff \/ RewindInput) => HeldInv'
<1> SUFFICES ASSUME OrderInv, OrderInv', HeldInv,
                    ReadEvent \/ ProcessEvent \/ EndOfLoop \/ DoErrorStuff \/ RewindInput
             PROVE  HeldInv'
  OBVIOUS
<1>1. UNCHANGED <<handleSubRuns, handleRuns, depth, cache>> /\ depth \in 0..3
  BY DepthStays DEF ReadEvent, ProcessEvent, EndOfLoop, DoErrorStuff, RewindInput, objects,
         OrderInv, TypeInv, Control, ControlOK
<1>2. CASE depth < 3
  BY <1>1, <1>2, HeldGone
<1>3. CASE depth = 3 /\ (ReadEvent \/ ProcessEvent)
  <2>1. NextCall \in {"readEvent", "processEvent"} /\ config' = config
    BY <1>3, OtherFlows, StatementsStay DEF Simple
  <2> QED
    BY <1>1, <2>1, HeldByStatement DEF run
<1>4. CASE depth = 3 /\ (EndOfLoop \/ DoErrorStuff \/ RewindInput)
  <2>1. NextCall \in {"endOfLoop", "doErrorStuff", "rewindInput"}
    BY <1>4, LastStatements
  <2>2. depth = 0
    BY <2>1 DEF OrderInv, InPlace, Constructs, Between, ParentDepth, FileLeaves, RunLeaves, SubRunLeaves
  <2> QED
    BY <1>4, <2>2
<1> QED
  BY <1>1, <1>2, <1>3, <1>4

LEMMA HeldRunKeeps == OrderInv /\ OrderInv' /\ HeldInv /\ RunStep => HeldInv'
<1> SUFFICES ASSUME OrderInv, OrderInv', HeldInv, RunStep PROVE HeldInv'
  OBVIOUS
<1>1. handleSubRuns' = handleSubRuns /\ config' = config /\ depth' = depth /\ depth \in 0..3 /\ cache \in Cache
  BY DepthStays, StatementsStay DEF RunStep, ReadAndCacheRun, SetupCurrentRun, BeginRunIfNotDoneAlready, BeginRun, EndRun,
                    FinalizeRun, WriteRun, ClearCurrentRun, objects, OrderInv, TypeInv, Control, ControlOK, DataOK
<1>2. CASE depth < 3
  BY <1>1, <1>2, HeldGone
<1>3. CASE depth = 3
  <2>1. NextCall \notin RunEnds \cup {"setupCurrentRun"}
    BY <1>3, RunPlaces
  <2>2. ~(SetupCurrentRun \/ EndRun \/ FinalizeRun \/ WriteRun \/ ClearCurrentRun)
    BY <2>1, SetupCurrentRunFlow, FinalizeRunFlow, RunFlows DEF Simple, RunEnds
  <2>3. NextCall \in {"readAndCacheRun", "beginRunIfNotDoneAlready", "beginRun"}
    BY <2>2, BeginRunIfNotFlow, RunFlows DEF RunStep, Simple
  <2>4. run' = run
    <3>1. handleRuns \in RunFields
      BY DEF OrderInv, TypeInv, DataOK
    <3> QED
      BY <2>2, <3>1 DEF RunStep, ReadAndCacheRun, BeginRunIfNotDoneAlready, BeginRun, run, objects, RunFields
  <2>5. cache'.subRuns = cache.subRuns /\ cache'.currentSubRun = cache.currentSubRun
    <3>1. cache' = cache \/ cache' = InsertRun(cache, source.run)
      BY <2>2 DEF RunStep, ReadAndCacheRun, BeginRunIfNotDoneAlready, BeginRun, CachesRun, CachesNothing
    <3> QED
      BY <1>1, <3>1 DEF InsertRun, Cache
  <2> QED
    BY <1>1, <2>3, <2>4, <2>5, HeldByStatement
<1> QED
  BY <1>1, <1>2, <1>3

-----------------------------------------------------------------------------
(* The statements about sub-runs, the sub-runs held and the cache.          *)

\* Those that only set the flags.
LEMMA FlagsHeld ==
  ASSUME OrderInv,
         FinalizeOutstandingSubRuns \/ MarkSubRunNonEmpty \/ StartSubRun \/ SubRunStarted \/ BeginSubRun \/ EndSubRun
  PROVE  Holds /\ NextCall \notin {"none", "finalizeAllSubRuns", "clearCurrentSubRun", "nextOutstanding"}
<1>1. handleSubRuns \in SubRunFields /\ config' = config
  BY StatementsStay DEF OrderInv, TypeInv, DataOK, SubRunStep
<1>2. UNCHANGED <<cache, handleRuns>>
  BY DEF FinalizeOutstandingSubRuns, MarkSubRunNonEmpty, StartSubRun, SubRunStarted, BeginSubRun, EndSubRun, objects
<1>3. subRun' = subRun /\ PutOff' = PutOff /\ Turn' = Turn /\ Earlier' = Earlier
  BY <1>1 DEF FinalizeOutstandingSubRuns, MarkSubRunNonEmpty, StartSubRun, SubRunStarted, BeginSubRun, EndSubRun,
         objects, SubRunFields, subRun, PutOff, Turn, Earlier
<1>4. Holds
  BY <1>1, <1>2, <1>3 DEF Holds, run
<1>5. NextCall \in {"finalizeOutstandingSubRuns", "markSubRunNonEmpty", "startSubRun", "subRunStarted", "beginSubRun", "endSubRun"}
  BY FinalizeOutstandingFlow, MarkSubRunNonEmptyFlow, StartSubRunFlow, SubRunFlows DEF Simple
<1> QED
  BY <1>4, <1>5

LEMMA FlagsKeep ==
  ASSUME OrderInv, HeldInv,
         FinalizeOutstandingSubRuns \/ MarkSubRunNonEmpty \/ StartSubRun \/ SubRunStarted \/ BeginSubRun \/ EndSubRun
  PROVE  HeldInv'
  BY FlagsHeld, HeldStays

\* What is read again is what the machine has already.
LEMMA ReadAgainKeeps ==
  OrderInv /\ RunInv /\ SubRunInv /\ CacheInv /\ ReadAndCacheSubRun => HeldInv'
<1> SUFFICES ASSUME OrderInv, RunInv, SubRunInv, CacheInv, ReadAndCacheSubRun PROVE HeldInv'
  OBVIOUS
<1>1. NextCall = "readAndCacheSubRun" /\ phase = "construct" /\ leaf = "ContinueSubRun" /\ leaf = move.target
      /\ depth = 3 /\ config' = config /\ primary = "none"
  BY SubRunFlows, SubRunThere, StatementsStay
     DEF Simple, SubRunCalls, SubRunStep, OrderInv, InPlace, Constructs, Between
<1>2. UNCHANGED <<handleSubRuns, handleRuns>> /\ cache \in Cache
  BY DEF ReadAndCacheSubRun, objects, OrderInv, TypeInv, DataOK
<1>3. source.subRun = subRun /\ subRun # NoSubRun
  <2>1. source.subRun = subRun
    BY <1>1 DEF CacheInv, SubRunOffered
  <2>2. ~Broken
    BY <1>1 DEF SubRunInv, SubRunBrokenFits, LoopCalls, SubRunBodies
  <2> QED
    BY <1>1, <2>1, <2>2 DEF SubRunInv, SubRunKnown, GoesDown
<1>4. CASE cache' = cache
  <2>1. Holds
    BY <1>1, <1>2, <1>4, HoldsAlso DEF run
  <2> QED
    BY <1>1, <2>1, HeldStays DEF CacheInv
<1>5. CASE cache' = InsertSubRun(cache, subRun)
  <2>1. cache'.currentSubRun = subRun /\ cache'.subRuns = cache.subRuns \cup {subRun}
    BY <1>2, <1>5 DEF InsertSubRun, Cache
  <2>2. subRun' = subRun /\ PutOff' = PutOff /\ Turn' = Turn /\ Earlier' = Earlier /\ run' = run
    BY <1>2 DEF subRun, PutOff, Turn, Earlier, run
  <2>3. SubRunsOfRun'
    BY <2>1, <2>2 DEF CacheInv, HeldInv, SubRunsOfRun, OfRun
  <2>4. SubRunCached'
    <3>1. MayEraseTooEarly' <=> MayEraseTooEarly
      BY <1>1 DEF MayEraseTooEarly, DefersSubRuns
    <3> QED
      BY <1>1, <2>1, <2>2, <3>1 DEF CacheInv, HeldInv, SubRunCached
  <2>5. NoSplit'
    BY <1>1, <2>2 DEF CacheInv, HeldInv, NoSplit, RefusesSplitSubRuns
  <2> QED
    BY <2>3, <2>4, <2>5 DEF HeldInv
<1> QED
  BY <1>3, <1>4, <1>5 DEF ReadAndCacheSubRun, CachesSubRun, CachesNothing

LEMMA SetupHeld ==
  OrderInv /\ RunInv /\ SubRunInv /\ CacheInv /\ SetupCurrentSubRun => HeldInv'
<1> SUFFICES ASSUME OrderInv, RunInv, SubRunInv, CacheInv, SetupCurrentSubRun PROVE HeldInv'
  OBVIOUS
<1>1. /\ NextCall = "setupCurrentSubRun" /\ phase = "construct" /\ leaf \in {"FirstSubRun", "AnotherSubRun"}
      /\ move.target = leaf /\ depth = 3 /\ config' = config
      /\ Returns => Goes("none")
      /\ Throws => Fails
  BY SubRunFlows, SubRunPlaces, StatementsStay DEF Simple, SubRunCalls, SubRunStep
<1>2. handleSubRuns \in SubRunFields /\ handleRuns' = handleRuns /\ cache \in Cache
  BY DEF OrderInv, TypeInv, DataOK, SetupCurrentSubRun
<1>3. subRun = NoSubRun /\ run # NoRun /\ source.run = run
  BY <1>1 DEF SubRunInv, SubRunKnown, RunInv, RunKnown, RunOffered
<1>4. RunOf(source.subRun) = run /\ (run \in FlushRuns => source.subRun \in FlushSubRuns)
  BY <1>1, <1>3 DEF CacheInv, SubRunOffered
<1>5. /\ PutOff' = PutOff /\ Turn' = Turn /\ Earlier' = Earlier /\ run' = run
      /\ \/ /\ subRun' = source.subRun /\ CachesSubRun
            /\ \/ Throws /\ Broken' /\ RefusesSplitSubRuns
               \/ Returns /\ (RefusesSplitSubRuns => source.subRun \notin Earlier)
         \/ subRun' = NoSubRun /\ Throws /\ (CachesSubRun \/ CachesNothing)
  BY <1>2, <1>3 DEF SetupCurrentSubRun, AcceptedSubRun, SubRunFields, subRun, Broken, PutOff, Turn, Earlier, run
<1>6. cache'.subRuns \in {cache.subRuns, cache.subRuns \cup {source.subRun}}
      /\ (CachesSubRun => cache'.currentSubRun = source.subRun /\ source.subRun \in cache'.subRuns)
  BY <1>2, <1>5 DEF CachesSubRun, CachesNothing, InsertSubRun, Cache
<1>7. SubRunsOfRun'
  BY <1>4, <1>5, <1>6 DEF CacheInv, HeldInv, SubRunsOfRun, OfRun
<1>8. SubRunCached'
  <2>1. MayEraseTooEarly' <=> MayEraseTooEarly
    BY <1>1 DEF MayEraseTooEarly, DefersSubRuns
  <2> QED
    BY <1>1, <1>5, <1>6, <2>1 DEF CacheInv, HeldInv, SubRunCached
<1>9. NoSplit'
  <2>1. subRun' # NoSubRun /\ subRun' \in Earlier' /\ RefusesSplitSubRuns => Broken' /\ NextCall' \in {"none", "finalizeAllSubRuns"}
    <3>1. Fails => NextCall' \in {"none", "finalizeAllSubRuns"}
      BY <1>1, FirstCleanUps DEF Fails
    <3> QED
      BY <1>1, <1>5, <3>1
  <2>2. RefusesSplitSubRuns' <=> RefusesSplitSubRuns
    BY <1>1 DEF RefusesSplitSubRuns
  <2> QED
    BY <1>5, <2>1, <2>2 DEF CacheInv, HeldInv, NoSplit
<1> QED
  BY <1>7, <1>8, <1>9 DEF HeldInv

LEMMA FinalizeAllHeld == OrderInv /\ HeldInv /\ FinalizeAllSubRuns => HeldInv'
<1> SUFFICES ASSUME OrderInv, HeldInv, FinalizeAllSubRuns PROVE HeldInv'
  OBVIOUS
<1>1. NextCall = "finalizeAllSubRuns" /\ NextCall' = IF Broken \/ RunBroken THEN "none" ELSE "finalizeSubRun"
  BY FinalizeAllFlow DEF Broken, RunBroken, Goes
<1>2. UNCHANGED <<handleSubRuns, handleRuns, cache, config>>
  BY StatementsStay DEF FinalizeAllSubRuns, objects, SubRunStep
<1>3. Holds /\ (Broken' <=> Broken)
  BY <1>2, HoldsAlso DEF run, Broken
<1>4. RefusesSplitSubRuns /\ subRun # NoSubRun /\ subRun \in Earlier => Broken
  BY <1>1 DEF HeldInv, NoSplit
<1> QED
  BY <1>1, <1>3, <1>4, HeldStays

LEMMA Appended ==
  ASSUME NEW S, NEW s \in Seq(S), NEW e \in S
  PROVE  /\ Append(s, e) \in Seq(S) /\ Len(Append(s, e)) = Len(s) + 1 /\ Len(s) \in Nat
         /\ DOMAIN s = 1..Len(s) /\ DOMAIN Append(s, e) = 1..(Len(s) + 1)
         /\ \A i \in 1..Len(s) : Append(s, e)[i] = s[i]
         /\ Append(s, e)[Len(s) + 1] = e
  OBVIOUS

LEMMA FinalizeSubRunHeld == OrderInv /\ SubRunInv /\ HeldInv /\ FinalizeSubRun => HeldInv'
<1> SUFFICES ASSUME OrderInv, SubRunInv, HeldInv, FinalizeSubRun PROVE HeldInv'
  OBVIOUS
<1>1. NextCall = "finalizeSubRun" /\ NextCall' = FinalizesWith
  BY FinalizeSubRunFlow DEF Goes
<1>2. UNCHANGED <<handleRuns, cache, config>> /\ handleSubRuns \in SubRunFields
  BY StatementsStay DEF FinalizeSubRun, SubRunStep, OrderInv, TypeInv, DataOK
<1>3. subRun # NoSubRun /\ ~Broken /\ Turn <= Len(PutOff)
  BY <1>1 DEF SubRunInv, SubRunCallsFit, PutOffFits
<1>4. RefusesSplitSubRuns => subRun \notin Earlier
  BY <1>1, <1>3 DEF HeldInv, NoSplit
<1>5. subRun' = subRun /\ Turn' = Turn
  BY <1>2 DEF FinalizeSubRun, SubRunFields, subRun, Turn
<1>6. \/ PutOff' = PutOff /\ Earlier' = Earlier
      \/ /\ PutOff' = Append(PutOff, subRun) /\ Earlier' = Earlier \cup {subRun}
         /\ NextCall' = "clearCurrentSubRun"
  BY <1>1, <1>2 DEF FinalizeSubRun, SubRunFields, PutOff, Earlier, FinalizesWith, subRun
<1>7. CASE PutOff' = PutOff /\ Earlier' = Earlier
  <2>1. Holds
    BY <1>2, <1>5, <1>7 DEF Holds, run
  <2> QED
    BY <1>1, <2>1, HeldStays
<1>8. CASE /\ PutOff' = Append(PutOff, subRun) /\ Earlier' = Earlier \cup {subRun}
           /\ NextCall' = "clearCurrentSubRun"
  <2>1. PutOff \in Seq(SubRunIDs \cup {NoSubRun}) /\ subRun \in SubRunIDs \cup {NoSubRun} /\ Turn \in Nat
    BY <1>2 DEF SubRunFields, PutOff, subRun, Turn
  <2>2. PICK n \in Nat : n = Len(PutOff)
    BY <2>1, Appended
  <2>3. /\ DOMAIN PutOff = 1..n /\ DOMAIN PutOff' = 1..(n + 1)
        /\ \A i \in 1..n : PutOff'[i] = PutOff[i]
        /\ PutOff'[n + 1] = subRun
    BY <1>8, <2>1, <2>2, Appended
  <2>4. \A i \in DOMAIN PutOff' : \/ i \in DOMAIN PutOff /\ PutOff'[i] = PutOff[i]
                                  \/ i = n + 1 /\ PutOff'[i] = subRun /\ i \notin DOMAIN PutOff
    BY <2>3
  <2>5. SubRunsOfRun'
    BY <1>2, <1>3, <1>5, <2>4 DEF HeldInv, SubRunsOfRun, OfRun, run
  <2>6. SubRunCached'
    <3>1. MayEraseTooEarly' <=> MayEraseTooEarly
      BY <1>2 DEF MayEraseTooEarly, DefersSubRuns
    <3>2. ~MayEraseTooEarly => subRun \in cache.subRuns
      BY <1>1, <1>3 DEF HeldInv, SubRunCached
    <3> QED
      BY <1>1, <1>2, <1>5, <1>8, <2>4, <3>1, <3>2 DEF HeldInv, SubRunCached
  <2>7. NoSplit'
    <3>1. RefusesSplitSubRuns' <=> RefusesSplitSubRuns
      BY <1>2 DEF RefusesSplitSubRuns
    <3>2. RefusesSplitSubRuns => \A i \in DOMAIN PutOff : PutOff[i] \in Earlier /\ PutOff[i] # subRun
      BY <1>4 DEF HeldInv, NoSplit
    <3>3. RefusesSplitSubRuns => \A i, j \in DOMAIN PutOff' : PutOff'[i] = PutOff'[j] => i = j
      BY <2>4, <3>2 DEF HeldInv, NoSplit
    <3>4. RefusesSplitSubRuns => \A i \in DOMAIN PutOff' : PutOff'[i] \in Earlier'
      BY <1>8, <2>4, <3>2
    <3> QED
      BY <1>8, <3>1, <3>3, <3>4 DEF NoSplit
  <2> QED
    BY <2>5, <2>6, <2>7 DEF HeldInv
<1> QED
  BY <1>6, <1>7, <1>8

LEMMA ClearHeld == OrderInv /\ HeldInv /\ ClearCurrentSubRun => HeldInv'
<1> SUFFICES ASSUME OrderInv, HeldInv, ClearCurrentSubRun PROVE HeldInv'
  OBVIOUS
<1>1. NextCall = "clearCurrentSubRun"
  BY SubRunFlows DEF Simple
<1>2. UNCHANGED <<handleRuns, cache, config>> /\ handleSubRuns \in SubRunFields
  BY StatementsStay DEF ClearCurrentSubRun, SubRunStep, OrderInv, TypeInv, DataOK
<1>3. subRun' = NoSubRun /\ PutOff' = PutOff /\ Turn' = Turn /\ Earlier' = Earlier
  BY <1>2 DEF ClearCurrentSubRun, SubRunFields, subRun, PutOff, Turn, Earlier
<1>4. MayEraseTooEarly' <=> MayEraseTooEarly
  BY <1>2 DEF MayEraseTooEarly, DefersSubRuns
<1>5. SubRunsOfRun' /\ NoSplit'
  BY <1>2, <1>3 DEF HeldInv, SubRunsOfRun, NoSplit, OfRun, run, RefusesSplitSubRuns
<1>6. SubRunCached'
  BY <1>1, <1>2, <1>3, <1>4 DEF HeldInv, SubRunCached
<1> QED
  BY <1>5, <1>6 DEF HeldInv

LEMMA NextOutstandingHeld == OrderInv /\ HeldInv /\ NextOutstanding => HeldInv'
<1> SUFFICES ASSUME OrderInv, HeldInv, NextOutstanding PROVE HeldInv'
  OBVIOUS
<1>1. NextCall = "nextOutstanding" /\ (Turn < Len(PutOff) => NextCall' = "beginSubRun")
  BY NextOutstandingFlow DEF Turn, PutOff, Goes
<1>2. UNCHANGED <<handleRuns, cache, config>> /\ handleSubRuns \in SubRunFields
  BY StatementsStay DEF NextOutstanding, SubRunStep, OrderInv, TypeInv, DataOK
<1>3. /\ subRun' = subRun /\ Earlier' = Earlier
      /\ \/ Turn < Len(PutOff) /\ PutOff' = PutOff /\ Turn' = Turn + 1
         \/ PutOff' = <<>>
  BY <1>2 DEF NextOutstanding, SubRunFields, subRun, PutOff, Turn, Earlier
<1>4. /\ MayEraseTooEarly' <=> MayEraseTooEarly
      /\ RefusesSplitSubRuns' <=> RefusesSplitSubRuns
      /\ run' = run
  BY <1>2 DEF MayEraseTooEarly, DefersSubRuns, RefusesSplitSubRuns, run
<1>5. RefusesSplitSubRuns /\ subRun # NoSubRun => subRun \notin Earlier
  BY <1>1 DEF HeldInv, NoSplit
<1>6. CASE Turn < Len(PutOff) /\ PutOff' = PutOff /\ Turn' = Turn + 1
  <2>1. DOMAIN PutOff \subseteq Nat /\ Turn \in Nat
    BY <1>2 DEF SubRunFields, PutOff, Turn
  <2>2. SubRunsOfRun' /\ NoSplit'
    BY <1>2, <1>3, <1>4, <1>5, <1>6 DEF HeldInv, SubRunsOfRun, NoSplit, OfRun
  <2>3. \A i \in DOMAIN PutOff' : Turn' < i \/ Turn' = i => Turn < i
    BY <1>6, <2>1
  <2>4. SubRunCached'
    BY <1>1, <1>2, <1>3, <1>4, <1>6, <2>3 DEF HeldInv, SubRunCached
  <2> QED
    BY <2>2, <2>4 DEF HeldInv
<1>7. CASE PutOff' = <<>>
  <2>1. DOMAIN PutOff' = {}
    BY <1>7
  <2>2. SubRunsOfRun' /\ NoSplit'
    BY <1>2, <1>3, <1>4, <1>5, <2>1 DEF HeldInv, SubRunsOfRun, NoSplit, OfRun
  <2>3. SubRunCached'
    BY <1>1, <1>2, <1>3, <1>4, <2>1 DEF HeldInv, SubRunCached
  <2> QED
    BY <2>2, <2>3 DEF HeldInv
<1> QED
  BY <1>3, <1>6, <1>7

LEMMA WriteHeld == OrderInv /\ SubRunInv /\ HeldInv /\ WriteSubRun => HeldInv'
<1> SUFFICES ASSUME OrderInv, SubRunInv, HeldInv, WriteSubRun PROVE HeldInv'
  OBVIOUS
<1>1. NextCall = "writeSubRun" /\ (Returns => NextCall' = AfterTurn)
  BY SubRunFlows DEF Simple, Goes
<1>2. UNCHANGED <<handleRuns, config>> /\ handleSubRuns \in SubRunFields /\ cache \in Cache
  BY StatementsStay DEF WriteSubRun, SubRunStep, OrderInv, TypeInv, DataOK
<1>3. /\ subRun' = subRun /\ PutOff' = PutOff /\ Turn' = Turn /\ run' = run /\ cache'.currentSubRun = cache.currentSubRun
      /\ \/ Earlier' = Earlier /\ cache' = cache
         \/ Returns /\ Earlier' = Earlier \cup {Subject} /\ cache'.subRuns = cache.subRuns \ {Subject}
  BY <1>2 DEF WriteSubRun, WritesSubRun, DeleteSubRun, Cache, SubRunFields, subRun, PutOff, Turn, Earlier, run
<1>4. /\ MayEraseTooEarly' <=> MayEraseTooEarly
      /\ RefusesSplitSubRuns' <=> RefusesSplitSubRuns
  BY <1>2 DEF MayEraseTooEarly, DefersSubRuns, RefusesSplitSubRuns
<1>5. CASE Earlier' = Earlier /\ cache' = cache
  <2>1. Holds
    BY <1>2, <1>3, <1>5 DEF Holds
  <2> QED
    BY <1>1, <2>1, HeldStays
<1>6. CASE Returns /\ Earlier' = Earlier \cup {Subject} /\ cache'.subRuns = cache.subRuns \ {Subject}
  <2>1. SubRunsOfRun'
    BY <1>3 DEF HeldInv, SubRunsOfRun, OfRun
  <2>2. PutOff # <<>> /\ ~MayEraseTooEarly => RefusesSplitSubRuns
    <3>1. config.fileMode \in {"NOMERGE", "MERGE"} /\ (PutOff # <<>> => DefersSubRuns)
      BY <1>1 DEF SubRunInv, SubRunCallsFit, PutOffFits, WritesSubRunsAtEnd
    <3> QED
      BY <3>1 DEF MayEraseTooEarly, RefusesSplitSubRuns
  <2>3. RefusesSplitSubRuns /\ subRun # NoSubRun => subRun \notin Earlier
    BY <1>1 DEF HeldInv, NoSplit
  <2>4. DOMAIN PutOff \subseteq Nat /\ Turn \in Nat /\ DOMAIN PutOff = 1..Len(PutOff) /\ Len(PutOff) \in Nat
    BY <1>2 DEF SubRunFields, PutOff, Turn
  <2>5. CASE InLoop
    <3>1. Turn \in DOMAIN PutOff /\ Subject = PutOff[Turn] /\ NextCall' = "nextOutstanding" /\ PutOff # <<>>
      <4>1. Turn <= Len(PutOff) /\ Turn > 0
        BY <2>5 DEF SubRunInv, PutOffFits, InLoop, Turn
      <4>2. Turn \in DOMAIN PutOff
        BY <2>4, <4>1
      <4>3. Subject = PutOff[Turn]
        BY <2>4, <4>1 DEF Subject, Turn, PutOff
      <4> QED
        BY <1>1, <1>6, <2>5, <4>2, <4>3 DEF AfterTurn
    <3>2. ~MayEraseTooEarly => /\ RefusesSplitSubRuns
                               /\ subRun # NoSubRun => subRun # Subject
                               /\ \A i \in DOMAIN PutOff : Turn < i => PutOff[i] # Subject
      BY <2>2, <2>3, <2>4, <3>1 DEF HeldInv, NoSplit
    <3>3. SubRunCached'
      BY <1>1, <1>3, <1>4, <1>6, <3>1, <3>2 DEF HeldInv, SubRunCached
    <3>4. NoSplit'
      BY <1>3, <1>4, <1>6, <2>3, <3>1 DEF HeldInv, NoSplit
    <3> QED
      BY <2>1, <3>3, <3>4 DEF HeldInv
  <2>6. CASE ~InLoop
    <3>1. Subject = subRun /\ NextCall' = "clearCurrentSubRun" /\ Turn = 0 /\ subRun # NoSubRun
      BY <1>1, <1>6, <2>4, <2>6, SubjectIs DEF AfterTurn, InLoop, Turn, SubRunInv, SubRunCallsFit, SubRunBodies
    <3>2. PutOff # <<>> /\ ~MayEraseTooEarly => \A i \in DOMAIN PutOff : PutOff[i] # subRun
      BY <2>2, <2>3, <3>1 DEF HeldInv, NoSplit
    <3>3. SubRunCached'
      <4>1. PutOff = <<>> => DOMAIN PutOff = {}
        OBVIOUS
      <4> QED
        BY <1>1, <1>3, <1>4, <1>6, <3>1, <3>2, <4>1 DEF HeldInv, SubRunCached
    <3>4. NoSplit'
      BY <1>3, <1>4, <1>6, <2>3, <3>1 DEF HeldInv, NoSplit
    <3> QED
      BY <2>1, <3>3, <3>4 DEF HeldInv
  <2> QED
    BY <2>5, <2>6
<1> QED
  BY <1>3, <1>5, <1>6

LEMMA HeldSubRunKeeps == OrderInv /\ RunInv /\ SubRunInv /\ CacheInv /\ SubRunStep => HeldInv'
  BY ReadAgainKeeps, SetupHeld, FlagsKeep, FinalizeAllHeld, FinalizeSubRunHeld, ClearHeld, NextOutstandingHeld, WriteHeld
     DEF SubRunStep, CacheInv

-----------------------------------------------------------------------------
(* The transitions, the sub-runs held and the sub-run offered.              *)

LEMMA HeldWithin ==
  ASSUME OrderInv, OrderInv', SubRunInv, HeldInv, NextCall = "none", primary = "none", ~GoesDown, depth \in 0..3, depth' = depth,
         UNCHANGED <<handleSubRuns, handleRuns, cache, config>>
  PROVE  HeldInv'
<1>1. CASE depth < 3
  BY <1>1, HeldGone
<1>2. CASE depth = 3
  <2>1. ~Broken
    BY <1>2, SubRunWaits
  <2>2. RefusesSplitSubRuns /\ subRun # NoSubRun => subRun \notin Earlier
    BY <2>1 DEF HeldInv, NoSplit
  <2>3. Holds
    BY HoldsAlso DEF run
  <2> QED
    BY <2>2, <2>3, HeldStays
<1> QED
  BY <1>1, <1>2

LEMMA HeldTransition == OrderInv /\ OrderInv' /\ SubRunInv /\ HeldInv /\ TransitionStep => HeldInv'
<1> SUFFICES ASSUME OrderInv, OrderInv', SubRunInv, HeldInv, TransitionStep PROVE HeldInv'
  OBVIOUS
<1>1. depth \in 0..3
  BY DEF OrderInv, TypeInv, Control, ControlOK
<1>2. CASE LeaveComposite
  <2>1. depth' < 3
    BY <1>1, <1>2, LeaveFlow
  <2> QED
    BY <2>1, HeldGone
<1>3. CASE EnterComposite
  <2>1. /\ depth \in 0..2 /\ depth' = depth + 1
        /\ handleSubRuns' = IF depth = 2 THEN NewHandleSubRuns ELSE handleSubRuns
    BY <1>1, <1>3, EnterFlow, DepthOfTargets
  <2>2. CASE depth < 2
    <3>1. depth' < 3
      BY <2>1, <2>2
    <3> QED
      BY <3>1, HeldGone
  <2>3. CASE depth = 2
    <3>1. subRun' = NoSubRun /\ PutOff' = <<>>
      BY <2>1, <2>3 DEF NewHandleSubRuns, subRun, PutOff
    <3>2. DOMAIN PutOff' = {}
      BY <3>1
    <3> QED
      BY <3>1, <3>2 DEF HeldInv, SubRunsOfRun, SubRunCached, NoSplit
  <2> QED
    BY <2>1, <2>2, <2>3
<1>4. CASE ActionDone
  BY <1>1, <1>4, ActionFlow, HeldWithin DEF GoesDown
<1>5. CASE ConstructorDone
  BY <1>1, <1>5, ConstructedFlow, HeldWithin DEF GoesDown
<1>6. CASE ProcessPosted
  <2>1. ASSUME NEW m, Begins(m) PROVE HeldInv'
    BY <1>1, <2>1, WaitsFor, HeldWithin DEF Begins, GoesDown
  <2>2. CASE UNCHANGED <<config, depth, handleRuns, handleSubRuns, cache>>
    BY <1>1, <1>6, <2>2, WaitsFor, PostedBegins, HeldWithin DEF GoesDown
  <2> QED
    BY <1>6, <2>1, <2>2, PostedBegins
<1> QED
  BY <1>2, <1>3, <1>4, <1>5, <1>6 DEF TransitionStep

LEMMA HeldItem == OrderInv /\ OrderInv' /\ SubRunInv /\ HeldInv /\ Item => HeldInv'
<1> SUFFICES ASSUME OrderInv, OrderInv', SubRunInv, HeldInv, Item PROVE HeldInv'
  OBVIOUS
<1>1. ASSUME NEW m, Begins(m) PROVE HeldInv'
  <2>1. depth \in 0..3
    BY DEF OrderInv, TypeInv, Control, ControlOK
  <2> QED
    BY <1>1, <2>1, WaitsFor, HeldWithin DEF Begins, GoesDown
<1> QED
  BY <1>1, ItemBegins

SubRunReads == {"FirstSubRun", "AnotherSubRun", "ContinueSubRun"}

LEMMA OfferStatement ==
  ASSUME OrderInv, SubRunOffered,
         FileStep \/ RunStep \/ SubRunStep \/ ReadEvent \/ ProcessEvent \/ EndOfLoop \/ DoErrorStuff \/ RewindInput
  PROVE  SubRunOffered'
<1>1. CASE FileStep \/ RunStep \/ ReadEvent \/ ProcessEvent \/ EndOfLoop \/ DoErrorStuff
  <2>1. handleSubRuns' = handleSubRuns
    BY <1>1 DEF FileStep, ReadFile, CloseInputFile, OpenOutputFiles, CloseOutputFiles, Respond,
         WriteSubRunCache, WriteRunCache, objects, RunStep, ReadAndCacheRun, SetupCurrentRun, BeginRunIfNotDoneAlready,
         BeginRun, EndRun, FinalizeRun, WriteRun, ClearCurrentRun, ReadEvent, ProcessEvent, EndOfLoop, DoErrorStuff
  <2> QED
    BY <1>1, <2>1, StatementsStay, OfferStays DEF subRun
<1>2. CASE RewindInput
  <2>1. NextCall = "rewindInput"
    BY <1>2, LastStatements
  <2>2. phase = "action" /\ move.target = "Starting"
    BY <2>1 DEF OrderInv, InPlace
  <2>3. move' = move
    BY <1>2 DEF RewindInput, Throws
  <2> QED
    BY <2>2, <2>3 DEF SubRunOffered
<1>3. CASE SetupCurrentSubRun
  <2>1. move.target # "ContinueSubRun"
    BY <1>3, SubRunFlows, SubRunPlaces DEF Simple
  <2> QED
    BY <1>3, <2>1, StatementsStay, OfferStays DEF SubRunStep
<1>4. CASE ClearCurrentSubRun
  <2>1. GoesDown \/ (phase = "construct" /\ leaf = "AnotherSubRun")
    BY <1>4, SubRunFlows, SubRunPlaces DEF Simple
  <2>2. phase = "construct" => move.target # "ContinueSubRun"
    BY <2>1 DEF OrderInv, Between, GoesDown
  <2>3. phase' \in {phase, "destroy", "terminated"} /\ move' = move /\ source' = source
    BY <1>4, StatementsStay DEF SubRunStep
  <2> QED
    BY <2>1, <2>2, <2>3 DEF SubRunOffered, GoesDown
<1>5. CASE SubRunStep /\ ~SetupCurrentSubRun /\ ~ClearCurrentSubRun
  <2>1. handleSubRuns \in SubRunFields
    BY DEF OrderInv, TypeInv, DataOK
  <2>2. subRun' = subRun
    BY <1>5, <2>1 DEF SubRunStep, ReadAndCacheSubRun, FinalizeAllSubRuns, FinalizeSubRun,
         FinalizeOutstandingSubRuns, NextOutstanding, MarkSubRunNonEmpty,
         StartSubRun, SubRunStarted, BeginSubRun, EndSubRun, WriteSubRun, objects, SubRunFields, subRun
  <2> QED
    BY <1>5, <2>2, StatementsStay, OfferStays
<1> QED
  BY <1>1, <1>2, <1>3, <1>4, <1>5

LEMMA OfferTransition == OrderInv /\ SubRunOffered /\ TransitionStep => SubRunOffered'
<1> SUFFICES ASSUME OrderInv, SubRunOffered, TransitionStep PROVE SubRunOffered'
  OBVIOUS
<1>1. CASE LeaveComposite
  <2>1. /\ phase \in {"exit", "destroy"} /\ depth \in 1..3 /\ move' = move
        /\ primary = "none" \/ phase' = Unwound(depth - 1)
    BY <1>1, LeaveFlow
  <2>2. primary = "none" => move.target \notin SubRunReads
    BY <2>1 DEF OrderInv, Between, SubRunReads, From, CommonDepth, ParentDepth, FileLeaves, RunLeaves, SubRunLeaves
  <2> QED
    BY <2>1, <2>2 DEF SubRunOffered, SubRunReads, Unwound
<1>2. CASE ActionDone
  <2>1. phase = "action" /\ UNCHANGED <<move, source, handleSubRuns>>
    BY <1>2, ActionFlow
  <2> QED
    BY <2>1 DEF SubRunOffered, subRun
<1>3. CASE EnterComposite
  <2>1. /\ phase = "enter" /\ UNCHANGED <<move, source>>
        /\ leaf \in From(move.target) /\ depth = CommonDepth(leaf, move.target) /\ depth + 1 = ParentDepth(move.target)
    BY <1>3, EnterFlow
  <2>2. move.target # "ContinueSubRun"
    BY <2>1 DEF From, CommonDepth, ParentDepth, FileLeaves, RunLeaves, SubRunLeaves
  <2> QED
    BY <2>1, <2>2 DEF SubRunOffered
<1>4. CASE ConstructorDone
  BY <1>4, ConstructedFlow DEF SubRunOffered
<1>5. CASE ProcessPosted
  <2>1. /\ OnStop(leaf).target = "EndingLoop" /\ OnRestart(leaf).target \in {"Starting", "Error"}
    BY DEF OnStop, OnRestart, Goto
  <2>2. \/ phase' = "terminated"
        \/ move' = OnStop(leaf) \/ move' = OnRestart(leaf)
    BY <1>5, PostedBegins DEF Begins
  <2> QED
    BY <2>1, <2>2 DEF SubRunOffered
<1> QED
  BY <1>1, <1>2, <1>3, <1>4, <1>5 DEF TransitionStep

LEMMA OfferItem == OrderInv /\ SubRunOffered /\ Item => SubRunOffered'
<1> SUFFICES ASSUME OrderInv, SubRunOffered, Item PROVE SubRunOffered'
  OBVIOUS
<1>1. leaf \in Leaves \ {"EndingLoop", "Error"}
  BY ItemBegins
<1>2. ASSUME NEW m, move' = m, m.target \notin SubRunReads PROVE SubRunOffered'
  BY <1>2 DEF SubRunOffered, SubRunReads
<1>3. CASE \E n \in SubRunNums : /\ Begins(OnSubRun(leaf, <<source.run, n>> = handleSubRuns.current))
                                 /\ source.run # NoRun
                                 /\ source.run \in FlushRuns => n \in FlushSubRunNums
                                 /\ source' = [source EXCEPT !.subRun = <<source.run, n>>]
  <2>1. PICK n \in SubRunNums : /\ Begins(OnSubRun(leaf, <<source.run, n>> = subRun))
                                /\ source.run # NoRun
                                /\ source.run \in FlushRuns => n \in FlushSubRunNums
                                /\ source' = [source EXCEPT !.subRun = <<source.run, n>>]
    BY <1>3 DEF subRun
  <2>2. source.run \in Runs /\ source \in [run : Runs \cup {NoRun}, subRun : SubRunIDs \cup {NoSubRun}]
    BY <2>1 DEF OrderInv, TypeInv, Control, ControlOK
  <2>3. source'.run = source.run /\ source'.subRun = <<source.run, n>>
    BY <2>1, <2>2
  <2>4. RunOf(source'.subRun) = source'.run /\ (source'.run \in FlushRuns => source'.subRun \in FlushSubRuns)
    BY <2>1, <2>2, <2>3 DEF RunOf, FlushSubRuns, SubRunIDs
  <2>5. PICK same \in BOOLEAN : same <=> (<<source.run, n>> = subRun)
    OBVIOUS
  <2>6. move' = OnSubRun(leaf, same) /\ handleSubRuns' = handleSubRuns
    BY <2>1, <2>5 DEF Begins
  <2>7. OnSubRun(leaf, same).target = "ContinueSubRun" => same
    BY <1>1 DEF OnSubRun, Goto, RunLeaves, SubRunLeaves, FileLeaves
  <2> QED
    BY <2>3, <2>4, <2>5, <2>6, <2>7 DEF SubRunOffered, subRun
<1>4. CASE \E close \in BOOLEAN : Begins(OnFile(leaf, close))
  <2>1. PICK close \in BOOLEAN : Begins(OnFile(leaf, close))
    BY <1>4
  <2>2. OnFile(leaf, close).target \notin SubRunReads
    BY <1>1 DEF OnFile, Goto, SubRunReads, Leaves, TopLeaves, RunLeaves, SubRunLeaves, FileLeaves
  <2> QED
    BY <1>2, <2>1, <2>2 DEF Begins
<1>5. CASE \E r \in Runs : Begins(OnRun(leaf, r = handleRuns.currentRun))
  <2>1. PICK r \in Runs : Begins(OnRun(leaf, r = handleRuns.currentRun))
    BY <1>5
  <2>2. PICK same \in BOOLEAN : same <=> (r = handleRuns.currentRun)
    OBVIOUS
  <2>3. OnRun(leaf, same).target \notin SubRunReads
    BY DEF OnRun, Goto, GotoNewRun, SubRunReads
  <2>4. move' = OnRun(leaf, same)
    BY <2>1, <2>2 DEF Begins
  <2> QED
    BY <1>2, <2>3, <2>4
<1>6. CASE Begins(OnEvent(leaf)) \/ Begins(OnStop(leaf))
  <2>1. OnEvent(leaf).target \notin SubRunReads /\ OnStop(leaf).target \notin SubRunReads
    BY DEF OnEvent, OnStop, Goto, SubRunReads
  <2> QED
    BY <1>2, <1>6, <2>1 DEF Begins
<1> QED
  BY <1>3, <1>4, <1>5, <1>6, ItemBegins

-----------------------------------------------------------------------------
LEMMA CacheInvInit == Init => CacheInv
  BY OrderInit, HeldOutside DEF CacheInv, SubRunOffered, Init

LEMMA CacheInvStep ==
  OrderInv /\ OrderInv' /\ RunInv /\ SubRunInv /\ CacheInv /\ [Next]_vars => CacheInv'
<1> SUFFICES ASSUME OrderInv, OrderInv', RunInv, SubRunInv, CacheInv, [Next]_vars PROVE CacheInv'
  OBVIOUS
<1>1. CASE UNCHANGED vars
  <2>1. UNCHANGED <<config, phase, depth, leaf, move, todo, source, handleRuns, handleSubRuns, cache>>
    BY <1>1 DEF vars, control, failure, objects, history
  <2>2. UNCHANGED <<NextCall, MayEraseTooEarly, RefusesSplitSubRuns, run, subRun, PutOff, Turn, Earlier, Broken>>
    BY <2>1 DEF NextCall, MayEraseTooEarly, DefersSubRuns, RefusesSplitSubRuns, run, subRun, PutOff, Turn, Earlier, Broken
  <2>3. SubRunsOfRun'
    BY <2>1, <2>2 DEF CacheInv, HeldInv, SubRunsOfRun, OfRun
  <2>4. SubRunCached'
    BY <2>1, <2>2 DEF CacheInv, HeldInv, SubRunCached
  <2>5. NoSplit'
    BY <2>1, <2>2 DEF CacheInv, HeldInv, NoSplit
  <2>6. SubRunOffered'
    BY <2>1, <2>2 DEF CacheInv, SubRunOffered
  <2> QED
    BY <2>3, <2>4, <2>5, <2>6 DEF CacheInv, HeldInv
<1>2. CASE Next
  <2>1. HeldInv /\ SubRunOffered
    BY DEF CacheInv
  <2>2. Next => Item \/ TransitionStep \/ FileStep \/ RunStep \/ SubRunStep \/ ReadEvent \/ ProcessEvent
                \/ EndOfLoop \/ DoErrorStuff \/ RewindInput \/ UNCHANGED vars
    BY DEF Next, MachineStep, Done
  <2>3. Next => HeldInv' \/ UNCHANGED vars
    BY <2>1, <2>2, HeldItem, HeldTransition, HeldFileKeeps, HeldOtherKeeps, HeldRunKeeps, HeldSubRunKeeps
  <2>4. Next => SubRunOffered' \/ UNCHANGED vars
    BY <2>1, <2>2, OfferItem, OfferTransition, OfferStatement
  <2> QED
    BY <1>1, <1>2, <2>3, <2>4 DEF CacheInv
<1> QED
  BY <1>1, <1>2

\* The runs and sub-runs that HandleRuns and HandleSubRuns hold are of one run,
\* are the current ones of the cache, and wait there until they are written.
THEOREM CacheFits == Spec => [](OrderInv /\ RunInv /\ SubRunInv /\ CacheInv)
<1>1. Init => CacheInv
  BY CacheInvInit
<1>2. OrderInv /\ OrderInv' /\ RunInv /\ SubRunInv /\ CacheInv /\ [Next]_vars => CacheInv'
  BY CacheInvStep
<1> QED
  BY <1>1, <1>2, RunsFit, PTL DEF Spec

-----------------------------------------------------------------------------
(* What the cache is asked for, and what the leaves assert.                 *)

LEMMA RunLookedUp ==
  ASSUME OrderInv, RunInv, NextCall \in {"beginRun", "endRun", "writeRun"}
  PROVE  FindsRun(cache, run)
<1>1. run # NoRun
  <2>1. CASE NextCall = "beginRun"
    <3>1. phase = "construct" /\ primary = "none" /\ depth \in 2..3
      BY <2>1, RunPlaces
    <3>2. ~RunBroken
      BY <2>1, <3>1 DEF RunInv, RunBrokenFits
    <3> QED
      BY <2>1, <3>1, <3>2 DEF RunInv, RunKnown, RunLeft
  <2>2. CASE NextCall \in {"endRun", "writeRun"}
    BY <2>2 DEF RunInv, RunCallsFit
  <2> QED
    BY <2>1, <2>2
<1> QED
  BY <1>1 DEF RunInv, RunCached, FindsRun

LEMMA SubRunLookedUp ==
  ASSUME OrderInv, SubRunInv, CacheInv, NextCall \in SubRunBodies, ~MayEraseTooEarly
  PROVE  FindsSubRun(cache, Subject)
<1>1. NextCall \notin {"clearCurrentSubRun", "nextOutstanding"}
  BY DEF SubRunBodies
<1>2. CASE ~InLoop
  <2>1. Subject = subRun /\ subRun # NoSubRun
    BY <1>2, SubjectIs DEF SubRunInv, SubRunCallsFit
  <2> QED
    BY <1>1, <2>1 DEF CacheInv, HeldInv, SubRunCached, FindsSubRun
<1>3. CASE InLoop
  <2>1. Turn \in Nat /\ Turn > 0 /\ Turn <= Len(PutOff) /\ PutOff \in Seq(SubRunIDs \cup {NoSubRun})
    BY <1>3, BodyPlace DEF InLoop, Turn, OrderInv, TypeInv, DataOK, SubRunFields, PutOff
  <2>2. Turn \in DOMAIN PutOff /\ Subject = PutOff[Turn]
    BY <2>1 DEF Subject, PutOff, Turn
  <2> QED
    BY <1>1, <2>2 DEF CacheInv, HeldInv, SubRunCached, FindsSubRun
<1> QED
  BY <1>2, <1>3

LEMMA LooksUpWhatIsThere == OrderInv /\ RunInv /\ SubRunInv /\ CacheInv => LookupsSucceed
  BY RunLookedUp, SubRunLookedUp DEF LookupsSucceed, SubRunBodies, run

\* The principals that PrincipalCache says should always be found are found, for
\* any runs and sub-runs and after any exceptions.
THEOREM LookupsAlwaysSucceed == Spec => []LookupsSucceed
  BY CacheFits, LooksUpWhatIsThere, PTL

LEMMA LeavesAssert == OrderInv /\ RunInv /\ SubRunInv /\ CacheInv => LeafInvariant
<1> SUFFICES ASSUME OrderInv, RunInv, SubRunInv, CacheInv PROVE LeafInvariant
  OBVIOUS
<1>1. /\ depth = 3 => run # NoRun
      /\ NextCall = "setupCurrentRun" => run = NoRun
  BY DEF RunInv, RunKnown, RunCallsFit
<1>2. ASSUME Idle
      PROVE  /\ depth = ParentDepth(leaf)
             /\ leaf \in RunLeaves \cup SubRunLeaves => run # NoRun
             /\ leaf \in SubRunLeaves => subRun # NoSubRun /\ RunOf(subRun) = run
             /\ leaf \in {"FirstSubRun", "AnotherSubRun"} => IsEmpty
             /\ leaf \in {"FirstSubRun", "HandleEvent"} => PutOff = <<>>
             /\ leaf = "HandleEvent" => Began /\ ~IsEmpty
  <2>1. phase = "stable" /\ NextCall = "none" /\ primary = "none" /\ depth = ParentDepth(leaf)
    BY <1>2, WaitsFor DEF Idle
  <2>2. leaf \in RunLeaves \cup SubRunLeaves => depth \in 2..3
    BY <2>1 DEF ParentDepth, FileLeaves, RunLeaves, SubRunLeaves
  <2>3. leaf \in SubRunLeaves => depth = 3
    BY <2>1 DEF ParentDepth, FileLeaves, RunLeaves, SubRunLeaves
  <2>4. leaf \in RunLeaves \cup SubRunLeaves => run # NoRun
    BY <2>1, <2>2, RunWaits DEF GoesDown
  <2>5. leaf \in SubRunLeaves => subRun # NoSubRun /\ RunOf(subRun) = run
    BY <2>1, <2>3, SubRunWaits DEF GoesDown, CacheInv, HeldInv, SubRunsOfRun, OfRun
  <2>6. leaf \in {"FirstSubRun", "AnotherSubRun"} => IsEmpty
    BY <2>1 DEF SubRunInv, EmptyFits
  <2>7. leaf = "HandleEvent" => Began /\ ~IsEmpty
    BY <2>1 DEF SubRunInv, EmptyFits, RunInv, EventRun
  <2>8. leaf \in {"FirstSubRun", "HandleEvent"} => PutOff = <<>>
    BY <2>1, <2>7 DEF SubRunInv, PutOffFits
  <2> QED
    BY <2>1, <2>4, <2>5, <2>6, <2>7, <2>8
<1> QED
  BY <1>1, <1>2 DEF LeafInvariant, run, subRun, PutOff, IsEmpty, Began

\* What checkInvariant() and the assertions around setupCurrentRun() assert holds
\* in every state the machine can wait in, so that none of them can fail.
THEOREM AssertionsHold == Spec => []LeafInvariant
  BY CacheFits, LeavesAssert, PTL

-----------------------------------------------------------------------------
(* The files, and what is left in the cache when they are closed.           *)

\* HandleFiles exists or is being constructed; it is about to go.
Inside == depth >= 1 \/ phase = "enter"
LeftFiles == GoesDown /\ depth = 1 /\ NextCall = "none"

\* While nothing has been thrown the files are open but where they are changed.
InputOpen == primary = "none" /\ Inside => files.input \/ NextCall = "readFile" \/ LeftFiles
OutputGap == {"respondToCloseInputFile", "closeInputFile", "readFile", "respondToOpenInputFile", "openOutputFiles"}
OpensOutput == (phase = "enter" /\ depth = 0) \/ Constructs("NewInputAndOutputFiles")
OutputOpen ==
  primary = "none" /\ Inside =>
    files.output \/ LeftFiles \/ (NextCall \in OutputGap /\ (OpensOutput \/ (GoesDown /\ depth = 1)))

\* Runs are handled with the output files open, whatever has been thrown.
OutputThere == depth >= 2 => files.output

\* What is to be opened is closed.
NotOpenYet ==
  /\ NextCall = "readFile" => ~files.input
  /\ NextCall \in OutputGap /\ OpensOutput => ~files.output

\* The cache is empty when the output files close.
CacheEmptied ==
  /\ NextCall \in {"writeRunCache", "respondToCloseOutputFiles", "closeOutputFiles"} => cache.subRuns = {}
  /\ NextCall \in {"respondToCloseOutputFiles", "closeOutputFiles"} => cache.runs = {}
  /\ GoesDown /\ NextCall \in {"respondToCloseInputFile", "closeInputFile"} =>
       ~files.output /\ cache.runs = {} /\ cache.subRuns = {}

\* Without HandleFiles all is closed, unless closing it has thrown.
SwallowedFits == swallowed # {} => primary # "none" \/ external
AllClosed == ~files.input /\ ~files.output /\ cache.runs = {} /\ cache.subRuns = {}
ClosedFits ==
  LeftFiles \/ (depth = 0 /\ phase # "enter") =>
    swallowed # {} \/ primary \in FileCalls \cup CacheCalls \/ AllClosed

OpenInv == InputOpen /\ OutputOpen /\ OutputThere /\ NotOpenYet
CloseInv == SwallowedFits /\ CacheEmptied /\ ClosedFits
FilesInv == OpenInv /\ CloseInv

LEMMA FilesInvFrom ==
  ASSUME InputOpen', OutputOpen', OutputThere', NotOpenYet', SwallowedFits', CacheEmptied', ClosedFits'
  PROVE  FilesInv'
  BY DEF FilesInv, OpenInv, CloseInv

-----------------------------------------------------------------------------
(* The statements that are not about files.                                 *)

\* A statement goes on or throws.
Steady ==
  /\ UNCHANGED <<config, depth, leaf, move, external>>
  /\ \/ UNCHANGED <<phase, primary, swallowed>>
     \/ phase = "destroy" /\ phase' = "destroy" /\ primary' = primary /\ swallowed' = swallowed \cup {depth}
     \/ phase # "destroy" /\ phase' = Unwound(depth) /\ primary' = Head(todo) /\ swallowed' = swallowed

LEMMA StatementsSteady ==
  FileStep \/ RunStep \/ SubRunStep \/ ReadEvent \/ ProcessEvent \/ EndOfLoop \/ DoErrorStuff \/ RewindInput => Steady
<1>1. Returns \/ Throws => Steady
  BY DEF Returns, Throws, Steady, failure
<1>2. ASSUME NEW body, Expands(body) PROVE Steady
  BY <1>2 DEF Expands, Steady, failure
<1>3. UNCHANGED <<config, phase, depth, leaf, move, failure>> => Steady
  BY DEF Steady, failure
<1>4. FileStep => Steady
  BY <1>1, <1>3 DEF FileStep, ReadFile, CloseInputFile, OpenOutputFiles, CloseOutputFiles, Respond, WriteSubRunCache, WriteRunCache
<1>5. RunStep => Steady
  BY <1>1, <1>2 DEF RunStep, ReadAndCacheRun, SetupCurrentRun, BeginRunIfNotDoneAlready, BeginRun, EndRun,
                    FinalizeRun, WriteRun, ClearCurrentRun
<1>6. SubRunStep => Steady
  BY <1>1, <1>2 DEF SubRunStep, ReadAndCacheSubRun, SetupCurrentSubRun, FinalizeAllSubRuns, FinalizeSubRun,
         ClearCurrentSubRun, FinalizeOutstandingSubRuns, NextOutstanding, MarkSubRunNonEmpty,
         StartSubRun, SubRunStarted, BeginSubRun, EndSubRun, WriteSubRun
<1>7. ReadEvent \/ ProcessEvent \/ EndOfLoop \/ DoErrorStuff \/ RewindInput => Steady
  BY <1>1, <1>3 DEF ReadEvent, ProcessEvent, EndOfLoop, DoErrorStuff, RewindInput, Steady, failure
<1> QED
  BY <1>4, <1>5, <1>6, <1>7

Elsewhere == RunCalls \cup SubRunCalls \cup OtherCalls

LEMMA ElsewherePlace ==
  ASSUME OrderInv, NextCall \in Elsewhere
  PROVE  /\ depth \in {0, 2, 3} /\ phase \in {"exit", "destroy", "action", "construct"}
         /\ phase = "construct" => leaf \notin {"HandleNewInputFile1", "HandleNewInputFile2", "HandleNewInputFile3",
                                                "NewInputAndOutputFiles"}
         /\ NextCall \notin FileCalls \cup CacheCalls \cup {"none"}
         /\ depth = 0 => NextCall \in {"endOfLoop", "doErrorStuff", "rewindInput"}
<1>1. /\ ParentDepth("NewRun") = 2 /\ ParentDepth("HandleEvent") = 3 /\ ParentDepth("EndingLoop") = 0 /\ ParentDepth("Error") = 0
      /\ ParentDepth("ContinueRun1") = 2 /\ ParentDepth("ContinueRun2") = 3
      /\ \A target \in {"FirstSubRun", "AnotherSubRun", "ContinueSubRun"} : ParentDepth(target) = 3
  BY DEF ParentDepth, FileLeaves, RunLeaves, SubRunLeaves
<1>2. CASE NextCall \in RunCalls
  BY <1>1, <1>2 DEF OrderInv, InPlace, Between, GoesDown, Constructs, RunCalls, RunEnds, EventCalls, FileCalls, Responses, CacheCalls
<1>3. CASE NextCall \in SubRunCalls
  BY <1>1, <1>3 DEF OrderInv, InPlace, Between, GoesDown, Constructs, SubRunCalls, SubRunBodies, EventCalls, FileCalls, Responses, CacheCalls
<1>4. CASE NextCall \in OtherCalls
  BY <1>1, <1>4 DEF OrderInv, InPlace, Between, GoesDown, Constructs, OtherCalls, EventCalls, FileCalls, Responses, CacheCalls
<1> QED
  BY <1>2, <1>3, <1>4 DEF Elsewhere

LEMMA ElsewhereKeeps ==
  ASSUME OrderInv, OrderInv', FilesInv, Steady, NextCall \in Elsewhere, files' = files,
         cache' = cache \/ depth >= 2
  PROVE  FilesInv'
<1>1. /\ depth \in {0, 2, 3} /\ phase \in {"exit", "destroy", "action", "construct"}
      /\ phase = "construct" => leaf \notin {"HandleNewInputFile1", "HandleNewInputFile2", "HandleNewInputFile3",
                                             "NewInputAndOutputFiles"}
      /\ NextCall \notin FileCalls \cup CacheCalls \cup {"none"}
  BY ElsewherePlace
<1>2. /\ depth' = depth /\ leaf' = leaf /\ external' = external /\ phase' \in {phase, "destroy", "terminated"}
      /\ primary' = "none" => primary = "none"
      /\ primary # "none" => primary' = primary
      /\ swallowed' = swallowed \/ (swallowed' # {} /\ phase = "destroy" /\ primary' = primary)
      /\ swallowed' = {} => swallowed = {}
  <2>1. primary # "none" => phase \in {"destroy", "terminated"}
    BY DEF OrderInv, Between
  <2>2. Head(todo) = NextCall
    BY <1>1 DEF NextCall
  <2> QED
    BY <1>1, <2>1, <2>2 DEF Steady, Unwound
<1>4. NextCall' \notin FileCalls \cup CacheCalls
  <2>1. NextCall' \in FileCalls \cup CacheCalls =>
          (GoesDown' /\ depth' = 1) \/ ChangesInput' \/ (phase' = "enter" /\ depth' = 0)
    BY DEF OrderInv, InPlace, FileCalls, Responses, CacheCalls, Closes, ChangesInput
  <2> QED
    BY <1>1, <1>2, <2>1 DEF ChangesInput, Constructs, GoesDown
<1>5. NextCall' \notin OutputGap /\ NextCall' # "readFile" /\ NextCall \notin OutputGap /\ NextCall # "readFile"
  BY <1>1, <1>4 DEF OutputGap, FileCalls, Responses
<1>6. InputOpen' /\ OutputOpen' /\ OutputThere' /\ NotOpenYet'
  BY <1>1, <1>2, <1>5 DEF FilesInv, OpenInv, InputOpen, OutputOpen, OutputThere, NotOpenYet, Inside, LeftFiles
<1>7. CacheEmptied'
  BY <1>4 DEF CacheEmptied, FileCalls, Responses, CacheCalls
<1>8. SwallowedFits'
  <2>1. phase = "destroy" => primary # "none" \/ external
    BY DEF OrderInv, Between
  <2> QED
    BY <1>2, <2>1 DEF FilesInv, CloseInv, SwallowedFits
<1>9. ClosedFits'
  <2>1. ~LeftFiles'
    BY <1>1, <1>2 DEF LeftFiles
  <2>2. ASSUME depth = 0 PROVE swallowed' # {} \/ primary' \in FileCalls \cup CacheCalls \/ AllClosed'
    <3>1. swallowed # {} \/ primary \in FileCalls \cup CacheCalls \/ AllClosed
      BY <1>1, <2>2 DEF FilesInv, CloseInv, ClosedFits
    <3>2. AllClosed => AllClosed'
      BY <2>2 DEF AllClosed
    <3>3. "none" \notin FileCalls \cup CacheCalls
      BY DEF FileCalls, CacheCalls, Responses
    <3> QED
      BY <1>2, <3>1, <3>2, <3>3
  <2> QED
    BY <1>2, <2>1, <2>2 DEF ClosedFits
<1> QED
  BY <1>6, <1>7, <1>8, <1>9, FilesInvFrom

LEMMA OtherFilesKeep ==
  OrderInv /\ OrderInv' /\ FilesInv /\ (RunStep \/ SubRunStep \/ ReadEvent \/ ProcessEvent \/ EndOfLoop \/ DoErrorStuff \/ RewindInput)
    => FilesInv'
<1> SUFFICES ASSUME OrderInv, OrderInv', FilesInv,
                    RunStep \/ SubRunStep \/ ReadEvent \/ ProcessEvent \/ EndOfLoop \/ DoErrorStuff \/ RewindInput
             PROVE  FilesInv'
  OBVIOUS
<1>1. Steady
  BY StatementsSteady
<1>2. ASSUME NEW call, Running(call) PROVE NextCall = call
  BY <1>2 DEF Running, NextCall
<1>3. CASE RunStep
  <2>1. NextCall \in RunCalls /\ files' = files
    BY <1>2, <1>3 DEF RunStep, ReadAndCacheRun, SetupCurrentRun, BeginRunIfNotDoneAlready, BeginRun, EndRun,
                    FinalizeRun, WriteRun, ClearCurrentRun, RunCalls
  <2>2. NextCall \in Elsewhere
    BY <2>1 DEF Elsewhere
  <2>3. depth >= 2
    BY <2>1, <2>2, ElsewherePlace DEF RunCalls
  <2> QED
    BY <1>1, <2>1, <2>2, <2>3, ElsewhereKeeps
<1>4. CASE SubRunStep
  <2>1. NextCall \in SubRunCalls /\ files' = files
    BY <1>2, <1>4 DEF SubRunStep, ReadAndCacheSubRun, SetupCurrentSubRun, FinalizeAllSubRuns, FinalizeSubRun,
         ClearCurrentSubRun, FinalizeOutstandingSubRuns, NextOutstanding, MarkSubRunNonEmpty,
         StartSubRun, SubRunStarted, BeginSubRun, EndSubRun, WriteSubRun, SubRunCalls
  <2>2. NextCall \in Elsewhere
    BY <2>1 DEF Elsewhere
  <2>3. depth >= 2
    BY <2>1, <2>2, ElsewherePlace DEF SubRunCalls
  <2> QED
    BY <1>1, <2>1, <2>2, <2>3, ElsewhereKeeps
<1>5. CASE ReadEvent \/ ProcessEvent \/ EndOfLoop \/ DoErrorStuff \/ RewindInput
  <2>1. NextCall \in OtherCalls /\ files' = files /\ cache' = cache
    BY <1>2, <1>5 DEF ReadEvent, ProcessEvent, EndOfLoop, DoErrorStuff, RewindInput, OtherCalls
  <2>2. NextCall \in Elsewhere
    BY <2>1 DEF Elsewhere
  <2> QED
    BY <1>1, <2>1, <2>2, ElsewhereKeeps
<1> QED
  BY <1>3, <1>4, <1>5

-----------------------------------------------------------------------------
(* The statements about files.                                              *)

LEMMA FilePlace ==
  ASSUME OrderInv, NextCall \in FileCalls \cup CacheCalls
  PROVE  /\ NextCall # "none" /\ (GoesDown \/ primary = "none") /\ (GoesDown => depth = 1)
         /\ NextCall \in CacheCalls \cup {"respondToCloseOutputFiles", "closeOutputFiles"} =>
              depth = 1 /\ (GoesDown \/ Constructs("NewInputAndOutputFiles"))
         /\ NextCall \in {"readFile", "respondToOpenInputFile", "openOutputFiles", "respondToOpenOutputFiles"} => ~GoesDown
         /\ NextCall \in {"openOutputFiles", "respondToOpenOutputFiles"} => OpensOutput /\ depth <= 1
         /\ depth = 0 => phase = "enter"
         /\ depth \in 0..3 /\ phase \in {"exit", "destroy", "enter", "construct"}
         /\ ~GoesDown => (phase = "enter" /\ depth = 0) \/ phase = "construct"
         /\ phase = "destroy" => primary # "none" \/ external
<1>1. /\ ParentDepth("NewInputAndOutputFiles") = 1 /\ ParentDepth("HandleNewInputFile1") = 1
      /\ ParentDepth("HandleNewInputFile2") = 2 /\ ParentDepth("HandleNewInputFile3") = 3
  BY DEF ParentDepth, FileLeaves, RunLeaves, SubRunLeaves
<1>2. \/ GoesDown /\ depth = 1
      \/ ~GoesDown /\ phase = "enter" /\ depth = 0 /\ primary = "none"
      \/ ~GoesDown /\ phase = "construct" /\ depth >= 1 /\ primary = "none"
  BY <1>1 DEF OrderInv, InPlace, Between, FileCalls, Responses, CacheCalls, Closes, ChangesInput, Constructs, GoesDown
<1>3. depth \in 0..3 /\ (phase = "destroy" => primary # "none" \/ external)
  BY DEF OrderInv, TypeInv, Control, ControlOK, Between
<1>4. NextCall \in CacheCalls \cup {"respondToCloseOutputFiles", "closeOutputFiles"} =>
        depth = 1 /\ (GoesDown \/ Constructs("NewInputAndOutputFiles"))
  BY <1>1 DEF OrderInv, InPlace, Between, CacheCalls, Closes, Constructs
<1>5. NextCall \in {"readFile", "respondToOpenInputFile", "openOutputFiles", "respondToOpenOutputFiles"} => ~GoesDown
  BY <1>1 DEF OrderInv, InPlace, ChangesInput, Constructs, GoesDown
<1>6. NextCall \in {"openOutputFiles", "respondToOpenOutputFiles"} => OpensOutput /\ depth <= 1
  BY <1>1, <1>3 DEF OrderInv, InPlace, Between, OpensOutput, Constructs
<1>7. NextCall # "none"
  BY DEF FileCalls, CacheCalls, Responses
<1> QED
  BY <1>2, <1>3, <1>4, <1>5, <1>6, <1>7 DEF GoesDown

LEMMA FilesFail ==
  ASSUME OrderInv, FilesInv, NextCall \in FileCalls \cup CacheCalls, Fails, depth >= 2 => files'.output = files.output
  PROVE  FilesInv'
<1>1. /\ NextCall # "none" /\ (GoesDown \/ primary = "none") /\ (GoesDown => depth = 1) /\ depth \in 0..3
      /\ phase = "destroy" => primary # "none" \/ external
  BY FilePlace
<1>2. NextCall' \notin FileCalls \cup (CacheCalls \ {"writeSubRunCache"})
  BY FirstCleanUps, <1>1 DEF Fails, FileCalls, CacheCalls, Responses
<1>3. depth' = depth /\ external' = external
  BY DEF Fails
<1>4. NextCall' # "readFile" /\ NextCall' \notin OutputGap /\ OutputThere'
  BY <1>2, <1>3 DEF FileCalls, Responses, OutputGap, FilesInv, OpenInv, OutputThere
<1>5. NotOpenYet' /\ CacheEmptied'
  BY <1>2, <1>4 DEF NotOpenYet, CacheEmptied, FileCalls, Responses, CacheCalls
<1>6. CASE phase = "destroy"
  <2>1. LeftFiles' /\ swallowed' # {} /\ (primary' # "none" \/ external')
    BY <1>1, <1>3, <1>6 DEF Fails, LeftFiles, GoesDown
  <2>2. InputOpen' /\ OutputOpen' /\ SwallowedFits' /\ ClosedFits'
    BY <2>1 DEF InputOpen, OutputOpen, SwallowedFits, ClosedFits
  <2> QED
    BY <1>4, <1>5, <2>2, FilesInvFrom
<1>7. CASE phase # "destroy"
  <2>1. primary' = NextCall
    BY <1>7 DEF Fails
  <2>2. InputOpen' /\ OutputOpen' /\ SwallowedFits' /\ ClosedFits'
    BY <1>1, <2>1 DEF InputOpen, OutputOpen, SwallowedFits, ClosedFits
  <2> QED
    BY <1>4, <1>5, <2>2, FilesInvFrom
<1> QED
  BY <1>6, <1>7

\* The parts that a statement that goes on and changes only its file leaves alone.
LEMMA FilesGo ==
  ASSUME OrderInv, FilesInv, NextCall \in FileCalls \cup CacheCalls, NEW next, Goes(next),
         next = "none" => ~(GoesDown /\ depth = 1)
  PROVE  /\ NextCall' = next /\ SwallowedFits' /\ ClosedFits' /\ ~LeftFiles'
         /\ UNCHANGED <<phase, depth, leaf, primary>>
         /\ (GoesDown' <=> GoesDown) /\ (OpensOutput' <=> OpensOutput) /\ (Inside' <=> Inside)
         /\ ~LeftFiles
<1>1. NextCall' = next /\ UNCHANGED <<phase, depth, leaf, primary, external, swallowed>>
  BY DEF Goes
<1>2. /\ (GoesDown' <=> GoesDown) /\ (OpensOutput' <=> OpensOutput) /\ (Inside' <=> Inside)
  BY <1>1 DEF GoesDown, OpensOutput, Inside, Constructs
<1>3. ~LeftFiles /\ (depth = 0 => phase = "enter")
  BY FilePlace DEF LeftFiles
<1>4. ~LeftFiles'
  BY <1>1, <1>2 DEF LeftFiles
<1>5. SwallowedFits' /\ ClosedFits'
  BY <1>1, <1>3, <1>4 DEF FilesInv, CloseInv, SwallowedFits, ClosedFits
<1> QED
  BY <1>1, <1>2, <1>3, <1>4, <1>5

LEMMA ReadFileFits == OrderInv /\ FilesInv /\ ReadFile => FilesInv'
<1> SUFFICES ASSUME OrderInv, FilesInv, ReadFile PROVE FilesInv'
  OBVIOUS
<1>1. Simple("readFile", "respondToOpenInputFile") /\ cache' = cache
  BY FileFlows DEF ReadFile
<1>2. NextCall = "readFile" /\ NextCall \in FileCalls \cup CacheCalls /\ files'.output = files.output
  BY <1>1 DEF Simple, FileCalls, ReadFile, OrderInv, TypeInv, DataOK
<1>3. ~GoesDown /\ (Inside => primary = "none")
  BY <1>2, FilePlace
<1>4. CASE Returns /\ files' = [files EXCEPT !.input = TRUE]
  <2>1. Goes("respondToOpenInputFile") /\ files'.input
    BY <1>1, <1>4 DEF Simple, OrderInv, TypeInv, DataOK
  <2>2. /\ NextCall' = "respondToOpenInputFile" /\ SwallowedFits' /\ ClosedFits' /\ ~LeftFiles'
        /\ UNCHANGED <<phase, depth, leaf, primary>>
        /\ (GoesDown' <=> GoesDown) /\ (OpensOutput' <=> OpensOutput) /\ (Inside' <=> Inside) /\ ~LeftFiles
    BY <1>2, <2>1, FilesGo
  <2>3. InputOpen' /\ OutputOpen' /\ OutputThere' /\ NotOpenYet' /\ CacheEmptied'
    BY <1>2, <1>3, <2>1, <2>2 DEF FilesInv, OpenInv, InputOpen, OutputOpen, OutputThere, NotOpenYet, CacheEmptied, OutputGap
  <2> QED
    BY <2>2, <2>3, FilesInvFrom
<1>5. CASE Throws
  BY <1>1, <1>2, <1>5, FilesFail DEF Simple
<1> QED
  BY <1>4, <1>5 DEF ReadFile

LEMMA CloseInputFits == OrderInv /\ FilesInv /\ CloseInputFile => FilesInv'
<1> SUFFICES ASSUME OrderInv, FilesInv, CloseInputFile PROVE FilesInv'
  OBVIOUS
<1>1. Simple("closeInputFile", IF phase = "construct" THEN "readFile" ELSE "none") /\ cache' = cache
  BY FileFlows DEF CloseInputFile
<1>2. NextCall = "closeInputFile" /\ NextCall \in FileCalls \cup CacheCalls /\ files'.output = files.output
  BY <1>1 DEF Simple, FileCalls, CloseInputFile, OrderInv, TypeInv, DataOK
<1>3. /\ (GoesDown /\ depth = 1) \/ (~GoesDown /\ phase = "construct")
      /\ depth = 0 => phase = "enter"
  BY <1>2, FilePlace DEF OrderInv, InPlace, ChangesInput, Constructs, GoesDown
<1>4. CASE Returns /\ files' = [files EXCEPT !.input = FALSE]
  <2>1. ~files'.input
    BY <1>4 DEF OrderInv, TypeInv, DataOK
  <2>2. CASE phase = "construct"
    <3>1. Goes("readFile") /\ ~GoesDown
      BY <1>1, <1>3, <1>4, <2>2 DEF Simple, GoesDown
    <3>2. /\ NextCall' = "readFile" /\ SwallowedFits' /\ ClosedFits' /\ ~LeftFiles'
          /\ UNCHANGED <<phase, depth, leaf, primary>>
          /\ (GoesDown' <=> GoesDown) /\ (OpensOutput' <=> OpensOutput) /\ (Inside' <=> Inside) /\ ~LeftFiles
      BY <1>2, <3>1, FilesGo
    <3>3. InputOpen' /\ OutputOpen' /\ OutputThere' /\ NotOpenYet' /\ CacheEmptied'
      BY <1>2, <2>1, <3>1, <3>2 DEF FilesInv, OpenInv, InputOpen, OutputOpen, OutputThere, NotOpenYet, CacheEmptied, OutputGap
    <3> QED
      BY <3>2, <3>3, FilesInvFrom
  <2>3. CASE GoesDown /\ depth = 1
    <3>1. Goes("none")
      BY <1>1, <1>4, <2>3 DEF Simple, GoesDown
    <3>2. NextCall' = "none" /\ UNCHANGED <<phase, depth, leaf, primary, external, swallowed>>
      BY <3>1 DEF Goes
    <3>3. LeftFiles' /\ AllClosed'
      BY <1>1, <1>2, <2>1, <2>3, <3>2 DEF LeftFiles, GoesDown, AllClosed, FilesInv, CloseInv, CacheEmptied
    <3>4. InputOpen' /\ OutputOpen' /\ OutputThere' /\ NotOpenYet' /\ CacheEmptied' /\ SwallowedFits' /\ ClosedFits'
      BY <2>3, <3>2, <3>3 DEF FilesInv, CloseInv, InputOpen, OutputOpen, OutputThere, NotOpenYet, CacheEmptied,
           SwallowedFits, ClosedFits, OutputGap
    <3> QED
      BY <3>4, FilesInvFrom
  <2> QED
    BY <1>3, <2>2, <2>3
<1>5. CASE Throws
  BY <1>1, <1>2, <1>5, FilesFail DEF Simple
<1> QED
  BY <1>4, <1>5 DEF CloseInputFile

LEMMA OpenOutputFits == OrderInv /\ FilesInv /\ OpenOutputFiles => FilesInv'
<1> SUFFICES ASSUME OrderInv, FilesInv, OpenOutputFiles PROVE FilesInv'
  OBVIOUS
<1>1. Simple("openOutputFiles", "respondToOpenOutputFiles") /\ cache' = cache
  BY FileFlows DEF OpenOutputFiles
<1>2. NextCall = "openOutputFiles" /\ NextCall \in FileCalls \cup CacheCalls /\ files'.input = files.input
  BY <1>1 DEF Simple, FileCalls, OpenOutputFiles, OrderInv, TypeInv, DataOK
<1>3. ~GoesDown /\ depth <= 1 /\ depth \in 0..3
  BY <1>2, FilePlace
<1>4. CASE Returns /\ files' = [files EXCEPT !.output = TRUE]
  <2>1. Goes("respondToOpenOutputFiles") /\ files'.output
    BY <1>1, <1>4 DEF Simple, OrderInv, TypeInv, DataOK
  <2>2. /\ NextCall' = "respondToOpenOutputFiles" /\ SwallowedFits' /\ ClosedFits' /\ ~LeftFiles'
        /\ UNCHANGED <<phase, depth, leaf, primary>>
        /\ (GoesDown' <=> GoesDown) /\ (OpensOutput' <=> OpensOutput) /\ (Inside' <=> Inside) /\ ~LeftFiles
    BY <1>2, <2>1, FilesGo
  <2>3. InputOpen' /\ OutputOpen' /\ OutputThere' /\ NotOpenYet' /\ CacheEmptied'
    BY <1>2, <1>3, <2>1, <2>2 DEF FilesInv, OpenInv, InputOpen, OutputOpen, OutputThere, NotOpenYet, CacheEmptied, OutputGap
  <2> QED
    BY <2>2, <2>3, FilesInvFrom
<1>5. CASE Throws
  BY <1>1, <1>2, <1>3, <1>5, FilesFail DEF Simple
<1> QED
  BY <1>4, <1>5 DEF OpenOutputFiles

LEMMA CloseOutputFits == OrderInv /\ FilesInv /\ CloseOutputFiles => FilesInv'
<1> SUFFICES ASSUME OrderInv, FilesInv, CloseOutputFiles PROVE FilesInv'
  OBVIOUS
<1>1. Simple("closeOutputFiles", "respondToCloseInputFile") /\ cache' = cache
  BY FileFlows DEF CloseOutputFiles
<1>2. NextCall = "closeOutputFiles" /\ NextCall \in FileCalls \cup CacheCalls /\ files'.input = files.input
  BY <1>1 DEF Simple, FileCalls, CloseOutputFiles, OrderInv, TypeInv, DataOK
<1>3. depth = 1 /\ (GoesDown \/ OpensOutput)
  BY <1>2, FilePlace DEF OpensOutput
<1>4. CASE Returns /\ files' = [files EXCEPT !.output = FALSE]
  <2>1. Goes("respondToCloseInputFile") /\ ~files'.output
    BY <1>1, <1>4 DEF Simple, OrderInv, TypeInv, DataOK
  <2>2. /\ NextCall' = "respondToCloseInputFile" /\ SwallowedFits' /\ ClosedFits' /\ ~LeftFiles'
        /\ UNCHANGED <<phase, depth, leaf, primary>>
        /\ (GoesDown' <=> GoesDown) /\ (OpensOutput' <=> OpensOutput) /\ (Inside' <=> Inside) /\ ~LeftFiles
    BY <1>2, <2>1, FilesGo
  <2>3. InputOpen' /\ OutputOpen' /\ OutputThere' /\ NotOpenYet' /\ CacheEmptied'
    BY <1>1, <1>2, <1>3, <2>1, <2>2 DEF FilesInv, OpenInv, CloseInv, InputOpen, OutputOpen, OutputThere, NotOpenYet, CacheEmptied, OutputGap
  <2> QED
    BY <2>2, <2>3, FilesInvFrom
<1>5. CASE Throws
  BY <1>1, <1>2, <1>3, <1>5, FilesFail DEF Simple, CloseOutputFiles
<1> QED
  BY <1>4, <1>5 DEF CloseOutputFiles

LEMMA RespondFits == OrderInv /\ FilesInv /\ Respond => FilesInv'
<1> SUFFICES ASSUME OrderInv, FilesInv, Respond PROVE FilesInv'
  OBVIOUS
<1>1. NextCall \in Responses /\ files' = files /\ cache' = cache
  BY RespondFlow DEF Respond
<1>2. NextCall \in FileCalls \cup CacheCalls
  BY <1>1 DEF FileCalls
<1>3. ASSUME NEW next, Goes(next), next = "none" => ~(GoesDown /\ depth = 1)
      PROVE  /\ NextCall' = next /\ SwallowedFits' /\ ClosedFits' /\ ~LeftFiles'
             /\ UNCHANGED <<phase, depth, leaf, primary>>
             /\ (GoesDown' <=> GoesDown) /\ (OpensOutput' <=> OpensOutput) /\ (Inside' <=> Inside) /\ ~LeftFiles
  BY <1>2, <1>3, FilesGo
<1>4. CASE Throws
  BY <1>1, <1>2, <1>4, RespondFlow, FilesFail
<1>5. CASE Returns /\ NextCall = "respondToOpenInputFile"
  <2>1. ~GoesDown /\ ((phase = "enter" /\ depth = 0) \/ phase = "construct")
    BY <1>2, <1>5, FilePlace
  <2>2. Goes(IF phase = "construct" /\ leaf # "NewInputAndOutputFiles" THEN "none" ELSE "openOutputFiles")
    BY <1>5, RespondFlow
  <2>3. CASE phase = "construct" /\ leaf # "NewInputAndOutputFiles"
    <3>1. Goes("none")
      BY <2>2, <2>3
    <3>2. /\ NextCall' = "none" /\ SwallowedFits' /\ ClosedFits' /\ ~LeftFiles'
          /\ UNCHANGED <<phase, depth, leaf, primary>>
          /\ (GoesDown' <=> GoesDown) /\ (OpensOutput' <=> OpensOutput) /\ (Inside' <=> Inside) /\ ~LeftFiles
      BY <2>1, <3>1, <1>3
    <3>3. ~OpensOutput
      BY <2>3 DEF OpensOutput, Constructs
    <3>4. InputOpen' /\ OutputOpen' /\ OutputThere' /\ NotOpenYet' /\ CacheEmptied'
      BY <1>1, <1>5, <2>1, <3>2, <3>3 DEF FilesInv, OpenInv, InputOpen, OutputOpen, OutputThere, NotOpenYet, CacheEmptied, OutputGap
    <3> QED
      BY <3>2, <3>4, FilesInvFrom
  <2>4. CASE ~(phase = "construct" /\ leaf # "NewInputAndOutputFiles")
    <3>1. Goes("openOutputFiles")
      BY <2>2, <2>4
    <3>2. /\ NextCall' = "openOutputFiles" /\ SwallowedFits' /\ ClosedFits' /\ ~LeftFiles'
          /\ UNCHANGED <<phase, depth, leaf, primary>>
          /\ (GoesDown' <=> GoesDown) /\ (OpensOutput' <=> OpensOutput) /\ (Inside' <=> Inside) /\ ~LeftFiles
      BY <3>1, <1>3
    <3>3. OpensOutput
      BY <2>1, <2>4 DEF OpensOutput, Constructs
    <3>4. InputOpen' /\ OutputOpen' /\ OutputThere' /\ NotOpenYet' /\ CacheEmptied'
      BY <1>1, <1>5, <2>1, <3>2, <3>3 DEF FilesInv, OpenInv, InputOpen, OutputOpen, OutputThere, NotOpenYet, CacheEmptied, OutputGap
    <3> QED
      BY <3>2, <3>4, FilesInvFrom
  <2> QED
    BY <2>3, <2>4
<1>6. CASE Returns /\ NextCall = "respondToOpenOutputFiles"
  <2>1. ~GoesDown /\ Goes("none")
    BY <1>2, <1>6, FilePlace, RespondFlow
  <2>2. /\ NextCall' = "none" /\ SwallowedFits' /\ ClosedFits' /\ ~LeftFiles'
        /\ UNCHANGED <<phase, depth, leaf, primary>>
        /\ (GoesDown' <=> GoesDown) /\ (OpensOutput' <=> OpensOutput) /\ (Inside' <=> Inside) /\ ~LeftFiles
    BY <2>1, <1>3
  <2>3. InputOpen' /\ OutputOpen' /\ OutputThere' /\ NotOpenYet' /\ CacheEmptied'
    BY <1>1, <1>6, <2>1, <2>2 DEF FilesInv, OpenInv, InputOpen, OutputOpen, OutputThere, NotOpenYet, CacheEmptied, OutputGap
  <2> QED
    BY <2>2, <2>3, FilesInvFrom
<1>7. CASE Returns /\ NextCall \in {"respondToCloseOutputFiles", "respondToCloseInputFile"}
  <2>1. PICK next \in {"closeOutputFiles", "closeInputFile"} :
          Goes(next) /\ (next = "closeInputFile" <=> NextCall = "respondToCloseInputFile")
    BY <1>7, RespondFlow
  <2>2. /\ NextCall' = next /\ SwallowedFits' /\ ClosedFits' /\ ~LeftFiles'
        /\ UNCHANGED <<phase, depth, leaf, primary>>
        /\ (GoesDown' <=> GoesDown) /\ (OpensOutput' <=> OpensOutput) /\ (Inside' <=> Inside) /\ ~LeftFiles
    BY <2>1, <1>3
  <2>3. InputOpen' /\ OutputOpen' /\ OutputThere' /\ NotOpenYet'
    BY <1>1, <1>7, <2>1, <2>2 DEF FilesInv, OpenInv, InputOpen, OutputOpen, OutputThere, NotOpenYet, OutputGap
  <2>4. CacheEmptied'
    BY <1>1, <1>7, <2>1, <2>2 DEF FilesInv, CloseInv, CacheEmptied
  <2> QED
    BY <2>2, <2>3, <2>4, FilesInvFrom
<1> QED
  BY <1>1, <1>4, <1>5, <1>6, <1>7 DEF Respond, Responses

\* The cache is written, principal by principal.
LEMMA CacheWriteFits == OrderInv /\ FilesInv /\ (WriteSubRunCache \/ WriteRunCache) => FilesInv'
<1> SUFFICES ASSUME OrderInv, FilesInv, WriteSubRunCache \/ WriteRunCache PROVE FilesInv'
  OBVIOUS
<1>1. NextCall = (IF WriteSubRunCache THEN "writeSubRunCache" ELSE "writeRunCache") /\ NextCall \in CacheCalls
  BY CacheFlows DEF Simple, CacheCalls
<1>2. NextCall \in FileCalls \cup CacheCalls /\ files' = files /\ cache \in Cache
  BY <1>1 DEF WriteSubRunCache, WriteRunCache, OrderInv, TypeInv, DataOK
<1>3. depth = 1 /\ (GoesDown \/ OpensOutput)
  BY <1>1, <1>2, FilePlace DEF OpensOutput
<1>4. CASE Throws
  BY <1>1, <1>2, <1>4, CacheFlows, FilesFail DEF Simple
<1>5. ASSUME NEW next \in CacheCalls \cup {"respondToCloseOutputFiles"}, Goes(next),
             next # "writeSubRunCache" => cache'.subRuns = {},
             next = "respondToCloseOutputFiles" => cache'.runs = {}
      PROVE  FilesInv'
  <2>1. /\ NextCall' = next /\ SwallowedFits' /\ ClosedFits' /\ ~LeftFiles'
        /\ UNCHANGED <<phase, depth, leaf, primary>>
        /\ (GoesDown' <=> GoesDown) /\ (OpensOutput' <=> OpensOutput) /\ (Inside' <=> Inside) /\ ~LeftFiles
    BY <1>2, <1>5, FilesGo DEF CacheCalls
  <2>2. InputOpen' /\ OutputOpen' /\ OutputThere' /\ NotOpenYet'
    BY <1>1, <1>2, <1>3, <1>5, <2>1 DEF FilesInv, OpenInv, InputOpen, OutputOpen, OutputThere, NotOpenYet,
         OutputGap, CacheCalls
  <2>3. CacheEmptied'
    BY <1>5, <2>1 DEF CacheEmptied, CacheCalls
  <2> QED
    BY <2>1, <2>2, <2>3, FilesInvFrom
<1>6. UNCHANGED <<config, phase, depth, leaf, move, todo, source, failure>> => Goes(NextCall)
  BY DEF Goes, NextCall, failure
<1>7. CASE WriteSubRunCache /\ ~Throws
  <2>1. CASE cache.subRuns = {} /\ Returns /\ cache' = cache
    <3>1. Goes("writeRunCache")
      BY <1>7, <2>1, CacheFlows DEF Simple
    <3> QED
      BY <2>1, <3>1, <1>5 DEF CacheCalls
  <2>2. CASE UNCHANGED <<config, phase, depth, leaf, move, todo, source, failure>>
    BY <1>1, <1>5, <1>6, <1>7, <2>2
  <2> QED
    BY <1>7, <2>1, <2>2 DEF WriteSubRunCache
<1>8. CASE WriteRunCache /\ ~WriteSubRunCache /\ ~Throws
  <2>1. cache.subRuns = {}
    BY <1>1, <1>8 DEF FilesInv, CloseInv, CacheEmptied
  <2>2. CASE cache.runs = {} /\ Returns /\ cache' = cache
    <3>1. Goes("respondToCloseOutputFiles")
      BY <1>8, <2>2, CacheFlows DEF Simple
    <3> QED
      BY <2>1, <2>2, <3>1, <1>5
  <2>3. CASE /\ \E r \in cache.runs : WritesRun(r)
             /\ UNCHANGED <<config, phase, depth, leaf, move, todo, source, failure>>
    <3>1. cache'.subRuns = {}
      BY <1>2, <2>1, <2>3 DEF WritesRun, DeleteRun, Cache
    <3>2. Goes("writeRunCache")
      BY <1>1, <1>6, <1>8, <2>3
    <3> QED
      BY <3>1, <3>2, <1>5 DEF CacheCalls
  <2> QED
    BY <1>8, <2>2, <2>3 DEF WriteRunCache
<1> QED
  BY <1>4, <1>7, <1>8

-----------------------------------------------------------------------------
(* The transitions and the files.                                           *)

\* A transition leads to another part of the chart.
LEMMA FilesMove ==
  ASSUME FilesInv, NextCall = "none", UNCHANGED <<files, cache, primary, swallowed>>,
         NextCall' \notin FileCalls \cup {"writeRunCache"} \/ (NextCall' = "respondToCloseInputFile" /\ phase' = "construct"
                                                               /\ ~OpensOutput'),
         ~LeftFiles', primary = "none" /\ Inside' => Inside /\ ~LeftFiles,
         depth' >= 2 => depth >= 2 \/ (primary = "none" /\ Inside /\ ~LeftFiles),
         depth' = 0 /\ phase' # "enter" => LeftFiles \/ (depth = 0 /\ phase # "enter"),
         external => external'
  PROVE  FilesInv'
<1>1. NextCall' # "readFile" /\ (NextCall' \in OutputGap => ~OpensOutput')
  BY DEF FileCalls, Responses, OutputGap
<1>2. primary = "none" /\ Inside /\ ~LeftFiles => files.input /\ files.output
  BY DEF FilesInv, OpenInv, InputOpen, OutputOpen, OutputGap
<1>3. InputOpen' /\ OutputOpen' /\ NotOpenYet'
  BY <1>1, <1>2 DEF InputOpen, OutputOpen, NotOpenYet
<1>4. OutputThere'
  BY <1>2 DEF FilesInv, OpenInv, OutputThere
<1>5. SwallowedFits'
  BY DEF FilesInv, CloseInv, SwallowedFits
<1>6. CacheEmptied'
  BY DEF CacheEmptied, FileCalls, Responses, GoesDown
<1>7. ClosedFits'
  <2>1. AllClosed => AllClosed'
    BY DEF AllClosed
  <2> QED
    BY <2>1 DEF FilesInv, CloseInv, ClosedFits
<1> QED
  BY <1>3, <1>4, <1>5, <1>6, <1>7, FilesInvFrom

LEMMA FirstOfFiles ==
  ASSUME NEW target \in Leaves
  PROVE  /\ FirstConstruct(target) \notin FileCalls \cup {"writeRunCache"} \/ FirstConstruct(target) = "respondToCloseInputFile"
         /\ target = "NewInputAndOutputFiles" => FirstConstruct(target) = "writeSubRunCache"
  BY DEF FirstConstruct, FileCalls, Responses, Leaves, TopLeaves, FileLeaves, RunLeaves, SubRunLeaves

LEMMA BeginsFiles == ASSUME OrderInv, FilesInv, NEW m, Begins(m), external => external' PROVE FilesInv'
<1>1. /\ phase = "stable" /\ NextCall = "none" /\ Proceeds(depth, m, external')
      /\ UNCHANGED <<files, cache, primary, swallowed, depth>> /\ depth \in 0..3
  BY DEF Begins, OrderInv, TypeInv, Control, ControlOK
<1>2. /\ phase' \in {"exit", "destroy", "action"}
      /\ NextCall' \in {"none", "writeSubRunCache", "finalizeRun", "finalizeAllSubRuns", "rewindInput"}
      /\ depth = 1 /\ NextCall' = "none" => phase' = "action"
  BY <1>1, FirstCleanUps, FirstActions DEF Proceeds
<1>3. ~LeftFiles' /\ ~LeftFiles
  BY <1>1, <1>2 DEF LeftFiles, GoesDown
<1>4. NextCall' \notin FileCalls \cup {"writeRunCache"}
  BY <1>2 DEF FileCalls, Responses
<1> QED
  BY <1>1, <1>2, <1>3, <1>4, FilesMove DEF Inside

LEMMA LeaveFiles == OrderInv /\ FilesInv /\ LeaveComposite => FilesInv'
<1> SUFFICES ASSUME OrderInv, FilesInv, LeaveComposite PROVE FilesInv'
  OBVIOUS
<1>1. /\ phase \in {"exit", "destroy"} /\ NextCall = "none" /\ depth \in 1..3 /\ depth' = depth - 1
      /\ UNCHANGED <<files, cache, primary, swallowed, external>>
      /\ \/ primary = "none" /\ Proceeds(depth - 1, move, external)
         \/ primary # "none" /\ phase' = Unwound(depth - 1) /\ NextCall' = FirstCleanUp(depth - 1)
  BY LeaveFlow
<1>2. /\ phase' \in {"exit", "destroy", "action", "terminated"}
      /\ NextCall' \in {"none", "writeSubRunCache", "finalizeRun", "finalizeAllSubRuns", "rewindInput"}
      /\ depth' = 1 /\ NextCall' = "none" => phase' = "action"
  BY <1>1, FirstCleanUps, FirstActions DEF Proceeds, Unwound
<1>3. ~LeftFiles'
  BY <1>2 DEF LeftFiles, GoesDown
<1>4. NextCall' \notin FileCalls \cup {"writeRunCache"}
  BY <1>2 DEF FileCalls, Responses
<1>5. depth' >= 1 => ~LeftFiles /\ Inside
  BY <1>1 DEF LeftFiles, Inside
<1>6. depth' = 0 => LeftFiles
  BY <1>1 DEF LeftFiles, GoesDown
<1>7. Inside' => depth' >= 1
  BY <1>2 DEF Inside
<1> QED
  BY <1>1, <1>2, <1>3, <1>4, <1>5, <1>6, <1>7, FilesMove

LEMMA ActionFiles == OrderInv /\ FilesInv /\ ActionDone => FilesInv'
<1> SUFFICES ASSUME OrderInv, FilesInv, ActionDone PROVE FilesInv'
  OBVIOUS
<1>1. /\ phase = "action" /\ NextCall = "none" /\ primary = "none" /\ depth \in 0..3 /\ move.target \in Leaves
      /\ UNCHANGED <<depth, files, cache, primary, swallowed, external>>
      /\ \/ /\ depth < ParentDepth(move.target) /\ phase' = "enter" /\ leaf' = leaf
            /\ NextCall' = IF depth = 0 THEN "readFile" ELSE "none"
         \/ depth = ParentDepth(move.target) /\ Constructed
  BY ActionFlow DEF OrderInv, TypeInv, Control, ControlOK, Moves
<1>2. CASE depth = 0 /\ phase' = "enter" /\ NextCall' = "readFile" /\ depth < ParentDepth(move.target)
  <2>1. ParentDepth("EndingLoop") = 0
    BY DEF ParentDepth, FileLeaves, RunLeaves, SubRunLeaves
  <2>2. ~external /\ "none" \notin FileCalls \cup CacheCalls
    BY <1>2, <2>1 DEF OrderInv, Between, FileCalls, CacheCalls, Responses
  <2>3. AllClosed /\ swallowed = {}
    BY <1>1, <1>2, <2>2 DEF FilesInv, CloseInv, SwallowedFits, ClosedFits
  <2>4. InputOpen' /\ OutputOpen' /\ OutputThere' /\ NotOpenYet' /\ SwallowedFits' /\ CacheEmptied' /\ ClosedFits'
    BY <1>1, <1>2, <2>3 DEF AllClosed, InputOpen, OutputOpen, OutputThere, NotOpenYet, SwallowedFits, CacheEmptied,
         ClosedFits, OutputGap, OpensOutput, LeftFiles, GoesDown
  <2> QED
    BY <2>4, FilesInvFrom
<1>3. CASE depth # 0 /\ phase' = "enter" /\ NextCall' = "none"
  <2>1. ~LeftFiles /\ ~LeftFiles' /\ Inside /\ NextCall' \notin FileCalls \cup {"writeRunCache"}
    BY <1>1, <1>3 DEF LeftFiles, GoesDown, Inside, FileCalls, Responses
  <2> QED
    BY <1>1, <1>3, <2>1, FilesMove
<1>4. CASE Constructed
  <2>1. /\ phase' = "construct" /\ leaf' = move.target /\ NextCall' = FirstConstruct(move.target)
        /\ ~LeftFiles /\ ~LeftFiles'
    BY <1>1, <1>4 DEF Constructed, LeftFiles, GoesDown
  <2>2. NextCall' \notin FileCalls \cup {"writeRunCache"} \/ (NextCall' = "respondToCloseInputFile" /\ ~OpensOutput')
    BY <1>1, <2>1, FirstOfFiles DEF OpensOutput, Constructs
  <2> QED
    BY <1>1, <2>1, <2>2, FilesMove DEF Inside
<1> QED
  BY <1>1, <1>2, <1>3, <1>4

LEMMA EnterFiles == OrderInv /\ FilesInv /\ EnterComposite => FilesInv'
<1> SUFFICES ASSUME OrderInv, FilesInv, EnterComposite PROVE FilesInv'
  OBVIOUS
<1>1. /\ phase = "enter" /\ NextCall = "none" /\ primary = "none" /\ Constructed
      /\ depth' = depth + 1 /\ depth \in 0..3 /\ move.target \in Leaves
      /\ UNCHANGED <<files, cache, primary, swallowed, external>>
  BY EnterFlow DEF OrderInv, TypeInv, Control, ControlOK, Moves
<1>2. /\ phase' = "construct" /\ leaf' = move.target /\ NextCall' = FirstConstruct(move.target)
      /\ ~LeftFiles /\ ~LeftFiles' /\ Inside
  BY <1>1 DEF Constructed, LeftFiles, GoesDown, Inside
<1>3. NextCall' \notin FileCalls \cup {"writeRunCache"} \/ (NextCall' = "respondToCloseInputFile" /\ ~OpensOutput')
  BY <1>1, <1>2, FirstOfFiles DEF OpensOutput, Constructs
<1> QED
  BY <1>1, <1>2, <1>3, FilesMove

LEMMA StableFiles ==
  ASSUME FilesInv, NextCall = "none", NextCall' = "none", phase \in {"construct", "stable"}, phase' \in {"stable", "terminated"},
         UNCHANGED <<depth, files, cache, primary, swallowed, external>>
  PROVE  FilesInv'
<1>1. ~LeftFiles' /\ ~LeftFiles /\ NextCall' \notin FileCalls \cup {"writeRunCache"} /\ (Inside' => Inside)
  BY DEF LeftFiles, GoesDown, FileCalls, Responses, Inside
<1> QED
  BY <1>1, FilesMove

LEMMA TransitionFits == OrderInv /\ FilesInv /\ (TransitionStep \/ Item) => FilesInv'
<1> SUFFICES ASSUME OrderInv, FilesInv, TransitionStep \/ Item PROVE FilesInv'
  OBVIOUS
<1>1. CASE ConstructorDone
  BY <1>1, ConstructedFlow, StableFiles
<1>2. CASE ProcessPosted
  <2>1. external' = external /\ phase = "stable"
    BY <1>2, PostedBegins
  <2>2. ASSUME NEW m, Begins(m) PROVE FilesInv'
    BY <2>1, <2>2, BeginsFiles
  <2>3. CASE /\ phase' = "terminated" /\ NextCall = "none" /\ NextCall' = "none"
             /\ UNCHANGED <<depth, primary, swallowed, cache, files>>
    BY <2>1, <2>3, StableFiles
  <2> QED
    BY <1>2, <2>2, <2>3, PostedBegins
<1>3. CASE Item
  <2>1. external => external'
    BY <1>3 DEF Item, FileItem, RunItem, SubRunItem, EventItem, StopItem, SourceThrows
  <2>2. ASSUME NEW m, Begins(m) PROVE FilesInv'
    BY <2>1, <2>2, BeginsFiles
  <2> QED
    BY <1>3, <2>2, ItemBegins
<1> QED
  BY <1>1, <1>2, <1>3, LeaveFiles, ActionFiles, EnterFiles DEF TransitionStep

LEMMA FilesInvInit == Init => FilesInv
<1> SUFFICES ASSUME Init PROVE FilesInv
  OBVIOUS
<1>1. /\ depth = 0 /\ phase = "stable" /\ NextCall = "none" /\ swallowed = {} /\ AllClosed
  BY DEF Init, NextCall, AllClosed, EmptyCache
<1> QED
  BY <1>1 DEF FilesInv, OpenInv, CloseInv, InputOpen, OutputOpen, OutputThere, NotOpenYet, SwallowedFits, CacheEmptied,
         ClosedFits, OutputGap, LeftFiles, GoesDown, Inside

LEMMA FilesInvStep == OrderInv /\ OrderInv' /\ FilesInv /\ [Next]_vars => FilesInv'
<1> SUFFICES ASSUME OrderInv, OrderInv', FilesInv, [Next]_vars PROVE FilesInv'
  OBVIOUS
<1>1. CASE UNCHANGED vars
  <2>1. UNCHANGED <<phase, depth, leaf, todo, external, primary, swallowed, cache, files>>
    BY <1>1 DEF vars, control, failure
  <2>2. UNCHANGED <<NextCall, Inside, LeftFiles, OpensOutput, GoesDown, AllClosed>>
    BY <2>1 DEF NextCall, Inside, LeftFiles, OpensOutput, Constructs, GoesDown, AllClosed
  <2>3. InputOpen' /\ OutputOpen' /\ OutputThere' /\ NotOpenYet' /\ SwallowedFits' /\ CacheEmptied' /\ ClosedFits'
    BY <2>1, <2>2 DEF FilesInv, OpenInv, CloseInv, InputOpen, OutputOpen, OutputThere, NotOpenYet, SwallowedFits,
         CacheEmptied, ClosedFits
  <2> QED
    BY <2>3, FilesInvFrom
<1>2. FileStep => FilesInv'
  BY ReadFileFits, CloseInputFits, OpenOutputFits, CloseOutputFits, RespondFits, CacheWriteFits DEF FileStep
<1> QED
  BY <1>1, <1>2, TransitionFits, OtherFilesKeep DEF Next, MachineStep, Done

\* The files are open while runs and events are handled, what is opened is closed,
\* and when the machine has left HandleFiles all is closed, unless closing failed.
THEOREM FilesFit == Spec => [](OrderInv /\ FilesInv)
<1>1. Init => OrderInv /\ FilesInv
  BY OrderInit, FilesInvInit
<1>2. OrderInv /\ FilesInv /\ [Next]_vars => (OrderInv /\ FilesInv)'
  BY OrderStep, FilesInvStep
<1> QED
  BY <1>1, <1>2, PTL DEF Spec

-----------------------------------------------------------------------------
(* What surrounds an event.                                                 *)

LEMMA EventSurrounded == OrderInv /\ RunInv /\ SubRunInv /\ CacheInv /\ FilesInv => EventInContext
<1> SUFFICES ASSUME OrderInv, RunInv, SubRunInv, CacheInv, FilesInv, NextCall = "processEvent"
             PROVE  /\ files.input /\ files.output
                    /\ begun.runs = {run} \ FlushRuns
                    /\ begun.subRuns = {subRun} \ FlushSubRuns
                    /\ cache.currentRun = run /\ run \in cache.runs
                    /\ cache.currentSubRun = subRun
                    /\ subRun \in cache.subRuns \/ MayEraseTooEarly
                    /\ RunOf(subRun) = run
  BY DEF EventInContext, run, subRun
<1>1. phase = "construct" /\ leaf = "HandleEvent" /\ depth = 3 /\ primary = "none"
  BY DepthOfTargets DEF OrderInv, InPlace, Between, EventCalls, Constructs
<1>2. files.input /\ files.output
  BY <1>1 DEF FilesInv, OpenInv, InputOpen, OutputThere, Inside, LeftFiles, GoesDown
<1>3. run # NoRun /\ Began /\ ~RunBroken
  BY <1>1 DEF RunInv, RunKnown, EventRun, RunBrokenFits
<1>4. begun.runs = {run} \ FlushRuns /\ cache.currentRun = run /\ run \in cache.runs
  BY <1>3 DEF RunInv, RunBegun, RunCached
<1>5. subRun # NoSubRun /\ ~IsEmpty /\ ~Broken
  BY <1>1 DEF SubRunInv, SubRunKnown, EmptyFits, SubRunBrokenFits, LoopCalls, SubRunBodies
<1>6. begun.subRuns = {subRun} \ FlushSubRuns
  BY <1>5 DEF SubRunInv, SubRunBegun
<1>7. /\ cache.currentSubRun = subRun /\ RunOf(subRun) = run
      /\ subRun \in cache.subRuns \/ MayEraseTooEarly
  BY <1>5 DEF CacheInv, HeldInv, SubRunsOfRun, OfRun, SubRunCached
<1> QED
  BY <1>2, <1>4, <1>6, <1>7

\* An event is processed only with its files open, in its run and sub-run, both
\* begun, and with their principals the current ones of the cache.
THEOREM EventsInContext == Spec => []EventInContext
  BY CacheFits, FilesFit, EventSurrounded, PTL

-----------------------------------------------------------------------------
(* The statements that begin and end a sub-run.                             *)

Bounds == {"beginSubRun", "endSubRun"}
BoundsInRun == NextCall \in Bounds /\ ~InLoop => Began

\* What comes before one.
LEMMA ComesTo ==
  ASSUME OrderInv, Next, NextCall' \in Bounds
  PROVE  FinalizeSubRun \/ StartSubRun \/ BeginSubRun \/ NextOutstanding \/ UNCHANGED vars
<1>1. Fails => NextCall' \notin Bounds
  <2>1. \A d \in 0..3 : FirstCleanUp(d) \notin Bounds
    BY DEF FirstCleanUp, Bounds
  <2>2. depth \in 0..3
    BY DEF OrderInv, TypeInv, Control, ControlOK
  <2> QED
    BY <2>1, <2>2 DEF Fails, Bounds
<1>2. ASSUME NEW call, NEW next, Simple(call, next), Returns \/ Throws PROVE next \in Bounds
  BY <1>1, <1>2 DEF Simple, Goes
<1>3. ~ReadFile /\ ~CloseInputFile /\ ~OpenOutputFiles /\ ~CloseOutputFiles
  BY <1>2, FileFlows DEF ReadFile, CloseInputFile, OpenOutputFiles, CloseOutputFiles, Bounds
<1>4. ~Respond
  <2>1. Respond => Fails \/ Goes("none") \/ Goes("openOutputFiles") \/ Goes("closeOutputFiles") \/ Goes("closeInputFile")
    BY RespondFlow DEF Respond
  <2> QED
    BY <1>1, <2>1 DEF Goes, Bounds
<1>5. ~WriteSubRunCache /\ ~WriteRunCache
  <2>1. UNCHANGED <<config, phase, depth, leaf, move, todo, source, failure>> => NextCall' = NextCall
    BY DEF NextCall
  <2>2. WriteSubRunCache => Simple("writeSubRunCache", "writeRunCache")
    BY CacheFlows
  <2>3. WriteRunCache => Simple("writeRunCache", "respondToCloseOutputFiles")
    BY CacheFlows
  <2> QED
    BY <1>2, <2>1, <2>2, <2>3 DEF WriteSubRunCache, WriteRunCache, Simple, Bounds
<1>6. ~RunStep
  <2>1. ~SetupCurrentRun
    BY <1>1, SetupCurrentRunFlow DEF SetupCurrentRun, Goes, Bounds
  <2>2. ~BeginRunIfNotDoneAlready /\ ~FinalizeRun
    BY BeginRunIfNotFlow, FinalizeRunFlow DEF Goes, Bounds
  <2>3. ~ReadAndCacheRun /\ ~BeginRun /\ ~EndRun /\ ~WriteRun /\ ~ClearCurrentRun
    BY <1>2, RunFlows DEF ReadAndCacheRun, BeginRun, EndRun, WriteRun, ClearCurrentRun, Bounds
  <2> QED
    BY <2>1, <2>2, <2>3 DEF RunStep
<1>7. SubRunStep => FinalizeSubRun \/ StartSubRun \/ BeginSubRun \/ NextOutstanding
  <2>1. ~ReadAndCacheSubRun /\ ~ClearCurrentSubRun /\ ~SubRunStarted
    BY <1>2, SubRunFlows DEF ReadAndCacheSubRun, ClearCurrentSubRun, SubRunStarted, Bounds
  <2>2. ~SetupCurrentSubRun
    <3>1. SetupCurrentSubRun => Simple("setupCurrentSubRun", "none") /\ (Returns \/ Throws)
      BY SubRunFlows DEF SetupCurrentSubRun
    <3> QED
      BY <1>2, <3>1 DEF Bounds
  <2>3. ~EndSubRun /\ ~WriteSubRun
    BY <1>2, SubRunFlows DEF EndSubRun, WriteSubRun, AfterTurn, Bounds
  <2>4. ~FinalizeAllSubRuns /\ ~FinalizeOutstandingSubRuns /\ ~MarkSubRunNonEmpty
    BY FinalizeAllFlow, FinalizeOutstandingFlow, MarkSubRunNonEmptyFlow DEF Goes, Bounds
  <2> QED
    BY <2>1, <2>2, <2>3, <2>4 DEF SubRunStep
<1>8. ~ReadEvent /\ ~ProcessEvent /\ ~EndOfLoop /\ ~DoErrorStuff /\ ~RewindInput
  <2>1. ~ReadEvent /\ ~ProcessEvent /\ ~EndOfLoop
    BY <1>2, OtherFlows DEF ReadEvent, ProcessEvent, EndOfLoop, Bounds
  <2>2. ~DoErrorStuff /\ ~RewindInput
    BY <1>1, LastStatements DEF Bounds
  <2> QED
    BY <2>1, <2>2
<1>9. ~TransitionStep /\ ~Item
  <2>1. /\ \A d : FirstCleanUp(d) \notin Bounds
        /\ \A action : FirstAction(action) \notin Bounds
        /\ \A target : FirstConstruct(target) \notin Bounds
    BY DEF FirstCleanUp, FirstAction, FirstConstruct, Bounds
  <2>2. ASSUME NEW d, NEW m, NEW handling, Proceeds(d, m, handling) PROVE FALSE
    BY <2>1, <2>2 DEF Proceeds
  <2>3. ~LeaveComposite
    BY <2>1, <2>2, LeaveFlow
  <2>4. ~ActionDone /\ ~EnterComposite
    BY <2>1, ActionFlow, EnterFlow DEF Constructed, Bounds
  <2>5. ~ConstructorDone
    BY ConstructedFlow DEF Bounds
  <2>6. ASSUME NEW m, Begins(m) PROVE FALSE
    BY <2>2, <2>6 DEF Begins
  <2>7. ~ProcessPosted /\ ~Item
    BY <2>6, PostedBegins, ItemBegins DEF Bounds
  <2> QED
    BY <2>3, <2>4, <2>5, <2>7 DEF TransitionStep
<1> QED
  BY <1>3, <1>4, <1>5, <1>6, <1>7, <1>8, <1>9 DEF Next, MachineStep, FileStep, Done

LEMMA BoundsInRunInit == Init => BoundsInRun
  BY DEF Init, BoundsInRun, NextCall, Bounds

LEMMA BoundsInRunStep == OrderInv /\ OrderInv' /\ RunInv /\ BoundsInRun /\ [Next]_vars => BoundsInRun'
<1> SUFFICES ASSUME OrderInv, OrderInv', RunInv, BoundsInRun, [Next]_vars, NextCall' \in Bounds, ~InLoop' PROVE Began'
  BY DEF BoundsInRun
<1>1. CASE UNCHANGED vars
  BY <1>1 DEF vars, control, objects, BoundsInRun, NextCall, Began, InLoop
<1>2. CASE FinalizeSubRun
  <2>1. NextCall' = FinalizesWith /\ handleRuns' = handleRuns
    BY <1>2, FinalizeSubRunFlow DEF Goes, FinalizeSubRun
  <2>2. FinalizesWith \in Bounds => ~IsEmpty \/ Began
    BY DEF FinalizesWith, Bounds, IsEmpty, Began
  <2> QED
    BY <2>1, <2>2 DEF RunInv, EventRun, Began
<1>3. CASE StartSubRun
  <2>1. handleRuns' = handleRuns /\ NextCall = "startSubRun"
    BY <1>3, StartSubRunFlow DEF StartSubRun
  <2>2. phase = "construct" /\ leaf = "HandleEvent"
    BY <2>1, SubRunPlaces
  <2> QED
    BY <2>1, <2>2 DEF RunInv, EventRun, Began
<1>4. CASE BeginSubRun
  <2>1. NextCall = "beginSubRun" /\ UNCHANGED <<handleRuns, handleSubRuns>>
    BY <1>4, SubRunFlows DEF Simple, BeginSubRun, objects
  <2> QED
    BY <2>1 DEF BoundsInRun, Bounds, InLoop, Began
<1>5. CASE NextOutstanding
  <2>1. handleSubRuns \in SubRunFields
    BY DEF OrderInv, TypeInv, DataOK
  <2>2. CASE handleSubRuns' = [handleSubRuns EXCEPT !.iter = @ + 1]
    <3>1. handleSubRuns.iter \in Nat /\ handleSubRuns'.iter = handleSubRuns.iter + 1
      BY <2>1, <2>2 DEF SubRunFields
    <3> QED
      BY <3>1 DEF InLoop
  <2>3. CASE ~(handleSubRuns.iter < Len(handleSubRuns.unhandled))
    BY <1>5, <2>3, NextOutstandingFlow DEF Goes, Bounds
  <2>4. CASE handleSubRuns.iter < Len(handleSubRuns.unhandled) /\ handleSubRuns.iter = Len(handleSubRuns.unhandled)
    <3>1. handleSubRuns.iter \in Nat
      BY <2>1 DEF SubRunFields
    <3> QED
      BY <2>4, <3>1
  <2> QED
    BY <1>5, <2>2, <2>3, <2>4 DEF NextOutstanding
<1> QED
  BY <1>1, <1>2, <1>3, <1>4, <1>5, ComesTo

-----------------------------------------------------------------------------
(* The protocol of begins, ends and files.                                  *)

Protocol == [Contract!Next]_(Contract!vars)

LEMMA Quiet ==
  ASSUME UNCHANGED <<files, begun>>, config' = config
  PROVE  Protocol
  BY DEF Protocol, Contract!vars, DefersSubRuns

LEMMA ConfigFixed == [Next]_vars => config' = config
<1>1. FileStep \/ RunStep \/ SubRunStep \/ ReadEvent \/ ProcessEvent \/ EndOfLoop \/ DoErrorStuff \/ RewindInput
        => config' = config
  BY StatementsSteady DEF Steady
<1>2. TransitionStep => config' = config
  BY DEF TransitionStep, LeaveComposite, ActionDone, EnterComposite, ConstructorDone, ProcessPosted, React
<1>3. Item => config' = config
  BY DEF Item, FileItem, RunItem, SubRunItem, EventItem, StopItem, SourceThrows, React
<1>4. UNCHANGED vars => config' = config
  BY DEF vars
<1> QED
  BY <1>1, <1>2, <1>3, <1>4 DEF Next, MachineStep, Done

LEMMA OthersQuiet ==
  ASSUME [Next]_vars
  PROVE  \/ ReadFile \/ CloseInputFile \/ OpenOutputFiles \/ CloseOutputFiles
         \/ BeginRun \/ EndRun \/ BeginSubRun \/ EndSubRun
         \/ UNCHANGED <<files, begun>>
<1>1. TransitionStep => UNCHANGED <<files, begun>>
  BY DEF TransitionStep, LeaveComposite, ActionDone, EnterComposite, ConstructorDone, ProcessPosted, React, history
<1>2. Item => UNCHANGED <<files, begun>>
  BY DEF Item, FileItem, RunItem, SubRunItem, EventItem, StopItem, SourceThrows, React, history
<1>3. UNCHANGED vars => UNCHANGED <<files, begun>>
  BY DEF vars, history
<1>4. Respond \/ WriteSubRunCache \/ WriteRunCache => UNCHANGED <<files, begun>>
  BY DEF Respond, WriteSubRunCache, WriteRunCache, history
<1>5. RunStep => BeginRun \/ EndRun \/ UNCHANGED <<files, begun>>
  BY DEF RunStep, ReadAndCacheRun, SetupCurrentRun, BeginRunIfNotDoneAlready, FinalizeRun, WriteRun, ClearCurrentRun, history
<1>6. SubRunStep => BeginSubRun \/ EndSubRun \/ UNCHANGED <<files, begun>>
  BY DEF SubRunStep, ReadAndCacheSubRun, SetupCurrentSubRun, FinalizeAllSubRuns, FinalizeSubRun, ClearCurrentSubRun,
         FinalizeOutstandingSubRuns, NextOutstanding, MarkSubRunNonEmpty, StartSubRun, SubRunStarted, WriteSubRun, history
<1>7. ReadEvent \/ ProcessEvent \/ EndOfLoop \/ DoErrorStuff \/ RewindInput => UNCHANGED <<files, begun>>
  BY DEF ReadEvent, ProcessEvent, EndOfLoop, DoErrorStuff, RewindInput, history
<1> QED
  BY <1>1, <1>2, <1>3, <1>4, <1>5, <1>6, <1>7 DEF Next, MachineStep, FileStep, Done

LEMMA Types ==
  OrderInv => files \in [input : BOOLEAN, output : BOOLEAN] /\ begun \in Ids /\ run \in Runs \cup {NoRun}
  BY DEF OrderInv, TypeInv, DataOK, run, RunFields

LEMMA ProtocolOfReadFile == OrderInv /\ FilesInv /\ ReadFile /\ config' = config => Protocol
<1> SUFFICES ASSUME OrderInv, FilesInv, ReadFile, config' = config PROVE Protocol
  OBVIOUS
<1>1. files \in [input : BOOLEAN, output : BOOLEAN] /\ begun' = begun
  BY Types DEF ReadFile, history
<1>2. ~files.input
  <2>1. NextCall = "readFile"
    BY FileFlows DEF Simple
  <2> QED
    BY <2>1 DEF FilesInv, OpenInv, NotOpenYet
<1>3. files' = files \/ files' = [files EXCEPT !.input = TRUE]
  BY DEF ReadFile
<1>4. files'.output = files.output /\ (files' = files \/ files'.input)
  BY <1>1, <1>3
<1> QED
  BY <1>1, <1>2, <1>4, Quiet DEF Protocol, Contract!Next, Contract!OpenInput, DefersSubRuns

LEMMA ProtocolOfCloseInputFile == OrderInv /\ CloseInputFile /\ config' = config => Protocol
<1> SUFFICES ASSUME OrderInv, CloseInputFile, config' = config PROVE Protocol
  OBVIOUS
<1>1. files \in [input : BOOLEAN, output : BOOLEAN] /\ begun' = begun
  BY Types DEF CloseInputFile, history
<1>2. files' = files \/ files' = [files EXCEPT !.input = FALSE]
  BY DEF CloseInputFile
<1>3. files'.output = files.output /\ (files' = files \/ ~files'.input)
  BY <1>1, <1>2
<1>4. files.input \in BOOLEAN /\ files'.input \in BOOLEAN
  BY <1>1, <1>2
<1>5. ~files.input => files' = files
  BY <1>1, <1>2
<1> QED
  BY <1>1, <1>3, <1>5, Quiet DEF Protocol, Contract!Next, Contract!CloseInput, DefersSubRuns

LEMMA ProtocolOfOpenOutputFiles == OrderInv /\ FilesInv /\ OpenOutputFiles /\ config' = config => Protocol
<1> SUFFICES ASSUME OrderInv, FilesInv, OpenOutputFiles, config' = config PROVE Protocol
  OBVIOUS
<1>1. files \in [input : BOOLEAN, output : BOOLEAN] /\ begun' = begun
  BY Types DEF OpenOutputFiles, history
<1>2. NextCall = "openOutputFiles"
  BY FileFlows DEF Simple
<1>3. ~GoesDown /\ primary = "none" /\ OpensOutput /\ Inside
  <2>1. NextCall \in FileCalls
    BY <1>2 DEF FileCalls
  <2> QED
    BY <1>2, <2>1, FilePlace DEF Inside
<1>4. files.input /\ ~files.output
  BY <1>2, <1>3 DEF FilesInv, OpenInv, InputOpen, NotOpenYet, LeftFiles, OutputGap
<1>5. files' = files \/ files' = [files EXCEPT !.output = TRUE]
  BY DEF OpenOutputFiles
<1>6. files'.input = files.input /\ (files' = files \/ files'.output)
  BY <1>1, <1>5
<1> QED
  BY <1>1, <1>4, <1>6, Quiet DEF Protocol, Contract!Next, Contract!OpenOutput, DefersSubRuns

LEMMA ProtocolOfCloseOutputFiles ==
  OrderInv /\ RunInv /\ SubRunInv /\ CloseOutputFiles /\ config' = config => Protocol
<1> SUFFICES ASSUME OrderInv, RunInv, SubRunInv, CloseOutputFiles, config' = config PROVE Protocol
  OBVIOUS
<1>1. files \in [input : BOOLEAN, output : BOOLEAN] /\ begun' = begun
  BY Types DEF CloseOutputFiles
<1>2. NextCall = "closeOutputFiles"
  BY FileFlows DEF Simple
<1>3. depth = 1
  BY <1>2, FilePlace DEF FileCalls
<1>4. begun.runs = {} /\ begun.subRuns = {}
  BY <1>3, NoneBegunOutside, NoRunOutside DEF RunInv, RunBegun
<1>5. files' = files \/ files' = [files EXCEPT !.output = FALSE]
  BY DEF CloseOutputFiles
<1>6. files'.input = files.input /\ (files' = files \/ (files.output /\ ~files'.output))
  BY <1>1, <1>5
<1> QED
  BY <1>1, <1>4, <1>6, Quiet DEF Protocol, Contract!Next, Contract!CloseOutput, DefersSubRuns

LEMMA ProtocolOfBeginRun ==
  OrderInv /\ RunInv /\ SubRunInv /\ FilesInv /\ BeginRun /\ config' = config => Protocol
<1> SUFFICES ASSUME OrderInv, RunInv, SubRunInv, FilesInv, BeginRun, config' = config PROVE Protocol
  OBVIOUS
<1>1. files' = files /\ begun \in Ids /\ run \in Runs \cup {NoRun}
  BY Types DEF BeginRun
<1>2. NextCall = "beginRun"
  BY RunFlows DEF Simple
<1>3. ~Began /\ depth \in 2..3
  BY <1>2, RunPlaces DEF RunInv, RunCallsFit
<1>4. files.output
  BY <1>3 DEF FilesInv, OpenInv, OutputThere
<1>5. begun.runs = {}
  BY <1>3 DEF RunInv, RunBegun
<1>6. begun.subRuns = {}
  <2>1. IsEmpty
    BY <1>3 DEF RunInv, EventRun
  <2> QED
    BY <1>2, <2>1 DEF SubRunInv, SubRunBegun
<1>7. run # NoRun
  <2>1. phase = "construct" /\ primary = "none"
    BY <1>2, RunPlaces
  <2>2. ~RunBroken
    BY <1>2, <2>1 DEF RunInv, RunBrokenFits
  <2> QED
    BY <1>2, <1>3, <2>1, <2>2 DEF RunInv, RunKnown, RunLeft
<1>8. \/ begun' = begun
      \/ begun' = [begun EXCEPT !.runs = @ \cup ({run} \ FlushRuns)]
  BY DEF BeginRun, run
<1>9. begun'.subRuns = begun.subRuns /\ (begun' = begun \/ begun'.runs = {run} \/ begun'.runs = begun.runs)
  BY <1>1, <1>5, <1>8 DEF Ids
<1> QED
  BY <1>1, <1>4, <1>5, <1>6, <1>7, <1>9 DEF Protocol, Contract!Next, Contract!BeginRun, Contract!vars, DefersSubRuns

LEMMA ProtocolOfEndRun ==
  OrderInv /\ RunInv /\ SubRunInv /\ FilesInv /\ EndRun /\ config' = config => Protocol
<1> SUFFICES ASSUME OrderInv, RunInv, SubRunInv, FilesInv, EndRun, config' = config PROVE Protocol
  OBVIOUS
<1>1. files' = files /\ begun \in Ids /\ run \in Runs \cup {NoRun}
  BY Types DEF EndRun
<1>2. NextCall = "endRun"
  BY RunFlows DEF Simple
<1>3. depth = 2 /\ Began /\ run # NoRun
  BY <1>2, RunPlaces DEF RunEnds, RunInv, RunCallsFit
<1>4. files.output /\ begun.subRuns = {}
  BY <1>3, NoneBegunOutside DEF FilesInv, OpenInv, OutputThere
<1>5. begun.runs = {run} \ FlushRuns
  BY <1>2, <1>3 DEF RunInv, RunBegun
<1>6. begun' = [begun EXCEPT !.runs = @ \ {run}]
  BY DEF EndRun, run
<1>7. begun'.subRuns = begun.subRuns /\ begun'.runs = {}
  BY <1>1, <1>5, <1>6 DEF Ids
<1> QED
  BY <1>1, <1>3, <1>4, <1>5, <1>7 DEF Protocol, Contract!Next, Contract!EndRun, Contract!vars, DefersSubRuns

LEMMA SubjectFits ==
  ASSUME OrderInv, SubRunInv, CacheInv, NextCall \in SubRunBodies
  PROVE  Subject \in SubRunIDs /\ OfRun(Subject)
<1>1. handleSubRuns.iter \in Nat /\ PutOff \in Seq(SubRunIDs \cup {NoSubRun}) /\ subRun \in SubRunIDs \cup {NoSubRun}
  BY DEF OrderInv, TypeInv, DataOK, SubRunFields, PutOff, subRun
<1>2. CASE ~InLoop
  <2>1. Subject = subRun /\ subRun # NoSubRun
    BY <1>2, SubjectIs DEF SubRunInv, SubRunCallsFit
  <2> QED
    BY <1>1, <2>1 DEF CacheInv, HeldInv, SubRunsOfRun
<1>3. CASE InLoop
  <2>1. Turn \in Nat /\ Turn > 0 /\ Turn <= Len(PutOff)
    BY <1>1, <1>3, BodyPlace DEF InLoop, Turn
  <2>2. Turn \in DOMAIN PutOff /\ Subject = PutOff[Turn]
    BY <1>1, <2>1 DEF Subject, PutOff, Turn
  <2>3. PutOff[Turn] \in SubRunIDs \cup {NoSubRun}
    BY <1>1, <2>2
  <2> QED
    BY <2>2, <2>3 DEF CacheInv, HeldInv, SubRunsOfRun
<1> QED
  BY <1>2, <1>3

\* Where a sub-run is begun or ended: the run and the sub-runs begun.
LEMMA BoundsSurrounded ==
  ASSUME OrderInv, RunInv, SubRunInv, CacheInv, FilesInv, BoundsInRun, NextCall \in Bounds, Subject \notin FlushSubRuns
  PROVE  /\ files.output /\ run \in Runs /\ \E n \in SubRunNums : Subject = <<run, n>>
         /\ begun.runs = {run} \/ (DefersSubRuns /\ begun.runs = {})
         /\ begun.subRuns = IF NextCall = "endSubRun" THEN {Subject} ELSE {}
<1>1. NextCall \in SubRunBodies
  BY DEF Bounds, SubRunBodies
<1>2. depth = 3 /\ Broken
  BY <1>1, BodyPlace
<1>3. files.output /\ run \in Runs
  BY <1>2, Types DEF FilesInv, OpenInv, OutputThere, RunInv, RunKnown
<1>4. Subject \in SubRunIDs /\ OfRun(Subject)
  BY <1>1, SubjectFits
<1>5. run \notin FlushRuns
  BY <1>4 DEF OfRun
<1>6. \E n \in SubRunNums : Subject = <<run, n>>
  BY <1>4 DEF OfRun, RunOf, SubRunIDs
<1>7. ~RunBroken
  BY <1>2 DEF RunInv, RunBrokenFits, Bounds
<1>8. begun.runs = IF Began THEN {run} ELSE {}
  BY <1>5, <1>7 DEF RunInv, RunBegun
<1>9. ~Began => DefersSubRuns
  <2>1. ~Began => InLoop
    BY DEF BoundsInRun
  <2>2. InLoop => PutOff # <<>>
    <3>1. handleSubRuns.iter \in Nat /\ Turn <= Len(PutOff)
      BY <1>1, BodyPlace DEF OrderInv, TypeInv, DataOK, SubRunFields
    <3>2. Len(<<>>) = 0
      OBVIOUS
    <3> QED
      BY <3>1, <3>2 DEF InLoop, Turn
  <2> QED
    BY <1>1, <2>1, <2>2, BodyPlace
<1>10. begun.subRuns = IF NextCall = "endSubRun" THEN {Subject} ELSE {}
  BY <1>2 DEF SubRunInv, SubRunBegun, Bounds
<1> QED
  BY <1>3, <1>6, <1>8, <1>9, <1>10

LEMMA ProtocolOfBeginSubRun ==
  OrderInv /\ RunInv /\ SubRunInv /\ CacheInv /\ FilesInv /\ BoundsInRun /\ BeginSubRun /\ config' = config => Protocol
<1> SUFFICES ASSUME OrderInv, RunInv, SubRunInv, CacheInv, FilesInv, BoundsInRun, BeginSubRun, config' = config
             PROVE  Protocol
  OBVIOUS
<1>1. files' = files /\ begun \in Ids
  BY Types DEF BeginSubRun
<1>2. NextCall = "beginSubRun"
  BY SubRunFlows DEF Simple
<1>3. begun' = begun \/ begun' = [begun EXCEPT !.subRuns = @ \cup ({Subject} \ FlushSubRuns)]
  BY DEF BeginSubRun
<1>4. CASE Subject \in FlushSubRuns
  <2>1. begun' = begun
    BY <1>1, <1>3, <1>4 DEF Ids
  <2> QED
    BY <1>1, <2>1, Quiet
<1>5. CASE Subject \notin FlushSubRuns
  <2>1. /\ files.output /\ run \in Runs /\ \E n \in SubRunNums : Subject = <<run, n>>
        /\ begun.runs = {run} \/ (DefersSubRuns /\ begun.runs = {})
        /\ begun.subRuns = {}
    BY <1>2, <1>5, BoundsSurrounded DEF Bounds
  <2>2. begun' = begun \/ (begun'.runs = begun.runs /\ begun'.subRuns = {Subject})
    BY <1>1, <1>3, <1>5, <2>1 DEF Ids
  <2>3. CASE begun' = begun
    BY <1>1, <2>3, Quiet
  <2>4. CASE begun'.runs = begun.runs /\ begun'.subRuns = {Subject}
    <3>1. PICK n \in SubRunNums : Subject = <<run, n>>
      BY <2>1
    <3>2. Contract!BeginSubRun(run, n)
      BY <1>1, <2>1, <2>4, <3>1 DEF Contract!BeginSubRun, DefersSubRuns
    <3> QED
      BY <2>1, <3>1, <3>2 DEF Protocol, Contract!Next
  <2> QED
    BY <2>2, <2>3, <2>4
<1> QED
  BY <1>4, <1>5

LEMMA ProtocolOfEndSubRun ==
  OrderInv /\ RunInv /\ SubRunInv /\ CacheInv /\ FilesInv /\ BoundsInRun /\ EndSubRun /\ config' = config => Protocol
<1> SUFFICES ASSUME OrderInv, RunInv, SubRunInv, CacheInv, FilesInv, BoundsInRun, EndSubRun, config' = config
             PROVE  Protocol
  OBVIOUS
<1>1. files' = files /\ begun \in Ids
  BY Types DEF EndSubRun
<1>2. NextCall = "endSubRun"
  BY SubRunFlows DEF Simple
<1>3. begun' = [begun EXCEPT !.subRuns = @ \ {Subject}]
  BY DEF EndSubRun
<1>4. CASE Subject \in FlushSubRuns
  <2>1. begun.subRuns = {}
    BY <1>2, <1>4 DEF SubRunInv, SubRunBegun
  <2>2. begun' = begun
    BY <1>1, <1>3, <2>1 DEF Ids
  <2> QED
    BY <1>1, <2>2, Quiet
<1>5. CASE Subject \notin FlushSubRuns
  <2>1. /\ files.output /\ run \in Runs /\ \E n \in SubRunNums : Subject = <<run, n>>
        /\ begun.runs = {run} \/ (DefersSubRuns /\ begun.runs = {})
        /\ begun.subRuns = {Subject}
    BY <1>2, <1>5, BoundsSurrounded DEF Bounds
  <2>2. begun'.runs = begun.runs /\ begun'.subRuns = {}
    BY <1>1, <1>3, <2>1 DEF Ids
  <2>3. PICK n \in SubRunNums : Subject = <<run, n>>
    BY <2>1
  <2>4. Contract!EndSubRun(run, n)
    BY <1>1, <2>1, <2>2, <2>3 DEF Contract!EndSubRun, DefersSubRuns
  <2> QED
    BY <2>1, <2>3, <2>4 DEF Protocol, Contract!Next
<1> QED
  BY <1>4, <1>5

LEMMA ProtocolStep ==
  OrderInv /\ RunInv /\ SubRunInv /\ CacheInv /\ FilesInv /\ BoundsInRun /\ [Next]_vars => Protocol
  BY ConfigFixed, OthersQuiet, Quiet, ProtocolOfReadFile, ProtocolOfCloseInputFile, ProtocolOfOpenOutputFiles,
     ProtocolOfCloseOutputFiles, ProtocolOfBeginRun, ProtocolOfEndRun, ProtocolOfBeginSubRun, ProtocolOfEndSubRun

LEMMA ProtocolInit == Init => Contract!Init
  BY DEF Init, Contract!Init, NoneOf, DefersSubRuns

\* Whatever the input, the file mode and the exceptions, the files, the begins
\* and the ends follow the protocol.
THEOREM FollowsProtocol == Spec => ImplementsProtocol
<1>1. Init => BoundsInRun /\ Contract!Init
  BY BoundsInRunInit, ProtocolInit
<1>2. OrderInv /\ OrderInv' /\ RunInv /\ BoundsInRun /\ [Next]_vars => BoundsInRun'
  BY BoundsInRunStep
<1>3. OrderInv /\ RunInv /\ SubRunInv /\ CacheInv /\ FilesInv /\ BoundsInRun /\ [Next]_vars
        => [Contract!Next]_(Contract!vars)
  BY ProtocolStep DEF Protocol
<1> QED
  BY <1>1, <1>2, <1>3, CacheFits, FilesFit, PTL DEF Spec, ImplementsProtocol, Contract!Spec

-----------------------------------------------------------------------------
(* How a loop over the input ends.                                          *)

LEMMA NoneLeft == OrderInv /\ RunInv /\ SubRunInv /\ depth = 0 => begun = NoneOf
<1> SUFFICES ASSUME OrderInv, RunInv, SubRunInv, depth = 0 PROVE begun = NoneOf
  OBVIOUS
<1>1. begun \in Ids /\ begun.subRuns = {}
  BY NoneBegunOutside DEF OrderInv, TypeInv, DataOK
<1>2. begun.runs = {}
  BY NoRunOutside DEF RunInv, RunBegun
<1> QED
  BY <1>1, <1>2 DEF Ids, NoneOf

LEMMA NothingUnwritten == FileInv /\ AllClosed => unwritten = NoneOf
<1> SUFFICES ASSUME FileInv, AllClosed PROVE unwritten = NoneOf
  OBVIOUS
<1>1. unwritten \in Ids /\ unwritten.runs \subseteq {} /\ unwritten.subRuns \subseteq {}
  BY DEF FileInv, TypeInv, DataOK, Conserved, AllClosed
<1> QED
  BY <1>1 DEF Ids, NoneOf

LEMMA EndsClean == OrderInv /\ RunInv /\ SubRunInv /\ FilesInv /\ FileInv => CleanEnd
<1> SUFFICES ASSUME OrderInv, RunInv, SubRunInv, FilesInv, FileInv,
                    phase = "terminated" \/ (Idle /\ leaf = "Starting"), primary = "none", swallowed = {}
             PROVE  /\ depth = 0
                    /\ ~files.input /\ ~files.output
                    /\ cache.runs = {} /\ cache.subRuns = {}
                    /\ begun = NoneOf /\ unwritten = NoneOf
  BY DEF CleanEnd
<1>1. depth = 0 /\ phase # "enter"
  <2>1. ParentDepth("Starting") = 0
    BY DEF ParentDepth, FileLeaves, RunLeaves, SubRunLeaves
  <2> QED
    BY <2>1 DEF OrderInv, Between, Idle
<1>2. AllClosed
  <2>1. "none" \notin FileCalls \cup CacheCalls
    BY DEF FileCalls, CacheCalls, Responses
  <2> QED
    BY <1>1, <2>1 DEF FilesInv, CloseInv, ClosedFits
<1> QED
  BY <1>1, <1>2, NoneLeft, NothingUnwritten DEF AllClosed

LEMMA KeepsFiles == OrderInv /\ FilesInv /\ FileInv => ExceptionKeepsFiles
<1> SUFFICES ASSUME OrderInv, FilesInv, FileInv, phase = "terminated", swallowed = {}, primary \notin FileCalls \cup CacheCalls
             PROVE  ~files.input /\ ~files.output /\ unwritten = NoneOf
  BY DEF ExceptionKeepsFiles
<1>1. depth = 0
  BY DEF OrderInv, Between
<1>2. AllClosed
  BY <1>1 DEF FilesInv, CloseInv, ClosedFits
<1> QED
  BY <1>2, NothingUnwritten DEF AllClosed

LEMMA FileInvHolds == Spec => []FileInv
  BY FileInvInit, FileInvStep, PTL DEF Spec

\* A loop over the input that ends without an exception leaves no file open, no
\* principal cached and nothing begun or unwritten.
THEOREM EndsAreClean == Spec => []CleanEnd
  BY RunsFit, FilesFit, FileInvHolds, EndsClean, PTL

\* An exception of reading or processing, alone, leaves the files closed and all
\* that was read written.
THEOREM ExceptionsKeepFiles == Spec => []ExceptionKeepsFiles
  BY FilesFit, FileInvHolds, KeepsFiles, PTL

-----------------------------------------------------------------------------
(* What has been written and what waits, while nothing has been thrown.     *)

Calm == primary = "none" /\ ~external
Previous == handleRuns.previousRuns

\* HandleRuns is about to end its run or has ended it.
Ending == GoesDown \/ (phase = "action" /\ move.target = "NewRun")
\* HandleFiles is about to close its files for new ones.
ClosesNext == phase = "action" /\ depth = 1 /\ move.target = "NewInputAndOutputFiles"

\* The runs and the sub-runs in the output files that are open.
WrittenRuns ==
  /\ RefusesSplitRuns /\ depth >= 2 => written.runs \subseteq Previous
  /\ config.fileMode = "FULLMERGE" /\ depth >= 2 => written.runs = {}
WrittenSubRuns ==
  /\ ~WritesSubRunsAtEnd /\ depth >= 2 => written.subRuns = {}
  /\ RefusesSplitSubRuns /\ depth >= 2 =>
       \A sr \in written.subRuns :
         \/ RunOf(sr) \in Previous
         \/ depth = 3 /\ sr \in Earlier
         \/ depth = 2 /\ RunOf(sr) = run /\ Ending
WrittenOutside == depth <= 1 => written = NoneOf \/ NextCall \in Closes \/ ClosesNext
Apart ==
  config.fileMode # "NOMERGE" =>
    cache.runs \cap written.runs = {} /\ cache.subRuns \cap written.subRuns = {}
WrittenFits == WrittenRuns /\ WrittenSubRuns /\ WrittenOutside /\ Apart

\* A run is met once in the modes that refuse split runs.
EndsFit ==
  /\ NextCall = "writeRun" => WritesRunsAtEnd
  /\ \A sr \in Earlier : RunOf(sr) = run
  /\ RefusesSplitRuns /\ run # NoRun => run \notin Previous \/ NextCall = "clearCurrentRun"
  /\ NextCall = "clearCurrentRun" /\ WritesRunsAtEnd => run \in Previous

\* In the modes that write a sub-run at its end the cache holds the current
\* sub-run and those put off, and no other.
Waits(sr) ==
  \/ sr = subRun /\ NextCall # "clearCurrentSubRun"
  \/ \E i \in DOMAIN PutOff : sr = PutOff[i] /\ (Turn < i \/ (Turn = i /\ NextCall # "nextOutstanding"))
AllWait == WritesSubRunsAtEnd => \A sr \in cache.subRuns : depth = 3 /\ Waits(sr)
NoneWaits == phase = "exit" /\ depth = 3 /\ NextCall = "none" => subRun = NoSubRun /\ PutOff = <<>>
WaitingFits == AllWait /\ NoneWaits

WrittenInv == WrittenFits /\ EndsFit /\ WaitingFits

LEMMA WrittenInvFrom ==
  ASSUME WrittenRuns', WrittenSubRuns', WrittenOutside', Apart', EndsFit', AllWait', NoneWaits' PROVE WrittenInv'
  BY DEF WrittenInv, WrittenFits, WaitingFits

-----------------------------------------------------------------------------
(* Steps that leave alone what is written and what waits.                   *)

KeepsRuns == run' = run /\ Previous' = Previous
SameWaiting == subRun' = subRun /\ PutOff' = PutOff /\ Turn' = Turn
SameWritten == cache'.runs = cache.runs /\ cache'.subRuns = cache.subRuns /\ written' = written

LEMMA WrittenStays ==
  ASSUME OrderInv, WrittenFits, config' = config, depth' = depth,
         KeepsRuns, Earlier \subseteq Earlier', SameWritten,
         depth = 2 /\ run # NoRun /\ Ending => Ending',
         depth <= 1 /\ (NextCall \in Closes \/ ClosesNext) => NextCall' \in Closes \/ ClosesNext'
  PROVE  WrittenFits'
<1>1. WrittenRuns'
  BY DEF WrittenFits, WrittenRuns, KeepsRuns, SameWritten, RefusesSplitRuns
<1>2. WrittenSubRuns'
  <2>1. \A sr \in written.subRuns : RunOf(sr) # NoRun
    <3>1. written.subRuns \subseteq SubRunIDs
      BY DEF OrderInv, TypeInv, DataOK, Ids
    <3> QED
      BY <3>1, IdAssumption DEF SubRunIDs, RunOf, NoRun
  <2> QED
    BY <2>1 DEF WrittenFits, WrittenSubRuns, KeepsRuns, SameWritten, RefusesSplitSubRuns, WritesSubRunsAtEnd
<1>3. WrittenOutside'
  BY DEF WrittenFits, WrittenOutside, SameWritten
<1>4. Apart'
  BY DEF WrittenFits, Apart, SameWritten
<1> QED
  BY <1>1, <1>2, <1>3, <1>4 DEF WrittenFits

LEMMA EndsStay ==
  ASSUME EndsFit, config' = config, KeepsRuns, Earlier' = Earlier,
         NextCall = "clearCurrentRun" => NextCall' = NextCall,
         NextCall' = "writeRun" => WritesRunsAtEnd,
         NextCall' = "clearCurrentRun" /\ WritesRunsAtEnd => NextCall = "clearCurrentRun"
  PROVE  EndsFit'
<1>1. /\ WritesRunsAtEnd' <=> WritesRunsAtEnd
      /\ RefusesSplitRuns' <=> RefusesSplitRuns
  BY DEF WritesRunsAtEnd, RefusesSplitRuns
<1> QED
  BY <1>1 DEF EndsFit, KeepsRuns

LEMMA WaitingStays ==
  ASSUME OrderInv, WaitingFits, config' = config, depth' = depth, SameWaiting, cache'.subRuns = cache.subRuns,
         NextCall' = "clearCurrentSubRun" => ~WritesSubRunsAtEnd \/ NextCall = NextCall',
         NextCall' = "nextOutstanding" => Turn = 0 \/ ~WritesSubRunsAtEnd \/ NextCall = NextCall',
         phase' = "exit" /\ depth = 3 /\ NextCall' = "none" => phase = "exit" /\ NextCall = "none"
  PROVE  WaitingFits'
<1>1. AllWait'
  <2>1. SUFFICES ASSUME WritesSubRunsAtEnd, NEW sr \in cache.subRuns PROVE depth = 3 /\ Waits(sr)'
    BY DEF AllWait, WritesSubRunsAtEnd
  <2>2. depth = 3 /\ Waits(sr)
    BY <2>1 DEF WaitingFits, AllWait
  <2>3. \A i \in DOMAIN PutOff : i # 0
    <3>1. PutOff \in Seq(SubRunIDs \cup {NoSubRun})
      BY DEF OrderInv, TypeInv, DataOK, SubRunFields, PutOff
    <3> QED
      BY <3>1
  <2> QED
    BY <2>1, <2>2, <2>3 DEF Waits, SameWaiting
<1>2. NoneWaits'
  BY DEF WaitingFits, NoneWaits, SameWaiting
<1> QED
  BY <1>1, <1>2 DEF WaitingFits

-----------------------------------------------------------------------------
(* Statements that return.                                                  *)

LEMMA NoFail == ASSUME OrderInv, Fails, NextCall # "none", Calm' PROVE FALSE
<1>1. phase = "destroy" => primary # "none" \/ external
  BY DEF OrderInv, Between
<1> QED
  BY <1>1 DEF Fails, Calm

LEMMA CalmGoes ==
  ASSUME OrderInv, Calm', NEW call, NEW next, Simple(call, next), call # "none", Returns \/ Throws
  PROVE  NextCall = call /\ ~Throws /\ Returns /\ Goes(next)
  BY NoFail DEF Simple

\* A statement that changes flags only.
Sames == KeepsRuns /\ SameWaiting /\ SameWritten /\ Earlier' = Earlier
Rising(next) ==
  /\ NextCall # "clearCurrentRun"
  /\ next = "writeRun" => WritesRunsAtEnd
  /\ next = "clearCurrentRun" => ~WritesRunsAtEnd
  /\ next = "clearCurrentSubRun" => ~WritesSubRunsAtEnd
  /\ next = "nextOutstanding" => Turn = 0 \/ ~WritesSubRunsAtEnd
  /\ next = "none" => ~(phase = "exit" /\ depth = 3)
  /\ NextCall \in Closes => next \in Closes

LEMMA GoesEnds == ASSUME EndsFit, NEW next, Goes(next), Rising(next), KeepsRuns, Earlier' = Earlier PROVE EndsFit'
  BY EndsStay DEF Goes, Rising

LEMMA GoesWaiting ==
  ASSUME OrderInv, WaitingFits, NEW next, Goes(next), Rising(next), SameWaiting, cache'.subRuns = cache.subRuns
  PROVE  WaitingFits'
  BY WaitingStays DEF Goes, Rising

LEMMA GoesWritten ==
  ASSUME OrderInv, WrittenFits, NEW next, Goes(next), NextCall \in Closes => next \in Closes,
         KeepsRuns, Earlier \subseteq Earlier', SameWritten
  PROVE  WrittenFits'
<1>1. Ending' <=> Ending
  BY DEF Goes, Ending, GoesDown
<1>2. ClosesNext' <=> ClosesNext
  BY DEF Goes, ClosesNext
<1> QED
  BY <1>1, <1>2, WrittenStays DEF Goes

LEMMA GoesOn == ASSUME OrderInv, WrittenInv, NEW next, Goes(next), Rising(next), Sames PROVE WrittenInv'
<1>1. WrittenFits /\ EndsFit /\ WaitingFits
  BY DEF WrittenInv
<1>2. /\ KeepsRuns /\ SameWaiting /\ SameWritten /\ Earlier' = Earlier /\ Earlier \subseteq Earlier'
      /\ cache'.subRuns = cache.subRuns
  BY DEF Sames, SameWritten
<1>3. NextCall \in Closes => next \in Closes
  BY DEF Rising
<1>4. EndsFit'
  BY <1>1, <1>2, GoesEnds
<1>5. WaitingFits'
  BY <1>1, <1>2, GoesWaiting
<1>6. WrittenFits'
  BY <1>1, <1>2, <1>3, GoesWritten
<1> QED
  BY <1>4, <1>5, <1>6 DEF WrittenInv

LEMMA FlagsSame ==
  ASSUME handleRuns' = handleRuns, handleSubRuns' = handleSubRuns
  PROVE  KeepsRuns /\ SameWaiting /\ Earlier' = Earlier
  BY DEF KeepsRuns, SameWaiting, run, Previous, subRun, PutOff, Turn, Earlier

\* A statement about files that does not write.
LEMMA FileGoesOn ==
  ASSUME OrderInv, WrittenInv, NextCall \in FileCalls, NEW next, Goes(next),
         next \in FileCalls \cup {"none"}, NextCall \in Closes => next \in Closes,
         objects' = objects, cache' = cache, written' = written
  PROVE  WrittenInv'
<1>1. NextCall # "clearCurrentRun" /\ (GoesDown => depth = 1) /\ depth \in 0..3
  BY FilePlace DEF FileCalls, Responses
<1>2. next \notin {"writeRun", "clearCurrentRun", "clearCurrentSubRun", "nextOutstanding"}
  BY DEF FileCalls, Responses
<1>3. Rising(next)
  BY <1>1, <1>2 DEF Rising, GoesDown
<1>4. Sames
  BY FlagsSame DEF Sames, SameWritten, objects
<1> QED
  BY <1>3, <1>4, GoesOn

LEMMA OpensWritten ==
  OrderInv /\ WrittenInv /\ Calm' /\ (ReadFile \/ CloseInputFile \/ OpenOutputFiles \/ Respond) => WrittenInv'
<1> SUFFICES ASSUME OrderInv, WrittenInv, Calm', ReadFile \/ CloseInputFile \/ OpenOutputFiles \/ Respond PROVE WrittenInv'
  OBVIOUS
<1>1. objects' = objects /\ cache' = cache /\ written' = written
  BY DEF ReadFile, CloseInputFile, OpenOutputFiles, Respond, history
<1>2. CASE ReadFile
  <2>1. NextCall = "readFile" /\ Goes("respondToOpenInputFile")
    BY <1>2, FileFlows, CalmGoes DEF ReadFile
  <2> QED
    BY <1>1, <2>1, FileGoesOn DEF FileCalls, Responses, Closes
<1>3. CASE CloseInputFile
  <2>1. NextCall = "closeInputFile" /\ Goes(IF phase = "construct" THEN "readFile" ELSE "none")
    BY <1>3, FileFlows, CalmGoes DEF CloseInputFile
  <2>2. PICK next \in {"readFile", "none"} : Goes(next)
    BY <2>1
  <2> QED
    BY <1>1, <2>1, <2>2, FileGoesOn DEF FileCalls, Closes
<1>4. CASE OpenOutputFiles
  <2>1. NextCall = "openOutputFiles" /\ Goes("respondToOpenOutputFiles")
    BY <1>4, FileFlows, CalmGoes DEF OpenOutputFiles
  <2> QED
    BY <1>1, <2>1, FileGoesOn DEF FileCalls, Responses, Closes
<1>5. CASE Respond
  <2>1. NextCall \in Responses /\ Returns
    <3>1. NextCall \in Responses /\ (Throws => Fails) /\ (Returns \/ Throws)
      BY <1>5, RespondFlow DEF Respond
    <3> QED
      BY <3>1, NoFail DEF Responses
  <2>2. PICK next : /\ Goes(next)
                    /\ next \in {"none", "openOutputFiles", "closeOutputFiles", "closeInputFile"}
                    /\ NextCall = "respondToCloseOutputFiles" => next = "closeOutputFiles"
    BY <1>5, <2>1, RespondFlow
  <2>3. next \in FileCalls \cup {"none"} /\ (NextCall \in Closes => next \in Closes) /\ NextCall \in FileCalls
    BY <2>1, <2>2 DEF FileCalls, Responses, Closes
  <2> QED
    BY <1>1, <2>2, <2>3, FileGoesOn
<1> QED
  BY <1>2, <1>3, <1>4, <1>5

LEMMA OutsideEnds ==
  ASSUME OrderInv, WrittenInv, depth = 1, depth' = depth, config' = config, objects' = objects,
         cache'.subRuns \subseteq cache.subRuns,
         NextCall' \in Closes \cup {"respondToCloseInputFile"}, NextCall \in Closes
  PROVE  EndsFit' /\ AllWait' /\ NoneWaits' /\ WrittenRuns' /\ WrittenSubRuns'
<1>1. KeepsRuns /\ SameWaiting /\ Earlier' = Earlier
  BY FlagsSame DEF objects
<1>2. EndsFit'
  BY <1>1, EndsStay DEF WrittenInv, Closes
<1>3. AllWait'
  BY DEF WrittenInv, WaitingFits, AllWait, WritesSubRunsAtEnd
<1> QED
  BY <1>2, <1>3 DEF NoneWaits, WrittenRuns, WrittenSubRuns

LEMMA ClosesWritten ==
  OrderInv /\ WrittenInv /\ Calm' /\ (WriteSubRunCache \/ WriteRunCache \/ CloseOutputFiles) => WrittenInv'
<1> SUFFICES ASSUME OrderInv, WrittenInv, Calm', WriteSubRunCache \/ WriteRunCache \/ CloseOutputFiles PROVE WrittenInv'
  OBVIOUS
<1>1. objects' = objects /\ cache \in Cache /\ written \in Ids
  BY DEF WriteSubRunCache, WriteRunCache, CloseOutputFiles, OrderInv, TypeInv, DataOK
<1>2. NextCall \in {"writeSubRunCache", "writeRunCache", "closeOutputFiles"}
  BY FileFlows, CacheFlows DEF Simple
<1>3. depth = 1 /\ NextCall \in Closes
  BY <1>2, FilePlace DEF CacheCalls, FileCalls, Closes
<1>4. CASE CloseOutputFiles
  <2>1. NextCall = "closeOutputFiles" /\ ~Throws /\ Goes("respondToCloseInputFile")
    BY <1>4, FileFlows, CalmGoes DEF CloseOutputFiles
  <2>2. cache' = cache /\ written' = NoneOf /\ NextCall' = "respondToCloseInputFile" /\ UNCHANGED <<config, depth>>
    BY <1>4, <2>1 DEF CloseOutputFiles, Goes
  <2>3. WrittenOutside' /\ Apart'
    BY <2>2 DEF WrittenOutside, Apart, NoneOf
  <2> QED
    BY <1>1, <1>3, <2>2, <2>3, OutsideEnds, WrittenInvFrom
<1>5. CASE WriteSubRunCache \/ WriteRunCache
  <2>1. \/ NextCall' \in Closes /\ UNCHANGED <<config, depth, cache, written>>
        \/ /\ NextCall' = NextCall /\ UNCHANGED <<config, depth>>
           /\ (\E sr \in cache.subRuns : WritesSubRun(sr)) \/ (\E r \in cache.runs : WritesRun(r))
    <3>1. Simple("writeSubRunCache", "writeRunCache") \/ Simple("writeRunCache", "respondToCloseOutputFiles")
      BY <1>5, CacheFlows
    <3>2. Returns \/ Throws => NextCall' \in Closes /\ UNCHANGED <<config, depth>>
      BY <3>1, CalmGoes DEF Goes, Closes
    <3>3. Returns \/ Throws => ~Throws
      BY <3>1, CalmGoes
    <3>4. UNCHANGED <<config, phase, depth, leaf, move, todo, source, failure>>
            => NextCall' = NextCall /\ UNCHANGED <<config, depth>>
      BY DEF NextCall
    <3> QED
      BY <1>5, <3>2, <3>3, <3>4 DEF WriteSubRunCache, WriteRunCache
  <2>2. cache'.subRuns \subseteq cache.subRuns /\ NextCall' \in Closes /\ UNCHANGED <<config, depth>>
    BY <1>1, <1>3, <2>1 DEF WritesSubRun, WritesRun, DeleteSubRun, DeleteRun, Cache
  <2>3. WrittenOutside'
    BY <2>2 DEF WrittenOutside
  <2>4. Apart'
    <3>1. \/ UNCHANGED <<cache, written>>
          \/ \E sr : /\ cache'.subRuns = cache.subRuns \ {sr} /\ cache'.runs = cache.runs
                     /\ written'.subRuns \subseteq written.subRuns \cup {sr} /\ written'.runs = written.runs
          \/ \E r : /\ cache'.runs = cache.runs \ {r} /\ cache'.subRuns = cache.subRuns
                    /\ written'.runs \subseteq written.runs \cup {r} /\ written'.subRuns = written.subRuns
      BY <1>1, <2>1 DEF WritesSubRun, WritesRun, DeleteSubRun, DeleteRun, Cache, Ids
    <3> QED
      BY <2>2, <3>1 DEF WrittenInv, WrittenFits, Apart
  <2> QED
    BY <1>1, <1>3, <2>2, <2>3, <2>4, OutsideEnds, WrittenInvFrom
<1> QED
  BY <1>4, <1>5

-----------------------------------------------------------------------------
(* The statements about runs, and what is written.                          *)

LEMMA ReadAndCacheRunWrites == OrderInv /\ RunInv /\ WrittenInv /\ Calm' /\ ReadAndCacheRun => WrittenInv'
<1> SUFFICES ASSUME OrderInv, RunInv, WrittenInv, Calm', ReadAndCacheRun PROVE WrittenInv'
  OBVIOUS
<1>1. NextCall = "readAndCacheRun" /\ ~Throws /\ Goes("none")
  BY RunFlows, CalmGoes DEF ReadAndCacheRun
<1>2. CachesRun /\ objects' = objects /\ written' = written /\ cache \in Cache
  BY <1>1 DEF ReadAndCacheRun, OrderInv, TypeInv, DataOK
<1>3. /\ phase = "construct" /\ leaf \in {"ContinueRun1", "ContinueRun2"} /\ depth \in 2..3 /\ leaf = move.target
      /\ primary = "none"
  BY <1>1, RunPlaces
<1>4. run # NoRun
  <2>1. ~RunBroken
    BY <1>1, <1>3 DEF RunInv, RunBrokenFits
  <2> QED
    BY <1>1, <1>3, <2>1 DEF RunInv, RunKnown, RunLeft, GoesDown
<1>5. source.run = run /\ run \in cache.runs
  BY <1>1, <1>3, <1>4 DEF RunInv, RunOffered, RunCached
<1>6. cache'.runs = cache.runs /\ cache'.subRuns = cache.subRuns
  BY <1>2, <1>5 DEF CachesRun, InsertRun, Cache
<1>7. Sames
  BY <1>2, <1>6, FlagsSame DEF Sames, SameWritten, objects
<1>8. Rising("none")
  BY <1>1, <1>3 DEF Rising, Closes
<1> QED
  BY <1>1, <1>7, <1>8, GoesOn

\* Outside HandleSubRuns nothing waits.
LEMMA WaitingOutside ==
  ASSUME WaitingFits, depth = 2, depth' = 2, config' = config, cache'.subRuns = cache.subRuns PROVE WaitingFits'
  BY DEF WaitingFits, AllWait, NoneWaits, WritesSubRunsAtEnd

LEMMA NoEarlier == OrderInv /\ depth < 3 => Earlier = {}
  BY DEF OrderInv, LoopFits, NewHandleSubRuns, Earlier

LEMMA SetupCurrentRunWrites == OrderInv /\ RunInv /\ WrittenInv /\ Calm' /\ SetupCurrentRun => WrittenInv'
<1> SUFFICES ASSUME OrderInv, RunInv, WrittenInv, Calm', SetupCurrentRun PROVE WrittenInv'
  OBVIOUS
<1>1. NextCall = "setupCurrentRun" /\ ~Throws
  <2>1. NextCall = "setupCurrentRun" /\ (Throws => Fails)
    BY SetupCurrentRunFlow
  <2> QED
    BY <2>1, NoFail
<1>2. /\ CachesRun /\ Expands(IF config.handleEmptyRuns THEN <<"beginRun">> ELSE <<>>)
      /\ ~(RefusesSplitRuns /\ source.run \in Previous)
      /\ handleRuns' = [handleRuns EXCEPT !.currentRun = source.run, !.runException = FALSE]
      /\ handleSubRuns' = handleSubRuns /\ written' = written
      /\ cache \in Cache /\ handleRuns \in RunFields
  BY <1>1 DEF SetupCurrentRun, Previous, OrderInv, TypeInv, DataOK
<1>3. PICK next \in {"beginRun", "none"} : Goes(next)
  BY <1>2, SetupCurrentRunFlow
<1>4. /\ phase = "construct" /\ leaf = "NewRun" /\ depth = 2 /\ move.target = "NewRun"
      /\ depth' = 2 /\ config' = config /\ NextCall' = next /\ phase' = "construct"
  BY <1>1, <1>3, RunPlaces DEF Goes
<1>5. run' = source.run /\ Previous' = Previous /\ Earlier' = Earlier /\ Earlier = {}
  BY <1>2, <1>4, NoEarlier DEF run, Previous, RunFields, Earlier
<1>6. cache'.runs = cache.runs \cup {source.run} /\ cache'.subRuns = cache.subRuns
  BY <1>2 DEF CachesRun, InsertRun, Cache
<1>7. WrittenRuns' /\ WrittenSubRuns' /\ WrittenOutside'
  BY <1>2, <1>4, <1>5 DEF WrittenInv, WrittenFits, WrittenRuns, WrittenSubRuns, WrittenOutside, Ending, GoesDown,
                          RefusesSplitRuns, RefusesSplitSubRuns, WritesSubRunsAtEnd
<1>8. Apart'
  <2>1. config.fileMode \in FileModes
    BY MachineAssumption DEF OrderInv, TypeInv, Control, ControlOK, DataOK
  <2>2. config.fileMode # "NOMERGE" => source.run \notin written.runs
    BY <1>2, <1>4, <2>1 DEF FileModes, WrittenInv, WrittenFits, WrittenRuns, RefusesSplitRuns
  <2> QED
    BY <1>2, <1>4, <1>6, <2>2 DEF WrittenInv, WrittenFits, Apart
<1>9. EndsFit'
  BY <1>2, <1>4, <1>5 DEF EndsFit, RefusesSplitRuns
<1>10. WaitingFits'
  BY <1>4, <1>6, WaitingOutside DEF WrittenInv
<1> QED
  BY <1>7, <1>8, <1>9, <1>10 DEF WrittenInv, WrittenFits

LEMMA RunFlagsWrite ==
  OrderInv /\ WrittenInv /\ Calm' /\ (BeginRunIfNotDoneAlready \/ BeginRun \/ FinalizeRun \/ EndRun) => WrittenInv'
<1> SUFFICES ASSUME OrderInv, WrittenInv, Calm', BeginRunIfNotDoneAlready \/ BeginRun \/ FinalizeRun \/ EndRun
             PROVE  WrittenInv'
  OBVIOUS
<1>1. handleSubRuns' = handleSubRuns /\ cache' = cache /\ written' = written /\ handleRuns \in RunFields
  BY DEF BeginRunIfNotDoneAlready, BeginRun, FinalizeRun, EndRun, objects, history, OrderInv, TypeInv, DataOK
<1>2. KeepsRuns
  BY <1>1 DEF BeginRunIfNotDoneAlready, BeginRun, FinalizeRun, EndRun, objects, KeepsRuns, run, Previous, RunFields
<1>3. Sames
  BY <1>1, <1>2 DEF Sames, SameWritten, SameWaiting, subRun, PutOff, Turn, Earlier
<1>4. PICK next : /\ Goes(next) /\ NextCall \in {"beginRunIfNotDoneAlready", "beginRun", "finalizeRun", "endRun"}
                  /\ next \in {"markSubRunNonEmpty", "beginRun", "none", "endRun", "writeRun", "clearCurrentRun"}
                  /\ next = "writeRun" => WritesRunsAtEnd
                  /\ next = "clearCurrentRun" => ~WritesRunsAtEnd
  <2>1. CASE BeginRunIfNotDoneAlready
    BY <2>1, BeginRunIfNotFlow
  <2>2. CASE BeginRun
    BY <2>2, RunFlows, CalmGoes DEF BeginRun
  <2>3. CASE FinalizeRun
    BY <2>3, FinalizeRunFlow
  <2>4. CASE EndRun
    BY <2>4, RunFlows, CalmGoes DEF EndRun
  <2> QED
    BY <2>1, <2>2, <2>3, <2>4
<1>5. Rising(next)
  <2>1. next = "none" => ~(phase = "exit" /\ depth = 3)
    BY <1>4, RunPlaces DEF RunEnds
  <2> QED
    BY <1>4, <2>1 DEF Rising, Closes
<1> QED
  BY <1>3, <1>4, <1>5, GoesOn

LEMMA WriteRunWrites == OrderInv /\ RunInv /\ WrittenInv /\ Calm' /\ WriteRun => WrittenInv'
<1> SUFFICES ASSUME OrderInv, RunInv, WrittenInv, Calm', WriteRun PROVE WrittenInv'
  OBVIOUS
<1>1. NextCall = "writeRun" /\ ~Throws /\ Goes("clearCurrentRun")
  BY RunFlows, CalmGoes DEF WriteRun
<1>2. /\ WritesRun(run) /\ handleSubRuns' = handleSubRuns
      /\ handleRuns' = [handleRuns EXCEPT !.previousRuns = @ \cup {run}]
      /\ cache \in Cache /\ written \in Ids /\ handleRuns \in RunFields
  BY <1>1 DEF WriteRun, run, OrderInv, TypeInv, DataOK
<1>3. run' = run /\ Previous' = Previous \cup {run} /\ SameWaiting /\ Earlier' = Earlier
  BY <1>2 DEF run, Previous, SameWaiting, subRun, PutOff, Turn, Earlier, RunFields
<1>4. /\ cache'.runs = cache.runs \ {run} /\ cache'.subRuns = cache.subRuns
      /\ written'.runs \subseteq written.runs \cup {run} /\ written'.subRuns = written.subRuns
  BY <1>2 DEF WritesRun, DeleteRun, Cache, Ids
<1>5. depth = 2 /\ depth' = 2 /\ config' = config /\ NextCall' = "clearCurrentRun" /\ (Ending' <=> Ending)
  BY <1>1, RunPlaces DEF RunEnds, Goes, Ending, GoesDown
<1>6. WritesRunsAtEnd
  BY <1>1 DEF WrittenInv, EndsFit
<1>7. WrittenRuns'
  BY <1>3, <1>4, <1>5, <1>6 DEF WrittenInv, WrittenFits, WrittenRuns, RefusesSplitRuns, WritesRunsAtEnd
<1>8. WrittenSubRuns'
  BY <1>3, <1>4, <1>5 DEF WrittenInv, WrittenFits, WrittenSubRuns, RefusesSplitSubRuns, WritesSubRunsAtEnd
<1>9. WrittenOutside'
  BY <1>5 DEF WrittenOutside
<1>10. Apart'
  BY <1>4, <1>5 DEF WrittenInv, WrittenFits, Apart
<1>11. EndsFit'
  BY <1>3, <1>5 DEF WrittenInv, EndsFit
<1>12. WaitingFits'
  BY <1>4, <1>5, WaitingOutside DEF WrittenInv
<1> QED
  BY <1>7, <1>8, <1>9, <1>10, <1>11, <1>12 DEF WrittenInv, WrittenFits

LEMMA ClearCurrentRunWrites == OrderInv /\ WrittenInv /\ Calm' /\ ClearCurrentRun => WrittenInv'
<1> SUFFICES ASSUME OrderInv, WrittenInv, Calm', ClearCurrentRun PROVE WrittenInv'
  OBVIOUS
<1>1. NextCall = "clearCurrentRun" /\ Goes("none")
  BY RunFlows, CalmGoes DEF ClearCurrentRun
<1>2. /\ handleSubRuns' = handleSubRuns /\ cache' = cache /\ written' = written
      /\ handleRuns' = [handleRuns EXCEPT !.currentRun = NoRun, !.runException = FALSE]
      /\ handleRuns \in RunFields
  BY DEF ClearCurrentRun, history, OrderInv, TypeInv, DataOK
<1>3. run' = NoRun /\ Previous' = Previous /\ Earlier' = Earlier
  BY <1>2 DEF run, Previous, Earlier, RunFields
<1>4. depth = 2 /\ depth' = 2 /\ config' = config /\ NextCall' = "none" /\ (Ending' <=> Ending)
  BY <1>1, RunPlaces DEF RunEnds, Goes, Ending, GoesDown
<1>5. Earlier = {}
  BY <1>4, NoEarlier
<1>6. WrittenRuns' /\ WrittenOutside' /\ Apart'
  BY <1>2, <1>3, <1>4 DEF WrittenInv, WrittenFits, WrittenRuns, WrittenOutside, Apart, RefusesSplitRuns
<1>7. WrittenSubRuns'
  <2>1. RefusesSplitSubRuns => run \in Previous
    BY <1>1 DEF WrittenInv, EndsFit, RefusesSplitSubRuns, WritesRunsAtEnd
  <2> QED
    BY <1>2, <1>3, <1>4, <2>1 DEF WrittenInv, WrittenFits, WrittenSubRuns, RefusesSplitSubRuns, WritesSubRunsAtEnd
<1>8. EndsFit'
  BY <1>3, <1>4, <1>5 DEF EndsFit
<1>9. WaitingFits'
  BY <1>2, <1>4, WaitingOutside DEF WrittenInv
<1> QED
  BY <1>6, <1>7, <1>8, <1>9 DEF WrittenInv, WrittenFits

-----------------------------------------------------------------------------
(* The statements about sub-runs, and what is written.                      *)

LEMMA ReadAndCacheSubRunWrites ==
  OrderInv /\ SubRunInv /\ CacheInv /\ WrittenInv /\ Calm' /\ ReadAndCacheSubRun => WrittenInv'
<1> SUFFICES ASSUME OrderInv, SubRunInv, CacheInv, WrittenInv, Calm', ReadAndCacheSubRun PROVE WrittenInv'
  OBVIOUS
<1>1. NextCall = "readAndCacheSubRun" /\ ~Throws /\ Goes("none")
  BY SubRunFlows, CalmGoes DEF ReadAndCacheSubRun
<1>2. CachesSubRun /\ objects' = objects /\ written' = written /\ cache \in Cache
  BY <1>1 DEF ReadAndCacheSubRun, OrderInv, TypeInv, DataOK
<1>3. phase = "construct" /\ leaf = "ContinueSubRun" /\ leaf = move.target /\ depth = 3
  <2>1. ParentDepth("ContinueSubRun") = 3
    BY DEF ParentDepth, FileLeaves, RunLeaves, SubRunLeaves
  <2> QED
    BY <1>1, <2>1 DEF OrderInv, InPlace, Between, Constructs
<1>4. subRun # NoSubRun /\ source.subRun = subRun
  BY <1>1, <1>3 DEF SubRunInv, SubRunKnown, CacheInv, SubRunOffered
<1>5. /\ cache'.runs = cache.runs /\ cache'.subRuns = cache.subRuns \cup {subRun}
      /\ config.fileMode # "NOMERGE" => cache'.subRuns = cache.subRuns
  <2>1. config.fileMode # "NOMERGE" => subRun \in cache.subRuns
    BY <1>1, <1>4 DEF CacheInv, HeldInv, SubRunCached, MayEraseTooEarly
  <2> QED
    BY <1>2, <1>4, <2>1 DEF CachesSubRun, InsertSubRun, Cache
<1>6. KeepsRuns /\ SameWaiting /\ Earlier' = Earlier /\ Earlier \subseteq Earlier'
  BY <1>2, FlagsSame DEF objects
<1>7. NextCall' = "none" /\ config' = config /\ depth' = 3 /\ phase' = "construct"
  BY <1>1, <1>3 DEF Goes
<1>8. WrittenRuns' /\ WrittenSubRuns' /\ WrittenOutside' /\ Apart'
  BY <1>2, <1>3, <1>5, <1>6, <1>7 DEF WrittenInv, WrittenFits, WrittenRuns, WrittenSubRuns, WrittenOutside, Apart, KeepsRuns,
     RefusesSplitRuns, RefusesSplitSubRuns, WritesSubRunsAtEnd
<1>9. EndsFit'
  BY <1>1, <1>6, <1>7, EndsStay DEF WrittenInv
<1>10. AllWait'
  <2>1. SUFFICES ASSUME WritesSubRunsAtEnd, NEW sr \in cache'.subRuns PROVE Waits(sr)'
    BY <1>7 DEF AllWait, WritesSubRunsAtEnd
  <2>2. sr = subRun \/ Waits(sr)
    BY <1>5, <2>1 DEF WrittenInv, WaitingFits, AllWait
  <2> QED
    BY <1>6, <1>7, <2>2 DEF Waits, SameWaiting
<1>11. NoneWaits'
  BY <1>7 DEF NoneWaits
<1> QED
  BY <1>8, <1>9, <1>10, <1>11 DEF WrittenInv, WrittenFits, WaitingFits

LEMMA SetupCurrentSubRunWrites ==
  OrderInv /\ RunInv /\ SubRunInv /\ CacheInv /\ WrittenInv /\ Calm' /\ SetupCurrentSubRun => WrittenInv'
<1> SUFFICES ASSUME OrderInv, RunInv, SubRunInv, CacheInv, WrittenInv, Calm', SetupCurrentSubRun PROVE WrittenInv'
  OBVIOUS
<1>1. NextCall = "setupCurrentSubRun" /\ ~Throws /\ Goes("none")
  BY SubRunFlows, CalmGoes DEF SetupCurrentSubRun
<1>2. /\ CachesSubRun /\ ~(RefusesSplitSubRuns /\ source.subRun \in Earlier)
      /\ handleSubRuns' = AcceptedSubRun(source.subRun) /\ handleRuns' = handleRuns /\ written' = written
      /\ cache \in Cache /\ handleSubRuns \in SubRunFields
  BY <1>1 DEF SetupCurrentSubRun, Earlier, OrderInv, TypeInv, DataOK
<1>3. /\ phase = "construct" /\ leaf \in {"FirstSubRun", "AnotherSubRun"} /\ leaf = move.target /\ depth = 3
      /\ primary = "none" /\ ~InLoop
  BY <1>1, SubRunPlaces DEF SubRunCalls, SubRunBodies
<1>4. subRun = NoSubRun /\ Turn = 0 /\ RunOf(source.subRun) = run /\ run # NoRun
  <2>1. Turn = 0
    BY <1>2, <1>3 DEF InLoop, Turn, SubRunFields
  <2>2. run # NoRun /\ source.run = run
    BY <1>3 DEF RunInv, RunKnown, RunOffered
  <2> QED
    BY <1>1, <1>3, <2>1, <2>2 DEF SubRunInv, SubRunKnown, CacheInv, SubRunOffered
<1>5. subRun' = source.subRun /\ PutOff' = PutOff /\ Turn' = Turn /\ Earlier' = Earlier /\ KeepsRuns
  BY <1>2 DEF AcceptedSubRun, subRun, PutOff, Turn, Earlier, SubRunFields, KeepsRuns, run, Previous
<1>6. cache'.runs = cache.runs /\ cache'.subRuns = cache.subRuns \cup {source.subRun}
  BY <1>2 DEF CachesSubRun, InsertSubRun, Cache
<1>7. NextCall' = "none" /\ config' = config /\ depth' = 3 /\ phase' = "construct"
  BY <1>1, <1>3 DEF Goes
<1>8. WrittenRuns' /\ WrittenSubRuns' /\ WrittenOutside'
  BY <1>2, <1>3, <1>5, <1>7 DEF WrittenInv, WrittenFits, WrittenRuns, WrittenSubRuns, WrittenOutside, KeepsRuns,
     RefusesSplitRuns, RefusesSplitSubRuns, WritesSubRunsAtEnd
<1>9. Apart'
  <2>1. config.fileMode \in FileModes
    BY MachineAssumption DEF OrderInv, TypeInv, Control, ControlOK, DataOK
  <2>2. config.fileMode \in {"FULLMERGE", "FULLLUMIMERGE"} => written.subRuns = {}
    BY <1>3 DEF WrittenInv, WrittenFits, WrittenSubRuns, WritesSubRunsAtEnd
  <2>3. config.fileMode = "MERGE" => source.subRun \notin written.subRuns
    <3>1. config.fileMode = "MERGE" => run \notin Previous
      BY <1>1, <1>4 DEF WrittenInv, EndsFit, RefusesSplitRuns
    <3> QED
      BY <1>2, <1>3, <1>4, <3>1 DEF WrittenInv, WrittenFits, WrittenSubRuns, RefusesSplitSubRuns
  <2>4. config.fileMode # "NOMERGE" => source.subRun \notin written.subRuns
    BY <2>1, <2>2, <2>3 DEF FileModes
  <2> QED
    BY <1>2, <1>6, <1>7, <2>4 DEF WrittenInv, WrittenFits, Apart
<1>10. EndsFit'
  BY <1>1, <1>5, <1>7, EndsStay DEF WrittenInv
<1>11. AllWait'
  <2>1. SUFFICES ASSUME WritesSubRunsAtEnd, NEW sr \in cache'.subRuns PROVE Waits(sr)'
    BY <1>7 DEF AllWait, WritesSubRunsAtEnd
  <2>2. sr = source.subRun \/ Waits(sr)
    BY <1>6, <2>1 DEF WrittenInv, WaitingFits, AllWait
  <2>3. cache.subRuns \subseteq SubRunIDs /\ NoSubRun \notin SubRunIDs
    BY <1>2, IdAssumption DEF Cache, SubRunIDs, NoSubRun
  <2>4. sr = source.subRun \/ \E i \in DOMAIN PutOff : sr = PutOff[i] /\ (Turn < i \/ Turn = i)
    BY <1>4, <1>6, <2>1, <2>2, <2>3 DEF Waits
  <2> QED
    BY <1>5, <1>7, <2>4 DEF Waits
<1>12. NoneWaits'
  BY <1>7 DEF NoneWaits
<1> QED
  BY <1>8, <1>9, <1>10, <1>11, <1>12 DEF WrittenInv, WrittenFits, WaitingFits

LEMMA SubRunFlagsWrite ==
  OrderInv /\ RunInv /\ SubRunInv /\ WrittenInv /\ Calm'
    /\ (FinalizeAllSubRuns \/ FinalizeOutstandingSubRuns \/ MarkSubRunNonEmpty \/ StartSubRun \/ SubRunStarted
        \/ BeginSubRun \/ EndSubRun)
    => WrittenInv'
<1> SUFFICES ASSUME OrderInv, RunInv, SubRunInv, WrittenInv, Calm',
                    FinalizeAllSubRuns \/ FinalizeOutstandingSubRuns \/ MarkSubRunNonEmpty \/ StartSubRun \/ SubRunStarted
                    \/ BeginSubRun \/ EndSubRun
             PROVE  WrittenInv'
  OBVIOUS
<1>1. handleRuns' = handleRuns /\ cache' = cache /\ written' = written /\ handleSubRuns \in SubRunFields
  BY DEF FinalizeAllSubRuns, FinalizeOutstandingSubRuns, MarkSubRunNonEmpty, StartSubRun, SubRunStarted,
         BeginSubRun, EndSubRun, objects, history, OrderInv, TypeInv, DataOK
<1>2. SameWaiting /\ Earlier' = Earlier
  BY <1>1 DEF FinalizeAllSubRuns, FinalizeOutstandingSubRuns, MarkSubRunNonEmpty, StartSubRun, SubRunStarted,
         BeginSubRun, EndSubRun, objects, SameWaiting, subRun, PutOff, Turn, Earlier, SubRunFields
<1>3. Sames
  BY <1>1, <1>2 DEF Sames, SameWritten, KeepsRuns, run, Previous
<1>4. PICK next : /\ Goes(next)
                  /\ NextCall \in {"finalizeAllSubRuns", "finalizeOutstandingSubRuns", "markSubRunNonEmpty", "startSubRun",
                                   "subRunStarted", "beginSubRun", "endSubRun"}
                  /\ next \in {"finalizeSubRun", "nextOutstanding", "finalizeOutstandingSubRuns", "readEvent", "beginSubRun",
                               "subRunStarted", "endSubRun", "writeSubRun", "clearCurrentSubRun"}
                  /\ next = "clearCurrentSubRun" => ~WritesSubRunsAtEnd
                  /\ next = "nextOutstanding" => ~InLoop \/ ~WritesSubRunsAtEnd
  <2>1. CASE FinalizeAllSubRuns
    <3>1. NextCall = "finalizeAllSubRuns" /\ Goes(IF Broken \/ RunBroken THEN "none" ELSE "finalizeSubRun")
      BY <2>1, FinalizeAllFlow DEF Broken, RunBroken
    <3>2. GoesDown /\ depth = 3 /\ UNCHANGED <<primary, external>>
      BY <3>1, SubRunPlaces DEF SubRunCalls, Goes
    <3>3. primary = "none" /\ phase = "exit"
      BY <3>2 DEF Calm, OrderInv, Between, GoesDown
    <3>4. ~Broken
      BY <3>1, <3>3 DEF SubRunInv, SubRunBrokenFits, LoopCalls, SubRunBodies
    <3>5. ~RunBroken
      BY <3>1, <3>3 DEF RunInv, RunBrokenFits
    <3> QED
      BY <3>1, <3>4, <3>5
  <2>2. CASE FinalizeOutstandingSubRuns
    BY <2>2, FinalizeOutstandingFlow
  <2>3. CASE MarkSubRunNonEmpty
    BY <2>3, MarkSubRunNonEmptyFlow
  <2>4. CASE StartSubRun
    BY <2>4, StartSubRunFlow
  <2>5. CASE SubRunStarted
    BY <2>5, SubRunFlows, CalmGoes DEF SubRunStarted
  <2>6. CASE BeginSubRun
    BY <2>6, SubRunFlows, CalmGoes DEF BeginSubRun
  <2>7. CASE EndSubRun
    BY <2>7, SubRunFlows, CalmGoes DEF EndSubRun, AfterTurn
  <2> QED
    BY <2>1, <2>2, <2>3, <2>4, <2>5, <2>6, <2>7
<1>5. Rising(next)
  <2>1. ~InLoop => Turn = 0
    BY <1>1 DEF InLoop, Turn, SubRunFields
  <2> QED
    BY <1>4, <2>1 DEF Rising, Closes
<1> QED
  BY <1>3, <1>4, <1>5, GoesOn

LEMMA SubRunWaitingTypes ==
  OrderInv => /\ PutOff \in Seq(SubRunIDs \cup {NoSubRun}) /\ subRun \in SubRunIDs \cup {NoSubRun}
              /\ Turn \in Nat /\ Len(PutOff) \in Nat /\ DOMAIN PutOff = 1..Len(PutOff)
              /\ cache.subRuns \subseteq SubRunIDs /\ NoSubRun \notin SubRunIDs
<1> SUFFICES ASSUME OrderInv
             PROVE  /\ PutOff \in Seq(SubRunIDs \cup {NoSubRun}) /\ subRun \in SubRunIDs \cup {NoSubRun}
                    /\ Turn \in Nat /\ Len(PutOff) \in Nat /\ DOMAIN PutOff = 1..Len(PutOff)
                    /\ cache.subRuns \subseteq SubRunIDs /\ NoSubRun \notin SubRunIDs
  OBVIOUS
<1>1. PutOff \in Seq(SubRunIDs \cup {NoSubRun}) /\ subRun \in SubRunIDs \cup {NoSubRun} /\ Turn \in Nat
  BY DEF OrderInv, TypeInv, DataOK, SubRunFields, PutOff, subRun, Turn
<1>2. cache.subRuns \subseteq SubRunIDs
  BY DEF OrderInv, TypeInv, DataOK, Cache
<1>3. NoSubRun \notin SubRunIDs
  BY IdAssumption DEF SubRunIDs, NoSubRun
<1> QED
  BY <1>1, <1>2, <1>3

LEMMA FinalizeSubRunWrites ==
  OrderInv /\ SubRunInv /\ CacheInv /\ WrittenInv /\ Calm' /\ FinalizeSubRun => WrittenInv'
<1> SUFFICES ASSUME OrderInv, SubRunInv, CacheInv, WrittenInv, Calm', FinalizeSubRun PROVE WrittenInv'
  OBVIOUS
<1>1. NextCall = "finalizeSubRun" /\ Goes(FinalizesWith)
  BY FinalizeSubRunFlow
<1>2. /\ handleRuns' = handleRuns /\ cache' = cache /\ written' = written /\ handleSubRuns \in SubRunFields
  BY DEF FinalizeSubRun, history, OrderInv, TypeInv, DataOK
<1>3. subRun' = subRun /\ Turn' = Turn /\ KeepsRuns /\ SameWritten
  BY <1>2 DEF FinalizeSubRun, SubRunFields, subRun, Turn, KeepsRuns, run, Previous, SameWritten
<1>4. \/ PutOff' = PutOff /\ Earlier' = Earlier /\ (FinalizesWith = "clearCurrentSubRun" => ~WritesSubRunsAtEnd)
      \/ /\ PutOff' = Append(PutOff, subRun) /\ Earlier' = Earlier \cup {subRun}
         /\ FinalizesWith = "clearCurrentSubRun"
  BY <1>2 DEF FinalizeSubRun, SubRunFields, PutOff, Earlier, FinalizesWith, subRun
<1>5. FinalizesWith \in {"endSubRun", "writeSubRun", "clearCurrentSubRun", "beginSubRun"}
  BY DEF FinalizesWith
<1>6. subRun # NoSubRun /\ RunOf(subRun) = run
  BY <1>1 DEF SubRunInv, SubRunCallsFit, CacheInv, HeldInv, SubRunsOfRun, OfRun
<1>7. WrittenFits'
  <2>1. Earlier \subseteq Earlier'
    BY <1>4
  <2> QED
    BY <1>1, <1>3, <2>1, GoesWritten DEF WrittenInv, Closes
<1>8. EndsFit'
  <2>1. \A sr \in Earlier' : RunOf(sr) = run'
    BY <1>3, <1>4, <1>6 DEF WrittenInv, EndsFit, KeepsRuns
  <2>2. NextCall' \notin {"writeRun", "clearCurrentRun"} /\ config' = config
    BY <1>1, <1>5 DEF Goes
  <2> QED
    BY <1>1, <1>3, <2>1, <2>2 DEF WrittenInv, EndsFit, KeepsRuns, RefusesSplitRuns, WritesRunsAtEnd
<1>9. WaitingFits'
  <2>1. CASE PutOff' = PutOff /\ (FinalizesWith = "clearCurrentSubRun" => ~WritesSubRunsAtEnd)
    BY <1>1, <1>2, <1>3, <1>5, <2>1, GoesWaiting DEF WrittenInv, Rising, Closes, SameWaiting
  <2>2. CASE PutOff' = Append(PutOff, subRun)
    <3>1. PICK n \in Nat : n = Len(PutOff)
      BY SubRunWaitingTypes
    <3>2. /\ DOMAIN PutOff = 1..n /\ DOMAIN PutOff' = 1..(n + 1)
          /\ \A i \in 1..n : PutOff'[i] = PutOff[i]
          /\ PutOff'[n + 1] = subRun
      BY <2>2, <3>1, SubRunWaitingTypes, Appended
    <3>3. Turn \in Nat /\ Turn <= n
      BY <1>1, <3>1, SubRunWaitingTypes DEF SubRunInv, PutOffFits
    <3>4. AllWait'
      <4>1. SUFFICES ASSUME WritesSubRunsAtEnd, NEW sr \in cache.subRuns PROVE depth = 3 /\ Waits(sr)'
        BY <1>1, <1>2 DEF AllWait, WritesSubRunsAtEnd, Goes
      <4>2. depth = 3 /\ Waits(sr)
        BY <4>1 DEF WrittenInv, WaitingFits, AllWait
      <4>3. sr = subRun \/ \E i \in 1..n : sr = PutOff[i] /\ (Turn < i \/ Turn = i)
        BY <3>2, <4>2 DEF Waits
      <4>4. CASE sr = subRun
        <5>1. n + 1 \in DOMAIN PutOff' /\ sr = PutOff'[n + 1] /\ Turn < n + 1
          BY <3>1, <3>2, <3>3, <4>4
        <5> QED
          BY <1>3, <4>2, <5>1 DEF Waits
      <4>5. CASE \E i \in 1..n : sr = PutOff[i] /\ (Turn < i \/ Turn = i)
        <5>1. \E i \in DOMAIN PutOff' : sr = PutOff'[i] /\ (Turn < i \/ Turn = i)
          BY <3>1, <3>2, <4>5
        <5>2. NextCall' # "nextOutstanding"
          BY <1>1, <1>5 DEF Goes
        <5> QED
          BY <1>3, <4>2, <5>1, <5>2 DEF Waits
      <4> QED
        BY <4>3, <4>4, <4>5
    <3>5. NoneWaits'
      BY <1>1, <1>5 DEF NoneWaits, Goes
    <3> QED
      BY <3>4, <3>5 DEF WaitingFits
  <2> QED
    BY <1>4, <2>1, <2>2
<1> QED
  BY <1>7, <1>8, <1>9 DEF WrittenInv

LEMMA ClearCurrentSubRunWrites == OrderInv /\ WrittenInv /\ Calm' /\ ClearCurrentSubRun => WrittenInv'
<1> SUFFICES ASSUME OrderInv, WrittenInv, Calm', ClearCurrentSubRun PROVE WrittenInv'
  OBVIOUS
<1>1. /\ NextCall = "clearCurrentSubRun"
      /\ Goes(IF phase = "construct" THEN "setupCurrentSubRun" ELSE "finalizeOutstandingSubRuns")
  BY SubRunFlows, CalmGoes DEF ClearCurrentSubRun
<1>2. PICK next \in {"setupCurrentSubRun", "finalizeOutstandingSubRuns"} : Goes(next)
  BY <1>1
<1>3. handleRuns' = handleRuns /\ cache' = cache /\ written' = written /\ handleSubRuns \in SubRunFields
  BY DEF ClearCurrentSubRun, history, OrderInv, TypeInv, DataOK
<1>4. /\ PutOff' = PutOff /\ Turn' = Turn /\ Earlier' = Earlier /\ Earlier \subseteq Earlier'
      /\ KeepsRuns /\ SameWritten
  BY <1>3 DEF ClearCurrentSubRun, SubRunFields, PutOff, Turn, Earlier, KeepsRuns, run, Previous, SameWritten
<1>5. Rising(next)
  BY <1>1, <1>2 DEF Rising, Closes
<1>6. WrittenFits' /\ EndsFit'
  BY <1>2, <1>4, <1>5, GoesWritten, GoesEnds DEF WrittenInv, Rising
<1>7. NextCall' = next /\ config' = config /\ depth' = depth
  BY <1>2 DEF Goes
<1>8. AllWait'
  BY <1>1, <1>2, <1>3, <1>4, <1>7 DEF WrittenInv, WaitingFits, AllWait, Waits, WritesSubRunsAtEnd
<1>9. NoneWaits'
  BY <1>2, <1>7 DEF NoneWaits
<1> QED
  BY <1>6, <1>8, <1>9 DEF WrittenInv, WaitingFits

LEMMA NextOutstandingWrites == OrderInv /\ SubRunInv /\ WrittenInv /\ Calm' /\ NextOutstanding => WrittenInv'
<1> SUFFICES ASSUME OrderInv, SubRunInv, WrittenInv, Calm', NextOutstanding PROVE WrittenInv'
  OBVIOUS
<1>1. /\ NextCall = "nextOutstanding"
      /\ Goes(IF Turn < Len(PutOff) THEN "beginSubRun" ELSE IF phase = "construct" THEN "startSubRun" ELSE "none")
  BY NextOutstandingFlow DEF Turn, PutOff
<1>2. PICK next \in {"beginSubRun", "startSubRun", "none"} : Goes(next)
  BY <1>1
<1>3. handleRuns' = handleRuns /\ cache' = cache /\ written' = written /\ handleSubRuns \in SubRunFields
  BY DEF NextOutstanding, history, OrderInv, TypeInv, DataOK
<1>4. /\ subRun' = subRun /\ Earlier' = Earlier /\ Earlier \subseteq Earlier' /\ KeepsRuns /\ SameWritten
      /\ \/ Turn < Len(PutOff) /\ PutOff' = PutOff /\ Turn' = Turn + 1
         \/ Turn = Len(PutOff) /\ PutOff' = <<>>
  BY <1>3 DEF NextOutstanding, SubRunFields, subRun, PutOff, Turn, Earlier, KeepsRuns, run, Previous, SameWritten
<1>5. WrittenFits' /\ EndsFit'
  <2>1. /\ NextCall # "clearCurrentRun" /\ NextCall' \notin {"writeRun", "clearCurrentRun"} /\ config' = config
        /\ NextCall \notin Closes
    BY <1>1, <1>2 DEF Goes, Closes
  <2> QED
    BY <1>2, <1>4, <2>1, GoesWritten, EndsStay DEF WrittenInv
<1>6. NextCall' = next /\ config' = config /\ depth' = depth /\ phase' = phase
  BY <1>2 DEF Goes
<1>7. AllWait'
  <2>1. SUFFICES ASSUME WritesSubRunsAtEnd, NEW sr \in cache.subRuns PROVE depth = 3 /\ Waits(sr)'
    BY <1>3, <1>6 DEF AllWait, WritesSubRunsAtEnd
  <2>2. depth = 3 /\ Waits(sr)
    BY <2>1 DEF WrittenInv, WaitingFits, AllWait
  <2>3. CASE sr = subRun
    BY <1>2, <1>4, <1>6, <2>2, <2>3 DEF Waits
  <2>4. CASE sr # subRun
    <3>1. PICK i \in DOMAIN PutOff : sr = PutOff[i] /\ Turn < i
      BY <1>1, <2>2, <2>4 DEF Waits
    <3>2. Turn < Len(PutOff) /\ PutOff' = PutOff /\ (Turn' < i \/ Turn' = i)
      BY <1>4, <3>1, SubRunWaitingTypes
    <3>3. NextCall' # "nextOutstanding"
      BY <1>2, <1>6
    <3> QED
      BY <2>2, <3>1, <3>2, <3>3 DEF Waits
  <2> QED
    BY <2>3, <2>4
<1>8. NoneWaits'
  <2>1. SUFFICES ASSUME phase = "exit", depth = 3, NextCall' = "none" PROVE subRun = NoSubRun /\ PutOff' = <<>>
    BY <1>4, <1>6 DEF NoneWaits
  <2>2. subRun = NoSubRun
    BY <1>1, <2>1 DEF SubRunInv, SubRunKnown, GoesDown
  <2>3. ~(Turn < Len(PutOff))
    BY <1>1, <2>1 DEF Goes
  <2> QED
    BY <1>4, <2>2, <2>3
<1> QED
  BY <1>5, <1>7, <1>8 DEF WrittenInv, WaitingFits

LEMMA WriteSubRunWrites ==
  OrderInv /\ SubRunInv /\ CacheInv /\ WrittenInv /\ Calm' /\ WriteSubRun => WrittenInv'
<1> SUFFICES ASSUME OrderInv, SubRunInv, CacheInv, WrittenInv, Calm', WriteSubRun PROVE WrittenInv'
  OBVIOUS
<1>1. NextCall = "writeSubRun" /\ ~Throws /\ Goes(AfterTurn)
  BY SubRunFlows, CalmGoes DEF WriteSubRun
<1>2. /\ handleRuns' = handleRuns /\ handleSubRuns \in SubRunFields /\ cache \in Cache /\ written \in Ids
      /\ WritesSubRun(Subject) /\ handleSubRuns' = [handleSubRuns EXCEPT !.previous = @ \cup {Subject}]
  BY <1>1 DEF WriteSubRun, OrderInv, TypeInv, DataOK
<1>3. /\ subRun' = subRun /\ PutOff' = PutOff /\ Turn' = Turn /\ KeepsRuns
      /\ Earlier' = Earlier \cup {Subject}
  BY <1>2 DEF SubRunFields, subRun, PutOff, Turn, KeepsRuns, run, Previous, Earlier
<1>4. /\ cache'.runs = cache.runs /\ cache'.subRuns = cache.subRuns \ {Subject}
      /\ written'.runs = written.runs /\ written'.subRuns \subseteq written.subRuns \cup {Subject}
  BY <1>2 DEF WritesSubRun, DeleteSubRun, Cache, Ids
<1>5. depth = 3 /\ RunOf(Subject) = run /\ WritesSubRunsAtEnd
  BY <1>1, BodyPlace, SubjectFits DEF SubRunBodies, OfRun, SubRunInv, SubRunCallsFit
<1>6. NextCall' = AfterTurn /\ config' = config /\ depth' = 3 /\ AfterTurn \in {"nextOutstanding", "clearCurrentSubRun"}
  BY <1>1, <1>5 DEF Goes, AfterTurn
<1>7. WrittenRuns' /\ WrittenOutside' /\ Apart'
  BY <1>3, <1>4, <1>5, <1>6 DEF WrittenInv, WrittenFits, WrittenRuns, WrittenOutside, Apart, KeepsRuns, RefusesSplitRuns
<1>8. WrittenSubRuns'
  BY <1>3, <1>4, <1>5, <1>6 DEF WrittenInv, WrittenFits, WrittenSubRuns, KeepsRuns, RefusesSplitSubRuns, WritesSubRunsAtEnd
<1>9. EndsFit'
  BY <1>1, <1>3, <1>5, <1>6 DEF WrittenInv, EndsFit, KeepsRuns, RefusesSplitRuns, WritesRunsAtEnd
<1>10. AllWait'
  <2>1. SUFFICES ASSUME NEW sr \in cache.subRuns, sr # Subject PROVE Waits(sr)'
    BY <1>4, <1>6 DEF AllWait
  <2>2. Waits(sr)
    BY <1>5, <2>1 DEF WrittenInv, WaitingFits, AllWait
  <2>3. CASE InLoop
    <3>1. Turn > 0 /\ Subject = PutOff[Turn] /\ NextCall' = "nextOutstanding"
      BY <1>6, <2>3, SubRunWaitingTypes DEF InLoop, Turn, Subject, PutOff, AfterTurn
    <3> QED
      BY <1>3, <2>1, <2>2, <3>1 DEF Waits
  <2>4. CASE ~InLoop
    <3>1. Subject = subRun /\ NextCall' = "clearCurrentSubRun"
      BY <1>6, <2>4, SubjectIs DEF AfterTurn
    <3>2. \E i \in DOMAIN PutOff : sr = PutOff[i] /\ (Turn < i \/ Turn = i)
      BY <2>1, <2>2, <3>1 DEF Waits
    <3> QED
      BY <1>3, <3>1, <3>2 DEF Waits
  <2> QED
    BY <2>3, <2>4
<1>11. NoneWaits'
  BY <1>6 DEF NoneWaits
<1> QED
  BY <1>7, <1>8, <1>9, <1>10, <1>11 DEF WrittenInv, WrittenFits, WaitingFits

-----------------------------------------------------------------------------
(* The other statements and the transitions, and what is written.           *)

LEMMA QuietWrites ==
  ASSUME OrderInv, WrittenInv, UNCHANGED <<config, depth, handleRuns, handleSubRuns, cache, written>>,
         NextCall # "clearCurrentRun",
         NextCall' \notin {"writeRun", "clearCurrentRun", "clearCurrentSubRun", "nextOutstanding"},
         depth = 2 /\ run # NoRun /\ Ending => Ending',
         depth <= 1 /\ (NextCall \in Closes \/ ClosesNext) => NextCall' \in Closes \/ ClosesNext',
         depth = 3 => ~(phase' = "exit" /\ NextCall' = "none")
  PROVE  WrittenInv'
<1>1. KeepsRuns /\ SameWaiting /\ Earlier' = Earlier /\ SameWritten
  BY FlagsSame DEF SameWritten
<1>2. WrittenFits' /\ EndsFit'
  BY <1>1, WrittenStays, EndsStay DEF WrittenInv
<1>3. WaitingFits'
  BY <1>1, WaitingStays DEF WrittenInv, SameWritten
<1> QED
  BY <1>2, <1>3 DEF WrittenInv

LEMMA OthersWrite ==
  OrderInv /\ WrittenInv /\ Calm' /\ (ReadEvent \/ ProcessEvent \/ EndOfLoop \/ DoErrorStuff \/ RewindInput) => WrittenInv'
<1> SUFFICES ASSUME OrderInv, WrittenInv, Calm',
                    ReadEvent \/ ProcessEvent \/ EndOfLoop \/ DoErrorStuff \/ RewindInput
             PROVE  WrittenInv'
  OBVIOUS
<1>1. UNCHANGED <<handleRuns, handleSubRuns, cache, written>>
  BY DEF ReadEvent, ProcessEvent, EndOfLoop, DoErrorStuff, RewindInput, objects, history
<1>2. /\ NextCall \in OtherCalls /\ NextCall' \in {"none", "processEvent"}
      /\ UNCHANGED <<config, phase, depth, leaf, move>>
  <2>1. CASE ReadEvent
    BY <2>1, OtherFlows, CalmGoes DEF ReadEvent, OtherCalls, Goes
  <2>2. CASE ProcessEvent
    BY <2>2, OtherFlows, CalmGoes DEF ProcessEvent, OtherCalls, Goes
  <2>3. CASE EndOfLoop
    BY <2>3, OtherFlows, CalmGoes DEF EndOfLoop, OtherCalls, Goes
  <2>4. CASE DoErrorStuff
    BY <2>4, LastStatements DEF DoErrorStuff, OtherCalls
  <2>5. CASE RewindInput
    <3>1. NextCall = "rewindInput" /\ ~Throws
      BY <2>5, LastStatements, NoFail
    <3> QED
      BY <2>5, <3>1, LastStatements DEF RewindInput, OtherCalls
  <2> QED
    BY <2>1, <2>2, <2>3, <2>4, <2>5
<1>3. phase # "exit" /\ NextCall \notin Closes /\ NextCall # "clearCurrentRun"
  BY <1>2 DEF OtherCalls, OrderInv, InPlace, Constructs, EventCalls, Closes
<1>4. Ending' = Ending /\ ClosesNext' = ClosesNext
  BY <1>2 DEF Ending, GoesDown, ClosesNext
<1> QED
  BY <1>1, <1>2, <1>3, <1>4, QuietWrites

LEMMA BeginsWrites == ASSUME OrderInv, WrittenInv, NEW m, Begins(m) PROVE WrittenInv'
<1>1. /\ phase = "stable" /\ NextCall = "none" /\ Proceeds(depth, m, external') /\ depth \in 0..3 /\ MoveIs(m)
      /\ UNCHANGED <<config, depth, handleRuns, handleSubRuns, cache, written>>
  BY DEF Begins, OrderInv, TypeInv, Control, ControlOK
<1>2. /\ NextCall' \in {"none", "writeSubRunCache", "finalizeRun", "finalizeAllSubRuns", "rewindInput"}
      /\ depth = 3 /\ phase' = "exit" => NextCall' # "none"
  <2>1. CASE NextCall' = FirstCleanUp(depth)
    BY <1>1, <2>1, FirstCleanUps
  <2>2. CASE phase' = "action" /\ NextCall' = FirstAction(m.action)
    BY <2>2, FirstActions
  <2> QED
    BY <1>1, <2>1, <2>2 DEF Proceeds
<1>3. ~Ending /\ ~ClosesNext /\ NextCall \notin Closes
  BY <1>1 DEF Ending, GoesDown, ClosesNext, Closes
<1> QED
  BY <1>1, <1>2, <1>3, QuietWrites

LEMMA ItemWrites == OrderInv /\ WrittenInv /\ Item => WrittenInv'
  BY ItemBegins, BeginsWrites

LEMMA PostedWrites == OrderInv /\ WrittenInv /\ ProcessPosted => WrittenInv'
<1> SUFFICES ASSUME OrderInv, WrittenInv, ProcessPosted PROVE WrittenInv'
  OBVIOUS
<1>1. CASE \E m : Begins(m)
  BY <1>1, BeginsWrites
<1>2. CASE /\ phase = "stable" /\ phase' = "terminated" /\ depth = 0 /\ NextCall = "none" /\ NextCall' = "none"
           /\ UNCHANGED <<config, depth, handleRuns, handleSubRuns, cache, written>>
  <2>1. ~Ending /\ ~ClosesNext /\ NextCall \notin Closes
    BY <1>2 DEF Ending, GoesDown, ClosesNext, Closes
  <2> QED
    BY <1>2, <2>1, QuietWrites
<1> QED
  BY <1>1, <1>2, PostedBegins

LEMMA FirstWritten ==
  ASSUME NEW target \in Leaves
  PROVE  /\ FirstConstruct(target) \notin {"writeRun", "clearCurrentRun", "clearCurrentSubRun", "nextOutstanding"}
         /\ target = "NewInputAndOutputFiles" => FirstConstruct(target) \in Closes
  BY DEF FirstConstruct, Closes, Leaves, TopLeaves, FileLeaves, RunLeaves, SubRunLeaves

LEMMA ActionWrites == OrderInv /\ RunInv /\ WrittenInv /\ ActionDone => WrittenInv'
<1> SUFFICES ASSUME OrderInv, RunInv, WrittenInv, ActionDone PROVE WrittenInv'
  OBVIOUS
<1>1. /\ phase = "action" /\ NextCall = "none" /\ phase' \in {"enter", "construct"}
      /\ \/ depth < ParentDepth(move.target) /\ NextCall' = (IF depth = 0 THEN "readFile" ELSE "none")
         \/ depth = ParentDepth(move.target) /\ Constructed
      /\ UNCHANGED <<config, depth, handleRuns, handleSubRuns, cache, written>>
  BY ActionFlow DEF Constructed
<1>2. move.target \in Leaves /\ ParentDepth("NewInputAndOutputFiles") = 1
  BY DEF OrderInv, TypeInv, Control, ControlOK, Moves, ParentDepth, FileLeaves, RunLeaves, SubRunLeaves
<1>3. NextCall' \notin {"writeRun", "clearCurrentRun", "clearCurrentSubRun", "nextOutstanding"}
  BY <1>1, <1>2, FirstWritten DEF Constructed
<1>4. depth = 2 /\ Ending => run = NoRun
  BY <1>1 DEF Ending, GoesDown, RunInv, RunKnown, RunLeft
<1>5. ClosesNext => NextCall' \in Closes
  BY <1>1, <1>2, FirstWritten DEF ClosesNext, Constructed
<1>6. NextCall \notin Closes
  BY <1>1 DEF Closes
<1> QED
  BY <1>1, <1>3, <1>4, <1>5, <1>6, QuietWrites

LEMMA ConstructedWrites == OrderInv /\ WrittenInv /\ ConstructorDone => WrittenInv'
<1> SUFFICES ASSUME OrderInv, WrittenInv, ConstructorDone PROVE WrittenInv'
  OBVIOUS
<1>1. /\ phase = "construct" /\ NextCall = "none" /\ phase' = "stable" /\ NextCall' = "none"
      /\ UNCHANGED <<config, depth, handleRuns, handleSubRuns, cache, written>>
  BY ConstructedFlow DEF ConstructorDone, history
<1>2. ~Ending /\ ~ClosesNext /\ NextCall \notin Closes
  BY <1>1 DEF Ending, GoesDown, ClosesNext, Closes
<1> QED
  BY <1>1, <1>2, QuietWrites

LEMMA EnterWrites == OrderInv /\ WrittenInv /\ EnterComposite => WrittenInv'
<1> SUFFICES ASSUME OrderInv, WrittenInv, EnterComposite PROVE WrittenInv'
  OBVIOUS
<1>1. /\ phase = "enter" /\ NextCall = "none" /\ Constructed /\ depth + 1 = ParentDepth(move.target) /\ depth' = depth + 1
      /\ handleRuns' = (IF depth = 1 THEN NewHandleRuns ELSE handleRuns)
      /\ handleSubRuns' = (IF depth = 2 THEN NewHandleSubRuns ELSE handleSubRuns)
      /\ UNCHANGED <<config, cache, written>>
  BY EnterFlow
<1>2. move.target \in Leaves /\ depth \in 0..2
  BY <1>1, DepthOfTargets DEF OrderInv, TypeInv, Control, ControlOK, Moves
<1>3. phase' = "construct" /\ NextCall' \notin {"writeRun", "clearCurrentRun"}
  BY <1>1, <1>2, FirstWritten DEF Constructed
<1>4. ~Ending /\ ~ClosesNext /\ NextCall \notin Closes
  BY <1>1 DEF Ending, GoesDown, ClosesNext, Closes
<1>5. Earlier = {} /\ Earlier' = {}
  BY <1>1, <1>2, NoEarlier DEF Earlier, NewHandleSubRuns
<1>6. AllWait' /\ NoneWaits'
  <2>1. WritesSubRunsAtEnd => cache.subRuns = {}
    BY <1>2 DEF WrittenInv, WaitingFits, AllWait
  <2> QED
    BY <1>1, <1>3, <2>1 DEF AllWait, NoneWaits, WritesSubRunsAtEnd
<1>7. Apart'
  BY <1>1 DEF Apart, WrittenInv, WrittenFits
<1>8. CASE depth < 2
  <2>1. written = NoneOf /\ run' = NoRun
    BY <1>1, <1>2, <1>4, <1>8, NoRunOutside DEF WrittenInv, WrittenFits, WrittenOutside, run, NewHandleRuns
  <2>2. WrittenRuns' /\ WrittenSubRuns' /\ WrittenOutside'
    BY <1>1, <2>1 DEF WrittenRuns, WrittenSubRuns, WrittenOutside, NoneOf
  <2>3. EndsFit'
    BY <1>3, <1>5, <2>1 DEF EndsFit
  <2> QED
    BY <1>6, <1>7, <2>2, <2>3, WrittenInvFrom
<1>9. CASE depth = 2
  <2>1. KeepsRuns /\ depth' = 3
    BY <1>1, <1>9 DEF KeepsRuns, run, Previous
  <2>2. WrittenRuns' /\ WrittenOutside'
    BY <1>1, <1>9, <2>1 DEF WrittenInv, WrittenFits, WrittenRuns, WrittenOutside, KeepsRuns, RefusesSplitRuns
  <2>3. WrittenSubRuns'
    BY <1>1, <1>4, <1>9, <2>1 DEF WrittenInv, WrittenFits, WrittenSubRuns, KeepsRuns, RefusesSplitSubRuns, WritesSubRunsAtEnd
  <2>4. EndsFit'
    BY <1>1, <1>3, <1>5, <2>1 DEF WrittenInv, EndsFit, KeepsRuns, RefusesSplitRuns
  <2> QED
    BY <1>6, <1>7, <2>2, <2>3, <2>4, WrittenInvFrom
<1> QED
  BY <1>2, <1>8, <1>9

LEMMA LeaveWrites == OrderInv /\ WrittenInv /\ Calm' /\ LeaveComposite => WrittenInv'
<1> SUFFICES ASSUME OrderInv, WrittenInv, Calm', LeaveComposite PROVE WrittenInv'
  OBVIOUS
<1>1. /\ phase \in {"exit", "destroy"} /\ NextCall = "none" /\ depth \in 1..3 /\ depth' = depth - 1
      /\ handleRuns' = (IF depth = 2 THEN NewHandleRuns ELSE handleRuns)
      /\ handleSubRuns' = (IF depth = 3 THEN NewHandleSubRuns ELSE handleSubRuns)
      /\ UNCHANGED <<config, leaf, move, primary, external, cache, written>>
  BY LeaveFlow
<1>2. primary = "none" /\ ~external /\ phase = "exit"
  BY <1>1 DEF Calm, OrderInv, Between
<1>3. leaf \in From(move.target) /\ CommonDepth(leaf, move.target) < depth /\ depth <= ParentDepth(leaf)
  BY <1>2 DEF OrderInv, Between
<1>4. move.target \in Leaves /\ leaf \in Leaves
  BY DEF OrderInv, TypeInv, Control, ControlOK, Moves
<1>5. \/ phase' = "exit" /\ NextCall' = FirstCleanUp(depth - 1)
      \/ /\ phase' = "action" /\ NextCall' = FirstAction(move.action)
         /\ depth - 1 <= CommonDepth(leaf, move.target)
  BY <1>2, LeaveFlow DEF Proceeds
<1>6. NextCall' \notin {"writeRun", "clearCurrentRun"}
  BY <1>1, <1>5, FirstCleanUps, FirstActions
<1>7. Apart' /\ Earlier' = {}
  BY <1>1, NoEarlier DEF WrittenInv, WrittenFits, Apart, Earlier, NewHandleSubRuns
<1>8. WritesSubRunsAtEnd => cache.subRuns = {}
  <2>1. CASE depth = 3
    <3>1. subRun = NoSubRun /\ PutOff = <<>>
      BY <1>1, <1>2, <2>1 DEF WrittenInv, WaitingFits, NoneWaits
    <3>2. \A sr \in cache.subRuns : ~Waits(sr)
      BY <3>1, SubRunWaitingTypes DEF Waits
    <3> QED
      BY <3>2 DEF WrittenInv, WaitingFits, AllWait
  <2> QED
    BY <1>1, <2>1 DEF WrittenInv, WaitingFits, AllWait
<1>9. AllWait' /\ NoneWaits'
  BY <1>1, <1>8 DEF AllWait, NoneWaits, WritesSubRunsAtEnd
<1>10. CASE depth = 3
  <2>1. KeepsRuns /\ depth' = 2
    BY <1>1, <1>10 DEF KeepsRuns, run, Previous
  <2>2. Ending'
    <3>1. CASE phase' = "exit"
      BY <3>1 DEF Ending, GoesDown
    <3>2. CASE phase' = "action" /\ 2 <= CommonDepth(leaf, move.target)
      <4>1. leaf \in SubRunLeaves /\ move.target \in RunLeaves
        BY <1>3, <1>4, <1>10, <3>2
           DEF CommonDepth, ParentDepth, Leaves, TopLeaves, FileLeaves, RunLeaves, SubRunLeaves
      <4>2. move.target = "NewRun"
        BY <1>3, <4>1 DEF From, FileLeaves, RunLeaves, SubRunLeaves
      <4> QED
        BY <1>1, <3>2, <4>2 DEF Ending
    <3> QED
      BY <1>5, <1>10, <3>1, <3>2
  <2>3. WrittenRuns' /\ WrittenOutside'
    BY <1>1, <1>10, <2>1 DEF WrittenInv, WrittenFits, WrittenRuns, WrittenOutside, KeepsRuns, RefusesSplitRuns
  <2>4. WrittenSubRuns'
    BY <1>1, <1>10, <2>1, <2>2 DEF WrittenInv, WrittenFits, WrittenSubRuns, EndsFit, KeepsRuns, RefusesSplitSubRuns,
                                   WritesSubRunsAtEnd
  <2>5. EndsFit'
    BY <1>1, <1>6, <1>7, <2>1 DEF WrittenInv, EndsFit, KeepsRuns, RefusesSplitRuns
  <2> QED
    BY <1>7, <1>9, <2>3, <2>4, <2>5, WrittenInvFrom
<1>11. CASE depth < 3
  <2>1. run' = NoRun
    <3>1. CASE depth = 2
      BY <1>1, <3>1 DEF run, NewHandleRuns
    <3>2. CASE depth = 1
      BY <1>1, <3>2, NoRunOutside DEF run
    <3> QED
      BY <1>1, <1>11, <3>1, <3>2
  <2>2. EndsFit'
    BY <1>6, <1>7, <2>1 DEF EndsFit
  <2>3. WrittenRuns' /\ WrittenSubRuns'
    BY <1>1, <1>11 DEF WrittenRuns, WrittenSubRuns
  <2>4. WrittenOutside'
    <3>1. CASE depth = 2 /\ phase' = "exit"
      BY <1>5, <3>1, FirstCleanUps DEF WrittenOutside, Closes
    <3>2. CASE depth = 2 /\ phase' = "action" /\ 1 <= CommonDepth(leaf, move.target)
      <4>1. leaf \in RunLeaves \cup SubRunLeaves /\ move.target \in FileLeaves
        BY <1>3, <1>4, <3>2
           DEF CommonDepth, ParentDepth, Leaves, TopLeaves, FileLeaves, RunLeaves, SubRunLeaves
      <4>2. move.target = "NewInputAndOutputFiles"
        BY <1>3, <4>1 DEF From, FileLeaves, RunLeaves, SubRunLeaves
      <4> QED
        BY <1>1, <3>2, <4>2 DEF WrittenOutside, ClosesNext
    <3>3. CASE depth = 1
      <4>1. written = NoneOf
        BY <1>1, <1>2, <3>3 DEF WrittenInv, WrittenFits, WrittenOutside, Closes, ClosesNext
      <4> QED
        BY <1>1, <4>1 DEF WrittenOutside
    <3> QED
      BY <1>1, <1>5, <1>11, <3>1, <3>2, <3>3
  <2> QED
    BY <1>7, <1>9, <2>2, <2>3, <2>4, WrittenInvFrom
<1> QED
  BY <1>1, <1>10, <1>11

-----------------------------------------------------------------------------
(* What has been written, at every step.                                    *)

LEMMA WrittenInit == Init => WrittenInv
  BY DEF Init, WrittenInv, WrittenFits, WrittenRuns, WrittenSubRuns, WrittenOutside, Apart, EndsFit, WaitingFits,
         AllWait, NoneWaits, NextCall, run, Earlier, NewHandleRuns, NewHandleSubRuns, EmptyCache, NoneOf

LEMMA WrittenSame == OrderInv /\ WrittenInv /\ UNCHANGED vars => WrittenInv'
<1> SUFFICES ASSUME OrderInv, WrittenInv, UNCHANGED vars PROVE WrittenInv'
  OBVIOUS
<1>1. UNCHANGED <<config, phase, depth, leaf, move, todo, handleRuns, handleSubRuns, cache, written>>
  BY DEF vars, control, objects, history
<1>2. NextCall' = NextCall /\ Ending' = Ending /\ ClosesNext' = ClosesNext
  BY <1>1 DEF NextCall, Ending, GoesDown, ClosesNext
<1>3. KeepsRuns /\ SameWaiting /\ Earlier' = Earlier /\ SameWritten
  BY <1>1, FlagsSame DEF SameWritten
<1>4. WrittenFits'
  BY <1>1, <1>2, <1>3, WrittenStays DEF WrittenInv
<1>5. EndsFit'
  BY <1>1, <1>2, <1>3 DEF WrittenInv, EndsFit, KeepsRuns, RefusesSplitRuns, WritesRunsAtEnd
<1>6. WaitingFits'
  BY <1>1, <1>2, <1>3, WaitingStays DEF WrittenInv, SameWritten
<1> QED
  BY <1>4, <1>5, <1>6 DEF WrittenInv

LEMMA StatementsRun ==
  FileStep \/ RunStep \/ SubRunStep \/ ReadEvent \/ ProcessEvent \/ EndOfLoop \/ DoErrorStuff \/ RewindInput => todo # <<>>
<1>1. FileStep => todo # <<>>
  BY DEF FileStep, ReadFile, CloseInputFile, OpenOutputFiles, CloseOutputFiles, Respond, WriteSubRunCache, WriteRunCache, Running
<1>2. RunStep => todo # <<>>
  BY DEF RunStep, ReadAndCacheRun, SetupCurrentRun, BeginRunIfNotDoneAlready, BeginRun, EndRun,
         FinalizeRun, WriteRun, ClearCurrentRun, Running
<1>3. SubRunStep => todo # <<>>
  BY DEF SubRunStep, ReadAndCacheSubRun, SetupCurrentSubRun, FinalizeAllSubRuns, FinalizeSubRun,
         ClearCurrentSubRun, FinalizeOutstandingSubRuns, NextOutstanding, MarkSubRunNonEmpty,
         StartSubRun, SubRunStarted, BeginSubRun, EndSubRun, WriteSubRun, Running
<1> QED
  BY <1>1, <1>2, <1>3 DEF ReadEvent, ProcessEvent, EndOfLoop, DoErrorStuff, RewindInput, Running

\* What has been thrown once is not forgotten.
LEMMA CalmBefore == OrderInv /\ [Next]_vars /\ Calm' => Calm
<1> SUFFICES ASSUME OrderInv, [Next]_vars, Calm' PROVE Calm
  OBVIOUS
<1>1. CASE UNCHANGED vars
  BY <1>1 DEF vars, failure, Calm
<1>2. CASE FileStep \/ RunStep \/ SubRunStep \/ ReadEvent \/ ProcessEvent \/ EndOfLoop \/ DoErrorStuff \/ RewindInput
  <2>1. CASE phase # "destroy"
    <3>1. todo # <<>>
      BY <1>2, StatementsRun
    <3>2. Head(todo) \in Calls /\ "none" \notin Calls
      BY <3>1, CallsAre DEF OrderInv, TypeInv, Control, ControlOK
    <3> QED
      BY <1>2, <2>1, <3>2, StatementsSteady DEF Steady, Calm
  <2>2. CASE phase = "destroy"
    BY <1>2, <2>2, StatementsSteady DEF Steady, Calm
  <2> QED
    BY <2>1, <2>2
<1>3. CASE LeaveComposite
  BY <1>3, LeaveFlow DEF Calm
<1>4. CASE ActionDone
  BY <1>4, ActionFlow DEF Calm
<1>5. CASE EnterComposite
  BY <1>5, EnterFlow DEF Calm
<1>6. CASE ConstructorDone
  BY <1>6 DEF ConstructorDone, failure, Calm
<1>7. CASE ProcessPosted
  BY <1>7, PostedBegins DEF Calm, Begins
<1>8. CASE Item
  BY <1>8, ItemMoves, ItemBegins DEF Calm, Begins
<1> QED
  BY <1>1, <1>2, <1>3, <1>4, <1>5, <1>6, <1>7, <1>8 DEF Next, MachineStep, TransitionStep, Done

LEMMA WrittenStep ==
  OrderInv /\ RunInv /\ SubRunInv /\ CacheInv /\ (Calm => WrittenInv) /\ [Next]_vars => (Calm => WrittenInv)'
<1> SUFFICES ASSUME OrderInv, RunInv, SubRunInv, CacheInv, Calm => WrittenInv, [Next]_vars, Calm' PROVE WrittenInv'
  OBVIOUS
<1>1. WrittenInv
  BY CalmBefore
<1>2. CASE UNCHANGED vars
  BY <1>1, <1>2, WrittenSame
<1>3. CASE TransitionStep
  BY <1>1, <1>3, LeaveWrites, ActionWrites, EnterWrites, ConstructedWrites, PostedWrites DEF TransitionStep
<1>4. CASE FileStep
  BY <1>1, <1>4, OpensWritten, ClosesWritten DEF FileStep
<1>5. CASE RunStep
  BY <1>1, <1>5, ReadAndCacheRunWrites, SetupCurrentRunWrites, RunFlagsWrite, WriteRunWrites, ClearCurrentRunWrites
     DEF RunStep
<1>6. CASE SubRunStep
  BY <1>1, <1>6, ReadAndCacheSubRunWrites, SetupCurrentSubRunWrites, SubRunFlagsWrite, FinalizeSubRunWrites,
     ClearCurrentSubRunWrites, NextOutstandingWrites, WriteSubRunWrites DEF SubRunStep
<1>7. CASE ReadEvent \/ ProcessEvent \/ EndOfLoop \/ DoErrorStuff \/ RewindInput
  BY <1>1, <1>7, OthersWrite
<1>8. CASE Item
  BY <1>1, <1>8, ItemWrites
<1> QED
  BY <1>2, <1>3, <1>4, <1>5, <1>6, <1>7, <1>8 DEF Next, MachineStep, Done

\* While nothing has been thrown, what the open output files hold is told apart
\* from what waits: by the runs HandleRuns has finished, and by the sub-runs that
\* HandleSubRuns has written or put off.
THEOREM WrittenFitsAlways == Spec => [](OrderInv /\ (Calm => WrittenInv))
<1>1. OrderInv /\ RunInv /\ SubRunInv /\ CacheInv /\ (Calm => WrittenInv) /\ [Next]_vars => (Calm => WrittenInv)'
  BY WrittenStep
<1>2. Init => WrittenInv
  BY WrittenInit
<1> QED
  BY <1>1, <1>2, CacheFits, PTL DEF Spec

\* WrittenOnce: while nothing has been thrown, nothing waits in the cache of a
\* merging mode that the open output files already hold.
THEOREM NothingIsWrittenTwice == Spec => []WrittenOnce
<1>1. (Calm => WrittenInv) => WrittenOnce
  BY DEF WrittenOnce, Calm, WrittenInv, WrittenFits, Apart
<1> QED
  BY <1>1, WrittenFitsAlways, PTL

\* SubRunsBeforeRun: a run is written after its sub-runs.
THEOREM SubRunsComeFirst == Spec => []SubRunsBeforeRun
<1>1. OrderInv /\ (Calm => WrittenInv) => SubRunsBeforeRun
  <2> SUFFICES ASSUME OrderInv, Calm => WrittenInv, WritesSubRunsAtEnd, Calm, NextCall = "writeRun"
               PROVE  cache.subRuns = {}
    BY DEF SubRunsBeforeRun, Calm
  <2>1. depth = 2
    BY DEF OrderInv, InPlace, RunEnds
  <2> QED
    BY <2>1 DEF WrittenInv, WaitingFits, AllWait
<1> QED
  BY <1>1, WrittenFitsAlways, PTL

-----------------------------------------------------------------------------
(* The properties in whole.                                                 *)

\* ReadInOrder: each state of the machine has the objects its functions assert, an
\* event is processed in its context, nothing offered is skipped or read twice,
\* and what is looked up in the cache is there.
THEOREM EverythingReadInOrder == Spec => []ReadInOrder
  BY AssertionsHold, EventsInContext, ReadsWhatIsOffered, LookupsAlwaysSucceed, PTL DEF ReadInOrder

\* WrittenInOrder: what begins is ended and written once, sub-runs before their
\* run, and all is closed when the machine ends, after exceptions too but for what
\* an exception in a destructor gives up.
THEOREM EverythingWrittenInOrder == Spec => []WrittenInOrder
  BY NothingIsWrittenTwice, SubRunsComeFirst, EndsAreClean, BegunAreEnded, ExceptionsKeepFiles, PTL
     DEF WrittenInOrder
=============================================================================
