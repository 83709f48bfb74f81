--------------------------- MODULE EPStates_proof ---------------------------
(***************************************************************************)
(* Theorems about EPStates, for every set of runs and sub-runs, every      *)
(* configuration and every bound on the sub-runs put off: the types, what  *)
(* is offered is not lost when files are switched, and the order of the    *)
(* statements: what the machine reads is what the source has offered, and  *)
(* the current run is known, cached and begun when its statements need it. *)
(*                                                                         *)
(* The invariant OrderInv of the second part says what is still to be      *)
(* executed: the body of each function is a chain of statements, so the    *)
(* next statement determines the rest, and where the machine is determines *)
(* which one may be next.  Everything else is then proved statement by     *)
(* statement.                                                              *)
(***************************************************************************)
EXTENDS EPStates, SequenceTheorems, TLAPS

-----------------------------------------------------------------------------
(* The inductive invariant of type correctness.                             *)

\* The statements that only a constructor or the action of a transition runs:
\* they use what the source has offered last.
Special == {"setupCurrentRun", "readAndCacheRun", "setupCurrentSubRun", "readAndCacheSubRun",
            "rewindInput"}
Plain == Calls \ Special

\* The statements that functions of HandleRuns and HandleSubRuns are made of.
Inner == (RunCalls \cup SubRunCalls) \ Special

RunTargets == {"NewRun", "ContinueRun1", "ContinueRun2"}
SubRunTargets == {"FirstSubRun", "AnotherSubRun", "ContinueSubRun"}
SpecialOf(target) ==
  IF target \in RunTargets THEN {"setupCurrentRun", "readAndCacheRun"}
  ELSE IF target \in SubRunTargets THEN {"setupCurrentSubRun", "readAndCacheSubRun"}
  ELSE IF target = "Starting" THEN {"rewindInput"} ELSE {}

\* The part of TypeOK about the flow of control.
ControlOK ==
  /\ config \in Configurations
  /\ phase \in Phases
  /\ depth \in 0..3
  /\ leaf \in Leaves
  /\ move \in Moves
  /\ todo \in Seq(Calls)
  /\ source \in [run : Runs \cup {NoRun}, subRun : SubRunIDs \cup {NoSubRun}]
  /\ external \in BOOLEAN
  /\ primary \in Calls \cup {"none"}
  /\ swallowed \subseteq 1..3
  /\ errorState \in BOOLEAN

RunFields == [beginRunCalled : BOOLEAN, currentRun : Runs \cup {NoRun},
              previousRuns : SUBSET Runs, runException : BOOLEAN]
SubRunFields == [empty : BOOLEAN, current : SubRunIDs \cup {NoSubRun},
                 previous : SUBSET (SubRunIDs \cup {NoSubRun}),
                 unhandled : Seq(SubRunIDs \cup {NoSubRun}), iter : Nat, exception : BOOLEAN]

\* The part about what the calls work on.
DataOK ==
  /\ posted \in {"none", "Stop", "Restart"}
  /\ item \in Items
  /\ handleRuns \in RunFields /\ handleSubRuns \in SubRunFields
  /\ cache \in Cache
  /\ files \in [input : BOOLEAN, output : BOOLEAN]
  /\ begun \in Ids /\ unwritten \in Ids /\ written \in Ids

\* There is a composite to leave, and room for the one to be entered; a machine
\* that waits or has terminated runs nothing.
Nesting ==
  /\ phase \in {"exit", "destroy"} => depth >= 1
  /\ phase = "enter" => depth < 3
  /\ phase \in {"stable", "terminated"} => todo = <<>>

\* Only a transition to Starting rewinds the input.
MoveFits == move.action = "rewindAndPrepareForNextLoop" => move.target = "Starting"

\* What is read is what the transition under way is about ...
TodoFits == Range(todo) \cap Special \subseteq SpecialOf(move.target)

\* ... and the source has offered it.
SourceFits ==
  /\ move.target \in RunTargets => source.run \in Runs
  /\ move.target \in SubRunTargets => source.subRun \in SubRunIDs

\* EndingLoop and Error post an event before the machine can wait in them.
WaitFits ==
  leaf \in {"EndingLoop", "Error"} =>
    /\ phase = "construct" => todo = Constructor(leaf) \/ (todo = <<>> /\ posted # "none")
    /\ phase = "stable" => posted # "none"

Control == ControlOK /\ Nesting /\ MoveFits /\ TodoFits /\ SourceFits
TypeInv == Control /\ DataOK /\ WaitFits

-----------------------------------------------------------------------------
(* Statements and bodies.                                                   *)

\* What is left after a statement are statements that were there before.
LEMMA RestOfBody ==
  ASSUME NEW S, NEW body \in Seq(S), body # <<>>
  PROVE  /\ Head(body) \in Range(body)
         /\ Tail(body) \in Seq(S)
         /\ Range(Tail(body)) \subseteq Range(body)
<1>1. /\ Len(body) \in Nat \ {0}
      /\ Range(body) = {body[i] : i \in 1..Len(body)}
  BY EmptySeq, RangeEquality
<1>2. Head(body) \in Range(body)
  BY <1>1, Head(body) = body[1]
<1>3. /\ Tail(body) \in Seq(S)
      /\ Len(Tail(body)) = Len(body) - 1
      /\ \A i \in 1..Len(Tail(body)) : Tail(body)[i] = body[i + 1]
  BY HeadTailProperties
<1>4. Range(Tail(body)) = {Tail(body)[i] : i \in 1..Len(Tail(body))}
  BY <1>3, RangeEquality
<1>5. ASSUME NEW i \in 1..Len(Tail(body))
      PROVE  Tail(body)[i] \in Range(body)
  BY <1>1, <1>3, <1>5
<1> QED
  BY <1>2, <1>3, <1>4, <1>5

\* A body put before another.
LEMMA BodyBefore ==
  ASSUME NEW S, NEW body \in Seq(S), NEW rest \in Seq(S)
  PROVE  body \o rest \in Seq(S) /\ Range(body \o rest) = Range(body) \cup Range(rest)
<1>1. body \o rest \in Seq(S)
  BY ConcatProperties
<1>2. Range(body \o rest) = Range(body) \cup Range(rest)
  BY RangeConcatenation
<1> QED
  BY <1>1, <1>2

\* No body but a constructor's or an action's holds a special statement.
LEMMA PlainBody ==
  ASSUME NEW body \in Seq(Plain)
  PROVE  body \in Seq(Calls) /\ Range(body) \cap Special = {}
<1>1. Range(body) \subseteq Plain
  BY RangeOfSeq
<1>2. Plain \subseteq Calls /\ Plain \cap Special = {}
  BY DEF Plain
<1> QED
  BY <1>1, <1>2, SeqMonotonic

LEMMA PlainCalls ==
  /\ FileCalls \cup CacheCalls \subseteq Plain
  /\ RunCalls \ {"readAndCacheRun", "setupCurrentRun"} \subseteq Plain
  /\ SubRunCalls \ {"readAndCacheSubRun", "setupCurrentSubRun"} \subseteq Plain
  /\ OtherCalls \ {"rewindInput"} \subseteq Plain
<1>1. Special \cap (FileCalls \cup CacheCalls) = {}
  BY DEF Special, FileCalls, Responses, CacheCalls
<1>2. Special \cap RunCalls = {"readAndCacheRun", "setupCurrentRun"}
  BY DEF Special, RunCalls
<1>3. Special \cap SubRunCalls = {"readAndCacheSubRun", "setupCurrentSubRun"}
  BY DEF Special, SubRunCalls
<1>4. Special \cap OtherCalls = {"rewindInput"}
  BY DEF Special, OtherCalls
<1> QED
  BY <1>1, <1>2, <1>3, <1>4 DEF Plain, Calls

LEMMA InnerIsPlain == Inner \subseteq Plain
  BY DEF Inner, Plain, Calls

LEMMA CleanUpIsPlain == ASSUME NEW d \in 0..3 PROVE CleanUp(d) \in Seq(Plain)
<1>1. CloseFiles \in Seq(FileCalls \cup CacheCalls)
  BY DEF CloseFiles, FileCalls, Responses, CacheCalls
<1>2. "finalizeRun" \in Plain /\ "finalizeAllSubRuns" \in Plain
  BY PlainCalls DEF RunCalls, SubRunCalls
<1> QED
  BY <1>1, <1>2, PlainCalls, SeqMonotonic DEF CleanUp

LEMMA NoCleanUpOutside == CleanUp(0) = <<>>
  BY DEF CleanUp

\* A body of one or two statements.
LEMMA ShortBody ==
  ASSUME NEW S, NEW a \in S, NEW b \in S
  PROVE  /\ <<a>> \in Seq(S) /\ Range(<<a>>) = {a}
         /\ <<a, b>> \in Seq(S) /\ Range(<<a, b>>) = {a, b}
<1>1. <<a>> \in Seq(S) /\ Len(<<a>>) = 1 /\ <<a>>[1] = a
  OBVIOUS
<1>2. <<a, b>> \in Seq(S) /\ Len(<<a, b>>) = 2 /\ <<a, b>>[1] = a /\ <<a, b>>[2] = b
  OBVIOUS
<1>3. Range(<<a>>) = {<<a>>[i] : i \in 1..1}
  BY <1>1, RangeEquality
<1>4. Range(<<a, b>>) = {<<a, b>>[i] : i \in 1..2}
  BY <1>2, RangeEquality
<1>5. Range(<<a>>) = {a}
  BY <1>1, <1>3
<1>6. Range(<<a, b>>) = {a, b}
  BY <1>2, <1>4
<1> QED
  BY <1>1, <1>2, <1>5, <1>6

LEMMA EmptyBody == ASSUME NEW S PROVE <<>> \in Seq(S) /\ Range(<<>>) = {}
<1>1. <<>> \in Seq(S) /\ Len(<<>>) = 0
  BY EmptySeq
<1>2. Range(<<>>) = {<<>>[i] : i \in 1..0}
  BY <1>1, RangeEquality
<1> QED
  BY <1>1, <1>2

\* The bodies that hold special statements, and what they need.
LEMMA ConstructorFits ==
  ASSUME NEW target \in Leaves
  PROVE  /\ Constructor(target) \in Seq(Calls)
         /\ Range(Constructor(target)) \cap Special \subseteq SpecialOf(target)
<1>1. CASE target \in {"Starting", "FirstFile", "EndingLoop", "Error", "HandleNewInputFile1",
                       "HandleNewInputFile2", "HandleNewInputFile3", "NewInputAndOutputFiles",
                       "HandleEvent"}
  <2>1. GoToNewInputFile \in Seq(FileCalls) /\ OpenFiles \in Seq(FileCalls)
    BY DEF GoToNewInputFile, OpenFiles, FileCalls, Responses
  <2>2. GoToNewInputFile \in Seq(Plain) /\ OpenFiles \in Seq(Plain)
    BY <2>1, PlainCalls, SeqMonotonic
  <2>3. CloseFiles \in Seq(Plain)
    BY CleanUpIsPlain DEF CleanUp
  <2>4. CloseFiles \o OpenFiles \in Seq(Plain)
    BY <2>2, <2>3, ConcatProperties
  <2>5. /\ "endOfLoop" \in Plain /\ "doErrorStuff" \in Plain
        /\ "readEvent" \in Plain /\ "processEvent" \in Plain
        /\ "beginRunIfNotDoneAlready" \in Plain /\ "markSubRunNonEmpty" \in Plain
    BY PlainCalls DEF OtherCalls, RunCalls, SubRunCalls
  <2>6. Constructor(target) \in Seq(Plain)
    BY <1>1, <2>2, <2>4, <2>5 DEF Constructor
  <2> QED
    BY <2>6, PlainBody
<1>2. CASE target \in RunTargets
  <2>1. "setupCurrentRun" \in Calls /\ "readAndCacheRun" \in Calls
    BY DEF Calls, RunCalls
  <2>2. Constructor(target) \in {<<"setupCurrentRun">>, <<"readAndCacheRun">>}
    BY <1>2 DEF Constructor, ContinueRun, RunTargets
  <2>3. /\ <<"setupCurrentRun">> \in Seq(Calls) /\ <<"readAndCacheRun">> \in Seq(Calls)
        /\ Range(<<"setupCurrentRun">>) = {"setupCurrentRun"}
        /\ Range(<<"readAndCacheRun">>) = {"readAndCacheRun"}
    BY <2>1, ShortBody
  <2>4. SpecialOf(target) = {"setupCurrentRun", "readAndCacheRun"}
    BY <1>2 DEF SpecialOf
  <2> QED
    BY <2>2, <2>3, <2>4
<1>3. CASE target \in SubRunTargets
  <2>1. /\ "setupCurrentSubRun" \in Calls /\ "readAndCacheSubRun" \in Calls
        /\ "finalizeSubRun" \in Calls /\ "finalizeSubRun" \notin Special
    BY DEF Calls, SubRunCalls, Special
  <2>2. Constructor(target) \in {<<"setupCurrentSubRun">>, <<"readAndCacheSubRun">>,
                                 <<"finalizeSubRun", "setupCurrentSubRun">>}
    BY <1>3 DEF Constructor, ChangeSubRun, SubRunTargets
  <2>3. target \notin RunTargets
    BY <1>3 DEF RunTargets, SubRunTargets
  <2>4. /\ <<"setupCurrentSubRun">> \in Seq(Calls) /\ <<"readAndCacheSubRun">> \in Seq(Calls)
        /\ Range(<<"setupCurrentSubRun">>) = {"setupCurrentSubRun"}
        /\ Range(<<"readAndCacheSubRun">>) = {"readAndCacheSubRun"}
    BY <2>1, ShortBody
  <2>5. /\ <<"finalizeSubRun", "setupCurrentSubRun">> \in Seq(Calls)
        /\ Range(<<"finalizeSubRun", "setupCurrentSubRun">>) = {"finalizeSubRun", "setupCurrentSubRun"}
    BY <2>1, ShortBody
  <2>6. SpecialOf(target) = {"setupCurrentSubRun", "readAndCacheSubRun"}
    BY <1>3, <2>3 DEF SpecialOf
  <2> QED
    BY <2>1, <2>2, <2>4, <2>5, <2>6
<1> QED
  BY <1>1, <1>2, <1>3 DEF Leaves, TopLeaves, FileLeaves, RunLeaves, SubRunLeaves, RunTargets,
                          SubRunTargets

LEMMA ActionFits ==
  ASSUME NEW action \in Actions, NEW target,
         action = "rewindAndPrepareForNextLoop" => target = "Starting"
  PROVE  /\ ActionBody(action) \in Seq(Calls)
         /\ Range(ActionBody(action)) \cap Special \subseteq SpecialOf(target)
<1>1. "finalizeRun" \in Calls /\ "rewindInput" \in Calls /\ "finalizeRun" \notin Special
  BY DEF Calls, RunCalls, OtherCalls, Special
<1>2. CASE action = "finalizeRun"
  <2>1. <<"finalizeRun">> \in Seq(Calls) /\ Range(<<"finalizeRun">>) = {"finalizeRun"}
    BY <1>1, ShortBody
  <2> QED
    BY <1>1, <1>2, <2>1 DEF ActionBody
<1>3. CASE action = "rewindAndPrepareForNextLoop"
  <2>1. <<"rewindInput">> \in Seq(Calls) /\ Range(<<"rewindInput">>) = {"rewindInput"}
    BY <1>1, ShortBody
  <2>2. SpecialOf(target) = {"rewindInput"}
    BY <1>3 DEF SpecialOf, RunTargets, SubRunTargets
  <2> QED
    BY <1>3, <2>1, <2>2 DEF ActionBody
<1>4. CASE action \notin {"finalizeRun", "rewindAndPrepareForNextLoop"}
  BY <1>4, EmptyBody DEF ActionBody
<1> QED
  BY <1>2, <1>3, <1>4

-----------------------------------------------------------------------------
(* What a statement does to the flow of control.                            *)

\* The rest of a body, or a plain body before it, fits as the body did.
LEMMA RestFits ==
  ASSUME Control, todo # <<>>, NEW body \in Seq(Plain)
  PROVE  /\ Tail(todo) \in Seq(Calls)
         /\ Range(Tail(todo)) \cap Special \subseteq SpecialOf(move.target)
         /\ body \o Tail(todo) \in Seq(Calls)
         /\ Range(body \o Tail(todo)) \cap Special \subseteq SpecialOf(move.target)
<1>1. /\ todo \in Seq(Calls)
      /\ Range(todo) \cap Special \subseteq SpecialOf(move.target)
  BY DEF Control, ControlOK, TodoFits
<1>2. /\ Tail(todo) \in Seq(Calls)
      /\ Range(Tail(todo)) \subseteq Range(todo)
  BY <1>1, RestOfBody
<1>3. body \in Seq(Calls) /\ Range(body) \cap Special = {}
  BY PlainBody
<1>4. ASSUME NEW rest \in Seq(Calls)
      PROVE  /\ body \o rest \in Seq(Calls)
             /\ Range(body \o rest) = Range(body) \cup Range(rest)
  BY <1>3, BodyBefore
<1> QED
  BY <1>1, <1>2, <1>3, <1>4

LEMMA ReturnsKeeps == Control /\ todo # <<>> /\ Returns => Control'
<1> SUFFICES ASSUME Control, todo # <<>>, Returns PROVE Control'
  OBVIOUS
<1>1. /\ Tail(todo) \in Seq(Calls)
      /\ Range(Tail(todo)) \cap Special \subseteq SpecialOf(move.target)
  BY RestFits, EmptyBody
<1>2. /\ todo' = Tail(todo)
      /\ UNCHANGED <<config, phase, depth, leaf, move, source, external, primary, swallowed,
                     errorState>>
  BY DEF Returns, failure
<1>3. ControlOK'
  BY <1>1, <1>2 DEF Control, ControlOK
<1>4. Nesting'
  BY <1>2 DEF Control, Nesting
<1>5. MoveFits' /\ TodoFits' /\ SourceFits'
  BY <1>1, <1>2 DEF Control, MoveFits, TodoFits, SourceFits
<1> QED
  BY <1>3, <1>4, <1>5 DEF Control

LEMMA ExpandsKeeps ==
  ASSUME Control, todo # <<>>, NEW body \in Seq(Plain), Expands(body)
  PROVE  Control'
<1>1. /\ body \o Tail(todo) \in Seq(Calls)
      /\ Range(body \o Tail(todo)) \cap Special \subseteq SpecialOf(move.target)
  BY RestFits
<1>2. /\ todo' = body \o Tail(todo)
      /\ UNCHANGED <<config, phase, depth, leaf, move, source, external, primary, swallowed,
                     errorState>>
  BY DEF Expands, failure
<1>3. ControlOK'
  BY <1>1, <1>2 DEF Control, ControlOK
<1>4. Nesting'
  BY <1>2 DEF Control, Nesting
<1>5. MoveFits' /\ TodoFits' /\ SourceFits'
  BY <1>1, <1>2 DEF Control, MoveFits, TodoFits, SourceFits
<1> QED
  BY <1>3, <1>4, <1>5 DEF Control

\* A destructor or exit() runs a plain body, so it fits any transition.
LEMMA CleanUpFits ==
  ASSUME NEW d \in 0..3, NEW target
  PROVE  /\ CleanUp(d) \in Seq(Calls)
         /\ Range(CleanUp(d)) \cap Special \subseteq SpecialOf(target)
  BY CleanUpIsPlain, PlainBody

LEMMA ThrowsKeeps == Control /\ todo # <<>> /\ Throws => Control'
<1> SUFFICES ASSUME Control, todo # <<>>, Throws PROVE Control'
  OBVIOUS
<1>1. /\ depth \in 0..3 /\ todo \in Seq(Calls)
      /\ UNCHANGED <<config, depth, leaf, move, source, external, errorState>>
  BY DEF Control, ControlOK, Throws
<1>2. <<>> \in Seq(Calls) /\ Range(<<>>) = {}
  BY EmptyBody
<1>3. CASE phase = "destroy" /\ todo' = <<>> /\ swallowed' = swallowed \cup {depth}
           /\ UNCHANGED <<phase, primary>>
  <2>1. ControlOK'
    BY <1>1, <1>2, <1>3 DEF Control, ControlOK, Nesting
  <2>2. Nesting' /\ MoveFits' /\ TodoFits' /\ SourceFits'
    BY <1>1, <1>2, <1>3 DEF Control, Nesting, MoveFits, TodoFits, SourceFits
  <2> QED
    BY <2>1, <2>2 DEF Control
<1>4. CASE phase # "destroy" /\ primary' = Head(todo) /\ phase' = Unwound(depth)
           /\ todo' = (IF phase = "exit" THEN <<>> ELSE CleanUp(depth)) /\ UNCHANGED swallowed
  <2>1. /\ todo' \in Seq(Calls)
        /\ Range(todo') \cap Special \subseteq SpecialOf(move.target)
    BY <1>1, <1>2, <1>4, CleanUpFits
  <2>2. Head(todo) \in Calls
    BY <1>1, HeadTailProperties
  <2>3. phase' \in {"terminated", "destroy"} /\ (phase' = "destroy" => depth >= 1)
    BY <1>1, <1>4 DEF Unwound
  <2>4. ControlOK'
    BY <1>1, <1>4, <2>1, <2>2, <2>3 DEF Control, ControlOK, Phases
  <2>5. phase' = "terminated" => todo' = <<>>
    BY <1>1, <1>4, NoCleanUpOutside DEF Unwound
  <2>6. Nesting'
    BY <1>1, <2>3, <2>5 DEF Nesting
  <2>7. MoveFits' /\ TodoFits' /\ SourceFits'
    BY <1>1, <2>1 DEF Control, MoveFits, TodoFits, SourceFits
  <2> QED
    BY <2>4, <2>6, <2>7 DEF Control
<1> QED
  BY <1>3, <1>4 DEF Throws

\* Every statement returns, throws, is replaced by a body, or loops.
Flow ==
  \/ Returns \/ Throws \/ \E body \in Seq(Inner) : Expands(body)
  \/ UNCHANGED <<config, phase, depth, leaf, move, todo, source, failure>>

\* A statement that does not end EndingLoop or Error keeps the control part of
\* the invariant.
LEMMA FlowKeeps ==
  ASSUME Control, WaitFits, todo # <<>>, Head(todo) \notin {"endOfLoop", "doErrorStuff"}, Flow
  PROVE  Control' /\ WaitFits'
<1>1. Control'
  <2>1. CASE UNCHANGED <<config, phase, depth, leaf, move, todo, source, failure>>
    BY <2>1 DEF Control, ControlOK, Nesting, MoveFits, TodoFits, SourceFits, failure
  <2>2. \A body \in Seq(Inner) : body \in Seq(Plain)
    BY InnerIsPlain, SeqMonotonic
  <2> QED
    BY <2>1, <2>2, ReturnsKeeps, ThrowsKeeps, ExpandsKeeps DEF Flow
<1>2. leaf' = leaf /\ (phase' = phase \/ phase' \in {"destroy", "terminated"})
  BY DEF Flow, Returns, Throws, Expands, Unwound
<1>3. phase # "stable"
  BY DEF Control, Nesting
<1>4. leaf \in {"EndingLoop", "Error"} => phase # "construct"
  <2>1. Constructor("EndingLoop") = <<"endOfLoop">> /\ Constructor("Error") = <<"doErrorStuff">>
    BY DEF Constructor
  <2>2. Head(<<"endOfLoop">>) = "endOfLoop" /\ Head(<<"doErrorStuff">>) = "doErrorStuff"
    OBVIOUS
  <2> QED
    BY <2>1, <2>2 DEF WaitFits
<1> QED
  BY <1>1, <1>2, <1>3, <1>4 DEF WaitFits

-----------------------------------------------------------------------------
(* Transitions.                                                             *)

LEMMA DepthType ==
  ASSUME NEW source_ \in Leaves, NEW target \in Leaves
  PROVE  ParentDepth(target) \in 0..3 /\ CommonDepth(source_, target) \in 0..3
  BY DEF ParentDepth, CommonDepth

LEMMA LeavingFits ==
  ASSUME leaf \in Leaves, NEW d \in 0..3, NEW m \in Moves, NEW handling \in BOOLEAN,
         m.action = "rewindAndPrepareForNextLoop" => m.target = "Starting",
         Leaving(d, m.target, m.action, handling)
  PROVE  /\ phase' \in {"exit", "destroy", "action"}
         /\ phase' \in {"exit", "destroy"} => d >= 1
         /\ todo' \in Seq(Calls)
         /\ Range(todo') \cap Special \subseteq SpecialOf(m.target)
<1>1. m.target \in Leaves /\ m.action \in Actions
  BY DEF Moves
<1>2. CommonDepth(leaf, m.target) \in 0..3
  BY <1>1, DepthType
<1>3. CASE d > CommonDepth(leaf, m.target)
  <2>1. phase' \in {"exit", "destroy"} /\ todo' = CleanUp(d)
    BY <1>3 DEF Leaving
  <2> QED
    BY <1>2, <1>3, <2>1, CleanUpFits
<1>4. CASE ~(d > CommonDepth(leaf, m.target))
  <2>1. phase' = "action" /\ todo' = ActionBody(m.action)
    BY <1>4 DEF Leaving
  <2> QED
    BY <1>1, <2>1, ActionFits
<1> QED
  BY <1>3, <1>4

\* The event of an item or of a constructor that starts a transition.
LEMMA ReactKeeps ==
  ASSUME TypeInv, NEW m \in Moves, NEW handling \in BOOLEAN, React(m, handling),
         m.action = "rewindAndPrepareForNextLoop" => m.target = "Starting",
         source' \in [run : Runs \cup {NoRun}, subRun : SubRunIDs \cup {NoSubRun}],
         m.target \in RunTargets => source'.run \in Runs,
         m.target \in SubRunTargets => source'.subRun \in SubRunIDs,
         external' \in BOOLEAN, posted' \in {"none", "Stop", "Restart"}, item' \in Items
  PROVE  TypeInv'
<1>1. /\ move' = m /\ Leaving(depth, m.target, m.action, handling)
      /\ UNCHANGED <<config, depth, leaf, primary, swallowed, errorState, handleRuns,
                     handleSubRuns, cache, files, begun, unwritten, written>>
  BY DEF React, objects, history
<1>2. leaf \in Leaves /\ depth \in 0..3
  BY DEF TypeInv, Control, ControlOK
<1>3. /\ phase' \in {"exit", "destroy", "action"}
      /\ phase' \in {"exit", "destroy"} => depth >= 1
      /\ todo' \in Seq(Calls)
      /\ Range(todo') \cap Special \subseteq SpecialOf(m.target)
  BY <1>1, <1>2, LeavingFits
<1>4. ControlOK'
  BY <1>1, <1>3 DEF TypeInv, Control, ControlOK, Phases
<1>5. Nesting' /\ WaitFits'
  BY <1>1, <1>3 DEF Nesting, WaitFits
<1>6. MoveFits' /\ TodoFits' /\ SourceFits'
  BY <1>1, <1>3 DEF MoveFits, TodoFits, SourceFits
<1>7. DataOK'
  BY <1>1 DEF TypeInv, DataOK
<1> QED
  BY <1>4, <1>5, <1>6, <1>7 DEF TypeInv, Control

\* Where the chart leads: never to a run or a sub-run but for such an item, and
\* to Starting alone with a rewinding.
LEMMA OnFileFits ==
  ASSUME NEW from \in Leaves \ {"EndingLoop", "Error"}, NEW close \in BOOLEAN
  PROVE  /\ OnFile(from, close) \in Moves
         /\ OnFile(from, close).target \notin RunTargets \cup SubRunTargets
         /\ OnFile(from, close).action # "rewindAndPrepareForNextLoop"
<1>1. /\ {"FirstFile", "NewInputAndOutputFiles", "HandleNewInputFile1", "HandleNewInputFile2",
          "HandleNewInputFile3"} \subseteq Leaves \ (RunTargets \cup SubRunTargets)
      /\ "startingNewLoop" \in Actions
  BY DEF Leaves, FileLeaves, RunLeaves, SubRunLeaves, RunTargets, SubRunTargets, Actions
<1>2. \/ OnFile(from, close) = [target |-> "FirstFile", action |-> "startingNewLoop"]
      \/ OnFile(from, close) \in {Goto("NewInputAndOutputFiles"), Goto("HandleNewInputFile1"),
                                  Goto("HandleNewInputFile2"), Goto("HandleNewInputFile3")}
  <2>1. CASE from = "Starting"
    BY <2>1 DEF OnFile
  <2>2. CASE from # "Starting" /\ close
    BY <2>2 DEF OnFile, TopLeaves
  <2>3. CASE from \in FileLeaves /\ ~close
    BY <2>3 DEF OnFile, TopLeaves, FileLeaves
  <2>4. CASE from \in RunLeaves /\ ~close
    BY <2>4 DEF OnFile, TopLeaves, FileLeaves, RunLeaves
  <2>5. CASE from \in SubRunLeaves /\ ~close
    BY <2>5 DEF OnFile, TopLeaves, FileLeaves, RunLeaves, SubRunLeaves
  <2> QED
    BY <2>1, <2>2, <2>3, <2>4, <2>5 DEF Leaves, TopLeaves
<1> QED
  BY <1>1, <1>2 DEF Goto, Moves, Actions

LEMMA OnRunFits ==
  ASSUME NEW from \in Leaves, NEW same \in BOOLEAN
  PROVE  /\ OnRun(from, same) \in Moves
         /\ OnRun(from, same).target \notin SubRunTargets
         /\ OnRun(from, same).action # "rewindAndPrepareForNextLoop"
<1>1. /\ {"Error", "NewRun", "ContinueRun1", "ContinueRun2"} \subseteq Leaves \ SubRunTargets
      /\ "finalizeRun" \in Actions
  BY DEF Leaves, TopLeaves, RunLeaves, SubRunLeaves, SubRunTargets, Actions
<1>2. OnRun(from, same) \in {Goto("Error"), Goto("NewRun"), Goto("ContinueRun1"),
                             Goto("ContinueRun2"), GotoNewRun}
  BY DEF OnRun
<1> QED
  BY <1>1, <1>2 DEF Goto, GotoNewRun, Moves, Actions

LEMMA OnSubRunFits ==
  ASSUME NEW from \in Leaves, NEW same \in BOOLEAN
  PROVE  /\ OnSubRun(from, same) \in Moves
         /\ OnSubRun(from, same).target \notin RunTargets
         /\ OnSubRun(from, same).action # "rewindAndPrepareForNextLoop"
<1>1. {"Error", "FirstSubRun", "AnotherSubRun", "ContinueSubRun"} \subseteq Leaves \ RunTargets
  BY DEF Leaves, TopLeaves, SubRunLeaves, RunTargets
<1>2. OnSubRun(from, same) \in {Goto("Error"), Goto("FirstSubRun"), Goto("AnotherSubRun"),
                                Goto("ContinueSubRun")}
  BY DEF OnSubRun
<1> QED
  BY <1>1, <1>2 DEF Goto, Moves, Actions

LEMMA OnOtherFits ==
  ASSUME NEW from \in Leaves, NEW m \in {OnEvent(from), OnStop(from), OnRestart(from)}
  PROVE  /\ m \in Moves
         /\ m.target \notin RunTargets \cup SubRunTargets
         /\ m.action = "rewindAndPrepareForNextLoop" => m.target = "Starting"
<1>1. /\ {"Error", "HandleEvent", "EndingLoop", "Starting"}
           \subseteq Leaves \ (RunTargets \cup SubRunTargets)
      /\ {"none", "startingNewLoop", "rewindAndPrepareForNextLoop"} \subseteq Actions
  BY DEF Leaves, TopLeaves, SubRunLeaves, RunTargets, SubRunTargets, Actions
<1>2. \/ m \in {Goto("Error"), Goto("HandleEvent")}
      \/ m = [target |-> "EndingLoop", action |-> "startingNewLoop"]
      \/ m = [target |-> "EndingLoop", action |-> "none"]
      \/ m = [target |-> "Starting", action |-> "rewindAndPrepareForNextLoop"]
  BY DEF OnEvent, OnStop, OnRestart
<1> QED
  BY <1>1, <1>2 DEF Goto, Moves, Actions

-----------------------------------------------------------------------------
(* The invariant holds initially and every step keeps it.                   *)

\* A composite is constructed with its fields as declared.
LEMMA NewFieldsTypes == NewHandleRuns \in RunFields /\ NewHandleSubRuns \in SubRunFields
<1>1. NewHandleRuns \in RunFields
  BY DEF NewHandleRuns, RunFields
<1>2. NewHandleSubRuns \in SubRunFields
  BY EmptySeq DEF NewHandleSubRuns, SubRunFields
<1> QED
  BY <1>1, <1>2

LEMMA NewFields ==
  ASSUME DataOK,
         handleRuns' = NewHandleRuns \/ handleRuns' = handleRuns,
         handleSubRuns' = NewHandleSubRuns \/ handleSubRuns' = handleSubRuns,
         UNCHANGED <<posted, item, cache, files, history>>
  PROVE  DataOK'
  BY NewFieldsTypes DEF DataOK, history

LEMMA TypeInvInit == Init => TypeInv
<1> SUFFICES ASSUME Init PROVE TypeInv
  OBVIOUS
<1>1. <<>> \in Seq(Calls) /\ Range(<<>>) = {}
  BY EmptyBody
<1>2. ControlOK
  <2>1. Goto("Starting") \in Moves /\ "Starting" \in Leaves
    BY DEF Goto, Moves, Actions, Leaves, TopLeaves
  <2>2. [run |-> NoRun, subRun |-> NoSubRun]
           \in [run : Runs \cup {NoRun}, subRun : SubRunIDs \cup {NoSubRun}]
    OBVIOUS
  <2>3. external \in BOOLEAN /\ errorState \in BOOLEAN
    BY DEF Init
  <2>4. depth \in 0..3 /\ swallowed \subseteq 1..3
    BY DEF Init
  <2>5. phase \in Phases /\ primary \in Calls \cup {"none"}
    BY DEF Init, Phases
  <2>6. /\ config \in Configurations /\ leaf \in Leaves /\ move \in Moves /\ todo \in Seq(Calls)
        /\ source \in [run : Runs \cup {NoRun}, subRun : SubRunIDs \cup {NoSubRun}]
    BY <1>1, <2>1, <2>2 DEF Init
  <2> QED
    BY <2>3, <2>4, <2>5, <2>6 DEF ControlOK
<1>3. Nesting /\ MoveFits /\ TodoFits /\ SourceFits /\ WaitFits
  BY <1>1 DEF Init, Nesting, MoveFits, TodoFits, SourceFits, WaitFits, Goto, RunTargets,
              SubRunTargets
<1>4. DataOK
  <2>1. NoneOf \in Ids /\ EmptyCache \in Cache
    BY DEF NoneOf, Ids, EmptyCache, Cache
  <2>2. /\ handleRuns = NewHandleRuns /\ handleSubRuns = NewHandleSubRuns
        /\ posted = "none" /\ item = "none" /\ cache = EmptyCache
        /\ files = [input |-> FALSE, output |-> FALSE]
        /\ begun = NoneOf /\ unwritten = NoneOf /\ written = NoneOf
    BY DEF Init
  <2>3. files \in [input : BOOLEAN, output : BOOLEAN]
    BY <2>2
  <2>4. posted \in {"none", "Stop", "Restart"} /\ item \in Items
    BY <2>2 DEF Items
  <2> QED
    BY <2>1, <2>2, <2>3, <2>4, NewFieldsTypes, Zenon DEF DataOK
<1> QED
  BY <1>2, <1>3, <1>4 DEF TypeInv, Control

LEMMA ItemKeeps == TypeInv /\ Item => TypeInv'
<1> SUFFICES ASSUME TypeInv, Item PROVE TypeInv'
  OBVIOUS
<1>1. /\ leaf \in Leaves /\ external \in BOOLEAN /\ item \in Items
      /\ posted \in {"none", "Stop", "Restart"}
      /\ source \in [run : Runs \cup {NoRun}, subRun : SubRunIDs \cup {NoSubRun}]
  BY DEF TypeInv, Control, ControlOK, DataOK
<1>2. CASE FileItem
  <2>1. leaf \notin {"EndingLoop", "Error"}
    BY <1>2 DEF FileItem, Idle, TypeInv, WaitFits
  <2>2. PICK close \in BOOLEAN : React(OnFile(leaf, close), FALSE)
    BY <1>2 DEF FileItem, ShouldWeCloseOutput
  <2>3. item' \in Items /\ UNCHANGED <<posted, source, external>>
    BY <1>2 DEF FileItem, Items
  <2> QED
    BY <1>1, <2>1, <2>2, <2>3, OnFileFits, ReactKeeps
<1>3. CASE RunItem
  <2>1. PICK r \in Runs : /\ source' = [source EXCEPT !.run = r]
                          /\ React(OnRun(leaf, r = handleRuns.currentRun), FALSE)
    BY <1>3 DEF RunItem
  <2>2. item' \in Items /\ UNCHANGED <<posted, external>>
    BY <1>3 DEF RunItem, Items
  <2>3. /\ source' \in [run : Runs \cup {NoRun}, subRun : SubRunIDs \cup {NoSubRun}]
        /\ source'.run \in Runs
    BY <1>1, <2>1
  <2>4. (r = handleRuns.currentRun) \in BOOLEAN
    OBVIOUS
  <2> QED
    BY <1>1, <2>1, <2>2, <2>3, <2>4, OnRunFits, ReactKeeps
<1>4. CASE SubRunItem
  <2>1. PICK n \in SubRunNums :
          /\ source.run # NoRun
          /\ source' = [source EXCEPT !.subRun = <<source.run, n>>]
          /\ React(OnSubRun(leaf, <<source.run, n>> = handleSubRuns.current), FALSE)
    BY <1>4 DEF SubRunItem
  <2>2. item' \in Items /\ UNCHANGED <<posted, external>>
    BY <1>4 DEF SubRunItem, Items
  <2>3. source.run \in Runs
    BY <1>1, <2>1
  <2>4. /\ source' \in [run : Runs \cup {NoRun}, subRun : SubRunIDs \cup {NoSubRun}]
        /\ source'.subRun \in SubRunIDs
    BY <1>1, <2>1, <2>3 DEF SubRunIDs
  <2>5. (<<source.run, n>> = handleSubRuns.current) \in BOOLEAN
    OBVIOUS
  <2> QED
    BY <1>1, <2>1, <2>2, <2>4, <2>5, OnSubRunFits, ReactKeeps
<1>5. CASE EventItem
  <2>1. React(OnEvent(leaf), FALSE) /\ item' \in Items /\ UNCHANGED <<posted, source, external>>
    BY <1>5 DEF EventItem, Items
  <2> QED
    BY <1>1, <2>1, OnOtherFits, ReactKeeps
<1>6. CASE StopItem
  <2>1. React(OnStop(leaf), FALSE) /\ UNCHANGED <<posted, item, source, external>>
    BY <1>6 DEF StopItem
  <2> QED
    BY <1>1, <2>1, OnOtherFits, ReactKeeps
<1>7. CASE SourceThrows
  <2>1. React(OnStop(leaf), TRUE) /\ external' \in BOOLEAN /\ UNCHANGED <<posted, item, source>>
    BY <1>7 DEF SourceThrows
  <2> QED
    BY <1>1, <2>1, OnOtherFits, ReactKeeps
<1> QED
  BY <1>2, <1>3, <1>4, <1>5, <1>6, <1>7 DEF Item

LEMMA LeaveCompositeKeeps == TypeInv /\ LeaveComposite => TypeInv'
<1> SUFFICES ASSUME TypeInv, LeaveComposite PROVE TypeInv'
  OBVIOUS
<1>1. /\ depth \in 1..3 /\ leaf \in Leaves /\ move \in Moves /\ external \in BOOLEAN
      /\ move.action = "rewindAndPrepareForNextLoop" => move.target = "Starting"
  BY DEF TypeInv, Control, ControlOK, Nesting, MoveFits, LeaveComposite
<1>2. /\ depth' = depth - 1
      /\ UNCHANGED <<config, leaf, move, source, external, primary, swallowed, errorState>>
  BY DEF LeaveComposite, failure
<1>3. /\ phase' \in {"exit", "destroy", "action", "terminated"}
      /\ phase' \in {"exit", "destroy"} => depth' >= 1
      /\ phase' = "terminated" => todo' = <<>>
      /\ todo' \in Seq(Calls)
      /\ Range(todo') \cap Special \subseteq SpecialOf(move.target)
  <2>1. CASE primary = "none"
    <3>1. Leaving(depth - 1, move.target, move.action, external)
      BY <2>1 DEF LeaveComposite
    <3> QED
      BY <1>1, <1>2, <3>1, LeavingFits
  <2>2. CASE primary # "none"
    <3>1. phase' = Unwound(depth - 1) /\ todo' = CleanUp(depth - 1)
      BY <2>2 DEF LeaveComposite
    <3> QED
      BY <1>1, <1>2, <3>1, CleanUpFits, NoCleanUpOutside DEF Unwound
  <2> QED
    BY <2>1, <2>2
<1>4. ControlOK'
  BY <1>1, <1>2, <1>3 DEF TypeInv, Control, ControlOK, Phases
<1>5. Nesting' /\ WaitFits'
  BY <1>3 DEF Nesting, WaitFits
<1>6. MoveFits' /\ TodoFits' /\ SourceFits'
  BY <1>2, <1>3 DEF TypeInv, Control, MoveFits, TodoFits, SourceFits
<1>7. DataOK'
  BY NewFields DEF TypeInv, LeaveComposite
<1> QED
  BY <1>4, <1>5, <1>6, <1>7 DEF TypeInv, Control

\* Entering the target, with or without a new composite around it.
LEMMA ConstructsTarget ==
  ASSUME TypeInv, phase' = "construct", leaf' = move.target, todo' = Constructor(move.target),
         depth' \in 0..3, DataOK',
         UNCHANGED <<config, move, source, failure>>
  PROVE  TypeInv'
<1>1. move.target \in Leaves
  BY DEF TypeInv, Control, ControlOK, Moves
<1>2. /\ todo' \in Seq(Calls)
      /\ Range(todo') \cap Special \subseteq SpecialOf(move.target)
  BY <1>1, ConstructorFits
<1>3. ControlOK'
  BY <1>1, <1>2 DEF TypeInv, Control, ControlOK, Phases, failure
<1>4. Nesting' /\ WaitFits'
  BY DEF Nesting, WaitFits
<1>5. MoveFits' /\ TodoFits' /\ SourceFits'
  BY <1>2 DEF TypeInv, Control, MoveFits, TodoFits, SourceFits
<1> QED
  BY <1>3, <1>4, <1>5 DEF TypeInv, Control

LEMMA ActionDoneKeeps == TypeInv /\ ActionDone => TypeInv'
<1> SUFFICES ASSUME TypeInv, ActionDone PROVE TypeInv'
  OBVIOUS
<1>1. /\ depth \in 0..3 /\ move.target \in Leaves
      /\ UNCHANGED <<config, depth, move, source, external, primary, swallowed, errorState>>
  BY DEF TypeInv, Control, ControlOK, Moves, ActionDone, failure
<1>2. DataOK'
  BY DEF TypeInv, DataOK, ActionDone, objects, history
<1>3. CASE depth < ParentDepth(move.target) /\ phase' = "enter" /\ UNCHANGED leaf
           /\ todo' = (IF depth = 0 THEN OpenFiles ELSE <<>>)
  <2>1. depth < 3
    BY <1>1, <1>3, DepthType
  <2>2. OpenFiles \in Seq(FileCalls) /\ <<>> \in Seq(Plain)
    BY EmptySeq DEF OpenFiles, FileCalls, Responses
  <2>3. todo' \in Seq(Plain)
    BY <1>3, <2>2, PlainCalls, SeqMonotonic
  <2>4. todo' \in Seq(Calls) /\ Range(todo') \cap Special = {}
    BY <2>3, PlainBody
  <2>5. ControlOK'
    BY <1>1, <1>3, <2>4 DEF TypeInv, Control, ControlOK, Phases
  <2>6. Nesting' /\ WaitFits'
    BY <1>1, <1>3, <2>1 DEF Nesting, WaitFits
  <2>7. MoveFits' /\ TodoFits' /\ SourceFits'
    BY <1>1, <2>4 DEF TypeInv, Control, MoveFits, TodoFits, SourceFits
  <2> QED
    BY <1>2, <2>5, <2>6, <2>7 DEF TypeInv, Control
<1>4. CASE phase' = "construct" /\ leaf' = move.target /\ todo' = Constructor(move.target)
  BY <1>1, <1>2, <1>4, ConstructsTarget DEF failure
<1> QED
  BY <1>3, <1>4 DEF ActionDone

LEMMA EnterCompositeKeeps == TypeInv /\ EnterComposite => TypeInv'
<1> SUFFICES ASSUME TypeInv, EnterComposite PROVE TypeInv'
  OBVIOUS
<1>1. depth' \in 0..3
  BY DEF EnterComposite, TypeInv, Control, ControlOK, Nesting
<1>2. DataOK'
  BY NewFields DEF TypeInv, EnterComposite
<1> QED
  BY <1>1, <1>2, ConstructsTarget DEF EnterComposite

LEMMA ConstructorDoneKeeps == TypeInv /\ ConstructorDone => TypeInv'
<1> SUFFICES ASSUME TypeInv, ConstructorDone PROVE TypeInv'
  OBVIOUS
<1>1. /\ phase = "construct" /\ phase' = "stable" /\ todo = <<>>
      /\ UNCHANGED <<config, depth, leaf, move, todo, posted, item, source, external, primary,
                     swallowed, errorState, handleRuns, handleSubRuns, cache, files, begun,
                     unwritten, written>>
  BY DEF ConstructorDone, failure, objects, history
<1>2. WaitFits'
  <2>1. Constructor("EndingLoop") # <<>> /\ Constructor("Error") # <<>>
    BY DEF Constructor
  <2> QED
    BY <1>1, <2>1 DEF TypeInv, WaitFits
<1>3. ControlOK' /\ DataOK'
  BY <1>1 DEF TypeInv, Control, ControlOK, DataOK, Phases
<1>4. Nesting' /\ MoveFits' /\ TodoFits' /\ SourceFits'
  BY <1>1 DEF TypeInv, Control, Nesting, MoveFits, TodoFits, SourceFits
<1> QED
  BY <1>2, <1>3, <1>4 DEF TypeInv, Control

LEMMA ProcessPostedKeeps == TypeInv /\ ProcessPosted => TypeInv'
<1> SUFFICES ASSUME TypeInv, ProcessPosted PROVE TypeInv'
  OBVIOUS
<1>1. /\ leaf \in Leaves /\ external \in BOOLEAN /\ item \in Items /\ todo = <<>>
      /\ source \in [run : Runs \cup {NoRun}, subRun : SubRunIDs \cup {NoSubRun}]
  BY DEF TypeInv, Control, ControlOK, DataOK, Nesting, ProcessPosted
<1>2. posted' = "none" /\ UNCHANGED <<item, source, external>>
  BY DEF ProcessPosted
<1>3. ASSUME NEW m \in {OnStop(leaf), OnRestart(leaf)}, React(m, external)
      PROVE  TypeInv'
  BY <1>1, <1>2, <1>3, OnOtherFits, ReactKeeps
<1>4. CASE phase' = "terminated"
           /\ UNCHANGED <<config, depth, leaf, move, todo, primary, swallowed, errorState,
                          objects, cache, files, history>>
  <2>1. ControlOK' /\ DataOK'
    BY <1>2, <1>4 DEF TypeInv, Control, ControlOK, DataOK, Phases, objects, history
  <2>2. Nesting' /\ MoveFits' /\ TodoFits' /\ SourceFits' /\ WaitFits'
    BY <1>1, <1>2, <1>4 DEF TypeInv, Control, Nesting, MoveFits, TodoFits, SourceFits, WaitFits
  <2> QED
    BY <2>1, <2>2 DEF TypeInv, Control
<1> QED
  BY <1>3, <1>4 DEF ProcessPosted

-----------------------------------------------------------------------------
(* Statements.                                                              *)

\* A statement that reads finds what it reads offered by the source.
LEMMA OfferedWhenRead ==
  ASSUME Control, todo # <<>>
  PROVE  /\ Head(todo) \in {"setupCurrentRun", "readAndCacheRun"} => source.run \in Runs
         /\ Head(todo) \in {"setupCurrentSubRun", "readAndCacheSubRun"} => source.subRun \in SubRunIDs
         /\ Head(todo) = "rewindInput" => move.target = "Starting"
<1>1. Head(todo) \in Range(todo)
  BY RestOfBody DEF Control, ControlOK
<1>2. Head(todo) \in Special => Head(todo) \in SpecialOf(move.target)
  BY <1>1 DEF Control, TodoFits
<1>3. CASE move.target \in RunTargets
  BY <1>2, <1>3 DEF Control, SourceFits, Special, SpecialOf
<1>4. CASE move.target \in SubRunTargets
  BY <1>2, <1>4 DEF Control, SourceFits, Special, SpecialOf, RunTargets, SubRunTargets
<1>5. CASE move.target \notin RunTargets \cup SubRunTargets
  BY <1>2, <1>5 DEF Special, SpecialOf
<1> QED
  BY <1>3, <1>4, <1>5

LEMMA StatementKeeps ==
  ASSUME TypeInv, NEW call, call \notin {"endOfLoop", "doErrorStuff"}, Running(call), Flow, DataOK'
  PROVE  TypeInv'
  BY FlowKeeps DEF TypeInv, Running

LEMMA FileStepKeeps ==
  ASSUME TypeInv
  PROVE  ReadFile \/ CloseInputFile \/ OpenOutputFiles \/ CloseOutputFiles \/ Respond => TypeInv'
<1>1. /\ files \in [input : BOOLEAN, output : BOOLEAN]
      /\ NoneOf \in Ids
  BY DEF TypeInv, DataOK, NoneOf, Ids
<1>2. ASSUME ReadFile PROVE TypeInv'
  <2>1. Running("readFile") /\ Flow
    BY <1>2 DEF ReadFile, Flow
  <2>2. files' \in [input : BOOLEAN, output : BOOLEAN] /\ item' \in Items
    BY <1>1, <1>2 DEF ReadFile, TypeInv, DataOK, Items
  <2>3. DataOK'
    BY <1>2, <2>2 DEF ReadFile, TypeInv, DataOK, objects, history
  <2> QED
    BY <2>1, <2>3, StatementKeeps
<1>3. ASSUME CloseInputFile PROVE TypeInv'
  <2>1. Running("closeInputFile") /\ Flow
    BY <1>3 DEF CloseInputFile, Flow
  <2>2. files' \in [input : BOOLEAN, output : BOOLEAN]
    BY <1>1, <1>3 DEF CloseInputFile
  <2>3. DataOK'
    BY <1>3, <2>2 DEF CloseInputFile, TypeInv, DataOK, objects, history
  <2> QED
    BY <2>1, <2>3, StatementKeeps
<1>4. ASSUME OpenOutputFiles PROVE TypeInv'
  <2>1. Running("openOutputFiles") /\ Flow
    BY <1>4 DEF OpenOutputFiles, Flow
  <2>2. files' \in [input : BOOLEAN, output : BOOLEAN]
    BY <1>1, <1>4 DEF OpenOutputFiles
  <2>3. DataOK'
    BY <1>4, <2>2 DEF OpenOutputFiles, TypeInv, DataOK, objects, history
  <2> QED
    BY <2>1, <2>3, StatementKeeps
<1>5. ASSUME CloseOutputFiles PROVE TypeInv'
  <2>1. Running("closeOutputFiles") /\ Flow
    BY <1>5 DEF CloseOutputFiles, Flow
  <2>2. files' \in [input : BOOLEAN, output : BOOLEAN] /\ written' \in Ids
    BY <1>1, <1>5 DEF CloseOutputFiles, TypeInv, DataOK
  <2>3. DataOK'
    BY <1>5, <2>2 DEF CloseOutputFiles, TypeInv, DataOK, objects
  <2> QED
    BY <2>1, <2>3, StatementKeeps
<1>6. ASSUME Respond PROVE TypeInv'
  <2>1. PICK call \in Responses : Running(call)
    BY <1>6 DEF Respond
  <2>2. Flow /\ call \notin {"endOfLoop", "doErrorStuff"}
    BY <1>6 DEF Respond, Flow, Responses
  <2>3. DataOK'
    BY <1>6 DEF Respond, TypeInv, DataOK, objects, history
  <2> QED
    BY <2>1, <2>2, <2>3, StatementKeeps
<1> QED
  BY <1>2, <1>3, <1>4, <1>5, <1>6

\* Writing and caching keep the types, when what is written is known.
LEMMA WritesRunType ==
  ASSUME DataOK, NEW r, WritesRun(r), r \in Runs
  PROVE  cache' \in Cache /\ unwritten' \in Ids /\ written' \in Ids
  BY DEF DataOK, WritesRun, DeleteRun, Cache, Ids

LEMMA WritesSubRunType ==
  ASSUME DataOK, NEW sr, WritesSubRun(sr), sr \in SubRunIDs
  PROVE  cache' \in Cache /\ unwritten' \in Ids /\ written' \in Ids
  BY DEF DataOK, WritesSubRun, DeleteSubRun, Cache, Ids

LEMMA CachesRunType ==
  ASSUME DataOK, source.run \in Runs, CachesRun \/ CachesNothing
  PROVE  cache' \in Cache /\ unwritten' \in Ids
<1>1. CASE CachesRun
  <2>1. cache' \in Cache
    BY <1>1 DEF DataOK, CachesRun, InsertRun, Cache
  <2>2. unwritten' \in Ids
    BY <1>1 DEF DataOK, CachesRun, Ids
  <2> QED
    BY <2>1, <2>2
<1>2. CASE CachesNothing
  BY <1>2 DEF DataOK, CachesNothing
<1> QED
  BY <1>1, <1>2

LEMMA CachesSubRunType ==
  ASSUME DataOK, source.subRun \in SubRunIDs, CachesSubRun \/ CachesNothing
  PROVE  cache' \in Cache /\ unwritten' \in Ids
<1>1. CASE CachesSubRun
  <2>1. cache' \in Cache
    BY <1>1 DEF DataOK, CachesSubRun, InsertSubRun, Cache
  <2>2. unwritten' \in Ids
    BY <1>1 DEF DataOK, CachesSubRun, Ids
  <2> QED
    BY <2>1, <2>2
<1>2. CASE CachesNothing
  BY <1>2 DEF DataOK, CachesNothing
<1> QED
  BY <1>1, <1>2

LEMMA CacheStepKeeps ==
  ASSUME TypeInv
  PROVE  WriteSubRunCache \/ WriteRunCache \/ ReadAndCacheRun \/ ReadAndCacheSubRun => TypeInv'
<1>1. Control /\ DataOK
  BY DEF TypeInv
<1>2. ASSUME WriteSubRunCache PROVE TypeInv'
  <2>1. Running("writeSubRunCache") /\ Flow
    BY <1>2 DEF WriteSubRunCache, Flow
  <2>2. cache' \in Cache /\ unwritten' \in Ids /\ written' \in Ids
    <3>1. CASE UNCHANGED <<cache, unwritten, written>>
      BY <1>1, <3>1 DEF DataOK
    <3>2. ASSUME NEW sr \in cache.subRuns, WritesSubRun(sr)
          PROVE  cache' \in Cache /\ unwritten' \in Ids /\ written' \in Ids
      BY <1>1, <3>2, WritesSubRunType DEF DataOK, Cache
    <3> QED
      BY <1>2, <3>1, <3>2 DEF WriteSubRunCache
  <2>3. DataOK'
    BY <1>1, <1>2, <2>2 DEF WriteSubRunCache, DataOK, objects
  <2> QED
    BY <2>1, <2>3, StatementKeeps
<1>3. ASSUME WriteRunCache PROVE TypeInv'
  <2>1. Running("writeRunCache") /\ Flow
    BY <1>3 DEF WriteRunCache, Flow
  <2>2. cache' \in Cache /\ unwritten' \in Ids /\ written' \in Ids
    <3>1. CASE UNCHANGED <<cache, unwritten, written>>
      BY <1>1, <3>1 DEF DataOK
    <3>2. ASSUME NEW r \in cache.runs, WritesRun(r)
          PROVE  cache' \in Cache /\ unwritten' \in Ids /\ written' \in Ids
      BY <1>1, <3>2, WritesRunType DEF DataOK, Cache
    <3> QED
      BY <1>3, <3>1, <3>2 DEF WriteRunCache
  <2>3. DataOK'
    BY <1>1, <1>3, <2>2 DEF WriteRunCache, DataOK, objects
  <2> QED
    BY <2>1, <2>3, StatementKeeps
<1>4. ASSUME ReadAndCacheRun PROVE TypeInv'
  <2>1. Running("readAndCacheRun") /\ Flow
    BY <1>4 DEF ReadAndCacheRun, Flow
  <2>2. source.run \in Runs
    BY <1>1, <2>1, OfferedWhenRead DEF Running
  <2>3. cache' \in Cache /\ unwritten' \in Ids
    BY <1>1, <1>4, <2>2, CachesRunType DEF ReadAndCacheRun
  <2>4. DataOK'
    BY <1>1, <1>4, <2>3 DEF ReadAndCacheRun, DataOK, objects, Items
  <2> QED
    BY <2>1, <2>4, StatementKeeps
<1>5. ASSUME ReadAndCacheSubRun PROVE TypeInv'
  <2>1. Running("readAndCacheSubRun") /\ Flow
    BY <1>5 DEF ReadAndCacheSubRun, Flow
  <2>2. source.subRun \in SubRunIDs
    BY <1>1, <2>1, OfferedWhenRead DEF Running
  <2>3. cache' \in Cache /\ unwritten' \in Ids
    BY <1>1, <1>5, <2>2, CachesSubRunType DEF ReadAndCacheSubRun
  <2>4. DataOK'
    BY <1>1, <1>5, <2>3 DEF ReadAndCacheSubRun, DataOK, objects, Items
  <2> QED
    BY <2>1, <2>4, StatementKeeps
<1> QED
  BY <1>2, <1>3, <1>4, <1>5

\* The bodies that statements of HandleRuns and HandleSubRuns are replaced by.
LEMMA BodiesAreInner ==
  /\ <<>> \in Seq(Inner) /\ <<"beginRun">> \in Seq(Inner)
  /\ (IF handleRuns.beginRunCalled THEN <<"endRun">> ELSE <<>>)
        \o (IF WritesRunsAtEnd THEN <<"writeRun">> ELSE <<>>) \o <<"clearCurrentRun">> \in Seq(Inner)
  /\ <<"endSubRun">> \o WriteIfAtEnd \o <<"clearCurrentSubRun">> \in Seq(Inner)
  /\ <<"beginSubRun", "endSubRun">> \o WriteIfAtEnd \o <<"clearCurrentSubRun">> \in Seq(Inner)
  /\ <<"beginSubRun", "endSubRun">> \o WriteIfAtEnd \o <<"nextOutstanding">> \in Seq(Inner)
  /\ WriteIfAtEnd \o <<"clearCurrentSubRun">> \in Seq(Inner)
  /\ <<"clearCurrentSubRun">> \in Seq(Inner)
  /\ <<"finalizeSubRun", "finalizeOutstandingSubRuns">> \in Seq(Inner)
  /\ <<"finalizeOutstandingSubRuns", "startSubRun">> \in Seq(Inner)
  /\ <<"nextOutstanding">> \in Seq(Inner)
  /\ <<"beginSubRun", "subRunStarted">> \in Seq(Inner)
<1>1. /\ "beginRun" \in Inner /\ "endRun" \in Inner /\ "writeRun" \in Inner
      /\ "clearCurrentRun" \in Inner
  BY DEF Inner, RunCalls, Special
<1>2. /\ "beginSubRun" \in Inner /\ "endSubRun" \in Inner /\ "writeSubRun" \in Inner
      /\ "clearCurrentSubRun" \in Inner /\ "nextOutstanding" \in Inner
      /\ "finalizeSubRun" \in Inner /\ "finalizeOutstandingSubRuns" \in Inner
      /\ "startSubRun" \in Inner /\ "subRunStarted" \in Inner
  BY DEF Inner, SubRunCalls, Special
<1>3. /\ <<>> \in Seq(Inner) /\ <<"beginRun">> \in Seq(Inner) /\ <<"endRun">> \in Seq(Inner)
      /\ <<"writeRun">> \in Seq(Inner) /\ <<"clearCurrentRun">> \in Seq(Inner)
  BY <1>1, EmptySeq
<1>4. /\ <<"endSubRun">> \in Seq(Inner) /\ <<"beginSubRun", "endSubRun">> \in Seq(Inner)
      /\ <<"writeSubRun">> \in Seq(Inner) /\ <<"clearCurrentSubRun">> \in Seq(Inner)
      /\ <<"nextOutstanding">> \in Seq(Inner)
      /\ <<"finalizeSubRun", "finalizeOutstandingSubRuns">> \in Seq(Inner)
      /\ <<"finalizeOutstandingSubRuns", "startSubRun">> \in Seq(Inner)
      /\ <<"beginSubRun", "subRunStarted">> \in Seq(Inner)
  BY <1>2
<1>5. WriteIfAtEnd \in Seq(Inner)
  BY <1>3, <1>4 DEF WriteIfAtEnd
<1>6. ASSUME NEW s \in Seq(Inner), NEW t \in Seq(Inner)
      PROVE  s \o t \in Seq(Inner)
  BY ConcatProperties
<1>7. ASSUME NEW s \in Seq(Inner), NEW t \in Seq(Inner), NEW u \in Seq(Inner)
      PROVE  s \o t \o u \in Seq(Inner)
  BY <1>6
<1> QED
  BY <1>3, <1>4, <1>5, <1>6, <1>7


LEMMA RunStepKeeps == TypeInv /\ RunStep => TypeInv'
<1> SUFFICES ASSUME TypeInv, RunStep PROVE TypeInv'
  OBVIOUS
<1>1. Control /\ DataOK /\ handleRuns \in RunFields
  BY DEF TypeInv, DataOK
<1>2. CASE ReadAndCacheRun
  BY <1>2, CacheStepKeeps
<1>3. CASE SetupCurrentRun
  <2>1. Running("setupCurrentRun")
    BY <1>3 DEF SetupCurrentRun
  <2>2. Flow
    BY <1>3, BodiesAreInner DEF SetupCurrentRun, Flow
  <2>3. source.run \in Runs
    BY <1>1, <2>1, OfferedWhenRead DEF Running
  <2>4. cache' \in Cache /\ unwritten' \in Ids
    BY <1>1, <1>3, <2>3, CachesRunType DEF SetupCurrentRun
  <2>5. handleRuns' \in RunFields
    BY <1>1, <1>3, <2>3 DEF SetupCurrentRun, RunFields
  <2>6. item' \in Items /\ UNCHANGED <<posted, handleSubRuns, files, begun, written>>
    BY <1>1, <1>3 DEF SetupCurrentRun, DataOK, Items
  <2>7. DataOK'
    BY <1>1, <2>4, <2>5, <2>6 DEF DataOK
  <2> QED
    BY <2>1, <2>2, <2>7, StatementKeeps
<1>4. CASE BeginRunIfNotDoneAlready
  <2>1. Running("beginRunIfNotDoneAlready") /\ Flow
    BY <1>4, BodiesAreInner DEF BeginRunIfNotDoneAlready, Flow
  <2>2. DataOK'
    BY <1>1, <1>4 DEF BeginRunIfNotDoneAlready, DataOK, objects, history
  <2> QED
    BY <2>1, <2>2, StatementKeeps
<1>5. CASE BeginRun
  <2>1. Running("beginRun") /\ Flow
    BY <1>5 DEF BeginRun, Flow
  <2>2. handleRuns' \in RunFields
    BY <1>1, <1>5 DEF BeginRun, RunFields
  <2>3. begun' \in Ids
    <3>1. RunFoundOrFlush => {handleRuns.currentRun} \ FlushRuns \subseteq Runs
      BY <1>1 DEF RunFoundOrFlush, FindsRun, DataOK, Cache
    <3> QED
      BY <1>1, <1>5, <3>1 DEF BeginRun, DataOK, Ids
  <2>4. DataOK'
    BY <1>1, <1>5, <2>2, <2>3 DEF BeginRun, DataOK
  <2> QED
    BY <2>1, <2>4, StatementKeeps
<1>6. CASE EndRun
  <2>1. Running("endRun") /\ Flow
    BY <1>6 DEF EndRun, Flow
  <2>2. handleRuns' \in RunFields
    BY <1>1, <1>6 DEF EndRun, RunFields
  <2>3. begun' \in Ids
    BY <1>1, <1>6 DEF EndRun, DataOK, Ids
  <2>4. DataOK'
    BY <1>1, <1>6, <2>2, <2>3 DEF EndRun, DataOK
  <2> QED
    BY <2>1, <2>4, StatementKeeps
<1>7. CASE FinalizeRun
  <2>1. Running("finalizeRun") /\ Flow
    BY <1>7, BodiesAreInner DEF FinalizeRun, Flow
  <2>2. handleRuns' \in RunFields
    BY <1>1, <1>7 DEF FinalizeRun, RunFields
  <2>3. DataOK'
    BY <1>1, <1>7, <2>2 DEF FinalizeRun, DataOK, history
  <2> QED
    BY <2>1, <2>3, StatementKeeps
<1>8. CASE WriteRun
  <2>1. Running("writeRun") /\ Flow
    BY <1>8 DEF WriteRun, Flow
  <2>2. RunFoundOrFlush => handleRuns.currentRun \in Runs
    BY <1>1, IdAssumption DEF RunFoundOrFlush, FindsRun, DataOK, Cache
  <2>3. handleRuns' \in RunFields
    BY <1>1, <1>8, <2>2 DEF WriteRun, RunFields
  <2>4. cache' \in Cache /\ unwritten' \in Ids /\ written' \in Ids
    <3>1. CASE UNCHANGED <<handleRuns, cache, unwritten, written>>
      BY <1>1, <3>1 DEF DataOK
    <3>2. CASE RunFoundOrFlush /\ WritesRun(handleRuns.currentRun)
      BY <1>1, <2>2, <3>2, WritesRunType
    <3> QED
      BY <1>8, <3>1, <3>2 DEF WriteRun
  <2>5. DataOK'
    BY <1>1, <1>8, <2>3, <2>4 DEF WriteRun, DataOK
  <2> QED
    BY <2>1, <2>5, StatementKeeps
<1>9. CASE ClearCurrentRun
  <2>1. Running("clearCurrentRun") /\ Flow
    BY <1>9 DEF ClearCurrentRun, Flow
  <2>2. handleRuns' \in RunFields
    BY <1>1, <1>9 DEF ClearCurrentRun, RunFields
  <2>3. DataOK'
    BY <1>1, <1>9, <2>2 DEF ClearCurrentRun, DataOK, history
  <2> QED
    BY <2>1, <2>3, StatementKeeps
<1> QED
  BY <1>2, <1>3, <1>4, <1>5, <1>6, <1>7, <1>8, <1>9 DEF RunStep

\* A sub-run found in the cache, or a flush marker, is a sub-run.
LEMMA SubjectType ==
  ASSUME DataOK, SubRunFoundOrFlush
  PROVE  Subject \in SubRunIDs
  BY DEF SubRunFoundOrFlush, FindsSubRun, FlushSubRuns, DataOK, Cache

LEMMA SubRunStepKeeps == TypeInv /\ SubRunStep => TypeInv'
<1> SUFFICES ASSUME TypeInv, SubRunStep PROVE TypeInv'
  OBVIOUS
<1>1. Control /\ DataOK /\ handleSubRuns \in SubRunFields
  BY DEF TypeInv, DataOK
<1>2. CASE ReadAndCacheSubRun
  BY <1>2, CacheStepKeeps
<1>3. CASE SetupCurrentSubRun
  <2>1. Running("setupCurrentSubRun") /\ Flow
    BY <1>3 DEF SetupCurrentSubRun, Flow
  <2>2. source.subRun \in SubRunIDs
    BY <1>1, <2>1, OfferedWhenRead DEF Running
  <2>3. cache' \in Cache /\ unwritten' \in Ids
    BY <1>1, <1>3, <2>2, CachesSubRunType DEF SetupCurrentSubRun
  <2>4. handleSubRuns' \in SubRunFields
    BY <1>1, <1>3, <2>2 DEF SetupCurrentSubRun, AcceptedSubRun, SubRunFields
  <2>5. item' \in Items /\ UNCHANGED <<posted, handleRuns, files, begun, written>>
    BY <1>1, <1>3 DEF SetupCurrentSubRun, DataOK, Items
  <2>6. DataOK'
    BY <1>1, <2>3, <2>4, <2>5 DEF DataOK
  <2> QED
    BY <2>1, <2>6, StatementKeeps
<1>4. CASE FinalizeAllSubRuns
  <2>1. Running("finalizeAllSubRuns") /\ Flow
    BY <1>4, BodiesAreInner DEF FinalizeAllSubRuns, Flow
  <2>2. DataOK'
    BY <1>1, <1>4 DEF FinalizeAllSubRuns, DataOK, objects, history
  <2> QED
    BY <2>1, <2>2, StatementKeeps
<1>5. CASE FinalizeSubRun
  <2>1. Running("finalizeSubRun") /\ Flow
    BY <1>5, BodiesAreInner DEF FinalizeSubRun, Flow
  <2>2. handleSubRuns' \in SubRunFields
    <3>1. /\ handleSubRuns.unhandled \in Seq(SubRunIDs \cup {NoSubRun})
          /\ handleSubRuns.current \in SubRunIDs \cup {NoSubRun}
      BY <1>1 DEF SubRunFields
    <3>2. Append(handleSubRuns.unhandled, handleSubRuns.current) \in Seq(SubRunIDs \cup {NoSubRun})
      BY <3>1, AppendProperties
    <3>3. CASE handleSubRuns' = [handleSubRuns EXCEPT !.exception = TRUE]
      BY <1>1, <3>3 DEF SubRunFields
    <3>4. CASE handleSubRuns' = [handleSubRuns EXCEPT !.exception = TRUE,
                                    !.unhandled = Append(@, handleSubRuns.current),
                                    !.previous = @ \cup {handleSubRuns.current}]
      BY <1>1, <3>1, <3>2, <3>4 DEF SubRunFields
    <3> QED
      BY <1>5, <3>3, <3>4 DEF FinalizeSubRun
  <2>3. UNCHANGED <<posted, item, handleRuns, cache, files, begun, unwritten, written>>
    BY <1>5 DEF FinalizeSubRun, history
  <2>4. DataOK'
    BY <1>1, <2>2, <2>3 DEF DataOK
  <2> QED
    BY <2>1, <2>4, StatementKeeps
<1>6. CASE ClearCurrentSubRun
  <2>1. Running("clearCurrentSubRun") /\ Flow
    BY <1>6, BodiesAreInner DEF ClearCurrentSubRun, Flow
  <2>2. handleSubRuns' \in SubRunFields
    BY <1>1, <1>6, EmptySeq DEF ClearCurrentSubRun, SubRunFields
  <2>3. UNCHANGED <<posted, item, handleRuns, cache, files, begun, unwritten, written>>
    BY <1>6 DEF ClearCurrentSubRun, history
  <2>4. DataOK'
    BY <1>1, <2>2, <2>3 DEF DataOK
  <2> QED
    BY <2>1, <2>4, StatementKeeps
<1>7. CASE FinalizeOutstandingSubRuns
  <2>1. Running("finalizeOutstandingSubRuns") /\ Flow
    BY <1>7, BodiesAreInner DEF FinalizeOutstandingSubRuns, Flow
  <2>2. handleSubRuns' \in SubRunFields
    BY <1>1, <1>7, EmptySeq DEF FinalizeOutstandingSubRuns, SubRunFields
  <2>3. UNCHANGED <<posted, item, handleRuns, cache, files, begun, unwritten, written>>
    BY <1>7 DEF FinalizeOutstandingSubRuns, history
  <2>4. DataOK'
    BY <1>1, <2>2, <2>3 DEF DataOK
  <2> QED
    BY <2>1, <2>4, StatementKeeps
<1>8. CASE NextOutstanding
  <2>1. Running("nextOutstanding") /\ Flow
    BY <1>8, BodiesAreInner DEF NextOutstanding, Flow
  <2>2. handleSubRuns' \in SubRunFields
    <3>1. CASE handleSubRuns' = [handleSubRuns EXCEPT !.iter = @ + 1]
      BY <1>1, <3>1 DEF SubRunFields
    <3>2. CASE handleSubRuns' = [handleSubRuns EXCEPT !.iter = 0, !.unhandled = <<>>, !.exception = FALSE]
      <4>1. <<>> \in Seq(SubRunIDs \cup {NoSubRun})
        BY EmptySeq
      <4> QED
        BY <1>1, <3>2, <4>1 DEF SubRunFields
    <3> QED
      BY <1>8, <3>1, <3>2 DEF NextOutstanding
  <2>3. UNCHANGED <<posted, item, handleRuns, cache, files, begun, unwritten, written>>
    BY <1>8 DEF NextOutstanding, history
  <2>4. DataOK'
    BY <1>1, <2>2, <2>3 DEF DataOK
  <2> QED
    BY <2>1, <2>4, StatementKeeps
<1>9. CASE MarkSubRunNonEmpty
  <2>1. Running("markSubRunNonEmpty") /\ Flow
    BY <1>9, BodiesAreInner DEF MarkSubRunNonEmpty, Flow
  <2>2. DataOK'
    BY <1>1, <1>9 DEF MarkSubRunNonEmpty, DataOK, objects, history
  <2> QED
    BY <2>1, <2>2, StatementKeeps
<1>10. CASE StartSubRun
  <2>1. Running("startSubRun") /\ Flow
    BY <1>10, BodiesAreInner DEF StartSubRun, Flow
  <2>2. handleSubRuns' \in SubRunFields
    BY <1>1, <1>10, EmptySeq DEF StartSubRun, SubRunFields
  <2>3. UNCHANGED <<posted, item, handleRuns, cache, files, begun, unwritten, written>>
    BY <1>10 DEF StartSubRun, history
  <2>4. DataOK'
    BY <1>1, <2>2, <2>3 DEF DataOK
  <2> QED
    BY <2>1, <2>4, StatementKeeps
<1>11. CASE SubRunStarted
  <2>1. Running("subRunStarted") /\ Flow
    BY <1>11, BodiesAreInner DEF SubRunStarted, Flow
  <2>2. handleSubRuns' \in SubRunFields
    BY <1>1, <1>11, EmptySeq DEF SubRunStarted, SubRunFields
  <2>3. UNCHANGED <<posted, item, handleRuns, cache, files, begun, unwritten, written>>
    BY <1>11 DEF SubRunStarted, history
  <2>4. DataOK'
    BY <1>1, <2>2, <2>3 DEF DataOK
  <2> QED
    BY <2>1, <2>4, StatementKeeps
<1>12. CASE BeginSubRun
  <2>1. Running("beginSubRun") /\ Flow
    BY <1>12 DEF BeginSubRun, Flow
  <2>2. begun' \in Ids
    BY <1>1, <1>12, SubjectType DEF BeginSubRun, DataOK, Ids
  <2>3. DataOK'
    BY <1>1, <1>12, <2>2 DEF BeginSubRun, DataOK, objects
  <2> QED
    BY <2>1, <2>3, StatementKeeps
<1>13. CASE EndSubRun
  <2>1. Running("endSubRun") /\ Flow
    BY <1>13 DEF EndSubRun, Flow
  <2>2. begun' \in Ids
    BY <1>1, <1>13 DEF EndSubRun, DataOK, Ids
  <2>3. DataOK'
    BY <1>1, <1>13, <2>2 DEF EndSubRun, DataOK, objects
  <2> QED
    BY <2>1, <2>3, StatementKeeps
<1>14. CASE WriteSubRun
  <2>1. Running("writeSubRun") /\ Flow
    BY <1>14 DEF WriteSubRun, Flow
  <2>2. CASE UNCHANGED <<handleSubRuns, cache, unwritten, written>>
    <3>1. DataOK'
      BY <1>1, <1>14, <2>2 DEF WriteSubRun, DataOK
    <3> QED
      BY <2>1, <3>1, StatementKeeps
  <2>3. CASE /\ SubRunFoundOrFlush /\ WritesSubRun(Subject)
             /\ handleSubRuns' = [handleSubRuns EXCEPT !.previous = @ \cup {Subject}]
    <3>1. Subject \in SubRunIDs
      BY <1>1, <2>3, SubjectType
    <3>2. handleSubRuns' \in SubRunFields
      BY <1>1, <2>3, <3>1 DEF SubRunFields
    <3>3. cache' \in Cache /\ unwritten' \in Ids /\ written' \in Ids
      BY <1>1, <2>3, <3>1, WritesSubRunType
    <3>4. DataOK'
      BY <1>1, <1>14, <3>2, <3>3 DEF WriteSubRun, DataOK
    <3> QED
      BY <2>1, <3>4, StatementKeeps
  <2> QED
    BY <1>14, <2>2, <2>3 DEF WriteSubRun
<1> QED
  BY <1>2, <1>3, <1>4, <1>5, <1>6, <1>7, <1>8, <1>9, <1>10, <1>11, <1>12, <1>13, <1>14
     DEF SubRunStep

\* What ends the constructors of EndingLoop and Error posts an event.
LEMMA PostKeeps ==
  ASSUME Control, WaitFits, todo # <<>>,
         \/ Throws
         \/ todo' = Tail(todo) /\ posted' # "none" /\ UNCHANGED <<phase, leaf>>
  PROVE  WaitFits'
<1>1. phase # "stable"
  BY DEF Control, Nesting
<1>2. CASE Throws
  BY <1>1, <1>2 DEF Throws, Unwound, WaitFits
<1>3. CASE todo' = Tail(todo) /\ posted' # "none" /\ UNCHANGED <<phase, leaf>>
  <2>1. Constructor("EndingLoop") = <<"endOfLoop">> /\ Constructor("Error") = <<"doErrorStuff">>
    BY DEF Constructor
  <2>2. Tail(<<"endOfLoop">>) = <<>> /\ Tail(<<"doErrorStuff">>) = <<>>
    OBVIOUS
  <2>3. ASSUME leaf \in {"EndingLoop", "Error"}, phase = "construct" PROVE todo' = <<>>
    BY <1>3, <2>1, <2>2, <2>3 DEF WaitFits
  <2> QED
    BY <1>1, <1>3, <2>3 DEF WaitFits
<1> QED
  BY <1>2, <1>3

LEMMA OtherStepKeeps ==
  ASSUME TypeInv
  PROVE  ReadEvent \/ ProcessEvent \/ EndOfLoop \/ DoErrorStuff \/ RewindInput => TypeInv'
<1>1. Control /\ DataOK /\ WaitFits
  BY DEF TypeInv
<1>2. ASSUME ReadEvent PROVE TypeInv'
  <2>1. Running("readEvent") /\ Flow
    BY <1>2 DEF ReadEvent, Flow
  <2>2. DataOK'
    BY <1>1, <1>2 DEF ReadEvent, DataOK, Items, objects, history
  <2> QED
    BY <2>1, <2>2, StatementKeeps
<1>3. ASSUME ProcessEvent PROVE TypeInv'
  <2>1. Running("processEvent") /\ Flow
    BY <1>3 DEF ProcessEvent, Flow
  <2>2. DataOK'
    BY <1>1, <1>3 DEF ProcessEvent, DataOK, objects, history
  <2> QED
    BY <2>1, <2>2, StatementKeeps
\* What ends the constructors of EndingLoop and Error posts an event.
<1>4. ASSUME EndOfLoop PROVE TypeInv'
  <2>1. todo # <<>> /\ Head(todo) = "endOfLoop"
    BY <1>4 DEF EndOfLoop, Running
  <2>2. posted' # "none" \/ Throws
    BY <1>4 DEF EndOfLoop, EndOfLoopEvents
  <2>3. Returns \/ Throws
    BY <1>4 DEF EndOfLoop
  <2>4. Control'
    BY <1>1, <2>1, <2>3, ReturnsKeeps, ThrowsKeeps
  <2>5. WaitFits'
    BY <1>1, <2>1, <2>2, <2>3, PostKeeps DEF Returns
  <2>6. DataOK'
    <3>1. posted' \in {"none", "Stop", "Restart"}
      BY <1>1, <1>4 DEF EndOfLoop, EndOfLoopEvents, DataOK
    <3> QED
      BY <1>1, <1>4, <3>1 DEF EndOfLoop, DataOK, objects, history
  <2> QED
    BY <2>4, <2>5, <2>6 DEF TypeInv
<1>5. ASSUME DoErrorStuff PROVE TypeInv'
  <2>1. /\ todo # <<>> /\ Head(todo) = "doErrorStuff" /\ todo' = Tail(todo) /\ posted' = "Stop"
        /\ errorState' \in BOOLEAN
        /\ UNCHANGED <<config, phase, depth, leaf, move, item, source, external, primary, swallowed,
                       handleRuns, handleSubRuns, cache, files, begun, unwritten, written>>
    BY <1>5 DEF DoErrorStuff, Running, objects, history
  <2>2. /\ Tail(todo) \in Seq(Calls)
        /\ Range(Tail(todo)) \cap Special \subseteq SpecialOf(move.target)
    BY <1>1, <2>1, RestFits, EmptyBody
  <2>3. ControlOK' /\ DataOK'
    BY <1>1, <2>1, <2>2 DEF Control, ControlOK, DataOK
  <2>4. phase \notin {"stable", "terminated"}
    BY <1>1, <2>1 DEF Control, Nesting
  <2>5. Nesting'
    BY <1>1, <2>1, <2>4 DEF Control, Nesting
  <2>6. MoveFits' /\ TodoFits' /\ SourceFits'
    BY <1>1, <2>1, <2>2 DEF Control, MoveFits, TodoFits, SourceFits
  <2>7. WaitFits'
    BY <1>1, <2>1, PostKeeps
  <2> QED
    BY <2>3, <2>5, <2>6, <2>7 DEF TypeInv, Control
<1>6. ASSUME RewindInput PROVE TypeInv'
  <2>1. Running("rewindInput") /\ UNCHANGED <<posted, item, objects, cache, files, history>>
    BY <1>6 DEF RewindInput
  <2>2. DataOK'
    BY <1>1, <2>1 DEF DataOK, objects, history
  <2>3. CASE Throws
    BY <2>1, <2>2, <2>3, StatementKeeps DEF Flow
  <2>4. CASE /\ todo' = Tail(todo) /\ source' = [run |-> NoRun, subRun |-> NoSubRun]
             /\ UNCHANGED <<config, phase, depth, leaf, move, failure>>
    <3>1. todo # <<>> /\ Head(todo) = "rewindInput" /\ move.target = "Starting"
      BY <1>1, <2>1, OfferedWhenRead DEF Running
    <3>2. /\ Tail(todo) \in Seq(Calls)
          /\ Range(Tail(todo)) \cap Special \subseteq SpecialOf(move.target)
      BY <1>1, <3>1, RestFits, EmptyBody
    <3>3. source' \in [run : Runs \cup {NoRun}, subRun : SubRunIDs \cup {NoSubRun}]
      BY <2>4
    <3>4. ControlOK'
      BY <1>1, <2>4, <3>2, <3>3 DEF Control, ControlOK, failure
    <3>5. phase \notin {"stable", "terminated"}
      BY <1>1, <3>1 DEF Control, Nesting
    <3>6. Nesting'
      BY <1>1, <2>4, <3>5 DEF Control, Nesting
    <3>7. MoveFits' /\ TodoFits' /\ SourceFits'
      BY <1>1, <2>4, <3>1, <3>2 DEF Control, MoveFits, TodoFits, SourceFits, RunTargets, SubRunTargets
    <3>8. WaitFits'
      <4>1. Constructor("EndingLoop") = <<"endOfLoop">> /\ Constructor("Error") = <<"doErrorStuff">>
        BY DEF Constructor
      <4>2. Head(<<"endOfLoop">>) = "endOfLoop" /\ Head(<<"doErrorStuff">>) = "doErrorStuff"
        OBVIOUS
      <4>3. leaf \in {"EndingLoop", "Error"} => phase # "construct"
        BY <1>1, <3>1, <4>1, <4>2 DEF WaitFits
      <4> QED
        BY <2>4, <3>5, <4>3 DEF WaitFits
    <3> QED
      BY <2>2, <3>4, <3>6, <3>7, <3>8 DEF TypeInv, Control
  <2> QED
    BY <1>6, <2>3, <2>4 DEF RewindInput
<1> QED
  BY <1>2, <1>3, <1>4, <1>5, <1>6

LEMMA TypeInvStep == TypeInv /\ [Next]_vars => TypeInv'
<1> SUFFICES ASSUME TypeInv, [Next]_vars PROVE TypeInv'
  OBVIOUS
<1>1. CASE UNCHANGED vars
  <2>1. UNCHANGED <<config, phase, depth, leaf, move, todo, posted, item, source, external, primary,
                    swallowed, errorState, handleRuns, handleSubRuns, cache, files, begun, unwritten,
                    written>>
    BY <1>1 DEF vars, control, failure, objects, history
  <2>2. ControlOK' /\ DataOK'
    BY <2>1 DEF TypeInv, Control, ControlOK, DataOK
  <2>3. Nesting' /\ MoveFits' /\ TodoFits' /\ SourceFits' /\ WaitFits'
    BY <2>1 DEF TypeInv, Control, Nesting, MoveFits, TodoFits, SourceFits, WaitFits
  <2> QED
    BY <2>2, <2>3 DEF TypeInv, Control
<1>2. CASE Item
  BY <1>2, ItemKeeps
<1>3. CASE TransitionStep
  BY <1>3, LeaveCompositeKeeps, ActionDoneKeeps, EnterCompositeKeeps, ConstructorDoneKeeps,
     ProcessPostedKeeps DEF TransitionStep
<1>4. CASE FileStep
  BY <1>4, FileStepKeeps, CacheStepKeeps DEF FileStep
<1>5. CASE RunStep
  BY <1>5, RunStepKeeps
<1>6. CASE SubRunStep
  BY <1>6, SubRunStepKeeps
<1>7. CASE ReadEvent \/ ProcessEvent \/ EndOfLoop \/ DoErrorStuff \/ RewindInput
  BY <1>7, OtherStepKeeps
<1> QED
  BY <1>1, <1>2, <1>3, <1>4, <1>5, <1>6, <1>7 DEF Next, MachineStep, Done

\* In every state the machine can reach each variable has its type: whatever the
\* order of files, runs, sub-runs and exceptions, no destructor runs without its
\* object, the three composites are never exceeded, and a run or a sub-run is read
\* only when the source has offered one.
THEOREM TypeCorrect == Spec => []TypeOK
<1>1. Spec => []TypeInv
  BY TypeInvInit, TypeInvStep, PTL DEF Spec
<1>2. TypeInv => TypeOK
  BY DEF TypeInv, Control, ControlOK, DataOK, TypeOK, RunFields, SubRunFields
<1> QED
  BY <1>1, <1>2, PTL

-----------------------------------------------------------------------------
(***************************************************************************)
(* No run and no sub-run that has been read is lost when the output files   *)
(* are closed, whatever the source offers and whatever throws: the proof of *)
(* NothingLostAtClose for every set of runs and sub-runs.                   *)
(*                                                                          *)
(* The argument: what has been read and not written is in the cache; files  *)
(* are closed by one fixed sequence of calls, in which the cache is written *)
(* out first; and nothing is read between, because only constructors read,  *)
(* and they run while HandleFiles exists with its output files open.        *)
(***************************************************************************)


(* The inductive invariant of NothingLostAtClose.                           *)

\* What is not written yet is in the cache.
Conserved == unwritten.runs \subseteq cache.runs /\ unwritten.subRuns \subseteq cache.subRuns

\* In a body, "after" comes immediately behind "before" or first.
Follows(body, before, after) ==
  \A i \in 1..Len(body) : body[i] = after => i = 1 \/ body[i - 1] = before

\* No "later" comes before an "earlier" one.
Precedes(body, earlier, later) ==
  \A i, j \in 1..Len(body) : body[i] = earlier /\ body[j] = later => i < j

\* The output files are closed after the cache has been written, and before the
\* next ones are opened ...
ClosesInOrder(body) ==
  /\ Precedes(body, "closeOutputFiles", "openOutputFiles")
  /\ Follows(body, "writeSubRunCache", "writeRunCache")
  /\ Follows(body, "writeRunCache", "respondToCloseOutputFiles")
  /\ Follows(body, "respondToCloseOutputFiles", "closeOutputFiles")

\* ... so each of these steps finds what the one before it has left.
Closing == {"writeRunCache", "respondToCloseOutputFiles", "closeOutputFiles"}
Reached ==
  todo # <<>> =>
    /\ Head(todo) \in Closing => cache.subRuns = {}
    /\ Head(todo) \in {"respondToCloseOutputFiles", "closeOutputFiles"} => cache.runs = {}

\* Runs and sub-runs are read by constructors only, inside HandleFiles.
Readers == Special \ {"rewindInput"}
ReadersFit ==
  /\ Range(todo) \cap Readers # {} => phase = "construct"
  /\ phase = "construct" /\ move.target \in RunTargets \cup SubRunTargets => depth >= 1

\* The output files are closed by the end of HandleFiles, or in
\* NewInputAndOutputFiles, which opens the next ones.
LeavesFiles == phase \in {"exit", "destroy"} /\ depth = 1
ChangesFiles ==
  /\ phase = "construct" /\ move.target = "NewInputAndOutputFiles" /\ depth = 1
  /\ "openOutputFiles" \in Range(todo)
CloseFits == "closeOutputFiles" \in Range(todo) => LeavesFiles \/ ChangesFiles

\* Inside HandleFiles the output files are open otherwise.
OutputFits ==
  /\ depth >= 1 /\ ~files.output => LeavesFiles \/ ChangesFiles
  /\ phase = "enter" => depth < ParentDepth(move.target)
  /\ phase = "enter" /\ depth = 0 /\ ~files.output => "openOutputFiles" \in Range(todo)

FileInv ==
  /\ TypeInv
  /\ Conserved /\ ClosesInOrder(todo) /\ Reached
  /\ ReadersFit /\ CloseFits /\ OutputFits
  /\ NothingLostAtClose

-----------------------------------------------------------------------------
(* Bodies and their order.                                                  *)

LEMMA FollowsTail ==
  ASSUME NEW S, NEW body \in Seq(S), body # <<>>, NEW before, NEW after,
         Follows(body, before, after)
  PROVE  /\ Follows(Tail(body), before, after)
         /\ Tail(body) # <<>> /\ Head(Tail(body)) = after => Head(body) = before
<1>1. /\ Len(body) \in Nat \ {0} /\ Head(body) = body[1]
      /\ Tail(body) \in Seq(S) /\ Len(Tail(body)) = Len(body) - 1
      /\ \A i \in 1..Len(Tail(body)) : Tail(body)[i] = body[i + 1]
  BY EmptySeq, HeadTailProperties
<1>2. ASSUME NEW i \in 1..Len(Tail(body)), Tail(body)[i] = after, i # 1
      PROVE  Tail(body)[i - 1] = before
  <2>1. body[i + 1] = after /\ i + 1 \in 1..Len(body) /\ i - 1 \in 1..Len(Tail(body))
    BY <1>1, <1>2
  <2>2. body[(i + 1) - 1] = before
    BY <2>1 DEF Follows
  <2> QED
    BY <1>1, <2>1, <2>2
<1>3. ASSUME Tail(body) # <<>>, Head(Tail(body)) = after
      PROVE  Head(body) = before
  <2>1. Len(Tail(body)) \in Nat \ {0} /\ Head(Tail(body)) = Tail(body)[1]
    BY <1>1, <1>3, EmptySeq
  <2>2. body[2] = after /\ 2 \in 1..Len(body)
    BY <1>1, <1>3, <2>1
  <2> QED
    BY <1>1, <2>2 DEF Follows
<1> QED
  BY <1>2, <1>3 DEF Follows

LEMMA PrecedesTail ==
  ASSUME NEW S, NEW body \in Seq(S), body # <<>>, NEW earlier, NEW later,
         Precedes(body, earlier, later)
  PROVE  /\ Precedes(Tail(body), earlier, later)
         /\ Head(body) = later => earlier \notin Range(Tail(body))
<1>1. /\ Len(body) \in Nat \ {0} /\ Head(body) = body[1]
      /\ Tail(body) \in Seq(S) /\ Len(Tail(body)) = Len(body) - 1
      /\ \A i \in 1..Len(Tail(body)) : Tail(body)[i] = body[i + 1]
  BY EmptySeq, HeadTailProperties
<1>2. \A i \in 1..Len(Tail(body)) : i + 1 \in 1..Len(body)
  BY <1>1
<1>3. Precedes(Tail(body), earlier, later)
  <2>1. ASSUME NEW i \in 1..Len(Tail(body)), NEW j \in 1..Len(Tail(body)),
               Tail(body)[i] = earlier, Tail(body)[j] = later
        PROVE  i < j
    <3>1. i + 1 < j + 1
      BY <1>1, <1>2, <2>1 DEF Precedes
    <3> QED
      BY <3>1
  <2> QED
    BY <2>1 DEF Precedes
<1>4. ASSUME Head(body) = later, NEW i \in 1..Len(Tail(body)), Tail(body)[i] = earlier
      PROVE  FALSE
  <2>1. i + 1 < 1
    BY <1>1, <1>2, <1>4 DEF Precedes
  <2> QED
    BY <2>1
<1>5. Range(Tail(body)) = {Tail(body)[i] : i \in 1..Len(Tail(body))}
  BY <1>1, RangeEquality
<1> QED
  BY <1>3, <1>4, <1>5

LEMMA FollowsBehind ==
  ASSUME NEW S, NEW body \in Seq(S), NEW rest \in Seq(S), NEW before, NEW after,
         Follows(body, before, after), Follows(rest, before, after),
         rest # <<>> => Head(rest) # after
  PROVE  Follows(body \o rest, before, after)
<1>1. /\ Len(body) \in Nat /\ Len(rest) \in Nat
      /\ Len(body \o rest) = Len(body) + Len(rest)
      /\ \A i \in 1..Len(body) + Len(rest) :
           (body \o rest)[i] = IF i <= Len(body) THEN body[i] ELSE rest[i - Len(body)]
  BY ConcatProperties, LenProperties
<1>2. Len(rest) # 0 => rest # <<>> /\ Head(rest) = rest[1]
  OBVIOUS
<1>3. SUFFICES ASSUME NEW i \in 1..Len(body) + Len(rest), (body \o rest)[i] = after, i # 1
               PROVE  (body \o rest)[i - 1] = before
  BY <1>1 DEF Follows
<1>4. CASE i <= Len(body)
  BY <1>1, <1>3, <1>4 DEF Follows
<1>5. CASE i > Len(body)
  <2>1. rest[i - Len(body)] = after /\ i - Len(body) \in 1..Len(rest)
    BY <1>1, <1>3, <1>5
  <2>2. i - Len(body) # 1
    BY <1>2, <2>1
  <2>3. rest[(i - Len(body)) - 1] = before
    BY <2>1, <2>2 DEF Follows
  <2>4. (i - 1) - Len(body) = (i - Len(body)) - 1 /\ i - 1 \in 1..Len(body) + Len(rest)
        /\ ~(i - 1 <= Len(body))
    BY <1>1, <1>3, <1>5, <2>1, <2>2
  <2> QED
    BY <1>1, <2>3, <2>4
<1>6. i <= Len(body) \/ i > Len(body)
  BY <1>1
<1> QED
  BY <1>4, <1>5, <1>6

LEMMA PrecedesBehind ==
  ASSUME NEW S, NEW body \in Seq(S), NEW rest \in Seq(S), NEW earlier, NEW later,
         Precedes(body, earlier, later), Precedes(rest, earlier, later),
         later \notin Range(body) \/ earlier \notin Range(rest)
  PROVE  Precedes(body \o rest, earlier, later)
<1>1. /\ Len(body) \in Nat /\ Len(rest) \in Nat
      /\ Len(body \o rest) = Len(body) + Len(rest)
      /\ \A i \in 1..Len(body) + Len(rest) :
           (body \o rest)[i] = IF i <= Len(body) THEN body[i] ELSE rest[i - Len(body)]
  BY ConcatProperties, LenProperties
<1>2. /\ Range(body) = {body[i] : i \in 1..Len(body)}
      /\ Range(rest) = {rest[i] : i \in 1..Len(rest)}
  BY RangeEquality
<1>3. SUFFICES ASSUME NEW i \in 1..Len(body) + Len(rest), NEW j \in 1..Len(body) + Len(rest),
                      (body \o rest)[i] = earlier, (body \o rest)[j] = later
               PROVE  i < j
  BY <1>1 DEF Precedes
<1>4. CASE i <= Len(body) /\ j <= Len(body)
  BY <1>1, <1>3, <1>4 DEF Precedes
<1>5. CASE i <= Len(body) /\ j > Len(body)
  BY <1>1, <1>5
<1>6. CASE i > Len(body) /\ j > Len(body)
  <2>1. /\ i - Len(body) \in 1..Len(rest) /\ j - Len(body) \in 1..Len(rest)
        /\ rest[i - Len(body)] = earlier /\ rest[j - Len(body)] = later
    BY <1>1, <1>3, <1>6
  <2>2. i - Len(body) < j - Len(body)
    BY <2>1 DEF Precedes
  <2> QED
    BY <1>1, <2>2
<1>7. CASE i > Len(body) /\ j <= Len(body)
  <2>1. i - Len(body) \in 1..Len(rest) /\ rest[i - Len(body)] = earlier /\ body[j] = later
        /\ j \in 1..Len(body)
    BY <1>1, <1>3, <1>7
  <2> QED
    BY <1>2, <2>1
<1> QED
  BY <1>1, <1>4, <1>5, <1>6, <1>7

\* A body that a function starts with.
Fresh(body) == ClosesInOrder(body) /\ (body # <<>> => Head(body) \notin Closing)

LEMMA QuietIsFresh ==
  ASSUME NEW S, NEW body \in Seq(S), S \cap Closing = {}
  PROVE  Fresh(body) /\ Range(body) \cap Closing = {}
<1>1. Range(body) \subseteq S /\ Range(body) = {body[i] : i \in 1..Len(body)}
  BY RangeOfSeq, RangeEquality
<1>2. \A i \in 1..Len(body) : body[i] \notin Closing
  BY <1>1
<1>3. body # <<>> => Head(body) \notin Closing
  BY HeadTailProperties
<1>4. ClosesInOrder(body)
  BY <1>2 DEF ClosesInOrder, Follows, Precedes, Closing
<1> QED
  BY <1>1, <1>3, <1>4 DEF Fresh

LEMMA InnerIsQuiet == Inner \cap Closing = {} /\ "openOutputFiles" \notin Inner
  BY DEF Inner, Closing, RunCalls, SubRunCalls

LEMMA CloseFilesIsFresh ==
  Fresh(CloseFiles) /\ CloseFiles \in Seq(Plain) /\ "openOutputFiles" \notin Range(CloseFiles)
<1>1. CloseFiles \in Seq(Plain)
  BY CleanUpIsPlain DEF CleanUp
<1>2. /\ Len(CloseFiles) = 6
      /\ CloseFiles[1] = "writeSubRunCache" /\ CloseFiles[2] = "writeRunCache"
      /\ CloseFiles[3] = "respondToCloseOutputFiles" /\ CloseFiles[4] = "closeOutputFiles"
      /\ CloseFiles[5] = "respondToCloseInputFile" /\ CloseFiles[6] = "closeInputFile"
      /\ CloseFiles # <<>> /\ Head(CloseFiles) = "writeSubRunCache"
  BY DEF CloseFiles
<1>3. \A i \in 1..6 : i = 1 \/ i = 2 \/ i = 3 \/ i = 4 \/ i = 5 \/ i = 6
  OBVIOUS
<1>4. \A i \in 1..6 :
        /\ CloseFiles[i] = "writeRunCache" => i = 2
        /\ CloseFiles[i] = "respondToCloseOutputFiles" => i = 3
        /\ CloseFiles[i] = "closeOutputFiles" => i = 4
        /\ CloseFiles[i] # "openOutputFiles"
  BY <1>2, <1>3
<1>5. Follows(CloseFiles, "writeSubRunCache", "writeRunCache")
  BY <1>2, <1>4 DEF Follows
<1>6. Follows(CloseFiles, "writeRunCache", "respondToCloseOutputFiles")
  BY <1>2, <1>4 DEF Follows
<1>7. Follows(CloseFiles, "respondToCloseOutputFiles", "closeOutputFiles")
  BY <1>2, <1>4 DEF Follows
<1>8. Precedes(CloseFiles, "closeOutputFiles", "openOutputFiles")
  BY <1>2, <1>4 DEF Precedes
<1>9. "openOutputFiles" \notin Range(CloseFiles)
  BY <1>1, <1>2, <1>4, RangeEquality
<1> QED
  BY <1>1, <1>2, <1>5, <1>6, <1>7, <1>8, <1>9 DEF Fresh, ClosesInOrder, Closing

LEMMA OpenFilesIsFresh ==
  /\ Fresh(OpenFiles) /\ OpenFiles \in Seq(Plain)
  /\ "openOutputFiles" \in Range(OpenFiles) /\ Range(OpenFiles) \cap Closing = {}
<1> DEFINE Opening == {"readFile", "respondToOpenInputFile", "openOutputFiles", "respondToOpenOutputFiles"}
<1>1. OpenFiles \in Seq(Opening) /\ Len(OpenFiles) = 4 /\ OpenFiles[3] = "openOutputFiles"
  BY DEF OpenFiles
<1>2. Opening \cap Closing = {}
  BY DEF Closing
<1>3. Opening \subseteq Plain
  BY PlainCalls DEF FileCalls, Responses
<1>4. Range(OpenFiles) = {OpenFiles[i] : i \in 1..4}
  BY <1>1, RangeEquality
<1>5. "openOutputFiles" \in Range(OpenFiles)
  BY <1>1, <1>4
<1> HIDE DEF Opening
<1>6. OpenFiles \in Seq(Plain)
  BY <1>1, <1>3, SeqMonotonic
<1> QED
  BY <1>1, <1>2, <1>5, <1>6, QuietIsFresh

LEMMA NewFilesIsFresh ==
  /\ Fresh(CloseFiles \o OpenFiles) /\ CloseFiles \o OpenFiles \in Seq(Plain)
  /\ "openOutputFiles" \in Range(CloseFiles \o OpenFiles)
<1>1. /\ CloseFiles \in Seq(Plain) /\ OpenFiles \in Seq(Plain)
      /\ ClosesInOrder(CloseFiles) /\ ClosesInOrder(OpenFiles)
      /\ OpenFiles # <<>> /\ Head(OpenFiles) \notin Closing
      /\ "closeOutputFiles" \notin Range(OpenFiles)
      /\ "openOutputFiles" \in Range(OpenFiles)
  BY CloseFilesIsFresh, OpenFilesIsFresh DEF Fresh, Closing, OpenFiles
<1>2. Range(CloseFiles \o OpenFiles) = Range(CloseFiles) \cup Range(OpenFiles)
      /\ CloseFiles \o OpenFiles \in Seq(Plain)
  BY <1>1, BodyBefore
<1>3. /\ Follows(CloseFiles \o OpenFiles, "writeSubRunCache", "writeRunCache")
      /\ Follows(CloseFiles \o OpenFiles, "writeRunCache", "respondToCloseOutputFiles")
      /\ Follows(CloseFiles \o OpenFiles, "respondToCloseOutputFiles", "closeOutputFiles")
  BY <1>1, FollowsBehind DEF ClosesInOrder, Closing
<1>4. Precedes(CloseFiles \o OpenFiles, "closeOutputFiles", "openOutputFiles")
  BY <1>1, PrecedesBehind DEF ClosesInOrder
<1>5. Head(CloseFiles \o OpenFiles) = "writeSubRunCache"
  BY DEF CloseFiles, OpenFiles
<1> QED
  BY <1>1, <1>2, <1>3, <1>4, <1>5 DEF Fresh, ClosesInOrder, Closing

LEMMA CleanUpIsFresh ==
  ASSUME NEW d \in 0..3
  PROVE  /\ Fresh(CleanUp(d)) /\ Range(CleanUp(d)) \cap Readers = {}
         /\ "closeOutputFiles" \in Range(CleanUp(d)) => d = 1
<1>1. Range(CleanUp(d)) \cap Readers = {}
  BY CleanUpIsPlain, PlainBody DEF Readers
<1>2. CASE d = 1
  <2>1. CleanUp(d) = CloseFiles
    BY <1>2 DEF CleanUp
  <2> QED
    BY <1>1, <1>2, <2>1, CloseFilesIsFresh
<1>3. CASE d # 1
  <2>1. "finalizeRun" \in Inner /\ "finalizeAllSubRuns" \in Inner
    BY DEF Inner, RunCalls, SubRunCalls, Special
  <2>2. CleanUp(d) \in Seq(Inner)
    BY <1>3, <2>1 DEF CleanUp
  <2> QED
    BY <1>1, <2>2, InnerIsQuiet, QuietIsFresh DEF Closing
<1> QED
  BY <1>2, <1>3

LEMMA ActionIsFresh ==
  ASSUME NEW action \in Actions
  PROVE  /\ Fresh(ActionBody(action)) /\ Range(ActionBody(action)) \cap Readers = {}
         /\ "closeOutputFiles" \notin Range(ActionBody(action))
<1> DEFINE S == {"finalizeRun", "rewindInput"}
<1>1. ActionBody(action) \in Seq(S)
  <2>1. <<"finalizeRun">> \in Seq(S) /\ <<"rewindInput">> \in Seq(S) /\ <<>> \in Seq(S)
    BY EmptySeq
  <2>2. ActionBody(action) \in {<<"finalizeRun">>, <<"rewindInput">>, <<>>}
    BY DEF ActionBody
  <2> QED
    BY <2>1, <2>2
<1>2. S \cap Closing = {} /\ S \cap Readers = {}
  BY DEF Closing, Readers, Special
<1> HIDE DEF S
<1>3. Range(ActionBody(action)) \subseteq S
  BY <1>1, RangeOfSeq
<1> QED
  BY <1>1, <1>2, <1>3, QuietIsFresh DEF Closing

LEMMA ConstructorIsFresh ==
  ASSUME NEW target \in Leaves
  PROVE  /\ Fresh(Constructor(target))
         /\ "closeOutputFiles" \in Range(Constructor(target)) =>
              target = "NewInputAndOutputFiles" /\ "openOutputFiles" \in Range(Constructor(target))
<1>1. CASE target = "NewInputAndOutputFiles"
  BY <1>1, NewFilesIsFresh DEF Constructor
<1>2. CASE target # "NewInputAndOutputFiles"
  <2> DEFINE S == Calls \ Closing
  <2>1. /\ {"endOfLoop", "doErrorStuff", "respondToCloseInputFile", "closeInputFile", "readFile",
            "respondToOpenInputFile", "setupCurrentRun", "readAndCacheRun", "setupCurrentSubRun",
            "finalizeSubRun", "readAndCacheSubRun", "beginRunIfNotDoneAlready",
            "markSubRunNonEmpty", "readEvent", "processEvent"} \cap Closing = {}
    BY DEF Closing
  <2>2. /\ {"endOfLoop", "doErrorStuff", "readEvent", "processEvent"} \subseteq Calls
        /\ {"respondToCloseInputFile", "closeInputFile", "readFile", "respondToOpenInputFile"}
             \subseteq Calls
        /\ {"setupCurrentRun", "readAndCacheRun", "beginRunIfNotDoneAlready"} \subseteq Calls
        /\ {"setupCurrentSubRun", "finalizeSubRun", "readAndCacheSubRun", "markSubRunNonEmpty"}
             \subseteq Calls
    BY DEF Calls, OtherCalls, FileCalls, Responses, RunCalls, SubRunCalls
  <2>3. /\ "endOfLoop" \in S /\ "doErrorStuff" \in S /\ "respondToCloseInputFile" \in S
        /\ "closeInputFile" \in S /\ "readFile" \in S /\ "respondToOpenInputFile" \in S
        /\ "setupCurrentRun" \in S /\ "readAndCacheRun" \in S /\ "setupCurrentSubRun" \in S
        /\ "finalizeSubRun" \in S /\ "readAndCacheSubRun" \in S
        /\ "beginRunIfNotDoneAlready" \in S /\ "markSubRunNonEmpty" \in S /\ "readEvent" \in S
        /\ "processEvent" \in S
    BY <2>1, <2>2
  <2>4. S \cap Closing = {}
    OBVIOUS
  <2> HIDE DEF S
  <2>5. Constructor(target) \in Seq(S)
    BY <1>2, <2>3, EmptySeq DEF Constructor, GoToNewInputFile, ContinueRun, ChangeSubRun, Leaves,
                    TopLeaves, FileLeaves, RunLeaves, SubRunLeaves
  <2> QED
    BY <2>4, <2>5, QuietIsFresh DEF Closing
<1> QED
  BY <1>1, <1>2

-----------------------------------------------------------------------------
(* What a statement does to the script.                                     *)

\* The part of the invariant that does not depend on the cache.
Script == ClosesInOrder(todo) /\ ReadersFit /\ CloseFits /\ OutputFits

\* The statement that comes next in closing has been reached from the one before.
NextInClosing ==
  todo' # <<>> =>
    /\ Head(todo') = "writeRunCache" => Head(todo) = "writeSubRunCache"
    /\ Head(todo') = "respondToCloseOutputFiles" => Head(todo) = "writeRunCache"
    /\ Head(todo') = "closeOutputFiles" => Head(todo) = "respondToCloseOutputFiles"

LEMMA RestRange ==
  ASSUME NEW S, NEW body \in Seq(S), body # <<>>
  PROVE  Range(body) \subseteq {Head(body)} \cup Range(Tail(body))
<1>1. /\ Len(body) \in Nat \ {0} /\ Head(body) = body[1]
      /\ Tail(body) \in Seq(S) /\ Len(Tail(body)) = Len(body) - 1
      /\ \A i \in 1..Len(Tail(body)) : Tail(body)[i] = body[i + 1]
  BY EmptySeq, HeadTailProperties
<1>2. /\ Range(body) = {body[i] : i \in 1..Len(body)}
      /\ Range(Tail(body)) = {Tail(body)[i] : i \in 1..Len(Tail(body))}
  BY <1>1, RangeEquality
<1>3. ASSUME NEW i \in 1..Len(body), i # 1
      PROVE  body[i] \in Range(Tail(body))
  <2>1. i - 1 \in 1..Len(Tail(body)) /\ Tail(body)[i - 1] = body[(i - 1) + 1] /\ (i - 1) + 1 = i
    BY <1>1, <1>3
  <2> QED
    BY <1>2, <2>1
<1> QED
  BY <1>1, <1>2, <1>3

LEMMA RestInOrder ==
  ASSUME Control, todo # <<>>, ClosesInOrder(todo)
  PROVE  /\ ClosesInOrder(Tail(todo)) /\ Tail(todo) \in Seq(Calls)
         /\ Head(todo) = "openOutputFiles" => "closeOutputFiles" \notin Range(Tail(todo))
         /\ Range(Tail(todo)) \subseteq Range(todo)
         /\ Range(todo) \subseteq {Head(todo)} \cup Range(Tail(todo))
         /\ Tail(todo) # <<>> =>
              /\ Head(Tail(todo)) = "writeRunCache" => Head(todo) = "writeSubRunCache"
              /\ Head(Tail(todo)) = "respondToCloseOutputFiles" => Head(todo) = "writeRunCache"
              /\ Head(Tail(todo)) = "closeOutputFiles" => Head(todo) = "respondToCloseOutputFiles"
<1>1. todo \in Seq(Calls)
  BY DEF Control, ControlOK
<1>2. \A before, after : Follows(todo, before, after) =>
        /\ Follows(Tail(todo), before, after)
        /\ Tail(todo) # <<>> /\ Head(Tail(todo)) = after => Head(todo) = before
  BY <1>1, FollowsTail
<1>3. /\ Precedes(Tail(todo), "closeOutputFiles", "openOutputFiles")
      /\ Head(todo) = "openOutputFiles" => "closeOutputFiles" \notin Range(Tail(todo))
  BY <1>1, PrecedesTail DEF ClosesInOrder
<1>4. Tail(todo) \in Seq(Calls) /\ Range(Tail(todo)) \subseteq Range(todo)
  BY <1>1, RestOfBody
<1>5. Range(todo) \subseteq {Head(todo)} \cup Range(Tail(todo))
  BY <1>1, RestRange
<1> QED
  BY <1>2, <1>3, <1>4, <1>5 DEF ClosesInOrder

LEMMA ReturnsScript ==
  ASSUME FileInv, todo # <<>>, todo' = Tail(todo), UNCHANGED <<phase, depth, move>>,
         Head(todo) \notin {"openOutputFiles", "closeOutputFiles"} => files'.output = files.output,
         Head(todo) = "openOutputFiles" => files'.output
  PROVE  Script' /\ NextInClosing
<1>1. todo' = Tail(todo) /\ UNCHANGED <<phase, depth, move>>
  OBVIOUS
<1>2. Control /\ ClosesInOrder(todo) /\ ReadersFit /\ CloseFits /\ OutputFits
  BY DEF FileInv, TypeInv
<1>3. /\ ClosesInOrder(todo') /\ NextInClosing
      /\ Head(todo) = "openOutputFiles" => "closeOutputFiles" \notin Range(todo')
      /\ Range(todo') \subseteq Range(todo)
      /\ Range(todo) \subseteq {Head(todo)} \cup Range(todo')
  BY <1>1, <1>2, RestInOrder DEF NextInClosing
<1>4. ReadersFit'
  BY <1>1, <1>2, <1>3 DEF ReadersFit
<1>5. ChangesFiles /\ Head(todo) # "openOutputFiles" => ChangesFiles'
  BY <1>1, <1>3 DEF ChangesFiles
<1>6. LeavesFiles => LeavesFiles'
  BY <1>1 DEF LeavesFiles
<1>7. CloseFits'
  BY <1>2, <1>3, <1>5, <1>6 DEF CloseFits
<1>8. Head(todo) \in Range(todo)
  BY <1>2, RestOfBody DEF Control, ControlOK
<1>9. OutputFits'
  <2>1. CASE Head(todo) = "openOutputFiles"
    BY <1>1, <1>2, <2>1 DEF OutputFits
  <2>2. CASE Head(todo) = "closeOutputFiles"
    <3>1. LeavesFiles \/ ChangesFiles
      BY <1>2, <1>8, <2>2 DEF CloseFits
    <3>2. LeavesFiles' \/ ChangesFiles'
      BY <1>5, <1>6, <2>2, <3>1
    <3>3. phase' # "enter"
      BY <1>1, <3>1 DEF LeavesFiles, ChangesFiles
    <3> QED
      BY <3>2, <3>3 DEF OutputFits
  <2>3. CASE Head(todo) \notin {"openOutputFiles", "closeOutputFiles"}
    BY <1>1, <1>2, <1>3, <1>5, <1>6, <2>3 DEF OutputFits
  <2> QED
    BY <2>1, <2>2, <2>3
<1> QED
  BY <1>3, <1>4, <1>7, <1>9 DEF Script

LEMMA ExpandsScript ==
  ASSUME FileInv, todo # <<>>, NEW body \in Seq(Inner), Expands(body),
         Head(todo) \notin FileCalls \cup CacheCalls, files'.output = files.output
  PROVE  Script' /\ (todo' # <<>> => Head(todo') \notin Closing)
<1>1. todo' = body \o Tail(todo) /\ UNCHANGED <<phase, depth, move>>
  BY DEF Expands
<1>2. Control /\ ClosesInOrder(todo) /\ ReadersFit /\ CloseFits /\ OutputFits
  BY DEF FileInv, TypeInv
<1>3. Head(todo) \notin {"writeSubRunCache", "writeRunCache", "respondToCloseOutputFiles",
                         "openOutputFiles", "closeOutputFiles"}
  BY DEF FileCalls, Responses, CacheCalls
<1>4. /\ ClosesInOrder(Tail(todo)) /\ Tail(todo) \in Seq(Calls)
      /\ Range(Tail(todo)) \subseteq Range(todo)
      /\ Range(todo) \subseteq {Head(todo)} \cup Range(Tail(todo))
      /\ Tail(todo) # <<>> => Head(Tail(todo)) \notin Closing
  BY <1>2, <1>3, RestInOrder DEF Closing
<1>5. /\ body \in Seq(Plain) /\ body \in Seq(Calls)
      /\ ClosesInOrder(body) /\ (body # <<>> => Head(body) \notin Closing)
      /\ Range(body) \cap Closing = {} /\ "openOutputFiles" \notin Range(body)
      /\ Range(body) \cap Readers = {}
  <2>1. body \in Seq(Plain)
    BY InnerIsPlain, SeqMonotonic
  <2>2. body \in Seq(Calls) /\ Range(body) \cap Special = {}
    BY <2>1, PlainBody
  <2>3. Range(body) \subseteq Inner
    BY RangeOfSeq
  <2>4. Fresh(body) /\ Range(body) \cap Closing = {}
    BY InnerIsQuiet, QuietIsFresh
  <2> QED
    BY <2>1, <2>2, <2>3, <2>4, InnerIsQuiet DEF Fresh, Readers
<1>6. ASSUME NEW rest \in Seq(Calls), ClosesInOrder(rest), rest # <<>> => Head(rest) \notin Closing
      PROVE  /\ ClosesInOrder(body \o rest)
             /\ Range(body \o rest) = Range(body) \cup Range(rest)
             /\ body \o rest # <<>> => Head(body \o rest) \notin Closing
  <2>1. /\ Follows(body \o rest, "writeSubRunCache", "writeRunCache")
        /\ Follows(body \o rest, "writeRunCache", "respondToCloseOutputFiles")
        /\ Follows(body \o rest, "respondToCloseOutputFiles", "closeOutputFiles")
    BY <1>5, <1>6, FollowsBehind DEF ClosesInOrder, Closing
  <2>2. Precedes(body \o rest, "closeOutputFiles", "openOutputFiles")
    BY <1>5, <1>6, PrecedesBehind DEF ClosesInOrder
  <2>3. Range(body \o rest) = Range(body) \cup Range(rest)
    BY <1>5, BodyBefore
  <2>4. CASE body = <<>>
    <3>1. body \o rest = rest
      BY <2>4, ConcatEmptySeq
    <3> QED
      BY <1>6, <2>1, <2>2, <2>3, <3>1 DEF ClosesInOrder
  <2>5. CASE body # <<>>
    <3>1. Len(body) \in Nat \ {0} /\ Head(body) = body[1]
      BY <1>5, <2>5, EmptySeq
    <3>2. Len(rest) \in Nat
      BY LenProperties
    <3>3. Head(body \o rest) = Head(body)
      BY <1>5, <3>1, <3>2, ConcatProperties
    <3> QED
      BY <1>5, <2>1, <2>2, <2>3, <2>5, <3>3 DEF ClosesInOrder
  <2> QED
    BY <2>4, <2>5
<1>7. /\ ClosesInOrder(todo')
      /\ Range(todo') = Range(body) \cup Range(Tail(todo))
      /\ todo' # <<>> => Head(todo') \notin Closing
  BY <1>1, <1>4, <1>6
<1>8. ReadersFit'
  BY <1>1, <1>2, <1>4, <1>5, <1>7 DEF ReadersFit
<1>9. (ChangesFiles => ChangesFiles') /\ (LeavesFiles => LeavesFiles')
  BY <1>1, <1>3, <1>4, <1>7 DEF ChangesFiles, LeavesFiles
<1>10. CloseFits'
  BY <1>2, <1>4, <1>5, <1>7, <1>9 DEF CloseFits, Closing
<1>11. OutputFits'
  BY <1>1, <1>2, <1>3, <1>4, <1>7, <1>9 DEF OutputFits
<1> QED
  BY <1>7, <1>8, <1>10, <1>11 DEF Script

LEMMA ThrowsScript ==
  ASSUME FileInv, todo # <<>>, Throws, files.output => files'.output
  PROVE  Script' /\ (todo' # <<>> => Head(todo') \notin Closing)
<1>1. /\ Control /\ OutputFits /\ depth \in 0..3 /\ files.output \in BOOLEAN
      /\ phase = "destroy" => depth >= 1
  BY DEF FileInv, TypeInv, Control, ControlOK, Nesting, DataOK
<1>2. UNCHANGED <<depth, move>> /\ todo' \in {<<>>, CleanUp(depth)}
  BY DEF Throws
<1>3. /\ phase' \in {"destroy", "terminated"} /\ (depth >= 1 => phase' = "destroy")
  BY <1>1 DEF Throws, Unwound
<1>4. /\ Fresh(todo') /\ Range(todo') \cap Readers = {}
      /\ "closeOutputFiles" \in Range(todo') => depth = 1
  <2>1. Fresh(<<>>) /\ Range(<<>>) = {}
    <3>1. <<>> \in Seq(Inner) /\ Range(<<>>) = {}
      BY EmptyBody
    <3> QED
      BY <3>1, InnerIsQuiet, QuietIsFresh
  <2> QED
    BY <1>1, <1>2, <2>1, CleanUpIsFresh
<1>5. ReadersFit' /\ CloseFits'
  BY <1>2, <1>3, <1>4 DEF ReadersFit, CloseFits, LeavesFiles
<1>6. OutputFits'
  BY <1>1, <1>2, <1>3 DEF OutputFits, LeavesFiles, ChangesFiles
<1> QED
  BY <1>4, <1>5, <1>6 DEF Script, Fresh

-----------------------------------------------------------------------------
(* What a transition does to the script.                                    *)

\* Leaving a composite, running the action of the transition, or waiting.
LEMMA LeavingScript ==
  ASSUME NEW d \in 0..3, depth' = d, d >= 1 => files'.output,
         phase' \notin {"enter", "construct"},
         \/ todo' = CleanUp(d) /\ (d >= 1 => phase' \in {"exit", "destroy"})
         \/ \E action \in Actions : todo' = ActionBody(action)
  PROVE  Script' /\ (todo' # <<>> => Head(todo') \notin Closing)
<1>1. /\ Fresh(todo') /\ Range(todo') \cap Readers = {}
      /\ "closeOutputFiles" \in Range(todo') => d = 1 /\ phase' \in {"exit", "destroy"}
  BY CleanUpIsFresh, ActionIsFresh
<1>2. ReadersFit' /\ CloseFits'
  BY <1>1 DEF ReadersFit, CloseFits, LeavesFiles
<1>3. OutputFits'
  BY DEF OutputFits
<1> QED
  BY <1>1, <1>2, <1>3 DEF Script, Fresh

\* Constructing the target.
LEMMA ConstructScript ==
  ASSUME NEW target \in Leaves, move'.target = target, depth' \in 0..3,
         phase' = "construct", todo' = Constructor(target),
         depth' >= 1 => files'.output,
         target = "NewInputAndOutputFiles" => depth' = 1,
         target \in RunTargets \cup SubRunTargets => depth' >= 1
  PROVE  Script' /\ (todo' # <<>> => Head(todo') \notin Closing)
<1>1. /\ Fresh(todo')
      /\ "closeOutputFiles" \in Range(todo') =>
           target = "NewInputAndOutputFiles" /\ "openOutputFiles" \in Range(todo')
  BY ConstructorIsFresh
<1>2. ReadersFit'
  BY DEF ReadersFit
<1>3. CloseFits'
  BY <1>1 DEF CloseFits, ChangesFiles
<1>4. OutputFits'
  BY DEF OutputFits
<1> QED
  BY <1>1, <1>2, <1>3, <1>4 DEF Script, Fresh

\* A step that touches neither the cache nor the files.
LEMMA CalmStep ==
  ASSUME FileInv, TypeInv', UNCHANGED <<cache, files, unwritten>>,
         Script', todo' # <<>> => Head(todo') \notin Closing
  PROVE  FileInv'
<1>1. Conserved' /\ NothingLostAtClose'
  BY DEF FileInv, Conserved, NothingLostAtClose
<1>2. Reached'
  BY DEF Reached, Closing
<1> QED
  BY <1>1, <1>2 DEF FileInv, Script

\* While the machine waits or is between states, HandleFiles has its files open.
LEMMA OpenBetween ==
  ASSUME FileInv, depth >= 1, todo = <<>>, phase \in {"exit", "destroy"} => depth >= 2
  PROVE  files.output
<1>1. "openOutputFiles" \notin Range(todo)
  BY EmptyBody
<1> QED
  BY <1>1 DEF FileInv, TypeInv, Control, ControlOK, OutputFits, LeavesFiles, ChangesFiles

LEMMA ReactFiles ==
  ASSUME FileInv, phase = "stable", NEW m \in Moves, NEW handling \in BOOLEAN, React(m, handling),
         TypeInv'
  PROVE  FileInv'
<1>1. /\ Leaving(depth, m.target, m.action, handling)
      /\ UNCHANGED <<depth, leaf, cache, files, unwritten>>
  BY DEF React, history
<1>2. depth \in 0..3 /\ todo = <<>> /\ m.action \in Actions /\ m.target \in Leaves /\ leaf \in Leaves
  BY DEF FileInv, TypeInv, Control, ControlOK, Nesting, Moves
<1>3. depth >= 1 => files.output
  BY <1>2, OpenBetween
<1>4. /\ phase' \in {"exit", "destroy", "action"}
      /\ \/ todo' = CleanUp(depth) /\ phase' \in {"exit", "destroy"}
         \/ todo' = ActionBody(m.action)
  BY <1>1 DEF Leaving
<1>5. Script' /\ (todo' # <<>> => Head(todo') \notin Closing)
  BY <1>1, <1>2, <1>3, <1>4, LeavingScript
<1> QED
  BY <1>1, <1>5, CalmStep

LEMMA ItemFiles == FileInv /\ Item /\ TypeInv' => FileInv'
<1> SUFFICES ASSUME FileInv, Item, TypeInv' PROVE FileInv'
  OBVIOUS
<1>1. leaf \in Leaves /\ phase = "stable"
  BY DEF FileInv, TypeInv, Control, ControlOK, Item, FileItem, RunItem, SubRunItem, EventItem,
         StopItem, SourceThrows, Idle
<1>2. PICK m \in Moves, handling \in BOOLEAN : React(m, handling)
  <2>1. CASE FileItem
    <3>1. leaf \notin {"EndingLoop", "Error"}
      BY <2>1 DEF FileItem, Idle, FileInv, TypeInv, WaitFits
    <3>2. PICK close \in BOOLEAN : React(OnFile(leaf, close), FALSE)
      BY <2>1 DEF FileItem, ShouldWeCloseOutput
    <3> QED
      BY <1>1, <3>1, <3>2, OnFileFits
  <2>2. CASE RunItem
    <3>1. PICK r \in Runs : React(OnRun(leaf, r = handleRuns.currentRun), FALSE)
      BY <2>2 DEF RunItem
    <3> QED
      BY <1>1, <3>1, OnRunFits
  <2>3. CASE SubRunItem
    <3>1. PICK n \in SubRunNums :
            React(OnSubRun(leaf, <<source.run, n>> = handleSubRuns.current), FALSE)
      BY <2>3 DEF SubRunItem
    <3> QED
      BY <1>1, <3>1, OnSubRunFits
  <2>4. CASE EventItem \/ StopItem \/ SourceThrows
    BY <1>1, <2>4, OnOtherFits DEF EventItem, StopItem, SourceThrows
  <2> QED
    BY <2>1, <2>2, <2>3, <2>4 DEF Item
<1> QED
  BY <1>1, <1>2, ReactFiles

LEMMA TransitionFiles == FileInv /\ TransitionStep /\ TypeInv' => FileInv'
<1> SUFFICES ASSUME FileInv, TransitionStep, TypeInv' PROVE FileInv'
  OBVIOUS
<1>1. /\ depth \in 0..3 /\ move.target \in Leaves /\ move.action \in Actions /\ leaf \in Leaves
      /\ external \in BOOLEAN /\ depth' \in 0..3
  BY DEF FileInv, TypeInv, Control, ControlOK, Moves
<1>2. CASE LeaveComposite
  <2>1. /\ depth >= 1 /\ depth' = depth - 1 /\ todo = <<>>
        /\ UNCHANGED <<cache, files, unwritten>>
    BY <1>2 DEF LeaveComposite, FileInv, TypeInv, Control, Nesting, history
  <2>2. depth' >= 1 => files'.output
    BY <1>1, <2>1, OpenBetween
  <2>3. /\ phase' \notin {"enter", "construct"}
        /\ \/ todo' = CleanUp(depth') /\ (depth' >= 1 => phase' \in {"exit", "destroy"})
           \/ todo' = ActionBody(move.action)
    <3>1. CASE primary = "none"
      BY <1>1, <1>2, <2>1, <3>1 DEF LeaveComposite, Leaving
    <3>2. CASE primary # "none"
      BY <1>1, <1>2, <2>1, <3>2 DEF LeaveComposite, Unwound
    <3> QED
      BY <3>1, <3>2
  <2>4. Script' /\ (todo' # <<>> => Head(todo') \notin Closing)
    BY <1>1, <2>2, <2>3, LeavingScript
  <2> QED
    BY <2>1, <2>4, CalmStep
<1>3. CASE ActionDone
  <2>1. /\ phase = "action" /\ todo = <<>> /\ UNCHANGED <<depth, move, cache, files, unwritten>>
    BY <1>3 DEF ActionDone, history
  <2>2. depth >= 1 => files.output
    BY <1>1, <2>1, OpenBetween
  <2>3. CASE /\ depth < ParentDepth(move.target) /\ phase' = "enter"
             /\ todo' = IF depth = 0 THEN OpenFiles ELSE <<>>
    <3>1. /\ Fresh(todo') /\ Range(todo') \cap Readers = {}
          /\ Range(todo') \cap Closing = {}
          /\ depth = 0 => "openOutputFiles" \in Range(todo')
      <4>1. CASE depth = 0
        <5>1. Range(OpenFiles) \cap Special = {}
          BY OpenFilesIsFresh, PlainBody
        <5> QED
          BY <2>3, <4>1, <5>1, OpenFilesIsFresh DEF Readers
      <4>2. CASE depth # 0
        <5>1. <<>> \in Seq(Inner) /\ Range(<<>>) = {}
          BY EmptyBody
        <5> QED
          BY <2>3, <4>2, <5>1, InnerIsQuiet, QuietIsFresh
      <4> QED
        BY <4>1, <4>2
    <3>2. ReadersFit' /\ CloseFits'
      BY <2>3, <3>1 DEF ReadersFit, CloseFits, Closing
    <3>3. OutputFits'
      BY <2>1, <2>2, <2>3, <3>1 DEF OutputFits
    <3>4. Script' /\ (todo' # <<>> => Head(todo') \notin Closing)
      BY <3>1, <3>2, <3>3 DEF Script, Fresh
    <3> QED
      BY <2>1, <3>4, CalmStep
  <2>4. CASE /\ depth = ParentDepth(move.target) /\ phase' = "construct"
             /\ todo' = Constructor(move.target)
    <3>1. /\ move.target = "NewInputAndOutputFiles" => depth = 1
          /\ move.target \in RunTargets \cup SubRunTargets => depth >= 1
      BY <2>4 DEF ParentDepth, SubRunLeaves, RunLeaves, FileLeaves, RunTargets, SubRunTargets
    <3>2. Script' /\ (todo' # <<>> => Head(todo') \notin Closing)
      BY <1>1, <2>1, <2>2, <2>4, <3>1, ConstructScript
    <3> QED
      BY <2>1, <3>2, CalmStep
  <2> QED
    BY <1>3, <2>3, <2>4 DEF ActionDone
<1>4. CASE EnterComposite
  <2>1. /\ phase = "enter" /\ todo = <<>> /\ depth' = depth + 1 /\ phase' = "construct"
        /\ todo' = Constructor(move.target) /\ UNCHANGED <<move, cache, files, unwritten>>
    BY <1>4 DEF EnterComposite, history
  <2>2. depth < ParentDepth(move.target) /\ files.output
    <3>1. "openOutputFiles" \notin Range(todo)
      BY <2>1, EmptyBody
    <3> QED
      BY <1>1, <2>1, <3>1, OpenBetween DEF FileInv, OutputFits
  <2>3. move.target = "NewInputAndOutputFiles" => depth' = 1
    BY <1>1, <2>1, <2>2 DEF ParentDepth, SubRunLeaves, RunLeaves, FileLeaves
  <2>4. depth' >= 1
    BY <1>1, <2>1
  <2>5. Script' /\ (todo' # <<>> => Head(todo') \notin Closing)
    BY <1>1, <2>1, <2>2, <2>3, <2>4, ConstructScript
  <2> QED
    BY <2>1, <2>5, CalmStep
<1>5. CASE ConstructorDone \/ (ProcessPosted /\ phase' = "terminated")
  <2>1. /\ todo = <<>> /\ todo' = <<>> /\ phase \notin {"exit", "destroy"}
        /\ phase' \in {"stable", "terminated"} /\ UNCHANGED <<depth, cache, files, unwritten>>
    BY <1>5 DEF ConstructorDone, ProcessPosted, React, Leaving, FileInv, TypeInv, Control, Nesting,
                history
  <2>2. depth >= 1 => files.output
    BY <1>1, <2>1, OpenBetween
  <2>3. todo' = ActionBody("none") /\ "none" \in Actions
    BY <2>1 DEF ActionBody, Actions
  <2>4. Script' /\ (todo' # <<>> => Head(todo') \notin Closing)
    BY <1>1, <2>1, <2>2, <2>3, LeavingScript
  <2> QED
    BY <2>1, <2>4, CalmStep
<1>6. CASE ProcessPosted /\ phase' # "terminated"
  <2>1. PICK m \in {OnStop(leaf), OnRestart(leaf)} : React(m, external)
    BY <1>6 DEF ProcessPosted
  <2>2. m \in Moves /\ phase = "stable"
    BY <1>1, <1>6, OnOtherFits DEF ProcessPosted
  <2> QED
    BY <1>1, <2>1, <2>2, ReactFiles
<1> QED
  BY <1>2, <1>3, <1>4, <1>5, <1>6 DEF TransitionStep

-----------------------------------------------------------------------------
(* What a statement does to the cache and the files.                        *)

\* Statements that are no file call and do not write the cache out.
LEMMA InnerScript ==
  ASSUME FileInv, NEW call, call \notin FileCalls \cup CacheCalls, Running(call), UNCHANGED files,
         Flow \/ (todo' = Tail(todo) /\ UNCHANGED <<phase, depth, move>>)
  PROVE  Script' /\ (todo' # <<>> => Head(todo') \notin Closing)
<1>1. todo # <<>> /\ Head(todo) \notin FileCalls \cup CacheCalls
  BY DEF Running
<1>2. Head(todo) \notin Closing \cup {"writeSubRunCache", "openOutputFiles"}
  BY <1>1 DEF Closing, FileCalls, Responses, CacheCalls
<1>3. CASE todo' = Tail(todo) /\ UNCHANGED <<phase, depth, move>>
  <2>1. Script' /\ NextInClosing
    BY <1>1, <1>2, <1>3, ReturnsScript DEF Closing
  <2> QED
    BY <1>2, <2>1 DEF NextInClosing, Closing
<1>4. CASE UNCHANGED <<phase, depth, move, todo>>
  <2>1. ClosesInOrder(todo) /\ ReadersFit /\ CloseFits /\ OutputFits
    BY DEF FileInv
  <2>2. LeavesFiles' = LeavesFiles /\ ChangesFiles' = ChangesFiles
    BY <1>4 DEF LeavesFiles, ChangesFiles
  <2>3. ReadersFit' /\ CloseFits' /\ OutputFits'
    BY <1>4, <2>1, <2>2 DEF ReadersFit, CloseFits, OutputFits
  <2>4. ClosesInOrder(todo') /\ (todo' # <<>> => Head(todo') \notin Closing)
    BY <1>2, <1>4, <2>1
  <2> QED
    BY <2>3, <2>4 DEF Script
<1>5. CASE Throws
  BY <1>1, <1>5, ThrowsScript
<1>6. CASE \E body \in Seq(Inner) : Expands(body)
  BY <1>1, <1>6, ExpandsScript
<1>7. Flow => \/ todo' = Tail(todo) /\ UNCHANGED <<phase, depth, move>>
              \/ UNCHANGED <<phase, depth, move, todo>>
              \/ Throws \/ \E body \in Seq(Inner) : Expands(body)
  BY DEF Flow, Returns
<1> QED
  BY <1>3, <1>4, <1>5, <1>6, <1>7

\* Whoever reads a run or a sub-run finds the output files open.
LEMMA ReaderOpen ==
  ASSUME FileInv, todo # <<>>,
         Head(todo) \in {"setupCurrentRun", "readAndCacheRun", "setupCurrentSubRun",
                         "readAndCacheSubRun"}
  PROVE  files.output
<1>1. Head(todo) \in Range(todo)
  BY RestOfBody DEF FileInv, TypeInv, Control, ControlOK
<1>2. Head(todo) \in Readers /\ Head(todo) \in Special /\ Head(todo) # "rewindInput"
  BY DEF Readers, Special
<1>3. phase = "construct"
  BY <1>1, <1>2 DEF FileInv, ReadersFit
<1>4. move.target \in RunTargets \cup SubRunTargets
  BY <1>1, <1>2 DEF FileInv, TypeInv, Control, TodoFits, SpecialOf
<1>5. depth >= 1 /\ move.target # "NewInputAndOutputFiles"
  BY <1>3, <1>4 DEF FileInv, ReadersFit, RunTargets, SubRunTargets
<1> QED
  BY <1>3, <1>5 DEF FileInv, OutputFits, LeavesFiles, ChangesFiles

\* Reading caches what it makes unwritten; writing erases what it has written.
LEMMA CachesConserves ==
  ASSUME FileInv, CachesRun \/ CachesSubRun \/ CachesNothing
  PROVE  Conserved'
<1>1. cache \in Cache /\ unwritten \in Ids /\ Conserved
  BY DEF FileInv, TypeInv, DataOK
<1>2. CASE CachesRun
  BY <1>1, <1>2 DEF CachesRun, InsertRun, Conserved, Cache, Ids
<1>3. CASE CachesSubRun
  BY <1>1, <1>3 DEF CachesSubRun, InsertSubRun, Conserved, Cache, Ids
<1>4. CASE CachesNothing
  BY <1>1, <1>4 DEF CachesNothing, Conserved
<1> QED
  BY <1>2, <1>3, <1>4

LEMMA WritesConserves ==
  ASSUME FileInv,
         \/ \E r : WritesRun(r)
         \/ \E sr : WritesSubRun(sr)
         \/ UNCHANGED <<cache, unwritten>>
  PROVE  /\ Conserved'
         /\ unwritten = NoneOf => unwritten' = NoneOf
         /\ cache.subRuns = {} => cache'.subRuns = {}
<1>1. cache \in Cache /\ unwritten \in Ids /\ Conserved
  BY DEF FileInv, TypeInv, DataOK
<1>2. ASSUME NEW r, WritesRun(r)
      PROVE  /\ Conserved' /\ cache'.subRuns = cache.subRuns
             /\ unwritten = NoneOf => unwritten' = NoneOf
  BY <1>1, <1>2 DEF WritesRun, DeleteRun, Conserved, Cache, Ids, NoneOf
<1>3. ASSUME NEW sr, WritesSubRun(sr)
      PROVE  /\ Conserved' /\ cache'.subRuns \subseteq cache.subRuns
             /\ unwritten = NoneOf => unwritten' = NoneOf
  <2>1. /\ cache'.runs = cache.runs /\ cache'.subRuns = cache.subRuns \ {sr}
        /\ unwritten'.runs = unwritten.runs /\ unwritten'.subRuns = unwritten.subRuns \ {sr}
    BY <1>1, <1>3 DEF WritesSubRun, DeleteSubRun, Cache, Ids
  <2>2. unwritten = NoneOf => unwritten' = NoneOf
    BY <1>3 DEF WritesSubRun, NoneOf
  <2> QED
    BY <1>1, <2>1, <2>2 DEF Conserved
<1>4. CASE UNCHANGED <<cache, unwritten>>
  BY <1>1, <1>4 DEF Conserved
<1> QED
  BY <1>2, <1>3, <1>4

\* A statement of HandleRuns or HandleSubRuns, or one about events and loops.
LEMMA InnerFiles ==
  ASSUME FileInv, TypeInv', NEW call, call \notin FileCalls \cup CacheCalls, Running(call),
         UNCHANGED files,
         Flow \/ (todo' = Tail(todo) /\ UNCHANGED <<phase, depth, move>>),
         \/ /\ call \in {"setupCurrentRun", "readAndCacheRun", "setupCurrentSubRun",
                         "readAndCacheSubRun"}
            /\ CachesRun \/ CachesSubRun \/ CachesNothing
         \/ \E r : WritesRun(r)
         \/ \E sr : WritesSubRun(sr)
         \/ UNCHANGED <<cache, unwritten>>
  PROVE  FileInv'
<1>1. Script' /\ (todo' # <<>> => Head(todo') \notin Closing)
  BY InnerScript
<1>2. Conserved' /\ NothingLostAtClose'
  <2>1. CASE call \in {"setupCurrentRun", "readAndCacheRun", "setupCurrentSubRun",
                       "readAndCacheSubRun"}
             /\ (CachesRun \/ CachesSubRun \/ CachesNothing)
    BY <2>1, ReaderOpen, CachesConserves DEF Running, NothingLostAtClose
  <2>2. CASE (\E r : WritesRun(r)) \/ (\E sr : WritesSubRun(sr)) \/ UNCHANGED <<cache, unwritten>>
    BY <2>2, WritesConserves DEF NothingLostAtClose, FileInv
  <2> QED
    BY <2>1, <2>2
<1>3. Reached'
  BY <1>1 DEF Reached, Closing
<1> QED
  BY <1>1, <1>2, <1>3 DEF FileInv, Script

LEMMA ReadFileFiles ==
  ASSUME FileInv, TypeInv'
  PROVE  ReadFile \/ CloseInputFile => FileInv'
<1> SUFFICES ASSUME ReadFile \/ CloseInputFile PROVE FileInv'
  OBVIOUS
<1>1. files \in [input : BOOLEAN, output : BOOLEAN]
  BY DEF FileInv, TypeInv, DataOK
<1>2. /\ todo # <<>> /\ Head(todo) \in {"readFile", "closeInputFile"}
      /\ files'.output = files.output /\ UNCHANGED <<cache, unwritten>>
      /\ Returns \/ Throws
  BY <1>1 DEF ReadFile, CloseInputFile, Running, history
<1>3. Script' /\ (todo' # <<>> => Head(todo') \notin Closing)
  <2>1. CASE Throws
    BY <1>2, <2>1, ThrowsScript
  <2>2. CASE Returns
    BY <1>2, <2>2, ReturnsScript DEF Returns, NextInClosing, Closing
  <2> QED
    BY <1>2, <2>1, <2>2
<1>4. Conserved' /\ NothingLostAtClose'
  BY <1>2 DEF FileInv, Conserved, NothingLostAtClose
<1> QED
  BY <1>3, <1>4 DEF FileInv, Script, Reached, Closing

LEMMA OutputFileFiles ==
  ASSUME FileInv, TypeInv'
  PROVE  OpenOutputFiles \/ CloseOutputFiles => FileInv'
<1>1. /\ files \in [input : BOOLEAN, output : BOOLEAN] /\ cache \in Cache /\ unwritten \in Ids
      /\ Conserved /\ Reached /\ NothingLostAtClose
  BY DEF FileInv, TypeInv, DataOK
<1>2. ASSUME OpenOutputFiles PROVE FileInv'
  <2>1. /\ todo # <<>> /\ Head(todo) = "openOutputFiles" /\ UNCHANGED <<cache, unwritten>>
        /\ (Returns /\ files'.output) \/ (Throws /\ (files.output => files'.output))
        /\ files.output => files'.output
    BY <1>1, <1>2 DEF OpenOutputFiles, Running, history
  <2>2. Script' /\ (todo' # <<>> => Head(todo') \notin Closing)
    <3>1. CASE Throws
      BY <2>1, <3>1, ThrowsScript
    <3>2. CASE Returns /\ files'.output
      BY <2>1, <3>2, ReturnsScript DEF Returns, NextInClosing, Closing
    <3> QED
      BY <2>1, <3>1, <3>2
  <2>3. Conserved' /\ NothingLostAtClose'
    BY <1>1, <2>1 DEF Conserved, NothingLostAtClose
  <2> QED
    BY <2>2, <2>3 DEF FileInv, Script, Reached, Closing
<1>3. ASSUME CloseOutputFiles PROVE FileInv'
  <2>1. /\ todo # <<>> /\ Head(todo) = "closeOutputFiles" /\ UNCHANGED <<cache, unwritten>>
        /\ Returns \/ (Throws /\ UNCHANGED files)
    BY <1>3 DEF CloseOutputFiles, Running
  <2>2. cache.runs = {} /\ cache.subRuns = {}
    BY <1>1, <2>1 DEF Reached, Closing
  <2>3. unwritten = NoneOf
    BY <1>1, <2>2 DEF Conserved, Ids, NoneOf
  <2>4. Script' /\ (todo' # <<>> => Head(todo') \notin Closing)
    <3>1. CASE Throws /\ UNCHANGED files
      BY <2>1, <3>1, ThrowsScript
    <3>2. CASE Returns
      BY <2>1, <3>2, ReturnsScript DEF Returns, NextInClosing, Closing
    <3> QED
      BY <2>1, <3>1, <3>2
  <2>5. Conserved' /\ NothingLostAtClose'
    BY <1>1, <2>1, <2>3 DEF Conserved, NothingLostAtClose
  <2> QED
    BY <2>4, <2>5 DEF FileInv, Script, Reached, Closing
<1> QED
  BY <1>2, <1>3

\* The three steps before closeOutputFiles.
LEMMA ClosingFiles ==
  ASSUME FileInv, TypeInv'
  PROVE  WriteSubRunCache \/ WriteRunCache \/ Respond => FileInv'
<1>1. Reached /\ NothingLostAtClose
  BY DEF FileInv
<1>2. SUFFICES ASSUME WriteSubRunCache \/ WriteRunCache \/ Respond PROVE FileInv'
  OBVIOUS
<1>3. todo # <<>> /\ UNCHANGED files
  BY <1>2 DEF WriteSubRunCache, WriteRunCache, Respond, Running
<1>4. \/ \E r : WritesRun(r)
      \/ \E sr : WritesSubRun(sr)
      \/ UNCHANGED <<cache, unwritten>>
  BY <1>2 DEF WriteSubRunCache, WriteRunCache, Respond, history
<1>5. Conserved' /\ NothingLostAtClose' /\ (cache.subRuns = {} => cache'.subRuns = {})
  BY <1>1, <1>3, <1>4, WritesConserves DEF NothingLostAtClose
<1>6. CASE Throws
  <2>1. Script' /\ (todo' # <<>> => Head(todo') \notin Closing)
    BY <1>3, <1>6, ThrowsScript
  <2> QED
    BY <1>5, <2>1 DEF FileInv, Script, Reached, Closing
<1>7. CASE /\ Returns
           /\ Head(todo) = "writeSubRunCache" => cache'.subRuns = {}
           /\ Head(todo) = "writeRunCache" => cache'.runs = {}
           /\ Head(todo) = "respondToCloseOutputFiles" => UNCHANGED cache
  <2>1. Script' /\ NextInClosing
    <3>1. Head(todo) \notin {"openOutputFiles", "closeOutputFiles"}
      BY <1>2 DEF WriteSubRunCache, WriteRunCache, Respond, Running, Responses
    <3> QED
      BY <1>3, <1>7, <3>1, ReturnsScript DEF Returns
  <2>2. Reached'
    <3>1. CASE Head(todo) = "writeSubRunCache"
      BY <1>7, <2>1, <3>1 DEF NextInClosing, Reached, Closing
    <3>2. CASE Head(todo) = "writeRunCache"
      <4>1. cache.subRuns = {}
        BY <1>1, <1>3, <3>2 DEF Reached, Closing
      <4> QED
        BY <1>5, <1>7, <3>2, <4>1 DEF Reached
    <3>3. CASE Head(todo) = "respondToCloseOutputFiles"
      <4>1. cache.subRuns = {} /\ cache.runs = {}
        BY <1>1, <1>3, <3>3 DEF Reached, Closing
      <4> QED
        BY <1>7, <3>3, <4>1 DEF Reached
    <3>4. CASE Head(todo) \notin {"writeSubRunCache", "writeRunCache", "respondToCloseOutputFiles"}
      BY <2>1, <3>4 DEF NextInClosing, Reached, Closing
    <3> QED
      BY <3>1, <3>2, <3>3, <3>4
  <2> QED
    BY <1>5, <2>1, <2>2 DEF FileInv, Script
\* Another turn of a loop over the cache.
<1>8. CASE UNCHANGED <<phase, depth, move, todo>>
  <2>1. ClosesInOrder(todo) /\ ReadersFit /\ CloseFits /\ OutputFits
    BY DEF FileInv
  <2>2. LeavesFiles' = LeavesFiles /\ ChangesFiles' = ChangesFiles
    BY <1>8 DEF LeavesFiles, ChangesFiles
  <2>3. ReadersFit' /\ CloseFits' /\ OutputFits'
    BY <1>3, <1>8, <2>1, <2>2 DEF ReadersFit, CloseFits, OutputFits
  <2>4. Reached'
    <3>1. Head(todo) \in {"respondToCloseOutputFiles", "closeOutputFiles"} =>
            UNCHANGED cache
      BY <1>2 DEF WriteSubRunCache, WriteRunCache, Respond, Running
    <3> QED
      BY <1>1, <1>5, <1>8, <3>1 DEF Reached, Closing
  <2> QED
    BY <1>5, <1>8, <2>1, <2>3, <2>4 DEF FileInv
<1>9. WriteSubRunCache => Throws \/ UNCHANGED <<phase, depth, move, todo>>
        \/ (Head(todo) = "writeSubRunCache" /\ Returns /\ cache.subRuns = {} /\ cache' = cache)
  BY DEF WriteSubRunCache, Running
<1>10. WriteRunCache => Throws \/ UNCHANGED <<phase, depth, move, todo>>
        \/ (Head(todo) = "writeRunCache" /\ Returns /\ cache.runs = {} /\ cache' = cache)
  BY DEF WriteRunCache, Running
<1>11. Respond => Throws \/ (Returns /\ UNCHANGED cache /\ Head(todo) \in Responses)
  BY DEF Respond, Running
<1> QED
  BY <1>2, <1>6, <1>7, <1>8, <1>9, <1>10, <1>11 DEF Responses

LEMMA RunFiles == FileInv /\ RunStep /\ TypeInv' => FileInv'
<1> SUFFICES ASSUME FileInv, RunStep, TypeInv' PROVE FileInv'
  OBVIOUS
<1>1. RunCalls \cap (FileCalls \cup CacheCalls) = {}
  BY DEF RunCalls, FileCalls, Responses, CacheCalls
<1>2. CASE ReadAndCacheRun \/ SetupCurrentRun
  <2>1. PICK call \in {"readAndCacheRun", "setupCurrentRun"} : Running(call)
    BY <1>2 DEF ReadAndCacheRun, SetupCurrentRun
  <2>2. Flow
    BY <1>2, BodiesAreInner DEF ReadAndCacheRun, SetupCurrentRun, Flow
  <2>3. (CachesRun \/ CachesNothing) /\ UNCHANGED files
    BY <1>2 DEF ReadAndCacheRun, SetupCurrentRun
  <2>4. call \in RunCalls
    BY <2>1 DEF RunCalls
  <2> QED
    BY <1>1, <2>1, <2>2, <2>3, <2>4, InnerFiles
<1>3. CASE BeginRunIfNotDoneAlready \/ BeginRun \/ EndRun \/ FinalizeRun \/ ClearCurrentRun
  <2>1. PICK call \in RunCalls : Running(call)
    BY <1>3 DEF BeginRunIfNotDoneAlready, BeginRun, EndRun, FinalizeRun, ClearCurrentRun, RunCalls
  <2>2. Flow
    BY <1>3, BodiesAreInner DEF BeginRunIfNotDoneAlready, BeginRun, EndRun, FinalizeRun,
                                ClearCurrentRun, Flow
  <2>3. UNCHANGED <<files, cache, unwritten>>
    BY <1>3 DEF BeginRunIfNotDoneAlready, BeginRun, EndRun, FinalizeRun, ClearCurrentRun, history
  <2> QED
    BY <1>1, <2>1, <2>2, <2>3, InnerFiles
<1>4. CASE WriteRun
  <2>1. Running("writeRun") /\ "writeRun" \in RunCalls /\ Flow /\ UNCHANGED files
    BY <1>4 DEF WriteRun, Flow, RunCalls
  <2>2. (\E r : WritesRun(r)) \/ UNCHANGED <<cache, unwritten>>
    BY <1>4 DEF WriteRun
  <2> QED
    BY <1>1, <2>1, <2>2, InnerFiles
<1> QED
  BY <1>2, <1>3, <1>4 DEF RunStep

LEMMA SubRunFiles == FileInv /\ SubRunStep /\ TypeInv' => FileInv'
<1> SUFFICES ASSUME FileInv, SubRunStep, TypeInv' PROVE FileInv'
  OBVIOUS
<1>1. SubRunCalls \cap (FileCalls \cup CacheCalls) = {}
  BY DEF SubRunCalls, FileCalls, Responses, CacheCalls
<1>2. CASE ReadAndCacheSubRun \/ SetupCurrentSubRun
  <2>1. PICK call \in {"readAndCacheSubRun", "setupCurrentSubRun"} : Running(call)
    BY <1>2 DEF ReadAndCacheSubRun, SetupCurrentSubRun
  <2>2. Flow
    BY <1>2 DEF ReadAndCacheSubRun, SetupCurrentSubRun, Flow
  <2>3. (CachesSubRun \/ CachesNothing) /\ UNCHANGED files
    BY <1>2 DEF ReadAndCacheSubRun, SetupCurrentSubRun
  <2>4. call \in SubRunCalls
    BY <2>1 DEF SubRunCalls
  <2> QED
    BY <1>1, <2>1, <2>2, <2>3, <2>4, InnerFiles
<1>3. CASE FinalizeAllSubRuns \/ FinalizeSubRun \/ ClearCurrentSubRun \/ FinalizeOutstandingSubRuns
           \/ NextOutstanding
  <2>1. PICK call \in SubRunCalls : Running(call)
    BY <1>3 DEF FinalizeAllSubRuns, FinalizeSubRun, ClearCurrentSubRun, FinalizeOutstandingSubRuns,
                NextOutstanding, SubRunCalls
  <2>2. Flow
    BY <1>3, BodiesAreInner DEF FinalizeAllSubRuns, FinalizeSubRun, ClearCurrentSubRun,
                                FinalizeOutstandingSubRuns, NextOutstanding, Flow
  <2>3. UNCHANGED <<files, cache, unwritten>>
    BY <1>3 DEF FinalizeAllSubRuns, FinalizeSubRun, ClearCurrentSubRun, FinalizeOutstandingSubRuns,
                NextOutstanding, history
  <2> QED
    BY <1>1, <2>1, <2>2, <2>3, InnerFiles
<1>4. CASE MarkSubRunNonEmpty \/ StartSubRun \/ SubRunStarted \/ BeginSubRun \/ EndSubRun
  <2>1. PICK call \in SubRunCalls : Running(call)
    BY <1>4 DEF MarkSubRunNonEmpty, StartSubRun, SubRunStarted, BeginSubRun, EndSubRun, SubRunCalls
  <2>2. Flow
    BY <1>4, BodiesAreInner DEF MarkSubRunNonEmpty, StartSubRun, SubRunStarted, BeginSubRun,
                                EndSubRun, Flow
  <2>3. UNCHANGED <<files, cache, unwritten>>
    BY <1>4 DEF MarkSubRunNonEmpty, StartSubRun, SubRunStarted, BeginSubRun, EndSubRun, history
  <2> QED
    BY <1>1, <2>1, <2>2, <2>3, InnerFiles
<1>5. CASE WriteSubRun
  <2>1. Running("writeSubRun") /\ "writeSubRun" \in SubRunCalls /\ Flow /\ UNCHANGED files
    BY <1>5 DEF WriteSubRun, Flow, SubRunCalls
  <2>2. (\E sr : WritesSubRun(sr)) \/ UNCHANGED <<cache, unwritten>>
    BY <1>5 DEF WriteSubRun
  <2> QED
    BY <1>1, <2>1, <2>2, InnerFiles
<1> QED
  BY <1>2, <1>3, <1>4, <1>5 DEF SubRunStep

LEMMA OtherFiles ==
  ASSUME FileInv, TypeInv'
  PROVE  ReadEvent \/ ProcessEvent \/ EndOfLoop \/ DoErrorStuff \/ RewindInput => FileInv'
<1> SUFFICES ASSUME ReadEvent \/ ProcessEvent \/ EndOfLoop \/ DoErrorStuff \/ RewindInput
             PROVE  FileInv'
  OBVIOUS
<1>1. OtherCalls \cap (FileCalls \cup CacheCalls) = {}
  BY DEF OtherCalls, FileCalls, Responses, CacheCalls
<1>2. PICK call \in OtherCalls : Running(call)
  BY DEF ReadEvent, ProcessEvent, EndOfLoop, DoErrorStuff, RewindInput, OtherCalls, Running
<1>3. Flow \/ (todo' = Tail(todo) /\ UNCHANGED <<phase, depth, move>>)
  BY DEF ReadEvent, ProcessEvent, EndOfLoop, DoErrorStuff, RewindInput, Flow
<1>4. UNCHANGED <<files, cache, unwritten>>
  BY DEF ReadEvent, ProcessEvent, EndOfLoop, DoErrorStuff, RewindInput, history
<1> QED
  BY <1>1, <1>2, <1>3, <1>4, InnerFiles

-----------------------------------------------------------------------------
(* The theorem.                                                             *)

LEMMA FileInvInit == Init => FileInv
<1> SUFFICES ASSUME Init PROVE FileInv
  OBVIOUS
<1>1. TypeInv /\ todo = <<>> /\ phase = "stable" /\ depth = 0 /\ unwritten = NoneOf
  BY TypeInvInit DEF Init
<1>2. <<>> \in Seq(Inner) /\ Range(<<>>) = {}
  BY EmptyBody
<1>3. ClosesInOrder(todo) /\ Reached
  BY <1>1, <1>2, InnerIsQuiet, QuietIsFresh DEF Fresh, Reached
<1>4. ReadersFit /\ CloseFits /\ OutputFits
  BY <1>1, <1>2 DEF ReadersFit, CloseFits, OutputFits
<1>5. Conserved /\ NothingLostAtClose
  BY <1>1 DEF Conserved, NothingLostAtClose, NoneOf
<1> QED
  BY <1>1, <1>3, <1>4, <1>5 DEF FileInv

LEMMA FileInvStep == FileInv /\ [Next]_vars => FileInv'
<1> SUFFICES ASSUME FileInv, [Next]_vars PROVE FileInv'
  OBVIOUS
<1>1. TypeInv'
  BY TypeInvStep DEF FileInv
<1>2. CASE UNCHANGED vars
  <2>1. UNCHANGED <<phase, depth, move, todo, cache, files, unwritten>>
    BY <1>2 DEF vars, control, history
  <2>2. ClosesInOrder(todo) /\ ReadersFit /\ CloseFits /\ OutputFits
    BY DEF FileInv
  <2>3. LeavesFiles' = LeavesFiles /\ ChangesFiles' = ChangesFiles
    BY <2>1 DEF LeavesFiles, ChangesFiles
  <2>4. ReadersFit' /\ CloseFits' /\ OutputFits'
    BY <2>1, <2>2, <2>3 DEF ReadersFit, CloseFits, OutputFits
  <2>5. Conserved' /\ Reached' /\ NothingLostAtClose'
    BY <2>1 DEF FileInv, Conserved, Reached, NothingLostAtClose
  <2> QED
    BY <1>1, <2>1, <2>2, <2>4, <2>5 DEF FileInv
<1>3. CASE Item
  BY <1>1, <1>3, ItemFiles
<1>4. CASE TransitionStep
  BY <1>1, <1>4, TransitionFiles
<1>5. CASE FileStep
  BY <1>1, <1>5, ReadFileFiles, OutputFileFiles, ClosingFiles DEF FileStep
<1>6. CASE RunStep
  BY <1>1, <1>6, RunFiles
<1>7. CASE SubRunStep
  BY <1>1, <1>7, SubRunFiles
<1>8. CASE ReadEvent \/ ProcessEvent \/ EndOfLoop \/ DoErrorStuff \/ RewindInput
  BY <1>1, <1>8, OtherFiles
<1> QED
  BY <1>2, <1>3, <1>4, <1>5, <1>6, <1>7, <1>8 DEF Next, MachineStep, Done

\* Whenever the output files are closed, every run and every sub-run that has been
\* read has been written: no sequence of files, runs, sub-runs and events, and no
\* exception of the source, of a module or of a destructor, makes HandleFiles close
\* the output files with a principal left in the cache.
THEOREM NothingLost == Spec => []NothingLostAtClose
<1>1. Spec => []FileInv
  BY FileInvInit, FileInvStep, PTL DEF Spec
<1>2. FileInv => NothingLostAtClose
  BY DEF FileInv
<1> QED
  BY <1>1, <1>2, PTL

-----------------------------------------------------------------------------
(* Where the machine is in its functions.                                   *)

\* A statement and the ones after it.
Then(call, rest) == <<call>> \o rest

\* While the constructor of NewInputAndOutputFiles or HandleFiles is running, an
\* output file is opened after an input file.
AfterInput ==
  IF phase = "construct" /\ leaf # "NewInputAndOutputFiles"
    THEN <<>> ELSE Then("openOutputFiles", Then("respondToOpenOutputFiles", <<>>))
AfterClose ==
  IF phase = "construct" THEN Then("readFile", Then("respondToOpenInputFile", AfterInput)) ELSE <<>>
AfterSubRun ==
  IF phase = "construct" THEN Then("setupCurrentSubRun", <<>>)
                         ELSE Then("finalizeOutstandingSubRuns", <<>>)
ReadsEvent == Then("readEvent", Then("processEvent", <<>>))
AfterLoop == IF phase = "construct" THEN Then("startSubRun", ReadsEvent) ELSE <<>>
InLoop == handleSubRuns.iter > 0
WritesThen(rest) == IF WritesSubRunsAtEnd THEN Then("writeSubRun", rest) ELSE rest
AfterWrite == IF InLoop THEN Then("nextOutstanding", AfterLoop)
                        ELSE Then("clearCurrentSubRun", AfterSubRun)
StartsSubRun == phase = "construct" /\ leaf = "HandleEvent" /\ ~InLoop

\* The statements that follow one in the function that runs it and in the
\* functions that have called that function.
After(call) ==
  CASE call = "readFile" -> Then("respondToOpenInputFile", AfterInput)
    [] call = "respondToOpenInputFile" -> AfterInput
    [] call = "openOutputFiles" -> Then("respondToOpenOutputFiles", <<>>)
    [] call = "writeSubRunCache" ->
         Then("writeRunCache", Then("respondToCloseOutputFiles", Then("closeOutputFiles",
              Then("respondToCloseInputFile", Then("closeInputFile", AfterClose)))))
    [] call = "writeRunCache" ->
         Then("respondToCloseOutputFiles", Then("closeOutputFiles",
              Then("respondToCloseInputFile", Then("closeInputFile", AfterClose))))
    [] call = "respondToCloseOutputFiles" ->
         Then("closeOutputFiles",
              Then("respondToCloseInputFile", Then("closeInputFile", AfterClose)))
    [] call = "closeOutputFiles" ->
         Then("respondToCloseInputFile", Then("closeInputFile", AfterClose))
    [] call = "respondToCloseInputFile" -> Then("closeInputFile", AfterClose)
    [] call = "closeInputFile" -> AfterClose
    [] call = "endRun" ->
         IF WritesRunsAtEnd THEN Then("writeRun", Then("clearCurrentRun", <<>>))
                            ELSE Then("clearCurrentRun", <<>>)
    [] call = "writeRun" -> Then("clearCurrentRun", <<>>)
    [] call = "beginRunIfNotDoneAlready" -> Then("markSubRunNonEmpty", ReadsEvent)
    [] call = "beginRun" ->
         IF leaf = "HandleEvent" THEN Then("markSubRunNonEmpty", ReadsEvent) ELSE <<>>
    [] call \in {"markSubRunNonEmpty", "startSubRun", "subRunStarted"} -> ReadsEvent
    [] call = "readEvent" -> Then("processEvent", <<>>)
    [] call \in {"finalizeSubRun", "clearCurrentSubRun"} -> AfterSubRun
    [] call \in {"finalizeOutstandingSubRuns", "nextOutstanding"} -> AfterLoop
    [] call = "beginSubRun" ->
         IF StartsSubRun THEN Then("subRunStarted", ReadsEvent)
                         ELSE Then("endSubRun", WritesThen(AfterWrite))
    [] call = "endSubRun" -> WritesThen(AfterWrite)
    [] call = "writeSubRun" -> AfterWrite
    [] OTHER -> <<>>

\* The first of them, "none" when the functions have returned.
NextAfter(call) ==
  CASE call = "readFile" -> "respondToOpenInputFile"
    [] call = "respondToOpenInputFile" ->
         IF phase = "construct" /\ leaf # "NewInputAndOutputFiles" THEN "none" ELSE "openOutputFiles"
    [] call = "openOutputFiles" -> "respondToOpenOutputFiles"
    [] call = "writeSubRunCache" -> "writeRunCache"
    [] call = "writeRunCache" -> "respondToCloseOutputFiles"
    [] call = "respondToCloseOutputFiles" -> "closeOutputFiles"
    [] call = "closeOutputFiles" -> "respondToCloseInputFile"
    [] call = "respondToCloseInputFile" -> "closeInputFile"
    [] call = "closeInputFile" -> IF phase = "construct" THEN "readFile" ELSE "none"
    [] call = "endRun" -> IF WritesRunsAtEnd THEN "writeRun" ELSE "clearCurrentRun"
    [] call = "writeRun" -> "clearCurrentRun"
    [] call = "beginRunIfNotDoneAlready" -> "markSubRunNonEmpty"
    [] call = "beginRun" -> IF leaf = "HandleEvent" THEN "markSubRunNonEmpty" ELSE "none"
    [] call \in {"markSubRunNonEmpty", "startSubRun", "subRunStarted"} -> "readEvent"
    [] call = "readEvent" -> "processEvent"
    [] call \in {"finalizeSubRun", "clearCurrentSubRun"} ->
         IF phase = "construct" THEN "setupCurrentSubRun" ELSE "finalizeOutstandingSubRuns"
    [] call \in {"finalizeOutstandingSubRuns", "nextOutstanding"} ->
         IF phase = "construct" THEN "startSubRun" ELSE "none"
    [] call = "beginSubRun" -> IF StartsSubRun THEN "subRunStarted" ELSE "endSubRun"
    [] call = "endSubRun" -> IF WritesSubRunsAtEnd THEN "writeSubRun"
                             ELSE IF InLoop THEN "nextOutstanding" ELSE "clearCurrentSubRun"
    [] call = "writeSubRun" -> IF InLoop THEN "nextOutstanding" ELSE "clearCurrentSubRun"
    [] OTHER -> "none"

\* What is left to run is determined by the next statement.
Code(call) == IF call = "none" THEN <<>> ELSE Then(call, After(call))
Chained == todo = Code(NextCall)

-----------------------------------------------------------------------------
LEMMA CallsAre ==
  Calls = {"respondToOpenInputFile", "respondToOpenOutputFiles", "respondToCloseOutputFiles",
           "respondToCloseInputFile", "readFile", "openOutputFiles", "closeOutputFiles",
           "closeInputFile", "writeSubRunCache", "writeRunCache", "readAndCacheRun",
           "setupCurrentRun", "beginRunIfNotDoneAlready", "beginRun", "endRun", "finalizeRun",
           "writeRun", "clearCurrentRun", "readAndCacheSubRun", "setupCurrentSubRun",
           "finalizeAllSubRuns", "finalizeSubRun", "finalizeOutstandingSubRuns",
           "nextOutstanding", "markSubRunNonEmpty", "startSubRun", "subRunStarted",
           "beginSubRun", "endSubRun", "writeSubRun", "clearCurrentSubRun", "endOfLoop",
           "doErrorStuff", "rewindInput", "readEvent", "processEvent"}
  BY DEF Calls, FileCalls, Responses, CacheCalls, RunCalls, SubRunCalls, OtherCalls

LEMMA ThenIs ==
  ASSUME NEW call \in Calls, NEW rest \in Seq(Calls)
  PROVE  /\ Then(call, rest) \in Seq(Calls) /\ Then(call, rest) # <<>>
         /\ Head(Then(call, rest)) = call /\ Tail(Then(call, rest)) = rest
<1>1. <<call>> \in Seq(Calls) /\ Len(<<call>>) = 1 /\ <<call>>[1] = call
  OBVIOUS
<1>2. /\ <<call>> \o rest \in Seq(Calls)
      /\ Len(<<call>> \o rest) = 1 + Len(rest)
      /\ (<<call>> \o rest)[1] = call
      /\ \A i \in 1..Len(rest) : (<<call>> \o rest)[i + 1] = rest[i]
  BY <1>1, ConcatProperties
<1>3. <<call>> \o rest # <<>>
  BY <1>2, EmptySeq
<1>4. /\ Head(<<call>> \o rest) = call
      /\ Tail(<<call>> \o rest) \in Seq(Calls)
      /\ Len(Tail(<<call>> \o rest)) = Len(rest)
      /\ \A i \in 1..Len(rest) : Tail(<<call>> \o rest)[i] = rest[i]
  BY <1>2, <1>3, HeadTailProperties
<1>5. Tail(<<call>> \o rest) = rest
  BY <1>4, SeqEqual
<1> QED
  BY <1>2, <1>3, <1>4, <1>5 DEF Then

\* Then as a function of its arguments.
LEMMA AllThen ==
  \A call \in Calls, rest \in Seq(Calls) :
     /\ Then(call, rest) \in Seq(Calls) /\ Then(call, rest) # <<>>
     /\ Head(Then(call, rest)) = call /\ Tail(Then(call, rest)) = rest
  BY ThenIs

LEMMA Unrolls ==
  ASSUME NEW call \in Calls
  PROVE  NextAfter(call) \in Calls \cup {"none"} /\ After(call) = Code(NextAfter(call))
<1>1. NextAfter(call) \in Calls \cup {"none"}
  BY CallsAre DEF NextAfter
<1>2. /\ After("readFile") = Code(NextAfter("readFile"))
      /\ After("respondToOpenInputFile") = Code(NextAfter("respondToOpenInputFile"))
      /\ After("openOutputFiles") = Code(NextAfter("openOutputFiles"))
      /\ After("respondToOpenOutputFiles") = Code(NextAfter("respondToOpenOutputFiles"))
      /\ After("closeInputFile") = Code(NextAfter("closeInputFile"))
      /\ After("respondToCloseInputFile") = Code(NextAfter("respondToCloseInputFile"))
  BY DEF After, NextAfter, Code, AfterInput, AfterClose
<1>3. /\ After("writeSubRunCache") = Code(NextAfter("writeSubRunCache"))
      /\ After("writeRunCache") = Code(NextAfter("writeRunCache"))
      /\ After("respondToCloseOutputFiles") = Code(NextAfter("respondToCloseOutputFiles"))
      /\ After("closeOutputFiles") = Code(NextAfter("closeOutputFiles"))
  BY DEF After, NextAfter, Code
<1>4. /\ After("readAndCacheRun") = Code(NextAfter("readAndCacheRun"))
      /\ After("setupCurrentRun") = Code(NextAfter("setupCurrentRun"))
      /\ After("beginRunIfNotDoneAlready") = Code(NextAfter("beginRunIfNotDoneAlready"))
      /\ After("beginRun") = Code(NextAfter("beginRun"))
      /\ After("endRun") = Code(NextAfter("endRun"))
      /\ After("finalizeRun") = Code(NextAfter("finalizeRun"))
      /\ After("writeRun") = Code(NextAfter("writeRun"))
      /\ After("clearCurrentRun") = Code(NextAfter("clearCurrentRun"))
  BY DEF After, NextAfter, Code, ReadsEvent
<1>5. /\ After("readAndCacheSubRun") = Code(NextAfter("readAndCacheSubRun"))
      /\ After("setupCurrentSubRun") = Code(NextAfter("setupCurrentSubRun"))
      /\ After("finalizeAllSubRuns") = Code(NextAfter("finalizeAllSubRuns"))
      /\ After("finalizeSubRun") = Code(NextAfter("finalizeSubRun"))
      /\ After("finalizeOutstandingSubRuns") = Code(NextAfter("finalizeOutstandingSubRuns"))
      /\ After("nextOutstanding") = Code(NextAfter("nextOutstanding"))
      /\ After("clearCurrentSubRun") = Code(NextAfter("clearCurrentSubRun"))
  BY DEF After, NextAfter, Code, AfterSubRun, AfterLoop
<1>6. /\ After("markSubRunNonEmpty") = Code(NextAfter("markSubRunNonEmpty"))
      /\ After("startSubRun") = Code(NextAfter("startSubRun"))
      /\ After("subRunStarted") = Code(NextAfter("subRunStarted"))
      /\ After("beginSubRun") = Code(NextAfter("beginSubRun"))
      /\ After("endSubRun") = Code(NextAfter("endSubRun"))
      /\ After("writeSubRun") = Code(NextAfter("writeSubRun"))
  BY DEF After, NextAfter, Code, ReadsEvent, WritesThen, AfterWrite
<1>7. /\ After("endOfLoop") = Code(NextAfter("endOfLoop"))
      /\ After("doErrorStuff") = Code(NextAfter("doErrorStuff"))
      /\ After("rewindInput") = Code(NextAfter("rewindInput"))
      /\ After("readEvent") = Code(NextAfter("readEvent"))
      /\ After("processEvent") = Code(NextAfter("processEvent"))
  BY DEF After, NextAfter, Code, ReadsEvent
<1> QED
  BY <1>1, <1>2, <1>3, <1>4, <1>5, <1>6, <1>7, CallsAre

LEMMA AfterTyped ==
  ASSUME NEW call \in Calls PROVE After(call) \in Seq(Calls)
<1>1. <<>> \in Seq(Calls)
  BY EmptyBody
<1>2. /\ {"readFile", "respondToOpenInputFile", "openOutputFiles", "respondToOpenOutputFiles"} \subseteq Calls
      /\ {"writeRunCache", "respondToCloseOutputFiles", "closeOutputFiles",
          "respondToCloseInputFile", "closeInputFile"} \subseteq Calls
      /\ {"writeRun", "clearCurrentRun", "markSubRunNonEmpty"} \subseteq Calls
      /\ {"setupCurrentSubRun", "finalizeOutstandingSubRuns", "startSubRun", "nextOutstanding",
          "clearCurrentSubRun", "subRunStarted", "endSubRun", "writeSubRun"} \subseteq Calls
      /\ {"readEvent", "processEvent"} \subseteq Calls
  BY CallsAre
<1> HIDE DEF Calls
<1>3. Then("respondToOpenOutputFiles", <<>>) \in Seq(Calls) /\ Then("processEvent", <<>>) \in Seq(Calls)
  BY <1>1, <1>2, AllThen
<1>4. AfterInput \in Seq(Calls) /\ AfterSubRun \in Seq(Calls) /\ ReadsEvent \in Seq(Calls)
  BY <1>1, <1>2, <1>3, AllThen DEF AfterInput, AfterSubRun, ReadsEvent
<1>5. Then("respondToOpenInputFile", AfterInput) \in Seq(Calls)
  BY <1>2, <1>4, AllThen
<1>6. AfterClose \in Seq(Calls) /\ AfterLoop \in Seq(Calls)
  BY <1>1, <1>2, <1>4, <1>5, AllThen DEF AfterClose, AfterLoop
<1>7. AfterWrite \in Seq(Calls)
  BY <1>2, <1>4, <1>6, AllThen DEF AfterWrite
<1>8. WritesThen(AfterWrite) \in Seq(Calls)
  BY <1>2, <1>7, AllThen DEF WritesThen
<1>9. /\ Then("closeInputFile", AfterClose) \in Seq(Calls)
      /\ Then("respondToCloseInputFile", Then("closeInputFile", AfterClose)) \in Seq(Calls)
  BY <1>2, <1>6, AllThen
<1>10. /\ Then("closeOutputFiles", Then("respondToCloseInputFile", Then("closeInputFile", AfterClose))) \in Seq(Calls)
  BY <1>2, <1>9, AllThen
<1>11. Then("respondToCloseOutputFiles", Then("closeOutputFiles", Then("respondToCloseInputFile", Then("closeInputFile", AfterClose)))) \in Seq(Calls)
  BY <1>2, <1>10, AllThen
<1>12. /\ After("readFile") \in Seq(Calls)
       /\ After("respondToOpenInputFile") \in Seq(Calls)
       /\ After("openOutputFiles") \in Seq(Calls)
       /\ After("respondToOpenOutputFiles") \in Seq(Calls)
       /\ After("closeInputFile") \in Seq(Calls)
       /\ After("respondToCloseInputFile") \in Seq(Calls)
       /\ After("writeSubRunCache") \in Seq(Calls)
       /\ After("writeRunCache") \in Seq(Calls)
       /\ After("respondToCloseOutputFiles") \in Seq(Calls)
       /\ After("closeOutputFiles") \in Seq(Calls)
  BY <1>1, <1>2, <1>3, <1>4, <1>5, <1>6, <1>9, <1>10, <1>11, AllThen DEF After
<1>13. /\ After("readAndCacheRun") \in Seq(Calls)
       /\ After("setupCurrentRun") \in Seq(Calls)
       /\ After("beginRunIfNotDoneAlready") \in Seq(Calls)
       /\ After("beginRun") \in Seq(Calls)
       /\ After("endRun") \in Seq(Calls)
       /\ After("finalizeRun") \in Seq(Calls)
       /\ After("writeRun") \in Seq(Calls)
       /\ After("clearCurrentRun") \in Seq(Calls)
       /\ After("endOfLoop") \in Seq(Calls)
       /\ After("doErrorStuff") \in Seq(Calls)
       /\ After("rewindInput") \in Seq(Calls)
       /\ After("readEvent") \in Seq(Calls)
       /\ After("processEvent") \in Seq(Calls)
  BY <1>1, <1>2, <1>3, <1>4, AllThen DEF After
<1>14. /\ After("readAndCacheSubRun") \in Seq(Calls)
       /\ After("setupCurrentSubRun") \in Seq(Calls)
       /\ After("finalizeAllSubRuns") \in Seq(Calls)
       /\ After("finalizeSubRun") \in Seq(Calls)
       /\ After("finalizeOutstandingSubRuns") \in Seq(Calls)
       /\ After("nextOutstanding") \in Seq(Calls)
       /\ After("clearCurrentSubRun") \in Seq(Calls)
       /\ After("markSubRunNonEmpty") \in Seq(Calls)
       /\ After("startSubRun") \in Seq(Calls)
       /\ After("subRunStarted") \in Seq(Calls)
       /\ After("beginSubRun") \in Seq(Calls)
       /\ After("endSubRun") \in Seq(Calls)
       /\ After("writeSubRun") \in Seq(Calls)
  BY <1>1, <1>2, <1>4, <1>6, <1>7, <1>8, AllThen DEF After
<1> QED
  BY <1>12, <1>13, <1>14, CallsAre

-----------------------------------------------------------------------------
(* Bodies as code.                                                          *)

LEMMA CodeIs ==
  ASSUME NEW call \in Calls \cup {"none"}
  PROVE  /\ Code(call) \in Seq(Calls)
         /\ Code(call) = <<>> <=> call = "none"
         /\ call # "none" => Head(Code(call)) = call /\ Tail(Code(call)) = After(call)
<1>1. CASE call = "none"
  BY <1>1, EmptyBody DEF Code
<1>2. CASE call # "none"
  BY <1>2, AfterTyped, AllThen DEF Code
<1> QED
  BY <1>1, <1>2

LEMMA SameCode ==
  ASSUME NEW call, phase' = phase, leaf' = leaf, config' = config,
         handleSubRuns'.iter = handleSubRuns.iter
  PROVE  Code(call)' = Code(call) /\ NextAfter(call)' = NextAfter(call)
<1>1. /\ AfterInput' = AfterInput /\ AfterClose' = AfterClose /\ AfterSubRun' = AfterSubRun
      /\ AfterLoop' = AfterLoop /\ InLoop' = InLoop /\ StartsSubRun' = StartsSubRun
      /\ WritesSubRunsAtEnd' = WritesSubRunsAtEnd /\ WritesRunsAtEnd' = WritesRunsAtEnd
  BY DEF AfterInput, AfterClose, AfterSubRun, AfterLoop, InLoop, StartsSubRun, WritesSubRunsAtEnd,
         WritesRunsAtEnd
<1>2. AfterWrite' = AfterWrite
  BY <1>1 DEF AfterWrite
<1>3. WritesThen(AfterWrite)' = WritesThen(AfterWrite)
  BY <1>1, <1>2 DEF WritesThen
<1>4. After(call)' = After(call)
  BY <1>1, <1>2, <1>3 DEF After
<1>5. NextAfter(call)' = NextAfter(call)
  BY <1>1 DEF NextAfter
<1> QED
  BY <1>4, <1>5 DEF Code

LEMMA NextIs == todo \in Seq(Calls) => NextCall \in Calls \cup {"none"} /\ (NextCall = "none" <=> todo = <<>>)
<1>1. todo \in Seq(Calls) /\ todo # <<>> => Head(todo) \in Calls
  BY RestOfBody, RangeOfSeq
<1>2. "none" \notin Calls
  BY CallsAre
<1> QED
  BY <1>1, <1>2 DEF NextCall

\* The function that runs is about to execute "call".
LEMMA Continues ==
  ASSUME NEW call \in Calls \cup {"none"}, todo' = Code(call)'
  PROVE  NextCall' = call /\ Chained'
<1>1. /\ Code(call)' = <<>> <=> call = "none"
      /\ call # "none" => Head(Code(call)') = call
  <2>1. (/\ Code(call) = <<>> <=> call = "none"
         /\ call # "none" => Head(Code(call)) = call)'
    BY CodeIs, PTL
  <2> QED
    BY <2>1
<1>2. NextCall' = call
  BY <1>1 DEF NextCall
<1> QED
  BY <1>2 DEF Chained

LEMMA Splits ==
  ASSUME NEW body \in Seq(Calls), body # <<>>
  PROVE  body = Then(Head(body), Tail(body))
<1>1. /\ Len(body) \in Nat \ {0}
      /\ Head(body) \in Calls /\ Head(body) = body[1]
      /\ Tail(body) \in Seq(Calls) /\ Len(Tail(body)) = Len(body) - 1
      /\ \A i \in 1..Len(Tail(body)) : Tail(body)[i] = body[i + 1]
  BY EmptySeq, HeadTailProperties
<1>2. /\ <<Head(body)>> \in Seq(Calls) /\ Len(<<Head(body)>>) = 1 /\ <<Head(body)>>[1] = Head(body)
  BY <1>1
<1>3. /\ Then(Head(body), Tail(body)) \in Seq(Calls)
      /\ Len(Then(Head(body), Tail(body))) = 1 + Len(Tail(body))
      /\ \A i \in 1..(1 + Len(Tail(body))) :
           Then(Head(body), Tail(body))[i] = IF i <= 1 THEN Head(body) ELSE Tail(body)[i - 1]
  BY <1>1, <1>2, ConcatProperties DEF Then
<1>4. ASSUME NEW i \in 1..Len(body)
      PROVE  body[i] = Then(Head(body), Tail(body))[i]
  BY <1>1, <1>3
<1> QED
  BY <1>1, <1>3, <1>4, SeqEqual

LEMMA ThenBefore ==
  ASSUME NEW call \in Calls, NEW body \in Seq(Calls), NEW rest \in Seq(Calls)
  PROVE  Then(call, body) \o rest = Then(call, body \o rest)
<1>1. <<call>> \in Seq(Calls)
  OBVIOUS
<1> QED
  BY <1>1, ConcatAssociative DEF Then

LEMMA NothingBefore ==
  ASSUME NEW rest \in Seq(Calls)
  PROVE  <<>> \o rest = rest /\ rest \o <<>> = rest
  BY ConcatEmptySeq

LEMMA ShortCode ==
  ASSUME NEW a \in Calls, NEW b \in Calls
  PROVE  <<a>> = Then(a, <<>>) /\ <<a, b>> = Then(a, Then(b, <<>>))
<1>1. /\ <<a>> \in Seq(Calls) /\ <<a>> # <<>> /\ Head(<<a>>) = a /\ Tail(<<a>>) = <<>>
      /\ <<a, b>> \in Seq(Calls) /\ <<a, b>> # <<>> /\ Head(<<a, b>>) = a /\ Tail(<<a, b>>) = <<b>>
      /\ <<b>> \in Seq(Calls) /\ <<b>> # <<>> /\ Head(<<b>>) = b /\ Tail(<<b>>) = <<>>
  OBVIOUS
<1> QED
  BY <1>1, Splits

LEMMA LongCode ==
  ASSUME NEW a \in Calls, NEW b \in Calls, NEW c \in Calls, NEW d \in Calls, NEW e \in Calls,
         NEW f \in Calls
  PROVE  /\ <<a, b, c, d>> = Then(a, Then(b, Then(c, Then(d, <<>>))))
         /\ <<a, b, c, d, e, f>> = Then(a, Then(b, Then(c, Then(d, Then(e, Then(f, <<>>))))))
<1>1. ASSUME NEW u \in Calls, NEW v \in Calls, NEW w \in Calls
      PROVE  <<u, v, w>> = Then(u, Then(v, Then(w, <<>>)))
  <2>1. /\ <<u, v, w>> \in Seq(Calls) /\ <<u, v, w>> # <<>>
        /\ Head(<<u, v, w>>) = u /\ Tail(<<u, v, w>>) = <<v, w>>
    OBVIOUS
  <2> QED
    BY <2>1, Splits, ShortCode
<1>2. ASSUME NEW u \in Calls, NEW v \in Calls, NEW w \in Calls, NEW x \in Calls
      PROVE  <<u, v, w, x>> = Then(u, Then(v, Then(w, Then(x, <<>>))))
  <2>1. /\ <<u, v, w, x>> \in Seq(Calls) /\ <<u, v, w, x>> # <<>>
        /\ Head(<<u, v, w, x>>) = u /\ Tail(<<u, v, w, x>>) = <<v, w, x>>
    OBVIOUS
  <2>2. <<u, v, w, x>> = Then(u, <<v, w, x>>)
    BY <2>1, Splits
  <2>3. <<v, w, x>> = Then(v, Then(w, Then(x, <<>>)))
    BY <1>1
  <2> QED
    BY <2>2, <2>3
<1>3. /\ <<b, c, d, e, f>> \in Seq(Calls) /\ <<b, c, d, e, f>> # <<>>
      /\ Head(<<b, c, d, e, f>>) = b /\ Tail(<<b, c, d, e, f>>) = <<c, d, e, f>>
      /\ <<a, b, c, d, e, f>> \in Seq(Calls) /\ <<a, b, c, d, e, f>> # <<>>
      /\ Head(<<a, b, c, d, e, f>>) = a /\ Tail(<<a, b, c, d, e, f>>) = <<b, c, d, e, f>>
  OBVIOUS
<1>4. <<b, c, d, e, f>> = Then(b, <<c, d, e, f>>)
  BY <1>3, Splits
<1>5. <<a, b, c, d, e, f>> = Then(a, <<b, c, d, e, f>>)
  BY <1>3, Splits
<1>6. <<c, d, e, f>> = Then(c, Then(d, Then(e, Then(f, <<>>))))
  BY <1>2
<1>7. <<a, b, c, d>> = Then(a, Then(b, Then(c, Then(d, <<>>))))
  BY <1>2
<1> QED
  BY <1>4, <1>5, <1>6, <1>7

LEMMA FileBodies ==
  /\ CloseFiles = Then("writeSubRunCache", Then("writeRunCache", Then("respondToCloseOutputFiles",
       Then("closeOutputFiles", Then("respondToCloseInputFile", Then("closeInputFile", <<>>))))))
  /\ OpenFiles = Then("readFile", Then("respondToOpenInputFile", Then("openOutputFiles",
       Then("respondToOpenOutputFiles", <<>>))))
  /\ GoToNewInputFile = Then("respondToCloseInputFile", Then("closeInputFile", Then("readFile",
       Then("respondToOpenInputFile", <<>>))))
  /\ OpenFiles \in Seq(Calls)
<1>1. {"writeSubRunCache", "writeRunCache", "respondToCloseOutputFiles", "closeOutputFiles",
       "respondToCloseInputFile", "closeInputFile"} \subseteq Calls
  BY CallsAre
<1>2. {"readFile", "respondToOpenInputFile", "openOutputFiles", "respondToOpenOutputFiles"} \subseteq Calls
  BY CallsAre
<1>3. {"respondToCloseInputFile", "closeInputFile", "readFile", "respondToOpenInputFile"} \subseteq Calls
  BY CallsAre
<1> HIDE DEF Calls
<1>4. CloseFiles = Then("writeSubRunCache", Then("writeRunCache", Then("respondToCloseOutputFiles",
        Then("closeOutputFiles", Then("respondToCloseInputFile", Then("closeInputFile", <<>>))))))
  <2>1. /\ "writeSubRunCache" \in Calls /\ "writeRunCache" \in Calls
        /\ "respondToCloseOutputFiles" \in Calls /\ "closeOutputFiles" \in Calls
        /\ "respondToCloseInputFile" \in Calls /\ "closeInputFile" \in Calls
    BY <1>1
  <2>2. <<"writeSubRunCache", "writeRunCache", "respondToCloseOutputFiles", "closeOutputFiles",
          "respondToCloseInputFile", "closeInputFile">>
        = Then("writeSubRunCache", Then("writeRunCache", Then("respondToCloseOutputFiles",
            Then("closeOutputFiles", Then("respondToCloseInputFile", Then("closeInputFile", <<>>))))))
    BY <2>1, LongCode
  <2> QED BY <2>2 DEF CloseFiles
<1>5. OpenFiles = Then("readFile", Then("respondToOpenInputFile", Then("openOutputFiles",
        Then("respondToOpenOutputFiles", <<>>))))
  BY <1>2, LongCode DEF OpenFiles
<1>6. GoToNewInputFile = Then("respondToCloseInputFile", Then("closeInputFile", Then("readFile",
        Then("respondToOpenInputFile", <<>>))))
  BY <1>3, LongCode DEF GoToNewInputFile
<1>7. OpenFiles \in Seq(Calls)
  BY <1>2 DEF OpenFiles
<1> QED
  BY <1>4, <1>5, <1>6, <1>7

LEMMA CloseThenOpen ==
  CloseFiles \o OpenFiles
    = Then("writeSubRunCache", Then("writeRunCache", Then("respondToCloseOutputFiles",
        Then("closeOutputFiles", Then("respondToCloseInputFile", Then("closeInputFile", OpenFiles))))))
<1>1. <<>> \in Seq(Calls) /\ OpenFiles \in Seq(Calls) /\ <<>> \o OpenFiles = OpenFiles
  BY FileBodies, EmptyBody, NothingBefore
<1>2. ASSUME NEW call \in Calls, NEW body \in Seq(Calls), NEW rest, body \o OpenFiles = rest
      PROVE  Then(call, body) \in Seq(Calls) /\ Then(call, body) \o OpenFiles = Then(call, rest)
  BY <1>1, <1>2, ThenIs, ThenBefore
<1>3. /\ "closeInputFile" \in Calls /\ "respondToCloseInputFile" \in Calls
      /\ "closeOutputFiles" \in Calls /\ "respondToCloseOutputFiles" \in Calls
      /\ "writeRunCache" \in Calls /\ "writeSubRunCache" \in Calls
  BY CallsAre
<1> HIDE DEF Calls
<1>4. PICK a1 \in Seq(Calls) : a1 = Then("closeInputFile", <<>>) /\ a1 \o OpenFiles = Then("closeInputFile", OpenFiles)
  BY <1>2, <1>3, <1>1
<1>5. PICK a2 \in Seq(Calls) : a2 = Then("respondToCloseInputFile", a1) /\ a2 \o OpenFiles = Then("respondToCloseInputFile", a1 \o OpenFiles)
  BY <1>2, <1>3, <1>4
<1>6. PICK a3 \in Seq(Calls) : a3 = Then("closeOutputFiles", a2) /\ a3 \o OpenFiles = Then("closeOutputFiles", a2 \o OpenFiles)
  BY <1>2, <1>3, <1>5
<1>7. PICK a4 \in Seq(Calls) : a4 = Then("respondToCloseOutputFiles", a3) /\ a4 \o OpenFiles = Then("respondToCloseOutputFiles", a3 \o OpenFiles)
  BY <1>2, <1>3, <1>6
<1>8. PICK a5 \in Seq(Calls) : a5 = Then("writeRunCache", a4) /\ a5 \o OpenFiles = Then("writeRunCache", a4 \o OpenFiles)
  BY <1>2, <1>3, <1>7
<1>9. PICK a6 \in Seq(Calls) : a6 = Then("writeSubRunCache", a5) /\ a6 \o OpenFiles = Then("writeSubRunCache", a5 \o OpenFiles)
  BY <1>2, <1>3, <1>8
<1> QED
  BY FileBodies, <1>4, <1>5, <1>6, <1>7, <1>8, <1>9

LEMMA ShortBefore ==
  ASSUME NEW a \in Calls, NEW b \in Calls, NEW rest \in Seq(Calls)
  PROVE  <<a>> \o rest = Then(a, rest) /\ <<a, b>> \o rest = Then(a, Then(b, rest))
<1>1. <<>> \in Seq(Calls)
  BY EmptyBody
<1>2. Then(b, <<>>) \in Seq(Calls)
  BY <1>1, ThenIs
<1>3. <<a, b>> \o rest = Then(a, Then(b, <<>>) \o rest)
  BY <1>2, ShortCode, ThenBefore
<1>4. Then(b, <<>>) \o rest = Then(b, <<>> \o rest)
  BY <1>1, ThenBefore
<1> QED
  BY <1>3, <1>4, NothingBefore DEF Then

-----------------------------------------------------------------------------
(* Where each statement is executed.                                        *)

GoesDown == phase \in {"exit", "destroy"}
Constructs(target) == phase = "construct" /\ leaf = target
ChangesInput ==
  \/ Constructs("HandleNewInputFile1") \/ Constructs("HandleNewInputFile2")
  \/ Constructs("HandleNewInputFile3") \/ Constructs("NewInputAndOutputFiles")
Closes == {"writeSubRunCache", "writeRunCache", "respondToCloseOutputFiles", "closeOutputFiles"}
EventCalls == {"beginRunIfNotDoneAlready", "markSubRunNonEmpty", "startSubRun", "subRunStarted",
               "readEvent", "processEvent"}
RunEnds == {"finalizeRun", "endRun", "writeRun", "clearCurrentRun"}
SubRunBodies == {"beginSubRun", "endSubRun", "writeSubRun"}

InPlace ==
  /\ NextCall \in Closes => (GoesDown /\ depth = 1) \/ Constructs("NewInputAndOutputFiles")
  /\ NextCall \in {"respondToCloseInputFile", "closeInputFile"} =>
       (GoesDown /\ depth = 1) \/ ChangesInput
  /\ NextCall \in {"readFile", "respondToOpenInputFile"} =>
       (phase = "enter" /\ depth = 0) \/ ChangesInput
  /\ NextCall \in {"openOutputFiles", "respondToOpenOutputFiles"} =>
       (phase = "enter" /\ depth = 0) \/ Constructs("NewInputAndOutputFiles")
  /\ NextCall = "readAndCacheRun" => Constructs("ContinueRun1") \/ Constructs("ContinueRun2")
  /\ NextCall = "setupCurrentRun" => Constructs("NewRun")
  /\ NextCall = "beginRun" => Constructs("NewRun") \/ Constructs("HandleEvent")
  /\ NextCall \in RunEnds => depth = 2 /\ (GoesDown \/ (phase = "action" /\ move.target = "NewRun"))
  /\ NextCall \in EventCalls => Constructs("HandleEvent")
  /\ NextCall = "readAndCacheSubRun" => Constructs("ContinueSubRun")
  /\ NextCall = "setupCurrentSubRun" => Constructs("FirstSubRun") \/ Constructs("AnotherSubRun")
  /\ NextCall = "finalizeAllSubRuns" => GoesDown /\ depth = 3
  /\ NextCall \in {"finalizeSubRun", "clearCurrentSubRun"} =>
       (GoesDown /\ depth = 3) \/ Constructs("AnotherSubRun")
  /\ NextCall \in {"finalizeOutstandingSubRuns", "nextOutstanding"} =>
       (GoesDown /\ depth = 3) \/ Constructs("HandleEvent")
  /\ NextCall \in SubRunBodies =>
       \/ GoesDown /\ depth = 3
       \/ Constructs("AnotherSubRun") /\ ~InLoop
       \/ Constructs("HandleEvent") /\ (InLoop \/ NextCall = "beginSubRun")
  /\ NextCall = "endOfLoop" => Constructs("EndingLoop")
  /\ NextCall = "doErrorStuff" => Constructs("Error")
  /\ NextCall = "rewindInput" => phase = "action" /\ depth = 0 /\ move.target = "Starting"

\* The leaves from which a transition goes to one.
From(target) ==
  CASE target = "Starting" -> {"EndingLoop"}
    [] target = "FirstFile" -> {"Starting"}
    [] target = "HandleNewInputFile1" -> FileLeaves
    [] target = "HandleNewInputFile2" -> RunLeaves
    [] target = "HandleNewInputFile3" -> SubRunLeaves
    [] target \in {"NewInputAndOutputFiles", "NewRun"} -> FileLeaves \cup RunLeaves \cup SubRunLeaves
    [] target = "ContinueRun1" -> {"HandleNewInputFile2"}
    [] target = "ContinueRun2" -> {"HandleNewInputFile3"}
    [] target = "FirstSubRun" -> {"NewRun", "ContinueRun1"}
    [] target = "ContinueSubRun" -> {"ContinueRun2"}
    [] target = "AnotherSubRun" -> SubRunLeaves
    [] target = "HandleEvent" -> {"FirstSubRun", "AnotherSubRun", "HandleEvent", "ContinueSubRun"}
    [] OTHER -> Leaves

\* Where the transition under way has come to.
Between ==
  /\ phase \in {"construct", "stable"} => leaf = move.target /\ depth = ParentDepth(leaf)
  /\ phase \in {"exit", "action", "enter"} \/ (phase = "destroy" /\ primary = "none") =>
       /\ leaf \in From(move.target)
       /\ move.action = "finalizeRun" <=> move.target = "NewRun" /\ leaf \notin FileLeaves
       /\ move.action = "rewindAndPrepareForNextLoop" <=> move.target = "Starting"
  /\ phase = "exit" \/ (phase = "destroy" /\ primary = "none") =>
       CommonDepth(leaf, move.target) < depth /\ depth <= ParentDepth(leaf)
  /\ phase = "action" => depth = CommonDepth(leaf, move.target)
  /\ phase = "enter" => depth = CommonDepth(leaf, move.target) /\ depth + 1 = ParentDepth(move.target)
  /\ primary # "none" => phase \in {"destroy", "terminated"}
  /\ phase = "terminated" => depth = 0
  /\ phase = "destroy" => primary # "none" \/ external
  /\ external => phase # "exit" /\ move.target = "EndingLoop" /\ posted # "Restart"

\* HandleSubRuns: the objects there are, and the loop over the sub-runs put off.
Broken == handleSubRuns.exception
LoopFits ==
  /\ depth < 2 => handleRuns = NewHandleRuns
  /\ depth < 3 => handleSubRuns = NewHandleSubRuns
  /\ InLoop =>
       /\ Broken
       /\ \/ NextCall \in SubRunBodies \cup {"nextOutstanding"}
          \/ NextCall \in {"none", "finalizeAllSubRuns"} /\ phase = "destroy"
  /\ NextCall \in SubRunBodies \cup {"clearCurrentSubRun", "nextOutstanding", "subRunStarted"} => Broken

OrderInv == TypeInv /\ Chained /\ InPlace /\ Between /\ LoopFits

\* A step of the function that runs, which comes to the statement "call".
Goes(call) ==
  /\ NextCall' = call
  /\ UNCHANGED <<config, phase, depth, leaf, move, source, external, primary, swallowed, errorState>>

\* The first statement of CleanUp(d).
FirstCleanUp(d) == CASE d = 1 -> "writeSubRunCache" [] d = 2 -> "finalizeRun"
                     [] d = 3 -> "finalizeAllSubRuns" [] OTHER -> "none"

\* An exception in the function that runs.
Fails ==
  /\ UNCHANGED <<config, depth, leaf, move, source, external, errorState>>
  /\ \/ /\ phase = "destroy" /\ phase' = "destroy" /\ primary' = primary
        /\ NextCall' = "none" /\ swallowed' = swallowed \cup {depth}
     \/ /\ phase # "destroy" /\ phase' = Unwound(depth) /\ primary' = NextCall
        /\ NextCall' = IF phase = "exit" THEN "none" ELSE FirstCleanUp(depth)
        /\ swallowed' = swallowed

LEMMA ReturnsGoes ==
  ASSUME TypeInv, Chained, NEW call, Running(call), Returns,
         handleSubRuns'.iter = handleSubRuns.iter
  PROVE  NextCall = call /\ Goes(NextAfter(call)) /\ Chained'
<1>1. /\ todo \in Seq(Calls) /\ todo # <<>> /\ NextCall = call
      /\ todo' = Tail(todo)
      /\ UNCHANGED <<config, phase, depth, leaf, move, source, external, primary, swallowed,
                     errorState>>
  BY DEF TypeInv, Control, ControlOK, Running, Returns, NextCall, failure
<1>2. call \in Calls /\ call # "none"
  BY <1>1, NextIs
<1>3. Tail(todo) = After(call)
  BY <1>1, <1>2, CodeIs DEF Chained
<1>4. NextAfter(call) \in Calls \cup {"none"} /\ After(call) = Code(NextAfter(call))
  BY <1>2, Unrolls
<1>5. todo' = Code(NextAfter(call))
  BY <1>1, <1>3, <1>4
<1> DEFINE n == NextAfter(call)
<1>6. PICK c \in Calls \cup {"none"} : c = n
  BY <1>4
<1>7. todo' = Code(c)'
  BY <1>1, <1>5, <1>6, SameCode
<1>8. NextCall' = c /\ Chained'
  BY <1>7, Continues
<1> QED
  BY <1>1, <1>6, <1>8 DEF Goes

\* A function is called: its body runs, then what is left of its caller.
LEMMA ExpandsGoes ==
  ASSUME TypeInv, Chained, NEW call, Running(call), NEW body, Expands(body),
         NEW next \in Calls \cup {"none"}, body \o After(call) = Code(next)'
  PROVE  NextCall = call /\ Goes(next) /\ Chained'
<1>1. /\ todo \in Seq(Calls) /\ todo # <<>> /\ NextCall = call
      /\ todo' = body \o Tail(todo)
      /\ UNCHANGED <<config, phase, depth, leaf, move, source, external, primary, swallowed,
                     errorState>>
  BY DEF TypeInv, Control, ControlOK, Running, Expands, NextCall, failure
<1>2. call \in Calls /\ call # "none"
  BY <1>1, NextIs
<1>3. Tail(todo) = After(call)
  BY <1>1, <1>2, CodeIs DEF Chained
<1>4. NextCall' = next /\ Chained'
  BY <1>1, <1>3, Continues
<1> QED
  BY <1>1, <1>4 DEF Goes

\* The clean-up of a composite as code.
LEMMA CleanUpCode ==
  ASSUME NEW d \in 0..3, phase # "construct"
  PROVE  FirstCleanUp(d) \in Calls \cup {"none"} /\ CleanUp(d) = Code(FirstCleanUp(d))
<1>1. FirstCleanUp(d) \in Calls \cup {"none"}
  BY CallsAre DEF FirstCleanUp
<1>2. CASE d = 1
  <2>1. CloseFiles = Code("writeSubRunCache")
    BY FileBodies DEF Code, After, AfterClose
  <2> QED
    BY <1>1, <1>2, <2>1 DEF CleanUp, FirstCleanUp
<1>3. CASE d = 2
  BY <1>3, ShortCode, CallsAre DEF CleanUp, FirstCleanUp, Code, After
<1>4. CASE d = 3
  BY <1>4, ShortCode, CallsAre DEF CleanUp, FirstCleanUp, Code, After
<1>5. CASE d = 0
  BY <1>5 DEF CleanUp, FirstCleanUp, Code
<1> QED
  BY <1>1, <1>2, <1>3, <1>4, <1>5

LEMMA CleansUp ==
  ASSUME NEW d \in 0..3, phase' # "construct", todo' = CleanUp(d)
  PROVE  NextCall' = FirstCleanUp(d) /\ Chained'
<1>1. FirstCleanUp(d) \in Calls \cup {"none"} /\ CleanUp(d) = Code(FirstCleanUp(d))'
  <2>1. (phase # "construct" => FirstCleanUp(d) \in Calls \cup {"none"}
                                /\ CleanUp(d) = Code(FirstCleanUp(d)))'
    BY CleanUpCode, PTL
  <2> QED
    BY <2>1
<1> QED
  BY <1>1, Continues

LEMMA Stops == todo' = <<>> => NextCall' = "none" /\ Chained'
<1>1. Code("none")' = <<>>
  BY DEF Code
<1> QED
  BY <1>1, Continues

LEMMA ThrowsGoes ==
  ASSUME TypeInv, Between, todo # <<>>, Throws
  PROVE  Fails /\ Chained'
<1>1. /\ depth \in 0..3 /\ phase \in Phases
      /\ phase \in {"exit", "destroy"} => depth >= 1
      /\ phase \notin {"stable", "terminated"}
  BY DEF TypeInv, Control, ControlOK, Nesting
<1>2. NextCall = Head(todo)
  BY DEF NextCall
<1>3. UNCHANGED <<config, depth, leaf, move, source, external, errorState>>
  BY DEF Throws
<1>4. CASE phase = "destroy"
  <2>1. todo' = <<>> /\ phase' = phase /\ primary' = primary /\ swallowed' = swallowed \cup {depth}
    BY <1>4 DEF Throws
  <2> QED
    BY <1>3, <1>4, <2>1, Stops DEF Fails
<1>5. CASE phase # "destroy"
  <2>1. /\ primary' = Head(todo) /\ phase' = Unwound(depth) /\ swallowed' = swallowed
        /\ todo' = IF phase = "exit" THEN <<>> ELSE CleanUp(depth)
    BY <1>5 DEF Throws
  <2>2. phase' # "construct"
    BY <2>1 DEF Unwound
  <2>3. NextCall' = (IF phase = "exit" THEN "none" ELSE FirstCleanUp(depth)) /\ Chained'
    BY <1>1, <2>1, <2>2, CleansUp, Stops
  <2> QED
    BY <1>2, <1>3, <1>5, <2>1, <2>3 DEF Fails
<1> QED
  BY <1>4, <1>5

\* The first statement of the constructor of a leaf and of a transition's action.
FirstConstruct(target) ==
  CASE target = "EndingLoop" -> "endOfLoop"
    [] target = "Error" -> "doErrorStuff"
    [] target \in {"HandleNewInputFile1", "HandleNewInputFile2", "HandleNewInputFile3"} ->
         "respondToCloseInputFile"
    [] target = "NewInputAndOutputFiles" -> "writeSubRunCache"
    [] target = "NewRun" -> "setupCurrentRun"
    [] target \in {"ContinueRun1", "ContinueRun2"} -> "readAndCacheRun"
    [] target = "FirstSubRun" -> "setupCurrentSubRun"
    [] target = "AnotherSubRun" -> "finalizeSubRun"
    [] target = "ContinueSubRun" -> "readAndCacheSubRun"
    [] target = "HandleEvent" -> "beginRunIfNotDoneAlready"
    [] OTHER -> "none"
FirstAction(action) ==
  CASE action = "finalizeRun" -> "finalizeRun"
    [] action = "rewindAndPrepareForNextLoop" -> "rewindInput"
    [] OTHER -> "none"

LEMMA ConstructorCode ==
  ASSUME phase = "construct"
  PROVE  /\ FirstConstruct(leaf) \in Calls \cup {"none"}
         /\ leaf \in Leaves => Constructor(leaf) = Code(FirstConstruct(leaf))
<1>1. FirstConstruct(leaf) \in Calls \cup {"none"}
  BY CallsAre DEF FirstConstruct
<1>2. ASSUME leaf \in Leaves PROVE Constructor(leaf) = Code(FirstConstruct(leaf))
  <2>1. CASE leaf \in {"Starting", "FirstFile"}
    BY <2>1 DEF Constructor, FirstConstruct, Code
  <2>2. CASE leaf \in {"EndingLoop", "Error", "NewRun", "ContinueRun1", "ContinueRun2", "FirstSubRun",
                       "ContinueSubRun"}
    <3>1. {"endOfLoop", "doErrorStuff", "setupCurrentRun", "readAndCacheRun", "setupCurrentSubRun",
           "readAndCacheSubRun"} \subseteq Calls
      BY CallsAre
    <3>2. /\ <<"endOfLoop">> = Then("endOfLoop", <<>>) /\ <<"doErrorStuff">> = Then("doErrorStuff", <<>>)
          /\ <<"setupCurrentRun">> = Then("setupCurrentRun", <<>>)
          /\ <<"readAndCacheRun">> = Then("readAndCacheRun", <<>>)
          /\ <<"setupCurrentSubRun">> = Then("setupCurrentSubRun", <<>>)
          /\ <<"readAndCacheSubRun">> = Then("readAndCacheSubRun", <<>>)
      <4> HIDE DEF Calls
      <4> QED
        BY <3>1, ShortCode
    <3>3. /\ After("endOfLoop") = <<>> /\ After("doErrorStuff") = <<>>
          /\ After("setupCurrentRun") = <<>> /\ After("readAndCacheRun") = <<>>
          /\ After("setupCurrentSubRun") = <<>> /\ After("readAndCacheSubRun") = <<>>
      BY DEF After
    <3> QED
      BY <2>2, <3>2, <3>3 DEF Constructor, FirstConstruct, Code, ContinueRun
  <2>3. CASE leaf \in {"HandleNewInputFile1", "HandleNewInputFile2", "HandleNewInputFile3"}
    <3>1. GoToNewInputFile = Code("respondToCloseInputFile")
      BY <2>3, FileBodies DEF Code, After, AfterClose, AfterInput
    <3> QED
      BY <2>3, <3>1 DEF Constructor, FirstConstruct
  <2>4. CASE leaf = "NewInputAndOutputFiles"
    <3>1. AfterClose = OpenFiles
      BY <2>4, FileBodies DEF AfterClose, AfterInput
    <3>2. CloseFiles \o OpenFiles = Code("writeSubRunCache")
      BY <3>1, CloseThenOpen DEF Code, After
    <3> QED
      BY <2>4, <3>2 DEF Constructor, FirstConstruct
  <2>5. CASE leaf = "AnotherSubRun"
    <3>1. "finalizeSubRun" \in Calls /\ "setupCurrentSubRun" \in Calls
      BY CallsAre
    <3>2. ChangeSubRun = Then("finalizeSubRun", Then("setupCurrentSubRun", <<>>))
      BY <3>1, ShortCode DEF ChangeSubRun
    <3> QED
      BY <2>5, <3>2 DEF Constructor, FirstConstruct, Code, After, AfterSubRun
  <2>6. CASE leaf = "HandleEvent"
    <3>1. {"beginRunIfNotDoneAlready", "markSubRunNonEmpty", "readEvent", "processEvent"} \subseteq Calls
      BY CallsAre
    <3>2. <<"beginRunIfNotDoneAlready", "markSubRunNonEmpty", "readEvent", "processEvent">>
            = Then("beginRunIfNotDoneAlready", Then("markSubRunNonEmpty", Then("readEvent",
                Then("processEvent", <<>>))))
      <4> HIDE DEF Calls
      <4> QED
        BY <3>1, LongCode
    <3> QED
      BY <2>6, <3>2 DEF Constructor, FirstConstruct, Code, After, ReadsEvent
  <2> QED
    BY <1>2, <2>1, <2>2, <2>3, <2>4, <2>5, <2>6 DEF Leaves, TopLeaves, FileLeaves, RunLeaves, SubRunLeaves
<1> QED
  BY <1>1, <1>2

LEMMA ConstructsIt ==
  ASSUME leaf' \in Leaves, phase' = "construct", todo' = Constructor(leaf')
  PROVE  NextCall' = FirstConstruct(leaf') /\ Chained'
<1>1. FirstConstruct(leaf') \in Calls \cup {"none"} /\ todo' = Code(FirstConstruct(leaf))'
  <2>1. (phase = "construct" => /\ FirstConstruct(leaf) \in Calls \cup {"none"}
                                /\ leaf \in Leaves => Constructor(leaf) = Code(FirstConstruct(leaf)))'
    BY ConstructorCode, PTL
  <2> QED
    BY <2>1 DEF FirstConstruct
<1>2. PICK c \in Calls \cup {"none"} : c = FirstConstruct(leaf')
  BY <1>1
<1>3. Code(FirstConstruct(leaf))' = Code(c)'
  BY <1>2 DEF FirstConstruct, Code
<1> QED
  BY <1>1, <1>2, <1>3, Continues

LEMMA ActionCode ==
  ASSUME NEW action, todo' = ActionBody(action)
  PROVE  NextCall' = FirstAction(action) /\ Chained'
<1>1. FirstAction(action) \in Calls \cup {"none"}
  BY CallsAre DEF FirstAction
<1>2. "finalizeRun" \in Calls /\ "rewindInput" \in Calls
  BY CallsAre
<1>3. <<"finalizeRun">> = Then("finalizeRun", <<>>) /\ <<"rewindInput">> = Then("rewindInput", <<>>)
  BY <1>2, ShortCode
<1>4. After("finalizeRun")' = <<>> /\ After("rewindInput")' = <<>>
  BY DEF After
<1>5. todo' = Code(FirstAction(action))'
  BY <1>3, <1>4 DEF ActionBody, FirstAction, Code
<1> QED
  BY <1>1, <1>5, Continues

-----------------------------------------------------------------------------
(* The control part of the invariant.                                       *)

FlowFits == Chained /\ InPlace /\ Between

\* The turn of a loop: the same statement once more.
Stays ==
  /\ NextCall' = NextCall
  /\ UNCHANGED <<config, phase, depth, leaf, move, source, external, primary, swallowed, errorState>>

LEMMA Flows ==
  ASSUME TypeInv, Chained, Between, NEW call, Running(call), handleSubRuns'.iter = handleSubRuns.iter
  PROVE  /\ NextCall = call /\ call \in Calls
         /\ Returns => Goes(NextAfter(call)) /\ Chained'
         /\ Throws => Fails /\ Chained'
<1>1. todo \in Seq(Calls) /\ todo # <<>> /\ NextCall = call
  BY DEF TypeInv, Control, ControlOK, Running, NextCall
<1>2. call \in Calls
  BY <1>1, NextIs
<1> QED
  BY <1>1, <1>2, ReturnsGoes, ThrowsGoes

LEMMA InPlaceReturns ==
  ASSUME InPlace, NextCall \in Calls, Goes(NextAfter(NextCall)), handleSubRuns'.iter = handleSubRuns.iter,
         phase \in Phases
  PROVE  InPlace'
<1>1. /\ NextCall' = NextAfter(NextCall)
      /\ phase' = phase /\ depth' = depth /\ leaf' = leaf /\ move' = move
  BY DEF Goes
<1>2. /\ InLoop' = InLoop /\ GoesDown' = GoesDown /\ ChangesInput' = ChangesInput
      /\ \A target : Constructs(target)' = Constructs(target)
  BY <1>1 DEF InLoop, GoesDown, ChangesInput, Constructs
<1>3. CASE NextCall \in FileCalls \cup CacheCalls
  <2>1. CASE NextCall \in Closes \cup {"respondToCloseInputFile", "closeInputFile"}
    BY <1>1, <1>2, <2>1 DEF InPlace, NextAfter, Closes, EventCalls, RunEnds, SubRunBodies,
              ChangesInput, Constructs, GoesDown
  <2>2. CASE NextCall \in {"readFile", "respondToOpenInputFile", "openOutputFiles", "respondToOpenOutputFiles"}
    BY <1>1, <1>2, <2>2 DEF InPlace, NextAfter, Closes, EventCalls, RunEnds, SubRunBodies,
              ChangesInput, Constructs, GoesDown
  <2> QED
    BY <1>3, <2>1, <2>2 DEF FileCalls, Responses, CacheCalls, Closes
<1>4. CASE NextCall \in RunCalls
  BY <1>1, <1>2, <1>4 DEF RunCalls, InPlace, NextAfter, Closes, EventCalls, RunEnds, SubRunBodies,
              ChangesInput, Constructs, GoesDown
<1>5. CASE NextCall \in SubRunCalls
  <2>1. CASE NextCall \in SubRunBodies
    <3>1. CASE NextCall = "beginSubRun"
      <4>1. NextCall' = IF StartsSubRun THEN "subRunStarted" ELSE "endSubRun"
        BY <1>1, <3>1 DEF NextAfter
      <4>2. \/ GoesDown /\ depth = 3
            \/ Constructs("AnotherSubRun") /\ ~InLoop
            \/ Constructs("HandleEvent")
        BY <3>1 DEF InPlace, SubRunBodies
      <4>3. CASE StartsSubRun
        BY <1>1, <1>2, <4>1, <4>3 DEF StartsSubRun, InPlace, Closes, EventCalls, RunEnds,
           SubRunBodies, Constructs
      <4>4. CASE ~StartsSubRun
        <5>1. \/ GoesDown /\ depth = 3
              \/ Constructs("AnotherSubRun") /\ ~InLoop
              \/ Constructs("HandleEvent") /\ InLoop
          BY <4>2, <4>4 DEF StartsSubRun, Constructs
        <5> QED
          BY <1>1, <1>2, <4>1, <4>4, <5>1 DEF InPlace, Closes, EventCalls, RunEnds, SubRunBodies, Constructs, GoesDown
      <4> QED
        BY <4>3, <4>4
    <3>2. CASE NextCall \in {"endSubRun", "writeSubRun"}
      <4>1. NextCall' = "writeSubRun" \/ NextCall' = IF InLoop THEN "nextOutstanding" ELSE "clearCurrentSubRun"
        BY <1>1, <3>2 DEF NextAfter
      <4> QED
        BY <1>1, <1>2, <3>2, <4>1 DEF InPlace, Closes, EventCalls, RunEnds,
           SubRunBodies, Constructs, GoesDown
    <3> QED
      BY <2>1, <3>1, <3>2 DEF SubRunBodies
  <2>2. CASE NextCall \in {"finalizeSubRun", "clearCurrentSubRun", "finalizeOutstandingSubRuns",
                           "nextOutstanding"}
    BY <1>1, <1>2, <2>2 DEF InPlace, NextAfter, Closes, EventCalls, RunEnds, SubRunBodies,
              ChangesInput, Constructs, GoesDown
  <2>3. CASE NextCall \in {"readAndCacheSubRun", "setupCurrentSubRun", "finalizeAllSubRuns",
                           "markSubRunNonEmpty", "startSubRun", "subRunStarted"}
    BY <1>1, <1>2, <2>3 DEF InPlace, NextAfter, Closes, EventCalls, RunEnds, SubRunBodies,
              ChangesInput, Constructs, GoesDown
  <2> QED
    BY <1>5, <2>1, <2>2, <2>3 DEF SubRunCalls, SubRunBodies
<1>6. CASE NextCall \in OtherCalls
  BY <1>1, <1>2, <1>6 DEF OtherCalls, InPlace, NextAfter, Closes, EventCalls, RunEnds, SubRunBodies,
              ChangesInput, Constructs, GoesDown
<1> QED
  BY <1>3, <1>4, <1>5, <1>6 DEF Calls

LEMMA InPlaceFails ==
  ASSUME Fails, depth \in 0..3 PROVE InPlace'
<1>1. NextCall' # "none" =>
        NextCall' = FirstCleanUp(depth) /\ depth' = depth /\ phase' \in {"destroy", "terminated"}
        /\ (depth # 0 => phase' = "destroy")
  BY DEF Fails, Unwound
<1> QED
  BY <1>1 DEF InPlace, FirstCleanUp, Closes, EventCalls, RunEnds, SubRunBodies, GoesDown

LEMMA BetweenSame ==
  ASSUME Between, posted' \in {posted, "none", "Stop"},
         UNCHANGED <<phase, depth, leaf, move, external, primary>>
  PROVE  Between'
  BY DEF Between

LEMMA BetweenFails ==
  ASSUME Between, Fails, posted' = posted, depth \in 0..3, NextCall # "none"
  PROVE  Between'
<1>1. /\ UNCHANGED <<depth, leaf, move, external>> /\ posted' = posted
      /\ \/ phase = "destroy" /\ phase' = "destroy" /\ primary' = primary
         \/ primary' # "none" /\ phase' = Unwound(depth)
  BY DEF Fails
<1> QED
  BY <1>1 DEF Between, Unwound

\* A statement that returns or throws.
LEMMA SimpleStatement ==
  ASSUME OrderInv, NEW call, Running(call), handleSubRuns'.iter = handleSubRuns.iter,
         Returns \/ Throws,
         posted' = posted \/ (Returns /\ posted' \in {"none", "Stop"})
  PROVE  /\ FlowFits' /\ NextCall = call
         /\ Returns => Goes(NextAfter(call))
         /\ Throws => Fails
<1>1. /\ NextCall = call /\ call \in Calls
      /\ Returns => Goes(NextAfter(call)) /\ Chained'
      /\ Throws => Fails /\ Chained'
  BY Flows DEF OrderInv
<1>2. depth \in 0..3 /\ phase \in Phases
  BY DEF OrderInv, TypeInv, Control, ControlOK
<1>3. InPlace'
  BY <1>1, <1>2, InPlaceReturns, InPlaceFails DEF OrderInv
<1>4. NextCall # "none"
  BY <1>1, CallsAre
<1>5. Between'
  <2>1. CASE Returns /\ posted' \in {posted, "none", "Stop"}
    BY <1>1, <2>1, BetweenSame DEF OrderInv, Goes
  <2>2. CASE Throws /\ posted' = posted
    BY <1>1, <1>2, <1>4, <2>2, BetweenFails DEF OrderInv
  <2> QED
    BY <2>1, <2>2
<1> QED
  BY <1>1, <1>3, <1>5 DEF FlowFits

-----------------------------------------------------------------------------
(* The control part: transitions.                                           *)

LEMMA LeavingGoes ==
  ASSUME NEW d \in 0..3, NEW target, NEW action, NEW handling, Leaving(d, target, action, handling)
  PROVE  /\ Chained'
         /\ IF d > CommonDepth(leaf, target)
              THEN phase' = (IF handling THEN "destroy" ELSE "exit") /\ NextCall' = FirstCleanUp(d)
              ELSE phase' = "action" /\ NextCall' = FirstAction(action)
<1>1. CASE d > CommonDepth(leaf, target)
  <2>1. phase' = (IF handling THEN "destroy" ELSE "exit") /\ todo' = CleanUp(d)
    BY <1>1 DEF Leaving
  <2>2. phase' # "construct"
    BY <2>1
  <2> QED
    BY <1>1, <2>1, <2>2, CleansUp
<1>2. CASE ~(d > CommonDepth(leaf, target))
  <2>1. phase' = "action" /\ todo' = ActionBody(action)
    BY <1>2 DEF Leaving
  <2> QED
    BY <1>2, <2>1, ActionCode
<1> QED
  BY <1>1, <1>2

\* What a transition is: the leaves it leads from, and its action.
MoveIs(m) ==
  /\ leaf \in From(m.target)
  /\ m.action = "finalizeRun" <=> m.target = "NewRun" /\ leaf \notin FileLeaves
  /\ m.action = "rewindAndPrepareForNextLoop" <=> m.target = "Starting"

LEMMA FromDepth ==
  ASSUME NEW target \in Leaves, leaf \in Leaves, leaf \in From(target)
  PROVE  /\ ParentDepth(target) <= CommonDepth(leaf, target) + 1
         /\ CommonDepth(leaf, target) <= ParentDepth(target)
         /\ CommonDepth(leaf, target) <= ParentDepth(leaf)
         /\ target = "NewRun" /\ leaf \notin FileLeaves => CommonDepth(leaf, target) = 2
         /\ target = "Starting" => CommonDepth(leaf, target) = 0
<1>1. /\ ParentDepth(target) \in 0..3 /\ ParentDepth(leaf) \in 0..3
      /\ CommonDepth(leaf, target) \in 0..3
      /\ CommonDepth(leaf, target) <= ParentDepth(target)
      /\ CommonDepth(leaf, target) <= ParentDepth(leaf)
      /\ CommonDepth(leaf, target) \in {ParentDepth(target), ParentDepth(leaf)}
  BY DEF ParentDepth, CommonDepth
<1>2. CASE target \in {"FirstFile", "Starting", "EndingLoop", "Error"}
  BY <1>1, <1>2 DEF ParentDepth, TopLeaves, FileLeaves, RunLeaves, SubRunLeaves
<1>3. CASE target \in {"HandleNewInputFile1", "NewInputAndOutputFiles"}
  BY <1>1, <1>3 DEF ParentDepth, TopLeaves, FileLeaves, RunLeaves, SubRunLeaves
<1>4. CASE target \in {"HandleNewInputFile2", "NewRun", "ContinueRun1"}
  BY <1>1, <1>4 DEF ParentDepth, From, TopLeaves, FileLeaves, RunLeaves, SubRunLeaves
<1>5. CASE target \in {"HandleNewInputFile3", "ContinueRun2", "ContinueSubRun", "FirstSubRun",
                       "AnotherSubRun", "HandleEvent"}
  BY <1>1, <1>5 DEF ParentDepth, From, TopLeaves, FileLeaves, RunLeaves, SubRunLeaves
<1> QED
  BY <1>2, <1>3, <1>4, <1>5 DEF Leaves, TopLeaves, FileLeaves, RunLeaves, SubRunLeaves

LEMMA LeavingControl ==
  ASSUME leaf \in Leaves, NEW d \in 0..3, NEW m \in Moves, NEW handling \in BOOLEAN,
         Leaving(d, m.target, m.action, handling), MoveIs(m),
         d <= ParentDepth(leaf), CommonDepth(leaf, m.target) <= d,
         leaf' = leaf, depth' = d, move' = m, primary' = "none", external' = handling,
         external' => m.target = "EndingLoop" /\ posted' # "Restart"
  PROVE  FlowFits'
<1>1. /\ Chained'
      /\ IF d > CommonDepth(leaf, m.target)
           THEN phase' = (IF handling THEN "destroy" ELSE "exit") /\ NextCall' = FirstCleanUp(d)
           ELSE phase' = "action" /\ NextCall' = FirstAction(m.action)
  BY LeavingGoes
<1>2. m.target \in Leaves
  BY DEF Moves
<1>3. /\ CommonDepth(leaf, m.target) \in 0..3
      /\ m.target = "NewRun" /\ leaf \notin FileLeaves => CommonDepth(leaf, m.target) = 2
      /\ m.target = "Starting" => CommonDepth(leaf, m.target) = 0
  BY <1>2, FromDepth, DepthType DEF MoveIs
<1>4. InPlace'
  <2>1. CASE d > CommonDepth(leaf, m.target)
    <3>1. NextCall' = FirstCleanUp(d) /\ depth' = d /\ phase' \in {"exit", "destroy"} /\ d >= 1
      BY <1>1, <1>3, <2>1
    <3> QED
      BY <3>1 DEF InPlace, FirstCleanUp, Closes, EventCalls, RunEnds, SubRunBodies, GoesDown
  <2>2. CASE ~(d > CommonDepth(leaf, m.target))
    <3>1. /\ NextCall' = FirstAction(m.action) /\ phase' = "action"
          /\ depth' = CommonDepth(leaf, m.target) /\ move'.target = m.target
      BY <1>1, <1>3, <2>2
    <3> QED
      BY <1>3, <3>1 DEF MoveIs, InPlace, FirstAction, Closes, EventCalls, RunEnds, SubRunBodies
  <2> QED
    BY <2>1, <2>2
<1>5. Between'
  <2>1. CASE d > CommonDepth(leaf, m.target)
    BY <1>1, <2>1 DEF Between, MoveIs
  <2>2. CASE ~(d > CommonDepth(leaf, m.target))
    <3>1. /\ phase' = "action" /\ depth' = CommonDepth(leaf, m.target)
      BY <1>1, <1>3, <2>2
    <3> QED
      BY <3>1 DEF Between, MoveIs
  <2> QED
    BY <2>1, <2>2
<1> QED
  BY <1>1, <1>4, <1>5 DEF FlowFits

\* A transition begins.
LEMMA ReactControl ==
  ASSUME OrderInv, phase = "stable", NEW m \in Moves, NEW handling \in BOOLEAN, React(m, handling),
         MoveIs(m), external' = handling, external' => m.target = "EndingLoop" /\ posted' # "Restart"
  PROVE  FlowFits'
<1>1. /\ Leaving(depth, m.target, m.action, handling)
      /\ move' = m /\ UNCHANGED <<depth, leaf, primary>>
  BY DEF React
<1>2. /\ leaf \in Leaves /\ depth \in 0..3 /\ depth = ParentDepth(leaf) /\ primary = "none"
  BY DEF OrderInv, TypeInv, Control, ControlOK, Between
<1>3. CommonDepth(leaf, m.target) <= depth
  BY <1>2, FromDepth DEF MoveIs, Moves
<1> QED
  BY <1>1, <1>2, <1>3, LeavingControl

LEMMA LeaveCompositeControl == OrderInv /\ LeaveComposite => FlowFits'
<1> SUFFICES ASSUME OrderInv, LeaveComposite PROVE FlowFits'
  OBVIOUS
<1>1. /\ leaf \in Leaves /\ depth \in 0..3 /\ depth >= 1 /\ move \in Moves /\ external \in BOOLEAN
  BY DEF OrderInv, TypeInv, Control, ControlOK, LeaveComposite, Nesting
<1>2. /\ phase \in {"exit", "destroy"} /\ depth' = depth - 1
      /\ UNCHANGED <<leaf, move, posted, external, primary>>
  BY DEF LeaveComposite, failure
<1>3. CASE primary = "none"
  <2>1. Leaving(depth - 1, move.target, move.action, external)
    BY <1>3 DEF LeaveComposite
  <2>2. /\ MoveIs(move) /\ CommonDepth(leaf, move.target) < depth /\ depth <= ParentDepth(leaf)
        /\ external => move.target = "EndingLoop" /\ posted # "Restart"
    BY <1>2, <1>3 DEF OrderInv, Between, MoveIs
  <2>3. /\ depth - 1 \in 0..3 /\ CommonDepth(leaf, move.target) \in 0..3 /\ ParentDepth(leaf) \in 0..3
    BY <1>1, DepthType DEF Moves
  <2>4. CommonDepth(leaf, move.target) <= depth - 1 /\ depth - 1 <= ParentDepth(leaf)
    BY <1>1, <2>2, <2>3
  <2>5. PICK m \in Moves, d \in 0..3, handling \in BOOLEAN : m = move /\ d = depth - 1 /\ handling = external
    BY <1>1, <2>3
  <2> QED
    BY <1>1, <1>2, <1>3, <2>1, <2>2, <2>4, <2>5, LeavingControl
<1>4. CASE primary # "none"
  <2>1. phase' = Unwound(depth - 1) /\ todo' = CleanUp(depth - 1)
    BY <1>4 DEF LeaveComposite
  <2>2. PICK d \in 0..3 : d = depth - 1
    BY <1>1
  <2>3. phase' = (IF d = 0 THEN "terminated" ELSE "destroy")
    BY <2>1, <2>2 DEF Unwound
  <2>4. NextCall' = FirstCleanUp(d) /\ Chained'
    BY <2>1, <2>2, <2>3, CleansUp
  <2>5. InPlace'
    BY <1>2, <2>2, <2>3, <2>4
       DEF InPlace, FirstCleanUp, Closes, EventCalls, RunEnds, SubRunBodies, GoesDown
  <2>6. Between'
    BY <1>2, <1>4, <2>2, <2>3 DEF Between, OrderInv
  <2> QED
    BY <2>4, <2>5, <2>6 DEF FlowFits
<1> QED
  BY <1>3, <1>4

\* A leaf is constructed.
LEMMA ConstructControl ==
  ASSUME OrderInv, leaf' = move.target, phase' = "construct", todo' = Constructor(move.target),
         depth' = ParentDepth(move.target), primary = "none", phase \in {"action", "enter"},
         UNCHANGED <<move, posted, external, primary>>
  PROVE  FlowFits'
<1>1. move.target \in Leaves
  BY DEF OrderInv, TypeInv, Control, ControlOK, Moves
<1>2. NextCall' = FirstConstruct(leaf') /\ Chained'
  BY <1>1, ConstructsIt
<1>3. InPlace'
  BY <1>2 DEF InPlace, FirstConstruct, Closes, EventCalls, RunEnds, SubRunBodies, GoesDown,
              ChangesInput, Constructs
<1>4. Between'
  BY DEF Between, OrderInv
<1> QED
  BY <1>2, <1>3, <1>4 DEF FlowFits

LEMMA ArriveControl ==
  OrderInv /\ (ActionDone \/ EnterComposite \/ ConstructorDone) => FlowFits'
<1> SUFFICES ASSUME OrderInv, ActionDone \/ EnterComposite \/ ConstructorDone PROVE FlowFits'
  OBVIOUS
<1>1. /\ leaf \in Leaves /\ depth \in 0..3 /\ move.target \in Leaves
      /\ primary # "none" => phase \in {"destroy", "terminated"}
      /\ todo = <<>>
  BY DEF OrderInv, TypeInv, Control, ControlOK, Moves, Between, ActionDone, EnterComposite,
         ConstructorDone
<1>2. CASE ActionDone
  <2>1. /\ phase = "action" /\ UNCHANGED <<depth, move, posted, external, primary>>
        /\ leaf \in From(move.target) /\ depth = CommonDepth(leaf, move.target)
    BY <1>2 DEF ActionDone, failure, OrderInv, Between
  <2>2. CASE depth < ParentDepth(move.target) /\ phase' = "enter" /\ leaf' = leaf
             /\ todo' = (IF depth = 0 THEN OpenFiles ELSE <<>>)
    <3>1. depth + 1 = ParentDepth(move.target)
      BY <1>1, <2>1, <2>2, FromDepth, DepthType
    <3>2. NextCall' = (IF depth = 0 THEN "readFile" ELSE "none") /\ Chained'
      <4>1. "readFile" \in Calls
        BY CallsAre
      <4>2. OpenFiles = Code("readFile")'
        <5>1. Code("readFile")' = Then("readFile", Then("respondToOpenInputFile",
                Then("openOutputFiles", Then("respondToOpenOutputFiles", <<>>))))
          BY <2>2 DEF Code, After, AfterInput
        <5> QED
          BY <5>1, FileBodies
      <4> QED
        BY <2>2, <4>1, <4>2, Continues, Stops
    <3>3. InPlace'
      BY <2>1, <2>2, <3>2 DEF InPlace, Closes, EventCalls, RunEnds, SubRunBodies
    <3>4. Between'
      BY <1>1, <2>1, <2>2, <3>1 DEF Between, OrderInv
    <3> QED
      BY <3>2, <3>3, <3>4 DEF FlowFits
  <2>3. CASE depth = ParentDepth(move.target) /\ phase' = "construct" /\ leaf' = move.target
             /\ todo' = Constructor(move.target)
    BY <1>1, <2>1, <2>3, ConstructControl
  <2> QED
    BY <1>2, <2>2, <2>3 DEF ActionDone
<1>3. CASE EnterComposite
  <2>1. /\ phase = "enter" /\ depth' = depth + 1 /\ phase' = "construct" /\ leaf' = move.target
        /\ todo' = Constructor(move.target) /\ UNCHANGED <<move, posted, external, primary>>
    BY <1>3 DEF EnterComposite, failure
  <2>2. depth + 1 = ParentDepth(move.target) /\ primary = "none"
    BY <2>1 DEF OrderInv, Between
  <2> QED
    BY <2>1, <2>2, ConstructControl
<1>4. CASE ConstructorDone
  <2>1. /\ phase = "construct" /\ phase' = "stable" /\ todo' = <<>>
        /\ UNCHANGED <<depth, leaf, move, posted, external, primary>>
    BY <1>1, <1>4 DEF ConstructorDone, failure
  <2>2. NextCall' = "none" /\ Chained'
    BY <2>1, Stops
  <2>3. InPlace'
    BY <2>2 DEF InPlace, Closes, EventCalls, RunEnds, SubRunBodies
  <2>4. Between'
    BY <2>1 DEF Between, OrderInv
  <2> QED
    BY <2>2, <2>3, <2>4 DEF FlowFits
<1> QED
  BY <1>2, <1>3, <1>4

\* The chart: the transitions the items and the posted events lead to.
LEMMA FileMove ==
  ASSUME leaf \in Leaves \ {"EndingLoop", "Error"}, NEW close \in BOOLEAN
  PROVE  MoveIs(OnFile(leaf, close))
<1>1. CASE leaf = "Starting"
  BY <1>1 DEF OnFile, TopLeaves, FileLeaves, RunLeaves, SubRunLeaves, MoveIs, From
<1>2. CASE leaf # "Starting" /\ close
  <2>1. OnFile(leaf, close) = Goto("NewInputAndOutputFiles")
    BY <1>2 DEF OnFile, TopLeaves
  <2>2. leaf \in FileLeaves \cup RunLeaves \cup SubRunLeaves
    BY <1>2 DEF Leaves, TopLeaves
  <2> QED
    BY <2>1, <2>2 DEF Goto, MoveIs, From
<1>3. CASE leaf \in FileLeaves /\ ~close
  <2>1. OnFile(leaf, close) = Goto("HandleNewInputFile1")
    BY <1>3 DEF OnFile, TopLeaves, FileLeaves, RunLeaves, SubRunLeaves
  <2> QED
    BY <1>3, <2>1 DEF Goto, MoveIs, From
<1>4. CASE leaf \in RunLeaves /\ ~close
  <2>1. OnFile(leaf, close) = Goto("HandleNewInputFile2")
    BY <1>4 DEF OnFile, TopLeaves, FileLeaves, RunLeaves, SubRunLeaves
  <2> QED
    BY <1>4, <2>1 DEF Goto, MoveIs, From
<1>5. CASE leaf \in SubRunLeaves /\ ~close
  <2>1. OnFile(leaf, close) = Goto("HandleNewInputFile3")
    BY <1>5 DEF OnFile, TopLeaves, FileLeaves, RunLeaves, SubRunLeaves
  <2> QED
    BY <1>5, <2>1 DEF Goto, MoveIs, From
<1> QED
  BY <1>1, <1>2, <1>3, <1>4, <1>5 DEF Leaves, TopLeaves

LEMMA RunMove ==
  ASSUME leaf \in Leaves \ {"EndingLoop", "Error"}, NEW same \in BOOLEAN
  PROVE  MoveIs(OnRun(leaf, same))
<1>1. CASE leaf = "Starting"
  <2>1. OnRun(leaf, same) = Goto("Error")
    BY <1>1 DEF OnRun, FileLeaves
  <2> QED
    BY <2>1 DEF Goto, MoveIs, From
<1>2. CASE leaf \in FileLeaves
  <2>1. OnRun(leaf, same) = Goto("NewRun")
    BY <1>2 DEF OnRun, FileLeaves
  <2> QED
    BY <1>2, <2>1 DEF Goto, MoveIs, From
<1>3. CASE leaf = "HandleNewInputFile2" /\ same
  BY <1>3 DEF OnRun, FileLeaves, Goto, MoveIs, From
<1>4. CASE leaf = "HandleNewInputFile3" /\ same
  BY <1>4 DEF OnRun, FileLeaves, Goto, MoveIs, From
<1>5. CASE leaf \in RunLeaves \cup SubRunLeaves /\ ~(same /\ leaf = "HandleNewInputFile2")
           /\ ~(same /\ leaf = "HandleNewInputFile3")
  <2>1. leaf \notin FileLeaves /\ leaf # "Starting"
    BY <1>5 DEF FileLeaves, RunLeaves, SubRunLeaves
  <2>2. OnRun(leaf, same) = GotoNewRun
    BY <1>5, <2>1 DEF OnRun
  <2> QED
    BY <1>5, <2>1, <2>2 DEF GotoNewRun, MoveIs, From
<1> QED
  BY <1>1, <1>2, <1>3, <1>4, <1>5 DEF Leaves, TopLeaves

LEMMA SubRunMove ==
  ASSUME leaf \in Leaves \ {"EndingLoop", "Error"}, NEW same \in BOOLEAN
  PROVE  MoveIs(OnSubRun(leaf, same))
<1>1. CASE leaf \in {"NewRun", "ContinueRun1"}
  <2>1. OnSubRun(leaf, same) = Goto("FirstSubRun")
    BY <1>1 DEF OnSubRun, SubRunLeaves
  <2> QED
    BY <1>1, <2>1 DEF Goto, MoveIs, From
<1>2. CASE leaf = "ContinueRun2" /\ same
  BY <1>2 DEF OnSubRun, Goto, MoveIs, From
<1>3. CASE leaf \in SubRunLeaves \ {"HandleNewInputFile3"} /\ (leaf = "ContinueRun2" => ~same)
  <2>1. leaf \notin {"NewRun", "ContinueRun1"}
    BY <1>3 DEF SubRunLeaves
  <2>2. OnSubRun(leaf, same) = Goto("AnotherSubRun")
    BY <1>3, <2>1 DEF OnSubRun
  <2> QED
    BY <1>3, <2>2 DEF Goto, MoveIs, From
<1>4. CASE leaf \in TopLeaves \cup FileLeaves \cup {"HandleNewInputFile2", "HandleNewInputFile3"}
  <2>1. /\ leaf \notin {"NewRun", "ContinueRun1", "ContinueRun2"}
        /\ leaf \notin SubRunLeaves \ {"HandleNewInputFile3"}
    BY <1>4 DEF TopLeaves, FileLeaves, SubRunLeaves
  <2>2. OnSubRun(leaf, same) = Goto("Error")
    BY <2>1 DEF OnSubRun
  <2>3. leaf \in Leaves
    OBVIOUS
  <2> QED
    BY <2>2, <2>3 DEF Goto, MoveIs, From
<1> QED
  BY <1>1, <1>2, <1>3, <1>4 DEF Leaves, TopLeaves, FileLeaves, RunLeaves, SubRunLeaves

LEMMA OtherMove ==
  ASSUME leaf \in Leaves
  PROVE  /\ MoveIs(OnEvent(leaf))
         /\ MoveIs(OnStop(leaf)) /\ OnStop(leaf).target = "EndingLoop"
         /\ MoveIs(OnRestart(leaf))
<1>1. MoveIs(OnEvent(leaf))
  <2>1. CASE leaf \in {"FirstSubRun", "AnotherSubRun", "HandleEvent", "ContinueSubRun"}
    BY <2>1 DEF OnEvent, Goto, MoveIs, From
  <2>2. CASE leaf \notin {"FirstSubRun", "AnotherSubRun", "HandleEvent", "ContinueSubRun"}
    BY <2>2 DEF OnEvent, Goto, MoveIs, From
  <2> QED
    BY <2>1, <2>2
<1>2. MoveIs(OnStop(leaf)) /\ OnStop(leaf).target = "EndingLoop"
  BY DEF OnStop, MoveIs, From
<1>3. MoveIs(OnRestart(leaf))
  <2>1. CASE leaf = "EndingLoop"
    BY <2>1 DEF OnRestart, MoveIs, From
  <2>2. CASE leaf # "EndingLoop"
    BY <2>2 DEF OnRestart, Goto, MoveIs, From
  <2> QED
    BY <2>1, <2>2
<1> QED
  BY <1>1, <1>2, <1>3

\* An item is offered to a leaf that expects it.
LEMMA IdleLeaf ==
  ASSUME TypeInv, Idle
  PROVE  leaf \in Leaves \ {"EndingLoop", "Error"}
  BY DEF TypeInv, Control, ControlOK, WaitFits, Idle

LEMMA ItemMoves ==
  ASSUME OrderInv, Item
  PROVE  /\ Idle /\ ~external
         /\ \E m \in Moves : MoveIs(m) /\ React(m, external') /\ (external' => m.target = "EndingLoop")
         /\ posted' = posted
<1>1. Idle /\ posted' = posted /\ (external' = external \/ SourceThrows)
  BY DEF Item, FileItem, RunItem, SubRunItem, EventItem, StopItem, SourceThrows
<1>2. leaf \in Leaves \ {"EndingLoop", "Error"} /\ leaf \in Leaves
  BY <1>1, IdleLeaf DEF OrderInv
<1>3. ~external
  BY <1>1, <1>2 DEF OrderInv, Between, Idle
<1>4. CASE FileItem
  <2>1. PICK close \in BOOLEAN : React(OnFile(leaf, close), FALSE)
    BY <1>4 DEF FileItem, ShouldWeCloseOutput
  <2>2. external' = FALSE
    BY <1>3, <1>4 DEF FileItem, OrderInv, TypeInv, Control, ControlOK
  <2> QED
    BY <1>1, <1>2, <1>3, <2>1, <2>2, FileMove, OnFileFits
<1>5. CASE RunItem
  <2>1. PICK r \in Runs : React(OnRun(leaf, r = handleRuns.currentRun), FALSE)
    BY <1>5 DEF RunItem
  <2>2. external' = FALSE
    BY <1>3, <1>5 DEF RunItem, OrderInv, TypeInv, Control, ControlOK
  <2> QED
    BY <1>1, <1>2, <1>3, <2>1, <2>2, RunMove, OnRunFits
<1>6. CASE SubRunItem
  <2>1. PICK n \in SubRunNums :
          React(OnSubRun(leaf, <<source.run, n>> = handleSubRuns.current), FALSE)
    BY <1>6 DEF SubRunItem
  <2>2. external' = FALSE
    BY <1>3, <1>6 DEF SubRunItem, OrderInv, TypeInv, Control, ControlOK
  <2> QED
    BY <1>1, <1>2, <1>3, <2>1, <2>2, SubRunMove, OnSubRunFits
<1>7. CASE EventItem \/ StopItem
  <2>1. external' = FALSE
    BY <1>3, <1>7 DEF EventItem, StopItem, OrderInv, TypeInv, Control, ControlOK
  <2> QED
    BY <1>1, <1>2, <1>3, <1>7, <2>1, OtherMove, OnOtherFits DEF EventItem, StopItem
<1>8. CASE SourceThrows
  BY <1>1, <1>2, <1>3, <1>8, OtherMove, OnOtherFits DEF SourceThrows
<1> QED
  BY <1>4, <1>5, <1>6, <1>7, <1>8 DEF Item

LEMMA ItemControl == OrderInv /\ Item => FlowFits'
<1> SUFFICES ASSUME OrderInv, Item PROVE FlowFits'
  OBVIOUS
<1>1. /\ Idle /\ posted' = posted
      /\ \E m \in Moves : MoveIs(m) /\ React(m, external') /\ (external' => m.target = "EndingLoop")
  BY ItemMoves
<1>2. external' \in BOOLEAN
  BY DEF Item, FileItem, RunItem, SubRunItem, EventItem, StopItem, SourceThrows, OrderInv, TypeInv,
         Control, ControlOK
<1>3. phase = "stable" /\ posted = "none"
  BY <1>1 DEF Idle
<1>4. PICK m \in Moves : MoveIs(m) /\ React(m, external') /\ (external' => m.target = "EndingLoop")
  BY <1>1
<1>5. PICK handling \in BOOLEAN : handling = external'
  BY <1>2
<1> QED
  BY <1>1, <1>3, <1>4, <1>5, ReactControl

LEMMA ProcessPostedControl == OrderInv /\ ProcessPosted => FlowFits'
<1> SUFFICES ASSUME OrderInv, ProcessPosted PROVE FlowFits'
  OBVIOUS
<1>1. /\ phase = "stable" /\ posted # "none" /\ posted' = "none" /\ external' = external
      /\ leaf \in Leaves /\ external \in BOOLEAN /\ todo = <<>>
      /\ leaf = move.target /\ depth = ParentDepth(leaf) /\ primary = "none"
      /\ external => move.target = "EndingLoop" /\ posted # "Restart"
  BY DEF ProcessPosted, OrderInv, TypeInv, Control, ControlOK, Nesting, Between
<1>2. CASE leaf = "EndingLoop" /\ posted = "Stop"
  <2>1. /\ phase' = "terminated" /\ todo' = todo
        /\ UNCHANGED <<depth, leaf, move, primary>>
    BY <1>2 DEF ProcessPosted
  <2>2. NextCall' = "none" /\ Chained'
    BY <1>1, <2>1, Stops
  <2>3. InPlace'
    BY <2>2 DEF InPlace, Closes, EventCalls, RunEnds, SubRunBodies
  <2>4. depth = 0
    BY <1>1, <1>2 DEF ParentDepth, FileLeaves, RunLeaves, SubRunLeaves
  <2>5. Between'
    BY <1>1, <2>1, <2>4 DEF Between, OrderInv
  <2> QED
    BY <2>2, <2>3, <2>5 DEF FlowFits
<1>3. CASE leaf # "EndingLoop" /\ posted = "Stop"
  <2>1. React(OnStop(leaf), external)
    BY <1>3 DEF ProcessPosted
  <2> QED
    BY <1>1, <2>1, OtherMove, OnOtherFits, ReactControl
<1>4. CASE posted = "Restart"
  <2>1. React(OnRestart(leaf), external) /\ ~external
    BY <1>1, <1>4 DEF ProcessPosted
  <2> QED
    BY <1>1, <2>1, OtherMove, OnOtherFits, ReactControl
<1> QED
  BY <1>2, <1>3, <1>4 DEF ProcessPosted

\* A transition has no call but the first of what it runs.
LEMMA TransitionControl == OrderInv /\ TransitionStep => FlowFits'
  BY LeaveCompositeControl, ArriveControl, ProcessPostedControl DEF TransitionStep

-----------------------------------------------------------------------------
(* The control part: statements that call functions.                        *)

LEMMA ExpandsFlow ==
  ASSUME OrderInv, NEW call, Running(call), NEW body, Expands(body), posted' = posted,
         handleSubRuns'.iter = handleSubRuns.iter,
         NEW next \in Calls \cup {"none"}, body \o After(call) = Code(next)
  PROVE  NextCall = call /\ Goes(next) /\ Chained' /\ Between'
<1>1. body \o After(call) = Code(next)'
  BY SameCode DEF Expands
<1>2. NextCall = call /\ Goes(next) /\ Chained'
  BY <1>1, ExpandsGoes DEF OrderInv
<1>3. Between'
  BY <1>2, BetweenSame DEF Goes, OrderInv
<1> QED
  BY <1>2, <1>3

LEMMA RunBodies ==
  /\ leaf # "HandleEvent" => <<"beginRun">> \o After("setupCurrentRun") = Code("beginRun")
  /\ <<>> \o After("setupCurrentRun") = Code("none")
  /\ leaf = "HandleEvent" => <<"beginRun">> \o After("beginRunIfNotDoneAlready") = Code("beginRun")
  /\ <<>> \o After("beginRunIfNotDoneAlready") = Code("markSubRunNonEmpty")
<1>1. {"beginRun", "setupCurrentRun", "beginRunIfNotDoneAlready"} \subseteq Calls
  BY CallsAre
<1>2. /\ \A call \in {"setupCurrentRun", "beginRunIfNotDoneAlready"} :
           <<>> \o After(call) = After(call) /\ <<"beginRun">> \o After(call) = Then("beginRun", After(call))
  <2> HIDE DEF Calls
  <2> QED
    BY <1>1, AfterTyped, NothingBefore DEF Then
<1> QED
  BY <1>2 DEF Code, After

LEMMA FinalizeRunBody ==
  LET ends == IF handleRuns.beginRunCalled THEN <<"endRun">> ELSE <<>>
      writes == IF WritesRunsAtEnd THEN <<"writeRun">> ELSE <<>>
  IN  (ends \o writes \o <<"clearCurrentRun">>) \o After("finalizeRun")
        = Code(IF handleRuns.beginRunCalled THEN "endRun"
               ELSE IF WritesRunsAtEnd THEN "writeRun" ELSE "clearCurrentRun")
<1> DEFINE ends == IF handleRuns.beginRunCalled THEN <<"endRun">> ELSE <<>>
           writes == IF WritesRunsAtEnd THEN <<"writeRun">> ELSE <<>>
           body == ends \o writes \o <<"clearCurrentRun">>
           last == Then("clearCurrentRun", <<>>)
<1>1. "endRun" \in Calls /\ "writeRun" \in Calls /\ "clearCurrentRun" \in Calls
  BY CallsAre
<1>2. <<"clearCurrentRun">> = last /\ last \in Seq(Calls) /\ After("finalizeRun") = <<>>
  BY <1>1, ShortCode, EmptyBody, ThenIs DEF After
<1>3. ends \in Seq(Calls) /\ writes \in Seq(Calls)
  BY <1>1, EmptyBody
<1>4. body = ends \o (writes \o last)
  <2>1. body = (ends \o writes) \o last
    BY <1>2
  <2> HIDE DEF body, ends, writes, last
  <2> QED
    BY <1>2, <1>3, <2>1, ConcatAssociative
<1>5. writes \o last = IF WritesRunsAtEnd THEN Then("writeRun", last) ELSE last
  BY <1>2, NothingBefore DEF Then
<1>6. writes \o last \in Seq(Calls)
  BY <1>2, <1>3, ConcatProperties
<1>7. body = IF handleRuns.beginRunCalled THEN Then("endRun", writes \o last) ELSE writes \o last
  BY <1>4, <1>6, NothingBefore DEF Then
<1>8. body \o After("finalizeRun") = body
  <2>1. body \in Seq(Calls)
    BY <1>3, <1>4, <1>6, ConcatProperties
  <2> HIDE DEF body
  <2> QED
    BY <1>2, <2>1, NothingBefore
<1>9. body = Code(IF handleRuns.beginRunCalled THEN "endRun"
                  ELSE IF WritesRunsAtEnd THEN "writeRun" ELSE "clearCurrentRun")
  <2> HIDE DEF body, writes, ends
  <2>1. After("endRun") = writes \o last
    BY <1>5 DEF After
  <2>3. After("writeRun") = last
    BY DEF After
  <2>4. After("clearCurrentRun") = <<>>
    BY DEF After
  <2> QED
    BY <1>5, <1>7, <2>1, <2>3, <2>4 DEF Code
<1> QED
  BY <1>8, <1>9

\* The next statement is in its place when the one before it was.
LEMMA GoesInPlace ==
  ASSUME InPlace, NEW next, Goes(next),
         \/ next \in {"beginRun"} /\ (Constructs("NewRun") \/ Constructs("HandleEvent"))
         \/ next \in RunEnds /\ depth = 2 /\ (GoesDown \/ (phase = "action" /\ move.target = "NewRun"))
         \/ next \in EventCalls /\ Constructs("HandleEvent")
         \/ next \in {"finalizeSubRun", "clearCurrentSubRun"}
              /\ ((GoesDown /\ depth = 3) \/ Constructs("AnotherSubRun"))
         \/ next = "setupCurrentSubRun" /\ Constructs("AnotherSubRun")
         \/ next \in {"finalizeOutstandingSubRuns", "nextOutstanding"}
              /\ ((GoesDown /\ depth = 3) \/ Constructs("HandleEvent"))
         \/ next \in SubRunBodies
              /\ \/ GoesDown /\ depth = 3
                 \/ Constructs("AnotherSubRun") /\ ~InLoop'
                 \/ Constructs("HandleEvent") /\ (InLoop' \/ next = "beginSubRun")
         \/ next = "none"
  PROVE  InPlace'
<1>1. /\ NextCall' = next /\ phase' = phase /\ depth' = depth /\ leaf' = leaf /\ move' = move
  BY DEF Goes
<1>2. /\ GoesDown' = GoesDown
      /\ Constructs("NewRun")' = Constructs("NewRun")
      /\ Constructs("HandleEvent")' = Constructs("HandleEvent")
      /\ Constructs("AnotherSubRun")' = Constructs("AnotherSubRun")
  BY <1>1 DEF GoesDown, Constructs
<1>3. CASE next \in {"beginRun", "none", "setupCurrentSubRun"} \cup EventCalls
  BY <1>1, <1>2, <1>3 DEF InPlace, Closes, EventCalls, RunEnds, SubRunBodies
<1>4. CASE next \in RunEnds \cup {"finalizeSubRun", "clearCurrentSubRun"}
  BY <1>1, <1>2, <1>4 DEF InPlace, Closes, EventCalls, RunEnds, SubRunBodies
<1>5. CASE next \in {"finalizeOutstandingSubRuns", "nextOutstanding"} \cup SubRunBodies
  BY <1>1, <1>2, <1>5 DEF InPlace, Closes, EventCalls, RunEnds, SubRunBodies
<1> QED
  BY <1>3, <1>4, <1>5

LEMMA SetupCurrentRunFlow ==
  ASSUME OrderInv, SetupCurrentRun
  PROVE  /\ FlowFits' /\ NextCall = "setupCurrentRun"
         /\ Expands(IF config.handleEmptyRuns THEN <<"beginRun">> ELSE <<>>) =>
              Goes(IF config.handleEmptyRuns THEN "beginRun" ELSE "none")
         /\ Throws => Fails
<1>1. /\ Running("setupCurrentRun") /\ posted' = posted /\ handleSubRuns' = handleSubRuns
      /\ Throws \/ Expands(IF config.handleEmptyRuns THEN <<"beginRun">> ELSE <<>>)
  BY DEF SetupCurrentRun
<1>2. NextCall = "setupCurrentRun"
  BY <1>1 DEF Running, NextCall
<1>3. Constructs("NewRun")
  BY <1>2 DEF OrderInv, InPlace
<1>4. ASSUME Expands(IF config.handleEmptyRuns THEN <<"beginRun">> ELSE <<>>)
      PROVE  Goes(IF config.handleEmptyRuns THEN "beginRun" ELSE "none") /\ FlowFits'
  <2>1. leaf # "HandleEvent" /\ "beginRun" \in Calls \cup {"none"} /\ "none" \in Calls \cup {"none"}
    BY <1>3, CallsAre DEF Constructs
  <2>2. Goes(IF config.handleEmptyRuns THEN "beginRun" ELSE "none") /\ Chained' /\ Between'
    <3>1. CASE config.handleEmptyRuns
      BY <1>1, <1>4, <2>1, <3>1, RunBodies, ExpandsFlow
    <3>2. CASE ~config.handleEmptyRuns
      BY <1>1, <1>4, <2>1, <3>2, RunBodies, ExpandsFlow
    <3> QED
      BY <3>1, <3>2
  <2>3. InPlace'
    BY <1>3, <2>2, GoesInPlace DEF OrderInv
  <2> QED
    BY <2>2, <2>3 DEF FlowFits
<1>5. ASSUME Throws PROVE Fails /\ FlowFits'
  BY <1>1, <1>5, SimpleStatement
<1> QED
  BY <1>1, <1>2, <1>4, <1>5

LEMMA BeginRunIfNotFlow ==
  ASSUME OrderInv, BeginRunIfNotDoneAlready
  PROVE  /\ FlowFits' /\ NextCall = "beginRunIfNotDoneAlready"
         /\ Goes(IF handleRuns.beginRunCalled THEN "markSubRunNonEmpty" ELSE "beginRun")
<1>1. /\ Running("beginRunIfNotDoneAlready") /\ posted' = posted /\ handleSubRuns' = handleSubRuns
      /\ Expands(IF handleRuns.beginRunCalled THEN <<>> ELSE <<"beginRun">>)
  BY DEF BeginRunIfNotDoneAlready, objects
<1>2. NextCall = "beginRunIfNotDoneAlready"
  BY <1>1 DEF Running, NextCall
<1>3. Constructs("HandleEvent") /\ leaf = "HandleEvent"
  BY <1>2 DEF OrderInv, InPlace, EventCalls, Constructs
<1>4. "beginRun" \in Calls \cup {"none"} /\ "markSubRunNonEmpty" \in Calls \cup {"none"}
  BY CallsAre
<1>5. /\ Goes(IF handleRuns.beginRunCalled THEN "markSubRunNonEmpty" ELSE "beginRun")
      /\ Chained' /\ Between'
  <2>1. CASE handleRuns.beginRunCalled
    BY <1>1, <1>3, <1>4, <2>1, RunBodies, ExpandsFlow
  <2>2. CASE ~handleRuns.beginRunCalled
    BY <1>1, <1>3, <1>4, <2>2, RunBodies, ExpandsFlow
  <2> QED
    BY <2>1, <2>2
<1>6. InPlace'
  <2>1. "markSubRunNonEmpty" \in EventCalls
    BY DEF EventCalls
  <2> QED
    BY <1>3, <1>5, <2>1, GoesInPlace DEF OrderInv
<1> QED
  BY <1>2, <1>5, <1>6 DEF FlowFits

LEMMA FinalizeRunFlow ==
  ASSUME OrderInv, FinalizeRun
  PROVE  /\ FlowFits' /\ NextCall = "finalizeRun"
         /\ Goes(IF handleRuns.runException THEN "none"
                 ELSE IF handleRuns.beginRunCalled THEN "endRun"
                 ELSE IF WritesRunsAtEnd THEN "writeRun" ELSE "clearCurrentRun")
<1>1. /\ Running("finalizeRun") /\ posted' = posted /\ handleSubRuns' = handleSubRuns
  BY DEF FinalizeRun
<1>2. NextCall = "finalizeRun"
  BY <1>1 DEF Running, NextCall
<1>3. depth = 2 /\ (GoesDown \/ (phase = "action" /\ move.target = "NewRun"))
  BY <1>2 DEF OrderInv, InPlace, RunEnds
<1>4. CASE handleRuns.runException /\ Returns
  <2>1. FlowFits' /\ Goes(NextAfter("finalizeRun"))
    BY <1>1, <1>4, SimpleStatement
  <2>2. NextAfter("finalizeRun") = "none"
    BY DEF NextAfter
  <2> QED
    BY <1>2, <1>4, <2>1, <2>2
<1>5. CASE ~handleRuns.runException
           /\ Expands((IF handleRuns.beginRunCalled THEN <<"endRun">> ELSE <<>>)
                      \o (IF WritesRunsAtEnd THEN <<"writeRun">> ELSE <<>>)
                      \o <<"clearCurrentRun">>)
  <2> DEFINE next == IF handleRuns.beginRunCalled THEN "endRun"
                     ELSE IF WritesRunsAtEnd THEN "writeRun" ELSE "clearCurrentRun"
             body == (IF handleRuns.beginRunCalled THEN <<"endRun">> ELSE <<>>)
                      \o (IF WritesRunsAtEnd THEN <<"writeRun">> ELSE <<>>)
                      \o <<"clearCurrentRun">>
  <2>1. next \in Calls \cup {"none"} /\ next \in RunEnds
    BY CallsAre DEF RunEnds
  <2>2. body \o After("finalizeRun") = Code(next)
    BY FinalizeRunBody
  <2>3. Expands(body)
    BY <1>5
  <2> HIDE DEF body, next
  <2>4. Goes(next) /\ Chained' /\ Between'
    BY <1>1, <2>1, <2>2, <2>3, ExpandsFlow
  <2>5. InPlace'
    BY <1>3, <2>1, <2>4, GoesInPlace DEF OrderInv
  <2>6. ~handleRuns.runException
    BY <1>5
  <2> QED
    BY <1>2, <2>4, <2>5, <2>6 DEF FlowFits, next
<1> QED
  BY <1>4, <1>5 DEF FinalizeRun

\* Concatenation as an operator that the provers need not expand.
Joined(first, second) == first \o second

LEMMA Associates ==
  ASSUME NEW x \in Seq(Calls), NEW y \in Seq(Calls), NEW z \in Seq(Calls)
  PROVE  Joined(Joined(x, y), z) = Joined(x, Joined(y, z)) /\ Joined(x, y) \in Seq(Calls)
  BY ConcatAssociative, ConcatProperties DEF Joined

LEMMA AssociatesAgain ==
  ASSUME NEW x \in Seq(Calls), NEW y \in Seq(Calls), NEW z \in Seq(Calls), NEW rest \in Seq(Calls)
  PROVE  (x \o y \o z) \o rest = x \o (y \o (z \o rest))
<1>1. /\ Joined(Joined(x, y), z) = Joined(x, Joined(y, z))
      /\ Joined(y, z) \in Seq(Calls)
      /\ Joined(Joined(y, z), rest) = Joined(y, Joined(z, rest))
  BY Associates
<1>2. Joined(Joined(x, Joined(y, z)), rest) = Joined(x, Joined(Joined(y, z), rest))
  BY <1>1, Associates
<1>3. Joined(Joined(Joined(x, y), z), rest) = Joined(x, Joined(y, Joined(z, rest)))
  BY <1>1, <1>2
<1> QED
  BY <1>3 DEF Joined

\* The end of a sub-run, with or without its begin before it.
LEMMA WriteBody ==
  ASSUME NEW last \in Calls, NEW rest \in Seq(Calls)
  PROVE  /\ (WriteIfAtEnd \o <<last>>) \o rest = WritesThen(Then(last, rest))
         /\ (<<"endSubRun">> \o WriteIfAtEnd \o <<last>>) \o rest
              = Then("endSubRun", WritesThen(Then(last, rest)))
         /\ (<<"beginSubRun", "endSubRun">> \o WriteIfAtEnd \o <<last>>) \o rest
              = Then("beginSubRun", Then("endSubRun", WritesThen(Then(last, rest))))
<1>1. "writeSubRun" \in Calls /\ "endSubRun" \in Calls /\ "beginSubRun" \in Calls
  BY CallsAre
<1>2. WriteIfAtEnd \in Seq(Calls)
  BY <1>1, EmptyBody DEF WriteIfAtEnd
<1>3. /\ <<last>> \in Seq(Calls) /\ <<"endSubRun">> \in Seq(Calls)
      /\ <<"beginSubRun", "endSubRun">> \in Seq(Calls)
  BY <1>1
<1> HIDE DEF Calls
<1>4. PICK w \in Seq(Calls) : w = WriteIfAtEnd
  BY <1>2
<1>5. PICK l \in Seq(Calls) : l = <<last>>
  BY <1>3
<1>6. PICK e \in Seq(Calls) : e = <<"endSubRun">>
  BY <1>3
<1>7. PICK b \in Seq(Calls) : b = <<"beginSubRun", "endSubRun">>
  BY <1>3
<1>8. l \o rest = Then(last, rest) /\ Then(last, rest) \in Seq(Calls)
  BY <1>5, ThenIs DEF Then
<1>9. w \o (l \o rest) = WritesThen(Then(last, rest)) /\ w \o (l \o rest) \in Seq(Calls)
  <2>1. CASE WritesSubRunsAtEnd
    BY <1>1, <1>4, <1>8, <2>1, ThenIs DEF WriteIfAtEnd, WritesThen, Then
  <2>2. CASE ~WritesSubRunsAtEnd
    BY <1>4, <1>8, <2>2, NothingBefore DEF WriteIfAtEnd, WritesThen
  <2> QED
    BY <2>1, <2>2
<1>10. w \o l \in Seq(Calls) /\ (w \o l) \o rest = w \o (l \o rest)
  <2>1. Joined(Joined(w, l), rest) = Joined(w, Joined(l, rest)) /\ Joined(w, l) \in Seq(Calls)
    BY Associates
  <2> QED
    BY <2>1 DEF Joined
<1>18. rest \in Seq(Calls)
  OBVIOUS
<1>11. (e \o w \o l) \o rest = e \o (w \o (l \o rest))
  BY ONLY <1>4, <1>5, <1>6, <1>18, AssociatesAgain
<1>12. (b \o w \o l) \o rest = b \o (w \o (l \o rest))
  BY ONLY <1>4, <1>5, <1>7, <1>18, AssociatesAgain
<1>13. e \o (w \o (l \o rest)) = Then("endSubRun", w \o (l \o rest))
  BY <1>6 DEF Then
<1>14. b \o (w \o (l \o rest)) = Then("beginSubRun", Then("endSubRun", w \o (l \o rest)))
  BY <1>1, <1>7, <1>9, ShortBefore
<1>15. (WriteIfAtEnd \o <<last>>) \o rest = WritesThen(Then(last, rest))
  BY <1>4, <1>5, <1>9, <1>10
<1>16. (<<"endSubRun">> \o WriteIfAtEnd \o <<last>>) \o rest = Then("endSubRun", WritesThen(Then(last, rest)))
  BY <1>4, <1>5, <1>6, <1>9, <1>11, <1>13
<1>17. (<<"beginSubRun", "endSubRun">> \o WriteIfAtEnd \o <<last>>) \o rest
         = Then("beginSubRun", Then("endSubRun", WritesThen(Then(last, rest))))
  BY <1>4, <1>5, <1>7, <1>9, <1>12, <1>14
<1> QED
  BY <1>15, <1>16, <1>17

LEMMA CallsBefore ==
  ASSUME NEW call \in Calls
  PROVE  /\ <<>> \o After(call) = After(call)
         /\ \A first \in Calls : <<first>> \o After(call) = Then(first, After(call))
         /\ \A first, second \in Calls :
              <<first, second>> \o After(call) = Then(first, Then(second, After(call)))
  BY AfterTyped, NothingBefore, ShortBefore

LEMMA FinalizeAllFlow ==
  ASSUME OrderInv, FinalizeAllSubRuns
  PROVE  /\ FlowFits' /\ NextCall = "finalizeAllSubRuns"
         /\ Goes(IF handleSubRuns.exception \/ handleRuns.runException THEN "none" ELSE "finalizeSubRun")
<1>1. /\ Running("finalizeAllSubRuns") /\ posted' = posted /\ handleSubRuns' = handleSubRuns
      /\ Expands(IF handleSubRuns.exception \/ handleRuns.runException
                   THEN <<>> ELSE <<"finalizeSubRun", "finalizeOutstandingSubRuns">>)
  BY DEF FinalizeAllSubRuns, objects
<1>2. NextCall = "finalizeAllSubRuns"
  BY <1>1 DEF Running, NextCall
<1>3. GoesDown /\ depth = 3
  BY <1>2 DEF OrderInv, InPlace
<1>4. /\ "finalizeAllSubRuns" \in Calls /\ "finalizeSubRun" \in Calls
      /\ "finalizeOutstandingSubRuns" \in Calls
  BY CallsAre
<1>5. After("finalizeAllSubRuns") = <<>>
  BY DEF After
<1>6. /\ <<>> \o After("finalizeAllSubRuns") = Code("none")
      /\ <<"finalizeSubRun", "finalizeOutstandingSubRuns">> \o After("finalizeAllSubRuns")
           = Code("finalizeSubRun")
  <2>1. Code("finalizeSubRun") = Then("finalizeSubRun", Then("finalizeOutstandingSubRuns", <<>>))
    BY <1>3 DEF Code, After, AfterSubRun, GoesDown
  <2> QED
    BY <1>4, <1>5, <2>1, CallsBefore DEF Code
<1>7. /\ Goes(IF handleSubRuns.exception \/ handleRuns.runException THEN "none" ELSE "finalizeSubRun")
      /\ Chained' /\ Between'
  <2>1. CASE handleSubRuns.exception \/ handleRuns.runException
    BY <1>1, <1>4, <1>6, <2>1, ExpandsFlow
  <2>2. CASE ~(handleSubRuns.exception \/ handleRuns.runException)
    BY <1>1, <1>4, <1>6, <2>2, ExpandsFlow
  <2> QED
    BY <2>1, <2>2
<1>8. InPlace'
  BY <1>3, <1>7, GoesInPlace DEF OrderInv
<1> QED
  BY <1>2, <1>7, <1>8 DEF FlowFits

\* What finalizeSubRun goes on with.
FinalizesWith ==
  IF ~handleSubRuns.empty THEN "endSubRun"
  ELSE IF ~config.handleEmptySubRuns
         THEN IF WritesSubRunsAtEnd THEN "writeSubRun" ELSE "clearCurrentSubRun"
  ELSE IF handleRuns.beginRunCalled THEN "beginSubRun" ELSE "clearCurrentSubRun"

LEMMA FinalizeSubRunFlow ==
  ASSUME OrderInv, FinalizeSubRun
  PROVE  FlowFits' /\ NextCall = "finalizeSubRun" /\ Goes(FinalizesWith) /\ ~InLoop
<1>1. /\ Running("finalizeSubRun") /\ posted' = posted
      /\ handleSubRuns'.iter = handleSubRuns.iter
  <2>1. handleSubRuns \in SubRunFields
    BY DEF OrderInv, TypeInv, DataOK
  <2> QED
    BY <2>1 DEF FinalizeSubRun, SubRunFields
<1>2. NextCall = "finalizeSubRun"
  BY <1>1 DEF Running, NextCall
<1>3. (GoesDown /\ depth = 3) \/ Constructs("AnotherSubRun")
  BY <1>2 DEF OrderInv, InPlace
<1>4. ~InLoop
  BY <1>2 DEF OrderInv, LoopFits, SubRunBodies
<1>5. /\ "finalizeSubRun" \in Calls /\ "clearCurrentSubRun" \in Calls /\ "endSubRun" \in Calls
      /\ "beginSubRun" \in Calls /\ "writeSubRun" \in Calls
  BY CallsAre
<1> DEFINE rest == After("finalizeSubRun")
           ending == Then("clearCurrentSubRun", rest)
<1>6. /\ rest \in Seq(Calls)
      /\ After("clearCurrentSubRun") = rest /\ After("writeSubRun") = ending
      /\ After("endSubRun") = WritesThen(ending)
      /\ After("beginSubRun") = Then("endSubRun", WritesThen(ending))
  <2>1. After("clearCurrentSubRun") = AfterSubRun /\ rest = AfterSubRun
    BY DEF After
  <2>2. AfterWrite = ending
    BY <1>4, <2>1 DEF AfterWrite
  <2>3. ~StartsSubRun
    BY <1>3 DEF StartsSubRun, Constructs, GoesDown
  <2>4. After("beginSubRun") = Then("endSubRun", WritesThen(AfterWrite))
    BY <2>3 DEF After
  <2>5. After("endSubRun") = WritesThen(AfterWrite) /\ After("writeSubRun") = AfterWrite
    BY DEF After
  <2> QED
    BY <1>5, <2>1, <2>2, <2>4, <2>5, AfterTyped
<1>7. /\ (<<"endSubRun">> \o WriteIfAtEnd \o <<"clearCurrentSubRun">>) \o rest = Code("endSubRun")
      /\ (<<"beginSubRun", "endSubRun">> \o WriteIfAtEnd \o <<"clearCurrentSubRun">>) \o rest
           = Code("beginSubRun")
      /\ <<"clearCurrentSubRun">> \o rest = Code("clearCurrentSubRun")
      /\ (WriteIfAtEnd \o <<"clearCurrentSubRun">>) \o rest
           = Code(IF WritesSubRunsAtEnd THEN "writeSubRun" ELSE "clearCurrentSubRun")
  <2> HIDE DEF rest
  <2>1. /\ Code("endSubRun") = Then("endSubRun", WritesThen(ending))
        /\ Code("beginSubRun") = Then("beginSubRun", Then("endSubRun", WritesThen(ending)))
        /\ Code("clearCurrentSubRun") = ending
        /\ Code(IF WritesSubRunsAtEnd THEN "writeSubRun" ELSE "clearCurrentSubRun") = WritesThen(ending)
    BY <1>6 DEF Code, WritesThen
  <2>2. <<"clearCurrentSubRun">> \o rest = ending
    BY DEF Then
  <2> HIDE DEF ending
  <2>3. /\ (WriteIfAtEnd \o <<"clearCurrentSubRun">>) \o rest = WritesThen(ending)
        /\ (<<"endSubRun">> \o WriteIfAtEnd \o <<"clearCurrentSubRun">>) \o rest
             = Then("endSubRun", WritesThen(ending))
        /\ (<<"beginSubRun", "endSubRun">> \o WriteIfAtEnd \o <<"clearCurrentSubRun">>) \o rest
             = Then("beginSubRun", Then("endSubRun", WritesThen(ending)))
    BY <1>5, <1>6, WriteBody DEF ending
  <2> QED
    BY <2>1, <2>2, <2>3
<1> HIDE DEF rest, ending
<1>8. Goes(FinalizesWith) /\ Chained' /\ Between'
  <2>1. CASE ~handleSubRuns.empty
    <3>1. Expands(<<"endSubRun">> \o WriteIfAtEnd \o <<"clearCurrentSubRun">>)
      BY <2>1 DEF FinalizeSubRun
    <3>2. FinalizesWith = "endSubRun"
      BY <2>1 DEF FinalizesWith
    <3> QED
      BY <1>1, <1>5, <1>7, <3>1, <3>2, ExpandsFlow DEF rest
  <2>2. CASE handleSubRuns.empty /\ config.handleEmptySubRuns /\ handleRuns.beginRunCalled
    <3>1. Expands(<<"beginSubRun", "endSubRun">> \o WriteIfAtEnd \o <<"clearCurrentSubRun">>)
      BY <2>2 DEF FinalizeSubRun
    <3>2. FinalizesWith = "beginSubRun"
      BY <2>2 DEF FinalizesWith
    <3> QED
      BY <1>1, <1>5, <1>7, <3>1, <3>2, ExpandsFlow DEF rest
  <2>3. CASE handleSubRuns.empty /\ config.handleEmptySubRuns /\ ~handleRuns.beginRunCalled
    <3>1. Expands(<<"clearCurrentSubRun">>)
      BY <2>3 DEF FinalizeSubRun
    <3>2. FinalizesWith = "clearCurrentSubRun"
      BY <2>3 DEF FinalizesWith
    <3> QED
      BY <1>1, <1>5, <1>7, <3>1, <3>2, ExpandsFlow DEF rest
  <2>4. CASE handleSubRuns.empty /\ ~config.handleEmptySubRuns
    <3>1. Expands(WriteIfAtEnd \o <<"clearCurrentSubRun">>)
      BY <2>4 DEF FinalizeSubRun
    <3>2. FinalizesWith = IF WritesSubRunsAtEnd THEN "writeSubRun" ELSE "clearCurrentSubRun"
      BY <2>4 DEF FinalizesWith
    <3>3. FinalizesWith \in Calls \cup {"none"}
      BY <1>5, <3>2
    <3>4. (WriteIfAtEnd \o <<"clearCurrentSubRun">>) \o After("finalizeSubRun") = Code(FinalizesWith)
      BY <1>7, <3>2 DEF rest
    <3>5. PICK next \in Calls \cup {"none"} : next = FinalizesWith
      BY <3>3
    <3> QED
      BY <1>1, <3>1, <3>4, <3>5, ExpandsFlow
  <2> QED
    BY <2>1, <2>2, <2>3, <2>4
<1>9. InPlace'
  <2>1. InLoop' = InLoop
    BY <1>1 DEF InLoop
  <2>2. FinalizesWith \in SubRunBodies \cup {"clearCurrentSubRun"}
    BY DEF FinalizesWith, SubRunBodies
  <2>3. PICK next : next = FinalizesWith
    OBVIOUS
  <2> QED
    BY <1>3, <1>4, <1>8, <2>1, <2>2, <2>3, GoesInPlace DEF OrderInv
<1> QED
  BY <1>2, <1>4, <1>8, <1>9 DEF FlowFits

LEMMA FinalizeOutstandingFlow ==
  ASSUME OrderInv, FinalizeOutstandingSubRuns
  PROVE  /\ FlowFits' /\ NextCall = "finalizeOutstandingSubRuns" /\ ~InLoop
         /\ Goes("nextOutstanding") /\ handleSubRuns'.iter = handleSubRuns.iter
<1>1. /\ Running("finalizeOutstandingSubRuns") /\ posted' = posted
      /\ Expands(<<"nextOutstanding">>) /\ handleSubRuns'.iter = handleSubRuns.iter
  <2>1. handleSubRuns \in SubRunFields
    BY DEF OrderInv, TypeInv, DataOK
  <2> QED
    BY <2>1 DEF FinalizeOutstandingSubRuns, SubRunFields
<1>2. NextCall = "finalizeOutstandingSubRuns"
  BY <1>1 DEF Running, NextCall
<1>3. (GoesDown /\ depth = 3) \/ Constructs("HandleEvent")
  BY <1>2 DEF OrderInv, InPlace
<1>4. "finalizeOutstandingSubRuns" \in Calls /\ "nextOutstanding" \in Calls
  BY CallsAre
<1>5. After("finalizeOutstandingSubRuns") = AfterLoop /\ After("nextOutstanding") = AfterLoop
  BY DEF After
<1>6. <<"nextOutstanding">> \o After("finalizeOutstandingSubRuns") = Code("nextOutstanding")
  BY <1>4, <1>5, CallsBefore DEF Code
<1>7. Goes("nextOutstanding") /\ Chained' /\ Between'
  BY <1>1, <1>4, <1>6, ExpandsFlow
<1>8. InPlace'
  BY <1>3, <1>7, GoesInPlace DEF OrderInv
<1>9. ~InLoop
  BY <1>2 DEF OrderInv, LoopFits, SubRunBodies
<1> QED
  BY <1>1, <1>2, <1>7, <1>8, <1>9 DEF FlowFits

LEMMA MarkSubRunNonEmptyFlow ==
  ASSUME OrderInv, MarkSubRunNonEmpty
  PROVE  /\ FlowFits' /\ NextCall = "markSubRunNonEmpty" /\ ~InLoop
         /\ Goes(IF handleSubRuns.empty THEN "finalizeOutstandingSubRuns" ELSE "readEvent")
<1>1. /\ Running("markSubRunNonEmpty") /\ posted' = posted /\ handleSubRuns' = handleSubRuns
      /\ Expands(IF handleSubRuns.empty THEN <<"finalizeOutstandingSubRuns", "startSubRun">> ELSE <<>>)
  BY DEF MarkSubRunNonEmpty, objects
<1>2. NextCall = "markSubRunNonEmpty"
  BY <1>1 DEF Running, NextCall
<1>3. Constructs("HandleEvent") /\ phase = "construct"
  BY <1>2 DEF OrderInv, InPlace, EventCalls, Constructs
<1>4. /\ "markSubRunNonEmpty" \in Calls /\ "finalizeOutstandingSubRuns" \in Calls
      /\ "startSubRun" \in Calls /\ "readEvent" \in Calls
  BY CallsAre
<1>5. /\ After("markSubRunNonEmpty") = ReadsEvent
      /\ Code("finalizeOutstandingSubRuns")
           = Then("finalizeOutstandingSubRuns", Then("startSubRun", ReadsEvent))
      /\ Code("readEvent") = ReadsEvent
  BY <1>3 DEF Code, After, AfterLoop, ReadsEvent
<1>6. /\ <<"finalizeOutstandingSubRuns", "startSubRun">> \o After("markSubRunNonEmpty")
           = Code("finalizeOutstandingSubRuns")
      /\ <<>> \o After("markSubRunNonEmpty") = Code("readEvent")
  BY <1>4, <1>5, CallsBefore
<1>7. /\ Goes(IF handleSubRuns.empty THEN "finalizeOutstandingSubRuns" ELSE "readEvent")
      /\ Chained' /\ Between'
  <2>1. CASE handleSubRuns.empty
    BY <1>1, <1>4, <1>6, <2>1, ExpandsFlow
  <2>2. CASE ~handleSubRuns.empty
    BY <1>1, <1>4, <1>6, <2>2, ExpandsFlow
  <2> QED
    BY <2>1, <2>2
<1>8. InPlace'
  <2>1. CASE handleSubRuns.empty
    BY <1>3, <1>7, <2>1, GoesInPlace DEF OrderInv
  <2>2. CASE ~handleSubRuns.empty
    BY <1>3, <1>7, <2>2, GoesInPlace DEF OrderInv, EventCalls
  <2> QED
    BY <2>1, <2>2
<1>9. ~InLoop
  BY <1>2, <1>3 DEF OrderInv, LoopFits, SubRunBodies
<1> QED
  BY <1>2, <1>7, <1>8, <1>9 DEF FlowFits

LEMMA StartSubRunFlow ==
  ASSUME OrderInv, StartSubRun
  PROVE  /\ FlowFits' /\ NextCall = "startSubRun" /\ ~InLoop
         /\ Goes("beginSubRun") /\ handleSubRuns'.iter = handleSubRuns.iter
<1>1. /\ Running("startSubRun") /\ posted' = posted
      /\ Expands(<<"beginSubRun", "subRunStarted">>) /\ handleSubRuns'.iter = handleSubRuns.iter
  <2>1. handleSubRuns \in SubRunFields
    BY DEF OrderInv, TypeInv, DataOK
  <2> QED
    BY <2>1 DEF StartSubRun, SubRunFields
<1>2. NextCall = "startSubRun"
  BY <1>1 DEF Running, NextCall
<1>3. Constructs("HandleEvent") /\ phase = "construct"
  BY <1>2 DEF OrderInv, InPlace, EventCalls, Constructs
<1>4. "startSubRun" \in Calls /\ "beginSubRun" \in Calls /\ "subRunStarted" \in Calls
  BY CallsAre
<1>5. ~InLoop
  BY <1>2, <1>3 DEF OrderInv, LoopFits, SubRunBodies
<1>6. /\ After("startSubRun") = ReadsEvent
      /\ Code("beginSubRun") = Then("beginSubRun", Then("subRunStarted", ReadsEvent))
  BY <1>3, <1>5 DEF Code, After, StartsSubRun, Constructs
<1>7. <<"beginSubRun", "subRunStarted">> \o After("startSubRun") = Code("beginSubRun")
  BY <1>4, <1>6, CallsBefore
<1>8. Goes("beginSubRun") /\ Chained' /\ Between'
  BY <1>1, <1>4, <1>7, ExpandsFlow
<1>9. InPlace'
  BY <1>3, <1>8, GoesInPlace DEF OrderInv, SubRunBodies
<1> QED
  BY <1>1, <1>2, <1>5, <1>8, <1>9 DEF FlowFits

\* A turn of the loop over the sub-runs put off, or its end.
LEMMA NextOutstandingFlow ==
  ASSUME OrderInv, NextOutstanding
  PROVE  /\ FlowFits' /\ NextCall = "nextOutstanding"
         /\ IF handleSubRuns.iter < Len(handleSubRuns.unhandled)
              THEN Goes("beginSubRun")
              ELSE Goes(IF phase = "construct" THEN "startSubRun" ELSE "none")
<1>1. /\ Running("nextOutstanding") /\ posted' = posted /\ handleSubRuns \in SubRunFields
      /\ handleSubRuns.iter \in Nat /\ Len(handleSubRuns.unhandled) \in Nat
  BY DEF OrderInv, TypeInv, DataOK, NextOutstanding, SubRunFields
<1>2. NextCall = "nextOutstanding" /\ todo # <<>> /\ todo \in Seq(Calls)
  BY <1>1 DEF Running, NextCall, OrderInv, TypeInv, Control, ControlOK
<1>3. (GoesDown /\ depth = 3) \/ Constructs("HandleEvent")
  BY <1>2 DEF OrderInv, InPlace
<1>4. /\ "nextOutstanding" \in Calls /\ "beginSubRun" \in Calls /\ "endSubRun" \in Calls
      /\ "startSubRun" \in Calls
  BY CallsAre
<1>5. After("nextOutstanding") = AfterLoop /\ AfterLoop \in Seq(Calls)
  <2>1. After("nextOutstanding") \in Seq(Calls)
    BY <1>4, AfterTyped
  <2> QED
    BY <2>1 DEF After
<1>6. CASE handleSubRuns.iter < Len(handleSubRuns.unhandled)
  <2>1. /\ Expands(<<"beginSubRun", "endSubRun">> \o WriteIfAtEnd \o <<"nextOutstanding">>)
        /\ handleSubRuns'.iter = handleSubRuns.iter + 1
    BY <1>1, <1>6 DEF NextOutstanding, SubRunFields
  <2>2. UNCHANGED <<config, phase, depth, leaf, move, external, primary>>
    BY <2>1 DEF Expands, failure
  <2>3. InLoop'
    BY <1>1, <2>1 DEF InLoop
  <2>4. AfterLoop' = AfterLoop /\ (WritesSubRunsAtEnd' <=> WritesSubRunsAtEnd) /\ ~StartsSubRun'
    BY <2>2, <2>3 DEF AfterLoop, WritesSubRunsAtEnd, StartsSubRun
  <2>5. Code("beginSubRun")'
          = Then("beginSubRun", Then("endSubRun", WritesThen(Then("nextOutstanding", AfterLoop))))
    <3>1. AfterWrite' = Then("nextOutstanding", AfterLoop)
      BY <2>3, <2>4 DEF AfterWrite
    <3>2. After("beginSubRun")' = Then("endSubRun", WritesThen(AfterWrite)')
      BY <2>4 DEF After
    <3>3. WritesThen(AfterWrite)' = WritesThen(Then("nextOutstanding", AfterLoop))
      BY <3>1, <2>4 DEF WritesThen
    <3> QED
      BY <3>2, <3>3 DEF Code
  <2>6. (<<"beginSubRun", "endSubRun">> \o WriteIfAtEnd \o <<"nextOutstanding">>) \o After("nextOutstanding")
          = Code("beginSubRun")'
    BY <1>4, <1>5, <2>5, WriteBody
  <2>7. Goes("beginSubRun") /\ Chained'
    BY <1>1, <1>4, <2>1, <2>6, ExpandsGoes DEF OrderInv
  <2>8. Between'
    BY <1>1, <2>2, BetweenSame DEF OrderInv
  <2>9. InPlace'
    BY <1>3, <2>3, <2>7, GoesInPlace DEF OrderInv, SubRunBodies
  <2> QED
    BY <1>2, <1>6, <2>7, <2>8, <2>9 DEF FlowFits
<1>7. CASE ~(handleSubRuns.iter < Len(handleSubRuns.unhandled))
  <2> DEFINE next == IF phase = "construct" THEN "startSubRun" ELSE "none"
  <2>1. Returns /\ todo' = Tail(todo)
    BY <1>1, <1>7 DEF NextOutstanding, Returns
  <2>2. UNCHANGED <<config, phase, depth, leaf, move, source, external, primary, swallowed, errorState>>
    BY <2>1 DEF Returns, failure
  <2>3. Tail(todo) = AfterLoop
    BY <1>2, <1>4, <1>5, CodeIs DEF Chained, OrderInv
  <2>4. AfterLoop = IF next = "none" THEN <<>> ELSE Then(next, ReadsEvent)
    BY DEF AfterLoop
  <2>5. next \in Calls \cup {"none"}
    BY <1>4
  <2> HIDE DEF next
  <2>6. PICK c \in Calls \cup {"none"} : c = next
    BY <2>5
  <2>7. AfterLoop = Code(c)'
    <3>1. c = "none" => Code(c)' = <<>>
      BY DEF Code
    <3>2. c = "startSubRun" => Code(c)' = Then(c, ReadsEvent)
      BY DEF Code, After, ReadsEvent
    <3>3. c = "none" \/ c = "startSubRun"
      BY <2>6 DEF next
    <3> QED
      BY <2>4, <2>6, <3>1, <3>2, <3>3
  <2>8. NextCall' = next /\ Chained'
    BY <2>1, <2>3, <2>6, <2>7, Continues
  <2>9. Goes(next)
    BY <2>2, <2>8 DEF Goes
  <2>10. Between'
    BY <1>1, <2>2, BetweenSame DEF OrderInv
  <2>11. InPlace'
    <3>1. CASE phase = "construct"
      <4>1. Constructs("HandleEvent") /\ next \in EventCalls
        BY <1>3, <3>1 DEF GoesDown, next, EventCalls
      <4> QED
        BY <2>6, <2>9, <4>1, GoesInPlace DEF OrderInv
    <3>2. CASE phase # "construct"
      <4>1. next = "none"
        BY <3>2 DEF next
      <4> QED
        BY <2>6, <2>9, <4>1, GoesInPlace DEF OrderInv
    <3> QED
      BY <3>1, <3>2
  <2> QED
    BY <1>2, <1>7, <2>8, <2>9, <2>10, <2>11 DEF FlowFits, next
<1> QED
  BY <1>6, <1>7

-----------------------------------------------------------------------------
(* The control part: every step.                                            *)

\* A statement that ends or throws.
EndsOrThrows(call) ==
  /\ FlowFits' /\ NextCall = call
  /\ Returns => Goes(NextAfter(call))
  /\ Throws => Fails

LEMMA FileStatements ==
  ASSUME OrderInv
  PROVE  /\ ReadFile => EndsOrThrows("readFile")
         /\ CloseInputFile => EndsOrThrows("closeInputFile")
         /\ OpenOutputFiles => EndsOrThrows("openOutputFiles")
         /\ CloseOutputFiles => EndsOrThrows("closeOutputFiles")
         /\ Respond => \E call \in Responses : EndsOrThrows(call)
<1>1. ASSUME NEW call, Running(call), Returns \/ Throws, posted' = posted, handleSubRuns' = handleSubRuns
      PROVE  EndsOrThrows(call)
  BY <1>1, SimpleStatement DEF EndsOrThrows
<1>2. ReadFile => EndsOrThrows("readFile")
  BY <1>1 DEF ReadFile, objects
<1>3. CloseInputFile => EndsOrThrows("closeInputFile")
  BY <1>1 DEF CloseInputFile, objects
<1>4. OpenOutputFiles => EndsOrThrows("openOutputFiles")
  BY <1>1 DEF OpenOutputFiles, objects
<1>5. CloseOutputFiles => EndsOrThrows("closeOutputFiles")
  BY <1>1 DEF CloseOutputFiles, objects
<1>6. ASSUME Respond PROVE \E call \in Responses : EndsOrThrows(call)
  <2>1. /\ \E call \in Responses : Running(call)
        /\ Returns \/ Throws
        /\ posted' = posted /\ handleSubRuns' = handleSubRuns
    BY <1>6 DEF Respond, objects
  <2> QED
    BY <2>1, <1>1
<1> QED
  BY <1>2, <1>3, <1>4, <1>5, <1>6

LEMMA RunStatements ==
  ASSUME OrderInv
  PROVE  /\ ReadAndCacheRun => EndsOrThrows("readAndCacheRun")
         /\ BeginRun => EndsOrThrows("beginRun")
         /\ EndRun => EndsOrThrows("endRun")
         /\ WriteRun => EndsOrThrows("writeRun")
         /\ ClearCurrentRun => EndsOrThrows("clearCurrentRun")
<1>1. ASSUME NEW call, Running(call), Returns \/ Throws, posted' = posted, handleSubRuns' = handleSubRuns
      PROVE  EndsOrThrows(call)
  BY <1>1, SimpleStatement DEF EndsOrThrows
<1>2. ReadAndCacheRun => EndsOrThrows("readAndCacheRun")
  BY <1>1 DEF ReadAndCacheRun, objects
<1>3. BeginRun => EndsOrThrows("beginRun")
  BY <1>1 DEF BeginRun
<1>4. EndRun => EndsOrThrows("endRun")
  BY <1>1 DEF EndRun
<1>5. WriteRun => EndsOrThrows("writeRun")
  BY <1>1 DEF WriteRun
<1>6. ClearCurrentRun => EndsOrThrows("clearCurrentRun")
  BY <1>1 DEF ClearCurrentRun
<1> QED
  BY <1>2, <1>3, <1>4, <1>5, <1>6

LEMMA SubRunStatements ==
  ASSUME OrderInv
  PROVE  /\ ReadAndCacheSubRun => EndsOrThrows("readAndCacheSubRun")
         /\ SetupCurrentSubRun => EndsOrThrows("setupCurrentSubRun")
         /\ ClearCurrentSubRun => EndsOrThrows("clearCurrentSubRun")
         /\ SubRunStarted => EndsOrThrows("subRunStarted")
         /\ BeginSubRun => EndsOrThrows("beginSubRun")
         /\ EndSubRun => EndsOrThrows("endSubRun")
         /\ WriteSubRun => EndsOrThrows("writeSubRun")
<1>1. ASSUME NEW call, Running(call), Returns \/ Throws, posted' = posted,
             handleSubRuns'.iter = handleSubRuns.iter
      PROVE  EndsOrThrows(call)
  BY <1>1, SimpleStatement DEF EndsOrThrows
<1>2. handleSubRuns \in SubRunFields
  BY DEF OrderInv, TypeInv, DataOK
<1>3. ReadAndCacheSubRun => EndsOrThrows("readAndCacheSubRun")
  BY <1>1 DEF ReadAndCacheSubRun, objects
<1>4. SetupCurrentSubRun => EndsOrThrows("setupCurrentSubRun")
  <2>1. SetupCurrentSubRun => handleSubRuns'.iter = handleSubRuns.iter
    BY <1>2 DEF SetupCurrentSubRun, AcceptedSubRun, SubRunFields
  <2>2. SetupCurrentSubRun => Running("setupCurrentSubRun") /\ (Returns \/ Throws) /\ posted' = posted
    BY DEF SetupCurrentSubRun
  <2> QED
    BY <1>1, <2>1, <2>2
<1>5. ClearCurrentSubRun => EndsOrThrows("clearCurrentSubRun")
  BY <1>1, <1>2 DEF ClearCurrentSubRun, SubRunFields
<1>6. SubRunStarted => EndsOrThrows("subRunStarted")
  BY <1>1, <1>2 DEF SubRunStarted, SubRunFields
<1>7. BeginSubRun => EndsOrThrows("beginSubRun")
  BY <1>1 DEF BeginSubRun, objects
<1>8. EndSubRun => EndsOrThrows("endSubRun")
  BY <1>1 DEF EndSubRun, objects
<1>9. WriteSubRun => EndsOrThrows("writeSubRun")
  <2>1. WriteSubRun => handleSubRuns'.iter = handleSubRuns.iter
    BY <1>2 DEF WriteSubRun, SubRunFields
  <2>2. WriteSubRun => Running("writeSubRun") /\ (Returns \/ Throws) /\ posted' = posted
    BY DEF WriteSubRun
  <2> QED
    BY <1>1, <2>1, <2>2
<1> QED
  BY <1>3, <1>4, <1>5, <1>6, <1>7, <1>8, <1>9

LEMMA OtherStatements ==
  ASSUME OrderInv
  PROVE  /\ ReadEvent => EndsOrThrows("readEvent")
         /\ ProcessEvent => EndsOrThrows("processEvent")
<1>1. ASSUME NEW call, Running(call), Returns \/ Throws, handleSubRuns' = handleSubRuns,
             posted' = posted \/ (Returns /\ posted' \in {"none", "Stop"})
      PROVE  EndsOrThrows(call)
  BY <1>1, SimpleStatement DEF EndsOrThrows
<1>2. ReadEvent => EndsOrThrows("readEvent")
  BY <1>1 DEF ReadEvent, objects
<1>3. ProcessEvent => EndsOrThrows("processEvent")
  BY <1>1 DEF ProcessEvent, objects
<1> QED
  BY <1>2, <1>3

\* The last statement of a function that has no caller.
LEMMA LastStatement ==
  ASSUME OrderInv, NEW call, Running(call), call \in {"endOfLoop", "doErrorStuff", "rewindInput"},
         todo' = Tail(todo)
  PROVE  NextCall = call /\ NextCall' = "none" /\ Chained' /\ InPlace'
<1>1. NextCall = call /\ call \in Calls /\ todo \in Seq(Calls) /\ todo # <<>>
  BY CallsAre DEF Running, NextCall, OrderInv, TypeInv, Control, ControlOK
<1>2. Tail(todo) = After(call)
  BY <1>1, CodeIs, CallsAre DEF Chained, OrderInv
<1>3. After(call) = <<>>
  BY DEF After
<1>4. NextCall' = "none" /\ Chained'
  BY <1>2, <1>3, Stops
<1>5. InPlace'
  BY <1>4 DEF InPlace, Closes, EventCalls, RunEnds, SubRunBodies
<1> QED
  BY <1>1, <1>4, <1>5

LEMMA LastStatements ==
  ASSUME OrderInv
  PROVE  /\ EndOfLoop => /\ FlowFits' /\ NextCall = "endOfLoop" /\ (Returns => Goes("none"))
                         /\ Throws => Fails
         /\ DoErrorStuff => FlowFits' /\ NextCall = "doErrorStuff" /\ NextCall' = "none"
         /\ RewindInput => /\ FlowFits' /\ NextCall = "rewindInput" /\ (Throws => Fails)
                           /\ ~Throws => NextCall' = "none"
<1>1. ASSUME EndOfLoop
      PROVE  /\ FlowFits' /\ NextCall = "endOfLoop" /\ (Returns => Goes("none"))
             /\ Throws => Fails
  <2>1. /\ Running("endOfLoop") /\ handleSubRuns' = handleSubRuns
        /\ \/ Returns /\ posted' \in EndOfLoopEvents
           \/ Throws /\ posted' = posted
    BY <1>1 DEF EndOfLoop, objects
  <2>2. CASE Throws /\ posted' = posted
    <3>1. FlowFits' /\ NextCall = "endOfLoop" /\ (Throws => Fails)
          /\ (Returns => Goes(NextAfter("endOfLoop")))
      BY <2>1, <2>2, SimpleStatement
    <3> QED
      BY <3>1 DEF NextAfter
  <2>3. CASE Returns /\ posted' \in EndOfLoopEvents
    <3>1. todo' = Tail(todo) /\ "endOfLoop" \in {"endOfLoop", "doErrorStuff", "rewindInput"}
      BY <2>3 DEF Returns
    <3>2. NextCall = "endOfLoop" /\ NextCall' = "none" /\ Chained' /\ InPlace'
      BY <2>1, <3>1, LastStatement
    <3>3. Goes("none")
      BY <2>3, <3>2 DEF Returns, Goes, failure
    <3>4. external => posted' # "Restart"
      BY <2>3 DEF EndOfLoopEvents
    <3>5. Between'
      BY <2>3, <3>3, <3>4 DEF Between, Goes, OrderInv
    <3>6. Throws => Fails
      BY <2>1, Flows DEF OrderInv
    <3> QED
      BY <3>2, <3>3, <3>5, <3>6 DEF FlowFits
  <2> QED
    BY <2>1, <2>2, <2>3
<1>2. ASSUME DoErrorStuff
      PROVE  FlowFits' /\ NextCall = "doErrorStuff" /\ NextCall' = "none"
  <2>1. /\ Running("doErrorStuff") /\ todo' = Tail(todo) /\ posted' = "Stop"
        /\ UNCHANGED <<phase, depth, leaf, move, external, primary>>
    BY <1>2 DEF DoErrorStuff
  <2>2. NextCall = "doErrorStuff" /\ NextCall' = "none" /\ Chained' /\ InPlace'
    BY <2>1, LastStatement
  <2>3. Between'
    BY <2>1, BetweenSame DEF OrderInv
  <2> QED
    BY <2>2, <2>3 DEF FlowFits
<1>3. ASSUME RewindInput
      PROVE  /\ FlowFits' /\ NextCall = "rewindInput" /\ (Throws => Fails)
             /\ ~Throws => NextCall' = "none"
  <2>1. /\ Running("rewindInput") /\ handleSubRuns' = handleSubRuns /\ posted' = posted
        /\ \/ Throws
           \/ todo' = Tail(todo) /\ UNCHANGED <<config, phase, depth, leaf, move, failure>>
    BY <1>3 DEF RewindInput, objects
  <2>2. CASE Throws
    BY <2>1, <2>2, SimpleStatement
  <2>3. CASE ~Throws
    <3>1. UNCHANGED <<phase, depth, leaf, move, external, primary>> /\ todo' = Tail(todo)
      BY <2>1, <2>3 DEF failure
    <3>2. NextCall = "rewindInput" /\ NextCall' = "none" /\ Chained' /\ InPlace'
      BY <2>1, <3>1, LastStatement
    <3>3. Between'
      BY <2>1, <3>1, BetweenSame DEF OrderInv
    <3> QED
      BY <2>3, <3>2, <3>3 DEF FlowFits
  <2> QED
    BY <2>2, <2>3
<1> QED
  BY <1>1, <1>2, <1>3

\* A turn of the loop over the cache, or its end.
LEMMA CacheStatements ==
  ASSUME OrderInv
  PROVE  /\ WriteSubRunCache => EndsOrThrows("writeSubRunCache")
                                \/ (FlowFits' /\ NextCall = "writeSubRunCache" /\ Stays)
         /\ WriteRunCache => EndsOrThrows("writeRunCache")
                             \/ (FlowFits' /\ NextCall = "writeRunCache" /\ Stays)
<1>1. ASSUME NEW call, Running(call), posted' = posted, handleSubRuns' = handleSubRuns,
             Returns \/ Throws
      PROVE  EndsOrThrows(call)
  BY <1>1, SimpleStatement DEF EndsOrThrows
<1>2. ASSUME NEW call, Running(call), posted' = posted, handleSubRuns' = handleSubRuns,
             UNCHANGED <<config, phase, depth, leaf, move, todo, source, failure>>
      PROVE  FlowFits' /\ NextCall = call /\ Stays
  <2>1. NextCall = call /\ NextCall' = NextCall
    BY <1>2 DEF Running, NextCall
  <2>2. Stays
    BY <1>2, <2>1 DEF Stays, failure
  <2>3. Chained'
    <3>1. Code(NextCall)' = Code(call)'
      BY <2>1 DEF Code, After
    <3>2. Code(call)' = Code(call)
      BY <1>2, SameCode
    <3> QED
      BY <1>2, <2>1, <3>1, <3>2 DEF Chained, OrderInv
  <2>4. InPlace'
    BY <1>2, <2>1 DEF InPlace, Closes, EventCalls, RunEnds, SubRunBodies, GoesDown, ChangesInput,
       Constructs, OrderInv, InLoop
  <2>5. Between'
    BY <1>2, BetweenSame DEF OrderInv, failure
  <2> QED
    BY <2>1, <2>2, <2>3, <2>4, <2>5 DEF FlowFits
<1>3. ASSUME WriteSubRunCache
      PROVE  EndsOrThrows("writeSubRunCache") \/ (FlowFits' /\ NextCall = "writeSubRunCache" /\ Stays)
  <2>1. /\ Running("writeSubRunCache") /\ posted' = posted /\ handleSubRuns' = handleSubRuns
        /\ \/ Returns \/ Throws
           \/ UNCHANGED <<config, phase, depth, leaf, move, todo, source, failure>>
    BY <1>3 DEF WriteSubRunCache, objects
  <2> QED
    BY <2>1, <1>1, <1>2
<1>4. ASSUME WriteRunCache
      PROVE  EndsOrThrows("writeRunCache") \/ (FlowFits' /\ NextCall = "writeRunCache" /\ Stays)
  <2>1. /\ Running("writeRunCache") /\ posted' = posted /\ handleSubRuns' = handleSubRuns
        /\ \/ Returns \/ Throws
           \/ UNCHANGED <<config, phase, depth, leaf, move, todo, source, failure>>
    BY <1>4 DEF WriteRunCache, objects
  <2> QED
    BY <2>1, <1>1, <1>2
<1> QED
  BY <1>3, <1>4

-----------------------------------------------------------------------------
(* The objects there are, and the loop over the sub-runs put off.           *)

LoopCalls == SubRunBodies \cup {"clearCurrentSubRun", "nextOutstanding", "subRunStarted"}

\* A step that leaves the objects alone and runs no statement of the loop.
LEMMA LoopAlone ==
  ASSUME LoopFits, UNCHANGED <<handleRuns, handleSubRuns, depth>>,
         NextCall' \notin LoopCalls,
         InLoop => NextCall' \in {"none", "finalizeAllSubRuns"} /\ phase' = "destroy"
  PROVE  LoopFits'
  BY DEF LoopFits, LoopCalls, InLoop, Broken

LEMMA LoopFileStep ==
  ASSUME OrderInv, FileStep PROVE FlowFits' /\ LoopFits'
<1>1. /\ FlowFits' /\ NextCall \in FileCalls \cup CacheCalls
      /\ \/ Goes(NextAfter(NextCall))
         \/ Fails
         \/ Stays
  <2>1. ASSUME NEW call, call \in FileCalls \cup CacheCalls, Returns \/ Throws, EndsOrThrows(call)
        PROVE  /\ FlowFits' /\ NextCall \in FileCalls \cup CacheCalls
               /\ Goes(NextAfter(NextCall)) \/ Fails
    BY <2>1 DEF EndsOrThrows
  <2>2. /\ "readFile" \in FileCalls /\ "closeInputFile" \in FileCalls /\ "openOutputFiles" \in FileCalls
        /\ "closeOutputFiles" \in FileCalls /\ Responses \subseteq FileCalls
        /\ "writeSubRunCache" \in CacheCalls /\ "writeRunCache" \in CacheCalls
    BY DEF FileCalls, CacheCalls
  <2>3. CASE ReadFile \/ CloseInputFile \/ OpenOutputFiles \/ CloseOutputFiles
    <3>1. Returns \/ Throws
      BY <2>3 DEF ReadFile, CloseInputFile, OpenOutputFiles, CloseOutputFiles
    <3> QED
      BY <2>1, <2>2, <2>3, <3>1, FileStatements
  <2>4. CASE Respond
    <3>1. Returns \/ Throws
      BY <2>4 DEF Respond
    <3> QED
      BY <2>1, <2>2, <2>4, <3>1, FileStatements
  <2>5. CASE WriteSubRunCache \/ WriteRunCache
    <3>1. Returns \/ Throws \/ Stays
      <4>1. \/ Returns \/ Throws
            \/ UNCHANGED <<config, phase, depth, leaf, move, todo, source, failure>>
        BY <2>5 DEF WriteSubRunCache, WriteRunCache
      <4> QED
        BY <4>1 DEF Stays, NextCall, failure
    <3>2. CASE WriteSubRunCache
      BY <2>1, <2>2, <3>1, <3>2, CacheStatements DEF EndsOrThrows
    <3>3. CASE WriteRunCache
      BY <2>1, <2>2, <3>1, <3>3, CacheStatements DEF EndsOrThrows
    <3> QED
      BY <2>5, <3>2, <3>3
  <2> QED
    BY <2>3, <2>4, <2>5 DEF FileStep
<1>2. UNCHANGED <<handleRuns, handleSubRuns>>
  BY DEF FileStep, ReadFile, CloseInputFile, OpenOutputFiles, CloseOutputFiles, Respond,
         WriteSubRunCache, WriteRunCache, objects
<1>3. depth' = depth
  BY <1>1 DEF Goes, Fails, Stays
<1>4. /\ NextCall \notin LoopCalls \cup {"none", "finalizeAllSubRuns"}
      /\ NextAfter(NextCall) \notin LoopCalls
  BY <1>1 DEF FileCalls, CacheCalls, Responses, LoopCalls, SubRunBodies, NextAfter
<1>5. NextCall' \notin LoopCalls
  <2>1. FirstCleanUp(depth) \notin LoopCalls /\ "none" \notin LoopCalls
    BY DEF FirstCleanUp, LoopCalls, SubRunBodies
  <2> QED
    BY <1>1, <1>4, <2>1 DEF Goes, Fails, Stays
<1>6. ~InLoop
  BY <1>4 DEF OrderInv, LoopFits, LoopCalls
<1>7. LoopFits'
  BY <1>2, <1>3, <1>5, <1>6, LoopAlone DEF OrderInv
<1> QED
  BY <1>1, <1>7

LEMMA LoopOtherStep ==
  ASSUME OrderInv, ReadEvent \/ ProcessEvent \/ EndOfLoop \/ DoErrorStuff \/ RewindInput
  PROVE  FlowFits' /\ LoopFits'
<1>1. /\ FlowFits' /\ NextCall \in OtherCalls
      /\ NextCall' \notin LoopCalls
      /\ depth' = depth
  <2>1. CASE ReadEvent \/ ProcessEvent
    <3>1. Returns \/ Throws
      BY <2>1 DEF ReadEvent, ProcessEvent
    <3> QED
      BY <2>1, <3>1, OtherStatements
         DEF EndsOrThrows, Goes, Fails, NextAfter, OtherCalls, FirstCleanUp, LoopCalls, SubRunBodies
  <2>2. CASE EndOfLoop \/ DoErrorStuff \/ RewindInput
    <3>1. \/ EndOfLoop /\ (Returns \/ Throws)
          \/ DoErrorStuff /\ depth' = depth
          \/ RewindInput /\ (Throws \/ depth' = depth)
      BY <2>2 DEF EndOfLoop, DoErrorStuff, RewindInput
    <3> QED
      BY <3>1, LastStatements
         DEF Goes, Fails, OtherCalls, FirstCleanUp, LoopCalls, SubRunBodies
  <2> QED
    BY <2>1, <2>2
<1>2. UNCHANGED <<handleRuns, handleSubRuns>>
  BY DEF ReadEvent, ProcessEvent, EndOfLoop, DoErrorStuff, RewindInput, objects
<1>3. ~InLoop
  <2>1. NextCall \notin LoopCalls \cup {"none", "finalizeAllSubRuns"}
    BY <1>1 DEF OtherCalls, LoopCalls, SubRunBodies
  <2> QED
    BY <2>1 DEF OrderInv, LoopFits, LoopCalls
<1> QED
  BY <1>1, <1>2, <1>3, LoopAlone DEF OrderInv

\* The calls of HandleRuns are made while it is there.
LEMMA RunThere ==
  ASSUME OrderInv, NextCall \in RunCalls PROVE depth >= 2 /\ ~InLoop
<1>1. /\ Constructs("NewRun") => depth = 2
      /\ Constructs("HandleEvent") => depth = 3
      /\ Constructs("ContinueRun1") => depth = 2
      /\ Constructs("ContinueRun2") => depth = 3
  BY DEF Constructs, OrderInv, Between, ParentDepth, FileLeaves, RunLeaves, SubRunLeaves
<1>2. depth >= 2
  <2>1. CASE NextCall \in {"readAndCacheRun", "setupCurrentRun", "beginRun", "beginRunIfNotDoneAlready"}
    BY <1>1, <2>1 DEF OrderInv, InPlace, EventCalls
  <2>2. CASE NextCall \in RunEnds
    BY <2>2 DEF OrderInv, InPlace
  <2> QED
    BY <2>1, <2>2 DEF RunCalls, RunEnds
<1>3. ~InLoop
  BY DEF OrderInv, LoopFits, RunCalls, SubRunBodies
<1> QED
  BY <1>2, <1>3

LEMMA LoopRunStep ==
  ASSUME OrderInv, RunStep PROVE FlowFits' /\ LoopFits'
<1>1. /\ FlowFits' /\ NextCall \in RunCalls /\ NextCall' \notin LoopCalls /\ depth' = depth
  <2>1. CASE ReadAndCacheRun \/ BeginRun \/ EndRun \/ WriteRun \/ ClearCurrentRun
    <3>1. Returns \/ Throws
      BY <2>1 DEF ReadAndCacheRun, BeginRun, EndRun, WriteRun, ClearCurrentRun
    <3>2. PICK call \in {"readAndCacheRun", "beginRun", "endRun", "writeRun", "clearCurrentRun"} :
            EndsOrThrows(call)
      BY <2>1, RunStatements
    <3>3. NextAfter(call) \notin LoopCalls /\ call \in RunCalls
      BY <3>2 DEF NextAfter, LoopCalls, SubRunBodies, RunCalls
    <3>4. FirstCleanUp(depth) \notin LoopCalls /\ "none" \notin LoopCalls
      BY DEF FirstCleanUp, LoopCalls, SubRunBodies
    <3> QED
      BY <3>1, <3>2, <3>3, <3>4 DEF EndsOrThrows, Goes, Fails
  <2>2. CASE SetupCurrentRun
    <3>1. Throws \/ Expands(IF config.handleEmptyRuns THEN <<"beginRun">> ELSE <<>>)
      BY <2>2 DEF SetupCurrentRun
    <3> QED
      BY <2>2, <3>1, SetupCurrentRunFlow DEF Goes, Fails, FirstCleanUp, LoopCalls, SubRunBodies, RunCalls
  <2>3. CASE BeginRunIfNotDoneAlready
    BY <2>3, BeginRunIfNotFlow DEF Goes, LoopCalls, SubRunBodies, RunCalls
  <2>4. CASE FinalizeRun
    BY <2>4, FinalizeRunFlow DEF Goes, LoopCalls, SubRunBodies, RunCalls
  <2> QED
    BY <2>1, <2>2, <2>3, <2>4 DEF RunStep
<1>2. handleSubRuns' = handleSubRuns
  BY DEF RunStep, ReadAndCacheRun, SetupCurrentRun, BeginRunIfNotDoneAlready, BeginRun, EndRun,
         FinalizeRun, WriteRun, ClearCurrentRun, objects
<1>3. depth >= 2 /\ ~InLoop
  BY <1>1, RunThere
<1>4. LoopFits'
  <2>1. depth \in 0..3
    BY DEF OrderInv, TypeInv, Control, ControlOK
  <2> QED
    BY <1>1, <1>2, <1>3, <2>1 DEF LoopFits, OrderInv, InLoop, LoopCalls
<1> QED
  BY <1>1, <1>4

\* The calls of HandleSubRuns are made while it is there.
LEMMA SubRunThere ==
  ASSUME OrderInv, NextCall \in SubRunCalls PROVE depth = 3
<1>1. /\ Constructs("ContinueSubRun") => depth = 3
      /\ Constructs("FirstSubRun") => depth = 3
      /\ Constructs("AnotherSubRun") => depth = 3
      /\ Constructs("HandleEvent") => depth = 3
  BY DEF Constructs, OrderInv, Between, ParentDepth, FileLeaves, RunLeaves, SubRunLeaves
<1>2. CASE NextCall \in {"readAndCacheSubRun", "setupCurrentSubRun", "finalizeAllSubRuns"}
  BY <1>1, <1>2 DEF OrderInv, InPlace
<1>3. CASE NextCall \in {"finalizeSubRun", "clearCurrentSubRun", "finalizeOutstandingSubRuns", "nextOutstanding"}
  BY <1>1, <1>3 DEF OrderInv, InPlace
<1>4. CASE NextCall \in {"markSubRunNonEmpty", "startSubRun", "subRunStarted"}
  BY <1>1, <1>4 DEF OrderInv, InPlace, EventCalls
<1>5. CASE NextCall \in SubRunBodies
  BY <1>1, <1>5 DEF OrderInv, InPlace
<1> QED
  BY <1>2, <1>3, <1>4, <1>5 DEF SubRunCalls, SubRunBodies

\* What the loop needs when the function that runs does not change.
LEMMA LoopGoes ==
  ASSUME OrderInv, depth = 3, depth' = depth, handleRuns' = handleRuns,
         InLoop' => /\ Broken'
                    /\ \/ NextCall' \in SubRunBodies \cup {"nextOutstanding"}
                       \/ NextCall' \in {"none", "finalizeAllSubRuns"} /\ phase' = "destroy",
         NextCall' \in LoopCalls => Broken'
  PROVE  LoopFits'
  BY DEF OrderInv, LoopFits, LoopCalls

\* The other statements of HandleSubRuns.
LEMMA LoopSimpleStep ==
  ASSUME OrderInv, \/ ReadAndCacheSubRun \/ SetupCurrentSubRun \/ ClearCurrentSubRun \/ SubRunStarted
                   \/ BeginSubRun \/ EndSubRun \/ WriteSubRun
  PROVE  FlowFits' /\ LoopFits'
<1>1. Returns \/ Throws
  BY DEF ReadAndCacheSubRun, SetupCurrentSubRun, ClearCurrentSubRun, SubRunStarted, BeginSubRun,
         EndSubRun, WriteSubRun
<1>2. PICK call \in {"readAndCacheSubRun", "setupCurrentSubRun", "clearCurrentSubRun", "subRunStarted",
                     "beginSubRun", "endSubRun", "writeSubRun"} : EndsOrThrows(call)
  BY SubRunStatements
<1>3. /\ NextCall = call /\ FlowFits'
      /\ (NextCall' = NextAfter(call) /\ UNCHANGED <<phase, depth>>)
           \/ (Fails /\ depth' = depth /\ NextCall' \in {"none", FirstCleanUp(depth)})
  BY <1>1, <1>2 DEF EndsOrThrows, Goes, Fails
<1>4. depth = 3
  BY <1>2, <1>3, SubRunThere DEF SubRunCalls
<1>5. handleSubRuns \in SubRunFields /\ phase \in Phases
  BY DEF OrderInv, TypeInv, DataOK, Control, ControlOK
<1>6. FirstCleanUp(depth) = "finalizeAllSubRuns"
  BY <1>4 DEF FirstCleanUp
<1>7. Fails => phase' = "destroy" \/ NextCall' = "none"
  BY <1>4 DEF Fails, Unwound
<1>8. Fails /\ depth = 3 => phase' = "destroy"
  BY DEF Fails, Unwound
<1>9. handleRuns' = handleRuns
  BY DEF ReadAndCacheSubRun, SetupCurrentSubRun, ClearCurrentSubRun, SubRunStarted, BeginSubRun,
         EndSubRun, WriteSubRun, objects
<1>10. CASE ReadAndCacheSubRun \/ SetupCurrentSubRun
  <2>1. NextCall \in {"readAndCacheSubRun", "setupCurrentSubRun"} /\ NextAfter(NextCall) = "none"
    BY <1>10 DEF ReadAndCacheSubRun, SetupCurrentSubRun, Running, NextCall, NextAfter
  <2>2. ~InLoop /\ handleSubRuns'.iter = handleSubRuns.iter
    <3>1. ~InLoop
      BY <2>1 DEF OrderInv, LoopFits, SubRunBodies
    <3> QED
      BY <1>5, <1>10, <3>1
         DEF ReadAndCacheSubRun, SetupCurrentSubRun, AcceptedSubRun, SubRunFields, objects
  <2>3. ~InLoop'
    BY <2>2 DEF InLoop
  <2>4. NextCall' \notin LoopCalls
    BY <1>3, <1>6, <2>1 DEF LoopCalls, SubRunBodies
  <2> QED
    BY <1>3, <1>4, <1>9, <2>3, <2>4, LoopGoes
<1>11. CASE ClearCurrentSubRun \/ SubRunStarted
  <2>1. /\ NextCall \in {"clearCurrentSubRun", "subRunStarted"} /\ NextAfter(NextCall) \notin LoopCalls
        /\ Returns
    BY <1>11 DEF ClearCurrentSubRun, SubRunStarted, Running, NextCall, NextAfter, LoopCalls, SubRunBodies
  <2>2. ~InLoop /\ handleSubRuns'.iter = handleSubRuns.iter
    <3>1. ~InLoop
      BY <2>1 DEF OrderInv, LoopFits, SubRunBodies
    <3> QED
      BY <1>5, <1>11, <3>1 DEF ClearCurrentSubRun, SubRunStarted, SubRunFields
  <2>3. ~InLoop'
    BY <2>2 DEF InLoop
  <2>4. NextCall' \notin LoopCalls
    BY <1>3, <1>6, <2>1 DEF LoopCalls, SubRunBodies
  <2> QED
    BY <1>3, <1>4, <1>9, <2>3, <2>4, LoopGoes
<1>12. CASE BeginSubRun \/ EndSubRun \/ WriteSubRun
  <2>1. NextCall \in SubRunBodies
    BY <1>12 DEF BeginSubRun, EndSubRun, WriteSubRun, Running, NextCall, SubRunBodies
  <2>2. handleSubRuns'.iter = handleSubRuns.iter /\ handleSubRuns'.exception = handleSubRuns.exception
    BY <1>5, <1>12 DEF BeginSubRun, EndSubRun, WriteSubRun, objects, SubRunFields
  <2>3. InLoop' = InLoop /\ Broken' = Broken /\ Broken
    BY <2>1, <2>2 DEF InLoop, Broken, OrderInv, LoopFits
  <2>4. InLoop => \/ NextAfter(NextCall) \in SubRunBodies \cup {"nextOutstanding"}
    BY <2>1 DEF NextAfter, SubRunBodies, StartsSubRun
  <2> QED
    BY <1>3, <1>4, <1>6, <1>8, <1>9, <2>3, <2>4, LoopGoes
<1> QED
  BY <1>3, <1>10, <1>11, <1>12

LEMMA LoopSubRunStep ==
  ASSUME OrderInv, SubRunStep PROVE FlowFits' /\ LoopFits'
<1>1. handleSubRuns \in SubRunFields /\ depth \in 0..3
  BY DEF OrderInv, TypeInv, DataOK, Control, ControlOK
<1>2. CASE FinalizeAllSubRuns
  <2>1. /\ FlowFits' /\ NextCall = "finalizeAllSubRuns" /\ depth' = depth /\ phase' = phase
        /\ NextCall' \in {"none", "finalizeSubRun"}
        /\ NextCall' = "finalizeSubRun" => ~Broken
        /\ UNCHANGED objects
    BY <1>2, FinalizeAllFlow DEF Goes, Broken, FinalizeAllSubRuns
  <2>2. depth = 3
    BY <2>1, SubRunThere DEF SubRunCalls
  <2>3. InLoop' => Broken' /\ NextCall' = "none" /\ phase' = "destroy"
    BY <2>1 DEF OrderInv, LoopFits, InLoop, Broken, objects, SubRunBodies
  <2>4. NextCall' \notin LoopCalls
    BY <2>1 DEF LoopCalls, SubRunBodies
  <2> QED
    BY <2>1, <2>2, <2>3, <2>4, LoopGoes DEF objects
<1>3. CASE FinalizeSubRun \/ FinalizeOutstandingSubRuns \/ StartSubRun
  <2>1. FlowFits' /\ NextCall \in SubRunCalls /\ depth' = depth /\ ~InLoop
    BY <1>3, FinalizeSubRunFlow, FinalizeOutstandingFlow, StartSubRunFlow DEF Goes, SubRunCalls
  <2>2. handleRuns' = handleRuns /\ handleSubRuns'.iter = handleSubRuns.iter /\ handleSubRuns'.exception
    BY <1>1, <1>3 DEF FinalizeSubRun, FinalizeOutstandingSubRuns, StartSubRun, SubRunFields
  <2>3. ~InLoop' /\ Broken' /\ depth = 3
    BY <2>1, <2>2, SubRunThere DEF InLoop, Broken
  <2> QED
    BY <2>1, <2>2, <2>3, LoopGoes
<1>4. CASE MarkSubRunNonEmpty
  <2>1. /\ FlowFits' /\ NextCall = "markSubRunNonEmpty" /\ depth' = depth /\ ~InLoop
        /\ NextCall' \in {"finalizeOutstandingSubRuns", "readEvent"} /\ UNCHANGED objects
    BY <1>4, MarkSubRunNonEmptyFlow DEF Goes, MarkSubRunNonEmpty
  <2>2. depth = 3 /\ ~InLoop' /\ NextCall' \notin LoopCalls
    BY <2>1, SubRunThere DEF InLoop, objects, SubRunCalls, LoopCalls, SubRunBodies
  <2> QED
    BY <2>1, <2>2, LoopGoes DEF objects
<1>5. CASE NextOutstanding
  <2>1. FlowFits' /\ NextCall = "nextOutstanding" /\ depth' = depth
    BY <1>5, NextOutstandingFlow DEF Goes
  <2>2. depth = 3 /\ Broken /\ handleRuns' = handleRuns
    BY <1>5, <2>1, SubRunThere DEF SubRunCalls, OrderInv, LoopFits, NextOutstanding
  <2>3. CASE handleSubRuns.iter < Len(handleSubRuns.unhandled)
    <3>1. NextCall' = "beginSubRun"
      BY <1>5, <2>3, NextOutstandingFlow DEF Goes
    <3>2. handleSubRuns'.exception = handleSubRuns.exception
      BY <1>1, <1>5, <2>3 DEF NextOutstanding, SubRunFields
    <3> QED
      BY <2>1, <2>2, <3>1, <3>2, LoopGoes DEF Broken, SubRunBodies
  <2>4. CASE ~(handleSubRuns.iter < Len(handleSubRuns.unhandled))
    <3>1. NextCall' \in {"startSubRun", "none"}
      BY <1>5, <2>4, NextOutstandingFlow DEF Goes
    <3>2. handleSubRuns'.iter = 0
      BY <1>1, <1>5, <2>4 DEF NextOutstanding, SubRunFields
    <3>3. ~InLoop' /\ NextCall' \notin LoopCalls
      BY <3>1, <3>2 DEF InLoop, LoopCalls, SubRunBodies
    <3> QED
      BY <2>1, <2>2, <3>3, LoopGoes
  <2> QED
    BY <2>3, <2>4
<1> QED
  BY <1>2, <1>3, <1>4, <1>5, LoopSimpleStep DEF SubRunStep

LEMMA LoopItem ==
  ASSUME OrderInv, Item \/ ProcessPosted PROVE LoopFits'
<1>1. phase = "stable" /\ NextCall = "none" /\ UNCHANGED objects
  <2>1. todo = <<>>
    BY DEF Item, FileItem, RunItem, SubRunItem, EventItem, StopItem, SourceThrows, Idle, ProcessPosted,
       OrderInv, TypeInv, Control, Nesting
  <2> QED
    BY <2>1 DEF Item, FileItem, RunItem, SubRunItem, EventItem, StopItem, SourceThrows, Idle,
       ProcessPosted, React, NextCall
<1>2. depth' = depth /\ depth \in 0..3
  BY DEF Item, FileItem, RunItem, SubRunItem, EventItem, StopItem, SourceThrows, ProcessPosted, React,
     OrderInv, TypeInv, Control, ControlOK
<1>3. ~InLoop
  BY <1>1 DEF OrderInv, LoopFits, SubRunBodies
<1>4. NextCall' \notin LoopCalls
  <2>1. ASSUME NEW d \in 0..3, NEW target, NEW action, NEW handling, Leaving(d, target, action, handling)
        PROVE  NextCall' \notin LoopCalls
    BY <2>1, LeavingGoes DEF FirstCleanUp, FirstAction, LoopCalls, SubRunBodies
  <2>2. CASE todo' = todo
    BY <1>1, <2>2 DEF NextCall, LoopCalls, SubRunBodies
  <2>3. (\E m, handling : React(m, handling)) \/ todo' = todo
    BY DEF Item, FileItem, RunItem, SubRunItem, EventItem, StopItem, SourceThrows, ProcessPosted
  <2>4. CASE \E m, handling : React(m, handling)
    BY <1>2, <2>1, <2>4 DEF React
  <2> QED
    BY <2>2, <2>3, <2>4
<1> QED
  BY <1>1, <1>2, <1>3, <1>4, LoopAlone DEF OrderInv, objects

LEMMA LoopTransition ==
  ASSUME OrderInv, LeaveComposite \/ ActionDone \/ EnterComposite \/ ConstructorDone
  PROVE  LoopFits'
<1>1. depth \in 0..3 /\ todo = <<>> /\ NextCall = "none" /\ leaf \in Leaves /\ move.target \in Leaves
      /\ handleSubRuns \in SubRunFields /\ external \in BOOLEAN
  BY DEF LeaveComposite, ActionDone, EnterComposite, ConstructorDone, OrderInv, TypeInv, Control,
     ControlOK, NextCall, Moves, DataOK
<1>2. LoopFits
  BY DEF OrderInv
<1>3. CASE LeaveComposite
  <2>1. depth >= 1 /\ depth - 1 \in 0..3
    BY <1>1, <1>3 DEF LeaveComposite, OrderInv, TypeInv, Control, Nesting
  <2>2. /\ depth' = depth - 1
        /\ handleRuns' = IF depth = 2 THEN NewHandleRuns ELSE handleRuns
        /\ handleSubRuns' = IF depth = 3 THEN NewHandleSubRuns ELSE handleSubRuns
    BY <1>3 DEF LeaveComposite
  <2>3. NextCall' \notin LoopCalls
    <3>1. CASE primary = "none"
      <4>1. Leaving(depth - 1, move.target, move.action, external)
        BY <1>3, <3>1 DEF LeaveComposite
      <4> QED
        BY <2>1, <4>1, LeavingGoes DEF FirstCleanUp, FirstAction, LoopCalls, SubRunBodies
    <3>2. CASE primary # "none"
      <4>1. phase' = Unwound(depth - 1) /\ todo' = CleanUp(depth - 1)
        BY <1>3, <3>2 DEF LeaveComposite
      <4>2. NextCall' = FirstCleanUp(depth - 1)
        BY <2>1, <4>1, CleansUp DEF Unwound
      <4> QED
        BY <4>2 DEF FirstCleanUp, LoopCalls, SubRunBodies
    <3> QED
      BY <3>1, <3>2
  <2>4. handleSubRuns' = NewHandleSubRuns
    BY <1>1, <1>2, <2>1, <2>2 DEF LoopFits
  <2>5. depth' < 2 => handleRuns' = NewHandleRuns
    BY <1>1, <1>2, <2>1, <2>2 DEF LoopFits
  <2>6. ~InLoop'
    BY <2>4 DEF InLoop, NewHandleSubRuns
  <2> QED
    BY <2>3, <2>4, <2>5, <2>6 DEF LoopFits, LoopCalls
<1>4. CASE ActionDone \/ EnterComposite \/ ConstructorDone
  <2>1. NextCall' \notin LoopCalls
    <3>1. ASSUME leaf' = move.target, phase' = "construct", todo' = Constructor(move.target)
          PROVE  NextCall' \notin LoopCalls
      BY <1>1, <3>1, ConstructsIt DEF FirstConstruct, LoopCalls, SubRunBodies
    <3>2. ASSUME todo' = OpenFiles PROVE NextCall' \notin LoopCalls
      <4>1. NextCall' = "readFile"
        BY <3>2, FileBodies, ThenIs DEF OpenFiles, NextCall
      <4> QED
        BY <4>1 DEF LoopCalls, SubRunBodies
    <3>3. ASSUME todo' = <<>> PROVE NextCall' \notin LoopCalls
      BY <3>3 DEF NextCall, LoopCalls, SubRunBodies
    <3>4. \/ leaf' = move.target /\ phase' = "construct" /\ todo' = Constructor(move.target)
          \/ todo' = OpenFiles
          \/ todo' = <<>>
      BY <1>1, <1>4 DEF ActionDone, EnterComposite, ConstructorDone
    <3> QED
      BY <3>1, <3>2, <3>3, <3>4
  <2>2. ~InLoop
    BY <1>1, <1>2, <1>4 DEF LoopFits, SubRunBodies, ActionDone, EnterComposite, ConstructorDone
  <2>3. CASE ActionDone \/ ConstructorDone
    <3>1. UNCHANGED <<handleRuns, handleSubRuns, depth>>
      BY <2>3 DEF ActionDone, ConstructorDone, objects
    <3> QED
      BY <1>2, <2>1, <2>2, <3>1, LoopAlone
  <2>4. CASE EnterComposite
    <3>1. /\ depth' = depth + 1
          /\ handleRuns' = IF depth = 1 THEN NewHandleRuns ELSE handleRuns
          /\ handleSubRuns' = IF depth = 2 THEN NewHandleSubRuns ELSE handleSubRuns
      BY <2>4 DEF EnterComposite
    <3>2. depth' < 3 => handleSubRuns' = NewHandleSubRuns
      BY <1>1, <1>2, <3>1 DEF LoopFits
    <3>3. depth' < 2 => handleRuns' = NewHandleRuns
      BY <1>1, <1>2, <3>1 DEF LoopFits
    <3>4. ~InLoop'
      BY <2>2, <3>1 DEF InLoop, NewHandleSubRuns
    <3> QED
      BY <2>1, <3>2, <3>3, <3>4 DEF LoopFits, LoopCalls
  <2> QED
    BY <1>4, <2>3, <2>4
<1> QED
  BY <1>3, <1>4
-----------------------------------------------------------------------------
LEMMA OrderInit == Init => OrderInv
<1> SUFFICES ASSUME Init PROVE OrderInv
  OBVIOUS
<1>1. TypeInv
  BY TypeInvInit
<1>2. /\ phase = "stable" /\ depth = 0 /\ leaf = "Starting" /\ move = Goto("Starting")
      /\ todo = <<>> /\ posted = "none" /\ primary = "none" /\ external = FALSE
      /\ handleRuns = NewHandleRuns /\ handleSubRuns = NewHandleSubRuns
  BY DEF Init
<1>3. NextCall = "none"
  BY <1>2 DEF NextCall
<1>4. Chained /\ InPlace
  BY <1>2, <1>3 DEF Chained, Code, InPlace, Closes, EventCalls, RunEnds, SubRunBodies
<1>5. Between
  BY <1>2 DEF Between, Goto, ParentDepth, FileLeaves, RunLeaves, SubRunLeaves
<1>6. LoopFits
  BY <1>2, <1>3 DEF LoopFits, InLoop, NewHandleSubRuns, SubRunBodies
<1> QED
  BY <1>1, <1>4, <1>5, <1>6 DEF OrderInv

LEMMA OrderStep == OrderInv /\ [Next]_vars => OrderInv'
<1> SUFFICES ASSUME OrderInv, [Next]_vars PROVE OrderInv'
  OBVIOUS
<1>1. TypeInv'
  BY TypeInvStep DEF OrderInv
<1>2. CASE UNCHANGED vars
  BY <1>1, <1>2 DEF vars, control, failure, objects, OrderInv, Chained, InPlace, Between, LoopFits,
     NextCall, Code, After, AfterInput, AfterClose, AfterSubRun, AfterLoop, InLoop, WritesThen,
     WritesSubRunsAtEnd, WritesRunsAtEnd, AfterWrite, StartsSubRun, GoesDown, Constructs, ChangesInput,
     Broken
<1>3. CASE Item
  BY <1>1, <1>3, ItemControl, LoopItem DEF OrderInv, FlowFits
<1>4. CASE TransitionStep
  <2>1. LoopFits'
    BY <1>4, LoopItem, LoopTransition DEF TransitionStep
  <2> QED
    BY <1>1, <1>4, <2>1, TransitionControl DEF OrderInv, FlowFits
<1>5. CASE FileStep
  BY <1>1, <1>5, LoopFileStep DEF OrderInv, FlowFits
<1>6. CASE RunStep
  BY <1>1, <1>6, LoopRunStep DEF OrderInv, FlowFits
<1>7. CASE SubRunStep
  BY <1>1, <1>7, LoopSubRunStep DEF OrderInv, FlowFits
<1>8. CASE ReadEvent \/ ProcessEvent \/ EndOfLoop \/ DoErrorStuff \/ RewindInput
  BY <1>1, <1>8, LoopOtherStep DEF OrderInv, FlowFits
<1> QED
  BY <1>2, <1>3, <1>4, <1>5, <1>6, <1>7, <1>8 DEF Next, MachineStep, Done

\* What is still to be executed is the rest of the bodies that lead to the next
\* statement, and each statement is executed only in the states whose functions
\* contain it, with the composites it works on.
THEOREM OrderHolds == Spec => []OrderInv
<1>1. Init => OrderInv
  BY OrderInit
<1>2. OrderInv /\ [Next]_vars => OrderInv'
  BY OrderStep
<1> QED
  BY <1>1, <1>2, PTL DEF Spec

-----------------------------------------------------------------------------
(* The statements, one by one.                                              *)

Simple(call, next) ==
  /\ NextCall = call
  /\ Returns => Goes(next)
  /\ Throws => Fails

LEMMA FileFlows ==
  ASSUME OrderInv
  PROVE  /\ ReadFile => Simple("readFile", "respondToOpenInputFile")
         /\ CloseInputFile => Simple("closeInputFile", IF phase = "construct" THEN "readFile" ELSE "none")
         /\ OpenOutputFiles => Simple("openOutputFiles", "respondToOpenOutputFiles")
         /\ CloseOutputFiles => Simple("closeOutputFiles", "respondToCloseInputFile")
<1>1. /\ NextAfter("readFile") = "respondToOpenInputFile"
      /\ NextAfter("openOutputFiles") = "respondToOpenOutputFiles"
      /\ NextAfter("closeOutputFiles") = "respondToCloseInputFile"
  BY DEF NextAfter
<1>2. NextAfter("closeInputFile") = IF phase = "construct" THEN "readFile" ELSE "none"
  BY DEF NextAfter
<1> QED
  BY <1>1, <1>2, FileStatements DEF EndsOrThrows, Simple

LEMMA RespondFlow ==
  ASSUME OrderInv, Respond
  PROVE  /\ NextCall \in Responses
         /\ Returns => \/ NextCall = "respondToOpenInputFile"
                          /\ Goes(IF phase = "construct" /\ leaf # "NewInputAndOutputFiles"
                                    THEN "none" ELSE "openOutputFiles")
                       \/ NextCall = "respondToOpenOutputFiles" /\ Goes("none")
                       \/ NextCall = "respondToCloseOutputFiles" /\ Goes("closeOutputFiles")
                       \/ NextCall = "respondToCloseInputFile" /\ Goes("closeInputFile")
         /\ Throws => Fails
<1>1. PICK call \in Responses : EndsOrThrows(call)
  BY FileStatements
<1>2. /\ NextAfter("respondToOpenOutputFiles") = "none"
      /\ NextAfter("respondToCloseOutputFiles") = "closeOutputFiles"
      /\ NextAfter("respondToCloseInputFile") = "closeInputFile"
  BY DEF NextAfter
<1>3. NextAfter("respondToOpenInputFile")
        = IF phase = "construct" /\ leaf # "NewInputAndOutputFiles" THEN "none" ELSE "openOutputFiles"
  BY DEF NextAfter
<1> QED
  BY <1>1, <1>2, <1>3 DEF EndsOrThrows, Responses

LEMMA CacheFlows ==
  ASSUME OrderInv
  PROVE  /\ WriteSubRunCache => Simple("writeSubRunCache", "writeRunCache")
         /\ WriteRunCache => Simple("writeRunCache", "respondToCloseOutputFiles")
<1>1. /\ NextAfter("writeSubRunCache") = "writeRunCache"
      /\ NextAfter("writeRunCache") = "respondToCloseOutputFiles"
  BY DEF NextAfter
<1>2. ASSUME NEW call, Running(call), handleSubRuns' = handleSubRuns
      PROVE  Simple(call, NextAfter(call))
  BY <1>2, Flows DEF Simple, OrderInv
<1>3. /\ WriteSubRunCache => Running("writeSubRunCache") /\ handleSubRuns' = handleSubRuns
      /\ WriteRunCache => Running("writeRunCache") /\ handleSubRuns' = handleSubRuns
  BY DEF WriteSubRunCache, WriteRunCache, objects
<1> QED
  BY <1>1, <1>2, <1>3

LEMMA RunFlows ==
  ASSUME OrderInv
  PROVE  /\ ReadAndCacheRun => Simple("readAndCacheRun", "none")
         /\ BeginRun => Simple("beginRun", IF leaf = "HandleEvent" THEN "markSubRunNonEmpty" ELSE "none")
         /\ EndRun => Simple("endRun", IF WritesRunsAtEnd THEN "writeRun" ELSE "clearCurrentRun")
         /\ WriteRun => Simple("writeRun", "clearCurrentRun")
         /\ ClearCurrentRun => Simple("clearCurrentRun", "none")
<1>1. /\ NextAfter("readAndCacheRun") = "none"
      /\ NextAfter("writeRun") = "clearCurrentRun"
      /\ NextAfter("clearCurrentRun") = "none"
  BY DEF NextAfter
<1>2. NextAfter("beginRun") = IF leaf = "HandleEvent" THEN "markSubRunNonEmpty" ELSE "none"
  BY DEF NextAfter
<1>3. NextAfter("endRun") = IF WritesRunsAtEnd THEN "writeRun" ELSE "clearCurrentRun"
  BY DEF NextAfter
<1> QED
  BY <1>1, <1>2, <1>3, RunStatements DEF EndsOrThrows, Simple

\* What finalizeSubRun or a turn of the loop goes on with after a sub-run's end.
AfterTurn == IF InLoop THEN "nextOutstanding" ELSE "clearCurrentSubRun"

LEMMA SubRunFlows ==
  ASSUME OrderInv
  PROVE  /\ ReadAndCacheSubRun => Simple("readAndCacheSubRun", "none")
         /\ SetupCurrentSubRun => Simple("setupCurrentSubRun", "none")
         /\ ClearCurrentSubRun => Simple("clearCurrentSubRun",
                IF phase = "construct" THEN "setupCurrentSubRun" ELSE "finalizeOutstandingSubRuns")
         /\ SubRunStarted => Simple("subRunStarted", "readEvent")
         /\ BeginSubRun => Simple("beginSubRun", IF StartsSubRun THEN "subRunStarted" ELSE "endSubRun")
         /\ EndSubRun => Simple("endSubRun", IF WritesSubRunsAtEnd THEN "writeSubRun" ELSE AfterTurn)
         /\ WriteSubRun => Simple("writeSubRun", AfterTurn)
<1>1. /\ NextAfter("readAndCacheSubRun") = "none" /\ NextAfter("setupCurrentSubRun") = "none"
      /\ NextAfter("subRunStarted") = "readEvent"
  BY DEF NextAfter
<1>2. NextAfter("clearCurrentSubRun")
        = IF phase = "construct" THEN "setupCurrentSubRun" ELSE "finalizeOutstandingSubRuns"
  BY DEF NextAfter
<1>3. NextAfter("beginSubRun") = IF StartsSubRun THEN "subRunStarted" ELSE "endSubRun"
  BY DEF NextAfter
<1>4. NextAfter("endSubRun") = IF WritesSubRunsAtEnd THEN "writeSubRun" ELSE AfterTurn
  BY DEF NextAfter, AfterTurn
<1>5. NextAfter("writeSubRun") = AfterTurn
  BY DEF NextAfter, AfterTurn
<1> QED
  BY <1>1, <1>2, <1>3, <1>4, <1>5, SubRunStatements DEF EndsOrThrows, Simple

LEMMA OtherFlows ==
  ASSUME OrderInv
  PROVE  /\ ReadEvent => Simple("readEvent", "processEvent")
         /\ ProcessEvent => Simple("processEvent", "none")
         /\ EndOfLoop => Simple("endOfLoop", "none")
<1>1. NextAfter("readEvent") = "processEvent" /\ NextAfter("processEvent") = "none"
  BY DEF NextAfter
<1> QED
  BY <1>1, OtherStatements, LastStatements DEF EndsOrThrows, Simple

-----------------------------------------------------------------------------
(* The transitions, one by one.                                             *)

\* A transition begins, or goes on with d composites left.
Proceeds(d, m, handling) ==
  \/ /\ d > CommonDepth(leaf, m.target)
     /\ phase' = IF handling THEN "destroy" ELSE "exit"
     /\ NextCall' = FirstCleanUp(d)
  \/ /\ d <= CommonDepth(leaf, m.target)
     /\ phase' = "action"
     /\ NextCall' = FirstAction(m.action)

LEMMA LeavingProceeds ==
  ASSUME NEW d \in 0..3, NEW m, NEW handling, Leaving(d, m.target, m.action, handling)
  PROVE  Proceeds(d, m, handling)
<1>1. IF d > CommonDepth(leaf, m.target)
        THEN phase' = (IF handling THEN "destroy" ELSE "exit") /\ NextCall' = FirstCleanUp(d)
        ELSE phase' = "action" /\ NextCall' = FirstAction(m.action)
  BY LeavingGoes
<1>2. CommonDepth(leaf, m.target) \in Int
  BY DEF CommonDepth, ParentDepth
<1>3. (d <= CommonDepth(leaf, m.target)) <=> ~(d > CommonDepth(leaf, m.target))
  BY <1>2
<1> QED
  BY <1>1, <1>3 DEF Proceeds

\* An item or a posted event is processed.
Begins(m) ==
  /\ phase = "stable" /\ NextCall = "none" /\ leaf = move.target /\ depth = ParentDepth(leaf)
  /\ move' = m /\ MoveIs(m) /\ Proceeds(depth, m, external')
  /\ external' => m.target = "EndingLoop"
  /\ UNCHANGED <<config, depth, leaf, primary, swallowed, errorState, handleRuns, handleSubRuns,
                 cache, files, begun, unwritten, written>>

LEMMA WaitsFor ==
  ASSUME OrderInv, phase = "stable"
  PROVE  NextCall = "none" /\ leaf = move.target /\ depth = ParentDepth(leaf) /\ primary = "none"
<1>1. todo = <<>>
  BY DEF OrderInv, TypeInv, Control, Nesting
<1> QED
  BY <1>1 DEF OrderInv, Between, NextCall

LEMMA ReactBegins ==
  ASSUME OrderInv, phase = "stable", NEW m \in Moves, NEW handling, React(m, handling), MoveIs(m),
         handling = external', external' => m.target = "EndingLoop"
  PROVE  Begins(m)
<1>1. Leaving(depth, m.target, m.action, handling) /\ depth \in 0..3
  BY DEF React, OrderInv, TypeInv, Control, ControlOK
<1>2. Proceeds(depth, m, external')
  BY <1>1, LeavingProceeds
<1> QED
  BY <1>2, WaitsFor DEF Begins, React, objects, history

\* The transitions that the items lead to.
LEMMA ItemBegins ==
  ASSUME OrderInv, Item
  PROVE  /\ Idle /\ leaf \in Leaves \ {"EndingLoop", "Error"} /\ posted' = posted
         /\ \/ \E close \in BOOLEAN : FileItem /\ Begins(OnFile(leaf, close))
            \/ \E r \in Runs : /\ RunItem /\ Begins(OnRun(leaf, r = handleRuns.currentRun))
                               /\ source' = [source EXCEPT !.run = r]
            \/ \E n \in SubRunNums : /\ SubRunItem
                                     /\ Begins(OnSubRun(leaf, <<source.run, n>> = handleSubRuns.current))
                                     /\ source.run # NoRun
                                     /\ source.run \in FlushRuns => n \in FlushSubRunNums
                                     /\ source' = [source EXCEPT !.subRun = <<source.run, n>>]
            \/ EventItem /\ Begins(OnEvent(leaf))
            \/ (StopItem \/ SourceThrows) /\ Begins(OnStop(leaf))
<1>1. /\ Idle /\ phase = "stable" /\ posted' = posted /\ ~external
      /\ leaf \in Leaves \ {"EndingLoop", "Error"} /\ leaf \in Leaves
  <2>1. Idle /\ ~external /\ posted' = posted
    BY ItemMoves
  <2> QED
    BY <2>1, IdleLeaf DEF Idle, OrderInv
<1>2. CASE FileItem
  <2>1. PICK close \in BOOLEAN : React(OnFile(leaf, close), FALSE)
    BY <1>2 DEF FileItem, ShouldWeCloseOutput
  <2>2. external' = FALSE
    BY <1>1, <1>2 DEF FileItem, OrderInv, TypeInv, Control, ControlOK
  <2>3. MoveIs(OnFile(leaf, close)) /\ OnFile(leaf, close) \in Moves
    BY <1>1, FileMove, OnFileFits
  <2>4. PICK m \in Moves : m = OnFile(leaf, close)
    BY <2>3
  <2>5. Begins(m)
    BY <1>1, <2>1, <2>2, <2>3, <2>4, ReactBegins
  <2> QED
    BY <1>1, <1>2, <2>4, <2>5
<1>3. CASE RunItem
  <2>1. PICK r \in Runs : /\ React(OnRun(leaf, r = handleRuns.currentRun), FALSE)
                          /\ source' = [source EXCEPT !.run = r]
    BY <1>3 DEF RunItem
  <2>2. external' = FALSE
    BY <1>1, <1>3 DEF RunItem, OrderInv, TypeInv, Control, ControlOK
  <2>3. PICK same \in BOOLEAN : same = (r = handleRuns.currentRun)
    OBVIOUS
  <2>4. MoveIs(OnRun(leaf, same)) /\ OnRun(leaf, same) \in Moves
    BY <1>1, RunMove, OnRunFits
  <2>5. PICK m \in Moves : m = OnRun(leaf, same)
    BY <2>4
  <2>6. Begins(m)
    BY <1>1, <2>1, <2>2, <2>3, <2>4, <2>5, ReactBegins
  <2> QED
    BY <1>1, <1>3, <2>1, <2>3, <2>5, <2>6
<1>4. CASE SubRunItem
  <2>1. PICK n \in SubRunNums :
          /\ source.run # NoRun /\ (source.run \in FlushRuns => n \in FlushSubRunNums)
          /\ source' = [source EXCEPT !.subRun = <<source.run, n>>]
          /\ React(OnSubRun(leaf, <<source.run, n>> = handleSubRuns.current), FALSE)
    BY <1>4 DEF SubRunItem
  <2>2. external' = FALSE
    BY <1>1, <1>4 DEF SubRunItem, OrderInv, TypeInv, Control, ControlOK
  <2>3. PICK same \in BOOLEAN : same = (<<source.run, n>> = handleSubRuns.current)
    OBVIOUS
  <2>4. MoveIs(OnSubRun(leaf, same)) /\ OnSubRun(leaf, same) \in Moves
    BY <1>1, SubRunMove, OnSubRunFits
  <2>5. PICK m \in Moves : m = OnSubRun(leaf, same)
    BY <2>4
  <2>6. Begins(m)
    BY <1>1, <2>1, <2>2, <2>3, <2>4, <2>5, ReactBegins
  <2> QED
    BY <1>1, <1>4, <2>1, <2>3, <2>5, <2>6
<1>5. CASE EventItem
  <2>1. React(OnEvent(leaf), FALSE) /\ external' = FALSE
    BY <1>1, <1>5 DEF EventItem, OrderInv, TypeInv, Control, ControlOK
  <2>2. Begins(OnEvent(leaf))
    BY <1>1, <2>1, OtherMove, OnOtherFits, ReactBegins
  <2> QED
    BY <1>1, <1>5, <2>2
<1>6. CASE StopItem \/ SourceThrows
  <2>1. React(OnStop(leaf), external')
    BY <1>1, <1>6 DEF StopItem, SourceThrows, OrderInv, TypeInv, Control, ControlOK
  <2>2. Begins(OnStop(leaf))
    BY <1>1, <2>1, OtherMove, OnOtherFits, ReactBegins
  <2> QED
    BY <1>1, <1>6, <2>2
<1> QED
  BY <1>2, <1>3, <1>4, <1>5, <1>6 DEF Item

LEMMA PostedBegins ==
  ASSUME OrderInv, ProcessPosted
  PROVE  /\ phase = "stable" /\ posted # "none" /\ posted' = "none" /\ leaf \in Leaves
         /\ UNCHANGED <<item, source, external>>
         /\ \/ leaf # "EndingLoop" /\ posted = "Stop" /\ Begins(OnStop(leaf))
            \/ posted = "Restart" /\ Begins(OnRestart(leaf))
            \/ /\ leaf = "EndingLoop" /\ posted = "Stop" /\ phase' = "terminated" /\ depth = 0
               /\ NextCall = "none" /\ NextCall' = "none"
               /\ UNCHANGED <<config, depth, leaf, move, primary, swallowed, errorState,
                              handleRuns, handleSubRuns, cache, files, begun, unwritten, written>>
<1>1. /\ phase = "stable" /\ posted # "none" /\ posted' = "none"
      /\ UNCHANGED <<item, source, external>> /\ leaf \in Leaves /\ leaf = move.target
      /\ external => move.target = "EndingLoop" /\ posted # "Restart"
  BY DEF ProcessPosted, OrderInv, TypeInv, Control, ControlOK, Between
<1>2. CASE leaf = "EndingLoop" /\ posted = "Stop" /\ phase' = "terminated"
           /\ UNCHANGED <<config, depth, leaf, move, todo, primary, swallowed, errorState,
                          objects, cache, files, history>>
  <2>1. NextCall' = NextCall /\ NextCall = "none" /\ depth = ParentDepth(leaf)
    BY <1>1, <1>2, WaitsFor DEF NextCall
  <2>2. depth = 0
    BY <1>2, <2>1 DEF ParentDepth, FileLeaves, RunLeaves, SubRunLeaves
  <2> QED
    BY <1>1, <1>2, <2>1, <2>2 DEF objects, history
<1>3. CASE leaf # "EndingLoop" /\ posted = "Stop" /\ React(OnStop(leaf), external)
  <2>1. Begins(OnStop(leaf))
    BY <1>1, <1>3, OtherMove, OnOtherFits, ReactBegins
  <2> QED
    BY <1>1, <1>3, <2>1
<1>4. CASE posted = "Restart" /\ React(OnRestart(leaf), external)
  <2>1. Begins(OnRestart(leaf))
    BY <1>1, <1>4, OtherMove, OnOtherFits, ReactBegins
  <2> QED
    BY <1>1, <1>4, <2>1
<1> QED
  BY <1>2, <1>3, <1>4 DEF ProcessPosted

LEMMA LeaveFlow ==
  ASSUME OrderInv, LeaveComposite
  PROVE  /\ phase \in {"exit", "destroy"} /\ NextCall = "none" /\ depth \in 1..3 /\ depth' = depth - 1
         /\ handleRuns' = IF depth = 2 THEN NewHandleRuns ELSE handleRuns
         /\ handleSubRuns' = IF depth = 3 THEN NewHandleSubRuns ELSE handleSubRuns
         /\ \/ primary = "none" /\ Proceeds(depth - 1, move, external)
            \/ /\ primary # "none" /\ phase' = Unwound(depth - 1)
               /\ NextCall' = FirstCleanUp(depth - 1)
         /\ UNCHANGED <<config, leaf, move, posted, item, source, external, primary, swallowed,
                        errorState, cache, files, begun, unwritten, written>>
<1>1. /\ depth \in 0..3 /\ depth >= 1 /\ phase \in {"exit", "destroy"} /\ todo = <<>>
  BY DEF OrderInv, TypeInv, Control, ControlOK, LeaveComposite, Nesting
<1>2. NextCall = "none" /\ depth \in 1..3 /\ depth - 1 \in 0..3
  BY <1>1 DEF NextCall
<1>3. CASE primary = "none"
  <2>1. Leaving(depth - 1, move.target, move.action, external)
    BY <1>3 DEF LeaveComposite
  <2>2. Proceeds(depth - 1, move, external)
    BY <1>2, <2>1, LeavingProceeds
  <2> QED
    BY <1>1, <1>2, <1>3, <2>2 DEF LeaveComposite, failure, history
<1>4. CASE primary # "none"
  <2>1. phase' = Unwound(depth - 1) /\ todo' = CleanUp(depth - 1)
    BY <1>4 DEF LeaveComposite
  <2>2. NextCall' = FirstCleanUp(depth - 1)
    BY <1>2, <2>1, CleansUp DEF Unwound
  <2> QED
    BY <1>1, <1>2, <1>4, <2>1, <2>2 DEF LeaveComposite, failure, history
<1> QED
  BY <1>3, <1>4

Constructed ==
  phase' = "construct" /\ leaf' = move.target /\ NextCall' = FirstConstruct(move.target)

LEMMA ConstructsFirst ==
  ASSUME OrderInv, phase' = "construct", leaf' = move.target, todo' = Constructor(move.target)
  PROVE  Constructed
<1>1. move.target \in Leaves
  BY DEF OrderInv, TypeInv, Control, ControlOK, Moves
<1>2. NextCall' = FirstConstruct(leaf')
  BY <1>1, ConstructsIt
<1> QED
  BY <1>2 DEF Constructed

LEMMA ActionFlow ==
  ASSUME OrderInv, ActionDone
  PROVE  /\ phase = "action" /\ NextCall = "none" /\ primary = "none"
         /\ leaf \in From(move.target) /\ depth = CommonDepth(leaf, move.target)
         /\ \/ /\ depth < ParentDepth(move.target) /\ phase' = "enter" /\ leaf' = leaf
               /\ NextCall' = IF depth = 0 THEN "readFile" ELSE "none"
            \/ depth = ParentDepth(move.target) /\ Constructed
         /\ UNCHANGED <<config, depth, move, posted, item, source, external, primary, swallowed,
                        errorState, handleRuns, handleSubRuns, cache, files, begun, unwritten, written>>
<1>1. /\ phase = "action" /\ NextCall = "none" /\ primary = "none"
      /\ leaf \in From(move.target) /\ depth = CommonDepth(leaf, move.target)
      /\ UNCHANGED <<config, depth, move, posted, item, source, external, primary, swallowed,
                     errorState, handleRuns, handleSubRuns, cache, files, begun, unwritten, written>>
  BY DEF OrderInv, Between, ActionDone, NextCall, failure, objects, history
<1>2. \/ /\ depth < ParentDepth(move.target) /\ phase' = "enter" /\ leaf' = leaf
         /\ todo' = IF depth = 0 THEN OpenFiles ELSE <<>>
      \/ /\ depth = ParentDepth(move.target) /\ phase' = "construct" /\ leaf' = move.target
         /\ todo' = Constructor(move.target)
  BY DEF ActionDone
<1>3. /\ todo' = OpenFiles => NextCall' = "readFile"
      /\ todo' = <<>> => NextCall' = "none"
  BY DEF OpenFiles, NextCall
<1> QED
  BY <1>1, <1>2, <1>3, ConstructsFirst

LEMMA EnterFlow ==
  ASSUME OrderInv, EnterComposite
  PROVE  /\ phase = "enter" /\ NextCall = "none" /\ primary = "none" /\ Constructed
         /\ leaf \in From(move.target) /\ depth = CommonDepth(leaf, move.target)
         /\ depth + 1 = ParentDepth(move.target) /\ depth' = depth + 1
         /\ handleRuns' = IF depth = 1 THEN NewHandleRuns ELSE handleRuns
         /\ handleSubRuns' = IF depth = 2 THEN NewHandleSubRuns ELSE handleSubRuns
         /\ UNCHANGED <<config, move, posted, item, source, external, primary, swallowed,
                        errorState, cache, files, begun, unwritten, written>>
<1>1. Constructed
  BY ConstructsFirst DEF EnterComposite
<1> QED
  BY <1>1 DEF OrderInv, Between, EnterComposite, NextCall, failure, history

LEMMA ConstructedFlow ==
  ASSUME OrderInv, ConstructorDone
  PROVE  /\ phase = "construct" /\ NextCall = "none" /\ primary = "none" /\ leaf = move.target
         /\ depth = ParentDepth(leaf) /\ phase' = "stable" /\ NextCall' = "none"
         /\ UNCHANGED <<config, depth, leaf, move, posted, item, source, external, primary, swallowed,
                        errorState, handleRuns, handleSubRuns, cache, files, begun, unwritten, written>>
  BY DEF OrderInv, Between, ConstructorDone, NextCall, failure, history, objects

-----------------------------------------------------------------------------
(* The source items.                                                        *)

\* The item that a transition to a leaf is to read.
ItemOf(target) ==
  CASE target \in FileLeaves \cup {"HandleNewInputFile2", "HandleNewInputFile3"} -> "File"
    [] target \in {"NewRun", "ContinueRun1", "ContinueRun2"} -> "Run"
    [] target \in {"FirstSubRun", "AnotherSubRun", "ContinueSubRun"} -> "SubRun"
    [] target = "HandleEvent" -> "Event"
    [] OTHER -> "none"

\* Whether it has been read: before the statement "call", and now.
ReadBefore(call) ==
  \/ call \in {"none", "respondToOpenInputFile", "openOutputFiles", "respondToOpenOutputFiles",
               "processEvent"}
  \/ call = "beginRun" /\ leaf = "NewRun"
HasRead ==
  \/ phase = "stable"
  \/ (phase = "construct" \/ (phase = "enter" /\ depth = 0)) /\ ReadBefore(NextCall)

ItemFits ==
  primary = "none" =>
    /\ ItemOf(move.target) # "none" => item = IF HasRead THEN "none" ELSE ItemOf(move.target)
    /\ move.target \in {"EndingLoop", "Starting"} /\ ~errorState => item = "none"
    /\ leaf = "Error" /\ phase \in {"construct", "stable"} /\ NextCall = "none" => errorState

\* Who posts what.
Posts ==
  posted # "none" => /\ leaf \in {"EndingLoop", "Error", "HandleEvent"}
                     /\ posted = "Restart" => leaf = "EndingLoop"
                     /\ leaf = "Error" => errorState
                     /\ phase \in {"construct", "stable"} /\ NextCall = "none"

ItemInv == ItemFits /\ Posts

LEMMA ItemsOfLeaves ==
  /\ \A target \in FileLeaves \cup {"HandleNewInputFile2", "HandleNewInputFile3"} : ItemOf(target) = "File"
  /\ \A target \in {"NewRun", "ContinueRun1", "ContinueRun2"} : ItemOf(target) = "Run"
  /\ \A target \in {"FirstSubRun", "AnotherSubRun", "ContinueSubRun"} : ItemOf(target) = "SubRun"
  /\ ItemOf("HandleEvent") = "Event"
  /\ \A target \in TopLeaves : ItemOf(target) = "none"
  BY DEF ItemOf, FileLeaves, TopLeaves

LEMMA ItemFails ==
  ASSUME OrderInv, ItemInv, Fails, NextCall # "none", phase = "destroy" => item' = item,
         posted' = posted
  PROVE  ItemInv'
<1>2. Posts'
  BY DEF ItemInv, Posts
<1>3. ItemFits'
  <2>1. CASE phase # "destroy"
    BY <2>1 DEF Fails, ItemFits
  <2>2. CASE phase = "destroy"
    <3>1. /\ ~HasRead /\ ~HasRead'
          /\ UNCHANGED <<move, leaf, item, errorState, primary>> /\ phase' = "destroy"
      BY <2>2 DEF Fails, HasRead
    <3> QED
      BY <3>1 DEF ItemInv, ItemFits
  <2> QED
    BY <2>1, <2>2
<1> QED
  BY <1>2, <1>3 DEF ItemInv

LEMMA ItemGoes ==
  ASSUME OrderInv, ItemInv, NEW next, Goes(next), NextCall # "none", item' = item, posted' = posted, HasRead' = HasRead,
         next = "none" => ~Constructs("Error")
  PROVE  ItemInv'
<1>1. UNCHANGED <<move, leaf, item, errorState, primary, phase, posted, depth>> /\ NextCall' = next
  BY DEF Goes
<1>2. Posts'
  BY <1>1 DEF ItemInv, Posts
<1>3. ItemFits'
  <2>1. leaf = "Error" /\ phase \in {"construct", "stable"} /\ NextCall' = "none" /\ primary = "none" => errorState
    <3>1. phase = "stable" => NextCall = "none"
      BY WaitsFor
    <3> QED
      BY <1>1, <3>1 DEF Constructs, ItemInv, ItemFits
  <2> QED
    BY <1>1, <2>1 DEF ItemInv, ItemFits
<1> QED
  BY <1>2, <1>3 DEF ItemInv

LEMMA ItemReads ==
  ASSUME OrderInv, ItemInv, NEW next, Goes(next), NextCall # "none", item' = "none", posted' = posted,
         phase = "construct" \/ (phase = "enter" /\ depth = 0), HasRead', leaf # "Error",
         ItemOf(move.target) # "none"
  PROVE  ItemInv'
<1>1. UNCHANGED <<move, leaf, errorState, primary, phase, posted, depth>> /\ NextCall' = next
  BY DEF Goes
<1>2. Posts'
  BY <1>1 DEF ItemInv, Posts
<1>3. ItemFits'
  BY <1>1 DEF ItemFits
<1> QED
  BY <1>2, <1>3 DEF ItemInv

LEMMA ItemSimple ==
  ASSUME OrderInv, ItemInv, NEW call \in Calls, NEW next, Simple(call, next), Returns \/ Throws,
         item' = item, posted' = posted,
         phase = "construct" \/ (phase = "enter" /\ depth = 0) =>
           (ReadBefore(next) <=> ReadBefore(call)),
         next = "none" => ~Constructs("Error")
  PROVE  ItemInv'
<1>1. CASE Returns
  <2>1. Goes(next)
    BY <1>1 DEF Simple
  <2>2. HasRead' = HasRead
    BY <2>1 DEF Goes, HasRead, ReadBefore, Simple
  <2> QED
    BY <2>1, <2>2, CallsAre, ItemGoes DEF Simple
<1>2. CASE Throws
  <2>1. Fails /\ NextCall # "none"
    BY <1>2, CallsAre DEF Simple
  <2> QED
    BY <2>1, ItemFails
<1> QED
  BY <1>1, <1>2

LEMMA ItemFileStep == OrderInv /\ ItemInv /\ FileStep => ItemInv'
<1> SUFFICES ASSUME OrderInv, ItemInv, FileStep PROVE ItemInv'
  OBVIOUS
<1>1. CASE ReadFile
  <2>1. Simple("readFile", "respondToOpenInputFile") /\ posted' = posted
    BY <1>1, FileFlows DEF ReadFile
  <2>2. NextCall = "readFile" /\ ((phase = "enter" /\ depth = 0) \/ ChangesInput)
    BY <2>1 DEF Simple, OrderInv, InPlace
  <2>3. /\ phase = "construct" \/ (phase = "enter" /\ depth = 0)
        /\ leaf # "Error" /\ ItemOf(move.target) # "none"
    <3>1. CASE phase = "enter" /\ depth = 0
      <4>1. leaf \in From(move.target) /\ depth = CommonDepth(leaf, move.target) /\ depth + 1 = ParentDepth(move.target) /\ leaf \in Leaves /\ move.target \in Leaves
        BY <3>1 DEF OrderInv, Between, TypeInv, Control, ControlOK, Moves
      <4>2. move.target \in FileLeaves
        BY <3>1, <4>1 DEF ParentDepth, Leaves, TopLeaves, FileLeaves, RunLeaves, SubRunLeaves
      <4>3. leaf \in TopLeaves
        BY <3>1, <4>1, <4>2 DEF CommonDepth, ParentDepth, Leaves, TopLeaves, FileLeaves, RunLeaves, SubRunLeaves
      <4>4. leaf = "Starting"
        BY <4>1, <4>2, <4>3 DEF From, TopLeaves, FileLeaves, RunLeaves, SubRunLeaves
      <4> QED
        BY <3>1, <4>2, <4>4, ItemsOfLeaves
    <3>2. CASE ChangesInput
      BY <3>2, ItemsOfLeaves DEF ChangesInput, Constructs, OrderInv, Between, FileLeaves
    <3> QED
      BY <2>2, <3>1, <3>2
  <2>4. CASE Returns /\ item' = "none"
    <3>1. Goes("respondToOpenInputFile")
      BY <2>1, <2>4 DEF Simple
    <3>2. HasRead'
      BY <2>3, <3>1 DEF Goes, HasRead, ReadBefore
    <3> QED
      BY <2>1, <2>3, <2>4, <3>1, <3>2, ItemReads DEF Simple
  <2>5. CASE Throws /\ item' = item
    BY <2>1, <2>2, <2>5, ItemFails DEF Simple
  <2> QED
    BY <1>1, <2>4, <2>5 DEF ReadFile
<1>2. CASE CloseInputFile
  <2>1. /\ Simple("closeInputFile", IF phase = "construct" THEN "readFile" ELSE "none") /\ posted' = posted
        /\ item' = item /\ (Returns \/ Throws)
    BY <1>2, FileFlows DEF CloseInputFile
  <2>2. (GoesDown /\ depth = 1) \/ ChangesInput
    BY <2>1 DEF Simple, OrderInv, InPlace
  <2> QED
    BY <2>1, <2>2, ItemSimple, CallsAre DEF GoesDown, ChangesInput, ReadBefore, Constructs
<1>3. CASE OpenOutputFiles
  BY <1>3, FileFlows, ItemSimple, CallsAre DEF OpenOutputFiles, ReadBefore
<1>4. CASE CloseOutputFiles
  BY <1>4, FileFlows, ItemSimple, CallsAre DEF CloseOutputFiles, ReadBefore
<1>5. CASE Respond
  <2>1. NextCall \in Responses /\ (Throws => Fails) /\ item' = item /\ posted' = posted /\ (Returns \/ Throws)
    BY <1>5, RespondFlow DEF Respond
  <2>2. /\ NextCall \in Calls
        /\ NextCall = "respondToOpenInputFile" => (phase = "enter" /\ depth = 0) \/ ChangesInput
        /\ NextCall = "respondToOpenOutputFiles" => (phase = "enter" /\ depth = 0) \/ Constructs("NewInputAndOutputFiles")
    BY <2>1 DEF OrderInv, InPlace, Calls, FileCalls
  <2>3. Returns =>  \/ NextCall = "respondToOpenInputFile"
                       /\ Goes(IF phase = "construct" /\ leaf # "NewInputAndOutputFiles"
                                    THEN "none" ELSE "openOutputFiles")
                    \/ NextCall = "respondToOpenOutputFiles" /\ Goes("none")
                    \/ NextCall = "respondToCloseOutputFiles" /\ Goes("closeOutputFiles")
                    \/ NextCall = "respondToCloseInputFile" /\ Goes("closeInputFile")
    BY <1>5, RespondFlow
  <2>4. CASE Throws
    BY <2>1, <2>4, CallsAre, ItemFails DEF Responses
  <2>5. CASE Returns
    <3>1. CASE NextCall = "respondToOpenInputFile"
               /\ Goes(IF phase = "construct" /\ leaf # "NewInputAndOutputFiles"
                                    THEN "none" ELSE "openOutputFiles")
      <4>1. HasRead' = HasRead
        BY <3>1 DEF Goes, HasRead, ReadBefore
      <4> QED
        BY <2>1, <2>2, <3>1, <4>1, ItemGoes DEF ChangesInput, Constructs
    <3>2. CASE NextCall = "respondToOpenOutputFiles" /\ Goes("none")
      <4>1. HasRead' = HasRead
        BY <3>2 DEF Goes, HasRead, ReadBefore
      <4> QED
        BY <2>1, <2>2, <3>2, <4>1, ItemGoes DEF ChangesInput, Constructs
    <3>3. CASE NextCall = "respondToCloseOutputFiles" /\ Goes("closeOutputFiles")
      <4>1. HasRead' = HasRead
        BY <3>3 DEF Goes, HasRead, ReadBefore
      <4> QED
        BY <2>1, <3>3, <4>1, ItemGoes
    <3>4. CASE NextCall = "respondToCloseInputFile" /\ Goes("closeInputFile")
      <4>1. HasRead' = HasRead
        BY <3>4 DEF Goes, HasRead, ReadBefore
      <4> QED
        BY <2>1, <3>4, <4>1, ItemGoes
    <3> QED
      BY <2>3, <2>5, <3>1, <3>2, <3>3, <3>4
  <2> QED
    BY <2>1, <2>4, <2>5
<1>6. CASE WriteSubRunCache
  <2>1. Simple("writeSubRunCache", "writeRunCache") /\ item' = item /\ posted' = posted
    BY <1>6, CacheFlows DEF WriteSubRunCache
  <2>2. CASE Returns \/ Throws
    BY <2>1, <2>2, ItemSimple, CallsAre DEF ReadBefore
  <2>3. CASE ~(Returns \/ Throws)
    <3>1. UNCHANGED <<config, phase, depth, leaf, move, todo, source, failure>>
      BY <1>6, <2>3 DEF WriteSubRunCache
    <3> QED
      BY <2>1, <3>1 DEF ItemInv, ItemFits, Posts, HasRead, ReadBefore, NextCall, failure
  <2> QED
    BY <2>2, <2>3
<1>7. CASE WriteRunCache
  <2>1. Simple("writeRunCache", "respondToCloseOutputFiles") /\ item' = item /\ posted' = posted
    BY <1>7, CacheFlows DEF WriteRunCache
  <2>2. CASE Returns \/ Throws
    BY <2>1, <2>2, ItemSimple, CallsAre DEF ReadBefore
  <2>3. CASE ~(Returns \/ Throws)
    <3>1. UNCHANGED <<config, phase, depth, leaf, move, todo, source, failure>>
      BY <1>7, <2>3 DEF WriteRunCache
    <3> QED
      BY <2>1, <3>1 DEF ItemInv, ItemFits, Posts, HasRead, ReadBefore, NextCall, failure
  <2> QED
    BY <2>2, <2>3
<1> QED
  BY <1>1, <1>2, <1>3, <1>4, <1>5, <1>6, <1>7 DEF FileStep

LEMMA ItemRunStep == OrderInv /\ ItemInv /\ RunStep => ItemInv'
<1> SUFFICES ASSUME OrderInv, ItemInv, RunStep PROVE ItemInv'
  OBVIOUS
<1>1. CASE ReadAndCacheRun
  <2>1. Simple("readAndCacheRun", "none") /\ posted' = posted
    BY <1>1, RunFlows DEF ReadAndCacheRun
  <2>2. phase = "construct" /\ leaf # "Error" /\ ItemOf(move.target) # "none"
    BY <2>1, ItemsOfLeaves DEF Simple, OrderInv, InPlace, Between, Constructs
  <2>3. CASE Returns /\ item' = "none"
    <3>1. Goes("none")
      BY <2>1, <2>3 DEF Simple
    <3>2. HasRead'
      BY <2>2, <3>1 DEF Goes, HasRead, ReadBefore
    <3> QED
      BY <2>1, <2>2, <2>3, <3>1, <3>2, ItemReads DEF Simple
  <2>4. CASE Throws
    BY <2>1, <2>2, <2>4, ItemFails DEF Simple
  <2> QED
    BY <1>1, <2>3, <2>4 DEF ReadAndCacheRun
<1>2. CASE SetupCurrentRun
  <2>1. /\ NextCall = "setupCurrentRun" /\ posted' = posted
        /\ \/ Fails
           \/ item' = "none" /\ (Goes("beginRun") \/ Goes("none"))
    BY <1>2, SetupCurrentRunFlow DEF SetupCurrentRun
  <2>2. phase = "construct" /\ leaf = "NewRun" /\ ItemOf(move.target) # "none"
    BY <2>1, ItemsOfLeaves DEF OrderInv, InPlace, Between, Constructs
  <2>3. CASE Fails
    BY <2>1, <2>2, <2>3, ItemFails
  <2>4. CASE item' = "none" /\ (Goes("beginRun") \/ Goes("none"))
    <3>1. HasRead'
      BY <2>2, <2>4 DEF Goes, HasRead, ReadBefore
    <3> QED
      BY <2>1, <2>2, <2>4, <3>1, ItemReads
  <2> QED
    BY <2>1, <2>3, <2>4
<1>3. CASE BeginRunIfNotDoneAlready
  <2>1. /\ NextCall = "beginRunIfNotDoneAlready" /\ item' = item /\ posted' = posted
        /\ Goes(IF handleRuns.beginRunCalled THEN "markSubRunNonEmpty" ELSE "beginRun")
    BY <1>3, BeginRunIfNotFlow DEF BeginRunIfNotDoneAlready
  <2>2. leaf = "HandleEvent"
    BY <2>1 DEF OrderInv, InPlace, EventCalls, Constructs
  <2>3. HasRead' = HasRead
    BY <2>1, <2>2 DEF Goes, HasRead, ReadBefore
  <2> QED
    BY <2>1, <2>3, ItemGoes
<1>4. CASE BeginRun
  <2>1. /\ Simple("beginRun", IF leaf = "HandleEvent" THEN "markSubRunNonEmpty" ELSE "none")
        /\ posted' = posted /\ item' = item /\ (Returns \/ Throws)
    BY <1>4, RunFlows DEF BeginRun
  <2>2. Constructs("NewRun") \/ Constructs("HandleEvent")
    BY <2>1 DEF Simple, OrderInv, InPlace
  <2> QED
    BY <2>1, <2>2, ItemSimple, CallsAre DEF Constructs, ReadBefore
<1>5. CASE EndRun
  BY <1>5, RunFlows, ItemSimple, CallsAre DEF EndRun, ReadBefore
<1>6. CASE FinalizeRun
  <2>1. /\ NextCall = "finalizeRun" /\ item' = item /\ posted' = posted
        /\ Goes(IF handleRuns.runException THEN "none"
                ELSE IF handleRuns.beginRunCalled THEN "endRun"
                ELSE IF WritesRunsAtEnd THEN "writeRun" ELSE "clearCurrentRun")
    BY <1>6, FinalizeRunFlow DEF FinalizeRun
  <2>2. phase \notin {"construct", "enter"}
    BY <2>1 DEF OrderInv, InPlace, RunEnds, GoesDown
  <2>3. HasRead' = HasRead
    BY <2>1, <2>2 DEF Goes, HasRead
  <2> QED
    BY <2>1, <2>2, <2>3, ItemGoes DEF Constructs
<1>7. CASE WriteRun
  BY <1>7, RunFlows, ItemSimple, CallsAre DEF WriteRun, ReadBefore
<1>8. CASE ClearCurrentRun
  <2>1. Simple("clearCurrentRun", "none") /\ Returns /\ item' = item /\ posted' = posted
    BY <1>8, RunFlows DEF ClearCurrentRun
  <2>2. phase \notin {"construct", "enter"}
    BY <2>1 DEF Simple, OrderInv, InPlace, RunEnds, GoesDown
  <2> QED
    BY <2>1, <2>2, ItemSimple, CallsAre DEF Constructs
<1> QED
  BY <1>1, <1>2, <1>3, <1>4, <1>5, <1>6, <1>7, <1>8 DEF RunStep

LEMMA ItemSubRunStep == OrderInv /\ ItemInv /\ SubRunStep => ItemInv'
<1> SUFFICES ASSUME OrderInv, ItemInv, SubRunStep PROVE ItemInv'
  OBVIOUS
<1>1. CASE ReadAndCacheSubRun
  <2>1. Simple("readAndCacheSubRun", "none") /\ posted' = posted
    BY <1>1, SubRunFlows DEF ReadAndCacheSubRun
  <2>2. phase = "construct" /\ leaf # "Error" /\ ItemOf(move.target) # "none"
    BY <2>1, ItemsOfLeaves DEF Simple, OrderInv, InPlace, Between, Constructs
  <2>3. CASE Returns /\ item' = "none"
    <3>1. Goes("none")
      BY <2>1, <2>3 DEF Simple
    <3>2. HasRead'
      BY <2>2, <3>1 DEF Goes, HasRead, ReadBefore
    <3> QED
      BY <2>1, <2>2, <2>3, <3>1, <3>2, ItemReads DEF Simple
  <2>4. CASE Throws
    BY <2>1, <2>2, <2>4, ItemFails DEF Simple
  <2> QED
    BY <1>1, <2>3, <2>4 DEF ReadAndCacheSubRun
<1>2. CASE SetupCurrentSubRun
  <2>1. Simple("setupCurrentSubRun", "none") /\ posted' = posted
    BY <1>2, SubRunFlows DEF SetupCurrentSubRun
  <2>2. phase = "construct" /\ leaf # "Error" /\ ItemOf(move.target) # "none"
    BY <2>1, ItemsOfLeaves DEF Simple, OrderInv, InPlace, Between, Constructs
  <2>3. CASE Returns /\ item' = "none"
    <3>1. Goes("none")
      BY <2>1, <2>3 DEF Simple
    <3>2. HasRead'
      BY <2>2, <3>1 DEF Goes, HasRead, ReadBefore
    <3> QED
      BY <2>1, <2>2, <2>3, <3>1, <3>2, ItemReads DEF Simple
  <2>4. CASE Throws
    BY <2>1, <2>2, <2>4, ItemFails DEF Simple
  <2> QED
    BY <1>2, <2>3, <2>4 DEF SetupCurrentSubRun
<1>3. ASSUME NEW call \in SubRunCalls, NextCall = call, NEW next, Goes(next), item' = item, posted' = posted,
             next = "none" => GoesDown,
             ~ReadBefore(next) \/ GoesDown
      PROVE  ItemInv'
  <2>1. call \notin {"none", "processEvent", "beginRun"} /\ call \notin Responses /\ call # "openOutputFiles"
    BY <1>3 DEF SubRunCalls, Responses
  <2>2. phase \notin {"construct", "enter"} \/ ~ReadBefore(next)
    BY <1>3 DEF GoesDown
  <2>3. HasRead' = HasRead
    BY <1>3, <2>1, <2>2 DEF Goes, HasRead, ReadBefore, Responses
  <2> QED
    BY <1>3, <2>1, <2>3, ItemGoes DEF Constructs, GoesDown
<1>4. CASE FinalizeAllSubRuns
  <2>1. /\ NextCall = "finalizeAllSubRuns" /\ item' = item /\ posted' = posted
        /\ Goes(IF handleSubRuns.exception \/ handleRuns.runException THEN "none" ELSE "finalizeSubRun")
    BY <1>4, FinalizeAllFlow DEF FinalizeAllSubRuns
  <2>2. GoesDown /\ "finalizeAllSubRuns" \in SubRunCalls
    BY <2>1 DEF OrderInv, InPlace, SubRunCalls
  <2> QED
    BY <1>3, <2>1, <2>2
<1>5. CASE FinalizeSubRun
  <2>1. /\ NextCall = "finalizeSubRun" /\ item' = item /\ posted' = posted /\ Goes(FinalizesWith)
    BY <1>5, FinalizeSubRunFlow DEF FinalizeSubRun
  <2>2. /\ FinalizesWith \in {"endSubRun", "writeSubRun", "clearCurrentSubRun", "beginSubRun"}
        /\ "finalizeSubRun" \in SubRunCalls
    BY DEF FinalizesWith, SubRunCalls
  <2> QED
    BY <1>3, <2>1, <2>2 DEF ReadBefore
<1>6. CASE ClearCurrentSubRun
  <2>1. /\ Goes(IF phase = "construct" THEN "setupCurrentSubRun" ELSE "finalizeOutstandingSubRuns")
        /\ NextCall = "clearCurrentSubRun" /\ item' = item /\ posted' = posted
    BY <1>6, SubRunFlows DEF ClearCurrentSubRun, Simple
  <2>2. "clearCurrentSubRun" \in SubRunCalls
    BY DEF SubRunCalls
  <2> QED
    BY <1>3, <2>1, <2>2 DEF ReadBefore
<1>7. CASE FinalizeOutstandingSubRuns
  <2>1. /\ Goes("nextOutstanding") /\ "finalizeOutstandingSubRuns" \in SubRunCalls
        /\ NextCall = "finalizeOutstandingSubRuns" /\ item' = item /\ posted' = posted
    BY <1>7, FinalizeOutstandingFlow DEF FinalizeOutstandingSubRuns, SubRunCalls
  <2> QED
    BY <1>3, <2>1 DEF ReadBefore
<1>8. CASE NextOutstanding
  <2>1. /\ NextCall = "nextOutstanding" /\ item' = item /\ posted' = posted
        /\ IF handleSubRuns.iter < Len(handleSubRuns.unhandled)
              THEN Goes("beginSubRun")
              ELSE Goes(IF phase = "construct" THEN "startSubRun" ELSE "none")
    BY <1>8, NextOutstandingFlow DEF NextOutstanding
  <2>2. "nextOutstanding" \in SubRunCalls /\ (phase # "construct" => GoesDown)
    BY <2>1 DEF SubRunCalls, OrderInv, InPlace, Constructs
  <2> QED
    BY <1>3, <2>1, <2>2 DEF ReadBefore
<1>9. CASE MarkSubRunNonEmpty
  <2>1. /\ NextCall = "markSubRunNonEmpty" /\ item' = item /\ posted' = posted /\ "markSubRunNonEmpty" \in SubRunCalls
        /\ Goes(IF handleSubRuns.empty THEN "finalizeOutstandingSubRuns" ELSE "readEvent")
    BY <1>9, MarkSubRunNonEmptyFlow DEF MarkSubRunNonEmpty, SubRunCalls
  <2> QED
    BY <1>3, <2>1 DEF ReadBefore
<1>10. CASE StartSubRun
  <2>1. /\ NextCall = "startSubRun" /\ item' = item /\ posted' = posted /\ "startSubRun" \in SubRunCalls
        /\ Goes("beginSubRun")
    BY <1>10, StartSubRunFlow DEF StartSubRun, SubRunCalls
  <2> QED
    BY <1>3, <2>1 DEF ReadBefore
<1>11. CASE SubRunStarted
  <2>1. /\ NextCall = "subRunStarted" /\ item' = item /\ posted' = posted /\ "subRunStarted" \in SubRunCalls
        /\ Goes("readEvent")
    BY <1>11, SubRunFlows DEF SubRunStarted, SubRunCalls, Simple
  <2> QED
    BY <1>3, <2>1 DEF ReadBefore
<1>12. CASE BeginSubRun
  BY <1>12, SubRunFlows, ItemSimple, CallsAre DEF BeginSubRun, ReadBefore
<1>13. CASE EndSubRun
  BY <1>13, SubRunFlows, ItemSimple, CallsAre DEF EndSubRun, ReadBefore, AfterTurn
<1>14. CASE WriteSubRun
  BY <1>14, SubRunFlows, ItemSimple, CallsAre DEF WriteSubRun, ReadBefore, AfterTurn
<1> QED
  BY <1>1, <1>2, <1>4, <1>5, <1>6, <1>7, <1>8, <1>9, <1>10, <1>11, <1>12, <1>13, <1>14 DEF SubRunStep

LEMMA ItemOtherStep ==
  OrderInv /\ ItemInv /\ (ReadEvent \/ ProcessEvent \/ EndOfLoop \/ DoErrorStuff \/ RewindInput) => ItemInv'
<1> SUFFICES ASSUME OrderInv, ItemInv PROVE ReadEvent \/ ProcessEvent \/ EndOfLoop \/ DoErrorStuff \/ RewindInput => ItemInv'
  OBVIOUS
<1>1. CASE ReadEvent
  <2>1. Simple("readEvent", "processEvent") /\ posted' = posted
    BY <1>1, OtherFlows DEF ReadEvent
  <2>2. phase = "construct" /\ leaf # "Error" /\ ItemOf(move.target) # "none"
    BY <2>1, ItemsOfLeaves DEF Simple, OrderInv, InPlace, Between, Constructs, EventCalls
  <2>3. CASE Returns /\ item' = "none"
    <3>1. Goes("processEvent")
      BY <2>1, <2>3 DEF Simple
    <3>2. HasRead'
      BY <2>2, <3>1 DEF Goes, HasRead, ReadBefore
    <3> QED
      BY <2>1, <2>2, <2>3, <3>1, <3>2, ItemReads DEF Simple
  <2>4. CASE Throws
    BY <2>1, <2>2, <2>4, ItemFails DEF Simple
  <2> QED
    BY <1>1, <2>3, <2>4 DEF ReadEvent
<1>2. ASSUME NEW call, Simple(call, "none"), Returns, phase = "construct", leaf \in {"EndingLoop", "HandleEvent"},
             ReadBefore(call) \/ ItemOf(move.target) = "none", item' = item, posted' = "Restart" => leaf = "EndingLoop"
      PROVE  ItemInv'
  <2>1. Goes("none") /\ NextCall = call
    BY <1>2 DEF Simple
  <2>2. UNCHANGED <<phase, depth, leaf, move, source, external, primary, swallowed, errorState>> /\ NextCall' = "none"
    BY <2>1 DEF Goes
  <2>3. HasRead' /\ (HasRead \/ ItemOf(move.target) = "none")
    BY <1>2, <2>1, <2>2 DEF HasRead, ReadBefore
  <2> QED
    BY <1>2, <2>2, <2>3 DEF ItemInv, ItemFits, Posts
<1>3. CASE ProcessEvent
  <2>1. Simple("processEvent", "none") /\ item' = item
    BY <1>3, OtherFlows DEF ProcessEvent
  <2>2. Constructs("HandleEvent")
    BY <2>1 DEF Simple, OrderInv, InPlace, EventCalls
  <2>3. CASE Returns /\ posted' \in {"none", "Stop"}
    BY <1>2, <2>1, <2>2, <2>3 DEF Constructs, ReadBefore
  <2>4. CASE Throws /\ posted' = posted
    BY <2>1, <2>4, ItemFails DEF Simple
  <2> QED
    BY <1>3, <2>3, <2>4 DEF ProcessEvent
<1>4. CASE EndOfLoop
  <2>1. Simple("endOfLoop", "none") /\ item' = item
    BY <1>4, OtherFlows DEF EndOfLoop
  <2>2. Constructs("EndingLoop") /\ ItemOf(move.target) = "none"
    BY <2>1, ItemsOfLeaves DEF Simple, OrderInv, InPlace, Between, Constructs, TopLeaves
  <2>3. CASE Returns
    BY <1>2, <2>1, <2>2, <2>3 DEF Constructs
  <2>4. CASE Throws /\ posted' = posted
    BY <2>1, <2>4, ItemFails DEF Simple
  <2> QED
    BY <1>4, <2>3, <2>4 DEF EndOfLoop
<1>5. CASE DoErrorStuff
  <2>1. NextCall = "doErrorStuff" /\ NextCall' = "none" /\ posted' = "Stop" /\ errorState'
        /\ UNCHANGED <<phase, depth, leaf, move, item, primary>>
    BY <1>5, LastStatements DEF DoErrorStuff
  <2>2. phase = "construct" /\ leaf = "Error" /\ ItemOf(move.target) = "none" /\ move.target = "Error"
    BY <2>1, ItemsOfLeaves DEF OrderInv, InPlace, Between, Constructs, TopLeaves
  <2> QED
    BY <2>1, <2>2 DEF ItemInv, ItemFits, Posts
<1>6. CASE RewindInput
  <2>1. /\ NextCall = "rewindInput" /\ posted' = posted /\ item' = item /\ (Throws => Fails)
        /\ ~Throws => NextCall' = "none" /\ UNCHANGED <<phase, depth, leaf, move, failure>>
    BY <1>6, LastStatements DEF RewindInput
  <2>2. phase = "action"
    BY <2>1 DEF OrderInv, InPlace
  <2>3. CASE Throws
    BY <2>1, <2>3, ItemFails
  <2>4. CASE ~Throws
    BY <2>1, <2>2, <2>4 DEF ItemInv, ItemFits, Posts, HasRead, failure
  <2> QED
    BY <2>3, <2>4
<1> QED
  BY <1>1, <1>3, <1>4, <1>5, <1>6

LEMMA TargetsRead ==
  /\ ItemOf("EndingLoop") = "none" /\ ItemOf("Starting") = "none" /\ ItemOf("Error") = "none"
  /\ \A target \in Leaves \ TopLeaves : ItemOf(target) # "none"
  BY DEF ItemOf, Leaves, TopLeaves, FileLeaves, RunLeaves, SubRunLeaves

LEMMA FirstStatements ==
  /\ FirstConstruct("Starting") = "none" /\ FirstConstruct("FirstFile") = "none"
  /\ FirstConstruct("Error") = "doErrorStuff"
  /\ \A target \in Leaves \ {"Starting", "FirstFile"} :
       FirstConstruct(target) \in
         {"endOfLoop", "doErrorStuff", "respondToCloseInputFile", "writeSubRunCache", "setupCurrentRun",
          "readAndCacheRun", "setupCurrentSubRun", "finalizeSubRun", "readAndCacheSubRun",
          "beginRunIfNotDoneAlready"}
<1>1. /\ FirstConstruct("Starting") = "none" /\ FirstConstruct("FirstFile") = "none"
      /\ FirstConstruct("Error") = "doErrorStuff" /\ FirstConstruct("EndingLoop") = "endOfLoop"
  BY DEF FirstConstruct
<1>2. /\ FirstConstruct("HandleNewInputFile1") = "respondToCloseInputFile"
      /\ FirstConstruct("HandleNewInputFile2") = "respondToCloseInputFile"
      /\ FirstConstruct("HandleNewInputFile3") = "respondToCloseInputFile"
      /\ FirstConstruct("NewInputAndOutputFiles") = "writeSubRunCache"
  BY DEF FirstConstruct
<1>3. /\ FirstConstruct("NewRun") = "setupCurrentRun"
      /\ FirstConstruct("ContinueRun1") = "readAndCacheRun"
      /\ FirstConstruct("ContinueRun2") = "readAndCacheRun"
      /\ FirstConstruct("FirstSubRun") = "setupCurrentSubRun"
  BY DEF FirstConstruct
<1>4. /\ FirstConstruct("AnotherSubRun") = "finalizeSubRun"
      /\ FirstConstruct("ContinueSubRun") = "readAndCacheSubRun"
      /\ FirstConstruct("HandleEvent") = "beginRunIfNotDoneAlready"
  BY DEF FirstConstruct
<1> HIDE DEF FirstConstruct
<1> QED
  BY <1>1, <1>2, <1>3, <1>4 DEF Leaves, TopLeaves, FileLeaves, RunLeaves, SubRunLeaves

\* The constructor that begins has the item still to read.
LEMMA ConstructsUnread ==
  ASSUME ItemInv, Constructed, NextCall = "none", move.target \in Leaves, leaf' = move.target,
         ~HasRead, phase # "stable", phase # "construct", move.target # "FirstFile",
         UNCHANGED <<move, posted, item, primary, errorState>>
  PROVE  ItemInv'
<1>1. Posts'
  BY DEF ItemInv, Posts
<1>4. /\ move' = move /\ item' = item /\ primary' = primary /\ errorState' = errorState
      /\ leaf' = move.target /\ NextCall' = FirstConstruct(move.target)
  BY DEF Constructed
<1>5. /\ primary = "none" /\ ItemOf(move.target) # "none" => item = ItemOf(move.target)
      /\ primary = "none" /\ move.target \in {"EndingLoop", "Starting"} /\ ~errorState => item = "none"
  BY DEF ItemInv, ItemFits
<1>2. CASE move.target = "Starting"
  BY <1>1, <1>2, <1>4, <1>5, TargetsRead DEF ItemInv, ItemFits
<1>3. CASE move.target # "Starting"
  <2>1. ~HasRead' /\ NextCall' # "none"
    BY <1>3, FirstStatements DEF Constructed, HasRead, ReadBefore
  <2> QED
    BY <1>1, <2>1, <1>4, <1>5, FirstStatements DEF ItemInv, ItemFits
<1> QED
  BY <1>1, <1>2, <1>3 DEF ItemInv

LEMMA ItemTransition == OrderInv /\ ItemInv /\ TransitionStep => ItemInv'
<1> SUFFICES ASSUME OrderInv, ItemInv, TransitionStep PROVE ItemInv'
  OBVIOUS
<1>1. CASE LeaveComposite
  <2>1. /\ phase \in {"exit", "destroy"}
        /\ UNCHANGED <<leaf, move, posted, item, primary, errorState>>
        /\ primary = "none" => phase' \in {"exit", "destroy", "action"}
    BY <1>1, LeaveFlow DEF Proceeds
  <2> QED
    BY <2>1 DEF ItemInv, ItemFits, Posts, HasRead
<1>2. CASE ActionDone
  <2>1. /\ phase = "action" /\ NextCall = "none" /\ leaf \in From(move.target)
        /\ UNCHANGED <<depth, move, posted, item, primary, errorState>>
        /\ \/ /\ phase' = "enter"
              /\ NextCall' = IF depth = 0 THEN "readFile" ELSE "none"
           \/ Constructed
    BY <1>2, ActionFlow
  <2>2. move.target \in Leaves
    BY DEF OrderInv, TypeInv, Control, ControlOK, Moves
  <2>3. Posts'
    BY <2>1 DEF ItemInv, Posts
  <2>4. CASE Constructed /\ depth = ParentDepth(move.target)
    <3>1. move.target # "FirstFile"
      BY <2>1, <2>4, ActionFlow, <1>2 DEF From, CommonDepth, ParentDepth, FileLeaves, RunLeaves, SubRunLeaves
    <3> QED
      BY <2>1, <2>2, <2>4, <3>1, ConstructsUnread DEF Constructed, HasRead
  <2>5. CASE phase' = "enter" /\ NextCall' = IF depth = 0 THEN "readFile" ELSE "none"
    <3>1. ~HasRead' /\ ~HasRead
      BY <2>1, <2>5 DEF HasRead, ReadBefore
    <3> QED
      BY <2>1, <2>3, <2>5, <3>1 DEF ItemInv, ItemFits
  <2> QED
    BY <1>2, <2>4, <2>5, ActionFlow
<1>3. CASE EnterComposite
  <2>1. /\ phase = "enter" /\ NextCall = "none" /\ Constructed /\ leaf \in From(move.target)
        /\ depth = CommonDepth(leaf, move.target) /\ depth + 1 = ParentDepth(move.target)
        /\ UNCHANGED <<move, posted, item, primary, errorState>>
    BY <1>3, EnterFlow
  <2>2. move.target \in Leaves /\ leaf \in Leaves
    BY DEF OrderInv, TypeInv, Control, ControlOK, Moves
  <2>3. CASE depth = 0
    <3>1. move.target \in FileLeaves
      BY <2>1, <2>2, <2>3 DEF ParentDepth, Leaves, TopLeaves, FileLeaves, RunLeaves, SubRunLeaves
    <3>2. leaf \in TopLeaves
      BY <2>1, <2>2, <2>3, <3>1 DEF CommonDepth, ParentDepth, Leaves, TopLeaves, FileLeaves, RunLeaves, SubRunLeaves
    <3>3. move.target = "FirstFile"
      BY <2>1, <3>1, <3>2 DEF From, TopLeaves, FileLeaves, RunLeaves, SubRunLeaves
    <3>4. HasRead /\ HasRead'
      BY <2>1, <2>3, <3>3, FirstStatements DEF Constructed, HasRead, ReadBefore
    <3>5. ItemOf(move.target) # "none" /\ move.target \notin {"EndingLoop", "Starting", "Error"}
      BY <3>3, ItemsOfLeaves DEF FileLeaves
    <3> QED
      BY <2>1, <3>4, <3>5 DEF ItemInv, ItemFits, Posts, Constructed
  <2>4. CASE depth # 0
    <3>1. move.target # "FirstFile"
      <4>1. ParentDepth("FirstFile") = 1 /\ depth \in 0..3
        BY DEF ParentDepth, FileLeaves, RunLeaves, SubRunLeaves, OrderInv, TypeInv, Control, ControlOK
      <4> QED
        BY <2>1, <2>4, <4>1
    <3> QED
      BY <2>1, <2>2, <2>4, <3>1, ConstructsUnread DEF Constructed, HasRead
  <2> QED
    BY <2>3, <2>4
<1>4. CASE ConstructorDone
  <2>1. /\ phase = "construct" /\ NextCall = "none" /\ leaf = move.target /\ phase' = "stable" /\ NextCall' = "none"
        /\ UNCHANGED <<leaf, move, posted, item, primary, errorState>>
    BY <1>4, ConstructedFlow
  <2>2. HasRead /\ HasRead'
    BY <2>1 DEF HasRead, ReadBefore
  <2> QED
    BY <2>1, <2>2 DEF ItemInv, ItemFits, Posts
<1>5. CASE ProcessPosted
  <2>1. /\ phase = "stable" /\ posted # "none" /\ posted' = "none" /\ leaf \in Leaves
        /\ UNCHANGED <<item, primary, errorState>> /\ primary = "none" /\ leaf = move.target
    BY <1>5, PostedBegins, WaitsFor DEF Begins
  <2>2. Posts' /\ HasRead
    BY <2>1 DEF Posts, HasRead
  <2>3. item = "none" \/ errorState
    <3>1. leaf \in {"EndingLoop", "Error", "HandleEvent"} /\ (leaf = "Error" => errorState)
      BY <2>1 DEF ItemInv, Posts
    <3> QED
      BY <2>1, <2>2, <3>1, ItemsOfLeaves, TargetsRead DEF ItemInv, ItemFits
  <2>4. CASE leaf # "EndingLoop" /\ posted = "Stop" /\ Begins(OnStop(leaf))
    <3>1. OnStop(leaf).target = "EndingLoop" /\ move' = OnStop(leaf) /\ phase' \in {"exit", "destroy", "action"} /\ leaf' = leaf
      BY <2>4 DEF Begins, Proceeds, OnStop
    <3> QED
      BY <2>1, <2>2, <2>3, <3>1, TargetsRead DEF ItemInv, ItemFits
  <2>5. CASE posted = "Restart" /\ Begins(OnRestart(leaf))
    <3>1. leaf = "EndingLoop"
      BY <2>5 DEF ItemInv, Posts
    <3>2. OnRestart(leaf).target = "Starting" /\ move' = OnRestart(leaf) /\ phase' \in {"exit", "destroy", "action"} /\ leaf' = leaf
      BY <2>5, <3>1 DEF Begins, Proceeds, OnRestart
    <3> QED
      BY <2>1, <2>2, <2>3, <3>2, TargetsRead DEF ItemInv, ItemFits
  <2>6. CASE leaf = "EndingLoop" /\ posted = "Stop" /\ phase' = "terminated" /\ move' = move /\ leaf' = leaf
    BY <2>1, <2>2, <2>3, <2>6, TargetsRead DEF ItemInv, ItemFits
  <2> QED
    BY <1>5, <2>4, <2>5, <2>6, PostedBegins
<1> QED
  BY <1>1, <1>2, <1>3, <1>4, <1>5 DEF TransitionStep

LEMMA ItemTargets ==
  ASSUME NEW l \in Leaves
  PROVE  /\ \A close \in BOOLEAN : l \notin {"EndingLoop", "Error"} => ItemOf(OnFile(l, close).target) = "File"
         /\ \A same \in BOOLEAN : ItemOf(OnRun(l, same).target) = "Run" \/ OnRun(l, same).target = "Error"
         /\ \A same \in BOOLEAN : ItemOf(OnSubRun(l, same).target) = "SubRun" \/ OnSubRun(l, same).target = "Error"
         /\ ItemOf(OnEvent(l).target) = "Event" \/ OnEvent(l).target = "Error"
         /\ OnStop(l).target = "EndingLoop"
<1>1. ASSUME NEW close \in BOOLEAN, l \notin {"EndingLoop", "Error"}
      PROVE  ItemOf(OnFile(l, close).target) = "File"
  <2>1. OnFile(l, close).target \in FileLeaves \cup {"HandleNewInputFile2", "HandleNewInputFile3"}
    BY <1>1 DEF OnFile, Goto, Leaves, TopLeaves, FileLeaves, RunLeaves, SubRunLeaves
  <2> QED
    BY <2>1, ItemsOfLeaves
<1>2. ASSUME NEW same \in BOOLEAN
      PROVE  ItemOf(OnRun(l, same).target) = "Run" \/ OnRun(l, same).target = "Error"
  <2>1. OnRun(l, same).target \in {"NewRun", "ContinueRun1", "ContinueRun2", "Error"}
    BY <1>2 DEF OnRun, Goto, GotoNewRun
  <2> QED
    BY <2>1, ItemsOfLeaves
<1>3. ASSUME NEW same \in BOOLEAN
      PROVE  ItemOf(OnSubRun(l, same).target) = "SubRun" \/ OnSubRun(l, same).target = "Error"
  <2>1. OnSubRun(l, same).target \in {"FirstSubRun", "AnotherSubRun", "ContinueSubRun", "Error"}
    BY <1>3 DEF OnSubRun, Goto
  <2> QED
    BY <2>1, ItemsOfLeaves
<1>4. ItemOf(OnEvent(l).target) = "Event" \/ OnEvent(l).target = "Error"
  BY ItemsOfLeaves DEF OnEvent, Goto
<1>5. OnStop(l).target = "EndingLoop"
  BY DEF OnStop
<1> QED
  BY <1>1, <1>2, <1>3, <1>4, <1>5

LEMMA ItemItem == OrderInv /\ ItemInv /\ Item => ItemInv'
<1> SUFFICES ASSUME OrderInv, ItemInv, Item PROVE ItemInv'
  OBVIOUS
<1>1. /\ Idle /\ leaf \in Leaves /\ leaf \notin {"EndingLoop", "Error"} /\ posted' = posted
  BY ItemBegins
<1>2. phase = "stable" /\ posted = "none" /\ leaf = move.target /\ primary = "none"
  BY <1>1, WaitsFor DEF Idle
<1>3. item = "none" \/ errorState
  BY <1>1, <1>2, TargetsRead DEF ItemInv, ItemFits, HasRead, TopLeaves
<1>4. ASSUME NEW m, Begins(m), ItemOf(m.target) = item' \/ m.target = "Error" \/ (m.target = "EndingLoop" /\ item' = item)
      PROVE  ItemInv'
  <2>1. move' = m /\ phase' \in {"exit", "destroy", "action"} /\ UNCHANGED <<primary, errorState, leaf>>
    BY <1>4 DEF Begins, Proceeds
  <2>2. ItemOf("Error") = "none" /\ ItemOf("EndingLoop") = "none" /\ ItemOf("Starting") = "none"
    BY TargetsRead
  <2>3. ~HasRead' /\ Posts'
    BY <1>1, <1>2, <2>1 DEF HasRead, Posts
  <2> QED
    BY <1>3, <1>4, <2>1, <2>2, <2>3 DEF ItemInv, ItemFits
<1>5. CASE \E close \in BOOLEAN : FileItem /\ Begins(OnFile(leaf, close))
  BY <1>1, <1>4, <1>5, ItemTargets DEF FileItem
<1>6. CASE \E r \in Runs : RunItem /\ Begins(OnRun(leaf, r = handleRuns.currentRun))
  <2>1. PICK same \in BOOLEAN : RunItem /\ Begins(OnRun(leaf, same))
    BY <1>6
  <2> QED
    BY <1>1, <1>4, <2>1, ItemTargets DEF RunItem
<1>7. CASE \E n \in SubRunNums : SubRunItem /\ Begins(OnSubRun(leaf, <<source.run, n>> = handleSubRuns.current))
  <2>1. PICK same \in BOOLEAN : SubRunItem /\ Begins(OnSubRun(leaf, same))
    BY <1>7
  <2> QED
    BY <1>1, <1>4, <2>1, ItemTargets DEF SubRunItem
<1>8. CASE EventItem /\ Begins(OnEvent(leaf))
  BY <1>1, <1>4, <1>8, ItemTargets DEF EventItem
<1>9. CASE (StopItem \/ SourceThrows) /\ Begins(OnStop(leaf))
  BY <1>1, <1>4, <1>9, ItemTargets DEF StopItem, SourceThrows
<1> QED
  BY <1>5, <1>6, <1>7, <1>8, <1>9, ItemBegins

LEMMA ItemInvInit == Init => ItemInv
  BY TargetsRead DEF Init, ItemInv, ItemFits, Posts, HasRead, Goto

LEMMA ItemInvStep == OrderInv /\ ItemInv /\ [Next]_vars => ItemInv'
<1> SUFFICES ASSUME OrderInv, ItemInv, [Next]_vars PROVE ItemInv'
  OBVIOUS
<1>1. CASE UNCHANGED vars
  BY <1>1 DEF vars, control, failure, ItemInv, ItemFits, Posts, HasRead, ReadBefore, NextCall
<1> QED
  BY <1>1, ItemItem, ItemTransition, ItemFileStep, ItemRunStep, ItemSubRunStep, ItemOtherStep
     DEF Next, MachineStep, Done

LEMMA InStep == OrderInv /\ ItemInv => SourceInStep
<1> SUFFICES ASSUME OrderInv, ItemInv PROVE SourceInStep
  OBVIOUS
<1>1. primary # "none" => phase \in {"destroy", "terminated"}
  BY DEF OrderInv, Between
<1>2. ASSUME NextCall \in {"setupCurrentRun", "readAndCacheRun"} PROVE item = "Run"
  BY <1>1, <1>2, ItemsOfLeaves DEF OrderInv, InPlace, Between, Constructs, ItemInv, ItemFits, HasRead, ReadBefore
<1>3. ASSUME NextCall \in {"setupCurrentSubRun", "readAndCacheSubRun"} PROVE item = "SubRun"
  BY <1>1, <1>3, ItemsOfLeaves DEF OrderInv, InPlace, Between, Constructs, ItemInv, ItemFits, HasRead, ReadBefore
<1>4. ASSUME NextCall = "readEvent" PROVE item = "Event"
  BY <1>1, <1>4, ItemsOfLeaves DEF OrderInv, InPlace, EventCalls, Between, Constructs, ItemInv, ItemFits, HasRead, ReadBefore
<1>5. ASSUME NextCall = "readFile" PROVE item = "File"
  <2>1. CASE ChangesInput
    BY <1>1, <1>5, <2>1, ItemsOfLeaves DEF OrderInv, Between, ChangesInput, Constructs, ItemInv, ItemFits, HasRead, ReadBefore, FileLeaves
  <2>2. CASE phase = "enter" /\ depth = 0
    <3>1. leaf \in From(move.target) /\ depth = CommonDepth(leaf, move.target) /\ depth + 1 = ParentDepth(move.target) /\ leaf \in Leaves /\ move.target \in Leaves
      BY <2>2 DEF OrderInv, Between, TypeInv, Control, ControlOK, Moves
    <3>2. move.target \in FileLeaves
      BY <2>2, <3>1 DEF ParentDepth, Leaves, TopLeaves, FileLeaves, RunLeaves, SubRunLeaves
    <3> QED
      BY <1>1, <1>5, <2>2, <3>2, ItemsOfLeaves DEF ItemInv, ItemFits, HasRead, ReadBefore
  <2> QED
    BY <1>5, <2>1, <2>2 DEF OrderInv, InPlace
<1>6. ASSUME Idle, ~errorState PROVE item = "none"
  <2>1. phase = "stable" /\ leaf = move.target /\ primary = "none" /\ leaf \in Leaves /\ leaf # "Error"
    BY <1>6, WaitsFor, IdleLeaf DEF Idle, OrderInv
  <2> QED
    BY <1>6, <2>1, TargetsRead DEF ItemInv, ItemFits, HasRead, TopLeaves
<1> QED
  BY <1>2, <1>3, <1>4, <1>5, <1>6 DEF SourceInStep

\* Each read asks the source for the kind of item it has offered, and when the
\* loop asks for the next item the previous one has been read.
THEOREM ReadsWhatIsOffered == Spec => []SourceInStep
<1>1. Init => OrderInv /\ ItemInv
  BY OrderInit, ItemInvInit
<1>2. OrderInv /\ ItemInv /\ [Next]_vars => (OrderInv /\ ItemInv)'
  BY OrderStep, ItemInvStep
<1> QED
  BY <1>1, <1>2, InStep, PTL DEF Spec

-----------------------------------------------------------------------------
(* The current run.                                                         *)

run == handleRuns.currentRun
Began == handleRuns.beginRunCalled
RunBroken == handleRuns.runException
IsEmpty == handleSubRuns.empty

\* HandleRuns is done with its run and about to be destroyed or to take the next.
RunLeft ==
  depth = 2 /\ NextCall = "none" /\ (GoesDown \/ (phase = "action" /\ move.target = "NewRun"))

RunKnown ==
  /\ Began => run # NoRun
  /\ depth = 3 => run # NoRun
  /\ run = NoRun => depth < 2 \/ RunBroken \/ NextCall = "setupCurrentRun" \/ RunLeft
  /\ RunLeft => ~Began \/ RunBroken
  /\ RunLeft /\ phase = "action" => run = NoRun /\ ~RunBroken

RunCallsFit ==
  /\ NextCall = "setupCurrentRun" => run = NoRun /\ ~Began /\ ~RunBroken
  /\ NextCall = "beginRun" => ~Began
  /\ NextCall = "endRun" => Began
  /\ NextCall \in {"writeRun", "clearCurrentRun"} => ~Began
  /\ NextCall \in {"endRun", "writeRun", "clearCurrentRun"} => run # NoRun

RunBrokenFits ==
  /\ RunBroken => \/ NextCall \in {"endRun", "writeRun", "clearCurrentRun"}
                  \/ primary # "none"
                  \/ phase = "destroy" /\ NextCall = "none" /\ depth = 2
  /\ RunBroken /\ depth = 3 => NextCall \in {"none", "finalizeAllSubRuns"} /\ IsEmpty

\* When empty runs are handled every run begins at once.
RunBeginsAtOnce ==
  config.handleEmptyRuns =>
    \/ Began \/ depth < 2
    \/ depth = 2 /\ (GoesDown \/ (phase = "action" /\ move.target = "NewRun"))
    \/ depth = 2 /\ phase = "construct" /\ NextCall \in {"setupCurrentRun", "beginRun"}

\* A sub-run with an event is in a run that has begun.
EventRun ==
  /\ ~IsEmpty => Began
  /\ leaf = "HandleEvent" /\ phase \in {"construct", "stable"}
       /\ NextCall \notin {"beginRunIfNotDoneAlready", "beginRun"} => Began

RunCached ==
  /\ run # NoRun /\ NextCall # "clearCurrentRun" => run \in cache.runs
  /\ run # NoRun => cache.currentRun = run

RunBegun ==
  begun.runs = IF Began /\ (RunBroken => NextCall = "endRun") THEN {run} \ FlushRuns ELSE {}

RunOffered ==
  run # NoRun /\ (move.target = "NewRun" => phase \in {"construct", "stable"}) => source.run = run

RunInv ==
  /\ RunKnown /\ RunCallsFit /\ RunBrokenFits /\ RunBeginsAtOnce
  /\ EventRun /\ RunCached /\ RunBegun /\ RunOffered

-----------------------------------------------------------------------------
(* Steps that leave the run alone.                                          *)

SameRun ==
  /\ run' = run /\ (Began' <=> Began) /\ (RunBroken' <=> RunBroken) /\ begun'.runs = begun.runs

LEMMA SameRuns == ASSUME handleRuns' = handleRuns, begun'.runs = begun.runs PROVE SameRun
  BY DEF SameRun, run, Began, RunBroken

LEMMA NoRunOutside == ASSUME OrderInv, depth < 2 PROVE run = NoRun /\ ~Began /\ ~RunBroken
  BY DEF OrderInv, LoopFits, NewHandleRuns, run, Began, RunBroken

LEMMA NotEmptyInside == ASSUME OrderInv, depth < 3 PROVE IsEmpty
  BY DEF OrderInv, LoopFits, NewHandleSubRuns, IsEmpty

\* What runs at depth 2 between the runs is about the run.
LEMMA RunRuns ==
  ASSUME OrderInv, NextCall # "none", depth = 2,
         GoesDown \/ (phase = "action" /\ move.target = "NewRun")
  PROVE  NextCall \in RunEnds
<1>1. NextCall \in Calls
  BY NextIs DEF OrderInv, TypeInv, Control, ControlOK
<1> QED
  BY <1>1, CallsAre DEF OrderInv, InPlace, RunEnds, Closes, EventCalls, SubRunBodies, GoesDown, ChangesInput, Constructs

\* A statement that is not about runs returns.
QuietCache == depth < 2 \/ (cache'.runs = cache.runs /\ cache'.currentRun = cache.currentRun)

LEMMA QuietGoes ==
  ASSUME OrderInv, RunInv, NEW next, Goes(next), SameRun, QuietCache,
         NextCall \in Calls \ RunCalls, next \notin RunCalls,
         depth = 3 /\ RunBroken => next = "none" /\ IsEmpty',
         ~IsEmpty' => ~IsEmpty \/ (leaf = "HandleEvent" /\ phase = "construct")
  PROVE  RunInv'
<1>1. NextCall \notin {"setupCurrentRun", "beginRun", "endRun", "writeRun", "clearCurrentRun", "none",
                       "beginRunIfNotDoneAlready", "finalizeRun"}
  BY CallsAre DEF RunCalls
<1>2. next \notin {"setupCurrentRun", "beginRun", "endRun", "writeRun", "clearCurrentRun", "beginRunIfNotDoneAlready"}
  BY DEF RunCalls
<1>3. /\ NextCall' = next
      /\ UNCHANGED <<config, phase, depth, leaf, move, source, external, primary, swallowed, errorState>>
  BY DEF Goes
<1>4. ~(depth = 2 /\ (GoesDown \/ (phase = "action" /\ move.target = "NewRun")))
  BY <1>1, RunRuns DEF RunEnds
<1>5. ~RunLeft' /\ ~RunLeft
  BY <1>3, <1>4 DEF RunLeft, GoesDown
<1>6. RunKnown'
  BY <1>1, <1>2, <1>3, <1>5 DEF RunInv, RunKnown, SameRun
<1>7. RunCallsFit'
  BY <1>2, <1>3 DEF RunCallsFit
<1>8. RunBrokenFits'
  BY <1>1, <1>2, <1>3 DEF RunInv, RunBrokenFits, SameRun
<1>9. RunBeginsAtOnce'
  BY <1>1, <1>2, <1>3, <1>4 DEF RunInv, RunBeginsAtOnce, SameRun, GoesDown
<1>10. EventRun'
  BY <1>1, <1>3 DEF RunInv, EventRun, SameRun
<1>11. RunCached'
  BY <1>1, <1>3, NoRunOutside DEF RunInv, RunCached, SameRun, QuietCache
<1>12. RunBegun'
  BY <1>1, <1>2, <1>3 DEF RunInv, RunBegun, SameRun
<1>13. RunOffered'
  BY <1>3 DEF RunInv, RunOffered, SameRun
<1> QED
  BY <1>6, <1>7, <1>8, <1>9, <1>10, <1>11, <1>12, <1>13 DEF RunInv

LEMMA UnwindsTo ==
  ASSUME OrderInv, Fails, NextCall # "none"
  PROVE  /\ depth \in 0..3 /\ phase' \in {"destroy", "terminated"}
         /\ phase' = "terminated" => depth = 0
         /\ NextCall' \in {"none", "writeSubRunCache", "finalizeRun", "finalizeAllSubRuns"}
         /\ NextCall' = "writeSubRunCache" => depth = 1
         /\ NextCall' = "finalizeRun" => depth = 2
         /\ NextCall' = "finalizeAllSubRuns" => depth = 3
         /\ NextCall' = "none" => phase \in {"exit", "destroy"} \/ depth = 0
         /\ primary' # "none" \/ phase = "destroy"
         /\ phase \in {"exit", "destroy"} => NextCall' = "none"
<1>1. depth \in 0..3 /\ (phase = "terminated" => NextCall = "none")
  BY DEF OrderInv, TypeInv, Control, ControlOK, Nesting, NextCall
<1>2. /\ FirstCleanUp(0) = "none" /\ FirstCleanUp(1) = "writeSubRunCache"
      /\ FirstCleanUp(2) = "finalizeRun" /\ FirstCleanUp(3) = "finalizeAllSubRuns"
  BY DEF FirstCleanUp
<1>3. Unwound(depth) = IF depth = 0 THEN "terminated" ELSE "destroy"
  BY DEF Unwound
<1> QED
  BY <1>1, <1>2, <1>3 DEF Fails

\* An exception of a statement that may change the run but, unless the run is
\* marked as broken, leaves it for the clean-up.
LEMMA RunFails ==
  ASSUME OrderInv, RunInv, Fails, NextCall # "none", NextCall # "finalizeRun",
         IsEmpty' <=> IsEmpty,
         \* what is left of the run
         Began' => run' # NoRun,
         depth = 3 => run' # NoRun,
         run' = NoRun => depth < 2 \/ RunBroken',
         GoesDown /\ depth = 2 => ~Began' \/ RunBroken',
         RunBroken' /\ depth = 3 => IsEmpty,
         RunBroken' /\ GoesDown /\ primary = "none" => (depth = 2 /\ phase = "destroy") \/ phase = "exit",
         config.handleEmptyRuns => Began' \/ depth < 3,
         ~IsEmpty => Began',
         run' # NoRun => run' \in cache'.runs /\ cache'.currentRun = run'
                         /\ (move.target # "NewRun" => source.run = run'),
         begun'.runs = IF Began' /\ ~RunBroken' THEN {run'} \ FlushRuns ELSE {}
  PROVE  RunInv'
<1>1. /\ depth \in 0..3 /\ phase' \in {"destroy", "terminated"}
      /\ phase' = "terminated" => depth = 0
      /\ NextCall' \in {"none", "writeSubRunCache", "finalizeRun", "finalizeAllSubRuns"}
      /\ NextCall' = "writeSubRunCache" => depth = 1
      /\ NextCall' = "finalizeRun" => depth = 2
      /\ NextCall' = "finalizeAllSubRuns" => depth = 3
      /\ NextCall' = "none" => phase \in {"exit", "destroy"} \/ depth = 0
      /\ primary' # "none" \/ phase = "destroy"
      /\ phase \in {"exit", "destroy"} => NextCall' = "none"
  BY UnwindsTo
<1>2. UNCHANGED <<config, depth, leaf, move, source, external, errorState>>
  BY DEF Fails
<1>3. RunKnown'
  BY <1>1, <1>2 DEF RunKnown, RunLeft, GoesDown
<1>4. RunCallsFit'
  BY <1>1 DEF RunCallsFit
<1>5. RunBrokenFits'
  <2>1. RunBroken' => primary' # "none" \/ (phase' = "destroy" /\ NextCall' = "none" /\ depth' = 2)
    BY <1>1, <1>2 DEF Fails, GoesDown
  <2>2. RunBroken' /\ depth' = 3 => NextCall' \in {"none", "finalizeAllSubRuns"} /\ IsEmpty'
    BY <1>1, <1>2
  <2> QED
    BY <2>1, <2>2 DEF RunBrokenFits
<1>6. RunBeginsAtOnce'
  BY <1>1, <1>2 DEF RunBeginsAtOnce, GoesDown
<1>7. EventRun'
  BY <1>1, <1>2 DEF EventRun
<1>8. RunCached'
  BY <1>2 DEF RunCached
<1>9. RunBegun'
  BY <1>1 DEF RunBegun
<1>10. RunOffered'
  BY <1>1, <1>2 DEF RunOffered
<1> QED
  BY <1>3, <1>4, <1>5, <1>6, <1>7, <1>8, <1>9, <1>10 DEF RunInv

LEMMA QuietFails ==
  ASSUME OrderInv, RunInv, Fails, SameRun, QuietCache, NextCall \in Calls \ RunCalls,
         IsEmpty' <=> IsEmpty
  PROVE  RunInv'
<1>1. NextCall \notin {"setupCurrentRun", "beginRun", "endRun", "writeRun", "clearCurrentRun", "none",
                       "beginRunIfNotDoneAlready", "finalizeRun"}
  BY CallsAre DEF RunCalls
<1>2. ~(depth = 2 /\ (GoesDown \/ (phase = "action" /\ move.target = "NewRun")))
  BY <1>1, RunRuns DEF RunEnds
<1>3. ~RunLeft
  BY <1>2 DEF RunLeft
<1>4. depth \in 0..3
  BY DEF OrderInv, TypeInv, Control, ControlOK
<1>5. depth = 3 => run' # NoRun
  BY DEF RunInv, RunKnown, SameRun
<1>6. (Began' => run' # NoRun) /\ (run' = NoRun => depth < 2 \/ RunBroken')
  BY <1>1, <1>3 DEF RunInv, RunKnown, SameRun
<1>7. /\ GoesDown /\ depth = 2 => ~Began' \/ RunBroken'
      /\ RunBroken' /\ depth = 3 => IsEmpty
      /\ RunBroken' /\ GoesDown /\ primary = "none" => (depth = 2 /\ phase = "destroy") \/ phase = "exit"
  BY <1>1, <1>2 DEF RunInv, RunBrokenFits, SameRun
<1>8. (config.handleEmptyRuns => Began' \/ depth < 3) /\ (~IsEmpty => Began')
  BY <1>4 DEF RunInv, RunBeginsAtOnce, EventRun, SameRun
<1>9. run' # NoRun => run' \in cache'.runs /\ cache'.currentRun = run'
  BY <1>1, <1>4, NoRunOutside DEF RunInv, RunCached, SameRun, QuietCache
<1>10. run' # NoRun /\ move.target # "NewRun" => source.run = run'
  BY DEF RunInv, RunOffered, SameRun
<1>11. begun'.runs = IF Began' /\ ~RunBroken' THEN {run'} \ FlushRuns ELSE {}
  BY <1>1 DEF RunInv, RunBegun, SameRun
<1> QED
  BY <1>1, <1>5, <1>6, <1>7, <1>8, <1>9, <1>10, <1>11, RunFails

LEMMA QuietSimple ==
  ASSUME OrderInv, RunInv, NEW call \in Calls \ RunCalls, NEW next \in (Calls \ RunCalls) \cup {"none"},
         Simple(call, next), Returns \/ Throws, SameRun, QuietCache,
         Returns /\ depth = 3 => ~RunBroken,
         IsEmpty' <=> IsEmpty
  PROVE  RunInv'
<1>1. next \notin RunCalls /\ call # "none"
  BY CallsAre DEF RunCalls
<1>2. CASE Throws
  BY <1>1, <1>2, QuietFails DEF Simple
<1>3. CASE Returns
  BY <1>1, <1>3, QuietGoes DEF Simple
<1> QED
  BY <1>2, <1>3

\* What a statement of a sub-run needs: the run is not broken.
LEMMA NotBroken ==
  ASSUME RunInv, depth = 3, NextCall \notin {"none", "finalizeAllSubRuns"} PROVE ~RunBroken
  BY DEF RunInv, RunBrokenFits

LEMMA NoneIsNoCall == "none" \notin Calls
  BY DEF Calls, FileCalls, Responses, CacheCalls, RunCalls, SubRunCalls, OtherCalls

LEMMA QuietCalls ==
  /\ FileCalls \cup CacheCalls \cup SubRunCalls \cup OtherCalls = Calls \ RunCalls
  /\ Responses \subseteq FileCalls
  BY DEF Calls, FileCalls, Responses, CacheCalls, RunCalls, SubRunCalls, OtherCalls

LEMMA FileQuiet == OrderInv /\ RunInv /\ FileStep => RunInv'
<1> SUFFICES ASSUME OrderInv, RunInv, FileStep PROVE RunInv'
  OBVIOUS
<1>0. /\ "finalizeAllSubRuns" \notin FileCalls \cup CacheCalls /\ "none" \notin FileCalls \cup CacheCalls
      /\ begun' = begun /\ handleRuns' = handleRuns /\ handleSubRuns' = handleSubRuns
  BY DEF FileCalls, CacheCalls, Responses, FileStep, ReadFile, CloseInputFile, OpenOutputFiles, CloseOutputFiles, Respond,
         WriteSubRunCache, WriteRunCache, objects, history
<1>1. SameRun /\ (IsEmpty' <=> IsEmpty)
  BY <1>0, SameRuns DEF IsEmpty
<1>2. ASSUME NEW call \in FileCalls \cup CacheCalls, NEW next \in FileCalls \cup CacheCalls \cup {"none"},
             Simple(call, next), Returns \/ Throws, QuietCache
      PROVE  RunInv'
  <2>1. /\ call \in Calls \ RunCalls /\ next \in (Calls \ RunCalls) \cup {"none"}
        /\ depth = 3 => ~RunBroken
    BY <1>0, <1>2, QuietCalls, NotBroken DEF Simple
  <2> QED
    BY <1>1, <1>2, <2>1, QuietSimple
<1>3. CASE ReadFile
  BY <1>2, <1>3, FileFlows DEF ReadFile, QuietCache, FileCalls, Responses
<1>4. CASE CloseInputFile
  BY <1>2, <1>4, FileFlows DEF CloseInputFile, QuietCache, FileCalls
<1>5. CASE OpenOutputFiles
  BY <1>2, <1>5, FileFlows DEF OpenOutputFiles, QuietCache, FileCalls, Responses
<1>6. CASE CloseOutputFiles
  BY <1>2, <1>6, FileFlows DEF CloseOutputFiles, QuietCache, FileCalls, Responses
<1>7. CASE Respond
  <2>1. PICK next \in FileCalls \cup {"none"} : Simple(NextCall, next)
    BY <1>7, RespondFlow DEF Simple, FileCalls
  <2> QED
    BY <1>2, <1>7, <2>1, RespondFlow, QuietCalls DEF Respond, QuietCache
<1>8. CASE WriteSubRunCache \/ WriteRunCache
  <2>1. NextCall \in CacheCalls /\ depth < 2 /\ QuietCache
    <3>1. NextCall \in CacheCalls
      BY <1>8, CacheFlows DEF Simple, CacheCalls
    <3>2. depth = 1
      BY <3>1 DEF CacheCalls, Closes, OrderInv, InPlace, Constructs, Between, ParentDepth, FileLeaves, RunLeaves, SubRunLeaves
    <3> QED
      BY <3>1, <3>2 DEF QuietCache
  <2>2. PICK next \in FileCalls \cup CacheCalls : Simple(NextCall, next)
    BY <1>8, CacheFlows DEF Simple, CacheCalls, FileCalls, Responses
  <2>3. CASE Returns \/ Throws
    BY <1>2, <2>1, <2>2, <2>3
  <2>4. CASE ~(Returns \/ Throws)
    <3>1. UNCHANGED <<config, phase, depth, leaf, move, todo, source, failure>>
      BY <1>8, <2>4 DEF WriteSubRunCache, WriteRunCache
    <3>2. Goes(NextCall)
      BY <3>1 DEF Goes, NextCall, failure
    <3>3. NextCall \in Calls \ RunCalls
      BY <2>1, QuietCalls
    <3> QED
      BY <1>1, <2>1, <3>2, <3>3, QuietGoes
  <2> QED
    BY <2>3, <2>4
<1> QED
  BY <1>3, <1>4, <1>5, <1>6, <1>7, <1>8 DEF FileStep

LEMMA OtherQuiet ==
  OrderInv /\ RunInv /\ (ReadEvent \/ ProcessEvent \/ EndOfLoop \/ DoErrorStuff \/ RewindInput) => RunInv'
<1> SUFFICES ASSUME OrderInv, RunInv
             PROVE  ReadEvent \/ ProcessEvent \/ EndOfLoop \/ DoErrorStuff \/ RewindInput => RunInv'
  OBVIOUS
<1>1. ASSUME ReadEvent \/ ProcessEvent \/ EndOfLoop \/ DoErrorStuff \/ RewindInput
      PROVE  SameRun /\ (IsEmpty' <=> IsEmpty) /\ QuietCache
  <2>1. UNCHANGED <<handleRuns, handleSubRuns, cache, begun>>
    BY <1>1 DEF ReadEvent, ProcessEvent, EndOfLoop, DoErrorStuff, RewindInput, objects, history
  <2> QED
    BY <2>1, SameRuns DEF IsEmpty, QuietCache
<1>2. ASSUME NEW call \in OtherCalls, NEW next \in OtherCalls \cup {"none"}, Simple(call, next), Returns \/ Throws,
             SameRun /\ (IsEmpty' <=> IsEmpty) /\ QuietCache
      PROVE  RunInv'
  <2>1. /\ call \in Calls \ RunCalls /\ next \in (Calls \ RunCalls) \cup {"none"}
        /\ call \notin {"none", "finalizeAllSubRuns"}
    BY <1>2, QuietCalls DEF OtherCalls
  <2>2. depth = 3 => ~RunBroken
    BY <1>2, <2>1, NotBroken DEF Simple
  <2> QED
    BY <1>2, <2>1, <2>2, QuietSimple
<1>3. CASE ReadEvent
  BY <1>1, <1>2, <1>3, OtherFlows DEF ReadEvent, OtherCalls
<1>4. CASE ProcessEvent
  BY <1>1, <1>2, <1>4, OtherFlows DEF ProcessEvent, OtherCalls
<1>5. CASE EndOfLoop
  BY <1>1, <1>2, <1>5, OtherFlows DEF EndOfLoop, OtherCalls
<1>6. CASE DoErrorStuff
  <2>1. /\ NextCall = "doErrorStuff" /\ NextCall' = "none"
        /\ UNCHANGED <<config, phase, depth, leaf, move, source, primary, cache>>
    BY <1>6, LastStatements DEF DoErrorStuff
  <2>2. depth = 0 /\ phase = "construct" /\ leaf = "Error"
    BY <2>1 DEF OrderInv, InPlace, Constructs, Between, ParentDepth, FileLeaves, RunLeaves, SubRunLeaves
  <2>3. run' = NoRun /\ ~Began' /\ ~RunBroken' /\ IsEmpty' /\ begun'.runs = {}
    BY <1>1, <1>6, <2>2, NoRunOutside, NotEmptyInside DEF SameRun, RunInv, RunBegun
  <2> QED
    BY <2>1, <2>2, <2>3 DEF RunInv, RunKnown, RunCallsFit, RunBrokenFits, RunBeginsAtOnce, EventRun,
                            RunCached, RunBegun, RunOffered, RunLeft
<1>7. CASE RewindInput
  <2>1. NextCall = "rewindInput" /\ (Throws => Fails) /\ (~Throws => NextCall' = "none")
    BY <1>7, LastStatements
  <2>2. depth = 0 /\ phase = "action" /\ NextCall \in Calls \ RunCalls
    BY <2>1, QuietCalls DEF OrderInv, InPlace, OtherCalls
  <2>3. CASE Throws
    BY <1>1, <1>7, <2>1, <2>2, <2>3, QuietFails
  <2>4. CASE ~Throws
    <3>1. UNCHANGED <<config, phase, depth, leaf, move, primary, cache>> /\ NextCall' = "none"
      BY <1>7, <2>1, <2>4 DEF RewindInput, failure
    <3>2. run' = NoRun /\ ~Began' /\ ~RunBroken' /\ IsEmpty' /\ begun'.runs = {}
      BY <1>1, <1>7, <2>2, NoRunOutside, NotEmptyInside DEF SameRun, RunInv, RunBegun
    <3> QED
      BY <2>2, <3>1, <3>2 DEF RunInv, RunKnown, RunCallsFit, RunBrokenFits, RunBeginsAtOnce, EventRun,
                              RunCached, RunBegun, RunOffered, RunLeft
  <2> QED
    BY <2>3, <2>4
<1> QED
  BY <1>3, <1>4, <1>5, <1>6, <1>7

LEMMA SubRunQuiet == OrderInv /\ RunInv /\ SubRunStep => RunInv'
<1> SUFFICES ASSUME OrderInv, RunInv, SubRunStep PROVE RunInv'
  OBVIOUS
<1>1. handleRuns' = handleRuns
  BY DEF SubRunStep, ReadAndCacheSubRun, SetupCurrentSubRun, FinalizeAllSubRuns, FinalizeSubRun,
         ClearCurrentSubRun, FinalizeOutstandingSubRuns, NextOutstanding, MarkSubRunNonEmpty,
         StartSubRun, SubRunStarted, BeginSubRun, EndSubRun, WriteSubRun, objects
<1>2. begun'.runs = begun.runs
  <2>1. begun \in Ids
    BY DEF OrderInv, TypeInv, DataOK
  <2>2. begun' = begun \/ \E S : begun' = [begun EXCEPT !.subRuns = S]
    BY DEF SubRunStep, ReadAndCacheSubRun, SetupCurrentSubRun, FinalizeAllSubRuns, FinalizeSubRun,
         ClearCurrentSubRun, FinalizeOutstandingSubRuns, NextOutstanding, MarkSubRunNonEmpty,
         StartSubRun, SubRunStarted, BeginSubRun, EndSubRun, WriteSubRun, history
  <2> QED
    BY <2>1, <2>2 DEF Ids
<1>3. cache'.runs = cache.runs /\ cache'.currentRun = cache.currentRun
  <2>1. cache \in Cache
    BY DEF OrderInv, TypeInv, DataOK
  <2>2. \/ cache' = cache \/ (\E sr : cache' = DeleteSubRun(cache, sr)) \/ (\E sr : cache' = InsertSubRun(cache, sr))
    BY DEF SubRunStep, ReadAndCacheSubRun, SetupCurrentSubRun, FinalizeAllSubRuns, FinalizeSubRun,
         ClearCurrentSubRun, FinalizeOutstandingSubRuns, NextOutstanding, MarkSubRunNonEmpty,
         StartSubRun, SubRunStarted, BeginSubRun, EndSubRun, WriteSubRun, WritesSubRun, CachesSubRun, CachesNothing
  <2> QED
    BY <2>1, <2>2 DEF Cache, DeleteSubRun, InsertSubRun
<1>4. SameRun /\ QuietCache
  BY <1>1, <1>2, <1>3, SameRuns DEF QuietCache
<1>5. ASSUME NEW call \in SubRunCalls \ {"finalizeAllSubRuns"}, NextCall = call, NEW next, Goes(next), next \notin RunCalls,
             ~IsEmpty' => ~IsEmpty \/ (leaf = "HandleEvent" /\ phase = "construct")
      PROVE  RunInv'
  <2>1. call \in Calls \ RunCalls /\ call # "none"
    BY <1>5, QuietCalls DEF SubRunCalls
  <2>2. depth = 3 => ~RunBroken
    BY <1>5, <2>1, NotBroken
  <2> QED
    BY <1>4, <1>5, <2>1, <2>2, QuietGoes
<1>6. ASSUME NEW call \in SubRunCalls, NextCall = call, Fails, IsEmpty' <=> IsEmpty
      PROVE  RunInv'
  BY <1>4, <1>6, QuietCalls, QuietFails
<1>7. /\ SubRunCalls \cap RunCalls = {} /\ "none" \notin RunCalls /\ "readEvent" \notin RunCalls
      /\ "finalizeAllSubRuns" \in SubRunCalls
  BY DEF SubRunCalls, RunCalls
<1>8. CASE ReadAndCacheSubRun
  <2>1. Simple("readAndCacheSubRun", "none") /\ handleSubRuns' = handleSubRuns /\ (Returns \/ Throws)
    BY <1>8, SubRunFlows DEF ReadAndCacheSubRun, objects
  <2>2. IsEmpty' <=> IsEmpty
    BY <2>1 DEF IsEmpty
  <2> QED
    BY <1>5, <1>6, <1>7, <2>1, <2>2 DEF Simple, SubRunCalls
<1>9. handleSubRuns \in SubRunFields
  BY DEF OrderInv, TypeInv, DataOK
<1>10. CASE SetupCurrentSubRun
  <2>1. Simple("setupCurrentSubRun", "none") /\ "setupCurrentSubRun" \in SubRunCalls \ {"finalizeAllSubRuns"}
    BY <1>10, SubRunFlows DEF SubRunCalls
  <2>2. \/ Returns /\ IsEmpty'
        \/ Throws /\ (IsEmpty' <=> IsEmpty)
    BY <1>9, <1>10 DEF SetupCurrentSubRun, AcceptedSubRun, IsEmpty, SubRunFields
  <2> QED
    BY <1>5, <1>6, <1>7, <2>1, <2>2 DEF Simple
<1>11. CASE FinalizeAllSubRuns
  <2>1. /\ NextCall = "finalizeAllSubRuns" /\ (IsEmpty' <=> IsEmpty)
        /\ Goes(IF handleSubRuns.exception \/ handleRuns.runException THEN "none" ELSE "finalizeSubRun")
    BY <1>11, FinalizeAllFlow DEF FinalizeAllSubRuns, objects, IsEmpty
  <2>2. RunBroken /\ depth = 3 => IsEmpty
    BY DEF RunInv, RunBrokenFits
  <2>3. /\ NextCall \in Calls \ RunCalls /\ "finalizeSubRun" \notin RunCalls /\ "none" \notin RunCalls
    BY <2>1, <1>7, QuietCalls DEF RunCalls
  <2>4. PICK next : /\ next = IF handleSubRuns.exception \/ handleRuns.runException THEN "none" ELSE "finalizeSubRun"
                    /\ Goes(next) /\ (RunBroken => next = "none")
    BY <2>1 DEF RunBroken
  <2> QED
    BY <1>4, <2>1, <2>2, <2>3, <2>4, QuietGoes
<1>12. CASE FinalizeSubRun
  <2>1. /\ NextCall = "finalizeSubRun" /\ Goes(FinalizesWith)
        /\ FinalizesWith \in {"endSubRun", "writeSubRun", "clearCurrentSubRun", "beginSubRun"}
    BY <1>12, FinalizeSubRunFlow DEF FinalizesWith
  <2>2. IsEmpty' <=> IsEmpty
    BY <1>9, <1>12 DEF FinalizeSubRun, IsEmpty, SubRunFields
  <2> QED
    BY <1>5, <1>7, <2>1, <2>2 DEF SubRunCalls
<1>13. CASE ClearCurrentSubRun
  <2>1. /\ NextCall = "clearCurrentSubRun" /\ (IsEmpty' <=> IsEmpty)
        /\ Goes(IF phase = "construct" THEN "setupCurrentSubRun" ELSE "finalizeOutstandingSubRuns")
    BY <1>9, <1>13, SubRunFlows DEF ClearCurrentSubRun, IsEmpty, SubRunFields, Simple
  <2> QED
    BY <1>5, <1>7, <2>1 DEF SubRunCalls
<1>14. CASE FinalizeOutstandingSubRuns
  <2>1. NextCall = "finalizeOutstandingSubRuns" /\ (IsEmpty' <=> IsEmpty) /\ Goes("nextOutstanding")
    BY <1>9, <1>14, FinalizeOutstandingFlow DEF FinalizeOutstandingSubRuns, IsEmpty, SubRunFields
  <2> QED
    BY <1>5, <1>7, <2>1 DEF SubRunCalls
<1>15. CASE NextOutstanding
  <2>1. NextCall = "nextOutstanding" /\ (IsEmpty' <=> IsEmpty)
        /\ (Goes("beginSubRun") \/ Goes("startSubRun") \/ Goes("none"))
    BY <1>9, <1>15, NextOutstandingFlow DEF NextOutstanding, IsEmpty, SubRunFields
  <2> QED
    BY <1>5, <1>7, <2>1 DEF SubRunCalls
<1>16. CASE MarkSubRunNonEmpty
  <2>1. NextCall = "markSubRunNonEmpty" /\ (IsEmpty' <=> IsEmpty)
        /\ (Goes("finalizeOutstandingSubRuns") \/ Goes("readEvent"))
    BY <1>16, MarkSubRunNonEmptyFlow DEF MarkSubRunNonEmpty, IsEmpty, objects
  <2> QED
    BY <1>5, <1>7, <2>1 DEF SubRunCalls
<1>17. CASE StartSubRun
  <2>1. NextCall = "startSubRun" /\ (IsEmpty' <=> IsEmpty) /\ Goes("beginSubRun")
    BY <1>9, <1>17, StartSubRunFlow DEF StartSubRun, IsEmpty, SubRunFields
  <2> QED
    BY <1>5, <1>7, <2>1 DEF SubRunCalls
<1>18. CASE SubRunStarted
  <2>1. NextCall = "subRunStarted" /\ Goes("readEvent") /\ leaf = "HandleEvent" /\ phase = "construct"
    BY <1>18, SubRunFlows DEF SubRunStarted, Simple, OrderInv, InPlace, EventCalls, Constructs
  <2> QED
    BY <1>5, <1>7, <2>1 DEF SubRunCalls
<1>19. CASE BeginSubRun
  <2>1. Simple("beginSubRun", IF StartsSubRun THEN "subRunStarted" ELSE "endSubRun") /\ (IsEmpty' <=> IsEmpty) /\ (Returns \/ Throws)
    BY <1>19, SubRunFlows DEF BeginSubRun, IsEmpty, objects
  <2> QED
    BY <1>5, <1>6, <1>7, <2>1 DEF SubRunCalls, Simple
<1>20. CASE EndSubRun
  <2>1. Simple("endSubRun", IF WritesSubRunsAtEnd THEN "writeSubRun" ELSE AfterTurn) /\ (IsEmpty' <=> IsEmpty) /\ (Returns \/ Throws)
    BY <1>20, SubRunFlows DEF EndSubRun, IsEmpty, objects
  <2> QED
    BY <1>5, <1>6, <1>7, <2>1 DEF SubRunCalls, Simple, AfterTurn
<1>21. CASE WriteSubRun
  <2>1. Simple("writeSubRun", AfterTurn) /\ (IsEmpty' <=> IsEmpty) /\ (Returns \/ Throws)
    BY <1>9, <1>21, SubRunFlows DEF WriteSubRun, IsEmpty, SubRunFields
  <2> QED
    BY <1>5, <1>6, <1>7, <2>1 DEF SubRunCalls, Simple, AfterTurn
<1> QED
  BY <1>8, <1>10, <1>11, <1>12, <1>13, <1>14, <1>15, <1>16, <1>17, <1>18, <1>19, <1>20, <1>21 DEF SubRunStep

-----------------------------------------------------------------------------
(* The statements about runs.                                               *)

LEMMA RunPlaces ==
  ASSUME OrderInv
  PROVE  /\ NextCall = "setupCurrentRun" => phase = "construct" /\ leaf = "NewRun" /\ depth = 2
                                            /\ primary = "none" /\ move.target = "NewRun"
         /\ NextCall = "readAndCacheRun" => /\ phase = "construct" /\ leaf \in {"ContinueRun1", "ContinueRun2"}
                                            /\ depth \in 2..3 /\ primary = "none" /\ leaf = move.target
         /\ NextCall = "beginRun" => /\ phase = "construct" /\ primary = "none"
                                     /\ (leaf = "NewRun" /\ depth = 2) \/ (leaf = "HandleEvent" /\ depth = 3)
         /\ NextCall = "beginRunIfNotDoneAlready" => phase = "construct" /\ leaf = "HandleEvent" /\ depth = 3
                                                     /\ primary = "none"
         /\ NextCall \in RunEnds => depth = 2 /\ (GoesDown \/ (phase = "action" /\ move.target = "NewRun"))
<1>1. ParentDepth("NewRun") = 2 /\ ParentDepth("HandleEvent") = 3
      /\ ParentDepth("ContinueRun1") = 2 /\ ParentDepth("ContinueRun2") = 3
  BY DEF ParentDepth, FileLeaves, RunLeaves, SubRunLeaves
<1> QED
  BY <1>1 DEF OrderInv, InPlace, Between, Constructs, EventCalls

LEMMA RunInvFrom ==
  ASSUME RunKnown', RunCallsFit', RunBrokenFits', RunBeginsAtOnce', EventRun', RunCached', RunBegun', RunOffered'
  PROVE  RunInv'
  BY DEF RunInv

\* The continuation of a run reads the run that is current.
LEMMA ReadAndCacheRunKeeps == OrderInv /\ RunInv /\ ReadAndCacheRun => RunInv'
<1> SUFFICES ASSUME OrderInv, RunInv, ReadAndCacheRun PROVE RunInv'
  OBVIOUS
<1>1. Simple("readAndCacheRun", "none") /\ (Returns \/ Throws)
  BY RunFlows DEF ReadAndCacheRun
<1>2. /\ NextCall = "readAndCacheRun"
      /\ phase = "construct" /\ leaf \in {"ContinueRun1", "ContinueRun2"}
      /\ depth \in 2..3 /\ primary = "none" /\ leaf = move.target
  BY <1>1, RunPlaces DEF Simple
<1>3. UNCHANGED <<handleRuns, handleSubRuns, begun>>
  BY DEF ReadAndCacheRun, objects
<1>4. SameRun /\ (IsEmpty' <=> IsEmpty)
  BY <1>3, SameRuns DEF IsEmpty
<1>5. ~RunBroken /\ run # NoRun
  BY <1>2 DEF RunInv, RunBrokenFits, RunKnown, RunLeft, GoesDown
<1>6. source.run = run
  BY <1>2, <1>5 DEF RunInv, RunOffered
<1>7. run \in cache.runs /\ cache.currentRun = run
  BY <1>2, <1>5 DEF RunInv, RunCached
<1>8. cache'.currentRun = run /\ run \in cache'.runs
  <2>1. cache \in Cache
    BY DEF OrderInv, TypeInv, DataOK
  <2> QED
    BY <1>6, <1>7, <2>1 DEF ReadAndCacheRun, CachesRun, CachesNothing, InsertRun, Cache
<1>9. CASE Throws
  <2>1. Fails
    BY <1>1, <1>9 DEF Simple
  <2>2. RunInv'
    BY <1>2, <1>4, <1>5, <1>6, <1>8, <2>1, RunFails
       DEF SameRun, GoesDown, RunInv, RunBeginsAtOnce, EventRun, RunBegun
  <2> QED
    BY <2>2
<1>10. CASE Returns
  <2>1. NextCall' = "none" /\ UNCHANGED <<config, phase, depth, leaf, move, source, primary>>
    BY <1>1, <1>10 DEF Simple, Goes
  <2>2. RunKnown' /\ RunCallsFit' /\ RunBrokenFits'
    BY <1>2, <1>4, <1>5, <2>1 DEF RunKnown, RunCallsFit, RunBrokenFits, SameRun, RunLeft, GoesDown
  <2>3. RunBeginsAtOnce' /\ EventRun'
    BY <1>2, <1>4, <2>1 DEF RunInv, RunBeginsAtOnce, EventRun, SameRun, GoesDown
  <2>4. RunCached' /\ RunBegun' /\ RunOffered'
    BY <1>2, <1>4, <1>5, <1>6, <1>8, <2>1 DEF RunInv, RunBegun, RunCached, RunOffered, SameRun
  <2> QED
    BY <2>2, <2>3, <2>4, RunInvFrom
<1> QED
  BY <1>1, <1>9, <1>10

LEMMA SetupCurrentRunKeeps == OrderInv /\ RunInv /\ SetupCurrentRun => RunInv'
<1> SUFFICES ASSUME OrderInv, RunInv, SetupCurrentRun PROVE RunInv'
  OBVIOUS
<1>1. /\ NextCall = "setupCurrentRun"
      /\ Expands(IF config.handleEmptyRuns THEN <<"beginRun">> ELSE <<>>) =>
           Goes(IF config.handleEmptyRuns THEN "beginRun" ELSE "none")
      /\ Throws => Fails
  BY SetupCurrentRunFlow
<1>2. phase = "construct" /\ leaf = "NewRun" /\ depth = 2 /\ primary = "none" /\ move.target = "NewRun"
  BY <1>1, RunPlaces
<1>3. handleRuns \in RunFields /\ cache \in Cache /\ begun' = begun /\ handleSubRuns' = handleSubRuns
  BY DEF OrderInv, TypeInv, DataOK, SetupCurrentRun
<1>4. IsEmpty /\ IsEmpty'
  BY <1>2, <1>3, NotEmptyInside DEF IsEmpty
<1>5. run = NoRun /\ ~Began /\ ~RunBroken /\ begun'.runs = {}
  BY <1>1, <1>3 DEF RunInv, RunCallsFit, RunBegun
<1>6. source.run \in Runs /\ source.run # NoRun
  <2>1. source.run \in Runs
    BY <1>2 DEF OrderInv, TypeInv, Control, SourceFits, RunTargets
  <2> QED
    BY <2>1, IdAssumption DEF NoRun
<1>7. /\ ~Began'
      /\ \/ Fails /\ RunBroken' /\ run' = NoRun
         \/ Fails /\ RunBroken' /\ run' = source.run /\ CachesRun
         \/ /\ Goes(IF config.handleEmptyRuns THEN "beginRun" ELSE "none")
            /\ ~RunBroken' /\ run' = source.run /\ CachesRun
  BY <1>1, <1>3, <1>5 DEF SetupCurrentRun, RunFields, run, Began, RunBroken
<1>8. CachesRun => source.run \in cache'.runs /\ cache'.currentRun = source.run
  BY <1>3 DEF CachesRun, InsertRun, Cache
<1>9. CASE Fails /\ RunBroken'
  BY <1>1, <1>2, <1>4, <1>5, <1>7, <1>8, <1>9, RunFails DEF GoesDown
<1>10. CASE Goes(IF config.handleEmptyRuns THEN "beginRun" ELSE "none") /\ ~RunBroken' /\ run' = source.run /\ CachesRun
  <2>1. /\ NextCall' = IF config.handleEmptyRuns THEN "beginRun" ELSE "none"
        /\ UNCHANGED <<config, phase, depth, leaf, move, source, primary>>
    BY <1>10 DEF Goes
  <2>2. RunKnown' /\ RunCallsFit' /\ RunBrokenFits'
    BY <1>2, <1>6, <1>7, <1>10, <2>1 DEF RunKnown, RunCallsFit, RunBrokenFits, RunLeft, GoesDown
  <2>3. RunBeginsAtOnce' /\ EventRun'
    BY <1>2, <1>4, <2>1 DEF RunBeginsAtOnce, EventRun
  <2>4. RunCached' /\ RunBegun' /\ RunOffered'
    BY <1>2, <1>5, <1>7, <1>8, <1>10, <2>1 DEF RunBegun, RunCached, RunOffered
  <2> QED
    BY <2>2, <2>3, <2>4, RunInvFrom
<1> QED
  BY <1>7, <1>9, <1>10

LEMMA BeginRunIfNotKeeps == OrderInv /\ RunInv /\ BeginRunIfNotDoneAlready => RunInv'
<1> SUFFICES ASSUME OrderInv, RunInv, BeginRunIfNotDoneAlready PROVE RunInv'
  OBVIOUS
<1>1. /\ NextCall = "beginRunIfNotDoneAlready"
      /\ Goes(IF Began THEN "markSubRunNonEmpty" ELSE "beginRun")
  BY BeginRunIfNotFlow DEF Began
<1>2. phase = "construct" /\ leaf = "HandleEvent" /\ depth = 3 /\ primary = "none"
  BY <1>1, RunPlaces
<1>3. UNCHANGED <<handleRuns, handleSubRuns, cache, begun>>
  BY DEF BeginRunIfNotDoneAlready, objects, history
<1>4. SameRun /\ (IsEmpty' <=> IsEmpty)
  BY <1>3, SameRuns DEF IsEmpty
<1>5. ~RunBroken /\ run # NoRun
  BY <1>1, <1>2 DEF RunInv, RunBrokenFits, RunKnown
<1>6. /\ NextCall' = IF Began THEN "markSubRunNonEmpty" ELSE "beginRun"
      /\ UNCHANGED <<config, phase, depth, leaf, move, source, primary>>
  BY <1>1 DEF Goes
<1>7. RunKnown' /\ RunCallsFit' /\ RunBrokenFits'
  BY <1>2, <1>4, <1>5, <1>6 DEF RunInv, RunKnown, RunCallsFit, RunBrokenFits, SameRun, RunLeft, GoesDown
<1>8. RunBeginsAtOnce' /\ EventRun'
  BY <1>1, <1>2, <1>4, <1>6 DEF RunInv, RunBeginsAtOnce, EventRun, SameRun
<1>9. RunCached' /\ RunBegun' /\ RunOffered'
  BY <1>1, <1>2, <1>3, <1>4, <1>5, <1>6 DEF RunInv, RunBegun, RunCached, RunOffered, SameRun
<1> QED
  BY <1>7, <1>8, <1>9, RunInvFrom

LEMMA BeginRunKeeps == OrderInv /\ RunInv /\ BeginRun => RunInv'
<1> SUFFICES ASSUME OrderInv, RunInv, BeginRun PROVE RunInv'
  OBVIOUS
<1>1. Simple("beginRun", IF leaf = "HandleEvent" THEN "markSubRunNonEmpty" ELSE "none")
  BY RunFlows
<1>2. /\ NextCall = "beginRun" /\ phase = "construct" /\ primary = "none"
      /\ (leaf = "NewRun" /\ depth = 2) \/ (leaf = "HandleEvent" /\ depth = 3)
  BY <1>1, RunPlaces DEF Simple
<1>3. /\ handleRuns \in RunFields /\ begun \in Ids /\ UNCHANGED <<handleSubRuns, cache>>
  BY DEF OrderInv, TypeInv, DataOK, BeginRun
<1>4. IsEmpty' <=> IsEmpty
  BY <1>3 DEF IsEmpty
<1>5. ~Began /\ ~RunBroken /\ run # NoRun /\ IsEmpty /\ begun.runs = {}
  BY <1>2 DEF RunInv, RunCallsFit, RunBrokenFits, RunKnown, RunLeft, GoesDown, EventRun, RunBegun
<1>6. /\ run' = run /\ Began'
      /\ \/ Returns /\ ~RunBroken' /\ begun'.runs = {run} \ FlushRuns
         \/ Throws /\ RunBroken' /\ begun'.runs = {}
  BY <1>3, <1>5 DEF BeginRun, RunFields, Ids, run, Began, RunBroken
<1>7. run \in cache'.runs /\ cache'.currentRun = run /\ (move.target # "NewRun" => source.run = run)
  BY <1>2, <1>3, <1>5 DEF RunInv, RunCached, RunOffered
<1>8. CASE Throws /\ RunBroken' /\ begun'.runs = {}
  <2>1. Fails
    BY <1>1, <1>8 DEF Simple
  <2> QED
    BY <1>2, <1>4, <1>5, <1>6, <1>7, <1>8, <2>1, RunFails DEF GoesDown
<1>9. CASE Returns /\ ~RunBroken' /\ begun'.runs = {run} \ FlushRuns
  <2>1. /\ NextCall' = IF leaf = "HandleEvent" THEN "markSubRunNonEmpty" ELSE "none"
        /\ UNCHANGED <<config, phase, depth, leaf, move, source, primary>>
    BY <1>1, <1>9 DEF Simple, Goes
  <2>2. RunKnown' /\ RunCallsFit' /\ RunBrokenFits'
    BY <1>2, <1>5, <1>6, <1>9, <2>1 DEF RunKnown, RunCallsFit, RunBrokenFits, RunLeft, GoesDown
  <2>3. RunBeginsAtOnce' /\ EventRun'
    BY <1>6 DEF RunBeginsAtOnce, EventRun
  <2>4. source.run = run
    BY <1>2, <1>5 DEF RunInv, RunOffered
  <2>5. RunCached' /\ RunBegun' /\ RunOffered'
    BY <1>6, <1>7, <1>9, <2>1, <2>4 DEF RunBegun, RunCached, RunOffered
  <2> QED
    BY <2>2, <2>3, <2>5, RunInvFrom
<1> QED
  BY <1>6, <1>8, <1>9

LEMMA RunEndPlaces ==
  ASSUME OrderInv, RunInv, NextCall \in RunEnds
  PROVE  /\ depth = 2 /\ IsEmpty
         /\ GoesDown \/ (phase = "action" /\ move.target = "NewRun")
         /\ phase = "action" => primary = "none"
         /\ ~RunLeft
<1>1. depth = 2 /\ (GoesDown \/ (phase = "action" /\ move.target = "NewRun"))
  BY RunPlaces
<1>2. NextCall # "none"
  BY DEF RunEnds
<1> QED
  BY <1>1, <1>2, NotEmptyInside DEF RunLeft, OrderInv, Between

LEMMA FinalizeRunKeeps == OrderInv /\ RunInv /\ FinalizeRun => RunInv'
<1> SUFFICES ASSUME OrderInv, RunInv, FinalizeRun PROVE RunInv'
  OBVIOUS
<1>1. /\ NextCall = "finalizeRun"
      /\ Goes(IF RunBroken THEN "none"
              ELSE IF Began THEN "endRun"
              ELSE IF WritesRunsAtEnd THEN "writeRun" ELSE "clearCurrentRun")
  BY FinalizeRunFlow DEF RunBroken, Began
<1>2. /\ depth = 2 /\ IsEmpty /\ (GoesDown \/ (phase = "action" /\ move.target = "NewRun"))
      /\ phase = "action" => primary = "none"
      /\ ~RunLeft
  BY <1>1, RunEndPlaces DEF RunEnds
<1>3. handleRuns \in RunFields /\ UNCHANGED <<handleSubRuns, cache, begun>>
  BY DEF OrderInv, TypeInv, DataOK, FinalizeRun, history
<1>4. IsEmpty'
  BY <1>2, <1>3 DEF IsEmpty
<1>5. /\ run' = run /\ (Began' <=> Began) /\ RunBroken'
  BY <1>3 DEF FinalizeRun, RunFields, run, Began, RunBroken
<1>6. ~RunBroken => run # NoRun
  BY <1>1, <1>2 DEF RunInv, RunKnown
<1>7. RunBroken /\ primary = "none" => FALSE
  BY <1>1 DEF RunInv, RunBrokenFits
<1>8. /\ NextCall' = IF RunBroken THEN "none"
                     ELSE IF Began THEN "endRun"
                     ELSE IF WritesRunsAtEnd THEN "writeRun" ELSE "clearCurrentRun"
      /\ UNCHANGED <<config, phase, depth, leaf, move, source, primary>>
  BY <1>1 DEF Goes
<1>9. RunKnown'
  BY <1>2, <1>5, <1>6, <1>7, <1>8 DEF RunInv, RunKnown, RunLeft, GoesDown
<1>10. RunCallsFit'
  BY <1>5, <1>6, <1>8 DEF RunInv, RunKnown, RunCallsFit
<1>11. RunBrokenFits'
  BY <1>2, <1>7, <1>8 DEF RunBrokenFits
<1>12. RunBeginsAtOnce' /\ EventRun'
  BY <1>2, <1>4, <1>8 DEF RunBeginsAtOnce, EventRun, GoesDown
<1>13. RunCached' /\ RunOffered'
  BY <1>1, <1>2, <1>3, <1>5, <1>8 DEF RunInv, RunCached, RunOffered
<1>14. RunBegun'
  BY <1>1, <1>3, <1>5, <1>8 DEF RunInv, RunBegun
<1> QED
  BY <1>9, <1>10, <1>11, <1>12, <1>13, <1>14, RunInvFrom

LEMMA EndRunKeeps == OrderInv /\ RunInv /\ EndRun => RunInv'
<1> SUFFICES ASSUME OrderInv, RunInv, EndRun PROVE RunInv'
  OBVIOUS
<1>1. Simple("endRun", IF WritesRunsAtEnd THEN "writeRun" ELSE "clearCurrentRun")
  BY RunFlows
<1>2. /\ NextCall = "endRun" /\ depth = 2 /\ IsEmpty /\ (GoesDown \/ (phase = "action" /\ move.target = "NewRun"))
      /\ phase = "action" => primary = "none"
      /\ ~RunLeft
  BY <1>1, RunEndPlaces DEF RunEnds, Simple
<1>3. handleRuns \in RunFields /\ begun \in Ids /\ UNCHANGED <<handleSubRuns, cache>>
  BY DEF OrderInv, TypeInv, DataOK, EndRun
<1>4. IsEmpty'
  BY <1>2, <1>3 DEF IsEmpty
<1>5. Began /\ run # NoRun /\ begun.runs = {run} \ FlushRuns
  BY <1>2 DEF RunInv, RunCallsFit, RunBegun
<1>6. /\ run' = run /\ ~Began' /\ begun'.runs = {}
      /\ (Returns /\ ~RunBroken') \/ (Throws /\ RunBroken')
  BY <1>3, <1>5 DEF EndRun, RunFields, Ids, run, Began, RunBroken
<1>7. run \in cache'.runs /\ cache'.currentRun = run
  BY <1>2, <1>3, <1>5 DEF RunInv, RunCached
<1>8. move.target # "NewRun" => source.run = run
  BY <1>5 DEF RunInv, RunOffered
<1>9. CASE Throws /\ RunBroken'
  <2>1. Fails
    BY <1>1, <1>9 DEF Simple
  <2> QED
    BY <1>2, <1>4, <1>5, <1>6, <1>7, <1>8, <1>9, <2>1, RunFails DEF GoesDown
<1>10. CASE Returns /\ ~RunBroken'
  <2>1. /\ NextCall' = IF WritesRunsAtEnd THEN "writeRun" ELSE "clearCurrentRun"
        /\ UNCHANGED <<config, phase, depth, leaf, move, source, primary>>
    BY <1>1, <1>10 DEF Simple, Goes
  <2>2. RunKnown' /\ RunCallsFit' /\ RunBrokenFits'
    BY <1>2, <1>5, <1>6, <1>10, <2>1 DEF RunKnown, RunCallsFit, RunBrokenFits, RunLeft
  <2>3. RunBeginsAtOnce' /\ EventRun'
    BY <1>2, <1>4, <2>1 DEF RunBeginsAtOnce, EventRun, GoesDown
  <2>5. RunCached' /\ RunBegun' /\ RunOffered'
    BY <1>2, <1>6, <1>7, <1>8, <2>1 DEF RunBegun, RunCached, RunOffered, GoesDown
  <2> QED
    BY <2>2, <2>3, <2>5, RunInvFrom
<1> QED
  BY <1>6, <1>9, <1>10

LEMMA WriteRunKeeps == OrderInv /\ RunInv /\ WriteRun => RunInv'
<1> SUFFICES ASSUME OrderInv, RunInv, WriteRun PROVE RunInv'
  OBVIOUS
<1>1. Simple("writeRun", "clearCurrentRun")
  BY RunFlows
<1>2. /\ NextCall = "writeRun" /\ depth = 2 /\ IsEmpty /\ (GoesDown \/ (phase = "action" /\ move.target = "NewRun"))
      /\ phase = "action" => primary = "none"
      /\ ~RunLeft
  BY <1>1, RunEndPlaces DEF RunEnds, Simple
<1>3. /\ handleRuns \in RunFields /\ begun \in Ids /\ cache \in Cache /\ UNCHANGED <<handleSubRuns, begun>>
  BY DEF OrderInv, TypeInv, DataOK, WriteRun
<1>4. IsEmpty'
  BY <1>2, <1>3 DEF IsEmpty
<1>5. ~Began /\ run # NoRun /\ begun.runs = {} /\ run \in cache.runs /\ cache.currentRun = run
  BY <1>2 DEF RunInv, RunCallsFit, RunBegun, RunCached
<1>6. /\ run' = run /\ ~Began' /\ (RunBroken' <=> RunBroken)
      /\ (Returns /\ cache'.currentRun = run) \/ (Throws /\ cache' = cache)
  BY <1>3, <1>5 DEF WriteRun, WritesRun, DeleteRun, RunFields, Cache, run, Began, RunBroken
<1>8. move.target # "NewRun" => source.run = run
  BY <1>5 DEF RunInv, RunOffered
<1>9. CASE Throws /\ cache' = cache
  <2>1. Fails
    BY <1>1, <1>9 DEF Simple
  <2>2. RunBroken' /\ GoesDown /\ primary = "none" => (depth = 2 /\ phase = "destroy") \/ phase = "exit"
    BY <1>2 DEF GoesDown
  <2>3. begun'.runs = IF Began' /\ ~RunBroken' THEN {run'} \ FlushRuns ELSE {}
    BY <1>3, <1>5, <1>6
  <2> QED
    BY <1>2, <1>4, <1>5, <1>6, <1>8, <1>9, <2>1, <2>2, <2>3, RunFails
<1>10. CASE Returns /\ cache'.currentRun = run
  <2>1. /\ NextCall' = "clearCurrentRun"
        /\ UNCHANGED <<config, phase, depth, leaf, move, source, primary>>
    BY <1>1, <1>10 DEF Simple, Goes
  <2>2. RunKnown' /\ RunCallsFit' /\ RunBrokenFits'
    BY <1>2, <1>5, <1>6, <1>10, <2>1 DEF RunKnown, RunCallsFit, RunBrokenFits, RunLeft
  <2>3. RunBeginsAtOnce' /\ EventRun'
    BY <1>2, <1>4, <2>1 DEF RunBeginsAtOnce, EventRun, GoesDown
  <2>5. RunCached' /\ RunBegun' /\ RunOffered'
    BY <1>2, <1>3, <1>5, <1>6, <1>8, <1>10, <2>1 DEF RunBegun, RunCached, RunOffered, GoesDown
  <2> QED
    BY <2>2, <2>3, <2>5, RunInvFrom
<1> QED
  BY <1>6, <1>9, <1>10

LEMMA ClearCurrentRunKeeps == OrderInv /\ RunInv /\ ClearCurrentRun => RunInv'
<1> SUFFICES ASSUME OrderInv, RunInv, ClearCurrentRun PROVE RunInv'
  OBVIOUS
<1>1. Simple("clearCurrentRun", "none") /\ Returns
  BY RunFlows DEF ClearCurrentRun
<1>2. /\ NextCall = "clearCurrentRun" /\ depth = 2 /\ IsEmpty /\ (GoesDown \/ (phase = "action" /\ move.target = "NewRun"))
      /\ phase = "action" => primary = "none"
  BY <1>1, RunEndPlaces DEF RunEnds, Simple
<1>3. /\ handleRuns \in RunFields /\ UNCHANGED <<handleSubRuns, begun, cache>>
  BY DEF OrderInv, TypeInv, DataOK, ClearCurrentRun, history
<1>4. IsEmpty'
  BY <1>2, <1>3 DEF IsEmpty
<1>5. ~Began /\ begun.runs = {}
  BY <1>2 DEF RunInv, RunCallsFit, RunBegun
<1>6. run' = NoRun /\ ~Began' /\ ~RunBroken'
  BY <1>3, <1>5 DEF ClearCurrentRun, RunFields, run, Began, RunBroken
<1>7. /\ NextCall' = "none"
      /\ UNCHANGED <<config, phase, depth, leaf, move, source, primary>>
  BY <1>1 DEF Simple, Goes
<1>8. RunKnown' /\ RunCallsFit' /\ RunBrokenFits'
  BY <1>2, <1>6, <1>7 DEF RunKnown, RunCallsFit, RunBrokenFits, RunLeft, GoesDown
<1>9. RunBeginsAtOnce' /\ EventRun'
  BY <1>2, <1>4, <1>7 DEF RunBeginsAtOnce, EventRun, GoesDown
<1>10. RunCached' /\ RunBegun' /\ RunOffered'
  BY <1>3, <1>5, <1>6 DEF RunBegun, RunCached, RunOffered
<1> QED
  BY <1>8, <1>9, <1>10, RunInvFrom

LEMMA RunKeeps == OrderInv /\ RunInv /\ RunStep => RunInv'
  BY ReadAndCacheRunKeeps, SetupCurrentRunKeeps, BeginRunIfNotKeeps, BeginRunKeeps, EndRunKeeps,
     FinalizeRunKeeps, WriteRunKeeps, ClearCurrentRunKeeps DEF RunStep

-----------------------------------------------------------------------------
(* The transitions and the run.                                             *)

LEMMA RunOutside ==
  ASSUME depth' < 2, run' = NoRun, ~Began', ~RunBroken', begun'.runs = {}, IsEmpty',
         NextCall' \notin {"endRun", "writeRun", "clearCurrentRun"},
         ~(leaf' = "HandleEvent" /\ phase' \in {"construct", "stable"}),
         depth' \in 0..3
  PROVE  RunInv'
<1>1. RunKnown' /\ RunCallsFit' /\ RunBrokenFits'
  BY DEF RunKnown, RunCallsFit, RunBrokenFits, RunLeft
<1>2. RunBeginsAtOnce' /\ EventRun' /\ RunCached' /\ RunBegun' /\ RunOffered'
  BY DEF RunBeginsAtOnce, EventRun, RunCached, RunBegun, RunOffered
<1> QED
  BY <1>1, <1>2, RunInvFrom

LEMMA RunInside ==
  ASSUME RunInv, depth' \in 2..3, SameRun, run # NoRun, NextCall \notin {"endRun", "clearCurrentRun"},
         RunBroken => depth' = 2 /\ primary' # "none",
         NextCall' \notin {"setupCurrentRun", "beginRun", "endRun", "writeRun", "clearCurrentRun"},
         ~RunLeft', config' = config, cache' = cache,
         ~IsEmpty' => Began,
         config.handleEmptyRuns => Began \/ (depth' = 2 /\ GoesDown'),
         leaf' = "HandleEvent" /\ phase' \in {"construct", "stable"}
           /\ NextCall' \notin {"beginRunIfNotDoneAlready", "beginRun"} => Began,
         (move'.target = "NewRun" => phase' \in {"construct", "stable"}) => source'.run = run
  PROVE  RunInv'
<1>1. RunKnown' /\ RunCallsFit' /\ RunBrokenFits'
  BY DEF RunInv, RunKnown, RunCallsFit, RunBrokenFits, SameRun
<1>2. RunBeginsAtOnce' /\ EventRun'
  BY DEF RunBeginsAtOnce, EventRun, SameRun
<1>3. RunCached' /\ RunBegun'
  BY DEF RunInv, RunCached, RunBegun, SameRun
<1>4. RunOffered'
  BY DEF RunOffered, SameRun
<1> QED
  BY <1>1, <1>2, <1>3, <1>4, RunInvFrom

\* When the machine neither leaves nor changes runs nothing is missing.
LEMMA RunWaits ==
  ASSUME OrderInv, RunInv, NextCall = "none", depth >= 2, primary = "none",
         ~(depth = 2 /\ GoesDown), phase = "action" => move.target # "NewRun" \/ depth = 3
  PROVE  /\ ~RunBroken /\ run # NoRun
         /\ config.handleEmptyRuns => Began
<1>1. depth \in 2..3
  BY DEF OrderInv, TypeInv, Control, ControlOK
<1>2. ~RunBroken
  BY <1>1 DEF RunInv, RunBrokenFits, GoesDown
<1>3. run # NoRun
  BY <1>1, <1>2 DEF RunInv, RunKnown, RunLeft
<1>4. config.handleEmptyRuns => Began
  BY <1>1 DEF RunInv, RunBeginsAtOnce
<1> QED
  BY <1>2, <1>3, <1>4

LEMMA FirstCleanUps ==
  /\ FirstCleanUp(0) = "none" /\ FirstCleanUp(1) = "writeSubRunCache"
  /\ FirstCleanUp(2) = "finalizeRun" /\ FirstCleanUp(3) = "finalizeAllSubRuns"
  BY DEF FirstCleanUp

LEMMA FirstActions ==
  /\ FirstAction("finalizeRun") = "finalizeRun"
  /\ \A action : FirstAction(action) \in {"none", "finalizeRun", "rewindInput"}
  BY DEF FirstAction

\* With one or two composites left, what the transition goes on with.
LEMMA ProceedsWith ==
  ASSUME NEW d \in 0..3, NEW m, NEW handling, Proceeds(d, m, handling), MoveIs(m),
         d = 2 => leaf \notin FileLeaves
  PROVE  /\ phase' \in {"exit", "destroy", "action"}
         /\ NextCall' \in {"none", "writeSubRunCache", "finalizeRun", "finalizeAllSubRuns", "rewindInput"}
         /\ d = 2 /\ NextCall' = "none" => phase' = "action" /\ m.target # "NewRun"
<1>1. CASE phase' = (IF handling THEN "destroy" ELSE "exit") /\ NextCall' = FirstCleanUp(d)
  BY <1>1, FirstCleanUps
<1>2. CASE phase' = "action" /\ NextCall' = FirstAction(m.action)
  BY <1>2, FirstActions DEF MoveIs
<1> QED
  BY <1>1, <1>2 DEF Proceeds

LEMMA BeginsRun ==
  ASSUME OrderInv, RunInv, NEW m, Begins(m),
         m.target # "NewRun" /\ run # NoRun => source'.run = run
  PROVE  RunInv'
<1>1. /\ phase = "stable" /\ NextCall = "none" /\ leaf = move.target /\ depth = ParentDepth(leaf)
      /\ move' = m /\ MoveIs(m) /\ Proceeds(depth, m, external')
      /\ UNCHANGED <<config, depth, leaf, primary, handleRuns, handleSubRuns, cache, begun>>
      /\ primary = "none" /\ depth \in 0..3
  BY WaitsFor DEF Begins, OrderInv, TypeInv, Control, ControlOK
<1>2. depth = 2 => leaf \notin FileLeaves
  BY <1>1 DEF ParentDepth, FileLeaves, RunLeaves, SubRunLeaves
<1>3. /\ phase' \in {"exit", "destroy", "action"}
      /\ NextCall' \in {"none", "writeSubRunCache", "finalizeRun", "finalizeAllSubRuns", "rewindInput"}
      /\ depth = 2 /\ NextCall' = "none" => phase' = "action" /\ m.target # "NewRun"
  BY <1>1, <1>2, ProceedsWith
<1>4. SameRun /\ (IsEmpty' <=> IsEmpty)
  BY <1>1, SameRuns DEF IsEmpty
<1>5. CASE depth < 2
  BY <1>1, <1>3, <1>4, <1>5, NoRunOutside, NotEmptyInside, RunOutside DEF SameRun, RunInv, RunBegun
<1>6. CASE depth >= 2
  <2>1. ~RunBroken /\ run # NoRun /\ (config.handleEmptyRuns => Began)
    BY <1>1, <1>6, RunWaits DEF GoesDown
  <2>2. ~RunLeft'
    BY <1>1, <1>3 DEF RunLeft, GoesDown
  <2>3. ~IsEmpty' => Began
    BY <1>4 DEF RunInv, EventRun
  <2>4. move'.target # "NewRun" => source'.run = run
    BY <1>1, <2>1
  <2> QED
    BY <1>1, <1>3, <1>4, <1>6, <2>1, <2>2, <2>3, <2>4, RunInside
<1> QED
  BY <1>1, <1>5, <1>6

LEMMA LeaveRun == OrderInv /\ RunInv /\ LeaveComposite => RunInv'
<1> SUFFICES ASSUME OrderInv, RunInv, LeaveComposite PROVE RunInv'
  OBVIOUS
<1>1. /\ depth \in 1..3 /\ phase \in {"exit", "destroy"} /\ NextCall = "none" /\ depth' = depth - 1
      /\ UNCHANGED <<config, leaf, move, source, primary, cache, begun>>
      /\ handleRuns' = IF depth = 2 THEN NewHandleRuns ELSE handleRuns
      /\ handleSubRuns' = IF depth = 3 THEN NewHandleSubRuns ELSE handleSubRuns
      /\ \/ primary = "none" /\ Proceeds(depth - 1, move, external)
         \/ primary # "none" /\ phase' = Unwound(depth - 1) /\ NextCall' = FirstCleanUp(depth - 1)
  BY LeaveFlow
<1>2. primary = "none" => MoveIs(move) /\ depth <= ParentDepth(leaf)
  BY <1>1 DEF OrderInv, Between, MoveIs
<1>3. depth = 3 /\ primary = "none" => leaf \notin FileLeaves
  BY <1>2 DEF ParentDepth, FileLeaves, RunLeaves, SubRunLeaves
<1>4. /\ phase' \notin {"construct", "stable"}
      /\ NextCall' \in {"none", "writeSubRunCache", "finalizeRun", "finalizeAllSubRuns", "rewindInput"}
      /\ depth' = 2 /\ NextCall' = "none" => phase' = "action" /\ move.target # "NewRun"
      /\ primary # "none" => phase' \in {"destroy", "terminated"}
      /\ phase' = "terminated" => depth' = 0
  <2>1. CASE primary = "none"
    <3>1. MoveIs(move) /\ Proceeds(depth - 1, move, external) /\ depth - 1 \in 0..3
          /\ (depth - 1 = 2 => leaf \notin FileLeaves)
      BY <1>1, <1>2, <1>3, <2>1
    <3>2. /\ phase' \in {"exit", "destroy", "action"}
          /\ NextCall' \in {"none", "writeSubRunCache", "finalizeRun", "finalizeAllSubRuns", "rewindInput"}
          /\ depth - 1 = 2 /\ NextCall' = "none" => phase' = "action" /\ move.target # "NewRun"
      BY <3>1, ProceedsWith
    <3> QED
      BY <1>1, <2>1, <3>2
  <2>2. CASE primary # "none"
    BY <1>1, <2>2, FirstCleanUps DEF Unwound
  <2> QED
    BY <2>1, <2>2
<1>5. CASE depth = 3
  <2>1. SameRun /\ IsEmpty' /\ depth' = 2
    BY <1>1, <1>5, SameRuns DEF IsEmpty, NewHandleSubRuns
  <2>2. run # NoRun /\ (config.handleEmptyRuns => Began) /\ (RunBroken => primary # "none")
    BY <1>1, <1>5 DEF RunInv, RunKnown, RunBeginsAtOnce, RunBrokenFits
  <2>3. ~RunLeft'
    BY <1>1, <1>4, <2>1 DEF RunLeft, GoesDown
  <2>4. move'.target # "NewRun" => source'.run = run
    BY <1>1, <2>2 DEF RunInv, RunOffered
  <2> QED
    BY <1>1, <1>4, <2>1, <2>2, <2>3, <2>4, RunInside
<1>6. CASE depth = 2
  <2>1. run' = NoRun /\ ~Began' /\ ~RunBroken'
    BY <1>1, <1>6 DEF run, Began, RunBroken, NewHandleRuns
  <2>2. begun'.runs = {}
    BY <1>1, <1>6 DEF RunInv, RunKnown, RunLeft, RunBegun, GoesDown
  <2>3. IsEmpty'
    BY <1>1, <1>6, NotEmptyInside DEF IsEmpty
  <2> QED
    BY <1>1, <1>4, <1>6, <2>1, <2>2, <2>3, RunOutside
<1>7. CASE depth = 1
  <2>1. SameRun /\ IsEmpty' /\ run = NoRun /\ ~Began /\ ~RunBroken
    BY <1>1, <1>7, SameRuns, NoRunOutside, NotEmptyInside DEF IsEmpty
  <2>2. begun'.runs = {}
    BY <2>1 DEF RunInv, RunBegun, SameRun
  <2> QED
    BY <1>1, <1>4, <1>7, <2>1, <2>2, RunOutside DEF SameRun
<1> QED
  BY <1>1, <1>5, <1>6, <1>7

LEMMA FirstOfRun ==
  ASSUME NEW target \in Leaves
  PROVE  /\ FirstConstruct(target) = "setupCurrentRun" => target = "NewRun"
         /\ FirstConstruct(target) \notin {"beginRun", "endRun", "writeRun", "clearCurrentRun"}
         /\ target = "HandleEvent" => FirstConstruct(target) = "beginRunIfNotDoneAlready"
         /\ target = "NewRun" => FirstConstruct(target) = "setupCurrentRun"
  BY DEF FirstConstruct, Leaves, TopLeaves, FileLeaves, RunLeaves, SubRunLeaves

LEMMA DepthOfTargets ==
  /\ ParentDepth("NewRun") = 2 /\ ParentDepth("HandleEvent") = 3
  /\ \A target : ParentDepth(target) \in 0..3
  BY DEF ParentDepth, FileLeaves, RunLeaves, SubRunLeaves

LEMMA ActionRun == OrderInv /\ RunInv /\ ActionDone => RunInv'
<1> SUFFICES ASSUME OrderInv, RunInv, ActionDone PROVE RunInv'
  OBVIOUS
<1>1. /\ phase = "action" /\ NextCall = "none" /\ primary = "none"
      /\ leaf \in From(move.target) /\ depth = CommonDepth(leaf, move.target)
      /\ \/ /\ depth < ParentDepth(move.target) /\ phase' = "enter" /\ leaf' = leaf
            /\ NextCall' = IF depth = 0 THEN "readFile" ELSE "none"
         \/ depth = ParentDepth(move.target) /\ Constructed
      /\ UNCHANGED <<config, depth, move, posted, item, source, external, primary, swallowed,
                     errorState, handleRuns, handleSubRuns, cache, files, begun, unwritten, written>>
  BY ActionFlow
<1>2. SameRun /\ (IsEmpty' <=> IsEmpty) /\ depth \in 0..3 /\ move.target \in Leaves
  <2>1. depth \in 0..3 /\ move.target \in Leaves
    BY DEF OrderInv, TypeInv, Control, ControlOK, Moves
  <2> QED
    BY <1>1, <2>1, SameRuns DEF IsEmpty
<1>3. /\ NextCall' \notin {"beginRun", "endRun", "writeRun", "clearCurrentRun"}
      /\ NextCall' = "setupCurrentRun" => move.target = "NewRun"
      /\ ~RunLeft'
      /\ leaf' = "HandleEvent" /\ phase' \in {"construct", "stable"} =>
           NextCall' = "beginRunIfNotDoneAlready" /\ depth = 3
      /\ move.target = "NewRun" /\ depth = 2 => phase' = "construct" /\ NextCall' = "setupCurrentRun"
  BY <1>1, <1>2, FirstOfRun, DepthOfTargets DEF Constructed, RunLeft, GoesDown
<1>4. CASE depth < 2
  BY <1>1, <1>2, <1>3, <1>4, NoRunOutside, NotEmptyInside, RunOutside DEF SameRun, RunInv, RunBegun
<1>5. CASE depth = 2 /\ move.target = "NewRun"
  <2>1. /\ run = NoRun /\ ~RunBroken /\ ~Began /\ IsEmpty /\ begun.runs = {}
    BY <1>1, <1>5, NotEmptyInside DEF RunInv, RunKnown, RunLeft, RunBegun
  <2>2. RunKnown' /\ RunCallsFit' /\ RunBrokenFits'
    BY <1>1, <1>2, <1>3, <1>5, <2>1 DEF RunKnown, RunCallsFit, RunBrokenFits, SameRun
  <2>3. RunBeginsAtOnce' /\ EventRun' /\ RunCached' /\ RunBegun' /\ RunOffered'
    BY <1>1, <1>2, <1>3, <1>5, <2>1 DEF RunBeginsAtOnce, EventRun, RunCached, RunBegun, RunOffered, SameRun
  <2> QED
    BY <2>2, <2>3, RunInvFrom
<1>6. CASE depth >= 2 /\ (depth = 3 \/ move.target # "NewRun")
  <2>1. ~RunBroken /\ run # NoRun /\ (config.handleEmptyRuns => Began)
    BY <1>1, <1>6, RunWaits DEF GoesDown
  <2>2. move.target # "NewRun"
    BY <1>1, <1>2, <1>6, DepthOfTargets
  <2>3. (~IsEmpty' => Began) /\ source'.run = run
    BY <1>1, <1>2, <2>1, <2>2 DEF RunInv, EventRun, RunOffered
  <2> QED
    BY <1>1, <1>2, <1>3, <1>6, <2>1, <2>2, <2>3, RunInside
<1> QED
  BY <1>2, <1>4, <1>5, <1>6

LEMMA EnterRun == OrderInv /\ RunInv /\ EnterComposite => RunInv'
<1> SUFFICES ASSUME OrderInv, RunInv, EnterComposite PROVE RunInv'
  OBVIOUS
<1>1. /\ phase = "enter" /\ NextCall = "none" /\ primary = "none" /\ Constructed
      /\ leaf \in From(move.target) /\ depth = CommonDepth(leaf, move.target)
      /\ depth + 1 = ParentDepth(move.target) /\ depth' = depth + 1
      /\ handleRuns' = IF depth = 1 THEN NewHandleRuns ELSE handleRuns
      /\ handleSubRuns' = IF depth = 2 THEN NewHandleSubRuns ELSE handleSubRuns
      /\ UNCHANGED <<config, move, source, primary, cache, begun>>
  BY EnterFlow
<1>2. depth \in 0..3 /\ move.target \in Leaves /\ leaf \in Leaves
  BY DEF OrderInv, TypeInv, Control, ControlOK, Moves
<1>3. /\ phase' = "construct" /\ leaf' = move.target
      /\ NextCall' \notin {"beginRun", "endRun", "writeRun", "clearCurrentRun"}
      /\ NextCall' = "setupCurrentRun" => move.target = "NewRun"
      /\ move.target = "HandleEvent" => NextCall' = "beginRunIfNotDoneAlready"
      /\ move.target = "NewRun" => NextCall' = "setupCurrentRun"
      /\ ~RunLeft'
  BY <1>1, <1>2, FirstOfRun DEF Constructed, RunLeft, GoesDown
<1>4. CASE depth = 0
  <2>1. SameRun /\ IsEmpty' /\ run = NoRun /\ ~Began /\ ~RunBroken
    BY <1>1, <1>4, SameRuns, NoRunOutside, NotEmptyInside DEF IsEmpty
  <2>2. begun'.runs = {} /\ depth' = 1 /\ leaf' # "HandleEvent"
    BY <1>1, <1>3, <1>4, <2>1, DepthOfTargets DEF RunInv, RunBegun, SameRun
  <2> QED
    BY <1>1, <1>3, <1>4, <2>1, <2>2, RunOutside DEF SameRun
<1>5. CASE depth = 1
  <2>1. run' = NoRun /\ ~Began' /\ ~RunBroken' /\ begun.runs = {} /\ IsEmpty'
    BY <1>1, <1>5, NoRunOutside, NotEmptyInside DEF run, Began, RunBroken, NewHandleRuns, IsEmpty, RunInv, RunBegun
  <2>2. move.target = "NewRun"
    <3>1. move.target \in RunLeaves
      BY <1>1, <1>2, <1>5 DEF ParentDepth, Leaves, TopLeaves, FileLeaves, RunLeaves, SubRunLeaves
    <3>2. leaf \in FileLeaves
      BY <1>1, <1>2, <1>5, <3>1 DEF CommonDepth, ParentDepth, Leaves, TopLeaves, FileLeaves, RunLeaves, SubRunLeaves
    <3> QED
      BY <1>1, <3>1, <3>2 DEF From, FileLeaves, RunLeaves, SubRunLeaves
  <2>3. RunKnown' /\ RunCallsFit' /\ RunBrokenFits'
    BY <1>1, <1>3, <1>5, <2>1, <2>2 DEF RunKnown, RunCallsFit, RunBrokenFits
  <2>4. RunBeginsAtOnce' /\ EventRun' /\ RunCached' /\ RunBegun' /\ RunOffered'
    BY <1>1, <1>3, <1>5, <2>1, <2>2 DEF RunBeginsAtOnce, EventRun, RunCached, RunBegun, RunOffered
  <2> QED
    BY <2>3, <2>4, RunInvFrom
<1>6. CASE depth = 2
  <2>1. ~RunBroken /\ run # NoRun /\ (config.handleEmptyRuns => Began)
    BY <1>1, <1>6, RunWaits DEF GoesDown
  <2>2. SameRun /\ IsEmpty' /\ depth' = 3
    BY <1>1, <1>6, SameRuns DEF IsEmpty, NewHandleSubRuns
  <2>3. move.target # "NewRun"
    BY <1>1, <1>6, DepthOfTargets
  <2>4. source'.run = run
    BY <1>1, <2>1, <2>3 DEF RunInv, RunOffered
  <2> QED
    BY <1>1, <1>3, <1>6, <2>1, <2>2, <2>3, <2>4, RunInside
<1> QED
  BY <1>1, <1>2, <1>4, <1>5, <1>6, DepthOfTargets

LEMMA ConstructedRun == OrderInv /\ RunInv /\ ConstructorDone => RunInv'
<1> SUFFICES ASSUME OrderInv, RunInv, ConstructorDone PROVE RunInv'
  OBVIOUS
<1>1. /\ phase = "construct" /\ NextCall = "none" /\ primary = "none" /\ leaf = move.target
      /\ depth = ParentDepth(leaf) /\ phase' = "stable" /\ NextCall' = "none"
      /\ UNCHANGED <<config, depth, leaf, move, source, primary, handleRuns, handleSubRuns, cache, begun>>
  BY ConstructedFlow
<1>2. SameRun /\ (IsEmpty' <=> IsEmpty)
  BY <1>1, SameRuns DEF IsEmpty
<1>3. depth \in 0..3
  BY DEF OrderInv, TypeInv, Control, ControlOK
<1>4. CASE depth < 2
  BY <1>1, <1>2, <1>3, <1>4, NoRunOutside, NotEmptyInside, RunOutside, DepthOfTargets DEF SameRun, RunInv, RunBegun
<1>5. CASE depth >= 2
  <2>1. ~RunBroken /\ run # NoRun /\ (config.handleEmptyRuns => Began)
    BY <1>1, <1>5, RunWaits DEF GoesDown
  <2>2. (~IsEmpty' => Began) /\ source'.run = run /\ (leaf = "HandleEvent" => Began) /\ ~RunLeft'
    BY <1>1, <1>2, <2>1 DEF RunInv, EventRun, RunOffered, RunLeft, GoesDown
  <2> QED
    BY <1>1, <1>2, <1>3, <1>5, <2>1, <2>2, RunInside
<1> QED
  BY <1>3, <1>4, <1>5

LEMMA PostedRun == OrderInv /\ RunInv /\ ProcessPosted => RunInv'
<1> SUFFICES ASSUME OrderInv, RunInv, ProcessPosted PROVE RunInv'
  OBVIOUS
<1>1. phase = "stable" /\ source' = source /\ NextCall = "none" /\ primary = "none"
  BY PostedBegins, WaitsFor
<1>2. run # NoRun => source.run = run
  BY <1>1 DEF RunInv, RunOffered
<1>3. ASSUME NEW m, Begins(m) PROVE RunInv'
  BY <1>1, <1>2, <1>3, BeginsRun
<1>4. CASE /\ leaf = "EndingLoop" /\ phase' = "terminated" /\ depth = 0 /\ NextCall' = "none"
           /\ UNCHANGED <<depth, leaf, handleRuns, handleSubRuns, begun>>
  <2>1. SameRun /\ (IsEmpty' <=> IsEmpty)
    BY <1>4, SameRuns DEF IsEmpty
  <2>2. run = NoRun /\ ~Began /\ ~RunBroken /\ IsEmpty /\ begun.runs = {}
    BY <1>4, NoRunOutside, NotEmptyInside DEF RunInv, RunBegun
  <2> QED
    BY <1>4, <2>1, <2>2, RunOutside DEF SameRun
<1> QED
  BY <1>3, <1>4, PostedBegins

LEMMA ItemRun == OrderInv /\ RunInv /\ Item => RunInv'
<1> SUFFICES ASSUME OrderInv, RunInv, Item PROVE RunInv'
  OBVIOUS
<1>1. phase = "stable" /\ leaf \in Leaves \ {"EndingLoop", "Error"} /\ leaf = move.target /\ depth = ParentDepth(leaf)
  BY ItemBegins, WaitsFor DEF Idle
<1>2. run # NoRun => source.run = run
  BY <1>1 DEF RunInv, RunOffered
<1>3. source \in [run : Runs \cup {NoRun}, subRun : SubRunIDs \cup {NoSubRun}]
  BY DEF OrderInv, TypeInv, Control, ControlOK
<1>4. ASSUME NEW m, Begins(m), source' = source PROVE RunInv'
  BY <1>2, <1>4, BeginsRun
<1>5. CASE \E r \in Runs : /\ Begins(OnRun(leaf, r = handleRuns.currentRun))
                           /\ source' = [source EXCEPT !.run = r]
  <2>1. PICK r \in Runs : /\ Begins(OnRun(leaf, r = run))
                          /\ source' = [source EXCEPT !.run = r]
    BY <1>5 DEF run
  <2>2. source'.run = r
    BY <1>3, <2>1
  <2>3. PICK same \in BOOLEAN : same <=> (r = run)
    OBVIOUS
  <2>4. OnRun(leaf, r = run) = OnRun(leaf, same)
    BY <2>3
  <2>5. run # NoRun /\ OnRun(leaf, same).target # "NewRun" => same
    <3>1. run # NoRun => depth >= 2
      BY NoRunOutside DEF OrderInv, TypeInv, Control, ControlOK
    <3>2. run # NoRun => leaf \in RunLeaves \cup SubRunLeaves
      BY <1>1, <3>1 DEF ParentDepth, Leaves, TopLeaves, FileLeaves, RunLeaves, SubRunLeaves
    <3> QED
      BY <3>2 DEF OnRun, Goto, GotoNewRun, FileLeaves, RunLeaves, SubRunLeaves
  <2> QED
    BY <2>1, <2>2, <2>3, <2>4, <2>5, BeginsRun
<1>6. CASE \E n \in SubRunNums : /\ Begins(OnSubRun(leaf, <<source.run, n>> = handleSubRuns.current))
                                 /\ source' = [source EXCEPT !.subRun = <<source.run, n>>]
  BY <1>2, <1>3, <1>6, BeginsRun
<1>7. CASE \E close \in BOOLEAN : FileItem /\ Begins(OnFile(leaf, close))
  BY <1>4, <1>7 DEF FileItem
<1>8. CASE EventItem /\ Begins(OnEvent(leaf))
  BY <1>4, <1>8 DEF EventItem
<1>9. CASE (StopItem \/ SourceThrows) /\ Begins(OnStop(leaf))
  <2>1. source' = source
    BY <1>9 DEF StopItem, SourceThrows, React
  <2> QED
    BY <1>4, <1>9, <2>1
<1> QED
  BY <1>5, <1>6, <1>7, <1>8, <1>9, ItemBegins

LEMMA RunInvInit == Init => RunInv
  BY DEF Init, RunInv, RunKnown, RunCallsFit, RunBrokenFits, RunBeginsAtOnce, EventRun, RunCached,
         RunBegun, RunOffered, run, Began, RunBroken, IsEmpty, RunLeft, GoesDown, NextCall,
         NewHandleRuns, NewHandleSubRuns, NoneOf

LEMMA RunInvStep == OrderInv /\ RunInv /\ [Next]_vars => RunInv'
<1> SUFFICES ASSUME OrderInv, RunInv, [Next]_vars PROVE RunInv'
  OBVIOUS
<1>1. CASE UNCHANGED vars
  <2>1. UNCHANGED <<config, phase, depth, leaf, move, todo, source, primary, handleRuns, handleSubRuns, cache, begun>>
    BY <1>1 DEF vars, control, failure, objects, history
  <2> QED
    BY <2>1 DEF RunInv, RunKnown, RunCallsFit, RunBrokenFits, RunBeginsAtOnce, EventRun, RunCached,
         RunBegun, RunOffered, run, Began, RunBroken, IsEmpty, RunLeft, GoesDown, NextCall
<1>2. TransitionStep => RunInv'
  BY LeaveRun, ActionRun, EnterRun, ConstructedRun, PostedRun DEF TransitionStep
<1> QED
  BY <1>1, <1>2, ItemRun, FileQuiet, RunKeeps, SubRunQuiet, OtherQuiet DEF Next, MachineStep, Done
=============================================================================
