----------------------------- MODULE EmptyEvent -----------------------------
(***************************************************************************)
(* The source that makes events without data (EmptyEvent), used by the     *)
(* event processor: it numbers runs, sub-runs and events from the first    *)
(* identifier and the numbers of events in a run and in a sub-run.         *)
(***************************************************************************)
EXTENDS EventIDs, Sequences, SequencesExt, FiniteSets

CONSTANTS Configurations,   \* records of the parameters
          MaxDelivered,     \* bound on the events of a job
          MaxChoices,       \* bound on the choices of the user interaction
          UserActions,      \* what the user may choose after an event
          NewLoops          \* whether the source is rewound after a stop

EmptyEventAssumption ==
  \A c \in Configurations : c.maxEvents \in Int /\ c.maxSubRuns \in Int /\ c.perRun \in Nat /\ c.perSubRun \in Nat

VARIABLES src,          \* the source
          at,           \* where the event processor is
          run, subRun,  \* the run and sub-run it processes
          events,       \* the events it got since the last rewind
          subRuns,      \* how many sub-runs it began
          choices       \* how often the user interfered
vars == <<src, at, run, subRun, events, subRuns, choices>>

\* The only element, or the exception of the operation that gave none.
Only(s, ids) == IF ids = {} THEN [s EXCEPT !.failed = "exception"] ELSE [s EXCEPT !.id = CHOOSE x \in ids : TRUE]

NoRun == 0
NoSubRun == [run |-> NoRun]
NoEvent == [run |-> NoRun]

-----------------------------------------------------------------------------
\* setRunAndEventInfo.  0 events in a run or a sub-run means no limit.

SetRunAndEventInfo(s) ==
  LET sameRun == s.perRun < 1 \/ s.inRun < s.perRun
      sameSubRun == s.perSubRun < 1 \/ s.inSubRun < s.perSubRun
      first == IF s.resetEvent THEN s.orig.event ELSE (CHOOSE x \in NextEvent(s.id) : TRUE).event
      ofNextRun == {IDOf([run |-> n.run, subRun |-> s.orig.subRun], s.orig.event) : n \in EventOfNextRun(s.id)}
  IN IF sameRun /\ ~sameSubRun THEN Only(s, NextSubRunAt(s.id, first))
     ELSE IF sameRun /\ s.skipIncrement THEN [s EXCEPT !.skipIncrement = FALSE]
     ELSE IF sameRun THEN Only(s, NextEvent(s.id))
     ELSE Only(s, ofNextRun)

\* The event that follows, after the items of its run and sub-run.
NewEvent(s) ==
  LET set == IF s.eventSet THEN s ELSE [SetRunAndEventInfo(s) EXCEPT !.eventSet = TRUE]
      newRun == [set EXCEPT !.inRun = 0, !.inSubRun = 0, !.newRun = TRUE, !.newSubRun = TRUE, !.run = NoRun, !.subRun = NoSubRun]
      otherSubRun == SubRunOf(s.id) # SubRunOf(set.id)
      newSubRun == IF otherSubRun
                   THEN [set EXCEPT !.inSubRun = 0, !.newSubRun = TRUE, !.subRun = NoSubRun] ELSE set
      counted == [newSubRun EXCEPT !.inRun = @ + 1, !.inSubRun = @ + 1]
  IN IF set.failed # "no" \/ ~ValidRun(set.id.run) THEN [s |-> set, type |-> "Stop"]
     ELSE IF s.id.run # set.id.run THEN [s |-> newRun, type |-> "Run"]
     ELSE IF otherSubRun /\ s.mode # "Runs" THEN [s |-> newSubRun, type |-> "SubRun"]
     ELSE IF s.mode # "RunsSubRunsAndEvents" THEN [s |-> counted, type |-> "Stop"]
     ELSE [s |-> [counted EXCEPT !.ep = counted.id, !.eventSet = FALSE], type |-> "Event"]

EmptyNextItemType(s) ==
  IF s.newRun THEN [s |-> s, type |-> "Run"]
  ELSE IF s.newSubRun THEN [s |-> s, type |-> "SubRun"]
  ELSE IF s.ep # NoEvent THEN [s |-> s, type |-> "Event"]
  ELSE NewEvent(s)

EmptyReadRun(s) == [s |-> [s EXCEPT !.newRun = FALSE], run |-> s.id.run]

EmptyReadSubRun(s) ==
  IF s.mode = "Runs" THEN [s |-> s, subRun |-> NoSubRun]
  ELSE [s |-> [s EXCEPT !.newSubRun = FALSE], subRun |-> SubRunOf(s.id)]

EmptyReadEvent(s) ==
  IF s.ep = NoEvent
  THEN [s |-> IF s.mode = "RunsSubRunsAndEvents" THEN [s EXCEPT !.failed = "assertion"] ELSE s, id |-> NoEvent]
  ELSE [s |-> [s EXCEPT !.ep = NoEvent], id |-> s.ep]

EmptyReadFile(s) == s

EmptyRewind(s) ==
  [s EXCEPT !.id = s.orig, !.skipIncrement = TRUE, !.inRun = 0, !.inSubRun = 0,
            !.newRun = TRUE, !.newSubRun = TRUE, !.run = NoRun, !.subRun = NoSubRun]

Base == INSTANCE InputSourceBase WITH
  GetNextItemType <- EmptyNextItemType, ReadRun <- EmptyReadRun, ReadSubRun <- EmptyReadSubRun,
  ReadEvent <- EmptyReadEvent, ReadFile <- EmptyReadFile, RewindSource <- EmptyRewind

\* skip(-1).
SkipBack(s) == Only(s, PreviousEvent(s.id))

NewSource(c) ==
  Base!BaseFields(c.maxEvents, c.maxSubRuns, c.mode) @@
  [perRun |-> c.perRun, perSubRun |-> c.perSubRun, resetEvent |-> c.resetEvent, orig |-> c.first,
   id |-> c.first, inRun |-> 0, inSubRun |-> 0, newRun |-> TRUE, newSubRun |-> TRUE,
   eventSet |-> FALSE, skipIncrement |-> TRUE, ep |-> NoEvent]

-----------------------------------------------------------------------------
\* The event processor takes the items in the order the source gives them.

Init ==
  /\ \E c \in Configurations : src = NewSource(c)
  /\ at = "ask"
  /\ run = NoRun /\ subRun = NoSubRun
  /\ events = <<>> /\ subRuns = 0 /\ choices = 0

NextItem ==
  /\ at = "ask" /\ src.failed = "no" /\ Len(events) < MaxDelivered
  /\ src' = Base!NextItemType(src)
  /\ at' = src'.state
  /\ UNCHANGED <<run, subRun, events, subRuns, choices>>

ReadFile ==
  /\ at = "File" /\ src' = Base!TakeFile(src) /\ at' = "ask"
  /\ UNCHANGED <<run, subRun, events, subRuns, choices>>

ReadRun ==
  /\ at = "Run" /\ src' = Base!TakeRun(src) /\ at' = "ask"
  /\ run' = src.run
  /\ UNCHANGED <<subRun, events, subRuns, choices>>

ReadSubRun ==
  /\ at = "SubRun" /\ src' = Base!TakeSubRun(src, run) /\ at' = "ask"
  /\ subRun' = src.subRun /\ subRuns' = subRuns + 1
  /\ UNCHANGED <<run, events, choices>>

ReadEvent ==
  /\ at = "Event"
  /\ LET read == Base!TakeEvent(src, subRun)
     IN src' = read.s /\ events' = Append(events, read.id)
  /\ at' = "user"
  /\ UNCHANGED <<run, subRun, subRuns, choices>>

\* UserInteraction::postEvent, after the event was processed.
GoOn ==
  /\ at = "user" /\ at' = "ask"
  /\ UNCHANGED <<src, run, subRun, events, subRuns, choices>>

Rewound ==
  /\ choices < MaxChoices /\ choices' = choices + 1
  /\ src' = Base!Rewind(src)
  /\ at' = "ask" /\ events' = <<>> /\ subRuns' = 0
  /\ UNCHANGED <<run, subRun>>

RewindFile == at = "user" /\ "rewind" \in UserActions /\ Rewound

ReprocessEvent ==
  /\ at = "user" /\ "reprocess" \in UserActions
  /\ choices < MaxChoices /\ choices' = choices + 1
  /\ src' = SkipBack(src)
  /\ at' = "ask"
  /\ events' = Front(events)
  /\ UNCHANGED <<run, subRun, subRuns>>

\* EventProcessor::rewindInput, between two loops over the events.
NextLoop == at = "Stop" /\ NewLoops /\ Rewound

Next ==
  \/ NextItem \/ ReadFile \/ ReadRun \/ ReadSubRun \/ ReadEvent
  \/ GoOn \/ RewindFile \/ ReprocessEvent \/ NextLoop

Spec == Init /\ [][Next]_vars

-----------------------------------------------------------------------------
\* The event n (from 0) that the parameters ask for.
Expected(n) ==
  LET r == IF src.perRun = 0 THEN 0 ELSE n \div src.perRun
      m == IF src.perRun = 0 THEN n ELSE n % src.perRun
      sr == IF src.perSubRun = 0 THEN 0 ELSE m \div src.perSubRun
      k == IF src.perSubRun = 0 \/ ~src.resetEvent THEN m ELSE m % src.perSubRun
  IN IDOf([run |-> src.orig.run + r, subRun |-> src.orig.subRun + sr], src.orig.event + k)

\* The events come as the parameters number them, the first first after a
\* rewind too, and none is left out or repeated (EmptyEvent).
EventsAsConfigured == \A i \in DOMAIN events : events[i] = Expected(i - 1)

\* No assertion of the source fails: in particular each event is read into its
\* own run and sub-run, and each sub-run into its own run.
InContext == src.failed # "assertion"

\* The source stops at a limit and not before: with all the events wanted, or
\* after the whole of the last sub-run wanted and at the start of another.
StopsAtLimit ==
  at = "Stop" =>
    \/ Len(events) = src.maxEvents
    \/ /\ subRuns = src.maxSubRuns
       /\ Cardinality({SubRunOf(events[i]) : i \in DOMAIN events}) = subRuns
       /\ subRuns > 0 => SubRunOf(Expected(Len(events))) # SubRunOf(Expected(Len(events) - 1))

\* Neither limit is ever passed.
WithinLimits ==
  /\ src.maxEvents >= 0 => Len(events) <= src.maxEvents
  /\ src.maxSubRuns >= 0 => subRuns <= src.maxSubRuns

-----------------------------------------------------------------------------
\* "runs only mode does not return events or subRuns": it returns the runs.
NotEndless == src.failed # "endless"

\* "runs and subRuns only mode does not return events": it returns the sub-runs
\* up to the limit when each has a limited number of events.
SubRunsReturned ==
  at = "Stop" /\ src.mode = "RunsAndSubRuns" /\ src.maxEvents < 0 /\ src.perSubRun > 0 => subRuns = src.maxSubRuns
=============================================================================
