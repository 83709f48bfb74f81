--------------------------- MODULE SourceTemplate ---------------------------
(***************************************************************************)
(* The class template Source<T>: an input source made of a detail class T  *)
(* that reads the next run, sub-run and event.  Any detail class is        *)
(* modelled: each call of readNext returns any member of Reads, and what   *)
(* the template cannot accept ends in an exception.                        *)
(***************************************************************************)
EXTENDS Integers, Sequences

CONSTANTS Reads,       \* what a call of readNext may return
          Limits,      \* values of maxEvents and of maxSubRuns (-1: none)
          MaxReads,    \* bound on the calls that read something
          MaxFiles,    \* number of file names (a generator: bound on hasMoreData)
          Generator    \* Source_generator<T>::value

SourceTemplateAssumption == Limits \subseteq Int /\ MaxReads \in Nat /\ MaxFiles \in Nat /\ Generator \in BOOLEAN

VARIABLES src,          \* the source
          files,        \* how many file names are left
          at,           \* the item the event processor takes
          run, subRun,  \* the run and sub-run it processes
          read,         \* the events read and the file of each
          events,       \* the events taken, with the run and sub-run processed
          subRuns       \* how many sub-runs were begun
vars == <<src, files, at, run, subRun, read, events, subRuns>>

NoRun == 0
NoSubRun == [run |-> 0]
NoEvent == [run |-> 0]
InvalidNumber == 99
SubRunOf(e) == IF e = NoEvent THEN NoSubRun ELSE [run |-> e.run, subRun |-> e.subRun]

\* An outcome of readNext: its result, the principals it made, whether the run
\* or sub-run is the one it was given, and whether one has a parent already.
Outcome(result, r, sr, e) ==
  [result |-> result, run |-> r, subRun |-> sr, event |-> e, sameRun |-> FALSE, sameSubRun |-> FALSE, embedded |-> FALSE]
Nothing == Outcome(FALSE, NoRun, NoSubRun, NoEvent)

-----------------------------------------------------------------------------
\* throwIfInsane_.

RepeatsCached(s, o) ==
  /\ s.run # NoRun /\ s.subRun # NoSubRun
  /\ \/ o.run = NoRun /\ o.subRun # NoSubRun /\ o.subRun = s.subRun
     \/ o.run # NoRun /\ o.run = s.run
     \/ o.run # NoRun /\ o.subRun = NoSubRun /\ o.event # NoEvent
     \/ o.run # NoRun /\ o.subRun # NoSubRun /\ o.subRun = s.subRun

\* Faulty: a sub-run is not compared with its run.
MismatchesSubRunUnchecked(s, o) ==
  LET subRunID == IF o.subRun # NoSubRun THEN o.subRun ELSE s.subRun
  IN \/ o.run = InvalidNumber
     \/ o.subRun # NoSubRun /\ (o.subRun.subRun = InvalidNumber \/ o.embedded)
     \/ o.event # NoEvent /\ (SubRunOf(o.event) # subRunID \/ o.event.event = InvalidNumber \/ o.embedded)

Mismatches(s, o) ==
  LET runID == IF o.run # NoRun THEN o.run ELSE s.run
      subRunID == IF o.subRun # NoSubRun THEN o.subRun ELSE s.subRun
  IN \/ o.run = InvalidNumber
     \/ o.subRun # NoSubRun /\ (o.subRun.run # runID \/ o.subRun.subRun = InvalidNumber \/ o.embedded)
     \/ o.event # NoEvent /\ (SubRunOf(o.event) # subRunID \/ o.event.event = InvalidNumber \/ o.embedded)

Insane(s, o) ==
  LET isNew == o.run # NoRun \/ o.subRun # NoSubRun \/ o.event # NoEvent
  IN IF o.result THEN ~isNew \/ o.sameRun \/ o.sameSubRun \/ RepeatsCached(s, o) \/ Mismatches(s, o) ELSE isNew

-----------------------------------------------------------------------------
\* readNext_.  The principals an exception leaves behind are deleted by the
\* sentry, the cached ones among them too.

ReadNext(s, o) ==
  IF Insane(s, o) THEN [s EXCEPT !.failed = "exception", !.cachedDeleted = o.sameRun \/ o.sameSubRun]
  ELSE IF ~o.result THEN s
  ELSE LET taken == [s EXCEPT !.subRunIsNew = o.subRun # NoSubRun /\ o.subRun # s.subRun,
                              !.pendingSubRun = o.subRun # NoSubRun, !.pendingEvent = o.event # NoEvent,
                              !.run = IF o.run # NoRun THEN o.run ELSE @,
                              !.subRun = IF o.subRun # NoSubRun THEN o.subRun ELSE @]
       IN IF o.event = NoEvent THEN [taken EXCEPT !.failed = "null dereference"]
          ELSE [taken EXCEPT !.event = o.event,
                             !.state = IF o.run # NoRun THEN "Run" ELSE IF o.subRun # NoSubRun THEN "SubRun" ELSE "Event"]

\* checkForNextFile_: more is what hasMoreData or the file names say.
CheckForNextFile(s, more) == [s EXCEPT !.state = IF more THEN "File" ELSE "Stop"]

NothingRead(s, o) == ~o.result /\ ~Insane(s, o)

ReadNextAndRequireRun(s, o, more) ==
  LET n == ReadNext(s, o)
  IN IF NothingRead(s, o) THEN CheckForNextFile(n, more)
     ELSE IF n.failed # "no" \/ n.state = "Run" THEN n
     ELSE IF n.run # NoRun THEN [n EXCEPT !.state = "Run"]   \* the cached run again
     ELSE [n EXCEPT !.failed = "exception"]

ReadNextAndRefuseEvent(s, o, more) ==
  LET n == ReadNext(s, o)
  IN IF NothingRead(s, o) THEN CheckForNextFile(n, more)
     ELSE IF n.failed = "no" /\ n.state = "Event" THEN [n EXCEPT !.failed = "exception"]
     ELSE n

\* Whether nextItemType reads: the states in which it does.
WillRead(s) ==
  /\ s.leftEvents # 0
  /\ \/ s.state \in {"File", "Event"}
     \/ s.state = "Run" /\ ~s.pendingSubRun /\ ~s.pendingEvent
     \/ s.state = "SubRun" /\ ~s.pendingEvent

FromState(s, o, more) ==
  CASE s.state = "Invalid" -> IF Generator THEN [s EXCEPT !.state = "File"] ELSE CheckForNextFile(s, more)
    [] s.state = "File" -> ReadNextAndRequireRun(s, o, more)
    [] s.state = "Run" ->
         IF s.pendingSubRun \/ (s.pendingEvent /\ s.subRun # NoSubRun)
         THEN [s EXCEPT !.state = "SubRun", !.pendingSubRun = FALSE]
         ELSE IF s.pendingEvent THEN [s EXCEPT !.failed = "exception"]
         ELSE ReadNextAndRequireRun(s, o, more)
    [] s.state = "SubRun" ->
         IF s.pendingEvent THEN [s EXCEPT !.state = "Event", !.pendingEvent = FALSE]
         ELSE ReadNextAndRefuseEvent(s, o, more)
    [] s.state = "Event" ->
         IF NothingRead(s, o) THEN CheckForNextFile(s, more) ELSE ReadNext(s, o)
    [] s.state = "Stop" -> s

\* nextItemType.  A limit that is not set never becomes 0 (it stays at 1).
NextItemType(s, o, more) ==
  LET n == FromState(IF s.leftEvents = 0 THEN [s EXCEPT !.state = "Stop"] ELSE s, o, more)
  IN IF n.failed = "no" /\ n.state \in {"Run", "SubRun"} /\ n.leftSubRuns = 0 THEN [n EXCEPT !.state = "Stop"] ELSE n

ReadSubRunOf(s) ==
  IF s.subRunIsNew
  THEN [s EXCEPT !.leftSubRuns = IF s.maxSubRuns >= 0 THEN @ - 1 ELSE @, !.subRunIsNew = FALSE]
  ELSE s

ReadEventOf(s) == [s EXCEPT !.leftEvents = IF s.maxEvents >= 0 THEN @ - 1 ELSE @, !.event = NoEvent]

NewSource(maxEvents, maxSubRuns) ==
  [state |-> "Invalid", run |-> NoRun, subRun |-> NoSubRun, event |-> NoEvent,
   pendingSubRun |-> FALSE, pendingEvent |-> FALSE, subRunIsNew |-> FALSE,
   maxEvents |-> maxEvents, leftEvents |-> IF maxEvents >= 0 THEN maxEvents ELSE 1,
   maxSubRuns |-> maxSubRuns, leftSubRuns |-> IF maxSubRuns >= 0 THEN maxSubRuns ELSE 1,
   failed |-> "no", cachedDeleted |-> FALSE]

-----------------------------------------------------------------------------
\* The event processor takes the items in the order the source gives them.

Init ==
  /\ \E e, sr \in Limits : src = NewSource(e, sr)
  /\ files = MaxFiles /\ at = "ask"
  /\ run = NoRun /\ subRun = NoSubRun
  /\ read = <<>> /\ events = <<>> /\ subRuns = 0

\* A principal handed back is the one readNext was given.
CanReturn(s, o) ==
  /\ o.result => Len(read) < MaxReads
  /\ o.sameRun => s.run # NoRun /\ o.run = s.run
  /\ o.sameSubRun => s.subRun # NoSubRun /\ o.subRun = s.subRun

NextItem ==
  /\ at = "ask" /\ src.failed = "no"
  /\ \E o \in IF WillRead(src) THEN {x \in Reads : CanReturn(src, x)} ELSE {Nothing},
        more \in IF files = 0 THEN {FALSE} ELSE IF Generator THEN BOOLEAN ELSE {TRUE} :
       /\ src' = NextItemType(src, o, more)
       /\ read' = IF WillRead(src) /\ src'.failed = "no" /\ o.result
                  THEN Append(read, [id |-> o.event, file |-> files]) ELSE read
  /\ at' = src'.state
  /\ files' = IF src'.state = "File" /\ files > 0 THEN files - 1 ELSE files
  /\ UNCHANGED <<run, subRun, events, subRuns>>

ReadFile == at = "File" /\ src.failed = "no" /\ at' = "ask" /\ UNCHANGED <<src, files, run, subRun, read, events, subRuns>>

ReadRun ==
  /\ at = "Run" /\ src.failed = "no" /\ at' = "ask"
  /\ run' = src.run
  /\ UNCHANGED <<src, files, subRun, read, events, subRuns>>

ReadSubRun ==
  /\ at = "SubRun" /\ src.failed = "no" /\ at' = "ask"
  /\ subRun' = src.subRun
  /\ subRuns' = IF src.subRun # subRun THEN subRuns + 1 ELSE subRuns
  /\ src' = ReadSubRunOf(src)
  /\ UNCHANGED <<files, run, read, events>>

ReadEvent ==
  /\ at = "Event" /\ src.failed = "no" /\ at' = "ask"
  /\ events' = Append(events, [id |-> src.event, run |-> run, subRun |-> subRun])
  /\ src' = ReadEventOf(src)
  /\ UNCHANGED <<files, run, subRun, read, subRuns>>

Next == NextItem \/ ReadFile \/ ReadRun \/ ReadSubRun \/ ReadEvent

Spec == Init /\ [][Next]_vars

-----------------------------------------------------------------------------
\* The events taken are those the detail class read, in their order, whatever
\* files they come from and with whatever runs and sub-runs they came.
EventsAsRead ==
  /\ Len(events) <= Len(read)
  /\ \A i \in DOMAIN events : events[i].id = read[i].id

\* Each event is processed in its own run and sub-run.
InContext == \A i \in DOMAIN events : events[i].run = events[i].id.run /\ events[i].subRun = SubRunOf(events[i].id)

\* Neither limit is passed; a sub-run that goes on in another file counts once.
WithinLimits ==
  /\ src.maxEvents >= 0 => Len(events) <= src.maxEvents
  /\ src.maxSubRuns >= 0 => subRuns <= src.maxSubRuns

\* A source that stops has given all it read, or has given all the events
\* wanted, or all the sub-runs wanted: then the event read and not given begins
\* another sub-run, or goes on with the last one in another file.
CompleteAtStop ==
  at = "Stop" /\ src.failed = "no" =>
    \/ Len(events) = Len(read) /\ (~Generator => files = 0)
    \/ Len(events) = src.maxEvents
    \/ /\ subRuns = src.maxSubRuns
       /\ Len(read) > Len(events) =>
            LET next == read[Len(events) + 1]
            IN SubRunOf(next.id) # subRun \/ (Len(events) > 0 /\ next.file # read[Len(events)].file)

-----------------------------------------------------------------------------
\* "return true and set the appropriate 'out' arguments if something was read":
\* a run or a sub-run without an event may be returned.
EventIsOptional == src.failed # "null dereference"

\* "Avoid double delete with cleanup sentry and statemachine teardown": a
\* principal that is cached is not deleted by the sentry.
NoDoubleDelete == ~src.cachedDeleted
=============================================================================
