--------------------------- MODULE InputSourceBase ---------------------------
(***************************************************************************)
(* The base class of the sources (DecrepitRelicInputSourceImplementation): *)
(* it reads ahead one item, completes the hierarchy of items, applies the  *)
(* limits on events and sub-runs and the processing mode.                  *)
(*                                                                         *)
(* A source is a record of the base's fields                               *)
(*   done, state              doneReadAhead_ and state_                    *)
(*   remEvents, remSubRuns    remainingEvents_ and remainingSubRuns_       *)
(*   run, subRun              the numbers of runPrincipal_ and             *)
(*                            subRunPrincipal_, or NoRun and NoSubRun      *)
(*   maxEvents, maxSubRuns, mode     the configuration                     *)
(*   failed                   "no", or why the program ended               *)
(* and of the fields of its kind, whose virtual functions are the          *)
(* parameters of this module; each returns the source, and what is read.   *)
(***************************************************************************)
EXTENDS Integers

CONSTANTS GetNextItemType(_),   \* [s |-> the source, type |-> an item]
          ReadRun(_),           \* [s |-> the source, run |-> a run]
          ReadSubRun(_),        \* [s |-> the source, subRun |-> a sub-run or NoSubRun]
          ReadEvent(_),         \* [s |-> the source, id |-> an event or NoEvent]
          ReadFile(_),          \* the source
          RewindSource(_)       \* the source

NoRun == 0
NoSubRun == [run |-> NoRun]
NoEvent == [run |-> NoRun]
Items == {"Invalid", "File", "Run", "SubRun", "Event", "Stop"}

EventLimitReached(s) == s.remEvents = 0
SubRunLimitReached(s) == s.remSubRuns = 0
LimitReached(s) == EventLimitReached(s) \/ SubRunLimitReached(s)

Assert(s, holds) == IF s.failed = "no" /\ ~holds THEN [s EXCEPT !.failed = "assertion"] ELSE s

BaseFields(maxEvents, maxSubRuns, mode) ==
  [done |-> FALSE, state |-> "Invalid", remEvents |-> maxEvents, remSubRuns |-> maxSubRuns,
   run |-> NoRun, subRun |-> NoSubRun, maxEvents |-> maxEvents, maxSubRuns |-> maxSubRuns,
   mode |-> mode, failed |-> "no"]

-----------------------------------------------------------------------------
(***************************************************************************)
(* nextItemType_: items of a kind that the mode leaves out are read and    *)
(* dropped.  Asking again a source that has not changed goes on for ever.  *)
(***************************************************************************)
RECURSIVE NextWanted(_)
NextWanted(s) ==
  LET next == GetNextItemType(s)
      dropped == IF next.type = "Event" THEN ReadEvent(next.s).s ELSE ReadSubRun(next.s).s
      unwanted == \/ next.type = "Event" /\ s.mode # "RunsSubRunsAndEvents"
                  \/ next.type = "SubRun" /\ s.mode = "Runs"
  IN IF ~unwanted \/ next.s.failed # "no" THEN next
     ELSE IF dropped = s THEN [s |-> [s EXCEPT !.failed = "endless"], type |-> "Stop"]
     ELSE NextWanted(dropped)

Stopped(s) == [s EXCEPT !.state = "Stop", !.run = NoRun, !.subRun = NoSubRun]

\* Faulty: the sub-run in progress is cut short.
AtSubRunLimitStop(s) == Stopped(s)

\* At the sub-run limit only the rest of the sub-run in progress is read.
AtSubRunLimit(s) ==
  LET next == NextWanted(s)
  IN IF s.state \in {"Invalid", "File", "Run"} \/ s.mode # "RunsSubRunsAndEvents" THEN Stopped(s)
     ELSE IF next.type = "Event" THEN [next.s EXCEPT !.state = "Event"] ELSE Stopped(next.s)

\* Without a limit: an item whose container was not announced waits for it.
NoLimit(s) ==
  LET next == NextWanted(s)
      old == s.state
      run == ReadRun(next.s)
      subRun == ReadSubRun(Assert(next.s, s.mode # "Runs"))
  IN IF next.type = "Stop" THEN Stopped(next.s)
     ELSE IF next.type = "File" \/ old = "Invalid" THEN [next.s EXCEPT !.state = "File"]
     ELSE IF next.type = "Run" \/ old = "File" THEN [run.s EXCEPT !.run = run.run, !.state = "Run"]
     ELSE IF next.type = "SubRun" \/ old = "Run" THEN [subRun.s EXCEPT !.subRun = subRun.subRun, !.state = "SubRun"]
     ELSE [Assert(next.s, s.mode = "RunsSubRunsAndEvents") EXCEPT !.state = "Event"]

NextItemType(s) ==
  IF s.done THEN s
  ELSE LET asked == [s EXCEPT !.done = TRUE]
       IN IF EventLimitReached(s) THEN Stopped(asked)
          ELSE IF SubRunLimitReached(s) THEN AtSubRunLimit(asked) ELSE NoLimit(asked)

-----------------------------------------------------------------------------
\* The items are taken; with asserts as in the code.

TakeFile(s) ==
  ReadFile([Assert(s, s.done /\ s.state = "File" /\ ~LimitReached(s)) EXCEPT !.done = FALSE])

TakeRun(s) ==
  [Assert(s, s.done /\ s.state = "Run" /\ ~LimitReached(s)) EXCEPT !.done = FALSE]

\* rp is the run of the caller.
TakeSubRun(s, rp) ==
  [Assert(s, s.done /\ s.state = "SubRun" /\ ~LimitReached(s) /\ s.subRun # NoSubRun /\ s.subRun.run = rp)
     EXCEPT !.done = FALSE, !.remSubRuns = @ - 1]

\* srp is the sub-run of the caller.
TakeEvent(s, srp) ==
  LET read == ReadEvent([Assert(s, s.done /\ s.state = "Event" /\ ~EventLimitReached(s)) EXCEPT !.done = FALSE])
      right == read.id # NoEvent /\ read.id.run = srp.run /\ read.id.subRun = srp.subRun
  IN [s |-> [Assert(read.s, right) EXCEPT !.remEvents = IF @ > 0 THEN @ - 1 ELSE @], id |-> read.id]

\* Begin again at the first event.
Rewind(s) ==
  RewindSource([s EXCEPT !.remEvents = s.maxEvents, !.remSubRuns = s.maxSubRuns,
                         !.done = FALSE, !.state = "Invalid"])
=============================================================================
