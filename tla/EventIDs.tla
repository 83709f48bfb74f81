------------------------------ MODULE EventIDs ------------------------------
(***************************************************************************)
(* The numbers of runs, sub-runs and events (RunID, SubRunID, EventID).    *)
(*                                                                         *)
(* Each number is an unsigned integer of a fixed width whose two largest   *)
(* values are reserved: one for "invalid", one for "flush".  A RunID is a  *)
(* number, a SubRunID a record of two, an EventID a record of three.  The  *)
(* operations throw on some arguments: an operator returns the set of its  *)
(* results, which is empty where the code throws and else has one element. *)
(***************************************************************************)
EXTENDS Integers

CONSTANT Word   \* the number of values of an unsigned integer (2^32 in the code)

WordAssumption == Word \in Nat /\ Word >= 5

Invalid == Word - 1
Flush == Word - 2
MaxNatural == Word - 3
FirstRun == 1
FirstSubRun == 0
FirstEvent == 1

Numbers == 0 .. Word - 1

-----------------------------------------------------------------------------
\* RunID.

InRangeRun(r) == {n \in {r} : n = Invalid \/ n \in FirstRun .. MaxNatural}

ValidRun(r) == r # Invalid

NextRun(r) ==
  IF r \in {Invalid, MaxNatural} THEN {} ELSE InRangeRun((r + 1) % Word)

PreviousRun(r) ==
  IF r \in {Invalid, MaxNatural} THEN {} ELSE InRangeRun((r - 1) % Word)

-----------------------------------------------------------------------------
\* SubRunID.

ValidSubRun(sr) == sr.subRun # Invalid /\ ValidRun(sr.run)

\* The constructor: the number is checked, then the pair.
MakeSubRun(r, n) ==
  {sr \in {[run |-> r, subRun |-> n]} :
     /\ n = Invalid \/ n \in FirstSubRun .. MaxNatural
     /\ ~(ValidSubRun(sr) /\ ~ValidRun(r))}

FlushSubRun(r) == [run |-> r, subRun |-> Flush]

FirstOfNextRun(sr) == UNION {MakeSubRun(r, FirstSubRun) : r \in NextRun(sr.run)}
LastOfPreviousRun(sr) == UNION {MakeSubRun(r, MaxNatural) : r \in PreviousRun(sr.run)}

\* Faulty: the last number of a sub-run is left out.
NextSubRunTooEarly(sr) ==
  IF ~ValidSubRun(sr) THEN {}
  ELSE IF sr.subRun >= MaxNatural - 1 THEN FirstOfNextRun(sr)
  ELSE MakeSubRun(sr.run, (sr.subRun + 1) % Word)

NextSubRun(sr) ==
  IF ~ValidSubRun(sr) THEN {}
  ELSE IF sr.subRun = MaxNatural THEN FirstOfNextRun(sr)
  ELSE MakeSubRun(sr.run, (sr.subRun + 1) % Word)

PreviousSubRun(sr) ==
  IF ~ValidSubRun(sr) THEN {}
  ELSE IF sr.subRun = FirstSubRun THEN LastOfPreviousRun(sr)
  ELSE MakeSubRun(sr.run, (sr.subRun - 1) % Word)

-----------------------------------------------------------------------------
\* EventID.

SubRunOf(id) == [run |-> id.run, subRun |-> id.subRun]

ValidEvent(id) == id.event # Invalid /\ ValidSubRun(SubRunOf(id))

IDOf(sr, e) == [run |-> sr.run, subRun |-> sr.subRun, event |-> e]

MakeEvent(sr, e) == {IDOf(sr, n) : n \in {n \in {e} : n = Invalid \/ n \in FirstEvent .. MaxNatural}}

InvalidEvent(sr) == IDOf(sr, Invalid)
RunHeader(r) == InvalidEvent([run |-> r, subRun |-> Invalid])
FlushEvent(sr) == IDOf(sr, Flush)

\* nextSubRun(first): the caller chooses the event number to start with.
NextSubRunAt(id, first) == UNION {MakeEvent(sr, first) : sr \in NextSubRun(SubRunOf(id))}

NextEvent(id) ==
  IF ~ValidEvent(id) THEN {}
  ELSE IF id.event = MaxNatural THEN NextSubRunAt(id, FirstEvent)
  ELSE MakeEvent(SubRunOf(id), (id.event + 1) % Word)

EventOfNextRun(id) == UNION {MakeEvent(sr, FirstEvent) : sr \in FirstOfNextRun(SubRunOf(id))}

PreviousEvent(id) ==
  IF ~ValidEvent(id) THEN {}
  ELSE IF id.event = FirstEvent
  THEN UNION {MakeEvent(sr, MaxNatural) : sr \in PreviousSubRun(SubRunOf(id))}
  ELSE MakeEvent(SubRunOf(id), (id.event - 1) % Word)

-----------------------------------------------------------------------------
\* The order: in each number the invalid one comes first.

\* Faulty: the plain order of unsigned integers.
InvalidLast(l, r) == l < r

InvalidFirst(l, r) == r # Invalid /\ (l = Invalid \/ l < r)

RunLess(a, b) == InvalidFirst(a, b)

SubRunLess(a, b) == IF a.run = b.run THEN InvalidFirst(a.subRun, b.subRun) ELSE RunLess(a.run, b.run)

EventLess(a, b) ==
  IF SubRunOf(a) = SubRunOf(b) THEN InvalidFirst(a.event, b.event)
  ELSE SubRunLess(SubRunOf(a), SubRunOf(b))
=============================================================================
