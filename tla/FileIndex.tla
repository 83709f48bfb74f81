------------------------------ MODULE FileIndex ------------------------------
(***************************************************************************)
(* The index of an art file (FileIndex): one element per run, sub-run and  *)
(* event with its entry in the tree.  A run is the identifier whose        *)
(* sub-run and event are invalid, a sub-run one whose event is.  An index  *)
(* is a sequence of elements; a position is one of 1 .. Len(index) + 1,    *)
(* the last of which is the end.                                           *)
(***************************************************************************)
EXTENDS EventIDs, Sequences, SequencesExt, FiniteSets

Positions(index) == 1 .. Len(index) + 1
End(index) == Len(index) + 1

EntryType(index, i) ==
  CASE i = End(index) -> "End"
    [] ValidEvent(index[i].id) -> "Event"
    [] ~ValidEvent(index[i].id) /\ ValidSubRun(SubRunOf(index[i].id)) -> "SubRun"
    [] OTHER -> "Run"

-----------------------------------------------------------------------------
\* The two orders, and sorting that keeps the order of equals.

ByEvent(a, b) == EventLess(a.id, b.id)

\* Faulty: a sub-run and its events are ordered by entry number alone.
ByEntryOnly(a, b) ==
  IF SubRunOf(a.id) # SubRunOf(b.id) THEN SubRunLess(SubRunOf(a.id), SubRunOf(b.id))
  ELSE a.entry < b.entry

\* Compare_Run_SubRun_EventEntry: headers first, then events by entry number.
ByEntry(a, b) ==
  IF SubRunOf(a.id) # SubRunOf(b.id) THEN SubRunLess(SubRunOf(a.id), SubRunOf(b.id))
  ELSE /\ ValidEvent(b.id)
       /\ ValidEvent(a.id) => a.entry < b.entry

Order(state, a, b) == IF state = "EventEntry" THEN ByEntry(a, b) ELSE ByEvent(a, b)

StableSort(index, state) ==
  LET before(i, j) == \/ Order(state, index[i], index[j])
                      \/ ~Order(state, index[j], index[i]) /\ i < j
      rank(i) == Cardinality({j \in DOMAIN index : before(j, i)}) + 1
  IN [p \in DOMAIN index |-> index[CHOOSE i \in DOMAIN index : rank(i) = p]]

-----------------------------------------------------------------------------
\* Searching a sorted index.  state is the order it is sorted by.

LowerBound(index, state, id) ==
  LET element == [id |-> id, entry |-> -1]
  IN Min({i \in Positions(index) : i = End(index) \/ ~Order(state, index[i], element)})

FirstOfType(index, from, types) ==
  Min({i \in Positions(index) : i = End(index) \/ (i >= from /\ EntryType(index, i) \in types)})

\* The exact searches return the end for another identifier than the one wanted.
FindEventPosition(index, id, exact) ==
  LET i == FirstOfType(index, LowerBound(index, "Event", id), {"Event"})
  IN IF exact /\ i # End(index) /\ index[i].id # id THEN End(index) ELSE i

FindSubRunPosition(index, state, sr, exact) ==
  LET i == FirstOfType(index, LowerBound(index, state, InvalidEvent(sr)), {"SubRun"})
  IN IF exact /\ i # End(index) /\ SubRunOf(index[i].id) # sr THEN End(index) ELSE i

FindRunPosition(index, state, r, exact) ==
  LET i == FirstOfType(index, LowerBound(index, state, RunHeader(r)), {"Run"})
  IN IF exact /\ i # End(index) /\ index[i].id.run # r THEN End(index) ELSE i

FindSubRunOrRunPosition(index, state, sr) ==
  FirstOfType(index, LowerBound(index, state, InvalidEvent(sr)), {"SubRun", "Run"})

\* The first event of the sub-run after that of the event at i, or later.
LOCAL NextSubRunsFirst(index, i) ==
  FindEventPosition(index, CHOOSE id \in NextSubRunAt(index[i].id, FirstEvent) : TRUE, FALSE)

(***************************************************************************)
(* The search for an event of run r whose sub-run is not given             *)
(* (findEventForUnspecifiedSubRun).  It looks at the first event of each   *)
(* sub-run until the run ends or an event number is not below the one      *)
(* wanted, and then searches the last sub-run it left behind.              *)
(***************************************************************************)
SmartSearch(index, r, e, exact) ==
  LET first == FindEventPosition(index, IDOf([run |-> r, subRun |-> FirstSubRun], FirstEvent), FALSE)
      inRun(i) == i # End(index) /\ index[i].id.run = r
      visited[i \in Positions(index)] ==
        IF inRun(i) /\ index[i].id.event < e
        THEN <<i>> \o visited[NextSubRunsFirst(index, i)] ELSE <<i>>
      seen == visited[first]
      it == Last(seen)
  IN IF inRun(it) /\ index[it].id.event = e THEN it
     ELSE IF Len(seen) > 1
     THEN FindEventPosition(index, IDOf(SubRunOf(index[seen[Len(seen) - 1]].id), e), exact)
     ELSE End(index)

\* Its fallback: every sub-run of the run up to the highest with an event.
FullSearch(index, r, e) ==
  LET inRun == {i \in DOMAIN index : EntryType(index, i) = "Event" /\ index[i].id.run = r}
      subRuns == {index[i].id.subRun : i \in inRun}
      last == IF inRun = {} THEN FirstSubRun ELSE Max(subRuns)
      hits == {FindEventPosition(index, IDOf([run |-> r, subRun |-> s], e), TRUE) : s \in FirstSubRun .. last}
  IN Min(hits \union {End(index)})

\* Faulty: no second search.
FindEventSmartOnly(index, r, e, exact) == SmartSearch(index, r, e, exact)

FindEventForUnspecifiedSubRun(index, r, e, exact) ==
  LET smart == SmartSearch(index, r, e, exact)
  IN IF smart # End(index) THEN smart ELSE FullSearch(index, r, e)

-----------------------------------------------------------------------------
\* Questions about the events of an index.

LOCAL EventsOf(index) == SelectSeq(index, LAMBDA x : ValidEvent(x.id))

EventsUniqueAndOrdered(index) ==
  LET events == EventsOf(index)
  IN \A i \in 1 .. Len(events) - 1 : EventLess(events[i].id, events[i + 1].id)

EventsInEntryOrder(index) ==
  LET events == EventsOf(index)
  IN \A i \in 1 .. Len(events) - 1 : events[i].entry <= events[i + 1].entry
=============================================================================
