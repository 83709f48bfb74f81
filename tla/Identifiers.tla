----------------------------- MODULE Identifiers -----------------------------
(***************************************************************************)
(* Identifiers and the index made of them, as programs use them.  A        *)
(* behaviour of kind "id" steps through the identifiers a program can      *)
(* construct: from numbers, as the invalid or flush identifier of a run or *)
(* a sub-run, and with the operations that step from one to another.  One  *)
(* of kind "index" is a file index: RootOutputFile adds an element for     *)
(* each run, sub-run and event it writes, each with the next entry of its  *)
(* own tree, and sorts the index when it closes the file; a reader may     *)
(* sort it by entry instead, and asks whether the events are in the order  *)
(* of their entries.                                                       *)
(***************************************************************************)
EXTENDS FileIndex

CONSTANT MaxElements     \* the bound on the length of the index

VARIABLES kind,
          id,              \* an EventID some program holds
          index,           \* entries_
          sortState,       \* "NotSorted", "Event" or "EventEntry"
          entryOrder       \* the cached answer of allEventsInEntryOrder, or "unknown"
indexVars == <<index, sortState, entryOrder>>
vars == <<kind, id, indexVars>>

\* Two sub-runs of a run that both may hold three events, and another run.
EventsWritten == ({1} \X {0, 1} \X {1, 2, 3}) \union {<<2, 0, 1>>}

ID(t) == IDOf([run |-> t[1], subRun |-> t[2]], t[3])
Ids == UNION {{ID(t), InvalidEvent(SubRunOf(ID(t))), RunHeader(t[1])} : t \in EventsWritten}

Init ==
  /\ kind \in {"id", "index"}
  /\ id \in UNION {MakeEvent(sr, FirstEvent) : sr \in MakeSubRun(FirstRun, FirstSubRun)}
  /\ index = <<>> /\ sortState = "Event" /\ entryOrder = "unknown"

-----------------------------------------------------------------------------
FromNumbers ==
  \E r \in UNION {InRangeRun(n) : n \in Numbers} : \E s, e \in Numbers :
    id' \in UNION {MakeEvent(sr, e) : sr \in MakeSubRun(r, s)}

OfItsRun == id' \in {RunHeader(id.run), FlushEvent(FlushSubRun(id.run))}
OfItsSubRun == id' \in {InvalidEvent(SubRunOf(id)), FlushEvent(SubRunOf(id))}
Forward == id' \in NextEvent(id) \union NextSubRunAt(id, FirstEvent) \union EventOfNextRun(id)
Backward == id' \in PreviousEvent(id)

IdStep ==
  /\ kind = "id"
  /\ FromNumbers \/ OfItsRun \/ OfItsSubRun \/ Forward \/ Backward
  /\ UNCHANGED <<kind, indexVars>>

-----------------------------------------------------------------------------
AddEntry(i) ==
  LET sameTree == {k \in DOMAIN index : (ValidEvent(index[k].id) <=> ValidEvent(i))
                                        /\ (ValidSubRun(SubRunOf(index[k].id)) <=> ValidSubRun(SubRunOf(i)))}
  IN index' = Append(index, [id |-> i, entry |-> Cardinality(sameTree)])
  /\ sortState' = "NotSorted" /\ entryOrder' = "unknown"

SortBy(state) ==
  /\ index' = StableSort(index, state)
  /\ sortState' = state
  /\ entryOrder' = "unknown"

AllEventsInEntryOrder ==
  /\ entryOrder' = IF entryOrder = "unknown"
                   THEN (IF EventsInEntryOrder(index) THEN "yes" ELSE "no") ELSE entryOrder
  /\ UNCHANGED <<index, sortState>>

IndexStep ==
  /\ kind = "index"
  /\ \/ Len(index) < MaxElements /\ \E i \in Ids : AddEntry(i)
     \/ \E state \in {"Event", "EventEntry"} : SortBy(state)
     \/ AllEventsInEntryOrder
  /\ UNCHANGED <<kind, id>>

Next == IdStep \/ IndexStep

Spec == Init /\ [][Next]_vars

-----------------------------------------------------------------------------
Naturals == {IDOf([run |-> r, subRun |-> s], e) :
               r \in FirstRun .. MaxNatural, s \in FirstSubRun .. MaxNatural, e \in FirstEvent .. MaxNatural}
All == {IDOf([run |-> r, subRun |-> s], e) : r, s, e \in Numbers}

\* Any two identifiers are ordered one way, and the order is transitive.
TotalOrder ==
  \A x \in All :
    /\ Cardinality({c \in 1 .. 3 : <<EventLess(id, x), id = x, EventLess(x, id)>>[c]}) = 1
    /\ EventLess(id, x) => \A y \in {RunHeader(x.run), InvalidEvent(SubRunOf(x)), FlushEvent(SubRunOf(x))} :
                             EventLess(x, y) => EventLess(id, y)

\* The entry of a run sorts before the entries of its sub-runs, the entry of a
\* sub-run before its events, and all of them after every lower run.
HeadersFirst ==
  ValidEvent(id) =>
    /\ EventLess(RunHeader(id.run), InvalidEvent(SubRunOf(id)))
    /\ EventLess(InvalidEvent(SubRunOf(id)), id)
    /\ \A x \in Naturals : x.run < id.run => EventLess(x, RunHeader(id.run))

\* The order of identifiers can sort an index and serve as the order of a set,
\* and it is the layout of a sorted FileIndex that readers rely on
\* (EventID::operator<, SortInvalidFirst).
OrderSortsAnIndex == kind = "id" => TotalOrder /\ HeadersFirst

\* EventID::next() of an event is the least event after it, across the ends of
\* sub-runs and runs; only the last event of all has none.  previous() undoes
\* next(), except for the events of the largest run.
NextIsSuccessor ==
  kind = "id" /\ id \in Naturals =>
    LET later == {x \in Naturals : EventLess(id, x)}
    IN /\ NextEvent(id) = {x \in later : \A y \in later : ~EventLess(y, x)}
       /\ \A n \in NextEvent(id) : n.run < MaxNatural => PreviousEvent(n) = {id}

-----------------------------------------------------------------------------
Searched == {i \in Ids : ValidEvent(i)} \union {ID(<<2, 1, 1>>)}
EventsIn == {i \in DOMAIN index : ValidEvent(index[i].id)}
HeadersIn(type) == {i \in DOMAIN index : EntryType(index, i) = type}

\* The first of a set of positions, or the end.
FirstIn(P) == Min(P \union {End(index)})

\* findEventPosition gives the first copy of the event wanted; without "exact"
\* it gives, when the event is missing, the first event that sorts after it.
FindsEvent ==
  sortState = "Event" =>
    \A i \in Searched :
      /\ FindEventPosition(index, i, TRUE) = FirstIn({k \in EventsIn : index[k].id = i})
      /\ FindEventPosition(index, i, FALSE) = FirstIn({k \in EventsIn : ~EventLess(index[k].id, i)})

\* An event whose sub-run is not given is found if any sub-run of the run has
\* it, whatever the numbering of the events in the sub-runs.
FindsEventOfUnspecifiedSubRun ==
  sortState = "Event" =>
    \A i \in Searched :
      LET found == FindEventForUnspecifiedSubRun(index, i.run, i.event, TRUE)
          wanted == {k \in EventsIn : index[k].id.run = i.run /\ index[k].id.event = i.event}
      IN IF wanted = {} THEN found = End(index) ELSE found \in wanted

\* In either order a run or a sub-run is found, and a search for one that is
\* missing gives the next: skipping a sub-run or a run reaches the header of
\* what follows it and never the contents of what is skipped.
FindsHeaders ==
  sortState # "NotSorted" =>
    \A i \in Searched :
      LET sr == SubRunOf(i)
          later == {k \in HeadersIn("SubRun") : ~SubRunLess(SubRunOf(index[k].id), sr)}
          laterRun == {k \in HeadersIn("Run") : ~RunLess(index[k].id.run, i.run)}
          nextRun == {k \in HeadersIn("Run") : RunLess(i.run, index[k].id.run)}
      IN /\ FindSubRunPosition(index, sortState, sr, TRUE) = FirstIn({k \in later : SubRunOf(index[k].id) = sr})
         /\ FindSubRunPosition(index, sortState, sr, FALSE) = FirstIn(later)
         /\ FindRunPosition(index, sortState, i.run, TRUE) = FirstIn({k \in laterRun : index[k].id.run = i.run})
         /\ FindRunPosition(index, sortState, i.run, FALSE) = FirstIn(laterRun)
         /\ FindSubRunOrRunPosition(index, sortState, sr) = FirstIn(later \union nextRun)

\* Each search of an index finds what is there, against its definition.
SearchesFind == kind = "index" => FindsEvent /\ FindsEventOfUnspecifiedSubRun /\ FindsHeaders

\* A sorted index is a sequence of runs, each with its sub-runs, each with its
\* events: no element comes before the header of what contains it, nor between
\* two of another run or sub-run; "EventEntry" keeps the order of the entries.
HeadersBeforeContents ==
  sortState # "NotSorted" =>
    \A i, j \in DOMAIN index : i < j =>
      LET a == index[i].id  b == index[j].id IN
      /\ ~SubRunLess(SubRunOf(b), SubRunOf(a))
      /\ SubRunOf(a) = SubRunOf(b) /\ ValidEvent(a) => ValidEvent(b)
      /\ SubRunOf(a) = SubRunOf(b) /\ ValidEvent(a) /\ sortState = "EventEntry" => index[i].entry < index[j].entry

\* The test that saves the duplicate check the work of remembering every event
\* never passes an index with two copies of an event, and the cached answer about
\* the order of the entries, on which whole files are copied, is the answer for
\* the index as it is now.
ShortcutsAreSafe ==
  /\ sortState # "NotSorted" =>
       LET noDuplicate == \A i, j \in EventsIn : i # j => index[i].id # index[j].id
       IN /\ EventsUniqueAndOrdered(index) => noDuplicate
          /\ sortState = "Event" /\ noDuplicate => EventsUniqueAndOrdered(index)
  /\ entryOrder # "unknown" => (entryOrder = "yes" <=> EventsInEntryOrder(index))

\* What readers of a file take for granted of its index.
IndexLayout == kind = "index" => HeadersBeforeContents /\ ShortcutsAreSafe
=============================================================================
