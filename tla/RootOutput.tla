------------------------------ MODULE RootOutput ------------------------------
(***************************************************************************)
(* The output module for art files (RootOutput), from the event processor  *)
(* that opens and closes files through the end path executor and the       *)
(* output worker down to the rows of the file's event tree.                *)
(***************************************************************************)
EXTENDS Integers, Sequences

CONSTANTS Produced,      \* the branches that this job produces
          Jobs,          \* sequences of input files, of which a job has one
          FastCloning,   \* the parameters fastCloning of which a job has one
          ChecksDuplicates,  \* whether the source skips an event it has seen in its file
          WriteFails,    \* whether the products of an event may fail to be read for output
          Stops,         \* whether the job may be told to stop
          MaxToggles     \* bound on the calls of setEndPathModuleEnabled

\* A job reads one file or more, each with the numbers of its events.
RootOutputAssumption ==
  /\ \A j \in Jobs :
       /\ Len(j) \in Nat \ {0} /\ DOMAIN j = 1 .. Len(j)
       /\ \A n \in DOMAIN j : j[n].events \in Seq(Nat) /\ {j[n].sameLayout, j[n].inOrder} \subseteq BOOLEAN
  /\ "EventAuxiliary" \notin Produced
  /\ FastCloning \subseteq BOOLEAN /\ {ChecksDuplicates, WriteFails, Stops} \subseteq BOOLEAN
  /\ MaxToggles \in Nat

VARIABLES job,       \* the input files; each has events, branches, sameLayout and inOrder
          fastCloning,
          number,    \* which input file is open
          left,      \* the places of its events that are still to be read
          at,        \* where the event processor is
          enabled, toggles,
          kept,      \* keptProducts_
          inputs,    \* inputFileCount_
          out,       \* the open output file, or Closed
          files,     \* the output files that were closed
          wanted,    \* the events that were to be written
          stopped,   \* whether the job was told to stop
          failed     \* what ended the job, or "no"
vars == <<job, fastCloning, number, left, at, enabled, toggles, kept, inputs, out, files, wanted, stopped, failed>>

Closed == [rows |-> <<>>]
IsOpen(o) == o # Closed

-----------------------------------------------------------------------------
(* The tree of events of an output file (RootOutputTree, RootOutputFile).    *)
(* A tree is a record: each branch has a sequence of rows, filled by itself. *)
(* A row is the event it comes from, or Dummy.  The rows of the branches     *)
(* that are read may be copied all at once from the input's tree (fast       *)
(* cloning).                                                                 *)

Aux == "EventAuxiliary"   \* the identifiers of the events, in a branch like others
Dummy == [file |-> 0, entry |-> 0]

\* The events of an input file by their place in its tree.
Keys(which, f) == [i \in 1 .. Len(f.events) |-> [file |-> which, entry |-> i]]

\* The constructor: no branch but the identifiers.
NewTree ==
  [cloning |-> TRUE, rows |-> [b \in {Aux} |-> <<>>], read |-> {Aux}, uncloned |-> {},
   entries |-> 0, filled |-> 0, meta |-> <<>>, index |-> <<>>, nextEntry |-> 0]

Dummies(n) == [i \in 1 .. n |-> Dummy]

\* Faulty: a branch that is new has no row for the events before.
AddOutputBranchesBare(t, selected) ==
  LET new == selected \ DOMAIN t.rows
  IN [t EXCEPT !.rows = [b \in DOMAIN @ \union selected |-> IF b \in new THEN <<>> ELSE @[b]],
               !.read = @ \union (new \ Produced)]

\* addOutputBranch: a branch that is new gets a dummy row for each event filled.
AddOutputBranches(t, selected) ==
  LET new == selected \ DOMAIN t.rows
  IN [t EXCEPT !.rows = [b \in DOMAIN @ \union selected |-> IF b \in new THEN Dummies(t.filled) ELSE @[b]],
               !.read = @ \union (new \ Produced)]

\* SetEntries(-1): the tree has as many entries as its longest branch.
SetEntries(t) ==
  [t EXCEPT !.entries = CHOOSE n \in {Len(t.rows[b]) : b \in DOMAIN t.rows} :
                          \A b \in DOMAIN t.rows : Len(t.rows[b]) <= n]

\* fastCloneTree.  What was not copied is filled event by event.
FastCloneTree(t, which, f) ==
  LET copied == {b \in t.read : b = Aux \/ b \in f.branches}
      cloned == IF f.events = <<>> THEN t
                ELSE [t EXCEPT !.rows = [b \in DOMAIN @ |-> IF b \in copied THEN @[b] \o Keys(which, f) ELSE @[b]],
                               !.entries = @ + Len(f.events)]
  IN IF ~t.cloning THEN [t EXCEPT !.uncloned = {}]
     ELSE [cloned EXCEPT !.uncloned = {b \in t.read : Len(cloned.rows[b]) # cloned.entries}]

\* fillBranches and fillTree: a product the event has not is a dummy.
FillTree(t, key, f) ==
  LET filled == (DOMAIN t.rows \intersect Produced) \union (IF t.cloning THEN t.uncloned ELSE t.read)
      value(b) == IF b = Aux \/ b \in Produced \/ b \in f.branches THEN key ELSE Dummy
  IN [t EXCEPT !.rows = [b \in DOMAIN @ |-> IF b \in filled THEN Append(@[b], value(b)) ELSE @[b]],
               !.meta = Append(@, key), !.filled = @ + 1]

\* writeOne: the tree, the history, then the index.
WriteOne(t, key, f) ==
  [FillTree(t, key, f) EXCEPT !.index = Append(@, [key |-> key, row |-> t.nextEntry + 1]), !.nextEntry = @ + 1]

\* RootOutputFile::beginInputFile.
BeginInputFile(t, selected, which, f, fastClone) ==
  FastCloneTree([AddOutputBranches(t, selected) EXCEPT !.cloning = fastClone /\ f.sameLayout], which, f)

-----------------------------------------------------------------------------
\* The source: what it gives of a file, and whether the file may be cloned.

SeenBefore(f, i) == \E j \in 1 .. i - 1 : f.events[j] = f.events[i]

\* The duplicate checker skips some event of the file.
SkipsSome(f) == ChecksDuplicates /\ \E i \in DOMAIN f.events : SeenBefore(f, i)

\* The events in the order they are read: a file whose index is not in the
\* order of its entries is read from its end.
ReadOrder(f) ==
  LET n == Len(f.events)
      all == IF f.inOrder THEN [i \in 1 .. n |-> i] ELSE [i \in 1 .. n |-> n + 1 - i]
  IN IF SkipsSome(f) THEN SelectSeq(all, LAMBDA i : ~SeenBefore(f, i)) ELSE all

\* setIfFastClonable, without limits and skipped events.
FastClonable(f) == f.events # <<>> /\ f.inOrder

-----------------------------------------------------------------------------
\* RootOutput's part of each step: a record of what it changes.

Module == [kept |-> kept, inputs |-> inputs, out |-> out, files |-> files, failed |-> "no"]

\* selectProducts, called back when the file's products are registered.
SelectProducts(m, f) ==
  LET now == m.kept \union f.branches \union Produced
  IN [m EXCEPT !.kept = now, !.out = IF IsOpen(@) THEN AddOutputBranches(@, now) ELSE @]

RespondToOpenInputFile(m, n, f) ==
  [m EXCEPT !.inputs = @ + 1,
            !.out = IF IsOpen(@) THEN BeginInputFile(@, m.kept, n, f, fastCloning /\ FastClonable(f)) ELSE @]

OpenOutputFile(m, n, f) ==
  IF IsOpen(m.out) THEN m
  ELSE IF m.inputs = 0 THEN [m EXCEPT !.failed = "exception"]
  ELSE RespondToOpenInputFile([m EXCEPT !.out = NewTree], n, f)

RespondToCloseInputFile(m) == [m EXCEPT !.out = IF IsOpen(@) THEN SetEntries(@) ELSE @]

\* doCloseFile; then the name of the last closed file is asked for.
CloseOutputFile(m) ==
  IF IsOpen(m.out) THEN [m EXCEPT !.out = Closed, !.files = Append(@, SetEntries(m.out))]
  ELSE IF m.files = <<>> THEN [m EXCEPT !.failed = "exception"]
  ELSE m

\* doForAllEnabledOutputWorkers_ with this module as the only one.
IfEnabled(m, then) == IF enabled THEN then ELSE m

Becomes(m) ==
  /\ kept' = m.kept /\ inputs' = m.inputs /\ out' = m.out /\ files' = m.files /\ failed' = m.failed

-----------------------------------------------------------------------------
\* The event processor (EPStates.cc).

\* readFile, respondToOpenInputFile.
OpenInput(m, n) ==
  IF m.failed # "no" THEN m ELSE IfEnabled(m, RespondToOpenInputFile(SelectProducts(m, job[n]), n, job[n]))
OpenOutput(m, n) == IF m.failed # "no" THEN m ELSE IfEnabled(m, OpenOutputFile(m, n, job[n]))
CloseInput(m) == IF m.failed # "no" THEN m ELSE IfEnabled(m, RespondToCloseInputFile(m))
CloseOutput(m) == IfEnabled(m, CloseOutputFile(m))

Init ==
  /\ job \in Jobs /\ fastCloning \in FastCloning
  /\ number = 0 /\ left = <<>> /\ at = "start"
  /\ enabled = TRUE /\ toggles = 0
  /\ kept = Produced /\ inputs = 0 /\ out = Closed /\ files = <<>>
  /\ wanted = <<>> /\ stopped = FALSE /\ failed = "no"

OpenFiles ==
  /\ at = "start" /\ failed = "no"
  /\ number' = 1 /\ left' = ReadOrder(job[1]) /\ at' = "events"
  /\ Becomes(OpenOutput(OpenInput(Module, 1), 1))
  /\ UNCHANGED <<job, fastCloning, enabled, toggles, wanted, stopped>>

\* shouldWeCloseFile is asked of a module that is disabled too.
NextInput ==
  /\ at = "events" /\ failed = "no" /\ left = <<>> /\ number < Len(job) /\ ~stopped
  /\ IF ~IsOpen(out) THEN failed' = "null dereference" /\ UNCHANGED <<number, left, kept, inputs, out, files>>
     ELSE \E full \in BOOLEAN :
            /\ number' = number + 1 /\ left' = ReadOrder(job[number + 1])
            /\ IF full
               THEN Becomes(OpenOutput(OpenInput(CloseInput(CloseOutput(Module)), number + 1), number + 1))
               ELSE Becomes(OpenInput(CloseInput(Module), number + 1))
  /\ UNCHANGED <<job, fastCloning, at, enabled, toggles, wanted, stopped>>

\* write, for an event that passes its selection.
WriteEvent ==
  /\ at = "events" /\ failed = "no" /\ left # <<>> /\ ~stopped
  /\ left' = Tail(left)
  /\ LET key == [file |-> number, entry |-> Head(left)]
     IN IF ~enabled THEN UNCHANGED <<out, wanted, failed>>
        ELSE IF ~IsOpen(out) THEN failed' = "null dereference" /\ UNCHANGED <<out, wanted>>
        ELSE out' = WriteOne(out, key, job[number]) /\ wanted' = Append(wanted, key) /\ UNCHANGED failed
  /\ UNCHANGED <<job, fastCloning, number, at, enabled, toggles, kept, inputs, files, stopped>>

\* A product of the event cannot be read, and the exception's action is not to rethrow it.
WriteFailed ==
  /\ at = "events" /\ failed = "no" /\ left # <<>> /\ ~stopped /\ enabled /\ IsOpen(out) /\ WriteFails
  /\ left' = Tail(left)
  /\ UNCHANGED <<job, fastCloning, number, at, enabled, toggles, kept, inputs, out, files, wanted, stopped, failed>>

\* A signal: the loop over events ends after the present one.
Shutdown ==
  /\ Stops /\ at = "events" /\ failed = "no" /\ ~stopped /\ stopped' = TRUE
  /\ UNCHANGED <<job, fastCloning, number, left, at, enabled, toggles, kept, inputs, out, files, wanted, failed>>

CloseFiles ==
  /\ at = "events" /\ failed = "no"
  /\ stopped \/ (left = <<>> /\ number = Len(job))
  /\ at' = "end"
  /\ Becomes(CloseInput(CloseOutput(Module)))
  /\ UNCHANGED <<job, fastCloning, number, left, enabled, toggles, wanted, stopped>>

\* PathSelection, called by a module between or in events.
SetEnabled ==
  /\ toggles < MaxToggles /\ at # "end" /\ failed = "no"
  /\ enabled' = ~enabled /\ toggles' = toggles + 1
  /\ UNCHANGED <<job, fastCloning, number, left, at, kept, inputs, out, files, wanted, stopped, failed>>

Next == OpenFiles \/ NextInput \/ WriteEvent \/ WriteFailed \/ Shutdown \/ CloseFiles \/ SetEnabled

Spec == Init /\ [][Next]_vars

-----------------------------------------------------------------------------
\* What a branch has for an event: its product, if the input file had one.
Datum(b, key) == IF b = Aux \/ b \in Produced \/ b \in job[key.file].branches THEN key ELSE Dummy

\* The index of a closed file leads to the rows of its events: the identifier,
\* every product, the provenance and the history of an event are all its own,
\* whichever branches were copied, filled or added late.
RowsAligned ==
  \A o \in 1 .. Len(files) : \A i \in DOMAIN files[o].index :
    LET e == files[o].index[i]
    IN /\ files[o].meta[e.row] = e.key
       /\ \A b \in DOMAIN files[o].rows : e.row \in DOMAIN files[o].rows[b] /\ files[o].rows[b][e.row] = Datum(b, e.key)

\* The events in the index of a file, and in those of all closed files.
EventsOf(t) == [i \in DOMAIN t.index |-> t.index[i].key]
indexed[n \in 0 .. Len(files)] == IF n = 0 THEN <<>> ELSE indexed[n - 1] \o EventsOf(files[n])

\* Each event to be written is in the index of one file, once, in the order of
\* writing, also when files are switched.
WrittenOnce == indexed[Len(files)] \o (IF IsOpen(out) THEN EventsOf(out) ELSE <<>>) = wanted

\* "all branches must have the same number of entries", in a file whose input
\* was read to its end.
SameEntries ==
  stopped \/ \A o \in 1 .. Len(files) : \A b \in DOMAIN files[o].rows : Len(files[o].rows[b]) = files[o].entries

-----------------------------------------------------------------------------
\* The same of every file, of a job that was stopped too.
AlwaysSameEntries ==
  \A o \in 1 .. Len(files) : \A b \in DOMAIN files[o].rows : Len(files[o].rows[b]) = files[o].entries

\* "Temporarily enable or disable a configured end path module": the job goes on.
JobGoesOn == failed = "no"
=============================================================================
