---------------------------- MODULE Registration ----------------------------
(* What a job knows of products.  The source opens its first file and then   *)
(* the modules are made, which register what they produce; from there on the *)
(* registry of products is frozen, but for the files that are opened later,  *)
(* primary and secondary ones.  A product is identified in an event by the   *)
(* place of its process in the history of the event and by its place in the  *)
(* list of branches of that process, and these identifiers are stored: they  *)
(* go through the files of one job after another, whatever these add, drop   *)
(* and merge.                                                                *)
(*                                                                           *)
(* A branch is named by the process and by a label, which stands for the     *)
(* class, the module and the instance; its BranchID is a hash of that name.  *)
EXTENDS Naturals, Sequences, FiniteSets, SequencesExt

CONSTANTS
  Labels,       \* the labels in the order of BranchKey, a sequence
  Illegal,      \* those whose instance or class name holds an underscore
  Transient,    \* those whose class is not persistent
  Components,   \* class -> the classes of its members and bases
  Plans         \* for each job of the chain what it may be, a sequence of sets

VARIABLES
  written,    \* the files of the jobs so far
  work,       \* the job and how far it is
  registry,   \* MasterProductRegistry
  lists,      \* BranchIDListRegistry: the lists and the reverse mapping
  principals, \* those of the event: of the primary file, then the secondary ones
  output      \* the output module

vars == <<written, work, registry, lists, principals, output>>

\* A job: its process and parameters; the files it reads, none if its source
\* makes events; what is registered by the source and by the modules; which
\* labels are dropped on output and whether their descriptions go too; whether
\* files must agree strictly; which classes have dictionaries.
JobOf(process, pset, inputs, secondaries, produces) ==
  [process |-> process, pset |-> pset, inputs |-> inputs, secondaries |-> secondaries,
   reconstitutes |-> <<>>, produces |-> produces, drops |-> {}, trims |-> FALSE,
   strict |-> TRUE, known |-> DOMAIN Components]

NoWork == [phase |-> "idle", job |-> JobOf("", 0, <<>>, <<>>, <<>>), at |-> 0, event |-> 0, failed |-> FALSE]
NoFile == [lists |-> <<>>, products |-> <<>>, events |-> <<>>]

\* The lists of each file, of which the registry makes the lookups, are left out.
NewRegistry == [list |-> <<>>, lookups |-> <<>>, frozen |-> FALSE,
                produced |-> FALSE, checked |-> {}, missing |-> {}]
NoLists == [data |-> <<>>, index |-> <<>>]

Init ==
  /\ written = <<>>
  /\ work = NoWork
  /\ registry = NewRegistry
  /\ lists = NoLists
  /\ principals = <<>>
  /\ output = [kept |-> {}, events |-> <<>>]

----------------------------------------------------------------------------
(* Descriptions of branches.                                                 *)

Branch(label) == <<work.job.process, label>>
LabelOf(b) == b[2]

Described == [confs |-> {<<work.job.process, work.job.pset>>}, present |-> TRUE, produced |-> TRUE]

\* BranchDescription::merge().
MergeDescription(a, b) == [a EXCEPT !.confs = @ \union b.confs, !.present = @ \/ b.present]

\* emplace() of what is new, merge() of what is there.
Merged(list, more) ==
  [b \in DOMAIN list \union DOMAIN more |->
     IF b \notin DOMAIN list THEN more[b]
     ELSE IF b \notin DOMAIN more THEN list[b]
     ELSE MergeDescription(list[b], more[b])]

\* match(): the description b of a new file against a, that of those before.
Matches(a, b, strict) ==
  /\ b.present => a.present
  /\ strict => Cardinality(b.confs) = 1 /\ a.confs = b.confs

----------------------------------------------------------------------------
(* Dictionaries.                                                             *)

\* checkType(): the classes it comes to from c, through those that have a
\* dictionary and have not been met before; only c itself without components.
Visited(c, checked, known, noComponents) ==
  LET step[n \in 0 .. Cardinality(DOMAIN Components)] ==
        IF n = 0 THEN {c} \ checked
        ELSE step[n - 1] \union (UNION {Components[e] : e \in step[n - 1] \intersect known} \ checked)
  IN IF noComponents THEN {c} \ checked ELSE step[Cardinality(DOMAIN Components)]

\* checkDicts() of the products with these labels.
CheckDicts(r, labels) ==
  FoldLeft(LAMBDA q, l :
             LET met == Visited(l, q.checked, work.job.known, l \in Transient)
             IN [q EXCEPT !.checked = @ \union met, !.missing = @ \union (met \ work.job.known)],
           r, labels)

LabelsOf(products) == SelectSeq(Labels, LAMBDA l : \E b \in DOMAIN products : LabelOf(b) = l)

----------------------------------------------------------------------------
(* The registry of products.                                                 *)

\* produces(), reconstitutes(): the labels one helper is given.
Legal(calls) ==
  /\ \A i \in DOMAIN calls : calls[i] \notin Illegal
  /\ \A i, j \in DOMAIN calls : calls[i] = calls[j] => i = j

\* registerProducts(), addProduct() for each of them.
MayAdd(r, calls) ==
  ~r.frozen /\ \A i \in DOMAIN calls : Branch(calls[i]) \notin DOMAIN r.list

RegisterProducts(r, calls) ==
  LET new == [b \in {Branch(calls[i]) : i \in DOMAIN calls} |-> Described]
  IN [CheckDicts(r, SortSeq(calls, LAMBDA k, l : \E i, j \in DOMAIN Labels :
                                     i < j /\ Labels[i] = k /\ Labels[j] = l))
      EXCEPT !.list = Merged(@, new), !.produced = @ \/ calls # <<>>]

InitFromFirstPrimaryFile(r, products) ==
  [CheckDicts(r, LabelsOf(products)) EXCEPT !.list = Merged(@, products)]

UpdateFromSecondaryFile(r, products) ==
  [CheckDicts(r, LabelsOf(products)) EXCEPT !.list = Merged(@, products),
                                            !.lookups = Append(@, DOMAIN products)]

\* The products of a file that no file before has, those produced by this
\* process among them, and those that are described otherwise.
NewIn(r, products) == {b \in DOMAIN products : b \notin DOMAIN r.list \/ r.list[b].produced}
Mismatched(r, products, strict) ==
  {b \in DOMAIN products \ NewIn(r, products) : ~Matches(r.list[b], products[b], strict)}

Agrees(r, products, strict) ==
  /\ \A b \in NewIn(r, products) : ~products[b].present
  /\ Mismatched(r, products, strict) = {}

\* Faulty: what matches is taken for described already.
UpdateFromNewPrimaryFileUnmerged(r, products, strict) ==
  [r EXCEPT !.lookups = <<DOMAIN r.list>>]

\* updateFromNewPrimaryFile(): new products are taken if they are dropped, the
\* description is merged if it matches and files may differ.
UpdateFromNewPrimaryFile(r, products, strict) ==
  LET dropped == [b \in {b \in NewIn(r, products) \ DOMAIN r.list : ~products[b].present}
                  |-> products[b]]
      matched == [b \in DOMAIN products \ (NewIn(r, products) \union Mismatched(r, products, strict))
                  |-> products[b]]
      list == Merged(Merged(r.list, dropped), IF strict THEN <<>> ELSE matched)
  IN [r EXCEPT !.list = list, !.lookups = <<DOMAIN list>>]

\* The lookups are made anew of all products.
SetFrozen(r) == [r EXCEPT !.frozen = TRUE, !.lookups = <<DOMAIN r.list>>]

----------------------------------------------------------------------------
(* The lists of branches.                                                    *)

\* updateFromInput(): as far as both go they must be the same.
SameLists(data, other) ==
  \A i \in 1 .. Len(data) : i <= Len(other) => data[i] = other[i]

ExtendLists(data, other) ==
  IF Len(other) <= Len(data) THEN data ELSE data \o SubSeq(other, Len(data) + 1, Len(other))

\* updateRegistries(): the products of this process in the order of the product
\* list, then where each branch is.
BidList(r) == SelectSeq([i \in DOMAIN Labels |-> Branch(Labels[i])],
                        LAMBDA b : b \in DOMAIN r.list /\ r.list[b].produced)

ReverseMapping(data) ==
  [b \in UNION {Range(data[i]) : i \in DOMAIN data} |->
     LET i == SelectInSeq(data, LAMBDA l : b \in Range(l))
     IN <<i, SelectInSeq(data[i], LAMBDA c : c = b)>>]

UpdateRegistries(r, data) ==
  LET all == Append(data, BidList(r)) IN [data |-> all, index |-> ReverseMapping(all)]

----------------------------------------------------------------------------
(* Events.                                                                   *)

\* Faulty: the place the process has in the history, not that of its list.
BranchListIndexOfHistory(e) == Len(e.history) + 1

\* The index of the list of this process, which is the last one.
BranchListIndex(e) == Len(lists.data)

Extended(e) ==
  IF registry.produced
  THEN [e EXCEPT !.history = Append(@, work.job.process), !.indexes = Append(@, BranchListIndex(e))]
  ELSE e

\* addToProcessHistory(): no process comes twice.
IsFresh(e) == registry.produced => ~Contains(e.history, work.job.process)

\* branchIDToProductID(), productIDToBranchID(): the latter gives an invalid
\* identifier, here <<>>, for what it cannot find.
HasProductID(e, b) == b \in DOMAIN lists.index /\ Contains(e.indexes, lists.index[b][1])
BranchIDToProductID(e, b) ==
  <<SelectInSeq(e.indexes, LAMBDA i : i = lists.index[b][1]), lists.index[b][2]>>
ProductIDToBranchID(e, id) ==
  IF id[1] \in DOMAIN e.indexes /\ e.indexes[id[1]] \in DOMAIN lists.data
     /\ id[2] \in DOMAIN lists.data[e.indexes[id[1]]]
  THEN lists.data[e.indexes[id[1]]][id[2]] ELSE <<>>

----------------------------------------------------------------------------
(* The job.                                                                  *)

File(n) == written[work.job.inputs[n]]
Secondary(n) == written[work.job.secondaries[n]]

\* selectProducts(): of those that are there, and persistent, what is not
\* dropped is added to what was kept before.
KeptProducts(r) ==
  {b \in DOMAIN r.list : /\ LabelOf(b) \notin Transient \union work.job.drops
                         /\ r.list[b].present \/ r.list[b].produced}

Failed == work' = [work EXCEPT !.failed = TRUE]
Goes(phase) == work.phase = phase /\ ~work.failed
Enters(phase) == work' = [work EXCEPT !.phase = phase]

\* The EventProcessor clears the lists of branches before anything else.
StartJob(job) ==
  /\ work.phase = "idle" /\ Len(written) < Len(Plans)
  /\ \A i \in Range(job.inputs) \union Range(job.secondaries) :
        i <= Len(written) /\ written[i] # NoFile
  /\ work' = [phase |-> "source", job |-> job, at |-> 1, event |-> 1, failed |-> FALSE]
  /\ registry' = NewRegistry
  /\ lists' = NoLists
  /\ output' = [kept |-> {}, events |-> <<>>]
  /\ UNCHANGED <<written, principals>>

\* makeInput(): a source that opens its first file, or one that registers what
\* it will make of other data.
MakeSource ==
  /\ Goes("source")
  /\ IF work.job.inputs # <<>>
     THEN /\ registry' = InitFromFirstPrimaryFile(registry, File(1).products)
          /\ lists' = [lists EXCEPT !.data = ExtendLists(@, File(1).lists)]
          /\ Enters("modules")
     ELSE /\ UNCHANGED lists
          /\ IF Legal(work.job.reconstitutes)
             THEN registry' = RegisterProducts(registry, work.job.reconstitutes) /\ Enters("modules")
             ELSE UNCHANGED registry /\ Failed
  /\ UNCHANGED <<written, principals, output>>

\* The Schedule: the modules of the paths are made, then the registry is frozen,
\* unless a dictionary is missing.
MakeSchedule ==
  /\ Goes("modules")
  /\ IF ~Legal(work.job.produces) \/ ~MayAdd(registry, work.job.produces)
     THEN UNCHANGED registry /\ Failed
     ELSE LET r == RegisterProducts(registry, work.job.produces)
          IN IF r.missing # {} THEN registry' = r /\ Failed
             ELSE registry' = SetFrozen(r) /\ Enters("endPath")
  /\ UNCHANGED <<written, lists, principals, output>>

\* The last things the EventProcessor's constructor does, and beginJob().
FinishConstruction ==
  /\ Goes("endPath")
  /\ lists' = UpdateRegistries(registry, lists.data)
  /\ output' = [output EXCEPT !.kept = KeptProducts(registry)]
  /\ Enters("running")
  /\ UNCHANGED <<written, registry, principals>>

\* What is in the trees of a file.
PresentIn(file) == {b \in DOMAIN file.products : file.products[b].present}

\* There is a group for each product the file describes, in its trees or not.
GroupsOf(file) == DOMAIN file.products

\* The source reads the next event of the file, or makes one.
MakesEvents == work.job.inputs = <<>>
NewEvent == [history |-> <<>>, indexes |-> <<>>, products |-> {}, ids |-> {}]
EventOfFile == IF MakesEvents THEN NewEvent ELSE File(work.at).events[work.event]

\* The principal of the event e in the file: it is made, and a group for each
\* product of the file, if the process is new and the products have identifiers.
MayMakePrincipal(e, groups) ==
  IsFresh(e) /\ \A b \in groups : HasProductID(Extended(e), b)
NewPrincipal(e, groups) == [Extended(e) EXCEPT !.products = groups]

\* The file that is open has one more; the source that makes events makes one.
HasEvent == IF MakesEvents THEN work.event = 1 ELSE work.event <= Len(File(work.at).events)

ReadEvent ==
  /\ Goes("running") /\ HasEvent
  /\ LET groups == IF MakesEvents THEN {} ELSE GroupsOf(File(work.at))
     IN IF MayMakePrincipal(EventOfFile, groups)
        THEN principals' = <<NewPrincipal(EventOfFile, groups)>> /\ Enters("event")
        ELSE UNCHANGED principals /\ Failed
  /\ UNCHANGED <<written, registry, lists, output>>

\* The source and the modules put what they registered; each product refers to
\* those that are there, by their identifiers.
PutProducts ==
  /\ Goes("event")
  /\ LET e == principals[1]
         new == {Branch(l) : l \in Range(work.job.reconstitutes) \union Range(work.job.produces)}
         all == e.products \union new
     IN principals' = [principals EXCEPT ![1] =
          [e EXCEPT !.products = all,
                    !.ids = @ \union {<<b, BranchIDToProductID(e, b)>> : b \in all}]]
  /\ Enters("produced")
  /\ UNCHANGED <<written, registry, lists, output>>

\* A product is looked for in vain: the next secondary file is opened, and the
\* event is read from it.
OpenSecondaryFile ==
  /\ Goes("produced")
  /\ LET n == Len(principals)
         file == Secondary(n)
     IN /\ n <= Len(work.job.secondaries) /\ file.events # <<>>
        /\ registry' = UpdateFromSecondaryFile(registry, file.products)
        /\ output' = [output EXCEPT !.kept = @ \union KeptProducts(registry')]
        /\ IF SameLists(lists.data, file.lists)
           THEN /\ lists' = [lists EXCEPT !.data = ExtendLists(@, file.lists)]
                /\ IF MayMakePrincipal(file.events[1], GroupsOf(file))
                   THEN principals' = Append(principals, NewPrincipal(file.events[1], GroupsOf(file)))
                        /\ UNCHANGED work
                   ELSE UNCHANGED principals /\ Failed
           ELSE UNCHANGED <<lists, principals>> /\ Failed
  /\ UNCHANGED written

\* The output module writes the event of the primary file.
WriteEvent ==
  /\ Goes("produced")
  /\ output' = [output EXCEPT !.events = Append(@, [principals[1] EXCEPT !.products = {}])]
  /\ principals' = <<>>
  /\ work' = [work EXCEPT !.phase = "running", !.event = @ + 1]
  /\ UNCHANGED <<written, registry, lists>>

\* nextFile(), initFile(): the callback lets the output module select products
\* before the source finds out that the file does not fit.
NextFile ==
  /\ Goes("running") /\ ~HasEvent /\ work.at < Len(work.job.inputs)
  /\ LET file == File(work.at + 1)
     IN /\ registry' = UpdateFromNewPrimaryFile(registry, file.products, work.job.strict)
        /\ output' = [output EXCEPT !.kept = @ \union KeptProducts(registry')]
        /\ IF Agrees(registry, file.products, work.job.strict) /\ SameLists(lists.data, file.lists)
           THEN /\ lists' = [lists EXCEPT !.data = ExtendLists(@, file.lists)]
                /\ work' = [work EXCEPT !.at = @ + 1, !.event = 1]
           ELSE UNCHANGED lists /\ Failed
  /\ UNCHANGED <<written, principals>>

\* The descriptions that go into the file: not those of transient products, nor
\* of what is dropped if the descriptions go too.  What a file has is seen when
\* it is opened.
StoredProducts ==
  [b \in {c \in DOMAIN registry.list : /\ LabelOf(c) \notin Transient
                                       /\ work.job.trims => c \in output.kept}
   |-> [registry.list[b] EXCEPT !.present = b \in output.kept, !.produced = FALSE]]

\* The output file is written whether the job failed or not, unless the
\* EventProcessor has not been made.
EndJob ==
  /\ \/ Goes("running") /\ ~HasEvent /\ work.at >= Len(work.job.inputs)
     \/ work.failed
  /\ written' = Append(written,
       IF work.phase \in {"source", "modules", "endPath"} THEN NoFile
       ELSE [lists |-> lists.data, products |-> StoredProducts, events |-> output.events])
  /\ work' = NoWork
  /\ registry' = NewRegistry
  /\ principals' = <<>>
  /\ output' = [kept |-> {}, events |-> <<>>]
  /\ UNCHANGED lists

Next ==
  \/ \E n \in DOMAIN Plans : \E job \in Plans[n] : n = Len(written) + 1 /\ StartJob(job)
  \/ MakeSource \/ MakeSchedule \/ FinishConstruction
  \/ ReadEvent \/ PutProducts \/ OpenSecondaryFile \/ WriteEvent \/ NextFile
  \/ EndJob

Spec == Init /\ [][Next]_vars

-----------------------------------------------------------------------------
\* The identifiers of products, ProductIDToBranchID and its inverse, that any
\* job gave to what it put, and that are in the events as they are read in later
\* jobs, out of primary and secondary files, name the branch they were given
\* for, whatever was dropped, added and merged in between; and what is in an
\* event has an identifier that leads back to it.
ProductIDsKeepTheirMeaning ==
  \A i \in DOMAIN principals :
    LET e == principals[i]
    IN /\ \A p \in e.ids : ProductIDToBranchID(e, p[2]) = p[1]
       /\ \A b \in e.products : ProductIDToBranchID(e, BranchIDToProductID(e, b)) = b

\* What the files that are open hold is known to the job: whatever job opened
\* which files in which order, a branch of the primary file is looked up, and
\* goes to the output unless it is dropped; its descriptions agree with those of
\* the first file when they must, and are among those that are kept if not.
FilesAreKnown ==
  work.phase \in {"running", "event", "produced"} /\ ~work.failed /\ ~MakesEvents =>
    LET file == File(work.at)
    IN \A b \in PresentIn(file) :
         /\ b \in registry.lookups[1]
         /\ b \in output.kept \/ LabelOf(b) \in Transient \union work.job.drops
         /\ file.products[b].confs \subseteq registry.list[b].confs
         /\ work.job.strict /\ b \in DOMAIN File(1).products
              => file.products[b].confs = File(1).products[b].confs

\* A job that goes beyond its construction has the dictionaries of every class
\* the persistent products of its first file and its modules are made of, as if
\* each were checked by itself: the cache all checks share hides none of them, but
\* those that are behind a transient product's class.
DictionariesAreThere ==
  work.phase = "endPath" =>
    \A b \in DOMAIN registry.list :
      LabelOf(b) \notin Transient =>
        Visited(LabelOf(b), Transient, work.job.known, FALSE) \subseteq work.job.known
============================================================================
