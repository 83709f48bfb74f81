------------------------------- MODULE Mixing -------------------------------
(* Mixing: for every primary event, a filter reads a number of secondary      *)
(* events from files of its own, merges their products and puts the result    *)
(* into the primary event.  MixHelper chooses the entries and changes files,  *)
(* ProdToProdMapBuilder finds how a product is identified in the secondary    *)
(* events and in the primary one, and PtrRemapper rewrites the pointers.      *)
(*                                                                            *)
(* The mix functions are those the headers are written for: "hits" is a       *)
(* collection, merged with flattenCollections(), and "links" holds pointers   *)
(* into it, rewritten with the offsets found there.  A hit is named by its    *)
(* file, its entry and its place; entries and keys count from 1.              *)
EXTENDS Integers, Sequences, SequencesExt, TLC

CONSTANTS
  Files,      \* the files: [state, branch, lists, events]
  Configs,    \* the configurations of the filter
  MaxN,       \* bound: the secondaries of a primary event
  OutID,      \* the ProductIDs of the mixed products in the primary event
  Outputs,    \* the operations declared with outputProduct = true
  Survives    \* the failures after which the job goes on to the next event

Ops == {"hits", "links"}
NoID == <<0, 0>>        \* an invalid ProductID

MixingAssumption ==
  /\ MaxN \in Nat
  /\ \A op \in Ops : OutID[op] # NoID
  /\ Outputs \subseteq Ops
  /\ Survives \subseteq {"exhausted", "rejected", "threw"}
  /\ \A c \in Configs : /\ c.mode \in {"SEQUENTIAL", "RANDOM_REPLACE",
                                       "RANDOM_LIM_REPLACE", "RANDOM_NO_REPLACE"}
                        /\ c.percent \in 1 .. 100 /\ c.skip \in Nat

VARIABLES cfg,      \* the configuration
          helper,   \* MixHelper
          tables,   \* ProdToProdMapBuilder
          request   \* the secondaries of the current event, and what was mixed

vars == <<cfg, helper, tables, request>>

-----------------------------------------------------------------------------
(* fileIter_, whether a file has been seen (ffVersion_ is valid), the file    *)
(* that is open, and where it is read.  `used` is ours: the entries that were *)
(* mixed since the file was opened.                                           *)
NewHelper == [fileIter |-> 1, seen |-> FALSE, file |-> 0, nRead |-> 0,
              nInFile |-> 0, eventIDs |-> <<>>, shuffled |-> <<>>, used |-> <<>>]
NewTables == [trans |-> <<>>, product |-> <<>>]
NoRequest == [phase |-> "idle", n |-> 0, entries |-> <<>>, ids |-> <<>>,
              hits |-> <<>>, links |-> <<>>, put |-> {}]

Init == /\ cfg \in Configs
        /\ helper = NewHelper
        /\ tables = NewTables
        /\ request = NoRequest

-----------------------------------------------------------------------------
(* Translation tables.                                                        *)

\* The ProductID of a branch in an event: where the first list with the branch
\* is in the event's history, and where the branch is in the list.
FirstList(f, b) == SelectInSeq(Files[f].lists, LAMBDA l : Contains(l, b))
ProductIDIn(f, ev, b) ==
  LET l == FirstList(f, b) IN
  IF l = 0 \/ ~Contains(ev.history, l) THEN NoID
  ELSE <<SelectInSeq(ev.history, LAMBDA x : x = l),
         SelectInSeq(Files[f].lists[l], LAMBDA x : x = b)>>

\* buildBranchIDTransMap_(): the incoming branches, each with the operation
\* whose product it becomes.  An operation whose product is not in the file
\* throws.
HasBranches(f) == \A op \in Ops : Files[f].branch[op] # "none"
TransMap(f) == [b \in {Files[f].branch[op] : op \in Ops} |->
                 CHOOSE op \in Ops : Files[f].branch[op] = b]

\* buildSecondaryProductMap(): `tmp` is given away when it becomes the map, and
\* is otherwise neither cleared nor overwritten.
\* Faulty: what the first event of the first file says is taken for granted.
AddEventUnchecked(acc, f, trans, ev) ==
  LET ids == [b \in DOMAIN trans |-> ProductIDIn(f, ev, b)] IN
  IF DOMAIN acc.map = {} THEN [acc EXCEPT !.map = ids] ELSE acc

AddEvent(acc, f, trans, ev) ==
  LET ids == [b \in DOMAIN trans |-> ProductIDIn(f, ev, b)]
      tmp == acc.tmp @@ ids
  IN  IF ~acc.ok \/ \E b \in DOMAIN ids : ids[b] = NoID THEN [acc EXCEPT !.ok = FALSE]
      ELSE IF DOMAIN acc.map = {} THEN [acc EXCEPT !.map = tmp, !.tmp = <<>>]
      ELSE [acc EXCEPT !.tmp = tmp, !.ok = tmp = acc.map]

SecondaryProductMap(f, trans) ==
  FoldLeft(LAMBDA acc, ev : AddEvent(acc, f, trans, ev),
           [tmp |-> <<>>, map |-> tables.product, ok |-> TRUE], Files[f].events)

\* prepareTranslationTables(): the first file's map is kept, and those of the
\* others must be equal.
Trans(f) == IF DOMAIN tables.trans = {} THEN TransMap(f) ELSE tables.trans
Consistent(f) == Trans(f) = TransMap(f)

-----------------------------------------------------------------------------
(* Choosing the secondary events.                                             *)

\* The detail object says how many; a job goes on after a failure it survives.
NextEvent ==
  /\ request.phase \in {"idle", "mixed"} \union Survives
  /\ \E n \in 0 .. MaxN : request' = [NoRequest EXCEPT !.phase = "generate", !.n = n]
  /\ UNCHANGED <<cfg, helper, tables>>

OverThreshold ==
  IF cfg.mode \in {"SEQUENTIAL", "RANDOM_NO_REPLACE"}
  THEN helper.nRead + request.n > helper.nInFile
  ELSE 100 * (helper.nRead + request.n) > helper.nInFile * cfg.percent

Fail(why) == request' = [request EXCEPT !.phase = why]

\* openNextFile_() up to the name: the provider's answer (0 when it has no
\* more), or the next of the configured names.  Moving on from the end of the
\* names leaves them.
Advanced == IF helper.seen THEN helper.fileIter + 1 ELSE helper.fileIter
Position == IF Advanced = Len(cfg.names) + 1 /\ cfg.wrap THEN 1 ELSE Advanced
Candidates ==
  IF cfg.provider THEN 0 .. Len(Files)
  ELSE IF Position \in DOMAIN cfg.names THEN {cfg.names[Position]} ELSE {0}
FileIter == IF cfg.provider \/ cfg.names = <<>> THEN helper.fileIter ELSE Position

Exhausted ==
  /\ helper' = [helper EXCEPT !.fileIter = FileIter]
  /\ Fail(IF ~cfg.provider /\ Position > Len(cfg.names) + 1 THEN "outOfRange" ELSE "exhausted")
  /\ UNCHANGED <<cfg, tables>>

\* Where a file begins; the order of its entries in RANDOM_NO_REPLACE mode.
FirstToRead == IF cfg.mode = "SEQUENTIAL" THEN cfg.skip ELSE 0
Shuffles(n) ==
  IF cfg.mode = "RANDOM_NO_REPLACE"
  THEN {s \in [1 .. n -> 1 .. n] : IsInjective(s)} ELSE {<<>>}

\* openAndReadMetaData_().  What was set before a failure stays set.
Unreadable(f) ==
  /\ Files[f].state = "unreadable"
  /\ helper' = [helper EXCEPT !.fileIter = FileIter, !.nRead = FirstToRead]
  /\ Fail("rejected")
  /\ UNCHANGED <<cfg, tables>>

Opened(f) ==
  [helper EXCEPT !.fileIter = FileIter, !.nRead = FirstToRead, !.seen = TRUE,
                 !.file = f, !.nInFile = Len(Files[f].events), !.used = <<>>]
WithIDs(f) ==
  [Opened(f) EXCEPT !.eventIDs = [e \in DOMAIN Files[f].events |-> Files[f].events[e].id]]

OtherEra(f) ==
  /\ Files[f].state = "otherEra"
  /\ helper' = Opened(f)
  /\ Fail("rejected")
  /\ UNCHANGED <<cfg, tables>>

Mistranslated(f) ==
  /\ Files[f].state = "good"
  /\ ~HasBranches(f) \/ ~Consistent(f)
  /\ helper' = WithIDs(f)
  /\ Fail("rejected")
  /\ UNCHANGED <<cfg, tables>>

Readable(f) ==
  /\ Files[f].state = "good" /\ HasBranches(f) /\ Consistent(f)
  /\ \E found \in {SecondaryProductMap(f, Trans(f))} :
       /\ tables' = [trans |-> Trans(f), product |-> found.map]
       /\ \/ /\ ~found.ok
             /\ helper' = WithIDs(f)
             /\ Fail("rejected")
          \/ /\ found.ok
             /\ \E s \in Shuffles(Len(Files[f].events)) :
                  helper' = [WithIDs(f) EXCEPT !.shuffled = s]
             /\ UNCHANGED request
  /\ UNCHANGED cfg

OpenNextFile ==
  /\ request.phase = "generate"
  /\ OverThreshold \/ ~helper.seen
  /\ \E f \in Candidates :
       \/ f = 0 /\ Exhausted
       \/ f # 0 /\ (Unreadable(f) \/ OtherEra(f) \/ Mistranslated(f) \/ Readable(f))

\* generateEventSequence(): the entries, drawn as the mode says.
Sorted(s) == \A i \in 1 .. Len(s) - 1 : s[i] <= s[i + 1]
Draws(n) == {s \in [1 .. n -> 1 .. helper.nInFile] : Sorted(s)}
Sequences(n) ==
  CASE cfg.mode = "SEQUENTIAL" -> {[i \in 1 .. n |-> helper.nRead + i]}
    [] cfg.mode = "RANDOM_REPLACE" -> Draws(n)
    [] cfg.mode = "RANDOM_LIM_REPLACE" -> {s \in Draws(n) : IsInjective(s)}
    [] OTHER -> {SubSeq(helper.shuffled, helper.nRead + 1, helper.nRead + n)}

GenerateEventSequence ==
  /\ request.phase = "generate"
  /\ ~OverThreshold /\ helper.seen
  /\ \E s \in Sequences(request.n) :
       IF \A i \in DOMAIN s : s[i] \in DOMAIN helper.eventIDs
       THEN request' = [request EXCEPT !.phase = "mix", !.entries = s,
                          !.ids = [i \in DOMAIN s |-> helper.eventIDs[s[i]]]]
       ELSE Fail("threw")
  /\ UNCHANGED <<cfg, helper, tables>>

-----------------------------------------------------------------------------
(* Reading, mixing and putting the products.                                  *)

Event(e) == Files[helper.file].events[e]

\* readFromFile(), and the compaction in MixOp::mixAndPut().
ReadFromFile(op) ==
  LET all == [i \in DOMAIN request.entries |->
                [entry |-> request.entries[i], product |-> Event(request.entries[i])[op]]]
  IN  IF cfg.compact THEN SelectSeq(all, LAMBDA p : p.product.there) ELSE all

\* flattenCollections(): products that are missing leave no offset.
There(in) == SelectSeq(in, LAMBDA p : p.product.there)
Offsets(in) ==
  LET sizes == [i \in DOMAIN There(in) |-> There(in)[i].product.size]
  IN  [i \in DOMAIN sizes |-> FoldLeft(LAMBDA x, y : x + y, 0, SubSeq(sizes, 1, i - 1))]
FlattenCollections(in) ==
  FlattenSeq([i \in DOMAIN There(in) |->
    [k \in 1 .. There(in)[i].product.size |-> <<helper.file, There(in)[i].entry, k>>]])

\* A pointer as it is stored: one that was never set, a null pointer to a
\* product, or a pointer to an element.
StoredPtr(e, ref) ==
  IF ref < 0 THEN [id |-> NoID, key |-> 0]
  ELSE [id |-> ProductIDIn(helper.file, Event(e), Files[helper.file].branch["hits"]), key |-> ref]

\* populateRemapper(): secondary ProductID -> primary ProductID.
Translates(id) == \E b \in DOMAIN tables.product : tables.product[b] = id
Translated(id) ==
  LET op == tables.trans[CHOOSE b \in DOMAIN tables.product : tables.product[b] = id]
  IN  IF op \in Outputs THEN OutID[op] ELSE NoID

\* PtrRemapper, signature 1: one pointer; 10: the pointers of all products.
RemapPtr(p, offset) ==
  IF p.id = NoID THEN p
  ELSE [id |-> Translated(p.id), key |-> IF p.key = 0 THEN 0 ELSE p.key + offset]
Remap(in, offsets) ==
  FlattenSeq([i \in DOMAIN in |->
    [k \in DOMAIN in[i].product.refs |->
      RemapPtr(StoredPtr(in[i].entry, in[i].product.refs[k]), offsets[i])]])
Unknown(in) ==
  \E i \in DOMAIN in : \E k \in DOMAIN in[i].product.refs :
    LET p == StoredPtr(in[i].entry, in[i].product.refs[k])
    IN  p.id # NoID /\ ~Translates(p.id)

\* mixAndPut().  The number of events read is only changed when all went well.
Mix ==
  /\ request.phase = "mix"
  /\ \E hits \in {ReadFromFile("hits")}, links \in {ReadFromFile("links")}, put \in SUBSET Ops :
       \/ /\ \/ DOMAIN tables.product # DOMAIN tables.trans
             \/ ~(put \subseteq Outputs)
             \/ Len(links) # Len(Offsets(hits))
             \/ Unknown(links)
          /\ Fail("threw") /\ UNCHANGED helper
       \/ /\ DOMAIN tables.product = DOMAIN tables.trans
          /\ put \subseteq Outputs
          /\ Len(links) = Len(Offsets(hits))
          /\ ~Unknown(links)
          /\ IF \E i \in DOMAIN links : ~links[i].product.there
             THEN Fail("nullProduct") /\ UNCHANGED helper
             ELSE /\ request' = [request EXCEPT !.phase = "mixed", !.put = put,
                                   !.hits = FlattenCollections(hits),
                                   !.links = Remap(links, Offsets(hits))]
                  /\ helper' = [helper EXCEPT !.nRead = @ + Len(request.entries),
                                              !.used = @ \o request.entries]
  /\ UNCHANGED <<cfg, tables>>

Next == NextEvent \/ OpenNextFile \/ GenerateEventSequence \/ Mix

Spec == Init /\ [][Next]_vars

-----------------------------------------------------------------------------
\* What the pointers of the secondary events led to, and what those of the
\* mixed product lead to.
Meant ==
  FlattenSeq([i \in DOMAIN request.entries |->
    LET p == Event(request.entries[i]).links IN
    IF ~p.there THEN <<>>
    ELSE [k \in DOMAIN p.refs |->
           IF p.refs[k] < 1 THEN <<p.refs[k]>>
           ELSE <<helper.file, request.entries[i], p.refs[k]>>]])
LeadsTo(p) ==
  IF p.id = NoID THEN <<-1>>
  ELSE IF p.key = 0 THEN <<0>>
  ELSE IF p.id = OutID["hits"] /\ p.key \in DOMAIN request.hits THEN request.hits[p.key]
  ELSE <<-2>>

\* Every pointer of a mixed product leads to the hit it led to in its secondary
\* event, whatever the files, their histories and the products that are missing.
PointersFollow ==
  request.phase = "mixed" =>
    [i \in DOMAIN request.links |-> LeadsTo(request.links[i])] = Meant

\* The identifiers handed to the detail object are those of the events that are
\* mixed.
IDsAreOfEntries ==
  request.phase \in {"mix", "mixed"} =>
    request.ids = [i \in DOMAIN request.entries |-> Event(request.entries[i]).id]

\* An entry is used once until the next file is opened where the mode says so,
\* once in a primary event with limited replacement, and no more entries are
\* used than the coverage fraction allows.
UsedAsAllowed ==
  /\ cfg.mode \in {"SEQUENTIAL", "RANDOM_NO_REPLACE"} => IsInjective(helper.used)
  /\ cfg.mode = "RANDOM_LIM_REPLACE" => IsInjective(request.entries)
  /\ 100 * Len(helper.used) <= helper.nInFile
       * (IF cfg.mode \in {"SEQUENTIAL", "RANDOM_NO_REPLACE"} THEN 100 ELSE cfg.percent)

\* No product that is missing is used, and no name after the last one.
NothingUndefined == request.phase \notin {"nullProduct", "outOfRange"}
=============================================================================
