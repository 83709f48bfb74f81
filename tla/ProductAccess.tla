--------------------------- MODULE ProductAccess ---------------------------
(* How a principal (an event, a sub-run or a run being processed) finds a    *)
(* product: in the groups of its own (primary) input file, among the         *)
(* products of this process, made on demand if need be, and in the secondary *)
(* files, which are opened one after the other, and only when a request is   *)
(* not satisfied by what is open already.                                    *)
(*                                                                           *)
(* The input is data: file 0 is the primary file, files 1..N its secondary   *)
(* files, in the order they are configured.  A product is registered in a    *)
(* file with its branch, as "dropped" (it is an ancestor of a product that   *)
(* was kept, there is a group and nothing to read) or not at all ("none").   *)
EXTENDS Integers, FiniteSets, Sequences, SequencesExt

CONSTANTS
  N,            \* the number of secondary files of the primary file
  Unreadable,   \* the secondary files that cannot be opened
  Products,     \* the products (branches)
  Process,      \* product -> the process that made it
  ThisProcess,  \* the process that is running
  History,      \* the earlier processes of the primary file, earliest first
  Items,        \* the events (or the runs) of the primary file
  Holds,        \* secondary file -> the items it holds too
  Registered,   \* file -> product -> "branch", "dropped" or "none"
  Stored,       \* file -> item -> product -> "real", "dummy" or "known"
  OnDemand,     \* the products of this process that are made on demand
  Worker,       \* product made on demand -> "makes", "nothing" or "throws"
  Ops,          \* the kinds of requests made: "label", "id", "output"
  Queries,      \* the sets of products that a type and a selector stand for
  MaxAlive      \* how many principals are kept at a time (one event; the
                \* runs of an input file, when they are merged)

Files == 0 .. N

ProductAccessAssumption ==
  /\ N \in Nat
  /\ MaxAlive \in Nat \ {0}
  /\ Unreadable \subseteq 1 .. N
  /\ OnDemand \subseteq {p \in Products : Process[p] = ThisProcess}

\* What a request ends in.  "outOfRange" stands for an access beyond the end
\* of secondaryPrincipals_, "noReader" for a read without a branch (a failed
\* assertion, or a null pointer), "dangling" for the use of a principal that
\* is gone.
Failed(kind) == [kind |-> kind, at |-> 0, product |-> {}]
NotFound == Failed("none")
Found(k, p) == [kind |-> "found", at |-> k, product |-> {p}]

VARIABLES
  principals,   \* item -> its principal
  last,         \* the item whose principal was read last (primaryEP_,
                \* primaryRP_) as a set, empty when that principal is gone
  opened,       \* how many secondary files have been opened: productLookup_
                \* has one element more
  given         \* the answers so far: [item, ask, answer]

vars == <<principals, last, opened, given>>

\* The groups of one file's principal for an item, none of them read.
Groups(f, i) ==
  [file |-> f, item |-> i, value |-> [p \in Products |-> "unread"]]

\* A principal: its own groups, followed by those of its secondary principals
\* (none when it is constructed); next: nextSecondaryFileIdx_.  It is stale
\* when the input file it was read from has been closed.
Fresh(i) == [alive |-> TRUE, stale |-> FALSE, groups |-> <<Groups(0, i)>>,
             next |-> 0, made |-> {}]
Gone(i) == [Fresh(i) EXCEPT !.alive = FALSE]

----------------------------------------------------------------------------
(* The state of one request: the principals, and the principal `i` that is   *)
(* asked.                                                                    *)

State(i) == [ps |-> principals, i |-> i, opened |-> opened,
             found |-> {}, answer |-> NotFound, done |-> FALSE, err |-> 0]
Self(S) == S.ps[S.i]
Finish(S, answer) == [S EXCEPT !.done = TRUE, !.answer = answer]

\* The groups of a principal's own file: the products registered in it, and
\* those of this process that are made, or will be on demand.
HasGroup(S, k, p) ==
  \/ Registered[Self(S).groups[k].file][p] # "none"
  \/ k = 1 /\ p \in OnDemand \union Self(S).made

StillOnDemand(S, k, p) == k = 1 /\ p \in OnDemand \ Self(S).made

\* productUnavailable(): a dropped product is, and one whose status (that of
\* the product when it has been read, else that of its provenance) says so.
\* A product without provenance is available until it has been read.
Unavailable(S, k, p) ==
  LET g == Self(S).groups[k] IN
  /\ ~StillOnDemand(S, k, p)
  /\ p \notin Self(S).made
  /\ \/ Registered[g.file][p] = "dropped"
     \/ g.value[p] = "dummy"
     \/ g.value[p] = "unread" /\ Stored[g.file][g.item][p] = "known"

\* getProduct_(): the entry of the product's branch, which may be a dummy.
ReadBranch(g, p) ==
  IF Stored[g.file][g.item][p] = "real" THEN "real" ELSE "dummy"

\* resolveProductIfAvailable(): run the worker of a product made on demand, or
\* read the branch.  A dropped product, and one made on demand that is not
\* to be made now, have no branch, and a reader has no next reader.
Resolve(S, k, p, fillOnDemand) ==
  LET g == Self(S).groups[k] IN
  IF StillOnDemand(S, k, p)
  THEN IF ~fillOnDemand THEN Finish(S, Failed("noReader"))
       ELSE CASE Worker[p] = "throws" -> Finish(S, Failed("threw"))
              [] Worker[p] = "makes" -> [S EXCEPT !.ps[S.i].made = @ \union {p}]
              [] OTHER -> S
  ELSE IF p \in Self(S).made \/ g.value[p] # "unread" THEN S
  ELSE IF Registered[g.file][p] = "dropped" THEN Finish(S, Failed("noReader"))
  ELSE [S EXCEPT !.ps[S.i].groups[k].value[p] = ReadBranch(g, p)]

----------------------------------------------------------------------------
(* Opening the next secondary file.                                          *)

\* readEventForSecondaryFile(), readRunForSecondaryFile(): the item's entry in
\* the secondary file, for the principal that was read last.
AddSecondary(S, f) ==
  [S EXCEPT !.ps[CHOOSE j \in last : TRUE].groups = Append(@, Groups(f, S.i)),
            !.err = 0]

\* openNextSecondaryFile(): the file is opened if it is not yet, and the
\* secondary principal is added to the principal that was read last.
\* The reader of a stale principal has no input file any more.
\* err = -2: there are no more files; -1: the file does not hold the item.
OpenSecondaryFile(S, f) ==
  [S EXCEPT !.opened = IF f > @ THEN f ELSE @, !.ps[S.i].next = f]
ReadSecondaryFile(S, f) ==
  IF S.i \notin Holds[f] THEN [S EXCEPT !.err = -1]
  ELSE IF last = {} THEN Finish(S, Failed("dangling"))
  ELSE AddSecondary(S, f)
TryNextSecondaryFile(S) ==
  LET f == Self(S).next + 1 IN
  IF Self(S).stale THEN Finish(S, Failed("dangling"))
  ELSE IF f > N THEN [S EXCEPT !.err = -2]
  ELSE IF f \in Unreadable THEN Finish(S, Failed("threw"))
  ELSE ReadSecondaryFile(OpenSecondaryFile(S, f), f)

----------------------------------------------------------------------------
(* By type and selector.                                                     *)

\* getGroup(): the primary file's group, whether or not the product can be
\* retrieved from it, else that of the first secondary principal that has one.
GroupOf(S, p) ==
  LET K == {k \in DOMAIN Self(S).groups : HasGroup(S, k, p)}
  IN {k \in K : \A j \in K : k <= j}

\* One group: skipped when it is unavailable, and kept when it still is not
\* after it has been read or made.
Keep(S, k, p) ==
  IF S.done \/ Unavailable(S, k, p) \/ StillOnDemand(S, k, p) THEN S
  ELSE [S EXCEPT !.found = @ \union {<<k, p>>}]
TakeGroup(S, k, p) ==
  IF S.done \/ Unavailable(S, k, p) THEN S ELSE Keep(Resolve(S, k, p, TRUE), k, p)

FindGroupsForProcess(S, bids) ==
  FoldLeft(LAMBDA T, p : IF GroupOf(T, p) = {} THEN T
                         ELSE TakeGroup(T, CHOOSE k \in GroupOf(T, p) : TRUE, p),
           S, SetToSeq(bids))

\* This process first, then the history of the principal from its end.
\* lookup: what productLookup() has for the type, narrowed to the selector.
FindGroups(S, lookup, stopIfProcessHasMatch) ==
  LET Of(T, proc) == FindGroupsForProcess(T, {p \in lookup : Process[p] = proc})
  IN FoldLeft(LAMBDA T, proc :
                IF T.found # {} /\ stopIfProcessHasMatch THEN T ELSE Of(T, proc),
              Of(S, ThisProcess), Reverse(History))

\* productLookup()[f]: what the registry knows of that file.  Element 0 has
\* the products of this process too.
Lookup(f) == {p \in Products : \/ Registered[f][p] # "none"
                               \/ f = 0 /\ Process[p] = ThisProcess}

\* Faulty: the index of the file, not biased up by one, is used as the index
\* into the lookups.
OpenedLookupUnbiased(S) == Self(S).next - 1

\* The lookup of the secondary file that was opened last.
OpenedLookup(S) == Self(S).next

FindIn(S, f, q, stop) ==
  IF S.done \/ S.found # {} THEN S ELSE FindGroups(S, Lookup(f) \cap q, stop)
FindInOpened(S, q, stop) ==
  IF S.done \/ S.err # 0 THEN S ELSE FindIn(S, OpenedLookup(S), q, stop)

\* The lookups there are, then one secondary file after the other.
FindGroupsForProduct(S, q, stopIfProcessHasMatch) ==
  LET There == FoldLeft(LAMBDA T, k : FindIn(T, k - 1, q, stopIfProcessHasMatch), S, [k \in 1 .. S.opened + 1 |-> k])
  IN FoldLeft(LAMBDA T, k : IF T.done \/ T.found # {} THEN T
                            ELSE FindInOpened(TryNextSecondaryFile(T), q, stopIfProcessHasMatch),
              There, [k \in 1 .. N |-> k])

\* getByLabel, getBySelector: exactly one product must match.
OnlyOne(S) ==
  IF S.done THEN S
  ELSE IF S.found = {} THEN Finish(S, NotFound)
  ELSE IF \E g, h \in S.found : g # h THEN Finish(S, Failed("many"))
  ELSE LET g == CHOOSE g \in S.found : TRUE IN Finish(S, Found(g[1], g[2]))
GetByLabel(i, q) == OnlyOne(FindGroupsForProduct(State(i), q, TRUE))

----------------------------------------------------------------------------
(* By product identifier, and for output.                                    *)

\* Faulty: the secondary files are opened, and what they have is not taken.
GetGroupForPtrLate(S, p) ==
  IF HasGroup(S, 1, p) /\ ~Unavailable(S, 1, p) THEN Finish(S, Found(1, p))
  ELSE
    LET K == {k \in DOMAIN Self(S).groups \ {1} : HasGroup(S, k, p)}
    IN IF K # {} THEN Finish(S, Found(CHOOSE k \in K : \A j \in K : k <= j, p))
       ELSE FoldLeft(LAMBDA T, j : TryNextSecondaryFile(T), S, [j \in 1 .. N |-> j])

\* getGroupForPtr(): the group where the product can be retrieved from.  The
\* secondary principals there are are not asked whether it can.
InOpened(S, k, p) ==
  IF S.done \/ S.err # 0 THEN S
  ELSE IF k \notin DOMAIN Self(S).groups THEN Finish(S, Failed("outOfRange"))
  ELSE IF HasGroup(S, k, p) /\ ~Unavailable(S, k, p) THEN Finish(S, Found(k, p)) ELSE S
AtNext(S, p) == InOpened(S, Self(S).next + 1, p)
GetGroupForPtr(S, p) ==
  IF HasGroup(S, 1, p) /\ ~Unavailable(S, 1, p) THEN Finish(S, Found(1, p))
  ELSE
    LET K == {k \in DOMAIN Self(S).groups \ {1} : HasGroup(S, k, p)}
    IN IF K # {} THEN Finish(S, Found(CHOOSE k \in K : \A j \in K : k <= j, p))
       ELSE FoldLeft(LAMBDA T, j : IF T.done THEN T ELSE AtNext(TryNextSecondaryFile(T), p), S, [j \in 1 .. N |-> j])

\* getResolvedGroup(): the group is resolved, whether available or not.
OrOnDemand(S, k, p) ==
  IF S.answer.kind = "found" /\ StillOnDemand(S, k, p) THEN Finish(S, NotFound) ELSE S
Resolved(S, p, fillOnDemand) ==
  IF S.answer.kind # "found" THEN S
  ELSE OrOnDemand(Resolve(S, S.answer.at, p, fillOnDemand), S.answer.at, p)
GetResolvedGroup(i, p, fillOnDemand) == Resolved(GetGroupForPtr(State(i), p), p, fillOnDemand)

GetByProductID(i, p) == GetResolvedGroup(i, p, TRUE)
GetForOutput(i, p) == GetResolvedGroup(i, p, FALSE)

\* The request of a reference that was read from secondary file f: the finder
\* is the secondary principal, which looks among the groups of the primary
\* principal and then in its own secondary principals, of which it has none;
\* its file has no secondary files either.
GetFromSecondary(i, p) ==
  LET S == State(i) IN
  IF HasGroup(S, 1, p) /\ ~Unavailable(S, 1, p)
  THEN Resolve(Finish(S, Found(1, p)), 1, p, TRUE)
  ELSE Finish(S, NotFound)

----------------------------------------------------------------------------
(* The actions.                                                              *)

Init ==
  /\ principals = [i \in Items |-> Gone(i)]
  /\ last = {}
  /\ opened = 0
  /\ given = {}

Alive == {i \in Items : principals[i].alive}
Forget(i) == {g \in given : g.item # i}

\* readEvent, readRun: the principal is new, and it is the one that the
\* secondary files add theirs to from now on.
Read(i) ==
  /\ i \notin Alive
  /\ Cardinality(Alive) < MaxAlive
  /\ principals' = [principals EXCEPT ![i] = Fresh(i)]
  /\ last' = {i}
  /\ UNCHANGED <<opened, given>>

\* A further entry of a run that is still there: the principal is read, merged
\* into the one there is (which has all its groups), and gone.
ReadAgain(i) ==
  /\ MaxAlive > 1
  /\ i \in Alive
  /\ last' = {}
  /\ UNCHANGED <<principals, opened, given>>

\* The event has been processed, the run has been written.
Release(i) ==
  /\ i \in Alive
  /\ principals' = [principals EXCEPT ![i] = Gone(i)]
  /\ last' = last \ {i}
  /\ given' = Forget(i)
  /\ UNCHANGED opened

\* The input file is closed, and the next one, with the same products, is
\* opened: the lookups of its secondary files are made anew.
NextInputFile ==
  /\ MaxAlive > 1 \/ Alive = {}
  /\ principals' = [i \in Items |-> [principals[i] EXCEPT !.stale = @ \/ i \in Alive]]
  /\ last' = {}
  /\ opened' = 0
  /\ UNCHANGED given

Asks == [op : Ops \cap {"label"}, of : Queries]
        \union [op : Ops \ {"label"}, of : {{p} : p \in Products}]

Answer(i, ask) ==
  LET p == CHOOSE p \in ask.of : TRUE IN
  CASE ask.op = "label" -> GetByLabel(i, ask.of)
    [] ask.op = "id" -> GetByProductID(i, p)
    [] ask.op = "output" -> GetForOutput(i, p)

\* What the answer refers to has a value by now.
ValueOf(S) ==
  IF S.answer.kind # "found" THEN "nothing"
  ELSE LET p == CHOOSE p \in S.answer.product : TRUE IN
       IF p \in Self(S).made THEN "real"
       ELSE Self(S).groups[S.answer.at].value[p]

Request(i, ask) ==
  /\ i \in Alive
  /\ \E S \in {Answer(i, ask)} :
     /\ principals' = S.ps
     /\ opened' = S.opened
     /\ given' = given \union
          {[item |-> i, ask |-> ask, answer |-> S.answer, value |-> ValueOf(S)]}
  /\ UNCHANGED last

\* A reference read from secondary file f of the item is followed.
Follow(i, f, p) ==
  /\ i \in Alive
  /\ \E k \in DOMAIN principals[i].groups : principals[i].groups[k].file = f
  /\ Registered[f][p] = "branch" /\ Stored[f][i][p] = "real"
  /\ \E S \in {GetFromSecondary(i, p)} :
     /\ principals' = S.ps
     /\ given' = given \union
          {[item |-> i, ask |-> [op |-> "follow", of |-> {p}],
            answer |-> S.answer, value |-> ValueOf(S)]}
  /\ UNCHANGED <<last, opened>>

\* A scheduled module puts a product of this process: requests may find it
\* from now on.
Put(i, p) ==
  /\ i \in Alive
  /\ Process[p] = ThisProcess /\ p \notin OnDemand \union principals[i].made
  /\ principals' = [principals EXCEPT ![i].made = @ \union {p}]
  /\ given' = Forget(i)
  /\ UNCHANGED <<last, opened>>

Next ==
  \/ \E i \in Items : Read(i) \/ ReadAgain(i) \/ Release(i)
  \/ NextInputFile
  \/ \E i \in Items, ask \in Asks : Request(i, ask)
  \/ \E i \in Items, f \in 1 .. N, p \in Products : Follow(i, f, p)
  \/ \E i \in Items, p \in Products : Put(i, p)

Spec == Init /\ [][Next]_vars

----------------------------------------------------------------------------
(* Properties.                                                               *)

\* Every variable has its type.
TypeOK ==
  /\ last \subseteq Items
  /\ opened \in 0 .. N
  /\ \A i \in Items : /\ principals[i].next \in 0 .. N
                      /\ Len(principals[i].groups) >= 1

\* What getByLabel hands out is a product that is there and was asked for: a
\* dummy that fills the branch of an event without the product is never
\* handed out (findGroupsForProcess asks again after reading).
HandedOutIsReal ==
  \A g \in given : g.ask.op = "label" /\ g.answer.kind = "found"
                     => g.value = "real" /\ g.answer.product \subseteq g.ask.of

\* Looking up by label again gives the same answer, whatever was asked, and
\* whatever secondary files were opened, in between.
SameLookupAgain ==
  \A g, h \in given :
    g.ask.op = "label" /\ g.item = h.item /\ g.ask = h.ask => g = h

\* So does asking for a product by its identifier, or for output.
SameProductAgain ==
  \A g, h \in given :
    g.ask.op # "label" /\ g.item = h.item /\ g.ask = h.ask => g = h

\* The files whose principals have a group for p of item i, and those of them
\* from which p can be retrieved.
FilesWith(i, p) ==
  {f \in Files : (f = 0 \/ i \in Holds[f]) /\ Registered[f][p] # "none"}
FilesOf(i, p) ==
  {f \in FilesWith(i, p) : Registered[f][p] = "branch" /\ Stored[f][i][p] = "real"}

\* A product that was put, or one of a process of the history that can be
\* retrieved from the first of the files that have a group for it.
Visible(i, p) ==
  \/ p \in principals[i].made
  \/ /\ \E k \in DOMAIN History : History[k] = Process[p]
     /\ \E f \in FilesOf(i, p) : \A e \in FilesWith(i, p) : f <= e

\* getByLabel finds nothing only when there is nothing to be found, or the file
\* that has it comes after one that registers it too, and where it was dropped
\* or is missing; and what it finds is the product of the first of the files:
\* the secondary files are all tried, in their order.
OnlyEarlierFilesHide ==
  \A g \in given :
    g.ask.op = "label" =>
      /\ g.answer.kind = "none" => \A p \in g.ask.of : ~Visible(g.item, p)
      /\ g.answer.kind = "found" =>
           \A p \in g.answer.product :
             /\ Visible(g.item, p)
             /\ \/ p \in principals[g.item].made
                \/ principals[g.item].groups[g.answer.at].file \in FilesOf(g.item, p)

\* The principal of an item has a secondary principal for every secondary
\* file it has tried that holds the item, in their order, and no other.
SecondariesInStep ==
  \A i \in Alive :
    LET tried == [k \in 1 .. principals[i].next |-> k]
        held == SelectSeq(tried, LAMBDA f : i \in Holds[f])
        is == Tail(principals[i].groups)
    IN /\ Len(is) = Len(held)
       /\ \A k \in DOMAIN is : is[k].file = held[k] /\ is[k].item = i

\* A request ends in an answer or an exception: never in an access beyond
\* the secondary principals, in a read without a branch, or in the use of
\* a principal that is gone.
RequestsAreAnswered ==
  \A g \in given : g.answer.kind \notin {"outOfRange", "noReader", "dangling"}

\* What an output module writes of a product is what a module gets that asks
\* for it by its identifier.
OutputIsWhatModulesGet ==
  \A g, h \in given :
    g.item = h.item /\ g.ask.of = h.ask.of /\ g.ask.op = "id" /\ h.ask.op = "output"
      => g.answer = h.answer /\ g.value = h.value

\* A lookup that the primary file can satisfy is satisfied by it, however many
\* principals are kept, merged or have lost their input file in between: only
\* a request that goes on to the secondary files can come to grief.
OwnProductsAreFound ==
  \A g \in given :
    g.ask.op = "label"
    /\ (\E p \in g.ask.of : Registered[0][p] = "branch"
                            /\ Stored[0][g.item][p] = "real")
      => g.answer.kind \in {"found", "many"} /\ g.answer.at <= 1

\* A reference to a product of the file it was read from can be followed.
ReferencesCanBeFollowed ==
  \A g \in given : g.ask.op = "follow" => g.answer.kind = "found"

=============================================================================
