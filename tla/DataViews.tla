------------------------------ MODULE DataViews ------------------------------
(* What the modules do to the products of an occurrence.  Each module works   *)
(* through a view of its own (Event, SubRun, Run: a DataViewImpl), in which   *)
(* its puts wait until it returns and which remembers what it got.  A request *)
(* for a product made on demand runs its module first, in a view on top of    *)
(* the one that asks.  Runs stand for sub-runs too, whose views and           *)
(* principals differ from those of runs in name only.                         *)
EXTENDS Integers, FiniteSets, Sequences, SequencesExt

CONSTANTS
  Level,        \* product -> "event" or "run", where it is registered
  Maker,        \* product -> its module, or "source" when it is in the file
  Transient,    \* the products that are not written
  Parentless,   \* those of a class that derives from DoNotRecordParents
  FileParents,  \* the products of the file -> the parents stored with them
  Schedule,     \* the modules of the path, in order
  OnDemand,     \* the modules that run on demand
  Queries,      \* what is asked for: [kind, of], the products in the order
                \* they are looked at
  Occurrences,  \* the levels of the occurrences that are processed, in order
  MaxCalls      \* bound: the calls a module makes in one occurrence

Products == DOMAIN Level
Modules == Range(Schedule) \union OnDemand
DataViewsAssumption ==
  /\ \A p \in Products : Level[p] \in {"event", "run"}
  /\ \A p \in Products : Maker[p] \in Modules \union {"source"}
  /\ Transient \subseteq {p \in Products : Maker[p] # "source"}
  /\ \A p \in Products : Maker[p] \in OnDemand => Level[p] = "event"

VARIABLES
  at, todo,     \* the occurrence, and the place in the schedule
  views,        \* the views of the modules at work, the caller below
  workers,      \* module -> "ready", "working", "pass" or "exception"
  groups,       \* product -> "none", "onDemand", "unread" or "value"
  value,        \* product -> the occurrence it was put in (0: the file)
  mapper,       \* product -> the parents in its provenance
  getters,      \* product -> its deferred getter: "none", "waiting", "resolved"
  direct,       \* ghost: product -> what its module had got when it was put
  first,        \* ghost: product -> the value it was given first
  threw,        \* ghost: the modules that threw before they returned
  removed       \* ghost: the products removed from the cache

vars == <<at, todo, views, workers, groups, value, mapper, getters,
          direct, first, threw, removed>>

NoRequest == [kind |-> "none", of |-> <<>>]
NewView(m) == [module |-> m, got |-> {}, puts |-> <<>>, ask |-> NoRequest,
               rest |-> <<>>, found |-> {}, calls |-> 0, handles |-> {}, read |-> {}]

\* What a principal has before any module has run: the products of the file,
\* not yet read, and the groups of the modules that run on demand.
FreshGroup(p) == IF Maker[p] = "source" THEN "unread"
                 ELSE IF Maker[p] \in OnDemand THEN "onDemand" ELSE "none"
FreshParents(p) == IF Maker[p] = "source" THEN FileParents[p] ELSE {}

Init ==
  /\ at = 1 /\ todo = 1 /\ views = <<>>
  /\ workers = [m \in Modules |-> "ready"]
  /\ groups = [p \in Products |-> FreshGroup(p)]
  /\ value = [p \in Products |-> 0]
  /\ mapper = [p \in Products |-> FreshParents(p)]
  /\ getters = [p \in Products |-> "none"]
  /\ direct = [p \in Products |-> {}] /\ first = [p \in Products |-> 0]
  /\ threw = {} /\ removed = {}

\* The module at work, its view and the kind of its view.
Top == Last(views)
WithTop(v) == Append(Front(views), v)
TopLevel == Occurrences[at]
ghosts == <<direct, first, threw>>
contents == <<value, mapper, direct, first>>

\* A worker starts its module: the view is new.
Push(vs, m) ==
  /\ views' = Append(vs, NewView(m))
  /\ workers' = [workers EXCEPT ![m] = "working"]

\* What becomes of a worker whose module throws: in events it may be told to
\* ignore the exception (one that is not of the framework it always rethrows).
StatesAfter == IF TopLevel = "event" THEN {"pass", "exception"} ELSE {"exception"}

\* A module is left by an exception: nothing it put is committed.  A worker that
\* rethrew throws again when it is asked again, and so does the caller's when
\* it looks.
Leave ==
  \E state \in StatesAfter :
    /\ views' = Front(views)
    /\ workers' = [workers EXCEPT ![Top.module] = state]

----------------------------------------------------------------------------
(* The schedule.                                                             *)

StartModule ==
  /\ views = <<>> /\ todo <= Len(Schedule)
  /\ Push(<<>>, Schedule[todo])
  /\ todo' = todo + 1
  /\ UNCHANGED <<at, groups, getters, contents, threw, removed>>

\* The event principal is gone with its event, that of the run stays.
Kept(p, old, fresh) == IF Level[p] = "run" THEN old ELSE fresh
NextOccurrence ==
  /\ views = <<>> /\ todo > Len(Schedule) /\ at < Len(Occurrences)
  /\ at' = at + 1 /\ todo' = 1
  /\ workers' = [m \in Modules |-> "ready"]
  /\ groups' = [p \in Products |-> Kept(p, groups[p], FreshGroup(p))]
  /\ mapper' = [p \in Products |-> Kept(p, mapper[p], FreshParents(p))]
  /\ value' = [p \in Products |-> Kept(p, value[p], 0)]
  /\ first' = [p \in Products |-> Kept(p, first[p], 0)]
  /\ direct' = [p \in Products |-> Kept(p, direct[p], {})]
  /\ getters' = [p \in Products |-> Kept(p, getters[p], "none")]
  /\ removed' = {p \in removed : Level[p] = "run"}
  /\ threw' = {}
  /\ UNCHANGED views

----------------------------------------------------------------------------
(* Getting.                                                                  *)

MayCall == views # <<>> /\ Top.ask = NoRequest /\ Top.calls < MaxCalls

AskFor(q) ==
  /\ MayCall
  /\ views' = WithTop([Top EXCEPT !.ask = q, !.rest = q.of, !.calls = @ + 1])
  /\ UNCHANGED <<at, todo, workers, groups, getters, contents, threw, removed>>
OfThisLevel(q) == \A p \in Range(q.of) : Level[p] = TopLevel

\* One product, by its label or another selector: by handle, or by valid handle.
GetByLabel(q) == q.kind \in {"label", "valid"} /\ OfThisLevel(q) /\ AskFor(q)
GetMany(q) == q.kind = "many" /\ OfThisLevel(q) /\ AskFor(q)
GetView(q) == q.kind = "view" /\ OfThisLevel(q) /\ AskFor(q)

\* An event's module asks the run of the event, getSubRun().getRun().
GetFromRun(q) == q.kind = "run" /\ TopLevel = "event" /\ AskFor(q)

\* A reference made before its product was put is followed: its deferred getter
\* looks the product up by its identifier until it finds it.
Follow(q) ==
  q.kind = "follow" /\ TopLevel = "event" /\ getters[q.of[1]] # "none" /\ AskFor(q)

\* The next group that matches.
Looking == views # <<>> /\ Top.rest # <<>>
Exists(p) == groups[p] # "none"
OnDemandStill(p) == groups[p] = "onDemand"
Passed(found) == WithTop([Top EXCEPT !.rest = Tail(@), !.found = @ \union found])

LookAtNothing ==
  /\ Looking /\ ~Exists(Head(Top.rest)) /\ views' = Passed({})
  /\ UNCHANGED <<at, todo, workers, groups, getters, contents, threw, removed>>

\* What the file has is read.
LookAtProduct ==
  /\ Looking /\ Exists(Head(Top.rest)) /\ ~OnDemandStill(Head(Top.rest))
  /\ views' = Passed({Head(Top.rest)})
  /\ groups' = [groups EXCEPT ![Head(Top.rest)] = "value"]
  /\ UNCHANGED <<at, todo, workers, getters, contents, threw, removed>>

\* What a module makes on demand is made, if its module has not yet run: one that
\* is at work asks for itself, and gets the exception, which may be ignored.
LookOnDemand ==
  /\ Looking /\ OnDemandStill(Head(Top.rest))
  /\ \E m \in {Maker[Head(Top.rest)]} :
     \/ workers[m] = "ready" /\ Push(views, m)
     \/ workers[m] = "pass" /\ views' = Passed({}) /\ UNCHANGED workers
     \/ workers[m] = "exception" /\ Leave
     \/ /\ workers[m] = "working"
        /\ \E state \in StatesAfter :
             /\ workers' = [workers EXCEPT ![m] = state]
             /\ views' = IF state = "pass" THEN Passed({}) ELSE views
  /\ UNCHANGED <<at, todo, groups, getters, contents, threw, removed>>

\* Faulty: a transient product is not recorded at all.
AddToGotBranchIDsPersistent(got, p) == IF p \in Transient THEN got ELSE got \union {p}

\* A transient product is not a parent; what it was made from is.
AddToGotBranchIDs(got, p) ==
  got \union (IF p \in Transient THEN mapper[p] ELSE {p})

\* What comes from the view's own principal is recorded, from the run or by a
\* reference it is not.
Recorded(v) ==
  IF v.ask.kind \in {"run", "follow"} THEN v
  ELSE [v EXCEPT !.got = FoldLeft(AddToGotBranchIDs, @, SetToSeq(v.found)),
                 !.read = @ \union v.found]

\* A handle holds the product as it is now; that of a request that found nothing
\* throws when it is used, and is not kept.
Handle(p) == [product |-> p, value |-> value[p]]
WithHandles(v) ==
  [v EXCEPT !.handles = @ \union {Handle(p) : p \in v.found},
            !.ask = NoRequest, !.found = {}]

\* One product, unless all are asked for.  A view of elements and a reference
\* throw when there is none, a valid handle cannot be without its product.
IsUnique(v) == Cardinality(v.found) = 1
IsAnswered(v) ==
  CASE v.ask.kind \in {"view", "follow", "valid"} -> IsUnique(v)
    [] v.ask.kind = "many" -> TRUE
    [] OTHER -> Cardinality(v.found) <= 1
Answer ==
  /\ views # <<>> /\ Top.ask # NoRequest /\ Top.rest = <<>>
  /\ IF IsAnswered(Top)
     THEN /\ views' = WithTop(WithHandles(Recorded(Top)))
          /\ getters' = [p \in Products |-> IF Top.ask.kind = "follow" /\ p \in Top.found
                                            THEN "resolved" ELSE getters[p]]
          /\ UNCHANGED workers
     ELSE Leave /\ UNCHANGED getters
  /\ UNCHANGED <<at, todo, groups, contents, threw, removed>>

\* removeCachedProduct(): of a product of the file only; the handle is cleared,
\* whatever other handles there are.
RemoveCachedProduct(h) ==
  /\ MayCall /\ h \in Top.handles
  /\ Maker[h.product] = "source" /\ h.product \notin removed
  /\ groups' = [groups EXCEPT ![h.product] = "unread"]
  /\ views' = WithTop([Top EXCEPT !.handles = @ \ {h}, !.calls = @ + 1])
  /\ removed' = removed \union {h.product}
  /\ UNCHANGED <<at, todo, workers, getters, contents, threw>>

----------------------------------------------------------------------------
(* Putting.                                                                  *)

\* put(): the product must be registered for the module, and for this level;
\* it is held back in the view.
GetBranchDescription(p) == Level[p] = TopLevel
Held(p) == WithTop([Top EXCEPT !.puts = Append(@, p), !.calls = @ + 1])
Put(p) ==
  /\ MayCall /\ Maker[p] = Top.module
  /\ IF GetBranchDescription(p)
     THEN views' = Held(p) /\ UNCHANGED <<workers, threw>>
     ELSE Leave /\ threw' = threw \union {Top.module}
  /\ UNCHANGED <<at, todo, groups, getters, contents, removed>>

\* productGetter(): for a reference to a product that is still to be put.  The
\* group of a product made on demand is there already: it asks its worker,
\* which is the one at work.
Deferred(p) == [getters EXCEPT ![p] = IF @ = "none" THEN "waiting" ELSE @]
ProductGetter(p) ==
  /\ MayCall /\ TopLevel = "event" /\ Level[p] = "event" /\ Maker[p] = Top.module
  /\ CASE groups[p] = "value" -> getters' = [getters EXCEPT ![p] = "resolved"] /\ UNCHANGED <<views, workers>>
       [] groups[p] = "none" -> getters' = Deferred(p) /\ UNCHANGED <<views, workers>>
       [] workers[Top.module] = "working" ->
            \/ Leave /\ UNCHANGED getters
            \/ /\ workers' = [workers EXCEPT ![Top.module] = "pass"]
               /\ getters' = Deferred(p) /\ UNCHANGED views
       [] workers[Top.module] = "pass" -> getters' = Deferred(p) /\ UNCHANGED <<views, workers>>
       [] OTHER -> Leave /\ UNCHANGED getters
  /\ UNCHANGED <<at, todo, groups, contents, threw, removed>>

Throw ==
  /\ MayCall /\ Leave
  /\ threw' = threw \union {Top.module}
  /\ UNCHANGED <<at, todo, groups, getters, contents, removed>>

\* Which of the two holding pens a product goes to: maybe_record_parents() takes
\* the one with parents for every class.
RecordsParents(p) == TRUE

Stored(S, v, p) ==
  [S EXCEPT !.groups[p] = "value", !.value[p] = at,
            !.direct[p] = v.read, !.first[p] = IF @ = 0 THEN at ELSE @]
\* put() of an event: the provenance first, then the group, which replaces one
\* for a product on demand; another for the same branch is refused.
InsertProvenance(S, v, p) == [S EXCEPT !.mapper[p] = IF RecordsParents(p) THEN v.got ELSE {}]
PutInEvent(S, v, p) ==
  IF S.groups[p] \in {"none", "onDemand"} THEN Stored(InsertProvenance(S, v, p), v, p)
  ELSE [InsertProvenance(S, v, p) EXCEPT !.ok = FALSE]

\* put() of a run or a sub-run: no parents, and the product it has is kept.
PutInRun(S, v, p) ==
  IF S.groups[p] = "none" THEN Stored([S EXCEPT !.mapper[p] = {}], v, p)
  ELSE [S EXCEPT !.mapper[p] = {}]

CommitOne(S, v, p) ==
  IF ~S.ok THEN S
  ELSE IF Level[p] = "event" THEN PutInEvent(S, v, p) ELSE PutInRun(S, v, p)
Commit(v) ==
  FoldLeft(LAMBDA S, p : CommitOne(S, v, p),
           [groups |-> groups, value |-> value, mapper |-> mapper, direct |-> direct,
            first |-> first, ok |-> TRUE], v.puts)

\* The module returns, and what it put is committed, one after the other; a
\* commit that fails half-way leaves what went before.
Return ==
  /\ views # <<>> /\ Top.ask = NoRequest
  /\ \E S \in {Commit(Top)} :
     /\ groups' = S.groups /\ value' = S.value /\ mapper' = S.mapper
     /\ direct' = S.direct /\ first' = S.first
     /\ IF S.ok THEN /\ views' = Front(views)
                     /\ workers' = [workers EXCEPT ![Top.module] = "pass"]
        ELSE Leave
  /\ UNCHANGED <<at, todo, getters, threw, removed>>

Next ==
  \/ StartModule \/ NextOccurrence \/ LookAtNothing \/ LookAtProduct \/ LookOnDemand
  \/ Answer \/ Throw \/ Return
  \/ \E q \in Queries : GetByLabel(q) \/ GetMany(q) \/ GetView(q) \/ GetFromRun(q) \/ Follow(q)
  \/ \E p \in Products : Put(p) \/ ProductGetter(p)
  \/ views # <<>> /\ \E h \in Top.handles : RemoveCachedProduct(h)

Spec == Init /\ [][Next]_vars

----------------------------------------------------------------------------
\* The persistent products that the products of S are or were made from.
Persistent(S) ==
  FoldLeft(LAMBDA T, p : UNION {IF q \in Transient THEN direct[q] ELSE {q} : q \in T},
           S, SetToSeq(Products))

There(p) == groups[p] = "value" /\ Maker[p] # "source"

\* The parents of a product of an event are the products its module got, and
\* for the transient ones what those were made from: no other, also when the
\* module ran on demand in the middle of another.
ParentsAreTrue ==
  \A p \in Products : There(p) /\ Level[p] = "event" => mapper[p] = Persistent(direct[p])

\* A module that is left by an exception leaves none of its products behind.
FailedLeaveNothing == \A p \in Products : There(p) /\ Level[p] = "event" => Maker[p] \notin threw

\* A product that has been put stays what it is, for its handles and for its
\* references, as long as nobody removes it from the cache.
PutsAreFinal ==
  /\ \A p \in Products : There(p) => value[p] = first[p]
  /\ \A k \in DOMAIN views : \A h \in views[k].handles :
       h.product \in removed \/ (groups[h.product] = "value" /\ value[h.product] = h.value)
  /\ \A p \in Products : getters[p] = "resolved" => groups[p] = "value"

\* A product of a class that derives from DoNotRecordParents is put without
\* parents.
ParentlessHaveNoParents == \A p \in Parentless : mapper[p] = {}

=============================================================================
