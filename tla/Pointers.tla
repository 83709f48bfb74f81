------------------------------ MODULE Pointers ------------------------------
(* Pointers between products: Ptr, the vector of pointers into one product    *)
(* (PtrVector) and the associations of the elements of two products (Assns),  *)
(* from the module that fills them, through the files of several output       *)
(* modules, to the jobs that read them, one after the other.                  *)
(*                                                                            *)
(* A Ptr in memory has a product, a key, and one or both of the address of    *)
(* the element and a getter for the product; a stored one has the product and *)
(* the key.  A PtrVector stores the product once (its core) and a list of     *)
(* keys; an Assns stores two lists, the one of the type whose name comes      *)
(* first being the first whichever way round it was made.  An event gives the *)
(* Assns either way round: its group makes the partner from what it has, or   *)
(* reads the branch as the partner.                                           *)
EXTENDS Integers, Sequences, SequencesExt

CONSTANTS
  IDs,         \* the valid ProductIDs
  Keys,        \* the keys of the elements of a product
  Made,        \* the pointers that are made from a handle: <<id, key>>
  Fetched,     \* the pointers that are made with a getter: <<id, key>>
  Value,       \* key -> the value by which the elements are sorted
  LeftFirst,   \* left_first() of the Assns that is made
  Data,        \* what an association may carry
  Filled,      \* the containers that are filled: "vector", "assns"
  MaxLen,      \* bound: the length of a container
  MaxOutputs,  \* bound: the output modules of a job
  MaxJobs      \* bound: the jobs that read what the one before wrote

NoID == 0
NoKey == 0     \* key_traits<>::value

PointersAssumption ==
  /\ NoID \notin IDs /\ NoKey \notin Keys
  /\ Made \union Fetched \subseteq IDs \X Keys
  /\ LeftFirst \in BOOLEAN
  /\ Filled \subseteq {"vector", "assns"}
  /\ {MaxLen, MaxOutputs, MaxJobs} \subseteq Nat

VARIABLES filled,   \* what the module of this behaviour fills
          phase,    \* "fill", "threw" (an exception ends the module) or "event"
          vector,   \* the PtrVector
          spare,    \* another one, to swap with
          group,    \* the AssnsGroup: the Assns that was made, and its partner
          outputs,  \* what the output modules of this job have written
          meant,    \* ours: what the products said when they were put
          round     \* the number of this job

vars == <<filled, phase, vector, spare, group, outputs, meant, round>>

-----------------------------------------------------------------------------
(* Ptr and RefCore.                                                           *)

RefCore(id, item, getter) == [id |-> id, item |-> item, getter |-> getter]
NoCore == RefCore(NoID, {}, FALSE)
Ptr(core, key) == [core |-> core, key |-> key]

DefaultPtr == Ptr(NoCore, NoKey)
NullPtr(id) == Ptr(RefCore(id, {}, FALSE), NoKey)
FromHandle(id, key) == Ptr(RefCore(id, {<<id, key>>}, FALSE), key)
FromGetter(id, key) == Ptr(RefCore(id, {}, TRUE), key)

\* The element a Ptr stands for; get() of a null one is a null pointer.
Element(p) == IF p.key = NoKey THEN <<NoID, NoKey>> ELSE <<p.core.id, p.key>>
CanBeFollowed(p) == p.key # NoKey => p.core.item # {} \/ p.core.getter

\* getData_(): the address is looked up once and kept.
GetData(p) == IF p.core.item = {} THEN [p EXCEPT !.core.item = {Element(p)}] ELSE p

\* RefCore::pushBackItem(): a null core accepts any valid product, another one
\* its own; the getter and the address are those of the first Ptr to have one.
Accepts(core, p) == p.core.id # NoID /\ core.id \in {NoID, p.core.id}
PushBackItem(core, p) ==
  RefCore(p.core.id,
          IF core.item = {} THEN p.core.item ELSE core.item,
          core.getter \/ p.core.getter)

-----------------------------------------------------------------------------
(* PtrVector.                                                                 *)

NewVector == [core |-> NoCore, ptrs |-> <<>>]
NewAssns(lr) == [leftFirst |-> lr, pairs |-> <<>>, data |-> <<>>, data1 |-> <<>>, data2 |-> <<>>]
NoAssns == <<>>

Init ==
  /\ filled \in Filled
  /\ phase = "fill"
  /\ vector = NewVector /\ spare = NewVector
  /\ group = [made |-> NewAssns(LeftFirst), partner |-> NoAssns, input |-> <<>>]
  /\ outputs = <<>>
  /\ meant = [vector |-> <<>>, pairs |-> <<>>, data |-> <<>>]
  /\ round = 1

Filling(what) == phase = "fill" /\ filled = what
FromHandles == {FromHandle(e[1], e[2]) : e \in Made}
Pointers == {DefaultPtr} \union {NullPtr(e[1]) : e \in Fetched}
            \union FromHandles \union {FromGetter(e[1], e[2]) : e \in Fetched}

Unchanged == UNCHANGED <<filled, group, outputs, meant, round>>
Becomes(v) == vector' = v /\ UNCHANGED <<phase, spare>> /\ Unchanged
Throw == phase' = "threw" /\ UNCHANGED <<vector, spare>> /\ Unchanged

\* updateCore() for one pointer after the other; the first that is refused ends
\* it with an exception.
Take(taken, p) == [ok |-> taken.ok /\ Accepts(taken.core, p),
                   core |-> PushBackItem(taken.core, p)]
TakeAll(core, s) == FoldLeft(Take, [ok |-> TRUE, core |-> core], s)

\* push_back(), insert(): the core takes the new pointers before they are put in.
Insert(i, s) ==
  /\ Filling("vector")
  /\ i \in 1 .. Len(vector.ptrs) + 1
  /\ Len(vector.ptrs) + Len(s) <= MaxLen
  /\ \E taken \in {TakeAll(vector.core, s)} :
       IF taken.ok
       THEN Becomes([core |-> taken.core,
                     ptrs |-> SubSeq(vector.ptrs, 1, i - 1) \o s
                              \o SubSeq(vector.ptrs, i, Len(vector.ptrs))])
       ELSE Throw

\* assign(): the core is cleared and takes the new pointers, then they replace
\* the old ones.
Assign(s) ==
  /\ Filling("vector")
  /\ \E taken \in {TakeAll(NoCore, s)} :
       IF taken.ok THEN Becomes([core |-> taken.core, ptrs |-> s]) ELSE Throw

\* resize(): the new pointers are default-constructed, the core is not asked.
Resize(n) ==
  /\ Filling("vector")
  /\ Becomes([vector EXCEPT !.ptrs =
       [i \in 1 .. n |-> IF i \in DOMAIN @ THEN @[i] ELSE DefaultPtr]])

\* erase(), pop_back(): the core keeps the product.
Erase(i) ==
  /\ Filling("vector")
  /\ i \in DOMAIN vector.ptrs
  /\ Becomes([vector EXCEPT !.ptrs = RemoveAt(@, i)])

Clear == Filling("vector") /\ Becomes(NewVector)

SwapElements(i, j) ==
  /\ Filling("vector")
  /\ {i, j} \subseteq DOMAIN vector.ptrs /\ i < j
  /\ Becomes([vector EXCEPT !.ptrs[i] = vector.ptrs[j], !.ptrs[j] = vector.ptrs[i]])

\* swap() exchanges the pointers and the cores.
Swap ==
  /\ Filling("vector")
  /\ vector' = spare /\ spare' = vector
  /\ UNCHANGED phase /\ Unchanged

\* sort() follows the pointers, which must not be null.
Sort ==
  /\ Filling("vector")
  /\ \A i \in DOMAIN vector.ptrs :
       vector.ptrs[i].key # NoKey /\ CanBeFollowed(vector.ptrs[i])
  /\ Len(vector.ptrs) > 1
  /\ Becomes([vector EXCEPT !.ptrs =
       SortSeq([i \in DOMAIN @ |-> GetData(@[i])], LAMBDA p, q : Value[p.key] < Value[q.key])])

Vectors == \/ \E n \in 0 .. MaxLen : \E s \in [1 .. n -> Pointers] :
                Assign(s) \/ \E i \in 1 .. MaxLen + 1 : Insert(i, s)
           \/ \E n \in 0 .. MaxLen : Resize(n)
           \/ \E i \in 1 .. MaxLen : Erase(i)
           \/ \E i, j \in 1 .. MaxLen : SwapElements(i, j)
           \/ Clear \/ Swap \/ Sort

-----------------------------------------------------------------------------
(* Assns.                                                                     *)

\* addSingle(): the left ones are of the first products, the right ones of the
\* others; both may be null.
AddSingle(l, r, d) ==
  /\ Filling("assns")
  /\ Len(group.made.pairs) < MaxLen
  /\ group' = [group EXCEPT !.made.pairs = Append(@, <<l, r>>), !.made.data = Append(@, d)]
  /\ UNCHANGED <<filled, phase, vector, spare, outputs, meant, round>>

\* makePartner(): the pairs the other way round; nothing stored is taken over.
Partner(a) ==
  [NewAssns(~a.leftFirst) EXCEPT
     !.pairs = [i \in DOMAIN a.pairs |-> <<a.pairs[i][2], a.pairs[i][1]>>],
     !.data = a.data]

Stored(p) == [id |-> p.core.id, key |-> p.key]
Read(s) == Ptr(RefCore(s.id, {}, s.id # NoID), s.key)

\* fill_from_transients(): once, whichever output module comes first.
\* Faulty: every output module adds what is there.
FillFromTransientsAgain(a) ==
  LET left == [i \in DOMAIN a.pairs |-> Stored(a.pairs[i][1])]
      right == [i \in DOMAIN a.pairs |-> Stored(a.pairs[i][2])]
  IN  [a EXCEPT !.data1 = @ \o (IF a.leftFirst THEN left ELSE right),
                !.data2 = @ \o (IF a.leftFirst THEN right ELSE left)]

FillFromTransients(a) ==
  LET left == [i \in DOMAIN a.pairs |-> Stored(a.pairs[i][1])]
      right == [i \in DOMAIN a.pairs |-> Stored(a.pairs[i][2])]
  IN  IF a.data1 # <<>> THEN a
      ELSE [a EXCEPT !.data1 = IF a.leftFirst THEN left ELSE right,
                     !.data2 = IF a.leftFirst THEN right ELSE left]

\* fill_transients(), reading the branch as one or the other type.
FillTransients(file, lr) ==
  [NewAssns(lr) EXCEPT
     !.pairs = [i \in DOMAIN file.data1 |->
                  IF lr THEN <<Read(file.data1[i]), Read(file.data2[i])>>
                  ELSE <<Read(file.data2[i]), Read(file.data1[i])>>],
     !.data = file.data]

-----------------------------------------------------------------------------
(* The event, the output modules, and the next job.                           *)

Elements(ptrs) == [i \in DOMAIN ptrs |-> Element(ptrs[i])]
Pairs(a, ways) == [i \in DOMAIN a.pairs |->
                    <<Element(a.pairs[i][ways[1]]), Element(a.pairs[i][ways[2]])>>]

Put ==
  /\ phase = "fill"
  /\ phase' = "event"
  /\ meant' = [vector |-> Elements(vector.ptrs), pairs |-> Pairs(group.made, <<1, 2>>),
               data |-> group.made.data]
  /\ UNCHANGED <<filled, vector, spare, group, outputs, round>>

\* AssnsGroup::resolveProductIfAvailable(): the product is there, or made from
\* its partner, or read.  `input` is the file of this job.
Resolved(which) ==
  LET other == IF which = "made" THEN "partner" ELSE "made" IN
  IF group[which] # NoAssns THEN group
  ELSE [group EXCEPT ![which] =
          IF group[other] # NoAssns THEN Partner(group[other])
          ELSE FillTransients(group.input, which = "made" <=> LeftFirst)]

Resolve(which) ==
  /\ phase = "event" /\ filled = "assns"
  /\ group' = Resolved(which)
  /\ UNCHANGED <<filled, phase, vector, spare, outputs, meant, round>>

\* An output module resolves the product and writes anyProduct(), the partner
\* if there is one.  fill_offsets() stores the keys, and the core the product.
Write ==
  /\ phase = "event"
  /\ Len(outputs) < MaxOutputs
  /\ \E resolved \in {Resolved("made")} :
     \E which \in {IF resolved.partner # NoAssns THEN "partner" ELSE "made"} :
     \E a \in {FillFromTransients(resolved[which])} :
       /\ group' = [resolved EXCEPT ![which] = a]
       /\ outputs' = Append(outputs,
            [id |-> vector.core.id, keys |-> [i \in DOMAIN vector.ptrs |-> vector.ptrs[i].key],
             data1 |-> a.data1, data2 |-> a.data2, data |-> a.data])
  /\ UNCHANGED <<filled, phase, vector, spare, meant, round>>

\* The next job reads one of the files; fill_from_offsets() makes the pointers.
FillFromOffsets(file) ==
  [core |-> RefCore(file.id, {}, file.id # NoID),
   ptrs |-> [i \in DOMAIN file.keys |-> Read([id |-> file.id, key |-> file.keys[i]])]]

NextJob(i) ==
  /\ phase = "event" /\ round < MaxJobs
  /\ i \in DOMAIN outputs
  /\ vector' = FillFromOffsets(outputs[i])
  /\ group' = [made |-> NoAssns, partner |-> NoAssns, input |-> outputs[i]]
  /\ outputs' = <<>>
  /\ round' = round + 1
  /\ spare' = NewVector
  /\ UNCHANGED <<filled, phase, meant>>

Next ==
  \/ Vectors
  \/ \E l, r \in {DefaultPtr} \union FromHandles, d \in Data : AddSingle(l, r, d)
  \/ Put \/ Write
  \/ \E which \in {"made", "partner"} : Resolve(which)
  \/ \E i \in 1 .. MaxOutputs : NextJob(i)

Spec == Init /\ [][Next]_vars

-----------------------------------------------------------------------------
\* In every job the vector leads to the elements it led to when it was put, and
\* all its pointers can be followed.
VectorSurvives ==
  phase = "event" =>
    /\ Elements(vector.ptrs) = meant.vector
    /\ \A i \in DOMAIN vector.ptrs : CanBeFollowed(vector.ptrs[i])

\* So do the associations, either way round, whatever was asked for first and
\* however many output modules wrote either of the two before.
AssociationsSurvive ==
  phase = "event" =>
    /\ group.made # NoAssns =>
         Pairs(group.made, <<1, 2>>) = meant.pairs /\ group.made.data = meant.data
    /\ group.partner # NoAssns =>
         Pairs(group.partner, <<2, 1>>) = meant.pairs /\ group.partner.data = meant.data

\* All output modules write the same, and fill_from_transients() finds what it
\* filled before as long as what it was filled from.
OutputsAgree ==
  /\ \A i, j \in DOMAIN outputs : outputs[i] = outputs[j]
  /\ \A a \in {group.made, group.partner} \ {NoAssns} :
       a.data1 # <<>> => Len(a.data1) = Len(a.pairs) /\ Len(a.data2) = Len(a.pairs)
=============================================================================
