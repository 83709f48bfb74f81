-------------------------- MODULE InputFileCatalog --------------------------
(***************************************************************************)
(* The catalogue of input files (InputFileCatalog).  It asks a delivery    *)
(* service for the next URI and a transfer service for a local copy, tries *)
(* again when they fail, tells the delivery service what became of each    *)
(* file, and lets the reader probe for a further file and go back.         *)
(*                                                                         *)
(* The services are external: each of their answers is an action of its    *)
(* own, so an operation of the catalogue that asks them is the steps from  *)
(* its call to its return.                                                 *)
(***************************************************************************)
EXTENDS Integers, Sequences, FiniteSets

CONSTANTS NFiles,        \* the files the delivery service has, 1 .. NFiles
          Attempts,      \* the attempts of an operation
          LeftOver,      \* the values an uninitialised flag may have
          TransfersFail, \* whether the transfer service may fail
          MaxRewinds     \* bound on the rewinds

CatalogAssumption ==
  NFiles \in Nat /\ Attempts \in Nat \ {0} /\ LeftOver \subseteq BOOLEAN /\ MaxRewinds \in Nat

Files == 1 .. NFiles
IndexEnd == -1                            \* the code's is the largest size_t

NoItem == [uri |-> 0, named |-> FALSE, skipped |-> FALSE, consumed |-> FALSE]

\* The constructor from names leaves consumed_ as the memory has it.
DeliveredItems(f) == {[uri |-> f, named |-> FALSE, skipped |-> FALSE, consumed |-> c] : c \in LeftOver}

VARIABLES searchable,          \* searchable_: whether the delivery service is
          fileIdx, maxIdx,     \* fileIdx_ and maxIdx_
          items,               \* fileCatalogItems_, by index
          nextItem,            \* nextItem_
          probed, hasNext,     \* nextFileProbed_ and hasNextFile_
          call,                \* the operation in progress
          delivered,           \* how many files the service has delivered
          told,                \* what the service was told of each file
          opened,              \* the files the reader was given, in this pass
          answer,              \* the answer to the reader's last call
          probedAt,            \* how many files the reader had at its last probe
          strayed,             \* whether a probed file was taken with more, or fewer, files
          rewinds
catalog == <<fileIdx, maxIdx, items, nextItem, probed, hasNext>>
reading == <<opened, answer, probedAt, strayed>>
vars == <<searchable, catalog, call, delivered, told, reading, rewinds>>

Idle == [at |-> "idle", op |-> "none", left |-> 0]

Init ==
  /\ searchable \in BOOLEAN
  /\ fileIdx = IndexEnd /\ maxIdx = 0
  /\ items = [i \in 0 .. NFiles |-> NoItem]
  /\ nextItem = NoItem
  /\ probed = FALSE /\ hasNext = FALSE
  /\ call = Idle
  /\ delivered = 0
  /\ told = [f \in Files |-> <<>>]
  /\ opened = <<>>
  /\ answer = "none" /\ probedAt = 0 /\ strayed = FALSE
  /\ rewinds = 0

-----------------------------------------------------------------------------
\* The return of an operation that has, or has not, a next item.

Advanced == IF fileIdx = IndexEnd \/ ~searchable THEN 0 ELSE fileIdx + 1

\* The item goes into the vector; one that goes behind its end ends the behaviour:
\* nothing is known of what follows.
VectorSize == IF searchable THEN NFiles ELSE 1

MakeCurrent(known, item) ==
  \/ /\ Advanced < VectorSize
     /\ call' = Idle /\ probed' = FALSE
     /\ fileIdx' = Advanced
     /\ maxIdx' = IF Advanced > maxIdx THEN Advanced ELSE maxIdx
     /\ items' = [known EXCEPT ![Advanced] = item]
     /\ opened' = Append(opened, item.uri)
     /\ answer' = "file"
  \/ /\ Advanced >= VectorSize
     /\ call' = [Idle EXCEPT !.at = "lost"]
     /\ items' = known
     /\ UNCHANGED <<fileIdx, maxIdx, probed, opened, answer>>

Return(op, known, item, found) ==
  /\ \/ op = "get" /\ found /\ MakeCurrent(known, item) /\ UNCHANGED <<hasNext, probedAt>>
     \/ /\ op = "get" /\ ~found /\ call' = Idle
        /\ answer' = "no more" /\ items' = known
        /\ UNCHANGED <<fileIdx, maxIdx, probed, hasNext, opened, probedAt>>
     \/ /\ op = "has" /\ call' = Idle
        /\ probed' = TRUE /\ hasNext' = found /\ items' = known
        /\ answer' = IF found THEN "has next" ELSE "no more"
        /\ probedAt' = Len(opened)
        /\ UNCHANGED <<fileIdx, maxIdx, opened>>
  /\ UNCHANGED strayed

Tell(f, disposition) == told' = [told EXCEPT ![f] = Append(@, disposition)]

-----------------------------------------------------------------------------
\* retrieveNextFile.

\* Faulty: a skipped file is told to be consumed.
UnconsumedThoughSkipped == fileIdx # IndexEnd /\ ~items[fileIdx].consumed

Unconsumed ==
  fileIdx # IndexEnd /\ ~items[fileIdx].skipped /\ ~items[fileIdx].consumed

\* It begins with the current file, whose work is done, and looks among the
\* files retrieved before the reader went back.
BeginRetrieval(op) ==
  LET known == IF Unconsumed THEN [items EXCEPT ![fileIdx].consumed = TRUE] ELSE items
      toldDone == IF Unconsumed THEN [told EXCEPT ![items[fileIdx].uri] = Append(@, "consumed")] ELSE told
  IN \/ /\ fileIdx # IndexEnd /\ fileIdx < maxIdx
        /\ nextItem' = known[fileIdx + 1]
        /\ told' = [toldDone EXCEPT ![nextItem'.uri] = Append(@, "transferred")]
        /\ Return(op, known, nextItem', TRUE)
     \/ /\ fileIdx = IndexEnd \/ fileIdx = maxIdx
        /\ call' = [at |-> "delivery", op |-> op, left |-> Attempts]
        /\ items' = known /\ told' = toldDone
        /\ UNCHANGED <<fileIdx, maxIdx, nextItem, probed, hasNext, reading>>

\* The answer of a probe is taken wherever the reader is now.
GetNextFile ==
  /\ call.at = "idle"
  /\ \/ /\ probed /\ ~hasNext /\ answer' = "no more"
        /\ UNCHANGED <<catalog, call, told, opened, probedAt, strayed>>
     \/ /\ probed /\ hasNext /\ MakeCurrent(items, nextItem)
        /\ strayed' = (strayed \/ Len(opened) # probedAt)
        /\ UNCHANGED <<nextItem, hasNext, told, probedAt>>
     \/ ~probed /\ BeginRetrieval("get")
  /\ UNCHANGED <<delivered, rewinds>>

\* Faulty: a probe retrieves a file although there is one already.
HasNextFileAgain ==
  call.at = "idle" /\ BeginRetrieval("has") /\ UNCHANGED <<delivered, rewinds>>

HasNextFile ==
  /\ call.at = "idle"
  /\ ~probed
  /\ BeginRetrieval("has")
  /\ UNCHANGED <<delivered, rewinds>>

-----------------------------------------------------------------------------
\* The answers of the delivery service.

Fail == call' = [call EXCEPT !.at = "failed"]

\* Faulty: the attempts count up, and wrap.
RetryForever(at) == call' = [call EXCEPT !.at = at, !.left = IF @ > Attempts THEN Attempts ELSE @ + 1]

Retry(at) == call' = [call EXCEPT !.at = at, !.left = @ - 1]

NoMoreFiles ==
  /\ call.at = "delivery" /\ delivered = NFiles
  /\ Return(call.op, items, nextItem, FALSE)
  /\ UNCHANGED <<nextItem, delivered, told, rewinds>>

DeliveryFails ==
  /\ call.at = "delivery"
  /\ IF call.left <= 1 THEN Fail ELSE Retry("delivery")
  /\ UNCHANGED <<catalog, delivered, told, reading, rewinds>>

Deliver ==
  /\ call.at = "delivery" /\ delivered < NFiles
  /\ delivered' = delivered + 1
  /\ nextItem' \in DeliveredItems(delivered + 1)
  /\ call' = [call EXCEPT !.at = "transfer"]
  /\ UNCHANGED <<fileIdx, maxIdx, items, probed, hasNext, told, reading, rewinds>>

-----------------------------------------------------------------------------
\* The answers of the transfer service.

Transfer ==
  /\ call.at = "transfer"
  /\ nextItem' = [nextItem EXCEPT !.named = TRUE]
  /\ Tell(nextItem.uri, "transferred")
  /\ Return(call.op, items, nextItem', TRUE)
  /\ UNCHANGED <<delivered, rewinds>>

\* The last failure returns the item all the same, without a name.
TransferFails ==
  /\ call.at = "transfer" /\ TransfersFail
  /\ nextItem' = [nextItem EXCEPT !.named = FALSE, !.skipped = TRUE]
  /\ IF call.left <= 1
     THEN Tell(nextItem.uri, "skipped") /\ Return(call.op, items, nextItem', TRUE)
     ELSE Retry("transfer") /\ UNCHANGED <<fileIdx, maxIdx, items, probed, hasNext, told, reading>>
  /\ UNCHANGED <<delivered, rewinds>>

TransferGivesNoName ==
  /\ call.at = "transfer" /\ TransfersFail
  /\ Fail
  /\ UNCHANGED <<catalog, delivered, told, reading, rewinds>>

-----------------------------------------------------------------------------
\* The reader goes back to a file it has had, whatever it knows of the next: the
\* answer of a probe stays.  It has a file, since it opens the first when it is made.

MayRewind == call.at = "idle" /\ searchable /\ fileIdx # IndexEnd /\ rewinds < MaxRewinds

GoTo(index) == fileIdx' = index /\ UNCHANGED maxIdx

Rewind ==
  /\ MayRewind
  /\ GoTo(0)
  /\ opened' = <<items[0].uri>>
  /\ answer' = "none" /\ rewinds' = rewinds + 1
  /\ UNCHANGED <<items, nextItem, probed, hasNext, call, delivered, told, probedAt, strayed>>

RewindTo(index) ==
  /\ MayRewind
  /\ index <= maxIdx
  /\ GoTo(index)
  /\ opened' = [i \in 1 .. index + 1 |-> items[i - 1].uri]
  /\ answer' = "none" /\ rewinds' = rewinds + 1
  /\ UNCHANGED <<items, nextItem, probed, hasNext, call, delivered, told, probedAt, strayed>>

-----------------------------------------------------------------------------
Services ==
  /\ NoMoreFiles \/ DeliveryFails \/ Deliver \/ Transfer \/ TransferFails \/ TransferGivesNoName
  /\ UNCHANGED searchable

Reader ==
  /\ \/ GetNextFile \/ HasNextFile
     \/ Rewind \/ \E index \in 0 .. NFiles - 1 : RewindTo(index)
  /\ UNCHANGED searchable

Next == Services \/ Reader

Spec == Init /\ [][Next]_vars

\* The services answer: their calls are synchronous.
FairSpec == Spec /\ WF_vars(Services)

-----------------------------------------------------------------------------
TypeOK ==
  /\ fileIdx \in IndexEnd .. maxIdx /\ maxIdx \in 0 .. NFiles
  /\ \A i \in DOMAIN items : items[i].uri \in 0 .. NFiles
  /\ call.at \in {"idle", "delivery", "transfer", "failed", "lost"} /\ call.left \in 0 .. Attempts
  /\ delivered \in 0 .. NFiles

Count(f, disposition) == Cardinality({i \in DOMAIN told[f] : told[f][i] = disposition})

\* The reader has the files in the order of delivery, none twice and none left
\* out, and within the vector, however it probes and goes back among them: as long
\* as it takes a probed file from where it probed.
FilesInOrder ==
  ~strayed => (\A i \in DOMAIN opened : opened[i] = i) /\ call.at # "lost"

\* When the catalogue says that there are no more files, the reader has been
\* given every file the service has (InputFileCatalog::getNextFile); but that the
\* answer of a probe is given wherever the reader went since.
Stale == probed /\ Len(opened) # probedAt
PassComplete == answer = "no more" => Len(opened) = NFiles \/ Stale \/ strayed

\* The service is told of each file that it is consumed at most once, after it
\* was transferred and never if it was skipped, unless a probed file came twice
\* into the vector.
DispositionsInOrder ==
  \A f \in Files : ~strayed =>
    /\ Count(f, "consumed") <= 1
    /\ Count(f, "consumed") = 1 => Head(told[f]) = "transferred" /\ Count(f, "skipped") = 0

\* A file given to the reader without a name was reported as skipped, and the
\* service heard of every file that the reader was given.
NamelessIsSkipped ==
  \A i \in 0 .. fileIdx : ~strayed =>
    /\ ~items[i].named => Count(items[i].uri, "skipped") = 1
    /\ told[items[i].uri] # <<>>

-----------------------------------------------------------------------------
\* "Tell the service the current opened file (if theres one) is consumed": the
\* service hears it of each file with a name when the reader has left it.
ConsumedWhenLeft ==
  \A i \in 0 .. fileIdx - 1 : items[i].named => Count(items[i].uri, "consumed") = 1
=============================================================================
