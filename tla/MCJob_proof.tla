----------------------------- MODULE MCJob_proof -----------------------------
(***************************************************************************)
(* Theorems about the jobs of MCJob: what is proved of any job, with       *)
(* Job_proof, holds of the jobs that JobSpec composes, each step of which  *)
(* is one of the job that the behaviour is of.  And theorems about the     *)
(* delivery of input files to a job, for any number of files, of attempts  *)
(* and of rewinds: through the proxy each file has one outcome, and        *)
(* through the proxy and the catalogue the source is given the files in    *)
(* order, none twice and none left out, whatever the services answer, but  *)
(* for what a reader does that goes back between a probe and its use.      *)
(***************************************************************************)
EXTENDS MCJob, FiniteSetTheorems, SequenceTheorems, TLAPS

-----------------------------------------------------------------------------
(* The delivery of files.                                                   *)

(* The inductive invariant of the proxy.                                    *)

ItemTypes == DOMAIN item = {"uri", "uriStatus", "ftStatus", "left"} /\ item.uri \in 0 .. NFiles

\* What was said of a file, if it is the one that the proxy is at and if it is not.
Dispositions == {"transferred", "consumed", "incomplete", "skipped"}
SaidOfServed == IF at = "gone" THEN <<"transferred", "incomplete">> ELSE <<"transferred">>
Skipped == IF at = "gone" THEN <<"skipped">> ELSE <<>>
Said(f) ==
  IF f > delivered THEN <<>>
  ELSE IF f # item.uri THEN <<"transferred", "consumed">>
  ELSE IF item.ftStatus = "success" THEN SaidOfServed ELSE Skipped

ToldFits == told = [f \in Files |-> Said(f)]

\* The proxy is at no file or at the one delivered last.
ItemFits ==
  /\ item.uri # NoURI => item.uri = delivered
  /\ item.ftStatus = "success" => item.uri # NoURI
  /\ at = "source" /\ item.uri # NoURI => item.ftStatus = "success"
  /\ at = "delivery" => item.uri = NoURI
  /\ at = "transfer" => item.uri # NoURI
  /\ at \in {"transfer", "thrown"} => item.ftStatus # "success"

\* The source has all that was delivered but for a file that is being transferred
\* or could not be; in the end it is told that there are no more.
GivenFits ==
  /\ given \in Seq(Nat)
  /\ \A i \in DOMAIN given : given[i] = IF i <= NFiles THEN i ELSE NoURI
  /\ IF item.uri # NoURI /\ item.ftStatus # "success" THEN Len(given) = delivered - 1
     ELSE \/ Len(given) = delivered
          \/ Len(given) = NFiles + 1 /\ delivered = NFiles /\ at \in {"source", "gone"}

ProxyInv ==
  /\ ItemTypes /\ delivered \in 0 .. NFiles
  /\ at \in {"source", "delivery", "transfer", "thrown", "gone"}
  /\ ToldFits /\ ItemFits /\ GivenFits

-----------------------------------------------------------------------------
(* The inductive invariant of the catalogue.                                *)

CatalogItem(i) ==
  /\ DOMAIN i = {"uri", "named", "skipped", "consumed"}
  /\ i.uri \in 0 .. NFiles /\ {i.named, i.skipped, i.consumed} \subseteq BOOLEAN

Times(said, disposition) == Cardinality({i \in DOMAIN said : said[i] = disposition})

\* What was said of an item agrees with what the catalogue knows of it.
Agrees(said, i) ==
  /\ said # <<>>
  /\ ~i.named => i.skipped /\ Times(said, "skipped") = 1 /\ Times(said, "consumed") = 0
  /\ i.named => Head(said) = "transferred" /\ Times(said, "skipped") = 0
  /\ ~i.consumed => Times(said, "consumed") = 0

\* What may be said of a file at all.
Regular(said) ==
  /\ Times(said, "consumed") <= 1
  /\ Times(said, "consumed") = 1 => Head(said) = "transferred" /\ Times(said, "skipped") = 0

CatalogTypes ==
  /\ {searchable, probed, hasNext} \subseteq BOOLEAN
  /\ maxIdx \in Nat /\ fileIdx \in -1 .. maxIdx
  /\ CatalogItem(nextItem)
  /\ DOMAIN call = {"at", "op", "left"} /\ call.at \in {"idle", "delivery", "transfer", "failed"}
  /\ call.at \in {"delivery", "transfer"} => call.op \in {"get", "has"}
  /\ delivered \in 0 .. NFiles
  /\ opened \in Seq(Nat) /\ probedAt \in Nat

\* How many files the reader has had, and had before it went back; a service that
\* cannot be searched keeps one item only.
Current == Len(opened)
Known == IF ~searchable THEN Current ELSE IF fileIdx = -1 THEN 0 ELSE maxIdx + 1

IndexFits ==
  /\ \A i \in 1 .. Current : opened[i] = i
  /\ fileIdx = IF searchable \/ Current = 0 THEN Current - 1 ELSE 0
  /\ fileIdx = -1 \/ ~searchable => maxIdx = 0
  /\ Known <= delivered

\* The items known and what was said of the files.
ItemsAgree(known, said) ==
  /\ DOMAIN known = 0 .. NFiles /\ \A i \in 0 .. NFiles : CatalogItem(known[i])
  /\ said \in [Files -> Seq(Dispositions)]
  /\ \A f \in Files : Regular(said[f]) /\ (f > delivered => said[f] = <<>>)
  /\ fileIdx # -1 =>
       \A i \in 0 .. maxIdx :
         known[i].uri = (IF searchable THEN i + 1 ELSE Current) /\ Agrees(said[known[i].uri], known[i])

\* The file behind the first ones of a number: one the reader had before, or a new one.
IsNext(i, before, known, said) ==
  /\ i.uri = before + 1 /\ i.uri \in Files /\ Agrees(said[i.uri], i)
  /\ IF before < Known THEN i = known[before] /\ delivered = Known ELSE delivered = Known + 1

CallFits ==
  /\ call.at # "idle" => ~probed /\ Current = Known
  /\ call.at = "delivery" => delivered = Known
  /\ call.at = "transfer" =>
       delivered = Known + 1 /\ nextItem.uri = delivered /\ ~nextItem.named /\ told[delivered] = <<>>
  /\ call.at = "idle" =>
       IF probed /\ hasNext THEN IsNext(nextItem, probedAt, items, told) ELSE delivered = Known
  /\ probed /\ ~hasNext => probedAt = NFiles
  /\ answer = "no more" => Current = NFiles \/ (probed /\ Current # probedAt)

CatalogInv == CatalogTypes /\ IndexFits /\ ItemsAgree(items, told) /\ CallFits

\* Until the reader takes a probed file from another place than it probed.
CatalogKept == strayed \/ CatalogInv

DeliveryInv ==
  /\ kind = "Proxy" => ProxyInv
  /\ kind = "Catalog" => CatalogKept
  /\ kind # "Proxy" => at = "source"

-----------------------------------------------------------------------------
(* The proxy.                                                               *)

LEMMA AppendToOne ==
  ASSUME NEW x, NEW y
  PROVE  Append(<<x>>, y) = <<x, y>>
<1>1. ASSUME NEW S, x \in S, y \in S PROVE Append(<<x>>, y) = <<x, y>>
  <2>1. Append(<<x>>, y) = [i \in 1 .. 2 |-> IF i = 2 THEN y ELSE x]
    BY <1>1
  <2>2. <<x, y>> = [i \in 1 .. 2 |-> IF i = 2 THEN y ELSE x]
    BY <1>1
  <2> QED  BY <2>1, <2>2
<1>2. x \in {x, y} /\ y \in {x, y}
  OBVIOUS
<1> QED  BY <1>1, <1>2, Zenon

LEMMA ProxyInit == ProxyAssumption /\ Init => ProxyInv
<1> SUFFICES ASSUME ProxyAssumption, Init PROVE ProxyInv
  OBVIOUS
<1>1. given \in Seq(Nat) /\ Len(given) = 0 /\ DOMAIN given = {}
  BY DEF Init
<1>2. ItemTypes /\ item.uri = NoURI /\ item.ftStatus = "pending"
  BY DEF Init, FileEntity, ItemTypes, NoURI, ProxyAssumption
<1>3. ToldFits
  BY <1>2 DEF ToldFits, Said, Init, Files, ProxyAssumption
<1> QED
  BY <1>1, <1>2, <1>3 DEF ProxyInv, Init, ItemFits, GivenFits, ProxyAssumption

\* What the service is told in a step, and what becomes of the others.
LEMMA ProxyNext ==
  ASSUME ProxyAssumption, ProxyInv, Next
  PROVE  ProxyInv'
<1> USE DEF ProxyAssumption, ProxyInv, Files, NoURI
<1>1. CASE SourceAsks
  <2>1. item' = FileEntity /\ at' = "delivery" /\ delivered' = delivered /\ given' = given /\ at = "source"
    BY <1>1 DEF SourceAsks, NextFile
  <2>2. ItemTypes' /\ item'.uri = NoURI /\ item'.ftStatus = "pending"
    BY <2>1 DEF FileEntity, ItemTypes
  <2>3. Len(given) = delivered
    BY <1>1, <2>1, LenProperties DEF SourceAsks, GivenFits, ItemFits
  <2>4. ToldFits'
    <3>1. CASE item.ftStatus = "success"
      <4>1. told' = [told EXCEPT ![item.uri] = Append(@, "consumed")] /\ item.uri = delivered /\ item.uri \in Files
        BY <1>1, <3>1 DEF SourceAsks, NextFile, Tell, ItemFits, ItemTypes
      <4>2. ASSUME NEW f \in Files PROVE told'[f] = Said(f)'
        <5>1. CASE f = item.uri
          <6>1. told[f] = <<"transferred">>
            BY <2>1, <3>1, <4>1, <5>1 DEF ToldFits, Said, SaidOfServed
          <6>2. told'[f] = Append(<<"transferred">>, "consumed")
            BY <4>1, <5>1, <6>1 DEF ToldFits
          <6>3. Said(f)' = <<"transferred", "consumed">>
            BY <2>1, <2>2, <4>1, <5>1 DEF Said
          <6> QED  BY <6>2, <6>3, AppendToOne
        <5>2. CASE f # item.uri
          BY <2>1, <2>2, <4>1, <5>2 DEF ToldFits, Said
        <5> QED  BY <5>1, <5>2
      <4> QED  BY <4>1, <4>2 DEF ToldFits
    <3>2. CASE item.ftStatus # "success"
      <4>1. told' = told /\ item.uri = NoURI
        BY <1>1, <3>2, <2>1 DEF SourceAsks, NextFile, ItemFits
      <4> QED  BY <2>1, <2>2, <4>1 DEF ToldFits, Said
    <3> QED  BY <3>1, <3>2
  <2> QED
    BY <2>1, <2>2, <2>3, <2>4 DEF ItemFits, GivenFits
<1>2. CASE GiveUp
  <2>1. UNCHANGED <<item, delivered, told, given>> /\ at \in {"delivery", "transfer"} /\ at' = "thrown"
    BY <1>2 DEF GiveUp
  <2>2. \A f \in Files : Said(f)' = Said(f)
    BY <2>1 DEF Said, SaidOfServed, Skipped
  <2> QED
    BY <2>1, <2>2 DEF ToldFits, ItemTypes, ItemFits, GivenFits
<1>3. CASE Delivered
  <2>1. /\ at = "delivery" /\ at' = "transfer" /\ delivered < NFiles /\ delivered' = delivered + 1
        /\ told' = told /\ given' = given
        /\ item' = [item EXCEPT !.uri = delivered', !.uriStatus = "success", !.left = AttemptsPerPhase]
    BY <1>3 DEF Delivered
  <2>2. ItemTypes' /\ item'.uri = delivered + 1 /\ item'.ftStatus = item.ftStatus
    BY <2>1 DEF ItemTypes
  <2>3. item.uri = NoURI /\ item.ftStatus # "success"
    BY <2>1 DEF ItemFits
  <2>4. ToldFits'
    BY <2>1, <2>2, <2>3 DEF ToldFits, Said, SaidOfServed, Skipped
  <2>5. Len(given) = delivered
    BY <2>1, <2>3 DEF GivenFits
  <2> QED
    BY <2>1, <2>2, <2>3, <2>4, <2>5 DEF ItemFits, GivenFits
<1>4. CASE NoMoreFiles
  <2>1. /\ at = "delivery" /\ at' = "source" /\ delivered = NFiles /\ delivered' = delivered
        /\ told' = told /\ given' = Append(given, NoURI) /\ item.left > 0
        /\ item' = [item EXCEPT !.uriStatus = "no more", !.left = @ - 1]
    BY <1>4 DEF NoMoreFiles
  <2>2. ItemTypes' /\ item'.uri = item.uri /\ item'.ftStatus = item.ftStatus
    BY <2>1 DEF ItemTypes
  <2>3. item.uri = NoURI /\ item.ftStatus # "success" /\ Len(given) = delivered
    BY <2>1 DEF ItemFits, GivenFits
  <2>4. ToldFits'
    BY <2>1, <2>2 DEF ToldFits, Said, SaidOfServed, Skipped
  <2>5. /\ given' \in Seq(Nat) /\ Len(given') = NFiles + 1
        /\ \A i \in DOMAIN given' : given'[i] = IF i <= NFiles THEN i ELSE NoURI
    BY <2>1, <2>3, AppendProperties, LenProperties DEF GivenFits
  <2> QED
    BY <2>1, <2>2, <2>3, <2>4, <2>5 DEF ItemFits, GivenFits
<1>5. CASE DeliveryLater
  <2>1. UNCHANGED <<at, delivered, told, given>> /\ at = "delivery"
    BY <1>5 DEF DeliveryLater
  <2>2. ItemTypes' /\ item'.uri = item.uri /\ item'.ftStatus = item.ftStatus
    BY <1>5 DEF DeliveryLater, ItemTypes
  <2> QED
    BY <2>1, <2>2 DEF ToldFits, Said, SaidOfServed, Skipped, ItemFits, GivenFits
<1>6. CASE DeliveryError
  <2>1. UNCHANGED <<delivered, told, given>> /\ at = "delivery" /\ at' = "thrown"
    BY <1>6 DEF DeliveryError
  <2>2. ItemTypes' /\ item'.uri = item.uri /\ item'.ftStatus = item.ftStatus
    BY <1>6 DEF DeliveryError, ItemTypes
  <2> QED
    BY <2>1, <2>2 DEF ToldFits, Said, SaidOfServed, Skipped, ItemFits, GivenFits
<1>7. CASE Transferred
  <2>1. /\ at = "transfer" /\ at' = "source" /\ delivered' = delivered /\ item.left > 0
        /\ told' = [told EXCEPT ![item.uri] = Append(@, "transferred")]
        /\ given' = Append(given, item.uri)
        /\ item' = [item EXCEPT !.ftStatus = "success", !.left = @ - 1]
    BY <1>7 DEF Transferred, Tell
  <2>2. ItemTypes' /\ item'.uri = item.uri /\ item'.ftStatus = "success"
    BY <2>1 DEF ItemTypes
  <2>3. item.uri = delivered /\ item.uri \in Files /\ item.ftStatus # "success" /\ Len(given) = delivered - 1
    BY <2>1 DEF ItemFits, ItemTypes, GivenFits
  <2>4. ToldFits'
    <3>1. ASSUME NEW f \in Files PROVE told'[f] = Said(f)'
      <4>1. CASE f = item.uri
        <5>1. told[f] = <<>>
          BY <2>1, <2>3, <4>1 DEF ToldFits, Said, Skipped
        <5>2. told'[f] = <<"transferred">>
          BY <2>1, <2>3, <4>1, <5>1 DEF ToldFits
        <5>3. Said(f)' = <<"transferred">>
          BY <2>1, <2>2, <2>3, <4>1 DEF Said, SaidOfServed
        <5> QED  BY <5>2, <5>3
      <4>2. CASE f # item.uri
        BY <2>1, <2>2, <2>3, <4>2 DEF ToldFits, Said
      <4> QED  BY <4>1, <4>2
    <3> QED  BY <2>1, <3>1 DEF ToldFits
  <2>5. /\ given' \in Seq(Nat) /\ Len(given') = delivered
        /\ \A i \in DOMAIN given' : given'[i] = IF i <= NFiles THEN i ELSE NoURI
    BY <2>1, <2>3, AppendProperties, LenProperties DEF GivenFits
  <2> QED
    BY <2>1, <2>2, <2>3, <2>4, <2>5 DEF ItemFits, GivenFits
<1>8. CASE TransferLater
  <2>1. UNCHANGED <<at, delivered, told, given>> /\ at = "transfer"
    BY <1>8 DEF TransferLater
  <2>2. ItemTypes' /\ item'.uri = item.uri /\ item'.ftStatus = "unavailable"
    BY <1>8 DEF TransferLater, ItemTypes
  <2> QED
    BY <2>1, <2>2 DEF ToldFits, Said, SaidOfServed, Skipped, ItemFits, GivenFits
<1>9. CASE TransferError
  <2>1. UNCHANGED <<delivered, told, given>> /\ at = "transfer" /\ at' = "thrown"
    BY <1>9 DEF TransferError
  <2>2. ItemTypes' /\ item'.uri = item.uri /\ item'.ftStatus = "error"
    BY <1>9 DEF TransferError, ItemTypes
  <2> QED
    BY <2>1, <2>2 DEF ToldFits, Said, SaidOfServed, Skipped, ItemFits, GivenFits
<1>10. CASE Destroy
  <2>1. UNCHANGED <<item, delivered, given>> /\ at \in {"source", "thrown"} /\ at' = "gone"
    BY <1>10 DEF Destroy
  <2>2. ToldFits'
    <3>1. CASE item.uri = NoURI
      <4>1. told' = told
        BY <1>10, <3>1 DEF Destroy
      <4> QED  BY <2>1, <3>1, <4>1 DEF ToldFits, Said
    <3>2. CASE item.uri # NoURI
      <4>1. told' = [told EXCEPT ![item.uri] = Append(@, IF item.ftStatus = "success" THEN "incomplete" ELSE "skipped")]
        BY <1>10, <3>2 DEF Destroy, Tell
      <4>2. item.uri = delivered /\ item.uri \in Files
        BY <3>2 DEF ItemFits, ItemTypes
      <4>3. ASSUME NEW f \in Files PROVE told'[f] = Said(f)'
        <5>1. CASE f = item.uri
          <6>1. told[f] = IF item.ftStatus = "success" THEN <<"transferred">> ELSE <<>>
            BY <2>1, <4>2, <5>1 DEF ToldFits, Said, SaidOfServed, Skipped
          <6>2. told'[f] = IF item.ftStatus = "success" THEN Append(<<"transferred">>, "incomplete")
                           ELSE Append(<<>>, "skipped")
            BY <4>1, <4>2, <5>1, <6>1 DEF ToldFits
          <6>3. Append(<<"transferred">>, "incomplete") = <<"transferred", "incomplete">>
            BY AppendToOne
          <6>4. Append(<<>>, "skipped") = <<"skipped">>
            OBVIOUS
          <6>5. Said(f)' = IF item.ftStatus = "success" THEN <<"transferred", "incomplete">> ELSE <<"skipped">>
            BY <2>1, <4>2, <5>1 DEF Said, SaidOfServed, Skipped
          <6> QED  BY <6>2, <6>3, <6>4, <6>5
        <5>2. CASE f # item.uri
          BY <2>1, <4>1, <4>2, <5>2 DEF ToldFits, Said
        <5> QED  BY <5>1, <5>2
      <4> QED  BY <4>1, <4>3 DEF ToldFits
    <3> QED  BY <3>1, <3>2
  <2> QED
    BY <2>1, <2>2 DEF ItemTypes, ItemFits, GivenFits
<1> QED
  BY <1>1, <1>2, <1>3, <1>4, <1>5, <1>6, <1>7, <1>8, <1>9, <1>10 DEF Next, Services

\* What the invariant says of the source and of the end.
LEMMA ProxyServes == ProxyAssumption /\ ProxyInv => FilesInOrder /\ OneOutcome
<1> SUFFICES ASSUME ProxyAssumption, ProxyInv PROVE FilesInOrder /\ OneOutcome
  OBVIOUS
<1> USE DEF ProxyAssumption, ProxyInv, Files, NoURI
<1>1. given \in Seq(Nat) /\ DOMAIN given = 1 .. Len(given) /\ Len(given) \in Nat
  BY LenProperties DEF GivenFits
<1>2. \A i \in 1 .. Len(given) : given[i] = IF i <= NFiles THEN i ELSE NoURI
  BY <1>1 DEF GivenFits
<1>3. ASSUME NEW f \in 1 .. delivered
      PROVE  f \in {given[i] : i \in DOMAIN given} <=> f <= Len(given)
  <2>1. ASSUME f <= Len(given) PROVE f \in 1 .. Len(given) /\ given[f] = f
    BY <1>1, <1>2, <2>1
  <2>2. ASSUME NEW i \in 1 .. Len(given), given[i] = f PROVE i = f
    BY <1>1, <1>2, <2>2
  <2> QED  BY <1>1, <2>1, <2>2
<1>4. ASSUME NEW f \in 1 .. delivered
      PROVE  f <= Len(given) <=> ~(f = item.uri /\ item.ftStatus # "success")
  <2>1. CASE item.uri # NoURI /\ item.ftStatus # "success"
    <3>1. Len(given) = delivered - 1 /\ item.uri = delivered
      BY <2>1 DEF GivenFits, ItemFits
    <3> QED  BY <2>1, <3>1
  <2>2. CASE ~(item.uri # NoURI /\ item.ftStatus # "success")
    <3>1. f <= Len(given)
      <4>1. Len(given) = delivered \/ Len(given) = NFiles + 1
        BY <2>2 DEF GivenFits
      <4>2. Len(given) \in Nat /\ delivered \in 0 .. NFiles
        BY <1>1
      <4> HIDE DEF ProxyInv
      <4> QED  BY <4>1, <4>2
    <3> QED  BY <2>2, <3>1
  <2> QED  BY <2>1, <2>2
<1>5. FilesInOrder
  BY <1>1, <1>2, <1>3, <1>4 DEF FilesInOrder, ItemFits
<1>6. ASSUME at = "gone", NEW f \in 1 .. delivered
      PROVE  told[f] = IF f \notin {given[i] : i \in DOMAIN given} THEN <<"skipped">>
                       ELSE IF f = item.uri THEN <<"transferred", "incomplete">> ELSE <<"transferred", "consumed">>
  <2>1. told[f] = Said(f)
    BY DEF ToldFits
  <2>2. Said(f) = IF f # item.uri THEN <<"transferred", "consumed">>
                  ELSE IF item.ftStatus = "success" THEN <<"transferred", "incomplete">> ELSE <<"skipped">>
    BY <1>6 DEF Said, SaidOfServed, Skipped
  <2> QED
    BY <1>3, <1>4, <2>1, <2>2
<1> QED
  BY <1>5, <1>6 DEF OneOutcome

-----------------------------------------------------------------------------
(* What is said of a file, one word at a time.                              *)

LEMMA TimesEmpty == ASSUME NEW d PROVE Times(<<>>, d) = 0
<1>1. {i \in DOMAIN <<>> : <<>>[i] = d} = {}
  OBVIOUS
<1> QED  BY <1>1, FS_EmptySet DEF Times

\* A word more is one occurrence more of that word.
LEMMA TimesAppend ==
  ASSUME NEW S, NEW said \in Seq(S), NEW e \in S, NEW d
  PROVE  /\ Times(said, d) \in Nat
         /\ Times(Append(said, e), d) = Times(said, d) + (IF e = d THEN 1 ELSE 0)
<1> DEFINE T == {i \in DOMAIN said : said[i] = d}
           A == {i \in DOMAIN Append(said, e) : Append(said, e)[i] = d}
<1>1. Len(said) \in Nat /\ DOMAIN said = 1 .. Len(said)
  BY LenProperties
<1>2. IsFiniteSet(T) /\ Cardinality(T) \in Nat
  <2>1. IsFiniteSet(1 .. Len(said))
    BY <1>1, FS_Interval
  <2> QED  BY <1>1, <2>1, FS_Subset, FS_CardinalityType
<1>3. Len(said) + 1 \notin T
  BY <1>1
<1>4. A = IF e = d THEN T \union {Len(said) + 1} ELSE T
  <2>1. DOMAIN Append(said, e) = 1 .. Len(said) + 1
    BY <1>1, AppendProperties, LenProperties
  <2>2. Append(said, e)[Len(said) + 1] = e /\ \A i \in 1 .. Len(said) : Append(said, e)[i] = said[i]
    BY AppendProperties
  <2> QED  BY <1>1, <2>1, <2>2
<1>5. Cardinality(A) = Cardinality(T) + (IF e = d THEN 1 ELSE 0)
  <2>1. Cardinality(T \union {Len(said) + 1}) = Cardinality(T) + 1
    BY <1>2, <1>3, FS_AddElement
  <2> HIDE DEF T, A
  <2> QED  BY <1>2, <1>4, <2>1
<1> QED  BY <1>2, <1>5 DEF Times

LEMMA HeadOfAppend ==
  ASSUME NEW S, NEW said \in Seq(S), NEW e \in S
  PROVE  /\ Append(said, e) \in Seq(S) /\ Append(said, e) # <<>>
         /\ Head(Append(said, e)) = IF said = <<>> THEN e ELSE Head(said)
<1>1. Append(said, e) \in Seq(S) /\ Append(said, e) # <<>>
  BY AppendProperties
<1>2. CASE said = <<>>
  BY <1>1, <1>2, AppendProperties, LenProperties
<1>3. CASE said # <<>>
  <2>1. Len(said) \in Nat \ {0}
    BY <1>3, EmptySeq
  <2>2. Append(said, e)[1] = said[1]
    BY <2>1, AppendProperties
  <2>3. Head(said) = said[1] /\ Head(Append(said, e)) = Append(said, e)[1]
    BY <1>1, <1>3
  <2> QED  BY <1>1, <1>3, <2>2, <2>3
<1> QED  BY <1>2, <1>3

\* The work on an item with a name is done.
LEMMA SaidConsumed ==
  ASSUME NEW said \in Seq(Dispositions), NEW i, CatalogItem(i), Agrees(said, i), ~i.skipped, ~i.consumed
  PROVE  LET more == Append(said, "consumed")
         IN more \in Seq(Dispositions) /\ Regular(more) /\ Agrees(more, [i EXCEPT !.consumed = TRUE])
<1> DEFINE more == Append(said, "consumed")
           j == [i EXCEPT !.consumed = TRUE]
<1>1. j.named = i.named /\ j.skipped = i.skipped /\ j.consumed = TRUE
  BY DEF CatalogItem
<1>2. i.named /\ Head(said) = "transferred" /\ said # <<>>
      /\ Times(said, "skipped") = 0 /\ Times(said, "consumed") = 0
  BY DEF Agrees, CatalogItem
<1>3. more \in Seq(Dispositions) /\ more # <<>> /\ Head(more) = "transferred"
  BY <1>2, HeadOfAppend DEF Dispositions
<1>4. Times(more, "skipped") = 0 /\ Times(more, "consumed") = 1
  BY <1>2, TimesAppend DEF Dispositions
<1> HIDE DEF more, j
<1>5. Regular(more) /\ Agrees(more, j)
  BY <1>1, <1>2, <1>3, <1>4 DEF Regular, Agrees
<1> QED  BY <1>3, <1>5 DEF more, j

\* An item is transferred again.
LEMMA SaidAgain ==
  ASSUME NEW said \in Seq(Dispositions), NEW i, CatalogItem(i), Agrees(said, i), Regular(said)
  PROVE  LET more == Append(said, "transferred")
         IN more \in Seq(Dispositions) /\ Regular(more) /\ Agrees(more, i)
<1> DEFINE more == Append(said, "transferred")
<1>1. more \in Seq(Dispositions) /\ more # <<>> /\ Head(more) = Head(said)
  BY HeadOfAppend DEF Dispositions, Agrees
<1>2. \A d \in {"skipped", "consumed"} : Times(more, d) = Times(said, d)
  BY TimesAppend DEF Dispositions
<1> HIDE DEF more
<1>3. Regular(more) /\ Agrees(more, i)
  BY <1>1, <1>2 DEF Regular, Agrees
<1> QED  BY <1>1, <1>3 DEF more

\* The first word about a file, by what the catalogue then knows of the item.
LEMMA SaidFirst ==
  ASSUME NEW i, CatalogItem(i), NEW word \in {"transferred", "skipped"},
         i.named <=> word = "transferred", word = "skipped" => i.skipped
  PROVE  LET said == Append(<<>>, word)
         IN said \in Seq(Dispositions) /\ Regular(said) /\ Agrees(said, i)
<1> DEFINE said == Append(<<>>, word)
<1>1. <<>> \in Seq(Dispositions) /\ word \in Dispositions
  BY DEF Dispositions
<1>2. said \in Seq(Dispositions) /\ said # <<>> /\ Head(said) = word
  BY <1>1, HeadOfAppend
<1>3. /\ Times(said, "consumed") = 0
      /\ Times(said, "skipped") = IF word = "skipped" THEN 1 ELSE 0
  <2>1. ASSUME NEW d PROVE Times(said, d) = IF word = d THEN 1 ELSE 0
    <3>1. ASSUME NEW none \in Seq(Dispositions)
          PROVE  Times(Append(none, word), d) = Times(none, d) + (IF word = d THEN 1 ELSE 0)
      BY <1>1, TimesAppend
    <3> HIDE DEF said
    <3>2. Times(said, d) = Times(<<>>, d) + (IF word = d THEN 1 ELSE 0)
      BY <1>1, <3>1, Zenon DEF said
    <3> QED  BY <3>2, TimesEmpty
  <2> HIDE DEF said
  <2> QED  BY <2>1
<1> HIDE DEF said
<1>4. Regular(said) /\ Agrees(said, i)
  BY <1>2, <1>3 DEF Regular, Agrees
<1> QED  BY <1>2, <1>4 DEF said

-----------------------------------------------------------------------------
(* The catalogue: what its operations have in common.                       *)

\* What BeginRetrieval makes of the current item, whose work is done.
Left == IF Catalog!Unconsumed THEN [items EXCEPT ![fileIdx].consumed = TRUE] ELSE items
SaidLeft == IF Catalog!Unconsumed THEN [told EXCEPT ![items[fileIdx].uri] = Append(@, "consumed")] ELSE told

\* Each item the catalogue knows is in its range, and its file is one that was delivered.
LEMMA KnownItems ==
  ASSUME NFiles \in Nat, CatalogTypes, IndexFits, fileIdx # -1, NEW i \in 0 .. maxIdx
  PROVE  i \in 0 .. NFiles /\ (IF searchable THEN i + 1 ELSE Current) \in Files
<1>1. Current \in Nat
  BY LenProperties DEF Current, CatalogTypes
<1>2. CASE searchable
  BY <1>1, <1>2 DEF CatalogTypes, IndexFits, Known, Files
<1>3. CASE ~searchable
  BY <1>1, <1>3 DEF CatalogTypes, IndexFits, Known, Files
<1> QED  BY <1>2, <1>3

LEMMA LeftAgrees ==
  ASSUME NFiles \in Nat, CatalogTypes, IndexFits, ItemsAgree(items, told)
  PROVE  ItemsAgree(Left, SaidLeft)
<1>1. CASE ~Catalog!Unconsumed
  BY <1>1 DEF Left, SaidLeft
<1>2. CASE Catalog!Unconsumed
  <2> DEFINE it == items[fileIdx]
             more == Append(told[it.uri], "consumed")
             left == [it EXCEPT !.consumed = TRUE]
  <2>1. fileIdx \in 0 .. maxIdx /\ fileIdx # -1 /\ ~it.skipped /\ ~it.consumed
    BY <1>2 DEF Catalog!Unconsumed, Catalog!IndexEnd, CatalogTypes
  <2>2. fileIdx \in 0 .. NFiles /\ CatalogItem(it) /\ it.uri \in Files /\ Agrees(told[it.uri], it)
        /\ it.uri = IF searchable THEN fileIdx + 1 ELSE Current
    BY <2>1, KnownItems DEF ItemsAgree
  <2>3. told[it.uri] \in Seq(Dispositions)
    BY <2>2 DEF ItemsAgree
  <2>4. more \in Seq(Dispositions) /\ Regular(more) /\ Agrees(more, left)
    BY <2>1, <2>2, <2>3, SaidConsumed
  <2>5. left.uri = it.uri /\ CatalogItem(left)
    BY <2>2 DEF CatalogItem
  <2>6. /\ Left = [items EXCEPT ![fileIdx] = left]
        /\ SaidLeft = [told EXCEPT ![it.uri] = more]
    BY <1>2 DEF Left, SaidLeft
  <2>7. it.uri <= delivered
    BY <2>2 DEF ItemsAgree, Agrees, CatalogTypes, Files
  <2> HIDE DEF it, more, left
  <2>8. DOMAIN Left = 0 .. NFiles /\ \A i \in 0 .. NFiles : CatalogItem(Left[i])
    BY <2>5, <2>6 DEF ItemsAgree
  <2>9. SaidLeft \in [Files -> Seq(Dispositions)]
    BY <2>4, <2>6 DEF ItemsAgree
  <2>10. ASSUME NEW f \in Files PROVE Regular(SaidLeft[f]) /\ (f > delivered => SaidLeft[f] = <<>>)
    <3>1. SaidLeft[f] = IF f = it.uri THEN more ELSE told[f]
      BY <2>6 DEF ItemsAgree
    <3>2. it.uri \in Nat /\ delivered \in Nat /\ f \in Nat
      BY <2>2 DEF CatalogTypes, Files
    <3> QED  BY <2>4, <2>7, <3>1, <3>2 DEF ItemsAgree
  <2>11. ASSUME NEW i \in 0 .. maxIdx
         PROVE  Left[i].uri = (IF searchable THEN i + 1 ELSE Current) /\ Agrees(SaidLeft[Left[i].uri], Left[i])
    <3>1. i \in 0 .. NFiles /\ items[i].uri \in Files /\ Agrees(told[items[i].uri], items[i])
          /\ items[i].uri = IF searchable THEN i + 1 ELSE Current
      BY <2>1, KnownItems DEF ItemsAgree
    <3>2. CASE i = fileIdx
      <4>1. Left[i] = left
        BY <2>2, <2>6, <3>2 DEF ItemsAgree
      <4>2. SaidLeft[it.uri] = more
        BY <2>2, <2>6 DEF ItemsAgree
      <4> QED  BY <2>2, <2>4, <2>5, <3>2, <4>1, <4>2
    <3>3. CASE i # fileIdx
      <4>1. searchable
        BY <2>1, <3>3 DEF IndexFits, CatalogTypes
      <4>2. Left[i] = items[i] /\ items[i].uri # it.uri
        BY <2>1, <2>2, <2>6, <3>1, <3>3, <4>1 DEF ItemsAgree
      <4>3. SaidLeft[items[i].uri] = told[items[i].uri]
        BY <2>6, <3>1, <4>2 DEF ItemsAgree
      <4> QED  BY <3>1, <4>2, <4>3
    <3> QED  BY <3>2, <3>3
  <2> QED  BY <2>8, <2>9, <2>10, <2>11 DEF ItemsAgree
<1> QED  BY <1>1, <1>2

\* The reader takes the next item.
LEMMA Taken ==
  ASSUME NFiles \in Nat, CatalogTypes, IndexFits, NEW known, ItemsAgree(known, told'),
         NEW i, CatalogItem(i), IsNext(i, Current, known, told'), Catalog!MakeCurrent(known, i),
         UNCHANGED <<searchable, delivered>>
  PROVE  /\ ItemsAgree(items, told)' /\ IndexFits'
         /\ maxIdx' \in Nat /\ fileIdx' \in -1 .. maxIdx' /\ opened' \in Seq(Nat)
         /\ call' = Catalog!Idle /\ probed' = FALSE /\ answer' = "file" /\ delivered' = Known'
<1> DEFINE ix == Catalog!Advanced
<1>1. Current \in Nat /\ opened \in Seq(Nat)
  BY LenProperties DEF Current, CatalogTypes
<1>2. i.uri = Current + 1 /\ i.uri \in 1 .. NFiles /\ Agrees(told'[i.uri], i) /\ delivered \in Nat
  BY DEF IsNext, Files, CatalogTypes
<1>3. ix = IF searchable THEN Current ELSE 0
  BY <1>1 DEF Catalog!Advanced, Catalog!IndexEnd, IndexFits, CatalogTypes
<1>4. ix < Catalog!VectorSize
  BY <1>1, <1>2, <1>3 DEF Catalog!VectorSize
<1>5. /\ probed' = FALSE /\ fileIdx' = ix /\ answer' = "file" /\ call' = Catalog!Idle
      /\ maxIdx' = IF ix > maxIdx THEN ix ELSE maxIdx
      /\ items' = [known EXCEPT ![ix] = i]
      /\ opened' = Append(opened, i.uri) /\ searchable' = searchable /\ delivered' = delivered
  <2>1. ix \in Int /\ Catalog!VectorSize \in Int
    BY <1>1, <1>3 DEF Catalog!VectorSize
  <2> HIDE DEF ix
  <2> QED  BY <1>4, <2>1 DEF Catalog!MakeCurrent, ix
<1>6. /\ opened' \in Seq(Nat) /\ Current' = Current + 1
      /\ \A j \in 1 .. Current' : opened'[j] = j
  <2>1. i.uri \in Nat
    BY <1>2
  <2>2. /\ opened' \in Seq(Nat) /\ Len(opened') = Len(opened) + 1
        /\ \A j \in 1 .. Len(opened) : opened'[j] = opened[j]
        /\ opened'[Len(opened) + 1] = i.uri
    BY <1>1, <1>5, <2>1, AppendProperties
  <2>3. Current' = Current + 1
    BY <2>2 DEF Current
  <2>4. ASSUME NEW j \in 1 .. Current + 1 PROVE opened'[j] = j
    <3>1. CASE j = Current + 1
      BY <1>2, <2>2, <3>1 DEF Current
    <3>2. CASE j # Current + 1
      <4>1. j \in 1 .. Current
        BY <1>1, <3>2
      <4> QED  BY <2>2, <4>1 DEF Current, IndexFits
    <3> QED  BY <3>1, <3>2
  <2> QED  BY <2>2, <2>3, <2>4
<1>7. fileIdx' = ix /\ maxIdx' \in Nat /\ ix \in 0 .. NFiles /\ ix <= maxIdx'
  BY <1>1, <1>5, <1>2, <1>3 DEF CatalogTypes
<1>8. /\ fileIdx' # -1
      /\ fileIdx' = IF searchable' \/ Current' = 0 THEN Current' - 1 ELSE 0
      /\ fileIdx' = -1 \/ ~searchable' => maxIdx' = 0
  BY <1>1, <1>5, <1>6, <1>3 DEF IndexFits, CatalogTypes
<1>9. delivered' = Known'
  <2>1. CASE ~searchable
    BY <1>1, <1>5, <1>6, <2>1 DEF Known, IsNext
  <2>2. CASE searchable /\ Current < Known
    BY <1>1, <1>5, <1>3, <1>8, <2>2 DEF Known, IsNext, CatalogTypes
  <2>3. CASE searchable /\ ~(Current < Known)
    BY <1>1, <1>5, <1>3, <1>8, <2>3 DEF Known, IsNext, IndexFits, CatalogTypes
  <2> QED  BY <2>1, <2>2, <2>3
<1>10. IndexFits'
  <2>1. Known' <= delivered'
    BY <1>5, <1>2, <1>9
  <2> QED  BY <1>6, <1>8, <2>1 DEF IndexFits
<1>11. ItemsAgree(items, told)'
  <2>1. DOMAIN items' = 0 .. NFiles /\ \A j \in 0 .. NFiles : CatalogItem(items'[j])
    BY <1>5, <1>7 DEF ItemsAgree
  <2>2. ASSUME NEW j \in 0 .. maxIdx'
        PROVE  items'[j].uri = (IF searchable THEN j + 1 ELSE Current + 1) /\ Agrees(told'[items'[j].uri], items'[j])
    <3>1. CASE j = ix
      BY <1>1, <1>5, <1>2, <1>3, <1>7, <3>1 DEF ItemsAgree
    <3>2. CASE j # ix
      <4>1. searchable /\ fileIdx # -1 /\ j \in 0 .. maxIdx
        BY <1>1, <1>5, <1>3, <3>2 DEF IndexFits, CatalogTypes
      <4>2. j \in 0 .. NFiles
        BY <4>1, KnownItems
      <4>3. items'[j] = known[j]
        BY <1>5, <3>2, <4>2 DEF ItemsAgree
      <4> QED  BY <4>1, <4>3 DEF ItemsAgree
    <3> QED  BY <3>1, <3>2
  <2> QED  BY <1>5, <1>6, <2>1, <2>2 DEF ItemsAgree
<1> QED  BY <1>5, <1>6, <1>7, <1>9, <1>10, <1>11

ReturnsNext(op, known) == Catalog!Return(op, known, nextItem', TRUE)
ReturnsNone(op) == Catalog!Return(op, items, nextItem, FALSE)

\* An operation returns with a next item.
LEMMA Returned ==
  ASSUME NFiles \in Nat, CatalogTypes, IndexFits, ~probed, NEW known, ItemsAgree(known, told'),
         CatalogItem(nextItem'), IsNext(nextItem', Current, known, told'),
         NEW op \in {"get", "has"}, ReturnsNext(op, known),
         UNCHANGED <<searchable, delivered>>
  PROVE  CatalogInv'
<1>1. call' = Catalog!Idle
  BY Taken DEF Catalog!Return, ReturnsNext
<1>2. DOMAIN call' = {"at", "op", "left"} /\ call'.at = "idle"
  BY <1>1 DEF Catalog!Idle
<1>3. CASE op = "get"
  <2>1. Catalog!MakeCurrent(known, nextItem') /\ hasNext' = hasNext /\ probedAt' = probedAt
    BY <1>3 DEF Catalog!Return, ReturnsNext
  <2>2. /\ ItemsAgree(items, told)' /\ IndexFits'
        /\ maxIdx' \in Nat /\ fileIdx' \in -1 .. maxIdx' /\ opened' \in Seq(Nat)
        /\ probed' = FALSE /\ answer' = "file" /\ delivered' = Known'
    BY <2>1, Taken
  <2>3. CatalogTypes'
    BY <1>2, <2>1, <2>2 DEF CatalogTypes
  <2>4. CallFits'
    BY <1>2, <2>2 DEF CallFits
  <2> QED  BY <2>2, <2>3, <2>4 DEF CatalogInv
<1>4. CASE op = "has"
  <2>1. /\ probed' = TRUE /\ hasNext' = TRUE /\ items' = known /\ answer' = "has next"
        /\ probedAt' = Current /\ UNCHANGED <<fileIdx, maxIdx, opened>>
    BY <1>4 DEF Catalog!Return, ReturnsNext, Current
  <2>2. Current' = Current /\ Known' = Known
    <3>1. Len(opened') = Len(opened)
      BY <2>1
    <3>2. Current' = Current
      BY <3>1 DEF Current
    <3> QED  BY <2>1, <3>2 DEF Known
  <2>3. IsNext(nextItem, probedAt, items, told)'
    BY <2>1, <2>2 DEF IsNext
  <2>4. CatalogTypes'
    BY <1>2, <2>1, LenProperties DEF CatalogTypes, Current
  <2>5. IndexFits'
    BY <2>1, <2>2 DEF IndexFits
  <2>6. ItemsAgree(items, told)'
    BY <2>1, <2>2 DEF ItemsAgree
  <2>7. CallFits'
    BY <1>2, <2>1, <2>3 DEF CallFits
  <2> QED  BY <2>4, <2>5, <2>6, <2>7 DEF CatalogInv
<1> QED  BY <1>3, <1>4

\* retrieveNextFile, up to the services.
LEMMA Begins ==
  ASSUME NFiles \in Nat, CatalogInv, call.at = "idle", ~probed, NEW op \in {"get", "has"},
         Catalog!BeginRetrieval(op), UNCHANGED <<searchable, delivered>>
  PROVE  CatalogInv'
<1>1. CatalogTypes /\ IndexFits /\ ItemsAgree(items, told) /\ CallFits
  BY DEF CatalogInv
<1>2. ItemsAgree(Left, SaidLeft) /\ delivered = Known
  BY <1>1, LeftAgrees DEF CallFits
<1>3. CASE /\ fileIdx # -1 /\ fileIdx < maxIdx
           /\ nextItem' = Left[fileIdx + 1]
           /\ told' = [SaidLeft EXCEPT ![nextItem'.uri] = Append(@, "transferred")]
           /\ ReturnsNext(op, Left)
  <2> DEFINE u == nextItem'.uri
             more == Append(SaidLeft[u], "transferred")
  <2>1. searchable /\ fileIdx + 1 \in 0 .. maxIdx /\ Current = fileIdx + 1 /\ Current < Known
    <3>1. Current \in Nat
      BY <1>1, LenProperties DEF Current, CatalogTypes
    <3> QED  BY <1>1, <1>3, <3>1 DEF IndexFits, CatalogTypes, Known
  <2>2. fileIdx + 1 \in 0 .. NFiles /\ fileIdx + 2 \in Files
    <3>1. ASSUME NEW i \in 0 .. maxIdx PROVE i \in 0 .. NFiles /\ i + 1 \in Files
      BY <1>1, <1>3, <2>1, KnownItems
    <3>2. (fileIdx + 1) + 1 = fileIdx + 2
      BY <1>1 DEF CatalogTypes
    <3> QED  BY <2>1, <3>1, <3>2
  <2>3. CatalogItem(nextItem') /\ u = fileIdx + 2 /\ Agrees(SaidLeft[u], nextItem')
    <3>1. /\ CatalogItem(Left[fileIdx + 1]) /\ Left[fileIdx + 1].uri = (fileIdx + 1) + 1
          /\ Agrees(SaidLeft[Left[fileIdx + 1].uri], Left[fileIdx + 1])
      BY <1>2, <1>3, <2>1, <2>2 DEF ItemsAgree
    <3>2. (fileIdx + 1) + 1 = fileIdx + 2
      BY <1>1 DEF CatalogTypes
    <3> QED  BY <1>3, <3>1, <3>2
  <2>4. SaidLeft[u] \in Seq(Dispositions) /\ Regular(SaidLeft[u])
    BY <1>2, <2>2, <2>3 DEF ItemsAgree
  <2>5. more \in Seq(Dispositions) /\ Regular(more) /\ Agrees(more, nextItem')
    BY <2>3, <2>4, SaidAgain
  <2>6. SaidLeft \in [Files -> Seq(Dispositions)] /\ told' = [SaidLeft EXCEPT ![u] = more] /\ u \in Files
    BY <1>2, <1>3, <2>2, <2>3 DEF ItemsAgree
  <2>7. u <= delivered
    BY <1>1, <1>2, <2>1, <2>3 DEF CatalogTypes
  <2> HIDE DEF u, more
  <2>8. \A f \in Files : told'[f] = IF f = u THEN more ELSE SaidLeft[f]
    BY <2>6
  <2>9. told' \in [Files -> Seq(Dispositions)]
    BY <2>5, <2>6
  <2>10. ASSUME NEW f \in Files PROVE Regular(told'[f]) /\ (f > delivered => told'[f] = <<>>)
    <3>1. u \in Nat /\ delivered \in Nat /\ f \in Nat
      BY <1>1, <2>6 DEF CatalogTypes, Files
    <3> QED  BY <1>2, <2>5, <2>7, <2>8, <3>1 DEF ItemsAgree
  <2>11. ASSUME NEW i \in 0 .. maxIdx PROVE Agrees(told'[Left[i].uri], Left[i])
    <3>1. i \in 0 .. NFiles /\ Left[i].uri = i + 1 /\ i + 1 \in Files /\ Agrees(SaidLeft[i + 1], Left[i])
      BY <1>1, <1>2, <1>3, <2>1, KnownItems DEF ItemsAgree
    <3>2. CASE i = fileIdx + 1
      BY <1>3, <2>3, <2>5, <2>8, <3>1, <3>2 DEF u
    <3>3. CASE i # fileIdx + 1
      <4>1. i + 1 # u
        BY <1>1, <2>3, <3>3 DEF CatalogTypes, u
      <4> QED  BY <2>8, <3>1, <4>1
    <3> QED  BY <3>2, <3>3
  <2>12. ItemsAgree(Left, told')
    BY <1>2, <2>9, <2>10, <2>11 DEF ItemsAgree
  <2>13. IsNext(nextItem', Current, Left, told')
    <3>1. nextItem'.uri = Current + 1 /\ nextItem'.uri \in Files
      BY <1>1, <2>1, <2>2, <2>3 DEF u, CatalogTypes
    <3>2. Agrees(told'[nextItem'.uri], nextItem')
      BY <2>5, <2>6, <2>8 DEF u
    <3> QED  BY <1>2, <1>3, <2>1, <3>1, <3>2 DEF IsNext
  <2> QED  BY <1>1, <1>3, <2>3, <2>12, <2>13, Returned
<1>4. CASE /\ fileIdx = -1 \/ fileIdx = maxIdx
           /\ call' = [at |-> "delivery", op |-> op, left |-> Attempts]
           /\ items' = Left /\ told' = SaidLeft
           /\ UNCHANGED <<fileIdx, maxIdx, nextItem, probed, hasNext, opened, answer, probedAt>>
  <2>1. Current' = Current /\ Known' = Known /\ Current = Known
    BY <1>1, <1>4, LenProperties DEF Current, Known, IndexFits, CatalogTypes
  <2>2. DOMAIN call' = {"at", "op", "left"} /\ call'.at = "delivery" /\ call'.op = op
    BY <1>4
  <2>3. CatalogTypes'
    BY <1>1, <1>4, <2>2 DEF CatalogTypes
  <2>4. IndexFits'
    BY <1>1, <1>4, <2>1 DEF IndexFits
  <2>5. ItemsAgree(items, told)'
    BY <1>2, <1>4, <2>1 DEF ItemsAgree
  <2>6. CallFits'
    BY <1>1, <1>2, <1>4, <2>1, <2>2 DEF CallFits
  <2> QED  BY <2>3, <2>4, <2>5, <2>6 DEF CatalogInv
<1> QED
  BY <1>3, <1>4 DEF Catalog!BeginRetrieval, Catalog!IndexEnd, Catalog!reading, Left, SaidLeft, ReturnsNext

-----------------------------------------------------------------------------
(* The catalogue: each operation and each answer of the services.           *)

LEMMA CatalogInit == NFiles \in Nat /\ Catalog!Init => CatalogInv
<1> SUFFICES ASSUME NFiles \in Nat, Catalog!Init PROVE CatalogInv
  OBVIOUS
<1>1. opened \in Seq(Nat) /\ Current = 0 /\ Known = 0 /\ delivered = 0
  BY DEF Catalog!Init, Catalog!IndexEnd, Current, Known
<1>2. CatalogItem(Catalog!NoItem)
  BY DEF Catalog!NoItem, CatalogItem
<1>3. CatalogTypes
  <2>1. searchable \in BOOLEAN /\ probed = FALSE /\ hasNext = FALSE /\ maxIdx = 0 /\ fileIdx = -1
    BY DEF Catalog!Init, Catalog!IndexEnd
  <2>2. CatalogItem(nextItem)
    BY <1>2 DEF Catalog!Init
  <2>3. /\ DOMAIN call = {"at", "op", "left"} /\ call.at = "idle"
    BY DEF Catalog!Init, Catalog!Idle
  <2>4. {searchable, probed, hasNext} \subseteq BOOLEAN
    BY <2>1
  <2>5. maxIdx \in Nat /\ fileIdx \in -1 .. maxIdx
    BY <2>1
  <2>6. probedAt \in Nat /\ call.at \in {"idle", "delivery", "transfer", "failed"} /\ call.at \notin {"delivery", "transfer"}
    BY <2>3 DEF Catalog!Init
  <2>7. delivered \in 0 .. NFiles
    BY <1>1
  <2> QED BY <1>1, <2>2, <2>3, <2>4, <2>5, <2>6, <2>7 DEF CatalogTypes
<1>4. IndexFits
  BY <1>1 DEF IndexFits, Catalog!Init, Catalog!IndexEnd
<1>5. <<>> \in Seq(Dispositions) /\ Regular(<<>>)
  BY TimesEmpty DEF Regular
<1>6. ItemsAgree(items, told)
  BY <1>2, <1>5 DEF ItemsAgree, Catalog!Init, Catalog!IndexEnd, Catalog!Files, Files
<1>7. CallFits
  BY <1>1 DEF CallFits, Catalog!Init, Catalog!Idle
<1> QED  BY <1>3, <1>4, <1>6, <1>7 DEF CatalogInv

LEMMA ReaderAsks ==
  ASSUME NFiles \in Nat, CatalogInv, Catalog!GetNextFile \/ Catalog!HasNextFile, UNCHANGED searchable
  PROVE  CatalogKept'
<1>1. CatalogTypes /\ IndexFits /\ ItemsAgree(items, told) /\ CallFits
  BY DEF CatalogInv
<1>2. delivered' = delivered /\ call.at = "idle"
  BY DEF Catalog!GetNextFile, Catalog!HasNextFile
<1>3. CASE ~probed /\ (Catalog!BeginRetrieval("get") \/ Catalog!BeginRetrieval("has"))
  BY <1>2, <1>3, Begins DEF CatalogKept
<1>4. CASE /\ probed /\ ~hasNext /\ answer' = "no more"
           /\ UNCHANGED <<fileIdx, maxIdx, items, nextItem, probed, hasNext, call, told, opened, probedAt>>
  <2>1. Current' = Current /\ Known' = Known
    BY <1>4 DEF Current, Known
  <2>2. CatalogTypes'
    BY <1>1, <1>2, <1>4 DEF CatalogTypes
  <2>3. IndexFits'
    BY <1>1, <1>2, <1>4, <2>1 DEF IndexFits
  <2>4. ItemsAgree(items, told)'
    BY <1>1, <1>2, <1>4, <2>1 DEF ItemsAgree
  <2>5. CallFits'
    BY <1>1, <1>2, <1>4, <2>1 DEF CallFits
  <2> QED  BY <2>2, <2>3, <2>4, <2>5 DEF CatalogInv, CatalogKept
<1>5. CASE /\ probed /\ hasNext /\ Catalog!MakeCurrent(items, nextItem)
           /\ strayed' = (strayed \/ Current # probedAt) /\ UNCHANGED <<nextItem, hasNext, told, probedAt>>
  <2>1. CASE Current = probedAt
    <3>1. ItemsAgree(items, told') /\ IsNext(nextItem, Current, items, told') /\ CatalogItem(nextItem)
      BY <1>1, <1>2, <1>5, <2>1 DEF CallFits, CatalogTypes
    <3>2. /\ ItemsAgree(items, told)' /\ IndexFits'
          /\ maxIdx' \in Nat /\ fileIdx' \in -1 .. maxIdx' /\ opened' \in Seq(Nat)
          /\ call' = Catalog!Idle /\ probed' = FALSE /\ answer' = "file" /\ delivered' = Known'
      BY <1>1, <1>2, <1>5, <3>1, Taken
    <3>3. DOMAIN call' = {"at", "op", "left"} /\ call'.at = "idle"
      BY <3>2 DEF Catalog!Idle
    <3>4. CatalogTypes'
      BY <1>1, <1>2, <1>5, <3>2, <3>3 DEF CatalogTypes
    <3>5. CallFits'
      BY <1>2, <1>5, <3>2, <3>3 DEF CallFits
    <3> QED  BY <3>2, <3>4, <3>5 DEF CatalogInv, CatalogKept
  <2>2. CASE Current # probedAt
    BY <1>5, <2>2 DEF CatalogKept
  <2> QED  BY <2>1, <2>2
<1> QED
  BY <1>3, <1>4, <1>5 DEF Catalog!GetNextFile, Catalog!HasNextFile, Catalog!catalog, Current

LEMMA DeliveryAnswers ==
  ASSUME NFiles \in Nat, CatalogInv, UNCHANGED searchable,
         \/ Catalog!NoMoreFiles \/ Catalog!DeliveryFails \/ Catalog!Deliver
         \/ Catalog!TransferGivesNoName
  PROVE  CatalogInv'
<1>1. CatalogTypes /\ IndexFits /\ ItemsAgree(items, told) /\ CallFits
  BY DEF CatalogInv
<1>2. Current \in Nat
  BY <1>1, LenProperties DEF CatalogTypes, Current
<1>3. CASE Catalog!NoMoreFiles
  <2>1. /\ delivered = NFiles /\ Current = NFiles /\ Known = NFiles /\ ~probed
        /\ call.op \in {"get", "has"}
    BY <1>1, <1>3 DEF CallFits, CatalogTypes, Catalog!NoMoreFiles
  <2>2. /\ call' = Catalog!Idle /\ answer' = "no more"
        /\ ~(probed' /\ hasNext') /\ {probed', hasNext'} \subseteq BOOLEAN
        /\ (probed' => probedAt' = Current) /\ probedAt' \in Nat
        /\ UNCHANGED <<fileIdx, maxIdx, items, nextItem, opened, delivered, told>>
    <3>1. UNCHANGED <<nextItem, delivered, told>> /\ Catalog!Return(call.op, items, nextItem, FALSE)
      BY <1>3 DEF Catalog!NoMoreFiles
    <3>2. {probed, hasNext} \subseteq BOOLEAN /\ probedAt \in Nat
      BY <1>1 DEF CatalogTypes
    <3>3. CASE call.op = "get"
      <4>1. /\ call' = Catalog!Idle /\ answer' = "no more"
            /\ items' = items /\ UNCHANGED <<fileIdx, maxIdx, probed, hasNext, opened, probedAt>>
        BY <3>1, <3>3 DEF Catalog!Return
      <4> QED  BY <2>1, <3>1, <3>2, <4>1
    <3>4. CASE call.op = "has"
      <4>1. /\ call' = Catalog!Idle /\ probed' = TRUE /\ hasNext' = FALSE /\ items' = items
            /\ answer' = "no more" /\ probedAt' = Current /\ UNCHANGED <<fileIdx, maxIdx, opened>>
        BY <3>1, <3>4 DEF Catalog!Return, Current
      <4> QED  BY <1>2, <3>1, <4>1
    <3> QED  BY <2>1, <3>3, <3>4
  <2>3. DOMAIN call' = {"at", "op", "left"} /\ call'.at = "idle"
    BY <2>2 DEF Catalog!Idle
  <2>4. Current' = Current /\ Known' = Known
    BY <2>2 DEF Current, Known
  <2>5. CatalogTypes'
    BY <1>1, <2>2, <2>3 DEF CatalogTypes
  <2>6. IndexFits'
    BY <1>1, <2>2, <2>4 DEF IndexFits
  <2>7. ItemsAgree(items, told)'
    BY <1>1, <2>2, <2>4 DEF ItemsAgree
  <2>8. CallFits'
    BY <2>1, <2>2, <2>3, <2>4 DEF CallFits
  <2> QED  BY <2>5, <2>6, <2>7, <2>8 DEF CatalogInv
<1>4. CASE Catalog!DeliveryFails \/ Catalog!TransferGivesNoName
  <2>1. /\ call.at \in {"delivery", "transfer"}
        /\ UNCHANGED <<fileIdx, maxIdx, items, nextItem, probed, hasNext, delivered, told, opened, answer, probedAt>>
        /\ \/ call' = [call EXCEPT !.at = "failed"]
           \/ call.at = "delivery" /\ call' = [call EXCEPT !.at = "delivery", !.left = @ - 1]
    BY <1>4 DEF Catalog!DeliveryFails, Catalog!TransferGivesNoName, Catalog!Fail, Catalog!Retry, Catalog!catalog,
              Catalog!reading
  <2>2. /\ DOMAIN call' = {"at", "op", "left"} /\ call'.op = call.op
        /\ call'.at = "failed" \/ (call.at = "delivery" /\ call'.at = "delivery")
    BY <1>1, <2>1 DEF CatalogTypes
  <2>3. Current' = Current /\ Known' = Known
    BY <2>1 DEF Current, Known
  <2>4. CatalogTypes'
    BY <1>1, <2>1, <2>2 DEF CatalogTypes
  <2>5. IndexFits'
    BY <1>1, <2>1, <2>3 DEF IndexFits
  <2>6. ItemsAgree(items, told)'
    BY <1>1, <2>1, <2>3 DEF ItemsAgree
  <2>7. CallFits'
    BY <1>1, <2>1, <2>2, <2>3 DEF CallFits
  <2> QED  BY <2>4, <2>5, <2>6, <2>7 DEF CatalogInv
<1>5. CASE Catalog!Deliver
  <2>1. /\ call.at = "delivery" /\ delivered < NFiles /\ delivered' = delivered + 1
        /\ call' = [call EXCEPT !.at = "transfer"]
        /\ UNCHANGED <<fileIdx, maxIdx, items, probed, hasNext, told, opened, answer, probedAt>>
    BY <1>5 DEF Catalog!Deliver, Catalog!reading
  <2>2. PICK c \in BOOLEAN : nextItem' = [uri |-> delivered + 1, named |-> FALSE, skipped |-> FALSE, consumed |-> c]
    BY <1>5 DEF Catalog!Deliver, Catalog!DeliveredItems
  <2>3. delivered + 1 \in Files /\ delivered' \in 0 .. NFiles /\ delivered' \in Nat
    BY <1>1, <2>1 DEF CatalogTypes, Files
  <2>4. CatalogItem(nextItem') /\ nextItem'.uri = delivered' /\ ~nextItem'.named
    BY <2>1, <2>2, <2>3 DEF CatalogItem
  <2>5. DOMAIN call' = {"at", "op", "left"} /\ call'.op = call.op /\ call'.at = "transfer"
    BY <1>1, <2>1 DEF CatalogTypes
  <2>6. Current' = Current /\ Known' = Known /\ delivered = Known /\ Current = Known /\ ~probed
    BY <1>1, <2>1 DEF Current, Known, CallFits
  <2>7. CatalogTypes'
    BY <1>1, <2>1, <2>3, <2>4, <2>5 DEF CatalogTypes
  <2>8. IndexFits'
    BY <1>1, <1>2, <2>1, <2>6 DEF IndexFits
  <2>9. told' = told /\ told[delivered'] = <<>>
    BY <1>1, <2>1, <2>3 DEF ItemsAgree, CatalogTypes
  <2>10. ItemsAgree(items, told)'
    <3>1. ASSUME NEW f \in Files, f > delivered' PROVE f > delivered
      BY <1>1, <2>1, <3>1 DEF CatalogTypes, Files
    <3> QED  BY <1>1, <2>1, <2>6, <3>1 DEF ItemsAgree
  <2>11. CallFits'
    BY <1>1, <2>1, <2>4, <2>5, <2>6, <2>9 DEF CallFits
  <2> QED  BY <2>7, <2>8, <2>10, <2>11 DEF CatalogInv
<1> QED  BY <1>3, <1>4, <1>5

LEMMA TransferAnswers ==
  ASSUME NFiles \in Nat, CatalogInv, UNCHANGED searchable, Catalog!Transfer \/ Catalog!TransferFails
  PROVE  CatalogInv'
<1> DEFINE u == nextItem.uri
<1>1. CatalogTypes /\ IndexFits /\ ItemsAgree(items, told) /\ CallFits
  BY DEF CatalogInv
<1>2. Current \in Nat
  BY <1>1, LenProperties DEF CatalogTypes, Current
<1>3. call.at = "transfer" /\ delivered' = delivered /\ CatalogItem(nextItem)
  BY <1>1 DEF Catalog!Transfer, Catalog!TransferFails, CatalogTypes
<1>4. /\ delivered = Known + 1 /\ Current = Known /\ u = delivered /\ told[u] = <<>> /\ ~probed
      /\ call.op \in {"get", "has"}
  BY <1>1, <1>3 DEF CallFits, CatalogTypes
<1>5. u \in Files /\ u \in Nat
  BY <1>1, <1>2, <1>4 DEF CatalogTypes, Files
\* The first word about the file, and the item with it.
<1>6. ASSUME NEW word \in {"transferred", "skipped"}, told' = [told EXCEPT ![u] = Append(@, word)],
             CatalogItem(nextItem'), nextItem'.uri = u,
             nextItem'.named <=> word = "transferred", word = "skipped" => nextItem'.skipped,
             ReturnsNext(call.op, items)
      PROVE  CatalogInv'
  <2> DEFINE said == Append(<<>>, word)
  <2>1. said \in Seq(Dispositions) /\ Regular(said) /\ Agrees(said, nextItem')
    BY <1>6, SaidFirst
  <2> HIDE DEF said
  <2>2. told' = [told EXCEPT ![u] = said]
    BY <1>4, <1>6 DEF said
  <2>3. told' \in [Files -> Seq(Dispositions)] /\ \A f \in Files : told'[f] = IF f = u THEN said ELSE told[f]
    BY <1>1, <1>5, <2>1, <2>2 DEF ItemsAgree
  <2>4. ASSUME NEW f \in Files PROVE Regular(told'[f]) /\ (f > delivered => told'[f] = <<>>)
    <3>1. f = u => ~(f > delivered)
      BY <1>4, <1>5
    <3> QED  BY <1>1, <2>1, <2>3, <3>1 DEF ItemsAgree
  <2>5. ASSUME fileIdx # -1, NEW i \in 0 .. maxIdx PROVE Agrees(told'[items[i].uri], items[i])
    <3>1. /\ items[i].uri = (IF searchable THEN i + 1 ELSE Current) /\ Agrees(told[items[i].uri], items[i])
          /\ items[i].uri \in Files
      BY <1>1, <2>5, KnownItems DEF ItemsAgree
    <3>2. items[i].uri # u
      BY <1>1, <1>2, <1>4, <2>5, <3>1 DEF CatalogTypes, Known
    <3> QED  BY <2>3, <3>1, <3>2
  <2>6. ItemsAgree(items, told')
    BY <1>1, <2>3, <2>4, <2>5 DEF ItemsAgree
  <2>7. IsNext(nextItem', Current, items, told')
    BY <1>2, <1>4, <1>5, <1>6, <2>1, <2>3 DEF IsNext
  <2> QED
    BY <1>1, <1>3, <1>4, <1>6, <2>6, <2>7, Returned
<1>7. CASE Catalog!Transfer
  <2>1. /\ nextItem' = [nextItem EXCEPT !.named = TRUE] /\ told' = [told EXCEPT ![u] = Append(@, "transferred")]
        /\ ReturnsNext(call.op, items)
    BY <1>7 DEF Catalog!Transfer, Catalog!Tell, ReturnsNext
  <2>2. CatalogItem(nextItem') /\ nextItem'.uri = u /\ nextItem'.named = TRUE
    BY <1>3, <2>1 DEF CatalogItem
  <2> QED  BY <1>6, <2>1, <2>2
<1>8. CASE Catalog!TransferFails
  <2>1. nextItem' = [nextItem EXCEPT !.named = FALSE, !.skipped = TRUE]
    BY <1>8 DEF Catalog!TransferFails
  <2>2. CatalogItem(nextItem') /\ nextItem'.uri = u /\ nextItem'.named = FALSE /\ nextItem'.skipped = TRUE
    BY <1>3, <2>1 DEF CatalogItem
  <2>3. CASE told' = [told EXCEPT ![u] = Append(@, "skipped")] /\ ReturnsNext(call.op, items)
    BY <1>6, <2>2, <2>3
  <2>4. CASE /\ call' = [call EXCEPT !.at = "transfer", !.left = @ - 1]
             /\ UNCHANGED <<fileIdx, maxIdx, items, probed, hasNext, told, opened, answer, probedAt>>
    <3>1. DOMAIN call' = {"at", "op", "left"} /\ call'.op = call.op /\ call'.at = "transfer"
      BY <1>1, <2>4 DEF CatalogTypes
    <3>2. Current' = Current /\ Known' = Known
      BY <2>4 DEF Current, Known
    <3>3. CatalogTypes'
      BY <1>1, <1>3, <1>4, <2>2, <2>4, <3>1 DEF CatalogTypes
    <3>4. IndexFits'
      BY <1>1, <1>3, <2>4, <3>2 DEF IndexFits
    <3>5. ItemsAgree(items, told)'
      BY <1>1, <1>3, <2>4, <3>2 DEF ItemsAgree
    <3>6. CallFits'
      BY <1>1, <1>3, <1>4, <2>2, <2>4, <3>1, <3>2 DEF CallFits
    <3> QED  BY <3>3, <3>4, <3>5, <3>6 DEF CatalogInv
  <2> QED
    BY <1>8, <2>3, <2>4 DEF Catalog!TransferFails, Catalog!Tell, Catalog!Retry, Catalog!reading, ReturnsNext
<1> QED  BY <1>7, <1>8

\* The reader goes back to an item the catalogue knows.
LEMMA GoesBack ==
  ASSUME NFiles \in Nat, CatalogInv, UNCHANGED searchable,
         Catalog!Rewind \/ \E index \in 0 .. NFiles - 1 : Catalog!RewindTo(index)
  PROVE  CatalogInv'
<1>1. CatalogTypes /\ IndexFits /\ ItemsAgree(items, told) /\ CallFits
  BY DEF CatalogInv
<1>2. Catalog!MayRewind /\ answer' = "none"
      /\ UNCHANGED <<items, nextItem, probed, hasNext, call, delivered, told, probedAt>>
  BY DEF Catalog!Rewind, Catalog!RewindTo
<1>3. call.at = "idle" /\ searchable /\ fileIdx # -1
  BY <1>2 DEF Catalog!MayRewind, Catalog!IndexEnd
<1>4. PICK index \in 0 .. maxIdx :
        /\ fileIdx' = index /\ maxIdx' = maxIdx
        /\ opened' = [i \in 1 .. index + 1 |-> items[i - 1].uri]
  <2>1. CASE Catalog!Rewind
    <3>1. fileIdx' = 0 /\ maxIdx' = maxIdx /\ opened' = <<items[0].uri>>
      BY <2>1 DEF Catalog!Rewind, Catalog!GoTo
    <3>2. <<items[0].uri>> = [i \in 1 .. 0 + 1 |-> items[i - 1].uri]
      OBVIOUS
    <3> QED  BY <1>1, <3>1, <3>2 DEF CatalogTypes
  <2>2. CASE \E index \in 0 .. NFiles - 1 : Catalog!RewindTo(index)
    BY <1>1, <2>2 DEF Catalog!RewindTo, Catalog!GoTo, CatalogTypes
  <2> QED  BY <2>1, <2>2
<1>5. index \in Nat /\ index + 1 \in Nat /\ fileIdx' # -1
  BY <1>1, <1>4 DEF CatalogTypes
<1>6. \A i \in 1 .. index + 1 : i - 1 \in 0 .. maxIdx /\ opened'[i] = i
  BY <1>1, <1>3, <1>4, <1>5 DEF ItemsAgree, CatalogTypes
<1>7. opened' \in Seq(Nat) /\ Current' = index + 1
  <2>1. opened' \in [1 .. index + 1 -> Nat]
    <3>1. DOMAIN opened' = 1 .. index + 1 /\ opened' = [i \in 1 .. index + 1 |-> opened'[i]]
      BY <1>4
    <3>2. \A i \in 1 .. index + 1 : opened'[i] \in Nat
      BY <1>6
    <3> QED  BY <3>1, <3>2
  <2> QED  BY <1>5, <2>1 DEF Current
<1>8. Known' = Known
  BY <1>1, <1>3, <1>4, <1>5 DEF Known
<1>9. CatalogTypes'
  BY <1>1, <1>2, <1>4, <1>5, <1>7 DEF CatalogTypes
<1>10. IndexFits'
  BY <1>1, <1>2, <1>3, <1>4, <1>5, <1>6, <1>7, <1>8 DEF IndexFits
<1>11. ItemsAgree(items, told)'
  BY <1>1, <1>2, <1>3, <1>4 DEF ItemsAgree
<1>12. CallFits'
  BY <1>1, <1>2, <1>3, <1>8 DEF CallFits, IsNext
<1> QED  BY <1>9, <1>10, <1>11, <1>12 DEF CatalogInv

\* What the invariant says of the reader and of what the service was told.
LEMMA CatalogServes ==
  ASSUME NFiles \in Nat, CatalogKept
  PROVE  /\ Catalog!FilesInOrder /\ Catalog!PassComplete
         /\ Catalog!DispositionsInOrder /\ Catalog!NamelessIsSkipped
<1>1. CASE strayed
  BY <1>1 DEF Catalog!FilesInOrder, Catalog!PassComplete, Catalog!DispositionsInOrder, Catalog!NamelessIsSkipped
<1>2. CASE CatalogInv
  <2>1. CatalogTypes /\ IndexFits /\ ItemsAgree(items, told) /\ CallFits
    BY <1>2 DEF CatalogInv
  <2>2. Catalog!FilesInOrder
    BY <2>1, LenProperties DEF Catalog!FilesInOrder, IndexFits, CatalogTypes, Current
  <2>3. Catalog!PassComplete
    BY <2>1 DEF Catalog!PassComplete, Catalog!Stale, CallFits, Current
  <2>4. ASSUME NEW f, NEW d PROVE Catalog!Count(f, d) = Times(told[f], d)
    <3>1. Times(told[f], d) = Cardinality({i \in DOMAIN told[f] : told[f][i] = d})
      BY DEF Times
    <3>2. Catalog!Count(f, d) = Cardinality({i \in DOMAIN told[f] : told[f][i] = d})
      BY DEF Catalog!Count, Catalog!Cardinality, Cardinality
    <3> QED  BY <3>1, <3>2
  <2>5. Catalog!DispositionsInOrder
    BY <2>1, <2>4 DEF Catalog!DispositionsInOrder, Catalog!Files, Files, ItemsAgree, Regular
  <2>6. ASSUME NEW i \in 0 .. fileIdx
        PROVE  /\ ~items[i].named => Catalog!Count(items[i].uri, "skipped") = 1
               /\ told[items[i].uri] # <<>>
    <3>1. fileIdx # -1 /\ i \in 0 .. maxIdx
      BY <2>1 DEF CatalogTypes
    <3> QED  BY <2>1, <2>4, <3>1 DEF ItemsAgree, Agrees
  <2> QED  BY <2>2, <2>3, <2>5, <2>6 DEF Catalog!NamelessIsSkipped
<1> QED  BY <1>1, <1>2 DEF CatalogKept

-----------------------------------------------------------------------------
(* The theorems.                                                            *)

\* What was taken from another place stays taken.
LEMMA StaysStrayed == strayed /\ Catalog!Next => strayed'
  BY DEF Catalog!Next, Catalog!Services, Catalog!Reader, Catalog!GetNextFile, Catalog!HasNextFile,
         Catalog!BeginRetrieval, Catalog!Return, Catalog!NoMoreFiles, Catalog!DeliveryFails, Catalog!Deliver,
         Catalog!Transfer, Catalog!TransferFails, Catalog!TransferGivesNoName, Catalog!Rewind, Catalog!RewindTo,
         Catalog!reading

LEMMA DeliveryStarts == DeliveryInit => DeliveryInv
  BY DeliveryAssumption, ProxyInit, CatalogInit
     DEF DeliveryInit, DeliveryInv, CatalogKept, ProxyAssumption, Init

LEMMA DeliveryStep == DeliveryInv /\ [DeliveryNext]_<<kind, deliveryVars>> => DeliveryInv'
<1> SUFFICES ASSUME DeliveryInv, [DeliveryNext]_<<kind, deliveryVars>> PROVE DeliveryInv'
  OBVIOUS
<1>1. ProxyAssumption /\ NFiles \in Nat
  BY DeliveryAssumption DEF ProxyAssumption
<1>2. CASE ProxyStep
  <2>1. ProxyInv'
    BY <1>1, <1>2, ProxyNext DEF ProxyStep, DeliveryInv
  <2> QED  BY <1>2, <2>1 DEF ProxyStep, DeliveryInv
<1>3. CASE CatalogStep
  <2>1. CatalogKept /\ kind = "Catalog" /\ kind' = kind /\ at' = "source" /\ Catalog!Next
    BY <1>3 DEF CatalogStep, DeliveryInv, proxyVars
  <2>2. CASE strayed
    <3>1. strayed'
      BY <2>1, <2>2, StaysStrayed
    <3> QED  BY <2>1, <3>1 DEF DeliveryInv, CatalogKept
  <2>3. CASE CatalogInv
    <3>1. CatalogKept'
      BY <1>1, <2>1, <2>3, ReaderAsks, DeliveryAnswers, TransferAnswers, GoesBack
         DEF Catalog!Next, Catalog!Services, Catalog!Reader, CatalogKept
    <3> QED  BY <2>1, <3>1 DEF DeliveryInv
  <2> QED  BY <2>1, <2>2, <2>3 DEF CatalogKept
<1>4. CASE UNCHANGED <<kind, deliveryVars>>
  <2>1. /\ kind' = kind /\ UNCHANGED <<item, at, given>> /\ UNCHANGED <<delivered, told>>
        /\ UNCHANGED <<searchable, fileIdx, maxIdx, items, nextItem, probed, hasNext, call, opened, answer, probedAt, strayed, rewinds>>
    BY <1>4 DEF deliveryVars, proxyVars, catalogVars
  <2>2. ProxyInv' <=> ProxyInv
    BY <2>1 DEF ProxyInv, ItemTypes, ToldFits, Said, SaidOfServed, Skipped, ItemFits, GivenFits
  <2>3. CatalogKept' <=> CatalogKept
    BY <2>1 DEF CatalogKept, CatalogInv, CatalogTypes, IndexFits, ItemsAgree, CallFits, IsNext, Current, Known
  <2> QED  BY <2>1, <2>2, <2>3 DEF DeliveryInv
<1> QED  BY <1>2, <1>3, <1>4 DEF DeliveryNext

LEMMA DeliveryServes == DeliveryInv => ServedInOrder /\ OneOutcome
<1>1. ProxyAssumption /\ NFiles \in Nat
  BY DeliveryAssumption DEF ProxyAssumption
<1> SUFFICES ASSUME DeliveryInv PROVE ServedInOrder /\ OneOutcome
  OBVIOUS
<1>2. CASE kind = "Proxy"
  BY <1>1, <1>2, ProxyServes DEF DeliveryInv, ServedInOrder
<1>3. CASE kind # "Proxy"
  <2>1. OneOutcome
    BY <1>3 DEF DeliveryInv, OneOutcome
  <2> QED  BY <1>1, <1>3, <2>1, CatalogServes DEF DeliveryInv, ServedInOrder
<1> QED  BY <1>2, <1>3

\* However the services fail and the reader probes and goes back, before or after a
\* probe, the source is given the files in the order of delivery, each once and none
\* left out, and what the catalogue tells the service of a file agrees with what
\* happened, as long as no file is taken elsewhere than the reader probed for it; and
\* a wrong "no more files" is the answer of a probe made elsewhere
\* (InputFileCatalog::getNextFile and rewindTo, FileServiceProxy::next).
THEOREM FilesServedInOrder == DeliverySpec => []ServedInOrder
<1>1. DeliveryInit => DeliveryInv
  BY DeliveryStarts
<1>2. DeliveryInv /\ [DeliveryNext]_<<kind, deliveryVars>> => DeliveryInv'
  BY DeliveryStep
<1>3. DeliveryInv => ServedInOrder
  BY DeliveryServes
<1> QED  BY <1>1, <1>2, <1>3, PTL DEF DeliverySpec

\* However the job of a proxy ends, by an exception too, each file that was
\* delivered has exactly one outcome (~FileServiceProxy); of what the catalogue
\* reports this says nothing.
THEOREM EachFileOneOutcome == DeliverySpec => []OneOutcome
<1>1. DeliveryInit => DeliveryInv
  BY DeliveryStarts
<1>2. DeliveryInv /\ [DeliveryNext]_<<kind, deliveryVars>> => DeliveryInv'
  BY DeliveryStep
<1>3. DeliveryInv => OneOutcome
  BY DeliveryServes
<1> QED  BY <1>1, <1>2, <1>3, PTL DEF DeliverySpec

-----------------------------------------------------------------------------
(* The jobs.                                                               *)

\* The theorems about any job, of the two jobs of MCJob.
FailingJob == INSTANCE Job_proof WITH
  Cycle <- 3, RestoreState <- FALSE, TriggerWorkers <- {"producer"},
  EndWorkers <- {"output", "analyzer"}, Labels <- {"a"}, Toggles <- FALSE,
  EventLists <- {{}}, StateFile <- <<>>, Ignored <- {}, MaxThrows <- 3

RestoringJob == INSTANCE Job_proof WITH
  Cycle <- 3, RestoreState <- TRUE, TriggerWorkers <- {"producer"},
  EndWorkers <- {"output"}, Labels <- {"a", "b"}, Toggles <- TRUE,
  EventLists <- SomeLists, StateFile <- <<State("a", 1)>>, Ignored <- {"RANDOM"}, MaxThrows <- 1

-----------------------------------------------------------------------------
\* The two jobs are those of MCJob.

LEMMA FailingAssumption == FailingJob!WorkersAssumption
BY DEF FailingJob!WorkersAssumption

LEMMA RestoringAssumption == RestoringJob!WorkersAssumption /\ RestoringJob!ListsAssumption
<1>1. RestoringJob!WorkersAssumption
  BY DEF RestoringJob!WorkersAssumption
<1>2. RestoringJob!ListsAssumption
  BY DEF RestoringJob!ListsAssumption, SomeLists, State
<1> QED BY <1>1, <1>2

LEMMA FailingStarts == Failing!Init => FailingJob!Init
  BY DEF Failing!Init, Failing!Workers, Failing!NewService, Failing!NoList,
       FailingJob!Init, FailingJob!Workers, FailingJob!NewService, FailingJob!NoList

LEMMA FailingSteps == Failing!Next => FailingJob!Next
  BY ZenonT(60) DEF Failing!Next, Failing!Step, Failing!NewEngine, Failing!DrawNumber,
       Failing!SaveSnapshot, Failing!SetEnabled, Failing!Signal, Failing!BeginSource,
       Failing!Workers, Failing!BeginModule, Failing!PostBegin, Failing!MakeMachine,
       Failing!NextItem, Failing!OtherItem, Failing!StartEvent, Failing!EndEvent,
       Failing!Abort, Failing!RunEnds, Failing!Rethrown, Failing!EndMachine,
       Failing!EndModule, Failing!EndPathModules, Failing!EndSource, Failing!PostEnd,
       Failing!CreateEngine, Failing!jobVars, Failing!workerVars, Failing!signalVars,
       Failing!Established, Failing!Draw, Failing!NoList, Failing!rngVars,
       Failing!GivesUp, Failing!PostBeginJob, Failing!Stops, Failing!MayThrow,
       Failing!Unwinds, Failing!CountItem, Failing!PreProcessEvent, Failing!SaveToFile,
       Failing!Collects, Failing!PostEndJob, Failing!Extended, Failing!RestoreFromFile,
       Failing!RestoreSnapshot, Failing!TakeSnapshot, Failing!Listed, Failing!Restored,
       Failing!RefusedFromFile, Failing!RefusedFromEvent, Failing!SetToSeq,
       Failing!IsInjective, Failing!Max, Failing!Min, Failing!Cardinality, Failing!Assert,
       Failing!Category, FailingJob!Category,
       FailingJob!Next, FailingJob!Step, FailingJob!NewEngine, FailingJob!DrawNumber,
       FailingJob!SaveSnapshot, FailingJob!SetEnabled, FailingJob!Signal,
       FailingJob!BeginSource, FailingJob!Workers, FailingJob!BeginModule,
       FailingJob!PostBegin, FailingJob!MakeMachine, FailingJob!NextItem,
       FailingJob!OtherItem, FailingJob!StartEvent, FailingJob!EndEvent, FailingJob!Abort,
       FailingJob!RunEnds, FailingJob!Rethrown, FailingJob!EndMachine,
       FailingJob!EndModule, FailingJob!EndPathModules, FailingJob!EndSource,
       FailingJob!PostEnd, FailingJob!CreateEngine, FailingJob!jobVars,
       FailingJob!workerVars, FailingJob!signalVars, FailingJob!Established,
       FailingJob!Draw, FailingJob!NoList, FailingJob!rngVars, FailingJob!GivesUp,
       FailingJob!PostBeginJob, FailingJob!Stops, FailingJob!MayThrow, FailingJob!Unwinds,
       FailingJob!CountItem, FailingJob!PreProcessEvent, FailingJob!SaveToFile,
       FailingJob!Collects, FailingJob!PostEndJob, FailingJob!Extended,
       FailingJob!RestoreFromFile, FailingJob!RestoreSnapshot, FailingJob!TakeSnapshot,
       FailingJob!Listed, FailingJob!Restored, FailingJob!RefusedFromFile,
       FailingJob!RefusedFromEvent, FailingJob!SetToSeq, FailingJob!IsInjective,
       FailingJob!Max, FailingJob!Min, FailingJob!Cardinality, FailingJob!Assert

LEMMA RestoringStarts == Restoring!Init => RestoringJob!Init
  BY ZenonT(60) DEF Restoring!Init, Restoring!Workers, Restoring!NewService, Restoring!NoList,
       RestoringJob!Init, RestoringJob!Workers, RestoringJob!NewService,
       RestoringJob!NoList

\* The event starts as it does in the other job.
LEMMA RestoringEvents ==
  ASSUME NEW events, Restoring!StartEvent(events)
  PROVE  RestoringJob!StartEvent(events)
<1>1. ASSUME NEW d PROVE Restoring!Listed(d) = RestoringJob!Listed(d)
  BY DEF Restoring!Listed, Restoring!SetToSeq, Restoring!IsInjective, Restoring!Cardinality,
         RestoringJob!Listed, RestoringJob!SetToSeq, RestoringJob!IsInjective, RestoringJob!Cardinality
<1>2. ASSUME NEW r PROVE Restoring!TakeSnapshot(r) = RestoringJob!TakeSnapshot(r)
  BY <1>1 DEF Restoring!TakeSnapshot, RestoringJob!TakeSnapshot
<1>3. ASSUME NEW r, NEW list, NEW refused, NEW how
      PROVE  Restoring!Restored(r, list, refused, how) = RestoringJob!Restored(r, list, refused, how)
  BY DEF Restoring!Restored, Restoring!Established, Restoring!Max,
         RestoringJob!Restored, RestoringJob!Established, RestoringJob!Max
<1>4. ASSUME NEW r, NEW e
      PROVE  Restoring!RefusedFromEvent(r, e) = RestoringJob!RefusedFromEvent(r, e)
  BY DEF Restoring!RefusedFromEvent, Restoring!Established,
         RestoringJob!RefusedFromEvent, RestoringJob!Established
<1>5. ASSUME NEW r
      PROVE  Restoring!RestoreSnapshot(r, events) = RestoringJob!RestoreSnapshot(r, events)
  BY <1>3, <1>4 DEF Restoring!RestoreSnapshot, RestoringJob!RestoreSnapshot
<1>6. Restoring!PreProcessEvent(rng, events) = RestoringJob!PreProcessEvent(rng, events)
  BY <1>2, <1>5 DEF Restoring!PreProcessEvent, RestoringJob!PreProcessEvent
<1>7. Restoring!CountItem => RestoringJob!CountItem
  BY DEF Restoring!CountItem, Restoring!Min, RestoringJob!CountItem, RestoringJob!Min
<1> QED BY <1>6, <1>7, ZenonT(60)
       DEF Restoring!StartEvent, Restoring!Category, Restoring!NoList,
           Restoring!signalVars, Restoring!workerVars,
           RestoringJob!StartEvent, RestoringJob!Category, RestoringJob!NoList,
           RestoringJob!signalVars, RestoringJob!workerVars

LEMMA RestoringSteps == Restoring!Next => RestoringJob!Next
  BY RestoringEvents, ZenonT(60) DEF Restoring!Next, Restoring!Step, Restoring!NewEngine, Restoring!DrawNumber,
       Restoring!SaveSnapshot, Restoring!SetEnabled, Restoring!Signal,
       Restoring!BeginSource, Restoring!Workers, Restoring!BeginModule,
       Restoring!PostBegin, Restoring!MakeMachine, Restoring!NextItem,
       Restoring!OtherItem, Restoring!EndEvent, Restoring!Abort,
       Restoring!RunEnds, Restoring!Rethrown, Restoring!EndMachine, Restoring!EndModule,
       Restoring!EndPathModules, Restoring!EndSource, Restoring!PostEnd,
       Restoring!CreateEngine, Restoring!jobVars, Restoring!workerVars,
       Restoring!signalVars, Restoring!Established, Restoring!Draw, Restoring!NoList,
       Restoring!rngVars, Restoring!GivesUp, Restoring!PostBeginJob, Restoring!Stops,
       Restoring!MayThrow, Restoring!Unwinds, Restoring!CountItem,
       Restoring!SaveToFile, Restoring!Collects,
       Restoring!PostEndJob, Restoring!Extended, Restoring!RestoreFromFile,
       Restoring!TakeSnapshot, Restoring!Listed,
       Restoring!Restored, Restoring!RefusedFromFile,
       Restoring!SetToSeq, Restoring!IsInjective, Restoring!Max, Restoring!Min,
       Restoring!Cardinality, Restoring!Assert,
       RestoringJob!Next, RestoringJob!Step,
       RestoringJob!NewEngine, RestoringJob!DrawNumber, RestoringJob!SaveSnapshot,
       RestoringJob!SetEnabled, RestoringJob!Signal, RestoringJob!BeginSource,
       RestoringJob!Workers, RestoringJob!BeginModule, RestoringJob!PostBegin,
       RestoringJob!MakeMachine, RestoringJob!NextItem, RestoringJob!OtherItem,
       RestoringJob!EndEvent, RestoringJob!Abort,
       RestoringJob!RunEnds, RestoringJob!Rethrown, RestoringJob!EndMachine,
       RestoringJob!EndModule, RestoringJob!EndPathModules, RestoringJob!EndSource,
       RestoringJob!PostEnd, RestoringJob!CreateEngine, RestoringJob!jobVars,
       RestoringJob!workerVars, RestoringJob!signalVars, RestoringJob!Established,
       RestoringJob!Draw, RestoringJob!NoList, RestoringJob!rngVars, RestoringJob!GivesUp,
       RestoringJob!PostBeginJob, RestoringJob!Stops, RestoringJob!MayThrow,
       RestoringJob!Unwinds, RestoringJob!CountItem,
       RestoringJob!SaveToFile, RestoringJob!Collects, RestoringJob!PostEndJob,
       RestoringJob!Extended, RestoringJob!RestoreFromFile,
       RestoringJob!TakeSnapshot, RestoringJob!Listed, RestoringJob!Restored,
       RestoringJob!RefusedFromFile, RestoringJob!SetToSeq,
       RestoringJob!IsInjective, RestoringJob!Max, RestoringJob!Min,
       RestoringJob!Cardinality, RestoringJob!Assert

LEMMA FailingEnds ==
  /\ FailingJob!BeginsAreEnded => Failing!BeginsAreEnded
  /\ FailingJob!MachineDestroyed => Failing!MachineDestroyed
  /\ FailingJob!LeavesTerminated => Failing!LeavesTerminated
  /\ FailingJob!ReturnCodeTells => Failing!ReturnCodeTells
<1>1. FailingJob!BeginsAreEnded => Failing!BeginsAreEnded
  BY DEF Failing!BeginsAreEnded, Failing!Workers, Failing!Gone, Failing!JobBegan,
       FailingJob!BeginsAreEnded, FailingJob!Workers, FailingJob!Gone, FailingJob!JobBegan
<1>2. FailingJob!MachineDestroyed => Failing!MachineDestroyed
  BY DEF Failing!MachineDestroyed, Failing!Gone, FailingJob!MachineDestroyed,
       FailingJob!Gone
<1>3. FailingJob!LeavesTerminated => Failing!LeavesTerminated
  BY DEF Failing!LeavesTerminated, FailingJob!LeavesTerminated
<1>4. FailingJob!ReturnCodeTells => Failing!ReturnCodeTells
  BY DEF Failing!ReturnCodeTells, Failing!Gone, FailingJob!ReturnCodeTells,
       FailingJob!Gone
<1> QED BY <1>1, <1>2, <1>3, <1>4

LEMMA FailingSaves == FailingJob!SavedIsUsed => Failing!SavedIsUsed
  BY DEF Failing!SavedIsUsed, Failing!NoList, Failing!Listed, Failing!SetToSeq,
       Failing!IsInjective, Failing!Cardinality, Failing!Restores, Failing!StatesOf,
       FailingJob!SavedIsUsed, FailingJob!NoList, FailingJob!Listed, FailingJob!SetToSeq,
       FailingJob!IsInjective, FailingJob!Cardinality, FailingJob!Restores, FailingJob!StatesOf

LEMMA RestoringSaves == RestoringJob!SavedIsUsed => Restoring!SavedIsUsed
  BY DEF Restoring!SavedIsUsed, Restoring!NoList, Restoring!Listed, Restoring!SetToSeq,
       Restoring!IsInjective, Restoring!Cardinality, Restoring!Restores, Restoring!StatesOf,
       RestoringJob!SavedIsUsed, RestoringJob!NoList, RestoringJob!Listed, RestoringJob!SetToSeq,
       RestoringJob!IsInjective, RestoringJob!Cardinality, RestoringJob!Restores,
       RestoringJob!StatesOf

LEMMA RestoringReproduces == RestoringJob!EventReproduced => Restoring!EventReproduced
  BY DEF Restoring!EventReproduced, Restoring!Established, RestoringJob!EventReproduced,
       RestoringJob!Established

LEMMA RestoringKeeps == RestoringJob!KeepsFileEngines => Restoring!KeepsFileEngines
  BY DEF Restoring!KeepsFileEngines, Restoring!Established, RestoringJob!KeepsFileEngines,
       RestoringJob!Established

-----------------------------------------------------------------------------
(* The inductive invariant.                                                 *)

FailingInv == FailingJob!IInv /\ FailingJob!NoneDisabled /\ FailingJob!SnapshotInv
RestoringInv == RestoringJob!IInv /\ RestoringJob!RestoredInv /\ RestoringJob!SnapshotInv

JobInv ==
  /\ DeliveryInv
  /\ kind = "Failing" => FailingInv
  /\ kind = "Restoring" => RestoringInv

LEMMA FailingStart == Failing!Init => FailingInv
<1> SUFFICES ASSUME Failing!Init PROVE FailingInv
  OBVIOUS
<1>1. FailingJob!Init
  BY FailingStarts
<1>2. FailingJob!IInv
  BY <1>1, FailingJob!InitIInv
<1>3. FailingJob!NoneDisabled
  BY <1>1, FailingJob!NoneDisabledFirst
<1>4. FailingJob!SnapshotInv
  BY <1>1, FailingJob!SnapshotStarts
<1> QED BY <1>2, <1>3, <1>4 DEF FailingInv

LEMMA RestoringStart == Restoring!Init => RestoringInv
<1> SUFFICES ASSUME Restoring!Init PROVE RestoringInv
  OBVIOUS
<1>1. RestoringJob!Init
  BY RestoringStarts
<1>2. RestoringJob!IInv
  BY <1>1, RestoringJob!InitIInv
<1>3. RestoringJob!RestoredInv
  BY <1>1, RestoringJob!RestoredStarts
<1>4. RestoringJob!SnapshotInv
  BY <1>1, RestoringJob!SnapshotStarts
<1> QED BY <1>2, <1>3, <1>4 DEF RestoringInv

LEMMA FailingGoesOn ==
  ASSUME FailingInv, [FailingJob!Next]_(FailingJob!vars)
  PROVE  FailingInv'
<1>1. FailingJob!IInv /\ FailingJob!NoneDisabled /\ FailingJob!SnapshotInv
  BY DEF FailingInv
<1>2. (FailingJob!IInv)'
  BY <1>1, FailingAssumption, FailingJob!StepIInv
<1>3. (FailingJob!NoneDisabled)'
  BY <1>1, FailingJob!DisabledByNone
<1>4. (FailingJob!SnapshotInv)'
  BY <1>1, FailingJob!SnapshotStep
<1> QED BY <1>2, <1>3, <1>4 DEF FailingInv

LEMMA RestoringGoesOn ==
  ASSUME RestoringInv, [RestoringJob!Next]_(RestoringJob!vars)
  PROVE  RestoringInv'
<1>1. RestoringJob!IInv /\ RestoringJob!RestoredInv /\ RestoringJob!SnapshotInv
  BY DEF RestoringInv
<1>2. (RestoringJob!IInv)'
  BY <1>1, RestoringAssumption, RestoringJob!StepIInv
<1>3. (RestoringJob!RestoredInv)'
  BY <1>1, RestoringAssumption, RestoringJob!RestoredStep
<1>4. (RestoringJob!SnapshotInv)'
  BY <1>1, RestoringJob!SnapshotStep
<1> QED BY <1>2, <1>3, <1>4 DEF RestoringInv

\* A step of a behaviour of one kind is one of that job.
LEMMA KindOfStep ==
  ASSUME [JobNext]_<<kind, allVars>>
  PROVE  /\ kind' = kind
         /\ [DeliveryNext]_<<kind, deliveryVars>>
         /\ kind = "Failing" => Failing!Next \/ UNCHANGED jobVars
         /\ kind = "Restoring" => Restoring!Next \/ UNCHANGED jobVars
<1>1. CASE UNCHANGED <<kind, allVars>>
  BY <1>1 DEF allVars
<1>2. CASE Delivering(DeliveryNext)
  BY <1>2 DEF Delivering, DeliveryNext, ProxyStep, CatalogStep
<1>3. CASE FailingStep
  BY <1>3 DEF FailingStep
<1>4. CASE RestoringStep
  BY <1>4 DEF RestoringStep
<1>5. CASE RegisteringStep \/ ServingStep \/ ConfiguringStep \/ WatchedStep
  BY <1>5 DEF RegisteringStep, ServingStep, ConfiguringStep, WatchedStep
<1> QED BY <1>1, <1>2, <1>3, <1>4, <1>5 DEF JobNext

LEMMA JobStarts == JobInit => JobInv
<1> SUFFICES ASSUME JobInit PROVE JobInv
  OBVIOUS
<1>1. DeliveryInv
  BY DeliveryStarts DEF JobInit
<1>2. kind = "Failing" => Failing!Init
  BY DEF JobInit
<1>3. kind = "Restoring" => Restoring!Init
  BY DEF JobInit
<1> QED BY <1>1, <1>2, <1>3, FailingStart, RestoringStart DEF JobInv

LEMMA JobSteps == JobInv /\ [JobNext]_<<kind, allVars>> => JobInv'
<1> SUFFICES ASSUME JobInv, [JobNext]_<<kind, allVars>> PROVE JobInv'
  OBVIOUS
<1>1. kind' = kind /\ [DeliveryNext]_<<kind, deliveryVars>>
  BY KindOfStep
<1>2. DeliveryInv'
  BY <1>1, DeliveryStep DEF JobInv
<1>3. ASSUME kind = "Failing" PROVE FailingInv'
  <2>1. [FailingJob!Next]_(FailingJob!vars)
    BY <1>3, KindOfStep, FailingSteps
       DEF jobVars, FailingJob!vars, FailingJob!jobVars, FailingJob!workerVars,
           FailingJob!rngVars, FailingJob!signalVars
  <2> QED BY <1>3, <2>1, FailingGoesOn DEF JobInv
<1>4. ASSUME kind = "Restoring" PROVE RestoringInv'
  <2>1. [RestoringJob!Next]_(RestoringJob!vars)
    BY <1>4, KindOfStep, RestoringSteps
       DEF jobVars, RestoringJob!vars, RestoringJob!jobVars, RestoringJob!workerVars,
           RestoringJob!rngVars, RestoringJob!signalVars
  <2> QED BY <1>4, <2>1, RestoringGoesOn DEF JobInv
<1> QED BY <1>1, <1>2, <1>3, <1>4 DEF JobInv

LEMMA JobKeepsInv == JobSpec => []JobInv
BY JobStarts, JobSteps, PTL DEF JobSpec

-----------------------------------------------------------------------------
\* In the job that fails in any way: endJob() is called once of every module whose beginJob()
\* returned, the machine is gone at the end and the return code tells of exceptions.
THEOREM JobsEndTheirModules == JobSpec => []BeginsAreEnded
<1>1. JobInv => BeginsAreEnded
  <2> SUFFICES ASSUME JobInv, kind = "Failing"
               PROVE  /\ Failing!BeginsAreEnded /\ Failing!MachineDestroyed
                      /\ Failing!LeavesTerminated /\ Failing!ReturnCodeTells
    BY DEF BeginsAreEnded
  <2>1. FailingJob!IInv /\ FailingJob!NoneDisabled
    BY DEF JobInv, FailingInv
  <2> QED BY <2>1, FailingJob!JobEnds, FailingEnds
<1> QED BY <1>1, JobKeepsInv, PTL

\* What RandomNumberSaver puts into an event are the states it started from, but of the engines
\* restored from that event; an event starts from the states it holds, and no event changes an
\* engine that was read from a file.
THEOREM JobsReproduceStates == JobSpec => StatesReproduced
<1>1. JobInv /\ JobInv' /\ [JobNext]_<<kind, allVars>> =>
        [/\ kind = "Failing" => Failing!SavedIsUsed'
         /\ kind = "Restoring" =>
              Restoring!SavedIsUsed' /\ Restoring!EventReproduced' /\ Restoring!KeepsFileEngines]_allVars
  <2> SUFFICES ASSUME JobInv, JobInv', [JobNext]_<<kind, allVars>>
               PROVE  /\ kind = "Failing" => Failing!SavedIsUsed'
                      /\ kind = "Restoring" =>
                           /\ Restoring!SavedIsUsed' /\ Restoring!EventReproduced'
                           /\ Restoring!KeepsFileEngines
    OBVIOUS
  <2>1. kind' = kind
    BY KindOfStep
  <2>2. ASSUME kind = "Failing" PROVE Failing!SavedIsUsed'
    <3>1. (FailingJob!SnapshotInv)'
      BY <2>1, <2>2 DEF JobInv, FailingInv
    <3>2. (FailingJob!SnapshotInv => FailingJob!SavedIsUsed)'
      BY FailingJob!SnapshotServes, PTL
    <3>3. (FailingJob!SavedIsUsed => Failing!SavedIsUsed)'
      BY FailingSaves, PTL
    <3> QED BY <3>1, <3>2, <3>3
  <2>3. ASSUME kind = "Restoring" PROVE Restoring!EventReproduced'
    <3>1. (RestoringJob!RestoredInv)'
      BY <2>1, <2>3 DEF JobInv, RestoringInv
    <3>2. (RestoringJob!RestoredInv => RestoringJob!EventReproduced)'
      BY RestoringJob!RestoredServes, PTL
    <3>3. (RestoringJob!EventReproduced => Restoring!EventReproduced)'
      BY RestoringReproduces, PTL
    <3> QED BY <3>1, <3>2, <3>3
  <2>5. ASSUME kind = "Restoring" PROVE Restoring!SavedIsUsed'
    <3>1. (RestoringJob!SnapshotInv)'
      BY <2>1, <2>5 DEF JobInv, RestoringInv
    <3>2. (RestoringJob!SnapshotInv => RestoringJob!SavedIsUsed)'
      BY RestoringJob!SnapshotServes, PTL
    <3>3. (RestoringJob!SavedIsUsed => Restoring!SavedIsUsed)'
      BY RestoringSaves, PTL
    <3> QED BY <3>1, <3>2, <3>3
  <2>4. ASSUME kind = "Restoring" PROVE Restoring!KeepsFileEngines
    <3>1. RestoringJob!IInv
      BY <2>4 DEF JobInv, RestoringInv
    <3>2. [RestoringJob!Next]_(RestoringJob!vars)
      BY <2>4, KindOfStep, RestoringSteps
         DEF jobVars, RestoringJob!vars, RestoringJob!jobVars, RestoringJob!workerVars,
             RestoringJob!rngVars, RestoringJob!signalVars
    <3> QED BY <3>1, <3>2, RestoringAssumption, RestoringJob!FileEnginesStep, RestoringKeeps
  <2> QED BY <2>2, <2>3, <2>4, <2>5
<1> QED BY <1>1, JobKeepsInv, PTL DEF JobSpec, StatesReproduced

\* Of all jobs composed, as of the delivery by itself: the files arrive in
\* order, each once and with one outcome.
THEOREM JobsServeInOrder == JobSpec => [](ServedInOrder /\ OneOutcome)
<1>1. JobInv => ServedInOrder /\ OneOutcome
  BY DeliveryServes DEF JobInv
<1> QED BY <1>1, JobKeepsInv, PTL
=============================================================================
