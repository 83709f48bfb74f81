-------------------------- MODULE FileServiceProxy --------------------------
(***************************************************************************)
(* How a source made from the Source template gets its input files         *)
(* (FileServiceProxy): one at a time, from the delivery and the transfer   *)
(* service, with a number of attempts for each of the two phases; what     *)
(* became of each file is reported when the next one is asked for or when  *)
(* the proxy is destroyed.                                                 *)
(***************************************************************************)
EXTENDS Integers, Sequences, FiniteSets

CONSTANTS NFiles,             \* the files the service delivers are 1 .. NFiles
          AttemptsPerPhase

ProxyAssumption == NFiles \in Nat /\ AttemptsPerPhase \in Nat

Files == 1 .. NFiles
NoURI == 0

\* currentItem_: the answers of the services, and the attempts that remain.
FileEntity == [uri |-> NoURI, uriStatus |-> "pending", ftStatus |-> "pending", left |-> AttemptsPerPhase]

VARIABLES item,        \* currentItem_
          at,          \* "source" while the source has control, else the service asked,
                       \* "thrown" after an exception, "gone" after the destructor
          delivered,   \* how many files the service has delivered
          told,        \* what the service was told of each file
          given        \* the files the source was given
vars == <<item, at, delivered, told, given>>

Init ==
  /\ item = FileEntity /\ at = "source"
  /\ delivered = 0
  /\ told = [f \in Files |-> <<>>]
  /\ given = <<>>

Tell(f, disposition) == told' = [told EXCEPT ![f] = Append(@, disposition)]

\* next(): the source is done with the current file.
NextFile ==
  /\ at = "source"
  /\ IF item.ftStatus = "success" THEN Tell(item.uri, "consumed") ELSE UNCHANGED told
  /\ item' = FileEntity /\ at' = "delivery"
  /\ UNCHANGED <<delivered, given>>

\* Each phase throws when its attempts are used up.
GiveUp ==
  /\ at \in {"delivery", "transfer"} /\ item.left = 0
  /\ at' = "thrown"
  /\ UNCHANGED <<item, delivered, told, given>>

-----------------------------------------------------------------------------
\* obtainURI_: "try again" and "unavailable" are retried, as is "pending".

Delivered ==
  /\ at = "delivery" /\ item.left > 0 /\ delivered < NFiles
  /\ delivered' = delivered + 1
  /\ item' = [item EXCEPT !.uri = delivered', !.uriStatus = "success", !.left = AttemptsPerPhase]
  /\ at' = "transfer"
  /\ UNCHANGED <<told, given>>

NoMoreFiles ==
  /\ at = "delivery" /\ item.left > 0 /\ delivered = NFiles
  /\ item' = [item EXCEPT !.uriStatus = "no more", !.left = @ - 1]
  /\ at' = "source" /\ given' = Append(given, NoURI)
  /\ UNCHANGED <<delivered, told>>

DeliveryLater ==
  /\ at = "delivery" /\ item.left > 0
  /\ \E status \in {"try again", "unavailable"} : item' = [item EXCEPT !.uriStatus = status, !.left = @ - 1]
  /\ UNCHANGED <<at, delivered, told, given>>

DeliveryError ==
  /\ at = "delivery" /\ item.left > 0
  /\ item' = [item EXCEPT !.uriStatus = "error", !.left = @ - 1]
  /\ at' = "thrown"
  /\ UNCHANGED <<delivered, told, given>>

-----------------------------------------------------------------------------
\* obtainFileFromURI_: only "unavailable" is retried.

Transferred ==
  /\ at = "transfer" /\ item.left > 0
  /\ item' = [item EXCEPT !.ftStatus = "success", !.left = @ - 1]
  /\ Tell(item.uri, "transferred")
  /\ at' = "source" /\ given' = Append(given, item.uri)
  /\ UNCHANGED delivered

TransferLater ==
  /\ at = "transfer" /\ item.left > 0
  /\ item' = [item EXCEPT !.ftStatus = "unavailable", !.left = @ - 1]
  /\ UNCHANGED <<at, delivered, told, given>>

TransferError ==
  /\ at = "transfer" /\ item.left > 0
  /\ item' = [item EXCEPT !.ftStatus = "error", !.left = @ - 1]
  /\ at' = "thrown"
  /\ UNCHANGED <<delivered, told, given>>

-----------------------------------------------------------------------------
\* The end of the job, by an exception or because the source is told to stop.

\* Faulty: the end of the job counts as the end of the file.
DestroyLastComplete ==
  /\ at \in {"source", "thrown"}
  /\ IF item.uri # NoURI /\ item.ftStatus = "success" THEN Tell(item.uri, "consumed") ELSE UNCHANGED told
  /\ at' = "gone"
  /\ UNCHANGED <<item, delivered, given>>

Destroy ==
  /\ at \in {"source", "thrown"}
  /\ IF item.uri = NoURI THEN UNCHANGED told
     ELSE Tell(item.uri, IF item.ftStatus = "success" THEN "incomplete" ELSE "skipped")
  /\ at' = "gone"
  /\ UNCHANGED <<item, delivered, given>>

\* The source asks no more once it was told that there are no more files.
SourceAsks == (\A i \in DOMAIN given : given[i] # NoURI) /\ NextFile

Services ==
  \/ GiveUp
  \/ Delivered \/ NoMoreFiles \/ DeliveryLater \/ DeliveryError
  \/ Transferred \/ TransferLater \/ TransferError

Next == SourceAsks \/ Services \/ Destroy

\* The services answer: the calls are synchronous.
Spec == Init /\ [][Next]_vars /\ WF_vars(Services)

-----------------------------------------------------------------------------
TypeOK ==
  /\ item.uri \in Files \union {NoURI} /\ item.left \in 0 .. AttemptsPerPhase
  /\ item.uriStatus \in {"pending", "try again", "unavailable", "success", "no more", "error"}
  /\ item.ftStatus \in {"pending", "unavailable", "success", "error"}
  /\ at \in {"source", "delivery", "transfer", "thrown", "gone"}
  /\ delivered \in 0 .. NFiles

\* At the end of the job each delivered file has one outcome, however the job
\* ends: consumed or incomplete if the source had it, skipped if it never did;
\* and "consumed" is said only of a file the source went past.
OneOutcome ==
  at = "gone" =>
    \A f \in 1 .. delivered :
      told[f] = IF f \notin {given[i] : i \in DOMAIN given} THEN <<"skipped">>
                ELSE IF f = item.uri THEN <<"transferred", "incomplete">> ELSE <<"transferred", "consumed">>

\* The source is given the files in the order of delivery with none left out;
\* a file that cannot be had is an exception and never passed over.
FilesInOrder ==
  /\ \A i \in DOMAIN given : given[i] = IF i <= NFiles THEN i ELSE NoURI
  /\ at = "source" => 1 .. delivered \subseteq {given[i] : i \in DOMAIN given}
=============================================================================
