----------------------------- MODULE MCDelivery -----------------------------
(***************************************************************************)
(* The two ways to get input files from the delivery and transfer          *)
(* services: FileServiceProxy, which this module extends, and the          *)
(* catalogue of RootInput, with a searchable delivery service and without. *)
(* A behaviour is that of the client its kind names; the variables of the  *)
(* others keep their initial values.                                       *)
(***************************************************************************)
EXTENDS FileServiceProxy

CONSTANTS Attempts,     \* the attempts of an operation of the catalogue
          MaxRewinds    \* bound on the rewinds of a reader

VARIABLES kind,
          searchable, fileIdx, maxIdx, items, nextItem, probed, hasNext, call, opened, answer, probedAt, strayed, rewinds

Catalog == INSTANCE InputFileCatalog WITH
  LeftOver <- BOOLEAN, TransfersFail <- TRUE

ASSUME DeliveryAssumption == ProxyAssumption /\ Catalog!CatalogAssumption

catalogVars == <<searchable, fileIdx, maxIdx, items, nextItem, probed, hasNext, call, opened, answer, probedAt, strayed, rewinds>>
proxyVars == <<item, at, given>>
deliveryVars == <<proxyVars, delivered, told, catalogVars>>

DeliveryInit == Init /\ Catalog!Init

ProxyStep == kind = "Proxy" /\ Next /\ UNCHANGED <<kind, catalogVars>>
CatalogStep == kind = "Catalog" /\ Catalog!Next /\ UNCHANGED <<kind, proxyVars>>

DeliveryNext == ProxyStep \/ CatalogStep

\* The composition by itself, of any client.
DeliverySpec == DeliveryInit /\ [][DeliveryNext]_<<kind, deliveryVars>>

\* The services answer: their calls are synchronous.
ServicesAnswer ==
  \/ kind = "Proxy" /\ Services /\ UNCHANGED <<kind, catalogVars>>
  \/ kind = "Catalog" /\ Catalog!Services /\ UNCHANGED <<kind, proxyVars>>

-----------------------------------------------------------------------------
\* The source is given the files in the order of delivery, each once and none
\* left out: by the proxy whatever the services answer, by the catalogue however
\* the reader probes for files and goes back among them, as long as it takes a file
\* it probed for from where it probed; and "no more files" is said only when all have
\* been given, or where a probe found none and the reader went elsewhere since.  What
\* the catalogue tells the service of a file agrees, as long, with what happened: it
\* is consumed at most once, after a transfer and never if it was given up; and each
\* file the reader has was reported, as skipped if it has no name.
ServedInOrder ==
  /\ kind = "Proxy" => FilesInOrder
  /\ kind = "Catalog" =>
       /\ Catalog!FilesInOrder /\ Catalog!PassComplete
       /\ Catalog!DispositionsInOrder /\ Catalog!NamelessIsSkipped

NoRequest == at \notin {"delivery", "transfer"} /\ call.at \notin {"delivery", "transfer"}

\* Every request of the source ends, with a file, the end or an exception: the
\* attempts are limited (obtainURI_, obtainFileFromURI_, retrieveNextFile).
RequestsEnd == ~NoRequest ~> NoRequest
=============================================================================
