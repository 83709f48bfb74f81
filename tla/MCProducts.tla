----------------------------- MODULE MCProducts -----------------------------
(***************************************************************************)
(* The products of events and files.  A behaviour is one of several, named *)
(* by its kind: the lookups of a principal (ProductAccess) among files with *)
(* different products, with the products of earlier stages kept in         *)
(* secondary files, and with runs that are merged; what a chain of jobs    *)
(* leaves of the products (FileLineage), with and without provenance; the  *)
(* mixing of secondary events (Mixing); pointers and associations made in  *)
(* one job and read in the next (Pointers); or modules that get and put    *)
(* products through their views (DataViews).                               *)
(***************************************************************************)
EXTENDS Integers, FiniteSets, Sequences, TLC

CONSTANTS Kinds,       \* the behaviours that are checked
          Made,        \* the products that the jobs of a chain make
          MaxJobs      \* bound: the length of the chain

VARIABLES kind,
          principals, last, opened, given,     \* ProductAccess
          file, job, past, jobs,               \* FileLineage
          cfg, helper, tables, request,        \* Mixing
          filled, phase, vector, spare, group, outputs, meant, round,  \* Pointers
          at, todo, views, workers, groups, value, mapper, getters,
          direct, first, threw, removed                                \* DataViews

accessVars == <<principals, last, opened, given>>
lineageVars == <<file, job, past, jobs>>
mixVars == <<cfg, helper, tables, request>>
pointerVars == <<filled, phase, vector, spare, group, outputs, meant, round>>
viewVars == <<at, todo, views, workers, groups, value, mapper, getters, direct, first, threw, removed>>
allVars == <<kind, accessVars, lineageVars, mixVars, pointerVars, viewVars>>

-----------------------------------------------------------------------------
\* The input has two secondary files, the files of earlier stages of the same
\* processing: the primary file keeps "hit", the secondary files the products
\* it was made from.

History == <<"GEN", "SIM">>
Process == [gen |-> "GEN", sim |-> "SIM", hit |-> "SIM", fit |-> "FIT"]

Reg(g, s, h) == [gen |-> g, sim |-> s, hit |-> h, fit |-> "none"]
Val(g, s, h) == [gen |-> g, sim |-> s, hit |-> h, fit |-> "known"]
Both(v) == <<v, v>>

\* Every product in one file only.
Apart == (0 :> Reg("none", "none", "branch"))
         @@ (1 :> Reg("none", "branch", "none"))
         @@ (2 :> Reg("branch", "none", "none"))
\* hit is missing from the second item, without a provenance that says so.
ApartStored == (0 :> <<Val("known", "known", "real"), Val("known", "known", "dummy")>>)
               @@ (1 :> Both(Val("known", "real", "known")))
               @@ (2 :> Both(Val("real", "known", "known")))
\* Everything is where it is registered.
AllStored == (0 :> Both(Val("known", "known", "real")))
             @@ (1 :> Both(Val("known", "real", "known")))
             @@ (2 :> Both(Val("real", "known", "known")))
AllHeld == <<{1, 2}, {1, 2}>>

\* By type: gen and hit are of one type, and so are sim and fit; fit is made on
\* demand by a worker that makes nothing.
Demanded == INSTANCE ProductAccess WITH
  N <- 2, Unreadable <- {}, Products <- DOMAIN Process, Process <- Process,
  ThisProcess <- "FIT", History <- History, Items <- {1, 2}, Holds <- AllHeld,
  Registered <- Apart, Stored <- ApartStored, OnDemand <- {"fit"},
  Worker <- [fit |-> "nothing"], Ops <- {"label", "id", "output"},
  Queries <- {{"gen", "hit"}, {"sim", "fit"}, {"fit"}}, MaxAlive <- 1

\* fit is put by a module, at some time.
WithPut == INSTANCE ProductAccess WITH
  N <- 2, Unreadable <- {}, Products <- DOMAIN Process, Process <- Process,
  ThisProcess <- "FIT", History <- History, Items <- {1, 2}, Holds <- AllHeld,
  Registered <- Apart, Stored <- AllStored, OnDemand <- {},
  Worker <- [fit |-> "nothing"], Ops <- {"label", "id", "output"},
  Queries <- {{"gen", "hit"}}, MaxAlive <- 1

\* A later stage registers what it dropped or lacks of an earlier one: gen is
\* dropped from the primary file, which has sim for the second item only, and
\* hit is dropped from the first secondary file, which has the first item only.
Again == (0 :> Reg("dropped", "branch", "none"))
         @@ (1 :> Reg("none", "branch", "dropped"))
         @@ (2 :> Reg("branch", "none", "branch"))
AgainStored == (0 :> <<Val("known", "known", "known"), Val("known", "real", "known")>>)
               @@ (1 :> Both(Val("known", "real", "known")))
               @@ (2 :> Both(Val("real", "known", "real")))
Hiding == INSTANCE ProductAccess WITH
  N <- 2, Unreadable <- {}, Products <- {"gen", "sim", "hit"}, Process <- Process,
  ThisProcess <- "FIT", History <- History, Items <- {1, 2}, Holds <- <<{1}, {1, 2}>>,
  Registered <- Again, Stored <- AgainStored, OnDemand <- {},
  Worker <- [fit |-> "nothing"], Ops <- {"label", "id"},
  Queries <- {{"gen"}, {"sim"}, {"hit"}, {"gen", "hit"}}, MaxAlive <- 1

\* Two runs at a time, one secondary file.
Merged == INSTANCE ProductAccess WITH
  N <- 1, Unreadable <- {}, Products <- {"gen", "hit"}, Process <- Process,
  ThisProcess <- "FIT", History <- History, Items <- {1, 2}, Holds <- AllHeld,
  Registered <- Apart, Stored <- AllStored, OnDemand <- {},
  Worker <- [fit |-> "nothing"], Ops <- {"label"},
  Queries <- {{"hit"}, {"gen"}, {"gen", "hit"}}, MaxAlive <- 2

-----------------------------------------------------------------------------
\* The chain with every setting of dropMetaData, and the one that drops no
\* metadata but that of what is dropped, with modules that may fail.
Dropping == INSTANCE FileLineage WITH
  Products <- Made, MaxMade <- 2, Modes <- {"NONE", "PRIOR", "ALL"},
  Trimming <- {FALSE}, Cloning <- BOOLEAN, DropsIn <- TRUE, Failing <- FALSE
Keeping == INSTANCE FileLineage WITH
  Products <- Made, MaxMade <- 2, Modes <- {"NONE"},
  Trimming <- BOOLEAN, Cloning <- BOOLEAN, DropsIn <- TRUE, Failing <- TRUE

Symmetry == Permutations(Made)

-----------------------------------------------------------------------------
\* Secondary files: two of one production, the second of them with a list of
\* branches more; one of a production with a product more, one of another era, one that
\* cannot be read, and one without links.
Hits(n) == [there |-> TRUE, size |-> n]
Links(s) == [there |-> TRUE, refs |-> s]
NoHits == [there |-> FALSE, size |-> 0]
NoLinks == [there |-> FALSE, refs |-> <<>>]
Evt(id, history, hits, links) == [id |-> id, history |-> history, hits |-> hits, links |-> links]
Branches == [hits |-> "sim_hits", links |-> "sim_links"]
SecondaryFiles == <<
  [state |-> "good", branch |-> Branches,
   lists |-> <<<<"gen">>, <<"sim_hits", "sim_links">>>>,
   events |-> <<Evt(11, <<1, 2>>, Hits(2), Links(<<2, 1>>)),
                Evt(12, <<1, 2>>, Hits(1), Links(<<1, 0, -1>>)),
                Evt(13, <<1, 2>>, Hits(0), Links(<<>>))>>],
  [state |-> "good", branch |-> Branches,
   lists |-> <<<<"old">>, <<"gen">>, <<"sim_hits", "sim_links">>>>,
   events |-> <<Evt(21, <<2, 3>>, NoHits, NoLinks),
                Evt(22, <<2, 3>>, Hits(3), Links(<<3>>))>>],
  [state |-> "good", branch |-> Branches,
   lists |-> <<<<"gen">>, <<"sim_cells", "sim_hits", "sim_links">>>>,
   events |-> <<Evt(31, <<1, 2>>, Hits(1), Links(<<1>>)),
                Evt(32, <<1, 2>>, Hits(1), Links(<<1>>))>>],
  [state |-> "otherEra", branch |-> Branches, lists |-> <<>>,
   events |-> <<Evt(41, <<>>, NoHits, NoLinks)>>],
  [state |-> "unreadable", branch |-> Branches, lists |-> <<>>, events |-> <<>>],
  [state |-> "good", branch |-> [Branches EXCEPT !["links"] = "none"],
   lists |-> <<<<"sim_hits">>>>, events |-> <<Evt(61, <<1>>, Hits(1), NoLinks)>>]>>

MixModes == {"SEQUENTIAL", "RANDOM_REPLACE", "RANDOM_LIM_REPLACE", "RANDOM_NO_REPLACE"}
MixConfigs ==
  {[mode |-> m, names |-> <<1, 2>>, provider |-> FALSE, wrap |-> FALSE, skip |-> 1,
    percent |-> 70, compact |-> c] : m \in MixModes, c \in BOOLEAN}
  \union {[mode |-> m, names |-> <<2, 1>>, provider |-> FALSE, wrap |-> TRUE, skip |-> 0,
           percent |-> 100, compact |-> TRUE] : m \in MixModes}
  \union {[mode |-> m, names |-> <<>>, provider |-> TRUE, wrap |-> FALSE, skip |-> 0,
           percent |-> 100, compact |-> TRUE] : m \in {"SEQUENTIAL", "RANDOM_NO_REPLACE"}}
MixedIDs == [hits |-> <<2, 1>>, links |-> <<2, 2>>]

Mixed == INSTANCE Mixing WITH
  Files <- SecondaryFiles, Configs <- MixConfigs, MaxN <- 2, OutID <- MixedIDs,
  Outputs <- {"hits", "links"}, Survives <- {"threw"}

\* The elements of product 1 are sorted the other way round than their keys.
Pointing == INSTANCE Pointers WITH
  IDs <- {1, 2}, Keys <- {1, 2}, Made <- {<<1, 1>>, <<2, 1>>}, Fetched <- {<<1, 2>>},
  Value <- <<2, 1>>, LeftFirst <- FALSE, Data <- {"x", "y"}, Filled <- {"vector", "assns"},
  MaxLen <- 2, MaxOutputs <- 2, MaxJobs <- 3

\* Hits are made on demand from raw data, with calibrations that are not kept; a
\* tracker makes tracks, and a sum when its run begins, again when it ends.
Asking(k, ps) == [kind |-> k, of |-> ps]
Viewing == INSTANCE DataViews WITH
  Level <- [raw |-> "event", hits |-> "event", calib |-> "event", track |-> "event", sum |-> "run"],
  Maker <- [raw |-> "source", hits |-> "hitter", calib |-> "hitter", track |-> "tracker", sum |-> "tracker"],
  Transient <- {"calib"}, Parentless <- {"track"}, FileParents <- [raw |-> {}],
  Schedule <- <<"tracker">>, OnDemand <- {"hitter"},
  Queries <- {Asking("label", <<"raw">>), Asking("valid", <<"calib">>), Asking("many", <<"hits", "calib">>),
              Asking("view", <<"hits">>), Asking("run", <<"sum">>),
              Asking("follow", <<"hits">>), Asking("follow", <<"track">>)},
  Occurrences <- <<"run", "event", "run">>, MaxCalls <- 3

-----------------------------------------------------------------------------
ProductsInit ==
  /\ kind \in Kinds /\ Demanded!Init /\ Dropping!Init
  /\ IF kind = "Mixed" THEN Mixed!Init
     ELSE /\ cfg = 0 /\ helper = 0 /\ tables = 0 /\ request = 0
  /\ IF kind = "Pointing" THEN Pointing!Init
     ELSE /\ filled = 0 /\ phase = 0 /\ vector = 0 /\ spare = 0
          /\ group = 0 /\ outputs = 0 /\ meant = 0 /\ round = 0
  /\ IF kind = "Viewing" THEN Viewing!Init
     ELSE /\ at = 0 /\ todo = 0 /\ views = 0 /\ workers = 0 /\ groups = 0 /\ value = 0
          /\ mapper = 0 /\ getters = 0 /\ direct = 0 /\ first = 0 /\ threw = 0 /\ removed = 0

DemandedStep == kind = "Demanded" /\ Demanded!Next /\ UNCHANGED <<kind, lineageVars, mixVars, pointerVars, viewVars>>
WithPutStep == kind = "WithPut" /\ WithPut!Next /\ UNCHANGED <<kind, lineageVars, mixVars, pointerVars, viewVars>>
HidingStep == kind = "Hiding" /\ Hiding!Next /\ UNCHANGED <<kind, lineageVars, mixVars, pointerVars, viewVars>>
MergedStep == kind = "Merged" /\ Merged!Next /\ UNCHANGED <<kind, lineageVars, mixVars, pointerVars, viewVars>>
DroppingStep == kind = "Dropping" /\ Dropping!Next /\ UNCHANGED <<kind, accessVars, mixVars, pointerVars, viewVars>>
KeepingStep == kind = "Keeping" /\ Keeping!Next /\ UNCHANGED <<kind, accessVars, mixVars, pointerVars, viewVars>>
MixedStep == kind = "Mixed" /\ Mixed!Next /\ UNCHANGED <<kind, accessVars, lineageVars, pointerVars, viewVars>>
ViewingStep == kind = "Viewing" /\ Viewing!Next /\ UNCHANGED <<kind, accessVars, lineageVars, mixVars, pointerVars>>
PointingStep == kind = "Pointing" /\ Pointing!Next /\ UNCHANGED <<kind, accessVars, lineageVars, mixVars, viewVars>>

ProductsNext == DemandedStep \/ WithPutStep \/ HidingStep \/ MergedStep \/ DroppingStep \/ KeepingStep
                \/ MixedStep \/ PointingStep \/ ViewingStep

ProductsSpec == ProductsInit /\ [][ProductsNext]_allVars

ASSUME ProductsAssumption ==
  Demanded!ProductAccessAssumption /\ WithPut!ProductAccessAssumption
  /\ Hiding!ProductAccessAssumption /\ Merged!ProductAccessAssumption /\ Mixed!MixingAssumption /\ Pointing!PointersAssumption
  /\ Viewing!DataViewsAssumption

-----------------------------------------------------------------------------
\* A lookup by label hands out real products only, those of the first of the
\* files that have the product, and finds nothing only when no file that is there
\* has it, or an earlier file, primary or secondary, knows it as dropped or lacks
\* it; while runs are merged and input files change, what the primary file has is
\* found there. Asking again gives the same answer whatever was asked, and
\* whatever secondary file was opened, in between; modules and outputs get the
\* same product, and the secondary principals are those of the files tried that
\* hold the item.
ProductsAreFound ==
  /\ kind = "Demanded" => /\ Demanded!HandedOutIsReal
                          /\ Demanded!OnlyEarlierFilesHide
                          /\ Demanded!SameLookupAgain
  /\ kind = "Hiding" => /\ Hiding!HandedOutIsReal
                        /\ Hiding!OnlyEarlierFilesHide
                        /\ Hiding!SameLookupAgain
  /\ kind = "Merged" => Merged!OwnProductsAreFound
  /\ kind = "WithPut" => /\ WithPut!SameProductAgain
                         /\ WithPut!SecondariesInStep
                         /\ WithPut!OutputIsWhatModulesGet
                         /\ WithPut!RequestsAreAnswered

\* What a file says of how its products were made is what happened, whatever
\* the jobs before it dropped: the parents are the true ones and are listed, and
\* what is known to descend from a dropped product is dropped with it. A product
\* that every job keeps survives all of them and can be read after each, and what
\* no module made is never taken for a product.
LineageIsTrue ==
  /\ kind = "Dropping" => /\ Dropping!ParentsAreListed
                          /\ Dropping!KnownDescendantsAreDropped
                          /\ Dropping!ParentsAreTrue
  /\ kind = "Keeping" => Keeping!DataSurvives /\ Keeping!DummiesAreKnown /\ Keeping!WriteSucceeds

\* A product that every job keeps survives too in the files of jobs that drop
\* metadata ("dropMetaData"): the metadata only says how it was made.
MetadataIsDispensable == kind = "Dropping" => Dropping!DataSurvives

\* Every pointer of a mixed product leads to the hit it led to in its secondary
\* event, the event identifiers are those of the entries mixed, and each entry
\* is used as often as the mode of reading and the coverage fraction allow.
MixedAsRead ==
  kind = "Mixed" => /\ Mixed!PointersFollow /\ Mixed!IDsAreOfEntries
                    /\ Mixed!UsedAsAllowed /\ Mixed!NothingUndefined

\* Pointers and associations lead, in the job that reads them and in the next,
\* to the elements they led to when they were put, either way round and whatever
\* output modules wrote them, which all write the same.
PointersSurvive ==
  kind = "Pointing" => /\ Pointing!VectorSurvives /\ Pointing!AssociationsSurvive
                       /\ Pointing!OutputsAgree

\* What the modules do to the products of an occurrence is a transaction of each:
\* the parents recorded are what the module got, also when it ran in the middle
\* of another, a module that fails leaves nothing, and what was put stays.
ViewsAreTransactions ==
  kind = "Viewing" => /\ Viewing!ParentsAreTrue /\ Viewing!FailedLeaveNothing
                      /\ Viewing!PutsAreFinal

\* A product of a class that derives from DoNotRecordParents is put without its
\* parents ("do not keep parentage").
ParentlessHaveNoParents == kind = "Viewing" => Viewing!ParentlessHaveNoParents
=============================================================================
