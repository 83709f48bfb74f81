---------------------------- MODULE FileLineage ----------------------------
(* What is left of products, and of the record of how they were made, when   *)
(* a file goes through a chain of jobs: each job reads the file written by   *)
(* the one before, may drop products when it reads and when it writes, makes *)
(* products of its own, and may leave out provenance.                        *)
(*                                                                           *)
(* The file holds one event.  A product is listed in the file's product      *)
(* registry, may have a branch there, whose entry is the real product or a   *)
(* dummy, and may have stored provenance: its status and its parents.        *)
EXTENDS Naturals, FiniteSets

CONSTANTS
  Products,    \* the names of the products that the jobs may make
  MaxJobs,     \* bound: the length of the chain of jobs
  MaxMade,     \* bound: how many products one job makes
  Modes,       \* the values of dropMetaData used: "NONE", "PRIOR", "ALL"
  Trimming,    \* the values of dropMetaDataForDroppedData used
  Cloning,     \* whether the output may be fast-cloned, a set of BOOLEAN
  DropsIn,     \* BOOLEAN: the jobs may drop products when they read
  Failing      \* BOOLEAN: a module may fail to make what it declared

VARIABLES
  file,     \* the file written last
  job,      \* the job that is running, if any
  past,     \* what has happened to the products in all the jobs
  jobs      \* how many jobs have been started

vars == <<file, job, past, jobs>>

Values == {"none", "real", "dummy"}
Statuses == {"none", "present", "dropped", "never"}

\* parents: what the stored provenance of a product says; children: the
\* pairs <<parent, child>> of BranchChildren.
NoFile == [listed |-> {}, value |-> [p \in Products |-> "none"],
           status |-> [p \in Products |-> "none"],
           parents |-> [p \in Products |-> {}], children |-> {}]

\* dropped: the products dropped on input, with their descendants or not;
\* refused: those that were read and found to be dummies; fate: what became
\* of writing the event.
NoJob == [running |-> FALSE, list |-> {}, dropped |-> {}, descend |-> FALSE,
          clone |-> FALSE, declared |-> {}, made |-> {}, refused |-> {}, fate |-> "fine"]

\* declared: the products that some job declared; real: those that were made;
\* origin: product -> the products it was made from; dropped: the products
\* dropped on input by some job.
Init ==
  /\ file = NoFile
  /\ job = NoJob
  /\ past = [declared |-> {}, real |-> {}, dropped |-> {},
             origin |-> [p \in Products |-> {}]]
  /\ jobs = 0

----------------------------------------------------------------------------
(* Reading.                                                                  *)

\* append_(): what is reached from the products `s` along the pairs `r`.
Reached(r, s) ==
  LET after[n \in 0 .. Cardinality(Products)] ==
        IF n = 0 THEN s
        ELSE after[n - 1] \union {e[2] : e \in {e \in r : e[1] \in after[n - 1]}}
  IN after[Cardinality(Products)]

\* Faulty: only the children, not what was made from them.
AppendToDescendantsOnce(r, s) ==
  s \union {e[2] : e \in {e \in r : e[1] \in s}}

\* appendToDescendants(): the products themselves, and all that was made from
\* them as far as the file knows.
AppendToDescendants(r, s) == Reached(r, s)

\* dropOnInput(): the products that are left of the file's list.
DropOnInput(unselected, descend) ==
  file.listed \ (IF descend THEN AppendToDescendants(file.children, unselected)
                 ELSE unselected)

OpenInput(unselected, descend, clone) ==
  /\ ~job.running /\ jobs < MaxJobs
  /\ unselected # {} \/ ~descend
  /\ job' = [NoJob EXCEPT !.running = TRUE, !.clone = clone,
                          !.list = DropOnInput(unselected, descend),
                          !.dropped = unselected, !.descend = descend]
  /\ past' = [past EXCEPT !.dropped =
                 @ \union (file.listed \ DropOnInput(unselected, descend))]
  /\ jobs' = jobs + 1
  /\ UNCHANGED file

----------------------------------------------------------------------------
(* Processing.                                                               *)

\* A product of the file is found when it is in the list with a branch, its
\* provenance, if there is any, does not say otherwise, and it is real.
Gettable(p) ==
  \/ p \in job.made
  \/ p \in job.list /\ file.value[p] = "real" /\ file.status[p] \in {"none", "present"}

\* A module of the job declares p; the process name, which differs from job
\* to job, is part of it, so that no product is made twice.
Declare(p) ==
  /\ job.running /\ job.fate = "fine"
  /\ Cardinality(job.declared) < MaxMade
  /\ p \notin past.declared

\* It makes p from the products `from`.
Make(p, from) ==
  /\ Declare(p)
  /\ \A q \in from : Gettable(q)
  /\ job' = [job EXCEPT !.declared = @ \union {p}, !.made = @ \union {p}]
  /\ past' = [past EXCEPT !.declared = @ \union {p}, !.real = @ \union {p},
                          !.origin[p] = from]
  /\ UNCHANGED <<file, jobs>>

\* It does not make p for this event.
FailToMake(p) ==
  /\ Failing /\ Declare(p)
  /\ job' = [job EXCEPT !.declared = @ \union {p}]
  /\ past' = [past EXCEPT !.declared = @ \union {p}]
  /\ UNCHANGED <<file, jobs>>

\* It asks for p of the file, whose provenance does not say that it is a dummy:
\* the dummy is read, and p is unavailable from then on.
Refuse(p) ==
  /\ job.running /\ job.fate = "fine"
  /\ p \in job.list \ job.refused
  /\ file.value[p] = "dummy" /\ file.status[p] \in {"none", "present"}
  /\ job' = [job EXCEPT !.refused = @ \union {p}]
  /\ UNCHANGED <<file, past, jobs>>

----------------------------------------------------------------------------
(* Writing.                                                                  *)

\* A product of the file whose group does not say that it is unavailable, by
\* the status stored or by what was read.
Available(p) == file.status[p] \in {"none", "present"} /\ p \notin job.refused

\* getForOutput() hands p over with its provenance: that of this process, or
\* that of the input file when p is available there.
HasProvenance(p) == p \in job.made \/ (Available(p) /\ file.status[p] = "present")
ParentsOf(p) == IF p \in job.made THEN past.origin[p] ELSE file.parents[p]

\* selectProducts(): what the rules select of what is there.
KeptProducts(selected) ==
  {p \in (job.list \union job.declared) \intersect selected :
     p \in job.declared \/ file.value[p] # "none"}

\* Faulty: only what was made in this process.
KeepProvenancePrior(p, mode) == p \in job.declared

KeepProvenance(p, mode) ==
  mode = "NONE" \/ (mode = "PRIOR" /\ p \in job.declared)

\* The products whose ancestors insertAncestors() is asked for, and the
\* ancestors it goes on from: those made in this process, when no metadata is
\* to be dropped.
Roots(kept, mode) == {p \in kept : KeepProvenance(p, mode) /\ HasProvenance(p)}
Visited(kept, mode, trim) ==
  IF mode # "NONE" \/ trim THEN Roots(kept, mode)
  ELSE Reached({<<p, q>> \in Products \X job.made : q \in ParentsOf(p)},
               Roots(kept, mode))

\* branchesWithStoredHistory_: what is kept, and the parents of all that was
\* visited.
StoredHistory(kept, mode, trim) ==
  kept \union (IF mode = "ALL" \/ trim THEN {}
               ELSE UNION {ParentsOf(p) : p \in Visited(kept, mode, trim)})

\* Does the output read the product, or is the branch copied?
Resolves(p) == p \in job.declared \/ ~job.clone

\* getForOutput() reads a dummy that nothing is known of: it asks for its status,
\* through a null pointer when there is no provenance.
CannotWrite(p) ==
  p \notin job.declared /\ Resolves(p) /\ file.value[p] = "dummy" /\ Available(p)

\* The branch's entry in the new file: the product if it is handed over with
\* its provenance, or else a dummy; a copied branch is what it was.
ValueWritten(p) ==
  IF ~Resolves(p) THEN file.value[p]
  ELSE IF p \in job.made THEN "real"
  ELSE IF HasProvenance(p) THEN file.value[p]
  ELSE "dummy"

\* The provenance stored: that of the products handed over, or a status that
\* says that there is none (one "never" made is "dropped" in the next file), and
\* that of the ancestors.
StatusWritten(p, kept, mode, trim) ==
  IF p \in Visited(kept, mode, trim) THEN "present"
  ELSE IF p \in kept /\ KeepProvenance(p, mode)
  THEN IF p \in job.declared THEN "never" ELSE "dropped"
  ELSE "none"

\* updateBranchParents(), fillDependencyGraph(): from every product of the
\* event that has provenance, kept or not (only what was present has parents).
Dependencies(kept) ==
  {<<p, q>> \in Products \X (job.list \union job.made) : p \in ParentsOf(q)}

\* fillBranches() for the event, and the metadata written at the end:
\* writeProductDescriptionRegistry(), writeProductDependencies().
Write(selected, mode, trim) ==
  /\ job.running /\ job.fate = "fine"
  /\ LET kept == KeptProducts(selected) IN
     IF \E p \in kept : CannotWrite(p)
     THEN job' = [job EXCEPT !.fate = "crashed"] /\ UNCHANGED file
     ELSE /\ job' = NoJob
          /\ file' =
               [listed |-> (job.list \union job.declared)
                             \intersect StoredHistory(kept, mode, trim),
                value |-> [p \in Products |->
                             IF p \in kept THEN ValueWritten(p) ELSE "none"],
                status |-> [p \in Products |-> StatusWritten(p, kept, mode, trim)],
                parents |-> [p \in Products |->
                               IF p \in Visited(kept, mode, trim) THEN ParentsOf(p)
                               ELSE {}],
                children |-> Dependencies(kept)]
  /\ UNCHANGED <<past, jobs>>

Next ==
  \/ \E unselected \in (IF DropsIn THEN SUBSET file.listed ELSE {{}}),
        descend \in BOOLEAN, clone \in Cloning :
       OpenInput(unselected, descend, clone)
  \/ \E p \in Products : \E from \in SUBSET {q \in Products : Gettable(q)} : Make(p, from)
  \/ \E p \in Products : FailToMake(p) \/ Refuse(p)
  \/ \E selected \in SUBSET (job.list \union job.declared),
        mode \in Modes, trim \in Trimming : Write(selected, mode, trim)

Spec == Init /\ [][Next]_vars

----------------------------------------------------------------------------
(* Properties.                                                               *)

\* Every branch of the file is listed in its registry.
TypeOK ==
  /\ \A p \in Products : file.value[p] # "none" => p \in file.listed
  /\ file.listed \subseteq past.declared
  /\ \A p \in Products : file.value[p] \in Values /\ file.status[p] \in Statuses
  /\ file.children \subseteq Products \X Products
  /\ job.made \subseteq job.declared /\ job.fate \in {"fine", "crashed"}
  /\ jobs \in 0 .. MaxJobs

\* What is kept can be read: a product that was made, and that every output
\* since has kept, is still the real product, and can be got.
DataSurvives ==
  \A p \in past.real :
    file.value[p] # "none" => file.value[p] = "real" /\ file.status[p] \in {"none", "present"}

\* A product that was not made is never taken for one that was.
DummiesAreKnown ==
  \A p \in past.declared \ past.real : file.value[p] # "real" /\ file.status[p] # "present"

\* The parents named by a stored provenance can be looked up in the file's
\* registry, unless they were dropped from the input of some job.
ParentsAreListed ==
  \A p \in Products :
    file.status[p] = "present" => file.parents[p] \subseteq file.listed \union past.dropped

\* What the file stores about how a product was made is what happened.
ParentsAreTrue ==
  \A p \in Products :
    file.status[p] = "present" => file.parents[p] = past.origin[p]

\* How the products of a set were made, and of what.
MadeFrom(s) == {e \in Products \X s : e[1] \in past.origin[e[2]]}
DroppedWithChildren(s) ==
  job.running /\ job.descend =>
    Reached(MadeFrom(s), job.dropped) \intersect job.list = {}

\* When the descendants of what is dropped are to be dropped, none is left
\* among the products whose provenance is stored, directly or by way of
\* others whose provenance is stored.
KnownDescendantsAreDropped ==
  DroppedWithChildren({p \in Products : file.status[p] = "present"})

\* None is left at all (ROOT_FILE_NOTES: BranchChildren maps parent branches
\* to descendants of that parent).
DescendantsAreDropped == DroppedWithChildren(Products)

\* An event that was read can be written.
WriteSucceeds == job.fate = "fine"
=============================================================================
