--------------------------- MODULE MCOutput_proof ---------------------------
(***************************************************************************)
(* The theorems about the rows of RootOutput, of the two parts of MCOutput *)
(* that write files: one with fast cloning, and one without in which an    *)
(* event may come twice or fail to be written and the module be disabled;  *)
(* and those of OutputFiles_proof about the database in them and what is   *)
(* said of them.                                                           *)
(***************************************************************************)
EXTENDS MCOutput, SequenceTheorems, TLAPS

CloningRows == INSTANCE RootOutput_proof WITH
  Produced <- {"p"}, Jobs <- [1 .. 2 -> InputFiles] \union [1 .. 3 -> PlainFiles], FastCloning <- BOOLEAN,
  ChecksDuplicates <- TRUE, WriteFails <- FALSE, Stops <- TRUE, MaxToggles <- 0

FillingRows == INSTANCE RootOutput_proof WITH
  Produced <- {"p"}, Jobs <- [1 .. 2 -> RepeatingFiles], FastCloning <- {FALSE},
  ChecksDuplicates <- TRUE, WriteFails <- TRUE, Stops <- FALSE, MaxToggles <- 2

OutputFiles == INSTANCE OutputFiles_proof WITH
  Handles <- {"db"}, Writes <- {<< 1 >>}, MEMPAGE <- 2, Chunks <- {3}, MaxSize <- 3, MaxKeys <- 2,
  Inputs <- {"a.root", "b.root"}, Pattern <- <<"r", "_", "s", "_", "R", "_", "S", "_", "#", "_", "if">>,
  Runs <- {1, 2}, SubRuns <- {0, 1}, Events <- {1}, MaxFiles <- 2, MaxSources <- 2, MaxRecords <- 4

-----------------------------------------------------------------------------
\* The input files are as the theorems assume.

LEMMA JobsAreFiles ==
  ASSUME NEW S, NEW j
  PROVE  /\ j \in [1 .. 2 -> S] => Len(j) = 2 /\ DOMAIN j = 1 .. Len(j)
         /\ j \in [1 .. 3 -> S] => Len(j) = 3 /\ DOMAIN j = 1 .. Len(j)
<1>1. ASSUME j \in [1 .. 2 -> S] PROVE Len(j) = 2 /\ DOMAIN j = 1 .. Len(j)
  <2>1. j = [i \in 1 .. 2 |-> j[i]] /\ 2 \in Nat
    BY <1>1
  <2> QED BY <1>1, <2>1, CloningRows!SeqOfLength
<1>2. ASSUME j \in [1 .. 3 -> S] PROVE Len(j) = 3 /\ DOMAIN j = 1 .. Len(j)
  <2>1. j = [i \in 1 .. 3 |-> j[i]] /\ 3 \in Nat
    BY <1>2
  <2> QED BY <1>2, <2>1, CloningRows!SeqOfLength
<1> QED BY <1>1, <1>2

LEMMA FilesAsAssumed ==
  ASSUME NEW lists, lists \subseteq {<<>>, << 1 >>, <<1, 2>>, <<1, 1>>}, NEW f \in FilesOf(lists)
  PROVE  /\ f.events \in lists /\ f.events \in Seq(Nat)
         /\ f.sameLayout \in BOOLEAN /\ f.inOrder \in BOOLEAN
<1>1. PICK e \in lists, b \in {{"a"}, {"b"}, {"a", "b"}}, l \in BOOLEAN, o \in BOOLEAN :
        f = [events |-> e, branches |-> b, sameLayout |-> l, inOrder |-> o]
  BY DEF FilesOf
<1>2. f.events = e /\ f.sameLayout = l /\ f.inOrder = o
  BY <1>1
<1>3. e \in Seq(Nat)
  <2>1. CASE e = <<>>
    BY <2>1
  <2>2. CASE e = << 1 >>
    BY <2>2
  <2>3. CASE e = <<1, 2>>
    BY <2>3
  <2>4. CASE e = <<1, 1>>
    BY <2>4
  <2> QED BY <2>1, <2>2, <2>3, <2>4
<1> QED BY <1>2, <1>3

LEMMA InputsAsAssumed ==
  /\ \A f \in InputFiles \union RepeatingFiles :
       f.events \in Seq(Nat) /\ f.sameLayout \in BOOLEAN /\ f.inOrder \in BOOLEAN
  /\ \A f \in InputFiles : \A i \in DOMAIN f.events : \A k \in 1 .. i - 1 : f.events[k] # f.events[i]
<1>1. \A f \in InputFiles \union RepeatingFiles :
        f.events \in Seq(Nat) /\ f.sameLayout \in BOOLEAN /\ f.inOrder \in BOOLEAN
  BY FilesAsAssumed DEF InputFiles, RepeatingFiles
<1>2. \A f \in InputFiles : f.events \in {<<>>, << 1 >>, <<1, 2>>}
  BY FilesAsAssumed DEF InputFiles
<1>3. ASSUME NEW e \in {<<>>, << 1 >>, <<1, 2>>}
      PROVE  \A i \in DOMAIN e : \A k \in 1 .. i - 1 : e[k] # e[i]
  <2>1. CASE e = <<>>
    BY <2>1
  <2>2. CASE e = << 1 >>
    BY <2>2
  <2>3. CASE e = <<1, 2>>
    BY <2>3
  <2> QED BY <1>3, <2>1, <2>2, <2>3
<1> QED BY <1>1, <1>2, <1>3

LEMMA CloningJobs ==
  ASSUME NEW j \in [1 .. 2 -> InputFiles] \union [1 .. 3 -> PlainFiles]
  PROVE  /\ Len(j) \in Nat \ {0} /\ DOMAIN j = 1 .. Len(j)
         /\ \A n \in DOMAIN j : j[n] \in InputFiles
<1>1. PlainFiles \subseteq InputFiles
  BY DEF PlainFiles
<1>2. CASE j \in [1 .. 2 -> InputFiles]
  <2>1. Len(j) = 2 /\ DOMAIN j = 1 .. Len(j)
    BY <1>2, JobsAreFiles
  <2> QED BY <1>2, <2>1
<1>3. CASE j \in [1 .. 3 -> PlainFiles]
  <2>1. Len(j) = 3 /\ DOMAIN j = 1 .. Len(j)
    BY <1>3, JobsAreFiles
  <2> QED BY <1>1, <1>3, <2>1
<1> QED BY <1>2, <1>3

LEMMA FillingJobs ==
  ASSUME NEW j \in [1 .. 2 -> RepeatingFiles]
  PROVE  /\ Len(j) = 2 /\ DOMAIN j = 1 .. Len(j)
         /\ \A n \in DOMAIN j : j[n] \in RepeatingFiles
<1>1. Len(j) = 2 /\ DOMAIN j = 1 .. Len(j)
  BY JobsAreFiles
<1> QED BY <1>1

LEMMA CloningPlain == CloningRows!Plain
<1>1. CloningRows!RootOutputAssumption
  BY CloningJobs, InputsAsAssumed DEF CloningRows!RootOutputAssumption
<1>2. CloningRows!NothingLeftOut
  BY CloningJobs, InputsAsAssumed
     DEF CloningRows!NothingLeftOut, CloningRows!SkipsSome, CloningRows!SeenBefore
<1>3. CloningRows!NothingMissed
  BY DEF CloningRows!NothingMissed
<1> QED BY <1>1, <1>2, <1>3 DEF CloningRows!Plain

LEMMA FillingPlain == FillingRows!Plain
<1>1. FillingRows!RootOutputAssumption
  <2>1. ASSUME NEW j \in [1 .. 2 -> RepeatingFiles]
        PROVE  /\ Len(j) \in Nat \ {0} /\ DOMAIN j = 1 .. Len(j)
               /\ \A n \in DOMAIN j : j[n].events \in Seq(Nat) /\ {j[n].sameLayout, j[n].inOrder} \subseteq BOOLEAN
    <3>1. Len(j) = 2 /\ DOMAIN j = 1 .. Len(j) /\ \A n \in DOMAIN j : j[n] \in RepeatingFiles
      BY FillingJobs
    <3> QED BY <3>1, InputsAsAssumed
  <2> QED BY <2>1 DEF FillingRows!RootOutputAssumption
<1>2. FillingRows!NothingLeftOut
  BY DEF FillingRows!NothingLeftOut
<1>3. FillingRows!NothingMissed
  <2>1. \A j \in [1 .. 2 -> RepeatingFiles] : Len(j) = 2
    BY FillingJobs
  <2>2. 2 .. 2 - 1 = {}
    OBVIOUS
  <2> QED BY <2>1, <2>2 DEF FillingRows!NothingMissed
<1> QED BY <1>1, <1>2, <1>3 DEF FillingRows!Plain

-----------------------------------------------------------------------------
\* The two parts are those of MCOutput.

LEMMA CloningStarts == Cloning!Init => CloningRows!Init
  BY DEF Cloning!Init, Cloning!Closed, CloningRows!Init, CloningRows!Closed

LEMMA CloningTrees ==
  /\ Cloning!Aux = CloningRows!Aux
  /\ Cloning!Closed = CloningRows!Closed
  /\ Cloning!NewTree = CloningRows!NewTree
  /\ \A o : Cloning!IsOpen(o) = CloningRows!IsOpen(o)
  /\ \A t, s : Cloning!AddOutputBranches(t, s) = CloningRows!AddOutputBranches(t, s)
  /\ \A t : Cloning!SetEntries(t) = CloningRows!SetEntries(t)
  /\ \A t, n, f : Cloning!FastCloneTree(t, n, f) = CloningRows!FastCloneTree(t, n, f)
  /\ \A t, k, f : Cloning!FillTree(t, k, f) = CloningRows!FillTree(t, k, f)
  /\ \A t, k, f : Cloning!WriteOne(t, k, f) = CloningRows!WriteOne(t, k, f)
  /\ \A t, s, n, f, c : Cloning!BeginInputFile(t, s, n, f, c) = CloningRows!BeginInputFile(t, s, n, f, c)
<1>1. Cloning!Aux = CloningRows!Aux
  BY DEF Cloning!Aux, CloningRows!Aux
<1>2. Cloning!Closed = CloningRows!Closed
  BY DEF Cloning!Closed, CloningRows!Closed
<1>3. Cloning!NewTree = CloningRows!NewTree
  BY DEF Cloning!NewTree, CloningRows!NewTree, Cloning!Aux, CloningRows!Aux
<1>4. \A o : Cloning!IsOpen(o) = CloningRows!IsOpen(o)
  BY DEF Cloning!IsOpen, CloningRows!IsOpen, Cloning!Closed, CloningRows!Closed
<1>5. \A t, s : Cloning!AddOutputBranches(t, s) = CloningRows!AddOutputBranches(t, s)
  BY DEF Cloning!AddOutputBranches, CloningRows!AddOutputBranches, Cloning!Dummies,
         CloningRows!Dummies, Cloning!Dummy, CloningRows!Dummy
<1>6. \A t : Cloning!SetEntries(t) = CloningRows!SetEntries(t)
  BY DEF Cloning!SetEntries, CloningRows!SetEntries
<1>7. \A t, n, f : Cloning!FastCloneTree(t, n, f) = CloningRows!FastCloneTree(t, n, f)
  BY DEF Cloning!FastCloneTree, CloningRows!FastCloneTree, Cloning!Keys, CloningRows!Keys,
         Cloning!Aux, CloningRows!Aux
<1>8. \A t, k, f : Cloning!FillTree(t, k, f) = CloningRows!FillTree(t, k, f)
  BY DEF Cloning!FillTree, CloningRows!FillTree, Cloning!Aux, CloningRows!Aux, Cloning!Dummy,
         CloningRows!Dummy
<1>9. \A t, k, f : Cloning!WriteOne(t, k, f) = CloningRows!WriteOne(t, k, f)
  BY <1>8 DEF Cloning!WriteOne, CloningRows!WriteOne
<1>10. \A t, s, n, f, c : Cloning!BeginInputFile(t, s, n, f, c) = CloningRows!BeginInputFile(t, s, n, f, c)
  BY <1>5, <1>7 DEF Cloning!BeginInputFile, CloningRows!BeginInputFile
<1> QED BY <1>1, <1>2, <1>3, <1>4, <1>5, <1>6, <1>7, <1>8, <1>9, <1>10

LEMMA CloningModule ==
  /\ \A m, f : Cloning!SelectProducts(m, f) = CloningRows!SelectProducts(m, f)
  /\ \A m, n, f : Cloning!RespondToOpenInputFile(m, n, f) = CloningRows!RespondToOpenInputFile(m, n, f)
  /\ \A m, n, f : Cloning!OpenOutputFile(m, n, f) = CloningRows!OpenOutputFile(m, n, f)
  /\ \A m : Cloning!RespondToCloseInputFile(m) = CloningRows!RespondToCloseInputFile(m)
  /\ \A m : Cloning!CloseOutputFile(m) = CloningRows!CloseOutputFile(m)
<1>1. \A m, f : Cloning!SelectProducts(m, f) = CloningRows!SelectProducts(m, f)
  BY CloningTrees DEF Cloning!SelectProducts, CloningRows!SelectProducts
<1>2. \A m, n, f : Cloning!RespondToOpenInputFile(m, n, f) = CloningRows!RespondToOpenInputFile(m, n, f)
  BY CloningTrees DEF Cloning!RespondToOpenInputFile, CloningRows!RespondToOpenInputFile,
         Cloning!FastClonable, CloningRows!FastClonable
<1>3. \A m, n, f : Cloning!OpenOutputFile(m, n, f) = CloningRows!OpenOutputFile(m, n, f)
  BY CloningTrees, <1>2 DEF Cloning!OpenOutputFile, CloningRows!OpenOutputFile
<1>4. \A m : Cloning!RespondToCloseInputFile(m) = CloningRows!RespondToCloseInputFile(m)
  BY CloningTrees DEF Cloning!RespondToCloseInputFile, CloningRows!RespondToCloseInputFile
<1>5. \A m : Cloning!CloseOutputFile(m) = CloningRows!CloseOutputFile(m)
  BY CloningTrees DEF Cloning!CloseOutputFile, CloningRows!CloseOutputFile
<1> QED BY <1>1, <1>2, <1>3, <1>4, <1>5

LEMMA CloningProcessor ==
  /\ Cloning!Module = CloningRows!Module
  /\ \A m, n : Cloning!OpenInput(m, n) = CloningRows!OpenInput(m, n)
  /\ \A m, n : Cloning!OpenOutput(m, n) = CloningRows!OpenOutput(m, n)
  /\ \A m : Cloning!CloseInput(m) = CloningRows!CloseInput(m)
  /\ \A m : Cloning!CloseOutput(m) = CloningRows!CloseOutput(m)
  /\ \A f : Cloning!ReadOrder(f) = CloningRows!ReadOrder(f)
<1>1. Cloning!Module = CloningRows!Module
  BY DEF Cloning!Module, CloningRows!Module
<1>2. \A m, n : Cloning!OpenInput(m, n) = CloningRows!OpenInput(m, n)
  BY CloningModule DEF Cloning!OpenInput, CloningRows!OpenInput, Cloning!IfEnabled,
         CloningRows!IfEnabled
<1>3. \A m, n : Cloning!OpenOutput(m, n) = CloningRows!OpenOutput(m, n)
  BY CloningModule DEF Cloning!OpenOutput, CloningRows!OpenOutput, Cloning!IfEnabled,
         CloningRows!IfEnabled
<1>4. \A m : Cloning!CloseInput(m) = CloningRows!CloseInput(m)
  BY CloningModule DEF Cloning!CloseInput, CloningRows!CloseInput, Cloning!IfEnabled,
         CloningRows!IfEnabled
<1>5. \A m : Cloning!CloseOutput(m) = CloningRows!CloseOutput(m)
  BY CloningModule DEF Cloning!CloseOutput, CloningRows!CloseOutput, Cloning!IfEnabled,
         CloningRows!IfEnabled
<1>6. \A f : Cloning!ReadOrder(f) = CloningRows!ReadOrder(f)
  BY DEF Cloning!ReadOrder, CloningRows!ReadOrder, Cloning!SkipsSome, CloningRows!SkipsSome,
         Cloning!SeenBefore, CloningRows!SeenBefore
<1> QED BY <1>1, <1>2, <1>3, <1>4, <1>5, <1>6

LEMMA CloningSteps == Cloning!Next => CloningRows!Next
<1>1. Cloning!OpenFiles => CloningRows!OpenFiles
  BY CloningProcessor DEF Cloning!OpenFiles, CloningRows!OpenFiles, Cloning!Becomes,
         CloningRows!Becomes
<1>2. Cloning!NextInput => CloningRows!NextInput
  BY CloningTrees, CloningProcessor DEF Cloning!NextInput, CloningRows!NextInput,
         Cloning!Becomes, CloningRows!Becomes
<1>3. Cloning!WriteEvent => CloningRows!WriteEvent
  BY CloningTrees DEF Cloning!WriteEvent, CloningRows!WriteEvent
<1>4. Cloning!WriteFailed => CloningRows!WriteFailed
  BY CloningTrees DEF Cloning!WriteFailed, CloningRows!WriteFailed
<1>5. Cloning!Shutdown => CloningRows!Shutdown
  BY DEF Cloning!Shutdown, CloningRows!Shutdown
<1>6. Cloning!CloseFiles => CloningRows!CloseFiles
  BY CloningProcessor DEF Cloning!CloseFiles, CloningRows!CloseFiles, Cloning!Becomes,
         CloningRows!Becomes
<1>7. Cloning!SetEnabled => CloningRows!SetEnabled
  BY DEF Cloning!SetEnabled, CloningRows!SetEnabled
<1> QED BY <1>1, <1>2, <1>3, <1>4, <1>5, <1>6, <1>7 DEF Cloning!Next, CloningRows!Next

LEMMA FillingStarts == Filling!Init => FillingRows!Init
  BY DEF Filling!Init, Filling!Closed, FillingRows!Init, FillingRows!Closed

LEMMA FillingTrees ==
  /\ Filling!Aux = FillingRows!Aux
  /\ Filling!Closed = FillingRows!Closed
  /\ Filling!NewTree = FillingRows!NewTree
  /\ \A o : Filling!IsOpen(o) = FillingRows!IsOpen(o)
  /\ \A t, s : Filling!AddOutputBranches(t, s) = FillingRows!AddOutputBranches(t, s)
  /\ \A t : Filling!SetEntries(t) = FillingRows!SetEntries(t)
  /\ \A t, n, f : Filling!FastCloneTree(t, n, f) = FillingRows!FastCloneTree(t, n, f)
  /\ \A t, k, f : Filling!FillTree(t, k, f) = FillingRows!FillTree(t, k, f)
  /\ \A t, k, f : Filling!WriteOne(t, k, f) = FillingRows!WriteOne(t, k, f)
  /\ \A t, s, n, f, c : Filling!BeginInputFile(t, s, n, f, c) = FillingRows!BeginInputFile(t, s, n, f, c)
<1>1. Filling!Aux = FillingRows!Aux
  BY DEF Filling!Aux, FillingRows!Aux
<1>2. Filling!Closed = FillingRows!Closed
  BY DEF Filling!Closed, FillingRows!Closed
<1>3. Filling!NewTree = FillingRows!NewTree
  BY DEF Filling!NewTree, FillingRows!NewTree, Filling!Aux, FillingRows!Aux
<1>4. \A o : Filling!IsOpen(o) = FillingRows!IsOpen(o)
  BY DEF Filling!IsOpen, FillingRows!IsOpen, Filling!Closed, FillingRows!Closed
<1>5. \A t, s : Filling!AddOutputBranches(t, s) = FillingRows!AddOutputBranches(t, s)
  BY DEF Filling!AddOutputBranches, FillingRows!AddOutputBranches, Filling!Dummies,
         FillingRows!Dummies, Filling!Dummy, FillingRows!Dummy
<1>6. \A t : Filling!SetEntries(t) = FillingRows!SetEntries(t)
  BY DEF Filling!SetEntries, FillingRows!SetEntries
<1>7. \A t, n, f : Filling!FastCloneTree(t, n, f) = FillingRows!FastCloneTree(t, n, f)
  BY DEF Filling!FastCloneTree, FillingRows!FastCloneTree, Filling!Keys, FillingRows!Keys,
         Filling!Aux, FillingRows!Aux
<1>8. \A t, k, f : Filling!FillTree(t, k, f) = FillingRows!FillTree(t, k, f)
  BY DEF Filling!FillTree, FillingRows!FillTree, Filling!Aux, FillingRows!Aux, Filling!Dummy,
         FillingRows!Dummy
<1>9. \A t, k, f : Filling!WriteOne(t, k, f) = FillingRows!WriteOne(t, k, f)
  BY <1>8 DEF Filling!WriteOne, FillingRows!WriteOne
<1>10. \A t, s, n, f, c : Filling!BeginInputFile(t, s, n, f, c) = FillingRows!BeginInputFile(t, s, n, f, c)
  BY <1>5, <1>7 DEF Filling!BeginInputFile, FillingRows!BeginInputFile
<1> QED BY <1>1, <1>2, <1>3, <1>4, <1>5, <1>6, <1>7, <1>8, <1>9, <1>10

LEMMA FillingModule ==
  /\ \A m, f : Filling!SelectProducts(m, f) = FillingRows!SelectProducts(m, f)
  /\ \A m, n, f : Filling!RespondToOpenInputFile(m, n, f) = FillingRows!RespondToOpenInputFile(m, n, f)
  /\ \A m, n, f : Filling!OpenOutputFile(m, n, f) = FillingRows!OpenOutputFile(m, n, f)
  /\ \A m : Filling!RespondToCloseInputFile(m) = FillingRows!RespondToCloseInputFile(m)
  /\ \A m : Filling!CloseOutputFile(m) = FillingRows!CloseOutputFile(m)
<1>1. \A m, f : Filling!SelectProducts(m, f) = FillingRows!SelectProducts(m, f)
  BY FillingTrees DEF Filling!SelectProducts, FillingRows!SelectProducts
<1>2. \A m, n, f : Filling!RespondToOpenInputFile(m, n, f) = FillingRows!RespondToOpenInputFile(m, n, f)
  BY FillingTrees DEF Filling!RespondToOpenInputFile, FillingRows!RespondToOpenInputFile,
         Filling!FastClonable, FillingRows!FastClonable
<1>3. \A m, n, f : Filling!OpenOutputFile(m, n, f) = FillingRows!OpenOutputFile(m, n, f)
  BY FillingTrees, <1>2 DEF Filling!OpenOutputFile, FillingRows!OpenOutputFile
<1>4. \A m : Filling!RespondToCloseInputFile(m) = FillingRows!RespondToCloseInputFile(m)
  BY FillingTrees DEF Filling!RespondToCloseInputFile, FillingRows!RespondToCloseInputFile
<1>5. \A m : Filling!CloseOutputFile(m) = FillingRows!CloseOutputFile(m)
  BY FillingTrees DEF Filling!CloseOutputFile, FillingRows!CloseOutputFile
<1> QED BY <1>1, <1>2, <1>3, <1>4, <1>5

LEMMA FillingProcessor ==
  /\ Filling!Module = FillingRows!Module
  /\ \A m, n : Filling!OpenInput(m, n) = FillingRows!OpenInput(m, n)
  /\ \A m, n : Filling!OpenOutput(m, n) = FillingRows!OpenOutput(m, n)
  /\ \A m : Filling!CloseInput(m) = FillingRows!CloseInput(m)
  /\ \A m : Filling!CloseOutput(m) = FillingRows!CloseOutput(m)
  /\ \A f : Filling!ReadOrder(f) = FillingRows!ReadOrder(f)
<1>1. Filling!Module = FillingRows!Module
  BY DEF Filling!Module, FillingRows!Module
<1>2. \A m, n : Filling!OpenInput(m, n) = FillingRows!OpenInput(m, n)
  BY FillingModule DEF Filling!OpenInput, FillingRows!OpenInput, Filling!IfEnabled,
         FillingRows!IfEnabled
<1>3. \A m, n : Filling!OpenOutput(m, n) = FillingRows!OpenOutput(m, n)
  BY FillingModule DEF Filling!OpenOutput, FillingRows!OpenOutput, Filling!IfEnabled,
         FillingRows!IfEnabled
<1>4. \A m : Filling!CloseInput(m) = FillingRows!CloseInput(m)
  BY FillingModule DEF Filling!CloseInput, FillingRows!CloseInput, Filling!IfEnabled,
         FillingRows!IfEnabled
<1>5. \A m : Filling!CloseOutput(m) = FillingRows!CloseOutput(m)
  BY FillingModule DEF Filling!CloseOutput, FillingRows!CloseOutput, Filling!IfEnabled,
         FillingRows!IfEnabled
<1>6. \A f : Filling!ReadOrder(f) = FillingRows!ReadOrder(f)
  BY DEF Filling!ReadOrder, FillingRows!ReadOrder, Filling!SkipsSome, FillingRows!SkipsSome,
         Filling!SeenBefore, FillingRows!SeenBefore
<1> QED BY <1>1, <1>2, <1>3, <1>4, <1>5, <1>6

LEMMA FillingSteps == Filling!Next => FillingRows!Next
<1>1. Filling!OpenFiles => FillingRows!OpenFiles
  BY FillingProcessor DEF Filling!OpenFiles, FillingRows!OpenFiles, Filling!Becomes,
         FillingRows!Becomes
<1>2. Filling!NextInput => FillingRows!NextInput
  BY FillingTrees, FillingProcessor DEF Filling!NextInput, FillingRows!NextInput,
         Filling!Becomes, FillingRows!Becomes
<1>3. Filling!WriteEvent => FillingRows!WriteEvent
  BY FillingTrees DEF Filling!WriteEvent, FillingRows!WriteEvent
<1>4. Filling!WriteFailed => FillingRows!WriteFailed
  BY FillingTrees DEF Filling!WriteFailed, FillingRows!WriteFailed
<1>5. Filling!Shutdown => FillingRows!Shutdown
  BY DEF Filling!Shutdown, FillingRows!Shutdown
<1>6. Filling!CloseFiles => FillingRows!CloseFiles
  BY FillingProcessor DEF Filling!CloseFiles, FillingRows!CloseFiles, Filling!Becomes,
         FillingRows!Becomes
<1>7. Filling!SetEnabled => FillingRows!SetEnabled
  BY DEF Filling!SetEnabled, FillingRows!SetEnabled
<1> QED BY <1>1, <1>2, <1>3, <1>4, <1>5, <1>6, <1>7 DEF Filling!Next, FillingRows!Next

\* The database is that of MCOutput.

LEMMA DatabaseOperators ==
  /\ Database!Closed = OutputFiles!Closed
  /\ \A n, u : Database!RoundUp(n, u) = OutputFiles!RoundUp(n, u)
  /\ \A b, n : Database!Realloc(b, n) = OutputFiles!Realloc(b, n)
  /\ \A b, n : Database!ClearedFrom(b, n) = OutputFiles!ClearedFrom(b, n)
  /\ \A n : Database!Calloc(n) = OutputFiles!Calloc(n)
  /\ \A c : Database!OpenMain(c) = OutputFiles!OpenMain(c)
  /\ Database!OpenOther = OutputFiles!OpenOther
  /\ \A f, o, c : Database!SeekAndWrite(f, o, c) = OutputFiles!SeekAndWrite(f, o, c)
  /\ \A w, o, c : Database!Overwritten(w, o, c) = OutputFiles!Overwritten(w, o, c)
  /\ \A w, n : Database!Resized(w, n) = OutputFiles!Resized(w, n)
  /\ \A f, n : Database!TruncateTo(f, n) = OutputFiles!TruncateTo(f, n)
  /\ \A f, n : Database!SizeHint(f, n) = OutputFiles!SizeHint(f, n)
  /\ \A f : Database!StoredCells(f) = OutputFiles!StoredCells(f)
  /\ Database!Unwritten = OutputFiles!Unwritten
  /\ \A f, o, a : Database!UnixRead(f, o, a) = OutputFiles!UnixRead(f, o, a)
  /\ \A c, w : Database!Agrees(c, w) = OutputFiles!Agrees(c, w)
<1>1. Database!Closed = OutputFiles!Closed
  BY DEF Database!Closed, OutputFiles!Closed
<1>2. \A n, u : Database!RoundUp(n, u) = OutputFiles!RoundUp(n, u)
  BY DEF Database!RoundUp, OutputFiles!RoundUp
<1>3. \A b, n : Database!Realloc(b, n) = OutputFiles!Realloc(b, n)
  BY DEF Database!Realloc, OutputFiles!Realloc, Database!Junk, OutputFiles!Junk
<1>4. \A b, n : Database!ClearedFrom(b, n) = OutputFiles!ClearedFrom(b, n)
  BY DEF Database!ClearedFrom, OutputFiles!ClearedFrom, Database!Zero, OutputFiles!Zero
<1>5. \A n : Database!Calloc(n) = OutputFiles!Calloc(n)
  BY DEF Database!Calloc, OutputFiles!Calloc, Database!Zero, OutputFiles!Zero
<1>6. \A c : Database!OpenMain(c) = OutputFiles!OpenMain(c)
  BY <1>2, <1>3, <1>5 DEF Database!OpenMain, OutputFiles!OpenMain, Database!UnixFile,
         OutputFiles!UnixFile, Database!NewestCycle, OutputFiles!NewestCycle
<1>7. Database!OpenOther = OutputFiles!OpenOther
  BY <1>5 DEF Database!OpenOther, OutputFiles!OpenOther, Database!UnixFile,
         OutputFiles!UnixFile
<1>8. \A f, o, c : Database!SeekAndWrite(f, o, c) = OutputFiles!SeekAndWrite(f, o, c)
  <2>1. \A f, n : Database!Enlarged(f, n) = OutputFiles!Enlarged(f, n)
    BY <1>2, <1>3, <1>4 DEF Database!Enlarged, OutputFiles!Enlarged
  <2> TAKE f, o, c
  <2>2. Database!Enlarged(f, o + Len(c)) = OutputFiles!Enlarged(f, o + Len(c))
    BY <2>1, Zenon
  <2> QED BY <2>2, Zenon DEF Database!SeekAndWrite, OutputFiles!SeekAndWrite
<1>9. \A w, o, c : Database!Overwritten(w, o, c) = OutputFiles!Overwritten(w, o, c)
  BY DEF Database!Overwritten, OutputFiles!Overwritten, Database!Unwritten,
         OutputFiles!Unwritten
<1>10. \A w, n : Database!Resized(w, n) = OutputFiles!Resized(w, n)
  BY DEF Database!Resized, OutputFiles!Resized, Database!Unwritten, OutputFiles!Unwritten
<1>11. \A f, n : Database!TruncateTo(f, n) = OutputFiles!TruncateTo(f, n)
  BY <1>2, <1>3, <1>4, <1>5 DEF Database!TruncateTo, OutputFiles!TruncateTo
<1>12. \A f, n : Database!SizeHint(f, n) = OutputFiles!SizeHint(f, n)
  BY <1>2, <1>3, <1>4 DEF Database!SizeHint, OutputFiles!SizeHint
<1>13. \A f : Database!StoredCells(f) = OutputFiles!StoredCells(f)
  BY DEF Database!StoredCells, OutputFiles!StoredCells
<1>14. Database!Unwritten = OutputFiles!Unwritten
  BY DEF Database!Unwritten, OutputFiles!Unwritten
<1>15. \A f, o, a : Database!UnixRead(f, o, a) = OutputFiles!UnixRead(f, o, a)
  BY DEF Database!UnixRead, OutputFiles!UnixRead, Database!SeekAndRead,
         OutputFiles!SeekAndRead, Database!Cell, OutputFiles!Cell, Database!Zero,
         OutputFiles!Zero, Database!Junk, OutputFiles!Junk
<1>16. \A c, w : Database!Agrees(c, w) = OutputFiles!Agrees(c, w)
  BY DEF Database!Agrees, OutputFiles!Agrees, Database!Unwritten, OutputFiles!Unwritten
<1> QED BY <1>1, <1>2, <1>3, <1>4, <1>5, <1>6, <1>7, <1>8, <1>9, <1>10, <1>11, <1>12, <1>13,
          <1>14, <1>15, <1>16

LEMMA DatabaseStarts == Database!Init => OutputFiles!Init
  BY DatabaseOperators DEF Database!Init, OutputFiles!Init

LEMMA DatabaseSteps == Database!Next => OutputFiles!Next
<1>1. \A h : Database!Open(h) => OutputFiles!Open(h)
  BY DatabaseOperators DEF Database!Open, OutputFiles!Open
<1>2. \A h : Database!CloseUnixFile(h) => OutputFiles!CloseUnixFile(h)
  BY DatabaseOperators DEF Database!CloseUnixFile, OutputFiles!CloseUnixFile
<1>3. \A h : Database!FileControl(h) => OutputFiles!FileControl(h)
  BY DatabaseOperators DEF Database!FileControl, OutputFiles!FileControl
<1>4. \A h, n : Database!UnixTruncate(h, n) => OutputFiles!UnixTruncate(h, n)
  BY DatabaseOperators DEF Database!UnixTruncate, OutputFiles!UnixTruncate
<1>5. \A h, o, c : Database!UnixWrite(h, o, c) => OutputFiles!UnixWrite(h, o, c)
  BY DatabaseOperators DEF Database!UnixWrite, OutputFiles!UnixWrite
<1>6. Database!ReopenRootFile => OutputFiles!ReopenRootFile
  BY DatabaseOperators DEF Database!ReopenRootFile, OutputFiles!ReopenRootFile
<1> QED BY <1>1, <1>2, <1>3, <1>4, <1>5, <1>6 DEF Database!Next, OutputFiles!Next

LEMMA DatabaseProperties ==
  /\ OutputFiles!CyclesKept => Database!CyclesKept
  /\ OutputFiles!ReadsBack => Database!ReadsBack
BY DatabaseOperators
   DEF Database!CyclesKept, OutputFiles!CyclesKept, Database!ReadsBack, OutputFiles!ReadsBack

LEMMA DatabaseAssumption == OutputFiles!VFSAssumption
<1>1. << 1 >> \in Seq(Nat) \ {<<>>}
  OBVIOUS
<1> QED BY <1>1 DEF OutputFiles!VFSAssumption

\* What is said of the files is that of MCOutput.

LEMMA StatsOperators ==
  /\ Stats!None = OutputFiles!Stats!None
  /\ Stats!Absent = OutputFiles!Stats!Absent
  /\ \A r, s : Stats!SubRunID(r, s) = OutputFiles!Stats!SubRunID(r, s)
  /\ \A r, s, e : Stats!EventID(r, s, e) = OutputFiles!Stats!EventID(r, s, e)
  /\ Stats!NoSubRun = OutputFiles!Stats!NoSubRun
  /\ Stats!NoEvent = OutputFiles!Stats!NoEvent
  /\ \A a, b : Stats!SubRunLess(a, b) = OutputFiles!Stats!SubRunLess(a, b)
  /\ \A a, b : Stats!EventLess(a, b) = OutputFiles!Stats!EventLess(a, b)
  /\ Stats!NewStats = OutputFiles!Stats!NewStats
  /\ \A st : Stats!Reset(st) = OutputFiles!Stats!Reset(st)
  /\ \A st : Stats!RecordFileOpen(st) = OutputFiles!Stats!RecordFileOpen(st)
  /\ \A st, f : Stats!RecordInputFile(st, f) = OutputFiles!Stats!RecordInputFile(st, f)
  /\ \A st, r : Stats!RecordRun(st, r) = OutputFiles!Stats!RecordRun(st, r)
  /\ \A st, sr : Stats!RecordSubRun(st, sr) = OutputFiles!Stats!RecordSubRun(st, sr)
  /\ \A st, id : Stats!RecordEvent(st, id) = OutputFiles!Stats!RecordEvent(st, id)
  /\ \A st : Stats!RecordFileClose(st) = OutputFiles!Stats!RecordFileClose(st)
  /\ \A S : Stats!Cardinality(S) = OutputFiles!Stats!Cardinality(S)
  /\ \A S : Stats!InOrder(S) = OutputFiles!Stats!InOrder(S)
  /\ \A t : Stats!Rewound(t) = OutputFiles!Stats!Rewound(t)
  /\ \A S : Stats!RunsValue(S) = OutputFiles!Stats!RunsValue(S)
  /\ \A st : Stats!Metadata(st) = OutputFiles!Stats!Metadata(st)
  /\ Stats!Digits = OutputFiles!Stats!Digits
  /\ \A n : Stats!Number(n) = OutputFiles!Stats!Number(n)
  /\ \A st, c : Stats!Substitution(st, c) = OutputFiles!Stats!Substitution(st, c)
  /\ \A st : Stats!ApplySubstitutions(st) = OutputFiles!Stats!ApplySubstitutions(st)
  /\ \A n : Stats!NamedBy(n) = OutputFiles!Stats!NamedBy(n)
  /\ \A x, n : Stats!MaybeRenameFile(x, n) = OutputFiles!Stats!MaybeRenameFile(x, n)
  /\ \A rec : Stats!EventsOf(rec) = OutputFiles!Stats!EventsOf(rec)
  /\ \A rec : Stats!RunsOf(rec) = OutputFiles!Stats!RunsOf(rec)
  /\ \A rec : Stats!SubRunsOf(rec) = OutputFiles!Stats!SubRunsOf(rec)
  /\ \A a, rec : Stats!IsLowest(a, rec) = OutputFiles!Stats!IsLowest(a, rec)
  /\ \A a, rec : Stats!IsHighest(a, rec) = OutputFiles!Stats!IsHighest(a, rec)
<1>1. Stats!None = OutputFiles!Stats!None
  BY DEF Stats!None, OutputFiles!Stats!None
<1>2. Stats!Absent = OutputFiles!Stats!Absent
  BY DEF Stats!Absent, OutputFiles!Stats!Absent
<1>3. \A r, s : Stats!SubRunID(r, s) = OutputFiles!Stats!SubRunID(r, s)
  BY DEF Stats!SubRunID, OutputFiles!Stats!SubRunID
<1>4. \A r, s, e : Stats!EventID(r, s, e) = OutputFiles!Stats!EventID(r, s, e)
  BY DEF Stats!EventID, OutputFiles!Stats!EventID
<1>5. Stats!NoSubRun = OutputFiles!Stats!NoSubRun
  BY <1>3, <1>1 DEF Stats!NoSubRun, OutputFiles!Stats!NoSubRun
<1>6. Stats!NoEvent = OutputFiles!Stats!NoEvent
  BY <1>4, <1>1 DEF Stats!NoEvent, OutputFiles!Stats!NoEvent
<1>7. \A a, b : Stats!SubRunLess(a, b) = OutputFiles!Stats!SubRunLess(a, b)
  BY DEF Stats!SubRunLess, OutputFiles!Stats!SubRunLess
<1>8. \A a, b : Stats!EventLess(a, b) = OutputFiles!Stats!EventLess(a, b)
  BY <1>7 DEF Stats!EventLess, OutputFiles!Stats!EventLess
<1>9. Stats!NewStats = OutputFiles!Stats!NewStats
  BY <1>5, <1>6, <1>2 DEF Stats!NewStats, OutputFiles!Stats!NewStats
<1>10. \A st : Stats!Reset(st) = OutputFiles!Stats!Reset(st)
  BY <1>5 DEF Stats!Reset, OutputFiles!Stats!Reset
<1>11. \A st : Stats!RecordFileOpen(st) = OutputFiles!Stats!RecordFileOpen(st)
  BY <1>10 DEF Stats!RecordFileOpen, OutputFiles!Stats!RecordFileOpen
<1>12. \A st, f : Stats!RecordInputFile(st, f) = OutputFiles!Stats!RecordInputFile(st, f)
  BY DEF Stats!RecordInputFile, OutputFiles!Stats!RecordInputFile
<1>13. \A st, r : Stats!RecordRun(st, r) = OutputFiles!Stats!RecordRun(st, r)
  BY <1>1, <1>3 DEF Stats!RecordRun, OutputFiles!Stats!RecordRun
<1>14. \A st, sr : Stats!RecordSubRun(st, sr) = OutputFiles!Stats!RecordSubRun(st, sr)
  BY <1>13, <1>1, <1>7 DEF Stats!RecordSubRun, OutputFiles!Stats!RecordSubRun
<1>15. \A st, id : Stats!RecordEvent(st, id) = OutputFiles!Stats!RecordEvent(st, id)
  BY <1>14, <1>6, <1>8, <1>3 DEF Stats!RecordEvent, OutputFiles!Stats!RecordEvent
<1>16. \A st : Stats!RecordFileClose(st) = OutputFiles!Stats!RecordFileClose(st)
  BY DEF Stats!RecordFileClose, OutputFiles!Stats!RecordFileClose
<1>17. \A S : Stats!Cardinality(S) = OutputFiles!Stats!Cardinality(S)
  BY DEF Stats!Cardinality, OutputFiles!Stats!Cardinality
<1>18. \A S : Stats!InOrder(S) = OutputFiles!Stats!InOrder(S)
  BY DEF Stats!InOrder, OutputFiles!Stats!InOrder, Stats!SubRunLess,
         OutputFiles!Stats!SubRunLess, Stats!Cardinality, OutputFiles!Stats!Cardinality
<1>19. \A t : Stats!Rewound(t) = OutputFiles!Stats!Rewound(t)
  BY DEF Stats!Rewound, OutputFiles!Stats!Rewound
<1>20. \A S : Stats!RunsValue(S) = OutputFiles!Stats!RunsValue(S)
  BY <1>18, <1>19 DEF Stats!RunsValue, OutputFiles!Stats!RunsValue
<1>21. \A st : Stats!Metadata(st) = OutputFiles!Stats!Metadata(st)
  BY <1>20 DEF Stats!Metadata, OutputFiles!Stats!Metadata
<1>32. Stats!Digits = OutputFiles!Stats!Digits
  BY DEF Stats!Digits, OutputFiles!Stats!Digits, Stats!Digit, OutputFiles!Stats!Digit
<1>22. \A n : Stats!Number(n) = OutputFiles!Stats!Number(n)
  BY <1>1, <1>32 DEF Stats!Number, OutputFiles!Stats!Number
<1>23. \A st, c : Stats!Substitution(st, c) = OutputFiles!Stats!Substitution(st, c)
  BY <1>22 DEF Stats!Substitution, OutputFiles!Stats!Substitution
<1>24. \A st : Stats!ApplySubstitutions(st) = OutputFiles!Stats!ApplySubstitutions(st)
  <2> DEFINE P == <<"r", "_", "s", "_", "R", "_", "S", "_", "#", "_", "if">>
  <2>1. \A seqs : Stats!FlattenSeq(seqs) = OutputFiles!Stats!FlattenSeq(seqs)
    BY DEF Stats!FlattenSeq, OutputFiles!Stats!FlattenSeq
  <2> TAKE st
  <2>2. /\ Stats!ApplySubstitutions(st) = Stats!FlattenSeq([i \in DOMAIN P |-> Stats!Substitution(st, P[i])])
        /\ OutputFiles!Stats!ApplySubstitutions(st)
             = OutputFiles!Stats!FlattenSeq([i \in DOMAIN P |-> OutputFiles!Stats!Substitution(st, P[i])])
    BY DEF Stats!ApplySubstitutions, OutputFiles!Stats!ApplySubstitutions
  <2> HIDE DEF P
  <2>3. [i \in DOMAIN P |-> Stats!Substitution(st, P[i])]
          = [i \in DOMAIN P |-> OutputFiles!Stats!Substitution(st, P[i])]
    BY <1>23
  <2> QED BY <2>1, <2>2, <2>3
<1>25. \A x, n : Stats!MaybeRenameFile(x, n) = OutputFiles!Stats!MaybeRenameFile(x, n)
  BY DEF Stats!MaybeRenameFile, OutputFiles!Stats!MaybeRenameFile
<1>26. \A rec : Stats!EventsOf(rec) = OutputFiles!Stats!EventsOf(rec)
  BY DEF Stats!EventsOf, OutputFiles!Stats!EventsOf
<1>27. \A rec : Stats!RunsOf(rec) = OutputFiles!Stats!RunsOf(rec)
  BY DEF Stats!RunsOf, OutputFiles!Stats!RunsOf
<1>28. \A rec : Stats!SubRunsOf(rec) = OutputFiles!Stats!SubRunsOf(rec)
  BY <1>3 DEF Stats!SubRunsOf, OutputFiles!Stats!SubRunsOf
<1>29. \A a, rec : Stats!IsLowest(a, rec) = OutputFiles!Stats!IsLowest(a, rec)
  BY <1>28, <1>27, <1>5, <1>1 DEF Stats!IsLowest, OutputFiles!Stats!IsLowest
<1>30. \A a, rec : Stats!IsHighest(a, rec) = OutputFiles!Stats!IsHighest(a, rec)
  BY <1>28, <1>27, <1>5, <1>1 DEF Stats!IsHighest, OutputFiles!Stats!IsHighest
<1>31. \A n : Stats!NamedBy(n) = OutputFiles!Stats!NamedBy(n)
  BY <1>1, <1>2 DEF Stats!NamedBy, OutputFiles!Stats!NamedBy
<1> QED BY <1>31, <1>32, <1>1, <1>2, <1>3, <1>4, <1>5, <1>6, <1>7, <1>8, <1>9, <1>10, <1>11, <1>12,
         <1>13, <1>14, <1>15, <1>16, <1>17, <1>18, <1>19, <1>20, <1>21, <1>22, <1>23,
         <1>24, <1>25, <1>26, <1>27, <1>28, <1>29, <1>30

LEMMA StatsStarts == Stats!Init => OutputFiles!Stats!Init
  BY StatsOperators DEF Stats!Init, OutputFiles!Stats!Init

LEMMA StatsSteps == Stats!Next => OutputFiles!Stats!Next
<1>1. \A f : Stats!OpenInput(f) => OutputFiles!Stats!OpenInput(f)
  BY StatsOperators DEF Stats!OpenInput, OutputFiles!Stats!OpenInput
<1>2. Stats!OpenOutput => OutputFiles!Stats!OpenOutput
  BY StatsOperators DEF Stats!OpenOutput, OutputFiles!Stats!OpenOutput
<1>3. \A r : Stats!BeginRun(r) => OutputFiles!Stats!BeginRun(r)
  BY StatsOperators DEF Stats!BeginRun, OutputFiles!Stats!BeginRun
<1>4. \A s : Stats!BeginSubRun(s) => OutputFiles!Stats!BeginSubRun(s)
  BY StatsOperators DEF Stats!BeginSubRun, OutputFiles!Stats!BeginSubRun
<1>5. \A e : Stats!WriteEvent(e) => OutputFiles!Stats!WriteEvent(e)
  BY StatsOperators DEF Stats!WriteEvent, OutputFiles!Stats!WriteEvent, Stats!Written, OutputFiles!Stats!Written,
         Stats!Room, OutputFiles!Stats!Room
<1>6. Stats!WriteSubRun => OutputFiles!Stats!WriteSubRun
  BY StatsOperators DEF Stats!WriteSubRun, OutputFiles!Stats!WriteSubRun, Stats!Written, OutputFiles!Stats!Written,
         Stats!Room, OutputFiles!Stats!Room
<1>7. Stats!WriteRun => OutputFiles!Stats!WriteRun
  BY StatsOperators DEF Stats!WriteRun, OutputFiles!Stats!WriteRun, Stats!Written, OutputFiles!Stats!Written,
         Stats!Room, OutputFiles!Stats!Room
<1>8. Stats!CloseOutput => OutputFiles!Stats!CloseOutput
  BY StatsOperators DEF Stats!CloseOutput, OutputFiles!Stats!CloseOutput
<1> QED BY <1>1, <1>2, <1>3, <1>4, <1>5, <1>6, <1>7, <1>8 DEF Stats!Next, OutputFiles!Stats!Next

LEMMA StatsProperties ==
  /\ OutputFiles!Stats!RangeOfFile => Stats!RangeOfFile
  /\ OutputFiles!Stats!ParentsOfFile => Stats!ParentsOfFile
  /\ OutputFiles!Stats!EachFileKept => Stats!EachFileKept
BY StatsOperators
   DEF Stats!RangeOfFile, OutputFiles!Stats!RangeOfFile, Stats!ParentsOfFile,
       OutputFiles!Stats!ParentsOfFile, Stats!EachFileKept, OutputFiles!Stats!EachFileKept

LEMMA StatsAssumed == OutputFiles!Stats!StatsAssumption /\ OutputFiles!Stats!Numbered
<1>1. OutputFiles!Stats!StatsAssumption
  BY OutputAssumption DEF Stats!StatsAssumption, OutputFiles!Stats!StatsAssumption
<1>2. OutputFiles!Stats!Numbered
  BY OutputAssumption, StatsOperators DEF Stats!Numbered, OutputFiles!Stats!Numbered
<1> QED BY <1>1, <1>2

LEMMA CloningRowsAligned == CloningRows!RowsAligned => Cloning!RowsAligned
  BY DEF Cloning!RowsAligned, Cloning!Datum, Cloning!Aux, Cloning!Dummy,
         CloningRows!RowsAligned, CloningRows!Datum, CloningRows!Aux, CloningRows!Dummy

LEMMA CloningSameEntries == CloningRows!SameEntries => Cloning!SameEntries
  BY DEF Cloning!SameEntries, CloningRows!SameEntries

LEMMA FillingRowsAligned == FillingRows!RowsAligned => Filling!RowsAligned
  BY DEF Filling!RowsAligned, Filling!Datum, Filling!Aux, Filling!Dummy,
         FillingRows!RowsAligned, FillingRows!Datum, FillingRows!Aux, FillingRows!Dummy

LEMMA CloningWrittenOnce == CloningRows!WrittenOnce => Cloning!WrittenOnce
  BY DEF Cloning!WrittenOnce, Cloning!indexed, Cloning!EventsOf, Cloning!IsOpen, Cloning!Closed,
         CloningRows!WrittenOnce, CloningRows!indexed, CloningRows!EventsOf, CloningRows!IsOpen,
         CloningRows!Closed

LEMMA FillingWrittenOnce == FillingRows!WrittenOnce => Filling!WrittenOnce
  BY DEF Filling!WrittenOnce, Filling!indexed, Filling!EventsOf, Filling!IsOpen, Filling!Closed,
         FillingRows!WrittenOnce, FillingRows!indexed, FillingRows!EventsOf, FillingRows!IsOpen,
         FillingRows!Closed

\* A step of a behaviour of one kind is one of that part.
LEMMA KindOfStep ==
  ASSUME [Next]_allVars
  PROVE  /\ kind' = kind
         /\ kind = "cloning" => Cloning!Next \/ UNCHANGED <<outputVars, files>>
         /\ kind = "filling" => Filling!Next \/ UNCHANGED <<outputVars, files>>
         /\ kind = "database" => Database!Next \/ UNCHANGED databaseVars
         /\ kind = "stats" => Stats!Next \/ UNCHANGED <<statsVars, files>>
<1>1. CASE UNCHANGED allVars
  BY <1>1 DEF allVars
<1>2. CASE CloningStep
  BY <1>2 DEF CloningStep
<1>3. CASE FillingStep
  BY <1>3 DEF FillingStep
<1>4. CASE DatabaseStep
  BY <1>4 DEF DatabaseStep
<1>5. CASE SelectorStep \/ ByOldStep \/ ByBothStep \/ TakesAllStep
  BY <1>5 DEF SelectorStep, ByOldStep, ByBothStep, TakesAllStep
<1>6. CASE StatsStep
  BY <1>6 DEF StatsStep
<1> QED BY <1>1, <1>2, <1>3, <1>4, <1>5, <1>6 DEF Next

-----------------------------------------------------------------------------
(* The inductive invariant.                                                 *)

OutputInv ==
  /\ kind = "cloning" => CloningRows!OnceInv
  /\ kind = "filling" => FillingRows!OnceInv

LEMMA OutputStarts == Init => OutputInv
<1> SUFFICES ASSUME Init PROVE OutputInv
  OBVIOUS
<1>1. (kind = "cloning" => Cloning!Init) /\ (kind = "filling" => Filling!Init)
  BY DEF Init
<1>2. ASSUME kind = "cloning" PROVE CloningRows!OnceInv
  BY <1>1, <1>2, CloningStarts, CloningPlain, CloningRows!RowsStart, CloningRows!EventsStart
     DEF CloningRows!OnceInv
<1>3. ASSUME kind = "filling" PROVE FillingRows!OnceInv
  BY <1>1, <1>3, FillingStarts, FillingPlain, FillingRows!RowsStart, FillingRows!EventsStart
     DEF FillingRows!OnceInv
<1> QED BY <1>2, <1>3 DEF OutputInv

LEMMA CloningGoesOn ==
  ASSUME CloningRows!OnceInv, Cloning!Next \/ UNCHANGED <<outputVars, files>>
  PROVE  CloningRows!OnceInv'
<1>1. [CloningRows!Next]_(CloningRows!vars)
  BY CloningSteps DEF outputVars, CloningRows!vars
<1>2. CloningRows!RowsInv'
  BY <1>1, CloningPlain, CloningRows!RowsSteps DEF CloningRows!OnceInv
<1>3. CloningRows!EventsInOrder'
  BY <1>1, CloningPlain, CloningRows!EventsSteps DEF CloningRows!OnceInv
<1> QED BY <1>2, <1>3 DEF CloningRows!OnceInv

LEMMA FillingGoesOn ==
  ASSUME FillingRows!OnceInv, Filling!Next \/ UNCHANGED <<outputVars, files>>
  PROVE  FillingRows!OnceInv'
<1>1. [FillingRows!Next]_(FillingRows!vars)
  BY FillingSteps DEF outputVars, FillingRows!vars
<1>2. FillingRows!RowsInv'
  BY <1>1, FillingPlain, FillingRows!RowsSteps DEF FillingRows!OnceInv
<1>3. FillingRows!EventsInOrder'
  BY <1>1, FillingPlain, FillingRows!EventsSteps DEF FillingRows!OnceInv
<1> QED BY <1>2, <1>3 DEF FillingRows!OnceInv

LEMMA OutputSteps == OutputInv /\ [Next]_allVars => OutputInv'
<1> SUFFICES ASSUME OutputInv, [Next]_allVars PROVE OutputInv'
  OBVIOUS
<1>1. kind' = kind
  BY KindOfStep
<1>2. ASSUME kind = "cloning" PROVE CloningRows!OnceInv'
  BY <1>2, KindOfStep, CloningGoesOn DEF OutputInv
<1>3. ASSUME kind = "filling" PROVE FillingRows!OnceInv'
  BY <1>3, KindOfStep, FillingGoesOn DEF OutputInv
<1> QED BY <1>1, <1>2, <1>3 DEF OutputInv

-----------------------------------------------------------------------------
\* In each file that MCOutput writes, the index leads to the rows of its events, all
\* branches have a row for each event, and the events to be written are in the
\* files once and in order.
THEOREM OutputRowsAligned == Spec => []RowsAligned
<1>1. OutputInv => RowsAligned
  <2> SUFFICES ASSUME OutputInv PROVE RowsAligned
    OBVIOUS
  <2>1. ASSUME kind = "cloning" PROVE Cloning!RowsAligned /\ Cloning!WrittenOnce /\ Cloning!SameEntries
    <3>1. CloningRows!RowsInv /\ CloningRows!EventsInOrder
      BY <2>1 DEF OutputInv, CloningRows!OnceInv
    <3>2. CloningRows!RowsAligned /\ CloningRows!SameEntries /\ CloningRows!WrittenOnce
      BY <3>1, CloningRows!AlignedRows, CloningRows!LevelRows, CloningRows!OnceWritten
    <3> QED BY <3>2, CloningRowsAligned, CloningWrittenOnce, CloningSameEntries
  <2>2. ASSUME kind = "filling" PROVE Filling!RowsAligned /\ Filling!WrittenOnce
    <3>1. FillingRows!RowsInv /\ FillingRows!EventsInOrder
      BY <2>2 DEF OutputInv, FillingRows!OnceInv
    <3>2. FillingRows!RowsAligned /\ FillingRows!WrittenOnce
      BY <3>1, FillingRows!AlignedRows, FillingRows!OnceWritten
    <3> QED BY <3>2, FillingRowsAligned, FillingWrittenOnce
  <2> QED BY <2>1, <2>2 DEF RowsAligned
<1> QED BY <1>1, OutputStarts, OutputSteps, PTL DEF Spec

-----------------------------------------------------------------------------
LEMMA DatabaseGoesOn ==
  ASSUME OutputFiles!VFSInv, Database!Next \/ UNCHANGED databaseVars
  PROVE  OutputFiles!VFSInv'
<1>1. [OutputFiles!Next]_(OutputFiles!vfsVars)
  BY DatabaseSteps DEF databaseVars, OutputFiles!vfsVars
<1> QED BY <1>1, DatabaseAssumption, OutputFiles!VFSSteps

\* What was written to the database of MCOutput is read back, and found in the file by
\* a later job.
THEOREM OutputDatabaseSurvives == Spec => []DatabaseSurvives
<1> DEFINE Inv == kind = "database" => OutputFiles!VFSInv
<1>1. Init => Inv
  <2>1. Init /\ kind = "database" => Database!Init
    BY DEF Init
  <2> QED BY <2>1, DatabaseStarts, DatabaseAssumption, OutputFiles!VFSStarts
<1>2. Inv /\ [Next]_allVars => Inv'
  <2>1. [Next]_allVars => kind' = kind
    BY KindOfStep
  <2>2. kind = "database" /\ [Next]_allVars => Database!Next \/ UNCHANGED databaseVars
    BY KindOfStep
  <2> QED BY <2>1, <2>2, DatabaseGoesOn
<1>3. Inv => DatabaseSurvives
  BY DatabaseProperties, OutputFiles!KeptCycles, OutputFiles!KeptFiles DEF DatabaseSurvives
<1> QED BY <1>1, <1>2, <1>3, PTL DEF Spec

LEMMA StatsGoOn ==
  ASSUME OutputFiles!StatsInv, OutputFiles!KeptInv, Stats!Next \/ UNCHANGED <<statsVars, files>>
  PROVE  OutputFiles!StatsInv' /\ OutputFiles!KeptInv'
<1>1. [OutputFiles!Stats!Next]_(OutputFiles!Stats!vars)
  BY StatsSteps DEF statsVars, OutputFiles!Stats!vars
<1> QED BY <1>1, StatsAssumed, OutputFiles!StatsSteps, OutputFiles!KeptSteps

\* The output files of MCOutput are named by the range of what was written to them,
\* list the input files they were made from, and none replaces another (their names
\* separate the sequence number: OutputAssumption).
THEOREM OutputFilesDescribed == Spec => []FilesDescribed
<1> DEFINE Inv == kind = "stats" => OutputFiles!StatsInv /\ OutputFiles!KeptInv
<1>1. Init => Inv
  <2>1. Init /\ kind = "stats" => Stats!Init
    BY DEF Init
  <2> QED BY <2>1, StatsStarts, StatsAssumed, OutputFiles!StatsStarts, OutputFiles!KeptStarts
<1>2. Inv /\ [Next]_allVars => Inv'
  <2>1. [Next]_allVars => kind' = kind
    BY KindOfStep
  <2>2. kind = "stats" /\ [Next]_allVars => Stats!Next \/ UNCHANGED <<statsVars, files>>
    BY KindOfStep
  <2> QED BY <2>1, <2>2, StatsGoOn
<1>3. Inv => FilesDescribed
  <2>1. OutputFiles!StatsInv /\ OutputFiles!KeptInv =>
          /\ OutputFiles!Stats!RangeOfFile /\ OutputFiles!Stats!ParentsOfFile
          /\ OutputFiles!Stats!EachFileKept
    BY DEF OutputFiles!StatsInv, OutputFiles!ParentsFit, OutputFiles!KeptInv
  <2> QED BY <2>1, StatsProperties DEF FilesDescribed
<1> QED BY <1>1, <1>2, <1>3, PTL DEF Spec
=============================================================================
