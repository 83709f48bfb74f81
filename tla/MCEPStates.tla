----------------------------- MODULE MCEPStates -----------------------------
(* Instances of EPStates for TLC, and its properties in groups. *)
EXTENDS EPStates

AllConfigurations == [fileMode : FileModes, handleEmptyRuns : BOOLEAN, handleEmptySubRuns : BOOLEAN]

\* Every file mode with the parameters that put off empty sub-runs; the default
\* configuration (FULLMERGE) and MERGE with every empty run and sub-run handled;
\* two modes that handle no empty sub-run.
SafetyConfigurations ==
  {c \in AllConfigurations :
     \/ c.handleEmptySubRuns /\ ~c.handleEmptyRuns
     \/ c.handleEmptySubRuns /\ c.handleEmptyRuns /\ c.fileMode \in {"MERGE", "FULLMERGE"}
     \/ ~c.handleEmptySubRuns /\ ~c.handleEmptyRuns /\ c.fileMode = "NOMERGE"
     \/ ~c.handleEmptySubRuns /\ c.handleEmptyRuns /\ c.fileMode = "FULLLUMIMERGE"}

\* For liveness: one configuration that puts off empty sub-runs and one that
\* refuses split runs and handles every empty run.
LoopConfigurations ==
  {[fileMode |-> "NOMERGE", handleEmptyRuns |-> FALSE, handleEmptySubRuns |-> TRUE],
   [fileMode |-> "MERGE", handleEmptyRuns |-> TRUE, handleEmptySubRuns |-> TRUE]}

\* The file mode in which a sub-run put off twice has left the cache.
NoMergeDeferring == [fileMode : {"NOMERGE"}, handleEmptyRuns : {FALSE}, handleEmptySubRuns : {TRUE}]
=============================================================================
