--------------------------- MODULE PrincipalCache ---------------------------
(***************************************************************************)
(* The cache of run and sub-run principals that the EventProcessor keeps    *)
(* between reading a run or a sub-run and writing it                        *)
(* (art/Framework/Core/PrincipalCache.cc).  A principal is abstracted to    *)
(* its identifier: a run is a positive number, a sub-run the pair of its    *)
(* run and of its own number.  The maps runPrincipals_ and                  *)
(* subRunPrincipals_ become the sets of their keys; the shared pointers     *)
(* currentRunPrincipal_ and currentSubRunPrincipal_ become the identifier   *)
(* of the principal they point to.                                          *)
(***************************************************************************)
EXTENDS Integers

CONSTANTS Runs,             \* the valid run numbers
          SubRunNums,       \* the valid sub-run numbers
          FlushRuns,        \* those of them that are flush markers: a source uses
          FlushSubRunNums   \* one to close a run or a sub-run without a new one

ASSUME IdAssumption == /\ Runs \subseteq Nat \ {0} /\ SubRunNums \subseteq Nat \ {0}
                       /\ FlushRuns \subseteq Runs /\ FlushSubRunNums \subseteq SubRunNums

SubRunIDs == Runs \X SubRunNums

\* SubRunID::isFlush(), which looks at the sub-run number only.
FlushSubRuns == {sr \in SubRunIDs : sr[2] \in FlushSubRunNums}

\* RunID() and SubRunID(): the default identifiers, which are not valid.
NoRun == 0
NoSubRun == <<0, 0>>

RunOf(sr) == sr[1]

Cache == [runs : SUBSET Runs, subRuns : SUBSET SubRunIDs,
          currentRun : Runs \cup {NoRun}, currentSubRun : SubRunIDs \cup {NoSubRun}]

EmptyCache == [runs |-> {}, subRuns |-> {}, currentRun |-> NoRun, currentSubRun |-> NoSubRun]

-----------------------------------------------------------------------------
\* insert(): a principal already cached absorbs the new one (mergeRun,
\* mergeSubRun), and in both cases becomes the current principal.
InsertRun(c, r) == [c EXCEPT !.runs = @ \cup {r}, !.currentRun = r]
InsertSubRun(c, sr) == [c EXCEPT !.subRuns = @ \cup {sr}, !.currentSubRun = sr]

\* deleteRun(), deleteSubRun() and their "lowest" variants: the entry leaves
\* the map, the current principal stays alive through its shared pointer.
DeleteRun(c, r) == [c EXCEPT !.runs = @ \ {r}]
DeleteSubRun(c, sr) == [c EXCEPT !.subRuns = @ \ {sr}]

\* runPrincipal(id), subRunPrincipal(id): find, and throw if it is missing.
FindsRun(c, r) == r \in c.runs
FindsSubRun(c, sr) == sr \in c.subRuns

\* The order of std::map<SubRunID, ...>: by run, then by sub-run number.
SubRunLeq(a, b) == a[1] < b[1] \/ (a[1] = b[1] /\ a[2] <= b[2])

\* lowestRun(), lowestSubRun(): the first entry of the map.
IsLowestRun(c, r) == r \in c.runs /\ \A other \in c.runs : r <= other
IsLowestSubRun(c, sr) == sr \in c.subRuns /\ \A other \in c.subRuns : SubRunLeq(sr, other)
=============================================================================
