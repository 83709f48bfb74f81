------------------------ MODULE OccurrenceProtocol ------------------------
(***************************************************************************)
(* What a module, an output module or a service may rely on about the order *)
(* of the calls it gets, whatever the input, the file mode and the          *)
(* exceptions: the abstract specification that EPStates implements.         *)
(* A begin is a begin call that returned, an end is an end call that was    *)
(* tried.                                                                   *)
(***************************************************************************)
EXTENDS Integers

CONSTANTS Runs, SubRunNums

VARIABLES input, output,    \* is the input file, are the output files, open?
          runs, subRuns,    \* begun and not ended
          orphans           \* may a sub-run begin outside its run? fixed for the job

vars == <<input, output, runs, subRuns, orphans>>

Init == ~input /\ ~output /\ runs = {} /\ subRuns = {} /\ orphans \in BOOLEAN

OpenInput == ~input /\ input' /\ UNCHANGED <<output, runs, subRuns, orphans>>

\* A run may go on in the next input file.
CloseInput == input /\ ~input' /\ UNCHANGED <<output, runs, subRuns, orphans>>

OpenOutput == input /\ ~output /\ output' /\ UNCHANGED <<input, runs, subRuns, orphans>>

\* Output files are closed between runs only.
CloseOutput ==
  /\ output /\ runs = {} /\ subRuns = {}
  /\ ~output' /\ UNCHANGED <<input, runs, subRuns, orphans>>

\* One run at a time, one sub-run at a time, the sub-run inside its run.
BeginRun(r) ==
  /\ output /\ runs = {} /\ subRuns = {}
  /\ runs' = {r} /\ UNCHANGED <<input, output, subRuns, orphans>>

EndRun(r) ==
  /\ output /\ runs = {r} /\ subRuns = {}
  /\ runs' = {} /\ UNCHANGED <<input, output, subRuns, orphans>>

BeginSubRun(r, n) ==
  /\ output /\ subRuns = {}
  /\ runs = {r} \/ (orphans /\ runs = {})
  /\ subRuns' = {<<r, n>>} /\ UNCHANGED <<input, output, runs, orphans>>

EndSubRun(r, n) ==
  /\ output /\ subRuns = {<<r, n>>}
  /\ runs = {r} \/ (orphans /\ runs = {})
  /\ subRuns' = {} /\ UNCHANGED <<input, output, runs, orphans>>

Next ==
  \/ OpenInput \/ CloseInput \/ OpenOutput \/ CloseOutput
  \/ \E r \in Runs : \/ BeginRun(r) \/ EndRun(r)
                     \/ \E n \in SubRunNums : BeginSubRun(r, n) \/ EndSubRun(r, n)

Spec == Init /\ [][Next]_vars
=============================================================================
