---------------------------- MODULE EventObserver ----------------------------
(***************************************************************************)
(* The event selection of an analyzer or output module (EventObserver,     *)
(* CachedProducts, OutputModule::doEvent, EDAnalyzer::doEvent).            *)
(*                                                                         *)
(* The specifications are grouped by process, with one selector for each.  *)
(* The results of an earlier process come with the identifier of its       *)
(* parameter set, under which the registry has the names of its paths.  An *)
(* event is the sequence of the results the processes put into it, the     *)
(* current process last.                                                   *)
(***************************************************************************)
EXTENDS EventSelector

CONSTANTS
  PathSpecs,     \* SelectEvents: a sequence of [spec, process], process "" where none is given
  ProcessOrder,  \* the names of processes as a map sorts them
  ThisProcess,   \* the name of the current process
  TrigPaths,     \* the names of its trigger paths
  Registered,    \* [parameter set identifier -> names of paths]: ParameterSetRegistry
  Writes,        \* the module is an output module
  Tolerated      \* the categories of exceptions the job goes on after

VARIABLES
  selectors,     \* p_and_e_selectors_: the process, its EventSelector and triggerResults_
  loadDone,
  numberFound,
  running,       \* no exception has stopped the job
  last           \* the latest event and what became of it

vars == <<selectors, loadDone, numberFound, running, last>>

NoID == "none"            \* psetID_ before psetID_initialized_
NoResults == [process |-> "", id |-> NoID, states |-> <<>>]   \* an invalid handle

WantAllEvents == PathSpecs = <<>>

-----------------------------------------------------------------------------
\* Construction.

\* setup: the specifications of a process, in the order they were given.
PathsFor(process) ==
  LET own == SelectSeq(PathSpecs, LAMBDA p : process = IF p.process = "" THEN ThisProcess ELSE p.process)
  IN [i \in DOMAIN own |-> own[i].spec]

NewProcessSelector(process) ==
  [process |-> process, psetID |-> NoID, triggerResults |-> NoResults,
   select |-> IF process = ThisProcess THEN InitSelector(PathsFor(process), TrigPaths) ELSE NewSelector]

DefaultSelector ==
  [process |-> "", psetID |-> NoID, triggerResults |-> NoResults, select |-> InitSelector(<<>>, TrigPaths)]

SetUp ==
  IF WantAllEvents THEN <<DefaultSelector>>
  ELSE LET named == SelectSeq(ProcessOrder, LAMBDA p : PathsFor(p) # <<>>)
       IN [k \in DOMAIN named |-> NewProcessSelector(named[k])]

-----------------------------------------------------------------------------
\* One event.  The operators work on obs, the members of the module and what
\* became of the event so far; after an exception nothing is done any more.

\* get: the results of the process, or of the latest one for "".
ResultsOf(process, event) ==
  LET found == SelectSeq(event, LAMBDA r : process \in {"", r.process})
  IN IF found = <<>> THEN NoResults ELSE found[Len(found)]

LoadTriggerResults(obs, event) ==
  IF obs.loadDone THEN obs
  ELSE [obs EXCEPT !.loadDone = TRUE, !.numberFound = @ + Len(obs.selectors),
          !.selectors = [k \in DOMAIN @ |->
             [@[k] EXCEPT !.triggerResults = ResultsOf(obs.selectors[k].process, event)]]]

Raise(obs, category) == [obs EXCEPT !.raised = category]

RenewedWith(sel, new) == [sel EXCEPT !.select = new, !.psetID = IF new.failed THEN @ ELSE sel.triggerResults.id]
Renewed(sel) == RenewedWith(sel, InitSelector(PathsFor(sel.process), Registered[sel.triggerResults.id]))

\* Faulty: the names are looked up once.
RenewOnce(sel) ==
  IF sel.process \in {ThisProcess, ""} THEN sel
  ELSE IF sel.psetID # NoID THEN [sel EXCEPT !.psetID = sel.triggerResults.id]
  ELSE Renewed(sel)

\* acceptEvent, first part: the selector of another process is made anew when
\* the names may have changed; the identifier is kept once that has worked.
Renew(sel) ==
  IF sel.process \in {ThisProcess, ""} \/ sel.psetID = sel.triggerResults.id THEN sel ELSE Renewed(sel)

\* match of one selector, unless an earlier one has matched.
MatchBy(obs, sel, tr) ==
  IF ~sel.select.accept_all /\ sel.process \notin {ThisProcess, ""} /\ sel.psetID # tr.id THEN Raise(obs, "Configuration")
  ELSE IF ~(Positions(sel.select) \subseteq DOMAIN tr.states) THEN Raise(obs, "out_of_range")
  ELSE [obs EXCEPT !.wanted = SelectionDecision(sel.select, tr.states)]
MatchWith(obs, k, sel) == MatchBy([obs EXCEPT !.selectors[k] = sel], sel, sel.triggerResults)
MatchSelector(obs, k, sel) ==
  IF obs.wanted \/ obs.raised # "" THEN obs
  ELSE IF sel.triggerResults = NoResults THEN Raise(obs, "ProductNotFound")
  ELSE MatchWith(obs, k, IF sel.select.accept_all THEN sel ELSE Renew(sel))
Match(obs, k) == MatchSelector(obs, k, obs.selectors[k])

MatchAll(obs) == FoldLeft(Match, obs, [k \in DOMAIN obs.selectors |-> k])
WantEvent(obs, event) == MatchAll(LoadTriggerResults(obs, event))

\* getOneTriggerResults.
GetOne(obs) ==
  IF obs.numberFound = 1 THEN [obs EXCEPT !.given = obs.selectors[1].triggerResults]
  ELSE Raise(obs, "ProductNotFound")
GetTriggerResults(obs, event) == GetOne(LoadTriggerResults(obs, event))

\* The destructor of PVSentry.
ClearTriggerResults(obs) ==
  [obs EXCEPT !.loadDone = FALSE, !.numberFound = 0,
     !.selectors = [k \in DOMAIN @ |-> [@[k] EXCEPT !.triggerResults = NoResults]]]

\* What the module does with an event it wants: an output module writes it and
\* declares it to the catalog with its results, an analyzer may ask for them.
Declare(obs) == [obs EXCEPT !.declared = obs.raised = ""]
Process(obs, event, asks) ==
  IF obs.raised # "" \/ ~obs.wanted THEN obs
  ELSE IF Writes THEN Declare(GetTriggerResults([obs EXCEPT !.written = TRUE], event))
  ELSE IF asks THEN GetTriggerResults(obs, event)
  ELSE obs

Observed ==
  [selectors |-> selectors, loadDone |-> loadDone, numberFound |-> numberFound,
   wanted |-> FALSE, raised |-> "", written |-> FALSE, declared |-> FALSE, given |-> NoResults]

Outcome(event, obs) ==
  [event |-> event, wanted |-> obs.wanted, raised |-> obs.raised,
   written |-> obs.written, declared |-> obs.declared, given |-> obs.given]

Init ==
  /\ selectors = SetUp
  /\ loadDone = FALSE /\ numberFound = 0
  /\ running = \A k \in DOMAIN selectors : ~selectors[k].select.failed
  /\ last = Outcome(<<>>, Observed)

Chosen(event) == IF WantAllEvents THEN [Observed EXCEPT !.wanted = TRUE] ELSE WantEvent(Observed, event)

DoEvent(event, asks) ==
  /\ running
  /\ \E done \in {Process(Chosen(event), event, asks)} :
       /\ running' = (done.raised \in Tolerated \union {""})
       /\ last' = Outcome(event, done)
       /\ \E cleared \in {ClearTriggerResults(done)} :
            /\ selectors' = cleared.selectors
            /\ loadDone' = cleared.loadDone
            /\ numberFound' = cleared.numberFound
=============================================================================
