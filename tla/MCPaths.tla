------------------------------ MODULE MCPaths ------------------------------
(* Instances of Paths for TLC. *)
EXTENDS Paths

Step(w, f) == [worker |-> w, filter |-> f]

\* A filter and a producer on two paths, the second with the filter inverted and
\* whatever the producer says; another producer may run on demand only.
TwoPaths == <<<<Step("filter", "Normal"), Step("producer", "Normal")>>,
              <<Step("filter", "Veto"), Step("producer", "Ignore")>>>>

\* Two paths that use a producer alike.
SharedProducer == <<<<Step("producer", "Normal"), Step("filter", "Normal")>>,
                    <<Step("producer", "Normal")>>>>

\* A job of analyzers has no trigger path.
NoTriggerPath == <<>>

\* One end path, and two joined by the path manager that share an analyzer.
Outputs == <<Step("analyzer", "Normal"), Step("output", "Normal")>>
TwoEnds == <<Step("analyzer", "Normal"), Step("analyzer", "Normal"), Step("output", "Normal")>>

\* Tables by the actions of the category of modules, of foreign exceptions, of
\* cycles of requests and of what the end path throws.
TablesOf(user, foreign, cycle, wrapped) ==
  {[c \in Categories |-> CASE c = "StdException" -> f
                          [] c = "ScheduleExecutionFailure" -> y
                          [] c = "EventProcessorFailure" -> e
                          [] OTHER -> u] : u \in user, f \in foreign, y \in cycle, e \in wrapped}

SafetyTables == TablesOf(ActionCodes, ActionCodes, {"Rethrow", "IgnoreCompletely", "SkipEvent"},
                         {"Rethrow"})
                \cup TablesOf(ActionCodes, {"Rethrow"}, {"Rethrow"}, {"IgnoreCompletely"})
OneTablePerAction == TablesOf(ActionCodes, {"Rethrow"}, {"Rethrow"}, {"Rethrow"})
=============================================================================
