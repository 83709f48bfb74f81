------------------------------ MODULE Services ------------------------------
(* The services of an EventProcessor.  They are configured by name, made in   *)
(* the order of their names or when another asks for them, and looked up      *)
(* through the manager the thread was given for the time of a call; they hear *)
(* of what happens through the signals they watch from their constructors on. *)
(* In the end the members of the EventProcessor go, in the reverse order of   *)
(* their declaration: the source, the context, the path manager with its      *)
(* modules, and then the services.                                            *)
EXTENDS Naturals, Sequences, FiniteSets, SequencesExt

CONSTANTS
  Plugins,    \* name of a library -> what it provides, a record as PluginOf makes
  TypeOrder,  \* the types in the order of TypeID, a sequence
  Configurations, \* what may be in the "services" of a job, records as ConfigurationOf makes
  Modules,    \* the source and the modules in the order of their making: the services that
              \* each asks for, a sequence of records of [asks, again], where `again' says
              \* whether its destructor asks too
  MaxSignals  \* bound on the signals and on the reconfigurations

VARIABLES
  stage,      \* how far the EventProcessor is
  settings,   \* the configuration of the job
  manager,    \* ServicesManager, NoManager before it is made
  building,   \* the constructors of services that run, the innermost first
  context,    \* ServiceRegistry: whether the thread has the manager, and the tokens kept
  slots,      \* ActivityRegistry: a FIFO signal and a LIFO signal, and the services called last
  made,       \* the services in the order of construction
  modules,    \* how many of the modules there are
  gone        \* the services that were destroyed, in that order; and the stages at which a
              \* destructor asked for a service in vain

vars == <<stage, settings, manager, building, context, slots, made, modules, gone>>

\* A request of a constructor: for a type, always or if it is available.
Request(type, optional) == [type |-> type, optional |-> optional]

\* The type of a service and the interface it is an implementation of, "" if none;
\* the interface that the library has a helper for; what the constructor asks for.
PluginOf(type, iface, requests) ==
  [type |-> type, isInterface |-> FALSE, iface |-> iface, helper |-> iface,
   requests |-> requests, throws |-> FALSE]

\* The services by name, a sequence of pairs of a name and a library in the order of
\* the names; those of "user", where a library may be "", no table; whether the
\* Tracer is wanted and whether PathSelection is.
ConfigurationOf(services, user) ==
  [services |-> services, user |-> user, tracer |-> FALSE, pathSelection |-> FALSE]

NoManager == [factory |-> <<>>, index |-> <<>>, requested |-> <<>>, creation |-> <<>>]

Init ==
  /\ stage = "start" /\ settings = ConfigurationOf(<<>>, <<>>)
  /\ manager = NoManager /\ building = <<>>
  /\ context = [set |-> FALSE, tokens |-> <<>>]
  /\ slots = [pre |-> <<>>, post |-> <<>>, called |-> <<>>, signals |-> 0]
  /\ made = <<>> /\ modules = 0 /\ gone = [services |-> <<>>, denied |-> {}]

-----------------------------------------------------------------------------
(* What is configured.                                                       *)

Names(pairs) == {pairs[i][1] : i \in DOMAIN pairs}

\* initServices_(): what is in "user" counts as if it were in "services".
Clashes(config) ==
  \E i \in DOMAIN config.user :
    config.user[i][2] = "" \/ config.user[i][1] \in Names(config.services)

\* extractServices(): the Tracer first, if it has no configuration of its own, then
\* the service all jobs have, then the others in the order of their names.
Extracted(config) ==
  LET all == config.services \o config.user
      named == SelectSeq(all, LAMBDA p : p[1] = "FileCatalogMetadata")
      others == SelectSeq(all, LAMBDA p : p[1] # "FileCatalogMetadata")
  IN (IF config.tracer /\ "Tracer" \notin Names(all) THEN <<<<"Tracer", "Tracer">>>> ELSE <<>>)
       \o (IF named = <<>> THEN <<<<"FileCatalogMetadata", "FileCatalogMetadata">>>> ELSE named)
       \o others

\* fillCache_() throws: the library is that of an interface, or the service and its
\* interface do not belong together, or the implementation is named and not the interface.
Refused(pair) ==
  LET p == Plugins[pair[2]]
  IN \/ p.isInterface
     \/ p.iface # "" /\ (p.helper # p.iface \/ pair[1] = pair[2])

\* An entry of the factory: the type that implements it, its configuration, and
\* the place of its object among those made, 0 if it has none.
Entry(impl, plugin, object) == [impl |-> impl, plugin |-> plugin, config |-> 1, object |-> object]

\* map::insert(): what is there stays.
Insert(factory, type, entry) == IF type \in DOMAIN factory THEN factory ELSE (type :> entry) @@ factory

\* The body of the loop of fillCache_().
FillOne(m, pair) ==
  LET p == Plugins[pair[2]]
      impls == Insert(m.factory, p.type, Entry(p.type, pair[2], 0))
  IN [m EXCEPT !.factory = IF p.iface = "" THEN impls ELSE Insert(impls, p.iface, Entry(p.type, pair[2], 0)),
               !.index = (pair[1] :> p.type) @@ @,
               !.requested = Append(@, p.type)]

FilledCache(pairs) == FoldLeft(FillOne, NoManager, pairs)

SystemServices(config) ==
  <<"CurrentModule", "TriggerNamesService", "FloatingPointControl", "ScheduleContext">>
    \o (IF config.pathSelection THEN <<"PathSelection">> ELSE <<>>)

\* ServicesManager::put().
Put(m, type, object) ==
  [m EXCEPT !.factory = (type :> Entry(type, "", object)) @@ @, !.creation = <<object>> \o @]

\* The EventProcessor is not made: what there is of it is destroyed.
Fail == stage' = "failed" /\ building' = <<>> /\ context' = [set |-> FALSE, tokens |-> <<>>]

\* The members pathManager_ and serviceDirector_: no service is made but those that
\* need special construction; one of these may not be configured.
InitServices(config) ==
  /\ stage = "start"
  /\ settings' = config
  /\ LET pairs == Extracted(config)
         system == SystemServices(config)
         filled == FilledCache(pairs)
     IN IF Clashes(config) \/ \E i \in DOMAIN pairs : Refused(pairs[i])
        THEN Fail /\ UNCHANGED <<manager, made, slots>>
        ELSE LET first == CHOOSE n \in 0 .. Len(system) :
                            /\ n < Len(system) => system[n + 1] \in DOMAIN filled.factory
                            /\ \A i \in 1 .. n : system[i] \notin DOMAIN filled.factory
             IN /\ manager' = FoldLeft(LAMBDA m, i : Put(m, system[i], i), filled, [i \in 1 .. first |-> i])
                /\ made' = [i \in 1 .. first |-> [type |-> system[i], config |-> 1]]
                /\ slots' = [slots EXCEPT !.pre = IF first > 0 THEN <<"CurrentModule">> ELSE <<>>]
                /\ IF first < Len(system) THEN Fail
                   ELSE stage' = "services" /\ building' = <<>> /\ context' = [set |-> TRUE, tokens |-> <<FALSE>>]
  /\ UNCHANGED <<modules, gone>>

-----------------------------------------------------------------------------
(* Making services.                                                          *)

Object(m, type) == m.factory[type].object

\* ServiceCacheEntry::makeAndCacheService(): the constructor begins; it watches a
\* signal of each kind at once.
Begin(type, forced) ==
  /\ building' = <<[type |-> type, forced |-> forced, next |-> 1]>> \o building
  /\ slots' = [slots EXCEPT !.pre = Append(@, type), !.post = <<type>> \o @]

\* ServicesManager::forceCreation(): the next of those requested that is not there.
ForceCreation ==
  /\ stage = "services" /\ building = <<>>
  /\ LET missing == SelectSeq(manager.requested, LAMBDA t : Object(manager, t) = 0)
     IN IF missing = <<>>
        THEN stage' = "modules" /\ UNCHANGED <<building, slots>>
        ELSE Begin(missing[1], TRUE) /\ UNCHANGED stage
  /\ UNCHANGED <<settings, manager, context, made, modules, gone>>

Frame == building[1]
Requests(type) == Plugins[manager.factory[type].plugin].requests

\* The entries of interfaces get the object of its implementation.
Converted(m, types) ==
  [m EXCEPT !.factory = [t \in DOMAIN @ |-> IF t \in types
                                            THEN [m.factory[t] EXCEPT !.object = Object(m, m.factory[t].impl)]
                                            ELSE m.factory[t]]]

\* The constructor of a service asks for another one, through ServiceRegistry::get()
\* and ServiceCacheEntry::getService(); it is made if need be.  A cycle of services
\* that ask for each other has no end: it exhausts the stack.
RequestService ==
  /\ building # <<>> /\ Frame.next <= Len(Requests(Frame.type))
  /\ LET r == Requests(Frame.type)[Frame.next]
         known == r.type \in DOMAIN manager.factory
         impl == manager.factory[r.type].impl
     IN \/ /\ ~known /\ r.optional
           /\ building' = [building EXCEPT ![1].next = @ + 1]
           /\ UNCHANGED <<stage, manager, context, slots>>
        \/ ~known /\ ~r.optional /\ Fail /\ UNCHANGED <<manager, slots>>
        \/ /\ known /\ Object(manager, impl) # 0
           /\ manager' = Converted(manager, {r.type})
           /\ building' = [building EXCEPT ![1].next = @ + 1]
           /\ UNCHANGED <<stage, context, slots>>
        \/ /\ known /\ Object(manager, impl) = 0
           /\ IF \E i \in DOMAIN building : building[i].type = impl
              THEN stage' = "aborted" /\ UNCHANGED <<building, slots>>
              ELSE Begin(impl, FALSE) /\ UNCHANGED stage
           /\ UNCHANGED <<manager, context>>
  /\ UNCHANGED <<settings, made, modules, gone>>

\* The constructor returns or throws.  Only what was not forced goes onto the stack
\* of what was created.
FinishService ==
  /\ building # <<>> /\ Frame.next > Len(Requests(Frame.type))
  /\ LET entry == manager.factory[Frame.type]
     IN IF Plugins[entry.plugin].throws
        THEN Fail /\ UNCHANGED <<manager, made>>
        ELSE /\ made' = Append(made, [type |-> Frame.type, config |-> entry.config])
             /\ manager' = [manager EXCEPT !.factory[Frame.type].object = Len(made'),
                                           !.creation = IF Frame.forced THEN @ ELSE <<Len(made')>> \o @]
             /\ building' = Tail(building)
             /\ UNCHANGED <<stage, context>>
  /\ UNCHANGED <<settings, slots, modules, gone>>

-----------------------------------------------------------------------------
(* Using services.                                                           *)

\* The module after those there are is constructed, between two signals; the first
\* stands for the source, the others are the path manager's.
MakeModule ==
  /\ stage = "modules" /\ modules < Len(Modules)
  /\ IF ~Modules[modules + 1].asks \subseteq DOMAIN manager.factory
     THEN /\ slots' = [slots EXCEPT !.called = slots.pre]
          /\ Fail /\ UNCHANGED <<manager, modules>>
     ELSE /\ slots' = [slots EXCEPT !.called = slots.pre \o slots.post]
          /\ manager' = Converted(manager, Modules[modules + 1].asks)
          /\ modules' = modules + 1
          /\ UNCHANGED <<stage, building, context>>
  /\ UNCHANGED <<settings, made, gone>>

\* The EventProcessor is made: `operate' goes.
Constructed ==
  /\ stage = "modules" /\ modules = Len(Modules)
  /\ stage' = "idle"
  /\ context' = [set |-> Head(context.tokens), tokens |-> Tail(context.tokens)]
  /\ UNCHANGED <<settings, manager, building, slots, made, modules, gone>>

\* beginJob(), runToCompletion() and endJob(), each with an Operate of its own, which
\* keeps what was set before; endJob() is called inside another one by tests.
Enter ==
  /\ stage = "idle" /\ Len(context.tokens) < 2
  /\ context' = [set |-> TRUE, tokens |-> <<context.set>> \o context.tokens]
  /\ UNCHANGED <<stage, settings, manager, building, slots, made, modules, gone>>

Leave ==
  /\ stage = "idle" /\ context.tokens # <<>>
  /\ context' = [set |-> Head(context.tokens), tokens |-> Tail(context.tokens)]
  /\ UNCHANGED <<stage, settings, manager, building, slots, made, modules, gone>>

\* One of the signals of each kind is sent.
Signal(kind) ==
  /\ stage = "idle" /\ context.set /\ slots.signals < MaxSignals
  /\ slots' = [slots EXCEPT !.called = slots[kind], !.signals = @ + 1]
  /\ UNCHANGED <<stage, settings, manager, building, context, made, modules, gone>>

\* ServicesManager::putParameterSets(): the entry that the name stands for, that of
\* an implementation, gets the other configuration, and so does its object.
Reconfigure(name) ==
  /\ stage = "idle" /\ slots.signals < MaxSignals
  /\ LET type == manager.index[name]
         config == 3 - manager.factory[type].config
     IN /\ manager' = [manager EXCEPT !.factory[type].config = config]
        /\ made' = [made EXCEPT ![Object(manager, type)].config = config]
  /\ slots' = [slots EXCEPT !.called = slots.post, !.signals = @ + 1]
  /\ UNCHANGED <<stage, settings, building, context, modules, gone>>

-----------------------------------------------------------------------------
(* The end.                                                                  *)

\* ~EventProcessor(): the services are made available until destructorOperate_ goes.
Destroy ==
  /\ stage = "idle" /\ context.tokens = <<>>
  /\ stage' = "ending" /\ context' = [set |-> TRUE, tokens |-> <<context.set>>]
  /\ UNCHANGED <<settings, manager, building, slots, made, modules, gone>>

\* A destructor that asks for a service where there is none throws.
Denied(i) == Modules[i].again /\ ~context.set

\* The member input_, and the schedules, which do not own their modules.
DestroySource ==
  /\ stage \in {"ending", "failed"}
  /\ stage' = IF modules > 0 /\ Denied(1) THEN "aborted"
              ELSE IF stage = "ending" THEN "sourceless" ELSE "orphaned"
  /\ gone' = [gone EXCEPT !.denied = IF modules > 0 /\ Denied(1) THEN @ \union {stage} ELSE @]
  /\ UNCHANGED <<settings, manager, building, context, slots, made, modules>>

\* The member destructorOperate_.
ReleaseContext ==
  /\ stage = "sourceless" /\ context.tokens # <<>>
  /\ context' = [set |-> Head(context.tokens), tokens |-> Tail(context.tokens)]
  /\ UNCHANGED <<stage, settings, manager, building, slots, made, modules, gone>>

\* The member pathManager_ with the workers and their modules.
DestroyPathManager ==
  /\ stage \in {"sourceless", "orphaned"} /\ context.tokens = <<>>
  /\ LET denied == \E i \in 2 .. modules : Denied(i)
     IN /\ stage' = IF denied THEN "aborted" ELSE "services only"
        /\ gone' = [gone EXCEPT !.denied = IF denied THEN @ \union {stage} ELSE @]
  /\ modules' = 0
  /\ UNCHANGED <<settings, manager, building, context, slots, made>>

\* Faulty: the entry of an interface and that of its implementation each own the object.
ClearedTwice ==
  LET Has(t) == t \in DOMAIN manager.factory /\ Object(manager, t) # 0
      Goes(i) == /\ Has(TypeOrder[i])
                 /\ Object(manager, TypeOrder[i]) \notin Range(manager.creation)
      last == SelectSeq([i \in DOMAIN TypeOrder |-> i], Goes)
  IN [k \in DOMAIN last |-> Object(manager, TypeOrder[last[k]])]

\* What is destroyed when the entries of the factory go in the order of their types:
\* an object goes with the last entry that has it, unless it is on the stack.
Cleared ==
  LET Has(t) == t \in DOMAIN manager.factory /\ Object(manager, t) # 0
      Later(i) == \E j \in i + 1 .. Len(TypeOrder) :
                    Has(TypeOrder[j]) /\ Object(manager, TypeOrder[j]) = Object(manager, TypeOrder[i])
      Goes(i) == /\ Has(TypeOrder[i]) /\ ~Later(i)
                 /\ Object(manager, TypeOrder[i]) \notin Range(manager.creation)
      last == SelectSeq([i \in DOMAIN TypeOrder |-> i], Goes)
  IN [k \in DOMAIN last |-> Object(manager, TypeOrder[last[k]])]

\* ServicesManager::~ServicesManager(), called for the last token.
DestroyManager ==
  /\ stage = "services only"
  /\ gone' = [gone EXCEPT !.services = Cleared \o manager.creation]
  /\ manager' = NoManager
  /\ stage' = "end"
  /\ UNCHANGED <<settings, building, context, slots, made, modules>>

Next ==
  \/ \E config \in Configurations : InitServices(config)
  \/ ForceCreation \/ RequestService \/ FinishService
  \/ MakeModule \/ Constructed \/ Enter \/ Leave
  \/ \E signal \in {"pre", "post"} : Signal(signal)
  \/ \E name \in DOMAIN manager.index : Reconfigure(name)
  \/ Destroy \/ DestroySource \/ ReleaseContext \/ DestroyPathManager \/ DestroyManager

Spec == Init /\ [][Next]_vars

-----------------------------------------------------------------------------
\* Service i asked in its constructor for service j; system services ask for none.
AsksFor(i, j) ==
  LET plugin == manager.factory[made[i].type].plugin
  IN plugin # "" /\ \E r \in Range(Plugins[plugin].requests) :
                      r.type \in DOMAIN manager.factory /\ Object(manager, r.type) = j

\* The entry of each type has the object of its implementation or none yet; the
\* object was finished, its constructor returned, before any other's that asked for
\* it did; no type has two objects; and an object has the configuration of its entry.
ObjectsAreShared ==
  /\ \A t \in DOMAIN manager.factory :
       LET e == manager.factory[t]
       IN e.object # 0 => /\ e.object = Object(manager, e.impl)
                          /\ made[e.object].type = e.impl
                          /\ made[e.object].config = manager.factory[e.impl].config
  /\ manager # NoManager =>
       \A i, j \in DOMAIN made :
         /\ made[i].type = made[j].type => i = j
         /\ AsksFor(i, j) => j < i

\* After the constructor of the EventProcessor every service that was configured is
\* there, and every call returns the thread to where it was: services are there
\* while a call runs, and not between calls.
ServicesAreThere ==
  /\ stage \in {"modules", "idle"} => \A t \in Range(manager.requested) : Object(manager, t) # 0
  /\ context.set <=> context.tokens # <<>>

\* The two signals of a construction are brackets: who is called first before a
\* module is made is called last after it, each watcher once, and it is there.
CallsNest ==
  /\ stage \in {"modules", "idle"} /\ Len(slots.called) > Len(slots.pre) =>
       LET watchers == SelectSeq(slots.called, LAMBDA t : t # "CurrentModule")
       IN watchers = Reverse(watchers) /\ Len(slots.called) = Len(slots.pre) + Len(slots.post)
  /\ \A t \in Range(slots.called) : \E i \in DOMAIN made : made[i].type = t

\* In the end each service is destroyed, once; those that were made because another
\* asked for them go last, in the reverse order of their construction, and with
\* them the system services.
DestroyedInOrder ==
  stage = "end" =>
    /\ Len(gone.services) = Len(made) /\ Range(gone.services) = DOMAIN made
    /\ \A i, j \in DOMAIN made :
         i < j /\ made[i].type \in Range(SystemServices(settings)) =>
           \E m, n \in DOMAIN made : m < n /\ gone.services[m] = j /\ gone.services[n] = i

\* ~EventProcessor() says that "services stay usable until it goes out of scope,
\* meaning that modules may (say) use services in their destructors".
ModulesMayUseServices == "sourceless" \notin gone.denied
=============================================================================
