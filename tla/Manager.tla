-------------------------------- MODULE Manager -------------------------------
(***************************************************************************)
(* Manager of pkg/queue/manager.go and the configuration of the workers it *)
(* makes (newWorker, Worker.Use, Worker.Register). A worker gets a copy of *)
(* the manager's handlers, the manager's middleware slice itself, and the  *)
(* manager's event bus.                                                    *)
(***************************************************************************)
EXTENDS EventBus, SequencesExt

CONSTANTS Worker,
          JobName,
          MaxUse,       \* bound: calls of Use
          MaxRegister   \* bound: calls of Register

Mgr == "manager"
Owner == Worker \cup {Mgr}

ASSUME ManagerAssumption ==
    /\ MaxUse \in Nat
    /\ MaxRegister \in Nat
    /\ Mgr \notin Worker

VARIABLES middleware,  \* Manager.middleware, and the slice of each worker's pipeline
          arrays,      \* the arrays of the slices
          handlers,    \* Manager.handlers and Worker.handlers, as references
          maps,        \* the maps they refer to
          made,        \* the workers made so far
          given,       \* history: the middleware each owner was given
          registered,  \* history: the handlers each owner was given
          uses,        \* how often Use was called; the middleware used n-th is n
          registers    \* how often Register was called, likewise

manager == <<middleware, arrays, handlers, maps, made, given, registered, uses, registers>>

NoHandlers == [j \in JobName |-> 0]

Init ==
    /\ BusInit
    /\ middleware = [o \in Owner |-> NilSlice]
    /\ arrays = EmptyHeap
    /\ handlers = [o \in Owner |-> 1]
    /\ maps = <<NoHandlers>>
    /\ made = {}
    /\ given = [o \in Owner |-> <<>>]
    /\ registered = [o \in Owner |-> NoHandlers]
    /\ uses = 0
    /\ registers = 0

-----------------------------------------------------------------------------
Install(o, a) ==
    /\ o \in made \cup {Mgr}
    /\ uses < MaxUse
    /\ middleware' = [middleware EXCEPT ![o] = a.slice]
    /\ arrays' = a.heap
    /\ given' = [given EXCEPT ![o] = Append(@, uses + 1)]
    /\ uses' = uses + 1
    /\ UNCHANGED <<bus, handlers, maps, made, registered, registers>>

(* Mutant: the new middleware goes outermost.                              *)
UsePrepends(o) ==
    Install(o, Allocate(arrays, <<uses + 1>> \o Contents(arrays, middleware[o]),
                        middleware[o].len + 1))

(* Manager.Use, and Worker.Use as Pipeline.Use.                            *)
Use(o) == Install(o, AppendTo(arrays, middleware[o], uses + 1))

(* Manager.Register and Worker.Register.                                   *)
Register(o, j) ==
    /\ o \in made \cup {Mgr}
    /\ registers < MaxRegister
    /\ maps' = [maps EXCEPT ![handlers[o]][j] = registers + 1]
    /\ registered' = [registered EXCEPT ![o][j] = registers + 1]
    /\ registers' = registers + 1
    /\ UNCHANGED <<bus, middleware, arrays, handlers, made, given, uses>>

(* The fields of a new worker but its handlers; the slice is not copied.   *)
NewWorker(w) ==
    /\ w \notin made
    /\ made' = made \cup {w}
    /\ middleware' = [middleware EXCEPT ![w] = middleware[Mgr]]
    /\ given' = [given EXCEPT ![w] = given[Mgr]]
    /\ registered' = [registered EXCEPT ![w] = registered[Mgr]]
    /\ UNCHANGED <<bus, arrays, uses, registers>>

(* Mutant: the worker keeps the manager's map.                             *)
MakeWorkerSharing(w) ==
    /\ NewWorker(w)
    /\ handlers' = [handlers EXCEPT ![w] = handlers[Mgr]]
    /\ UNCHANGED maps

(* Manager.Worker: newWorker copies the map of the handlers.               *)
MakeWorker(w) ==
    /\ NewWorker(w)
    /\ maps' = Append(maps, maps[handlers[Mgr]])
    /\ handlers' = [handlers EXCEPT ![w] = Len(maps) + 1]

Next ==
    \/ \E o \in Owner : Use(o) \/ \E j \in JobName : Register(o, j)
    \/ \E w \in Worker : MakeWorker(w)
    \/ BusNext /\ UNCHANGED manager

Spec == Init /\ [][Next]_<<bus, manager>>

-----------------------------------------------------------------------------
(* The handlers of the manager and of each worker are the ones registered  *)
(* with it, a worker's starting from the manager's: newWorker's copy keeps *)
(* them apart from then on.                                                *)
HandlersAreOwn ==
    \A o \in made \cup {Mgr} : maps[handlers[o]] = registered[o]

Installed(o) == Contents(arrays, middleware[o])

(* As long as only the manager's Use is called, a worker runs its jobs     *)
(* through the middleware the manager had when it made the worker, though  *)
(* later calls of Use write into the array the worker's slice refers to.   *)
ManagerOnly ==
    (\A w \in made : IsPrefix(given[w], given[Mgr]))
        => \A o \in made \cup {Mgr} : Installed(o) = given[o]

(* What Use adds to a pipeline is what runs ("added", then "handler", in   *)
(* middleware_test.go), whichever other workers of the manager are given   *)
(* middleware of their own.                                                *)
PipelineIsOwn ==
    \A o \in made \cup {Mgr} : Installed(o) = given[o]
=============================================================================
