---------------------------- MODULE PluginWorkers ---------------------------
(***************************************************************************)
(* One plugin that runs in worker threads: the requests to PluginLoader    *)
(* (activate, deactivate, reload, remove, discover), WorkerHost with its   *)
(* map of workers, and what a worker registers and is called for.  Each    *)
(* request awaits a worker or a timeout and goes on with the plugin's id,  *)
(* whichever worker the id stands for by then.                             *)
(***************************************************************************)
EXTENDS Integers, Sequences, FiniteSets

CONSTANTS
  Slots,       \* bound: requests under way at the same time, 1 .. n
  MaxWorkers,  \* bound: worker threads ever started
  MaxLoads     \* bound: instances of the plugin ever made from its manifest

ASSUME PluginAssumption ==
  /\ IsFiniteSet(Slots) /\ Slots = 1..Cardinality(Slots)
  /\ MaxWorkers \in Nat /\ MaxLoads \in Nat \ {0}

VARIABLES
  loads,       \* instances made so far
  current,     \* the instance in the map 'plugins', 0 after a removal
  active,      \* instances whose isActive is set
  workers,     \* the threads in the order of their start, see Worker
  entry,       \* the worker in the map 'workers', 0 for none
  tool,        \* whose handler toolRegistry has for the plugin's tool, see below
  timer,       \* the worker whose periodic task is in pluginScheduler, 0 for none
  request,     \* calls of PluginLoader at an await
  overlapped,  \* history: a request met another one, or a thread that was going
  evicted      \* history: workers whose entry a handler for another one deleted

instances == <<loads, current, active>>
registries == <<tool, timer>>
history == <<overlapped, evicted>>
vars == <<instances, workers, entry, registries, request, history>>

Started == 1..Len(workers)

\* tool: a worker's number, or
NoTool == 0
DefaultTool == -1  \* the handler that answers 'Tool not implemented'

\* phase: "starting" while the activation timeout is armed, "up" after 'activated',
\* "failed" after an error or the timeout.  going: terminate() was called.  call: a
\* pending call; it is "late" if its thread was gone when it was made.
Worker == [phase : {"starting", "up", "failed"}, going : BOOLEAN, exited : BOOLEAN,
           call : {"none", "open", "late"}]

Nothing == [kind |-> "none", at |-> "idle", instance |-> 0, worker |-> 0]
\* "reread" is the reload of a plugin that was not active.  "removing": the listeners
\* of 'plugin.deactivated' are awaited; a reload that waits for them is "rereading".
Kinds == {"activate", "deactivate", "reload", "reread", "remove"}
Awaits == {"negotiating", "starting", "deactivating", "terminating", "removing", "rereading"}

\* The types; a thread whose activation timeout is armed is awaited by one request.
TypeOK ==
  /\ loads \in 1..MaxLoads /\ current \in 0..loads /\ active \subseteq 1..loads
  /\ workers \in Seq(Worker) /\ Len(workers) <= MaxWorkers
  /\ entry \in Started \cup {0} /\ timer \in Started \cup {0}
  /\ tool \in {NoTool, DefaultTool} \cup Started
  /\ \A i \in Slots : request[i] # Nothing =>
       /\ request[i].kind \in Kinds /\ request[i].at \in Awaits
       /\ request[i].instance \in 1..loads
       /\ request[i].worker \in Started \/ request[i].at \in {"negotiating", "removing", "rereading"}
  /\ overlapped \in BOOLEAN /\ evicted \subseteq Started
  /\ \A w \in Started : workers[w].phase = "starting" <=>
       Cardinality({i \in Slots : request[i].at = "starting" /\ request[i].worker = w}) = 1

Init ==
  /\ loads = 1 /\ current = 1 /\ active = {}
  /\ workers = <<>> /\ entry = 0
  /\ tool = NoTool /\ timer = 0
  /\ request = [i \in Slots |-> Nothing]
  /\ overlapped = FALSE /\ evicted = {}

-----------------------------------------------------------------------------
(* What the steps are made of.                                             *)

\* The next free slot; the slots are taken in their order.
Free(i) == request[i] = Nothing /\ \A j \in Slots : j < i => request[j] # Nothing

Awaiting(kind, at, g, w) == [kind |-> kind, at |-> at, instance |-> g, worker |-> w]

\* A request is made: does it meet another one, or a thread that has yet to exit?
Made ==
  overlapped' = (overlapped \/ \/ \E i \in Slots : request[i] # Nothing
                               \/ \E w \in Started : workers[w].going /\ ~workers[w].exited)

\* workers.delete(pluginId) by a handler that belongs to worker w.
DeleteEntry(w) ==
  /\ entry' = 0
  /\ evicted' = evicted \cup ({entry} \ {0, w})

\* unregisterContributions, clearByPlugin of the registries.
Unregister == tool' = NoTool /\ timer' = 0

\* What follows deactivate(): nothing, or the rest of reload or remove.
AfterDeactivate(r) ==
  CASE r.kind = "reload" -> Awaiting("reload", "rereading", r.instance, 0)
    [] r.kind = "remove" -> Awaiting("remove", "removing", r.instance, 0)
    [] OTHER -> Nothing

\* The rest of deactivate for the requests of D, whose worker has been stopped.
Deactivated(D) ==
  /\ active' = active \ {request[i].instance : i \in D}
  /\ request' = [i \in Slots |-> IF i \in D THEN AfterDeactivate(request[i]) ELSE request[i]]
  /\ UNCHANGED <<loads, current>>

-----------------------------------------------------------------------------
(* Requests.                                                               *)

\* activate: the capabilities that the manifest requires are negotiated.
Activate(i) ==
  /\ Free(i) /\ current # 0 /\ current \notin active
  /\ Made
  /\ request' = [request EXCEPT ![i] = Awaiting("activate", "negotiating", current, 0)]
  /\ UNCHANGED <<instances, workers, entry, registries, evicted>>

\* discover after a removal: the manifest is found and its plugin activated.
Discover(i) ==
  /\ Free(i) /\ current = 0 /\ loads < MaxLoads
  /\ Made
  /\ loads' = loads + 1 /\ current' = loads + 1
  /\ request' = [request EXCEPT ![i] = Awaiting("activate", "negotiating", loads + 1, 0)]
  /\ UNCHANGED <<active, workers, entry, registries, evicted>>

\* deactivate, reload or remove of an active plugin: the worker is asked to
\* deactivate; without a worker there is nothing to wait for.
Stop(i, kind) ==
  LET asked == Awaiting(kind, "deactivating", current, entry) IN
  /\ Free(i) /\ current # 0 /\ current \in active
  /\ Made
  /\ IF entry # 0
     THEN /\ request' = [request EXCEPT ![i] = asked]
          /\ UNCHANGED <<instances, registries>>
     ELSE /\ active' = active \ {current}
          /\ request' = [request EXCEPT ![i] = AfterDeactivate(asked)]
          /\ Unregister
          /\ UNCHANGED <<loads, current>>
  /\ UNCHANGED <<workers, entry, evicted>>

\* reload of an inactive plugin; remove of one, which is done at once.
ReloadInactive(i) ==
  /\ Free(i) /\ current # 0 /\ current \notin active
  /\ Made
  /\ request' = [request EXCEPT ![i] = Awaiting("reread", "rereading", current, 0)]
  /\ UNCHANGED <<instances, workers, entry, registries, evicted>>

RemoveInactive(i) ==
  /\ Free(i) /\ current # 0 /\ current \notin active
  /\ Made
  /\ current' = 0
  /\ UNCHANGED <<loads, active, workers, entry, registries, request, evicted>>

\* remove after its awaits: whatever instance the map has by then goes.
Removed(i) ==
  /\ request[i].at = "removing"
  /\ current' = 0
  /\ request' = [request EXCEPT ![i] = Nothing]
  /\ UNCHANGED <<loads, active, workers, entry, registries, history>>

\* reload after its awaits: a new instance takes the place of whatever the map has;
\* a plugin that was active is activated.  Or the manifest cannot be read.
Reread(i) ==
  /\ request[i].at = "rereading"
  /\ \/ /\ request' = [request EXCEPT ![i] = Nothing]
        /\ UNCHANGED <<loads, current>>
     \/ /\ loads < MaxLoads
        /\ loads' = loads + 1 /\ current' = loads + 1
        /\ request' = [request EXCEPT ![i] =
             IF request[i].kind = "reload" THEN Awaiting("activate", "negotiating", loads + 1, 0) ELSE Nothing]
  /\ UNCHANGED <<active, workers, entry, registries, history>>

Unsatisfied(i) ==
  /\ request[i].at = "negotiating"
  /\ request' = [request EXCEPT ![i] = Nothing]
  /\ UNCHANGED <<instances, workers, entry, registries, history>>

NewWorker == [phase |-> "starting", going |-> FALSE, exited |-> FALSE, call |-> "none"]

\* Mutant: startPlugin does not ask whether there is a worker already.
StartAnother(i) ==
  /\ request[i].at = "negotiating" /\ Len(workers) < MaxWorkers
  /\ tool' = DefaultTool
  /\ workers' = Append(workers, NewWorker)
  /\ entry' = Len(workers) + 1
  /\ request' = [request EXCEPT ![i].at = "starting", ![i].worker = Len(workers) + 1]
  /\ UNCHANGED <<instances, timer, history>>

\* The requirements are met: the contributions of the manifest are registered with
\* their default handler, and a worker is started unless there is one.
Start(i) ==
  /\ request[i].at = "negotiating"
  /\ tool' = DefaultTool
  /\ \/ /\ entry # 0
        /\ active' = active \cup {request[i].instance}
        /\ request' = [request EXCEPT ![i] = Nothing]
        /\ UNCHANGED <<loads, current, workers, entry>>
     \/ /\ entry = 0 /\ Len(workers) < MaxWorkers
        /\ workers' = Append(workers, NewWorker)
        /\ entry' = Len(workers) + 1
        /\ request' = [request EXCEPT ![i].at = "starting", ![i].worker = Len(workers) + 1]
        /\ UNCHANGED instances
  /\ UNCHANGED <<timer, history>>

\* The module or the runner of workers is not there: what was registered is taken
\* back by the plugin's id.
LoadFails(i) ==
  /\ request[i].at = "negotiating"
  /\ Unregister
  /\ request' = [request EXCEPT ![i] = Nothing]
  /\ UNCHANGED <<instances, workers, entry, history>>

-----------------------------------------------------------------------------
(* A worker starts.                                                        *)

StartedBy(w) == CHOOSE i \in Slots : request[i].at = "starting" /\ request[i].worker = w

\* Mutant: the timeout is not cleared.
ActivatedOnATimer(w) ==
  /\ workers[w].phase = "starting" /\ ~workers[w].exited
  /\ active' = active \cup {request[StartedBy(w)].instance}
  /\ request' = [request EXCEPT ![StartedBy(w)] = Nothing]
  /\ UNCHANGED <<loads, current, workers, entry, registries, history>>

WorkerActivated(w) ==
  /\ workers[w].phase = "starting" /\ ~workers[w].exited
  /\ workers' = [workers EXCEPT ![w].phase = "up"]
  /\ active' = active \cup {request[StartedBy(w)].instance}
  /\ request' = [request EXCEPT ![StartedBy(w)] = Nothing]
  /\ UNCHANGED <<loads, current, entry, registries, history>>

\* Mutant: the thread is left to itself.
ActivationFailsSilently(w) ==
  /\ workers[w].phase = "starting"
  /\ workers' = [workers EXCEPT ![w].phase = "failed"]
  /\ request' = [request EXCEPT ![StartedBy(w)] = Nothing]
  /\ DeleteEntry(w) /\ Unregister
  /\ UNCHANGED <<instances, overlapped>>

\* Mutant: an error while a thread starts is only logged.
ActivationFailsWhileThere(w) ==
  /\ workers[w].phase = "starting" /\ ~workers[w].exited
  /\ workers' = [workers EXCEPT ![w].phase = "failed", ![w].going = TRUE]
  /\ request' = [request EXCEPT ![StartedBy(w)] = Nothing]
  /\ DeleteEntry(w) /\ Unregister
  /\ UNCHANGED <<instances, overlapped>>

\* The worker says 'activation_error', or 30 seconds are over, also for a thread that
\* has exited: it is terminated, and activate rolls its contributions back.
ActivationFails(w) ==
  /\ workers[w].phase = "starting"
  /\ workers' = [workers EXCEPT ![w].phase = "failed", ![w].going = TRUE]
  /\ request' = [request EXCEPT ![StartedBy(w)] = Nothing]
  /\ DeleteEntry(w) /\ Unregister
  /\ UNCHANGED <<instances, overlapped>>

-----------------------------------------------------------------------------
(* A worker at work.                                                       *)

Talks(w) == ~workers[w].exited

\* tools.register, tools.unregister, scheduler.register, scheduler.unregister: what a
\* thread has posted before it exits is handled before its exit.
RegisterTool(w) == Talks(w) /\ tool' = w /\ UNCHANGED <<instances, workers, entry, timer, request, history>>

UnregisterTool(w) ==
  Talks(w) /\ tool' = NoTool /\ UNCHANGED <<instances, workers, entry, timer, request, history>>

SetTimer(w) ==
  /\ Talks(w)
  /\ timer' \in {w, 0}
  /\ UNCHANGED <<instances, workers, entry, tool, request, history>>

\* forwardToolCall, or forwardSchedulerTick when the interval is over.  Bound of the
\* model: one pending call of a worker.
Call(w) ==
  /\ tool = w \/ timer = w
  /\ workers[w].call = "none"
  /\ workers' = [workers EXCEPT ![w].call = IF workers[w].exited THEN "late" ELSE "open"]
  /\ UNCHANGED <<instances, entry, registries, request, history>>

Settle(w) == workers' = [workers EXCEPT ![w].call = "none"]

Answer(w) ==
  /\ workers[w].call = "open" /\ Talks(w)
  /\ Settle(w)
  /\ UNCHANGED <<instances, entry, registries, request, history>>

\* Mutant: calls are left to the exit of the thread.
CallTimesOutWhileThere(w) ==
  /\ workers[w].call = "open"
  /\ Settle(w)
  /\ UNCHANGED <<instances, entry, registries, request, history>>

CallTimesOut(w) ==
  /\ workers[w].call # "none"
  /\ Settle(w)
  /\ UNCHANGED <<instances, entry, registries, request, history>>

-----------------------------------------------------------------------------
(* A worker stops.                                                         *)

AtStop(w, at) == {i \in Slots : request[i].at = at /\ request[i].worker = w}

\* stopPlugin for the requests of D after their first await: pending calls are
\* answered and the thread is terminated; one that has exited is not waited for.
Terminate(w, D) ==
  IF workers[w].exited
  THEN /\ Settle(w)
       /\ DeleteEntry(w) /\ Unregister /\ Deactivated(D)
       /\ UNCHANGED overlapped
  ELSE /\ workers' = [workers EXCEPT ![w].going = TRUE, ![w].call = "none"]
       /\ request' = [i \in Slots |-> IF i \in D THEN [request[i] EXCEPT !.at = "terminating"] ELSE request[i]]
       /\ UNCHANGED <<instances, entry, registries, history>>

\* 'deactivated' or 'deactivate_error' is heard by every request that waits for it.
WorkerDeactivated(w) ==
  /\ workers[w].phase = "up" /\ Talks(w) /\ AtStop(w, "deactivating") # {}
  /\ Terminate(w, AtStop(w, "deactivating"))

\* Ten seconds are over.
DeactivationTimesOut(i) ==
  /\ request[i].at = "deactivating"
  /\ Terminate(request[i].worker, {i})

\* Mutant: pending calls are not answered.
ExitsQuietly(w) ==
  /\ ~workers[w].exited
  /\ workers' = [workers EXCEPT ![w].exited = TRUE]
  /\ DeleteEntry(w) /\ Deactivated(AtStop(w, "terminating"))
  /\ timer' = 0
  /\ tool' = IF AtStop(w, "terminating") = {} THEN tool ELSE NoTool
  /\ UNCHANGED overlapped

\* Mutant: the exit of a thread leaves its periodic tasks.
ExitsKeepingTimer(w) ==
  /\ ~workers[w].exited
  /\ workers' = [workers EXCEPT ![w].exited = TRUE, ![w].call = "none"]
  /\ DeleteEntry(w) /\ Deactivated(AtStop(w, "terminating"))
  /\ timer' = IF AtStop(w, "terminating") = {} THEN timer ELSE 0
  /\ tool' = IF AtStop(w, "terminating") = {} THEN tool ELSE NoTool
  /\ UNCHANGED overlapped

\* The thread exits, terminated or of its own: the handler of 'exit', then the
\* requests that awaited terminate().
Exits(w) ==
  /\ ~workers[w].exited
  /\ workers' = [workers EXCEPT ![w].exited = TRUE, ![w].call = "none"]
  /\ DeleteEntry(w) /\ Deactivated(AtStop(w, "terminating"))
  /\ timer' = 0
  /\ tool' = IF AtStop(w, "terminating") = {} THEN tool ELSE NoTool
  /\ UNCHANGED overlapped

-----------------------------------------------------------------------------
Goes(i) ==
  \/ Removed(i) \/ Reread(i) \/ Unsatisfied(i) \/ Start(i) \/ LoadFails(i)
  \/ DeactivationTimesOut(i)

Next ==
  \/ \E i \in Slots :
       \/ Activate(i) \/ Discover(i) \/ ReloadInactive(i) \/ RemoveInactive(i) \/ Goes(i)
       \/ \E kind \in {"deactivate", "reload", "remove"} : Stop(i, kind)
  \/ \E w \in Started :
       \/ WorkerActivated(w) \/ ActivationFails(w) \/ WorkerDeactivated(w) \/ Exits(w)
       \/ RegisterTool(w) \/ UnregisterTool(w) \/ SetTimer(w)
       \/ Call(w) \/ Answer(w) \/ CallTimesOut(w)

Spec == Init /\ [][Next]_vars

\* Timeouts fire, negotiations and reads return, listeners of the plugin's events
\* return, and a thread that is terminated exits; what a worker says or does is its
\* own affair.
FairSpec ==
  /\ Spec
  /\ \A i \in Slots : WF_vars(Goes(i))
  /\ \A w \in 1..MaxWorkers :
       /\ WF_vars(w \in Started /\ ActivationFails(w))
       /\ WF_vars(w \in Started /\ CallTimesOut(w))
       /\ WF_vars(w \in Started /\ workers[w].going /\ Exits(w))

-----------------------------------------------------------------------------
(* Properties.                                                             *)

Gone(w) == workers[w].going \/ workers[w].exited

\* A thread that nobody has terminated is the one in the map, so that it can be
\* stopped, unless a handler for another worker has deleted its entry; and that
\* happens only after requests have overlapped.
WorkersAreOwned ==
  /\ \A w \in Started : ~Gone(w) /\ w \notin evicted => entry = w
  /\ evicted # {} => overlapped

\* Neither a periodic task nor a call that was made in time waits for a thread that
\* has exited.
NobodyWaitsForTheDead ==
  /\ timer # 0 => ~workers[timer].exited
  /\ \A w \in Started : workers[w].call = "open" => ~workers[w].exited

\* When requests came one at a time and nothing is under way: an active plugin has
\* its worker, with the manifest's or the worker's own handlers (or the worker has
\* died meanwhile); an inactive one has left nothing behind but what a worker whose
\* activation failed has still registered before it exited.
NothingIsLeftBehind ==
  ~overlapped /\ (\A i \in Slots : request[i] = Nothing) =>
    /\ active \subseteq {current}
    /\ current \in active =>
         \E w \in Started : /\ workers[w].phase = "up" /\ ~workers[w].going
                            /\ entry = IF workers[w].exited THEN 0 ELSE w
                            /\ tool \in {NoTool, DefaultTool, w} /\ timer \in {0, w}
    /\ current \notin active =>
         /\ entry = 0 /\ \A w \in Started : Gone(w)
         /\ tool # NoTool => tool \in Started /\ workers[tool].phase = "failed"
         /\ timer # 0 => workers[timer].phase = "failed"

PluginIsInOrder == WorkersAreOwned /\ NobodyWaitsForTheDead /\ NothingIsLeftBehind

\* Every request and every call ends, whatever the worker does and whichever worker
\* the plugin's id stands for by then - provided that the listeners of
\* 'plugin.activated', 'plugin.deactivated' and 'plugin.error' return, which the
\* requests await with no timeout.
EverybodyIsAnswered ==
  /\ \A i \in Slots : request[i] # Nothing ~> request[i] = Nothing
  /\ \A w \in 1..MaxWorkers :
       (w \in Started /\ workers[w].call # "none") ~> (w \in Started /\ workers[w].call = "none")
=============================================================================
