------------------------ MODULE PluginWorkers_proofs ------------------------
(***************************************************************************)
(* The invariants of PluginWorkers, proved for every number of concurrent  *)
(* requests, of threads and of loads: each activation of a plugin has one  *)
(* thread, no thread is lost, and no request waits for a thread that is    *)
(* gone.                                                                   *)
(***************************************************************************)
EXTENDS PluginWorkers, FiniteSetTheorems, SequenceTheorems, TLAPS

-----------------------------------------------------------------------------
(* The inductive invariant.                                                *)

\* A request that is under way: what it is for, what it awaits, the load of the plugin it
\* is about, and the thread it has.
Request == [kind : Kinds, at : Awaits, instance : 1..loads, worker : Started \cup {0}]

\* The types, for the provers: TypeOK with the records as members of a set.
Threads == workers \in Seq(Worker) /\ workers \in [Started -> Worker]

\* The plugin's entries in the maps of the host and in the registries.
Shape ==
  /\ loads \in 1..MaxLoads /\ current \in 0..loads /\ active \subseteq 1..loads
  /\ Len(workers) <= MaxWorkers
  /\ entry \in Started \cup {0} /\ timer \in Started \cup {0}
  /\ tool \in {NoTool, DefaultTool} \cup Started
  /\ overlapped \in BOOLEAN /\ evicted \subseteq Started

\* A request that awaits a thread has one.
Calls ==
  /\ request \in [Slots -> Request \cup {Nothing}]
  /\ \A i \in Slots : request[i].at \in {"starting", "deactivating", "terminating"} =>
       request[i].worker # 0

\* Exactly the threads that are starting are awaited, each by one request.
Starters ==
  /\ \A i \in Slots : request[i].at = "starting" => workers[request[i].worker].phase = "starting"
  /\ \A i, j \in Slots :
       /\ request[i].at = "starting" /\ request[j].at = "starting"
       /\ request[i].worker = request[j].worker
       => i = j
  /\ \A w \in Started : workers[w].phase = "starting" =>
       \E i \in Slots : request[i].at = "starting" /\ request[i].worker = w

\* The map has no thread that has exited.
EntryLives == entry # 0 => ~workers[entry].exited

\* What an inactive plugin has: no thread but those that are going after a failed
\* activation, and what such a thread has registered.
Inactive ==
  /\ active = {} /\ entry = 0
  /\ tool # NoTool => tool \in Started /\ workers[tool].phase = "failed"
  /\ \A v \in Started : workers[v].exited \/ (workers[v].going /\ workers[v].phase = "failed")

\* What a plugin has whose thread is w: the registrations of w or the manifest's.
Serves(w) ==
  /\ w \in Started
  /\ entry = IF workers[w].exited THEN 0 ELSE w
  /\ tool \in {NoTool, DefaultTool, w} /\ timer \in {0, w}
  /\ \A v \in Started : v # w => workers[v].exited

\* What an active plugin has: one thread that is up and has not been asked to stop.
Active ==
  active = {current} /\ \E w \in Started : Serves(w) /\ workers[w].phase = "up" /\ ~workers[w].going

\* What the plugin has while the request r is under way.
Underway(r) ==
  /\ r.instance = current
  /\ r.at \in {"negotiating", "removing", "rereading"} => Inactive /\ \A v \in Started : workers[v].exited
  /\ r.at = "starting" => Serves(r.worker) /\ active = {} /\ ~workers[r.worker].going
  /\ r.at \in {"deactivating", "terminating"} =>
       Serves(r.worker) /\ active = {current} /\ workers[r.worker].phase = "up"
  /\ r.at = "deactivating" => ~workers[r.worker].going
  /\ r.at = "terminating" => ~workers[r.worker].exited

\* No request is under way.
Quiet == \A i \in Slots : request[i] = Nothing

\* The request in slot i is the only one.
Alone(i) == request[i] # Nothing /\ \A j \in Slots : j # i => request[j] = Nothing

\* While no request has met another one or a thread that was going: at most one
\* request is under way, and what the plugin has follows from where it is.
OneAtATime ==
  ~overlapped => \/ Quiet /\ (Active \/ Inactive)
                 \/ \E i \in Slots : Alone(i) /\ Underway(request[i])

\* The inductive invariant: the types, what keeps the properties true while requests
\* overlap, and what holds while they do not.
IInv ==
  /\ Threads /\ Shape /\ Calls /\ Starters /\ EntryLives /\ OneAtATime
  /\ WorkersAreOwned /\ NobodyWaitsForTheDead

-----------------------------------------------------------------------------
(* Lemmas about threads and registrations.                                 *)

\* The bounds are numbers.
LEMMA Bounds == MaxWorkers \in Nat /\ MaxLoads \in Nat \ {0}
BY PluginAssumption

\* Changing the record of a thread, adding one.
LEMMA ThreadChanged ==
  ASSUME Threads, NEW w \in Started, NEW x \in Worker, workers' = [workers EXCEPT ![w] = x]
  PROVE  Threads' /\ Len(workers') = Len(workers)
<1>1. workers' \in Seq(Worker) /\ Len(workers') = Len(workers)
  BY DEF Threads
<1>. QED
  BY <1>1 DEF Threads, Started

\* Adding a thread.
LEMMA ThreadAdded ==
  ASSUME Threads, NEW x \in Worker, workers' = Append(workers, x)
  PROVE  Threads' /\ Len(workers') = Len(workers) + 1
<1>1. workers' \in Seq(Worker) /\ Len(workers') = Len(workers) + 1
  BY DEF Threads
<1>. QED
  BY <1>1, LenProperties DEF Threads, Started

\* What a request does after it has stopped the plugin.
LEMMA AfterTyped ==
  ASSUME NEW r \in Request
  PROVE  /\ AfterDeactivate(r) \in Request \cup {Nothing}
         /\ AfterDeactivate(r).at \in {"idle", "removing", "rereading"}
  BY DEF Request, AfterDeactivate, Awaiting, Nothing, Awaits

\* Registrations by threads that have not exited.
LEMMA RegistrationsKeepOrder ==
  ASSUME OneAtATime, UNCHANGED <<current, active, entry, request, overlapped, Started>>,
         \A v \in Started : /\ workers'[v].phase = workers[v].phase
                            /\ workers'[v].going = workers[v].going
                            /\ workers'[v].exited = workers[v].exited,
         tool' \in {tool, NoTool} \cup {v \in Started : ~workers[v].exited},
         timer' \in {timer, 0} \cup {v \in Started : ~workers[v].exited},
         \A i \in Slots : request[i].at \in {"idle"} \cup Awaits, Nothing.at = "idle"
  PROVE  OneAtATime'
<1>. SUFFICES ASSUME ~overlapped' PROVE OneAtATime'
  BY DEF OneAtATime
<1>1. ASSUME Inactive PROVE Inactive'
  BY <1>1 DEF Inactive
<1>2. ASSUME NEW w \in Started, Serves(w) PROVE Serves(w)'
  BY <1>2 DEF Serves
<1>3. ASSUME Active PROVE Active'
  BY <1>2, <1>3 DEF Active
<1>4. ASSUME NEW i \in Slots, Alone(i), Underway(request[i]) PROVE Alone(i)' /\ Underway(request[i])'
  <2>1. Alone(i)'
    BY <1>4 DEF Alone
  <2>2. Underway(request[i])'
    BY <1>1, <1>2, <1>4 DEF Underway, Serves
  <2>. QED
    BY <2>1, <2>2
<1>5. ASSUME Quiet PROVE Quiet'
  BY <1>5 DEF Quiet
<1>. QED
  BY <1>1, <1>3, <1>4, <1>5 DEF OneAtATime

-----------------------------------------------------------------------------
(* The steps.                                                              *)

\* A plugin without a running thread is asked for.
LEMMA RequestsBegin ==
  ASSUME IInv, NEW i \in Slots,
         Activate(i) \/ Discover(i) \/ ReloadInactive(i) \/ RemoveInactive(i)
  PROVE  IInv'
<1>1. CASE Activate(i)
  <2>1. Threads' /\ UNCHANGED workers
    BY <1>1 DEF IInv, Threads, Started, Activate
  <2>2. Shape' /\ Calls'
    BY <1>1, <2>1 DEF IInv, Shape, Calls, Request, Kinds, Awaits, instances, registries,
       Awaiting, Made, Threads, Activate
  <2>3. Starters'
    BY <1>1, <2>1 DEF IInv, Nothing, Free, Awaiting, Threads, Activate, Starters
  <2>4. EntryLives' /\ WorkersAreOwned' /\ NobodyWaitsForTheDead'
    BY <1>1, <2>1, Bounds DEF IInv, Started, registries, Made, Activate, EntryLives,
       WorkersAreOwned, NobodyWaitsForTheDead, Gone, Alone, Serves, Quiet
  <2>5. OneAtATime'
    <3>. SUFFICES ASSUME ~overlapped' PROVE OneAtATime'
      BY DEF OneAtATime
    <3>1. ~overlapped /\ Quiet /\ \A v \in Started : workers[v].going => workers[v].exited
      BY <1>1 DEF Made, Activate, Quiet
    <3>2. Inactive /\ \A v \in Started : workers[v].exited
      BY <1>1, <3>1 DEF IInv, Activate, OneAtATime, Inactive, Active, Alone, Serves, Quiet
    <3>3. Alone(i)' /\ Underway(request[i])'
      BY <1>1, <2>1, <2>2, <3>1, <3>2 DEF Calls, Nothing, Started, instances, registries,
         Awaiting, Activate, Inactive, Underway, Alone, Serves, Quiet
    <3>. QED
      BY <3>3, <2>2 DEF OneAtATime
  <2>. QED
    BY <2>1, <2>2, <2>3, <2>4, <2>5 DEF IInv
<1>2. CASE Discover(i)
  <2>1. Threads' /\ UNCHANGED workers
    BY <1>2 DEF IInv, Threads, Started, Discover
  <2>2. Shape' /\ Calls'
    BY <1>2, <2>1, Bounds DEF IInv, Shape, Calls, Request, Kinds, Awaits, registries, Awaiting,
       Made, Threads, Discover
  <2>3. Starters'
    BY <1>2, <2>1 DEF IInv, Nothing, Free, Awaiting, Threads, Discover, Starters
  <2>4. EntryLives' /\ WorkersAreOwned' /\ NobodyWaitsForTheDead'
    BY <1>2, <2>1, Bounds DEF IInv, Started, registries, Made, Discover, EntryLives,
       WorkersAreOwned, NobodyWaitsForTheDead, Gone, Alone, Serves, Quiet
  <2>5. OneAtATime'
    <3>. SUFFICES ASSUME ~overlapped' PROVE OneAtATime'
      BY DEF OneAtATime
    <3>1. ~overlapped /\ Quiet /\ \A v \in Started : workers[v].going => workers[v].exited
      BY <1>2 DEF Made, Discover, Quiet
    <3>2. Inactive /\ \A v \in Started : workers[v].exited
      BY <1>2, <3>1 DEF IInv, Shape, Discover, OneAtATime, Inactive, Active, Underway, Alone,
         Serves, Quiet
    <3>3. Alone(i)' /\ Underway(request[i])'
      BY <1>2, <2>1, <2>2, <3>1, <3>2 DEF Calls, Nothing, Started, registries, Awaiting,
         Discover, Inactive, Underway, Alone, Serves, Quiet
    <3>. QED
      BY <3>3, <2>2 DEF OneAtATime
  <2>. QED
    BY <2>1, <2>2, <2>3, <2>4, <2>5 DEF IInv
<1>3. CASE ReloadInactive(i)
  <2>1. Threads' /\ UNCHANGED workers
    BY <1>3 DEF IInv, Threads, Started, ReloadInactive
  <2>2. Shape' /\ Calls'
    BY <1>3, <2>1 DEF IInv, Shape, Calls, Request, Kinds, Awaits, instances, registries,
       Awaiting, Made, Threads, ReloadInactive
  <2>3. Starters'
    BY <1>3, <2>1 DEF IInv, Nothing, Free, Awaiting, Threads, ReloadInactive, Starters
  <2>4. EntryLives' /\ WorkersAreOwned' /\ NobodyWaitsForTheDead'
    BY <1>3, <2>1, Bounds DEF IInv, Started, registries, Made, ReloadInactive, EntryLives,
       WorkersAreOwned, NobodyWaitsForTheDead, Gone, Alone, Serves, Quiet
  <2>5. OneAtATime'
    <3>. SUFFICES ASSUME ~overlapped' PROVE OneAtATime'
      BY DEF OneAtATime
    <3>1. ~overlapped /\ Quiet /\ \A v \in Started : workers[v].going => workers[v].exited
      BY <1>3 DEF Made, ReloadInactive, Quiet
    <3>2. Inactive /\ \A v \in Started : workers[v].exited
      BY <1>3, <3>1 DEF IInv, ReloadInactive, OneAtATime, Inactive, Active, Alone, Serves,
         Quiet
    <3>3. Alone(i)' /\ Underway(request[i])'
      BY <1>3, <2>1, <2>2, <3>1, <3>2 DEF Calls, Nothing, Started, instances, registries,
         Awaiting, ReloadInactive, Inactive, Underway, Alone, Serves, Quiet
    <3>. QED
      BY <3>3, <2>2 DEF OneAtATime
  <2>. QED
    BY <2>1, <2>2, <2>3, <2>4, <2>5 DEF IInv
<1>4. CASE RemoveInactive(i)
  <2>1. Threads' /\ UNCHANGED workers
    BY <1>4 DEF IInv, Threads, Started, RemoveInactive
  <2>2. Shape' /\ Calls'
    BY <1>4, <2>1 DEF IInv, Shape, Calls, Request, registries, Made, Threads, RemoveInactive
  <2>3. Starters'
    BY <1>4, <2>1 DEF IInv, Threads, RemoveInactive, Starters
  <2>4. EntryLives' /\ WorkersAreOwned' /\ NobodyWaitsForTheDead'
    BY <1>4, <2>1, Bounds DEF IInv, Started, registries, Made, RemoveInactive, EntryLives,
       WorkersAreOwned, NobodyWaitsForTheDead, Gone, Alone, Serves, Quiet
  <2>5. OneAtATime'
    <3>. SUFFICES ASSUME ~overlapped' PROVE OneAtATime'
      BY DEF OneAtATime
    <3>1. ~overlapped /\ Quiet
      BY <1>4 DEF Made, RemoveInactive, Quiet
    <3>2. Inactive
      BY <1>4, <3>1 DEF IInv, RemoveInactive, OneAtATime, Active, Alone, Quiet
    <3>3. Quiet' /\ Inactive'
      BY <1>4, <2>1, <3>1, <3>2 DEF Started, registries, RemoveInactive, Quiet, Inactive
    <3>. QED
      BY <3>3 DEF OneAtATime
  <2>. QED
    BY <2>1, <2>2, <2>3, <2>4, <2>5 DEF IInv
<1>. QED
  BY <1>1, <1>2, <1>3, <1>4

\* The threads that start are left as they are.
LEMMA StartersStay ==
  ASSUME Starters, Calls, Calls', UNCHANGED Started,
         \A v \in Started : workers'[v].phase = workers[v].phase,
         \A i \in Slots : request[i].at = "starting" \/ request'[i].at = "starting" =>
           request'[i] = request[i]
  PROVE  Starters'
<1>1. \A i \in Slots : request[i].at = "starting" => request[i].worker \in Started
  BY DEF Calls, Request, Nothing
<1>. QED
  BY <1>1 DEF Starters

\* An active plugin is asked to stop.
LEMMA StopKeeps ==
  ASSUME IInv, NEW i \in Slots, NEW kind \in {"deactivate", "reload", "remove"}, Stop(i, kind)
  PROVE  IInv'
<1>1. CASE entry # 0
  <2>1. Threads' /\ UNCHANGED workers
    BY <1>1 DEF IInv, Threads, Started, Stop
  <2>. DEFINE asked == Awaiting(kind, "deactivating", current, entry)
  <2>0. /\ request' = [request EXCEPT ![i] = asked] /\ request[i] = Nothing /\ asked \in Request
        /\ UNCHANGED <<loads, workers>>
    BY <1>1 DEF IInv, Shape, Stop, Free, Request, Awaiting, Kinds, Awaits, instances
  <2>2. Shape' /\ Calls'
    <3>1. Shape'
      BY <1>1, <2>1 DEF IInv, Shape, Stop, Made, Started, instances, registries
    <3>2. Calls'
      BY <1>1, <2>0 DEF IInv, Calls, Request, Started, Awaiting
    <3>. QED
      BY <3>1, <3>2
  <2>3. Starters'
    BY <2>0 DEF IInv, Starters, Started, Awaiting, Nothing
  <2>4. EntryLives' /\ WorkersAreOwned' /\ NobodyWaitsForTheDead'
    BY <1>1, <2>1, Bounds DEF IInv, registries, Made, Threads, Stop, EntryLives,
       WorkersAreOwned, NobodyWaitsForTheDead, Gone, Alone, Serves, Quiet
  <2>5. OneAtATime'
    <3>. SUFFICES ASSUME ~overlapped' PROVE OneAtATime'
      BY DEF OneAtATime
    <3>1. ~overlapped /\ Quiet /\ current \in active
      BY <1>1 DEF Made, Stop, Quiet
    <3>2. Active
      BY <3>1 DEF IInv, OneAtATime, Inactive, Alone, Serves, Quiet
    <3>3. /\ Serves(entry) /\ active = {current} /\ workers[entry].phase = "up"
          /\ ~workers[entry].going
      BY <1>1, <3>2 DEF Active, Serves
    <3>4. Alone(i)' /\ Underway(request[i])'
      BY <1>1, <2>1, <2>2, <3>1, <3>3 DEF Calls, Nothing, Started, instances, registries,
         Awaiting, Stop, Underway, Alone, Serves, Quiet
    <3>. QED
      BY <3>4, <2>2 DEF OneAtATime
  <2>. QED
    BY <2>1, <2>2, <2>3, <2>4, <2>5 DEF IInv
<1>2. CASE entry = 0
  <2>1. Threads' /\ UNCHANGED workers
    BY <1>2 DEF IInv, Threads, Started, Stop
  <2>. DEFINE asked == Awaiting(kind, "deactivating", current, entry)
  <2>1a. asked \in Request
    BY <1>2 DEF IInv, Shape, Stop, Request, Awaiting, Kinds, Awaits
  <2>0. /\ request' = [request EXCEPT ![i] = AfterDeactivate(asked)] /\ request[i] = Nothing
        /\ AfterDeactivate(asked) \in Request \cup {Nothing}
        /\ AfterDeactivate(asked).at \in {"idle", "removing", "rereading"}
        /\ UNCHANGED <<loads, workers>>
    BY <1>2, <2>1a, AfterTyped DEF Stop, Free
  <2>2. Shape' /\ Calls'
    <3>1. Shape'
      <4>1. /\ active' \subseteq active /\ current' \in {0, current} /\ tool' = NoTool /\ timer' = 0
            /\ overlapped' \in BOOLEAN /\ UNCHANGED <<loads, workers, entry, evicted>>
        BY <1>2 DEF Stop, Made, Unregister
      <4>. QED
        BY <4>1 DEF IInv, Shape, Started
    <3>2. Calls'
      BY <1>2, <2>0 DEF IInv, Calls, Request, Started
    <3>. QED
      BY <3>1, <3>2
  <2>3. Starters'
    <3>1. \A j \in Slots : request[j].at = "starting" \/ request'[j].at = "starting" =>
            request'[j] = request[j]
      BY <2>0 DEF Nothing
    <3>. QED
      BY <2>0, <2>2, <3>1, StartersStay DEF IInv, Started
  <2>4. EntryLives' /\ WorkersAreOwned' /\ NobodyWaitsForTheDead'
    BY <1>2, <2>1, Bounds DEF IInv, Made, Unregister, Threads, Stop, EntryLives,
       WorkersAreOwned, NobodyWaitsForTheDead, Gone, Alone, Serves, Quiet
  <2>5. OneAtATime'
    <3>. SUFFICES ASSUME ~overlapped' PROVE OneAtATime'
      BY DEF OneAtATime
    <3>1. ~overlapped /\ Quiet /\ current \in active
      BY <1>2 DEF Made, Stop, Quiet
    <3>2. Active
      BY <3>1 DEF IInv, OneAtATime, Inactive, Alone, Serves, Quiet
    <3>3. \A v \in Started : workers[v].exited
      BY <1>2, <3>2 DEF Active, Serves, Started
    <3>4. Inactive'
      BY <1>2, <2>1, <3>2, <3>3 DEF Started, Unregister, Stop, Active, Inactive
    <3>5. CASE kind \in {"reload", "remove"}
      <4>1. Alone(i)' /\ Underway(request[i])'
        BY <1>2, <2>1, <2>2, <3>1, <3>3, <3>4, <3>5 DEF Calls, Nothing, Started, Awaiting,
           AfterDeactivate, Stop, Underway, Alone, Serves, Quiet
      <4>. QED
        BY <4>1 DEF OneAtATime
    <3>6. CASE kind \notin {"reload", "remove"}
      <4>1. Quiet'
        BY <1>2, <2>1, <2>2, <3>1, <3>6 DEF Calls, Awaiting, AfterDeactivate, Stop, Alone,
           Serves, Quiet
      <4>. QED
        BY <4>1, <3>4 DEF OneAtATime
    <3>. QED
      BY <3>5, <3>6
  <2>. QED
    BY <2>1, <2>2, <2>3, <2>4, <2>5 DEF IInv
<1>. QED
  BY <1>1, <1>2

\* A request goes on after it has negotiated, read the manifest or heard the listeners.
LEMMA RequestsGoOn ==
  ASSUME IInv, NEW i \in Slots,
         Reread(i) \/ Removed(i) \/ Unsatisfied(i) \/ LoadFails(i) \/ Start(i)
  PROVE  IInv'
<1>1. CASE Reread(i)
  <2>1. Threads' /\ UNCHANGED workers
    BY <1>1 DEF IInv, Threads, Started, Reread
  <2>2. Shape' /\ Calls'
    <3>1. Shape'
      BY <1>1, <2>1, Bounds DEF IInv, Shape, Reread, Started, registries, history
    <3>2. Request \subseteq Request' /\ request[i] \in Request
      BY <1>1, <2>1 DEF IInv, Shape, Calls, Request, Reread, Started, Nothing
    <3>3. CASE request' = [request EXCEPT ![i] = Nothing]
      <4>1. request' \in [Slots -> Request' \cup {Nothing}]
        BY <3>2, <3>3 DEF IInv, Calls
      <4>2. \A j \in Slots : request'[j] = request[j] \/ request'[j].at = "idle"
        BY <3>3 DEF Nothing
      <4>. QED
        BY <3>1, <4>1, <4>2 DEF IInv, Calls
    <3>4. CASE /\ loads' = loads + 1
               /\ request' = [request EXCEPT ![i] = Awaiting("activate", "negotiating", loads + 1, 0)]
      <4>1. Awaiting("activate", "negotiating", loads + 1, 0) \in Request'
        BY <3>1, <3>4 DEF Awaiting, Request, Kinds, Awaits, Shape
      <4>. QED
        <5>1. request' \in [Slots -> Request' \cup {Nothing}]
          BY <3>2, <3>4, <4>1 DEF IInv, Calls
        <5>2. \A j \in Slots : request'[j] = request[j] \/ request'[j].at = "negotiating"
          BY <3>4 DEF Awaiting
        <5>. QED
          BY <3>1, <5>1, <5>2 DEF IInv, Calls
    <3>5. Calls'
      BY <1>1, <3>3, <3>4 DEF Reread
    <3>. QED
      BY <3>1, <3>5
  <2>3. Starters'
    <3>1. \A j \in Slots : request[j].at = "starting" \/ request'[j].at = "starting" =>
            request'[j] = request[j]
      BY <1>1 DEF IInv, Calls, Nothing, Reread, Awaiting
    <3>. QED
      BY <2>1, <2>2, <3>1, StartersStay DEF IInv, Started
  <2>4. EntryLives' /\ WorkersAreOwned' /\ NobodyWaitsForTheDead'
    BY <1>1, <2>1, Bounds DEF IInv, registries, history, Threads, Reread, EntryLives,
       WorkersAreOwned, NobodyWaitsForTheDead, Gone, Alone, Serves, Quiet
  <2>5. OneAtATime'
    <3>. SUFFICES ASSUME ~overlapped' PROVE OneAtATime'
      BY DEF OneAtATime
    <3>1. ~overlapped /\ Alone(i) /\ Underway(request[i])
      BY <1>1 DEF IInv, Nothing, history, Reread, WorkersAreOwned, OneAtATime, Alone, Serves,
         Quiet
    <3>2. Inactive' /\ \A v \in Started : workers'[v].exited
      BY <1>1, <2>1, <2>2, <3>1 DEF Started, registries, Reread, Inactive, Underway, Alone,
         Serves, Quiet
    <3>3. Quiet' \/ (Alone(i)' /\ Underway(request[i])')
      BY <1>1, <2>1, <2>2, <3>1, <3>2 DEF Calls, Started, Awaiting, Reread, Underway, Alone,
         Serves, Quiet
    <3>. QED
      BY <3>2, <3>3, <2>2 DEF OneAtATime
  <2>. QED
    BY <2>1, <2>2, <2>3, <2>4, <2>5 DEF IInv
<1>2. CASE Unsatisfied(i)
  <2>1. Threads' /\ UNCHANGED workers
    BY <1>2 DEF IInv, Threads, Started, Unsatisfied
  <2>2. Shape' /\ Calls'
    BY <1>2, <2>1 DEF IInv, Shape, Calls, Request, Nothing, instances, registries, history,
       Threads, Unsatisfied
  <2>3. Starters'
    BY <1>2, <2>1 DEF IInv, Nothing, Threads, Unsatisfied, Starters
  <2>4. EntryLives' /\ WorkersAreOwned' /\ NobodyWaitsForTheDead'
    BY <1>2, <2>1, Bounds DEF IInv, registries, history, Threads, Unsatisfied, EntryLives,
       WorkersAreOwned, NobodyWaitsForTheDead, Gone, Alone, Serves, Quiet
  <2>5. OneAtATime'
    <3>. SUFFICES ASSUME ~overlapped' PROVE OneAtATime'
      BY DEF OneAtATime
    <3>1. ~overlapped /\ Alone(i) /\ Underway(request[i])
      BY <1>2 DEF IInv, Nothing, history, Unsatisfied, WorkersAreOwned, OneAtATime, Alone,
         Serves, Quiet
    <3>2. Inactive' /\ Quiet'
      BY <1>2, <2>1, <2>2, <3>1 DEF Calls, Started, instances, registries, Unsatisfied,
         Inactive, Underway, Alone, Serves, Quiet
    <3>. QED
      BY <3>2 DEF OneAtATime
  <2>. QED
    BY <2>1, <2>2, <2>3, <2>4, <2>5 DEF IInv
<1>3. CASE Start(i) /\ entry # 0
  <2>1. Threads' /\ UNCHANGED workers
    BY <1>3 DEF IInv, Threads, Started, Start
  <2>2. Shape' /\ Calls'
    <3>1. request' = [request EXCEPT ![i] = Nothing] /\ request[i] \in Request
      BY <1>3 DEF IInv, Calls, Start, Nothing
    <3>2. Shape'
      BY <1>3, <2>1, <3>1 DEF IInv, Shape, Start, Started, Request, history
    <3>3. Calls'
      BY <1>3, <3>1 DEF IInv, Calls, Request, Started, Nothing, Start
    <3>. QED
      BY <3>2, <3>3
  <2>3. Starters'
    BY <1>3, <2>1 DEF IInv, Calls, Starters, Started, Nothing, Start
  <2>4. EntryLives' /\ WorkersAreOwned' /\ NobodyWaitsForTheDead'
    BY <1>3, <2>1, Bounds DEF IInv, history, Threads, Start, EntryLives, WorkersAreOwned,
       NobodyWaitsForTheDead, Gone, Alone, Serves, Quiet
  <2>5. OneAtATime'
    <3>1. overlapped
      <4>. SUFFICES ASSUME ~overlapped PROVE FALSE
        OBVIOUS
      <4>1. Alone(i) /\ Underway(request[i])
        BY <1>3 DEF IInv, OneAtATime, Quiet, Alone, Start, Nothing
      <4>. QED
        BY <1>3, <4>1 DEF Underway, Inactive, Start
    <3>. QED
      BY <1>3, <3>1 DEF OneAtATime, Start, history
  <2>. QED
    BY <2>1, <2>2, <2>3, <2>4, <2>5 DEF IInv
<1>4. CASE Start(i) /\ entry = 0
  <2>0. workers' = Append(workers, NewWorker) /\ NewWorker \in Worker
    BY <1>4 DEF Start, NewWorker, Worker
  <2>. DEFINE w == Len(workers) + 1
  <2>1. Threads' /\ Len(workers') = w /\ Len(workers) \in Nat
    BY <2>0, ThreadAdded DEF IInv
  <2>. /\ Started' = Started \cup {w} /\ w \notin Started /\ workers'[w] = NewWorker
       /\ \A v \in Started : workers'[v] = workers[v]
    BY <2>0, <2>1 DEF IInv, Threads
  <2>2. Shape' /\ Calls'
    <3>1. Shape'
      BY <1>4, <2>0, <2>1, Bounds DEF IInv, Shape, Start, instances, history
    <3>2. Request \subseteq Request' /\ request[i] \in Request
      BY <1>4, <2>1 DEF IInv, Calls, Request, Start, Nothing
    <3>3. Calls'
      BY <1>4, <2>1, <3>2 DEF IInv, Calls, Request, Start
    <3>. QED
      BY <3>1, <3>3
  <2>3. Starters'
    BY <1>4, <2>1 DEF IInv, Calls, Request, Nothing, DefaultTool, Start
  <2>4. EntryLives' /\ WorkersAreOwned' /\ NobodyWaitsForTheDead'
    BY <1>4, <2>1, Bounds DEF IInv, Calls, Request, Nothing, Start, WorkersAreOwned, Alone,
       Serves, Quiet
  <2>5. OneAtATime'
    <3>. SUFFICES ASSUME ~overlapped' PROVE OneAtATime'
      BY DEF OneAtATime
    <3>1. ~overlapped /\ Alone(i) /\ Underway(request[i])
      BY <1>4 DEF IInv, Nothing, history, Start, WorkersAreOwned, NobodyWaitsForTheDead,
         OneAtATime, Alone, Serves, Quiet
    <3>2. /\ request'[i] = [request[i] EXCEPT !.at = "starting", !.worker = w]
          /\ \A j \in Slots : j # i => request'[j] = request[j]
      BY <1>4 DEF IInv, Calls, Start
    <3>3. Alone(i)'
      BY <1>4, <3>1, <3>2 DEF IInv, Calls, Request, Start, WorkersAreOwned,
         NobodyWaitsForTheDead, Gone, Alone, Serves, Quiet
    <3>4. Serves(w)'
      BY <1>4, <2>1, <3>1 DEF IInv, Calls, Request, Start, WorkersAreOwned, Gone, Alone,
         Serves, Quiet
    <3>5. Underway(request[i])'
      BY <1>4, <2>1, <2>2, <3>1, <3>2, <3>4 DEF Start, Alone, Serves, Quiet
    <3>. QED
      BY <3>3, <3>5, <2>2 DEF OneAtATime
  <2>. QED
    BY <2>1, <2>2, <2>3, <2>4, <2>5 DEF IInv
<1>5. CASE Removed(i)
  <2>1. Threads' /\ UNCHANGED workers
    BY <1>5 DEF IInv, Threads, Started, Removed
  <2>2. Shape' /\ Calls'
    BY <1>5, <2>1 DEF IInv, Shape, Calls, Request, Nothing, instances, registries, history,
       Threads, Removed
  <2>3. Starters'
    BY <1>5, <2>1 DEF IInv, Nothing, Threads, Removed, Starters
  <2>4. EntryLives' /\ WorkersAreOwned' /\ NobodyWaitsForTheDead'
    BY <1>5, <2>1, Bounds DEF IInv, registries, history, Threads, Removed, EntryLives,
       WorkersAreOwned, NobodyWaitsForTheDead, Gone, Alone, Serves, Quiet
  <2>5. OneAtATime'
    <3>. SUFFICES ASSUME ~overlapped' PROVE OneAtATime'
      BY DEF OneAtATime
    <3>1. ~overlapped /\ Alone(i) /\ Underway(request[i])
      BY <1>5 DEF IInv, Nothing, history, Removed, WorkersAreOwned, OneAtATime, Alone,
         Serves, Quiet
    <3>2. Inactive' /\ Quiet'
      BY <1>5, <2>1, <2>2, <3>1 DEF Calls, Started, instances, registries, Removed,
         Inactive, Underway, Alone, Serves, Quiet
    <3>. QED
      BY <3>2 DEF OneAtATime
  <2>. QED
    BY <2>1, <2>2, <2>3, <2>4, <2>5 DEF IInv
<1>6. CASE LoadFails(i)
  <2>1. Threads' /\ UNCHANGED workers
    BY <1>6 DEF IInv, Threads, Started, LoadFails
  <2>2. Shape' /\ Calls'
    BY <1>6, <2>1 DEF IInv, Shape, Calls, Request, Nothing, instances, history,
       Threads, Unregister, LoadFails
  <2>3. Starters'
    BY <1>6, <2>1 DEF IInv, Nothing, Threads, Unregister, LoadFails, Starters
  <2>4. EntryLives' /\ WorkersAreOwned' /\ NobodyWaitsForTheDead'
    BY <1>6, <2>1, Bounds DEF IInv, history, Threads, Unregister, LoadFails, EntryLives,
       WorkersAreOwned, NobodyWaitsForTheDead, Gone, Alone, Serves, Quiet
  <2>5. OneAtATime'
    <3>. SUFFICES ASSUME ~overlapped' PROVE OneAtATime'
      BY DEF OneAtATime
    <3>1. ~overlapped /\ Alone(i) /\ Underway(request[i])
      BY <1>6 DEF IInv, Nothing, history, Unregister, LoadFails, WorkersAreOwned, OneAtATime, Alone,
         Serves, Quiet
    <3>2. Inactive' /\ Quiet'
      BY <1>6, <2>1, <2>2, <3>1 DEF Calls, Started, instances, Unregister, LoadFails,
         Inactive, Underway, Alone, Serves, Quiet
    <3>. QED
      BY <3>2 DEF OneAtATime
  <2>. QED
    BY <2>1, <2>2, <2>3, <2>4, <2>5 DEF IInv
<1>. QED
  BY <1>1, <1>2, <1>3, <1>4, <1>5, <1>6

\* A thread that starts says that it is up, or its activation fails.
LEMMA StartEnds ==
  ASSUME IInv, NEW w \in Started, WorkerActivated(w) \/ ActivationFails(w)
  PROVE  IInv'
<1>1. CASE WorkerActivated(w)
  <2>. PICK i \in Slots : request[i].at = "starting" /\ request[i].worker = w /\ StartedBy(w) = i
    BY <1>1 DEF IInv, Starters, StartedBy, WorkerActivated
  <2>. DEFINE new == [workers[w] EXCEPT !.phase = "up"]
  <2>. workers[w] \in Worker /\ new \in Worker
    BY DEF IInv, Threads, Worker
  <2>0. workers' = [workers EXCEPT ![w] = new]
    BY <1>1 DEF WorkerActivated
  <2>1. Threads' /\ Len(workers') = Len(workers)
    BY <2>0, ThreadChanged DEF IInv
  <2>2. Shape' /\ Calls'
    BY <1>1, <2>1 DEF IInv, Shape, Calls, Request, Nothing, registries, history, Threads,
       WorkerActivated
  <2>3. Starters'
    BY <1>1, <2>1 DEF IInv, Calls, Nothing, Threads, WorkerActivated, Starters
  <2>4. EntryLives' /\ WorkersAreOwned' /\ NobodyWaitsForTheDead'
    BY <1>1, <2>1, Bounds DEF IInv, registries, history, Threads, WorkerActivated, EntryLives,
       WorkersAreOwned, NobodyWaitsForTheDead, Gone, Alone, Serves, Quiet
  <2>5. OneAtATime'
    <3>. SUFFICES ASSUME ~overlapped' PROVE OneAtATime'
      BY DEF OneAtATime
    <3>1. ~overlapped /\ Alone(i) /\ Underway(request[i])
      BY <1>1 DEF IInv, Nothing, history, WorkerActivated, OneAtATime, Alone, Serves, Quiet
    <3>2. Quiet'
      BY <1>1, <2>1, <2>2, <3>1 DEF Calls, Quiet, Alone, WorkerActivated
    <3>3. Serves(w)' /\ workers'[w].phase = "up" /\ ~workers'[w].going /\ active' = {current'}
      BY <1>1, <2>0, <2>1, <3>1 DEF Started, Underway, Serves, WorkerActivated, registries
    <3>. QED
      BY <2>1, <3>2, <3>3 DEF OneAtATime, Active, Started
  <2>. QED
    BY <2>1, <2>2, <2>3, <2>4, <2>5 DEF IInv
<1>2. CASE ActivationFails(w)
  <2>. PICK i \in Slots : request[i].at = "starting" /\ request[i].worker = w /\ StartedBy(w) = i
    BY <1>2 DEF IInv, Starters, StartedBy, ActivationFails
  <2>. DEFINE new == [workers[w] EXCEPT !.phase = "failed", !.going = TRUE]
  <2>. workers[w] \in Worker
    BY DEF IInv, Threads
  <2>. new \in Worker
    BY DEF Worker
  <2>0. workers' = [workers EXCEPT ![w] = new]
    BY <1>2 DEF ActivationFails
  <2>1. Threads' /\ Len(workers') = Len(workers)
    BY <2>0, ThreadChanged DEF IInv
  <2>2. Shape' /\ Calls'
    BY <1>2, <2>1 DEF IInv, Shape, Calls, Request, Nothing, instances, DeleteEntry, Unregister,
       Threads, ActivationFails
  <2>3. Starters'
    <3>1. request' = [request EXCEPT ![i] = Nothing] /\ Started' = Started
      BY <1>2, <2>1 DEF ActivationFails, Started
    <3>2. \A v \in Started : v # w => workers'[v] = workers[v]
      BY <2>0
    <3>3. workers'[w].phase = "failed"
      BY <2>0 DEF IInv, Threads
    <3>. QED
      BY <3>1, <3>2, <3>3 DEF IInv, Calls, Request, Starters, Nothing
  <2>4. EntryLives' /\ WorkersAreOwned' /\ NobodyWaitsForTheDead'
    BY <1>2, <2>1, Bounds DEF IInv, Nothing, DeleteEntry, Unregister, Threads, ActivationFails,
       EntryLives, WorkersAreOwned, NobodyWaitsForTheDead, Gone, OneAtATime, Underway, Alone,
       Serves, Quiet
  <2>5. OneAtATime'
    <3>. SUFFICES ASSUME ~overlapped' PROVE OneAtATime'
      BY DEF OneAtATime
    <3>1. ~overlapped /\ Alone(i) /\ Underway(request[i])
      BY <1>2 DEF IInv, Nothing, ActivationFails, WorkersAreOwned, OneAtATime, Alone, Serves,
         Quiet
    <3>2. Quiet'
      BY <1>2, <2>1, <2>2, <3>1 DEF Calls, Quiet, Alone, ActivationFails
    <3>3. Inactive'
      BY <1>2, <2>0, <2>1, <3>1 DEF Started, Underway, Serves, ActivationFails, DeleteEntry,
         Unregister, instances, Inactive
    <3>. QED
      BY <3>2, <3>3 DEF OneAtATime
  <2>. QED
    BY <2>1, <2>2, <2>3, <2>4, <2>5 DEF IInv
<1>. QED
  BY <1>1, <1>2

\* A thread registers handlers and is called for them.
LEMMA WorkGoesOn ==
  ASSUME IInv, NEW w \in Started,
         RegisterTool(w) \/ UnregisterTool(w) \/ SetTimer(w) \/ Call(w) \/ Answer(w) \/ CallTimesOut(w)
  PROVE  IInv'
<1>1. CASE RegisterTool(w)
  <2>1. Threads' /\ UNCHANGED workers
    BY <1>1 DEF IInv, Threads, Started, RegisterTool
  <2>2. Shape' /\ Calls'
    BY <1>1, <2>1 DEF IInv, Shape, Calls, Request, instances, history, Threads, RegisterTool
  <2>3. Starters'
    BY <1>1, <2>1 DEF IInv, Threads, RegisterTool, Starters
  <2>4. EntryLives' /\ WorkersAreOwned' /\ NobodyWaitsForTheDead'
    BY <1>1, <2>1, Bounds DEF IInv, history, Threads, RegisterTool, EntryLives,
       WorkersAreOwned, NobodyWaitsForTheDead, Gone, Alone, Serves, Quiet
  <2>5. OneAtATime'
    <3>1. \A i \in Slots : request[i].at \in {"idle"} \cup Awaits
      BY DEF IInv, Calls, Request, Nothing
    <3>. QED
      BY <1>1, <2>1, <3>1, RegistrationsKeepOrder DEF IInv, Nothing, Started, Talks,
         RegisterTool, instances, history
  <2>. QED
    BY <2>1, <2>2, <2>3, <2>4, <2>5 DEF IInv
<1>2. CASE UnregisterTool(w)
  <2>1. Threads' /\ UNCHANGED workers
    BY <1>2 DEF IInv, Threads, Started, UnregisterTool
  <2>2. Shape' /\ Calls'
    BY <1>2, <2>1 DEF IInv, Shape, Calls, Request, instances, history, Threads, UnregisterTool
  <2>3. Starters'
    BY <1>2, <2>1 DEF IInv, Threads, UnregisterTool, Starters
  <2>4. EntryLives' /\ WorkersAreOwned' /\ NobodyWaitsForTheDead'
    BY <1>2, <2>1, Bounds DEF IInv, history, Threads, UnregisterTool, EntryLives,
       WorkersAreOwned, NobodyWaitsForTheDead, Gone, Alone, Serves, Quiet
  <2>5. OneAtATime'
    <3>1. \A i \in Slots : request[i].at \in {"idle"} \cup Awaits
      BY DEF IInv, Calls, Request, Nothing
    <3>. QED
      BY <1>2, <2>1, <3>1, RegistrationsKeepOrder DEF IInv, Nothing, Started, UnregisterTool,
         instances, history
  <2>. QED
    BY <2>1, <2>2, <2>3, <2>4, <2>5 DEF IInv
<1>3. CASE SetTimer(w)
  <2>1. Threads' /\ UNCHANGED workers
    BY <1>3 DEF IInv, Threads, Started, SetTimer
  <2>2. Shape' /\ Calls'
    BY <1>3, <2>1 DEF IInv, Shape, Calls, Request, instances, history, Threads, SetTimer
  <2>3. Starters'
    BY <1>3, <2>1 DEF IInv, Threads, SetTimer, Starters
  <2>4. EntryLives' /\ WorkersAreOwned' /\ NobodyWaitsForTheDead'
    BY <1>3, <2>1, Bounds DEF IInv, history, Talks, Threads, SetTimer, EntryLives,
       WorkersAreOwned, NobodyWaitsForTheDead, Gone, Alone, Serves, Quiet
  <2>5. OneAtATime'
    <3>1. \A i \in Slots : request[i].at \in {"idle"} \cup Awaits
      BY DEF IInv, Calls, Request, Nothing
    <3>. QED
      BY <1>3, <2>1, <3>1, RegistrationsKeepOrder DEF IInv, Nothing, Started, Talks, SetTimer,
         instances, history
  <2>. QED
    BY <2>1, <2>2, <2>3, <2>4, <2>5 DEF IInv
<1>4. CASE Call(w)
  <2>. DEFINE new == [workers[w] EXCEPT !.call = IF workers[w].exited THEN "late" ELSE "open"]
  <2>. workers[w] \in Worker /\ new \in Worker
    BY DEF IInv, Threads, Worker
  <2>0. workers' = [workers EXCEPT ![w] = new]
    BY <1>4 DEF Call
  <2>1. Threads' /\ Len(workers') = Len(workers)
    BY <2>0, ThreadChanged DEF IInv
  <2>2. Shape' /\ Calls'
    BY <1>4, <2>1 DEF IInv, Shape, Calls, Request, instances, registries, history, Threads,
       Call
  <2>3. Starters'
    BY <1>4, <2>1 DEF IInv, Threads, Call, Starters
  <2>4. EntryLives' /\ WorkersAreOwned' /\ NobodyWaitsForTheDead'
    BY <1>4, <2>1, Bounds DEF IInv, registries, history, Threads, Call, EntryLives,
       WorkersAreOwned, NobodyWaitsForTheDead, Gone, Alone, Serves, Quiet
  <2>5. OneAtATime'
    <3>1. \A v \in Started : /\ workers'[v].phase = workers[v].phase
                             /\ workers'[v].going = workers[v].going
                             /\ workers'[v].exited = workers[v].exited
      BY <1>4, <2>0
    <3>2. UNCHANGED <<current, active, entry, request, overlapped, Started, tool, timer>>
      BY <1>4, <2>1 DEF Started, instances, registries, history, Call
    <3>3. \A i \in Slots : request[i].at \in {"idle"} \cup Awaits
      BY DEF IInv, Calls, Request, Nothing
    <3>. QED
      BY <3>1, <3>2, <3>3, RegistrationsKeepOrder DEF IInv, Nothing
  <2>. QED
    BY <2>1, <2>2, <2>3, <2>4, <2>5 DEF IInv
<1>5. CASE Answer(w)
  <2>. DEFINE new == [workers[w] EXCEPT !.call = "none"]
  <2>. workers[w] \in Worker /\ new \in Worker
    BY DEF IInv, Threads, Worker
  <2>0. workers' = [workers EXCEPT ![w] = new]
    BY <1>5 DEF Settle, Answer
  <2>1. Threads' /\ Len(workers') = Len(workers)
    BY <2>0, ThreadChanged DEF IInv
  <2>2. Shape' /\ Calls'
    BY <1>5, <2>1 DEF IInv, Shape, Calls, Request, instances, registries, history, Threads,
       Answer
  <2>3. Starters'
    BY <1>5, <2>1 DEF IInv, Settle, Threads, Answer, Starters
  <2>4. EntryLives' /\ WorkersAreOwned' /\ NobodyWaitsForTheDead'
    BY <1>5, <2>1, Bounds DEF IInv, registries, history, Settle, Threads, Answer, EntryLives,
       WorkersAreOwned, NobodyWaitsForTheDead, Gone, Alone, Serves, Quiet
  <2>5. OneAtATime'
    <3>1. \A v \in Started : /\ workers'[v].phase = workers[v].phase
                             /\ workers'[v].going = workers[v].going
                             /\ workers'[v].exited = workers[v].exited
      BY <1>5, <2>0
    <3>2. UNCHANGED <<current, active, entry, request, overlapped, Started, tool, timer>>
      BY <1>5, <2>1 DEF Started, instances, registries, history, Answer
    <3>3. \A i \in Slots : request[i].at \in {"idle"} \cup Awaits
      BY DEF IInv, Calls, Request, Nothing
    <3>. QED
      BY <3>1, <3>2, <3>3, RegistrationsKeepOrder DEF IInv, Nothing
  <2>. QED
    BY <2>1, <2>2, <2>3, <2>4, <2>5 DEF IInv
<1>6. CASE CallTimesOut(w)
  <2>. DEFINE new == [workers[w] EXCEPT !.call = "none"]
  <2>. workers[w] \in Worker /\ new \in Worker
    BY DEF IInv, Threads, Worker
  <2>0. workers' = [workers EXCEPT ![w] = new]
    BY <1>6 DEF Settle, CallTimesOut
  <2>1. Threads' /\ Len(workers') = Len(workers)
    BY <2>0, ThreadChanged DEF IInv
  <2>2. Shape' /\ Calls'
    BY <1>6, <2>1 DEF IInv, Shape, Calls, Request, instances, registries, history, Threads,
       CallTimesOut
  <2>3. Starters'
    BY <1>6, <2>1 DEF IInv, Settle, Threads, CallTimesOut, Starters
  <2>4. EntryLives' /\ WorkersAreOwned' /\ NobodyWaitsForTheDead'
    BY <1>6, <2>1, Bounds DEF IInv, registries, history, Settle, Threads, CallTimesOut,
       EntryLives, WorkersAreOwned, NobodyWaitsForTheDead, Gone, Alone, Serves, Quiet
  <2>5. OneAtATime'
    <3>1. \A v \in Started : /\ workers'[v].phase = workers[v].phase
                             /\ workers'[v].going = workers[v].going
                             /\ workers'[v].exited = workers[v].exited
      BY <1>6, <2>0
    <3>2. UNCHANGED <<current, active, entry, request, overlapped, Started, tool, timer>>
      BY <1>6, <2>1 DEF Started, instances, registries, history, CallTimesOut
    <3>3. \A i \in Slots : request[i].at \in {"idle"} \cup Awaits
      BY DEF IInv, Calls, Request, Nothing
    <3>. QED
      BY <3>1, <3>2, <3>3, RegistrationsKeepOrder DEF IInv, Nothing
  <2>. QED
    BY <2>1, <2>2, <2>3, <2>4, <2>5 DEF IInv
<1>. QED
  BY <1>1, <1>2, <1>3, <1>4, <1>5, <1>6

\* A thread exits, by itself or terminated.
LEMMA ExitKeeps ==
  ASSUME IInv, NEW w \in Started, Exits(w)
  PROVE  IInv'
<1>. DEFINE new == [workers[w] EXCEPT !.exited = TRUE, !.call = "none"]
<1>. workers[w] \in Worker /\ new \in Worker
  BY DEF IInv, Threads, Worker
<1>0. workers' = [workers EXCEPT ![w] = new]
  BY DEF Exits
<1>1. Threads' /\ Len(workers') = Len(workers)
  BY <1>0, ThreadChanged DEF IInv
<1>2. Shape' /\ Calls'
  BY <1>1 DEF IInv, Shape, Calls, Request, Nothing, Awaits, Awaiting, DeleteEntry,
     AfterDeactivate, Deactivated, Threads, Exits
<1>3. Starters'
  <2>1. AtStop(w, "terminating") \subseteq Slots /\ Started' = Started
    BY <1>1 DEF AtStop, Started
  <2>2. \A v \in Started : workers'[v].phase = workers[v].phase
    BY <1>0
  <2>3. \A i \in Slots : request'[i].at # request[i].at =>
          request[i].at = "terminating" /\ request'[i].at \in {"idle", "removing", "rereading"}
    BY DEF AtStop, Nothing, Exits, Deactivated, AfterDeactivate, Awaiting
  <2>4. \A i \in Slots : request[i].at = "starting" \/ request'[i].at = "starting" =>
          request'[i] = request[i]
    BY <2>3 DEF Nothing, Exits, Deactivated, AfterDeactivate, Awaiting
  <2>. QED
    BY <2>1, <2>2, <2>3, <2>4 DEF IInv, Starters, Calls, Request, Nothing
<1>4. EntryLives' /\ WorkersAreOwned' /\ NobodyWaitsForTheDead'
  BY <1>1, Bounds DEF IInv, Calls, Request, Awaits, DeleteEntry, Threads, Exits, EntryLives,
     WorkersAreOwned, NobodyWaitsForTheDead, Gone, OneAtATime, Inactive, Active, Underway,
     Alone, Serves, Quiet
<1>5. OneAtATime'
  <2>. SUFFICES ASSUME ~overlapped' PROVE OneAtATime'
    BY DEF OneAtATime
  <2>0. ~overlapped
    BY DEF Exits
  <2>1. /\ Started' = Started /\ workers'[w].exited
        /\ \A v \in Started : /\ workers'[v].phase = workers[v].phase
                              /\ workers'[v].going = workers[v].going
        /\ \A v \in Started : v # w => workers'[v] = workers[v]
    BY <1>0, <1>1 DEF Started
  <2>2. entry' = 0 /\ timer' = 0 /\ Len(workers) \in Nat /\ 0 \notin Started
    BY DEF Started, Exits, DeleteEntry
  <2>3. AtStop(w, "terminating") = {} => UNCHANGED <<request, active, current, tool>>
    BY DEF IInv, Calls, Exits, Deactivated
  <2>4. ASSUME Quiet
        PROVE  AtStop(w, "terminating") = {} /\ Quiet'
    BY <2>3, <2>4 DEF Quiet, AtStop, Nothing
  <2>5. CASE Quiet /\ Inactive
    <3>1. Inactive'
      BY <2>1, <2>2, <2>3, <2>4, <2>5 DEF Inactive
    <3>. QED
      BY <2>4, <2>5, <3>1 DEF OneAtATime
  <2>6. CASE Quiet /\ Active
    <3>1. PICK v \in Started : Serves(v) /\ workers[v].phase = "up" /\ ~workers[v].going
      BY <2>6 DEF Active
    <3>2. v = w
      BY <3>1 DEF Serves, Exits
    <3>3. Serves(w)' /\ workers'[w].phase = "up" /\ ~workers'[w].going
      BY <2>1, <2>2, <2>3, <2>4, <2>6, <3>1, <3>2 DEF Serves
    <3>4. Active'
      BY <2>1, <2>3, <2>4, <2>6, <3>3 DEF Active
    <3>. QED
      BY <2>4, <2>6, <3>4 DEF OneAtATime
  <2>7. ASSUME NEW i \in Slots, Alone(i), Underway(request[i])
        PROVE  OneAtATime'
    <3>. request[i] \in Request
      BY <2>7 DEF IInv, Calls, Alone
    <3>1. CASE request[i].at = "terminating"
      <4>1. /\ w = request[i].worker /\ AtStop(w, "terminating") = {i}
            /\ request[i].instance = current /\ active = {current}
        BY <2>7, <3>1 DEF Underway, Serves, Alone, AtStop, Nothing, Exits
      <4>2. \A v \in Started : workers'[v].exited
        BY <2>1, <2>7, <3>1, <4>1 DEF Underway, Serves
      <4>3. Inactive'
        <5>1. active' = {} /\ tool' = NoTool
          BY <4>1 DEF Exits, Deactivated
        <5>. QED
          BY <2>1, <2>2, <4>2, <5>1 DEF Inactive
      <4>4. /\ request'[i] = AfterDeactivate(request[i])
            /\ \A j \in Slots : j # i => request'[j] = Nothing
        BY <2>7, <4>1 DEF Exits, Deactivated, Alone
      <4>5. CASE request[i].kind \in {"reload", "remove"}
        <5>1. Alone(i)' /\ Underway(request[i])'
          BY <2>1, <4>1, <4>2, <4>3, <4>4, <4>5 DEF Alone, Underway, AfterDeactivate, Awaiting,
             Nothing, Exits, Deactivated
        <5>. QED
          BY <5>1 DEF OneAtATime
      <4>6. CASE request[i].kind \notin {"reload", "remove"}
        <5>1. Quiet'
          BY <4>4, <4>6 DEF Quiet, AfterDeactivate
        <5>. QED
          BY <4>3, <5>1 DEF OneAtATime
      <4>. QED
        BY <4>5, <4>6
    <3>2. CASE request[i].at # "terminating"
      <4>1. AtStop(w, "terminating") = {}
        BY <2>7, <3>2 DEF Alone, AtStop, Nothing
      <4>2. Alone(i)'
        BY <2>3, <2>7, <4>1 DEF Alone
      <4>3. Inactive => Inactive'
        BY <2>1, <2>2, <2>3, <4>1 DEF Inactive
      <4>4. Serves(request[i].worker) => w = request[i].worker /\ Serves(request[i].worker)'
        BY <2>1, <2>2, <2>3, <4>1 DEF Serves, Exits
      <4>5. Underway(request[i])'
        <5>1. request'[i] = request[i] /\ active' = active /\ current' = current
          BY <2>3, <4>1
        <5>2. CASE Inactive /\ \A v \in Started : workers[v].exited
          BY <5>2 DEF Exits
        <5>3. CASE Serves(request[i].worker)
          <6>1. request[i].worker = w /\ Serves(w)' /\ request'[i].instance = current'
            BY <2>7, <4>4, <5>1, <5>3 DEF Underway
          <6>2. request[i].at \notin {"negotiating", "removing", "rereading"}
            BY <2>7 DEF Underway, Exits
          <6>. QED
            BY <2>1, <2>7, <3>2, <5>1, <6>1, <6>2 DEF Underway
        <5>. QED
          BY <2>7, <3>2, <5>2, <5>3 DEF Request, Awaits, Underway
      <4>. QED
        BY <4>2, <4>5 DEF OneAtATime
    <3>. QED
      BY <3>1, <3>2
  <2>. QED
    BY <2>0, <2>5, <2>6, <2>7 DEF IInv, OneAtATime
<1>. QED
  BY <1>1, <1>2, <1>3, <1>4, <1>5 DEF IInv

\* The requests of D, which have asked the thread w to deactivate, terminate it.
LEMMA TerminateKeeps ==
  ASSUME IInv, NEW w \in Started, NEW D \in SUBSET AtStop(w, "deactivating"), D # {},
         Terminate(w, D)
  PROVE  IInv'
<1>0. D \subseteq Slots /\ \A i \in D : request[i] \in Request /\ request[i].at = "deactivating" /\ request[i].worker = w
  BY DEF IInv, Calls, AtStop, Nothing
<1>1. CASE workers[w].exited
  <2>. DEFINE new == [workers[w] EXCEPT !.call = "none"]
  <2>. workers[w] \in Worker /\ new \in Worker
    BY DEF IInv, Threads, Worker
  <2>0. workers' = [workers EXCEPT ![w] = new]
    BY <1>1 DEF Settle, Terminate
  <2>1. Threads' /\ Started' = Started
    BY <2>0, ThreadChanged DEF IInv, Started
  <2>1b. /\ \A v \in Started : /\ workers'[v].phase = workers[v].phase
                               /\ workers'[v].exited = workers[v].exited
         /\ \A v \in Started : v # w => workers'[v] = workers[v]
         /\ workers'[w].call = "none"
    BY <2>0 DEF Started
  <2>1a. \A i \in D : /\ AfterDeactivate(request[i]) \in Request \cup {Nothing}
                      /\ AfterDeactivate(request[i]).at \in {"idle", "removing", "rereading"}
    BY <1>0, AfterTyped
  <2>2. Shape' /\ Calls'
    <3>1. Shape'
      <4>1. /\ active' \subseteq active /\ current' \in {0, current} /\ tool' = NoTool /\ timer' = 0
            /\ entry' = 0 /\ evicted' \subseteq evicted \cup ({entry} \ {0})
            /\ UNCHANGED <<loads, overlapped>>
        BY <1>1 DEF Terminate, DeleteEntry, Unregister, Deactivated
      <4>2. Len(workers') = Len(workers)
        BY <2>0
      <4>. QED
        BY <2>1, <4>1, <4>2 DEF IInv, Shape
    <3>2. Request' = Request
      BY <1>1, <2>1 DEF Request, Terminate, Deactivated
    <3>3. Calls'
      BY <1>0, <1>1, <2>1a, <3>2 DEF IInv, Calls, Terminate, Deactivated
    <3>. QED
      BY <3>1, <3>3
  <2>3. Starters'
    <3>1. \A i \in Slots : request[i].at = "starting" \/ request'[i].at = "starting" =>
            request'[i] = request[i]
      BY <1>0, <1>1, <2>1a DEF Terminate, Deactivated
    <3>. QED
      BY <2>1, <2>1b, <2>2, <3>1, StartersStay DEF IInv
  <2>4. EntryLives' /\ WorkersAreOwned' /\ NobodyWaitsForTheDead'
    <3>1. entry \in {0, w} \/ overlapped
      <4>. SUFFICES ASSUME ~overlapped PROVE entry \in {0, w}
        OBVIOUS
      <4>1. PICK i \in Slots : i \in D /\ Alone(i) /\ Underway(request[i])
        BY <1>0 DEF IInv, OneAtATime, Alone, Quiet, Nothing
      <4>. QED
        BY <1>0, <4>1 DEF Underway, Serves
    <3>2. \A v \in Started : workers'[v].going = workers[v].going
      BY <2>0
    <3>. QED
      BY <1>1, <2>1, <2>1b, <3>1, <3>2 DEF IInv, EntryLives, WorkersAreOwned,
         NobodyWaitsForTheDead, Gone, Terminate, DeleteEntry, Unregister
  <2>5. OneAtATime'
    <3>. SUFFICES ASSUME ~overlapped' PROVE OneAtATime'
      BY DEF OneAtATime
    <3>0. ~overlapped
      BY <1>1 DEF Terminate
    <3>1. PICK i \in Slots : i \in D /\ Alone(i) /\ Underway(request[i])
      BY <1>0, <3>0 DEF IInv, OneAtATime, Alone, Quiet, Nothing
    <3>2. D = {i} /\ request[i].at = "deactivating" /\ request[i].worker = w
      BY <1>0, <3>1 DEF Alone, Nothing
    <3>3. \A v \in Started : workers'[v].exited
      BY <1>1, <2>1b, <3>1, <3>2 DEF Underway, Serves
    <3>4. Inactive'
      BY <1>1, <2>1, <3>1, <3>2, <3>3 DEF Terminate, DeleteEntry, Unregister, Deactivated,
         Inactive, Underway
    <3>5. /\ request'[i] = AfterDeactivate(request[i])
          /\ \A j \in Slots : j # i => request'[j] = Nothing
      BY <1>1, <3>1, <3>2 DEF Terminate, Deactivated, Alone
    <3>6. CASE request[i].kind \in {"reload", "remove"}
      <4>1. Alone(i)' /\ Underway(request[i])'
        BY <1>1, <2>1, <3>1, <3>2, <3>3, <3>4, <3>5, <3>6 DEF Alone, Underway, AfterDeactivate,
           Awaiting, Nothing, Terminate, Deactivated
      <4>. QED
        BY <4>1 DEF OneAtATime
    <3>7. CASE request[i].kind \notin {"reload", "remove"}
      <4>1. Quiet'
        BY <3>5, <3>7 DEF Quiet, AfterDeactivate
      <4>. QED
        BY <3>4, <4>1 DEF OneAtATime
    <3>. QED
      BY <3>6, <3>7
  <2>. QED
    BY <2>1, <2>2, <2>3, <2>4, <2>5 DEF IInv
<1>2. CASE ~workers[w].exited
  <2>. DEFINE new == [workers[w] EXCEPT !.going = TRUE, !.call = "none"]
  <2>. workers[w] \in Worker /\ new \in Worker
    BY DEF IInv, Threads, Worker
  <2>0. workers' = [workers EXCEPT ![w] = new]
    BY <1>2 DEF Terminate
  <2>1. Threads' /\ Started' = Started
    BY <2>0, ThreadChanged DEF IInv, Started
  <2>1b. /\ \A v \in Started : /\ workers'[v].phase = workers[v].phase
                               /\ workers'[v].exited = workers[v].exited
         /\ \A v \in Started : v # w => workers'[v] = workers[v]
         /\ workers'[w].call = "none"
    BY <2>0 DEF Started
  <2>1a. /\ UNCHANGED <<loads, current, active, entry, tool, timer, overlapped, evicted>>
         /\ \A i \in D : request'[i] = [request[i] EXCEPT !.at = "terminating"]
         /\ \A i \in Slots \ D : request'[i] = request[i]
    BY <1>0, <1>2 DEF Terminate, instances, registries, history
  <2>2. Shape' /\ Calls'
    <3>1. Shape'
      <4>1. Len(workers') = Len(workers)
        BY <2>0
      <4>. QED
        BY <2>1, <2>1a, <4>1 DEF IInv, Shape
    <3>2. Request' = Request
      BY <2>1, <2>1a DEF Request
    <3>3. ASSUME NEW i \in D PROVE request'[i] \in Request
      <4>1. request[i] \in Request
        BY <1>0
      <4>2. [request[i] EXCEPT !.at = "terminating"] \in Request
        BY <4>1 DEF Request, Awaits
      <4>. QED
        BY <2>1a, <4>2
    <3>4. Calls'
      <4>1. request' \in [Slots -> Request \cup {Nothing}]
        BY <1>0, <1>2, <2>1a, <3>3 DEF IInv, Calls, Terminate
      <4>2. \A i \in D : request'[i].worker = w /\ w # 0
        <5>1. w # 0
          BY DEF Started
        <5>2. ASSUME NEW i \in D PROVE request'[i].worker = w
          BY <1>0, <2>1a, <5>2 DEF Request
        <5>. QED
          BY <5>1, <5>2
      <4>. QED
        BY <2>1a, <3>2, <4>1, <4>2 DEF IInv, Calls
    <3>. QED
      BY <3>1, <3>4
  <2>3. Starters'
    <3>1. ASSUME NEW i \in Slots, request[i].at = "starting" \/ request'[i].at = "starting"
          PROVE  request'[i] = request[i]
      <4>1. ASSUME i \in D PROVE FALSE
        <5>1. request'[i].at = "terminating"
          BY <1>0, <2>1a, <4>1 DEF Request
        <5>. QED
          BY <1>0, <3>1, <4>1, <5>1
      <4>. QED
        BY <2>1a, <4>1
    <3>. QED
      BY <2>1, <2>1b, <2>2, <3>1, StartersStay DEF IInv
  <2>4. EntryLives' /\ WorkersAreOwned' /\ NobodyWaitsForTheDead'
    BY <2>0, <2>1, <2>1a, <2>1b DEF IInv, EntryLives, WorkersAreOwned, NobodyWaitsForTheDead,
       Gone
  <2>5. OneAtATime'
    <3>. SUFFICES ASSUME ~overlapped' PROVE OneAtATime'
      BY DEF OneAtATime
    <3>0. ~overlapped
      BY <1>2 DEF Terminate, history
    <3>1. PICK i \in Slots : i \in D /\ Alone(i) /\ Underway(request[i])
      BY <1>0, <3>0 DEF IInv, OneAtATime, Alone, Quiet, Nothing
    <3>2. D = {i} /\ request[i].at = "deactivating" /\ request[i].worker = w
      BY <1>0, <3>1 DEF Alone, Nothing
    <3>3. Alone(i)'
      BY <1>0, <2>1a, <3>1, <3>2 DEF Alone, Nothing
    <3>4. Serves(w)'
      BY <2>1, <2>1a, <2>1b, <3>1, <3>2 DEF Underway, Serves
    <3>5. Underway(request[i])'
      BY <1>0, <1>2, <2>1, <2>1a, <2>1b, <3>1, <3>2, <3>4 DEF Underway, Request
    <3>. QED
      BY <3>3, <3>5 DEF OneAtATime
  <2>. QED
    BY <2>1, <2>2, <2>3, <2>4, <2>5 DEF IInv
<1>. QED
  BY <1>1, <1>2

\* Other steps leave the plugin as it is.
LEMMA StutterKeeps ==
  ASSUME IInv, UNCHANGED vars
  PROVE  IInv'
  BY DEF vars, instances, registries, history, IInv, Threads, Shape, Calls, Started, Request,
     Starters, EntryLives, WorkersAreOwned, NobodyWaitsForTheDead, Gone, OneAtATime, Inactive,
     Active, Underway, Alone, Serves, Quiet

-----------------------------------------------------------------------------
(* The theorems.                                                           *)

\* The inductive invariant holds in every state of the plugin: whatever requests, threads
\* and timers do, in any order.
THEOREM Invariance == Spec => []IInv
<1>1. Init => IInv
  <2>. SUFFICES ASSUME Init PROVE IInv
    OBVIOUS
  <2>1. Threads /\ Len(workers) = 0
    BY DEF Init, Threads, Started
  <2>2. Shape
    <3>1. loads \in 1..MaxLoads /\ Len(workers) <= MaxWorkers
      BY <2>1, Bounds DEF Init
    <3>2. /\ current \in 0..loads /\ active \subseteq 1..loads /\ entry \in Started \cup {0}
          /\ timer \in Started \cup {0}
      BY DEF Init
    <3>. QED
      BY <3>1, <3>2 DEF Init, Shape
  <2>2a. Calls /\ Starters
    BY <2>1 DEF Init, Calls, Starters, Started, Nothing
  <2>3. EntryLives /\ WorkersAreOwned /\ NobodyWaitsForTheDead
    BY <2>1 DEF Init, EntryLives, WorkersAreOwned, NobodyWaitsForTheDead, Started
  <2>4. Quiet /\ Inactive
    BY <2>1 DEF Init, Quiet, Inactive, Started
  <2>. QED
    BY <2>1, <2>2, <2>2a, <2>3, <2>4 DEF IInv, OneAtATime
<1>2. IInv /\ [Next]_vars => IInv'
  <2>1. ASSUME IInv, NEW w \in Started, WorkerDeactivated(w) PROVE IInv'
    BY <2>1, TerminateKeeps DEF WorkerDeactivated
  <2>2. ASSUME IInv, NEW i \in Slots, DeactivationTimesOut(i) PROVE IInv'
    <3>1. request[i].worker \in Started /\ {i} \in SUBSET AtStop(request[i].worker, "deactivating")
      BY <2>2 DEF IInv, Calls, Request, Nothing, AtStop, DeactivationTimesOut
    <3>. QED
      BY <2>2, <3>1, TerminateKeeps DEF DeactivationTimesOut
  <2>3. ASSUME IInv, NEW w \in Started,
               \/ WorkerActivated(w) \/ ActivationFails(w) \/ WorkerDeactivated(w) \/ Exits(w)
               \/ RegisterTool(w) \/ UnregisterTool(w) \/ SetTimer(w)
               \/ Call(w) \/ Answer(w) \/ CallTimesOut(w)
        PROVE  IInv'
    BY <2>1, <2>3, StartEnds, WorkGoesOn, ExitKeeps
  <2>4. ASSUME IInv, NEW i \in Slots,
               \/ Activate(i) \/ Discover(i) \/ ReloadInactive(i) \/ RemoveInactive(i) \/ Goes(i)
               \/ \E kind \in {"deactivate", "reload", "remove"} : Stop(i, kind)
        PROVE  IInv'
    BY <2>2, <2>4, RequestsBegin, RequestsGoOn, StopKeeps DEF Goes
  <2>. QED
    BY <2>3, <2>4, StutterKeeps DEF Next
<1>. QED
  BY <1>1, <1>2, PTL DEF Spec

\* The types; a thread whose activation timeout is armed is awaited by one request.
THEOREM TypeCorrect == Spec => []TypeOK
<1>1. ASSUME IInv PROVE TypeOK
  <2>1. ASSUME NEW w \in Started
        PROVE  workers[w].phase = "starting" <=>
                 Cardinality({i \in Slots : request[i].at = "starting" /\ request[i].worker = w}) = 1
    <3>. DEFINE S == {i \in Slots : request[i].at = "starting" /\ request[i].worker = w}
    <3>1. CASE workers[w].phase = "starting"
      <4>1. PICK i \in Slots : S = {i}
        BY <1>1, <3>1 DEF IInv, Starters
      <4>. QED
        BY <3>1, <4>1, FS_Singleton
    <3>2. CASE workers[w].phase # "starting"
      <4>1. S = {}
        BY <1>1, <3>2 DEF IInv, Starters
      <4>. QED
        BY <3>2, <4>1, FS_EmptySet
    <3>. QED
      BY <3>1, <3>2
  <2>2. ASSUME NEW i \in Slots, request[i] # Nothing
        PROVE  /\ request[i].kind \in Kinds /\ request[i].at \in Awaits
               /\ request[i].instance \in 1..loads
               /\ request[i].worker \in Started \/ request[i].at \in {"negotiating", "removing", "rereading"}
    <3>1. request[i] \in Request
      BY <1>1, <2>2 DEF IInv, Calls
    <3>. QED
      BY <1>1, <3>1 DEF IInv, Calls, Request, Awaits
  <2>. QED
    BY <1>1, <2>1, <2>2 DEF IInv, Threads, Shape, TypeOK
<1>. QED
  BY <1>1, Invariance, PTL

\* Every thread can be stopped, nobody waits for one that has exited, and requests
\* that come one at a time leave nothing behind.
THEOREM PluginStaysInOrder == Spec => []PluginIsInOrder
<1>1. ASSUME IInv PROVE PluginIsInOrder
  <2>1. NothingIsLeftBehind
    <3>. SUFFICES ASSUME ~overlapped, Quiet
                  PROVE  NothingIsLeftBehind
      BY DEF NothingIsLeftBehind, Quiet
    <3>1. CASE Active
      BY <1>1, <3>1 DEF Active, Serves, NothingIsLeftBehind
    <3>2. CASE Inactive
      BY <1>1, <3>2 DEF IInv, Shape, Inactive, NobodyWaitsForTheDead, Gone, NothingIsLeftBehind
    <3>. QED
      BY <1>1, <3>1, <3>2 DEF IInv, OneAtATime, Alone, Quiet
  <2>. QED
    BY <1>1, <2>1 DEF IInv, PluginIsInOrder
<1>. QED
  BY <1>1, Invariance, PTL

=============================================================================
