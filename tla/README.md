# Verification of my-claudia

my-claudia runs AI coding agents on behalf of a user. A Node.js server keeps
projects, sessions and tasks in SQLite, starts the agents, relays their events to
desktop and mobile clients (directly or through a gateway), and has several pieces of
scheduling logic of its own: a *supervisor* that runs a project's tasks one after the
other or in parallel in git worktrees, with automatic review; an engine for workflows; local
pull requests with a merge queue; a queue of agent tasks; plugins in worker threads; and the runs of agents themselves, with
permissions that users and workflows race to decide. A gateway connects servers and clients. All of these are
status machines over a database that polling timers, user commands, the ends of agents and
crashes move at any moment, with awaits between what is read and what is written. This
project models seven of them:

* the supervisor, serial and parallel (`SupervisionModel`, `SerialSupervision`, `SerialContract`,
  `WorktreePool`, `ParallelSupervision`);
* the workflow engine (`WorkflowModel`, `WorkflowEngine`);
* the runs of a session and their permissions (`ConversationRuns`);
* the queue of agent tasks (`TaskOrchestrator`);
* local pull requests (`LocalPullRequests`);
* plugins and their workers (`PluginWorkers`);
* gateway, backend and client around a subscription (`GatewayState`, `FacadeRegistry`, `GatewaySync`).

The MC modules give each model small instances for TLC; the `_proofs` modules prove the safety
properties for all instances (section 4).

Paths below are relative to `src/server/src/` unless they start with `src/`; `sup/` is
`domains/supervision/`.

## 1. Inventory

| Component | State | Operations | Interacts with | Hard behaviour | Correct when |
|---|---|---|---|---|---|
| Task status machine (`sup/status-machine.ts`, `sup/model.ts`) | none | transition table, phase rules, retry rule | used by every handler | statuses are written by handlers that asked the table earlier | a status change follows the table |
| Scheduler and task start (`sup/task-scheduler.ts`, `sup/task-execution.ts`, `sup/supervisor-guards.ts`) | `supervision_tasks`, agent phase, starting set, pools | 5 s tick per project: budget, dependencies, slots, start | task table, runs of agents, worktree pool | start answers are not awaited; sessions may be busy; awaits before the status is written (parallel) | one task per slot; nothing starts when paused, over a limit, or before its dependencies |
| Task commands (`sup/task-admin.ts`, `sup/task-lifecycle.ts`) | `supervision_tasks` | create, approve, reject, open session, submit plan, retry, run now, cancel, approve/reject result | HTTP routes; end in ticks | come at any moment, also between the awaits of other handlers | late events of an earlier attempt do no harm to a later one |
| Completion of runs (`sup/task-runner.ts`) | task client map | `onTaskComplete`: parse, workflow actions, commit, review | runs of agents, review engine | the status is checked before and written after several awaits | a running task gets an end |
| Review engine (`sup/review-engine.ts`) | review sessions, one timer per task | create review, verdict, timeout, conflict resolution | runs of agents, worktree merge | late verdicts, timers of finished reviews | a task in review gets a verdict; a timer harms nobody |
| Agent phases (`sup/supervisor-agent.ts`) | `project.agent.phase` | init, pause, resume, archive | every tick | phase changes between a command and its tick | a paused agent starts nothing |
| State recovery (`sup/state-recovery.ts`) | none (rewrites the tables at start) | stuck tasks, idle agents, orphan checkpoints | task table | crash in every intermediate state | no task is lost, attempts are bounded |
| Worktree pool (`sup/worktree-pool.ts`, `sup/worktree-manager.ts`) | slots, merge lock (memory only) | init, acquire, release, merge back | scheduler, reviews | slots kept on failures, ownership forgotten after a restart | one task per worktree |
| Lite supervision (parts of `sup/task-execution.ts`, `sup/task-lifecycle.ts`, `sup/task-scheduler.ts`) | `scheduled` tasks with due times | start, retry after delay, scheduled start | runs of agents | retry racing a late end | bounded retries, one run per task |
| Checkpoint engine (`sup/checkpoint-engine.ts`) | running set, checkpoint sessions | trigger on completion / idle / interval, run, apply | task creation, runs | triggers while one is running; crash leaves sessions | one checkpoint per project |
| Change lifecycle (`sup/change-lifecycle.ts`) | change status, gate reviews | gates, sync | task completion | gates passed out of order | a change advances when its gates did |
| Context, baselines, prompts, routes | files, HTTP | read and write markdown, check arguments | | pure I/O and text | |
| Runs of agents (`application/conversation/runtime/`) | `activeRuns`, `completed`, `last_run_status` of the session | start (refused when the session has a run), events, cancel, retry after a crash, background consumer, finalize | providers, clients, supervisor | a cancel meets the end of the stream; an old run finalizes after a new one began | one run per session, its end announced |
| Permissions and interactions (`application/conversation/interactions/`, `runtime/run-permissions.ts`, `agent/permission-bridge.ts`) | pending permissions of a run, the bridge's entries, permission workflows | ask, answer, cancel, decide by workflow | clients, runs, workflows | user, workflow, cancel and end of the run race for one promise | each request is settled once and until then somebody can settle it |
| Task orchestrator (`application/orchestration/`, `handlers/claudia.ts`) | `orchestrator_tasks`; in memory virtual clients with timers, waiters, the feed's items | spawn, tick (promote, start), end of a run, safety timer, kill, wait, promote a conversation | runs of agents, every client's broadcasts, feed | the ends of all runs reach all virtual clients; retries are counted in a stale copy; timers meet late ends; a restart leaves running rows | the limits are kept, who waits for a settled task is told, every task settles |
| One-shot runtime (`application/oneshot/`) | runs that a caller awaits | run, collect, abort | runs of agents, providers | little state of its own | the caller gets an end |
| Workflow engine (`domains/workflows/`) | runs, step runs; in memory the aggregate of a run, pending approvals with timers | validate, trigger, schedule, execute graph, retry, approve, time out, cancel | users, the scheduler, permissions | the status is kept in the row and in two aggregates; approvals race timeouts and cancels | a run ends once, for a reason; steps follow the graph; nothing is left open |
| Local pull requests (`domains/local-pr/`) | row with status, execution state and pending action; merge lock, active review and conflict sets | create, refresh, review, merge, resolve conflict, revert, queue, reset stale rows | git, runs, routes, 30 s scheduler | every command awaits git between reading and writing the row; restarts; stale queue snapshots | a busy row has its worker; merged means in main; the lock is passed on |
| Meta workflow, epics, openspec, issues, sessions, turn summaries, notification feed | tables | CRUD and composition | the above | little concurrency | |
| Plugins (`application/plugins/`) | instances, the map of workers, pending calls; registries of tools, commands, periodic tasks; permissions | discover, activate, deactivate, reload, remove; register, call, tick | worker threads, tool callers, scheduler | each request awaits a thread or a timeout and goes on with the plugin's id, whichever thread that stands for by then; threads crash with calls pending | a live thread can be stopped; every call ends; an inactive plugin leaves nothing behind |
| Gateway (`src/gateway/src/server.ts`, `state.ts`) | peers, registry, leases, subscriptions, stream demand (all in memory) | hello, heartbeat, subscribe, relay, expire, poll | servers and clients over websockets | reconnects overtake closes; counters kept beside sets | demand is told exactly; an owner is replaced, never doubled |
| Gateway client of the server (`infrastructure/gateway/`) | connection, epoch, demand | connect, heartbeat, push data | gateway | acknowledgements against transitions | it streams when somebody listens |
| Shared facade and transport (`src/shared/src/facade/`, `src/apps/desktop/src/hooks/transport/`) | records of backends, what is desired, the transport's subscriptions | open, close, reopen, apply registry | gateway | two lists of subscriptions; messages of an earlier epoch | the views agree once nothing is under way |
| Providers, process supervisor, storage, HTTP/websocket | child processes, SQLite | translate protocols | | third-party protocols, single statements | |
| Desktop/mobile app, ntfy bridge | UI state, push | | | user interface; a separate Go program | |

`PROJECT.json` lists the same components with their status, and the hazards with
the line where each one bites.

## 2. What is modelled

One action is always what one JavaScript callback does between two awaits: Node runs
callbacks one at a time, so that is the real grain of interleaving. Handlers with awaits are split
there, and what a handler has read before an await is kept with it.

### Serial mode of the supervisor

One project, full mode, one task at a time: what `TaskScheduler.tickProject` does when
the project is not a git repository or `maxConcurrentTasks <= 1` (the default).

* `SupervisionModel` - the pure rules: `TASK_TRANSITIONS` and `CanTransition`, the phase
  rules of `model.ts`, the retry rule, the dependency evaluation of the scheduler
  (`Succeeded`, `DependenciesMet`, `DependenciesHopeless`, `StatusAfterDependencies`).
  Statuses no code path reaches (`approved`, `rejected`) and the phases that only a
  removed setup used are left out; `"absent"` stands for a task not created yet.
* `SerialSupervision` - the state machine.
* `SerialContract` - what the serial supervisor promises: one holder at a time, which is
  taken only when nobody holds, and only behind an open dependency gate.
* `MCSerialSupervision` - constants of the TLC runs.

State and code:

| Variable | Code |
|---|---|
| `status`, `attempt`, `hasSession` | columns of `supervision_tasks` (they survive a crash) |
| `phase` | `project.agent.phase` (survives) |
| `activeRun` | the entry of the task's session in `activeRuns`: the task's own run, a user's, none |
| `completing` | calls of `onTaskComplete` between the status check and the status write |
| `collecting` | calls of `createReview` waiting for the git evidence |
| `reviewRuns` | live runs in review sessions of the task |
| `reviewTimer` | the task's entry in `reviewTimeouts` |
| `up` | the process runs |
| `maxTotalTasks` | the limit in the agent's configuration, given when the agent is made |
| `refused`, `planned`, `integratedOnce` | history only: the last start found the session busy; the task had a planning session; tasks integrated at some time |

A run's end (`TaskRunCompleted`) checks the status
and suspends; `FinishCompletion` later writes `reviewing` from what was read before, or
`CompletionFails` takes the catch; `StartReview` is `createReview` after its await.
Commands that end in `tickProject` (`SubmitTaskPlan`, `ApproveTaskResult`) contain the
tick: `TickFrom(table, phase)` is the tick on what the handler has just written.

Choices a reader should know:

* `startVirtualRun` does not tell its caller that the session was busy; the start then
  leaves the run of somebody else in `activeRun` and sets `refused`.
* Cancelling a task forgets its client and does not stop the run; the message of the
  end still arrives in the handler, whose callback holds the task id. So the run stays
  in `activeRun` and its end is handled for whatever attempt the task is in.
* Reviews are counted, not identified: the verdict handler looks only at the task's
  present status, and the code keeps one timer per task which any end clears.
* `createReview` may fail before it starts a run; `FinishCompletion` then adds nothing.
* `merge_conflict` is in the table but no serial step reaches it (`resolveConflict`
  does not change the status, and merges need a worktree). Releasing a worktree
  has no effect here.
* Token counting is abstracted to "the budget may be found spent at any tick"
  (`TokenBudget`), since the usage only grows with events outside the model.
* A re-initialisation of the agent (`InitAgent`) keeps the configuration; deleting
  sessions, editing dependencies (`updateTask`), rotating the main session and
  configuration errors of providers are left out.
* The check of the phase in the commands follows the code: only ticks ask for it.

### Parallel mode

`ParallelSupervision` models one git project whose `maxConcurrentTasks` is above 1; it
extends `WorktreePool`, the slots of `WorktreePool.ts` and their initialisation. It is about
what the serial mode does not have: starts that are suspended between the tick and the
status they write, worktrees, and merges. What both modes share is not repeated:
dependencies, phases, the count of attempts (a rejected or recovered task goes back or
fails), planning, limits, chats, reviews as such and their timer are in `SerialSupervision`.

| Variable | Code |
|---|---|
| `slots`, `pool` | `WorktreePool.slots` with path and task; no pool, its initialisation in progress (`poolInitPromises`), ready |
| `workDir` | `working_directory` of the task's session (survives a crash; what releases go by) |
| `waiting`, `resumed`, `preparing` | calls of `startTask` at their awaits: the pool's initialisation, about to go on, the git commands of `acquire` with the slot they hold |
| `runs`, `completing` | live runs of tasks with the worktree they work in; calls of `onTaskComplete` at an await |
| `merges` | the queue of the merge lock: task, worktree, and who asked (`approveTaskResult`, the review, `resolveConflict`) |
| `pulled` | history: a worktree has been released while a run, a completion or a start was at work there |

Choices:

* The continuation of a resolved promise runs before any other callback, so every action but
  `TakeSlot` waits until `resumed` is empty (`Ready`).
* `StartTask` writes `running` whatever the status is by then: `markStarted` asks the status
  machine about the copy of the task that the tick saw.
* `release` goes by the path, not by the task. The handlers differ in whether they release
  before they look at the status (`RejectTaskResult`, `ApprovedMergeSucceeds`) or after it
  (`ResolvedMergeSucceeds`); the outcome of a review's merge is written without looking.
* When the task has a live run, a start may be refused (same session) or add a run (a
  session of its own, when both starts were asked for before the task had one): the
  model does not keep sessions apart and allows both.
* A verdict may be applied whenever the task is in review, by a review of this attempt or an
  earlier one that is still alive; which reviews are alive is not tracked.
* The tick takes any queued tasks, as many as the limit leaves, since users edit priorities.
* git succeeds or fails; branches and files are not modelled.
* Left out: archiving the agent, whose `cleanupPool` (`sup/supervisor-agent.ts:136`, `sup/worktree-pool.ts:142`) removes the worktrees and
  forgets all slots while runs may be at work in them, so that nothing the model says of slots holds after an archive; and a
  change of `maxConcurrentTasks` while the server runs (the limit is a constant, `sup/task-execution.ts:58` reads it at every start).

### Workflows

`WorkflowModel` has the statuses, the two transition tables and `validateDAG` (Kahn's algorithm as a
fixed point, with the multiplicity of parallel edges). `WorkflowEngine` has the runs of one
workflow, its definition, which a user may edit, and its schedule.

| Variable | Code |
|---|---|
| `workflow`, `nextRun`, `runStatus`, `source`, `steps` | rows of the workflow, its schedule, its runs and step runs |
| `seen` | the status in the `WorkflowRunAggregate` that `executeGraph` holds |
| `loop`, `visits` | where `executeGraph` stands: node, where it came from, attempt; `visitCounts` |
| `resolvers`, `timers` | `pendingApprovals` and the timers that were armed for them |

`Arrive` is the loop's body up to the execution of a step, `EndStep` what follows it with retries, routes and
aborts; `CancelRun` and `Answer` come in between through aggregates of their own. Executors are reduced to their
outcome; a composite executor can give up before the approval it waits for (`ApprovalStepTimesOut`). Left out: what the
executors do, templates, the matching of event filters, and retry delays (an attempt follows the failed one at once).

### Runs and permissions of a session

`ConversationRuns` has the runs of one session. A run's handler is `streaming` until its end comes in one of six ways
(`Result`, `Error`, `EventAfterCancel`, `StreamEnds`, `StreamThrows`, `StreamCrashes`), `closing` while it awaits the
iterator, or hands the iterator to a background consumer, which starts follow-up runs.

| Variable | Code |
|---|---|
| `phase` | where `handleRunStart`, `consumeProviderStream` or `consumeBackgroundStream` stands |
| `active`, `completed` | `activeRuns` and the flag `completed` |
| `status` | `sessions.last_run_status`: NULL, running, waiting |
| `pending`, `bridge`, `workflow` | `pendingPermissions` of the run, `PermissionBridge.pending`, the permission workflow |
| `decision`, `events`, `cancelled`, `asker` | history: what a promise was resolved with; terminal events sent; who was cancelled, who asked |
| `retried`, `refused` | history: crashed runs whose retry was accepted, and those whose retry found the session busy |

A cancel denies what is pending and takes the run out of `activeRuns`, but the adapter of a provider may ask again before its stream ends
(`opencode-stream.ts`), so `Ask` does not look at `cancelled`.

Left out: what events carry, saving of messages, policies that decide without asking, and prompts of terminals.

### Task orchestrator

`TaskOrchestrator` has the rows of the queue, in the order of `created_at`, and the rows of conversations that were promoted
to tasks (`Inline`).

| Variable | Code |
|---|---|
| `status`, `deps`, `retries` | columns of `orchestrator_tasks` (they survive a restart) |
| `stale` | waiting rows older than `MAX_WAITING_AGE_MS` |
| `attempts` | what each call of `executeAgentTask` closed over: its run, `settled`, the `retry_count` of the row it was given |
| `client` | the virtual client that is registered for a row, which hears its own run and every broadcast |
| `waiters`, `feed` | the map of `waitForTask`; the status of the row's item in the notification feed |
| `strayed` | history: the task has heard an end that was not the first of its own run |

`Tick` is one call of `tick`: the loop over waiting rows (`Promoted`, where a failure passes on to later rows at once), then
the starts that the limit leaves room for; each start is accepted, refused with a message that its virtual client ignores,
or throws. `Deliver` is the virtual client's `send`, for all clients that a broadcast reaches. Every caller of `spawnTask` today
leaves `maxRetries` at its default of 0; the model gives the first task one retry, since the code is written for it. Bounds: one
follow-up run per start; the rows that callers wait for (`Awaited`). Left out: the branches of a session, streamed text, dismissing feed items,
`steerTask` (which throws) and `syncExternalTask` (which nobody calls).

### Plugins

`PluginWorkers` has one plugin in worker mode, the requests to `PluginLoader` that are under way, and its threads.

| Variable | Code |
|---|---|
| `current`, `active`, `loads` | the instance in `PluginLoader.plugins`; instances with `isActive` (a request keeps the instance it has read, also when a reload has replaced it) |
| `entry`, `workers` | the plugin's entry in `WorkerHost.workers`; all threads so far: activation timeout armed, terminated, exited, a pending call |
| `tool`, `timer` | whose handler `toolRegistry` has for the plugin's tool; whose periodic task `pluginScheduler` runs |
| `request` | calls of `activate`, `deactivate`, `reload`, `remove` at an await, with instance and worker |
| `overlapped`, `evicted` | history: requests have overlapped; workers whose entry a handler of another one deleted |

`Start` is the rest of `activate` after the negotiation up to the await of `startPlugin`, `Terminate` that of `stopPlugin` between
its two awaits, `Exits` the handler of `exit` with what follows `terminate()`. `LoadFails` is a module or a runner of workers that is not there;
its rollback goes by the plugin's id too. `removing` and `rereading` are the awaits of the listeners of `plugin.deactivated`, after which `remove` and
`reload` go on. One tool stands for tools and commands, which are
registered and cleared alike. A deactivation that reaches a thread before it listens is lost and times out. Merged with their
neighbours: the await of `registerContributions`, which does not wait, and that of the listeners of `plugin.activated` and `plugin.error`, after
which a request only returns. Bounds: requests under way, threads, instances,
one pending call of a thread. Left out: plugins of the main thread, permissions, dependencies, events, contributions that workers do not touch.

### Local pull requests

`LocalPullRequests` has the pull requests of one worktree. A *job* is a command or a scheduler's action that is under
way, with the place it awaits at and the status it has read.

| Variable | Code |
|---|---|
| `status`, `executionState`, `pendingAction` | columns of `local_prs` |
| `mergeLock`, `activeReviewIds`, `activeConflictIds` | the fields of the service, lost by a restart |
| `hung` | the job that holds the lock is in a command that does not return; git is called without a timeout (`utils/git-operations.ts:19`) |
| `job`, `batch` | calls that are suspended; the rows `processQueue` has read |
| `unseen`, `inMain`, `reverted`, `lost` | what git knows (commits not yet in the row; merges in the base branch), history, and rows that nobody works on since a restart |

git succeeds, conflicts, throws or hangs. `RevertWorks` is `git revert`, `RevertEnds` the write of the row after it: the server can die between the two.
A merge after a revert may bring nothing (`Merged`): git takes the branch for merged. Left out: the retention of finished rows, missing providers, and other worktrees (they share
only the lock and the slots).

### Gateway

`GatewayState` is `GatewayState` of `state.ts` as pure operators on a record; `FacadeRegistry` likewise `registry-store.ts` for
one backend. `GatewaySync` composes them: one backend, its clients, and the gateway between them.

| Variable | Code |
|---|---|
| `owner`, `outbox` | the peer sessions so far with what their sockets still carry to the gateway |
| `gw` | `GatewayState`: peers, lease, registry item, subscriptions, `subscribedBackends` of the peers, count and flag of the demand |
| `conn`, `inbox` | the socket that an actor uses now and what is under way to it |
| `ready`, `demand` | `isConnected`, `streamDemandActive` of the gateway client |
| `record`, `desired`, `subbed` | the facade's record, `desiredOpenBackends`, the transport's `subscribedBackends` |
| `asked` | history: the session of the last request to subscribe |

A socket is two FIFO queues that either end can lose on its own: an actor that has left (`BackendDrops`, `ClientDrops`) may
connect again before the gateway sees the close (`PeerGone`), misses its heartbeats (`LeaseExpires`) or reads what was sent
before. A session's number stands for the epoch too, as both are new with every hello. Left out: several
backends, HTTP proxying, content patches and run events, notifications, the stream manager and the embedded adapter.

## 3. Runs

| Run | Instance | What it shows |
|---|---|---|
| `SerialSafety` | 2 tasks, the second after the first, high trust (verdicts are applied), one retry, chats, crashes, token budget | one running task, a running task is driven, bounded attempts, dependency gate; status machine, nothing starts while paused; `SerialContract` is implemented (826 516 states) |
| `SerialProgress` | 2 independent tasks competing for the slot, limits of 1, 2 and 9 tasks, low trust, agents propose tasks, chats, pauses, cancels | the task limit is kept, and nothing starts at the limit; running tasks end, and a task that waits starts, unless the agent stops scheduling again and again, the slot is stuck, or earlier tasks overtake it without end (109 512 states) |
| `Parallel` | 2 tasks, 2 worktrees, in three shares (`StartsAndMerges`): overlapping starts of a task, two live runs, or a merge; failing initialisation and crashes in the first two | a running task has a run or a completion; a run keeps its slot unless a worktree was pulled from somebody or exists twice; statuses follow the table but for three late writes (2.4 million states) |
| `Workflow` | 2 runs, pairs of definitions of three nodes between which the workflow is edited (`EveryShape`: chain, branch, route, loop, cycle, approval without a timeout) | `RunsAreRight`: no step is left open, waiting steps can be answered, runs fail for a reason, cycles are refused, one scheduled run; cancelled runs start no step; every run ends; before it, `validateDAG` is compared with the definition of acyclicity on every graph of three nodes and up to four edges (242 000 states) |
| `WorkflowCancel` | 1 run of the definition with an approval without a timeout | violation: a cancelled run is completed (section 6) |
| `ConversationRuns` | 3 runs, 2 requests | undecided requests can be decided (also those asked after a cancel, by the workflow) and decided ones are shown to nobody; one run per session beside follow-ups; idle sessions show idle; a run that ends silently has crashed, and its retry was accepted or refused; nothing but a cancelled run is announced twice (309 000 states) |
| `Orchestrator` | 2 tasks, the second after the first or after a row that does not exist; one retry of the first; one promoted conversation; limit 1; restarts | the limit is kept and no task is started more often than allowed; who waits for a settled task is told and the feed agrees; a settled row changes by an end or a timer of one of its starts only, back to the queue with retries left only; every task settles (235 000 states) |
| `Plugins` | 2 requests under way, 2 threads, 2 instances | a thread that nobody has terminated is the one in the map, unless a late handler of another one deleted its entry, which takes overlapping requests; no call and no timer waits for a thread that has exited; after requests one at a time an active plugin has its worker and an inactive one has left nothing behind; every request and call ends (306 000 states) |
| `LocalPR` | 1 pull request, 2 jobs, a command that may hang under the lock | busy rows are worked on, the conflict guard is exact, a row that says merged and the main branch come apart in three named ways only, the lock is passed on unless a command hangs under it (832 000 states) |
| `LocalPRRefresh` | 2 pull requests, 2 jobs | violation: a refresh interferes (section 6) |
| `Gateway` | 1 client, 4 connections in all, 1 message under way when a user adds one and none when a timer does | demand and subscriptions agree, the backend hears the demand, a connected backend is registered, views settle, requests to subscribe that were sent on the present connection are answered and bring data, epochs come in order (2.3 million states) |
| `GatewayStuck` | 1 client, 3 connections in all | violation: a request that is lost with its connection is never sent again (section 6) |

Bounds of the serial runs, all constants of the model: `Tasks` (two suffice for every pairwise property;
the slot, the gate and the contract relate two tasks), `TaskLimits` (one is met by the second task that
anybody asks for, two by the tasks that are to run, nine by none), `MaxRetries` (0 or 1: the failing and the last
allowed attempt both occur), `MaxInFlight` = 1
(completions of one task awaited together: a task cancelled and retried during it runs again
while the late completion of its earlier attempt is pending) and `MaxReviews` = 1 (live reviews of one
task: a review outlives a rejection by the user and its verdict meets the task in review again;
the later review is then one that failed to start). `attempt` is
bounded by the rules themselves, which `AttemptsWithinRetries` is about: only the
interval above the limit is closed by `failed`. The proofs need none of these bounds.

In the parallel run the record `bound` is chosen at the start: `calls` (starts of one task suspended together; two are an
overlap), `runs` (live at the same time; two: of two tasks, or an old and a new one of the same), `merges` (waiting or
running) and `faults` (crashes and failing initialisations). Also one completion of a task at a time, and no second
failure of an initialisation that left slots behind. Two tasks and two worktrees let every
slot be taken; three tasks, needed to see the pool exhausted together with double
starts, are beyond a run of some minutes; the proofs cover them (section 4).

Workflows: two runs are what the schedule, the edit and the cancel relate; three nodes hold every way a step can
be left (retry, route, skip, abort, condition, loop); a retry count of one gives a first and a last attempt. Conversations: three
runs are a cancelled one, its successor and a retry or a follow-up run; two requests of one run are what answering one
of them could confuse. Pull requests: every property but the refresh's relates one row to its jobs, and two jobs
are the two sides of each race; a second row adds only the wait for the lock, which the second job has already. Orchestrator: two tasks are a dependency, a
competition for the one slot, and an end that the wrong one overhears; the conversation is the row that exceeds the limit. Plugins: two
threads are a late one and the one it is taken for; two requests are those that overlap; a second instance is what a reload leaves a request behind with. Gateway: four hellos are a
first connection of both actors and two more of any; a replaced backend with a subscribed client that also reconnects needs
no fifth. A second client is left out (demand with counts above one comes from half-open sessions of the same client).

Deadlock is checked in the serial and parallel runs and in those of the pull requests: there is always a step (a tick may stutter through,
a user may create or pause). It is not where the instance comes to an end by its bounds: workflows and conversations
run out of run ids, the gateway of connections, the orchestrator of tasks, the plugin of threads and instances.

Fairness. `SerialProgress` (`FairSpec`): the polling timer of `supervisor-service.ts` fires every 5 s while
the server is up (`WF` of `Tick`); the server is started again after it stops (`Restart`);
an agent run ends, by completing or failing (the user can stop it too); the commands that a
completion awaits return, since each is run with a timeout. Nothing is assumed of users,
chats or reviews. It has no crashes and no automatic reviews: a server
that crashes before every tick schedules nothing. Its tasks reach `reviewing` and leave it by the user.
`TasksProgress` says that a task which waits for good - queued, or pending with its dependencies met - is kept from its start by one of three obstacles:
the agent stops scheduling again and again (users pause it, the limit of tasks pauses it at every tick, it is archived), the slot stays with a review
that nobody decides or with a task whose start was refused (`SlotIsStuck`), or earlier tasks of the queue overtake it without end (users retry them). None
of the three is an accident of the model: in each of them the code keeps the task waiting. The token budget is left out of this run, since it may be found spent at every tick, and
fairness would then have the tick pause an agent that has nothing else to do.
`Workflow`: the executors end within their timeouts, and timers fire (`WF` of `Goes`, which leaves the answers of users
out). `Orchestrator`: the interval of
the tick fires, an hour passes, and the safety timers fire (`WF` of `Tick`, `Age`, `SafetyTimer`); runs and users owe nothing, which is
the point of those timers. `Unwatched` names the rows that no timer watches: conversations, and tasks that a restart found running. `LocalPR`: the job that holds the merge lock goes on unless it hangs (`WF` of
`HolderRuns`). git has no timeout here (`utils/git-operations.ts:19-22`, `domains/local-pr/service.ts:636`, `645`, `774`), so that a command may not return (`Hangs`): `LockIsPassedOn`
excepts that by name, and `cancelMerge`, which is there for a stuck merge (`service.ts:691`), waits for the same lock (`700`). Nothing is assumed of jobs outside the lock, of sessions of
agents, or of users. `Plugins`: timeouts fire, the negotiation and the reading of a manifest return, and a terminated thread exits (`WF` of `Goes`,
`ActivationFails`, `CallTimesOut` and of the exit of a thread that is going); a worker
owes nothing. It is assumed that the listeners of the plugin events return, in the main thread and in other plugins: `activate`, `deactivate` and with them `remove` and `reload` await `pluginEvents.emit`
(`application/plugins/loader.ts:422`, `619`), which has no timeout; a listener that does not return keeps the request for ever.

## 4. Proofs

Every safety property of the passing runs, invariant or action property, is also a theorem, proved for every value of the
constants that meets the assumption of its module. The assumptions give the constants their types and say that
sets of tasks, runs, requests, nodes and the like are finite; the bounds of the model (runs under way, messages, faults) may be any numbers.
Two of them are about data: a task of the orchestrator depends on tasks spawned before it (`spawnTask` generates the id, which no earlier row can name) and a definition of a workflow has at most one edge
of a type from a node, finitely many edges and a natural `retryCount` for each node.

Each module `X_proofs` has the same layout: the inductive invariant `IInv` in named parts, lemmas about
the operators of the model, one lemma for each action (`...Keeps`, `...IsRight`), the theorem `Invariance`
(`Spec => []IInv`), and from it the properties. Each `IInv` was checked by TLC on the run's instance before it was proved.

| Module | Theorems | Invariant, beside types and the properties themselves |
|---|---|---|
| `SerialSupervision_proofs` | `TypeCorrect`, `OneRunningTask`, `RunningTaskIsDriven`, `BoundedAttempts`, `GateIsKept`, `LimitIsKept`; `PausedStartsNothing`, `LimitStartsNothing`, `StatusMachineKept`; `SerialRefinesContract` | `AttemptHistory`, `GateHistory` |
| `ParallelSupervision_proofs` | `TypeCorrect`, `RunningStaysDriven`, `RunsHoldTheirSlots`; `StatusMachineKept` | `WorkHasADir`, `StartHoldsItsSlot` |
| `WorkflowEngine_proofs` | `ValidationIsRight`; `TypeCorrect`, `RunsStayRight`; `NothingStartsAfterCancel` | `IsFresh`, `LoopInOrder`, `StepsInOrder`, `ApprovalsInOrder`, `GoesForward` |
| `ConversationRuns_proofs` | `TypeCorrect`, `PermissionsStayAgreed`, `SessionStaysAgreed`, `RunsAreAnnounced` | `LiveRuns`, `EventCount`, `FollowUps`, `Askers` |
| `TaskOrchestrator_proofs` | `TypeCorrect`, `LimitsAreKept`, `SettledAreTold`; `SettledRowsStay` | `DepsInOrder`, `ConversationsBegin`, `RetriesCount` |
| `PluginWorkers_proofs` | `TypeCorrect`, `PluginStaysInOrder` | `Calls`, `Starters`, `EntryLives`, `OneAtATime` |
| `LocalPullRequests_proofs` | `TypeCorrect`, `BusyStaysDriven`, `MergedStaysInMain` | `JobsInOrder`, `LockInOrder` |
| `GatewaySync_proofs` | `TypeCorrect`, `RegistryStaysAgreed`, `EpochsStayInOrder`; `ClientsStayRight`, `ViewsSettle`, `SubscribersAreServed` | `GatewayIsRight`, `LeaseInOrder`, `SocketsInOrder`, `BoxesInOrder`, `BackendHears`; then `ClientsInv` |

**Serial mode.** `AttemptHistory` and `GateHistory` strengthen `AttemptsWithinRetries` and
`DependencyGate`, which are not inductive: a task under review is allowed to carry any
history, but a rejection brings it back to the queue and a completion in flight brings a
task back to review, so the bound on attempts and the open gate have to be kept also in
the statuses from which a task may return, and while a completion is in flight.
`TickEffect` says once what a tick from any table can do (which statuses it
may change, that at most one task starts, that it was queued and the slot free);
`TickPreserves` carries the invariant through it; the commands and events that touch
neither slot nor run are `Quiet` steps and share one lemma; the remaining actions have one
lemma each. The refinement maps the holder to the running task; `HolderStep`,
`IntegrationStep` and `PlannedStep` show how a step moves the three variables of the
contract, and each is a step or a stutter of it.

**Parallel mode.** A run inherits its slot from the start that prepared it, which has to hold the slot already
while git runs (`StartHoldsItsSlot`), and a release finds the slot by the directory of the session (`WorkHasADir`). The exceptions only grow: a worktree that is twice in
the pool stays so (`DoubledStays`), and `pulled` is reset only by a crash, which ends every run. The theorem covers what the run cannot reach, pools and tasks
of any number. `StatusMachineKept` names, for each action, the table's transition or the stale write it makes.

**Workflows.** The engine keeps the status of a step in its row, in the loop, among the approvals and in the timers; the parts of `RunIsRight` relate them for one run, and a
step of one run leaves the others alone (`IsFresh` is what a run starts from; a workflow that is deleted takes its rows away under the loop, which goes on).
That a failed run has a failed step which aborts needs to know that a run without loop edges never visits a node twice.
For that `GoesForward` keeps the visited nodes behind the current one in *every* order of the graph, and
`ValidIsOrdered` shows that what `validateDAG` accepts has such an order: the numbers of the rounds in which Kahn's algorithm takes the
nodes. With the converse (`AcyclicIsTaken`: while nodes are left, one without predecessors is among them and the degrees say so, `DegreesAreRight`) this is `ValidationIsRight`, the correctness
of `validateDAG` on every finite graph, which `Workflow` compares on small ones.

**Runs and permissions.** `LiveRuns` says at which places a run is in `activeRuns`, which follows from neither property and decides
whether a request can be reached (a run that has been cancelled is not, while it streams or closes); `EventCount` counts the terminal events by place, since an upper bound of two alone is not kept by the next announcement;
`Askers` says that a request is pending for its asker only, and that follow-up runs (`FollowUps`) ask nothing.

**Task orchestrator.** That a task is started at most `MaxRetries + 1` times rests on `RetriesCount`: as long as the task hears only
the first end of each of its runs, starts, counted retries and the copies of the count that virtual clients
hold (`snapshot`) go together, and only the last start may have a live run. The limit is an argument about cardinalities: the rows a
tick starts are the first ones of the queue (`FirstOnes`), as many as the limit leaves. `SettledRowsStay` ties each
change of a settled row to a start: a tick takes only waiting and queued rows, a kill only rows that are not settled, a restart changes no row's status, so that only
`Deliver` and the timer are left, which name the start they reach and ask its copy for retries.

**Plugins.** What holds while requests overlap is weak (`Calls`, `Starters`, `EntryLives`); what holds while they do not describes the plugin
completely, place by place (`OneAtATime`), and the steps keep it until a request or a thread meets another one, when `overlapped` is set for good.

**Local pull requests.** `JobsInOrder` says what a job may hold at each place it awaits at, `LockInOrder` that the lock's queue has each job
once and that jobs past the wait are its head, without which a merge and a cancel could both write the row.
`MergedStaysInMain` is about steps: at each action either the row, the branch and the revert in between stay in agreement (`NoNewDisagreement`), or the action is one of the three that the property
names. A history of reverts does not excuse a row here: it is only asked for in the three causes.

**Gateway.** The proof has two parts. The first (`IInv`) is about the gateway and the backend: each operator of
`GatewayState` keeps count, flag and the two copies of the subscriptions in agreement (`AddSubscriptionIsRight`, `RemovePeerIsRight`,
`RemoveOwnerIsRight` and others); the lease has the backend's last session, so that epochs are told in
order; and the last demand in the backend's queue is the present one. The second part (`ClientsInv`) rests on it and follows one
client through the messages under way: the last message about the registry says the current owner; after the messages up to some
position the subscription is as the gateway has it, unless an unsubscribe is still on its way (`Agreed`); whoever waits on the connection it has asked on has an answer coming (`SubscribersAreServed`; a request lost with its connection has none, `GatewayStuck`); whoever is
subscribed has data, or they come after the answer. With empty queues this is `ViewSettles`.

*Recursive functions.* The library's induction theorems are out of the provers' reach (they take an operator
as a parameter), so that a function defined by recursion cannot even be unfolded by them. For the two such functions the proofs rest on (`Promoted`, a tick's pass
over the waiting rows, and `Taken`, Kahn's loop) least-counterexample arguments take their place: among the lengths for which
there is no function that satisfies the recursion there would be a least one, and a function for the length before it extends to
it (`PromotedIsDefined`, `TakenIsDefined`; `Least` comes from `NatLessThanWellFounded`).

*What the proofs changed in the models.* `EngineAssumption` says that edges are finitely many and that retry counts are naturals, which proofs
need and any definition in JSON satisfies; `HeardDemand` reads the last demand of the queue by its
position; the cases of `ApplyRegistrySnapshot` exclude each other (`CASE` with overlapping guards is any one of them, and a snapshot of 0 met two); `Acyclic` has
parentheses around `SUBSET Nodes`, whose precedence tools read differently. No behaviour changed.

Only model-checked: the five liveness properties (`TasksProgress`, `RunEnds`, `TasksSettle`, `LockIsPassedOn`, `EverybodyIsAnswered`; the prover has no
`ENABLED`, which fairness is about), and the three violations, which are not theorems.

## 5. Mutants

Every checked property has a mutant, an operator beside the definition it replaces, which
breaks the code the way a plausible slip would: a recovery that forgets running
tasks, a retry limit off by one, a slot that only reviews occupy, a verdict applied
without asking the status, a failure that clears the run and forgets the status, a slot that is not marked, an answer
that leaves a timer armed, a relay that does not ask who speaks. With
the mutant in place, TLC finds the property violated.

## 6. Findings and observations

Three runs end in a violation of what the repository says of itself, and a fourth finding is named in a property that passes; `PROJECT.json` quotes the sentences.

* `WorkflowCancel` - the aggregate of `executeGraph` does not hear of a cancel and writes `completed` or `failed` over it.
* `LocalPRRefresh` - a refresh writes back the status it read before it awaited the diff, over a review or merge begun meanwhile.
* `GatewayStuck` - `reopenDesiredBackends` opens what is closed or in error after a reconnect, and leaves a record at `subscribing` whose request
  was lost with the connection (`src/shared/src/facade/runtime-core.ts:474-492`): the client waits until its user closes the backend.
* `ConversationRuns`, `EveryRunIsAnnounced` - a provider crashes, the run is taken away and tried again, and a follow-up run that is live by then makes the retry
  `SESSION_BUSY` (`run-recovery.ts:97-102`, `run-bootstrap.ts:104-118`): the run ends with no terminal event and no successor, and clients show it as running
  (`src/docs/testing/provider-trace-experiment.md:335`). `refused` names these runs; the property says that they are the only ones beside those a retry replaced.

The models show more that no run is spent on. In the serial supervisor:

* A task whose session has a live run is marked `running` and its run is refused without anyone noticing
  (`refused`; `sup/task-execution.ts:118`, where `docs/review/archive/batch-07-supervision.md:22` has every failed
  start end in a failed task). `RunningIsDrivenOrRefused` names the exception.
* `cancelTask` does not stop the agent, which goes on in the directory in which the next task starts
  (`docs/impl/phase1-data-model-and-context.md:914`: "Serial scheduler runs one task at a time").
* A planned task enters the queue without its dependencies (`docs/archive/supervision-v2-design.md:390`: "a task moves from
  `pending` to `queued` when its dependency gate is satisfied"); `DependencyGate` leaves planned tasks out.
* `approveTaskResult` and `rejectTaskResult` leave the review timer armed; when it fires, its assertion stops the server
  (`ReviewTimeout`, `LoseMemory`).
* A review that a restart interrupts is not created again (`docs/impl/phase4-resilience-and-advanced.md:204`: "Re-create
  review session").

In the parallel one:

* A result is rejected after the review has already sent the task back and it runs again: the command fails, but has
  released the worktree under the run, and the next task starts there (`pulled`, excepted in `RunHoldsItsSlot`;
  `docs/impl/phase3-parallel-execution.md:561`: "Each parallel task gets its own worktree").
* A task cancelled while its worktree is prepared runs all the same (`StatusMachineOrStaleWrite`); a slot whose
  preparation failed is kept until the server restarts; a failed initialisation can leave a worktree in the pool twice
  (`Doubled`).

In the other models:

* A cancelled run whose stream then ends is announced as failed and again as completed (`src/docs/testing/provider-trace-experiment.md:335`
  has one terminal event per run); `EveryRunIsAnnounced` excepts cancelled runs.
* The orchestrator's virtual clients do not ask whose end they hear, so any run's end completes, fails or requeues each task
  that runs (`strayed`). `killTask` stops neither the run nor its client: the end comes later and overwrites `cancelled`
  (`src/docs/design/claudia-task-session-reuse.md:69` has the session idle when a task is cancelled). A late failure requeues a task that has
  completed. `SettledStays` says that nothing but an end or a timer of one of its starts can.
* A start of the orchestrator that is refused holds its slot until the safety timer; rows that a restart leaves `running`, and promoted conversations whose run
  was refused, hold it for ever. Who waits for a promoted conversation is not told of its end and waits for the timeout.
* A `loop` edge never iterates: the second visit calls `startStep` on a completed step, which the status machine refuses
  (`domains/workflows/run-aggregate.ts:163`), and the run fails. `FailsForAReason` is about definitions without loops.
* An approval step without a `timeoutMs` of its own is given up after ten minutes while its entry lives for an hour: an
  approval is then accepted for a failed step, and when the step is retried the old timer takes the new entry away.
* A cancelled run that ends after the next one has begun clears `last_run_status` under it; a follow-up run starts
  beside a live one; permissions asked through a run that has handed its iterator over reach no user, and those that a cancelled run asks before its stream ends
  (`opencode-stream.ts:580-604`) are found by no user either, as the run has left `activeRuns` (`permission-handler.ts:49`): the permission workflow can decide them, or they
  are denied when the run ends.
* `cancelMerge` waits for the lock that the merge holds and then writes `approved` over `merged`; a stale reset of a live review
  lets its verdict decide the next review; two reviews of one pull request can be live together; a check for changes that throws leaves the row `approved` and `running`; a second
  revert that fails sets a closed row back to `merged`, and a reverted pull request that is merged again is `merged` although git had nothing to merge; `retry-review` says the scheduler will pick the row up, and no tick does.
* A backend closed while its subscription is being answered stays subscribed until it is closed again.

* Plugins: the activation timeout, the exit and the end of `stopPlugin` delete the entry of the plugin's id, not their own (`evicted`): a plugin that is
  reloaded or activated while a worker goes can end with a thread that no request reaches. A worker that crashes
  leaves its plugin active, with a tool whose calls only time out, until it is deactivated; a second `activate` puts the default
  handlers over those of the worker and reports the plugin active before its activation has ended; tools that a worker registers after its activation
  failed stay (`NothingIsLeftBehind` excepts them); `deactivate` during an activation reports success and changes nothing.

## 7. Plan

1. done: `SupervisionModel`, `SerialSupervision`, `SerialContract` and the proofs.
2. done: `WorktreePool`, `ParallelSupervision`, `WorkflowModel`, `WorkflowEngine`, `ConversationRuns`, `LocalPullRequests`,
   `TaskOrchestrator`, `PluginWorkers`, `GatewayState`, `FacadeRegistry`, `GatewaySync`, each with its runs.
3. done: proofs of the safety invariants and action properties of every module (section 4).
   Left: abstract specifications of further components, shown to be implemented as `SerialContract` is: the merge lock of the local pull requests, a
   permission that is decided once, and a subscription to the gateway.
4. Candidates for further modules: `LiteSupervision` (retry with delay, scheduled tasks), `CheckpointEngine`, the stream manager of the facade (gaps and catch-up).

## 8. Not modelled

Text, prompts, markdown and file formats; HTTP argument checks; providers' protocols; the
user interface; push notifications; storage (single statements on one connection). The
candidates of the plan's item 4. `PROJECT.json` gives the reason for each, and for the parts of the modelled
components that are left out.
