------------------------- MODULE SerialSupervision -------------------------
(***************************************************************************)
(* The supervisor of one project in full mode when tasks run one at a time *)
(* (the project is not a git repository, or maxConcurrentTasks <= 1): the  *)
(* HTTP commands on tasks and on the agent, the 5 s scheduling tick, the   *)
(* messages of the agent runs, the completion pipeline with its awaits,    *)
(* the automatic review, and a crash with the recovery at the next start.  *)
(*                                                                         *)
(* JavaScript runs one callback at a time, so an action is what one        *)
(* callback does between two awaits.                                       *)
(***************************************************************************)
EXTENDS SupervisionModel

CONSTANTS
  Tasks,          \* task ids, numbered in the order of findByStatus: (priority, created_at)
  Deps,           \* Deps[t]: the dependencies of t
  DepMode,        \* DepMode[t]: "all" or "any"
  TrustLevel,     \* config.trustLevel
  MaxRetries,     \* maxRetries of every task
  TaskLimits,     \* the values of config.maxTotalTasks; above Cardinality(Tasks): no limit
  TokenBudget,    \* TRUE: a token budget is set, which may be found spent
  UserRuns,       \* TRUE: users chat in the sessions of tasks
  MayCrash,       \* TRUE: the server process may be killed
  \* bounds of the model, not of the code
  MaxInFlight,    \* completions of one task being processed at the same time
  MaxReviews      \* review runs of one task that are live at the same time

ASSUME SerialAssumption ==
  /\ Tasks \subseteq Nat /\ IsFiniteSet(Tasks)
  /\ Deps \in [Tasks -> SUBSET Tasks]
  /\ DepMode \in [Tasks -> {"all", "any"}]
  /\ TrustLevel \in {"low", "medium", "high"}
  /\ MaxRetries \in Nat /\ TaskLimits \subseteq Nat
  /\ {TokenBudget, UserRuns, MayCrash} \subseteq BOOLEAN
  /\ MaxInFlight \in Nat /\ MaxReviews \in Nat

VARIABLES
  status,       \* supervision_tasks.status
  attempt,      \* supervision_tasks.attempt
  hasSession,   \* supervision_tasks.session_id is set
  activeRun,    \* the run of the task's session in activeRuns: of the task, of a user, none
  completing,   \* calls of onTaskComplete suspended at an await
  collecting,   \* calls of createReview suspended while git evidence is collected
  reviewRuns,   \* number of review sessions of the task whose run is live
  reviewTimer,  \* reviewTimeouts has a timer for the task
  phase,        \* project.agent.phase
  up,           \* the server process runs
  maxTotalTasks, \* project.agent.config.maxTotalTasks, given when the agent is made
  \* history variables
  refused,      \* the last start of the task found its session busy
  planned,      \* the task went through a planning session
  integratedOnce  \* tasks that have been integrated

taskVars    == <<status, attempt, hasSession>>
runVars     == <<activeRun, refused, completing>>
reviewVars  == <<collecting, reviewRuns, reviewTimer>>
vars == <<taskVars, runVars, reviewVars, phase, up, maxTotalTasks, planned, integratedOnce>>

TypeOK ==
  /\ status \in [Tasks -> Statuses]
  /\ attempt \in [Tasks -> Nat]
  /\ hasSession \in [Tasks -> BOOLEAN]
  /\ activeRun \in [Tasks -> {"none", "task", "user"}]
  /\ completing \in [Tasks -> Nat]
  /\ collecting \in [Tasks -> Nat]
  /\ reviewRuns \in [Tasks -> Nat]
  /\ reviewTimer \in [Tasks -> BOOLEAN]
  /\ phase \in Phases
  /\ up \in BOOLEAN
  /\ maxTotalTasks \in TaskLimits
  /\ refused \in [Tasks -> BOOLEAN]
  /\ planned \in SUBSET Tasks
  /\ integratedOnce \in SUBSET Tasks

Init ==
  /\ status = [t \in Tasks |-> "absent"]
  /\ attempt = [t \in Tasks |-> 1]
  /\ hasSession = [t \in Tasks |-> FALSE]
  /\ activeRun = [t \in Tasks |-> "none"]
  /\ completing = [t \in Tasks |-> 0]
  /\ collecting = [t \in Tasks |-> 0]
  /\ reviewRuns = [t \in Tasks |-> 0]
  /\ reviewTimer = [t \in Tasks |-> FALSE]
  /\ phase = "idle"
  /\ up = TRUE
  /\ maxTotalTasks \in TaskLimits
  /\ refused = [t \in Tasks |-> FALSE]
  /\ planned = {}
  /\ integratedOnce = {}

InStatus(st, S) == {t \in Tasks : st[t] \in S}
SetStatus(t, s) == status' = [status EXCEPT ![t] = s]

-----------------------------------------------------------------------------
(* The scheduler: TaskScheduler.tickProject, on the table st and the phase  *)
(* ph that the calling handler leaves.                                      *)

Created(st) == InStatus(st, Statuses \ {"absent"})

\* Mutant: the limit is noticed one task too late.
OverTaskBudgetLate(st) == Cardinality(Created(st)) > maxTotalTasks

\* checkBudgetLimits: the number of tasks ever created against the limit.
OverTaskBudget(st) == Cardinality(Created(st)) >= maxTotalTasks

AfterDependencies(st) ==
  [t \in Tasks |-> StatusAfterDependencies(t, Deps[t], DepMode[t], st, FALSE)]

\* Mutant: only tasks under review occupy the slot.
AvailableUnlessReviewing(st) == InStatus(st, {"reviewing"}) = {}

\* Serial mode: a slot is available when no task is running or reviewing.
Available(st) == InStatus(st, {"running", "reviewing"}) = {}

\* Mutant: the queue is taken from its end.
IsLastQueued(t, st) ==
  /\ st[t] = "queued"
  /\ \A u \in InStatus(st, {"queued"}) : t >= u

IsFirstQueued(t, st) ==
  /\ st[t] = "queued"
  /\ \A u \in InStatus(st, {"queued"}) : t <= u

\* startTask in the project root.  startVirtualRun reaches handleRunStart,
\* which answers SESSION_BUSY and starts nothing when the session has a run;
\* the supervisor does not look at that answer.
StartTask(t, st) ==
  /\ status' = [st EXCEPT ![t] = "running"]
  /\ hasSession' = [hasSession EXCEPT ![t] = TRUE]
  /\ activeRun' = [activeRun EXCEPT ![t] = IF @ = "none" THEN "task" ELSE @]
  /\ refused' = [refused EXCEPT ![t] = activeRun[t] # "none"]

\* An exception in startTask: before or after the session is prepared, the
\* task ends up failed.
StartFails(t, st) ==
  /\ status' = [st EXCEPT ![t] = "failed"]
  /\ \E made \in {hasSession[t], TRUE} : hasSession' = [hasSession EXCEPT ![t] = made]
  /\ UNCHANGED <<activeRun, refused>>

Schedule(st) ==
  \/ \E t \in Tasks : Available(st) /\ IsFirstQueued(t, st) /\ StartTask(t, st)
  \/ \E t \in Tasks : Available(st) /\ IsFirstQueued(t, st) /\ StartFails(t, st)
  \/ /\ Available(st) => InStatus(st, {"queued"}) = {}
     /\ status' = st
     /\ UNCHANGED <<hasSession, activeRun, refused>>

TickFrom(st, ph) ==
  /\ \/ /\ ~canTickAgentPhase(ph)
        /\ status' = st /\ phase' = ph
        /\ UNCHANGED <<hasSession, activeRun, refused>>
     \/ /\ canTickAgentPhase(ph)
        /\ OverTaskBudget(st) \/ TokenBudget
        /\ status' = st /\ phase' = "paused"
        /\ UNCHANGED <<hasSession, activeRun, refused>>
     \/ /\ canTickAgentPhase(ph)
        /\ ~OverTaskBudget(st)
        /\ Schedule(AfterDependencies(st))
        /\ phase' = PhaseWhenDone(ph, status', FALSE)
  /\ UNCHANGED <<attempt, completing, reviewVars, up, planned>>

Tick == up /\ TickFrom(status, phase)

-----------------------------------------------------------------------------
(* Commands on tasks: TaskAdmin and TaskLifecycle.                          *)

CreateTask(t, source) ==
  /\ up
  /\ status[t] = "absent"
  /\ ~OverTaskBudget(status)
  /\ SetStatus(t, resolveCreatedTaskStatus(source, TrustLevel))
  /\ phase' = IF status'[t] = "pending" THEN PhaseOnNewWork(phase) ELSE phase
  /\ UNCHANGED <<attempt, hasSession, runVars, reviewVars, up, planned>>

\* createTask at the limit: the agent is paused and the call throws.
CreateTaskOverBudget ==
  /\ up
  /\ OverTaskBudget(status)
  /\ canPauseAgentPhase(phase)
  /\ phase' = "paused"
  /\ UNCHANGED <<taskVars, runVars, reviewVars, up, planned>>

ApproveTask(t) ==
  /\ up
  /\ status[t] = "proposed"
  /\ SetStatus(t, "pending")
  /\ UNCHANGED <<attempt, hasSession, runVars, reviewVars, phase, up, planned>>

RejectTask(t) ==
  /\ up
  /\ status[t] = "proposed"
  /\ SetStatus(t, "cancelled")
  /\ UNCHANGED <<attempt, hasSession, runVars, reviewVars, phase, up, planned>>

\* A task that has a session keeps it and its status.
OpenTaskSession(t) ==
  /\ up
  /\ ~hasSession[t]
  /\ status[t] # "absent" /\ CanTransition(status[t], "planning")
  /\ SetStatus(t, "planning")
  /\ hasSession' = [hasSession EXCEPT ![t] = TRUE]
  /\ planned' = planned \cup {t}
  /\ UNCHANGED <<attempt, runVars, reviewVars, phase, up>>

\* Mutant: the tick takes the agent to be active.
SubmitTaskPlanWhenever(t) ==
  /\ up
  /\ hasSession[t]
  /\ status[t] = "planning"
  /\ TickFrom([status EXCEPT ![t] = "queued"], "active")

SubmitTaskPlan(t) ==
  /\ up
  /\ hasSession[t]
  /\ status[t] = "planning"
  /\ TickFrom([status EXCEPT ![t] = "queued"], phase)

ResetToPending(t) ==
  /\ SetStatus(t, "pending")
  /\ attempt' = [attempt EXCEPT ![t] = 1]
  /\ phase' = PhaseOnNewWork(phase)
  /\ UNCHANGED <<hasSession, runVars, reviewVars, up, planned>>

\* Mutant: a task in review can be retried.
RetryTaskInReview(t) ==
  up /\ status[t] \in {"failed", "cancelled", "completed", "blocked", "reviewing"} /\ ResetToPending(t)

RetryTask(t) ==
  up /\ status[t] \in {"failed", "cancelled", "completed", "blocked"} /\ ResetToPending(t)

RunTaskNow(t) ==
  up /\ status[t] \in {"completed", "failed", "cancelled"} /\ ResetToPending(t)

\* Cancelling does not stop the run of the task.
CancelTask(t) ==
  /\ up
  /\ CanTransition(status[t], "cancelled")
  /\ SetStatus(t, "cancelled")
  /\ UNCHANGED <<attempt, hasSession, runVars, reviewVars, phase, up, planned>>

ApproveTaskResult(t) ==
  /\ up
  /\ status[t] # "absent" /\ CanTransition(status[t], "integrated")
  /\ TickFrom([status EXCEPT ![t] = "integrated"], phase)

RejectTaskResult(t) ==
  /\ up
  /\ status[t] = "reviewing"
  /\ attempt' = [attempt EXCEPT ![t] = @ + 1]
  /\ SetStatus(t, IF ExceedsRetries(attempt'[t], MaxRetries) THEN "failed" ELSE "queued")
  /\ UNCHANGED <<hasSession, runVars, reviewVars, phase, up, planned>>

-----------------------------------------------------------------------------
(* Commands on the agent: SupervisorAgent and SupervisorGuards.             *)

SetPhase(ph) ==
  phase' = ph /\ UNCHANGED <<taskVars, runVars, reviewVars, up, planned>>

\* By the user, or by a context synchronisation error.
PauseAgent   == up /\ canPauseAgentPhase(phase) /\ SetPhase("paused")
ResumeAgent  == up /\ canResumeAgentPhase(phase) /\ SetPhase("active")
ArchiveAgent == up /\ SetPhase("archived")
InitAgent    == up /\ SetPhase("idle")

-----------------------------------------------------------------------------
(* The runs: handleTaskRunMessage and TaskRunner.onTaskComplete.            *)

\* run_completed: onTaskComplete checks that the task is running and then
\* waits for the workflow actions and the commit.  When the check fails the
\* handler's catch can only rewrite 'reviewing' or be rejected itself.
TaskRunCompleted(t) ==
  /\ up
  /\ activeRun[t] = "task"
  /\ activeRun' = [activeRun EXCEPT ![t] = "none"]
  /\ IF status[t] = "running"
     THEN /\ completing[t] < MaxInFlight
          /\ completing' = [completing EXCEPT ![t] = @ + 1]
     ELSE UNCHANGED completing
  /\ UNCHANGED <<taskVars, refused, reviewVars, phase, up, planned>>

\* Mutant: the failure clears the run and forgets the status.
TaskRunFailedForgotten(t) ==
  /\ up
  /\ activeRun[t] = "task"
  /\ activeRun' = [activeRun EXCEPT ![t] = "none"]
  /\ UNCHANGED <<taskVars, refused, completing, reviewVars, phase, up, planned>>

\* run_failed, also when the user stops the run.
TaskRunFailed(t) ==
  /\ up
  /\ activeRun[t] = "task"
  /\ activeRun' = [activeRun EXCEPT ![t] = "none"]
  /\ IF CanTransition(status[t], "failed") THEN SetStatus(t, "failed") ELSE UNCHANGED status
  /\ UNCHANGED <<attempt, hasSession, refused, completing, reviewVars, phase, up, planned>>

\* The rest of onTaskComplete: the status is written on the strength of the
\* check made before the awaits, then createReview makes a session and waits for
\* the git evidence, unless it fails.
FinishCompletion(t) ==
  /\ up
  /\ completing[t] > 0
  /\ completing' = [completing EXCEPT ![t] = @ - 1]
  /\ SetStatus(t, "reviewing")
  /\ \/ /\ collecting[t] + reviewRuns[t] < MaxReviews
        /\ collecting' = [collecting EXCEPT ![t] = @ + 1]
     \/ UNCHANGED collecting
  /\ UNCHANGED <<attempt, hasSession, activeRun, refused, reviewRuns, reviewTimer, phase, up, planned>>

\* A step of onTaskComplete fails: the catch of handleTaskRunMessage asks the
\* status machine, and starts no review.
CompletionFails(t) ==
  /\ up
  /\ completing[t] > 0
  /\ completing' = [completing EXCEPT ![t] = @ - 1]
  /\ IF CanTransition(status[t], "reviewing") THEN SetStatus(t, "reviewing") ELSE UNCHANGED status
  /\ UNCHANGED <<attempt, hasSession, activeRun, refused, reviewVars, phase, up, planned>>

\* A user talks to the agent in the session of the task.
UserRunStarts(t) ==
  /\ up /\ UserRuns
  /\ hasSession[t] /\ activeRun[t] = "none"
  /\ activeRun' = [activeRun EXCEPT ![t] = "user"]
  /\ UNCHANGED <<taskVars, refused, completing, reviewVars, phase, up, planned>>

UserRunEnds(t) ==
  /\ up
  /\ activeRun[t] = "user"
  /\ activeRun' = [activeRun EXCEPT ![t] = "none"]
  /\ UNCHANGED <<taskVars, refused, completing, reviewVars, phase, up, planned>>

-----------------------------------------------------------------------------
(* The automatic review: ReviewEngine.                                      *)

\* The rest of createReview, whatever the task has become meanwhile.
StartReview(t) ==
  /\ up
  /\ collecting[t] > 0
  /\ collecting' = [collecting EXCEPT ![t] = @ - 1]
  /\ reviewRuns' = [reviewRuns EXCEPT ![t] = @ + 1]
  /\ reviewTimer' = [reviewTimer EXCEPT ![t] = TRUE]
  /\ UNCHANGED <<taskVars, runVars, phase, up, planned>>

\* Mutant: the end of one review may be handled twice.
ReviewEndsTwice(t) ==
  /\ up
  /\ reviewRuns' = [reviewRuns EXCEPT ![t] = @ - 1]
  /\ reviewTimer' = [reviewTimer EXCEPT ![t] = FALSE]
  /\ UNCHANGED <<hasSession, runVars, collecting, phase, up, planned>>

ReviewEnds(t) ==
  /\ up
  /\ reviewRuns[t] > 0
  /\ reviewRuns' = [reviewRuns EXCEPT ![t] = @ - 1]
  /\ reviewTimer' = [reviewTimer EXCEPT ![t] = FALSE]
  /\ UNCHANGED <<hasSession, runVars, collecting, phase, up, planned>>

\* The run failed, no verdict was found, the trust level asks for a person,
\* or the task is no longer reviewing: the status stays.
ReviewChangesNothing(t) ==
  ReviewEnds(t) /\ UNCHANGED <<status, attempt>>

\* Mutant: the verdict is applied to a task that has left review.
AutoApplyLate(t) == TrustLevel # "low"

\* The verdict is applied when the task is reviewing now, whichever of its
\* reviews it comes from: the code does not tell them apart, a count does.
AutoApply(t) == TrustLevel # "low" /\ status[t] = "reviewing"

ReviewApproves(t) ==
  /\ ReviewEnds(t)
  /\ AutoApply(t)
  /\ SetStatus(t, "integrated")
  /\ UNCHANGED attempt

ReviewRejects(t) ==
  /\ ReviewEnds(t)
  /\ AutoApply(t)
  /\ IF ExceedsRetries(attempt[t] + 1, MaxRetries)
     THEN SetStatus(t, "failed") /\ UNCHANGED attempt
     ELSE SetStatus(t, "queued") /\ attempt' = [attempt EXCEPT ![t] = @ + 1]

-----------------------------------------------------------------------------
(* The process.                                                             *)

LoseMemory ==
  /\ up' = FALSE
  /\ activeRun' = [t \in Tasks |-> "none"]
  /\ completing' = [t \in Tasks |-> 0]
  /\ collecting' = [t \in Tasks |-> 0]
  /\ reviewRuns' = [t \in Tasks |-> 0]
  /\ reviewTimer' = [t \in Tasks |-> FALSE]
  /\ UNCHANGED <<taskVars, refused, phase, planned>>

Crash == up /\ MayCrash /\ LoseMemory

\* The review timer fires.  Its callback only notes the timeout on a task that
\* is reviewing; on any other task the assertion throws out of the timer, and
\* the handler of uncaught exceptions exits the process.
ReviewTimeout(t) ==
  /\ up
  /\ reviewTimer[t]
  /\ \/ /\ status[t] = "reviewing"
        /\ reviewTimer' = [reviewTimer EXCEPT ![t] = FALSE]
        /\ UNCHANGED <<taskVars, runVars, collecting, reviewRuns, phase, up, planned>>
     \/ /\ status[t] # "reviewing"
        /\ LoseMemory

\* Mutant: running tasks are taken up as they were.
RestartWithoutRecovery ==
  /\ ~up
  /\ up' = TRUE
  /\ phase' = PhaseWhenDone(phase, status, FALSE)
  /\ UNCHANGED <<taskVars, runVars, reviewVars, planned>>

\* StateRecovery.recover before the polling starts: recoverStuckTasks, then
\* fixIdleAgents.
Restart ==
  /\ ~up
  /\ up' = TRUE
  /\ LET stuck == InStatus(status, {"running"}) IN
       /\ attempt' = [t \in Tasks |-> IF t \in stuck THEN attempt[t] + 1 ELSE attempt[t]]
       /\ status' = [t \in Tasks |->
            IF t \notin stuck THEN status[t]
            ELSE IF ExceedsRetries(attempt[t] + 1, MaxRetries) THEN "failed" ELSE "pending"]
  /\ phase' = PhaseWhenDone(phase, status', FALSE)
  /\ UNCHANGED <<hasSession, runVars, reviewVars, planned>>

-----------------------------------------------------------------------------
TaskCommand(t) ==
  \/ \E source \in {"user", "agent_discovered"} : CreateTask(t, source)
  \/ ApproveTask(t) \/ RejectTask(t)
  \/ OpenTaskSession(t) \/ SubmitTaskPlan(t)
  \/ RetryTask(t) \/ RunTaskNow(t) \/ CancelTask(t)
  \/ ApproveTaskResult(t) \/ RejectTaskResult(t)

AgentCommand ==
  CreateTaskOverBudget \/ PauseAgent \/ ResumeAgent \/ ArchiveAgent \/ InitAgent

RunStep(t) ==
  \/ TaskRunCompleted(t) \/ TaskRunFailed(t)
  \/ FinishCompletion(t) \/ CompletionFails(t)
  \/ UserRunStarts(t) \/ UserRunEnds(t)

ReviewStep(t) ==
  \/ StartReview(t) \/ ReviewTimeout(t)
  \/ ReviewChangesNothing(t) \/ ReviewApproves(t) \/ ReviewRejects(t)

Step ==
  \/ Tick \/ AgentCommand \/ Crash \/ Restart
  \/ \E t \in Tasks : TaskCommand(t) \/ RunStep(t) \/ ReviewStep(t)

\* integratedOnce is a history variable of every step; no step of the model
\* changes the limit.
Next ==
  /\ Step
  /\ UNCHANGED maxTotalTasks
  /\ integratedOnce' = integratedOnce \cup InStatus(status', {"integrated"})

Spec == Init /\ [][Next]_vars

\* The polling timer fires, the process is restarted, an agent run ends in one
\* way or the other and the awaited commands of a completion return (each has
\* a timeout).  Nothing is assumed of users and of reviews.
FairSpec ==
  /\ Spec
  /\ WF_vars(Tick /\ Next) /\ WF_vars(Restart /\ Next)
  /\ \A t \in Tasks :
       /\ WF_vars((TaskRunCompleted(t) \/ TaskRunFailed(t)) /\ Next)
       /\ WF_vars((FinishCompletion(t) \/ CompletionFails(t)) /\ Next)

-----------------------------------------------------------------------------
(* Properties.                                                              *)

\* Two tasks are never in status 'running' together: the tick looks at the
\* table and starts a task in one callback (task-scheduler.ts), and no other
\* path, the completion's late write included, makes a task running.
AtMostOneRunning ==
  \A t, u \in Tasks : status[t] = "running" /\ status[u] = "running" => t = u

\* A task that is running will be told of an end: its run is live, or its
\* completion is being processed, or its last start was refused because its
\* session was busy.  Cancelling, retrying and restarting a task while older
\* runs and completions of it are alive must not lose the last of them.
RunningIsDrivenOrRefused ==
  \A t \in Tasks : up /\ status[t] = "running" =>
    activeRun[t] = "task" \/ completing[t] > 0 \/ refused[t]

\* No task is queued or run for more than maxRetries + 1 attempts, counted over
\* rejections by users, rejections by reviews and interrupted runs together.
AttemptsWithinRetries ==
  \A t \in Tasks :
    status[t] \in {"proposed", "pending", "queued", "planning", "running", "blocked"}
      => attempt[t] <= MaxRetries + 1

\* A task without a planning session is queued or run only when its dependency
\* gate has been open: all of its dependencies, or one of them, were integrated.
\* Rejection, recovery and retries bring it back behind the gate, not past it.
DependencyGate ==
  \A t \in Tasks \ planned : status[t] \in {"queued", "running"} =>
    \/ Deps[t] = {}
    \/ DepMode[t] = "all" /\ Deps[t] \subseteq integratedOnce
    \/ DepMode[t] = "any" /\ Deps[t] \cap integratedOnce # {}

\* Every change of status follows the table of status-machine.ts, directly or
\* (a tick that promotes and starts a task) through 'queued' within one callback,
\* except the write of 'reviewing' that ends a completion: that one may
\* overwrite any status.
StatusMachineOrLateWrite ==
  [][\A t \in Tasks :
       \/ CanTransition(status[t], status'[t])
       \/ status[t] \in {"pending", "planning"} /\ CanTransition("queued", status'[t])
       \/ status[t] = "absent"
       \/ status'[t] = "reviewing" /\ completing'[t] < completing[t]]_vars

\* A paused or archived agent starts no task, whichever command ends in a tick.
NoStartWhilePaused ==
  [][\A t \in Tasks : status[t] # "running" /\ status'[t] = "running"
       => canTickAgentPhase(phase)]_vars

\* A project never holds more tasks than maxTotalTasks.
TaskLimitKept == Cardinality(Created(status)) <= maxTotalTasks

\* A project that holds maxTotalTasks tasks starts none of them, whatever the
\* phase the agent is brought back to: the next tick pauses it again.
NoStartAtLimit ==
  [][\A t \in Tasks : status[t] # "running" /\ status'[t] = "running"
       => Cardinality(Created(status)) < maxTotalTasks]_vars

\* No task runs for ever, unless its start was refused.
RunningEnds ==
  \A t \in Tasks : []<>(status[t] # "running" \/ refused[t])

\* The task is in the queue, or its dependencies let the next tick take it there.
Waiting(t) ==
  \/ status[t] = "queued"
  \/ /\ status[t] = "pending"
     /\ \/ Deps[t] = {}
        \/ DepMode[t] = "all" /\ \A d \in Deps[t] : status[d] = "integrated"
        \/ DepMode[t] = "any" /\ \E d \in Deps[t] : status[d] = "integrated"

\* What may hold the slot for ever: a review nobody decides, and a task whose
\* start was refused.
SlotIsStuck ==
  \E u \in Tasks : status[u] = "reviewing" \/ (status[u] = "running" /\ refused[u])

\* A tick starts a task before t in the order of the queue, or tries to.
Overtakes(t) ==
  \E u \in Tasks :
    /\ u < t
    /\ status[u] \in {"pending", "planning", "queued"} /\ status'[u] \in {"running", "failed"}

\* No task waits in the queue for ever, except where the agent stops
\* scheduling again and again (paused by users or at a limit, archived), where
\* the slot stays stuck, or where earlier tasks overtake it without end.
WaitingStarts ==
  \A t \in Tasks : <>[]Waiting(t) =>
    \/ []<>(~canTickAgentPhase(phase))
    \/ <>[]SlotIsStuck
    \/ []<><<Overtakes(t)>>_vars

\* The slot is passed on: tasks that run end, and tasks that wait start, but for
\* the three obstacles that WaitingStarts names.
TasksProgress == RunningEnds /\ WaitingStarts

\* The serial supervisor implements SerialContract: the holder is the running
\* task.
Running == InStatus(status, {"running"})
Holder == IF Running = {} THEN -1 ELSE CHOOSE t \in Running : TRUE

Contract == INSTANCE SerialContract
  WITH NoTask <- -1, holder <- Holder, integrated <- integratedOnce, exempt <- planned

ContractSpec == Contract!Spec

=============================================================================
