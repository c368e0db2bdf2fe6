---------------------- MODULE SerialSupervision_proofs ----------------------
(***************************************************************************)
(* The invariants of SerialSupervision, proved for every set of tasks,     *)
(* every dependency graph, every trust level and every bound.              *)
(***************************************************************************)
EXTENDS SerialSupervision, FiniteSetTheorems, TLAPS

-----------------------------------------------------------------------------
(* What a tick does, on whatever table and phase the calling handler left.  *)

\* A tick moves only pending and queued tasks; it lets a pending task past its
\* gate only when the gate is open in st; it makes a task running only when
\* none is, and then no other one; and it touches the run of no other task.
TickMoves(st) ==
  \A t \in Tasks :
    \/ /\ status'[t] = st[t]
       /\ activeRun'[t] = activeRun[t] /\ refused'[t] = refused[t]
    \/ /\ st[t] \in {"pending", "queued"}
       /\ status'[t] \in {"queued", "blocked", "failed"}
       /\ activeRun'[t] = activeRun[t] /\ refused'[t] = refused[t]
    \/ /\ st[t] \in {"pending", "queued"}
       /\ status'[t] = "running"
       /\ activeRun'[t] = "task" \/ refused'[t]

TickStartsAlone(st) ==
  \A t, u \in Tasks :
    (status'[t] = "running" /\ st[t] # "running" /\ status'[u] = "running") => t = u

TickKeepsGate(st) ==
  \A t \in Tasks :
    (st[t] = "pending" /\ status'[t] \in {"queued", "running", "reviewing"})
      => DependenciesMet(Deps[t], DepMode[t], st, FALSE)

\* A tick leaves the variables it writes in their types.
TickTyped ==
  /\ status' \in [Tasks -> Statuses]
  /\ hasSession' \in [Tasks -> BOOLEAN]
  /\ activeRun' \in [Tasks -> {"none", "task", "user"}]
  /\ refused' \in [Tasks -> BOOLEAN]
  /\ phase' \in Phases

\* What the promotion loop makes of the table.
LEMMA PromotionEffect ==
  ASSUME NEW st \in [Tasks -> Statuses]
  PROVE  /\ AfterDependencies(st) \in [Tasks -> Statuses]
         /\ \A t \in Tasks :
              \/ AfterDependencies(st)[t] = st[t]
              \/ /\ st[t] \in {"pending", "queued"}
                 /\ AfterDependencies(st)[t] \in {"queued", "blocked"}
         /\ \A t \in Tasks :
              (st[t] = "pending" /\ AfterDependencies(st)[t] = "queued")
                => DependenciesMet(Deps[t], DepMode[t], st, FALSE)
<1>. DEFINE after(t) == StatusAfterDependencies(t, Deps[t], DepMode[t], st, FALSE)
<1>1. \A t \in Tasks : AfterDependencies(st)[t] = after(t)
  BY DEF AfterDependencies
<1>2. \A t \in Tasks :
        \/ after(t) = st[t]
        \/ st[t] \in {"pending", "queued"} /\ after(t) \in {"queued", "blocked"}
  BY DEF StatusAfterDependencies
<1>3. \A t \in Tasks : st[t] = "pending" /\ after(t) = "queued"
        => DependenciesMet(Deps[t], DepMode[t], st, FALSE)
  BY DEF StatusAfterDependencies
<1>4. \A t \in Tasks : after(t) \in Statuses
  BY <1>2 DEF Statuses
<1>5. AfterDependencies(st) \in [Tasks -> Statuses]
  BY <1>4 DEF AfterDependencies
<1>. QED
  BY <1>1, <1>2, <1>3, <1>5

\* Promotion, blocking and the start of the first queued task, put together:
\* the effect of a tick on the table and the runs.
LEMMA TickEffect ==
  ASSUME TypeOK, NEW st \in [Tasks -> Statuses], NEW ph \in Phases, TickFrom(st, ph)
  PROVE  TickTyped /\ TickMoves(st) /\ TickStartsAlone(st) /\ TickKeepsGate(st)
<1>1. CASE UNCHANGED <<hasSession, activeRun, refused>> /\ status' = st /\ phase' \in Phases
  BY <1>1 DEF TypeOK, TickTyped, TickMoves, TickStartsAlone, TickKeepsGate
<1>2. CASE Schedule(AfterDependencies(st)) /\ phase' = PhaseWhenDone(ph, status', FALSE)
  <2>. DEFINE now == AfterDependencies(st)
  <2>1. now \in [Tasks -> Statuses]
    BY PromotionEffect
  <2>2. \A t \in Tasks :
          \/ now[t] = st[t]
          \/ st[t] \in {"pending", "queued"} /\ now[t] \in {"queued", "blocked"}
    BY PromotionEffect
  <2>3. \A t \in Tasks : st[t] = "pending" /\ now[t] = "queued"
          => DependenciesMet(Deps[t], DepMode[t], st, FALSE)
    BY PromotionEffect
  <2>. HIDE DEF now
  <2>4. phase' \in Phases
    BY <1>2 DEF PhaseWhenDone, Phases
  <2>5. CASE UNCHANGED <<hasSession, activeRun, refused>> /\ status' = now
    <3>1. TickTyped /\ TickMoves(st) /\ TickStartsAlone(st)
      BY <2>1, <2>2, <2>4, <2>5 DEF TypeOK, TickTyped, TickMoves, TickStartsAlone
    <3>2. TickKeepsGate(st)
      BY <2>2, <2>3, <2>5 DEF TickKeepsGate
    <3>. QED
      BY <3>1, <3>2
  <2>6. ASSUME NEW t \in Tasks, Available(now), IsFirstQueued(t, now),
               StartTask(t, now) \/ StartFails(t, now)
        PROVE  TickTyped /\ TickMoves(st) /\ TickStartsAlone(st) /\ TickKeepsGate(st)
    <3>1. now[t] = "queued" /\ st[t] \in {"pending", "queued"}
      BY <2>2, <2>6 DEF IsFirstQueued
    <3>2. \A u \in Tasks : now[u] # "running"
      BY <2>6 DEF Available, InStatus
    <3>3. /\ status' \in [Tasks -> Statuses]
          /\ \A u \in Tasks \ {t} : status'[u] = now[u]
          /\ status'[t] \in {"running", "failed"}
      BY <2>1, <2>6 DEF StartTask, StartFails, Statuses
    <3>4. TickTyped
      <4>1. hasSession' \in [Tasks -> BOOLEAN]
        BY <2>6 DEF StartTask, StartFails, TypeOK
      <4>2. activeRun' \in [Tasks -> {"none", "task", "user"}]
        BY <2>6 DEF StartTask, StartFails, TypeOK
      <4>3. refused' \in [Tasks -> BOOLEAN]
        BY <2>6 DEF StartTask, StartFails, TypeOK
      <4>. QED
        BY <2>4, <3>3, <4>1, <4>2, <4>3 DEF TickTyped
    <3>5. \A u \in Tasks \ {t} : activeRun'[u] = activeRun[u] /\ refused'[u] = refused[u]
      BY <2>6 DEF StartTask, StartFails, TypeOK
    <3>6. \/ status'[t] = "running" /\ (activeRun'[t] = "task" \/ refused'[t])
          \/ status'[t] = "failed" /\ activeRun'[t] = activeRun[t] /\ refused'[t] = refused[t]
      BY <2>1, <2>6 DEF StartTask, StartFails, TypeOK
    <3>7. TickMoves(st)
      BY <2>2, <3>1, <3>3, <3>5, <3>6 DEF TickMoves
    <3>8. TickStartsAlone(st)
      BY <3>2, <3>3 DEF TickStartsAlone
    <3>9. TickKeepsGate(st)
      BY <2>2, <2>3, <3>1, <3>3 DEF TickKeepsGate
    <3>. QED
      BY <3>4, <3>7, <3>8, <3>9
  <2>. QED
    BY <1>2, <2>5, <2>6 DEF Schedule, now
<1>. QED
  BY <1>1, <1>2 DEF TickFrom, Phases

-----------------------------------------------------------------------------
(* Type correctness.                                                         *)

\* Every action of the supervisor leaves each variable in its type.
LEMMA StepTyped ==
  ASSUME TypeOK, Step
  PROVE  /\ status' \in [Tasks -> Statuses] /\ attempt' \in [Tasks -> Nat]
         /\ hasSession' \in [Tasks -> BOOLEAN]
         /\ activeRun' \in [Tasks -> {"none", "task", "user"}]
         /\ completing' \in [Tasks -> Nat] /\ collecting' \in [Tasks -> Nat]
         /\ reviewRuns' \in [Tasks -> Nat] /\ reviewTimer' \in [Tasks -> BOOLEAN]
         /\ phase' \in Phases /\ up' \in BOOLEAN
         /\ refused' \in [Tasks -> BOOLEAN] /\ planned' \in SUBSET Tasks
<1>. DEFINE Typed ==
       /\ status' \in [Tasks -> Statuses] /\ attempt' \in [Tasks -> Nat]
       /\ hasSession' \in [Tasks -> BOOLEAN]
       /\ activeRun' \in [Tasks -> {"none", "task", "user"}]
       /\ completing' \in [Tasks -> Nat] /\ collecting' \in [Tasks -> Nat]
       /\ reviewRuns' \in [Tasks -> Nat] /\ reviewTimer' \in [Tasks -> BOOLEAN]
       /\ phase' \in Phases /\ up' \in BOOLEAN
       /\ refused' \in [Tasks -> BOOLEAN] /\ planned' \in SUBSET Tasks
<1>1. ASSUME NEW st \in [Tasks -> Statuses], NEW ph \in Phases, TickFrom(st, ph)
      PROVE  Typed
  <2>1. TickTyped
    BY <1>1, TickEffect
  <2>2. UNCHANGED <<attempt, completing, reviewVars, up, planned>>
    BY <1>1 DEF TickFrom
  <2>. QED
    BY <2>1, <2>2 DEF TickTyped, TypeOK, reviewVars
<1>2. CASE Tick
  BY <1>1, <1>2 DEF Tick, TypeOK
<1>3. CASE AgentCommand
  BY <1>3 DEF AgentCommand, CreateTaskOverBudget, PauseAgent, ResumeAgent, ArchiveAgent,
    InitAgent, SetPhase, TypeOK, Phases, taskVars, runVars, reviewVars
<1>4. CASE Crash
  BY <1>4 DEF Crash, LoseMemory, TypeOK, taskVars
<1>5. CASE Restart
  <2>1. attempt' \in [Tasks -> Nat]
    BY <1>5 DEF Restart, TypeOK
  <2>2. status' \in [Tasks -> Statuses]
    BY <1>5 DEF Restart, TypeOK, Statuses
  <2>3. phase' \in Phases
    BY <1>5 DEF Restart, TypeOK, PhaseWhenDone, Phases
  <2>. QED
    BY <1>5, <2>1, <2>2, <2>3 DEF Restart, TypeOK, runVars, reviewVars
<1>6. ASSUME NEW t \in Tasks, TaskCommand(t)
      PROVE  Typed
  <2>1. CASE \E source \in {"user", "agent_discovered"} : CreateTask(t, source)
    BY <2>1 DEF CreateTask, SetStatus, resolveCreatedTaskStatus, PhaseOnNewWork,
      TypeOK, Statuses, Phases, runVars, reviewVars
  <2>2. CASE ApproveTask(t) \/ RejectTask(t) \/ CancelTask(t)
    BY <2>2 DEF ApproveTask, RejectTask, CancelTask, SetStatus, TypeOK, Statuses,
      runVars, reviewVars
  <2>3. CASE OpenTaskSession(t)
    BY <2>3 DEF OpenTaskSession, SetStatus, TypeOK, Statuses, runVars, reviewVars
  <2>4. CASE SubmitTaskPlan(t)
    <3>1. [status EXCEPT ![t] = "queued"] \in [Tasks -> Statuses]
      BY DEF TypeOK, Statuses
    <3>. QED
      BY <1>1, <2>4, <3>1 DEF SubmitTaskPlan, TypeOK
  <2>5. CASE RetryTask(t) \/ RunTaskNow(t)
    BY <2>5 DEF RetryTask, RunTaskNow, ResetToPending, SetStatus, PhaseOnNewWork,
      TypeOK, Statuses, Phases, runVars, reviewVars
  <2>6. CASE ApproveTaskResult(t)
    <3>1. [status EXCEPT ![t] = "integrated"] \in [Tasks -> Statuses]
      BY DEF TypeOK, Statuses
    <3>. QED
      BY <1>1, <2>6, <3>1 DEF ApproveTaskResult, TypeOK
  <2>7. CASE RejectTaskResult(t)
    BY <2>7 DEF RejectTaskResult, SetStatus, TypeOK, Statuses, runVars, reviewVars
  <2>. QED
    BY <1>6, <2>1, <2>2, <2>3, <2>4, <2>5, <2>6, <2>7 DEF TaskCommand
<1>7. ASSUME NEW t \in Tasks, RunStep(t)
      PROVE  Typed
  <2>1. CASE TaskRunCompleted(t)
    BY <2>1 DEF TaskRunCompleted, TypeOK, taskVars, reviewVars
  <2>2. CASE TaskRunFailed(t)
    BY <2>2 DEF TaskRunFailed, SetStatus, TypeOK, Statuses, reviewVars
  <2>3. CASE FinishCompletion(t)
    <3>1. completing' \in [Tasks -> Nat]
      BY <2>3 DEF FinishCompletion, TypeOK
    <3>2. status' \in [Tasks -> Statuses]
      BY <2>3 DEF FinishCompletion, SetStatus, TypeOK, Statuses
    <3>3. collecting' \in [Tasks -> Nat]
      BY <2>3 DEF FinishCompletion, TypeOK
    <3>. QED
      BY <2>3, <3>1, <3>2, <3>3 DEF FinishCompletion, TypeOK
  <2>5. CASE CompletionFails(t)
    <3>1. completing' \in [Tasks -> Nat]
      BY <2>5 DEF CompletionFails, TypeOK
    <3>2. status' \in [Tasks -> Statuses]
      BY <2>5 DEF CompletionFails, SetStatus, TypeOK, Statuses
    <3>. QED
      BY <2>5, <3>1, <3>2 DEF CompletionFails, TypeOK, reviewVars
  <2>4. CASE UserRunStarts(t) \/ UserRunEnds(t)
    BY <2>4 DEF UserRunStarts, UserRunEnds, TypeOK, taskVars, reviewVars
  <2>. QED
    BY <1>7, <2>1, <2>2, <2>3, <2>4, <2>5 DEF RunStep
<1>8. ASSUME NEW t \in Tasks, ReviewStep(t)
      PROVE  Typed
  <2>1. CASE ReviewChangesNothing(t)
    BY <2>1 DEF ReviewChangesNothing, ReviewEnds, TypeOK, runVars
  <2>2. CASE ReviewApproves(t)
    BY <2>2 DEF ReviewApproves, ReviewEnds, SetStatus, TypeOK, Statuses, runVars
  <2>3. CASE ReviewRejects(t)
    BY <2>3 DEF ReviewRejects, ReviewEnds, SetStatus, TypeOK, Statuses, runVars
  <2>4. CASE ReviewTimeout(t)
    <3>1. CASE LoseMemory
      BY <3>1 DEF LoseMemory, TypeOK, taskVars
    <3>2. CASE /\ reviewTimer' = [reviewTimer EXCEPT ![t] = FALSE]
               /\ UNCHANGED <<taskVars, runVars, collecting, reviewRuns, phase, up, planned>>
      BY <3>2 DEF TypeOK, taskVars, runVars
    <3>. QED
      BY <2>4, <3>1, <3>2 DEF ReviewTimeout
  <2>5. CASE StartReview(t)
    BY <2>5 DEF StartReview, TypeOK, taskVars, runVars
  <2>. QED
    BY <1>8, <2>1, <2>2, <2>3, <2>4, <2>5 DEF ReviewStep
<1>. QED
  BY <1>2, <1>3, <1>4, <1>5, <1>6, <1>7, <1>8 DEF Step

\* TypeOK is inductive; the history variable integratedOnce included.
LEMMA TypeStep == TypeOK /\ [Next]_vars => TypeOK'
<1>. SUFFICES ASSUME TypeOK, [Next]_vars
              PROVE  TypeOK'
  OBVIOUS
<1>1. CASE Next
  <2>1. integratedOnce' \in SUBSET Tasks
    BY <1>1 DEF Next, InStatus, TypeOK
  <2>. QED
    BY <1>1, <2>1, StepTyped DEF Next, TypeOK
<1>2. CASE UNCHANGED vars
  BY <1>2 DEF vars, taskVars, runVars, reviewVars, TypeOK
<1>. QED
  BY <1>1, <1>2

\* Every variable keeps its type, for every set of tasks and every bound.
THEOREM TypeCorrect == Spec => []TypeOK
<1>1. Init => TypeOK
  BY DEF Init, TypeOK, Statuses, Phases
<1>. QED
  BY <1>1, TypeStep, PTL DEF Spec

-----------------------------------------------------------------------------
(* The inductive invariant.                                                  *)

GateOpen(t) ==
  \/ Deps[t] = {}
  \/ DepMode[t] = "all" /\ Deps[t] \subseteq integratedOnce
  \/ DepMode[t] = "any" /\ Deps[t] \cap integratedOnce # {}

\* Past the gate: what a task without a planning session reaches only through
\* it.  A completion under way and a review bring the task back to the queue.
PastGate(t) == status[t] \in {"queued", "running", "reviewing"} \/ completing[t] > 0

GateHistory ==
  /\ \A t \in Tasks : status[t] = "integrated" => t \in integratedOnce
  /\ \A t \in Tasks : status[t] = "planning" => t \in planned
  /\ \A t \in Tasks \ planned : PastGate(t) => GateOpen(t)

\* A task that does not exist yet has its first attempt before it, and no
\* completion that could write its status.
AttemptHistory ==
  /\ AttemptsWithinRetries
  /\ \A t \in Tasks : status[t] = "absent" => attempt[t] = 1 /\ completing[t] = 0

IInv == TypeOK /\ AtMostOneRunning /\ RunningIsDrivenOrRefused /\ AttemptHistory /\ GateHistory

Properties == AtMostOneRunning /\ RunningIsDrivenOrRefused /\ AttemptHistory /\ GateHistory

\* What Next adds to Step.
Recorded == integratedOnce' = integratedOnce \cup InStatus(status', {"integrated"})

\* The tables on which the handlers run a tick.
Handed(st) ==
  \A t \in Tasks : \/ st[t] = status[t]
                   \/ st[t] = "integrated" /\ status[t] \notin {"running", "absent"}
                   \/ st[t] = "queued" /\ status[t] = "planning"

\* Integrations are only added, so an open gate stays open.
LEMMA GateStaysOpen ==
  ASSUME SerialAssumption, Recorded, NEW t \in Tasks, GateOpen(t)
  PROVE  GateOpen(t)'
<1>1. integratedOnce \subseteq integratedOnce'
  BY DEF Recorded
<1>. QED
  BY <1>1 DEF GateOpen

\* A task whose dependencies the tick finds met has an open gate afterwards.
LEMMA MetOpensGate ==
  ASSUME SerialAssumption, Recorded, NEW st, NEW t \in Tasks,
         \A u \in Tasks : st[u] = "integrated" => status'[u] = "integrated",
         DependenciesMet(Deps[t], DepMode[t], st, FALSE)
  PROVE  GateOpen(t)'
<1>1. \A u \in Tasks : st[u] = "integrated" => u \in integratedOnce'
  BY DEF Recorded, InStatus
<1>2. Deps[t] \subseteq Tasks
  BY DEF SerialAssumption
<1>. QED
  BY <1>1, <1>2 DEF DependenciesMet, Succeeded, GateOpen

\* Every step records the tasks it integrates.
LEMMA IntegratedRecorded ==
  ASSUME Recorded
  PROVE  \A t \in Tasks : status'[t] = "integrated" => t \in integratedOnce'
BY DEF Recorded, InStatus

\* A tick on the table a handler leaves keeps the invariant.
LEMMA TickPreserves ==
  ASSUME IInv, NEW st \in [Tasks -> Statuses], NEW ph \in Phases,
         Handed(st), TickFrom(st, ph), Recorded
  PROVE  Properties'
<1>1. TickMoves(st) /\ TickStartsAlone(st) /\ TickKeepsGate(st)
  BY TickEffect DEF IInv
<1>2. UNCHANGED <<attempt, completing, up, planned>>
  BY DEF TickFrom
<1>3. AtMostOneRunning'
  BY <1>1 DEF TickMoves, TickStartsAlone, Handed, IInv, AtMostOneRunning
<1>4. RunningIsDrivenOrRefused'
  BY <1>1, <1>2 DEF TickMoves, Handed, IInv, RunningIsDrivenOrRefused
<1>5. AttemptHistory'
  BY <1>1, <1>2 DEF TickMoves, Handed, IInv, AttemptHistory, AttemptsWithinRetries
<1>6. GateHistory'
  <2>1. \A t \in Tasks : status'[t] = "planning" => t \in planned'
    BY <1>1, <1>2 DEF TickMoves, Handed, IInv, GateHistory
  <2>2. ASSUME NEW t \in Tasks \ planned', PastGate(t)'
        PROVE  GateOpen(t)'
    <3>1. CASE PastGate(t)
      BY <1>2, <3>1, GateStaysOpen, SerialAssumption DEF IInv, GateHistory
    <3>2. CASE ~PastGate(t)
      <4>1. st[t] = "pending" /\ status'[t] \in {"queued", "running", "reviewing"}
        BY <1>1, <1>2, <2>2, <3>2 DEF TickMoves, Handed, PastGate, IInv, GateHistory
      <4>2. DependenciesMet(Deps[t], DepMode[t], st, FALSE)
        BY <1>1, <4>1 DEF TickKeepsGate
      <4>3. \A u \in Tasks : st[u] = "integrated" => status'[u] = "integrated"
        BY <1>1 DEF TickMoves
      <4>. QED
        BY <4>2, <4>3, MetOpensGate, SerialAssumption
    <3>. QED
      BY <3>1, <3>2
  <2>. QED
    BY <2>1, <2>2, IntegratedRecorded DEF GateHistory
<1>. QED
  BY <1>3, <1>4, <1>5, <1>6 DEF Properties

\* A step that makes no task running, keeps what drives the running ones, and
\* lets no task past its gate: most commands are of this kind.
Quiet ==
  /\ \A t \in Tasks : status'[t] = "running" => status[t] = "running"
  /\ \A t \in Tasks : up' /\ status'[t] = "running" =>
       /\ up
       /\ activeRun[t] = "task" => activeRun'[t] = "task" \/ completing'[t] > 0
       /\ completing[t] > 0 => completing'[t] > 0
       /\ refused'[t] = refused[t]
  /\ planned \subseteq planned'
  /\ \A t \in Tasks :
       /\ PastGate(t)' => PastGate(t)
       /\ status'[t] = "planning" => t \in planned'

\* A quiet step keeps what is not about attempts.
LEMMA QuietPreserves ==
  ASSUME IInv, Quiet, Recorded
  PROVE  AtMostOneRunning' /\ RunningIsDrivenOrRefused' /\ GateHistory'
<1>1. AtMostOneRunning'
  BY DEF IInv, Quiet, AtMostOneRunning
<1>2. RunningIsDrivenOrRefused'
  BY DEF IInv, Quiet, RunningIsDrivenOrRefused
<1>3. GateHistory'
  BY IntegratedRecorded, GateStaysOpen, SerialAssumption DEF IInv, Quiet, GateHistory
<1>. QED
  BY <1>1, <1>2, <1>3

\* Every action keeps the invariant: the ticks by TickPreserves, the others as
\* quiet steps that also respect the count of attempts.
LEMMA StepPreserves ==
  ASSUME IInv, Step, Recorded
  PROVE  Properties'
<1>. USE DEF IInv, TypeOK
<1>1. Quiet /\ AttemptHistory' => Properties'
  BY QuietPreserves DEF Properties
<1>2. CASE Tick
  <2>1. Handed(status)
    BY DEF Handed
  <2>. QED
    BY <1>2, <2>1, TickPreserves DEF Tick
<1>3. CASE AgentCommand
  <2>1. UNCHANGED <<taskVars, runVars, up, planned>>
    BY <1>3 DEF AgentCommand, CreateTaskOverBudget, PauseAgent, ResumeAgent, ArchiveAgent,
      InitAgent, SetPhase, taskVars, runVars
  <2>. QED
    BY <1>1, <2>1 DEF Quiet, AttemptHistory, AttemptsWithinRetries, GateHistory, PastGate,
      taskVars, runVars
<1>4. ASSUME LoseMemory
      PROVE  Properties'
  BY <1>1, <1>4 DEF LoseMemory, Quiet, AttemptHistory, AttemptsWithinRetries,
    GateHistory, PastGate, taskVars
<1>5. CASE Restart
  <2>1. \A t \in Tasks : status'[t] # "running"
    BY <1>5 DEF Restart, InStatus
  <2>2. Quiet
    <3>1. \A t \in Tasks : status'[t] = status[t] \/ status'[t] \in {"failed", "pending"}
      BY <1>5 DEF Restart
    <3>. QED
      BY <1>5, <2>1, <3>1 DEF Restart, Quiet, PastGate, GateHistory, runVars
  <2>3. AttemptHistory'
    <3>1. ASSUME NEW t \in Tasks
          PROVE  \/ status'[t] = status[t] /\ attempt'[t] = attempt[t]
                 \/ status'[t] = "pending" /\ attempt'[t] <= MaxRetries + 1
                 \/ status'[t] = "failed"
      <4>1. CASE t \in InStatus(status, {"running"})
        <5>1. attempt'[t] = attempt[t] + 1
          BY <1>5, <4>1 DEF Restart
        <5>2. status'[t] = IF ExceedsRetries(attempt[t] + 1, MaxRetries) THEN "failed" ELSE "pending"
          BY <1>5, <4>1 DEF Restart
        <5>. QED
          BY <5>1, <5>2, SerialAssumption DEF ExceedsRetries, SerialAssumption
      <4>2. CASE t \notin InStatus(status, {"running"})
        BY <1>5, <4>2 DEF Restart
      <4>. QED
        BY <4>1, <4>2
    <3>2. completing' = completing
      BY <1>5 DEF Restart, runVars
    <3>. QED
      BY <3>1, <3>2 DEF AttemptHistory, AttemptsWithinRetries
  <2>. QED
    BY <1>1, <2>2, <2>3
<1>6. ASSUME NEW t \in Tasks, TaskCommand(t)
      PROVE  Properties'
  <2>. USE DEF SetStatus, Quiet, AttemptHistory, AttemptsWithinRetries, GateHistory, PastGate,
         runVars
  <2>1. CASE \E source \in {"user", "agent_discovered"} : CreateTask(t, source)
    BY <1>1, <2>1, SerialAssumption DEF CreateTask, resolveCreatedTaskStatus, SerialAssumption
  <2>2. CASE ApproveTask(t)
    BY <1>1, <2>2 DEF ApproveTask
  <2>3. CASE RejectTask(t)
    BY <1>1, <2>3 DEF RejectTask
  <2>4. CASE OpenTaskSession(t)
    BY <1>1, <2>4 DEF OpenTaskSession, CanTransition, TASK_TRANSITIONS
  <2>5. CASE SubmitTaskPlan(t)
    <3>. DEFINE st == [status EXCEPT ![t] = "queued"]
    <3>1. st \in [Tasks -> Statuses] /\ Handed(st)
      BY <2>5 DEF SubmitTaskPlan, Handed, Statuses
    <3>. QED
      BY <2>5, <3>1, TickPreserves DEF SubmitTaskPlan
  <2>6. CASE RetryTask(t) \/ RunTaskNow(t)
    BY <1>1, <2>6, SerialAssumption DEF RetryTask, RunTaskNow, ResetToPending, SerialAssumption
  <2>7. CASE CancelTask(t)
    BY <1>1, <2>7 DEF CancelTask
  <2>8. CASE ApproveTaskResult(t)
    <3>. DEFINE st == [status EXCEPT ![t] = "integrated"]
    <3>1. st \in [Tasks -> Statuses] /\ Handed(st)
      BY <2>8 DEF ApproveTaskResult, CanTransition, TASK_TRANSITIONS, Handed, Statuses
    <3>. QED
      BY <2>8, <3>1, TickPreserves DEF ApproveTaskResult
  <2>9. CASE RejectTaskResult(t)
    BY <1>1, <2>9, SerialAssumption DEF RejectTaskResult, ExceedsRetries, SerialAssumption
  <2>. QED
    BY <1>6, <2>1, <2>2, <2>3, <2>4, <2>5, <2>6, <2>7, <2>8, <2>9 DEF TaskCommand
<1>7. ASSUME NEW t \in Tasks, RunStep(t)
      PROVE  Properties'
  <2>. USE DEF SetStatus, Quiet, AttemptHistory, AttemptsWithinRetries, GateHistory, PastGate,
         taskVars
  <2>1. CASE TaskRunCompleted(t)
    BY <1>1, <2>1 DEF TaskRunCompleted
  <2>2. CASE TaskRunFailed(t)
    BY <1>1, <2>2 DEF TaskRunFailed, CanTransition, TASK_TRANSITIONS
  <2>3. CASE FinishCompletion(t)
    BY <1>1, <2>3 DEF FinishCompletion
  <2>4. CASE UserRunStarts(t) \/ UserRunEnds(t)
    BY <1>1, <2>4 DEF UserRunStarts, UserRunEnds
  <2>5. CASE CompletionFails(t)
    BY <1>1, <2>5 DEF CompletionFails, CanTransition, TASK_TRANSITIONS
  <2>. QED
    BY <1>7, <2>1, <2>2, <2>3, <2>4, <2>5 DEF RunStep
<1>8. ASSUME NEW t \in Tasks, ReviewStep(t)
      PROVE  Properties'
  <2>. USE DEF SetStatus, Quiet, AttemptHistory, AttemptsWithinRetries, GateHistory, PastGate,
         ReviewEnds, runVars
  <2>1. CASE ReviewChangesNothing(t)
    BY <1>1, <2>1 DEF ReviewChangesNothing
  <2>2. CASE ReviewApproves(t)
    BY <1>1, <2>2 DEF ReviewApproves
  <2>3. CASE ReviewRejects(t)
    BY <1>1, <2>3, SerialAssumption DEF ReviewRejects, AutoApply, ExceedsRetries, SerialAssumption
  <2>4. CASE ReviewTimeout(t)
    BY <1>1, <1>4, <2>4 DEF ReviewTimeout, taskVars
  <2>5. CASE StartReview(t)
    BY <1>1, <2>5 DEF StartReview, taskVars
  <2>. QED
    BY <1>8, <2>1, <2>2, <2>3, <2>4, <2>5 DEF ReviewStep
<1>. QED
  BY <1>2, <1>3, <1>4, <1>5, <1>6, <1>7, <1>8 DEF Step, Crash

\* The invariant holds at first and every step of the specification keeps it.
LEMMA InvariantStep == IInv /\ [Next]_vars => IInv'
<1>. SUFFICES ASSUME IInv, [Next]_vars
              PROVE  IInv'
  OBVIOUS
<1>1. TypeOK'
  BY TypeStep DEF IInv
<1>2. CASE Next
  BY <1>1, <1>2, StepPreserves DEF Next, Recorded, Properties, IInv
<1>3. CASE UNCHANGED vars
  BY <1>1, <1>3 DEF vars, taskVars, runVars, IInv, AtMostOneRunning, RunningIsDrivenOrRefused,
    AttemptHistory, AttemptsWithinRetries, GateHistory, PastGate, GateOpen
<1>. QED
  BY <1>2, <1>3

\* The inductive invariant of the serial supervisor.
THEOREM Invariance == Spec => []IInv
<1>1. Init => IInv
  BY SerialAssumption DEF Init, IInv, TypeOK, Statuses, Phases, AtMostOneRunning,
    RunningIsDrivenOrRefused, AttemptHistory, AttemptsWithinRetries, GateHistory, PastGate,
    SerialAssumption
<1>. QED
  BY <1>1, InvariantStep, PTL DEF Spec

\* The tick never starts a second task, and no late write of a completion, no
\* recovery and no command puts a second one in status 'running'.
THEOREM OneRunningTask == Spec => []AtMostOneRunning
<1>1. IInv => AtMostOneRunning
  BY DEF IInv
<1>. QED
  BY <1>1, Invariance, PTL

\* Cancellations, retries, crashes and chats of users never leave a running
\* task with nothing to end it, except when its start was refused.
THEOREM RunningTaskIsDriven == Spec => []RunningIsDrivenOrRefused
<1>1. IInv => RunningIsDrivenOrRefused
  BY DEF IInv
<1>. QED
  BY <1>1, Invariance, PTL

\* The attempts of a task stay within maxRetries + 1, whoever counts them.
THEOREM BoundedAttempts == Spec => []AttemptsWithinRetries
<1>1. IInv => AttemptsWithinRetries
  BY DEF IInv, AttemptHistory
<1>. QED
  BY <1>1, Invariance, PTL

\* A task without a planning session is queued or run behind an open gate, for
\* every dependency graph.
THEOREM GateIsKept == Spec => []DependencyGate
<1>1. IInv => DependencyGate
  BY DEF IInv, GateHistory, PastGate, GateOpen, DependencyGate
<1>. QED
  BY <1>1, Invariance, PTL

-----------------------------------------------------------------------------
(* What a step may never do.                                                 *)

\* A task becomes running only in a tick, on the phase the agent really has.
LEMMA OnlyTicksStart ==
  ASSUME TypeOK, Step, NEW t \in Tasks, status[t] # "running", status'[t] = "running"
  PROVE  \E st \in [Tasks -> Statuses] : Handed(st) /\ TickFrom(st, phase)
<1>. USE DEF TypeOK, SetStatus
<1>1. CASE Tick
  BY <1>1 DEF Tick, Handed
<1>2. CASE AgentCommand \/ Crash \/ Restart
  BY <1>2 DEF AgentCommand, CreateTaskOverBudget, PauseAgent, ResumeAgent, ArchiveAgent,
    InitAgent, SetPhase, taskVars, Crash, LoseMemory, Restart
<1>3. ASSUME NEW u \in Tasks, TaskCommand(u)
      PROVE  \E st \in [Tasks -> Statuses] : Handed(st) /\ TickFrom(st, phase)
  <2>1. CASE SubmitTaskPlan(u)
    <3>. DEFINE st == [status EXCEPT ![u] = "queued"]
    <3>1. st \in [Tasks -> Statuses] /\ Handed(st)
      BY <2>1 DEF Statuses, Handed, SubmitTaskPlan
    <3>. QED
      BY <2>1, <3>1 DEF SubmitTaskPlan
  <2>2. CASE ApproveTaskResult(u)
    <3>. DEFINE st == [status EXCEPT ![u] = "integrated"]
    <3>1. st \in [Tasks -> Statuses] /\ Handed(st)
      BY <2>2 DEF ApproveTaskResult, CanTransition, TASK_TRANSITIONS, Statuses, Handed
    <3>. QED
      BY <2>2, <3>1 DEF ApproveTaskResult
  <2>. QED
    BY <1>3, <2>1, <2>2 DEF TaskCommand, CreateTask, resolveCreatedTaskStatus, ApproveTask,
      RejectTask, OpenTaskSession, RetryTask, RunTaskNow, ResetToPending, CancelTask,
      RejectTaskResult
<1>4. ASSUME NEW u \in Tasks, RunStep(u) \/ ReviewStep(u)
      PROVE  FALSE
  BY <1>4 DEF RunStep, ReviewStep, TaskRunCompleted, TaskRunFailed, FinishCompletion,
    CompletionFails, StartReview, UserRunStarts, UserRunEnds, ReviewChangesNothing, ReviewApproves, ReviewRejects,
    ReviewTimeout, LoseMemory, taskVars
<1>. QED
  BY <1>1, <1>2, <1>3, <1>4 DEF Step

\* A paused or archived agent starts no task, whichever command ends in a tick.
THEOREM PausedStartsNothing == Spec => NoStartWhilePaused
<1>1. TypeOK /\ [Next]_vars =>
        [\A t \in Tasks : status[t] # "running" /\ status'[t] = "running"
           => canTickAgentPhase(phase)]_vars
  <2>. SUFFICES ASSUME TypeOK, Next, NEW t \in Tasks,
                       status[t] # "running", status'[t] = "running"
                PROVE  canTickAgentPhase(phase)
    OBVIOUS
  <2>1. PICK st \in [Tasks -> Statuses] : Handed(st) /\ TickFrom(st, phase)
    BY OnlyTicksStart DEF Next
  <2>. QED
    BY <2>1 DEF Handed, TickFrom
<1>. QED
  BY <1>1, TypeCorrect, PTL DEF Spec, NoStartWhilePaused

\* A change of status that the state machine allows in one callback.
Legal(from, to) ==
  \/ CanTransition(from, to)
  \/ from \in {"pending", "planning"} /\ CanTransition("queued", to)
  \/ from = "absent"

\* A tick follows the table of transitions, through 'queued' where it promotes
\* and starts a task at once.
LEMMA TickIsLegal ==
  ASSUME TypeOK, NEW st \in [Tasks -> Statuses], NEW ph \in Phases, TickFrom(st, ph),
         \A t \in Tasks : \/ st[t] = status[t]
                          \/ st[t] = "integrated" /\ CanTransition(status[t], "integrated")
                          \/ st[t] = "queued" /\ status[t] = "planning"
  PROVE  \A t \in Tasks : Legal(status[t], status'[t])
<1>1. TickMoves(st)
  BY TickEffect
<1>2. SUFFICES ASSUME NEW t \in Tasks
              PROVE  Legal(status[t], status'[t])
  OBVIOUS
<1>3. CASE status'[t] = st[t]
  BY <1>3 DEF Legal, CanTransition, TASK_TRANSITIONS
<1>4. CASE /\ st[t] \in {"pending", "queued"}
           /\ status'[t] \in {"queued", "blocked", "failed", "running"}
  <2>1. CanTransition("queued", status'[t])
    BY <1>4 DEF CanTransition, TASK_TRANSITIONS
  <2>2. status[t] \in {"pending", "queued", "planning"}
    BY <1>4
  <2>. QED
    BY <2>1, <2>2 DEF Legal
<1>. QED
  BY <1>1, <1>3, <1>4 DEF TickMoves

\* No command, recovery or verdict takes a task along a pair that the table of
\* status-machine.ts does not have; only the late write of a completion may.
THEOREM StatusMachineKept == Spec => StatusMachineOrLateWrite
<1>. DEFINE Late(t) == status'[t] = "reviewing" /\ completing'[t] < completing[t]
            Kept == \A t \in Tasks : Legal(status[t], status'[t]) \/ Late(t)
<1>. USE DEF SetStatus
<1>1. ASSUME TypeOK, Tick
      PROVE  Kept
  BY <1>1, TickIsLegal DEF Tick, TypeOK
<1>2. ASSUME UNCHANGED status
      PROVE  Kept
  BY <1>2 DEF Legal, CanTransition
<1>3. ASSUME TypeOK, Restart
      PROVE  Kept
  BY <1>3 DEF Restart, InStatus, TypeOK, Legal, CanTransition, TASK_TRANSITIONS
<1>4. ASSUME TypeOK, NEW t \in Tasks, TaskCommand(t)
      PROVE  Kept
  <2>. USE DEF TypeOK
  <2>1. CASE SubmitTaskPlan(t)
    <3>. DEFINE st == [status EXCEPT ![t] = "queued"]
    <3>1. st \in [Tasks -> Statuses]
      BY <1>4 DEF Statuses
    <3>. QED
      BY <1>4, <2>1, <3>1, TickIsLegal DEF SubmitTaskPlan
  <2>2. CASE ApproveTaskResult(t)
    <3>. DEFINE st == [status EXCEPT ![t] = "integrated"]
    <3>1. st \in [Tasks -> Statuses]
      BY <1>4 DEF Statuses
    <3>. QED
      BY <1>4, <2>2, <3>1, TickIsLegal DEF ApproveTaskResult
  <2>3. CASE \/ \E source \in {"user", "agent_discovered"} : CreateTask(t, source)
             \/ ApproveTask(t) \/ RejectTask(t) \/ OpenTaskSession(t)
             \/ RetryTask(t) \/ RunTaskNow(t) \/ CancelTask(t) \/ RejectTaskResult(t)
    BY <1>4, <2>3 DEF CreateTask, ApproveTask, RejectTask, OpenTaskSession, RetryTask,
      RunTaskNow, ResetToPending, CancelTask, RejectTaskResult, Legal, CanTransition,
      TASK_TRANSITIONS
  <2>. QED
    BY <1>4, <2>1, <2>2, <2>3 DEF TaskCommand
<1>5. ASSUME TypeOK, NEW t \in Tasks, FinishCompletion(t)
      PROVE  Kept
  <2>1. completing'[t] < completing[t]
    BY <1>5 DEF FinishCompletion, TypeOK
  <2>. QED
    BY <1>5, <2>1 DEF FinishCompletion, TypeOK, Legal, CanTransition
<1>6. ASSUME TypeOK, NEW t \in Tasks, TaskRunFailed(t) \/ CompletionFails(t)
      PROVE  Kept
  BY <1>6 DEF TaskRunFailed, CompletionFails, TypeOK, Legal, CanTransition
<1>7. ASSUME TypeOK, NEW t \in Tasks, ReviewApproves(t) \/ ReviewRejects(t)
      PROVE  Kept
  BY <1>7 DEF ReviewApproves, ReviewRejects, AutoApply, TypeOK, Legal, CanTransition,
    TASK_TRANSITIONS
<1>8. ASSUME \/ AgentCommand \/ Crash
             \/ \E t \in Tasks : \/ TaskRunCompleted(t) \/ UserRunStarts(t) \/ UserRunEnds(t)
                                 \/ StartReview(t) \/ ReviewChangesNothing(t) \/ ReviewTimeout(t)
      PROVE  UNCHANGED status
  BY <1>8 DEF AgentCommand, CreateTaskOverBudget, PauseAgent, ResumeAgent, ArchiveAgent,
    InitAgent, SetPhase, Crash, LoseMemory, TaskRunCompleted, UserRunStarts, UserRunEnds,
    StartReview, ReviewChangesNothing, ReviewTimeout, taskVars
<1>9. TypeOK /\ [Next]_vars =>
        [\A t \in Tasks :
           \/ CanTransition(status[t], status'[t])
           \/ status[t] \in {"pending", "planning"} /\ CanTransition("queued", status'[t])
           \/ status[t] = "absent"
           \/ status'[t] = "reviewing" /\ completing'[t] < completing[t]]_vars
  <2>. SUFFICES ASSUME TypeOK, Next
                PROVE  Kept
    BY DEF Legal
  <2>. QED
    BY <1>1, <1>2, <1>3, <1>4, <1>5, <1>6, <1>7, <1>8 DEF Next, Step, RunStep, ReviewStep
<1>. QED
  BY <1>9, TypeCorrect, PTL DEF Spec, StatusMachineOrLateWrite

-----------------------------------------------------------------------------
(* The task limit.                                                           *)

\* A project at its task limit starts nothing, for every limit and phase.
THEOREM LimitStartsNothing == Spec => NoStartAtLimit
<1>1. TypeOK /\ [Next]_vars =>
        [\A t \in Tasks : status[t] # "running" /\ status'[t] = "running"
           => Cardinality(Created(status)) < maxTotalTasks]_vars
  <2>. SUFFICES ASSUME TypeOK, Next, NEW t \in Tasks,
                       status[t] # "running", status'[t] = "running"
                PROVE  Cardinality(Created(status)) < maxTotalTasks
    OBVIOUS
  <2>1. PICK st \in [Tasks -> Statuses] : Handed(st) /\ TickFrom(st, phase)
    BY OnlyTicksStart DEF Next
  <2>2. Created(st) = Created(status)
    BY <2>1 DEF Handed, Created, InStatus, TypeOK, Statuses
  <2>3. ~OverTaskBudget(st)
    BY <2>1 DEF Handed, TickFrom
  <2>4. IsFiniteSet(Created(status))
    BY FS_Subset, SerialAssumption DEF Created, InStatus, SerialAssumption
  <2>5. Cardinality(Created(status)) \in Nat
    BY <2>4, FS_CardinalityType
  <2>6. maxTotalTasks \in Nat
    BY SerialAssumption DEF TypeOK, SerialAssumption
  <2>. QED
    BY <2>2, <2>3, <2>5, <2>6 DEF OverTaskBudget
<1>. QED
  BY <1>1, TypeCorrect, PTL DEF Spec, NoStartAtLimit

\* Only createTask adds to the table, and it looks at the limit first.
LEMMA CreatedStep ==
  ASSUME IInv, Step
  PROVE  \/ Created(status') = Created(status)
         \/ /\ ~OverTaskBudget(status)
            /\ \E t \in Tasks \ Created(status) : Created(status') = Created(status) \cup {t}
<1>. DEFINE Same == \A u \in Tasks : status'[u] = "absent" <=> status[u] = "absent"
<1>. USE DEF IInv, TypeOK, SetStatus
<1>0. Same => Created(status') = Created(status)
  <2>1. status' \in [Tasks -> Statuses]
    BY StepTyped
  <2>. QED
    BY <2>1 DEF Created, InStatus, Statuses
<1>1. ASSUME NEW st \in [Tasks -> Statuses], NEW ph \in Phases, TickFrom(st, ph), Handed(st)
      PROVE  Same
  <2>1. TickMoves(st)
    BY <1>1, TickEffect
  <2>. QED
    BY <1>1, <2>1 DEF TickMoves, Handed
<1>2. CASE Tick
  <2>1. Handed(status)
    BY DEF Handed
  <2>. QED
    BY <1>0, <1>1, <1>2, <2>1 DEF Tick
<1>3. CASE AgentCommand \/ Crash \/ Restart
  BY <1>0, <1>3 DEF AgentCommand, CreateTaskOverBudget, PauseAgent, ResumeAgent, ArchiveAgent,
    InitAgent, SetPhase, taskVars, Crash, LoseMemory, Restart, InStatus
<1>4. ASSUME NEW t \in Tasks, NEW source \in {"user", "agent_discovered"}, CreateTask(t, source)
      PROVE  /\ ~OverTaskBudget(status) /\ t \notin Created(status)
             /\ Created(status') = Created(status) \cup {t}
  <2>1. status'[t] \in {"pending", "proposed"} /\ \A u \in Tasks \ {t} : status'[u] = status[u]
    BY <1>4 DEF CreateTask, resolveCreatedTaskStatus
  <2>. QED
    BY <1>4, <2>1 DEF CreateTask, Created, InStatus, Statuses
<1>5. ASSUME NEW t \in Tasks, TaskCommand(t),
             ~\E source \in {"user", "agent_discovered"} : CreateTask(t, source)
      PROVE  Same
  <2>1. CASE SubmitTaskPlan(t)
    <3>. DEFINE st == [status EXCEPT ![t] = "queued"]
    <3>1. st \in [Tasks -> Statuses] /\ Handed(st)
      BY <2>1 DEF SubmitTaskPlan, Handed, Statuses
    <3>. QED
      BY <1>1, <2>1, <3>1 DEF SubmitTaskPlan
  <2>2. CASE ApproveTaskResult(t)
    <3>. DEFINE st == [status EXCEPT ![t] = "integrated"]
    <3>1. st \in [Tasks -> Statuses] /\ Handed(st)
      BY <2>2 DEF ApproveTaskResult, CanTransition, TASK_TRANSITIONS, Handed, Statuses
    <3>. QED
      BY <1>1, <2>2, <3>1 DEF ApproveTaskResult
  <2>. QED
    BY <1>5, <2>1, <2>2 DEF TaskCommand, ApproveTask, RejectTask, OpenTaskSession, RetryTask,
      RunTaskNow, ResetToPending, CancelTask, RejectTaskResult, CanTransition, TASK_TRANSITIONS
<1>6. ASSUME NEW t \in Tasks, RunStep(t) \/ ReviewStep(t)
      PROVE  Same
  BY <1>6 DEF RunStep, ReviewStep, TaskRunCompleted, TaskRunFailed, FinishCompletion,
    CompletionFails, StartReview, UserRunStarts, UserRunEnds, ReviewChangesNothing,
    ReviewApproves, ReviewRejects, AutoApply, ReviewTimeout, LoseMemory, taskVars,
    CanTransition, TASK_TRANSITIONS, AttemptHistory
<1>. QED
  BY <1>0, <1>2, <1>3, <1>4, <1>5, <1>6 DEF Step

\* The number of tasks never passes maxTotalTasks.
THEOREM LimitIsKept == Spec => []TaskLimitKept
<1>1. Init => TaskLimitKept
  <2>. SUFFICES ASSUME Init
                PROVE  TaskLimitKept
    OBVIOUS
  <2>1. Created(status) = {}
    BY DEF Init, Created, InStatus
  <2>2. maxTotalTasks \in Nat
    BY SerialAssumption DEF Init, SerialAssumption
  <2>. QED
    BY <2>1, <2>2, FS_EmptySet DEF TaskLimitKept
<1>2. TaskLimitKept /\ IInv /\ [Next]_vars => TaskLimitKept'
  <2>. SUFFICES ASSUME TaskLimitKept, IInv, [Next]_vars
                PROVE  TaskLimitKept'
    OBVIOUS
  <2>0. maxTotalTasks \in Nat /\ maxTotalTasks' = maxTotalTasks
    BY SerialAssumption DEF SerialAssumption, IInv, TypeOK, Next, vars
  <2>1. IsFiniteSet(Created(status)) /\ Cardinality(Created(status)) \in Nat
    BY FS_Subset, FS_CardinalityType, SerialAssumption DEF Created, InStatus, SerialAssumption
  <2>2. CASE Created(status') = Created(status)
    BY <2>0, <2>2 DEF TaskLimitKept
  <2>3. ASSUME ~OverTaskBudget(status), NEW t \in Tasks \ Created(status),
               Created(status') = Created(status) \cup {t}
        PROVE  TaskLimitKept'
    <3>1. Cardinality(Created(status')) = Cardinality(Created(status)) + 1
      BY <2>1, <2>3, FS_AddElement
    <3>. QED
      BY <2>0, <2>1, <2>3, <3>1 DEF OverTaskBudget, TaskLimitKept
  <2>4. CASE UNCHANGED vars
    BY <2>2, <2>4 DEF vars, taskVars
  <2>. QED
    BY <2>2, <2>3, <2>4, CreatedStep DEF Next
<1>. QED
  BY <1>1, <1>2, Invariance, PTL DEF Spec

-----------------------------------------------------------------------------
(* Refinement: the steps of the supervisor are steps of SerialContract.      *)

\* At most one task is running, so Holder names it, and is -1 when there is none.
LEMMA HolderIsTheRunningTask ==
  ASSUME SerialAssumption, AtMostOneRunning
  PROVE  /\ Running = {} <=> Holder = -1
         /\ \A t \in Tasks : status[t] = "running" <=> Holder = t
<1>1. -1 \notin Tasks
  BY DEF SerialAssumption
<1>2. ASSUME NEW t \in Tasks, status[t] = "running"
      PROVE  Holder = t
  <2>1. Running = {t}
    BY <1>2 DEF AtMostOneRunning, Running, InStatus
  <2>. QED
    BY <2>1 DEF Holder
<1>3. Running # {} => Holder \in Running
  BY DEF Holder
<1>. QED
  BY <1>1, <1>2, <1>3 DEF Running, InStatus, Holder

\* The project changes hands only through nobody, and behind an open gate.
LEMMA HolderStep ==
  ASSUME IInv, IInv', Next
  PROVE  \/ Holder' = Holder
         \/ Contract!Release
         \/ \E t \in Tasks : Contract!Take(t)
<1>. USE SerialAssumption
<1>1. CASE \E t \in Tasks : status[t] # "running" /\ status'[t] = "running"
  <2>1. PICK t \in Tasks : status[t] # "running" /\ status'[t] = "running"
    BY <1>1
  <2>2. PICK st \in [Tasks -> Statuses] : Handed(st) /\ TickFrom(st, phase)
    BY <2>1, OnlyTicksStart DEF Next, IInv
  <2>3. TickMoves(st) /\ TickStartsAlone(st) /\ planned' = planned
    BY <2>2, TickEffect DEF IInv, TypeOK, TickFrom
  <2>4. \A u \in Tasks : status[u] # "running"
    <3>1. st[t] # "running"
      BY <2>1, <2>2 DEF Handed
    <3>2. ASSUME NEW u \in Tasks, status[u] = "running"
          PROVE  FALSE
      <4>1. st[u] = "running"
        BY <2>2, <3>2 DEF Handed
      <4>2. status'[u] = "running"
        BY <2>3, <4>1 DEF TickMoves
      <4>. QED
        BY <2>1, <2>3, <3>1, <4>1, <4>2 DEF TickStartsAlone
    <3>. QED
      BY <3>2
  <2>5. Holder = -1
    BY <2>4 DEF Running, InStatus, Holder
  <2>6. Holder' = t
    <3>1. Running' = {t}
      BY <2>1 DEF IInv, AtMostOneRunning, Running, InStatus
    <3>. QED
      BY <3>1 DEF Holder
  <2>7. t \in planned \/ GateOpen(t)'
    BY <2>1, <2>3 DEF IInv, GateHistory, PastGate
  <2>. QED
    BY <2>5, <2>6, <2>7 DEF Contract!Take, Contract!GateOpen, GateOpen
<1>2. CASE \A t \in Tasks : status'[t] = "running" => status[t] = "running"
  <2>1. CASE Running' = {}
    BY <2>1 DEF Holder, Contract!Release
  <2>2. CASE Running' # {}
    <3>1. PICK t \in Tasks : status'[t] = "running"
      BY <2>2 DEF Running, InStatus
    <3>2. Running' = {t} /\ Running = {t}
      BY <1>2, <3>1 DEF IInv, AtMostOneRunning, Running, InStatus
    <3>. QED
      BY <3>2 DEF Holder
  <2>. QED
    BY <2>1, <2>2
<1>. QED
  BY <1>1, <1>2

\* A step integrates at most one task, which is not running.
LEMMA OneIntegration ==
  ASSUME TypeOK, Step
  PROVE  \/ \A u \in Tasks : status'[u] = "integrated" => status[u] = "integrated"
         \/ \E t \in Tasks :
              /\ status[t] # "running" /\ status'[t] = "integrated"
              /\ \A u \in Tasks \ {t} : status'[u] = "integrated" => status[u] = "integrated"
<1>. DEFINE None == \A u \in Tasks : status'[u] = "integrated" => status[u] = "integrated"
            One == \E t \in Tasks :
              /\ status[t] # "running" /\ status'[t] = "integrated"
              /\ \A u \in Tasks \ {t} : status'[u] = "integrated" => status[u] = "integrated"
<1>. USE DEF TypeOK, SetStatus
<1>1. ASSUME NEW st \in [Tasks -> Statuses], NEW ph \in Phases, TickFrom(st, ph)
      PROVE  \A u \in Tasks : status'[u] = "integrated" <=> st[u] = "integrated"
  <2>1. TickMoves(st)
    BY <1>1, TickEffect
  <2>. QED
    BY <2>1 DEF TickMoves
<1>2. CASE Tick
  BY <1>1, <1>2 DEF Tick
<1>3. CASE AgentCommand \/ Crash \/ Restart
  BY <1>3 DEF AgentCommand, CreateTaskOverBudget, PauseAgent, ResumeAgent, ArchiveAgent,
    InitAgent, SetPhase, taskVars, Crash, LoseMemory, Restart
<1>4. ASSUME NEW t \in Tasks, TaskCommand(t)
      PROVE  None \/ One
  <2>1. CASE SubmitTaskPlan(t)
    <3>. DEFINE st == [status EXCEPT ![t] = "queued"]
    <3>1. st \in [Tasks -> Statuses] /\ TickFrom(st, phase)
      BY <2>1 DEF SubmitTaskPlan, Statuses
    <3>. QED
      BY <1>1, <3>1
  <2>2. CASE ApproveTaskResult(t)
    <3>. DEFINE st == [status EXCEPT ![t] = "integrated"]
    <3>1. st \in [Tasks -> Statuses] /\ TickFrom(st, phase) /\ status[t] # "running"
      BY <2>2 DEF ApproveTaskResult, CanTransition, TASK_TRANSITIONS, Statuses
    <3>2. \A u \in Tasks : status'[u] = "integrated" <=> st[u] = "integrated"
      BY <1>1, <3>1
    <3>. QED
      BY <3>1, <3>2
  <2>. QED
    BY <1>4, <2>1, <2>2 DEF TaskCommand, CreateTask, resolveCreatedTaskStatus, ApproveTask,
      RejectTask, OpenTaskSession, RetryTask, RunTaskNow, ResetToPending, CancelTask,
      RejectTaskResult
<1>5. ASSUME NEW t \in Tasks, RunStep(t) \/ ReviewStep(t)
      PROVE  None \/ One
  <2>1. CASE ReviewApproves(t)
    BY <2>1 DEF ReviewApproves, AutoApply
  <2>. QED
    BY <1>5, <2>1 DEF RunStep, ReviewStep, TaskRunCompleted, TaskRunFailed, FinishCompletion,
      CompletionFails, StartReview, UserRunStarts, UserRunEnds, ReviewChangesNothing, ReviewRejects, ReviewTimeout,
      LoseMemory, taskVars
<1>. QED
  BY <1>2, <1>3, <1>4, <1>5 DEF Step

\* An integration is one the contract allows.
LEMMA IntegrationStep ==
  ASSUME IInv, Next
  PROVE  integratedOnce' = integratedOnce \/ \E t \in Tasks : Contract!Integrate(t)
<1>. USE SerialAssumption
<1>1. CASE \A u \in Tasks : status'[u] = "integrated" => status[u] = "integrated"
  BY <1>1 DEF Next, InStatus, IInv, GateHistory
<1>2. ASSUME NEW t \in Tasks, status[t] # "running", status'[t] = "integrated",
             \A u \in Tasks \ {t} : status'[u] = "integrated" => status[u] = "integrated"
      PROVE  Contract!Integrate(t)
  <2>1. integratedOnce' = integratedOnce \cup {t}
    BY <1>2 DEF Next, InStatus, IInv, GateHistory
  <2>2. t # Holder
    BY <1>2, HolderIsTheRunningTask DEF IInv
  <2>. QED
    BY <2>1, <2>2 DEF Contract!Integrate
<1>. QED
  BY <1>1, <1>2, OneIntegration DEF Next, IInv

\* A step opens the planning session of at most one task.
LEMMA PlannedStep ==
  ASSUME Step
  PROVE  planned' = planned \/ \E t \in Tasks : planned' = planned \cup {t}
BY DEF Step, Tick, TickFrom, AgentCommand, CreateTaskOverBudget, PauseAgent, ResumeAgent,
  ArchiveAgent, InitAgent, SetPhase, Crash, LoseMemory, Restart, TaskCommand, CreateTask,
  ApproveTask, RejectTask, OpenTaskSession, SubmitTaskPlan, RetryTask, RunTaskNow,
  ResetToPending, CancelTask, ApproveTaskResult, RejectTaskResult, RunStep, TaskRunCompleted,
  TaskRunFailed, FinishCompletion, CompletionFails, UserRunStarts, UserRunEnds, ReviewStep,
  StartReview, ReviewEnds,
  ReviewChangesNothing, ReviewApproves, ReviewRejects, ReviewTimeout

\* The serial supervisor keeps the contract: one holder, which takes the
\* project behind an open gate, and integrations that are never withdrawn.
THEOREM SerialRefinesContract == Spec => ContractSpec
<1>1. Init => Contract!Init
  BY DEF Init, Contract!Init, Holder, Running, InStatus
<1>2. IInv /\ IInv' /\ [Next]_vars => [Contract!Next]_(Contract!vars)
  <2>1. CASE UNCHANGED vars
    BY <2>1 DEF vars, taskVars, Contract!vars, Holder, Running, InStatus
  <2>2. ASSUME IInv, IInv', Next
        PROVE  Contract!Next
    BY <2>2, HolderStep, IntegrationStep, PlannedStep DEF Next, Contract!Next
  <2>. QED
    BY <2>1, <2>2
<1>. QED
  BY <1>1, <1>2, Invariance, PTL DEF Spec, ContractSpec, Contract!Spec
=============================================================================
