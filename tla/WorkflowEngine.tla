--------------------------- MODULE WorkflowEngine --------------------------
(***************************************************************************)
(* The runs of one workflow: WorkflowEngine with WorkflowRunAggregate, and *)
(* the triggers of WorkflowService.  executeGraph is one asynchronous loop *)
(* per run; it is suspended only while a step executes, and whatever       *)
(* happens there (an approval, a timer, a cancel, a second run) meets it   *)
(* when it comes back.                                                     *)
(***************************************************************************)
EXTENDS WorkflowModel

CONSTANTS
  Runs,      \* ids of the runs, 1 .. n
  NoNode,
  Scenarios  \* what may happen in a behaviour, which keeps one of them: the
             \* definitions among which the workflow is edited, and crashes

Definitions == UNION {s.definitions : s \in Scenarios}

\* A definition: [entry, edges, kind, onError, retryCount, timed, maxIterations].
\* kind[n] is "action", "condition" or "approval"; timed[n] says that an
\* approval node has a timeoutMs of its own; at most one edge of each type
\* leaves a node.
ASSUME EngineAssumption ==
  /\ IsFiniteSet(Runs) /\ Runs = 1..Cardinality(Runs)
  /\ NoNode \notin Nodes /\ \A s \in Scenarios : s.mayCrash \in BOOLEAN
  /\ \A d \in Definitions :
       /\ d.entry \in Nodes /\ IsFiniteSet(d.edges) /\ d.retryCount \in [Nodes -> Nat]
       /\ \A e, f \in d.edges : e.source = f.source /\ e.type = f.type => e = f

VARIABLES
  workflow,   \* [status, def] of the workflow row
  nextRun,    \* next_run of its schedule: "never", "later" or "due"
  runStatus,  \* workflow_runs.status
  source,     \* workflow_runs.trigger_source
  steps,      \* workflow_step_runs.status, by run and node
  seen,       \* the status that the aggregate of executeGraph holds
  loop,       \* where executeGraph is: [phase, def, node, prev, attempt]
  visits,     \* visitCounts
  resolvers,  \* pendingApprovals: the attempt that is resolved, 0 without entry
  timers,     \* approval timers that are armed: <<run, node, attempt>>
  scenario    \* fixed

rows  == <<workflow, nextRun, runStatus, source, steps>>
local == <<seen, loop, visits, resolvers, timers>>
vars  == <<rows, local, scenario>>

Phases == {"none", "arriving", "executing"}
NoLoop(d) == [phase |-> "none", def |-> d, node |-> NoNode, prev |-> NoNode, attempt |-> 0]
Attempts(d, n) == IF d.onError[n] = "retry" THEN d.retryCount[n] + 1 ELSE 1
AllAttempts == UNION {1 .. Attempts(d, n) : d \in Definitions, n \in Nodes}

TypeOK ==
  /\ workflow \in [status : {"active", "disabled", "deleted"}, def : Definitions]
  /\ nextRun \in {"never", "later", "due"}
  /\ runStatus \in [Runs -> RunStatuses]
  /\ source \in [Runs -> {"manual", "schedule"}]
  /\ steps \in [Runs -> [Nodes -> StepStatuses]]
  /\ seen \in [Runs -> RunStatuses]
  /\ loop \in [Runs -> [phase : Phases, def : Definitions, node : Nodes \cup {NoNode},
                        prev : Nodes \cup {NoNode}, attempt : AllAttempts \cup {0}]]
  /\ visits \in [Runs -> [Nodes -> Nat]]
  /\ resolvers \in [Runs -> [Nodes -> AllAttempts \cup {0}]]
  /\ timers \subseteq Runs \X Nodes \X AllAttempts
  /\ scenario \in Scenarios

NoResolvers == [r \in Runs |-> [n \in Nodes |-> 0]]

Init ==
  /\ scenario \in Scenarios
  /\ workflow \in [status : {"active"}, def : scenario.definitions]
  /\ nextRun \in {"never", "later"}
  /\ runStatus = [r \in Runs |-> "absent"]
  /\ source = [r \in Runs |-> "manual"]
  /\ steps = [r \in Runs |-> [n \in Nodes |-> "pending"]]
  /\ seen = [r \in Runs |-> "absent"]
  /\ loop = [r \in Runs |-> NoLoop(workflow.def)]
  /\ visits = [r \in Runs |-> [n \in Nodes |-> 0]]
  /\ resolvers = NoResolvers /\ timers = {}

\* A loop that has arrived at a node goes on before any other callback runs.
Ready == \A r \in Runs : loop[r].phase # "arriving"

\* Mutant: the guard of the schedule asks the table and not activeRuns.
IsRunningInTable == \E r \in Runs : runStatus[r] = "running"

\* activeRuns: the runs whose executeGraph has not settled.
IsRunning == \E r \in Runs : loop[r].phase # "none"

-----------------------------------------------------------------------------
(* Triggers.                                                                *)

\* The ids are given in their order.
StartRun(r, src) ==
  /\ \A q \in Runs : q < r => runStatus[q] # "absent"
  /\ workflow.status = "active" /\ IsValid(workflow.def.edges)
  /\ runStatus[r] = "absent" /\ loop[r].phase = "none"
  /\ runStatus' = [runStatus EXCEPT ![r] = "running"]
  /\ seen' = [seen EXCEPT ![r] = "running"]
  /\ source' = [source EXCEPT ![r] = src]
  /\ loop' = [loop EXCEPT ![r] = [phase |-> "arriving", def |-> workflow.def,
                node |-> workflow.def.entry, prev |-> NoNode, attempt |-> 0]]
  /\ UNCHANGED <<steps, visits, resolvers, timers>>

\* A user or an event of the application triggers the workflow.
TriggerManually(r) ==
  /\ Ready
  /\ StartRun(r, "manual")
  /\ UNCHANGED <<workflow, nextRun>>

ScheduleComesDue ==
  /\ Ready /\ nextRun = "later"
  /\ nextRun' = "due"
  /\ UNCHANGED <<workflow, runStatus, source, steps, local>>

\* WorkflowService.tick: the schedule waits while a run is active.  A 'once'
\* trigger has no next run, an interval or a cron trigger has.
Tick(r) ==
  /\ Ready /\ nextRun = "due"
  /\ ~IsRunning
  /\ StartRun(r, "schedule")
  /\ nextRun' \in {"never", "later"}
  /\ UNCHANGED workflow

\* startRun refuses the graph; the schedule moves on all the same.
TickFails ==
  /\ Ready /\ nextRun = "due"
  /\ workflow.status = "active" /\ ~IsRunning /\ ~IsValid(workflow.def.edges)
  /\ nextRun' \in {"never", "later"}
  /\ UNCHANGED <<workflow, runStatus, source, steps, local>>

\* updateWorkflow; an update of an active workflow computes its schedule anew.
UpdateWorkflow ==
  /\ Ready /\ workflow.status # "deleted"
  /\ \E s \in {"active", "disabled"}, d \in scenario.definitions :
       /\ workflow' = [status |-> s, def |-> d]
       /\ nextRun' \in IF s = "active" THEN {"never", "later"} ELSE {"never"}
  /\ UNCHANGED <<runStatus, source, steps, local>>

\* deleteWorkflow: the rows of the runs and of their steps go with it.
DeleteWorkflow ==
  /\ Ready /\ workflow.status # "deleted"
  /\ workflow' = [workflow EXCEPT !.status = "deleted"]
  /\ nextRun' = "never"
  /\ runStatus' = [r \in Runs |-> "absent"]
  /\ steps' = [r \in Runs |-> [n \in Nodes |-> "pending"]]
  /\ UNCHANGED <<source, local>>

-----------------------------------------------------------------------------
(* The loop of executeGraph.                                                *)

Target(d, n, type) ==
  LET es == {e \in d.edges : e.source = n /\ e.type = type} IN
  IF es = {} THEN NoNode ELSE (CHOOSE e \in es : TRUE).target

\* getMaxVisitsForNode.
MaxVisits(d, n, prev) ==
  IF prev # NoNode /\ Target(d, prev, "loop") = n THEN d.maxIterations ELSE 1

\* Where findNextNodeId goes after node n with this result.
NextNode(d, n, result, condition) ==
  IF d.kind[n] = "condition"
  THEN Target(d, n, IF condition THEN "condition_true" ELSE "condition_false")
  ELSE IF result = "failed" /\ d.onError[n] = "route" THEN Target(d, n, "error")
  ELSE IF result = "completed" \/ d.onError[n] = "skip"
  THEN IF Target(d, n, "success") # NoNode THEN Target(d, n, "success") ELSE Target(d, n, "loop")
  ELSE NoNode

Settle(r) == loop' = [loop EXCEPT ![r] = NoLoop(loop[r].def)]

\* A write of the run's row by the aggregate, which checks the status it has
\* seen and not the one in the table rs; the row may be gone.
WriteRun(r, s, rs) ==
  /\ <<seen[r], s>> \in RUN_TRANSITIONS
  /\ runStatus' = [rs EXCEPT ![r] = IF @ = "absent" THEN @ ELSE s]
  /\ seen' = [seen EXCEPT ![r] = IF rs[r] = "absent" THEN @ ELSE s]

\* executeGraph rejects: the handler of startRun fails a run that is running.
Throw(r) ==
  /\ runStatus' = [runStatus EXCEPT ![r] = IF @ = "running" THEN "failed" ELSE @]
  /\ Settle(r)
  /\ UNCHANGED seen

\* An approval step enters its resolver and arms its timer; the old timer of
\* the step, if any, stays armed.
Await(r, n, a) ==
  /\ resolvers' = [resolvers EXCEPT ![r][n] = a]
  /\ timers' = timers \cup {<<r, n, a>>}

StartStep(r, n, a) ==
  IF loop[r].def.kind[n] = "approval"
  THEN steps' = [steps EXCEPT ![r][n] = "waiting"] /\ Await(r, n, a)
  ELSE steps' = [steps EXCEPT ![r][n] = "running"] /\ UNCHANGED <<resolvers, timers>>

\* Mutant: the loop does not ask whether the run was cancelled.
GoneOnlyIfDeleted(r) == runStatus[r] = "absent"

\* The row as read at the top of the loop ends it.
Gone(r) == runStatus[r] \in {"absent", "cancelled"}

\* One pass of the while loop until the step executes.
Arrive(r) ==
  LET n == loop[r].node
      prev == loop[r].prev
      max == MaxVisits(loop[r].def, n, prev)
      exhausted == Target(loop[r].def, prev, "loop_exhausted") IN
  /\ loop[r].phase = "arriving"
  /\ UNCHANGED <<workflow, nextRun, source>>
  /\ \/ /\ Gone(r)
        /\ Settle(r)
        /\ UNCHANGED <<runStatus, steps, seen, visits, resolvers, timers>>
     \/ /\ ~Gone(r)
        /\ visits[r][n] >= max
        /\ IF max > 1 /\ exhausted # NoNode
           THEN /\ loop' = [loop EXCEPT ![r].prev = n, ![r].node = exhausted]
                /\ UNCHANGED <<runStatus, seen>>
           ELSE WriteRun(r, "failed", runStatus) /\ Settle(r)
        /\ UNCHANGED <<steps, visits, resolvers, timers>>
     \/ /\ ~Gone(r)
        /\ visits[r][n] < max
        /\ visits' = [visits EXCEPT ![r][n] = @ + 1]
        /\ IF CanStep(steps[r][n], "running")
           THEN /\ StartStep(r, n, 1)
                /\ loop' = [loop EXCEPT ![r].phase = "executing", ![r].attempt = 1]
                /\ UNCHANGED <<runStatus, seen>>
           ELSE Throw(r) /\ UNCHANGED <<steps, resolvers, timers>>

\* Mutant: the nodes not visited stay pending.
FinishLeavesPending(r, st, rs) ==
  /\ steps' = [steps EXCEPT ![r] = st]
  /\ WriteRun(r, "completed", rs)
  /\ Settle(r)

\* After the last node: the nodes not visited are skipped, the run completes.
Finish(r, st, rs) ==
  /\ steps' = [steps EXCEPT ![r] = [n \in Nodes |->
                 IF visits[r][n] = 0 /\ CanStep(st[n], "skipped") THEN "skipped" ELSE st[n]]]
  /\ WriteRun(r, "completed", rs)
  /\ Settle(r)

\* Mutant: retryCount is taken for one more than it says.
RetriesOnceMore(d, n, a) == a < Attempts(d, n) + IF d.onError[n] = "retry" THEN 1 ELSE 0

Retries(d, n, a) == a < Attempts(d, n)

\* Mutant: a routed failure aborts the run as well.
AbortsUnlessSkipped(d, n) == d.onError[n] # "skip"

Aborts(d, n) == d.onError[n] = "abort"

\* Mutant: the row of a step is closed only where its failure ends the run.
StepClosedIfAborting(d, n, result) ==
  IF result = "completed" THEN "completed"
  ELSE IF d.onError[n] = "skip" THEN "skipped"
  ELSE IF d.onError[n] = "abort" THEN "failed" ELSE "running"

\* What the last attempt leaves in the row of the step.
StepClosed(d, n, result) ==
  IF result = "completed" THEN "completed"
  ELSE IF d.onError[n] = "skip" THEN "skipped" ELSE "failed"

\* The executor answers for the present attempt of the step: another attempt,
\* or the end of the step and what follows from it.  rs, res and tms are the
\* statuses, the resolvers and the timers that the calling handler leaves.
EndStep(r, result, rs, res, tms) ==
  LET d == loop[r].def
      n == loop[r].node
      a == loop[r].attempt
      again == result = "failed" /\ Retries(d, n, a)
      awaits == again /\ d.kind[n] = "approval"
      st == [steps[r] EXCEPT ![n] = StepClosed(d, n, result)] IN
  IF rs[r] = "absent"
  THEN /\ Settle(r)   \* the step has no row any more, the command on it throws
       /\ runStatus' = rs /\ resolvers' = res /\ timers' = tms
       /\ UNCHANGED <<steps, seen>>
  ELSE
  /\ resolvers' = IF awaits THEN [res EXCEPT ![r][n] = a + 1] ELSE res
  /\ timers' = IF awaits THEN tms \cup {<<r, n, a + 1>>} ELSE tms
  /\ \/ /\ again
        /\ loop' = [loop EXCEPT ![r].attempt = a + 1]
        /\ runStatus' = rs
        /\ UNCHANGED <<steps, seen>>
     \/ /\ ~again
        /\ result = "failed" /\ Aborts(d, n)
        /\ steps' = [steps EXCEPT ![r] = st]
        /\ WriteRun(r, "failed", rs)
        /\ Settle(r)
     \/ /\ ~again
        /\ result = "completed" \/ ~Aborts(d, n)
        /\ \E condition \in BOOLEAN :
             LET next == NextNode(d, n, result, condition) IN
             /\ condition => d.kind[n] = "condition" /\ result = "completed"
             /\ IF next = NoNode THEN Finish(r, st, rs)
                ELSE /\ steps' = [steps EXCEPT ![r] = st]
                     /\ loop' = [loop EXCEPT ![r] = [phase |-> "arriving", def |-> d,
                                   node |-> next, prev |-> n, attempt |-> 0]]
                     /\ runStatus' = rs
                     /\ UNCHANGED seen

\* A step other than an approval comes to its end: its executor answers or
\* throws, or the timeout of CompositeStepExecutor does.
StepEnds(r) ==
  /\ Ready /\ loop[r].phase = "executing"
  /\ loop[r].def.kind[loop[r].node] # "approval"
  /\ \E result \in {"completed", "failed"} : EndStep(r, result, runStatus, resolvers, timers)
  /\ UNCHANGED <<workflow, nextRun, source, visits>>

\* CompositeStepExecutor gives a step without a timeoutMs up after ten minutes,
\* long before the timer of the approval itself.
ApprovalStepTimesOut(r) ==
  /\ Ready /\ loop[r].phase = "executing"
  /\ LET d == loop[r].def IN d.kind[loop[r].node] = "approval" /\ ~d.timed[loop[r].node]
  /\ EndStep(r, "failed", runStatus, resolvers, timers)
  /\ UNCHANGED <<workflow, nextRun, source, visits>>

\* Only the attempt that executes listens to the promise of an approval.
Listens(r, n, a) ==
  loop[r].phase = "executing" /\ loop[r].node = n /\ loop[r].attempt = a

\* The promise of attempt a of step n settles.
Settled(r, n, a, result, rs, res, tms) ==
  IF Listens(r, n, a)
  THEN EndStep(r, result, rs, res, tms)
  ELSE /\ runStatus' = rs /\ resolvers' = res /\ timers' = tms
       /\ UNCHANGED <<steps, seen, loop>>

\* Mutant: an answer does not clear the timer.
AnswerKeepsTimer(r, n, result) ==
  /\ Ready /\ resolvers[r][n] # 0
  /\ Settled(r, n, resolvers[r][n], result, runStatus, [resolvers EXCEPT ![r][n] = 0], timers)
  /\ UNCHANGED <<workflow, nextRun, source, visits>>

\* approveStep and rejectStep.
Answer(r, n, result) ==
  LET a == resolvers[r][n] IN
  /\ Ready /\ a # 0
  /\ Settled(r, n, a, result, runStatus,
             [resolvers EXCEPT ![r][n] = 0], timers \ {<<r, n, a>>})
  /\ UNCHANGED <<workflow, nextRun, source, visits>>

\* Mutant: only the first attempt of an approval is timed.
ApprovalTimerOfFirstAttempt(r, n, a) ==
  /\ Ready /\ <<r, n, a>> \in timers /\ a = 1
  /\ Settled(r, n, a, "failed", runStatus,
             [resolvers EXCEPT ![r][n] = 0], timers \ {<<r, n, a>>})
  /\ UNCHANGED <<workflow, nextRun, source, visits>>

\* The timer deletes the entry of the step, whichever attempt entered it.
ApprovalTimer(r, n, a) ==
  /\ Ready /\ <<r, n, a>> \in timers
  /\ Settled(r, n, a, "failed", runStatus,
             [resolvers EXCEPT ![r][n] = 0], timers \ {<<r, n, a>>})
  /\ UNCHANGED <<workflow, nextRun, source, visits>>

-----------------------------------------------------------------------------
\* cancelRun: the row first, then every pending approval of the run is refused.
\* Other steps are not told.
CancelRun(r) ==
  LET cancelled == [runStatus EXCEPT ![r] = "cancelled"]
      refused == {n \in Nodes : resolvers[r][n] # 0}
      res == [resolvers EXCEPT ![r] = [n \in Nodes |-> 0]]
      tms == timers \ {<<r, n, resolvers[r][n]>> : n \in refused}
      heard == {n \in refused : Listens(r, n, resolvers[r][n])} IN
  /\ Ready /\ runStatus[r] = "running"
  /\ IF heard # {}
     THEN EndStep(r, "failed", cancelled, res, tms)
     ELSE /\ runStatus' = cancelled /\ resolvers' = res /\ timers' = tms
          /\ UNCHANGED <<steps, seen, loop>>
  /\ UNCHANGED <<workflow, nextRun, source, visits>>

\* Nothing of the engine's memory survives, and no code looks at the rows again.
Crash ==
  /\ scenario.mayCrash
  /\ loop' = [r \in Runs |-> NoLoop(loop[r].def)]
  /\ seen' = [r \in Runs |-> "absent"]
  /\ visits' = [r \in Runs |-> [n \in Nodes |-> 0]]
  /\ resolvers' = NoResolvers /\ timers' = {}
  /\ UNCHANGED rows

Goes(r) ==
  \/ Arrive(r) \/ StepEnds(r) \/ ApprovalStepTimesOut(r)
  \/ \E n \in Nodes : \E a \in AllAttempts : ApprovalTimer(r, n, a)

Steps ==
  \/ \E r \in Runs :
       \/ TriggerManually(r) \/ Tick(r) \/ CancelRun(r) \/ Goes(r)
       \/ \E n \in Nodes : \E result \in {"completed", "failed"} : Answer(r, n, result)
  \/ TickFails \/ ScheduleComesDue
  \/ UpdateWorkflow \/ DeleteWorkflow
  \/ Crash

Next == Steps /\ UNCHANGED scenario

Spec == Init /\ [][Next]_vars

\* Every executor ends within a timeout, and so does a pending approval.
Fairness == \A r \in Runs : WF_<<rows, local>>(Goes(r))
FairSpec == Spec /\ Fairness

-----------------------------------------------------------------------------
(* Properties.                                                              *)

\* The aggregate of run r lives in this process: no crash since it was started.
InMemory(r) == seen[r] # "absent"

\* A step that is running or waiting is the one at which the loop of its run
\* stands, unless the process was killed: no early return of executeGraph, no
\* cancel and no answer leaves a step open that nobody drives.
OpenStepIsDriven ==
  \A r \in Runs : \A n \in Nodes : InMemory(r) /\ steps[r][n] \in {"running", "waiting"} =>
    loop[r].phase = "executing" /\ loop[r].node = n

\* A step that waits for approval can be approved: the entry of pendingApprovals
\* is there, for the attempt that listens.  (A step without a timeoutMs that is
\* retried is the exception: the timer of an attempt given up takes the entry of
\* a later one.)
WaitingIsAnswerable ==
  \A r \in Runs : \A n \in Nodes :
    InMemory(r) /\ steps[r][n] = "waiting"
    /\ (loop[r].def.timed[n] \/ loop[r].def.onError[n] # "retry")
    => Listens(r, n, resolvers[r][n])

\* An open step can always come to its end.
OpenStepCanEnd == OpenStepIsDriven /\ WaitingIsAnswerable

\* A run whose definition has no loop fails only because a step failed that
\* aborts the run: not because of the order of the steps or the status machine.
FailsForAReason ==
  \A r \in Runs : LET d == loop[r].def IN
    runStatus[r] = "failed" /\ NonLoop(d.edges) = d.edges =>
      \E n \in Nodes : steps[r][n] = "failed" /\ d.onError[n] = "abort"

\* A completed run leaves no step open, also when it was cancelled or when other
\* runs went on in between.
CompletedRunIsClosed ==
  \A r \in Runs : runStatus[r] = "completed" =>
    \A n \in Nodes : steps[r][n] \in {"completed", "failed", "skipped"}

\* What a run ended with is what its steps say.
EndIsRight == FailsForAReason /\ CompletedRunIsClosed

\* The schedule never has two runs of the workflow going at the same time, also
\* when a run of it was cancelled and its step is still executing.
OneScheduledRun ==
  \A r, s \in Runs :
    /\ source[r] = "schedule" /\ loop[r].phase # "none"
    /\ source[s] = "schedule" /\ loop[s].phase # "none"
    => r = s

\* Runs of the workflow: their steps can end, their ends are what the steps say,
\* and the schedule starts one at a time.
RunsAreRight == OpenStepCanEnd /\ EndIsRight /\ OneScheduledRun

\* No step of a cancelled run is started.
NoStepAfterCancel ==
  [][\A r \in Runs : \A n \in Nodes :
       steps[r][n] = "pending" /\ steps'[r][n] \in {"running", "waiting"}
       => runStatus[r] = "running"]_vars

\* A cancelled run stays cancelled (or is deleted with its workflow).
CancelledStays ==
  [][\A r \in Runs : runStatus[r] = "cancelled" => runStatus'[r] \in {"cancelled", "absent"}]_vars

\* Every run comes to its end, whatever its steps answer and whatever the user
\* does with the workflow, unless the process is killed.
RunEnds == \A r \in Runs : runStatus[r] = "running" ~> runStatus[r] # "running" \/ ~InMemory(r)
=============================================================================
