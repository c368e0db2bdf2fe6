------------------------ MODULE ParallelSupervision ------------------------
(***************************************************************************)
(* The supervisor of one git project whose maxConcurrentTasks is above 1:  *)
(* the tick starts several tasks, each start waits for a worktree, and     *)
(* approved results are merged back under a lock.  The rules common with   *)
(* the serial mode (dependencies, phases, the count of attempts, planning, *)
(* limits) are modelled in SerialSupervision and left out here: a rejected *)
(* task goes back to the queue or fails.                                   *)
(***************************************************************************)
EXTENDS SupervisionModel, WorktreePool

CONSTANTS
  Tasks,     \* task ids
  Bounds     \* bounds of the model, not of the code: a behaviour keeps one of them

\* calls: calls of startTask for one task that are suspended together; runs: runs
\* of tasks that are live together; merges: merges that wait for the lock or hold
\* it; faults: the process may be killed, and git may fail while the pool is made.
Bound == [calls : Nat, runs : Nat, merges : Nat, faults : BOOLEAN]

ASSUME ParallelAssumption ==
  /\ IsFiniteSet(Tasks) /\ NoTask \notin Tasks
  /\ Bounds \subseteq Bound

VARIABLES
  status,      \* supervision_tasks.status
  workDir,     \* working_directory of the session of the task, NoDir before its first start
  waiting,     \* calls of startTask that wait for the pool
  resumed,     \* calls of startTask whose await is over: they run before anything else
  preparing,   \* calls of startTask whose git commands run: <<task, slot>>
  runs,        \* live runs of tasks: <<task, path>>
  completing,  \* calls of onTaskComplete suspended at an await
  merges,      \* queue of the merge lock, the head holds it
  up,          \* the server process runs
  bound,       \* the bounds of this behaviour, fixed
  \* history variable
  pulled       \* a worktree has been released while somebody was at work there

taskVars  == <<status, workDir>>
startVars == <<waiting, resumed, preparing>>
runVars   == <<runs, completing>>
vars == <<taskVars, poolVars, startVars, runVars, merges, up, pulled, bound>>

NoDir == -1
Merge == [task : Tasks, path : Paths, by : {"user", "review", "resolve"}]

TypeOK ==
  /\ status \in [Tasks -> Statuses]
  /\ workDir \in [Tasks -> Paths \cup {NoDir}]
  /\ slots \in Seq([path : Paths, task : Tasks \cup {NoTask}])
  /\ pool \in {"none", "initialising", "ready"}
  /\ waiting \in [Tasks -> Nat] /\ resumed \in [Tasks -> Nat]
  /\ preparing \subseteq Tasks \X DOMAIN slots
  /\ runs \subseteq Tasks \X Paths
  /\ completing \subseteq Tasks
  /\ merges \in Seq(Merge)
  /\ up \in BOOLEAN /\ bound \in Bounds
  /\ pulled \in BOOLEAN

Init ==
  /\ status = [t \in Tasks |-> "absent"]
  /\ workDir = [t \in Tasks |-> NoDir]
  /\ slots = <<>> /\ pool = "none"
  /\ waiting = [t \in Tasks |-> 0] /\ resumed = [t \in Tasks |-> 0]
  /\ preparing = {} /\ runs = {}
  /\ completing = {} /\ merges = <<>>
  /\ up = TRUE /\ bound \in Bounds
  /\ pulled = FALSE

InStatus(st, s) == {t \in Tasks : st[t] = s}
SetStatus(t, s) == status' = [status EXCEPT ![t] = s]

\* The handlers run when no resumed start is left: these are microtasks.
Ready == up /\ \A t \in Tasks : resumed[t] = 0

\* Somebody works in a worktree: a run, a completion, a start that prepares it.
AtWork(path) ==
  \/ \E t \in Tasks : <<t, path>> \in runs
  \/ \E t \in completing : workDir[t] = path
  \/ \E c \in preparing : slots[c[2]].path = path

-----------------------------------------------------------------------------
(* The scheduler, on the table st that the calling handler leaves.          *)

\* Calls of startTask for t that have not come to their end.
Calls(t) == waiting[t] + resumed[t] + Cardinality({c \in preparing : c[1] = t})

Promoted(st) == [t \in Tasks |-> IF st[t] = "pending" THEN "queued" ELSE st[t]]

\* Only running tasks count against the limit, starts in progress do not.  The
\* first ones are taken in an order of priorities, which users change at will.
Available(st) == MaxConcurrent - Cardinality(InStatus(st, "running"))

ToStart(st) ==
  LET queued == InStatus(st, "queued") IN
  {S \in SUBSET queued :
     /\ Cardinality(S) <= Available(st) \/ S = {}
     /\ S = queued \/ Cardinality(S) >= Available(st)}

TickFrom(st) ==
  \E chosen \in ToStart(Promoted(st)) :
    LET Add(calls) == [t \in Tasks |-> calls[t] + (IF t \in chosen THEN 1 ELSE 0)] IN
    /\ \A t \in chosen : Calls(t) < bound.calls
    /\ status' = Promoted(st)
    /\ IF pool = "ready"
       THEN resumed' = Add(resumed) /\ UNCHANGED <<waiting, pool>>
       ELSE /\ waiting' = Add(waiting)
            /\ pool' = IF chosen = {} THEN pool ELSE "initialising"
            /\ UNCHANGED resumed

Tick ==
  /\ Ready
  /\ TickFrom(status)
  /\ UNCHANGED <<workDir, slots, preparing, runVars, merges, up, pulled>>

-----------------------------------------------------------------------------
(* startTask.                                                               *)

\* markTaskStartFailed, on the present status of t.
Failed(t) == IF CanTransition(status[t], "failed") THEN [status EXCEPT ![t] = "failed"] ELSE status

PoolIsMade ==
  /\ Ready /\ pool = "initialising"
  /\ InitEnds
  /\ resumed' = waiting
  /\ waiting' = [t \in Tasks |-> 0]
  /\ UNCHANGED <<taskVars, preparing, runVars, merges, up, pulled>>

PoolFails ==
  /\ Ready /\ pool = "initialising"
  /\ bound.faults
  /\ InitBreaksOff
  /\ status' = [t \in Tasks |-> IF waiting[t] > 0 THEN Failed(t)[t] ELSE status[t]]
  /\ waiting' = [t \in Tasks |-> 0]
  /\ UNCHANGED <<workDir, resumed, preparing, runVars, merges, up, pulled>>

\* acquire up to its first await.
TakeSlot(t) ==
  /\ up /\ resumed[t] > 0
  /\ resumed' = [resumed EXCEPT ![t] = @ - 1]
  /\ \/ \E i \in DOMAIN slots :
          /\ FirstFree(i)
          /\ Acquire(t, i)
          /\ preparing' = preparing \cup {<<t, i>>}
          /\ UNCHANGED status
     \/ /\ NoneFree
        /\ status' = Failed(t)
        /\ UNCHANGED <<slots, preparing>>
  /\ UNCHANGED <<workDir, pool, waiting, runVars, merges, up, pulled>>

\* A git command of acquire fails; the slot stays in use.
PreparationFails(t, i) ==
  /\ Ready /\ <<t, i>> \in preparing
  /\ preparing' = preparing \ {<<t, i>>}
  /\ status' = Failed(t)
  /\ UNCHANGED <<workDir, poolVars, waiting, resumed, runVars, merges, up, pulled>>

\* The rest of startTask.  The status machine is asked about the status 'queued'
\* that the tick saw.  The session is new, or the one that an earlier start made:
\* when that one has a live run, the new run is refused and nobody notices.
StartTask(t, i) ==
  /\ Ready /\ <<t, i>> \in preparing
  /\ preparing' = preparing \ {<<t, i>>}
  /\ SetStatus(t, "running")
  /\ workDir' = [workDir EXCEPT ![t] = slots[i].path]
  /\ Cardinality(runs) < bound.runs  \* bound
  /\ \/ runs' = runs \cup {<<t, slots[i].path>>}
     \/ (\E path \in Paths : <<t, path>> \in runs) /\ UNCHANGED runs
  /\ UNCHANGED <<poolVars, waiting, resumed, completing, merges, up, pulled>>

\* A release in the course of a handler; pulled keeps in mind whether it takes
\* the worktree from somebody.
ReleaseOf(dir) ==
  \E path \in {dir} :  \* the path, also in the next state
    /\ Release(path)
    /\ pulled' = (pulled \/ AtWork(path)')

\* An exception before the task is marked running: the worktree is released,
\* unless the status machine throws again.
StartFailsEarly(t, i) ==
  /\ Ready /\ <<t, i>> \in preparing
  /\ preparing' = preparing \ {<<t, i>>}
  /\ status' = Failed(t)
  /\ UNCHANGED <<workDir, pool, waiting, resumed, runVars, merges, up>>
  /\ IF CanTransition(status[t], "failed")
     THEN ReleaseOf(slots[i].path)
     ELSE UNCHANGED <<slots, pulled>>

\* Mutant: the failure is noted only if it comes before the task is marked running.
StartFailsUnnoticed(t, i) ==
  /\ Ready /\ <<t, i>> \in preparing
  /\ preparing' = preparing \ {<<t, i>>}
  /\ SetStatus(t, "running")
  /\ workDir' = [workDir EXCEPT ![t] = slots[i].path]
  /\ UNCHANGED <<pool, waiting, resumed, runVars, merges, up>>
  /\ ReleaseOf(slots[i].path)

\* An exception after it, before the run.
StartFailsLate(t, i) ==
  /\ Ready /\ <<t, i>> \in preparing
  /\ preparing' = preparing \ {<<t, i>>}
  /\ SetStatus(t, "failed")
  /\ workDir' = [workDir EXCEPT ![t] = slots[i].path]
  /\ UNCHANGED <<pool, waiting, resumed, runVars, merges, up>>
  /\ ReleaseOf(slots[i].path)

-----------------------------------------------------------------------------
(* Commands on tasks.                                                       *)

CreateTask(t) ==
  /\ Ready
  /\ status[t] = "absent"
  /\ SetStatus(t, "pending")
  /\ UNCHANGED <<workDir, poolVars, startVars, runVars, merges, up, pulled>>

\* Neither the run of the task nor its worktree is given up.
CancelTask(t) ==
  /\ Ready
  /\ CanTransition(status[t], "cancelled") /\ status[t] # "cancelled"
  /\ SetStatus(t, "cancelled")
  /\ UNCHANGED <<workDir, poolVars, startVars, runVars, merges, up, pulled>>

RetryTask(t) ==
  /\ Ready
  /\ status[t] \in {"failed", "cancelled", "completed", "blocked"}
  /\ SetStatus(t, "pending")
  /\ UNCHANGED <<workDir, poolVars, startVars, runVars, merges, up, pulled>>

\* approveTaskResult and resolveConflict up to the merge: the status is looked at
\* after it.
AskForMerge(t, by) ==
  /\ Ready
  /\ workDir[t] # NoDir
  /\ Len(merges) < bound.merges
  /\ merges' = Append(merges, [task |-> t, path |-> workDir[t], by |-> by])
  /\ UNCHANGED <<taskVars, poolVars, startVars, runVars, up, pulled>>

\* Mutant: the result is rejected without asking for the status.
RejectTaskResultWhenever(t) ==
  /\ Ready
  /\ workDir[t] # NoDir
  /\ \E s \in {"queued", "failed"} : SetStatus(t, s)
  /\ UNCHANGED <<workDir, pool, startVars, runVars, merges, up>>
  /\ ReleaseOf(workDir[t])

\* The worktree is released before the status is looked at.
RejectTaskResult(t) ==
  /\ Ready
  /\ workDir[t] # NoDir
  /\ IF status[t] = "reviewing"
     THEN \E s \in {"queued", "failed"} : SetStatus(t, s)
     ELSE UNCHANGED status
  /\ UNCHANGED <<workDir, pool, startVars, runVars, merges, up>>
  /\ ReleaseOf(workDir[t])

-----------------------------------------------------------------------------
(* Runs and completions.                                                    *)

RunCompletes(t, path) ==
  /\ Ready /\ <<t, path>> \in runs
  /\ runs' = runs \ {<<t, path>>}
  /\ t \notin completing  \* bound: one completion of a task at a time
  /\ completing' = IF status[t] = "running" THEN completing \cup {t} ELSE completing
  /\ UNCHANGED <<taskVars, poolVars, startVars, merges, up, pulled>>

\* The worktree of the task's session is released, whichever run it was.
RunFails(t, path) ==
  /\ Ready /\ <<t, path>> \in runs
  /\ runs' = runs \ {<<t, path>>}
  /\ status' = Failed(t)
  /\ UNCHANGED <<workDir, pool, startVars, completing, merges, up>>
  /\ IF CanTransition(status[t], "failed")
     THEN ReleaseOf(workDir[t])
     ELSE UNCHANGED <<slots, pulled>>

FinishCompletion(t) ==
  /\ Ready /\ t \in completing
  /\ completing' = completing \ {t}
  /\ SetStatus(t, "reviewing")
  /\ UNCHANGED <<workDir, poolVars, startVars, runs, merges, up, pulled>>

CompletionFails(t) ==
  /\ Ready /\ t \in completing
  /\ completing' = completing \ {t}
  /\ IF CanTransition(status[t], "reviewing") THEN SetStatus(t, "reviewing") ELSE UNCHANGED status
  /\ UNCHANGED <<workDir, poolVars, startVars, runs, merges, up, pulled>>

-----------------------------------------------------------------------------
(* Reviews and merges.                                                      *)

\* The verdict of a review, of this attempt or of an earlier one, is applied while
\* the task is in review.  Reviews themselves are modelled in SerialSupervision.
ReviewApproves(t) ==
  /\ Ready
  /\ status[t] = "reviewing"
  /\ Len(merges) < bound.merges
  /\ merges' = Append(merges, [task |-> t, path |-> workDir[t], by |-> "review"])
  /\ UNCHANGED <<taskVars, poolVars, startVars, runVars, up, pulled>>

ReviewRejects(t) ==
  /\ Ready
  /\ status[t] = "reviewing"
  /\ \E s \in {"queued", "failed"} : SetStatus(t, s)
  /\ UNCHANGED <<workDir, pool, startVars, runVars, merges, up>>
  /\ ReleaseOf(workDir[t])

\* The merge lock goes to the next one in the queue.
MergeEnds == Ready /\ merges # <<>> /\ merges' = Tail(merges)

\* git fails beyond the merge itself: the exception passes through.
MergeThrows ==
  /\ MergeEnds
  /\ UNCHANGED <<taskVars, poolVars, startVars, runVars, up, pulled>>

\* After an approval by the review: the status is written as if nothing could
\* have happened since.
ReviewedMergeSucceeds ==
  /\ MergeEnds
  /\ Head(merges).by = "review"
  /\ SetStatus(Head(merges).task, "integrated")
  /\ UNCHANGED <<workDir, pool, startVars, runVars, up>>
  /\ ReleaseOf(Head(merges).path)

ReviewedMergeConflicts ==
  /\ MergeEnds
  /\ Head(merges).by = "review"
  /\ SetStatus(Head(merges).task, "merge_conflict")
  /\ UNCHANGED <<workDir, poolVars, startVars, runVars, up, pulled>>

\* The rest of a command, which sets t to s and ends in a tick, if the status
\* machine allows the change of the present status.
SetAndTick(t, s) ==
  IF CanTransition(status[t], s)
  THEN TickFrom([status EXCEPT ![t] = s])
  ELSE UNCHANGED <<status, pool, waiting, resumed>>

\* After approveTaskResult: the worktree is released before the status machine is asked.
ApprovedMergeSucceeds ==
  /\ MergeEnds
  /\ Head(merges).by = "user"
  /\ SetAndTick(Head(merges).task, "integrated")
  /\ UNCHANGED <<workDir, preparing, runVars, up>>
  /\ ReleaseOf(Head(merges).path)

ApprovedMergeConflicts ==
  /\ MergeEnds
  /\ Head(merges).by = "user"
  /\ SetAndTick(Head(merges).task, "merge_conflict")
  /\ UNCHANGED <<workDir, slots, preparing, runVars, up, pulled>>

\* resolveConflict asks for the status before it releases the worktree.
ResolvedMergeSucceeds ==
  /\ MergeEnds
  /\ Head(merges).by = "resolve"
  /\ status[Head(merges).task] = "merge_conflict"
  /\ TickFrom([status EXCEPT ![Head(merges).task] = "integrated"])
  /\ UNCHANGED <<workDir, preparing, runVars, up>>
  /\ ReleaseOf(Head(merges).path)

-----------------------------------------------------------------------------
(* The process.                                                             *)

Crash ==
  /\ up /\ bound.faults
  /\ up' = FALSE
  /\ Forget
  /\ waiting' = [t \in Tasks |-> 0] /\ resumed' = [t \in Tasks |-> 0]
  /\ preparing' = {} /\ runs' = {}
  /\ completing' = {} /\ merges' = <<>>
  /\ pulled' = FALSE
  /\ UNCHANGED taskVars

\* recoverStuckTasks; releaseOrphanedWorktrees finds no pool yet.
Restart ==
  /\ ~up
  /\ up' = TRUE
  /\ \E S \in SUBSET InStatus(status, "running") :
       status' = [t \in Tasks |->
         IF status[t] # "running" THEN status[t] ELSE IF t \in S THEN "pending" ELSE "failed"]
  /\ UNCHANGED <<workDir, poolVars, startVars, runVars, merges, pulled>>

-----------------------------------------------------------------------------
StartStep(t) ==
  \/ TakeSlot(t)
  \/ \E i \in DOMAIN slots : \/ PreparationFails(t, i) \/ StartTask(t, i)
                             \/ StartFailsEarly(t, i) \/ StartFailsLate(t, i)

TaskCommand(t) ==
  \/ CreateTask(t) \/ CancelTask(t) \/ RetryTask(t)
  \/ AskForMerge(t, "user") \/ AskForMerge(t, "resolve") \/ RejectTaskResult(t)

RunStep(t) ==
  \/ \E path \in Paths : RunCompletes(t, path) \/ RunFails(t, path)
  \/ FinishCompletion(t) \/ CompletionFails(t)

ReviewStep(t) == ReviewApproves(t) \/ ReviewRejects(t)

MergeStep ==
  \/ MergeThrows \/ ReviewedMergeSucceeds \/ ReviewedMergeConflicts
  \/ ApprovedMergeSucceeds \/ ApprovedMergeConflicts \/ ResolvedMergeSucceeds

Steps ==
  \/ Tick \/ PoolIsMade \/ PoolFails \/ MergeStep \/ Crash \/ Restart
  \/ \E t \in Tasks : StartStep(t) \/ TaskCommand(t) \/ RunStep(t) \/ ReviewStep(t)

Next == Steps /\ UNCHANGED bound

Spec == Init /\ [][Next]_vars
-----------------------------------------------------------------------------
(* Properties.                                                              *)

\* A running task will be told of an end.  Starts of one task that overlap,
\* refused runs, and ends of earlier runs that are taken for the present one
\* do not leave it running with nothing behind it.
RunningIsDriven ==
  \A t \in Tasks : up /\ status[t] = "running" =>
    (\E path \in Paths : <<t, path>> \in runs) \/ t \in completing

\* A run has the slot of its worktree to itself, unless a worktree was released
\* under somebody's hands or the pool has it twice after a failed initialisation:
\* starts that overlap, failed starts, late ends and merges take no slot away.
RunHoldsItsSlot ==
  \A t \in Tasks, path \in Paths :
    <<t, path>> \in runs /\ ~pulled /\ ~Doubled(path) =>
      \E i \in DOMAIN slots : slots[i] = [path |-> path, task |-> t]

\* Every change of a status is one of the table TASK_TRANSITIONS, but for three
\* late writes: a start that goes on (or fails after it wrote 'running') although
\* the task was cancelled or started again while its worktree was prepared, a
\* completion that was cancelled during its awaits, and the outcome of a merge
\* that a review asked for.
StatusMachineOrStaleWrite ==
  [][\A t \in Tasks :
       \/ status[t] = "absent"
       \/ CanTransition(status[t], status'[t])
       \/ /\ status'[t] \in {"running", "failed"}
          /\ \E call \in preparing \ preparing' : call[1] = t
       \/ status'[t] = "reviewing" /\ t \in completing \ completing'
       \/ /\ status'[t] \in {"integrated", "merge_conflict"}
          /\ merges # <<>> /\ merges' = Tail(merges)
          /\ Head(merges).task = t /\ Head(merges).by = "review"]_status
=============================================================================
