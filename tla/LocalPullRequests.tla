-------------------------- MODULE LocalPullRequests ------------------------
(***************************************************************************)
(* LocalPRService for the pull requests of one worktree: the commands of   *)
(* its routes, the jobs they start (reviews, merges behind the merge lock, *)
(* sessions that resolve conflicts, refreshes of a row) and the scheduler. *)
(* What a job does between two awaits is one action.                       *)
(***************************************************************************)
EXTENDS Integers, Sequences, FiniteSets

CONSTANTS
  PRs,   \* the pull requests of the worktree, those of the past included
  Jobs,  \* asynchronous work that can be under way
  NoPR

ASSUME LocalPRAssumption ==
  /\ IsFiniteSet(PRs) /\ IsFiniteSet(Jobs)
  /\ NoPR \notin PRs

VARIABLES
  status,           \* status of the row; "absent" before the row exists
  executionState,
  pendingAction,
  unseen,           \* PRs whose row lacks the newest commits of the worktree
  inMain,           \* PRs whose changes are in the base branch
  reverted,         \* PRs whose merge has been reverted there
  job,              \* what a job does
  mergeLock,        \* the jobs that hold (the first) and wait for the merge lock
  activeReviewIds,
  activeConflictIds,
  batch,            \* queued PRs a tick has read and not served yet
  hung,             \* the job that holds the lock is in a command that does not return
  lost              \* busy PRs nobody works on: after a restart, or a start that threw

row == <<status, executionState, pendingAction>>
repo == <<unseen, inMain, reverted>>
memory == <<job, mergeLock, activeReviewIds, activeConflictIds, batch>>
vars == <<row, repo, memory, hung, lost>>

LocalPRStatus ==
  {"open", "reviewing", "review_failed", "approved", "merging", "conflict", "merged", "closed"}

ExecutionState == {"idle", "queued", "running", "failed"}

PendingAction == {"none", "review", "merge", "resolve_conflict"}

\* at - "prompt": the prompt is written; "live": the session runs; "closing": the
\* worktree is cleaned up; "waiting" for the lock; "checking" that the main
\* worktree is clean; "working": git commands; "reverted": git revert is done;
\* "refreshing" and "keeping": refresh of the row that does or does not reset a
\* verdict.
\* seen - the status a refresh has read.
Idle == [op |-> "none", pr |-> NoPR, at |-> "none", seen |-> "none"]

Ops == {"none", "review", "conflict", "merge", "cancel", "revert", "refresh"}

Places == {"none", "prompt", "live", "closing", "waiting", "checking", "working",
           "reverted", "refreshing", "keeping"}

TypeOK ==
  /\ status \in [PRs -> LocalPRStatus \cup {"absent"}]
  /\ executionState \in [PRs -> ExecutionState]
  /\ pendingAction \in [PRs -> PendingAction]
  /\ unseen \subseteq PRs /\ inMain \subseteq PRs /\ reverted \subseteq PRs
  /\ job \in [Jobs -> [op : Ops, pr : PRs \cup {NoPR}, at : Places,
                       seen : LocalPRStatus \cup {"none"}]]
  /\ mergeLock \in Seq(Jobs) /\ Len(mergeLock) <= Cardinality(Jobs)
  /\ activeReviewIds \subseteq PRs /\ activeConflictIds \subseteq PRs
  /\ batch \subseteq PRs \X PendingAction
  /\ hung \in BOOLEAN /\ lost \subseteq PRs

Init ==
  /\ status = [p \in PRs |-> "absent"]
  /\ executionState = [p \in PRs |-> "idle"]
  /\ pendingAction = [p \in PRs |-> "none"]
  /\ unseen = {} /\ inMain = {} /\ reverted = {}
  /\ job = [j \in Jobs |-> Idle]
  /\ mergeLock = <<>>
  /\ activeReviewIds = {} /\ activeConflictIds = {}
  /\ batch = {} /\ hung = FALSE /\ lost = {}

-----------------------------------------------------------------------------
(* Parts of the methods.                                                    *)

Exists(p) == status[p] # "absent"

\* findActiveByWorktree
IsActive(p) == status[p] \notin {"absent", "merged", "closed", "review_failed"}

BusyStatuses == {"reviewing", "merging", "conflict"}

SetRow(p, s, e, a) ==
  /\ status' = [status EXCEPT ![p] = s]
  /\ executionState' = [executionState EXCEPT ![p] = e]
  /\ pendingAction' = [pendingAction EXCEPT ![p] = a]

SetStatus(p, s) == SetRow(p, s, executionState[p], pendingAction[p])

Begin(j, op, p, at) == job' = [job EXCEPT ![j] = [op |-> op, pr |-> p, at |-> at, seen |-> "none"]]

Continue(j, at) == job' = [job EXCEPT ![j].at = at]

End(j) == job' = [job EXCEPT ![j] = Idle]

\* refreshAfterBusyState reads the row before its first await.
Refresh(j, at, seen) == job' = [job EXCEPT ![j].at = at, ![j].seen = seen]

HoldsLock(j) == mergeLock # <<>> /\ Head(mergeLock) = j

Release(j) == mergeLock' = IF HoldsLock(j) THEN Tail(mergeLock) ELSE mergeLock

IsFree(j) == job[j] = Idle

-----------------------------------------------------------------------------
(* Creation and refresh.                                                    *)

\* The check is made again in the transaction that inserts the row.
CreatePR(p) ==
  /\ ~Exists(p) /\ \A q \in PRs : ~IsActive(q)
  /\ SetRow(p, "open", "idle", "none")
  /\ UNCHANGED <<repo, memory, lost>>

NewCommits ==
  /\ unseen' = {p \in PRs : Exists(p)}
  /\ UNCHANGED <<row, inMain, reverted, memory, lost>>

\* A run in the worktree completes (maybeAutoCreatePR): the row is read, then the
\* diff is awaited.
AutoRefresh(j, p) ==
  /\ IsFree(j) /\ IsActive(p) /\ p \in unseen
  /\ status[p] \notin BusyStatuses
  /\ job' = [job EXCEPT ![j] = [op |-> "refresh", pr |-> p, at |-> "refreshing", seen |-> status[p]]]
  /\ UNCHANGED <<row, repo, mergeLock, activeReviewIds, activeConflictIds, batch, lost>>

\* New commits take a verdict back.
Refreshed(seen, at) ==
  IF at = "refreshing" /\ seen \in {"approved", "review_failed"} THEN "open" ELSE seen

\* Mutant: a refresh takes the merge lock, also when it is called under it.
RefreshEndsUnderLock(j) ==
  LET p == job[j].pr
      seen == job[j].seen IN
  /\ job[j].at \in {"refreshing", "keeping"}
  /\ mergeLock = <<>>
  /\ IF seen \notin BusyStatuses /\ p \in unseen
     THEN /\ SetStatus(p, Refreshed(seen, job[j].at))
          /\ unseen' = unseen \ {p}
     ELSE UNCHANGED <<row, unseen>>
  /\ End(j) /\ Release(j)
  /\ UNCHANGED <<inMain, reverted, activeReviewIds, activeConflictIds, batch, lost>>

\* maybeRefreshPR writes the status it has read.
RefreshEnds(j) ==
  LET p == job[j].pr
      seen == job[j].seen IN
  /\ job[j].at \in {"refreshing", "keeping"}
  /\ IF seen \notin BusyStatuses /\ p \in unseen
     THEN /\ SetStatus(p, Refreshed(seen, job[j].at))
          /\ unseen' = unseen \ {p}
     ELSE UNCHANGED <<row, unseen>>
  /\ End(j) /\ Release(j)
  /\ UNCHANGED <<inMain, reverted, activeReviewIds, activeConflictIds, batch, lost>>

-----------------------------------------------------------------------------
(* Reviews.                                                                 *)

\* startReview up to its await, for a row with status s.
StartReview(j, p, s, slot) ==
  IF ~slot \/ p \in activeReviewIds
  THEN /\ SetRow(p, s, IF slot THEN "running" ELSE "queued", "review")
       /\ UNCHANGED job
  ELSE /\ SetRow(p, "reviewing", "running", "review")
       /\ Begin(j, "review", p, "prompt")

\* The route of the review button.
AskForReview(j, p, slot) ==
  /\ IsFree(j) /\ status[p] \in {"open", "review_failed"}
  /\ StartReview(j, p, "open", slot)
  /\ UNCHANGED <<repo, mergeLock, activeReviewIds, activeConflictIds, batch, lost>>

ReviewStarts(j) ==
  /\ job[j].op = "review" /\ job[j].at = "prompt"
  /\ activeReviewIds' = activeReviewIds \cup {job[j].pr}
  /\ Continue(j, "live")
  /\ UNCHANGED <<row, repo, mergeLock, activeConflictIds, batch, lost>>

\* startAISession throws: the id stays in activeReviewIds.
ReviewStartFails(j) ==
  /\ job[j].op = "review" /\ job[j].at = "prompt"
  /\ activeReviewIds' = activeReviewIds \cup {job[j].pr}
  /\ lost' = lost \cup {p \in {job[j].pr} : status[p] = "reviewing"}
  /\ End(j)
  /\ UNCHANGED <<row, repo, mergeLock, activeConflictIds, batch>>

\* The run of the session completes or fails.
ReviewSessionEnds(j) ==
  /\ job[j].op = "review" /\ job[j].at = "live"
  /\ activeReviewIds' = activeReviewIds \ {job[j].pr}
  /\ IF status[job[j].pr] = "reviewing" THEN Continue(j, "closing") ELSE End(j)
  /\ UNCHANGED <<row, repo, mergeLock, activeConflictIds, batch, lost>>

\* onReviewSessionComplete after its awaits: it does not look at the row again.
ReviewVerdict(j, verdict) ==
  LET p == job[j].pr IN
  /\ job[j].op = "review" /\ job[j].at = "closing"
  /\ SetRow(p, verdict, "idle", "none")
  /\ Refresh(j, "keeping", verdict)
  /\ UNCHANGED <<repo, mergeLock, activeReviewIds, activeConflictIds, batch, lost>>

-----------------------------------------------------------------------------
(* Merges, behind the lock.  async-mutex serves its callers in order.       *)

CallsLock(j, op, p) ==
  /\ Begin(j, op, p, "waiting")
  /\ mergeLock' = Append(mergeLock, j)

\* The status is checked under the lock only.
MergePR(j, p) ==
  /\ IsFree(j) /\ Exists(p)
  /\ CallsLock(j, "merge", p)
  /\ UNCHANGED <<row, repo, activeReviewIds, activeConflictIds, batch, lost>>

CancelMerge(j, p) ==
  /\ IsFree(j) /\ status[p] = "merging"
  /\ CallsLock(j, "cancel", p)
  /\ UNCHANGED <<row, repo, activeReviewIds, activeConflictIds, batch, lost>>

RevertMergedPR(j, p) ==
  /\ IsFree(j) /\ status[p] = "merged"
  /\ CallsLock(j, "revert", p)
  /\ UNCHANGED <<row, repo, activeReviewIds, activeConflictIds, batch, lost>>

Mergeable(p) == status[p] \in {"open", "approved", "conflict"}

Enters(j, op) == HoldsLock(j) /\ job[j].op = op /\ job[j].at = "waiting"

MergeQueued(p) ==
  SetRow(p, IF status[p] = "open" THEN "approved" ELSE status[p], "queued", "merge")

MergeEnters(j, slot) ==
  LET p == job[j].pr IN
  /\ Enters(j, "merge")
  /\ IF ~Mergeable(p) \/ ~slot
     THEN /\ IF Mergeable(p) THEN MergeQueued(p) ELSE UNCHANGED row
          /\ End(j) /\ Release(j)
     ELSE /\ SetRow(p, "approved", "running", "merge")
          /\ Continue(j, "checking")
          /\ UNCHANGED mergeLock
  /\ UNCHANGED <<repo, activeReviewIds, activeConflictIds, batch, lost>>

\* The check throws: the row stays 'approved' and 'running'.
MergeCheckThrows(j) ==
  /\ job[j].op = "merge" /\ job[j].at = "checking"
  /\ End(j) /\ Release(j)
  /\ UNCHANGED <<row, repo, activeReviewIds, activeConflictIds, batch, lost>>

MergeChecks(j) ==
  LET p == job[j].pr IN
  /\ job[j].op = "merge" /\ job[j].at = "checking"
  /\ \/ /\ SetStatus(p, "merging")
        /\ Continue(j, "working") /\ UNCHANGED mergeLock
     \/ /\ SetRow(p, "approved", "idle", "none")  \* the main worktree is dirty
        /\ End(j) /\ Release(j)
  /\ UNCHANGED <<repo, activeReviewIds, activeConflictIds, batch, lost>>

MergeWorks(j) == job[j].op = "merge" /\ job[j].at = "working"

\* What a merge of p brings into the base branch: the changes of p, but after a
\* revert git takes the branch for merged, and only commits made since count.
Merged(p) == {inMain \cup {p}} \cup (IF p \in reverted THEN {inMain} ELSE {})

MergeSucceeds(j) ==
  LET p == job[j].pr IN
  /\ MergeWorks(j)
  /\ SetRow(p, "merged", "idle", "none")
  /\ inMain' \in Merged(p)
  /\ End(j) /\ Release(j)
  /\ UNCHANGED <<unseen, reverted, activeReviewIds, activeConflictIds, batch, lost>>

\* Mutant: the merge is given up without leaving the lock.
MergeConflictsLocked(j) ==
  LET p == job[j].pr IN
  /\ MergeWorks(j)
  /\ SetRow(p, "conflict", "idle", "none")
  /\ End(j)
  /\ UNCHANGED <<repo, mergeLock, activeReviewIds, activeConflictIds, batch, lost>>

\* A conflict: the merge is aborted and a session starts that resolves it, unless
\* one is at work.
MergeConflicts(j) ==
  LET p == job[j].pr IN
  /\ MergeWorks(j)
  /\ IF p \in activeConflictIds
     THEN /\ SetRow(p, "conflict", "idle", "none")
          /\ End(j) /\ UNCHANGED activeConflictIds
     ELSE /\ SetRow(p, "conflict", "running", "resolve_conflict")
          /\ Begin(j, "conflict", p, "live")
          /\ activeConflictIds' = activeConflictIds \cup {p}
  /\ Release(j)
  /\ UNCHANGED <<repo, activeReviewIds, batch, lost>>

\* Mutant: the row is left as it is when a git command throws.
MergeThrowsAsIs(j) ==
  LET p == job[j].pr IN
  /\ MergeWorks(j)
  /\ UNCHANGED row
  /\ Refresh(j, "refreshing", status[p])
  /\ UNCHANGED <<repo, mergeLock, activeReviewIds, activeConflictIds, batch, lost>>

\* A git command, also one after the merge, or the start of the session throws; the
\* row is refreshed under the lock.
MergeThrows(j) ==
  LET p == job[j].pr IN
  /\ MergeWorks(j)
  /\ \E a \in IF p \in activeConflictIds THEN {"merge"} ELSE {"merge", "resolve_conflict"} :
       SetRow(p, "approved", "failed", a)
  /\ Refresh(j, "refreshing", "approved")
  /\ inMain' \in {inMain} \cup Merged(p)
  /\ UNCHANGED <<unseen, reverted, mergeLock, activeReviewIds, activeConflictIds, batch, lost>>

\* cancelMerge does not look at the status again: whatever the merge it waited for
\* has led to, the row becomes 'approved'.
CancelEnds(j) ==
  /\ Enters(j, "cancel")
  /\ SetStatus(job[j].pr, "approved")
  /\ Refresh(j, "refreshing", "approved")
  /\ UNCHANGED <<repo, mergeLock, activeReviewIds, activeConflictIds, batch, lost>>

\* revertMergedPR does not look at the status again either.
RevertWorks(j) ==
  LET p == job[j].pr IN
  /\ Enters(j, "revert")
  /\ p \in inMain
  /\ inMain' = inMain \ {p}
  /\ reverted' = reverted \cup {p}
  /\ Continue(j, "reverted")
  /\ UNCHANGED <<row, unseen, mergeLock, activeReviewIds, activeConflictIds, batch, lost>>

\* Mutant: the row is written only when the revert fails.
RevertEndsUnsaid(j) ==
  /\ job[j].op = "revert" /\ job[j].at = "reverted"
  /\ UNCHANGED row
  /\ End(j) /\ Release(j)
  /\ UNCHANGED <<repo, activeReviewIds, activeConflictIds, batch, lost>>

RevertEnds(j) ==
  /\ job[j].op = "revert" /\ job[j].at = "reverted"
  /\ SetStatus(job[j].pr, "closed")
  /\ End(j) /\ Release(j)
  /\ UNCHANGED <<repo, activeReviewIds, activeConflictIds, batch, lost>>

\* git revert fails, as it does when the commit has been reverted before.
RevertFails(j) ==
  /\ Enters(j, "revert")
  /\ SetStatus(job[j].pr, "merged")
  /\ End(j) /\ Release(j)
  /\ UNCHANGED <<repo, activeReviewIds, activeConflictIds, batch, lost>>

\* The main worktree is dirty, or no merge commit is found.
RevertThrows(j) ==
  /\ Enters(j, "revert")
  /\ End(j) /\ Release(j)
  /\ UNCHANGED <<row, repo, activeReviewIds, activeConflictIds, batch, lost>>

-----------------------------------------------------------------------------
(* Sessions that resolve conflicts.                                         *)

\* startConflictResolution.
StartConflict(j, p) ==
  IF p \in activeConflictIds
  THEN UNCHANGED <<row, job, activeConflictIds>>
  ELSE /\ SetRow(p, status[p], "running", "resolve_conflict")
       /\ \/ Begin(j, "conflict", p, "live") /\ activeConflictIds' = activeConflictIds \cup {p}
          \/ UNCHANGED <<job, activeConflictIds>>  \* the start of the session throws

TriggerConflict(j, p) ==
  /\ IsFree(j) /\ status[p] = "conflict"
  /\ StartConflict(j, p)
  /\ UNCHANGED <<repo, mergeLock, activeReviewIds, batch, lost>>

\* Mutant: the id is kept for a PR that has left 'conflict'.
ConflictSessionEndsEarly(j) ==
  LET p == job[j].pr IN
  /\ job[j].op = "conflict" /\ job[j].at = "live"
  /\ IF status[p] # "conflict"
     THEN UNCHANGED <<row, activeConflictIds>>
     ELSE /\ SetRow(p, "conflict", "failed", pendingAction[p])
          /\ activeConflictIds' = activeConflictIds \ {p}
  /\ End(j)
  /\ UNCHANGED <<repo, mergeLock, activeReviewIds, batch, lost>>

ConflictSessionEnds(j) ==
  LET p == job[j].pr IN
  /\ job[j].op = "conflict" /\ job[j].at = "live"
  /\ activeConflictIds' = activeConflictIds \ {p}
  /\ \/ status[p] # "conflict" /\ UNCHANGED row /\ End(j)
     \/ status[p] = "conflict" /\ SetRow(p, "open", "idle", "none") /\ Refresh(j, "refreshing", "open")
     \/ status[p] = "conflict" /\ SetRow(p, "conflict", "failed", pendingAction[p]) /\ End(j)
  /\ UNCHANGED <<repo, mergeLock, activeReviewIds, batch, lost>>

-----------------------------------------------------------------------------
(* Commands that only write the row.                                        *)

Write(p, s, e, a) ==
  /\ SetRow(p, s, e, a)
  /\ UNCHANGED <<repo, memory, lost>>

Close(p) == Exists(p) /\ Write(p, "closed", executionState[p], pendingAction[p])

\* The route does not ask for the status.
RetryReview(p) == Exists(p) /\ Write(p, "open", executionState[p], pendingAction[p])

ReopenPR(p) == status[p] = "closed" /\ Write(p, "open", executionState[p], pendingAction[p])

CancelQueue(p) == executionState[p] = "queued" /\ Write(p, status[p], "idle", "none")

\* The route of a retry, and processFailed.
Requeue(p) == executionState[p] = "failed" /\ Write(p, status[p], "queued", pendingAction[p])

-----------------------------------------------------------------------------
(* The tick.                                                                *)

\* processStale, for a row that was not written for half an hour; the row is
\* then refreshed by job j.
ResetStale(j, p) ==
  /\ IsFree(j) /\ status[p] \in {"reviewing", "merging"}
  /\ LET s == IF status[p] = "reviewing" THEN "open" ELSE "approved" IN
     /\ SetRow(p, s, "idle", "none")
     /\ job' = [job EXCEPT ![j] = [op |-> "refresh", pr |-> p, at |-> "refreshing", seen |-> s]]
  /\ activeReviewIds' = activeReviewIds \ {p}
  /\ lost' = lost \ {p}
  /\ UNCHANGED <<repo, mergeLock, activeConflictIds, batch>>

\* processQueue reads the queued rows and serves them one after the other: the rows
\* may be different by then.
ReadQueue ==
  /\ batch = {}
  /\ batch' = {<<p, pendingAction[p]>> : p \in {q \in PRs : executionState[q] = "queued"}}
  /\ batch' # {}
  /\ UNCHANGED <<row, repo, job, mergeLock, activeReviewIds, activeConflictIds, lost>>

Skip(p, action, slot) ==
  \/ ~slot
  \/ action = "review" /\ p \in activeReviewIds
  \/ action = "merge" /\ mergeLock # <<>>

\* The row is set to 'running' before the action runs.  (A start without a slot is
\* not possible here: the slot was checked just before.)
ServeQueued(j, p, action, slot) ==
  /\ IsFree(j) /\ <<p, action>> \in batch
  /\ batch' = batch \ {<<p, action>>}
  /\ \/ Skip(p, action, slot)
        /\ UNCHANGED <<row, job, mergeLock, activeConflictIds>>
     \/ /\ ~Skip(p, action, slot)
        /\ \/ /\ action = "review"
              /\ StartReview(j, p, status[p], TRUE)
              /\ UNCHANGED <<mergeLock, activeConflictIds>>
           \/ /\ action = "merge"
              /\ SetRow(p, status[p], "running", pendingAction[p])
              /\ CallsLock(j, "merge", p)
              /\ UNCHANGED activeConflictIds
           \/ /\ action = "resolve_conflict" /\ p \notin activeConflictIds
              /\ StartConflict(j, p)
              /\ UNCHANGED mergeLock
           \/ /\ action = "none" \/ (action = "resolve_conflict" /\ p \in activeConflictIds)
              /\ SetRow(p, status[p], "running", pendingAction[p])
              /\ UNCHANGED <<job, mergeLock, activeConflictIds>>
  /\ UNCHANGED <<repo, activeReviewIds, lost>>

-----------------------------------------------------------------------------
\* The server dies, at any point of a merge or a revert, and starts again.
Restart ==
  /\ lost' = {p \in PRs : status[p] \in {"reviewing", "merging"}}
  /\ inMain' \in {inMain} \cup UNION {Merged(job[j].pr) : j \in {k \in Jobs : MergeWorks(k)}}
  /\ job' = [j \in Jobs |-> Idle]
  /\ mergeLock' = <<>>
  /\ activeReviewIds' = {} /\ activeConflictIds' = {} /\ batch' = {}
  /\ hung' = FALSE
  /\ UNCHANGED <<row, unseen, reverted>>

\* A git command or the start of a session hangs under the lock: neither has a
\* timeout.  (The check of a merge that has just got the lock is synchronous.)
Hangs ==
  /\ \E j \in Jobs : HoldsLock(j) /\ ~Enters(j, "merge")
  /\ hung' = TRUE
  /\ UNCHANGED <<row, repo, memory, lost>>

JobStep(j) ==
  \/ RefreshEnds(j)
  \/ ReviewStarts(j) \/ ReviewStartFails(j)
  \/ \E verdict \in {"approved", "review_failed"} : ReviewVerdict(j, verdict)
  \/ \E slot \in BOOLEAN : MergeEnters(j, slot)
  \/ MergeChecks(j) \/ MergeCheckThrows(j)
  \/ MergeSucceeds(j) \/ MergeConflicts(j) \/ MergeThrows(j)
  \/ CancelEnds(j)
  \/ RevertWorks(j) \/ RevertEnds(j) \/ RevertFails(j) \/ RevertThrows(j)

SessionStep(j) == ReviewSessionEnds(j) \/ ConflictSessionEnds(j)

Command(j, p) ==
  \/ AutoRefresh(j, p)
  \/ \E slot \in BOOLEAN : AskForReview(j, p, slot)
  \/ MergePR(j, p) \/ CancelMerge(j, p) \/ RevertMergedPR(j, p)
  \/ TriggerConflict(j, p)

Scheduler(j, p) ==
  \/ ResetStale(j, p)
  \/ \E slot \in BOOLEAN, action \in PendingAction : ServeQueued(j, p, action, slot)

RowCommand(p) ==
  CreatePR(p) \/ Close(p) \/ RetryReview(p) \/ ReopenPR(p) \/ CancelQueue(p) \/ Requeue(p)

\* A job goes on, but the one that holds the lock and hangs.
JobRuns(j) == ~(HoldsLock(j) /\ hung) /\ JobStep(j)

HolderRuns == \E j \in Jobs : HoldsLock(j) /\ JobRuns(j) /\ UNCHANGED hung

Step ==
  \/ \E j \in Jobs : JobRuns(j) \/ SessionStep(j)
  \/ \E j \in Jobs, p \in PRs : Command(j, p) \/ Scheduler(j, p)
  \/ \E p \in PRs : RowCommand(p)
  \/ NewCommits \/ ReadQueue

Next ==
  \/ Step /\ UNCHANGED hung
  \/ Hangs \/ Restart

\* The commands of the job that holds the lock end, unless they hang.  Nothing is
\* assumed of the other jobs, and of the sessions of agents.
Spec == Init /\ [][Next]_vars /\ WF_vars(HolderRuns)

-----------------------------------------------------------------------------
(* Properties.                                                              *)

\* A PR that is shown as busy is worked on: its merge has the lock, or its review
\* is being prepared, under way or being closed.  Otherwise it could not be merged
\* or reviewed for half an hour.  (After a restart, or a start of a session that
\* throws, it waits for processStale.)
BusyRowIsDriven ==
  \A p \in PRs \ lost :
    /\ status[p] = "merging" => \E j \in Jobs : MergeWorks(j) /\ job[j].pr = p
    /\ status[p] = "reviewing" =>
         \E j \in Jobs : /\ job[j].op = "review" /\ job[j].pr = p
                         /\ job[j].at \in {"prompt", "live", "closing"}

\* The guard against a second session that resolves the conflicts of a PR is set
\* exactly while a session lives: never two of them, and never none for ever.
ConflictGuardIsRight ==
  LET live == {j \in Jobs : job[j].op = "conflict" /\ job[j].at = "live"} IN
  /\ activeConflictIds = {job[j].pr : j \in live}
  /\ \A j, k \in live : j # k => job[j].pr # job[k].pr

\* Nothing is shown or held as busy without its worker, nor worked on unknown to
\* the guards.
BusyIsDriven == BusyRowIsDriven /\ ConflictGuardIsRight

\* The row says 'merged', the changes are not in the base branch, and no revert
\* is about to write the row.
Disagrees(p) ==
  /\ status[p] = "merged" /\ p \notin inMain
  /\ ~\E j \in Jobs : job[j].op = "revert" /\ job[j].at = "reverted" /\ job[j].pr = p

\* What is shown as merged is in the base branch, whatever other commands were
\* waiting for the lock.  Row and branch come to disagree in three ways only: the
\* server dies after git revert and before it writes the row; a revert fails
\* because an earlier one has reverted the merge, and the row is set back to
\* 'merged'; a PR is merged again after its revert, and git finds nothing to merge.
MergedIsInMain ==
  [][\A p \in PRs : Disagrees(p)' /\ ~Disagrees(p) =>
       \E j \in Jobs :
         /\ job[j].pr = p /\ p \in reverted
         /\ \/ Restart /\ job[j].op = "revert" /\ job[j].at = "reverted"
            \/ RevertFails(j)
            \/ MergeSucceeds(j)]_vars

\* The merge lock is passed on, on every path through the commands that take it,
\* unless a command hangs under it: then those who wait wait for ever, and
\* cancelMerge, which should help, waits with them.
LockIsPassedOn == \A j \in Jobs : []<>(job[j].at # "waiting" \/ hung)

\* The refresh of a row never touches a PR that is being reviewed or merged, or
\* was merged.
RefreshDoesNotInterfere ==
  [][\A j \in Jobs : RefreshEnds(j) =>
       LET p == job[j].pr IN
       status[p] \in {"reviewing", "merging", "merged"} => status'[p] = status[p]]_vars
=============================================================================
