---------------------- MODULE LocalPullRequests_proofs ----------------------
(***************************************************************************)
(* The invariants of LocalPullRequests, proved for every finite set of     *)
(* pull requests and of jobs: a row that is shown as busy is driven by a   *)
(* job or was lost in a restart, and row and base branch come to disagree  *)
(* about a merge in the three ways MergedIsInMain names only.              *)
(***************************************************************************)
EXTENDS LocalPullRequests, FiniteSetTheorems, SequenceTheorems, TLAPS

-----------------------------------------------------------------------------
(* The inductive invariant.                                                *)

\* The operations that run under the merge lock of the worktree.
LockOps == {"merge", "cancel", "revert"}

\* A call of the service that has not returned: what it does, for which PR, where it
\* stands, and the status it will write back when its session is kept.
JobRecord == [op : Ops, pr : PRs \cup {NoPR}, at : Places, seen : LocalPRStatus \cup {"none"}]

\* The types, for the provers: TypeOK without the length of the queue, with the jobs as
\* members of a set.
Typed ==
  /\ status \in [PRs -> LocalPRStatus \cup {"absent"}]
  /\ executionState \in [PRs -> ExecutionState]
  /\ pendingAction \in [PRs -> PendingAction]
  /\ unseen \subseteq PRs /\ inMain \subseteq PRs /\ reverted \subseteq PRs
  /\ job \in [Jobs -> JobRecord]
  /\ mergeLock \in Seq(Jobs)
  /\ activeReviewIds \subseteq PRs /\ activeConflictIds \subseteq PRs
  /\ batch \subseteq PRs \X PendingAction
  /\ lost \subseteq PRs

\* A job has a PR exactly if it has work; what it refreshes is never a merged PR; and it
\* reverts only what was merged.
JobsInOrder ==
  \A j \in Jobs :
    /\ job[j].op = "none" => job[j] = Idle
    /\ job[j].op # "none" => job[j].pr \in PRs
    /\ job[j].at \in {"refreshing", "keeping"} => job[j].seen \notin {"none", "merged"}
    /\ job[j].op = "revert" => job[j].pr \in inMain \cup reverted

\* The queue of the lock holds each job once, and only jobs that want it; a job past the
\* wait is at its head.
LockInOrder ==
  /\ \A i \in 1..Len(mergeLock) : mergeLock[i] \in Jobs /\ job[mergeLock[i]].op \in LockOps
  /\ \A i, k \in 1..Len(mergeLock) : mergeLock[i] = mergeLock[k] => i = k
  /\ \A j \in Jobs : job[j].op \in LockOps /\ job[j].at # "waiting" => HoldsLock(j)

\* What is shown as merged was merged: its changes are in the base branch, or were
\* reverted there.
MergedOnce == \A p \in PRs : status[p] = "merged" => p \in inMain \cup reverted

\* The inductive invariant: the properties, with the jobs and the queue that keep them
\* true.
IInv ==
  /\ Typed /\ JobsInOrder /\ LockInOrder
  /\ BusyRowIsDriven /\ ConflictGuardIsRight /\ MergedOnce

-----------------------------------------------------------------------------
(* The merge lock.                                                         *)

\* An entry of the queue is a job.
LEMMA LockTyped ==
  ASSUME Typed
  PROVE  Len(mergeLock) \in Nat /\ mergeLock \in [1..Len(mergeLock) -> Jobs]
  BY DEF Typed

\* The lock is what it was, and so are the jobs that want it.
LEMMA LockStays ==
  ASSUME Typed, LockInOrder, mergeLock' = mergeLock,
         \A j \in Jobs : job[j].op \in LockOps => job'[j].op \in LockOps,
         \A j \in Jobs : job'[j].op \in LockOps /\ job'[j].at # "waiting" => HoldsLock(j)
  PROVE  LockInOrder'
  BY DEF LockInOrder, HoldsLock

\* A job gives the lock up, if it has it.
LEMMA LockIsReleased ==
  ASSUME Typed, LockInOrder, NEW j \in Jobs, Release(j), job[j].op \in LockOps => HoldsLock(j),
         job'[j].op \notin LockOps, \A k \in Jobs \ {j} : job'[k] = job[k]
  PROVE  LockInOrder'
<1>1. Len(mergeLock) \in Nat /\ mergeLock \in [1..Len(mergeLock) -> Jobs] /\ mergeLock \in Seq(Jobs)
  BY LockTyped
<1>2. CASE HoldsLock(j)
  <2>1. /\ mergeLock' = Tail(mergeLock) /\ mergeLock # << >> /\ mergeLock[1] = j
        /\ Len(mergeLock) \in Nat \ {0}
    BY <1>1, <1>2 DEF Release, HoldsLock
  <2>2. /\ Len(mergeLock') = Len(mergeLock) - 1
        /\ \A i \in 1..Len(mergeLock') : mergeLock'[i] = mergeLock[i + 1]
    BY <1>1, <2>1
  <2>3. \A i \in 1..Len(mergeLock') :
          i + 1 \in 1..Len(mergeLock) /\ mergeLock'[i] = mergeLock[i + 1] /\ mergeLock'[i] # j
    BY <1>1, <2>1, <2>2 DEF LockInOrder
  <2>4. \A k \in Jobs \ {j} : ~ HoldsLock(k)
    BY <1>2 DEF HoldsLock
  <2>5. \A i \in 1..Len(mergeLock') : mergeLock'[i] \in Jobs /\ job'[mergeLock'[i]].op \in LockOps
    BY <1>1, <2>3 DEF LockInOrder
  <2>6. \A i, k \in 1..Len(mergeLock') : mergeLock'[i] = mergeLock'[k] => i = k
    <3>1. ASSUME NEW i \in 1..Len(mergeLock'), NEW k \in 1..Len(mergeLock'), mergeLock'[i] = mergeLock'[k]
          PROVE  i = k
      <4>1. /\ mergeLock[i + 1] = mergeLock[k + 1] /\ i + 1 \in 1..Len(mergeLock)
            /\ k + 1 \in 1..Len(mergeLock)
        BY <2>3, <3>1
      <4>2. i + 1 = k + 1
        BY <4>1 DEF LockInOrder
      <4>. QED BY <4>2
    <3>. QED BY <3>1
  <2>7. \A k \in Jobs : job'[k].op \in LockOps /\ job'[k].at # "waiting" => HoldsLock(k)'
    BY <2>4 DEF LockInOrder
  <2>. QED BY <2>5, <2>6, <2>7 DEF LockInOrder
<1>3. CASE ~ HoldsLock(j)
  <2>1. mergeLock' = mergeLock /\ job[j].op \notin LockOps
    BY <1>3 DEF Release
  <2>. QED BY <1>1, <2>1 DEF LockInOrder, HoldsLock
<1>. QED BY <1>2, <1>3

\* A job without work queues for the lock.
LEMMA LockIsCalled ==
  ASSUME Typed, LockInOrder, NEW j \in Jobs, mergeLock' = Append(mergeLock, j),
         job[j].op \notin LockOps,
         job'[j].op \in LockOps, job'[j].at = "waiting", \A k \in Jobs \ {j} : job'[k] = job[k]
  PROVE  LockInOrder'
<1>1. Len(mergeLock) \in Nat /\ mergeLock \in [1..Len(mergeLock) -> Jobs] /\ mergeLock \in Seq(Jobs)
  BY LockTyped
<1>2. /\ Len(mergeLock') = Len(mergeLock) + 1 /\ mergeLock'[Len(mergeLock) + 1] = j
      /\ \A i \in 1..Len(mergeLock) : mergeLock'[i] = mergeLock[i]
      /\ mergeLock' # << >> /\ Head(mergeLock') = IF mergeLock = << >> THEN j ELSE Head(mergeLock)
  BY <1>1
<1>3. \A i \in 1..Len(mergeLock) : mergeLock[i] # j /\ mergeLock[i] \in Jobs
  BY <1>1 DEF LockInOrder
<1>4. \A i \in 1..Len(mergeLock') : i \in 1..Len(mergeLock) \/ i = Len(mergeLock) + 1
  BY <1>1, <1>2
<1>5. \A i \in 1..Len(mergeLock') : mergeLock'[i] \in Jobs /\ job'[mergeLock'[i]].op \in LockOps
  BY <1>2, <1>3, <1>4 DEF LockInOrder
<1>6. \A i, k \in 1..Len(mergeLock') : mergeLock'[i] = mergeLock'[k] => i = k
  BY <1>2, <1>3, <1>4 DEF LockInOrder
<1>7. \A k \in Jobs : job'[k].op \in LockOps /\ job'[k].at # "waiting" => HoldsLock(k)'
  BY <1>2 DEF LockInOrder, HoldsLock
<1>. QED BY <1>5, <1>6, <1>7 DEF LockInOrder

\* No more jobs are in the queue than there are.
LEMMA LockFits ==
  ASSUME Typed, LockInOrder
  PROVE  Len(mergeLock) <= Cardinality(Jobs)
<1>1. Len(mergeLock) \in Nat /\ mergeLock \in [1..Len(mergeLock) -> Jobs]
  BY LockTyped
<1>2. mergeLock \in Injection(1..Len(mergeLock), Jobs)
  BY <1>1 DEF LockInOrder, Injection, IsInjective
<1>3. Cardinality(1..Len(mergeLock)) <= Cardinality(Jobs)
  BY <1>2, LocalPRAssumption, FS_Injection
<1>. QED BY <1>1, <1>3, FS_Interval

-----------------------------------------------------------------------------
(* Jobs and rows.                                                          *)

\* No job but j does anything.
Changes(j) == \A k \in Jobs \ {j} : job'[k] = job[k]

\* Job j has a live session that resolves a conflict.
LiveConflict(j) == job[j].op = "conflict" /\ job[j].at = "live"

\* Job j merges the PR p: it has entered the lock.
Merges(j, p) == job[j].op = "merge" /\ job[j].at = "working" /\ job[j].pr = p

\* Job j reviews the PR p.
Reviews(j, p) == job[j].op = "review" /\ job[j].pr = p /\ job[j].at \in {"prompt", "live", "closing"}

\* A lock given up leaves a queue of jobs.
LEMMA ReleaseTyped ==
  ASSUME Typed, NEW j \in Jobs, Release(j)
  PROVE  mergeLock' \in Seq(Jobs)
  BY DEF Typed, Release, HoldsLock

\* A lock asked for leaves a queue of jobs.
LEMMA CallTyped ==
  ASSUME Typed, NEW j \in Jobs, mergeLock' = Append(mergeLock, j)
  PROVE  mergeLock' \in Seq(Jobs)
  BY DEF Typed

\* What a write of a row does to the columns.
LEMMA RowTyped ==
  ASSUME Typed, NEW p \in PRs, NEW s \in LocalPRStatus \cup {"absent"}, NEW e \in ExecutionState,
         NEW a \in PendingAction,
         SetRow(p, s, e, a)
  PROVE  /\ status' \in [PRs -> LocalPRStatus \cup {"absent"}]
         /\ executionState' \in [PRs -> ExecutionState]
         /\ pendingAction' \in [PRs -> PendingAction]
         /\ status'[p] = s
         /\ \A q \in PRs \ {p} : status'[q] = status[q]
  BY DEF Typed, SetRow

\* The guard of the conflict sessions stays right when a job does something else,
LEMMA GuardStays ==
  ASSUME ConflictGuardIsRight, NEW j \in Jobs, Changes(j), ~ LiveConflict(j), ~ LiveConflict(j)',
         UNCHANGED activeConflictIds
  PROVE  ConflictGuardIsRight'
<1>1. \A k \in Jobs : LiveConflict(k)' <=> LiveConflict(k)
  BY DEF Changes, LiveConflict
<1>2. \A k \in Jobs : LiveConflict(k) => job'[k] = job[k]
  BY DEF Changes
<1>. QED BY <1>1, <1>2 DEF ConflictGuardIsRight, LiveConflict

\* when a session begins for a PR that had none,
LEMMA GuardIsSet ==
  ASSUME ConflictGuardIsRight, NEW j \in Jobs, Changes(j), ~ LiveConflict(j), LiveConflict(j)',
         job'[j].pr \notin activeConflictIds,
         activeConflictIds' = activeConflictIds \cup {job'[j].pr}
  PROVE  ConflictGuardIsRight'
  BY DEF Changes, LiveConflict, ConflictGuardIsRight

\* and when a session ends.
LEMMA GuardIsReset ==
  ASSUME ConflictGuardIsRight, NEW j \in Jobs, Changes(j), LiveConflict(j), ~ LiveConflict(j)',
         activeConflictIds' = activeConflictIds \ {job[j].pr}
  PROVE  ConflictGuardIsRight'
  BY DEF Changes, LiveConflict, ConflictGuardIsRight

\* Busy rows stay driven when job j changes, with the row of p: every other row keeps its
\* job, and p is busy only if j drives it now or another job did.
LEMMA BusyStays ==
  ASSUME BusyRowIsDriven, NEW j \in Jobs, NEW p \in PRs, Changes(j),
         \A q \in PRs \ {p} : /\ status'[q] = status[q] /\ (q \in lost => q \in lost')
                              /\ ~ Merges(j, q) /\ ~ Reviews(j, q),
         p \in lost' \/ (status'[p] = "merging" =>
                           Merges(j, p)' \/ (status[p] = "merging" /\ p \notin lost /\ ~ Merges(j, p))),
         p \in lost' \/ (status'[p] = "reviewing" =>
                           Reviews(j, p)' \/ (status[p] = "reviewing" /\ p \notin lost /\ ~ Reviews(j, p)))
  PROVE  BusyRowIsDriven'
<1>1. ASSUME NEW q \in PRs \ lost', status'[q] = "merging"
      PROVE  \E k \in Jobs : Merges(k, q)'
  <2>1. CASE Merges(j, q)'
    BY <2>1
  <2>2. CASE ~ Merges(j, q)'
    <3>1. status[q] = "merging" /\ q \notin lost /\ ~ Merges(j, q)
      BY <1>1, <2>2
    <3>2. PICK k \in Jobs : Merges(k, q)
      BY <3>1 DEF BusyRowIsDriven, MergeWorks, Merges
    <3>3. job'[k] = job[k]
      BY <3>1, <3>2 DEF Changes
    <3>. QED BY <3>2, <3>3 DEF Merges
  <2>. QED BY <2>1, <2>2
<1>2. ASSUME NEW q \in PRs \ lost', status'[q] = "reviewing"
      PROVE  \E k \in Jobs : Reviews(k, q)'
  <2>1. CASE Reviews(j, q)'
    BY <2>1
  <2>2. CASE ~ Reviews(j, q)'
    <3>1. status[q] = "reviewing" /\ q \notin lost /\ ~ Reviews(j, q)
      BY <1>2, <2>2
    <3>2. PICK k \in Jobs : Reviews(k, q)
      BY <3>1 DEF BusyRowIsDriven, Reviews
    <3>3. job'[k] = job[k]
      BY <3>1, <3>2 DEF Changes
    <3>. QED BY <3>2, <3>3 DEF Reviews
  <2>. QED BY <2>1, <2>2
<1>. QED BY <1>1, <1>2 DEF BusyRowIsDriven, MergeWorks, Merges, Reviews

\* What a job that refreshes its PR becomes.
LEMMA JobRefreshes ==
  ASSUME Typed, NEW j \in Jobs, NEW at \in Places, NEW seen \in LocalPRStatus,
         Refresh(j, at, seen)
  PROVE  /\ Changes(j) /\ job' \in [Jobs -> JobRecord]
         /\ job'[j].op = job[j].op /\ job'[j].pr = job[j].pr
         /\ job'[j].at = at /\ job'[j].seen = seen
<1>. DEFINE r == [job[j] EXCEPT !.at = at, !.seen = seen]
<1>1. job[j] \in JobRecord
  BY DEF Typed
<1>2. r \in JobRecord /\ r.op = job[j].op /\ r.pr = job[j].pr /\ r.at = at /\ r.seen = seen
  BY <1>1 DEF JobRecord
<1>3. job' = [job EXCEPT ![j] = r]
  BY DEF Refresh
<1>. HIDE DEF r
<1>. QED BY <1>2, <1>3 DEF Typed, Changes

\* What a job that begins becomes.
LEMMA JobBegins ==
  ASSUME Typed, NEW j \in Jobs, NEW p \in PRs, NEW op \in Ops, NEW at \in Places,
         Begin(j, op, p, at)
  PROVE  /\ Changes(j) /\ job' \in [Jobs -> JobRecord]
         /\ job'[j].op = op /\ job'[j].pr = p /\ job'[j].at = at
  BY DEF Begin, Typed, Changes, JobRecord

\* What a job that goes on becomes.
LEMMA JobContinues ==
  ASSUME Typed, NEW j \in Jobs, NEW at \in Places, Continue(j, at)
  PROVE  /\ Changes(j) /\ job' \in [Jobs -> JobRecord]
         /\ job'[j].op = job[j].op /\ job'[j].pr = job[j].pr /\ job'[j].at = at
  BY DEF Continue, Typed, Changes, JobRecord

\* What a job that ends becomes.
LEMMA JobEnds ==
  ASSUME Typed, NEW j \in Jobs, End(j)
  PROVE  /\ Changes(j) /\ job' \in [Jobs -> JobRecord] /\ job'[j] = Idle
         /\ job'[j].op = "none" /\ job'[j].at = "none"
  BY DEF End, Typed, Changes, JobRecord, Idle, Ops, Places

\* A job without work drives no PR.
LEMMA FreeJob ==
  ASSUME NEW j \in Jobs, IsFree(j)
  PROVE  job[j].op = "none" /\ ~ LiveConflict(j) /\ \A p : ~ Merges(j, p) /\ ~ Reviews(j, p)
  BY DEF IsFree, Idle, LiveConflict, Merges, Reviews

\* The jobs stay in order when one of them does something else.
LEMMA OrderStays ==
  ASSUME IInv, NEW j \in Jobs, Changes(j), inMain \cup reverted \subseteq (inMain \cup reverted)',
         \/ job'[j] = Idle
         \/ /\ job'[j].op # "none" /\ job'[j].pr \in PRs
            /\ job'[j].at \in {"refreshing", "keeping"} => job'[j].seen \notin {"none", "merged"}
            /\ job'[j].op = "revert" => job'[j].pr \in inMain \cup reverted
  PROVE  JobsInOrder'
  BY DEF IInv, JobsInOrder, Changes, Idle

-----------------------------------------------------------------------------
(* The steps.                                                              *)

\* A review is started by a command, an automatic tick or the queue.
LEMMA ReviewStarted ==
  ASSUME IInv, NEW j \in Jobs, NEW p \in PRs, NEW s, NEW slot \in BOOLEAN, IsFree(j),
         StartReview(j, p, s, slot),
         s = status[p] \/ (s = "open" /\ status[p] \in {"open", "review_failed"}),
         UNCHANGED <<repo, mergeLock, activeReviewIds, activeConflictIds, lost>>,
         batch' \subseteq batch
  PROVE  IInv'
<1>. DEFINE now == IF ~slot \/ p \in activeReviewIds THEN s ELSE "reviewing"
<1>1. \E e \in ExecutionState : SetRow(p, now, e, "review")
  BY DEF StartReview, ExecutionState
<1>2. now \in LocalPRStatus \cup {"absent"} /\ "review" \in PendingAction
  BY DEF IInv, Typed, LocalPRStatus, PendingAction
<1>3. /\ status' \in [PRs -> LocalPRStatus \cup {"absent"}]
      /\ executionState' \in [PRs -> ExecutionState]
      /\ pendingAction' \in [PRs -> PendingAction]
      /\ status'[p] = now /\ \A q \in PRs \ {p} : status'[q] = status[q]
  <2>. HIDE DEF now
  <2>. QED BY <1>1, <1>2, RowTyped DEF IInv
<1>4. job[j].op = "none" /\ ~ LiveConflict(j) /\ \A q \in PRs : ~ Merges(j, q) /\ ~ Reviews(j, q)
  BY FreeJob
<1>5. \/ UNCHANGED job /\ now = s
      \/ now = "reviewing" /\ Begin(j, "review", p, "prompt")
  BY DEF StartReview
<1>6. /\ Changes(j) /\ job' \in [Jobs -> JobRecord]
      /\ \/ UNCHANGED job /\ now = s
         \/ now = "reviewing" /\ job'[j].op = "review" /\ job'[j].pr = p /\ job'[j].at = "prompt"
  <2>1. CASE UNCHANGED job /\ now = s
    BY <2>1 DEF Changes, IInv, Typed
  <2>2. CASE now = "reviewing" /\ Begin(j, "review", p, "prompt")
    BY <2>2, JobBegins DEF IInv, Ops, Places
  <2>. QED BY <1>5, <2>1, <2>2
<1>. HIDE DEF now
<1>7. Typed'
  BY <1>3, <1>6 DEF IInv, Typed, repo
<1>8. JobsInOrder'
  <2>1. job'[j] = Idle \/ (job'[j].op = "review" /\ job'[j].pr = p /\ job'[j].at = "prompt")
    BY <1>6 DEF IsFree
  <2>. QED BY <1>6, <2>1, OrderStays DEF repo
<1>9. LockInOrder'
  <2>1. job'[j].op \notin LockOps /\ job[j].op \notin LockOps
    BY <1>4, <1>6 DEF LockOps
  <2>. QED BY <1>6, <2>1, LockStays DEF IInv, Changes, LockInOrder
<1>10. BusyRowIsDriven'
  <2>1. now = "merging" => s = status[p] /\ now = s
    BY <1>6
  <2>2. now = "reviewing" => Reviews(j, p)' \/ (s = status[p] /\ now = s)
    BY <1>6 DEF Reviews
  <2>. QED BY <1>3, <1>4, <1>6, <2>1, <2>2, BusyStays DEF IInv
<1>11. ConflictGuardIsRight'
  <2>1. ~ LiveConflict(j)'
    BY <1>4, <1>6 DEF LiveConflict
  <2>. QED BY <1>4, <1>6, <2>1, GuardStays DEF IInv
<1>12. MergedOnce'
  BY <1>3, <1>6 DEF IInv, MergedOnce, repo
<1>. QED BY <1>7, <1>8, <1>9, <1>10, <1>11, <1>12 DEF IInv

\* A session that resolves a conflict is started likewise.
LEMMA ConflictStarted ==
  ASSUME IInv, NEW j \in Jobs, NEW p \in PRs, IsFree(j), StartConflict(j, p),
         UNCHANGED <<repo, mergeLock, activeReviewIds, lost>>, batch' \subseteq batch
  PROVE  IInv'
<1>1. /\ status' = status /\ executionState' \in [PRs -> ExecutionState]
      /\ pendingAction' \in [PRs -> PendingAction]
  BY DEF StartConflict, row, IInv, Typed, SetRow, ExecutionState, PendingAction
<1>2. \/ UNCHANGED <<job, activeConflictIds>>
      \/ /\ p \notin activeConflictIds /\ Begin(j, "conflict", p, "live")
         /\ activeConflictIds' = activeConflictIds \cup {p}
  BY DEF StartConflict
<1>3. job[j].op = "none" /\ ~ LiveConflict(j) /\ \A q \in PRs : ~ Merges(j, q) /\ ~ Reviews(j, q)
  BY FreeJob
<1>4. /\ Changes(j) /\ job' \in [Jobs -> JobRecord]
      /\ \/ UNCHANGED <<job, activeConflictIds>>
         \/ /\ job'[j].op = "conflict" /\ job'[j].pr = p /\ job'[j].at = "live"
            /\ p \notin activeConflictIds /\ activeConflictIds' = activeConflictIds \cup {p}
  <2>1. CASE UNCHANGED <<job, activeConflictIds>>
    BY <2>1 DEF Changes, IInv, Typed
  <2>2. CASE /\ p \notin activeConflictIds /\ Begin(j, "conflict", p, "live")
             /\ activeConflictIds' = activeConflictIds \cup {p}
    BY <2>2, JobBegins DEF IInv, Ops, Places
  <2>. QED BY <1>2, <2>1, <2>2
<1>5. Typed'
  BY <1>1, <1>4 DEF IInv, Typed, repo
<1>6. JobsInOrder'
  <2>1. job'[j] = Idle \/ (job'[j].op = "conflict" /\ job'[j].pr = p /\ job'[j].at = "live")
    BY <1>4 DEF IsFree
  <2>. QED BY <1>4, <2>1, OrderStays DEF repo
<1>7. LockInOrder'
  <2>1. job'[j].op \notin LockOps /\ job[j].op \notin LockOps
    BY <1>3, <1>4 DEF LockOps
  <2>. QED BY <1>4, <2>1, LockStays DEF IInv, Changes, LockInOrder
<1>8. BusyRowIsDriven'
  BY <1>1, <1>3, <1>4, BusyStays DEF IInv
<1>9. ConflictGuardIsRight'
  BY <1>3, <1>4, GuardStays, GuardIsSet DEF IInv, LiveConflict
<1>10. MergedOnce'
  BY <1>1 DEF IInv, MergedOnce, repo
<1>. QED BY <1>5, <1>6, <1>7, <1>8, <1>9, <1>10 DEF IInv

\* A merge, a cancel or a revert is called and waits for the lock.
LEMMA LockCalled ==
  ASSUME IInv, NEW j \in Jobs, NEW p \in PRs, NEW op \in LockOps, IsFree(j), CallsLock(j, op, p),
         op = "revert" => p \in inMain \cup reverted,
         status' = status, executionState' \in [PRs -> ExecutionState],
         pendingAction' \in [PRs -> PendingAction],
         UNCHANGED <<repo, activeReviewIds, activeConflictIds, lost>>, batch' \subseteq batch
  PROVE  IInv'
<1>1. job[j].op = "none" /\ ~ LiveConflict(j) /\ \A q \in PRs : ~ Merges(j, q) /\ ~ Reviews(j, q)
  BY FreeJob
<1>2. mergeLock' = Append(mergeLock, j) /\ Begin(j, op, p, "waiting")
  BY DEF CallsLock
<1>3. /\ Changes(j) /\ job' \in [Jobs -> JobRecord]
      /\ job'[j].op = op /\ job'[j].pr = p /\ job'[j].at = "waiting"
  BY <1>2, JobBegins DEF IInv, LockOps, Ops, Places
<1>4. Typed'
  BY <1>2, <1>3 DEF IInv, Typed, repo
<1>5. JobsInOrder'
  BY <1>3, OrderStays DEF repo, LockOps
<1>6. LockInOrder'
  <2>1. job[j].op \notin LockOps
    BY <1>1 DEF LockOps
  <2>. QED BY <1>2, <1>3, <2>1, LockIsCalled DEF IInv, Changes
<1>7. BusyRowIsDriven'
  BY <1>1, <1>3, BusyStays DEF IInv
<1>8. ConflictGuardIsRight'
  <2>1. ~ LiveConflict(j)'
    BY <1>3 DEF LiveConflict
  <2>. QED BY <1>1, <1>3, <2>1, GuardStays DEF IInv
<1>9. MergedOnce'
  BY DEF IInv, MergedOnce, repo
<1>. QED BY <1>4, <1>5, <1>6, <1>7, <1>8, <1>9 DEF IInv

\* A step writes the row of p alone.
WritesRow(p) ==
  /\ status' \in [PRs -> LocalPRStatus \cup {"absent"}]
  /\ executionState' \in [PRs -> ExecutionState]
  /\ pendingAction' \in [PRs -> PendingAction]
  /\ \A q \in PRs \ {p} : status'[q] = status[q]

\* The guard of conflict sessions follows what job j does.
GuardFollows(j, p) ==
  \/ ~ LiveConflict(j) /\ ~ LiveConflict(j)' /\ UNCHANGED activeConflictIds
  \/ LiveConflict(j) /\ ~ LiveConflict(j)' /\ activeConflictIds' = activeConflictIds \ {p}

\* What was merged stays merged, or is reverted.
RepoGrows ==
  inMain' \subseteq PRs /\ reverted' \subseteq PRs /\ inMain \cup reverted \subseteq inMain' \cup reverted'

\* A job that works on p ends, and gives up the lock if it has it.
LEMMA JobIsOver ==
  ASSUME IInv, NEW j \in Jobs, NEW p \in PRs, job[j].pr = p, WritesRow(p), End(j),
         GuardFollows(j, p),
         \/ Release(j) /\ (job[j].op \in LockOps => HoldsLock(j))
         \/ UNCHANGED mergeLock /\ job[j].op \notin LockOps,
         RepoGrows \/ UNCHANGED <<inMain, reverted>>,
         UNCHANGED <<lost, batch>>, unseen' \subseteq PRs,
         activeReviewIds' \subseteq PRs,
         status'[p] = "merging" => status[p] = "merging" /\ ~ Merges(j, p),
         status'[p] = "reviewing" => status[p] = "reviewing" /\ ~ Reviews(j, p),
         status'[p] = "merged" => status[p] = "merged" \/ p \in inMain' \cup reverted'
  PROVE  IInv'
<1>1. /\ Changes(j) /\ job' \in [Jobs -> JobRecord] /\ job'[j] = Idle
      /\ job'[j].op = "none" /\ job'[j].at = "none"
  BY JobEnds DEF IInv
<1>2. activeConflictIds' \subseteq PRs
  BY DEF GuardFollows, IInv, Typed
<1>3. mergeLock' \in Seq(Jobs)
  BY ReleaseTyped DEF IInv, Typed
<1>4. Typed'
  BY <1>1, <1>2, <1>3 DEF IInv, Typed, WritesRow, RepoGrows
<1>5. JobsInOrder'
  BY <1>1, OrderStays DEF RepoGrows
<1>6. LockInOrder'
  <2>1. CASE Release(j) /\ (job[j].op \in LockOps => HoldsLock(j))
    BY <1>1, <2>1, LockIsReleased DEF IInv, Changes, LockOps
  <2>2. CASE UNCHANGED mergeLock /\ job[j].op \notin LockOps
    <3>1. \A k \in Jobs : /\ job[k].op \in LockOps => job'[k].op \in LockOps
                          /\ job'[k].op \in LockOps /\ job'[k].at # "waiting" => HoldsLock(k)
      BY <1>1, <2>2 DEF IInv, LockInOrder, Changes, LockOps
    <3>. QED BY <2>2, <3>1, LockStays DEF IInv
  <2>. QED BY <2>1, <2>2
<1>7. BusyRowIsDriven'
  <2>1. \A q \in PRs \ {p} : /\ status'[q] = status[q] /\ (q \in lost => q \in lost')
                             /\ ~ Merges(j, q) /\ ~ Reviews(j, q)
    BY DEF WritesRow, Merges, Reviews
  <2>2. p \in lost' \/ (status'[p] = "merging" =>
                           Merges(j, p)' \/ (status[p] = "merging" /\ p \notin lost /\ ~ Merges(j, p)))
    OBVIOUS
  <2>3. p \in lost' \/ (status'[p] = "reviewing" =>
                           Reviews(j, p)' \/ (status[p] = "reviewing" /\ p \notin lost /\ ~ Reviews(j, p)))
    OBVIOUS
  <2>. QED BY <1>1, <2>1, <2>2, <2>3, BusyStays DEF IInv
<1>8. ConflictGuardIsRight'
  BY <1>1, GuardStays, GuardIsReset DEF IInv, GuardFollows
<1>9. MergedOnce'
  BY DEF IInv, MergedOnce, WritesRow, RepoGrows
<1>. QED BY <1>4, <1>5, <1>6, <1>7, <1>8, <1>9 DEF IInv

\* A job that works on p goes on with it.
LEMMA JobGoesOn ==
  ASSUME IInv, NEW j \in Jobs, NEW p \in PRs, job[j].pr = p, job[j].op # "none", WritesRow(p),
         Changes(j), job' \in [Jobs -> JobRecord], job'[j].op = job[j].op, job'[j].pr = p,
         GuardFollows(j, p), job[j].op \in LockOps => HoldsLock(j),
         job'[j].at \in {"refreshing", "keeping"} => job'[j].seen \notin {"none", "merged"},
         RepoGrows \/ UNCHANGED <<inMain, reverted>>,
         UNCHANGED <<mergeLock, lost, batch>>, unseen' \subseteq PRs,
         activeReviewIds' \subseteq PRs,
         status'[p] = "merging" => Merges(j, p)' \/ (status[p] = "merging" /\ ~ Merges(j, p)),
         status'[p] = "reviewing" => Reviews(j, p)' \/ (status[p] = "reviewing" /\ ~ Reviews(j, p)),
         status'[p] = "merged" => status[p] = "merged" \/ p \in inMain' \cup reverted'
  PROVE  IInv'
<1>1. activeConflictIds' \subseteq PRs
  BY DEF GuardFollows, IInv, Typed
<1>2. Typed'
  BY <1>1 DEF IInv, Typed, WritesRow, RepoGrows
<1>3. JobsInOrder'
  <2>1. job[j].op = "revert" => job[j].pr \in inMain \cup reverted
    BY DEF IInv, JobsInOrder
  <2>. QED BY <2>1, OrderStays DEF RepoGrows
<1>4. LockInOrder'
  <2>1. \A k \in Jobs : /\ job[k].op \in LockOps => job'[k].op \in LockOps
                        /\ job'[k].op \in LockOps /\ job'[k].at # "waiting" => HoldsLock(k)
    BY DEF IInv, LockInOrder, Changes
  <2>. QED BY <2>1, LockStays DEF IInv
<1>5. BusyRowIsDriven'
  <2>1. \A q \in PRs \ {p} : /\ status'[q] = status[q] /\ (q \in lost => q \in lost')
                             /\ ~ Merges(j, q) /\ ~ Reviews(j, q)
    BY DEF WritesRow, Merges, Reviews
  <2>2. p \in lost' \/ (status'[p] = "merging" =>
                           Merges(j, p)' \/ (status[p] = "merging" /\ p \notin lost /\ ~ Merges(j, p)))
    OBVIOUS
  <2>3. p \in lost' \/ (status'[p] = "reviewing" =>
                           Reviews(j, p)' \/ (status[p] = "reviewing" /\ p \notin lost /\ ~ Reviews(j, p)))
    OBVIOUS
  <2>. QED BY <2>1, <2>2, <2>3, BusyStays DEF IInv
<1>6. ConflictGuardIsRight'
  BY GuardStays, GuardIsReset DEF IInv, GuardFollows
<1>7. MergedOnce'
  BY DEF IInv, MergedOnce, WritesRow, RepoGrows
<1>. QED BY <1>2, <1>3, <1>4, <1>5, <1>6, <1>7 DEF IInv

\* What a write of the row of p does.
LEMMA RowIsWritten ==
  ASSUME IInv, NEW p \in PRs, NEW s \in LocalPRStatus \cup {"absent"}, NEW e \in ExecutionState,
         NEW a \in PendingAction,
         SetRow(p, s, e, a)
  PROVE  WritesRow(p) /\ status'[p] = s
  BY RowTyped DEF IInv, WritesRow

\* What a write of the status alone does.
LEMMA StatusIsWritten ==
  ASSUME IInv, NEW p \in PRs, NEW s \in LocalPRStatus, SetStatus(p, s)
  PROVE  WritesRow(p) /\ status'[p] = s
<1>1. executionState[p] \in ExecutionState /\ pendingAction[p] \in PendingAction
  BY DEF IInv, Typed
<1>. QED BY <1>1, RowIsWritten DEF SetStatus

\* What no write does.
LEMMA RowIsKept ==
  ASSUME IInv, NEW p \in PRs, UNCHANGED row
  PROVE  WritesRow(p) /\ status'[p] = status[p]
  BY DEF IInv, Typed, WritesRow, row

\* A refresh writes the status it computed, unless the PR is busy.
LEMMA RefreshEndsKeeps ==
  ASSUME IInv, NEW j \in Jobs, RefreshEnds(j)
  PROVE  IInv'
<1>. DEFINE p == job[j].pr
            seen == job[j].seen
<1>1. /\ job[j].at \in {"refreshing", "keeping"} /\ job[j].op # "none" /\ p \in PRs
      /\ seen \in LocalPRStatus /\ seen # "merged"
  BY DEF RefreshEnds, IInv, Typed, JobsInOrder, JobRecord, Idle
<1>2. /\ WritesRow(p)
      /\ (status'[p] = status[p] \/ status'[p] \notin {"merging", "reviewing", "merged"})
  <2>1. Refreshed(seen, job[j].at) \in LocalPRStatus
    BY <1>1 DEF Refreshed, LocalPRStatus
  <2>2. seen \notin BusyStatuses =>
          Refreshed(seen, job[j].at) \notin {"merging", "reviewing", "merged"}
    BY <1>1 DEF Refreshed, BusyStatuses
  <2>3. \/ UNCHANGED row
        \/ seen \notin BusyStatuses /\ SetStatus(p, Refreshed(seen, job[j].at))
    BY DEF RefreshEnds
  <2>. QED BY <1>1, <2>1, <2>2, <2>3, StatusIsWritten, RowIsKept
<1>3. ~ LiveConflict(j) /\ ~ Merges(j, p) /\ ~ Reviews(j, p)
  BY <1>1 DEF LiveConflict, Merges, Reviews
<1>4. GuardFollows(j, p)
  <2>1. UNCHANGED activeConflictIds /\ End(j)
    BY DEF RefreshEnds
  <2>. QED BY <1>3, <2>1, JobEnds DEF GuardFollows, LiveConflict, IInv
<1>5. /\ End(j) /\ Release(j) /\ (job[j].op \in LockOps => HoldsLock(j))
      /\ UNCHANGED <<inMain, reverted, lost, batch>> /\ unseen' \subseteq PRs
      /\ activeReviewIds' \subseteq PRs
  BY DEF RefreshEnds, IInv, Typed, LockInOrder
<1>. HIDE DEF p, seen
<1>6. job[j].pr = p
  BY DEF p
<1>. QED BY <1>1, <1>2, <1>3, <1>4, <1>5, <1>6, JobIsOver

\* The review has its session.
LEMMA ReviewStartsKeeps ==
  ASSUME IInv, NEW j \in Jobs, ReviewStarts(j)
  PROVE  IInv'
<1>0. Changes(j) /\ job' \in [Jobs -> JobRecord]
  BY DEF IInv, Typed, ReviewStarts, Continue, JobRecord, LocalPRStatus, Ops, Places, Changes,
     row
<1>1. Typed'
  <2>1. /\ status' \in [PRs -> LocalPRStatus \cup {"absent"}]
        /\ executionState' \in [PRs -> ExecutionState]
        /\ pendingAction' \in [PRs -> PendingAction]
    BY DEF IInv, Typed, ReviewStarts, row
  <2>2. mergeLock' \in Seq(Jobs)
    BY DEF IInv, Typed, ReviewStarts
  <2>. QED BY <1>0, <2>1, <2>2 DEF IInv, Typed, ReviewStarts, repo, JobsInOrder
<1>2. JobsInOrder'
  BY <1>0 DEF IInv, ReviewStarts, Continue, repo, JobsInOrder
<1>3. LockInOrder'
  BY <1>0, LockStays DEF IInv, ReviewStarts, Continue, LockInOrder
<1>4. BusyRowIsDriven'
  <2>1. job[j].pr \in PRs
    BY DEF IInv, JobsInOrder, ReviewStarts
  <2>. QED BY <1>0, <2>1, BusyStays DEF IInv, ReviewStarts, Continue, row, Merges, Reviews
<1>5. ConflictGuardIsRight'
  BY <1>0, GuardStays DEF IInv, ReviewStarts, Continue, LiveConflict
<1>6. MergedOnce'
  BY DEF IInv, ReviewStarts, row, repo, MergedOnce
<1>. QED BY <1>1, <1>2, <1>3, <1>4, <1>5, <1>6 DEF IInv

\* The review gets no session.
LEMMA ReviewStartFailsKeeps ==
  ASSUME IInv, NEW j \in Jobs, ReviewStartFails(j)
  PROVE  IInv'
<1>0. Changes(j) /\ job' \in [Jobs -> JobRecord]
  BY DEF IInv, Typed, ReviewStartFails, End, Idle, JobRecord, Ops, Places, Changes
<1>1. Typed'
  <2>1. /\ status' \in [PRs -> LocalPRStatus \cup {"absent"}]
        /\ executionState' \in [PRs -> ExecutionState]
        /\ pendingAction' \in [PRs -> PendingAction]
    BY DEF IInv, Typed, ReviewStartFails, row
  <2>2. mergeLock' \in Seq(Jobs)
    BY DEF IInv, Typed, ReviewStartFails
  <2>. QED BY <1>0, <2>1, <2>2 DEF IInv, Typed, ReviewStartFails, repo, JobsInOrder
<1>2. JobsInOrder'
  BY <1>0 DEF IInv, ReviewStartFails, End, Idle, repo, JobsInOrder
<1>3. LockInOrder'
  BY <1>0, LockStays DEF IInv, ReviewStartFails, End, Idle, LockInOrder, LockOps
<1>4. BusyRowIsDriven'
  <2>1. job[j].pr \in PRs
    BY DEF IInv, JobsInOrder, ReviewStartFails
  <2>. QED BY <1>0, <2>1, BusyStays DEF IInv, ReviewStartFails, row, Merges, Reviews
<1>5. ConflictGuardIsRight'
  BY <1>0, GuardStays DEF IInv, ReviewStartFails, End, Idle, LiveConflict
<1>6. MergedOnce'
  BY DEF IInv, ReviewStartFails, row, repo, MergedOnce
<1>. QED BY <1>1, <1>2, <1>3, <1>4, <1>5, <1>6 DEF IInv

\* The reviewer says approved or failed.
LEMMA ReviewVerdictKeeps ==
  ASSUME IInv, NEW j \in Jobs, NEW verdict \in {"approved", "review_failed"},
         ReviewVerdict(j, verdict)
  PROVE  IInv'
<1>1. /\ job[j].op = "review" /\ job[j].at = "closing" /\ job[j].pr \in PRs
      /\ Refresh(j, "keeping", verdict) /\ SetRow(job[j].pr, verdict, "idle", "none")
      /\ UNCHANGED <<repo, mergeLock, activeReviewIds, activeConflictIds, batch, lost>>
  BY DEF ReviewVerdict, IInv, JobsInOrder
<1>2. /\ Changes(j) /\ job' \in [Jobs -> JobRecord] /\ job'[j].op = "review"
      /\ job'[j].pr = job[j].pr
      /\ job'[j].at = "keeping" /\ job'[j].seen = verdict
  BY <1>1, JobRefreshes DEF IInv, Places, LocalPRStatus
<1>3. WritesRow(job[j].pr) /\ status'[job[j].pr] = verdict
  BY <1>1, RowIsWritten DEF LocalPRStatus, ExecutionState, PendingAction
<1>4. GuardFollows(j, job[j].pr)
  BY <1>1, <1>2 DEF GuardFollows, LiveConflict
<1>. QED BY <1>1, <1>2, <1>3, <1>4, JobGoesOn DEF IInv, Typed, repo, LockOps

\* A merge gets the lock: it begins, is queued or is not possible.
LEMMA MergeEntersKeeps ==
  ASSUME IInv, NEW j \in Jobs, NEW slot \in BOOLEAN, MergeEnters(j, slot)
  PROVE  IInv'
<1>. DEFINE p == job[j].pr
<1>1. /\ job[j].op = "merge" /\ job[j].at = "waiting" /\ p \in PRs /\ HoldsLock(j)
      /\ UNCHANGED <<repo, activeReviewIds, activeConflictIds, batch, lost>>
  BY DEF MergeEnters, Enters, IInv, JobsInOrder
<1>2. ~ LiveConflict(j) /\ ~ Merges(j, p) /\ ~ Reviews(j, p)
  BY <1>1 DEF LiveConflict, Merges, Reviews
<1>3. CASE ~ Mergeable(p) \/ ~ slot
  <2>1. End(j) /\ Release(j) /\ (UNCHANGED row \/ (Mergeable(p) /\ MergeQueued(p)))
    BY <1>3 DEF MergeEnters
  <2>2. WritesRow(p) /\ (status'[p] = status[p] \/ status'[p] = "approved")
    <3>1. Mergeable(p) =>
            /\ (IF status[p] = "open" THEN "approved" ELSE status[p]) \in LocalPRStatus \cup {"absent"}
            /\ "queued" \in ExecutionState /\ "merge" \in PendingAction
      BY DEF Mergeable, LocalPRStatus, ExecutionState, PendingAction
    <3>2. CASE UNCHANGED row
      BY <1>1, <3>2, RowIsKept
    <3>3. CASE Mergeable(p) /\ MergeQueued(p)
      <4>. HIDE DEF p
      <4>. QED BY <1>1, <3>1, <3>3, RowIsWritten DEF MergeQueued
    <3>. QED BY <2>1, <3>2, <3>3
  <2>3. GuardFollows(j, p)
    BY <1>1, <1>2, <2>1, JobEnds DEF GuardFollows, LiveConflict, IInv
  <2>4. job[j].pr = p
    OBVIOUS
  <2>. HIDE DEF p
  <2>. QED BY <1>1, <1>2, <2>1, <2>2, <2>3, <2>4, JobIsOver DEF IInv, Typed, repo
<1>4. CASE Mergeable(p) /\ slot
  <2>1. SetRow(p, "approved", "running", "merge") /\ Continue(j, "checking") /\ UNCHANGED mergeLock
    BY <1>4 DEF MergeEnters
  <2>2. WritesRow(p) /\ status'[p] = "approved"
    BY <1>1, <2>1, RowIsWritten DEF LocalPRStatus, ExecutionState, PendingAction
  <2>3. /\ Changes(j) /\ job' \in [Jobs -> JobRecord] /\ job'[j].op = job[j].op /\ job'[j].pr = p
        /\ job'[j].at = "checking"
    BY <2>1, JobContinues DEF IInv, Places
  <2>4. GuardFollows(j, p)
    BY <1>1, <1>2, <2>3 DEF GuardFollows, LiveConflict
  <2>5. job[j].pr = p
    OBVIOUS
  <2>. HIDE DEF p
  <2>. QED BY <1>1, <1>2, <2>1, <2>2, <2>3, <2>4, <2>5, JobGoesOn DEF IInv, Typed, repo
<1>. QED BY <1>3, <1>4

\* A merge looks at the main worktree, which may be dirty, and shows the PR as merging.
LEMMA MergeChecksKeeps ==
  ASSUME IInv, NEW j \in Jobs, MergeChecks(j)
  PROVE  IInv'
<1>. DEFINE p == job[j].pr
<1>1. /\ job[j].op = "merge" /\ job[j].at = "checking" /\ p \in PRs /\ HoldsLock(j)
      /\ UNCHANGED <<repo, activeReviewIds, activeConflictIds, batch, lost>>
  BY DEF MergeChecks, IInv, JobsInOrder, LockInOrder, LockOps
<1>2. ~ LiveConflict(j) /\ ~ Merges(j, p) /\ ~ Reviews(j, p)
  BY <1>1 DEF LiveConflict, Merges, Reviews
<1>3. job[j].pr = p
  OBVIOUS
<1>4. CASE SetStatus(p, "merging") /\ Continue(j, "working") /\ UNCHANGED mergeLock
  <2>1. WritesRow(p) /\ status'[p] = "merging"
    BY <1>1, <1>4, StatusIsWritten DEF LocalPRStatus
  <2>2. /\ Changes(j) /\ job' \in [Jobs -> JobRecord] /\ job'[j].op = job[j].op /\ job'[j].pr = p
        /\ job'[j].at = "working"
    BY <1>4, JobContinues DEF IInv, Places
  <2>3. GuardFollows(j, p) /\ job'[j].op = "merge"
    BY <1>1, <1>2, <2>2 DEF GuardFollows, LiveConflict
  <2>4. /\ UNCHANGED <<inMain, reverted, mergeLock, lost, batch, activeConflictIds>>
        /\ unseen' \subseteq PRs /\ activeReviewIds' \subseteq PRs /\ job[j].op # "none"
        /\ job'[j].at \notin {"refreshing", "keeping"} /\ status'[p] \notin {"reviewing", "merged"}
    BY <1>1, <1>4, <2>1, <2>2 DEF IInv, Typed, repo
  <2>. HIDE DEF p
  <2>. QED BY <1>1, <1>3, <2>1, <2>2, <2>3, <2>4, JobGoesOn DEF Merges
<1>5. CASE SetRow(p, "approved", "idle", "none") /\ End(j) /\ Release(j)
  <2>1. WritesRow(p) /\ status'[p] = "approved"
    BY <1>1, <1>5, RowIsWritten DEF LocalPRStatus, ExecutionState, PendingAction
  <2>2. GuardFollows(j, p)
    BY <1>1, <1>2, <1>5, JobEnds DEF GuardFollows, LiveConflict, IInv
  <2>. HIDE DEF p
  <2>. QED BY <1>1, <1>2, <1>3, <1>5, <2>1, <2>2, JobIsOver DEF IInv, Typed, repo
<1>. QED BY <1>4, <1>5 DEF MergeChecks

\* The look at the main worktree throws.
LEMMA MergeCheckThrowsKeeps ==
  ASSUME IInv, NEW j \in Jobs, MergeCheckThrows(j)
  PROVE  IInv'
<1>. DEFINE p == job[j].pr
<1>1. /\ job[j].op = "merge" /\ job[j].at = "checking" /\ p \in PRs /\ HoldsLock(j)
      /\ End(j) /\ Release(j) /\ UNCHANGED row
      /\ UNCHANGED <<repo, activeReviewIds, activeConflictIds, batch, lost>>
  BY DEF MergeCheckThrows, IInv, JobsInOrder, LockInOrder, LockOps
<1>2. WritesRow(p) /\ status'[p] = status[p]
  BY <1>1, RowIsKept
<1>3. GuardFollows(j, p) /\ ~ Merges(j, p) /\ ~ Reviews(j, p) /\ job[j].pr = p
  BY <1>1, JobEnds DEF GuardFollows, LiveConflict, IInv, Merges, Reviews
<1>. HIDE DEF p
<1>. QED BY <1>1, <1>2, <1>3, JobIsOver DEF IInv, Typed, repo

\* A merge puts the commits into the base branch.
LEMMA MergeSucceedsKeeps ==
  ASSUME IInv, NEW j \in Jobs, MergeSucceeds(j)
  PROVE  IInv'
<1>0. Changes(j) /\ job' \in [Jobs -> JobRecord]
  BY DEF IInv, Typed, MergeSucceeds, End, Idle, JobRecord, Ops, Places, Changes
<1>1. Typed'
  <2>1. /\ status' \in [PRs -> LocalPRStatus \cup {"absent"}]
        /\ executionState' \in [PRs -> ExecutionState]
        /\ pendingAction' \in [PRs -> PendingAction]
    BY DEF IInv, Typed, MergeSucceeds, SetRow, LocalPRStatus, ExecutionState, PendingAction
  <2>2. mergeLock' \in Seq(Jobs)
    BY ReleaseTyped DEF IInv, MergeSucceeds
  <2>. QED BY <1>0, <2>1, <2>2 DEF IInv, Typed, MergeSucceeds, MergeWorks, Merged, JobsInOrder
<1>2. JobsInOrder'
  BY <1>0 DEF IInv, MergeSucceeds, Merged, End, Idle, JobsInOrder
<1>3. LockInOrder'
  BY <1>0, LockIsReleased DEF IInv, MergeSucceeds, MergeWorks, End, Idle, LockInOrder, LockOps
<1>4. BusyRowIsDriven'
  <2>1. job[j].pr \in PRs
    BY DEF IInv, JobsInOrder, MergeSucceeds, MergeWorks
  <2>. QED BY <1>0, <2>1, BusyStays DEF IInv, Typed, MergeSucceeds, SetRow, Merges, Reviews
<1>5. ConflictGuardIsRight'
  BY <1>0, GuardStays DEF IInv, MergeSucceeds, MergeWorks, End, Idle, LiveConflict
<1>6. MergedOnce'
  BY DEF IInv, Typed, MergeSucceeds, Merged, SetRow, MergedOnce
<1>. QED BY <1>1, <1>2, <1>3, <1>4, <1>5, <1>6 DEF IInv

\* A merge meets a conflict and starts a session that resolves it.
LEMMA MergeConflictsKeeps ==
  ASSUME IInv, NEW j \in Jobs, MergeConflicts(j)
  PROVE  IInv'
<1>. DEFINE p == job[j].pr
<1>1. /\ job[j].op = "merge" /\ job[j].at = "working" /\ p \in PRs /\ HoldsLock(j) /\ Release(j)
      /\ UNCHANGED <<repo, activeReviewIds, batch, lost>>
  BY DEF MergeConflicts, MergeWorks, IInv, JobsInOrder, LockInOrder, LockOps
<1>2. ~ LiveConflict(j) /\ job[j].pr = p
  BY <1>1 DEF LiveConflict
<1>3. CASE p \in activeConflictIds
  <2>1. SetRow(p, "conflict", "idle", "none") /\ End(j) /\ UNCHANGED activeConflictIds
    BY <1>3 DEF MergeConflicts
  <2>2. WritesRow(p) /\ status'[p] = "conflict"
    BY <1>1, <2>1, RowIsWritten DEF LocalPRStatus, ExecutionState, PendingAction
  <2>3. GuardFollows(j, p)
    BY <1>1, <1>2, <2>1, JobEnds DEF GuardFollows, LiveConflict, IInv
  <2>. HIDE DEF p
  <2>. QED BY <1>1, <1>2, <2>1, <2>2, <2>3, JobIsOver DEF IInv, Typed, repo
<1>4. CASE p \notin activeConflictIds
  <2>1. /\ SetRow(p, "conflict", "running", "resolve_conflict") /\ Begin(j, "conflict", p, "live")
        /\ activeConflictIds' = activeConflictIds \cup {p}
    BY <1>4 DEF MergeConflicts
  <2>2. WritesRow(p) /\ status'[p] = "conflict"
    BY <1>1, <2>1, RowIsWritten DEF LocalPRStatus, ExecutionState, PendingAction
  <2>3. /\ Changes(j) /\ job' \in [Jobs -> JobRecord] /\ job'[j].op = "conflict" /\ job'[j].pr = p
        /\ job'[j].at = "live"
    BY <1>1, <2>1, JobBegins DEF IInv, Ops, Places
  <2>. HIDE DEF p
  <2>4. mergeLock' \in Seq(Jobs)
    BY <1>1, ReleaseTyped DEF IInv
  <2>5. Typed'
    BY <1>1, <2>1, <2>2, <2>3, <2>4 DEF IInv, Typed, WritesRow, repo
  <2>6. JobsInOrder'
    BY <1>1, <2>3, OrderStays DEF repo
  <2>7. LockInOrder'
    BY <1>1, <2>3, LockIsReleased DEF IInv, Changes, LockOps
  <2>8. BusyRowIsDriven'
    <3>1. \A q \in PRs \ {p} : status'[q] = status[q] /\ ~ Merges(j, q) /\ ~ Reviews(j, q)
      BY <1>1, <1>2, <2>2 DEF WritesRow, Merges, Reviews
    <3>. QED BY <1>1, <2>2, <2>3, <3>1, BusyStays DEF IInv
  <2>9. ConflictGuardIsRight'
    BY <1>2, <1>4, <2>1, <2>3, GuardIsSet DEF IInv, LiveConflict
  <2>10. MergedOnce'
    BY <1>1, <2>2 DEF IInv, MergedOnce, WritesRow, repo
  <2>. QED BY <2>5, <2>6, <2>7, <2>8, <2>9, <2>10 DEF IInv
<1>. QED BY <1>3, <1>4

\* A merge fails otherwise.
LEMMA MergeThrowsKeeps ==
  ASSUME IInv, NEW j \in Jobs, MergeThrows(j)
  PROVE  IInv'
<1>1. /\ job[j].op = "merge" /\ job[j].at = "working" /\ job[j].pr \in PRs /\ HoldsLock(j)
      /\ Refresh(j, "refreshing", "approved")
      /\ UNCHANGED <<unseen, reverted, mergeLock, activeReviewIds, activeConflictIds, batch, lost>>
  BY DEF MergeThrows, MergeWorks, IInv, JobsInOrder, LockInOrder, LockOps
<1>2. /\ Changes(j) /\ job' \in [Jobs -> JobRecord] /\ job'[j].op = "merge"
      /\ job'[j].pr = job[j].pr
      /\ job'[j].at = "refreshing" /\ job'[j].seen = "approved"
  BY <1>1, JobRefreshes DEF IInv, Places, LocalPRStatus
<1>3. WritesRow(job[j].pr) /\ status'[job[j].pr] = "approved"
  <2>1. \E a \in PendingAction : SetRow(job[j].pr, "approved", "failed", a)
    BY DEF MergeThrows, PendingAction
  <2>. QED BY <1>1, <2>1, RowIsWritten DEF LocalPRStatus, ExecutionState
<1>4. GuardFollows(j, job[j].pr)
  BY <1>1, <1>2 DEF GuardFollows, LiveConflict
<1>5. RepoGrows
  BY <1>1 DEF MergeThrows, Merged, RepoGrows, IInv, Typed
<1>. QED BY <1>1, <1>2, <1>3, <1>4, <1>5, JobGoesOn DEF IInv, Typed

\* A merge is cancelled, under the lock.
LEMMA CancelEndsKeeps ==
  ASSUME IInv, NEW j \in Jobs, CancelEnds(j)
  PROVE  IInv'
<1>1. /\ job[j].op = "cancel" /\ job[j].pr \in PRs /\ HoldsLock(j)
      /\ Refresh(j, "refreshing", "approved") /\ SetStatus(job[j].pr, "approved")
      /\ UNCHANGED <<repo, mergeLock, activeReviewIds, activeConflictIds, batch, lost>>
  BY DEF CancelEnds, Enters, IInv, JobsInOrder
<1>2. /\ Changes(j) /\ job' \in [Jobs -> JobRecord] /\ job'[j].op = "cancel"
      /\ job'[j].pr = job[j].pr
      /\ job'[j].at = "refreshing" /\ job'[j].seen = "approved"
  BY <1>1, JobRefreshes DEF IInv, Places, LocalPRStatus
<1>3. WritesRow(job[j].pr) /\ status'[job[j].pr] = "approved"
  BY <1>1, StatusIsWritten DEF LocalPRStatus
<1>4. GuardFollows(j, job[j].pr)
  BY <1>1, <1>2 DEF GuardFollows, LiveConflict
<1>. QED BY <1>1, <1>2, <1>3, <1>4, JobGoesOn DEF IInv, Typed, repo

\* A merge is reverted, under the lock,
LEMMA RevertWorksKeeps ==
  ASSUME IInv, NEW j \in Jobs, RevertWorks(j)
  PROVE  IInv'
<1>1. /\ job[j].op = "revert" /\ job[j].at = "waiting" /\ job[j].pr \in PRs /\ HoldsLock(j)
      /\ Continue(j, "reverted") /\ inMain' = inMain \ {job[j].pr}
      /\ reverted' = reverted \cup {job[j].pr}
      /\ UNCHANGED <<row, unseen, mergeLock, activeReviewIds, activeConflictIds, batch, lost>>
  BY DEF RevertWorks, Enters, IInv, JobsInOrder
<1>2. /\ Changes(j) /\ job' \in [Jobs -> JobRecord] /\ job'[j].op = "revert"
      /\ job'[j].pr = job[j].pr /\ job'[j].at = "reverted"
  BY <1>1, JobContinues DEF IInv, Places
<1>3. WritesRow(job[j].pr) /\ status'[job[j].pr] = status[job[j].pr]
  BY <1>1, RowIsKept
<1>4. /\ GuardFollows(j, job[j].pr)
      /\ ~ Merges(j, job[j].pr) /\ ~ Reviews(j, job[j].pr)
  BY <1>1, <1>2 DEF GuardFollows, LiveConflict, Merges, Reviews
<1>5. RepoGrows
  BY <1>1 DEF RepoGrows, IInv, Typed
<1>. QED BY <1>1, <1>2, <1>3, <1>4, <1>5, JobGoesOn DEF IInv, Typed

\* and its row is written; or the revert fails, or throws.
LEMMA RevertIsOverKeeps ==
  ASSUME IInv, NEW j \in Jobs, RevertEnds(j) \/ RevertFails(j) \/ RevertThrows(j)
  PROVE  IInv'
<1>. DEFINE p == job[j].pr
<1>1. /\ job[j].op = "revert" /\ job[j].at \in {"waiting", "reverted"} /\ p \in PRs /\ HoldsLock(j)
      /\ End(j) /\ Release(j) /\ p \in inMain \cup reverted
      /\ UNCHANGED <<repo, activeReviewIds, activeConflictIds, batch, lost>>
  BY DEF RevertEnds, RevertFails, RevertThrows, Enters, IInv, JobsInOrder, LockInOrder, LockOps
<1>2. WritesRow(p) /\ (status'[p] = status[p] \/ status'[p] \in {"closed", "merged"})
  <2>1. UNCHANGED row \/ SetStatus(p, "closed") \/ SetStatus(p, "merged")
    BY DEF RevertEnds, RevertFails, RevertThrows
  <2>. HIDE DEF p
  <2>. QED BY <1>1, <2>1, StatusIsWritten, RowIsKept DEF LocalPRStatus
<1>3. GuardFollows(j, p) /\ ~ Merges(j, p) /\ ~ Reviews(j, p) /\ job[j].pr = p
  BY <1>1, JobEnds DEF GuardFollows, LiveConflict, IInv, Merges, Reviews
<1>. HIDE DEF p
<1>. QED BY <1>1, <1>2, <1>3, JobIsOver DEF IInv, Typed, repo

\* The session of a review is over.
LEMMA ReviewSessionEndsKeeps ==
  ASSUME IInv, NEW j \in Jobs, ReviewSessionEnds(j)
  PROVE  IInv'
<1>. DEFINE p == job[j].pr
<1>1. /\ job[j].op = "review" /\ job[j].at = "live" /\ p \in PRs
      /\ activeReviewIds' \subseteq activeReviewIds
      /\ UNCHANGED <<row, repo, mergeLock, activeConflictIds, batch, lost>>
  BY DEF ReviewSessionEnds, IInv, JobsInOrder
<1>2. job[j].pr = p /\ job[j].op \notin LockOps /\ ~ LiveConflict(j) /\ ~ Merges(j, p)
  BY <1>1 DEF LockOps, LiveConflict, Merges
<1>3. WritesRow(p) /\ status'[p] = status[p]
  BY <1>1, RowIsKept
<1>4. CASE status[p] = "reviewing"
  <2>1. /\ Changes(j) /\ job' \in [Jobs -> JobRecord] /\ job'[j].op = job[j].op /\ job'[j].pr = p
        /\ job'[j].at = "closing"
    BY <1>4, JobContinues DEF ReviewSessionEnds, IInv, Places
  <2>2. GuardFollows(j, p) /\ job'[j].op = "review"
    BY <1>1, <1>2, <2>1 DEF GuardFollows, LiveConflict
  <2>3. /\ UNCHANGED <<inMain, reverted, mergeLock, lost, batch, activeConflictIds>>
        /\ unseen' \subseteq PRs /\ activeReviewIds' \subseteq PRs /\ job[j].op # "none"
        /\ job'[j].at \notin {"refreshing", "keeping"} /\ status'[p] \notin {"merging", "merged"}
    BY <1>1, <1>3, <1>4, <2>1 DEF IInv, Typed, repo
  <2>. HIDE DEF p
  <2>. QED BY <1>1, <1>2, <1>3, <2>1, <2>2, <2>3, JobGoesOn DEF Reviews
<1>5. CASE status[p] # "reviewing"
  <2>1. End(j)
    BY <1>5 DEF ReviewSessionEnds
  <2>2. GuardFollows(j, p)
    BY <1>1, <1>2, <2>1, JobEnds DEF GuardFollows, LiveConflict, IInv
  <2>. HIDE DEF p
  <2>. QED BY <1>1, <1>2, <1>3, <1>5, <2>1, <2>2, JobIsOver DEF IInv, Typed, repo
<1>. QED BY <1>4, <1>5

\* The session that resolves a conflict is over.
LEMMA ConflictSessionEndsKeeps ==
  ASSUME IInv, NEW j \in Jobs, ConflictSessionEnds(j)
  PROVE  IInv'
<1>. DEFINE p == job[j].pr
<1>1. /\ job[j].op = "conflict" /\ job[j].at = "live" /\ p \in PRs
      /\ activeConflictIds' = activeConflictIds \ {p}
      /\ UNCHANGED <<repo, mergeLock, activeReviewIds, batch, lost>>
  BY DEF ConflictSessionEnds, IInv, JobsInOrder
<1>2. /\ job[j].pr = p /\ job[j].op \notin LockOps /\ LiveConflict(j)
      /\ ~ Merges(j, p) /\ ~ Reviews(j, p)
  BY <1>1 DEF LockOps, LiveConflict, Merges, Reviews
<1>3. CASE /\ status[p] = "conflict" /\ SetRow(p, "open", "idle", "none")
           /\ Refresh(j, "refreshing", "open")
  <2>1. WritesRow(p) /\ status'[p] = "open"
    BY <1>1, <1>3, RowIsWritten DEF LocalPRStatus, ExecutionState, PendingAction
  <2>2. /\ Changes(j) /\ job' \in [Jobs -> JobRecord] /\ job'[j].op = job[j].op /\ job'[j].pr = p
        /\ job'[j].at = "refreshing" /\ job'[j].seen = "open"
    BY <1>3, JobRefreshes DEF IInv, Places, LocalPRStatus
  <2>3. GuardFollows(j, p)
    BY <1>1, <1>2, <2>2 DEF GuardFollows, LiveConflict
  <2>. HIDE DEF p
  <2>. QED BY <1>1, <1>2, <2>1, <2>2, <2>3, JobGoesOn DEF IInv, Typed, repo
<1>4. CASE /\ End(j)
           /\ \/ status[p] # "conflict" /\ UNCHANGED row
              \/ status[p] = "conflict" /\ SetRow(p, "conflict", "failed", pendingAction[p])
  <2>1. WritesRow(p) /\ (status'[p] = status[p] \/ status'[p] = "conflict")
    <3>1. /\ pendingAction[p] \in PendingAction /\ "conflict" \in LocalPRStatus
          /\ "failed" \in ExecutionState
      BY <1>1 DEF IInv, Typed, LocalPRStatus, ExecutionState
    <3>. HIDE DEF p
    <3>. QED BY <1>1, <1>4, <3>1, RowIsKept, RowIsWritten
  <2>2. GuardFollows(j, p)
    BY <1>1, <1>2, <1>4, JobEnds DEF GuardFollows, LiveConflict, IInv
  <2>. HIDE DEF p
  <2>. QED BY <1>1, <1>2, <1>4, <2>1, <2>2, JobIsOver DEF IInv, Typed, repo
<1>. QED BY <1>3, <1>4 DEF ConflictSessionEnds

\* The tick refreshes a PR.
LEMMA AutoRefreshKeeps ==
  ASSUME IInv, NEW j \in Jobs, NEW p \in PRs, AutoRefresh(j, p)
  PROVE  IInv'
<1>0. Changes(j) /\ job' \in [Jobs -> JobRecord]
  BY DEF IInv, Typed, AutoRefresh, IsActive, JobRecord, Ops, Places, Changes
<1>1. Typed'
  <2>1. /\ status' \in [PRs -> LocalPRStatus \cup {"absent"}]
        /\ executionState' \in [PRs -> ExecutionState]
        /\ pendingAction' \in [PRs -> PendingAction]
    BY DEF IInv, Typed, AutoRefresh, row
  <2>2. mergeLock' \in Seq(Jobs)
    BY DEF IInv, Typed, AutoRefresh
  <2>. QED BY <1>0, <2>1, <2>2 DEF IInv, Typed, AutoRefresh, repo
<1>2. JobsInOrder'
  BY <1>0 DEF IInv, Typed, AutoRefresh, IsActive, repo, LocalPRStatus, JobsInOrder
<1>3. LockInOrder'
  BY <1>0, LockStays DEF IInv, AutoRefresh, IsFree, Idle, JobRecord, LockInOrder, LockOps
<1>4. BusyRowIsDriven'
  <2>1. p \in PRs
    BY DEF BusyStatuses
  <2>. QED BY <1>0, <2>1, BusyStays DEF IInv, AutoRefresh, IsFree, Idle, row, Merges, Reviews
<1>5. ConflictGuardIsRight'
  BY <1>0, GuardStays DEF IInv, AutoRefresh, IsFree, Idle, LiveConflict
<1>6. MergedOnce'
  BY DEF IInv, AutoRefresh, row, repo, MergedOnce
<1>. QED BY <1>1, <1>2, <1>3, <1>4, <1>5, <1>6 DEF IInv

\* A user asks for a review.
LEMMA AskForReviewKeeps ==
  ASSUME IInv, NEW j \in Jobs, NEW p \in PRs, NEW slot \in BOOLEAN, AskForReview(j, p, slot)
  PROVE  IInv'
<1>1. /\ IsFree(j) /\ status[p] \in {"open", "review_failed"} /\ StartReview(j, p, "open", slot)
      /\ UNCHANGED <<repo, mergeLock, activeReviewIds, activeConflictIds, lost>>
      /\ batch' \subseteq batch
  BY DEF AskForReview
<1>. QED BY <1>1, ReviewStarted

\* A user asks for a merge, for its end, or for its revert.
LEMMA CallsLockKeeps ==
  ASSUME IInv, NEW j \in Jobs, NEW p \in PRs,
         MergePR(j, p) \/ CancelMerge(j, p) \/ RevertMergedPR(j, p)
  PROVE  IInv'
<1>1. /\ status' = status /\ executionState' \in [PRs -> ExecutionState]
      /\ pendingAction' \in [PRs -> PendingAction]
      /\ UNCHANGED <<repo, activeReviewIds, activeConflictIds, lost>> /\ batch' \subseteq batch
      /\ IsFree(j)
  BY DEF MergePR, CancelMerge, RevertMergedPR, row, IInv, Typed
<1>2. \E op \in LockOps : CallsLock(j, op, p) /\ (op = "revert" => p \in inMain \cup reverted)
  BY DEF MergePR, CancelMerge, RevertMergedPR, IInv, MergedOnce, LockOps
<1>. QED BY <1>1, <1>2, LockCalled

\* A user asks for the conflict to be resolved.
LEMMA TriggerConflictKeeps ==
  ASSUME IInv, NEW j \in Jobs, NEW p \in PRs, TriggerConflict(j, p)
  PROVE  IInv'
  BY ConflictStarted DEF TriggerConflict

\* A busy row that no session drives is reset.
LEMMA ResetStaleKeeps ==
  ASSUME IInv, NEW j \in Jobs, NEW p \in PRs, ResetStale(j, p)
  PROVE  IInv'
<1>0. Changes(j) /\ job' \in [Jobs -> JobRecord]
  BY DEF IInv, Typed, ResetStale, JobRecord, LocalPRStatus, Ops, Places, Changes
<1>1. Typed'
  <2>1. /\ status' \in [PRs -> LocalPRStatus \cup {"absent"}]
        /\ executionState' \in [PRs -> ExecutionState]
        /\ pendingAction' \in [PRs -> PendingAction]
    BY DEF IInv, Typed, ResetStale, SetRow, LocalPRStatus, ExecutionState, PendingAction
  <2>2. mergeLock' \in Seq(Jobs)
    BY DEF IInv, Typed, ResetStale
  <2>. QED BY <1>0, <2>1, <2>2 DEF IInv, Typed, ResetStale, repo
<1>2. JobsInOrder'
  BY <1>0 DEF IInv, ResetStale, repo, JobsInOrder
<1>3. LockInOrder'
  BY <1>0, LockStays DEF IInv, ResetStale, IsFree, Idle, LockInOrder, LockOps
<1>4. BusyRowIsDriven'
  <2>1. p \in PRs
    BY DEF IsFree
  <2>. QED BY <1>0, <2>1, BusyStays DEF IInv, Typed, ResetStale, IsFree, SetRow, Idle, Merges,
     Reviews
<1>5. ConflictGuardIsRight'
  BY <1>0, GuardStays DEF IInv, ResetStale, IsFree, Idle, LiveConflict
<1>6. MergedOnce'
  BY DEF IInv, ResetStale, SetRow, repo, MergedOnce
<1>. QED BY <1>1, <1>2, <1>3, <1>4, <1>5, <1>6 DEF IInv

\* The tick serves an action that was queued.
LEMMA ServeQueuedKeeps ==
  ASSUME IInv, NEW j \in Jobs, NEW p \in PRs, NEW slot \in BOOLEAN, NEW action \in PendingAction,
         ServeQueued(j, p, action, slot)
  PROVE  IInv'
<1>1. /\ IsFree(j) /\ batch' \subseteq batch /\ UNCHANGED <<repo, activeReviewIds, lost>>
  BY DEF ServeQueued
<1>2. CASE StartReview(j, p, status[p], TRUE) /\ UNCHANGED <<mergeLock, activeConflictIds>>
  BY <1>1, <1>2, ReviewStarted
<1>3. CASE StartConflict(j, p) /\ UNCHANGED mergeLock
  BY <1>1, <1>3, ConflictStarted
<1>4. CASE SetRow(p, status[p], "running", pendingAction[p]) \/ UNCHANGED row
  <2>1. /\ status' = status /\ executionState' \in [PRs -> ExecutionState]
        /\ pendingAction' \in [PRs -> PendingAction]
    BY <1>4 DEF SetRow, row, IInv, Typed, ExecutionState
  <2>2. CASE CallsLock(j, "merge", p) /\ UNCHANGED activeConflictIds
    BY <1>1, <2>1, <2>2, LockCalled DEF LockOps
  <2>3. CASE UNCHANGED <<job, mergeLock, activeConflictIds>>
    BY <1>1, <2>1, <2>3 DEF IInv, Typed, JobsInOrder, LockInOrder, HoldsLock, BusyRowIsDriven,
       MergeWorks, ConflictGuardIsRight, MergedOnce, repo
  <2>4. CallsLock(j, "merge", p) \/ UNCHANGED <<job, mergeLock>>
        \/ StartReview(j, p, status[p], TRUE) \/ StartConflict(j, p)
    BY DEF ServeQueued
  <2>. QED BY <1>2, <1>3, <2>2, <2>3 DEF ServeQueued
<1>. QED BY <1>2, <1>3, <1>4 DEF ServeQueued

\* The commands that write a row only.
LEMMA RowCommandKeeps ==
  ASSUME IInv, NEW p \in PRs, RowCommand(p)
  PROVE  IInv'
<1>1. Typed'
  BY DEF IInv, Typed, RowCommand, CreatePR, Close, RetryReview, ReopenPR, CancelQueue, Requeue,
     Write, SetRow, LocalPRStatus, ExecutionState, PendingAction, repo, memory
<1>2. JobsInOrder'
  BY DEF IInv, RowCommand, CreatePR, Close, RetryReview, ReopenPR, CancelQueue, Requeue, Write,
     repo, memory, JobsInOrder
<1>3. LockInOrder'
  BY LockStays DEF IInv, RowCommand, CreatePR, Close, RetryReview, ReopenPR, CancelQueue,
     Requeue, Write, memory, LockInOrder
<1>4. BusyRowIsDriven'
  BY DEF IInv, Typed, RowCommand, CreatePR, Close, RetryReview, ReopenPR, CancelQueue, Requeue,
     Write, SetRow, memory, ExecutionState, BusyRowIsDriven, MergeWorks
<1>5. ConflictGuardIsRight'
  BY DEF IInv, RowCommand, CreatePR, Close, RetryReview, ReopenPR, CancelQueue, Requeue, Write,
     memory, ConflictGuardIsRight
<1>6. MergedOnce'
  BY DEF IInv, Typed, RowCommand, CreatePR, Close, RetryReview, ReopenPR, CancelQueue, Requeue,
     Write, SetRow, repo, MergedOnce
<1>. QED BY <1>1, <1>2, <1>3, <1>4, <1>5, <1>6 DEF IInv

\* The worktree has new commits.
LEMMA NewCommitsKeeps ==
  ASSUME IInv, NewCommits
  PROVE  IInv'
<1>1. Typed'
  BY DEF IInv, Typed, NewCommits, row, memory
<1>2. JobsInOrder'
  BY DEF IInv, NewCommits, memory, JobsInOrder
<1>3. LockInOrder'
  BY LockStays DEF IInv, NewCommits, memory, LockInOrder
<1>4. BusyRowIsDriven'
  BY DEF IInv, NewCommits, row, memory, BusyRowIsDriven, MergeWorks
<1>5. ConflictGuardIsRight'
  BY DEF IInv, NewCommits, memory, ConflictGuardIsRight
<1>6. MergedOnce'
  BY DEF IInv, NewCommits, row, MergedOnce
<1>. QED BY <1>1, <1>2, <1>3, <1>4, <1>5, <1>6 DEF IInv

\* The tick reads which actions are queued.
LEMMA ReadQueueKeeps ==
  ASSUME IInv, ReadQueue
  PROVE  IInv'
<1>1. Typed'
  BY DEF IInv, Typed, ReadQueue, row, repo
<1>2. JobsInOrder'
  BY DEF IInv, ReadQueue, repo, JobsInOrder
<1>3. LockInOrder'
  BY LockStays DEF IInv, ReadQueue, LockInOrder
<1>4. BusyRowIsDriven'
  BY DEF IInv, ReadQueue, row, BusyRowIsDriven, MergeWorks
<1>5. ConflictGuardIsRight'
  BY DEF IInv, ReadQueue, ConflictGuardIsRight
<1>6. MergedOnce'
  BY DEF IInv, ReadQueue, row, repo, MergedOnce
<1>. QED BY <1>1, <1>2, <1>3, <1>4, <1>5, <1>6 DEF IInv

\* A restart ends all jobs and sessions; busy rows are lost until they are reset.
LEMMA RestartKeeps ==
  ASSUME IInv, Restart
  PROVE  IInv'
<1>1. /\ job' = [j \in Jobs |-> Idle] /\ mergeLock' = << >> /\ UNCHANGED <<row, unseen, reverted>>
      /\ activeReviewIds' = {} /\ activeConflictIds' = {} /\ batch' = {}
      /\ lost' = {p \in PRs : status[p] \in {"reviewing", "merging"}}
  BY DEF Restart
<1>2. inMain' \subseteq PRs /\ inMain \subseteq inMain'
  <2>1. \A k \in Jobs : MergeWorks(k) => job[k].pr \in PRs
    BY DEF IInv, JobsInOrder, MergeWorks
  <2>. QED BY <2>1 DEF Restart, Merged, IInv, Typed
<1>3. Idle \in JobRecord /\ << >> \in Seq(Jobs)
  BY DEF Idle, JobRecord, Ops, Places
<1>4. Typed'
  BY <1>1, <1>2, <1>3 DEF IInv, Typed, row
<1>5. JobsInOrder'
  BY <1>1 DEF JobsInOrder, Idle
<1>6. LockInOrder'
  BY <1>1 DEF LockInOrder, LockOps, Idle
<1>7. BusyRowIsDriven'
  BY <1>1 DEF BusyRowIsDriven, row
<1>8. ConflictGuardIsRight'
  BY <1>1 DEF ConflictGuardIsRight, Idle
<1>9. MergedOnce'
  BY <1>1, <1>2 DEF IInv, MergedOnce, row
<1>. QED BY <1>4, <1>5, <1>6, <1>7, <1>8, <1>9 DEF IInv

\* The invariant holds at the start,
LEMMA InitKeeps ==
  ASSUME Init
  PROVE  IInv
<1>1. /\ Idle \in JobRecord /\ Idle.op = "none" /\ Idle.at = "none" /\ << >> \in Seq(Jobs)
      /\ Len(<< >>) = 0
  BY DEF Idle, JobRecord, Ops, Places
<1>2. Typed
  BY <1>1 DEF Init, Typed, ExecutionState, PendingAction
<1>3. JobsInOrder
  BY <1>1 DEF Init, JobsInOrder
<1>4. LockInOrder
  BY <1>1 DEF Init, LockInOrder, LockOps
<1>5. BusyRowIsDriven /\ MergedOnce
  BY DEF Init, BusyRowIsDriven, MergedOnce
<1>6. ConflictGuardIsRight
  BY <1>1 DEF Init, ConflictGuardIsRight
<1>. QED BY <1>2, <1>3, <1>4, <1>5, <1>6 DEF IInv

\* in a step that changes nothing,
LEMMA StutterKeeps ==
  ASSUME IInv, UNCHANGED vars
  PROVE  IInv'
  BY DEF IInv, Typed, JobsInOrder, LockInOrder, HoldsLock, BusyRowIsDriven, MergeWorks,
     ConflictGuardIsRight, MergedOnce, vars, row, repo, memory

\* or in which a command hangs,
LEMMA HangsKeeps ==
  ASSUME IInv, Hangs
  PROVE  IInv'
  BY DEF Hangs, IInv, Typed, JobsInOrder, LockInOrder, HoldsLock, BusyRowIsDriven, MergeWorks,
     ConflictGuardIsRight, MergedOnce, row, repo, memory

\* and after every step.
LEMMA StepKeeps ==
  ASSUME IInv, [Next]_vars
  PROVE  IInv'
<1>1. CASE \E j \in Jobs : JobRuns(j)
  BY <1>1, RefreshEndsKeeps, ReviewStartsKeeps, ReviewStartFailsKeeps, ReviewVerdictKeeps,
     MergeEntersKeeps, MergeChecksKeeps, MergeCheckThrowsKeeps, MergeSucceedsKeeps,
     MergeConflictsKeeps, MergeThrowsKeeps, CancelEndsKeeps, RevertWorksKeeps, RevertIsOverKeeps
     DEF JobRuns, JobStep
<1>2. CASE \E j \in Jobs : SessionStep(j)
  BY <1>2, ReviewSessionEndsKeeps, ConflictSessionEndsKeeps DEF SessionStep
<1>3. CASE \E j \in Jobs, p \in PRs : Command(j, p)
  BY <1>3, AutoRefreshKeeps, AskForReviewKeeps, CallsLockKeeps, TriggerConflictKeeps DEF
     Command
<1>4. CASE \E j \in Jobs, p \in PRs : Scheduler(j, p)
  BY <1>4, ResetStaleKeeps, ServeQueuedKeeps DEF Scheduler
<1>5. CASE \E p \in PRs : RowCommand(p)
  BY <1>5, RowCommandKeeps
<1>6. CASE NewCommits
  BY <1>6, NewCommitsKeeps
<1>7. CASE ReadQueue
  BY <1>7, ReadQueueKeeps
<1>8. CASE Restart
  BY <1>8, RestartKeeps
<1>9. CASE UNCHANGED vars
  BY <1>9, StutterKeeps
<1>10. CASE Hangs
  BY <1>10, HangsKeeps
<1>. QED BY <1>1, <1>2, <1>3, <1>4, <1>5, <1>6, <1>7, <1>8, <1>9, <1>10 DEF Next, Step

-----------------------------------------------------------------------------
(* Row and base branch.                                                    *)

\* A job of p stands between git revert and the write of its row.
Reverting(j, p) == job[j].op = "revert" /\ job[j].at = "reverted" /\ job[j].pr = p

\* Row and branch do not come to disagree in a step that shows nothing new as merged,
\* takes nothing out of the branch, and keeps those who are about to write a row.
LEMMA NoNewDisagreement ==
  ASSUME NEW p \in PRs, status'[p] = "merged" => status[p] = "merged",
         inMain \subseteq inMain',
         \A j \in Jobs : Reverting(j, p) => Reverting(j, p)'
  PROVE  Disagrees(p)' => Disagrees(p)
  BY DEF Disagrees, Reverting

\* Nor in a step of a job that is not about to write it.
LEMMA JobIsQuiet ==
  ASSUME NEW j \in Jobs, Changes(j), job[j].op # "revert" \/ job[j].at # "reverted",
         inMain \subseteq inMain',
         \A q \in PRs : status'[q] = "merged" => status[q] = "merged",
         NEW p \in PRs
  PROVE  Disagrees(p)' => Disagrees(p)
<1>1. \A k \in Jobs : Reverting(k, p) => Reverting(k, p)'
  BY DEF Changes, Reverting
<1>. QED BY <1>1, NoNewDisagreement

\* What may make row and branch disagree.
Cause(p) ==
  \E j \in Jobs :
    /\ job[j].pr = p /\ p \in reverted
    /\ \/ Restart /\ job[j].op = "revert" /\ job[j].at = "reverted"
       \/ RevertFails(j)
       \/ MergeSucceeds(j)

\* Reviews, and commands without git, show nothing as merged.
LEMMA ReviewIsQuiet ==
  ASSUME IInv, NEW j \in Jobs,
         \/ RefreshEnds(j) \/ ReviewStarts(j) \/ ReviewStartFails(j)
         \/ \E verdict \in {"approved", "review_failed"} : ReviewVerdict(j, verdict),
         NEW p \in PRs
  PROVE  Disagrees(p)' => Disagrees(p)
<1>1. Changes(j) /\ inMain' = inMain
  BY DEF IInv, Typed, RefreshEnds, ReviewStarts, ReviewStartFails, ReviewVerdict, End, Continue,
     Refresh, Changes, repo
<1>2. job[j].at # "reverted"
  BY DEF RefreshEnds, ReviewStarts, ReviewStartFails, ReviewVerdict
<1>3. CASE RefreshEnds(j)
  <2>1. job[j].seen # "merged" /\ job[j].pr \in PRs
    BY <1>3 DEF RefreshEnds, IInv, JobsInOrder, Idle
  <2>2. Refreshed(job[j].seen, job[j].at) # "merged"
    BY <2>1 DEF Refreshed
  <2>3. \A q \in PRs : status'[q] = "merged" => status[q] = "merged"
    BY <1>3, <2>1, <2>2 DEF RefreshEnds, SetStatus, SetRow, row, IInv, Typed
  <2>. QED BY <1>1, <1>2, <2>3, JobIsQuiet
<1>4. CASE ~ RefreshEnds(j)
  <2>1. \A q \in PRs : status'[q] = "merged" => status[q] = "merged"
    BY <1>4 DEF ReviewStarts, ReviewStartFails, ReviewVerdict, SetRow, row, IInv, Typed
  <2>. QED BY <1>1, <1>2, <2>1, JobIsQuiet
<1>. QED BY <1>3, <1>4

\* Merges that do not succeed, and cancelled ones, take nothing out of the branch.
LEMMA MergeIsQuiet ==
  ASSUME IInv, NEW j \in Jobs,
         \/ \E slot \in BOOLEAN : MergeEnters(j, slot)
         \/ MergeChecks(j) \/ MergeCheckThrows(j) \/ MergeConflicts(j) \/ MergeThrows(j)
         \/ CancelEnds(j) \/ RevertThrows(j),
         NEW p \in PRs
  PROVE  Disagrees(p)' => Disagrees(p)
<1>1. Changes(j)
  BY DEF IInv, Typed, MergeEnters, MergeChecks, MergeCheckThrows, MergeConflicts, MergeThrows,
     CancelEnds, RevertThrows, End, Continue, Refresh, Begin, Changes
<1>2. inMain \subseteq inMain'
  BY DEF MergeEnters, MergeChecks, MergeCheckThrows, MergeConflicts, MergeThrows, CancelEnds,
     RevertThrows, Merged, repo
<1>3. job[j].at # "reverted"
  BY DEF MergeEnters, MergeChecks, MergeCheckThrows, MergeConflicts, MergeThrows, CancelEnds,
     RevertThrows, MergeWorks, Enters
<1>4. \A q \in PRs : status'[q] = "merged" => status[q] = "merged"
  BY DEF MergeEnters, MergeQueued, MergeChecks, MergeCheckThrows, MergeConflicts, MergeThrows,
     CancelEnds, RevertThrows, SetStatus, SetRow, row, IInv, Typed
<1>. QED BY <1>1, <1>2, <1>3, <1>4, JobIsQuiet

\* A merge that succeeds brings in the changes, unless they were reverted once.
LEMMA MergeIsSaid ==
  ASSUME IInv, NEW j \in Jobs, MergeSucceeds(j), NEW p \in PRs, Disagrees(p)', ~ Disagrees(p)
  PROVE  Cause(p)
<1>1. Changes(j) /\ inMain \subseteq inMain' /\ job[j].at # "reverted"
  BY DEF IInv, Typed, MergeSucceeds, MergeWorks, Merged, End, Changes
<1>2. \A k \in Jobs : Reverting(k, p) => Reverting(k, p)'
  BY <1>1 DEF Changes, Reverting
<1>3. status'[p] = "merged" /\ p \notin inMain'
  BY DEF Disagrees
<1>4. job[j].pr = p
  <2>1. job[j].pr # p => status'[p] = status[p]
    BY DEF MergeSucceeds, SetRow, IInv, Typed
  <2>. QED BY <1>1, <1>2, <2>1, NoNewDisagreement
<1>5. p \in reverted
  BY <1>3, <1>4 DEF MergeSucceeds, Merged
<1>. QED BY <1>4, <1>5 DEF Cause

\* A revert says what it has done, or is about to.
LEMMA RevertIsSaid ==
  ASSUME IInv, NEW j \in Jobs, RevertWorks(j) \/ RevertEnds(j), NEW p \in PRs
  PROVE  Disagrees(p)' => Disagrees(p)
<1>1. Changes(j) /\ job[j].op = "revert"
  BY DEF IInv, Typed, RevertWorks, RevertEnds, End, Continue, Changes, Enters
<1>2. CASE RevertWorks(j) /\ job[j].pr = p
  <2>1. Reverting(j, p)'
    BY <1>1, <1>2 DEF RevertWorks, Continue, Reverting, IInv, Typed, JobRecord
  <2>. QED BY <2>1 DEF Disagrees, Reverting
<1>3. CASE RevertWorks(j) /\ job[j].pr # p
  <2>1. \A k \in Jobs : Reverting(k, p) => Reverting(k, p)'
    BY <1>1, <1>3 DEF Changes, Reverting
  <2>2. status' = status /\ (p \in inMain => p \in inMain')
    BY <1>3 DEF RevertWorks, row
  <2>. QED BY <2>1, <2>2 DEF Disagrees, Reverting
<1>4. CASE RevertEnds(j) /\ job[j].pr = p
  <2>1. status'[p] = "closed"
    BY <1>4 DEF RevertEnds, SetStatus, SetRow, IInv, Typed
  <2>. QED BY <2>1 DEF Disagrees
<1>5. CASE RevertEnds(j) /\ job[j].pr # p
  <2>1. \A k \in Jobs : Reverting(k, p) => Reverting(k, p)'
    BY <1>1, <1>5 DEF Changes, Reverting
  <2>2. status'[p] = status[p] /\ inMain' = inMain
    BY <1>5 DEF RevertEnds, SetStatus, SetRow, repo, IInv, Typed
  <2>. QED BY <2>1, <2>2, NoNewDisagreement
<1>. QED BY <1>2, <1>3, <1>4, <1>5

\* A revert that fails finds the changes in the branch, or reverted before.
LEMMA RevertFailsKnown ==
  ASSUME IInv, NEW j \in Jobs, RevertFails(j), NEW p \in PRs, Disagrees(p)', ~ Disagrees(p)
  PROVE  Cause(p)
<1>1. Changes(j) /\ inMain' = inMain /\ job[j].at # "reverted"
  BY DEF IInv, Typed, RevertFails, Enters, End, Changes, repo
<1>2. \A k \in Jobs : Reverting(k, p) => Reverting(k, p)'
  BY <1>1 DEF Changes, Reverting
<1>3. job[j].pr = p
  <2>1. job[j].pr # p => status'[p] = status[p]
    BY DEF RevertFails, SetStatus, SetRow, IInv, Typed
  <2>. QED BY <1>1, <1>2, <2>1, NoNewDisagreement
<1>4. p \in reverted
  BY <1>1, <1>3 DEF RevertFails, Enters, Disagrees, IInv, JobsInOrder
<1>. QED BY <1>3, <1>4 DEF Cause

\* Sessions, commands and the tick show nothing as merged.
LEMMA CommandIsQuiet ==
  ASSUME IInv, NEW p \in PRs,
         \/ \E j \in Jobs : SessionStep(j)
         \/ \E j \in Jobs, q \in PRs : Command(j, q) \/ Scheduler(j, q)
  PROVE  Disagrees(p)' => Disagrees(p)
<1>1. ASSUME NEW j \in Jobs, SessionStep(j)
      PROVE  Disagrees(p)' => Disagrees(p)
  <2>1. Changes(j) /\ inMain' = inMain /\ job[j].at # "reverted"
    BY <1>1 DEF SessionStep, ReviewSessionEnds, ConflictSessionEnds, End, Continue, Refresh,
       Changes, IInv, Typed, repo
  <2>2. \A q \in PRs : status'[q] = "merged" => status[q] = "merged"
    BY <1>1 DEF SessionStep, ReviewSessionEnds, ConflictSessionEnds, SetRow, row, IInv, Typed
  <2>. QED BY <2>1, <2>2, JobIsQuiet
<1>2. ASSUME NEW j \in Jobs, NEW q \in PRs, Command(j, q) \/ Scheduler(j, q)
      PROVE  Disagrees(p)' => Disagrees(p)
  <2>1. IsFree(j) /\ inMain' = inMain
    BY <1>2 DEF Command, AutoRefresh, AskForReview, MergePR, CancelMerge, RevertMergedPR,
       TriggerConflict, Scheduler, ResetStale, ServeQueued, repo
  <2>2. Changes(j)
    BY <1>2 DEF Command, AutoRefresh, AskForReview, MergePR, CancelMerge, RevertMergedPR,
       TriggerConflict, Scheduler, ResetStale, ServeQueued, CallsLock, StartReview, StartConflict,
       Begin, Changes, IInv, Typed
  <2>3. \A r \in PRs : status'[r] = "merged" => status[r] = "merged"
    <3>1. CASE AutoRefresh(j, q) \/ MergePR(j, q) \/ CancelMerge(j, q) \/ RevertMergedPR(j, q)
      BY <3>1 DEF AutoRefresh, MergePR, CancelMerge, RevertMergedPR, row
    <3>2. CASE \/ \E slot \in BOOLEAN : AskForReview(j, q, slot)
               \/ TriggerConflict(j, q) \/ ResetStale(j, q)
      BY <3>2 DEF AskForReview, TriggerConflict, ResetStale, StartReview, StartConflict, SetRow,
         row, IInv, Typed
    <3>3. CASE \E slot \in BOOLEAN, action \in PendingAction : ServeQueued(j, q, action, slot)
      <4>1. \/ UNCHANGED row \/ StartConflict(j, q) \/ StartReview(j, q, status[q], TRUE)
            \/ SetRow(q, status[q], "running", pendingAction[q])
        BY <3>3 DEF ServeQueued
      <4>. QED BY <4>1 DEF StartReview, StartConflict, SetRow, row, IInv, Typed
    <3>. QED BY <1>2, <3>1, <3>2, <3>3 DEF Command, Scheduler
  <2>4. job[j].at # "reverted"
    BY <2>1 DEF IsFree, Idle
  <2>. QED BY <2>1, <2>2, <2>3, <2>4, JobIsQuiet
<1>. QED BY <1>1, <1>2

\* So do commands that only write a row, and steps that touch no row.
LEMMA RowIsQuiet ==
  ASSUME IInv, NEW p \in PRs,
         \/ \E q \in PRs : RowCommand(q)
         \/ NewCommits \/ ReadQueue \/ Hangs \/ UNCHANGED vars
  PROVE  Disagrees(p)' => Disagrees(p)
<1>1. job' = job /\ inMain' = inMain
  BY DEF RowCommand, CreatePR, Close, RetryReview, ReopenPR, CancelQueue, Requeue, Write,
     NewCommits, ReadQueue, Hangs, vars, repo, memory
<1>2. status'[p] = "merged" => status[p] = "merged"
  BY DEF RowCommand, CreatePR, Close, RetryReview, ReopenPR, CancelQueue, Requeue, Write, SetRow,
     NewCommits, ReadQueue, Hangs, vars, row, IInv, Typed
<1>. QED BY <1>1, <1>2, NoNewDisagreement DEF Reverting

\* A restart loses the writes that were due.
LEMMA RestartLosesWrites ==
  ASSUME IInv, Restart, NEW p \in PRs, Disagrees(p)', ~ Disagrees(p)
  PROVE  Cause(p)
<1>1. status' = status /\ inMain \subseteq inMain'
  BY DEF Restart, Merged, row
<1>2. PICK j \in Jobs : Reverting(j, p)
  BY <1>1 DEF Disagrees, Reverting
<1>3. p \in reverted
  BY <1>1, <1>2 DEF Disagrees, Reverting, IInv, JobsInOrder
<1>. QED BY <1>2, <1>3 DEF Cause, Reverting

-----------------------------------------------------------------------------
(* The theorems.                                                           *)

\* The inductive invariant holds in every state of the pull requests of a worktree.
THEOREM Invariance == Spec => []IInv
<1>1. Init => IInv
  BY InitKeeps
<1>2. IInv /\ [Next]_vars => IInv'
  BY StepKeeps
<1>. QED BY <1>1, <1>2, PTL DEF Spec

\* The lock hangs, or does not.
THEOREM HungTyped == Spec => [](hung \in BOOLEAN)
<1>1. Init => hung \in BOOLEAN
  BY DEF Init
<1>2. hung \in BOOLEAN /\ [Next]_vars => (hung \in BOOLEAN)'
  BY DEF Next, Hangs, Restart, vars
<1>. QED BY <1>1, <1>2, PTL DEF Spec

\* Every variable keeps its type, and the queue of the merge lock never holds more
\* than the jobs there are.
THEOREM TypeCorrect == Spec => []TypeOK
<1>1. IInv /\ hung \in BOOLEAN => TypeOK
  BY LockFits DEF IInv, Typed, TypeOK, JobRecord
<1>. QED BY <1>1, Invariance, HungTyped, PTL

\* A row that is shown as busy is worked on, and the guard of the conflict sessions is
\* set for the PRs that have one, for all commands, jobs, ticks and restarts.
THEOREM BusyStaysDriven == Spec => []BusyIsDriven
<1>1. IInv => BusyIsDriven
  BY DEF IInv, BusyIsDriven
<1>. QED BY <1>1, Invariance, PTL

\* What is shown as merged is in the base branch, for all commands, jobs, ticks and
\* restarts: row and branch come to disagree only when the server dies between git
\* revert and its write, when a revert fails after an earlier one, and when a PR is
\* merged again after its revert.
THEOREM MergedStaysInMain == Spec => MergedIsInMain
<1>1. ASSUME IInv, [Next]_vars, NEW p \in PRs, Disagrees(p)', ~ Disagrees(p)
      PROVE  Cause(p)
  <2>1. CASE \E j \in Jobs : JobRuns(j)
    BY <1>1, <2>1, ReviewIsQuiet, MergeIsQuiet, MergeIsSaid, RevertIsSaid, RevertFailsKnown
       DEF JobRuns, JobStep
  <2>2. CASE \/ \E j \in Jobs : SessionStep(j)
             \/ \E j \in Jobs, q \in PRs : Command(j, q) \/ Scheduler(j, q)
    BY <1>1, <2>2, CommandIsQuiet
  <2>3. CASE \/ \E q \in PRs : RowCommand(q)
             \/ NewCommits \/ ReadQueue \/ Hangs \/ UNCHANGED vars
    BY <1>1, <2>3, RowIsQuiet
  <2>4. CASE Restart
    BY <1>1, <2>4, RestartLosesWrites
  <2>. QED BY <1>1, <2>1, <2>2, <2>3, <2>4 DEF Next, Step
<1>2. IInv /\ [Next]_vars =>
        [\A p \in PRs : Disagrees(p)' /\ ~Disagrees(p) =>
           \E j \in Jobs :
             /\ job[j].pr = p /\ p \in reverted
             /\ \/ Restart /\ job[j].op = "revert" /\ job[j].at = "reverted"
                \/ RevertFails(j)
                \/ MergeSucceeds(j)]_vars
  BY <1>1 DEF Cause
<1>. QED BY <1>2, Invariance, PTL DEF Spec, MergedIsInMain

=============================================================================
