---------------------------- MODULE WorktreePool ----------------------------
(***************************************************************************)
(* The pool of git worktrees of one project: WorktreePool and the pool's   *)
(* initialisation in WorktreeManager.  The pool lives in memory; the       *)
(* worktree directories do not.  The module is extended by the supervisor  *)
(* that uses it.                                                           *)
(***************************************************************************)
EXTENDS Integers, Sequences, FiniteSets

CONSTANTS
  NoTask,         \* the mark of a slot that is not in use
  MaxConcurrent   \* config.maxConcurrentTasks, the size the pool is made with

ASSUME PoolAssumption == MaxConcurrent \in Nat \ {0}

VARIABLES
  slots,  \* the array of slots: the worktree's path and the task it is in use for
  pool    \* "none", "initialising" or "ready"

poolVars == <<slots, pool>>

Paths == 0 .. (MaxConcurrent - 1)

\* Mutant: the worktrees are numbered from 1.
NewSlotsFromOne(n) == [i \in 1 .. n |-> [path |-> i, task |-> NoTask]]

NewSlots(n) == [i \in 1 .. n |-> [path |-> i - 1, task |-> NoTask]]

IsFree(i) == i \in DOMAIN slots /\ slots[i].task = NoTask

\* The slot that acquire picks: the first one that is not in use.
FirstFree(i) == IsFree(i) /\ \A j \in 1 .. (i - 1) : ~IsFree(j)

NoneFree == \A i \in DOMAIN slots : ~IsFree(i)

\* Mutant: acquire does not mark the slot.
AcquireUnmarked(t, i) == UNCHANGED slots

Acquire(t, i) == slots' = [slots EXCEPT ![i].task = t]

\* release asks for nothing but the path, and frees the first slot that has it.
Released(i, path) ==
  slots[i].path = path /\ \A j \in 1 .. (i - 1) : slots[j].path # path

Release(path) ==
  slots' = [i \in DOMAIN slots |->
              IF Released(i, path) THEN [slots[i] EXCEPT !.task = NoTask] ELSE slots[i]]

\* init appends its slots to the array; a later call appends them again.
InitEnds == slots' = slots \o NewSlots(MaxConcurrent) /\ pool' = "ready"

\* git fails for some slot: the ones before it stay in the array.
InitBreaksOff ==
  /\ slots = <<>>  \* bound: no second failure that leaves slots
  /\ \E n \in 0 .. (MaxConcurrent - 1) : slots' = NewSlots(n)
  /\ pool' = "none"

Forget == slots' = <<>> /\ pool' = "none"

\* A path that two slots have.
Doubled(path) ==
  \E i, j \in DOMAIN slots : i # j /\ slots[i].path = path /\ slots[j].path = path
=============================================================================
