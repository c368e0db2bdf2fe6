--------------------- MODULE ParallelSupervision_proofs ---------------------
(***************************************************************************)
(* The invariants of ParallelSupervision, proved for every finite set of   *)
(* tasks, every number of worktrees and every choice of the bounds: a      *)
(* running task is driven, and a run has its worktree's slot. Then the     *)
(* status machine: no step changes a status in another way than the        *)
(* table's, but for the stale writes that are named.                       *)
(***************************************************************************)
EXTENDS ParallelSupervision, SequenceTheorems, TLAPS

-----------------------------------------------------------------------------
(* The inductive invariant.                                                *)

\* A worktree of the pool and the task that has it.
SlotRecord == [path : Paths, task : Tasks \cup {NoTask}]

\* Work on a task has a directory: its session was made before.
WorkHasADir ==
  \A t \in Tasks :
    \/ status[t] \in {"running", "reviewing"}
    \/ t \in completing
    \/ \E path \in Paths : <<t, path>> \in runs
    => workDir[t] # NoDir

\* A start that prepares a worktree has its slot, under the conditions under which a
\* run has.
StartHoldsItsSlot ==
  \A c \in preparing : ~pulled /\ ~Doubled(slots[c[2]].path) => slots[c[2]].task = c[1]

\* The inductive invariant: the properties, and what starts need for them.
IInv ==
  /\ TypeOK /\ WorkHasADir
  /\ RunningIsDriven /\ RunHoldsItsSlot /\ StartHoldsItsSlot

-----------------------------------------------------------------------------
(* The pool.                                                               *)

\* A function on 1..n is a sequence.
LEMMA FunctionIsSequence ==
  ASSUME NEW S, NEW n \in Nat, NEW f \in [1..n -> S]
  PROVE  f \in Seq(S)
  BY SeqDef

\* The pool as a function.
LEMMA SlotsTyped ==
  ASSUME TypeOK
  PROVE  /\ Len(slots) \in Nat /\ DOMAIN slots = 1..Len(slots)
         /\ slots \in [1..Len(slots) -> SlotRecord]
  BY LenProperties DEF TypeOK, SlotRecord

\* Slots are added, or one that nobody has is taken.
SlotsGrow ==
  /\ DOMAIN slots \subseteq DOMAIN slots'
  /\ \A i \in DOMAIN slots : /\ slots'[i].path = slots[i].path
                             /\ slots[i].task # NoTask => slots'[i] = slots[i]

\* Taking a free slot.
LEMMA AcquireGrows ==
  ASSUME TypeOK, NEW t \in Tasks, NEW i \in DOMAIN slots, IsFree(i), Acquire(t, i)
  PROVE  /\ slots' \in Seq(SlotRecord) /\ DOMAIN slots' = DOMAIN slots
         /\ SlotsGrow /\ slots'[i].task = t
<1>1. Len(slots) \in Nat /\ DOMAIN slots = 1..Len(slots) /\ slots \in [1..Len(slots) -> SlotRecord]
  BY SlotsTyped
<1>. DEFINE s == [slots[i] EXCEPT !.task = t]
<1>2. s \in SlotRecord /\ s.path = slots[i].path /\ s.task = t
  BY <1>1 DEF SlotRecord
<1>3. slots' = [slots EXCEPT ![i] = s]
  BY DEF Acquire
<1>. HIDE DEF s
<1>4. slots' \in [1..Len(slots) -> SlotRecord]
  BY <1>1, <1>2, <1>3
<1>5. slots' \in Seq(SlotRecord)
  BY <1>1, <1>4
<1>. QED BY <1>1, <1>2, <1>3, <1>4, <1>5 DEF SlotsGrow, IsFree

\* A release changes the slots of one path only.
LEMMA ReleaseEffect ==
  ASSUME TypeOK, NEW path, Release(path)
  PROVE  /\ slots' \in Seq(SlotRecord) /\ DOMAIN slots' = DOMAIN slots
         /\ \A i \in DOMAIN slots : /\ slots'[i].path = slots[i].path
                                    /\ slots[i].path # path => slots'[i] = slots[i]
<1>1. Len(slots) \in Nat /\ DOMAIN slots = 1..Len(slots) /\ slots \in [1..Len(slots) -> SlotRecord]
  BY SlotsTyped
<1>2. \A i \in DOMAIN slots :
        /\ [slots[i] EXCEPT !.task = NoTask] \in SlotRecord
        /\ [slots[i] EXCEPT !.task = NoTask].path = slots[i].path
  BY <1>1 DEF SlotRecord
<1>3. \A i \in DOMAIN slots : /\ slots'[i] \in SlotRecord /\ slots'[i].path = slots[i].path
                              /\ slots[i].path # path => slots'[i] = slots[i]
  BY <1>1, <1>2 DEF Release, Released
<1>4. slots' \in [1..Len(slots) -> SlotRecord]
  BY <1>1, <1>3 DEF Release
<1>5. slots' \in Seq(SlotRecord)
  BY <1>1, <1>4
<1>. QED BY <1>1, <1>3, <1>4, <1>5

\* The slots that the initialisation makes.
LEMMA NewSlotsTyped ==
  ASSUME NEW n \in 0..MaxConcurrent
  PROVE  NewSlots(n) \in Seq(SlotRecord)
<1>1. MaxConcurrent \in Nat
  BY PoolAssumption
<1>2. n \in Nat /\ NewSlots(n) \in [1..n -> SlotRecord]
  BY <1>1 DEF NewSlots, Paths, SlotRecord
<1>. QED BY <1>1, <1>2

\* An initialisation, complete or not, only adds slots.
LEMMA InitGrows ==
  ASSUME TypeOK, InitEnds \/ InitBreaksOff
  PROVE  slots' \in Seq(SlotRecord) /\ SlotsGrow
<1>1. MaxConcurrent \in 0..MaxConcurrent /\ MaxConcurrent \in Nat
  BY PoolAssumption
<1>2. slots \in Seq(SlotRecord)
  BY DEF TypeOK, SlotRecord
<1>3. CASE InitEnds
  <2>1. NewSlots(MaxConcurrent) \in Seq(SlotRecord)
    BY <1>1, NewSlotsTyped
  <2>. QED BY <1>2, <1>3, <2>1 DEF InitEnds, SlotsGrow
<1>4. CASE InitBreaksOff
  <2>1. \A n \in 0..(MaxConcurrent - 1) : NewSlots(n) \in Seq(SlotRecord)
    <3>1. \A n \in 0..(MaxConcurrent - 1) : n \in 0..MaxConcurrent
      BY <1>1
    <3>. QED BY <3>1, NewSlotsTyped
  <2>2. DOMAIN slots = {}
    BY <1>4 DEF InitBreaksOff
  <2>. QED BY <1>4, <2>1, <2>2 DEF InitBreaksOff, SlotsGrow
<1>. QED BY <1>3, <1>4

-----------------------------------------------------------------------------
(* Who holds which slot.                                                   *)

\* What is doubled stays doubled.
LEMMA DoubledStays ==
  ASSUME NEW path, DOMAIN slots \subseteq DOMAIN slots',
         \A i \in DOMAIN slots : slots'[i].path = slots[i].path
  PROVE  Doubled(path) => Doubled(path)'
  BY DEF Doubled

\* The same for the path of a slot.
LEMMA SlotDoubledStays ==
  ASSUME NEW i \in DOMAIN slots, DOMAIN slots \subseteq DOMAIN slots',
         \A k \in DOMAIN slots : slots'[k].path = slots[k].path
  PROVE  Doubled(slots[i].path) => Doubled(slots[i].path)'
  BY DEF Doubled

\* Who has a slot keeps it while slots are only added or taken.
LEMMA HoldingsStay ==
  ASSUME IInv, SlotsGrow, UNCHANGED pulled, runs' \subseteq runs, preparing' \subseteq preparing
  PROVE  RunHoldsItsSlot' /\ StartHoldsItsSlot'
<1>1. \A path : Doubled(path) => Doubled(path)'
  BY DoubledStays DEF SlotsGrow
<1>2. RunHoldsItsSlot'
  <2>1. ASSUME NEW t \in Tasks, NEW path \in Paths, <<t, path>> \in runs, ~ pulled, ~ Doubled(path)'
        PROVE  \E i \in DOMAIN slots' : slots'[i] = [path |-> path, task |-> t]
    <3>1. PICK i \in DOMAIN slots : slots[i] = [path |-> path, task |-> t]
      BY <1>1, <2>1 DEF IInv, RunHoldsItsSlot
    <3>2. slots[i].task # NoTask
      BY <3>1, ParallelAssumption
    <3>. QED BY <3>1, <3>2 DEF SlotsGrow
  <2>. QED BY <2>1 DEF RunHoldsItsSlot
<1>3. StartHoldsItsSlot'
  <2>1. ASSUME NEW c \in preparing, ~ pulled, ~ Doubled(slots[c[2]].path)'
        PROVE  slots'[c[2]].task = c[1]
    <3>1. c[1] \in Tasks /\ c[2] \in DOMAIN slots
      BY DEF IInv, TypeOK
    <3>3. ~ Doubled(slots[c[2]].path)
      BY <2>1, <3>1, SlotDoubledStays DEF SlotsGrow
    <3>4. slots[c[2]].task = c[1]
      BY <2>1, <3>3 DEF IInv, StartHoldsItsSlot
    <3>5. slots[c[2]].task # NoTask
      BY <3>1, <3>4, ParallelAssumption
    <3>. QED BY <3>1, <3>4, <3>5 DEF SlotsGrow
  <2>. QED BY <2>1 DEF StartHoldsItsSlot
<1>. QED BY <1>2, <1>3

\* A release that takes a worktree from nobody leaves every other slot.
LEMMA HoldingsReleased ==
  ASSUME IInv, NEW dir, ReleaseOf(dir), runs' \subseteq runs, preparing' \subseteq preparing
  PROVE  RunHoldsItsSlot' /\ StartHoldsItsSlot'
<1>1. /\ DOMAIN slots' = DOMAIN slots
      /\ \A i \in DOMAIN slots : /\ slots'[i].path = slots[i].path
                                 /\ slots[i].path # dir => slots'[i] = slots[i]
  BY ReleaseEffect DEF ReleaseOf, IInv
<1>2. ~ pulled' => /\ ~ pulled /\ \A t \in Tasks : <<t, dir>> \notin runs'
                   /\ \A c \in preparing' : slots'[c[2]].path # dir
  BY DEF ReleaseOf, AtWork
<1>3. \A path : Doubled(path) => Doubled(path)'
  BY <1>1, DoubledStays
<1>4. RunHoldsItsSlot'
  <2>1. ASSUME NEW t \in Tasks, NEW path \in Paths, <<t, path>> \in runs', ~ pulled', ~ Doubled(path)'
        PROVE  \E i \in DOMAIN slots' : slots'[i] = [path |-> path, task |-> t]
    <3>1. PICK i \in DOMAIN slots : slots[i] = [path |-> path, task |-> t]
      BY <1>2, <1>3, <2>1 DEF IInv, RunHoldsItsSlot
    <3>2. path # dir
      BY <1>2, <2>1
    <3>. QED BY <1>1, <3>1, <3>2
  <2>. QED BY <2>1 DEF RunHoldsItsSlot
<1>5. StartHoldsItsSlot'
  <2>1. ASSUME NEW c \in preparing', ~ pulled', ~ Doubled(slots[c[2]].path)'
        PROVE  slots'[c[2]].task = c[1]
    <3>1. c \in preparing /\ c[1] \in Tasks /\ c[2] \in DOMAIN slots
      BY DEF IInv, TypeOK
    <3>2. ~ Doubled(slots[c[2]].path)
      BY <1>1, <2>1, <3>1, SlotDoubledStays
    <3>3. slots[c[2]].path # dir
      BY <1>1, <1>2, <2>1, <3>1
    <3>. QED BY <1>1, <1>2, <2>1, <3>1, <3>2, <3>3 DEF IInv, StartHoldsItsSlot
  <2>. QED BY <2>1 DEF StartHoldsItsSlot
<1>. QED BY <1>4, <1>5

\* The types after a release in a handler.
LEMMA ReleaseTyped ==
  ASSUME TypeOK, NEW dir, ReleaseOf(dir)
  PROVE  /\ slots' \in Seq(SlotRecord) /\ DOMAIN slots' = DOMAIN slots /\ pulled' \in BOOLEAN
<1>1. slots' \in Seq(SlotRecord) /\ DOMAIN slots' = DOMAIN slots
  BY ReleaseEffect DEF ReleaseOf
<1>2. pulled' \in BOOLEAN
  BY DEF ReleaseOf
<1>. QED BY <1>1, <1>2

\* What a tick does to the table, and the types it leaves.
LEMMA TickEffect ==
  ASSUME TypeOK, NEW st \in [Tasks -> Statuses], TickFrom(st)
  PROVE  /\ status' = Promoted(st) /\ status' \in [Tasks -> Statuses]
         /\ \A t \in Tasks : status'[t] = st[t] \/ (st[t] = "pending" /\ status'[t] = "queued")
         /\ waiting' \in [Tasks -> Nat] /\ resumed' \in [Tasks -> Nat]
         /\ pool' \in {"none", "initialising", "ready"}
<1>1. status' = Promoted(st)
  BY DEF TickFrom
<1>2. /\ waiting' \in [Tasks -> Nat] /\ resumed' \in [Tasks -> Nat]
      /\ pool' \in {"none", "initialising", "ready"}
  <2>1. PICK chosen \in ToStart(Promoted(st)) :
          LET Add(calls) == [t \in Tasks |-> calls[t] + (IF t \in chosen THEN 1 ELSE 0)] IN
          IF pool = "ready"
          THEN resumed' = Add(resumed) /\ UNCHANGED <<waiting, pool>>
          ELSE /\ waiting' = Add(waiting)
               /\ pool' = IF chosen = {} THEN pool ELSE "initialising"
               /\ UNCHANGED resumed
    BY Zenon DEF TickFrom
  <2>2. /\ [t \in Tasks |-> resumed[t] + (IF t \in chosen THEN 1 ELSE 0)] \in [Tasks -> Nat]
        /\ [t \in Tasks |-> waiting[t] + (IF t \in chosen THEN 1 ELSE 0)] \in [Tasks -> Nat]
    BY DEF TypeOK
  <2>. QED BY <2>1, <2>2 DEF TypeOK
<1>3. status' \in [Tasks -> Statuses] /\ \A t \in Tasks : status'[t] = st[t] \/ (st[t] = "pending" /\ status'[t] = "queued")
  BY <1>1 DEF Promoted, Statuses
<1>. QED BY <1>1, <1>2, <1>3

\* What a failed start or run does to the table.
LEMMA FailedEffect ==
  ASSUME TypeOK, NEW t \in Tasks
  PROVE  /\ Failed(t) \in [Tasks -> Statuses]
         /\ \A u \in Tasks \ {t} : Failed(t)[u] = status[u]
         /\ Failed(t)[t] = status[t] \/ (Failed(t)[t] = "failed" /\ CanTransition(status[t], "failed"))
         /\ Failed(t)[t] # "running"
  BY DEF TypeOK, Failed, Statuses, CanTransition, TASK_TRANSITIONS

\* A slot has a worktree.
LEMMA PathOfSlot ==
  ASSUME TypeOK, NEW i \in DOMAIN slots
  PROVE  slots[i].path \in Paths /\ slots[i].path # NoDir
  BY SlotsTyped DEF SlotRecord, Paths, NoDir

\* The first merge of the queue.
LEMMA MergesTyped ==
  ASSUME TypeOK, merges # << >>
  PROVE  /\ Head(merges) \in Merge /\ Tail(merges) \in Seq(Merge)
         /\ Head(merges).task \in Tasks /\ Head(merges).path \in Paths
<1>1. merges \in Seq(Merge)
  BY DEF TypeOK
<1>2. Head(merges) \in Merge /\ Tail(merges) \in Seq(Merge)
  BY <1>1
<1>. QED BY <1>2 DEF Merge

-----------------------------------------------------------------------------
(* The steps.                                                              *)

\* The scheduler promotes tasks and calls startTask.
LEMMA TickKeeps ==
  ASSUME IInv, Tick, UNCHANGED bound
  PROVE  IInv'
<1>1. /\ slots' \in Seq(SlotRecord) /\ DOMAIN slots \subseteq DOMAIN slots'
      /\ pool' \in {"none", "initialising", "ready"}
  BY TickEffect DEF IInv, TypeOK, SlotRecord, Tick, taskVars, poolVars, startVars, runVars,
     Ready
<1>2. status' \in [Tasks -> Statuses]
  BY TickEffect DEF IInv, TypeOK, Tick, Ready
<1>3. merges' \in Seq(Merge) /\ pulled' \in BOOLEAN
  BY TickEffect DEF IInv, TypeOK, Tick, runVars, Ready
<1>4. TypeOK'
  BY <1>1, <1>2, <1>3, TickEffect DEF IInv, TypeOK, Tick, runVars, Ready
<1>5. WorkHasADir'
  BY TickEffect DEF IInv, TypeOK, WorkHasADir, Tick, poolVars, startVars, runVars, Ready
<1>6. RunningIsDriven'
  BY TickEffect DEF IInv, TypeOK, RunningIsDriven, Tick, runVars, Ready
<1>7. RunHoldsItsSlot' /\ StartHoldsItsSlot'
  BY HoldingsStay DEF SlotsGrow, Tick, runVars, Ready
<1>. QED BY <1>4, <1>5, <1>6, <1>7 DEF IInv

\* The pool is made, and the starts that waited for it go on.
LEMMA PoolIsMadeKeeps ==
  ASSUME IInv, PoolIsMade, UNCHANGED bound
  PROVE  IInv'
<1>1. /\ slots' \in Seq(SlotRecord) /\ DOMAIN slots \subseteq DOMAIN slots'
      /\ pool' \in {"none", "initialising", "ready"}
  BY InitGrows DEF IInv, InitEnds, PoolIsMade, taskVars, poolVars, startVars, runVars, Ready
<1>2. status' \in [Tasks -> Statuses]
  BY DEF IInv, TypeOK, PoolIsMade, taskVars, Ready
<1>3. merges' \in Seq(Merge) /\ pulled' \in BOOLEAN
  BY InitGrows DEF IInv, TypeOK, PoolIsMade, runVars, Ready
<1>4. TypeOK'
  BY <1>1, <1>2, <1>3 DEF IInv, TypeOK, SlotRecord, PoolIsMade, taskVars, runVars, Ready
<1>5. WorkHasADir'
  BY DEF IInv, WorkHasADir, PoolIsMade, taskVars, poolVars, startVars, runVars, Ready
<1>6. RunningIsDriven'
  BY DEF IInv, RunningIsDriven, PoolIsMade, taskVars, runVars, Ready
<1>7. RunHoldsItsSlot' /\ StartHoldsItsSlot'
  BY InitGrows, HoldingsStay DEF IInv, PoolIsMade, runVars
<1>. QED BY <1>4, <1>5, <1>6, <1>7 DEF IInv

\* The pool is not made, and they fail.
LEMMA PoolFailsKeeps ==
  ASSUME IInv, PoolFails, UNCHANGED bound
  PROVE  IInv'
<1>1. /\ slots' \in Seq(SlotRecord) /\ DOMAIN slots \subseteq DOMAIN slots'
      /\ pool' \in {"none", "initialising", "ready"}
  BY FailedEffect, InitGrows DEF IInv, InitBreaksOff, PoolFails, taskVars, poolVars, startVars,
     runVars, Ready
<1>2. status' \in [Tasks -> Statuses]
  BY FailedEffect DEF IInv, TypeOK, PoolFails, Ready
<1>3. merges' \in Seq(Merge) /\ pulled' \in BOOLEAN
  BY FailedEffect, InitGrows DEF IInv, TypeOK, PoolFails, runVars, Ready
<1>4. TypeOK'
  BY <1>1, <1>2, <1>3, FailedEffect DEF IInv, TypeOK, SlotRecord, PoolFails, runVars, Ready
<1>5. WorkHasADir'
  BY FailedEffect DEF IInv, WorkHasADir, PoolFails, poolVars, startVars, runVars, Ready
<1>6. RunningIsDriven'
  BY FailedEffect DEF IInv, RunningIsDriven, PoolFails, runVars, Ready
<1>7. RunHoldsItsSlot' /\ StartHoldsItsSlot'
  BY InitGrows, HoldingsStay DEF IInv, PoolFails, runVars
<1>. QED BY <1>4, <1>5, <1>6, <1>7 DEF IInv

\* A git command of acquire fails.
LEMMA PreparationFailsKeeps ==
  ASSUME IInv, NEW t \in Tasks, NEW i \in DOMAIN slots, PreparationFails(t, i), UNCHANGED bound
  PROVE  IInv'
<1>1. /\ slots' \in Seq(SlotRecord) /\ DOMAIN slots \subseteq DOMAIN slots'
      /\ pool' \in {"none", "initialising", "ready"}
  BY FailedEffect DEF IInv, TypeOK, SlotRecord, PreparationFails, taskVars, poolVars,
     startVars, runVars, Ready
<1>2. status' \in [Tasks -> Statuses]
  BY FailedEffect DEF IInv, PreparationFails, Ready
<1>3. merges' \in Seq(Merge) /\ pulled' \in BOOLEAN
  BY FailedEffect DEF IInv, TypeOK, PreparationFails, runVars, Ready
<1>4. TypeOK'
  BY <1>1, <1>2, <1>3, FailedEffect DEF IInv, TypeOK, PreparationFails, poolVars, runVars,
     Ready
<1>5. WorkHasADir'
  BY FailedEffect DEF IInv, WorkHasADir, PreparationFails, poolVars, startVars, runVars, Ready
<1>6. RunningIsDriven'
  BY FailedEffect DEF IInv, RunningIsDriven, PreparationFails, runVars, Ready
<1>7. RunHoldsItsSlot' /\ StartHoldsItsSlot'
  BY HoldingsStay DEF SlotsGrow, PreparationFails, poolVars, runVars, Ready
<1>. QED BY <1>4, <1>5, <1>6, <1>7 DEF IInv

\* A start fails before the task is marked running.
LEMMA StartFailsEarlyKeeps ==
  ASSUME IInv, NEW t \in Tasks, NEW i \in DOMAIN slots, StartFailsEarly(t, i), UNCHANGED bound
  PROVE  IInv'
<1>1. /\ slots' \in Seq(SlotRecord) /\ DOMAIN slots \subseteq DOMAIN slots'
      /\ pool' \in {"none", "initialising", "ready"}
  BY FailedEffect, ReleaseTyped DEF IInv, TypeOK, SlotRecord, StartFailsEarly, taskVars,
     poolVars, startVars, runVars, Ready
<1>2. status' \in [Tasks -> Statuses]
  BY FailedEffect DEF IInv, StartFailsEarly, Ready
<1>3. merges' \in Seq(Merge) /\ pulled' \in BOOLEAN
  BY FailedEffect, ReleaseTyped DEF IInv, TypeOK, StartFailsEarly, runVars, Ready
<1>4. TypeOK'
  BY <1>1, <1>2, <1>3, FailedEffect DEF IInv, TypeOK, SlotRecord, StartFailsEarly, runVars,
     Ready
<1>5. WorkHasADir'
  BY FailedEffect DEF IInv, WorkHasADir, StartFailsEarly, poolVars, startVars, runVars, Ready
<1>6. RunningIsDriven'
  BY FailedEffect DEF IInv, RunningIsDriven, StartFailsEarly, runVars, Ready
<1>7. RunHoldsItsSlot' /\ StartHoldsItsSlot'
  BY HoldingsReleased, HoldingsStay DEF SlotsGrow, StartFailsEarly, runVars, Ready
<1>. QED BY <1>4, <1>5, <1>6, <1>7 DEF IInv

\* A start fails after that.
LEMMA StartFailsLateKeeps ==
  ASSUME IInv, NEW t \in Tasks, NEW i \in DOMAIN slots, StartFailsLate(t, i), UNCHANGED bound
  PROVE  IInv'
<1>1. /\ slots' \in Seq(SlotRecord) /\ DOMAIN slots \subseteq DOMAIN slots'
      /\ pool' \in {"none", "initialising", "ready"}
  BY PathOfSlot, ReleaseTyped DEF IInv, TypeOK, StartFailsLate, SetStatus, Statuses, taskVars,
     poolVars, startVars, runVars, Ready
<1>2. status' \in [Tasks -> Statuses]
  BY PathOfSlot DEF IInv, TypeOK, StartFailsLate, SetStatus, Statuses, startVars, runVars,
     Ready
<1>3. merges' \in Seq(Merge) /\ pulled' \in BOOLEAN
  BY PathOfSlot, ReleaseTyped DEF IInv, TypeOK, StartFailsLate, poolVars, startVars, runVars,
     Ready
<1>4. TypeOK'
  BY <1>1, <1>2, <1>3, PathOfSlot DEF IInv, TypeOK, SlotRecord, StartFailsLate, poolVars,
     startVars, runVars, Ready
<1>5. WorkHasADir'
  BY PathOfSlot DEF IInv, WorkHasADir, StartFailsLate, SetStatus, Statuses, taskVars, poolVars,
     startVars, runVars, Ready
<1>6. RunningIsDriven'
  BY PathOfSlot DEF IInv, RunningIsDriven, StartFailsLate, SetStatus, poolVars, startVars,
     runVars, Ready
<1>7. RunHoldsItsSlot' /\ StartHoldsItsSlot'
  BY HoldingsReleased, HoldingsStay DEF StartFailsLate, startVars, runVars, Ready
<1>. QED BY <1>4, <1>5, <1>6, <1>7 DEF IInv

\* A user creates a task,
LEMMA CreateTaskKeeps ==
  ASSUME IInv, NEW t \in Tasks, CreateTask(t), UNCHANGED bound
  PROVE  IInv'
<1>1. /\ slots' \in Seq(SlotRecord) /\ DOMAIN slots \subseteq DOMAIN slots'
      /\ pool' \in {"none", "initialising", "ready"}
  BY DEF IInv, TypeOK, SlotRecord, CreateTask, SetStatus, Statuses, taskVars, poolVars,
     startVars, runVars, Ready
<1>2. status' \in [Tasks -> Statuses]
  BY DEF IInv, TypeOK, CreateTask, SetStatus, Statuses, startVars, runVars, Ready
<1>3. merges' \in Seq(Merge) /\ pulled' \in BOOLEAN
  BY DEF IInv, TypeOK, CreateTask, poolVars, startVars, runVars, Ready
<1>4. TypeOK'
  BY <1>1, <1>2, <1>3 DEF IInv, TypeOK, CreateTask, poolVars, startVars, runVars, Ready
<1>5. WorkHasADir'
  BY DEF IInv, WorkHasADir, CreateTask, SetStatus, Statuses, taskVars, poolVars, startVars,
     runVars, Ready
<1>6. RunningIsDriven'
  BY DEF IInv, RunningIsDriven, CreateTask, SetStatus, poolVars, startVars, runVars, Ready
<1>7. RunHoldsItsSlot' /\ StartHoldsItsSlot'
  BY HoldingsStay DEF SlotsGrow, CreateTask, poolVars, startVars, runVars, Ready
<1>. QED BY <1>4, <1>5, <1>6, <1>7 DEF IInv

\* cancels it,
LEMMA CancelTaskKeeps ==
  ASSUME IInv, NEW t \in Tasks, CancelTask(t), UNCHANGED bound
  PROVE  IInv'
<1>1. /\ slots' \in Seq(SlotRecord) /\ DOMAIN slots \subseteq DOMAIN slots'
      /\ pool' \in {"none", "initialising", "ready"}
  BY DEF IInv, TypeOK, SlotRecord, CancelTask, SetStatus, Statuses, taskVars, poolVars,
     startVars, runVars, Ready
<1>2. status' \in [Tasks -> Statuses]
  BY DEF IInv, TypeOK, CancelTask, SetStatus, Statuses, startVars, runVars, Ready
<1>3. merges' \in Seq(Merge) /\ pulled' \in BOOLEAN
  BY DEF IInv, TypeOK, CancelTask, poolVars, startVars, runVars, Ready
<1>4. TypeOK'
  BY <1>1, <1>2, <1>3 DEF IInv, TypeOK, CancelTask, poolVars, startVars, runVars, Ready
<1>5. WorkHasADir'
  BY DEF IInv, WorkHasADir, CancelTask, SetStatus, Statuses, taskVars, poolVars, startVars,
     runVars, Ready
<1>6. RunningIsDriven'
  BY DEF IInv, RunningIsDriven, CancelTask, SetStatus, poolVars, startVars, runVars, Ready
<1>7. RunHoldsItsSlot' /\ StartHoldsItsSlot'
  BY HoldingsStay DEF SlotsGrow, CancelTask, poolVars, startVars, runVars, Ready
<1>. QED BY <1>4, <1>5, <1>6, <1>7 DEF IInv

\* retries it,
LEMMA RetryTaskKeeps ==
  ASSUME IInv, NEW t \in Tasks, RetryTask(t), UNCHANGED bound
  PROVE  IInv'
<1>1. /\ slots' \in Seq(SlotRecord) /\ DOMAIN slots \subseteq DOMAIN slots'
      /\ pool' \in {"none", "initialising", "ready"}
  BY DEF IInv, TypeOK, SlotRecord, RetryTask, SetStatus, Statuses, taskVars, poolVars,
     startVars, runVars, Ready
<1>2. status' \in [Tasks -> Statuses]
  BY DEF IInv, TypeOK, RetryTask, SetStatus, Statuses, startVars, runVars, Ready
<1>3. merges' \in Seq(Merge) /\ pulled' \in BOOLEAN
  BY DEF IInv, TypeOK, RetryTask, poolVars, startVars, runVars, Ready
<1>4. TypeOK'
  BY <1>1, <1>2, <1>3 DEF IInv, TypeOK, RetryTask, poolVars, startVars, runVars, Ready
<1>5. WorkHasADir'
  BY DEF IInv, WorkHasADir, RetryTask, SetStatus, Statuses, taskVars, poolVars, startVars,
     runVars, Ready
<1>6. RunningIsDriven'
  BY DEF IInv, RunningIsDriven, RetryTask, SetStatus, poolVars, startVars, runVars, Ready
<1>7. RunHoldsItsSlot' /\ StartHoldsItsSlot'
  BY HoldingsStay DEF SlotsGrow, RetryTask, poolVars, startVars, runVars, Ready
<1>. QED BY <1>4, <1>5, <1>6, <1>7 DEF IInv

\* asks for its merge,
LEMMA AskForMergeKeeps ==
  ASSUME IInv, NEW t \in Tasks, NEW by \in {"user", "review", "resolve"}, AskForMerge(t, by),
         UNCHANGED bound
  PROVE  IInv'
<1>1. /\ slots' \in Seq(SlotRecord) /\ DOMAIN slots \subseteq DOMAIN slots'
      /\ pool' \in {"none", "initialising", "ready"}
  BY AppendProperties DEF IInv, TypeOK, SlotRecord, AskForMerge, Merge, taskVars, poolVars,
     startVars, runVars, Ready
<1>2. status' \in [Tasks -> Statuses]
  BY AppendProperties DEF IInv, TypeOK, AskForMerge, taskVars, runVars, Ready
<1>3. merges' \in Seq(Merge) /\ pulled' \in BOOLEAN
  BY AppendProperties DEF IInv, TypeOK, AskForMerge, Merge, startVars, runVars, Ready
<1>4. TypeOK'
  BY <1>1, <1>2, <1>3, AppendProperties DEF IInv, TypeOK, AskForMerge, taskVars, poolVars,
     startVars, runVars, Ready
<1>5. WorkHasADir'
  BY AppendProperties DEF IInv, WorkHasADir, AskForMerge, taskVars, poolVars, startVars,
     runVars, Ready
<1>6. RunningIsDriven'
  BY AppendProperties DEF IInv, RunningIsDriven, AskForMerge, taskVars, startVars, runVars,
     Ready
<1>7. RunHoldsItsSlot' /\ StartHoldsItsSlot'
  BY HoldingsStay DEF SlotsGrow, AskForMerge, poolVars, startVars, runVars, Ready
<1>. QED BY <1>4, <1>5, <1>6, <1>7 DEF IInv

\* rejects its result.
LEMMA RejectTaskResultKeeps ==
  ASSUME IInv, NEW t \in Tasks, RejectTaskResult(t), UNCHANGED bound
  PROVE  IInv'
<1>1. /\ slots' \in Seq(SlotRecord) /\ DOMAIN slots \subseteq DOMAIN slots'
      /\ pool' \in {"none", "initialising", "ready"}
  BY ReleaseTyped DEF IInv, TypeOK, RejectTaskResult, SetStatus, Statuses, taskVars, poolVars,
     startVars, runVars, Ready
<1>2. status' \in [Tasks -> Statuses]
  BY DEF IInv, TypeOK, RejectTaskResult, SetStatus, Statuses, startVars, runVars, Ready
<1>3. merges' \in Seq(Merge) /\ pulled' \in BOOLEAN
  BY ReleaseTyped DEF IInv, TypeOK, RejectTaskResult, poolVars, startVars, runVars, Ready
<1>4. TypeOK'
  BY <1>1, <1>2, <1>3 DEF IInv, TypeOK, SlotRecord, RejectTaskResult, poolVars, startVars,
     runVars, Ready
<1>5. WorkHasADir'
  BY DEF IInv, TypeOK, WorkHasADir, RejectTaskResult, SetStatus, Statuses, taskVars, poolVars,
     startVars, runVars, Ready
<1>6. RunningIsDriven'
  BY DEF IInv, TypeOK, RunningIsDriven, RejectTaskResult, SetStatus, poolVars, startVars,
     runVars, Ready
<1>7. RunHoldsItsSlot' /\ StartHoldsItsSlot'
  BY HoldingsReleased, HoldingsStay DEF RejectTaskResult, startVars, runVars, Ready
<1>. QED BY <1>4, <1>5, <1>6, <1>7 DEF IInv

\* A run completes.
LEMMA RunCompletesKeeps ==
  ASSUME IInv, NEW t \in Tasks, NEW path \in Paths, RunCompletes(t, path), UNCHANGED bound
  PROVE  IInv'
<1>1. /\ slots' \in Seq(SlotRecord) /\ DOMAIN slots \subseteq DOMAIN slots'
      /\ pool' \in {"none", "initialising", "ready"}
  BY DEF IInv, TypeOK, SlotRecord, RunCompletes, taskVars, poolVars, startVars, runVars, Ready
<1>2. status' \in [Tasks -> Statuses]
  BY DEF IInv, TypeOK, RunCompletes, taskVars, Ready
<1>3. merges' \in Seq(Merge) /\ pulled' \in BOOLEAN
  BY DEF IInv, TypeOK, RunCompletes, runVars, Ready
<1>4. TypeOK'
  BY <1>1, <1>2, <1>3 DEF IInv, TypeOK, RunCompletes, taskVars, poolVars, startVars, runVars,
     Ready
<1>5. WorkHasADir'
  BY DEF IInv, WorkHasADir, RunCompletes, taskVars, poolVars, startVars, runVars, Ready
<1>6. RunningIsDriven'
  BY DEF IInv, RunningIsDriven, RunCompletes, taskVars, runVars, Ready
<1>7. RunHoldsItsSlot' /\ StartHoldsItsSlot'
  BY HoldingsStay DEF SlotsGrow, RunCompletes, poolVars, startVars, Ready
<1>. QED BY <1>4, <1>5, <1>6, <1>7 DEF IInv

\* A run fails.
LEMMA RunFailsKeeps ==
  ASSUME IInv, NEW t \in Tasks, NEW path \in Paths, RunFails(t, path), UNCHANGED bound
  PROVE  IInv'
<1>1. /\ slots' \in Seq(SlotRecord) /\ DOMAIN slots \subseteq DOMAIN slots'
      /\ pool' \in {"none", "initialising", "ready"}
  BY FailedEffect, ReleaseTyped DEF IInv, TypeOK, SlotRecord, RunFails, taskVars, poolVars,
     startVars, runVars, Ready
<1>2. status' \in [Tasks -> Statuses]
  BY FailedEffect DEF IInv, RunFails, Ready
<1>3. merges' \in Seq(Merge) /\ pulled' \in BOOLEAN
  BY FailedEffect, ReleaseTyped DEF IInv, TypeOK, RunFails, runVars, Ready
<1>4. TypeOK'
  BY <1>1, <1>2, <1>3, FailedEffect DEF IInv, TypeOK, SlotRecord, RunFails, startVars, runVars,
     Ready
<1>5. WorkHasADir'
  BY FailedEffect DEF IInv, WorkHasADir, RunFails, poolVars, startVars, runVars, Ready
<1>6. RunningIsDriven'
  BY FailedEffect DEF IInv, RunningIsDriven, RunFails, runVars, Ready
<1>7. RunHoldsItsSlot' /\ StartHoldsItsSlot'
  BY HoldingsReleased, HoldingsStay DEF SlotsGrow, RunFails, startVars, Ready
<1>. QED BY <1>4, <1>5, <1>6, <1>7 DEF IInv

\* The completion of a task ends.
LEMMA FinishCompletionKeeps ==
  ASSUME IInv, NEW t \in Tasks, FinishCompletion(t), UNCHANGED bound
  PROVE  IInv'
<1>1. /\ slots' \in Seq(SlotRecord) /\ DOMAIN slots \subseteq DOMAIN slots'
      /\ pool' \in {"none", "initialising", "ready"}
  BY DEF IInv, TypeOK, SlotRecord, FinishCompletion, SetStatus, Statuses, taskVars, poolVars,
     startVars, runVars, Ready
<1>2. status' \in [Tasks -> Statuses]
  BY DEF IInv, TypeOK, FinishCompletion, SetStatus, Statuses, startVars, runVars, Ready
<1>3. merges' \in Seq(Merge) /\ pulled' \in BOOLEAN
  BY DEF IInv, TypeOK, FinishCompletion, poolVars, startVars, runVars, Ready
<1>4. TypeOK'
  BY <1>1, <1>2, <1>3 DEF IInv, TypeOK, FinishCompletion, poolVars, startVars, runVars, Ready
<1>5. WorkHasADir'
  BY DEF IInv, WorkHasADir, Paths, FinishCompletion, SetStatus, Statuses, taskVars, poolVars,
     startVars, runVars, Ready
<1>6. RunningIsDriven'
  BY DEF IInv, TypeOK, RunningIsDriven, FinishCompletion, SetStatus, poolVars, startVars,
     runVars, Ready
<1>7. RunHoldsItsSlot' /\ StartHoldsItsSlot'
  BY HoldingsStay DEF SlotsGrow, FinishCompletion, poolVars, startVars, runVars, Ready
<1>. QED BY <1>4, <1>5, <1>6, <1>7 DEF IInv

\* The completion of a task throws.
LEMMA CompletionFailsKeeps ==
  ASSUME IInv, NEW t \in Tasks, CompletionFails(t), UNCHANGED bound
  PROVE  IInv'
<1>1. /\ slots' \in Seq(SlotRecord) /\ DOMAIN slots \subseteq DOMAIN slots'
      /\ pool' \in {"none", "initialising", "ready"}
  BY DEF IInv, TypeOK, SlotRecord, CompletionFails, SetStatus, Statuses, CanTransition,
     TASK_TRANSITIONS, taskVars, poolVars, startVars, runVars, Ready
<1>2. status' \in [Tasks -> Statuses]
  BY DEF IInv, TypeOK, CompletionFails, SetStatus, Statuses, taskVars, poolVars, startVars,
     runVars, Ready
<1>3. merges' \in Seq(Merge) /\ pulled' \in BOOLEAN
  BY DEF IInv, TypeOK, CompletionFails, TASK_TRANSITIONS, taskVars, poolVars, startVars,
     runVars, Ready
<1>4. TypeOK'
  BY <1>1, <1>2, <1>3 DEF IInv, TypeOK, CompletionFails, TASK_TRANSITIONS, taskVars, poolVars,
     startVars, runVars, Ready
<1>5. WorkHasADir'
  BY DEF IInv, TypeOK, WorkHasADir, CompletionFails, SetStatus, Statuses, CanTransition,
     TASK_TRANSITIONS, taskVars, poolVars, startVars, runVars, Ready
<1>6. RunningIsDriven'
  BY DEF IInv, TypeOK, RunningIsDriven, CompletionFails, SetStatus, CanTransition,
     TASK_TRANSITIONS, taskVars, poolVars, startVars, runVars, Ready
<1>7. RunHoldsItsSlot' /\ StartHoldsItsSlot'
  BY HoldingsStay DEF SlotsGrow, CompletionFails, taskVars, poolVars, startVars, runVars, Ready
<1>. QED BY <1>4, <1>5, <1>6, <1>7 DEF IInv

\* A review approves.
LEMMA ReviewApprovesKeeps ==
  ASSUME IInv, NEW t \in Tasks, ReviewApproves(t), UNCHANGED bound
  PROVE  IInv'
<1>1. /\ slots' \in Seq(SlotRecord) /\ DOMAIN slots \subseteq DOMAIN slots'
      /\ pool' \in {"none", "initialising", "ready"}
  BY AppendProperties DEF IInv, TypeOK, SlotRecord, ReviewApproves, Merge, taskVars, poolVars,
     startVars, runVars, Ready
<1>2. status' \in [Tasks -> Statuses]
  BY AppendProperties DEF IInv, TypeOK, ReviewApproves, taskVars, runVars, Ready
<1>3. merges' \in Seq(Merge) /\ pulled' \in BOOLEAN
  BY AppendProperties DEF IInv, TypeOK, WorkHasADir, ReviewApproves, Merge, startVars, runVars,
     Ready
<1>4. TypeOK'
  BY <1>1, <1>2, <1>3, AppendProperties DEF IInv, TypeOK, ReviewApproves, taskVars, poolVars,
     startVars, runVars, Ready
<1>5. WorkHasADir'
  BY AppendProperties DEF IInv, WorkHasADir, ReviewApproves, taskVars, poolVars, startVars,
     runVars, Ready
<1>6. RunningIsDriven'
  BY AppendProperties DEF IInv, RunningIsDriven, ReviewApproves, taskVars, startVars, runVars,
     Ready
<1>7. RunHoldsItsSlot' /\ StartHoldsItsSlot'
  BY HoldingsStay DEF SlotsGrow, ReviewApproves, poolVars, startVars, runVars, Ready
<1>. QED BY <1>4, <1>5, <1>6, <1>7 DEF IInv

\* A review rejects.
LEMMA ReviewRejectsKeeps ==
  ASSUME IInv, NEW t \in Tasks, ReviewRejects(t), UNCHANGED bound
  PROVE  IInv'
<1>1. /\ slots' \in Seq(SlotRecord) /\ DOMAIN slots \subseteq DOMAIN slots'
      /\ pool' \in {"none", "initialising", "ready"}
  BY ReleaseTyped DEF IInv, TypeOK, ReviewRejects, SetStatus, Statuses, taskVars, poolVars,
     startVars, runVars, Ready
<1>2. status' \in [Tasks -> Statuses]
  BY DEF IInv, TypeOK, ReviewRejects, SetStatus, Statuses, startVars, runVars, Ready
<1>3. merges' \in Seq(Merge) /\ pulled' \in BOOLEAN
  BY ReleaseTyped DEF IInv, TypeOK, ReviewRejects, poolVars, startVars, runVars, Ready
<1>4. TypeOK'
  BY <1>1, <1>2, <1>3 DEF IInv, TypeOK, SlotRecord, ReviewRejects, poolVars, startVars,
     runVars, Ready
<1>5. WorkHasADir'
  BY DEF IInv, WorkHasADir, ReviewRejects, SetStatus, Statuses, taskVars, poolVars, startVars,
     runVars, Ready
<1>6. RunningIsDriven'
  BY DEF IInv, RunningIsDriven, ReviewRejects, SetStatus, poolVars, startVars, runVars, Ready
<1>7. RunHoldsItsSlot' /\ StartHoldsItsSlot'
  BY HoldingsReleased, HoldingsStay DEF ReviewRejects, startVars, runVars, Ready
<1>. QED BY <1>4, <1>5, <1>6, <1>7 DEF IInv

\* A merge throws.
LEMMA MergeThrowsKeeps ==
  ASSUME IInv, MergeThrows, UNCHANGED bound
  PROVE  IInv'
<1>1. /\ slots' \in Seq(SlotRecord) /\ DOMAIN slots \subseteq DOMAIN slots'
      /\ pool' \in {"none", "initialising", "ready"}
  BY MergesTyped DEF IInv, TypeOK, SlotRecord, MergeThrows, MergeEnds, taskVars, poolVars,
     startVars, runVars, Ready
<1>2. status' \in [Tasks -> Statuses]
  BY MergesTyped DEF IInv, TypeOK, MergeThrows, taskVars, runVars, Ready
<1>3. merges' \in Seq(Merge) /\ pulled' \in BOOLEAN
  BY MergesTyped DEF IInv, TypeOK, MergeThrows, MergeEnds, startVars, runVars, Ready
<1>4. TypeOK'
  BY <1>1, <1>2, <1>3, MergesTyped DEF IInv, TypeOK, MergeThrows, taskVars, poolVars,
     startVars, runVars, Ready
<1>5. WorkHasADir'
  BY MergesTyped DEF IInv, WorkHasADir, MergeThrows, taskVars, poolVars, startVars, runVars,
     Ready
<1>6. RunningIsDriven'
  BY MergesTyped DEF IInv, RunningIsDriven, MergeThrows, taskVars, startVars, runVars, Ready
<1>7. RunHoldsItsSlot' /\ StartHoldsItsSlot'
  BY HoldingsStay DEF SlotsGrow, MergeThrows, poolVars, startVars, runVars, Ready
<1>. QED BY <1>4, <1>5, <1>6, <1>7 DEF IInv

\* A merge ends that a review asked for: with success,
LEMMA ReviewedMergeSucceedsKeeps ==
  ASSUME IInv, ReviewedMergeSucceeds, UNCHANGED bound
  PROVE  IInv'
<1>1. /\ slots' \in Seq(SlotRecord) /\ DOMAIN slots \subseteq DOMAIN slots'
      /\ pool' \in {"none", "initialising", "ready"}
  BY MergesTyped, ReleaseTyped DEF IInv, TypeOK, ReviewedMergeSucceeds, MergeEnds, SetStatus,
     Statuses, taskVars, poolVars, startVars, runVars, Ready
<1>2. status' \in [Tasks -> Statuses]
  BY MergesTyped DEF IInv, TypeOK, ReviewedMergeSucceeds, SetStatus, Statuses, poolVars,
     startVars, runVars, Ready
<1>3. merges' \in Seq(Merge) /\ pulled' \in BOOLEAN
  BY MergesTyped, ReleaseTyped DEF IInv, ReviewedMergeSucceeds, MergeEnds, taskVars, poolVars,
     startVars, runVars, Ready
<1>4. TypeOK'
  BY <1>1, <1>2, <1>3, MergesTyped DEF IInv, TypeOK, SlotRecord, ReviewedMergeSucceeds,
     taskVars, poolVars, startVars, runVars, Ready
<1>5. WorkHasADir'
  BY MergesTyped DEF IInv, WorkHasADir, Paths, NoDir, ReviewedMergeSucceeds, MergeEnds,
     SetStatus, Statuses, taskVars, poolVars, startVars, runVars, Ready
<1>6. RunningIsDriven'
  BY MergesTyped DEF IInv, TypeOK, RunningIsDriven, ReviewedMergeSucceeds, SetStatus, taskVars,
     poolVars, startVars, runVars, Ready
<1>7. RunHoldsItsSlot' /\ StartHoldsItsSlot'
  BY HoldingsReleased, HoldingsStay DEF ReviewedMergeSucceeds, poolVars, startVars, runVars,
     Ready
<1>. QED BY <1>4, <1>5, <1>6, <1>7 DEF IInv

\* with a conflict.
LEMMA ReviewedMergeConflictsKeeps ==
  ASSUME IInv, ReviewedMergeConflicts, UNCHANGED bound
  PROVE  IInv'
<1>1. /\ slots' \in Seq(SlotRecord) /\ DOMAIN slots \subseteq DOMAIN slots'
      /\ pool' \in {"none", "initialising", "ready"}
  BY MergesTyped DEF IInv, TypeOK, SlotRecord, ReviewedMergeConflicts, MergeEnds, SetStatus,
     Statuses, taskVars, poolVars, startVars, runVars, Ready
<1>2. status' \in [Tasks -> Statuses]
  BY MergesTyped DEF IInv, TypeOK, ReviewedMergeConflicts, SetStatus, Statuses, poolVars,
     startVars, runVars, Ready
<1>3. merges' \in Seq(Merge) /\ pulled' \in BOOLEAN
  BY MergesTyped DEF IInv, TypeOK, ReviewedMergeConflicts, MergeEnds, taskVars, poolVars,
     startVars, runVars, Ready
<1>4. TypeOK'
  BY <1>1, <1>2, <1>3, MergesTyped DEF IInv, TypeOK, ReviewedMergeConflicts, taskVars,
     poolVars, startVars, runVars, Ready
<1>5. WorkHasADir'
  BY MergesTyped DEF IInv, WorkHasADir, ReviewedMergeConflicts, SetStatus, Statuses, taskVars,
     poolVars, startVars, runVars, Ready
<1>6. RunningIsDriven'
  BY MergesTyped DEF IInv, RunningIsDriven, ReviewedMergeConflicts, SetStatus, taskVars,
     poolVars, startVars, runVars, Ready
<1>7. RunHoldsItsSlot' /\ StartHoldsItsSlot'
  BY HoldingsStay DEF SlotsGrow, ReviewedMergeConflicts, poolVars, startVars, runVars, Ready
<1>. QED BY <1>4, <1>5, <1>6, <1>7 DEF IInv

\* A merge ends that a user asked for: with success,
LEMMA ApprovedMergeSucceedsKeeps ==
  ASSUME IInv, ApprovedMergeSucceeds, UNCHANGED bound
  PROVE  IInv'
<1>0. \A u \in Tasks : status'[u] = status[u] \/ status'[u] \in {"queued", "integrated", "merge_conflict"}
  <2>1. Head(merges).task \in Tasks
    BY MergesTyped DEF ApprovedMergeSucceeds, MergeEnds, IInv
  <2>2. \A s \in Statuses : [status EXCEPT ![Head(merges).task] = s] \in [Tasks -> Statuses]
    BY <2>1 DEF IInv, TypeOK
  <2>3. \/ UNCHANGED status
        \/ \E s \in {"integrated", "merge_conflict"} : TickFrom([status EXCEPT ![Head(merges).task] = s])
    BY DEF ApprovedMergeSucceeds, SetAndTick
  <2>4. \A s \in {"integrated", "merge_conflict"}, u \in Tasks :
          [status EXCEPT ![Head(merges).task] = s][u] \in {status[u], s}
    BY <2>1
  <2>5. "integrated" \in Statuses /\ "merge_conflict" \in Statuses
    BY DEF Statuses
  <2>. QED BY <2>2, <2>3, <2>4, <2>5, TickEffect DEF IInv
<1>1. /\ slots' \in Seq(SlotRecord) /\ DOMAIN slots \subseteq DOMAIN slots'
      /\ pool' \in {"none", "initialising", "ready"}
  BY MergesTyped, TickEffect, ReleaseTyped DEF IInv, TypeOK, ApprovedMergeSucceeds, MergeEnds,
     SetAndTick, Statuses, taskVars, poolVars, startVars, runVars, Ready
<1>2. status' \in [Tasks -> Statuses]
  BY MergesTyped, TickEffect DEF IInv, TypeOK, ApprovedMergeSucceeds, SetAndTick, Statuses,
     poolVars, startVars, runVars, Ready
<1>3. merges' \in Seq(Merge) /\ pulled' \in BOOLEAN
  BY MergesTyped, TickEffect, ReleaseTyped DEF IInv, ApprovedMergeSucceeds, MergeEnds,
     taskVars, poolVars, startVars, runVars, Ready
<1>4. TypeOK'
  BY <1>1, <1>2, <1>3, MergesTyped, TickEffect DEF IInv, TypeOK, SlotRecord,
     ApprovedMergeSucceeds, SetAndTick, Statuses, taskVars, poolVars, startVars, runVars, Ready
<1>5. WorkHasADir'
  BY <1>0 DEF IInv, WorkHasADir, ApprovedMergeSucceeds, SetAndTick, Statuses, taskVars,
     poolVars, startVars, runVars, Ready
<1>6. RunningIsDriven'
  BY <1>0 DEF IInv, RunningIsDriven, ApprovedMergeSucceeds, taskVars, poolVars, startVars,
     runVars, Ready
<1>7. RunHoldsItsSlot' /\ StartHoldsItsSlot'
  BY HoldingsReleased, HoldingsStay DEF ApprovedMergeSucceeds, poolVars, startVars, runVars,
     Ready
<1>. QED BY <1>4, <1>5, <1>6, <1>7 DEF IInv

\* with a conflict.
LEMMA ApprovedMergeConflictsKeeps ==
  ASSUME IInv, ApprovedMergeConflicts, UNCHANGED bound
  PROVE  IInv'
<1>0. \A u \in Tasks : status'[u] = status[u] \/ status'[u] \in {"queued", "integrated", "merge_conflict"}
  <2>1. Head(merges).task \in Tasks
    BY MergesTyped DEF ApprovedMergeConflicts, MergeEnds, IInv
  <2>2. \A s \in Statuses : [status EXCEPT ![Head(merges).task] = s] \in [Tasks -> Statuses]
    BY <2>1 DEF IInv, TypeOK
  <2>3. \/ UNCHANGED status
        \/ \E s \in {"integrated", "merge_conflict"} : TickFrom([status EXCEPT ![Head(merges).task] = s])
    BY DEF ApprovedMergeConflicts, SetAndTick
  <2>4. \A s \in {"integrated", "merge_conflict"}, u \in Tasks :
          [status EXCEPT ![Head(merges).task] = s][u] \in {status[u], s}
    BY <2>1
  <2>5. "integrated" \in Statuses /\ "merge_conflict" \in Statuses
    BY DEF Statuses
  <2>. QED BY <2>2, <2>3, <2>4, <2>5, TickEffect DEF IInv
<1>1. /\ slots' \in Seq(SlotRecord) /\ DOMAIN slots \subseteq DOMAIN slots'
      /\ pool' \in {"none", "initialising", "ready"}
  BY MergesTyped, TickEffect DEF IInv, TypeOK, SlotRecord, ApprovedMergeConflicts, MergeEnds,
     SetAndTick, Statuses, taskVars, poolVars, startVars, runVars, Ready
<1>2. status' \in [Tasks -> Statuses]
  BY MergesTyped, TickEffect DEF IInv, TypeOK, ApprovedMergeConflicts, SetAndTick, Statuses,
     poolVars, startVars, runVars, Ready
<1>3. merges' \in Seq(Merge) /\ pulled' \in BOOLEAN
  BY MergesTyped, TickEffect DEF IInv, TypeOK, ApprovedMergeConflicts, MergeEnds, taskVars,
     poolVars, startVars, runVars, Ready
<1>4. TypeOK'
  BY <1>1, <1>2, <1>3, MergesTyped, TickEffect DEF IInv, TypeOK, ApprovedMergeConflicts,
     SetAndTick, Statuses, taskVars, poolVars, startVars, runVars, Ready
<1>5. WorkHasADir'
  BY <1>0 DEF IInv, WorkHasADir, ApprovedMergeConflicts, SetAndTick, Statuses, taskVars,
     poolVars, startVars, runVars, Ready
<1>6. RunningIsDriven'
  BY <1>0 DEF IInv, RunningIsDriven, ApprovedMergeConflicts, taskVars, poolVars, startVars,
     runVars, Ready
<1>7. RunHoldsItsSlot' /\ StartHoldsItsSlot'
  BY HoldingsStay DEF SlotsGrow, ApprovedMergeConflicts, poolVars, startVars, runVars, Ready
<1>. QED BY <1>4, <1>5, <1>6, <1>7 DEF IInv

\* A merge ends after its conflict was resolved.
LEMMA ResolvedMergeSucceedsKeeps ==
  ASSUME IInv, ResolvedMergeSucceeds, UNCHANGED bound
  PROVE  IInv'
<1>0. \A u \in Tasks : status'[u] = status[u] \/ status'[u] \in {"queued", "integrated", "merge_conflict"}
  <2>1. Head(merges).task \in Tasks
    BY MergesTyped DEF ResolvedMergeSucceeds, MergeEnds, IInv
  <2>2. \A s \in Statuses : [status EXCEPT ![Head(merges).task] = s] \in [Tasks -> Statuses]
    BY <2>1 DEF IInv, TypeOK
  <2>3. \/ UNCHANGED status
        \/ \E s \in {"integrated", "merge_conflict"} : TickFrom([status EXCEPT ![Head(merges).task] = s])
    BY DEF ResolvedMergeSucceeds
  <2>4. \A s \in {"integrated", "merge_conflict"}, u \in Tasks :
          [status EXCEPT ![Head(merges).task] = s][u] \in {status[u], s}
    BY <2>1
  <2>5. "integrated" \in Statuses /\ "merge_conflict" \in Statuses
    BY DEF Statuses
  <2>. QED BY <2>2, <2>3, <2>4, <2>5, TickEffect DEF IInv
<1>1. /\ slots' \in Seq(SlotRecord) /\ DOMAIN slots \subseteq DOMAIN slots'
      /\ pool' \in {"none", "initialising", "ready"}
  BY MergesTyped, TickEffect, ReleaseTyped DEF IInv, TypeOK, ResolvedMergeSucceeds, MergeEnds,
     Statuses, taskVars, poolVars, startVars, runVars, Ready
<1>2. status' \in [Tasks -> Statuses]
  BY MergesTyped, TickEffect DEF IInv, TypeOK, ResolvedMergeSucceeds, Statuses, startVars,
     runVars, Ready
<1>3. merges' \in Seq(Merge) /\ pulled' \in BOOLEAN
  BY MergesTyped, TickEffect, ReleaseTyped DEF IInv, ResolvedMergeSucceeds, MergeEnds,
     poolVars, startVars, runVars, Ready
<1>4. TypeOK'
  BY <1>1, <1>2, <1>3, MergesTyped, TickEffect DEF IInv, TypeOK, SlotRecord,
     ResolvedMergeSucceeds, Statuses, poolVars, startVars, runVars, Ready
<1>5. WorkHasADir'
  BY <1>0 DEF IInv, WorkHasADir, ResolvedMergeSucceeds, Statuses, taskVars, poolVars,
     startVars, runVars, Ready
<1>6. RunningIsDriven'
  BY <1>0 DEF IInv, RunningIsDriven, ResolvedMergeSucceeds, poolVars, startVars, runVars, Ready
<1>7. RunHoldsItsSlot' /\ StartHoldsItsSlot'
  BY HoldingsReleased, HoldingsStay DEF ResolvedMergeSucceeds, startVars, runVars, Ready
<1>. QED BY <1>4, <1>5, <1>6, <1>7 DEF IInv

\* The server starts again, and running tasks are recovered.
LEMMA RestartKeeps ==
  ASSUME IInv, Restart, UNCHANGED bound
  PROVE  IInv'
<1>1. /\ slots' \in Seq(SlotRecord) /\ DOMAIN slots \subseteq DOMAIN slots'
      /\ pool' \in {"none", "initialising", "ready"}
  BY DEF IInv, TypeOK, SlotRecord, Restart, InStatus, Statuses, taskVars, poolVars, startVars,
     runVars, Ready
<1>2. status' \in [Tasks -> Statuses]
  BY DEF IInv, TypeOK, Restart, Statuses, startVars, runVars, Ready
<1>3. merges' \in Seq(Merge) /\ pulled' \in BOOLEAN
  BY DEF IInv, TypeOK, Restart, poolVars, startVars, runVars, Ready
<1>4. TypeOK'
  BY <1>1, <1>2, <1>3 DEF IInv, TypeOK, Restart, poolVars, startVars, runVars, Ready
<1>5. WorkHasADir'
  BY DEF IInv, WorkHasADir, Restart, Statuses, taskVars, poolVars, startVars, runVars, Ready
<1>6. RunningIsDriven'
  BY DEF RunningIsDriven, Restart, poolVars, startVars, runVars, Ready
<1>7. RunHoldsItsSlot' /\ StartHoldsItsSlot'
  BY HoldingsStay DEF SlotsGrow, Restart, poolVars, startVars, runVars, Ready
<1>. QED BY <1>4, <1>5, <1>6, <1>7 DEF IInv

\* A start takes a slot, or finds none.
LEMMA TakeSlotKeeps ==
  ASSUME IInv, NEW t \in Tasks, TakeSlot(t), UNCHANGED bound
  PROVE  IInv'
<1>1. CASE NoneFree /\ status' = Failed(t) /\ UNCHANGED <<slots, preparing>>
  <2>1. resumed' \in [Tasks -> Nat]
    BY DEF IInv, TypeOK, TakeSlot
  <2>4. Failed(t) \in [Tasks -> Statuses]
    BY FailedEffect DEF IInv
  <2>5. TypeOK'
    BY <1>1, <2>1, <2>4 DEF IInv, TypeOK, TakeSlot, runVars
  <2>2. WorkHasADir' /\ RunningIsDriven'
    BY <1>1, FailedEffect DEF IInv, WorkHasADir, RunningIsDriven, TakeSlot, runVars
  <2>3. RunHoldsItsSlot' /\ StartHoldsItsSlot'
    BY <1>1, HoldingsStay DEF SlotsGrow, TakeSlot, runVars
  <2>. QED BY <2>2, <2>3, <2>5 DEF IInv
<1>2. ASSUME NEW i \in DOMAIN slots, FirstFree(i), Acquire(t, i), preparing' = preparing \cup {<<t, i>>},
             UNCHANGED status
      PROVE  IInv'
  <2>1. /\ slots' \in Seq(SlotRecord) /\ DOMAIN slots' = DOMAIN slots /\ SlotsGrow
        /\ slots'[i].task = t
    BY <1>2, AcquireGrows DEF IInv, FirstFree
  <2>2. TypeOK'
    BY <1>2, <2>1 DEF IInv, TypeOK, TakeSlot, runVars, SlotRecord
  <2>3. WorkHasADir' /\ RunningIsDriven'
    BY <1>2 DEF IInv, WorkHasADir, RunningIsDriven, TakeSlot, runVars
  <2>4. RunHoldsItsSlot'
    <3>1. \A path : Doubled(path) => Doubled(path)'
      BY <2>1, DoubledStays DEF SlotsGrow
    <3>2. ASSUME NEW u \in Tasks, NEW path \in Paths, <<u, path>> \in runs, ~ pulled, ~ Doubled(path)'
          PROVE  \E k \in DOMAIN slots' : slots'[k] = [path |-> path, task |-> u]
      <4>1. PICK k \in DOMAIN slots : slots[k] = [path |-> path, task |-> u]
        BY <3>1, <3>2 DEF IInv, RunHoldsItsSlot
      <4>. QED BY <2>1, <4>1, ParallelAssumption DEF SlotsGrow
    <3>. QED BY <3>2 DEF RunHoldsItsSlot, TakeSlot, runVars
  <2>5. StartHoldsItsSlot'
    <3>1. ASSUME NEW c \in preparing, ~ pulled, ~ Doubled(slots[c[2]].path)'
          PROVE  slots'[c[2]].task = c[1]
      <4>1. c[1] \in Tasks /\ c[2] \in DOMAIN slots
        BY DEF IInv, TypeOK
      <4>2. ~ Doubled(slots[c[2]].path)
        BY <2>1, <3>1, <4>1, SlotDoubledStays DEF SlotsGrow
      <4>3. slots[c[2]].task = c[1] /\ slots[c[2]].task # NoTask
        BY <3>1, <4>1, <4>2, ParallelAssumption DEF IInv, StartHoldsItsSlot
      <4>. QED BY <2>1, <4>1, <4>3 DEF SlotsGrow
    <3>. QED BY <1>2, <2>1, <3>1 DEF StartHoldsItsSlot, TakeSlot
  <2>. QED BY <2>2, <2>3, <2>4, <2>5 DEF IInv
<1>. QED BY <1>1, <1>2 DEF TakeSlot

\* A start marks its task running and starts the run.
LEMMA StartTaskKeeps ==
  ASSUME IInv, NEW t \in Tasks, NEW i \in DOMAIN slots, StartTask(t, i), UNCHANGED bound
  PROVE  IInv'
<1>1. slots[i].path \in Paths /\ <<t, i>> \in preparing /\ UNCHANGED <<slots, pulled>>
  BY SlotsTyped DEF IInv, StartTask, poolVars, SlotRecord
<1>2. TypeOK'
  BY <1>1 DEF IInv, TypeOK, StartTask, poolVars, SetStatus, Statuses
<1>3. WorkHasADir'
  BY <1>1 DEF IInv, TypeOK, WorkHasADir, StartTask, SetStatus, Paths, NoDir
<1>4. RunningIsDriven'
  BY <1>1 DEF IInv, RunningIsDriven, StartTask, SetStatus
<1>5. RunHoldsItsSlot'
  <2>1. ~ pulled /\ ~ Doubled(slots[i].path) => slots[i] = [path |-> slots[i].path, task |-> t]
    <3>1. slots[i] \in SlotRecord
      BY SlotsTyped DEF IInv
    <3>. QED BY <1>1, <3>1 DEF IInv, StartHoldsItsSlot, SlotRecord
  <2>2. runs' \subseteq runs \cup {<<t, slots[i].path>>}
    BY DEF StartTask
  <2>3. ASSUME NEW u \in Tasks, NEW path \in Paths, <<u, path>> \in runs', ~ pulled, ~ Doubled(path)
        PROVE  \E k \in DOMAIN slots : slots[k] = [path |-> path, task |-> u]
    <3>1. CASE <<u, path>> \in runs
      BY <2>3, <3>1 DEF IInv, RunHoldsItsSlot
    <3>2. CASE u = t /\ path = slots[i].path
      BY <2>1, <2>3, <3>2
    <3>. QED BY <2>2, <2>3, <3>1, <3>2
  <2>4. \A path : Doubled(path)' <=> Doubled(path)
    BY <1>1 DEF Doubled
  <2>. QED BY <1>1, <2>3, <2>4 DEF RunHoldsItsSlot
<1>6. StartHoldsItsSlot'
  BY <1>1 DEF IInv, StartHoldsItsSlot, StartTask, Doubled
<1>. QED BY <1>2, <1>3, <1>4, <1>5, <1>6 DEF IInv

\* The server crashes.
LEMMA CrashKeeps ==
  ASSUME IInv, Crash, UNCHANGED bound
  PROVE  IInv'
<1>1. << >> \in Seq(SlotRecord) /\ << >> \in Seq(Merge)
  OBVIOUS
<1>2. TypeOK'
  BY <1>1 DEF IInv, TypeOK, Crash, Forget, taskVars, SlotRecord
<1>3. WorkHasADir' /\ RunningIsDriven'
  BY DEF IInv, WorkHasADir, RunningIsDriven, Crash, taskVars
<1>4. RunHoldsItsSlot' /\ StartHoldsItsSlot'
  BY DEF RunHoldsItsSlot, StartHoldsItsSlot, Crash
<1>. QED BY <1>2, <1>3, <1>4 DEF IInv

\* The invariant holds at the start,
LEMMA InitKeeps ==
  ASSUME Init
  PROVE  IInv
<1>1. << >> \in Seq(SlotRecord) /\ << >> \in Seq(Merge)
  OBVIOUS
<1>2. TypeOK
  BY <1>1 DEF Init, TypeOK, Statuses, SlotRecord
<1>. QED BY <1>2 DEF Init, IInv, WorkHasADir, RunningIsDriven, RunHoldsItsSlot,
   StartHoldsItsSlot

\* in a step that changes nothing,
LEMMA StutterKeeps ==
  ASSUME IInv, UNCHANGED vars
  PROVE  IInv'
<1>1. TypeOK' /\ WorkHasADir' /\ RunningIsDriven'
  BY DEF IInv, TypeOK, WorkHasADir, RunningIsDriven, vars, taskVars, poolVars, startVars,
     runVars
<1>2. RunHoldsItsSlot' /\ StartHoldsItsSlot'
  BY HoldingsStay DEF SlotsGrow, vars, poolVars, startVars, runVars
<1>. QED BY <1>1, <1>2 DEF IInv

\* and after every step.
LEMMA StepKeeps ==
  ASSUME IInv, [Next]_vars
  PROVE  IInv'
<1>1. CASE UNCHANGED bound /\ (Tick \/ PoolIsMade \/ PoolFails \/ Crash \/ Restart)
  BY <1>1, TickKeeps, PoolIsMadeKeeps, PoolFailsKeeps, CrashKeeps, RestartKeeps
<1>2. CASE UNCHANGED bound /\ MergeStep
  BY <1>2, MergeThrowsKeeps, ReviewedMergeSucceedsKeeps, ReviewedMergeConflictsKeeps,
     ApprovedMergeSucceedsKeeps, ApprovedMergeConflictsKeeps, ResolvedMergeSucceedsKeeps DEF
     MergeStep
<1>3. ASSUME NEW t \in Tasks, StartStep(t), UNCHANGED bound
      PROVE  IInv'
  BY <1>3, TakeSlotKeeps, PreparationFailsKeeps, StartTaskKeeps, StartFailsEarlyKeeps,
     StartFailsLateKeeps DEF StartStep
<1>4. ASSUME NEW t \in Tasks, TaskCommand(t), UNCHANGED bound
      PROVE  IInv'
  BY <1>4, CreateTaskKeeps, CancelTaskKeeps, RetryTaskKeeps, AskForMergeKeeps,
     RejectTaskResultKeeps DEF TaskCommand
<1>5. ASSUME NEW t \in Tasks, RunStep(t), UNCHANGED bound
      PROVE  IInv'
  BY <1>5, RunCompletesKeeps, RunFailsKeeps, FinishCompletionKeeps, CompletionFailsKeeps DEF
     RunStep
<1>6. ASSUME NEW t \in Tasks, ReviewStep(t), UNCHANGED bound
      PROVE  IInv'
  BY <1>6, ReviewApprovesKeeps, ReviewRejectsKeeps DEF ReviewStep
<1>7. CASE UNCHANGED vars
  BY <1>7, StutterKeeps
<1>. QED BY <1>1, <1>2, <1>3, <1>4, <1>5, <1>6, <1>7 DEF Next, Steps

-----------------------------------------------------------------------------
(* The theorems.                                                           *)

\* The inductive invariant holds in every state.
THEOREM Invariance == Spec => []IInv
<1>1. Init => IInv
  BY InitKeeps
<1>2. IInv /\ [Next]_vars => IInv'
  BY StepKeeps
<1>. QED BY <1>1, <1>2, PTL DEF Spec

\* Every variable keeps its type.
THEOREM TypeCorrect == Spec => []TypeOK
<1>1. IInv => TypeOK
  BY DEF IInv
<1>. QED BY <1>1, Invariance, PTL

\* A task shown as running has a run or a completion that will tell its end: overlapping
\* starts, refused runs and late ends of earlier runs leave none behind.
THEOREM RunningStaysDriven == Spec => []RunningIsDriven
<1>1. IInv => RunningIsDriven
  BY DEF IInv
<1>. QED BY <1>1, Invariance, PTL

\* A run has the slot of its worktree, unless a worktree was released under somebody's
\* hands or is in the pool twice.
THEOREM RunsHoldTheirSlots == Spec => []RunHoldsItsSlot
<1>1. IInv => RunHoldsItsSlot
  BY DEF IInv
<1>. QED BY <1>1, Invariance, PTL

-----------------------------------------------------------------------------
(* The status machine.                                                     *)

\* What the steps do to a status: the table, or one of the three stale writes.
Allowed(t) ==
  \/ status[t] = "absent"
  \/ CanTransition(status[t], status'[t])
  \/ /\ status'[t] \in {"running", "failed"}
     /\ \E call \in preparing \ preparing' : call[1] = t
  \/ status'[t] = "reviewing" /\ t \in completing \ completing'
  \/ /\ status'[t] \in {"integrated", "merge_conflict"}
     /\ merges # <<>> /\ merges' = Tail(merges)
     /\ Head(merges).task = t /\ Head(merges).by = "review"

\* A failed start or run asks the status machine.
LEMMA FailedAllows ==
  ASSUME TypeOK, NEW t \in Tasks, status' = Failed(t)
  PROVE  \A u \in Tasks : CanTransition(status[u], status'[u])
  BY FailedEffect DEF CanTransition

\* A write to one task changes no other.
LEMMA WriteAllows ==
  ASSUME TypeOK, NEW t \in Tasks, NEW s, SetStatus(t, s), status'[t] = s => Allowed(t)
  PROVE  \A u \in Tasks : Allowed(u)
  BY DEF SetStatus, Allowed, CanTransition

\* A change of the table, followed by a tick, is a change of the table.
LEMMA TickAllows ==
  ASSUME TypeOK, NEW st \in [Tasks -> Statuses], TickFrom(st),
         \A u \in Tasks : st[u] = status[u] \/ (CanTransition(status[u], st[u]) /\ st[u] # "pending")
  PROVE  \A u \in Tasks : CanTransition(status[u], status'[u])
<1>1. \A u \in Tasks : status'[u] = st[u] \/ (st[u] = "pending" /\ status'[u] = "queued")
  BY TickEffect
<1>2. CanTransition("pending", "queued") /\ \A s : CanTransition(s, s)
  BY DEF CanTransition, TASK_TRANSITIONS
<1>3. ASSUME NEW u \in Tasks
      PROVE  CanTransition(status[u], status'[u])
  <2>1. CASE status'[u] = st[u]
    BY <1>2, <2>1
  <2>2. CASE st[u] = "pending" /\ status'[u] = "queued"
    <3>1. status[u] = "pending"
      BY <2>2
    <3>. QED BY <1>2, <2>2, <3>1
  <2>. QED BY <1>1, <2>1, <2>2
<1>. QED BY <1>3

\* The end of a command that asks the status machine and ticks.
LEMMA SetAndTickAllows ==
  ASSUME TypeOK, NEW t \in Tasks, NEW s \in {"integrated", "merge_conflict"},
         SetAndTick(t, s) \/ (CanTransition(status[t], s) /\ TickFrom([status EXCEPT ![t] = s]))
  PROVE  \A u \in Tasks : CanTransition(status[u], status'[u])
<1>1. CASE UNCHANGED status
  BY <1>1 DEF CanTransition
<1>2. CASE CanTransition(status[t], s) /\ TickFrom([status EXCEPT ![t] = s])
  <2>. DEFINE st == [status EXCEPT ![t] = s]
  <2>1. st \in [Tasks -> Statuses] /\ \A u \in Tasks : st[u] = status[u] \/ (CanTransition(status[u], st[u]) /\ st[u] # "pending")
    BY <1>2 DEF TypeOK, Statuses
  <2>2. TickFrom(st)
    BY <1>2
  <2>. HIDE DEF st
  <2>. QED BY <2>1, <2>2, TickAllows
<1>. QED BY <1>1, <1>2 DEF SetAndTick

\* Each step of the code changes statuses as allowed.
LEMMA StepIsAllowed ==
  ASSUME IInv, Next
  PROVE  \A u \in Tasks : Allowed(u)
<1>. USE DEF IInv
<1>1. CASE UNCHANGED status
  BY <1>1 DEF Allowed, CanTransition
<1>2. CASE Tick
  <2>1. \A u \in Tasks : status[u] = status[u] \/ (CanTransition(status[u], status[u]) /\ status[u] # "pending")
    OBVIOUS
  <2>2. status \in [Tasks -> Statuses]
    BY DEF TypeOK
  <2>. QED BY <1>2, <2>1, <2>2, TickAllows DEF Tick, Allowed
<1>3. CASE PoolFails
  BY <1>3, FailedEffect DEF PoolFails, Allowed, CanTransition
<1>4. CASE Restart
  BY <1>4 DEF Restart, Allowed, CanTransition, TASK_TRANSITIONS
<1>5. CASE MergeStep
  <2>0. merges # << >> /\ Head(merges).task \in Tasks
    BY <1>5, MergesTyped DEF MergeStep, MergeThrows, ReviewedMergeSucceeds,
       ReviewedMergeConflicts, ApprovedMergeSucceeds, ApprovedMergeConflicts,
       ResolvedMergeSucceeds, MergeEnds
  <2>1. CASE ReviewedMergeSucceeds \/ ReviewedMergeConflicts
    <3>1. \E s \in {"integrated", "merge_conflict"} : SetStatus(Head(merges).task, s)
      BY <2>1 DEF ReviewedMergeSucceeds, ReviewedMergeConflicts
    <3>2. merges' = Tail(merges) /\ Head(merges).by = "review"
      BY <2>1 DEF ReviewedMergeSucceeds, ReviewedMergeConflicts, MergeEnds
    <3>. QED BY <2>0, <3>1, <3>2, WriteAllows DEF Allowed
  <2>2. CASE ApprovedMergeSucceeds \/ ApprovedMergeConflicts
    <3>1. \E s \in {"integrated", "merge_conflict"} : SetAndTick(Head(merges).task, s)
      BY <2>2 DEF ApprovedMergeSucceeds, ApprovedMergeConflicts
    <3>. QED BY <2>0, <3>1, SetAndTickAllows DEF Allowed
  <2>3. CASE ResolvedMergeSucceeds
    <3>1. CanTransition(status[Head(merges).task], "integrated")
      BY <2>3 DEF ResolvedMergeSucceeds, CanTransition, TASK_TRANSITIONS
    <3>. QED BY <2>0, <2>3, <3>1, SetAndTickAllows DEF ResolvedMergeSucceeds, Allowed
  <2>4. CASE MergeThrows
    BY <1>1, <2>4 DEF MergeThrows, taskVars
  <2>. QED BY <1>5, <2>1, <2>2, <2>3, <2>4 DEF MergeStep
<1>6. ASSUME NEW t \in Tasks, TakeSlot(t)
      PROVE  \A u \in Tasks : Allowed(u)
  BY <1>1, <1>6, FailedAllows DEF TakeSlot, Allowed
<1>7. ASSUME NEW t \in Tasks, NEW i \in DOMAIN slots,
             PreparationFails(t, i) \/ StartTask(t, i) \/ StartFailsEarly(t, i) \/ StartFailsLate(t, i)
      PROVE  \A u \in Tasks : Allowed(u)
  <2>1. \E call \in preparing \ preparing' : call[1] = t
    BY <1>7 DEF PreparationFails, StartTask, StartFailsEarly, StartFailsLate
  <2>2. CASE PreparationFails(t, i) \/ StartFailsEarly(t, i)
    BY <2>2, FailedAllows DEF PreparationFails, StartFailsEarly, Allowed
  <2>3. CASE StartTask(t, i) \/ StartFailsLate(t, i)
    <3>1. \E s \in {"running", "failed"} : SetStatus(t, s)
      BY <2>3 DEF StartTask, StartFailsLate
    <3>. QED BY <2>1, <3>1, WriteAllows DEF Allowed
  <2>. QED BY <1>7, <2>2, <2>3
<1>8. ASSUME NEW t \in Tasks, TaskCommand(t)
      PROVE  \A u \in Tasks : Allowed(u)
  <2>1. \/ UNCHANGED status
        \/ \E s : SetStatus(t, s) /\ (status[t] = "absent" \/ CanTransition(status[t], s))
    BY <1>8 DEF TaskCommand, CreateTask, CancelTask, RetryTask, AskForMerge, RejectTaskResult,
       taskVars, CanTransition, TASK_TRANSITIONS
  <2>. QED BY <1>1, <2>1, WriteAllows DEF Allowed
<1>9. ASSUME NEW t \in Tasks, RunStep(t)
      PROVE  \A u \in Tasks : Allowed(u)
  <2>1. CASE \E path \in Paths : RunCompletes(t, path) \/ RunFails(t, path)
    BY <1>1, <2>1, FailedAllows DEF RunCompletes, RunFails, Allowed, taskVars
  <2>2. CASE FinishCompletion(t) \/ CompletionFails(t)
    <3>1. UNCHANGED status \/ (SetStatus(t, "reviewing") /\ t \in completing \ completing')
      BY <2>2 DEF FinishCompletion, CompletionFails
    <3>. QED BY <1>1, <3>1, WriteAllows DEF Allowed
  <2>. QED BY <1>9, <2>1, <2>2 DEF RunStep
<1>10. ASSUME NEW t \in Tasks, ReviewStep(t)
       PROVE  \A u \in Tasks : Allowed(u)
  <2>1. UNCHANGED status \/ \E s \in {"queued", "failed"} : status[t] = "reviewing" /\ SetStatus(t, s)
    BY <1>10 DEF ReviewStep, ReviewApproves, ReviewRejects, taskVars
  <2>. QED BY <1>1, <2>1, WriteAllows DEF Allowed, CanTransition, TASK_TRANSITIONS
<1>11. CASE PoolIsMade \/ Crash
  BY <1>1, <1>11 DEF PoolIsMade, Crash, taskVars
<1>. QED BY <1>2, <1>3, <1>4, <1>5, <1>6, <1>7, <1>8, <1>9, <1>10, <1>11 DEF Next, Steps,
   StartStep

\* Every change of a status is one of the table, or a stale write.
THEOREM StatusMachineKept == Spec => StatusMachineOrStaleWrite
<1>1. IInv /\ [Next]_vars => [\A t \in Tasks : Allowed(t)]_status
  BY StepIsAllowed DEF vars, taskVars
<1>2. [\A t \in Tasks : Allowed(t)]_status =>
        [\A t \in Tasks :
           \/ status[t] = "absent"
           \/ CanTransition(status[t], status'[t])
           \/ /\ status'[t] \in {"running", "failed"}
              /\ \E call \in preparing \ preparing' : call[1] = t
           \/ status'[t] = "reviewing" /\ t \in completing \ completing'
           \/ /\ status'[t] \in {"integrated", "merge_conflict"}
              /\ merges # <<>> /\ merges' = Tail(merges)
              /\ Head(merges).task = t /\ Head(merges).by = "review"]_status
  BY Zenon DEF Allowed
<1>. QED BY <1>1, <1>2, Invariance, PTL DEF Spec, StatusMachineOrStaleWrite

=============================================================================
