-------------------------- MODULE SupervisionModel --------------------------
(***************************************************************************)
(* The pure rules of the supervision domain: the task status machine       *)
(* (status-machine.ts), the phase and retry rules (model.ts), and the      *)
(* dependency evaluation of the scheduler (task-scheduler.ts).  Nothing    *)
(* here has state; the modules of the two execution modes instantiate it   *)
(* by EXTENDS.                                                             *)
(***************************************************************************)
EXTENDS Integers, FiniteSets

\* A task that has not been created yet is "absent" from the table.
Statuses == {"absent", "proposed", "pending", "queued", "planning", "running",
             "completed", "reviewing", "integrated", "merge_conflict",
             "blocked", "failed", "cancelled"}

Phases == {"active", "idle", "paused", "archived"}

\* The pairs <<from, to>> of the table TASK_TRANSITIONS.  The statuses
\* 'approved' and 'rejected' have no entry in or out and are left away.
TASK_TRANSITIONS ==
  ({"proposed"}   \X {"pending", "cancelled"}) \cup
  ({"pending"}    \X {"queued", "blocked", "failed", "planning"}) \cup
  ({"queued"}     \X {"running", "failed", "blocked", "pending", "cancelled"}) \cup
  ({"planning"}   \X {"queued", "cancelled"}) \cup
  ({"running"}    \X {"reviewing", "completed", "failed", "cancelled", "pending"}) \cup
  ({"reviewing"}  \X {"integrated", "merge_conflict", "queued", "failed"}) \cup
  ({"merge_conflict"} \X {"integrated"}) \cup
  ({"completed", "integrated", "blocked", "failed", "cancelled"} \X {"pending"})

\* assertTaskTransition throws exactly when this is false.
CanTransition(from, to) == from = to \/ <<from, to>> \in TASK_TRANSITIONS

-----------------------------------------------------------------------------
(* model.ts *)

resolveCreatedTaskStatus(source, trustLevel) ==
  IF source = "user" \/ trustLevel = "high" THEN "pending" ELSE "proposed"

canTickAgentPhase(phase)   == phase \in {"active", "idle"}
canPauseAgentPhase(phase)  == phase \in {"active", "idle"}
canResumeAgentPhase(phase) == phase = "paused"

getActiveTaskStatuses(isLite) ==
  {"pending", "queued", "running"} \cup (IF isLite THEN {} ELSE {"reviewing"})

\* The phase an idle agent gets when a task becomes pending.
PhaseOnNewWork(phase) == IF phase = "idle" THEN "active" ELSE phase

\* The phase after the last step of a tick, or after fixIdleAgents: an active
\* agent with no active task becomes idle.
PhaseWhenDone(phase, status, isLite) ==
  IF phase = "active" /\ \A t \in DOMAIN status :
                            status[t] \notin getActiveTaskStatuses(isLite)
  THEN "idle" ELSE phase

\* Mutant: one attempt too many.
ExceedsRetriesLate(nextAttempt, maxRetries) == nextAttempt > maxRetries + 2

\* A retry that would exceed maxRetries + 1 attempts is a failure.
ExceedsRetries(nextAttempt, maxRetries) == nextAttempt > maxRetries + 1

-----------------------------------------------------------------------------
(* areDependenciesMet, over the dependencies deps of one task.  A task that  *)
(* is not in the table never counts as a success, a failure or a terminal    *)
(* status.                                                                   *)

\* Mutant: a result under review counts as a success.
SucceededInReview(st, isLite) ==
  st \in {"integrated", "reviewing"} \/ (isLite /\ st = "completed")

Succeeded(st, isLite) ==
  st = "integrated" \/ (isLite /\ st = "completed")

\* Mutant: 'any' of no dependencies is not met.
DependenciesMetNotEmpty(deps, mode, status, isLite) ==
  \/ mode = "all" /\ \A d \in deps : Succeeded(status[d], isLite)
  \/ mode = "any" /\ \E d \in deps : Succeeded(status[d], isLite)

DependenciesMet(deps, mode, status, isLite) ==
  \/ deps = {}
  \/ mode = "all" /\ \A d \in deps : Succeeded(status[d], isLite)
  \/ mode = "any" /\ \E d \in deps : Succeeded(status[d], isLite)

DependenciesHopeless(deps, mode, status) ==
  /\ deps # {}
  /\ \/ mode = "all" /\ \E d \in deps : status[d] \in {"failed", "cancelled"}
     \/ mode = "any" /\ \A d \in deps :
          status[d] \in {"integrated", "completed", "failed", "cancelled"}

\* One task of the promotion loop (steps 3 and 4 of tickProject).  Promoting
\* or blocking a task changes no dependency's success or failure, so the loop
\* is a simultaneous update of all of them.
StatusAfterDependencies(t, deps, mode, status, isLite) ==
  CASE status[t] = "pending" /\ DependenciesMet(deps, mode, status, isLite) -> "queued"
    [] /\ status[t] \in {"pending", "queued"}
       /\ ~DependenciesMet(deps, mode, status, isLite)
       /\ DependenciesHopeless(deps, mode, status) -> "blocked"
    [] OTHER -> status[t]
=============================================================================
