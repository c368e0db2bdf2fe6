-------------------------- MODULE TaskOrchestrator -------------------------
(***************************************************************************)
(* The queue of agent tasks: spawnTask, the tick that promotes and starts  *)
(* them, the virtual client that listens for the end of a task's run, its  *)
(* safety timer, killTask, waitForTask, and the rows of conversations that *)
(* were promoted to tasks.  The ends of runs are broadcast to every client *)
(* of the server, the virtual ones included, and a virtual client takes    *)
(* every end for that of its own run.                                      *)
(***************************************************************************)
EXTENDS Integers, Sequences, FiniteSets

CONSTANTS
  Tasks,          \* 1 .. n in the order of their rows' created_at
  Inline,         \* conversations that may be promoted to a task's row
  Unknown,        \* an id in dependsOn that no row has
  DependsOn,      \* the choices of dependsOn for a task
  MaxConcurrent,  \* MAX_CONCURRENT_AGENT_TASKS
  MaxRetries,     \* maxRetries of a task
  Awaited         \* bound of the model: the rows that callers may wait for

Rows == Tasks \cup Inline

ASSUME OrchestratorAssumption ==
  /\ IsFiniteSet(Tasks) /\ Tasks = 1..Cardinality(Tasks)
  /\ IsFiniteSet(Inline) /\ Inline \cap Tasks = {}
  /\ Unknown \notin Rows
  /\ DependsOn \in [Tasks -> SUBSET SUBSET (Tasks \cup {Unknown})]
  /\ \A t \in Tasks : \A d \in DependsOn[t] : \A u \in d \cap Tasks : u < t
  /\ MaxConcurrent \in Nat \ {0} /\ Awaited \subseteq Rows
  /\ MaxRetries \in [Tasks -> Nat]

VARIABLES
  status,     \* status of a row, "absent" before its insert
  deps,       \* dependsOn of a task
  stale,      \* waiting tasks older than MAX_WAITING_AGE_MS
  retries,    \* retry_count
  attempts,   \* what executeAgentTask closed over, one record per start of a row
  client,     \* the start whose virtual client is registered for a row, 0 for none
  waiters,    \* rows that callers wait for
  feed,       \* the status of a row's item in the notification feed
  strayed     \* history: tasks that heard an end which was not the first of their run

vars == <<status, deps, stale, retries, attempts, client, waiters, feed, strayed>>

Settled == {"completed", "failed", "cancelled"}
Ends == {"completed", "failed"}

\* The run of a start: "live"; "aborted" after a cancel has announced its failure;
\* "background" when only its follow-up runs are left; "none" when it can send
\* nothing any more or was refused; "lost" when the process ended under it.
RunStates == {"live", "aborted", "background", "none", "lost"}

\* The types; a registered client is that of a start, and only running rows, or
\* rows that were cancelled under their run, have one.
TypeOK ==
  /\ status \in [Rows -> {"absent", "waiting", "queued", "running"} \cup Settled]
  /\ deps \in [Tasks -> SUBSET (Tasks \cup {Unknown})]
  /\ stale \subseteq Tasks
  /\ retries \in [Tasks -> Nat]
  /\ \A r \in Rows : \A k \in DOMAIN attempts[r] :
       attempts[r][k] \in [run : RunStates, settled : BOOLEAN, snapshot : Nat]
  /\ waiters \subseteq Awaited
  /\ feed \in [Rows -> {"none", "running"} \cup Ends]
  /\ strayed \subseteq Tasks
  /\ \A r \in Rows :
       client[r] # 0 => /\ client[r] \in DOMAIN attempts[r]
                        /\ ~attempts[r][client[r]].settled

Init ==
  /\ status = [r \in Rows |-> "absent"]
  /\ deps = [t \in Tasks |-> {}]
  /\ stale = {} /\ strayed = {}
  /\ retries = [t \in Tasks |-> 0]
  /\ attempts = [r \in Rows |-> << >>]
  /\ client = [r \in Rows |-> 0]
  /\ waiters = {}
  /\ feed = [r \in Rows |-> "none"]

\* syncFeedStatus: a cancelled row is a failed item.
FeedStatus(s) == IF s = "completed" THEN "completed" ELSE "failed"

-----------------------------------------------------------------------------
(* Commands.                                                               *)

\* spawnTask: only ids of rows that exist can be depended on, or ids that never
\* will, so the search for cycles finds none.
Spawn(t) ==
  /\ status[t] = "absent" /\ \A u \in Tasks : u < t => status[u] # "absent"
  /\ \E d \in DependsOn[t] :
       /\ deps' = [deps EXCEPT ![t] = d]
       /\ status' = [status EXCEPT ![t] = IF d = {} THEN "queued" ELSE "waiting"]
  /\ UNCHANGED <<stale, retries, attempts, client, waiters, feed, strayed>>

\* Mutant: the waiters are left to their timeouts.
SettleTaskAlone(r, s) ==
  /\ status' = [status EXCEPT ![r] = s]
  /\ feed' = [feed EXCEPT ![r] = FeedStatus(s)]
  /\ UNCHANGED waiters

\* settleTask for one row: the status, the feed and whoever waits for it.
SettleTask(r, s) ==
  /\ status' = [status EXCEPT ![r] = s]
  /\ feed' = [feed EXCEPT ![r] = FeedStatus(s)]
  /\ waiters' = waiters \ {r}

\* Mutant: a row that has settled is killed too.
KillAnything(r) ==
  /\ status[r] # "absent"
  /\ SettleTask(r, "cancelled")
  /\ UNCHANGED <<deps, stale, retries, attempts, client, strayed>>

\* killTask: neither the run nor the virtual client is told.
Kill(r) ==
  /\ status[r] \notin Settled \cup {"absent"}
  /\ SettleTask(r, "cancelled")
  /\ UNCHANGED <<deps, stale, retries, attempts, client, strayed>>

\* waitForTask of a row that has not settled.
Wait(r) ==
  /\ r \in Awaited \ waiters /\ status[r] \notin Settled \cup {"absent"}
  /\ waiters' = waiters \cup {r}
  /\ UNCHANGED <<status, deps, stale, retries, attempts, client, feed, strayed>>

\* The timeout of the last waiter, who is told 'failed'.
WaitTimeout(r) ==
  /\ r \in waiters
  /\ waiters' = waiters \ {r}
  /\ UNCHANGED <<status, deps, stale, retries, attempts, client, feed, strayed>>

-----------------------------------------------------------------------------
(* The tick.                                                               *)

\* A task has waited for longer than an hour.
Age(t) ==
  /\ status[t] = "waiting" /\ t \notin stale
  /\ stale' = stale \cup {t}
  /\ UNCHANGED <<status, deps, retries, attempts, client, waiters, feed, strayed>>

\* Mutant: a dependency that is missing is waited for like one that is running.
PromotedInTime ==
  LET after[t \in Tasks] ==
        LET dep(d) == IF d = Unknown THEN "absent" ELSE after[d] IN
        IF status[t] # "waiting" THEN status[t]
        ELSE IF \E d \in deps[t] : dep(d) \in {"failed", "cancelled"} THEN "failed"
        ELSE IF \A d \in deps[t] : dep(d) = "completed" THEN "queued"
        ELSE "waiting"
  IN after

\* Mutant: tasks that have failed are looked at again.
PromotedAgain ==
  LET after[t \in Tasks] ==
        LET dep(d) == IF d = Unknown THEN "absent" ELSE after[d] IN
        IF status[t] \notin {"waiting", "failed"} THEN status[t]
        ELSE IF t \in stale \/ \E d \in deps[t] : dep(d) \in {"failed", "cancelled"} THEN "failed"
        ELSE IF \A d \in deps[t] : dep(d) = "completed" THEN "queued"
        ELSE "waiting"
  IN after

\* What the loop over the waiting tasks makes of each: it reads the rows of the
\* dependencies when it comes to a task, so the failure of one passes on at once.
Promoted ==
  LET after[t \in Tasks] ==
        LET dep(d) == IF d = Unknown THEN "absent" ELSE after[d] IN
        IF status[t] # "waiting" THEN status[t]
        ELSE IF t \in stale \/ \E d \in deps[t] : dep(d) \in {"failed", "cancelled"} THEN "failed"
        ELSE IF \A d \in deps[t] : dep(d) = "completed" THEN "queued"
        ELSE "waiting"
  IN after

\* Mutant: each tick may start as many tasks as the limit says.
ToStartAnyway(now) ==
  LET queued == {t \in Tasks : now[t] = "queued"}
      before(t) == Cardinality({u \in queued : u < t})
  IN {t \in queued : before(t) < MaxConcurrent}

\* The oldest queued tasks, as many as the running rows leave room for.
ToStart(now) ==
  LET running == Cardinality({r \in Rows : status[r] = "running"})
      queued == {t \in Tasks : now[t] = "queued"}
      before(t) == Cardinality({u \in queued : u < t})
  IN {t \in queued : before(t) < MaxConcurrent - running}

\* executeAgentTask: the run is accepted; or refused, say because the session of the
\* branch is busy, with an error message that the virtual client ignores; or
\* handleRunStart throws and the task fails.
Start(r, outcome) ==
  [run |-> IF outcome = "live" THEN "live" ELSE "none",
   settled |-> outcome = "thrown",
   snapshot |-> IF r \in Tasks THEN retries[r] ELSE 0]

Tick ==
  LET now == Promoted
      starts == ToStart(now)
      gone == {t \in Tasks : status[t] = "waiting" /\ now[t] = "failed"} IN
  /\ starts # {} \/ \E t \in Tasks : now[t] # status[t]
  /\ \E outcome \in [starts -> {"live", "refused", "thrown"}] :
       LET failed == gone \cup {t \in starts : outcome[t] = "thrown"} IN
       /\ status' = [r \in Rows |-> IF r \in failed THEN "failed"
                                    ELSE IF r \in starts THEN "running"
                                    ELSE IF r \in Tasks THEN now[r] ELSE status[r]]
       /\ feed' = [r \in Rows |-> IF r \in failed THEN "failed"
                                  ELSE IF r \in starts /\ feed[r] = "none" THEN "running"
                                  ELSE feed[r]]
       /\ waiters' = waiters \ failed
       /\ attempts' = [r \in Rows |-> IF r \in starts THEN Append(attempts[r], Start(r, outcome[r]))
                                      ELSE attempts[r]]
       /\ client' = [r \in Rows |-> IF r \notin starts THEN client[r]
                                    ELSE IF outcome[r] = "thrown" THEN 0
                                    ELSE Len(attempts[r]) + 1]
  /\ UNCHANGED <<deps, stale, retries, strayed>>

-----------------------------------------------------------------------------
(* The ends of runs.                                                       *)

\* Mutant: one retry too many.
RequeuesOnceMore(r, k, e) == e = "failed" /\ r \in Tasks /\ attempts[r][k].snapshot <= MaxRetries[r]

\* run_failed of a task that had retries left when it was started.
Requeues(r, k, e) == e = "failed" /\ r \in Tasks /\ attempts[r][k].snapshot < MaxRetries[r]

\* The client of start heard[r] of each row r gets an end e, where heard[r] is not 0.
\* 'now' are the starts with the state of the run that has ended.
Deliver(heard, e, now) ==
  LET hears(r) == heard[r] # 0
      again(r) == hears(r) /\ Requeues(r, heard[r], e) IN
  /\ status' = [r \in Rows |-> IF again(r) THEN "queued" ELSE IF hears(r) THEN e ELSE status[r]]
  /\ retries' = [t \in Tasks |-> IF again(t) THEN retries[t] + 1 ELSE retries[t]]
  /\ feed' = [r \in Rows |-> IF ~hears(r) \/ again(r) \/ (r \in Inline /\ feed[r] = "none")
                             THEN feed[r] ELSE e]
  /\ waiters' = waiters \ {t \in Tasks : hears(t) /\ ~again(t)}
  /\ client' = [r \in Rows |-> IF hears(r) /\ (r \in Inline \/ ~attempts[r][heard[r]].settled)
                               THEN 0 ELSE client[r]]
  /\ attempts' = [r \in Rows |-> IF hears(r) THEN [now[r] EXCEPT ![heard[r]].settled = TRUE]
                                 ELSE now[r]]

\* activeRun.broadcast for a run of start k of row r: its own client directly, and
\* every other registered client, whatever run it waits for.
Broadcast(r, k, e, run) ==
  /\ Deliver([client EXCEPT ![r] = k], e, [attempts EXCEPT ![r][k].run = run])
  /\ strayed' = strayed \cup {t \in Tasks \ {r} : client[t] # 0}
                         \cup (IF attempts[r][k].run = "background" THEN {r} \cap Tasks ELSE {})
  /\ UNCHANGED <<deps, stale>>

\* The run of a start ends; after a success its iterator may go to the background
\* consumer.
RunEnds(r, k, e) ==
  /\ attempts[r][k].run = "live"
  /\ \E run \in (IF e = "completed" THEN {"none", "background"} ELSE {"none"}) : Broadcast(r, k, e, run)

\* cancelRun announces the failure of a run.
RunCancelled(r, k) == attempts[r][k].run = "live" /\ Broadcast(r, k, "failed", "aborted")

\* The stream of a cancelled run ends with a run_completed of its own, or without.
AbortedEnds(r, k) ==
  /\ attempts[r][k].run = "aborted"
  /\ \/ Broadcast(r, k, "completed", "none")
     \/ /\ attempts' = [attempts EXCEPT ![r][k].run = "none"]
        /\ UNCHANGED <<status, deps, stale, retries, client, waiters, feed, strayed>>

\* A follow-up run of the background consumer ends, or the consumer ends without
\* one.  Bound of the model: one follow-up run per start.
FollowUpEnds(r, k, e) ==
  /\ attempts[r][k].run = "background"
  /\ \/ Broadcast(r, k, e, "none")
     \/ /\ attempts' = [attempts EXCEPT ![r][k].run = "none"]
        /\ UNCHANGED <<status, deps, stale, retries, client, waiters, feed, strayed>>

\* A run of any other session ends while virtual clients are registered.
OtherRunEnds(e) ==
  /\ \E r \in Rows : client[r] # 0
  /\ Deliver(client, e, attempts)
  /\ strayed' = strayed \cup {t \in Tasks : client[t] # 0}
  /\ UNCHANGED <<deps, stale>>

\* Mutant: the timer leaves its client registered.
SafetyTimerKeepsClient(t, k) ==
  /\ ~attempts[t][k].settled
  /\ attempts' = [attempts EXCEPT ![t][k].settled = TRUE]
  /\ SettleTask(t, "failed")
  /\ UNCHANGED <<deps, stale, retries, client, strayed>>

\* Mutant: the timer is armed only for a run that was accepted.
SafetyTimerOfRuns(t, k) ==
  /\ ~attempts[t][k].settled /\ attempts[t][k].run # "none"
  /\ attempts' = [attempts EXCEPT ![t][k].settled = TRUE]
  /\ client' = [client EXCEPT ![t] = 0]
  /\ SettleTask(t, "failed")
  /\ UNCHANGED <<deps, stale, retries, strayed>>

\* The 30 minutes of a start are over: its client is removed, its run goes on.
SafetyTimer(t, k) ==
  /\ ~attempts[t][k].settled
  /\ attempts' = [attempts EXCEPT ![t][k].settled = TRUE]
  /\ client' = [client EXCEPT ![t] = 0]
  /\ SettleTask(t, "failed")
  /\ UNCHANGED <<deps, stale, retries, strayed>>

-----------------------------------------------------------------------------
(* Promoted conversations, and the process.                                *)

\* promote: the row of a conversation is inserted as running, whatever the number of
\* running rows, and also when its run was refused with an error message.
Promote(i) ==
  /\ status[i] = "absent"
  /\ status' = [status EXCEPT ![i] = "running"]
  /\ feed' = [feed EXCEPT ![i] = "running"]
  /\ \E outcome \in {"live", "refused"} : attempts' = [attempts EXCEPT ![i] = <<Start(i, outcome)>>]
  /\ client' = [client EXCEPT ![i] = 1]
  /\ UNCHANGED <<deps, stale, retries, waiters, strayed>>

\* The process ends and starts again: rows and feed stay, closures, runs and waiters
\* do not, and nothing looks for rows that are running.
Restart ==
  /\ attempts' = [r \in Rows |-> [k \in DOMAIN attempts[r] |->
                    [attempts[r][k] EXCEPT !.run = IF ~attempts[r][k].settled \/ @ = "lost" THEN "lost" ELSE "none",
                                           !.settled = TRUE]]]
  /\ client' = [r \in Rows |-> 0]
  /\ waiters' = {}
  /\ UNCHANGED <<status, deps, stale, retries, feed, strayed>>

RunStep(r, k) ==
  \/ \E e \in Ends : RunEnds(r, k, e) \/ FollowUpEnds(r, k, e)
  \/ RunCancelled(r, k) \/ AbortedEnds(r, k)

Next ==
  \/ Tick \/ Restart
  \/ \E e \in Ends : OtherRunEnds(e)
  \/ \E t \in Tasks : \/ Spawn(t) \/ Age(t)
                      \/ \E k \in DOMAIN attempts[t] : SafetyTimer(t, k)
  \/ \E i \in Inline : Promote(i)
  \/ \E r \in Rows : \/ Kill(r) \/ Wait(r) \/ WaitTimeout(r)
                     \/ \E k \in DOMAIN attempts[r] : RunStep(r, k)

Spec == Init /\ [][Next]_vars

\* The interval of the tick, the clock and the safety timers go on; runs, users and
\* waiters owe nothing.
FairSpec ==
  /\ Spec
  /\ WF_vars(Tick)
  /\ \A t \in Tasks : /\ WF_vars(Age(t))
                      /\ WF_vars(\E k \in DOMAIN attempts[t] : SafetyTimer(t, k))

-----------------------------------------------------------------------------
(* Properties.                                                             *)

\* The orchestrator has at most MaxConcurrent tasks running, also when promoted
\* conversations come and go and rows outlive a restart; and no task is started more
\* often than its retries allow, unless it heard the end of something else than its
\* run: a run of another task or session, or a follow-up run of its own.
LimitsKept ==
  /\ Cardinality({t \in Tasks : status[t] = "running"}) <= MaxConcurrent
  /\ \A t \in Tasks \ strayed : Len(attempts[t]) <= MaxRetries[t] + 1

\* When a task has settled, nobody waits for it any longer and the feed shows how it
\* ended; an item that is running belongs to a row which is running or will be again.
SettledIsTold ==
  /\ \A t \in Tasks : status[t] \in Settled => t \notin waiters
  /\ \A r \in Rows :
       /\ status[r] \in Settled => feed[r] = FeedStatus(status[r])
       /\ feed[r] = "running" => status[r] \in {"queued", "running"}

\* Start k of row r hears an end or its timer fires: it settles now, or its own run,
\* which it had given up before, ends.
EndReaches(r, k) ==
  /\ attempts'[r][k].settled
  /\ ~attempts[r][k].settled \/ attempts'[r][k].run # attempts[r][k].run

\* The row of a task that has settled, or was killed, changes its status only because
\* an end or the timer reaches one of its starts; it is then shown as ended, or goes
\* back to the queue if that start had retries left when it was made.  No tick, kill,
\* promotion or restart touches it.
SettledStays ==
  [][\A r \in Rows : status[r] \in Settled /\ status'[r] # status[r] =>
       /\ ~Restart /\ Len(attempts'[r]) = Len(attempts[r])
       /\ \E k \in DOMAIN attempts[r] :
            /\ EndReaches(r, k)
            /\ \/ status'[r] \in Ends
               \/ status'[r] = "queued" /\ r \in Tasks /\ attempts[r][k].snapshot < MaxRetries[r]]_vars

\* Rows that stay running with no timer: conversations, and tasks whose closures a
\* restart has dropped.
Unwatched ==
  {r \in Rows : /\ status[r] = "running"
                /\ r \in Inline \/ attempts[r][Len(attempts[r])].run = "lost"}

\* Every task settles, whatever becomes of its dependencies, of its runs and of those
\* it overhears, unless unwatched rows use up the limit or a restart has left it
\* running itself.
TasksSettle ==
  \A t \in Tasks :
    status[t] \in {"waiting", "queued", "running"} ~>
      \/ status[t] \in Settled
      \/ t \in Unwatched \/ Cardinality(Unwatched) >= MaxConcurrent
=============================================================================
