-------------------------- MODULE ConversationRuns -------------------------
(***************************************************************************)
(* The runs of one session: handleRunStart with the consumer of the        *)
(* provider's stream, cancels, the retry after a crash of the provider,    *)
(* the background consumer that outlives a run, and the permissions that   *)
(* users and the permission workflow decide on.  What goes on between two  *)
(* awaits is one action.                                                   *)
(***************************************************************************)
EXTENDS Integers, FiniteSets

CONSTANTS
  Runs,      \* run ids
  Requests,  \* ids of permission requests
  NoRun

ASSUME ConversationAssumption ==
  /\ IsFiniteSet(Runs) /\ IsFiniteSet(Requests)
  /\ NoRun \notin Runs

VARIABLES
  phase,      \* where the handler of a run is
  active,     \* activeRuns
  completed,  \* runs with the flag 'completed'
  cancelled,  \* runs a user has cancelled
  retried,    \* runs that a retry has replaced
  refused,    \* runs that have crashed and whose retry was refused
  events,     \* terminal events (run_completed, run_failed) sent for a run
  followUp,   \* the follow-up run that the background consumer of a run has open
  status,     \* last_run_status of the session
  pending,    \* pendingPermissions of a run
  bridge,     \* requests registered in the permission bridge
  workflow,   \* permission workflow of a request: "none", "running" or "ended"
  asker,      \* the run whose callback a request came through
  decision    \* what the promise of a request was resolved with

runVars == <<phase, active, completed, cancelled, retried, refused, events, followUp>>
requestVars == <<pending, bridge, workflow, asker, decision>>
vars == <<runVars, status, requestVars>>

\* "streaming": the consumer awaits the next event; "closing": it awaits the end
\* of the iterator; "background": the background consumer owns the iterator;
\* "detached": it has ended; "followed": a follow-up run.
Phases == {"absent", "streaming", "closing", "background", "detached", "followed", "done"}

\* Runs that have handed their iterator over.
HandedOver == {r \in Runs : phase[r] \in {"background", "detached"}}

\* The types, with at most two terminal events of a run: that of a cancel and that
\* of the stream's end; a follow-up run that a consumer has open is under way.
TypeOK ==
  /\ phase \in [Runs -> Phases]
  /\ active \subseteq Runs /\ completed \subseteq Runs
  /\ cancelled \subseteq Runs /\ retried \subseteq Runs /\ refused \subseteq Runs
  /\ events \in [Runs -> 0..2]
  /\ followUp \in [Runs -> Runs \cup {NoRun}]
  /\ \A r \in Runs : followUp[r] # NoRun => phase[followUp[r]] = "followed"
  /\ status \in {"none", "running", "waiting"}
  /\ pending \in [Runs -> SUBSET Requests]
  /\ bridge \subseteq Requests
  /\ workflow \in [Requests -> {"none", "running", "ended"}]
  /\ asker \in [Requests -> Runs \cup {NoRun}]
  /\ decision \in [Requests -> {"none", "allow", "deny"}]

Init ==
  /\ phase = [r \in Runs |-> "absent"]
  /\ active = {} /\ completed = {} /\ cancelled = {} /\ retried = {} /\ refused = {}
  /\ events = [r \in Runs |-> 0]
  /\ followUp = [r \in Runs |-> NoRun]
  /\ status = "none"
  /\ pending = [r \in Runs |-> {}]
  /\ bridge = {}
  /\ workflow = [q \in Requests |-> "none"]
  /\ asker = [q \in Requests |-> NoRun]
  /\ decision = [q \in Requests |-> "none"]

-----------------------------------------------------------------------------
(* Parts of the handlers.                                                   *)

\* Mutant: the session's row is asked too, which also says 'waiting'.
BusyIfRunning(runs) == status = "running" /\ runs \ completed # {}

\* The session has a live run, given activeRuns.
Busy(runs) == runs \ completed # {}

Announce(r) == events' = [events EXCEPT ![r] = @ + 1]

\* The promise keeps its first value.
Decided(Q, d) == [q \in Requests |-> IF q \in Q /\ decision[q] = "none" THEN d ELSE decision[q]]

\* Mutant: the permissions are forgotten and not refused.
ForgetPermissions(r) ==
  /\ pending' = [pending EXCEPT ![r] = {}]
  /\ UNCHANGED <<decision, bridge, workflow, asker>>

\* The entries of the bridge and the permission workflows stay.
CleanupPendingPermissions(r) ==
  /\ decision' = Decided(pending[r], "deny")
  /\ pending' = [pending EXCEPT ![r] = {}]
  /\ UNCHANGED <<bridge, workflow, asker>>

\* Mutant: nothing is left to do for a run that is not in activeRuns.
FinalizeIfActive(r) ==
  /\ CleanupPendingPermissions(r)
  /\ active' = active \ {r}
  /\ status' = IF r \in active THEN "none" ELSE status

\* finalizeRun.  The session's row is written whatever its other runs do.
Finalize(r) ==
  /\ CleanupPendingPermissions(r)
  /\ active' = active \ {r}
  /\ status' = "none"

-----------------------------------------------------------------------------
(* The main consumer.                                                       *)

Start(r) ==
  /\ phase[r] = "absent"
  /\ ~Busy(active)
  /\ phase' = [phase EXCEPT ![r] = "streaming"]
  /\ active' = active \cup {r}
  /\ status' = "running"
  /\ UNCHANGED <<completed, cancelled, retried, refused, events, followUp, requestVars>>

\* The project's directory is missing: the run fails before any await.
StartFails(r) ==
  /\ phase[r] = "absent"
  /\ ~Busy(active)
  /\ phase' = [phase EXCEPT ![r] = "done"]
  /\ completed' = completed \cup {r}
  /\ Announce(r)
  /\ status' = "none"
  /\ UNCHANGED <<active, cancelled, retried, refused, followUp, requestVars>>

\* The event that completes a run: the consumer hands the iterator over when
\* background tasks are left, else it closes the iterator.
Leave(r) ==
  \/ /\ phase' = [phase EXCEPT ![r] = "background"]
     /\ Finalize(r)
  \/ /\ phase' = [phase EXCEPT ![r] = "closing"]
     /\ UNCHANGED <<active, status, requestVars>>

Result(r) ==
  /\ phase[r] = "streaming" /\ r \in active
  /\ Announce(r)
  /\ completed' = completed \cup {r}
  /\ Leave(r)
  /\ UNCHANGED <<cancelled, retried, refused, followUp>>

\* An 'error' event cleans up at once; the consumer then leaves as above.
Error(r) ==
  /\ phase[r] = "streaming" /\ r \in active
  /\ Announce(r)
  /\ completed' = completed \cup {r}
  /\ CleanupPendingPermissions(r)
  /\ active' = active \ {r}
  /\ \/ phase' = [phase EXCEPT ![r] = "background"] /\ status' = "none"
     \/ phase' = [phase EXCEPT ![r] = "closing"] /\ UNCHANGED status
  /\ UNCHANGED <<cancelled, retried, refused, followUp>>

\* Any event of a run that is not active any more.
EventAfterCancel(r) ==
  /\ phase[r] = "streaming" /\ r \notin active
  /\ phase' = [phase EXCEPT ![r] = "closing"]
  /\ UNCHANGED <<active, completed, cancelled, retried, refused, events, followUp, status, requestVars>>

Closed(r) ==
  /\ phase[r] = "closing"
  /\ phase' = [phase EXCEPT ![r] = "done"]
  /\ Finalize(r)
  /\ UNCHANGED <<completed, cancelled, retried, refused, events, followUp>>

\* Mutant: the end of the stream is taken for the end of the run.
StreamEndsSilently(r) ==
  /\ phase[r] = "streaming"
  /\ phase' = [phase EXCEPT ![r] = "done"]
  /\ completed' = completed \cup {r}
  /\ Finalize(r)
  /\ UNCHANGED <<cancelled, retried, refused, events, followUp>>

\* The stream ends without a result: a run_completed is made up, also for a run
\* that a user has cancelled.
StreamEnds(r) ==
  /\ phase[r] = "streaming"
  /\ phase' = [phase EXCEPT ![r] = "done"]
  /\ Announce(r)
  /\ completed' = completed \cup {r}
  /\ Finalize(r)
  /\ UNCHANGED <<cancelled, retried, refused, followUp>>

\* The launch or the stream throws.  (An aborted stream does not: the adapter
\* returns.)
StreamThrows(r) ==
  /\ phase[r] = "streaming" /\ r \notin cancelled
  /\ phase' = [phase EXCEPT ![r] = "done"]
  /\ Announce(r)
  /\ completed' = completed \cup {r}
  /\ Finalize(r)
  /\ UNCHANGED <<cancelled, retried, refused, followUp>>

\* The process of the provider has crashed: the session is reset and the message
\* started again as run n, unless the session is busy by then.  finalizeRun does
\* nothing for r, and in neither case is r announced as over.
StreamCrashes(r, n) ==
  /\ phase[r] = "streaming" /\ r \notin cancelled
  /\ phase[n] = "absent"
  /\ CleanupPendingPermissions(r)
  /\ IF Busy(active \ {r})
     THEN /\ phase' = [phase EXCEPT ![r] = "done"]
          /\ active' = active \ {r}
          /\ refused' = refused \cup {r}
          /\ UNCHANGED <<status, retried>>
     ELSE /\ phase' = [phase EXCEPT ![r] = "done", ![n] = "streaming"]
          /\ active' = (active \ {r}) \cup {n}
          /\ retried' = retried \cup {r}
          /\ status' = "running"
          /\ UNCHANGED refused
  /\ UNCHANGED <<completed, cancelled, events, followUp>>

\* cancelRun; the session's row is left to finalizeRun.
Cancel(r) ==
  /\ r \in active
  /\ CleanupPendingPermissions(r)
  /\ cancelled' = cancelled \cup {r}
  /\ active' = active \ {r}
  /\ Announce(r)
  /\ UNCHANGED <<phase, completed, retried, refused, followUp, status>>

-----------------------------------------------------------------------------
(* The background consumer of a run r, and its follow-up runs.              *)

\* createFollowUpRun does not ask whether the session is busy.
FollowUpStarts(r, f) ==
  /\ phase[r] = "background" /\ followUp[r] = NoRun /\ phase[f] = "absent"
  /\ followUp' = [followUp EXCEPT ![r] = f]
  /\ phase' = [phase EXCEPT ![f] = "followed"]
  /\ active' = active \cup {f}
  /\ UNCHANGED <<completed, cancelled, retried, refused, events, status, requestVars>>

\* Mutant: the consumer keeps the follow-up run that is over.
FollowUpEndsOpen(r) ==
  LET f == followUp[r] IN
  /\ phase[r] = "background" /\ f # NoRun
  /\ Announce(f)
  /\ completed' = completed \cup {f}
  /\ active' = active \ {f}
  /\ \E p \in {"background", "detached"} : phase' = [phase EXCEPT ![f] = "done", ![r] = p]
  /\ UNCHANGED <<cancelled, retried, refused, followUp, status, requestVars>>

\* A result or an error: the follow-up run is over; the consumer goes on when
\* more background tasks are pending.
FollowUpEnds(r) ==
  LET f == followUp[r] IN
  /\ phase[r] = "background" /\ f # NoRun
  /\ Announce(f)
  /\ completed' = completed \cup {f}
  /\ active' = active \ {f}
  /\ followUp' = [followUp EXCEPT ![r] = NoRun]
  /\ \E p \in {"background", "detached"} : phase' = [phase EXCEPT ![f] = "done", ![r] = p]
  /\ UNCHANGED <<cancelled, retried, refused, status, requestVars>>

\* The stream is over or throws; an open follow-up run is completed.
BackgroundEnds(r) ==
  LET f == followUp[r] IN
  /\ phase[r] = "background"
  /\ IF f = NoRun
     THEN phase' = [phase EXCEPT ![r] = "detached"] /\ UNCHANGED <<active, events>>
     ELSE /\ phase' = [phase EXCEPT ![f] = "done", ![r] = "detached"]
          /\ active' = active \ {f}
          /\ Announce(f)
  /\ followUp' = [followUp EXCEPT ![r] = NoRun]
  /\ UNCHANGED <<completed, cancelled, retried, refused, status, requestVars>>

-----------------------------------------------------------------------------
(* Permissions.                                                             *)

\* The permission callback of run r, for a request that no policy decides.  Also
\* the background stream uses the callback of r, and a stream may ask on after its
\* run was cancelled.  A question is for users only.
Ask(r, q) ==
  /\ phase[r] \in {"streaming", "background"}
  /\ asker[q] = NoRun
  /\ asker' = [asker EXCEPT ![q] = r]
  /\ pending' = [pending EXCEPT ![r] = @ \cup {q}]
  /\ status' = "waiting"
  /\ \/ bridge' = bridge \cup {q} /\ workflow' = [workflow EXCEPT ![q] = "running"]
     \/ bridge' = bridge \cup {q} /\ UNCHANGED workflow  \* no workflow could be started
     \/ UNCHANGED <<bridge, workflow>>                   \* a question
  /\ UNCHANGED <<runVars, decision>>

\* handlePermissionDecision and handlePromptAnswer look at the active runs only.
UserDecides(r, q, d) ==
  /\ r \in active /\ q \in pending[r]
  /\ pending' = [pending EXCEPT ![r] = @ \ {q}]
  /\ bridge' = bridge \ {q}
  /\ workflow' = [workflow EXCEPT ![q] = IF q \in bridge /\ @ = "running" THEN "ended" ELSE @]
  /\ status' = "running"
  /\ decision' = Decided({q}, d)
  /\ UNCHANGED <<runVars, asker>>

\* Mutant: the pending permission is left to the provider to remove.
WorkflowDecidesAlone(q, d) ==
  /\ workflow[q] = "running"
  /\ workflow' = [workflow EXCEPT ![q] = "ended"]
  /\ bridge' = bridge \ {q}
  /\ decision' = IF q \in bridge THEN Decided({q}, d) ELSE decision
  /\ UNCHANGED <<runVars, status, asker, pending>>

\* The step permission_decide: resolvePermission, which clears the pending
\* permission of an active run before it resolves the promise.
WorkflowDecides(q, d) ==
  LET shown == {r \in active : q \in pending[r]} IN
  /\ workflow[q] = "running"
  /\ workflow' = [workflow EXCEPT ![q] = "ended"]
  /\ bridge' = bridge \ {q}
  /\ decision' = IF q \in bridge THEN Decided({q}, d) ELSE decision
  /\ IF q \in bridge /\ shown # {}
     THEN /\ pending' = [r \in Runs |-> IF r \in shown THEN pending[r] \ {q} ELSE pending[r]]
          /\ status' = "running"
     ELSE UNCHANGED <<pending, status>>
  /\ UNCHANGED <<runVars, asker>>

\* The permission workflow fails or leaves the decision to users.
WorkflowEnds(q) ==
  /\ workflow[q] = "running"
  /\ workflow' = [workflow EXCEPT ![q] = "ended"]
  /\ UNCHANGED <<runVars, status, pending, bridge, asker, decision>>

-----------------------------------------------------------------------------
Stream(r) ==
  \/ Result(r) \/ Error(r) \/ EventAfterCancel(r) \/ Closed(r)
  \/ StreamEnds(r) \/ StreamThrows(r)
  \/ \E n \in Runs : StreamCrashes(r, n)

Background(r) ==
  \/ \E f \in Runs : FollowUpStarts(r, f)
  \/ FollowUpEnds(r) \/ BackgroundEnds(r)

Request(q) ==
  \/ WorkflowEnds(q)
  \/ \E d \in {"allow", "deny"} :
       WorkflowDecides(q, d) \/ \E r \in Runs : UserDecides(r, q, d)
  \/ \E r \in Runs : Ask(r, q)

Next ==
  \/ \E r \in Runs : Start(r) \/ StartFails(r) \/ Cancel(r) \/ Stream(r) \/ Background(r)
  \/ \E q \in Requests : Request(q)

Spec == Init /\ [][Next]_vars

-----------------------------------------------------------------------------
(* Properties.                                                              *)

\* A request that is open is pending in its run, which denies what is pending when
\* its main consumer ends, and a permission workflow that is at work on it finds
\* it in the bridge.  Users find it in activeRuns, but for two kinds of requests:
\* those that come through the callback of a run whose iterator was handed over,
\* which no end of a consumer denies either, and those that the stream of a
\* cancelled run makes on its way to its end.  When these have no workflow (any
\* more), nobody can decide them.
UndecidedIsAnswerable ==
  \A q \in Requests : LET r == asker[q] IN
    r # NoRun /\ decision[q] = "none" =>
      /\ q \in pending[r]
      /\ workflow[q] = "running" => q \in bridge
      /\ \/ r \in active
         \/ r \in HandedOver
         \/ r \in cancelled /\ phase[r] \in {"streaming", "closing"}

\* The other way round: no user is asked for what the workflow has decided.
PendingIsUndecided ==
  \A r \in active, q \in Requests : q \in pending[r] => decision[q] = "none"

\* The three places that know of a request - its promise, the pending permissions
\* of its run and the bridge to the workflow - agree, whoever decides first and
\* however the run ends meanwhile.
PermissionsAgree == UndecidedIsAnswerable /\ PendingIsUndecided

\* Two live runs of the session: one of them is a follow-up run.
OneRunPerSession ==
  \A r, s \in active \ completed :
    r # s => "followed" \in {phase[r], phase[s]}

\* When nothing runs the session's row says so, else the next start of the
\* server marks the session as interrupted.  (Requests of handed over runs write
\* the row when they like.)
IdleSessionShowsIdle ==
  (\A r \in Runs : phase[r] \in {"absent", "done"}) => status = "none"

\* What activeRuns, the flags of the runs and the session's row say of the session.
SessionAgrees == OneRunPerSession /\ IdleSessionShowsIdle

\* A run that is over has been announced as over, on whichever path it ends: the
\* clients would show it as running for ever.  Silent are the runs that crashed,
\* and no others: those which an accepted retry has replaced, and those whose
\* retry was refused because a follow-up run was under way.  And a run is
\* announced once only, unless it was cancelled: the failure that cancelRun
\* announces does not keep the end of the stream from being announced as well.
EveryRunIsAnnounced ==
  \A r \in Runs :
    /\ phase[r] \in {"done", "detached"} =>
         (events[r] = 0 <=> r \in retried \cup refused)
    /\ events[r] > 1 => r \in cancelled
=============================================================================
