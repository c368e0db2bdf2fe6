----------------------- MODULE ConversationRuns_proofs ----------------------
(***************************************************************************)
(* The invariants of ConversationRuns, proved for every finite set of runs *)
(* and of requests.                                                        *)
(***************************************************************************)
EXTENDS ConversationRuns, TLAPS

-----------------------------------------------------------------------------
(* The inductive invariant.                                                 *)

\* A run is in activeRuns from its start to its end or its cancel; the consumer
\* that closes an iterator may leave it there, marked as completed.
LiveRuns ==
  \A r \in Runs :
    /\ r \in active => phase[r] \in {"streaming", "closing", "followed"} /\ r \notin cancelled
    /\ phase[r] \in {"streaming", "followed"} => r \in active \cup cancelled
    /\ phase[r] = "closing" /\ r \in active => r \in completed
    /\ phase[r] = "absent" => r \notin cancelled

\* How many terminal events a run has, by the place its handler is at.
EventCount ==
  \A r \in Runs :
    /\ phase[r] \in {"absent", "streaming", "followed"} =>
         events[r] = IF r \in cancelled THEN 1 ELSE 0
    /\ phase[r] = "closing" => events[r] > 0
    /\ r \in active => events[r] < 2
    /\ phase[r] \in {"background", "detached"} => events[r] = 1
    /\ r \in retried \cup refused => phase[r] = "done" /\ events[r] = 0

\* A follow-up run belongs to one background consumer, which has not ended.
FollowUps ==
  \A r \in Runs : followUp[r] # NoRun =>
    /\ phase[r] = "background"
    /\ \A s \in Runs : followUp[s] = followUp[r] => s = r

\* A request is known to no one before it is made, it is pending for its asker
\* only, and follow-up runs have no callback of their own.
Askers ==
  \A q \in Requests :
    /\ asker[q] = NoRun => decision[q] = "none" /\ workflow[q] = "none"
    /\ asker[q] # NoRun => phase[asker[q]] \notin {"absent", "followed"}
    /\ \A r \in Runs : q \in pending[r] => asker[q] = r

\* The inductive invariant: the properties with what keeps them true.
IInv ==
  /\ TypeOK /\ LiveRuns /\ EventCount /\ FollowUps /\ Askers
  /\ SessionAgrees /\ EveryRunIsAnnounced /\ PermissionsAgree

-----------------------------------------------------------------------------
(* The steps.                                                               *)

\* Runs begin and users cancel them.
LEMMA StartsAndCancels ==
  ASSUME IInv, NEW r \in Runs, Start(r) \/ StartFails(r) \/ Cancel(r)
  PROVE  IInv'
<1>1. CASE Start(r)
  <2>1. TypeOK'
    BY <1>1 DEF IInv, TypeOK, Phases, requestVars, Start
  <2>2. LiveRuns' /\ EventCount' /\ FollowUps'
    BY <1>1 DEF IInv, TypeOK, LiveRuns, EventCount, FollowUps, Start
  <2>3. SessionAgrees' /\ EveryRunIsAnnounced'
    BY <1>1 DEF IInv, TypeOK, Busy, SessionAgrees, OneRunPerSession, IdleSessionShowsIdle,
       EveryRunIsAnnounced, Start
  <2>4. Askers' /\ PermissionsAgree'
    BY <1>1 DEF IInv, Askers, requestVars, PermissionsAgree, UndecidedIsAnswerable,
       PendingIsUndecided, HandedOver, Start
  <2>. QED
    BY <2>1, <2>2, <2>3, <2>4 DEF IInv
<1>2. CASE StartFails(r)
  <2>1. TypeOK'
    BY <1>2 DEF IInv, TypeOK, Phases, EventCount, Announce, requestVars, StartFails
  <2>2. LiveRuns' /\ EventCount' /\ FollowUps'
    BY <1>2 DEF IInv, TypeOK, LiveRuns, EventCount, FollowUps, Announce, StartFails
  <2>3. SessionAgrees' /\ EveryRunIsAnnounced'
    BY <1>2 DEF IInv, TypeOK, EventCount, Announce, SessionAgrees, OneRunPerSession,
       IdleSessionShowsIdle, EveryRunIsAnnounced, StartFails
  <2>4. Askers' /\ PermissionsAgree'
    BY <1>2 DEF IInv, Askers, requestVars, PermissionsAgree, UndecidedIsAnswerable,
       PendingIsUndecided, HandedOver, StartFails
  <2>. QED
    BY <2>1, <2>2, <2>3, <2>4 DEF IInv
<1>3. CASE Cancel(r)
  <2>1. TypeOK'
    BY <1>3 DEF IInv, TypeOK, EventCount, Announce, CleanupPendingPermissions, Decided, Cancel
  <2>2. LiveRuns' /\ EventCount' /\ FollowUps'
    BY <1>3 DEF IInv, TypeOK, LiveRuns, EventCount, FollowUps, Announce, Cancel
  <2>3. SessionAgrees' /\ EveryRunIsAnnounced'
    BY <1>3 DEF IInv, LiveRuns, Announce, SessionAgrees, OneRunPerSession,
       IdleSessionShowsIdle, EveryRunIsAnnounced, Cancel
  <2>4. Askers' /\ PermissionsAgree'
    BY <1>3, ConversationAssumption DEF IInv, TypeOK, Askers, CleanupPendingPermissions,
       Decided, PermissionsAgree, UndecidedIsAnswerable, PendingIsUndecided, HandedOver, Cancel
  <2>. QED
    BY <2>1, <2>2, <2>3, <2>4 DEF IInv
<1>. QED
  BY <1>1, <1>2, <1>3

\* The main consumer of a run: its events, the end of its stream, the retry.
LEMMA StreamKeeps ==
  ASSUME IInv, NEW r \in Runs, Stream(r)
  PROVE  IInv'
<1>1. CASE Result(r)
  <2>1. TypeOK'
    BY <1>1 DEF IInv, TypeOK, Phases, EventCount, Announce, Finalize,
       CleanupPendingPermissions, Decided, Leave, requestVars, Result
  <2>2. LiveRuns' /\ EventCount' /\ FollowUps'
    BY <1>1 DEF IInv, TypeOK, LiveRuns, EventCount, FollowUps, Announce, Finalize, Leave,
       Result
  <2>3. SessionAgrees' /\ EveryRunIsAnnounced'
    BY <1>1 DEF IInv, TypeOK, EventCount, Announce, Finalize, Leave, SessionAgrees,
       OneRunPerSession, IdleSessionShowsIdle, EveryRunIsAnnounced, Result
  <2>4. Askers' /\ PermissionsAgree'
    BY <1>1, ConversationAssumption DEF IInv, TypeOK, Askers, Finalize,
       CleanupPendingPermissions, Decided, Leave, requestVars, PermissionsAgree,
       UndecidedIsAnswerable, PendingIsUndecided, HandedOver, Result
  <2>. QED
    BY <2>1, <2>2, <2>3, <2>4 DEF IInv
<1>2. CASE Error(r)
  <2>1. TypeOK'
    BY <1>2 DEF IInv, TypeOK, Phases, EventCount, Announce, CleanupPendingPermissions, Decided,
       Error
  <2>2. LiveRuns' /\ EventCount' /\ FollowUps'
    BY <1>2 DEF IInv, TypeOK, LiveRuns, EventCount, FollowUps, Announce, Error
  <2>3. SessionAgrees' /\ EveryRunIsAnnounced'
    BY <1>2 DEF IInv, TypeOK, EventCount, Announce, SessionAgrees, OneRunPerSession,
       IdleSessionShowsIdle, EveryRunIsAnnounced, Error
  <2>4. Askers' /\ PermissionsAgree'
    BY <1>2, ConversationAssumption DEF IInv, TypeOK, Askers, CleanupPendingPermissions,
       Decided, PermissionsAgree, UndecidedIsAnswerable, PendingIsUndecided, HandedOver, Error
  <2>. QED
    BY <2>1, <2>2, <2>3, <2>4 DEF IInv
<1>3. CASE EventAfterCancel(r)
  <2>1. TypeOK'
    BY <1>3 DEF IInv, TypeOK, Phases, requestVars, EventAfterCancel
  <2>2. LiveRuns' /\ EventCount' /\ FollowUps'
    BY <1>3 DEF IInv, LiveRuns, EventCount, FollowUps, EventAfterCancel
  <2>3. SessionAgrees' /\ EveryRunIsAnnounced'
    BY <1>3 DEF IInv, SessionAgrees, OneRunPerSession, IdleSessionShowsIdle,
       EveryRunIsAnnounced, EventAfterCancel
  <2>4. Askers' /\ PermissionsAgree'
    BY <1>3 DEF IInv, Askers, requestVars, PermissionsAgree, UndecidedIsAnswerable,
       PendingIsUndecided, HandedOver, EventAfterCancel
  <2>. QED
    BY <2>1, <2>2, <2>3, <2>4 DEF IInv
<1>4. CASE Closed(r)
  <2>1. TypeOK'
    BY <1>4 DEF IInv, TypeOK, Phases, Finalize, CleanupPendingPermissions, Decided, Closed
  <2>2. LiveRuns' /\ EventCount' /\ FollowUps'
    BY <1>4 DEF IInv, LiveRuns, EventCount, FollowUps, Finalize, Closed
  <2>3. SessionAgrees' /\ EveryRunIsAnnounced'
    BY <1>4 DEF IInv, EventCount, Finalize, SessionAgrees, OneRunPerSession,
       IdleSessionShowsIdle, EveryRunIsAnnounced, Closed
  <2>4. Askers' /\ PermissionsAgree'
    BY <1>4, ConversationAssumption DEF IInv, TypeOK, Askers, Finalize,
       CleanupPendingPermissions, Decided, PermissionsAgree, UndecidedIsAnswerable,
       PendingIsUndecided, HandedOver, Closed
  <2>. QED
    BY <2>1, <2>2, <2>3, <2>4 DEF IInv
<1>5. CASE StreamEnds(r)
  <2>1. TypeOK'
    BY <1>5 DEF IInv, TypeOK, Phases, EventCount, Announce, Finalize,
       CleanupPendingPermissions, Decided, StreamEnds
  <2>2. LiveRuns' /\ EventCount' /\ FollowUps'
    BY <1>5 DEF IInv, TypeOK, LiveRuns, EventCount, FollowUps, Announce, Finalize, StreamEnds
  <2>3. SessionAgrees' /\ EveryRunIsAnnounced'
    BY <1>5 DEF IInv, TypeOK, EventCount, Announce, Finalize, SessionAgrees, OneRunPerSession,
       IdleSessionShowsIdle, EveryRunIsAnnounced, StreamEnds
  <2>4. Askers' /\ PermissionsAgree'
    BY <1>5, ConversationAssumption DEF IInv, TypeOK, Askers, Finalize,
       CleanupPendingPermissions, Decided, PermissionsAgree, UndecidedIsAnswerable,
       PendingIsUndecided, HandedOver, StreamEnds
  <2>. QED
    BY <2>1, <2>2, <2>3, <2>4 DEF IInv
<1>6. CASE StreamThrows(r)
  <2>1. TypeOK'
    BY <1>6 DEF IInv, TypeOK, Phases, EventCount, Announce, Finalize,
       CleanupPendingPermissions, Decided, StreamThrows
  <2>2. LiveRuns' /\ EventCount' /\ FollowUps'
    BY <1>6 DEF IInv, TypeOK, LiveRuns, EventCount, FollowUps, Announce, Finalize, StreamThrows
  <2>3. SessionAgrees' /\ EveryRunIsAnnounced'
    BY <1>6 DEF IInv, TypeOK, EventCount, Announce, Finalize, SessionAgrees, OneRunPerSession,
       IdleSessionShowsIdle, EveryRunIsAnnounced, StreamThrows
  <2>4. Askers' /\ PermissionsAgree'
    BY <1>6, ConversationAssumption DEF IInv, TypeOK, Askers, Finalize,
       CleanupPendingPermissions, Decided, PermissionsAgree, UndecidedIsAnswerable,
       PendingIsUndecided, HandedOver, StreamThrows
  <2>. QED
    BY <2>1, <2>2, <2>3, <2>4 DEF IInv
<1>7. ASSUME NEW n \in Runs, StreamCrashes(r, n) PROVE IInv'
  <2>1. TypeOK'
    BY <1>7 DEF IInv, TypeOK, Phases, CleanupPendingPermissions, Decided, StreamCrashes
  <2>2. LiveRuns' /\ EventCount' /\ FollowUps'
    BY <1>7 DEF IInv, TypeOK, LiveRuns, EventCount, FollowUps, StreamCrashes
  <2>3. SessionAgrees'
    BY <1>7 DEF IInv, TypeOK, LiveRuns, Busy, SessionAgrees, OneRunPerSession,
       IdleSessionShowsIdle, StreamCrashes
  <2>4. Askers' /\ PermissionsAgree'
    BY <1>7, ConversationAssumption DEF IInv, TypeOK, Askers, CleanupPendingPermissions,
       Decided, PermissionsAgree, UndecidedIsAnswerable, PendingIsUndecided, HandedOver,
       StreamCrashes
  <2>5. EveryRunIsAnnounced'
    BY <1>7 DEF IInv, TypeOK, EventCount, EveryRunIsAnnounced, StreamCrashes
  <2>. QED
    BY <2>1, <2>2, <2>3, <2>4, <2>5 DEF IInv
<1>. QED
  BY <1>1, <1>2, <1>3, <1>4, <1>5, <1>6, <1>7 DEF Stream

\* The background consumer and its follow-up runs.
LEMMA BackgroundKeeps ==
  ASSUME IInv, NEW r \in Runs, Background(r)
  PROVE  IInv'
<1>1. ASSUME NEW f \in Runs, FollowUpStarts(r, f) PROVE IInv'
  <2>1. TypeOK'
    BY <1>1 DEF IInv, TypeOK, Phases, requestVars, FollowUpStarts
  <2>2. LiveRuns' /\ EventCount' /\ FollowUps'
    BY <1>1 DEF IInv, TypeOK, LiveRuns, EventCount, FollowUps, FollowUpStarts
  <2>3. SessionAgrees' /\ EveryRunIsAnnounced'
    BY <1>1 DEF IInv, TypeOK, SessionAgrees, OneRunPerSession, IdleSessionShowsIdle,
       EveryRunIsAnnounced, FollowUpStarts
  <2>4. Askers' /\ PermissionsAgree'
    BY <1>1 DEF IInv, Askers, requestVars, PermissionsAgree, UndecidedIsAnswerable,
       PendingIsUndecided, HandedOver, FollowUpStarts
  <2>. QED
    BY <2>1, <2>2, <2>3, <2>4 DEF IInv
<1>2. CASE FollowUpEnds(r)
  <2>1. TypeOK'
    BY <1>2 DEF IInv, TypeOK, Phases, EventCount, FollowUps, Announce, requestVars,
       FollowUpEnds
  <2>2. LiveRuns' /\ EventCount' /\ FollowUps'
    BY <1>2 DEF IInv, TypeOK, LiveRuns, EventCount, FollowUps, Announce, FollowUpEnds
  <2>3. SessionAgrees' /\ EveryRunIsAnnounced'
    BY <1>2 DEF IInv, TypeOK, EventCount, Announce, SessionAgrees, OneRunPerSession,
       IdleSessionShowsIdle, EveryRunIsAnnounced, FollowUpEnds
  <2>4. Askers' /\ PermissionsAgree'
    BY <1>2 DEF IInv, TypeOK, Askers, requestVars, PermissionsAgree, UndecidedIsAnswerable,
       PendingIsUndecided, HandedOver, FollowUpEnds
  <2>. QED
    BY <2>1, <2>2, <2>3, <2>4 DEF IInv
<1>3. CASE BackgroundEnds(r)
  <2>1. TypeOK'
    BY <1>3 DEF IInv, TypeOK, Phases, EventCount, FollowUps, Announce, requestVars,
       BackgroundEnds
  <2>2. LiveRuns' /\ EventCount' /\ FollowUps'
    BY <1>3 DEF IInv, TypeOK, LiveRuns, EventCount, FollowUps, Announce, BackgroundEnds
  <2>3. SessionAgrees' /\ EveryRunIsAnnounced'
    BY <1>3 DEF IInv, TypeOK, EventCount, Announce, SessionAgrees, OneRunPerSession,
       IdleSessionShowsIdle, EveryRunIsAnnounced, BackgroundEnds
  <2>4. Askers' /\ PermissionsAgree'
    BY <1>3 DEF IInv, TypeOK, Askers, requestVars, PermissionsAgree, UndecidedIsAnswerable,
       PendingIsUndecided, HandedOver, BackgroundEnds
  <2>. QED
    BY <2>1, <2>2, <2>3, <2>4 DEF IInv
<1>. QED
  BY <1>1, <1>2, <1>3 DEF Background

\* Permissions are asked for and decided.
LEMMA RequestKeeps ==
  ASSUME IInv, NEW q \in Requests, Request(q)
  PROVE  IInv'
<1>1. CASE WorkflowEnds(q)
  <2>1. TypeOK'
    BY <1>1 DEF IInv, TypeOK, runVars, WorkflowEnds
  <2>2. LiveRuns' /\ EventCount' /\ FollowUps'
    BY <1>1 DEF IInv, LiveRuns, EventCount, FollowUps, runVars, WorkflowEnds
  <2>3. SessionAgrees' /\ EveryRunIsAnnounced'
    BY <1>1 DEF IInv, runVars, SessionAgrees, OneRunPerSession, IdleSessionShowsIdle,
       EveryRunIsAnnounced, WorkflowEnds
  <2>4. Askers' /\ PermissionsAgree'
    BY <1>1 DEF IInv, Askers, runVars, PermissionsAgree, UndecidedIsAnswerable,
       PendingIsUndecided, HandedOver, WorkflowEnds
  <2>. QED
    BY <2>1, <2>2, <2>3, <2>4 DEF IInv
<1>2. ASSUME NEW d \in {"allow", "deny"}, WorkflowDecides(q, d) PROVE IInv'
  <2>1. TypeOK'
    BY <1>2 DEF IInv, TypeOK, Decided, runVars, WorkflowDecides
  <2>2. LiveRuns' /\ EventCount' /\ FollowUps'
    BY <1>2 DEF IInv, LiveRuns, EventCount, FollowUps, runVars, WorkflowDecides
  <2>3. SessionAgrees' /\ EveryRunIsAnnounced'
    BY <1>2 DEF IInv, TypeOK, LiveRuns, runVars, SessionAgrees, OneRunPerSession,
       IdleSessionShowsIdle, EveryRunIsAnnounced, WorkflowDecides
  <2>4. Askers' /\ PermissionsAgree'
    BY <1>2 DEF IInv, TypeOK, Askers, Decided, runVars, PermissionsAgree,
       UndecidedIsAnswerable, PendingIsUndecided, HandedOver, WorkflowDecides
  <2>. QED
    BY <2>1, <2>2, <2>3, <2>4 DEF IInv
<1>3. ASSUME NEW d \in {"allow", "deny"}, NEW r \in Runs, UserDecides(r, q, d) PROVE IInv'
  <2>1. TypeOK'
    BY <1>3 DEF IInv, TypeOK, Decided, runVars, UserDecides
  <2>2. LiveRuns' /\ EventCount' /\ FollowUps'
    BY <1>3 DEF IInv, LiveRuns, EventCount, FollowUps, runVars, UserDecides
  <2>3. SessionAgrees' /\ EveryRunIsAnnounced'
    BY <1>3 DEF IInv, LiveRuns, runVars, SessionAgrees, OneRunPerSession, IdleSessionShowsIdle,
       EveryRunIsAnnounced, UserDecides
  <2>4. Askers' /\ PermissionsAgree'
    BY <1>3, ConversationAssumption DEF IInv, TypeOK, Askers, Decided, runVars,
       PermissionsAgree, UndecidedIsAnswerable, PendingIsUndecided, HandedOver, UserDecides
  <2>. QED
    BY <2>1, <2>2, <2>3, <2>4 DEF IInv
<1>4. ASSUME NEW r \in Runs, Ask(r, q) PROVE IInv'
  <2>1. TypeOK'
    BY <1>4 DEF IInv, TypeOK, runVars, Ask
  <2>2. LiveRuns' /\ EventCount' /\ FollowUps'
    BY <1>4 DEF IInv, LiveRuns, EventCount, FollowUps, runVars, Ask
  <2>3. SessionAgrees' /\ EveryRunIsAnnounced'
    BY <1>4 DEF IInv, runVars, SessionAgrees, OneRunPerSession, IdleSessionShowsIdle,
       EveryRunIsAnnounced, Ask
  <2>4. Askers' /\ PermissionsAgree'
    BY <1>4, ConversationAssumption DEF IInv, TypeOK, LiveRuns, Askers, runVars,
       PermissionsAgree, UndecidedIsAnswerable, PendingIsUndecided, HandedOver, Ask
  <2>. QED
    BY <2>1, <2>2, <2>3, <2>4 DEF IInv
<1>. QED
  BY <1>1, <1>2, <1>3, <1>4 DEF Request

\* Steps of other parts of the server leave the session as it is.
LEMMA StutterKeeps ==
  ASSUME IInv, UNCHANGED vars
  PROVE  IInv'
<1>1. TypeOK' /\ LiveRuns' /\ EventCount' /\ FollowUps'
  BY DEF IInv, vars, runVars, requestVars, TypeOK, LiveRuns, EventCount, FollowUps
<1>2. SessionAgrees' /\ EveryRunIsAnnounced'
  BY DEF IInv, vars, runVars, SessionAgrees, OneRunPerSession, IdleSessionShowsIdle,
     EveryRunIsAnnounced
<1>3. Askers' /\ PermissionsAgree'
  BY DEF IInv, vars, runVars, requestVars, Askers, PermissionsAgree, UndecidedIsAnswerable,
     PendingIsUndecided, HandedOver
<1>. QED
  BY <1>1, <1>2, <1>3 DEF IInv

-----------------------------------------------------------------------------
(* The theorems.                                                            *)

\* The invariant of the session holds in every state the server can reach.
THEOREM Invariance == Spec => []IInv
<1>1. Init => IInv
  BY DEF Init, IInv, TypeOK, Phases, LiveRuns, EventCount, FollowUps, Askers, SessionAgrees,
     OneRunPerSession, IdleSessionShowsIdle, EveryRunIsAnnounced, PermissionsAgree,
     UndecidedIsAnswerable, PendingIsUndecided
<1>2. IInv /\ [Next]_vars => IInv'
  <2>1. ASSUME IInv, NEW r \in Runs,
               Start(r) \/ StartFails(r) \/ Cancel(r) \/ Stream(r) \/ Background(r)
        PROVE  IInv'
    BY <2>1, StartsAndCancels, StreamKeeps, BackgroundKeeps
  <2>. QED
    BY <2>1, RequestKeeps, StutterKeeps DEF Next
<1>. QED
  BY <1>1, <1>2, PTL DEF Spec

\* The types, with at most two terminal events of a run and follow-up runs that
\* are under way while their consumer has them open.
THEOREM TypeCorrect == Spec => []TypeOK
<1>1. IInv => TypeOK
  BY DEF IInv
<1>. QED
  BY <1>1, Invariance, PTL

\* Users, the permission workflow and the end of a run may race for a request:
\* while it is undecided its run and its workflow can reach it, and users too,
\* unless its run was handed over or cancelled before it asked; and nobody is
\* asked for a decided one.
THEOREM PermissionsStayAgreed == Spec => []PermissionsAgree
<1>1. IInv => PermissionsAgree
  BY DEF IInv
<1>. QED
  BY <1>1, Invariance, PTL

\* One live run per session beside follow-up runs, and an idle session shows idle.
THEOREM SessionStaysAgreed == Spec => []SessionAgrees
<1>1. IInv => SessionAgrees
  BY DEF IInv
<1>. QED
  BY <1>1, Invariance, PTL

\* The runs that are over without a terminal event are those that crashed, whether
\* their retry was accepted or refused; and none but a cancelled one has two.
THEOREM RunsAreAnnounced == Spec => []EveryRunIsAnnounced
<1>1. IInv => EveryRunIsAnnounced
  BY DEF IInv
<1>. QED
  BY <1>1, Invariance, PTL
=============================================================================
