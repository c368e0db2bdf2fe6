---------------------------- MODULE GatewayState ----------------------------
(***************************************************************************)
(* The gateway's in-memory state about one backend, and the operations on  *)
(* it.  Each takes the state to the next one; the handlers of the module   *)
(* GatewaySync chain them.  A peer session has a number of its own, which  *)
(* stands for its id and, when it registers a backend, for the epoch       *)
(* allocated to it: both are fresh with every hello.                       *)
(***************************************************************************)
EXTENDS Naturals, FiniteSets

\* peers: the peer sessions; backends: those whose backendId and epoch are set;
\* lease: the session holding the lease, 0 for none; item: the epoch in the
\* registry, 0 for none; subs: subscriptions of the backend; own: the sessions
\* whose subscribedBackends has the backend; count, active: the stream demand (0
\* and FALSE also when there is no entry).
EmptyState == [peers |-> {}, backends |-> {}, lease |-> 0, item |-> 0,
               subs |-> {}, own |-> {}, count |-> 0, active |-> FALSE]

Increment(g) == [g EXCEPT !.count = @ + 1, !.active = @ \/ g.count = 0]

DecrementBy(g, n) ==
  LET left == IF g.count > n THEN g.count - n ELSE 0
  IN  [g EXCEPT !.count = left, !.active = @ /\ left # 0]

AddSubscription(g, s) ==
  IF s \in g.subs THEN g
  ELSE Increment([g EXCEPT !.subs = @ \cup {s}, !.own = @ \cup ({s} \cap g.peers)])

RemoveSubscription(g, s) ==
  IF s \notin g.subs THEN g
  ELSE DecrementBy([g EXCEPT !.subs = @ \ {s}, !.own = @ \ {s}], 1)

\* Mutant: the session is taken out of both sets, the demand is not brought down.
RemoveQuietly(g, s) == [g EXCEPT !.subs = @ \ {s}, !.own = @ \ {s}]

\* What a disconnect removes is what the session itself remembers.
RemoveAllSubscriptions(g, s) ==
  IF s \notin g.own THEN g
  ELSE DecrementBy([g EXCEPT !.subs = @ \ {s}, !.own = @ \ {s}], 1)

RemovePeer(g, s) ==
  LET removed == RemoveAllSubscriptions(g, s)
  IN  [removed EXCEPT !.peers = @ \ {s}, !.backends = @ \ {s}]

\* Mutant: the lease of a removed backend stays.
RemoveDemand(g) == [g EXCEPT !.count = 0, !.active = FALSE]

\* removeBackend: lease and demand go.
RemoveBackend(g) == [g EXCEPT !.lease = 0, !.count = 0, !.active = FALSE]

\* The subscriptions that notifySubscribersBackendGone cleans up.
DropSubscribers(g) ==
  DecrementBy([g EXCEPT !.subs = {}, !.own = @ \ g.subs], Cardinality(g.subs))

\* Mutant: any session that there is may speak for the backend.
IsPeer(g, s) == s \in g.peers

IsCurrentBackendOwner(g, s) == s \in g.backends /\ g.lease = s

FindBackendPeer(g) == {g.lease} \cap g.peers
=============================================================================
