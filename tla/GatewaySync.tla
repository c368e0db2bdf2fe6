---------------------------- MODULE GatewaySync -----------------------------
(***************************************************************************)
(* One backend, its clients and the gateway between them.  Backend and     *)
(* clients each hold one connection at a time; it is a pair of FIFO queues *)
(* that either end may lose without telling the other: the gateway goes on *)
(* with a session until it sees the close, a ping stays unanswered or the  *)
(* lease expires, and what an actor sent before is then still read.        *)
(***************************************************************************)
EXTENDS GatewayState, FacadeRegistry, Sequences, FiniteSetsExt

CONSTANTS
  Clients,     \* clients that connect to the gateway directly
  Backend,     \* the server whose sessions the clients follow
  MaxHellos,   \* bound: connections made, by all the actors
  MaxQueue,    \* bound: messages under way when a user adds one
  MaxTimed     \* bound: messages under way when a timer adds one

ASSUME GatewayAssumption ==
  /\ IsFiniteSet(Clients) /\ Backend \notin Clients
  /\ MaxHellos \in Nat /\ MaxQueue \in Nat /\ MaxTimed \in Nat

VARIABLES
  owner,    \* the actor of each session so far
  gw,       \* the gateway's state
  outbox,   \* messages from a session to the gateway
  conn,     \* the session that an actor's socket belongs to, 0 for none
  inbox,    \* messages from the gateway to an actor's current socket
  ready,    \* the backend has seen peer_ready on this connection
  demand,   \* streamDemandActive of the backend
  record,   \* the facade's record of the backend
  desired,  \* clients that want the backend open (desiredOpenBackends)
  subbed,   \* clients whose transport lists the backend in subscribedBackends
  asked     \* the session a client last sent subscribe_backend on

backendVars == <<ready, demand>>
clientVars == <<record, desired, subbed, asked>>
vars == <<owner, gw, outbox, conn, inbox, backendVars, clientVars>>

Actors == Clients \cup {Backend}
Sessions == 1..Len(owner)

Message(type, e) == [type |-> type, epoch |-> e]
Demand(on) == [type |-> "stream_demand", on |-> on]

\* Bound: messages that nobody has read yet.
Underway ==
  Cardinality(UNION {{s} \X DOMAIN outbox[s] : s \in Sessions})
    + Cardinality(UNION {{a} \X DOMAIN inbox[a] : a \in Actors})
UserRoom == Underway < MaxQueue
TimerRoom == Underway < MaxTimed

TypeOK ==
  /\ \A s \in Sessions : owner[s] \in Actors
  /\ gw.peers \subseteq Sessions /\ gw.backends \subseteq gw.peers
  /\ gw.lease \in gw.backends \cup {0} /\ gw.item \in Sessions \cup {0}
  /\ gw.subs \subseteq Sessions /\ gw.own \subseteq gw.peers
  /\ gw.count \in 0..MaxHellos /\ gw.active \in BOOLEAN
  /\ DOMAIN outbox = Sessions
  /\ conn \in [Actors -> Sessions \cup {0}]
  /\ DOMAIN inbox = Actors
  /\ ready \in BOOLEAN /\ demand \in BOOLEAN
  /\ \A c \in Clients :
       /\ record[c].epoch \in Sessions \cup {0} /\ asked[c] \in Sessions \cup {0}
       /\ record[c].open \in {"unsubscribed", "subscribing", "subscribed", "error"}
  /\ desired \subseteq Clients /\ subbed \subseteq Clients

Init ==
  /\ owner = <<>> /\ gw = EmptyState /\ outbox = <<>>
  /\ conn = [a \in Actors |-> 0] /\ inbox = [a \in Actors |-> <<>>]
  /\ ready = FALSE /\ demand = FALSE
  /\ record = [c \in Clients |-> NoRecord]
  /\ desired = {} /\ subbed = {} /\ asked = [c \in Clients |-> 0]

(***************************************************************************)
(* The gateway.                                                            *)
(***************************************************************************)
\* A socket that its actor has left takes no message any more.
Sockets(S) == {a \in Actors : conn[a] \in S}

\* The inboxes after ms has been sent to the sessions of S.
Sent(boxes, S, ms) == [a \in Actors |-> boxes[a] \o (IF a \in Sockets(S) THEN ms ELSE <<>>)]

\* notifySubscribersBackendGone and a broadcast of the registry as it is then.
ToldGone(boxes, subs, peers, item) ==
  Sent(Sent(boxes, subs, <<Message("unsubscribed", 0)>>), peers, <<Message("registry", item)>>)

\* A hello of the backend: the previous owner, if there is one, loses its role.
Register(g, s) ==
  LET dropped == IF g.lease # 0 THEN DropSubscribers(g) ELSE g
  IN  [dropped EXCEPT !.backends = (@ \ {g.lease}) \cup {s}, !.peers = @ \cup {s},
                      !.lease = s, !.item = s, !.count = 0, !.active = FALSE]

\* handlePeerHello: the socket of actor a has opened and its hello is handled.
Hello(a) ==
  LET s == Len(owner) + 1
      g == IF a = Backend THEN Register(gw, s) ELSE [gw EXCEPT !.peers = @ \cup {s}]
      gone == IF a = Backend /\ gw.lease # 0 THEN gw.subs ELSE {}
      told == IF a = Backend THEN ToldGone(inbox, gone, gw.peers, s) ELSE inbox
  IN  /\ conn[a] = 0 /\ Len(owner) < MaxHellos
      /\ owner' = Append(owner, a)
      /\ gw' = g
      /\ outbox' = Append(outbox, <<>>)
      /\ conn' = [conn EXCEPT ![a] = s]
      /\ inbox' = [told EXCEPT ![a] = <<Message("peer_ready", g.item)>>]
      /\ UNCHANGED <<backendVars, clientVars>>

\* The next message of session s, and whether it is still a session.
Receive(s, type) ==
  /\ s \in gw.peers /\ outbox[s] # <<>> /\ Head(outbox[s]).type = type
  /\ outbox' = [outbox EXCEPT ![s] = Tail(@)]
  /\ UNCHANGED <<owner, conn, backendVars, clientVars>>

\* Mutant: a request for a backend that is not there gets no answer.
SubscribeOnlyOnline(s) ==
  /\ Receive(s, "subscribe")
  /\ gw' = IF gw.item = 0 THEN gw ELSE AddSubscription(gw, s)
  /\ inbox' = IF gw.item = 0 THEN inbox
              ELSE Sent(Sent(inbox, FindBackendPeer(gw), <<Demand(TRUE), Message("request_data", 0)>>),
                        {s}, <<Message("subscribed", gw.lease)>>)

\* Mutant: data is requested for the first subscriber only.
SubscribeRequestsOnce(s) ==
  LET g == AddSubscription(gw, s)
      first == IF g.active # gw.active THEN FindBackendPeer(gw) ELSE {}
      told == Sent(inbox, first, <<Demand(TRUE), Message("request_data", 0)>>)
  IN  /\ Receive(s, "subscribe")
      /\ gw' = IF gw.item = 0 THEN gw ELSE g
      /\ inbox' = IF gw.item = 0 THEN Sent(inbox, {s}, <<Message("offline", 0)>>)
                  ELSE Sent(told, {s}, <<Message("subscribed", gw.lease)>>)

\* handleSubscribeBackend.
HandleSubscribe(s) ==
  LET g == AddSubscription(gw, s)
      bp == FindBackendPeer(gw)
      told == Sent(inbox, IF g.active # gw.active THEN bp ELSE {}, <<Demand(TRUE)>>)
      answered == Sent(told, {s}, <<Message("subscribed", gw.lease)>>)
  IN  /\ Receive(s, "subscribe")
      /\ IF gw.item = 0 \/ gw.lease = 0
         THEN inbox' = Sent(inbox, {s}, <<Message("offline", 0)>>) /\ UNCHANGED gw
         ELSE /\ gw' = g
              /\ inbox' = Sent(answered, IF s \in gw.own THEN {} ELSE bp,
                               <<Message("request_data", 0)>>)

\* handleUnsubscribeBackend.
HandleUnsubscribe(s) ==
  LET g == RemoveSubscription(gw, s)
      answered == Sent(inbox, {s}, <<Message("unsubscribed", 0)>>)
  IN  /\ Receive(s, "unsubscribe")
      /\ gw' = g
      /\ inbox' = Sent(answered, IF g.active # gw.active THEN FindBackendPeer(gw) ELSE {},
                       <<Demand(FALSE)>>)

\* handleBackendHeartbeat: the acknowledgement carries the demand.
HandleHeartbeat(s) ==
  /\ Receive(s, "heartbeat")
  /\ inbox' = IF IsCurrentBackendOwner(gw, s) THEN Sent(inbox, {s}, <<Demand(gw.active)>>) ELSE inbox
  /\ UNCHANGED gw

\* Mutant: the relay does not ask whose data it is.
HandleAnyData(s) ==
  /\ Receive(s, "data")
  /\ inbox' = Sent(inbox, gw.subs \cap gw.peers, <<Message("data", s)>>)
  /\ UNCHANGED gw

\* handleBackendDataSnapshot: relayed to every subscriber.
HandleData(s) ==
  /\ Receive(s, "data")
  /\ inbox' = IF IsCurrentBackendOwner(gw, s)
              THEN Sent(inbox, gw.subs \cap gw.peers, <<Message("data", s)>>) ELSE inbox
  /\ UNCHANGED gw

\* What a removed session has sent is not read.
Unread(S) == [t \in Sessions |-> IF t \in S THEN <<>> ELSE outbox[t]]

\* Registration and subscriptions of a backend that is gone.
Unregister(g) == RemoveBackend([DropSubscribers(g) EXCEPT !.item = 0])

\* handlePeerDisconnect: the socket has closed, or a ping was not answered.
PeerGone(s) ==
  LET owned == IsCurrentBackendOwner(gw, s)
      g == IF owned THEN Unregister(gw) ELSE gw
      told == IF owned THEN ToldGone(inbox, gw.subs, gw.peers \ {s}, 0) ELSE inbox
      rest == RemovePeer(g, s)
      silent == s \in g.own /\ ~rest.active
  IN  /\ s \in gw.peers
      /\ gw' = rest
      /\ inbox' = Sent(told, IF silent THEN FindBackendPeer(g) ELSE {}, <<Demand(FALSE)>>)
      /\ outbox' = Unread({s})
      /\ UNCHANGED <<owner, conn, backendVars, clientVars>>

\* handleBackendLeaseExpired: no heartbeat for the time of the lease.
LeaseExpires ==
  /\ gw.lease # 0
  /\ gw' = RemovePeer(Unregister(gw), gw.lease)
  /\ inbox' = ToldGone(inbox, gw.subs, gw.peers, 0)
  /\ outbox' = Unread({gw.lease})
  /\ UNCHANGED <<owner, conn, backendVars, clientVars>>

\* registryPollInterval.
PollRegistry ==
  /\ gw.peers # {}
  /\ TimerRoom
  /\ inbox' = Sent(inbox, gw.peers, <<Message("registry", gw.item)>>)
  /\ UNCHANGED <<owner, gw, outbox, conn, backendVars, clientVars>>

\* The gateway stops and starts again: only the epoch counter is on disk.
GatewayRestarts ==
  /\ gw.peers # {}
  /\ gw' = EmptyState
  /\ outbox' = Unread(gw.peers)
  /\ UNCHANGED <<owner, conn, inbox, backendVars, clientVars>>

(***************************************************************************)
(* The backend's gateway client.                                           *)
(***************************************************************************)
\* A session that the gateway has removed is not heard any more.
Post(s, type) == [outbox EXCEPT ![s] = IF s \in gw.peers THEN Append(@, [type |-> type]) ELSE @]

\* handlePeerReady, handleStreamDemand, handleHeartbeatAck, a request for data.
BackendReads ==
  LET m == Head(inbox[Backend])
      answers == m.type \in {"peer_ready", "request_data"}
  IN  /\ conn[Backend] # 0 /\ inbox[Backend] # <<>>
      /\ inbox' = [inbox EXCEPT ![Backend] = Tail(@)]
      /\ ready' = (ready \/ m.type = "peer_ready")
      /\ demand' = IF m.type = "stream_demand" THEN m.on ELSE demand
      /\ outbox' = IF answers THEN Post(conn[Backend], "data") ELSE outbox
      /\ UNCHANGED <<owner, gw, conn, clientVars>>

Heartbeat ==
  /\ ready /\ TimerRoom
  /\ outbox' = Post(conn[Backend], "heartbeat")
  /\ UNCHANGED <<owner, gw, conn, inbox, backendVars, clientVars>>

\* startBackendDataPush: only while somebody listens.
PushData ==
  /\ ready /\ demand /\ TimerRoom
  /\ outbox' = Post(conn[Backend], "data")
  /\ UNCHANGED <<owner, gw, conn, inbox, backendVars, clientVars>>

\* Mutant: the demand of the lost connection is remembered.
BackendDropsKeepingDemand ==
  /\ conn[Backend] # 0
  /\ conn' = [conn EXCEPT ![Backend] = 0]
  /\ inbox' = [inbox EXCEPT ![Backend] = <<>>]
  /\ ready' = FALSE
  /\ UNCHANGED <<owner, gw, outbox, demand, clientVars>>

\* The socket is lost, or replaced by connect(): cleanup.
BackendDrops ==
  /\ conn[Backend] # 0
  /\ conn' = [conn EXCEPT ![Backend] = 0]
  /\ inbox' = [inbox EXCEPT ![Backend] = <<>>]
  /\ ready' = FALSE /\ demand' = FALSE
  /\ UNCHANGED <<owner, gw, outbox, clientVars>>

(***************************************************************************)
(* A client: transport, direct adapter and the core of the facade.         *)
(***************************************************************************)
\* openBackend: the record r is about to be opened.  The transport says nothing
\* when it still lists the backend; a message to no socket is lost.
Opened(c, r) ==
  LET sends == r.epoch # 0 /\ c \notin subbed /\ conn[c] # 0
  IN  /\ record' = [record EXCEPT ![c] = IF r.epoch # 0 THEN MarkSubscribing(r) ELSE r]
      /\ outbox' = IF sends THEN Post(conn[c], "subscribe") ELSE outbox
      /\ asked' = IF sends THEN [asked EXCEPT ![c] = conn[c]] ELSE asked

\* Bound: a user clicks while there is room in the queue.
Open(c) ==
  /\ UserRoom
  /\ desired' = desired \cup {c}
  /\ Opened(c, record[c])
  /\ UNCHANGED <<owner, gw, conn, inbox, backendVars, subbed>>

\* closeBackend: only a subscribed backend is told.
Close(c) ==
  /\ c \in desired /\ UserRoom
  /\ desired' = desired \ {c}
  /\ record' = IF record[c].subscribed THEN [record EXCEPT ![c] = MarkUnsubscribed(@)] ELSE record
  /\ outbox' = IF record[c].subscribed /\ conn[c] # 0 THEN Post(conn[c], "unsubscribe") ELSE outbox
  /\ UNCHANGED <<owner, gw, conn, inbox, backendVars, subbed, asked>>

ClientReads(c, types) ==
  /\ conn[c] # 0 /\ inbox[c] # <<>> /\ Head(inbox[c]).type \in types
  /\ inbox' = [inbox EXCEPT ![c] = Tail(@)]
  /\ UNCHANGED <<owner, gw, conn, backendVars, desired>>

\* The registry, alone or in peer_ready: then what is desired is opened again.  The
\* transport forgets the subscription of a backend no longer listed.
ApplyRegistry(c) ==
  LET item == Head(inbox[c]).epoch
      r == ApplyRegistrySnapshot(record[c], item)
  IN  /\ ClientReads(c, {"registry", "peer_ready"})
      /\ subbed' = IF item = 0 /\ record[c].epoch # 0 THEN subbed \ {c} ELSE subbed
      /\ IF c \in desired /\ Reopens(r)
         THEN Opened(c, r)
         ELSE record' = [record EXCEPT ![c] = r] /\ UNCHANGED <<outbox, asked>>

\* Mutant: the answer is taken for the answer of a client that still wants it.
SubscribedIfDesired(c) ==
  /\ ClientReads(c, {"subscribed"})
  /\ record' = IF c \in desired THEN [record EXCEPT ![c] = MarkSubscribed(@, Head(inbox[c]).epoch)] ELSE record
  /\ subbed' = subbed \cup {c}
  /\ UNCHANGED <<outbox, asked>>

\* backend_subscribed.
Subscribed(c) ==
  /\ ClientReads(c, {"subscribed"})
  /\ record' = [record EXCEPT ![c] = MarkSubscribed(@, Head(inbox[c]).epoch)]
  /\ subbed' = subbed \cup {c}
  /\ UNCHANGED <<outbox, asked>>

\* backend_unsubscribed.
Unsubscribed(c) ==
  /\ ClientReads(c, {"unsubscribed"})
  /\ record' = [record EXCEPT ![c] = MarkUnsubscribed(@)]
  /\ subbed' = subbed \ {c}
  /\ UNCHANGED <<outbox, asked>>

\* A data snapshot counts whatever the state of the record.
Data(c) ==
  /\ ClientReads(c, {"data"})
  /\ record' = [record EXCEPT ![c] = MarkDataInitialized(@)]
  /\ UNCHANGED <<outbox, subbed, asked>>

\* The end of the socket: an unsubscribed event if the transport lists the backend.
Disconnected(c) ==
  /\ conn' = [conn EXCEPT ![c] = 0]
  /\ inbox' = [inbox EXCEPT ![c] = <<>>]
  /\ record' = IF c \in subbed THEN [record EXCEPT ![c] = MarkUnsubscribed(@)] ELSE record
  /\ subbed' = subbed \ {c}
  /\ UNCHANGED <<owner, gw, outbox, backendVars, desired, asked>>

\* gateway_error BACKEND_OFFLINE with the recovery 'reconnect'.
Offline(c) ==
  /\ conn[c] # 0 /\ inbox[c] # <<>> /\ Head(inbox[c]).type = "offline"
  /\ Disconnected(c)

\* The socket is lost, a health probe times out, or a reconnect is forced.
ClientDrops(c) == conn[c] # 0 /\ Disconnected(c)

CollectGarbage(c) ==
  /\ record[c].epoch = 0 /\ ~record[c].subscribed
  /\ record' = [record EXCEPT ![c] = NoRecord]
  /\ UNCHANGED <<owner, gw, outbox, conn, inbox, backendVars, desired, subbed, asked>>

(***************************************************************************)
(* Specification.                                                          *)
(***************************************************************************)
Next ==
  \/ \E a \in Actors : Hello(a)
  \/ \E s \in Sessions :
       HandleSubscribe(s) \/ HandleUnsubscribe(s) \/ HandleHeartbeat(s) \/ HandleData(s) \/ PeerGone(s)
  \/ LeaseExpires \/ PollRegistry \/ GatewayRestarts
  \/ BackendReads \/ Heartbeat \/ PushData \/ BackendDrops
  \/ \E c \in Clients :
       \/ Open(c) \/ Close(c) \/ ApplyRegistry(c) \/ Subscribed(c) \/ Unsubscribed(c) \/ Data(c)
       \/ Offline(c) \/ ClientDrops(c) \/ CollectGarbage(c)

Spec == Init /\ [][Next]_vars

(***************************************************************************)
(* Safety.                                                                 *)
(***************************************************************************)
\* The count that decides when the backend is told to stream is the number of
\* subscriptions, kept twice (in the map and by each session), across replaced
\* owners, expired leases and sessions that go in any order; and nobody is
\* subscribed to a backend that is not registered.
DemandCountsSubscribers ==
  /\ gw.subs = gw.own
  /\ gw.count = Cardinality(gw.subs)
  /\ gw.active <=> gw.subs # {}
  /\ gw.lease = gw.item
  /\ gw.lease = 0 => gw.subs = {}

\* The last demand under way to the backend, or what it knows.
HeardDemand ==
  LET box == inbox[Backend]
      told == {i \in DOMAIN box : box[i].type = "stream_demand"}
  IN  IF told = {} THEN demand ELSE box[Max(told)].on

\* Once it has read its messages the backend streams exactly when somebody is
\* subscribed: no transition of the count goes untold and no acknowledgement of a
\* heartbeat overtakes one.
BackendHearsDemand ==
  conn[Backend] # 0 /\ conn[Backend] \in gw.peers => HeardDemand = gw.active

\* A backend that the gateway still has on its current connection is the registered
\* one: the late end of an earlier connection does not take its place away.
ConnectedBackendIsRegistered ==
  conn[Backend] # 0 /\ conn[Backend] \in gw.peers => gw.lease = conn[Backend]

\* The registry, the subscriptions and the demand that follows from them.
RegistryAgrees == DemandCountsSubscribers /\ BackendHearsDemand /\ ConnectedBackendIsRegistered

Connected(c) == conn[c] # 0 /\ conn[c] \in gw.peers
Quiet(c) == Connected(c) /\ inbox[c] = <<>> /\ outbox[conn[c]] = <<>>

\* With nothing under way, client and gateway agree on the registry and on the
\* subscription, whatever was opened, closed, replaced and lost before.
ViewSettles ==
  \A c \in Clients : Quiet(c) =>
    /\ record[c].epoch = gw.item
    /\ record[c].subscribed <=> conn[c] \in gw.subs
    /\ record[c].subscribed <=> c \in subbed

\* A subscribed client has the backend's data, unless the backend still has
\* something to read or to say: the snapshot that is requested with a subscription
\* reaches it also when others are subscribed already.
SubscriberGetsData ==
  \A c \in Clients :
    /\ Quiet(c) /\ record[c].subscribed
    /\ inbox[Backend] = <<>> /\ outbox[gw.lease] = <<>> /\ conn[Backend] = gw.lease
    => record[c].data

Types(box) == {box[i].type : i \in 1..Len(box)}

\* A request that was sent on the present connection does not get lost: while the
\* client shows "subscribing", the request or an answer to it is under way.
SubscribingIsAnswered ==
  \A c \in Clients :
    /\ record[c].open = "subscribing" /\ ~record[c].subscribed
    /\ Connected(c) /\ asked[c] = conn[c]
    => \/ "subscribe" \in Types(outbox[conn[c]]) \cup Types(inbox[c])
       \/ Types(inbox[c]) \cap {"subscribed", "unsubscribed", "offline"} # {}
       \/ "unsubscribe" \in Types(outbox[conn[c]])

\* A request sent on the present connection is answered, and the data follow the
\* answer.  (Of a request made without a connection, or lost with one, it says
\* nothing: StuckIsReopened is about those.)
SubscriberIsServed == SubscribingIsAnswered /\ SubscriberGetsData

\* What the comment of reopenDesiredBackends says: a backend which the user has
\* opened, which is listed and got stuck, is reopened after a reconnect.  So a client
\* that wants it, has read the registry and has nothing under way does not stand at
\* "subscribing".
StuckIsReopened ==
  \A c \in desired :
    Quiet(c) /\ record[c].epoch # 0 => record[c].subscribed \/ record[c].open # "subscribing"

\* What a client reads of the backend comes from owners in their order: once it has
\* been told of an epoch nothing of an earlier one follows.
EpochsInOrder ==
  \A c \in Clients : \A i \in 1..Len(inbox[c]) :
    inbox[c][i].type = "data" =>
      \A j \in 1..(i - 1) : inbox[c][j].epoch <= inbox[c][i].epoch
=============================================================================
