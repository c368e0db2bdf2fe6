------------------------- MODULE GatewaySync_proofs -------------------------
(***************************************************************************)
(* The invariants of GatewaySync, proved for every finite set of clients   *)
(* and every bound on connections and messages, in two parts: first what   *)
(* the gateway, its sessions and the backend know (IInv), then, resting on *)
(* it, what each client knows and will be told (ClientsInv).               *)
(***************************************************************************)
EXTENDS GatewaySync, FiniteSetTheorems, SequenceTheorems, TLAPS

-----------------------------------------------------------------------------
(* The inductive invariant.                                                 *)

\* What is sent: a request of an actor, and a message of the gateway.
Requests == [type : {"subscribe", "unsubscribe", "heartbeat", "data"}]

Notices ==
  [type : {"peer_ready", "registry", "subscribed", "unsubscribed", "offline", "data", "request_data"},
   epoch : Nat]

\* A demand of the gateway that the backend stream, or stop.
Demands == [type : {"stream_demand"}, on : BOOLEAN]

\* All that the gateway sends.
Messages == Notices \cup Demands

\* The gateway's state when n sessions were made.
Gateways(n) ==
  [peers : SUBSET (1..n), backends : SUBSET (1..n), lease : 0..n, item : 0..n,
   subs : SUBSET (1..n), own : SUBSET (1..n), count : Nat, active : BOOLEAN]

\* What the facade of a client has of the backend.
Records ==
  [epoch : Nat, subscribed : BOOLEAN, data : BOOLEAN,
   open : {"unsubscribed", "subscribing", "subscribed", "error"}]

\* The types, for the provers: TypeOK with queues and records as members of sets.
Typed ==
  /\ owner \in Seq(Actors) /\ Len(owner) <= MaxHellos
  /\ gw \in Gateways(Len(owner))
  /\ outbox \in [Sessions -> Seq(Requests)]
  /\ conn \in [Actors -> Sessions \cup {0}]
  /\ inbox \in [Actors -> Seq(Messages)]
  /\ ready \in BOOLEAN /\ demand \in BOOLEAN
  /\ record \in [Clients -> Records] /\ \A c \in Clients : record[c].epoch \in Sessions \cup {0}
  /\ desired \subseteq Clients /\ subbed \subseteq Clients /\ asked \in [Clients -> Sessions \cup {0}]

\* DemandCountsSubscribers, and which sessions the gateway knows of.
GatewayIsRight(g) ==
  /\ g.subs = g.own /\ g.subs \subseteq g.peers
  /\ g.count = Cardinality(g.subs)
  /\ g.active <=> g.subs # {}
  /\ g.lease = g.item
  /\ g.lease = 0 => g.subs = {}
  /\ g.backends = {g.lease} \ {0} /\ g.backends \subseteq g.peers

\* The owner of the lease is the last session that the backend has made.
LeaseInOrder(g, ow) ==
  g.lease # 0 => /\ g.lease \in 1..Len(ow) /\ ow[g.lease] = Backend
                 /\ \A t \in 1..Len(ow) : ow[t] = Backend => t <= g.lease

\* A socket belongs to a session of its actor, and a backend without one knows of
\* no demand.
SocketsInOrder ==
  /\ \A a \in Actors : conn[a] # 0 => owner[conn[a]] = a
  /\ conn[Backend] = 0 => ~ready /\ ~demand

\* An epoch: that of a session of the backend, or 0 for none.
IsEpoch(ow, e) == e = 0 \/ (e \in 1..Len(ow) /\ ow[e] = Backend)

\* A client reads of no demand, and of epochs in their order.
BoxInOrder(ow, box) ==
  \A i \in 1..Len(box) :
    /\ box[i].type # "stream_demand" /\ IsEpoch(ow, box[i].epoch)
    /\ box[i].type = "data" => \A j \in 1..(i - 1) : box[j].epoch <= box[i].epoch

\* The messages to the clients.
BoxesInOrder(ow, boxes) ==
  boxes \in [Actors -> Seq(Messages)] /\ \A c \in Clients : BoxInOrder(ow, boxes[c])

\* After the messages of box the backend, which knows of the demand d, knows that it is
\* told: the last demand in box says so, or there is none.
Hears(box, d, told) ==
  \/ d = told /\ \A i \in 1..Len(box) : box[i].type # "stream_demand"
  \/ \E i \in 1..Len(box) :
       /\ box[i].type = "stream_demand" /\ box[i].on = told
       /\ \A j \in (i + 1)..Len(box) : box[j].type # "stream_demand"

\* A backend that the gateway has on its present connection hears the demand there is.
BackendHears ==
  conn[Backend] # 0 /\ conn[Backend] \in gw.peers => Hears(inbox[Backend], demand, gw.active)

\* The inductive invariant of the first part.
IInv ==
  /\ Typed /\ GatewayIsRight(gw) /\ LeaseInOrder(gw, owner) /\ SocketsInOrder
  /\ ConnectedBackendIsRegistered /\ BoxesInOrder(owner, inbox) /\ BackendHears

-----------------------------------------------------------------------------
(* The operations on the gateway's state.                                   *)

\* Sets of sessions are finite and have no more elements than there are sessions.
LEMMA SessionsAreFinite ==
  ASSUME NEW n \in Nat, NEW S \in SUBSET (1..n)
  PROVE  IsFiniteSet(S) /\ Cardinality(S) \in 0..n
<1>1. IsFiniteSet(1..n) /\ Cardinality(1..n) = n
  BY FS_Interval
<1>2. IsFiniteSet(S) /\ Cardinality(S) <= Cardinality(1..n)
  BY <1>1, FS_Subset
<1>3. Cardinality(S) \in Nat
  BY <1>2, FS_CardinalityType
<1>. QED BY <1>1, <1>2, <1>3

\* A subscription is added,
LEMMA AddSubscriptionIsRight ==
  ASSUME NEW n \in Nat, NEW g \in Gateways(n), GatewayIsRight(g), NEW s \in g.peers, g.lease # 0
  PROVE  LET h == AddSubscription(g, s) IN
         /\ h \in Gateways(n) /\ GatewayIsRight(h) /\ h.active
         /\ h.lease = g.lease /\ h.peers = g.peers /\ h.subs = g.subs \cup {s} /\ h.item = g.item
<1>1. CASE s \in g.subs
  BY <1>1 DEF AddSubscription, GatewayIsRight
<1>2. CASE s \notin g.subs
  <2>. DEFINE h == [peers |-> g.peers, backends |-> g.backends, lease |-> g.lease, item |-> g.item,
                    subs |-> g.subs \cup {s}, own |-> g.own \cup {s}, count |-> g.count + 1, active |-> TRUE]
  <2>1. g.count = 0 \/ g.active
    <3>1. g.subs \in SUBSET (1..n) /\ g.count \in Nat
      BY DEF Gateways
    <3>. QED BY <3>1, SessionsAreFinite, FS_EmptySet DEF GatewayIsRight
  <2>2. AddSubscription(g, s) = h
    BY <1>2, <2>1 DEF AddSubscription, Increment, Gateways
  <2>3. Cardinality(g.subs \cup {s}) = g.count + 1
    BY <1>2, SessionsAreFinite, FS_AddElement DEF Gateways, GatewayIsRight
  <2>4. h \in Gateways(n)
    BY DEF Gateways
  <2>5. GatewayIsRight(h)
    BY <2>3 DEF GatewayIsRight
  <2>. QED BY <2>2, <2>4, <2>5
<1>. QED BY <1>1, <1>2

\* h is g without the session s, in both sets of subscriptions and in the count.
IsWithout(n, g, s, h) ==
  /\ h \in Gateways(n)
  /\ h.peers = g.peers /\ h.backends = g.backends /\ h.lease = g.lease /\ h.item = g.item
  /\ h.subs = g.subs \ {s} /\ h.own = g.own \ {s} /\ h.count = Cardinality(g.subs \ {s})
  /\ h.active <=> g.subs \ {s} # {}

\* one is removed,
LEMMA RemoveSubscriptionIsRight ==
  ASSUME NEW n \in Nat, NEW g \in Gateways(n), GatewayIsRight(g), NEW s
  PROVE  /\ IsWithout(n, g, s, RemoveSubscription(g, s))
         /\ IsWithout(n, g, s, RemoveAllSubscriptions(g, s))
<1>1. /\ g.subs \in SUBSET (1..n) /\ g.count \in Nat /\ g.active \in BOOLEAN /\ g.own = g.subs
      /\ g.count = Cardinality(g.subs) /\ (g.active <=> g.subs # {})
  BY DEF Gateways, GatewayIsRight
<1>2. /\ IsFiniteSet(g.subs) /\ IsFiniteSet(g.subs \ {s}) /\ Cardinality(g.subs \ {s}) \in Nat
      /\ (Cardinality(g.subs \ {s}) = 0 <=> g.subs \ {s} = {})
  <2>1. g.subs \ {s} \in SUBSET (1..n)
    BY <1>1
  <2>. QED BY <1>1, <2>1, SessionsAreFinite, FS_EmptySet
<1>4. CASE s \in g.subs
  <2>. DEFINE k == [g EXCEPT !.subs = @ \ {s}, !.own = @ \ {s}]
              left == IF k.count > 1 THEN k.count - 1 ELSE 0
              h == [k EXCEPT !.count = left, !.active = @ /\ left # 0]
  <2>1. Cardinality(g.subs \ {s}) = g.count - 1
    BY <1>1, <1>2, <1>4, FS_RemoveElement
  <2>2. /\ k \in Gateways(n)
        /\ k.peers = g.peers /\ k.backends = g.backends /\ k.lease = g.lease /\ k.item = g.item
        /\ k.subs = g.subs \ {s} /\ k.own = g.own \ {s} /\ k.count = g.count /\ k.active = g.active
    BY DEF Gateways
  <2>3. RemoveSubscription(g, s) = h /\ RemoveAllSubscriptions(g, s) = h
    BY <1>1, <1>4, Zenon DEF RemoveSubscription, RemoveAllSubscriptions, DecrementBy
  <2>. HIDE DEF k
  <2>4. left \in Nat /\ left = Cardinality(g.subs \ {s})
    BY <1>1, <1>2, <2>1, <2>2
  <2>. HIDE DEF left
  <2>5. /\ h \in Gateways(n)
        /\ h.peers = k.peers /\ h.backends = k.backends /\ h.lease = k.lease /\ h.item = k.item
        /\ h.subs = k.subs /\ h.own = k.own /\ h.count = left /\ (h.active <=> k.active /\ left # 0)
    BY <2>2, <2>4 DEF Gateways
  <2>. HIDE DEF h
  <2>6. h.active <=> g.subs \ {s} # {}
    BY <1>1, <1>2, <1>4, <2>2, <2>4, <2>5
  <2>. QED BY <2>2, <2>3, <2>4, <2>5, <2>6 DEF IsWithout
<1>5. CASE s \notin g.subs
  <2>1. g.subs \ {s} = g.subs /\ g.own \ {s} = g.own
    BY <1>1, <1>5
  <2>2. IsWithout(n, g, s, g)
    BY <1>1, <2>1 DEF IsWithout
  <2>. QED BY <1>1, <1>5, <2>2 DEF RemoveSubscription, RemoveAllSubscriptions
<1>. QED BY <1>4, <1>5

\* a session that subscribes to nothing goes,
LEMMA WithoutIsRight ==
  ASSUME NEW n \in Nat, NEW g \in Gateways(n), GatewayIsRight(g), NEW s, NEW h,
         IsWithout(n, g, s, h)
  PROVE  GatewayIsRight(h)
BY DEF IsWithout, GatewayIsRight

\* and any session that is not the backend's.
LEMMA RemovePeerIsRight ==
  ASSUME NEW n \in Nat, NEW g \in Gateways(n), GatewayIsRight(g), NEW s, s # g.lease
  PROVE  LET h == RemovePeer(g, s) IN
         /\ h \in Gateways(n) /\ GatewayIsRight(h) /\ h.lease = g.lease /\ h.item = g.item
         /\ h.peers = g.peers \ {s} /\ h.subs = g.subs \ {s} /\ (h.active <=> g.subs \ {s} # {})
<1>. DEFINE k == RemoveAllSubscriptions(g, s)
            h == [k EXCEPT !.peers = @ \ {s}, !.backends = @ \ {s}]
<1>1. RemovePeer(g, s) = h
  BY Zenon DEF RemovePeer
<1>2. IsWithout(n, g, s, k)
  BY RemoveSubscriptionIsRight
<1>3. GatewayIsRight(k)
  BY <1>2, WithoutIsRight
<1>. HIDE DEF k
<1>4. /\ h \in Gateways(n) /\ h.peers = g.peers \ {s} /\ h.backends = g.backends \ {s}
      /\ h.lease = g.lease /\ h.item = g.item /\ h.subs = k.subs /\ h.own = k.own
      /\ h.count = k.count /\ h.active = k.active
  BY <1>2 DEF IsWithout, Gateways
<1>. HIDE DEF h
<1>5. GatewayIsRight(h)
  BY <1>2, <1>3, <1>4 DEF IsWithout, GatewayIsRight
<1>. QED BY <1>1, <1>2, <1>4, <1>5 DEF IsWithout

\* Nobody is subscribed, and the count is 0.
LEMMA DropSubscribersIsRight ==
  ASSUME NEW n \in Nat, NEW g \in Gateways(n), GatewayIsRight(g)
  PROVE  LET k == DropSubscribers(g) IN
         /\ k \in Gateways(n) /\ k.peers = g.peers /\ k.backends = g.backends /\ k.lease = g.lease
         /\ k.item = g.item /\ k.subs = {} /\ k.own = {}
<1>. DEFINE k == [g EXCEPT !.subs = {}, !.own = @ \ g.subs]
            left == IF k.count > Cardinality(g.subs) THEN k.count - Cardinality(g.subs) ELSE 0
            h == [k EXCEPT !.count = left, !.active = @ /\ left # 0]
<1>1. DropSubscribers(g) = h
  BY Zenon DEF DropSubscribers, DecrementBy
<1>2. /\ k \in Gateways(n) /\ k.peers = g.peers /\ k.backends = g.backends /\ k.lease = g.lease
      /\ k.item = g.item /\ k.subs = {} /\ k.own = {} /\ k.count = g.count
  BY DEF Gateways, GatewayIsRight
<1>. HIDE DEF k
<1>3. left \in Nat
  BY <1>2 DEF Gateways, GatewayIsRight
<1>. HIDE DEF left
<1>4. /\ h \in Gateways(n) /\ h.peers = k.peers /\ h.backends = k.backends /\ h.lease = k.lease
      /\ h.item = k.item /\ h.subs = k.subs /\ h.own = k.own
  BY <1>2, <1>3 DEF Gateways
<1>. QED BY <1>1, <1>2, <1>4

\* The session of the backend goes, and the registration with it.
LEMMA RemoveOwnerIsRight ==
  ASSUME NEW n \in Nat, NEW g \in Gateways(n), GatewayIsRight(g), g.lease # 0
  PROVE  LET h == RemovePeer(Unregister(g), g.lease) IN
         /\ h \in Gateways(n) /\ GatewayIsRight(h) /\ h.lease = 0 /\ h.item = 0
         /\ h.peers = g.peers \ {g.lease} /\ ~h.active
<1>. DEFINE j == DropSubscribers(g)
            k == [j EXCEPT !.item = 0]
            u == [k EXCEPT !.lease = 0, !.count = 0, !.active = FALSE]
            h == [u EXCEPT !.peers = @ \ {g.lease}, !.backends = @ \ {g.lease}]
<1>1. Unregister(g) = u
  BY Zenon DEF Unregister, RemoveBackend
<1>2. /\ j \in Gateways(n) /\ j.peers = g.peers /\ j.backends = g.backends /\ j.lease = g.lease
      /\ j.item = g.item /\ j.subs = {} /\ j.own = {}
  BY DropSubscribersIsRight
<1>. HIDE DEF j
<1>3. /\ k \in Gateways(n) /\ k.peers = g.peers /\ k.backends = g.backends
      /\ k.item = 0 /\ k.subs = {} /\ k.own = {}
  BY <1>2 DEF Gateways
<1>. HIDE DEF k
<1>4. /\ u \in Gateways(n) /\ u.peers = g.peers /\ u.backends = g.backends /\ u.lease = 0
      /\ u.item = 0 /\ u.subs = {} /\ u.own = {} /\ u.count = 0 /\ u.active = FALSE
  BY <1>3 DEF Gateways
<1>. HIDE DEF u
<1>5. RemovePeer(u, g.lease) = h
  BY <1>4 DEF RemovePeer, RemoveAllSubscriptions
<1>6. /\ h \in Gateways(n) /\ h.peers = g.peers \ {g.lease} /\ h.backends = g.backends \ {g.lease}
      /\ h.lease = 0 /\ h.item = 0 /\ h.subs = {} /\ h.own = {} /\ h.count = 0 /\ h.active = FALSE
  BY <1>4 DEF Gateways
<1>. HIDE DEF h
<1>7. GatewayIsRight(h)
  BY <1>6, FS_EmptySet DEF GatewayIsRight
<1>. QED BY <1>1, <1>5, <1>6, <1>7

\* The backend registers with a new session.
LEMMA RegisterIsRight ==
  ASSUME NEW n \in Nat, NEW g \in Gateways(n), GatewayIsRight(g)
  PROVE  LET h == Register(g, n + 1) IN
         /\ h \in Gateways(n + 1) /\ GatewayIsRight(h) /\ h.lease = n + 1 /\ h.item = n + 1
         /\ h.peers = g.peers \cup {n + 1} /\ ~h.active
<1>. DEFINE k == IF g.lease # 0 THEN DropSubscribers(g) ELSE g
            h == [k EXCEPT !.backends = (@ \ {g.lease}) \cup {n + 1}, !.peers = @ \cup {n + 1},
                           !.lease = n + 1, !.item = n + 1, !.count = 0, !.active = FALSE]
<1>1. Register(g, n + 1) = h
  BY Zenon DEF Register
<1>2. k \in Gateways(n) /\ k.peers = g.peers /\ k.backends = g.backends /\ k.subs = {} /\ k.own = {}
  BY DropSubscribersIsRight DEF GatewayIsRight
<1>. HIDE DEF k
<1>3. /\ h.peers = g.peers \cup {n + 1} /\ h.backends = (g.backends \ {g.lease}) \cup {n + 1}
      /\ h.lease = n + 1 /\ h.item = n + 1 /\ h.subs = {} /\ h.own = {} /\ h.count = 0
      /\ h.active = FALSE
  BY <1>2 DEF Gateways
<1>4. h \in Gateways(n + 1)
  <2>1. k \in Gateways(n + 1)
    BY <1>2 DEF Gateways
  <2>2. /\ (k.backends \ {g.lease}) \cup {n + 1} \in SUBSET (1..(n + 1))
        /\ k.peers \cup {n + 1} \in SUBSET (1..(n + 1))
    BY <2>1 DEF Gateways
  <2>3. n + 1 \in 0..(n + 1) /\ 0 \in Nat
    OBVIOUS
  <2>. QED BY <2>1, <2>2, <2>3 DEF Gateways
<1>. HIDE DEF h
<1>5. GatewayIsRight(h)
  BY <1>3, FS_EmptySet DEF GatewayIsRight
<1>. QED BY <1>1, <1>3, <1>4, <1>5

\* A client comes with a new session.
LEMMA AddPeerIsRight ==
  ASSUME NEW n \in Nat, NEW g \in Gateways(n), GatewayIsRight(g)
  PROVE  LET h == [g EXCEPT !.peers = @ \cup {n + 1}] IN
         /\ h \in Gateways(n + 1) /\ GatewayIsRight(h) /\ h.lease = g.lease /\ h.item = g.item
         /\ h.peers = g.peers \cup {n + 1} /\ h.active = g.active /\ h.subs = g.subs
BY DEF Gateways, GatewayIsRight

\* The gateway starts.
LEMMA EmptyStateIsRight ==
  ASSUME NEW n \in Nat
  PROVE  EmptyState \in Gateways(n) /\ GatewayIsRight(EmptyState)
BY FS_EmptySet DEF EmptyState, Gateways, GatewayIsRight

\* The registered session is a peer.
LEMMA BackendPeerIsKnown ==
  ASSUME NEW n \in Nat, NEW g \in Gateways(n), GatewayIsRight(g)
  PROVE  FindBackendPeer(g) = {g.lease} \ {0}
BY DEF FindBackendPeer, Gateways, GatewayIsRight

-----------------------------------------------------------------------------
(* Messages.                                                                *)

\* What the gateway sends has its type.
LEMMA NoticesAreMessages ==
  /\ \A type \in {"peer_ready", "registry", "subscribed", "unsubscribed", "offline", "data", "request_data"},
        e \in Nat : Message(type, e) \in Notices /\ Message(type, e).type = type /\ Message(type, e).epoch = e
  /\ \A on \in BOOLEAN : /\ Demand(on) \in Messages /\ Demand(on).type = "stream_demand"
                         /\ Demand(on).on = on
  /\ Notices \subseteq Messages /\ \A m \in Notices : m.type # "stream_demand"
BY DEF Message, Demand, Messages, Notices, Demands

\* What a message adds to the boxes.
LEMMA SentIsAppended ==
  ASSUME NEW boxes \in [Actors -> Seq(Messages)], NEW S, NEW m \in Messages
  PROVE  /\ Sent(boxes, S, <<m>>) \in [Actors -> Seq(Messages)]
         /\ \A a \in Actors : Sent(boxes, S, <<m>>)[a] =
              IF a \in Sockets(S) THEN Append(boxes[a], m) ELSE boxes[a]
<1>1. \A a \in Actors : boxes[a] \o <<m>> = Append(boxes[a], m) /\ boxes[a] \o <<>> = boxes[a]
  BY AppendIsConcat, ConcatEmptySeq
<1>2. \A a \in Actors : Append(boxes[a], m) \in Seq(Messages)
  BY AppendProperties
<1>3. \A a \in Actors : Sent(boxes, S, <<m>>)[a] =
        IF a \in Sockets(S) THEN Append(boxes[a], m) ELSE boxes[a]
  BY <1>1 DEF Sent
<1>4. Sent(boxes, S, <<m>>) = [a \in Actors |-> Sent(boxes, S, <<m>>)[a]]
  BY DEF Sent
<1>. QED BY <1>2, <1>3, <1>4

\* A message is added to the box of a client,
LEMMA AppendInOrder ==
  ASSUME NEW ow, NEW box \in Seq(Messages), BoxInOrder(ow, box), NEW m \in Notices,
         IsEpoch(ow, m.epoch),
         m.type = "data" => \A e : IsEpoch(ow, e) => e <= m.epoch
  PROVE  BoxInOrder(ow, Append(box, m))
<1>. DEFINE b == Append(box, m)
<1>1. /\ Len(box) \in Nat /\ Len(b) = Len(box) + 1 /\ b[Len(box) + 1] = m
      /\ \A i \in 1..Len(box) : b[i] = box[i]
  BY NoticesAreMessages, AppendProperties, LenProperties
<1>2. m.type # "stream_demand"
  BY NoticesAreMessages
<1>. HIDE DEF b
<1>. SUFFICES ASSUME NEW i \in 1..Len(b)
              PROVE  /\ b[i].type # "stream_demand" /\ IsEpoch(ow, b[i].epoch)
                     /\ b[i].type = "data" => \A j \in 1..(i - 1) : b[j].epoch <= b[i].epoch
  BY DEF BoxInOrder, b
<1>3. CASE i \in 1..Len(box)
  <2>1. \A j \in 1..(i - 1) : b[j] = box[j]
    BY <1>1, <1>3
  <2>. QED BY <1>1, <1>3, <2>1 DEF BoxInOrder
<1>4. CASE i = Len(box) + 1
  <2>1. \A j \in 1..(i - 1) : b[j] = box[j] /\ IsEpoch(ow, box[j].epoch)
    BY <1>1, <1>4 DEF BoxInOrder
  <2>. QED BY <1>1, <1>2, <1>4, <2>1
<1>. QED BY <1>1, <1>3, <1>4

\* and one is read.
LEMMA TailInOrder ==
  ASSUME NEW ow, NEW box \in Seq(Messages), box # <<>>, BoxInOrder(ow, box)
  PROVE  BoxInOrder(ow, Tail(box))
<1>1. /\ Len(box) \in Nat /\ Len(box) > 0 /\ Len(Tail(box)) = Len(box) - 1
      /\ \A i \in 1..Len(Tail(box)) : Tail(box)[i] = box[i + 1]
  BY HeadTailProperties, EmptySeq, LenProperties
<1>2. \A i \in 1..Len(Tail(box)) : i + 1 \in 1..Len(box)
  BY <1>1
<1>3. \A i \in 1..Len(Tail(box)) : \A j \in 1..(i - 1) :
        j + 1 \in 1..((i + 1) - 1) /\ j \in 1..Len(Tail(box))
  BY <1>1
<1>. QED BY <1>1, <1>2, <1>3 DEF BoxInOrder

\* The head of a client's box.
LEMMA HeadIsNotice ==
  ASSUME NEW ow, NEW box \in Seq(Messages), box # <<>>, BoxInOrder(ow, box)
  PROVE  Head(box) \in Notices /\ IsEpoch(ow, Head(box).epoch)
<1>1. Head(box) = box[1] /\ 1 \in 1..Len(box) /\ box[1] \in Messages
  BY HeadTailProperties, EmptySeq, LenProperties, ElementOfSeq
<1>. QED BY <1>1 DEF BoxInOrder, Messages, Demands

\* A notice to sessions leaves the boxes in order.
LEMMA NoticeInOrder ==
  ASSUME NEW ow, NEW boxes, BoxesInOrder(ow, boxes), NEW S, NEW m \in Notices,
         IsEpoch(ow, m.epoch),
         m.type = "data" => \A e : IsEpoch(ow, e) => e <= m.epoch
  PROVE  BoxesInOrder(ow, Sent(boxes, S, <<m>>))
<1>1. boxes \in [Actors -> Seq(Messages)] /\ m \in Messages
  BY NoticesAreMessages DEF BoxesInOrder
<1>2. \A c \in Clients : /\ c \in Actors /\ BoxInOrder(ow, boxes[c])
                         /\ BoxInOrder(ow, Append(boxes[c], m))
  BY <1>1, AppendInOrder DEF BoxesInOrder, Actors
<1>3. /\ Sent(boxes, S, <<m>>) \in [Actors -> Seq(Messages)]
      /\ \A a \in Actors : Sent(boxes, S, <<m>>)[a] =
           IF a \in Sockets(S) THEN Append(boxes[a], m) ELSE boxes[a]
  BY <1>1, SentIsAppended
<1>. QED BY <1>2, <1>3 DEF BoxesInOrder

\* Demands go to the session that holds the lease, which is not that of a client.
LEMMA DemandInOrder ==
  ASSUME NEW ow, NEW boxes, BoxesInOrder(ow, boxes), NEW S, NEW on \in BOOLEAN,
         Clients \cap Sockets(S) = {}
  PROVE  BoxesInOrder(ow, Sent(boxes, S, <<Demand(on)>>))
<1>1. boxes \in [Actors -> Seq(Messages)] /\ Demand(on) \in Messages
  BY NoticesAreMessages DEF BoxesInOrder
<1>2. /\ Sent(boxes, S, <<Demand(on)>>) \in [Actors -> Seq(Messages)]
      /\ \A a \in Actors : Sent(boxes, S, <<Demand(on)>>)[a] =
           IF a \in Sockets(S) THEN Append(boxes[a], Demand(on)) ELSE boxes[a]
  BY <1>1, SentIsAppended
<1>3. \A c \in Clients : c \in Actors /\ c \notin Sockets(S)
  BY DEF Actors
<1>. QED BY <1>2, <1>3 DEF BoxesInOrder

\* What the backend will have heard stays when other messages come,
LEMMA OtherIsHeard ==
  ASSUME NEW box \in Seq(Messages), NEW d, NEW told, Hears(box, d, told), NEW m \in Notices
  PROVE  Hears(Append(box, m), d, told)
<1>. DEFINE b == Append(box, m)
<1>1. /\ Len(box) \in Nat /\ Len(b) = Len(box) + 1 /\ b[Len(box) + 1] = m
      /\ \A i \in 1..Len(box) : b[i] = box[i]
  BY NoticesAreMessages, AppendProperties, LenProperties
<1>2. m.type # "stream_demand"
  BY NoticesAreMessages
<1>. HIDE DEF b
<1>3. CASE d = told /\ \A i \in 1..Len(box) : box[i].type # "stream_demand"
  BY <1>1, <1>2, <1>3 DEF Hears, b
<1>4. CASE \E i \in 1..Len(box) :
             /\ box[i].type = "stream_demand" /\ box[i].on = told
             /\ \A j \in (i + 1)..Len(box) : box[j].type # "stream_demand"
  <2>1. PICK i \in 1..Len(box) :
             /\ box[i].type = "stream_demand" /\ box[i].on = told
             /\ \A j \in (i + 1)..Len(box) : box[j].type # "stream_demand"
    BY <1>4
  <2>2. \A j \in (i + 1)..Len(b) : j \in (i + 1)..Len(box) \/ j = Len(box) + 1
    BY <1>1
  <2>3. \A j \in (i + 1)..Len(box) : b[j] = box[j]
    BY <1>1
  <2>4. \A j \in (i + 1)..Len(b) : b[j].type # "stream_demand"
    BY <1>1, <1>2, <2>1, <2>2, <2>3
  <2>5. i \in 1..Len(b) /\ b[i] = box[i]
    BY <1>1
  <2>. QED BY <2>1, <2>4, <2>5 DEF Hears, b
<1>. QED BY <1>3, <1>4 DEF Hears

\* is the demand that comes last,
LEMMA DemandIsHeard ==
  ASSUME NEW box \in Seq(Messages), NEW d, NEW on \in BOOLEAN
  PROVE  Hears(Append(box, Demand(on)), d, on)
<1>. DEFINE b == Append(box, Demand(on))
<1>1. Len(box) \in Nat /\ Len(b) = Len(box) + 1 /\ b[Len(box) + 1] = Demand(on)
  BY NoticesAreMessages, AppendProperties, LenProperties
<1>2. Demand(on).type = "stream_demand" /\ Demand(on).on = on
  BY NoticesAreMessages
<1>. HIDE DEF b
<1>. QED BY <1>1, <1>2 DEF Hears, b

\* and stays when it reads.
LEMMA ReadIsHeard ==
  ASSUME NEW box \in Seq(Messages), box # <<>>, NEW d, NEW told, Hears(box, d, told)
  PROVE  Hears(Tail(box), IF Head(box).type = "stream_demand" THEN Head(box).on ELSE d, told)
<1>1. /\ Len(box) \in Nat /\ Len(box) > 0 /\ Len(Tail(box)) = Len(box) - 1 /\ Head(box) = box[1]
      /\ \A i \in 1..Len(Tail(box)) : Tail(box)[i] = box[i + 1]
  BY HeadTailProperties, EmptySeq, LenProperties
<1>2. \A i \in 1..Len(Tail(box)) : i + 1 \in 1..Len(box)
  BY <1>1
<1>3. CASE d = told /\ \A i \in 1..Len(box) : box[i].type # "stream_demand"
  BY <1>1, <1>2, <1>3 DEF Hears
<1>4. ASSUME NEW i \in 1..Len(box), box[i].type = "stream_demand", box[i].on = told,
             \A j \in (i + 1)..Len(box) : box[j].type # "stream_demand"
      PROVE  Hears(Tail(box), IF Head(box).type = "stream_demand" THEN Head(box).on ELSE d, told)
  <2>1. CASE i = 1
    <3>1. \A j \in 1..Len(Tail(box)) : j + 1 \in (i + 1)..Len(box)
      BY <1>1, <2>1
    <3>2. \A j \in 1..Len(Tail(box)) : Tail(box)[j].type # "stream_demand"
      BY <1>1, <1>4, <3>1
    <3>. QED BY <1>1, <1>4, <2>1, <3>2 DEF Hears
  <2>2. CASE i # 1
    <3>1. i - 1 \in 1..Len(Tail(box)) /\ Tail(box)[i - 1] = box[i]
      BY <1>1, <2>2
    <3>2. \A j \in ((i - 1) + 1)..Len(Tail(box)) : /\ j + 1 \in (i + 1)..Len(box)
                                                   /\ j \in 1..Len(Tail(box))
      BY <1>1, <2>2
    <3>3. \A j \in ((i - 1) + 1)..Len(Tail(box)) : Tail(box)[j].type # "stream_demand"
      BY <1>1, <1>4, <3>2
    <3>. QED BY <1>4, <3>1, <3>3 DEF Hears
  <2>. QED BY <2>1, <2>2
<1>. QED BY <1>3, <1>4 DEF Hears

\* HeardDemand is what the backend hears.
LEMMA HearsTheLast ==
  ASSUME Hears(inbox[Backend], demand, gw.active), inbox[Backend] \in Seq(Messages)
  PROVE  HeardDemand = gw.active
<1>. DEFINE box == inbox[Backend]
            told == {i \in DOMAIN box : box[i].type = "stream_demand"}
<1>1. HeardDemand = IF told = {} THEN demand ELSE box[Max(told)].on
  BY Zenon DEF HeardDemand
<1>2. DOMAIN box = 1..Len(box) /\ Len(box) \in Nat
  BY LenProperties
<1>3. CASE demand = gw.active /\ \A i \in 1..Len(box) : box[i].type # "stream_demand"
  BY <1>1, <1>2, <1>3
<1>4. ASSUME NEW i \in 1..Len(box), box[i].type = "stream_demand", box[i].on = gw.active,
             \A j \in (i + 1)..Len(box) : box[j].type # "stream_demand"
      PROVE  HeardDemand = gw.active
  <2>1. i \in told /\ told \subseteq 1..Len(box) /\ \A j \in told : j <= i
    BY <1>2, <1>4
  <2>2. \A x \in told : (\A y \in told : x >= y) <=> x = i
    BY <1>2, <2>1
  <2>. HIDE DEF told, box
  <2>3. Max(told) = i
    BY <2>1, <2>2 DEF Max
  <2>. QED BY <1>1, <1>4, <2>1, <2>3
<1>. QED BY <1>3, <1>4 DEF Hears

\* So it does when a notice is sent to sessions,
LEMMA NoticeStaysHeard ==
  ASSUME NEW boxes \in [Actors -> Seq(Messages)], NEW d, NEW told, Hears(boxes[Backend], d, told),
         NEW S, NEW m \in Notices
  PROVE  Hears(Sent(boxes, S, <<m>>)[Backend], d, told)
<1>1. Backend \in Actors /\ m \in Messages
  BY NoticesAreMessages DEF Actors
<1>2. Sent(boxes, S, <<m>>)[Backend] = IF Backend \in Sockets(S) THEN Append(boxes[Backend], m) ELSE boxes[Backend]
  BY <1>1, SentIsAppended
<1>3. Hears(Append(boxes[Backend], m), d, told)
  BY <1>1, OtherIsHeard
<1>. QED BY <1>2, <1>3

\* and a demand that is sent to the backend will be heard.
LEMMA SentDemandIsHeard ==
  ASSUME NEW boxes \in [Actors -> Seq(Messages)], NEW d, NEW S, Backend \in Sockets(S),
         NEW on \in BOOLEAN
  PROVE  Hears(Sent(boxes, S, <<Demand(on)>>)[Backend], d, on)
<1>1. Backend \in Actors /\ Demand(on) \in Messages
  BY NoticesAreMessages DEF Actors
<1>2. Sent(boxes, S, <<Demand(on)>>)[Backend] = Append(boxes[Backend], Demand(on))
  BY <1>1, SentIsAppended
<1>3. Hears(Append(boxes[Backend], Demand(on)), d, on)
  BY <1>1, DemandIsHeard
<1>. QED BY <1>2, <1>3

\* A message to nobody.
LEMMA NobodyIsTold ==
  ASSUME NEW boxes \in [Actors -> Seq(Messages)], NEW m \in Messages
  PROVE  Sent(boxes, {}, <<m>>) = boxes
<1>1. /\ Sent(boxes, {}, <<m>>) \in [Actors -> Seq(Messages)]
      /\ \A a \in Actors : Sent(boxes, {}, <<m>>)[a] =
           IF a \in Sockets({}) THEN Append(boxes[a], m) ELSE boxes[a]
  BY SentIsAppended
<1>2. \A a \in Actors : a \notin Sockets({})
  BY DEF Sockets
<1>3. \A a \in Actors : Sent(boxes, {}, <<m>>)[a] = boxes[a]
  BY <1>1, <1>2
<1>4. /\ boxes = [a \in Actors |-> boxes[a]]
      /\ Sent(boxes, {}, <<m>>) = [a \in Actors |-> Sent(boxes, {}, <<m>>)[a]]
  BY <1>1
<1>. QED BY <1>3, <1>4, Zenon

\* The news that the backend is gone, or another one there.
LEMMA ToldGoneIsRight ==
  ASSUME NEW ow, NEW boxes, BoxesInOrder(ow, boxes), NEW S, NEW T, NEW item \in Nat,
         IsEpoch(ow, item)
  PROVE  /\ BoxesInOrder(ow, ToldGone(boxes, S, T, item))
         /\ \A d, told : Hears(boxes[Backend], d, told) =>
              Hears(ToldGone(boxes, S, T, item)[Backend], d, told)
<1>1. /\ Message("unsubscribed", 0) \in Notices /\ Message("unsubscribed", 0).type = "unsubscribed"
      /\ Message("unsubscribed", 0).epoch = 0
      /\ Message("registry", item) \in Notices /\ Message("registry", item).type = "registry"
      /\ Message("registry", item).epoch = item
  BY NoticesAreMessages
<1>. DEFINE first == Sent(boxes, S, <<Message("unsubscribed", 0)>>)
<1>2. BoxesInOrder(ow, first)
  BY <1>1, NoticeInOrder DEF IsEpoch
<1>3. first \in [Actors -> Seq(Messages)] /\ boxes \in [Actors -> Seq(Messages)]
  BY <1>2 DEF BoxesInOrder
<1>4. ASSUME NEW d, NEW told, Hears(boxes[Backend], d, told)
      PROVE  Hears(first[Backend], d, told)
  BY <1>1, <1>3, <1>4, NoticeStaysHeard
<1>. HIDE DEF first
<1>5. BoxesInOrder(ow, Sent(first, T, <<Message("registry", item)>>))
  BY <1>1, <1>2, NoticeInOrder
<1>6. ASSUME NEW d, NEW told, Hears(first[Backend], d, told)
      PROVE  Hears(Sent(first, T, <<Message("registry", item)>>)[Backend], d, told)
  BY <1>1, <1>3, <1>6, NoticeStaysHeard
<1>. QED BY <1>4, <1>5, <1>6 DEF ToldGone, first

-----------------------------------------------------------------------------
(* The gateway.                                                             *)

\* Demands reach the backend if it has not left the session, and nobody else.
LEMMA LeaseSocket ==
  ASSUME IInv
  PROVE  /\ Clients \cap Sockets(FindBackendPeer(gw)) = {}
         /\ conn[Backend] # 0 /\ conn[Backend] \in gw.peers =>
              Backend \in Sockets(FindBackendPeer(gw))
<1>1. FindBackendPeer(gw) = {gw.lease} \ {0}
  BY BackendPeerIsKnown, LenProperties DEF IInv, Typed
<1>2. \A c \in Clients : c \in Actors /\ c # Backend
  BY GatewayAssumption DEF Actors
<1>. QED BY <1>1, <1>2
         DEF Sockets, IInv, SocketsInOrder, LeaseInOrder, ConnectedBackendIsRegistered, Actors

\* A step of the gateway that makes no session.
LEMMA GatewayStep ==
  ASSUME IInv, gw' \in Gateways(Len(owner)), GatewayIsRight(gw'),
         gw'.lease = gw.lease \/ gw'.lease = 0, gw'.peers \subseteq gw.peers,
         conn[Backend] # 0 /\ conn[Backend] \in gw'.peers => gw'.lease = gw.lease,
         outbox' \in [Sessions -> Seq(Requests)], BoxesInOrder(owner, inbox'),
         conn[Backend] # 0 /\ conn[Backend] \in gw'.peers => Hears(inbox'[Backend], demand, gw'.active),
         UNCHANGED <<owner, conn, backendVars, clientVars>>
  PROVE  IInv'
<1>1. Typed'
  BY DEF IInv, Typed, BoxesInOrder, Sessions, backendVars, clientVars
<1>2. LeaseInOrder(gw, owner)' /\ SocketsInOrder' /\ ConnectedBackendIsRegistered'
  BY DEF IInv, LeaseInOrder, SocketsInOrder, ConnectedBackendIsRegistered, backendVars
<1>3. BoxesInOrder(owner, inbox)' /\ BackendHears' /\ GatewayIsRight(gw)'
  BY DEF BackendHears, BoxesInOrder, BoxInOrder, IsEpoch, GatewayIsRight, backendVars
<1>. QED BY <1>1, <1>2, <1>3 DEF IInv

\* A message of a session is read,
LEMMA ReceiveIsTyped ==
  ASSUME IInv, NEW s \in Sessions, NEW type, Receive(s, type)
  PROVE  outbox' \in [Sessions -> Seq(Requests)] /\ s \in gw.peers
BY HeadTailProperties DEF Receive, IInv, Typed

\* and those of sessions that are gone are dropped.
LEMMA UnreadIsTyped ==
  ASSUME IInv, NEW S
  PROVE  Unread(S) \in [Sessions -> Seq(Requests)]
BY EmptySeq DEF Unread, IInv, Typed

\* What a message in order needs to know.
LEMMA KnownEpochs ==
  ASSUME IInv
  PROVE  /\ Len(owner) \in Nat /\ gw.lease = gw.item /\ gw.lease \in Nat
         /\ IsEpoch(owner, 0) /\ IsEpoch(owner, gw.item) /\ IsEpoch(owner, gw.lease)
         /\ gw.lease # 0 => \A e : IsEpoch(owner, e) => e <= gw.lease
<1>1. Len(owner) \in Nat /\ gw.lease = gw.item /\ gw.lease \in Nat
  BY LenProperties DEF IInv, Typed, Gateways, GatewayIsRight
<1>. QED BY <1>1 DEF IInv, LeaseInOrder, IsEpoch

\* A client subscribes: the first subscription starts the stream.
LEMMA HandleSubscribeIsRight ==
  ASSUME IInv, NEW s \in Sessions, HandleSubscribe(s)
  PROVE  IInv'
<1>. DEFINE g == AddSubscription(gw, s)
            bp == FindBackendPeer(gw)
            told == Sent(inbox, IF g.active # gw.active THEN bp ELSE {}, <<Demand(TRUE)>>)
            answered == Sent(told, {s}, <<Message("subscribed", gw.lease)>>)
            asked2 == Sent(answered, IF s \in gw.own THEN {} ELSE bp, <<Message("request_data", 0)>>)
<1>1. /\ Receive(s, "subscribe")
      /\ IF gw.item = 0 \/ gw.lease = 0
         THEN inbox' = Sent(inbox, {s}, <<Message("offline", 0)>>) /\ UNCHANGED gw
         ELSE gw' = g /\ inbox' = asked2
  BY Zenon DEF HandleSubscribe
<1>2. /\ UNCHANGED <<owner, conn, backendVars, clientVars>> /\ s \in gw.peers
      /\ outbox' \in [Sessions -> Seq(Requests)]
  BY <1>1, ReceiveIsTyped DEF Receive
<1>3. /\ inbox \in [Actors -> Seq(Messages)] /\ BoxesInOrder(owner, inbox)
      /\ Len(owner) \in Nat /\ gw \in Gateways(Len(owner)) /\ GatewayIsRight(gw)
      /\ conn[Backend] # 0 /\ conn[Backend] \in gw.peers => Hears(inbox[Backend], demand, gw.active)
  BY KnownEpochs DEF IInv, Typed, BackendHears
<1>4. CASE gw.item = 0 \/ gw.lease = 0
  <2>1. inbox' = Sent(inbox, {s}, <<Message("offline", 0)>>) /\ gw' = gw
    BY <1>1, <1>4
  <2>2. /\ Message("offline", 0) \in Notices /\ Message("offline", 0).type = "offline"
        /\ Message("offline", 0).epoch = 0
    BY NoticesAreMessages
  <2>3. BoxesInOrder(owner, inbox')
    BY <1>3, <2>1, <2>2, KnownEpochs, NoticeInOrder
  <2>4. conn[Backend] # 0 /\ conn[Backend] \in gw'.peers =>
          Hears(inbox'[Backend], demand, gw'.active)
    BY <1>3, <2>1, <2>2, NoticeStaysHeard
  <2>. QED BY <1>2, <1>3, <2>1, <2>3, <2>4, GatewayStep
<1>5. CASE ~ (gw.item = 0 \/ gw.lease = 0)
  <2>1. inbox' = asked2 /\ gw' = g
    BY <1>1, <1>5
  <2>2. /\ g \in Gateways(Len(owner)) /\ GatewayIsRight(g) /\ g.active /\ g.lease = gw.lease
        /\ g.peers = gw.peers
    BY <1>2, <1>3, <1>5, AddSubscriptionIsRight
  <2>. HIDE DEF g
  <2>12. g.active = gw.active => told = inbox
    <3>1. Demand(TRUE) \in Messages
      BY NoticesAreMessages
    <3>. QED BY <1>3, <3>1, NobodyIsTold
  <2>3. BoxesInOrder(owner, told)
    <3>1. CASE g.active # gw.active
      BY <1>3, <3>1, LeaseSocket, DemandInOrder
    <3>2. CASE g.active = gw.active
      BY <1>3, <2>12, <3>2
    <3>. QED BY <3>1, <3>2
  <2>4. conn[Backend] # 0 /\ conn[Backend] \in gw.peers => Hears(told[Backend], demand, TRUE)
    <3>1. CASE g.active # gw.active
      BY <1>3, <3>1, LeaseSocket, SentDemandIsHeard
    <3>2. CASE g.active = gw.active
      <4>1. gw.active = TRUE
        BY <1>3, <2>2, <3>2 DEF Gateways
      <4>. QED BY <1>3, <2>12, <3>2, <4>1
    <3>. QED BY <3>1, <3>2
  <2>. HIDE DEF told
  <2>5. /\ Message("subscribed", gw.lease) \in Notices
        /\ Message("subscribed", gw.lease).type = "subscribed"
        /\ Message("subscribed", gw.lease).epoch = gw.lease
        /\ Message("request_data", 0) \in Notices
        /\ Message("request_data", 0).type = "request_data"
        /\ Message("request_data", 0).epoch = 0
    BY KnownEpochs, NoticesAreMessages
  <2>6. BoxesInOrder(owner, answered)
    BY <2>3, <2>5, KnownEpochs, NoticeInOrder
  <2>7. conn[Backend] # 0 /\ conn[Backend] \in gw.peers => Hears(answered[Backend], demand, TRUE)
    BY <2>3, <2>4, <2>5, NoticeStaysHeard DEF BoxesInOrder
  <2>. HIDE DEF answered
  <2>8. BoxesInOrder(owner, asked2)
    BY <2>5, <2>6, KnownEpochs, NoticeInOrder
  <2>9. conn[Backend] # 0 /\ conn[Backend] \in gw.peers => Hears(asked2[Backend], demand, TRUE)
    BY <2>5, <2>6, <2>7, NoticeStaysHeard DEF BoxesInOrder
  <2>. HIDE DEF asked2
  <2>10. g.active = TRUE
    BY <2>2 DEF Gateways
  <2>. QED BY <1>2, <2>1, <2>2, <2>8, <2>9, <2>10, GatewayStep
<1>. QED BY <1>4, <1>5

\* A client takes its subscription back: the last one ends the stream.
LEMMA HandleUnsubscribeIsRight ==
  ASSUME IInv, NEW s \in Sessions, HandleUnsubscribe(s)
  PROVE  IInv'
<1>. DEFINE g == RemoveSubscription(gw, s)
            bp == FindBackendPeer(gw)
            answered == Sent(inbox, {s}, <<Message("unsubscribed", 0)>>)
            told == Sent(answered, IF g.active # gw.active THEN bp ELSE {}, <<Demand(FALSE)>>)
<1>1. Receive(s, "unsubscribe") /\ gw' = g /\ inbox' = told
  BY Zenon DEF HandleUnsubscribe
<1>2. /\ UNCHANGED <<owner, conn, backendVars, clientVars>>
      /\ outbox' \in [Sessions -> Seq(Requests)]
  BY <1>1, ReceiveIsTyped DEF Receive
<1>3. /\ inbox \in [Actors -> Seq(Messages)] /\ BoxesInOrder(owner, inbox)
      /\ Len(owner) \in Nat /\ gw \in Gateways(Len(owner)) /\ GatewayIsRight(gw)
      /\ conn[Backend] # 0 /\ conn[Backend] \in gw.peers => Hears(inbox[Backend], demand, gw.active)
  BY KnownEpochs DEF IInv, Typed, BackendHears
<1>4. IsWithout(Len(owner), gw, s, g) /\ GatewayIsRight(g)
  BY <1>3, RemoveSubscriptionIsRight, WithoutIsRight
<1>5. /\ g \in Gateways(Len(owner)) /\ g.lease = gw.lease /\ g.peers = gw.peers
      /\ g.active # gw.active => ~g.active /\ g.active \in BOOLEAN
  BY <1>3, <1>4 DEF IsWithout, GatewayIsRight, Gateways
<1>. HIDE DEF g
<1>6. Message("unsubscribed", 0) \in Notices /\ Message("unsubscribed", 0).type = "unsubscribed"
      /\ Message("unsubscribed", 0).epoch = 0
  BY NoticesAreMessages
<1>7. BoxesInOrder(owner, answered)
  BY <1>3, <1>6, KnownEpochs, NoticeInOrder
<1>8. conn[Backend] # 0 /\ conn[Backend] \in gw.peers => Hears(answered[Backend], demand, gw.active)
  BY <1>3, <1>6, NoticeStaysHeard
<1>. HIDE DEF answered
<1>9. CASE g.active # gw.active
  <2>1. BoxesInOrder(owner, told)
    BY <1>7, <1>9, LeaseSocket, DemandInOrder
  <2>2. conn[Backend] # 0 /\ conn[Backend] \in gw.peers => Hears(told[Backend], demand, g.active)
    <3>1. g.active = FALSE /\ FALSE \in BOOLEAN
      BY <1>5, <1>9
    <3>. QED BY <1>7, <1>9, <3>1, LeaseSocket, SentDemandIsHeard DEF BoxesInOrder
  <2>. HIDE DEF told
  <2>. QED BY <1>1, <1>2, <1>4, <1>5, <2>1, <2>2, GatewayStep
<1>10. CASE g.active = gw.active
  <2>1. told = answered
    <3>1. Demand(FALSE) \in Messages /\ answered \in [Actors -> Seq(Messages)]
      BY <1>7, NoticesAreMessages DEF BoxesInOrder
    <3>. QED BY <1>10, <3>1, NobodyIsTold
  <2>. HIDE DEF told
  <2>. QED BY <1>1, <1>2, <1>4, <1>5, <1>7, <1>8, <1>10, <2>1, GatewayStep
<1>. QED BY <1>9, <1>10

\* A heartbeat is acknowledged with the demand.
LEMMA HandleHeartbeatIsRight ==
  ASSUME IInv, NEW s \in Sessions, HandleHeartbeat(s)
  PROVE  IInv'
<1>1. /\ UNCHANGED <<gw, owner, conn, backendVars, clientVars>> /\ s \in gw.peers
      /\ outbox' \in [Sessions -> Seq(Requests)]
      /\ inbox' = IF IsCurrentBackendOwner(gw, s) THEN Sent(inbox, {s}, <<Demand(gw.active)>>) ELSE inbox
  BY ReceiveIsTyped DEF HandleHeartbeat, Receive
<1>2. /\ inbox \in [Actors -> Seq(Messages)] /\ BoxesInOrder(owner, inbox)
      /\ gw \in Gateways(Len(owner)) /\ GatewayIsRight(gw) /\ gw.active \in BOOLEAN
      /\ conn[Backend] # 0 /\ conn[Backend] \in gw.peers => Hears(inbox[Backend], demand, gw.active)
  BY DEF IInv, Typed, BackendHears, Gateways
<1>3. CASE IsCurrentBackendOwner(gw, s)
  <2>1. {s} = FindBackendPeer(gw)
    BY <1>1, <1>3 DEF IsCurrentBackendOwner, FindBackendPeer
  <2>2. BoxesInOrder(owner, Sent(inbox, {s}, <<Demand(gw.active)>>))
    BY <1>2, <2>1, LeaseSocket, DemandInOrder
  <2>3. conn[Backend] # 0 /\ conn[Backend] \in gw.peers =>
          Hears(Sent(inbox, {s}, <<Demand(gw.active)>>)[Backend], demand, gw.active)
    BY <1>2, <2>1, LeaseSocket, SentDemandIsHeard
  <2>. QED BY <1>1, <1>2, <1>3, <2>2, <2>3, GatewayStep
<1>4. CASE ~ IsCurrentBackendOwner(gw, s)
  BY <1>1, <1>2, <1>4, GatewayStep
<1>. QED BY <1>3, <1>4

\* Data are relayed.
LEMMA HandleDataIsRight ==
  ASSUME IInv, NEW s \in Sessions, HandleData(s)
  PROVE  IInv'
<1>. DEFINE S == gw.subs \cap gw.peers
<1>1. /\ UNCHANGED <<gw, owner, conn, backendVars, clientVars>>
      /\ outbox' \in [Sessions -> Seq(Requests)]
      /\ inbox' = IF IsCurrentBackendOwner(gw, s) THEN Sent(inbox, S, <<Message("data", s)>>) ELSE inbox
  BY ReceiveIsTyped DEF HandleData, Receive
<1>2. /\ inbox \in [Actors -> Seq(Messages)] /\ BoxesInOrder(owner, inbox)
      /\ gw \in Gateways(Len(owner)) /\ GatewayIsRight(gw)
      /\ conn[Backend] # 0 /\ conn[Backend] \in gw.peers => Hears(inbox[Backend], demand, gw.active)
  BY DEF IInv, Typed, BackendHears
<1>. HIDE DEF S
<1>3. CASE IsCurrentBackendOwner(gw, s)
  <2>1. s = gw.lease /\ s \in Nat /\ s # 0
    BY <1>2, <1>3, KnownEpochs DEF IsCurrentBackendOwner, GatewayIsRight
  <2>2. Message("data", s) \in Notices /\ Message("data", s).epoch = s
    BY <2>1, NoticesAreMessages
  <2>3. BoxesInOrder(owner, Sent(inbox, S, <<Message("data", s)>>))
    BY <1>2, <2>1, <2>2, KnownEpochs, NoticeInOrder
  <2>4. conn[Backend] # 0 /\ conn[Backend] \in gw.peers =>
          Hears(Sent(inbox, S, <<Message("data", s)>>)[Backend], demand, gw.active)
    BY <1>2, <2>2, NoticeStaysHeard
  <2>. QED BY <1>1, <1>2, <1>3, <2>3, <2>4, GatewayStep
<1>4. CASE ~ IsCurrentBackendOwner(gw, s)
  BY <1>1, <1>2, <1>4, GatewayStep
<1>. QED BY <1>3, <1>4

\* A session goes, which may be the backend's.
LEMMA PeerGoneIsRight ==
  ASSUME IInv, NEW s \in Sessions, PeerGone(s)
  PROVE  IInv'
<1>. DEFINE owned == IsCurrentBackendOwner(gw, s)
            g == IF owned THEN Unregister(gw) ELSE gw
            told == IF owned THEN ToldGone(inbox, gw.subs, gw.peers \ {s}, 0) ELSE inbox
            rest == RemovePeer(g, s)
            silent == s \in g.own /\ ~rest.active
            last == Sent(told, IF silent THEN FindBackendPeer(g) ELSE {}, <<Demand(FALSE)>>)
<1>1. /\ s \in gw.peers /\ gw' = rest /\ inbox' = last /\ outbox' = Unread({s})
      /\ UNCHANGED <<owner, conn, backendVars, clientVars>>
  BY Zenon DEF PeerGone
<1>2. outbox' \in [Sessions -> Seq(Requests)]
  BY <1>1, UnreadIsTyped
<1>3. /\ inbox \in [Actors -> Seq(Messages)] /\ BoxesInOrder(owner, inbox)
      /\ Len(owner) \in Nat /\ gw \in Gateways(Len(owner)) /\ GatewayIsRight(gw)
      /\ conn[Backend] # 0 /\ conn[Backend] \in gw.peers => Hears(inbox[Backend], demand, gw.active)
      /\ conn[Backend] # 0 /\ conn[Backend] \in gw.peers => gw.lease = conn[Backend]
  BY KnownEpochs DEF IInv, Typed, BackendHears, ConnectedBackendIsRegistered
<1>4. FALSE \in BOOLEAN /\ Demand(FALSE) \in Messages /\ 0 \in Nat
  BY NoticesAreMessages
<1>5. s # 0 /\ s \in Nat
  BY <1>3 DEF Sessions
<1>6. CASE owned
  <2>1. gw.lease = s /\ gw.lease # 0
    BY <1>5, <1>6 DEF IsCurrentBackendOwner
  <2>2. /\ rest \in Gateways(Len(owner)) /\ GatewayIsRight(rest) /\ rest.lease = 0
        /\ rest.peers = gw.peers \ {s}
    BY <1>3, <1>6, <2>1, RemoveOwnerIsRight
  <2>3. told = ToldGone(inbox, gw.subs, gw.peers \ {s}, 0)
    BY <1>6
  <2>4. BoxesInOrder(owner, told)
    BY <1>3, <1>4, <2>3, KnownEpochs, ToldGoneIsRight
  <2>5. g.lease = 0 /\ g.peers = gw.peers
    <3>. DEFINE j == DropSubscribers(gw)
    <3>1. j \in Gateways(Len(owner)) /\ j.peers = gw.peers
      BY <1>3, DropSubscribersIsRight
    <3>2. g = RemoveBackend([j EXCEPT !.item = 0])
      BY <1>6, Zenon DEF Unregister
    <3>. HIDE DEF g, j
    <3>. QED BY <3>1, <3>2 DEF RemoveBackend, Gateways
  <2>6. FindBackendPeer(g) = {}
    BY <1>3, <2>5 DEF FindBackendPeer, Gateways
  <2>. HIDE DEF told, g, rest
  <2>7. last = Sent(told, {}, <<Demand(FALSE)>>)
    BY <2>6
  <2>8. last = told
    BY <1>4, <2>4, <2>7, NobodyIsTold DEF BoxesInOrder
  <2>. HIDE DEF last
  <2>9. ~ (conn[Backend] # 0 /\ conn[Backend] \in rest.peers)
    BY <1>3, <2>1, <2>2
  <2>. QED BY <1>1, <1>2, <2>2, <2>4, <2>8, <2>9, GatewayStep
<1>7. CASE ~ owned
  <2>1. gw.lease # s
    BY <1>3, <1>5, <1>7 DEF IsCurrentBackendOwner, GatewayIsRight
  <2>2. g = gw /\ told = inbox
    BY <1>7
  <2>3. /\ rest \in Gateways(Len(owner)) /\ GatewayIsRight(rest) /\ rest.lease = gw.lease
        /\ rest.peers = gw.peers \ {s} /\ (rest.active <=> gw.subs \ {s} # {})
    BY <1>3, <2>1, <2>2, RemovePeerIsRight
  <2>4. rest.active \in BOOLEAN /\ gw.active \in BOOLEAN
    BY <1>3, <2>3 DEF Gateways
  <2>. HIDE DEF rest, g, told
  <2>5. CASE silent
    <3>1. last = Sent(inbox, FindBackendPeer(gw), <<Demand(FALSE)>>) /\ rest.active = FALSE
      BY <2>2, <2>4, <2>5
    <3>. HIDE DEF last
    <3>2. BoxesInOrder(owner, last)
      BY <1>3, <1>4, <3>1, LeaseSocket, DemandInOrder
    <3>3. conn[Backend] # 0 /\ conn[Backend] \in rest.peers =>
            Hears(last[Backend], demand, rest.active)
      <4>1. conn[Backend] # 0 /\ conn[Backend] \in rest.peers =>
              Backend \in Sockets(FindBackendPeer(gw))
        BY <2>3, LeaseSocket
      <4>. QED BY <1>3, <1>4, <3>1, <4>1, SentDemandIsHeard
    <3>. QED BY <1>1, <1>2, <2>3, <3>2, <3>3, GatewayStep
  <2>6. CASE ~ silent
    <3>1. last = Sent(told, {}, <<Demand(FALSE)>>)
      BY <2>6
    <3>2. last = inbox
      BY <1>3, <1>4, <2>2, <3>1, NobodyIsTold
    <3>3. rest.active = gw.active
      BY <1>3, <2>2, <2>3, <2>4, <2>6 DEF GatewayIsRight
    <3>. HIDE DEF last
    <3>4. conn[Backend] # 0 /\ conn[Backend] \in rest.peers =>
            Hears(last[Backend], demand, rest.active)
      BY <1>3, <2>3, <3>2, <3>3
    <3>. QED BY <1>1, <1>2, <1>3, <2>3, <3>2, <3>4, GatewayStep
  <2>. QED BY <2>5, <2>6
<1>. QED BY <1>6, <1>7

\* The lease of the backend expires.
LEMMA LeaseExpiresIsRight ==
  ASSUME IInv, LeaseExpires
  PROVE  IInv'
<1>. DEFINE rest == RemovePeer(Unregister(gw), gw.lease)
<1>1. /\ gw.lease # 0 /\ gw' = rest /\ inbox' = ToldGone(inbox, gw.subs, gw.peers, 0)
      /\ outbox' = Unread({gw.lease}) /\ UNCHANGED <<owner, conn, backendVars, clientVars>>
  BY Zenon DEF LeaseExpires
<1>2. outbox' \in [Sessions -> Seq(Requests)]
  BY <1>1, UnreadIsTyped
<1>3. /\ BoxesInOrder(owner, inbox) /\ Len(owner) \in Nat /\ gw \in Gateways(Len(owner))
      /\ GatewayIsRight(gw)
      /\ conn[Backend] # 0 /\ conn[Backend] \in gw.peers => gw.lease = conn[Backend]
  BY KnownEpochs DEF IInv, Typed, ConnectedBackendIsRegistered
<1>4. /\ rest \in Gateways(Len(owner)) /\ GatewayIsRight(rest) /\ rest.lease = 0
      /\ rest.peers = gw.peers \ {gw.lease}
  BY <1>1, <1>3, RemoveOwnerIsRight
<1>. HIDE DEF rest
<1>5. BoxesInOrder(owner, inbox')
  <2>1. 0 \in Nat
    OBVIOUS
  <2>. QED BY <1>1, <1>3, <2>1, KnownEpochs, ToldGoneIsRight
<1>6. ~ (conn[Backend] # 0 /\ conn[Backend] \in rest.peers)
  BY <1>3, <1>4
<1>. QED BY <1>1, <1>2, <1>4, <1>5, <1>6, GatewayStep

\* The registry is sent to everybody.
LEMMA PollRegistryIsRight ==
  ASSUME IInv, PollRegistry
  PROVE  IInv'
<1>1. /\ inbox' = Sent(inbox, gw.peers, <<Message("registry", gw.item)>>)
      /\ UNCHANGED <<gw, outbox, owner, conn, backendVars, clientVars>>
  BY DEF PollRegistry
<1>2. /\ inbox \in [Actors -> Seq(Messages)] /\ BoxesInOrder(owner, inbox)
      /\ gw \in Gateways(Len(owner)) /\ GatewayIsRight(gw) /\ outbox \in [Sessions -> Seq(Requests)]
      /\ conn[Backend] # 0 /\ conn[Backend] \in gw.peers => Hears(inbox[Backend], demand, gw.active)
  BY DEF IInv, Typed, BackendHears
<1>3. /\ Message("registry", gw.item) \in Notices /\ Message("registry", gw.item).type = "registry"
      /\ Message("registry", gw.item).epoch = gw.item
  BY KnownEpochs, NoticesAreMessages
<1>4. BoxesInOrder(owner, inbox')
  BY <1>1, <1>2, <1>3, KnownEpochs, NoticeInOrder
<1>5. conn[Backend] # 0 /\ conn[Backend] \in gw.peers => Hears(inbox'[Backend], demand, gw.active)
  BY <1>1, <1>2, <1>3, NoticeStaysHeard
<1>. QED BY <1>1, <1>2, <1>4, <1>5, GatewayStep

\* The gateway stops and starts again.
LEMMA GatewayRestartsIsRight ==
  ASSUME IInv, GatewayRestarts
  PROVE  IInv'
<1>1. /\ gw' = EmptyState /\ outbox' = Unread(gw.peers)
      /\ UNCHANGED <<inbox, owner, conn, backendVars, clientVars>>
  BY DEF GatewayRestarts
<1>2. outbox' \in [Sessions -> Seq(Requests)]
  BY <1>1, UnreadIsTyped
<1>3. /\ EmptyState \in Gateways(Len(owner)) /\ GatewayIsRight(EmptyState)
      /\ EmptyState.lease = 0 /\ EmptyState.peers = {}
  BY KnownEpochs, EmptyStateIsRight DEF EmptyState
<1>4. BoxesInOrder(owner, inbox')
  BY <1>1 DEF IInv
<1>. HIDE DEF EmptyState
<1>. QED BY <1>1, <1>2, <1>3, <1>4, GatewayStep

\* What was in order stays in order when a session is made.
LEMMA NewSession ==
  ASSUME IInv, NEW a \in Actors
  PROVE  LET ow == Append(owner, a) IN
         /\ ow \in Seq(Actors) /\ Len(ow) = Len(owner) + 1 /\ ow[Len(ow)] = a
         /\ \A t \in 1..Len(owner) : ow[t] = owner[t]
         /\ \A e : IsEpoch(owner, e) => IsEpoch(ow, e)
         /\ \A boxes : BoxesInOrder(owner, boxes) => BoxesInOrder(ow, boxes)
         /\ \A box : BoxInOrder(owner, box) => BoxInOrder(ow, box)
<1>. DEFINE ow == Append(owner, a)
<1>1. owner \in Seq(Actors) /\ Len(owner) \in Nat
  BY KnownEpochs DEF IInv, Typed
<1>2. /\ ow \in Seq(Actors) /\ Len(ow) = Len(owner) + 1 /\ ow[Len(owner) + 1] = a
      /\ \A t \in 1..Len(owner) : ow[t] = owner[t]
  BY <1>1, AppendProperties
<1>. HIDE DEF ow
<1>3. \A e : IsEpoch(owner, e) => IsEpoch(ow, e)
  BY <1>1, <1>2 DEF IsEpoch
<1>4. \A box : BoxInOrder(owner, box) => BoxInOrder(ow, box)
  BY <1>3 DEF BoxInOrder
<1>. QED BY <1>1, <1>2, <1>3, <1>4 DEF BoxesInOrder, ow

\* What the three kinds of hello have in common.
LEMMA HelloStep ==
  ASSUME IInv, NEW a \in Actors, NEW boxes, NEW item,
         Len(owner) < MaxHellos, conn[a] = 0,
         owner' = Append(owner, a), outbox' = Append(outbox, <<>>),
         conn' = [conn EXCEPT ![a] = Len(owner) + 1],
         IsEpoch(owner', item), BoxesInOrder(owner', boxes),
         inbox' = [boxes EXCEPT ![a] = <<Message("peer_ready", item)>>],
         UNCHANGED <<backendVars, clientVars>>,
         gw' \in Gateways(Len(owner) + 1)
  PROVE  /\ Typed' /\ SocketsInOrder' /\ BoxesInOrder(owner, inbox)'
         /\ \A b \in Actors : b # a => conn'[b] = conn[b] /\ inbox'[b] = boxes[b]
         /\ conn'[a] = Len(owner) + 1 /\ inbox'[a] = <<Message("peer_ready", item)>>
         /\ Message("peer_ready", item).type = "peer_ready"
<1>1. /\ owner' \in Seq(Actors) /\ Len(owner') = Len(owner) + 1 /\ owner'[Len(owner')] = a
      /\ \A t \in 1..Len(owner) : owner'[t] = owner[t]
  BY NewSession
<1>2. /\ Len(owner) \in Nat /\ MaxHellos \in Nat /\ Sessions = 1..Len(owner)
      /\ Sessions' = 1..(Len(owner) + 1)
  BY <1>1, KnownEpochs, GatewayAssumption DEF Sessions
<1>3. item \in Nat
  BY <1>1, <1>2 DEF IsEpoch
<1>4. /\ Message("peer_ready", item) \in Messages /\ Message("peer_ready", item).type = "peer_ready"
      /\ Message("peer_ready", item).epoch = item
  BY <1>3, NoticesAreMessages
<1>. DEFINE box == <<Message("peer_ready", item)>>
<1>5. box \in Seq(Messages) /\ Len(box) = 1 /\ box[1] = Message("peer_ready", item)
  BY <1>4
<1>6. /\ inbox' \in [Actors -> Seq(Messages)] /\ inbox'[a] = box
      /\ \A b \in Actors : b # a => inbox'[b] = boxes[b]
  BY <1>5 DEF BoxesInOrder
<1>7. BoxInOrder(owner', box)
  BY <1>4, <1>5 DEF BoxInOrder
<1>. HIDE DEF box
<1>8. BoxesInOrder(owner, inbox)'
  <2>1. \A c \in Clients : c \in Actors
    BY DEF Actors
  <2>2. BoxesInOrder(owner', inbox')
    BY <1>6, <1>7, <2>1 DEF BoxesInOrder
  <2>. QED BY <2>2 DEF BoxesInOrder, BoxInOrder, IsEpoch
<1>9. /\ conn' \in [Actors -> Sessions' \cup {0}] /\ conn'[a] = Len(owner) + 1
      /\ \A b \in Actors : b # a => conn'[b] = conn[b]
  BY <1>2 DEF IInv, Typed
<1>10. outbox' \in [Sessions' -> Seq(Requests)]
  <2>1. outbox \in [1..Len(owner) -> Seq(Requests)] /\ <<>> \in Seq(Requests)
    BY <1>2, EmptySeq DEF IInv, Typed
  <2>2. outbox \in Seq(Seq(Requests)) /\ Len(outbox) = Len(owner)
    BY <1>2, <2>1, SeqDef, LenProperties
  <2>3. outbox' \in Seq(Seq(Requests)) /\ Len(outbox') = Len(owner) + 1
    BY <2>1, <2>2, AppendProperties
  <2>. QED BY <1>2, <2>3, LenProperties
<1>11. Typed'
  BY <1>1, <1>2, <1>6, <1>9, <1>10 DEF IInv, Typed, backendVars, clientVars
<1>12. SocketsInOrder'
  <2>1. \A b \in Actors : conn'[b] # 0 => owner'[conn'[b]] = b
    <3>1. \A b \in Actors : b # a /\ conn'[b] # 0 => conn[b] \in 1..Len(owner) /\ owner[conn[b]] = b
      BY <1>2, <1>9 DEF IInv, Typed, SocketsInOrder
    <3>. QED BY <1>1, <1>9, <3>1
  <2>2. conn'[Backend] = 0 => ~ready' /\ ~demand'
    <3>1. Backend \in Actors
      BY DEF Actors
    <3>. QED BY <1>2, <1>9, <3>1 DEF IInv, SocketsInOrder, backendVars
  <2>. QED BY <2>1, <2>2 DEF SocketsInOrder
<1>. QED BY <1>4, <1>6, <1>8, <1>9, <1>11, <1>12 DEF box

\* A client connects.
LEMMA ClientHelloIsRight ==
  ASSUME IInv, NEW a \in Clients, Hello(a)
  PROVE  IInv'
<1>. DEFINE n == Len(owner)
            g == [gw EXCEPT !.peers = @ \cup {n + 1}]
<1>1. a \in Actors /\ Backend \in Actors /\ a # Backend
  BY GatewayAssumption DEF Actors
<1>2. /\ n < MaxHellos /\ conn[a] = 0 /\ owner' = Append(owner, a) /\ outbox' = Append(outbox, <<>>)
      /\ gw' = g /\ conn' = [conn EXCEPT ![a] = n + 1]
      /\ inbox' = [inbox EXCEPT ![a] = <<Message("peer_ready", g.item)>>]
      /\ UNCHANGED <<backendVars, clientVars>>
  BY <1>1 DEF Hello
<1>3. /\ n \in Nat /\ gw \in Gateways(n) /\ GatewayIsRight(gw) /\ BoxesInOrder(owner, inbox)
      /\ conn \in [Actors -> (1..n) \cup {0}]
  BY KnownEpochs DEF IInv, Typed, Sessions
<1>4. /\ g \in Gateways(n + 1) /\ GatewayIsRight(g) /\ g.lease = gw.lease /\ g.item = gw.item
      /\ g.peers = gw.peers \cup {n + 1} /\ g.active = gw.active
  BY <1>3, AddPeerIsRight
<1>. HIDE DEF g, n
<1>5. /\ Len(owner') = n + 1 /\ owner'[n + 1] = a /\ \A t \in 1..n : owner'[t] = owner[t]
      /\ IsEpoch(owner', g.item) /\ BoxesInOrder(owner', inbox)
  BY <1>1, <1>2, <1>3, <1>4, NewSession, KnownEpochs DEF n
<1>6. /\ Typed' /\ SocketsInOrder' /\ BoxesInOrder(owner, inbox)'
      /\ \A b \in Actors : b # a => conn'[b] = conn[b] /\ inbox'[b] = inbox[b]
  <2>1. /\ Len(owner) < MaxHellos /\ conn[a] = 0
        /\ owner' = Append(owner, a) /\ outbox' = Append(outbox, <<>>)
        /\ conn' = [conn EXCEPT ![a] = Len(owner) + 1]
        /\ IsEpoch(owner', g.item) /\ BoxesInOrder(owner', inbox)
        /\ inbox' = [inbox EXCEPT ![a] = <<Message("peer_ready", g.item)>>]
        /\ UNCHANGED <<backendVars, clientVars>> /\ gw' \in Gateways(Len(owner) + 1)
    BY <1>2, <1>4, <1>5 DEF n
  <2>. QED BY <1>1, <2>1, HelloStep, Zenon
<1>7. LeaseInOrder(gw, owner)'
  <2>1. \A t \in 1..(n + 1) : t \in 1..n \/ t = n + 1
    BY <1>3
  <2>. QED BY <1>1, <1>2, <1>3, <1>4, <1>5, <2>1 DEF IInv, LeaseInOrder, n
<1>8. conn'[Backend] = conn[Backend] /\ inbox'[Backend] = inbox[Backend]
      /\ (conn'[Backend] # 0 /\ conn'[Backend] \in gw'.peers => conn[Backend] \in gw.peers)
  BY <1>1, <1>2, <1>3, <1>4, <1>6
<1>9. ConnectedBackendIsRegistered' /\ BackendHears'
  BY <1>2, <1>4, <1>8 DEF IInv, ConnectedBackendIsRegistered, BackendHears, backendVars
<1>10. GatewayIsRight(gw)'
  BY <1>2, <1>4 DEF GatewayIsRight
<1>. QED BY <1>6, <1>7, <1>9, <1>10 DEF IInv

\* The backend connects, and takes the place of its earlier session.
LEMMA BackendHelloIsRight ==
  ASSUME IInv, Hello(Backend)
  PROVE  IInv'
<1>. DEFINE n == Len(owner)
            g == Register(gw, n + 1)
            gone == IF gw.lease # 0 THEN gw.subs ELSE {}
            told == ToldGone(inbox, gone, gw.peers, n + 1)
<1>1. Backend \in Actors
  BY DEF Actors
<1>2. /\ n < MaxHellos /\ conn[Backend] = 0 /\ owner' = Append(owner, Backend)
      /\ outbox' = Append(outbox, <<>>) /\ gw' = g /\ conn' = [conn EXCEPT ![Backend] = n + 1]
      /\ inbox' = [told EXCEPT ![Backend] = <<Message("peer_ready", g.item)>>]
      /\ UNCHANGED <<backendVars, clientVars>>
  BY DEF Hello
<1>3. n \in Nat /\ gw \in Gateways(n) /\ GatewayIsRight(gw) /\ BoxesInOrder(owner, inbox)
  BY KnownEpochs DEF IInv, Typed
<1>4. /\ g \in Gateways(n + 1) /\ GatewayIsRight(g) /\ g.lease = n + 1 /\ g.item = n + 1
      /\ g.peers = gw.peers \cup {n + 1} /\ ~g.active /\ g.active \in BOOLEAN
  BY <1>3, RegisterIsRight DEF Gateways
<1>. HIDE DEF g, n
<1>5. /\ Len(owner') = n + 1 /\ owner'[n + 1] = Backend /\ BoxesInOrder(owner', inbox)
  BY <1>1, <1>2, <1>3, NewSession DEF n
<1>6. IsEpoch(owner', n + 1) /\ n + 1 \in Nat
  BY <1>3, <1>5 DEF IsEpoch
<1>7. BoxesInOrder(owner', told)
  BY <1>5, <1>6, ToldGoneIsRight
<1>. HIDE DEF told
<1>8. /\ Typed' /\ SocketsInOrder' /\ BoxesInOrder(owner, inbox)'
      /\ conn'[Backend] = n + 1 /\ inbox'[Backend] = <<Message("peer_ready", n + 1)>>
      /\ Message("peer_ready", n + 1).type = "peer_ready"
  BY <1>1, <1>2, <1>4, <1>6, <1>7, HelloStep DEF n
<1>9. LeaseInOrder(gw, owner)'
  BY <1>2, <1>3, <1>4, <1>5 DEF LeaseInOrder
<1>10. ConnectedBackendIsRegistered'
  BY <1>2, <1>4, <1>8 DEF ConnectedBackendIsRegistered
<1>11. BackendHears'
  <2>1. demand' = FALSE
    BY <1>2, <1>1 DEF IInv, Typed, SocketsInOrder, backendVars
  <2>2. gw'.active = FALSE
    BY <1>2, <1>4
  <2>3. Hears(inbox'[Backend], FALSE, FALSE)
    BY <1>8 DEF Hears
  <2>. QED BY <2>1, <2>2, <2>3 DEF BackendHears
<1>12. GatewayIsRight(gw)'
  BY <1>2, <1>4 DEF GatewayIsRight
<1>. QED BY <1>8, <1>9, <1>10, <1>11, <1>12 DEF IInv

-----------------------------------------------------------------------------
(* The backend and the clients.                                             *)

\* An actor sends a request.
LEMMA PostIsTyped ==
  ASSUME IInv, NEW s, NEW type \in {"subscribe", "unsubscribe", "heartbeat", "data"}
  PROVE  Post(s, type) \in [Sessions -> Seq(Requests)]
<1>1. outbox \in [Sessions -> Seq(Requests)] /\ [type |-> type] \in Requests
  BY DEF IInv, Typed, Requests
<1>2. s \in Sessions => Append(outbox[s], [type |-> type]) \in Seq(Requests)
  BY <1>1, AppendProperties
<1>. QED BY <1>1, <1>2 DEF Post

\* A step of an actor that makes no session.
LEMMA ActorStep ==
  ASSUME IInv, UNCHANGED <<owner, gw>>, outbox' \in [Sessions -> Seq(Requests)],
         conn' \in [Actors -> Sessions \cup {0}], \A a \in Actors : conn'[a] # 0 => conn'[a] = conn[a],
         BoxesInOrder(owner, inbox'),
         ready' \in BOOLEAN, demand' \in BOOLEAN, conn'[Backend] = 0 => ~ready' /\ ~demand',
         conn'[Backend] # 0 /\ conn'[Backend] \in gw.peers => Hears(inbox'[Backend], demand', gw.active),
         record' \in [Clients -> Records], \A c \in Clients : record'[c].epoch \in Sessions \cup {0},
         desired' \subseteq Clients, subbed' \subseteq Clients, asked' \in [Clients -> Sessions \cup {0}]
  PROVE  IInv'
<1>1. Typed'
  BY DEF IInv, Typed, BoxesInOrder, Sessions
<1>2. LeaseInOrder(gw, owner)' /\ GatewayIsRight(gw)' /\ BoxesInOrder(owner, inbox)'
  BY DEF IInv, LeaseInOrder, GatewayIsRight, BoxesInOrder, BoxInOrder, IsEpoch
<1>3. SocketsInOrder' /\ ConnectedBackendIsRegistered'
  <2>1. Backend \in Actors
    BY DEF Actors
  <2>. QED BY <2>1 DEF IInv, SocketsInOrder, ConnectedBackendIsRegistered
<1>4. BackendHears'
  BY DEF BackendHears
<1>. QED BY <1>1, <1>2, <1>3, <1>4 DEF IInv

\* The backend reads,
LEMMA BackendReadsIsRight ==
  ASSUME IInv, BackendReads
  PROVE  IInv'
<1>. DEFINE m == Head(inbox[Backend])
<1>1. /\ conn[Backend] # 0 /\ inbox[Backend] # <<>> /\ inbox' = [inbox EXCEPT ![Backend] = Tail(@)]
      /\ ready' = (ready \/ m.type = "peer_ready")
      /\ demand' = IF m.type = "stream_demand" THEN m.on ELSE demand
      /\ outbox' = Post(conn[Backend], "data") \/ outbox' = outbox
      /\ UNCHANGED <<owner, gw, conn, clientVars>>
  BY DEF BackendReads
<1>2. Backend \in Actors /\ \A c \in Clients : c \in Actors /\ c # Backend
  BY GatewayAssumption DEF Actors
<1>3. /\ inbox \in [Actors -> Seq(Messages)] /\ BoxesInOrder(owner, inbox)
      /\ inbox[Backend] \in Seq(Messages)
      /\ outbox \in [Sessions -> Seq(Requests)]
      /\ conn[Backend] # 0 /\ conn[Backend] \in gw.peers => Hears(inbox[Backend], demand, gw.active)
  BY <1>2 DEF IInv, Typed, BackendHears
<1>4. m \in Messages /\ Tail(inbox[Backend]) \in Seq(Messages)
  BY <1>1, <1>3, HeadTailProperties
<1>5. m.type = "stream_demand" => m.on \in BOOLEAN
  BY <1>4 DEF Messages, Notices, Demands
<1>6. BoxesInOrder(owner, inbox')
  BY <1>1, <1>2, <1>3, <1>4 DEF BoxesInOrder
<1>7. conn'[Backend] # 0 /\ conn'[Backend] \in gw.peers =>
        Hears(inbox'[Backend], demand', gw.active)
  BY <1>1, <1>2, <1>3, ReadIsHeard
<1>. HIDE DEF m
<1>8. outbox' \in [Sessions -> Seq(Requests)]
  BY <1>1, <1>3, PostIsTyped
<1>9. ready' \in BOOLEAN /\ demand' \in BOOLEAN
  BY <1>1, <1>5 DEF IInv, Typed
<1>. QED BY <1>1, <1>6, <1>7, <1>8, <1>9, ActorStep DEF IInv, Typed, clientVars

\* sends a heartbeat or data,
LEMMA BackendSpeaksIsRight ==
  ASSUME IInv, Heartbeat \/ PushData
  PROVE  IInv'
<1>1. /\ outbox' = Post(conn[Backend], "heartbeat") \/ outbox' = Post(conn[Backend], "data")
      /\ UNCHANGED <<owner, gw, conn, inbox, backendVars, clientVars>>
  BY DEF Heartbeat, PushData
<1>2. outbox' \in [Sessions -> Seq(Requests)]
  BY <1>1, PostIsTyped
<1>. QED BY <1>1, <1>2, ActorStep
         DEF IInv, Typed, SocketsInOrder, BackendHears, backendVars, clientVars

\* or loses its socket.
LEMMA BackendDropsIsRight ==
  ASSUME IInv, BackendDrops
  PROVE  IInv'
<1>1. /\ conn' = [conn EXCEPT ![Backend] = 0] /\ inbox' = [inbox EXCEPT ![Backend] = <<>>]
      /\ ready' = FALSE /\ demand' = FALSE /\ UNCHANGED <<owner, gw, outbox, clientVars>>
  BY DEF BackendDrops
<1>2. Backend \in Actors /\ \A c \in Clients : c \in Actors /\ c # Backend
  BY GatewayAssumption DEF Actors
<1>3. <<>> \in Seq(Messages) /\ BoxesInOrder(owner, inbox) /\ conn \in [Actors -> Sessions \cup {0}]
  BY EmptySeq DEF IInv, Typed
<1>4. BoxesInOrder(owner, inbox')
  BY <1>1, <1>2, <1>3 DEF BoxesInOrder
<1>5. /\ conn' \in [Actors -> Sessions \cup {0}] /\ conn'[Backend] = 0
      /\ \A a \in Actors : conn'[a] # 0 => conn'[a] = conn[a]
  BY <1>1, <1>2, <1>3
<1>. QED BY <1>1, <1>4, <1>5, ActorStep DEF IInv, Typed, clientVars

\* A step of a client.
LEMMA ClientStep ==
  ASSUME IInv, NEW c \in Clients, UNCHANGED <<owner, gw, backendVars>>,
         outbox' \in [Sessions -> Seq(Requests)],
         conn' = conn \/ conn' = [conn EXCEPT ![c] = 0],
         \/ inbox' = inbox
         \/ inbox' = [inbox EXCEPT ![c] = <<>>]
         \/ inbox[c] # <<>> /\ inbox' = [inbox EXCEPT ![c] = Tail(@)],
         NEW r \in Records, r.epoch \in Sessions \cup {0}, record' = [record EXCEPT ![c] = r],
         desired' \subseteq Clients, subbed' \subseteq Clients, asked' \in [Clients -> Sessions \cup {0}]
  PROVE  IInv'
<1>1. c \in Actors /\ c # Backend /\ Backend \in Actors
  BY GatewayAssumption DEF Actors
<1>2. /\ inbox \in [Actors -> Seq(Messages)] /\ BoxesInOrder(owner, inbox)
      /\ conn \in [Actors -> Sessions \cup {0}]
      /\ conn[Backend] # 0 /\ conn[Backend] \in gw.peers => Hears(inbox[Backend], demand, gw.active)
      /\ inbox[c] \in Seq(Messages) /\ BoxInOrder(owner, inbox[c])
  BY <1>1 DEF IInv, Typed, BackendHears, BoxesInOrder
<1>3. /\ <<>> \in Seq(Messages) /\ BoxInOrder(owner, <<>>)
      /\ inbox[c] # <<>> => Tail(inbox[c]) \in Seq(Messages) /\ BoxInOrder(owner, Tail(inbox[c]))
  <2>1. <<>> \in Seq(Messages) /\ BoxInOrder(owner, <<>>)
    BY EmptySeq DEF BoxInOrder
  <2>. QED BY <1>2, <2>1, TailInOrder, HeadTailProperties
<1>4. BoxesInOrder(owner, inbox') /\ inbox'[Backend] = inbox[Backend]
  <2>1. \A d \in Clients : d \in Actors /\ BoxInOrder(owner, inbox[d])
    BY <1>2 DEF BoxesInOrder, Actors
  <2>2. CASE inbox' = inbox
    BY <1>2, <2>2
  <2>3. ASSUME NEW box \in Seq(Messages), BoxInOrder(owner, box), inbox' = [inbox EXCEPT ![c] = box]
        PROVE  BoxesInOrder(owner, inbox') /\ inbox'[Backend] = inbox[Backend]
    <3>1. inbox' \in [Actors -> Seq(Messages)] /\ inbox'[Backend] = inbox[Backend]
      BY <1>1, <1>2, <2>3
    <3>2. \A d \in Clients : inbox'[d] = IF d = c THEN box ELSE inbox[d]
      BY <1>1, <1>2, <2>1, <2>3
    <3>3. \A d \in Clients : BoxInOrder(owner, inbox'[d])
      BY <2>1, <2>3, <3>2
    <3>. QED BY <3>1, <3>3 DEF BoxesInOrder
  <2>4. CASE inbox' = [inbox EXCEPT ![c] = <<>>]
    BY <1>3, <2>3, <2>4
  <2>5. CASE inbox[c] # <<>> /\ inbox' = [inbox EXCEPT ![c] = Tail(@)]
    BY <1>3, <2>3, <2>5
  <2>. QED BY <2>2, <2>4, <2>5
<1>5. /\ conn' \in [Actors -> Sessions \cup {0}] /\ conn'[Backend] = conn[Backend]
      /\ \A a \in Actors : conn'[a] # 0 => conn'[a] = conn[a]
  BY <1>1, <1>2
<1>6. record' \in [Clients -> Records] /\ \A d \in Clients : record'[d].epoch \in Sessions \cup {0}
  BY DEF IInv, Typed
<1>. QED BY <1>2, <1>4, <1>5, <1>6, ActorStep DEF IInv, Typed, SocketsInOrder, backendVars

\* What happens to a record.
LEMMA RecordsAreTyped ==
  ASSUME NEW r \in Records
  PROVE  /\ NoRecord \in Records /\ NoRecord.epoch = 0
         /\ MarkSubscribing(r) \in Records /\ MarkSubscribing(r).epoch = r.epoch
         /\ MarkUnsubscribed(r) \in Records /\ MarkUnsubscribed(r).epoch = r.epoch
         /\ MarkDataInitialized(r) \in Records /\ MarkDataInitialized(r).epoch = r.epoch
         /\ \A e \in Nat : /\ MarkSubscribed(r, e) \in Records /\ MarkSubscribed(r, e).epoch = e
                           /\ ApplyRegistrySnapshot(r, e) \in Records
                           /\ ApplyRegistrySnapshot(r, e).epoch = e
<1>1. /\ NoRecord \in Records /\ NoRecord.epoch = 0
      /\ MarkSubscribing(r) \in Records /\ MarkSubscribing(r).epoch = r.epoch
  BY DEF NoRecord, MarkSubscribing, Records
<1>2. MarkUnsubscribed(r) \in Records /\ MarkUnsubscribed(r).epoch = r.epoch
  BY DEF MarkUnsubscribed, Records
<1>3. MarkDataInitialized(r) \in Records /\ MarkDataInitialized(r).epoch = r.epoch
  BY DEF MarkDataInitialized, Records
<1>4. ASSUME NEW e \in Nat
      PROVE  MarkSubscribed(r, e) \in Records /\ MarkSubscribed(r, e).epoch = e
  BY DEF MarkSubscribed, Records
<1>5. ASSUME NEW e \in Nat
      PROVE  ApplyRegistrySnapshot(r, e) \in Records /\ ApplyRegistrySnapshot(r, e).epoch = e
  <2>1. CASE e = r.epoch
    BY <2>1 DEF ApplyRegistrySnapshot
  <2>2. CASE e # r.epoch /\ e = 0
    BY <2>2 DEF ApplyRegistrySnapshot, Records
  <2>3. CASE e # r.epoch /\ e # 0 /\ r.epoch = 0
    BY <2>3 DEF ApplyRegistrySnapshot, Records
  <2>4. CASE e # r.epoch /\ e # 0 /\ r.epoch # 0
    BY <2>4 DEF ApplyRegistrySnapshot, Records
  <2>. QED BY <2>1, <2>2, <2>3, <2>4
<1>. QED BY <1>1, <1>2, <1>3, <1>4, <1>5

\* openBackend: the transport asks at most on the client's session.
LEMMA OpenedIsTyped ==
  ASSUME IInv, NEW c \in Clients, NEW r \in Records, r.epoch \in Sessions \cup {0}, Opened(c, r)
  PROVE  /\ outbox' \in [Sessions -> Seq(Requests)] /\ asked' \in [Clients -> Sessions \cup {0}]
         /\ \E q \in Records : q.epoch = r.epoch /\ record' = [record EXCEPT ![c] = q]
<1>1. /\ outbox' = outbox \/ outbox' = Post(conn[c], "subscribe")
      /\ asked' = asked \/ asked' = [asked EXCEPT ![c] = conn[c]]
      /\ record' = [record EXCEPT ![c] = IF r.epoch # 0 THEN MarkSubscribing(r) ELSE r]
  BY Zenon DEF Opened
<1>2. /\ conn[c] \in Sessions \cup {0} /\ outbox \in [Sessions -> Seq(Requests)]
      /\ asked \in [Clients -> Sessions \cup {0}]
  BY DEF IInv, Typed, Actors
<1>3. outbox' \in [Sessions -> Seq(Requests)] /\ asked' \in [Clients -> Sessions \cup {0}]
  BY <1>1, <1>2, PostIsTyped
<1>4. MarkSubscribing(r) \in Records /\ MarkSubscribing(r).epoch = r.epoch
  BY RecordsAreTyped
<1>. QED BY <1>1, <1>3, <1>4

\* What a client knows, and what it reads.
LEMMA ClientsKnow ==
  ASSUME IInv, NEW c \in Clients
  PROVE  /\ record \in [Clients -> Records] /\ record[c] \in Records /\ record[c].epoch \in Sessions \cup {0}
         /\ record = [record EXCEPT ![c] = record[c]]
         /\ outbox \in [Sessions -> Seq(Requests)] /\ asked \in [Clients -> Sessions \cup {0}]
         /\ desired \subseteq Clients /\ subbed \subseteq Clients
         /\ inbox[c] # <<>> =>
              Head(inbox[c]).epoch \in Sessions \cup {0} /\ Head(inbox[c]).epoch \in Nat
<1>1. c \in Actors
  BY DEF Actors
<1>2. Len(owner) \in Nat
  BY KnownEpochs
<1>3. inbox[c] # <<>> => Head(inbox[c]).epoch \in Sessions \cup {0} /\ Head(inbox[c]).epoch \in Nat
  <2>1. inbox[c] \in Seq(Messages) /\ BoxInOrder(owner, inbox[c])
    BY <1>1 DEF IInv, BoxesInOrder
  <2>2. inbox[c] # <<>> => IsEpoch(owner, Head(inbox[c]).epoch)
    BY <2>1, HeadIsNotice
  <2>. QED BY <1>2, <2>2 DEF IsEpoch, Sessions
<1>4. record \in [Clients -> Records] /\ record[c].epoch \in Sessions \cup {0}
  BY DEF IInv, Typed
<1>. QED BY <1>3, <1>4 DEF IInv, Typed

\* A user opens the backend,
LEMMA OpenIsRight ==
  ASSUME IInv, NEW c \in Clients, Open(c)
  PROVE  IInv'
<1>1. /\ desired' = desired \cup {c} /\ Opened(c, record[c])
      /\ UNCHANGED <<owner, gw, conn, inbox, backendVars, subbed>>
  BY DEF Open
<1>2. PICK q \in Records : q.epoch = record[c].epoch /\ record' = [record EXCEPT ![c] = q]
  BY <1>1, ClientsKnow, OpenedIsTyped
<1>3. outbox' \in [Sessions -> Seq(Requests)] /\ asked' \in [Clients -> Sessions \cup {0}]
  BY <1>1, ClientsKnow, OpenedIsTyped
<1>4. desired' \subseteq Clients /\ subbed' \subseteq Clients /\ q.epoch \in Sessions \cup {0}
  BY <1>1, <1>2, ClientsKnow
<1>. QED BY <1>1, <1>2, <1>3, <1>4, ClientStep

\* or closes it.
LEMMA CloseIsRight ==
  ASSUME IInv, NEW c \in Clients, Close(c)
  PROVE  IInv'
<1>. DEFINE r == IF record[c].subscribed THEN MarkUnsubscribed(record[c]) ELSE record[c]
<1>1. /\ desired' = desired \ {c} /\ record' = [record EXCEPT ![c] = r]
      /\ outbox' = outbox \/ outbox' = Post(conn[c], "unsubscribe")
      /\ UNCHANGED <<owner, gw, conn, inbox, backendVars, subbed, asked>>
  BY ClientsKnow DEF Close
<1>2. r \in Records /\ r.epoch \in Sessions \cup {0}
  BY ClientsKnow, RecordsAreTyped
<1>. HIDE DEF r
<1>3. outbox' \in [Sessions -> Seq(Requests)]
  BY <1>1, ClientsKnow, PostIsTyped
<1>4. /\ desired' \subseteq Clients /\ subbed' \subseteq Clients
      /\ asked' \in [Clients -> Sessions \cup {0}]
  BY <1>1, ClientsKnow
<1>. QED BY <1>1, <1>2, <1>3, <1>4, ClientStep

\* A client reads the registry,
LEMMA ApplyRegistryIsRight ==
  ASSUME IInv, NEW c \in Clients, ApplyRegistry(c)
  PROVE  IInv'
<1>. DEFINE item == Head(inbox[c]).epoch
            r == ApplyRegistrySnapshot(record[c], item)
<1>1. /\ inbox[c] # <<>> /\ inbox' = [inbox EXCEPT ![c] = Tail(@)]
      /\ UNCHANGED <<owner, gw, conn, backendVars, desired>>
      /\ subbed' = subbed \/ subbed' = subbed \ {c}
      /\ \/ Opened(c, r)
         \/ record' = [record EXCEPT ![c] = r] /\ UNCHANGED <<outbox, asked>>
  BY Zenon DEF ApplyRegistry, ClientReads
<1>2. item \in Sessions \cup {0} /\ item \in Nat
  BY <1>1, ClientsKnow
<1>. HIDE DEF item
<1>3. r \in Records /\ r.epoch = item
  <2>1. record[c] \in Records
    BY ClientsKnow
  <2>. QED BY <1>2, <2>1, RecordsAreTyped
<1>. HIDE DEF r
<1>4. /\ outbox' \in [Sessions -> Seq(Requests)] /\ asked' \in [Clients -> Sessions \cup {0}]
      /\ \E q \in Records : q.epoch = item /\ record' = [record EXCEPT ![c] = q]
  <2>1. CASE Opened(c, r)
    BY <1>2, <1>3, <2>1, OpenedIsTyped
  <2>2. CASE record' = [record EXCEPT ![c] = r] /\ UNCHANGED <<outbox, asked>>
    BY <1>3, <2>2, ClientsKnow
  <2>. QED BY <1>1, <2>1, <2>2
<1>5. PICK q \in Records : q.epoch = item /\ record' = [record EXCEPT ![c] = q]
  BY <1>4
<1>6. desired' \subseteq Clients /\ subbed' \subseteq Clients /\ q.epoch \in Sessions \cup {0}
  BY <1>1, <1>2, <1>5, ClientsKnow
<1>. QED BY <1>1, <1>4, <1>5, <1>6, ClientStep

\* an answer or data.
LEMMA AnswersAreRight ==
  ASSUME IInv, NEW c \in Clients, Subscribed(c) \/ Unsubscribed(c) \/ Data(c)
  PROVE  IInv'
<1>. DEFINE item == Head(inbox[c]).epoch
            r == record[c]
<1>1. /\ inbox[c] # <<>> /\ inbox' = [inbox EXCEPT ![c] = Tail(@)]
      /\ UNCHANGED <<owner, gw, conn, backendVars, desired, outbox, asked>>
      /\ subbed' = subbed \/ subbed' = subbed \ {c} \/ subbed' = subbed \cup {c}
      /\ \/ record' = [record EXCEPT ![c] = MarkSubscribed(r, item)]
         \/ record' = [record EXCEPT ![c] = MarkUnsubscribed(r)]
         \/ record' = [record EXCEPT ![c] = MarkDataInitialized(r)]
  BY DEF Subscribed, Unsubscribed, Data, ClientReads
<1>2. item \in Sessions \cup {0} /\ item \in Nat /\ r \in Records /\ r.epoch \in Sessions \cup {0}
  BY <1>1, ClientsKnow
<1>. HIDE DEF item, r
<1>3. PICK q \in Records : q.epoch \in Sessions \cup {0} /\ record' = [record EXCEPT ![c] = q]
  BY <1>1, <1>2, RecordsAreTyped
<1>4. /\ desired' \subseteq Clients /\ subbed' \subseteq Clients
      /\ outbox' \in [Sessions -> Seq(Requests)] /\ asked' \in [Clients -> Sessions \cup {0}]
  BY <1>1, ClientsKnow
<1>. QED BY <1>1, <1>3, <1>4, ClientStep

\* A client loses its socket.
LEMMA DisconnectedIsRight ==
  ASSUME IInv, NEW c \in Clients, Offline(c) \/ ClientDrops(c)
  PROVE  IInv'
<1>. DEFINE r == IF c \in subbed THEN MarkUnsubscribed(record[c]) ELSE record[c]
<1>1. /\ conn' = [conn EXCEPT ![c] = 0] /\ inbox' = [inbox EXCEPT ![c] = <<>>]
      /\ record' = [record EXCEPT ![c] = r] /\ subbed' = subbed \ {c}
      /\ UNCHANGED <<owner, gw, outbox, backendVars, desired, asked>>
  BY ClientsKnow DEF Offline, ClientDrops, Disconnected
<1>2. r \in Records /\ r.epoch \in Sessions \cup {0}
  BY ClientsKnow, RecordsAreTyped
<1>. HIDE DEF r
<1>3. /\ desired' \subseteq Clients /\ subbed' \subseteq Clients
      /\ outbox' \in [Sessions -> Seq(Requests)] /\ asked' \in [Clients -> Sessions \cup {0}]
  BY <1>1, ClientsKnow
<1>. QED BY <1>1, <1>2, <1>3, ClientStep

\* A client forgets a backend.
LEMMA CollectGarbageIsRight ==
  ASSUME IInv, NEW c \in Clients, CollectGarbage(c)
  PROVE  IInv'
<1>1. /\ record' = [record EXCEPT ![c] = NoRecord]
      /\ UNCHANGED <<owner, gw, outbox, conn, inbox, backendVars, desired, subbed, asked>>
  BY DEF CollectGarbage
<1>2. NoRecord \in Records /\ NoRecord.epoch \in Sessions \cup {0}
  BY ClientsKnow, RecordsAreTyped
<1>3. /\ desired' \subseteq Clients /\ subbed' \subseteq Clients
      /\ outbox' \in [Sessions -> Seq(Requests)] /\ asked' \in [Clients -> Sessions \cup {0}]
  BY <1>1, ClientsKnow
<1>. QED BY <1>1, <1>2, <1>3, ClientStep

-----------------------------------------------------------------------------
(* The first part of the invariant.                                         *)

\* The first part holds at the start,
LEMMA InitIsRight == Init => IInv
<1>. SUFFICES ASSUME Init PROVE IInv
  OBVIOUS
<1>1. /\ owner \in Seq(Actors) /\ Len(owner) = 0 /\ Sessions = {} /\ MaxHellos \in Nat
  BY EmptySeq, GatewayAssumption DEF Init, Sessions
<1>2. gw \in Gateways(Len(owner)) /\ GatewayIsRight(gw) /\ gw.lease = 0 /\ gw.peers = {}
  BY <1>1, EmptyStateIsRight DEF Init, EmptyState
<1>3. outbox \in [Sessions -> Seq(Requests)]
  BY <1>1 DEF Init
<1>4. /\ inbox \in [Actors -> Seq(Messages)] /\ conn \in [Actors -> Sessions \cup {0}]
      /\ asked \in [Clients -> Sessions \cup {0}]
  BY EmptySeq DEF Init
<1>5. record \in [Clients -> Records] /\ \A c \in Clients : record[c].epoch \in Sessions \cup {0}
  BY DEF Init, NoRecord, Records
<1>6. Typed
  <2>1. Len(owner) <= MaxHellos
    BY <1>1
  <2>2. /\ ready \in BOOLEAN /\ demand \in BOOLEAN /\ desired \subseteq Clients
        /\ subbed \subseteq Clients
    BY DEF Init
  <2>. QED BY <1>1, <1>2, <1>3, <1>4, <1>5, <2>1, <2>2 DEF Typed
<1>7. \A a \in Actors : inbox[a] = <<>> /\ conn[a] = 0
  BY DEF Init
<1>8. BoxesInOrder(owner, inbox)
  BY <1>4, <1>7 DEF BoxesInOrder, BoxInOrder, Actors
<1>9. SocketsInOrder /\ ConnectedBackendIsRegistered /\ BackendHears
  BY <1>7 DEF SocketsInOrder, ConnectedBackendIsRegistered, BackendHears, Actors, Init
<1>10. LeaseInOrder(gw, owner)
  BY <1>2 DEF LeaseInOrder
<1>. QED BY <1>2, <1>6, <1>8, <1>9, <1>10 DEF IInv

\* and after every step.
LEMMA StepsAreRight == IInv /\ [Next]_vars => IInv'
<1>. SUFFICES ASSUME IInv, [Next]_vars PROVE IInv'
  OBVIOUS
<1>1. CASE \E a \in Actors : Hello(a)
  BY <1>1, ClientHelloIsRight, BackendHelloIsRight DEF Actors
<1>2. CASE \E s \in Sessions :
             \/ HandleSubscribe(s) \/ HandleUnsubscribe(s) \/ HandleHeartbeat(s) \/ HandleData(s)
             \/ PeerGone(s)
  BY <1>2, HandleSubscribeIsRight, HandleUnsubscribeIsRight, HandleHeartbeatIsRight,
     HandleDataIsRight, PeerGoneIsRight
<1>3. CASE LeaseExpires \/ PollRegistry \/ GatewayRestarts
  BY <1>3, LeaseExpiresIsRight, PollRegistryIsRight, GatewayRestartsIsRight
<1>4. CASE BackendReads \/ Heartbeat \/ PushData \/ BackendDrops
  BY <1>4, BackendReadsIsRight, BackendSpeaksIsRight, BackendDropsIsRight
<1>5. CASE \E c \in Clients :
             \/ Open(c) \/ Close(c) \/ ApplyRegistry(c) \/ Subscribed(c) \/ Unsubscribed(c) \/ Data(c)
             \/ Offline(c) \/ ClientDrops(c) \/ CollectGarbage(c)
  BY <1>5, OpenIsRight, CloseIsRight, ApplyRegistryIsRight, AnswersAreRight, DisconnectedIsRight,
     CollectGarbageIsRight
<1>6. CASE UNCHANGED vars
  <2>1. UNCHANGED <<owner, gw, conn, outbox, inbox, backendVars, clientVars>>
    BY <1>6 DEF vars
  <2>. QED BY <2>1, ActorStep
           DEF IInv, Typed, SocketsInOrder, BackendHears, backendVars, clientVars
<1>. QED BY <1>1, <1>2, <1>3, <1>4, <1>5, <1>6, Zenon DEF Next

-----------------------------------------------------------------------------
(* What the clients know: the second part of the invariant, which rests on  *)
(* the first.                                                               *)

\* Messages that tell an epoch.
Tells(m) == m.type \in {"peer_ready", "registry", "subscribed"}

\* After the messages of box a client whose record has the epoch e has the epoch told.
HearsEpoch(box, e, told) ==
  \/ e = told /\ \A i \in 1..Len(box) : ~Tells(box[i])
  \/ \E i \in 1..Len(box) :
       /\ Tells(box[i]) /\ box[i].epoch = told
       /\ \A j \in (i + 1)..Len(box) : ~Tells(box[j])

\* From the i-th message on a client is subscribed to the epoch e; before the first
\* it is if its record r says so.
SubscribedFrom(box, r, e, i) ==
  /\ IF i = 0 THEN r.subscribed /\ r.epoch = e ELSE box[i].type = "subscribed" /\ box[i].epoch = e
  /\ \A j \in (i + 1)..Len(box) :
       box[j].type # "unsubscribed" /\ (Tells(box[j]) => box[j].epoch = e)

\* From the i-th message on neither the record nor the transport has a subscription.
UnsubscribedFrom(box, r, listed, i) ==
  /\ IF i = 0 THEN ~r.subscribed /\ ~listed ELSE box[i].type = "unsubscribed"
  /\ \A j \in (i + 1)..Len(box) : box[j].type # "subscribed"

\* After the messages of box a client agrees with the gateway on the epoch and, unless
\* it has taken back its subscription and the gateway has not heard, on that.
Follows(box, r, listed, epoch, on, agreed) ==
  /\ HearsEpoch(box, r.epoch, epoch)
  /\ agreed /\ on => \E i \in 0..Len(box) : SubscribedFrom(box, r, epoch, i)
  /\ agreed /\ ~on => \E i \in 0..Len(box) : UnsubscribedFrom(box, r, listed, i)

\* The data come after the subscription.
HasData(box, r, e) ==
  \E i \in 0..Len(box) :
    /\ SubscribedFrom(box, r, e, i)
    /\ (i = 0 /\ r.data) \/ \E k \in (i + 1)..Len(box) : box[k].type = "data"

\* The gateway has heard of every subscription taken back.
Agreed(c) == "unsubscribe" \notin Types(outbox[conn[c]])

\* Once a client has read its messages it agrees with the gateway.
ClientFollows(c) ==
  Connected(c) => Follows(inbox[c], record[c], c \in subbed, gw.item, conn[c] \in gw.subs, Agreed(c))

\* A subscription comes from the present connection.
ClientInOrder(c) ==
  /\ record[c].subscribed => c \in subbed
  /\ conn[c] = 0 => c \notin subbed

\* SubscribingIsAnswered of one client.
ClientIsAnswered(c) ==
  /\ record[c].open = "subscribing" /\ ~record[c].subscribed
  /\ Connected(c) /\ asked[c] = conn[c]
  => \/ "subscribe" \in Types(outbox[conn[c]]) \cup Types(inbox[c])
     \/ Types(inbox[c]) \cap {"subscribed", "unsubscribed", "offline"} # {}
     \/ "unsubscribe" \in Types(outbox[conn[c]])

\* What the backend is about to send to its subscribers.
DataUnderWay ==
  "data" \in Types(outbox[gw.lease]) \/ Types(inbox[Backend]) \cap {"peer_ready", "request_data"} # {}

\* A subscriber has the data, or they are under way.
ClientGetsData(c) ==
  Connected(c) /\ conn[c] \in gw.subs /\ Agreed(c) /\ conn[Backend] = gw.lease
  => HasData(inbox[c], record[c], gw.item) \/ DataUnderWay

\* The inductive invariant of the second part.
ClientsInv ==
  \A c \in Clients : ClientInOrder(c) /\ ClientFollows(c) /\ ClientIsAnswered(c) /\ ClientGetsData(c)

-----------------------------------------------------------------------------
(* Messages that a client will read.                                       *)

\* The types of the messages in a longer box,
LEMMA TypesOfAppend ==
  ASSUME NEW S, NEW box \in Seq(S), NEW m \in S
  PROVE  Types(Append(box, m)) = Types(box) \cup {m.type}
<1>. DEFINE b == Append(box, m)
<1>1. /\ Len(box) \in Nat /\ Len(b) = Len(box) + 1 /\ b[Len(box) + 1] = m
      /\ \A i \in 1..Len(box) : b[i] = box[i]
  BY AppendProperties, LenProperties
<1>. HIDE DEF b
<1>2. 1..Len(b) = 1..Len(box) \cup {Len(box) + 1}
  BY <1>1
<1>. QED BY <1>1, <1>2 DEF Types, b

\* and in a shorter one.
LEMMA TypesOfTail ==
  ASSUME NEW S, NEW box \in Seq(S), box # <<>>
  PROVE  Types(box) = Types(Tail(box)) \cup {Head(box).type}
<1>. DEFINE b == Tail(box)
<1>1. /\ Len(box) \in Nat /\ Len(box) > 0 /\ Len(b) = Len(box) - 1 /\ Head(box) = box[1]
      /\ \A i \in 1..Len(b) : b[i] = box[i + 1]
  BY HeadTailProperties, EmptySeq, LenProperties
<1>. HIDE DEF b
<1>2. ASSUME NEW t \in Types(box) PROVE t \in Types(b) \cup {Head(box).type}
  <2>1. PICK i \in 1..Len(box) : t = box[i].type
    BY DEF Types
  <2>2. CASE i = 1
    BY <1>1, <2>1, <2>2
  <2>3. CASE i # 1
    <3>1. i - 1 \in 1..Len(b) /\ b[i - 1] = box[i]
      BY <1>1, <2>3
    <3>. QED BY <2>1, <3>1 DEF Types
  <2>. QED BY <2>2, <2>3
<1>3. ASSUME NEW t \in Types(b) PROVE t \in Types(box)
  <2>1. PICK i \in 1..Len(b) : t = b[i].type
    BY DEF Types
  <2>2. i + 1 \in 1..Len(box) /\ b[i] = box[i + 1]
    BY <1>1
  <2>. QED BY <2>1, <2>2 DEF Types
<1>4. Head(box).type \in Types(box)
  BY <1>1 DEF Types
<1>. QED BY <1>2, <1>3, <1>4 DEF b

\* A message is added: what was ahead of it stays.
LEMMA Appended ==
  ASSUME NEW box \in Seq(Messages), NEW m \in Messages
  PROVE  LET b == Append(box, m) IN
         /\ b \in Seq(Messages) /\ Len(box) \in Nat /\ Len(b) = Len(box) + 1 /\ b[Len(box) + 1] = m
         /\ \A i \in 1..Len(box) : b[i] = box[i]
         /\ \A i \in Nat : \A j \in (i + 1)..Len(b) :
              j = Len(box) + 1 \/ (j \in (i + 1)..Len(box) /\ j \in 1..Len(box))
         /\ Types(b) = Types(box) \cup {m.type}
<1>. DEFINE b == Append(box, m)
<1>1. /\ b \in Seq(Messages) /\ Len(box) \in Nat /\ Len(b) = Len(box) + 1 /\ b[Len(box) + 1] = m
      /\ \A i \in 1..Len(box) : b[i] = box[i]
  BY AppendProperties, LenProperties
<1>. HIDE DEF b
<1>2. \A i \in Nat : \A j \in (i + 1)..Len(b) :
        j = Len(box) + 1 \/ (j \in (i + 1)..Len(box) /\ j \in 1..Len(box))
  BY <1>1
<1>3. Types(b) = Types(box) \cup {m.type}
  BY TypesOfAppend DEF b
<1>. QED BY <1>1, <1>2, <1>3 DEF b

\* A message that changes neither the epoch nor the subscription.
LEMMA SameIsFollowed ==
  ASSUME NEW box \in Seq(Messages), NEW r, NEW listed, NEW epoch, NEW on, NEW agreed,
         NEW m \in Messages, m.type \notin {"subscribed", "unsubscribed"},
         Tells(m) => m.epoch = epoch,
         Follows(box, r, listed, epoch, on, agreed)
  PROVE  Follows(Append(box, m), r, listed, epoch, on, agreed)
<1>. DEFINE b == Append(box, m)
<1>1. /\ Len(box) \in Nat /\ Len(b) = Len(box) + 1 /\ b[Len(box) + 1] = m
      /\ \A i \in 1..Len(box) : b[i] = box[i]
      /\ \A i \in Nat : \A j \in (i + 1)..Len(b) :
           j = Len(box) + 1 \/ (j \in (i + 1)..Len(box) /\ j \in 1..Len(box))
  BY Appended
<1>. HIDE DEF b
<1>2. HearsEpoch(b, r.epoch, epoch)
  <2>1. CASE Tells(m)
    BY <1>1, <2>1 DEF HearsEpoch
  <2>2. CASE ~Tells(m)
    <3>1. CASE r.epoch = epoch /\ \A i \in 1..Len(box) : ~Tells(box[i])
      BY <1>1, <2>2, <3>1 DEF HearsEpoch
    <3>2. ASSUME NEW i \in 1..Len(box), Tells(box[i]), box[i].epoch = epoch,
                 \A j \in (i + 1)..Len(box) : ~Tells(box[j])
          PROVE  HearsEpoch(b, r.epoch, epoch)
      <4>1. \A j \in (i + 1)..Len(b) : ~Tells(b[j])
        BY <1>1, <2>2, <3>2
      <4>. QED BY <1>1, <3>2, <4>1 DEF HearsEpoch
    <3>. QED BY <3>1, <3>2 DEF Follows, HearsEpoch
  <2>. QED BY <2>1, <2>2
<1>3. ASSUME NEW i \in 0..Len(box), SubscribedFrom(box, r, epoch, i)
      PROVE  i \in 0..Len(b) /\ SubscribedFrom(b, r, epoch, i)
  BY <1>1, <1>3 DEF SubscribedFrom
<1>4. ASSUME NEW i \in 0..Len(box), UnsubscribedFrom(box, r, listed, i)
      PROVE  i \in 0..Len(b) /\ UnsubscribedFrom(b, r, listed, i)
  BY <1>1, <1>4 DEF UnsubscribedFrom
<1>5. agreed /\ on => \E i \in 0..Len(b) : SubscribedFrom(b, r, epoch, i)
  BY <1>3 DEF Follows
<1>6. agreed /\ ~on => \E i \in 0..Len(b) : UnsubscribedFrom(b, r, listed, i)
  BY <1>4 DEF Follows
<1>. QED BY <1>2, <1>5, <1>6 DEF Follows, b

\* The answer to a request.
LEMMA SubscribedIsFollowed ==
  ASSUME NEW box \in Seq(Messages), NEW r, NEW listed, NEW epoch, NEW agreed,
         NEW m \in Messages, m.type = "subscribed", m.epoch = epoch
  PROVE  Follows(Append(box, m), r, listed, epoch, TRUE, agreed)
<1>. DEFINE b == Append(box, m)
<1>1. /\ Len(box) \in Nat /\ Len(b) = Len(box) + 1 /\ b[Len(box) + 1] = m
  BY Appended
<1>. HIDE DEF b
<1>2. /\ Len(b) \in 0..Len(b) /\ Len(b) \in 1..Len(b) /\ Len(b) # 0
      /\ \A j : j \notin (Len(b) + 1)..Len(b)
  BY <1>1
<1>. QED BY <1>1, <1>2 DEF Follows, HearsEpoch, SubscribedFrom, Tells, b

\* The end of a subscription is told.
LEMMA UnsubscribedIsFollowed ==
  ASSUME NEW box \in Seq(Messages), NEW r, NEW listed, NEW epoch, NEW agreed,
         NEW m \in Messages, m.type = "unsubscribed", HearsEpoch(box, r.epoch, epoch)
  PROVE  Follows(Append(box, m), r, listed, epoch, FALSE, agreed)
<1>. DEFINE b == Append(box, m)
<1>1. /\ Len(box) \in Nat /\ Len(b) = Len(box) + 1 /\ b[Len(box) + 1] = m
      /\ \A i \in 1..Len(box) : b[i] = box[i]
      /\ \A i \in Nat : \A j \in (i + 1)..Len(b) :
           j = Len(box) + 1 \/ (j \in (i + 1)..Len(box) /\ j \in 1..Len(box))
  BY Appended
<1>. HIDE DEF b
<1>2. Len(b) \in 0..Len(b) /\ Len(b) # 0 /\ \A j : j \notin (Len(b) + 1)..Len(b)
  BY <1>1
<1>3. ~Tells(m)
  BY DEF Tells
<1>4. HearsEpoch(b, r.epoch, epoch)
  <2>1. CASE r.epoch = epoch /\ \A i \in 1..Len(box) : ~Tells(box[i])
    BY <1>1, <1>3, <2>1 DEF HearsEpoch
  <2>2. ASSUME NEW i \in 1..Len(box), Tells(box[i]), box[i].epoch = epoch,
               \A j \in (i + 1)..Len(box) : ~Tells(box[j])
        PROVE  HearsEpoch(b, r.epoch, epoch)
    <3>1. \A j \in (i + 1)..Len(b) : ~Tells(b[j])
      BY <1>1, <1>3, <2>2
    <3>. QED BY <1>1, <2>2, <3>1 DEF HearsEpoch
  <2>. QED BY <2>1, <2>2 DEF HearsEpoch
<1>5. UnsubscribedFrom(b, r, listed, Len(b))
  BY <1>1, <1>2 DEF UnsubscribedFrom
<1>. QED BY <1>2, <1>4, <1>5 DEF Follows, b

\* The registry changes while nobody is subscribed.
LEMMA RegistryIsFollowed ==
  ASSUME NEW box \in Seq(Messages), NEW r, NEW listed, NEW old, NEW epoch, NEW agreed,
         NEW m \in Messages, m.type = "registry", m.epoch = epoch,
         Follows(box, r, listed, old, FALSE, agreed)
  PROVE  Follows(Append(box, m), r, listed, epoch, FALSE, agreed)
<1>. DEFINE b == Append(box, m)
<1>1. /\ Len(box) \in Nat /\ Len(b) = Len(box) + 1 /\ b[Len(box) + 1] = m
      /\ \A i \in 1..Len(box) : b[i] = box[i]
      /\ \A i \in Nat : \A j \in (i + 1)..Len(b) :
           j = Len(box) + 1 \/ (j \in (i + 1)..Len(box) /\ j \in 1..Len(box))
  BY Appended
<1>. HIDE DEF b
<1>2. HearsEpoch(b, r.epoch, epoch)
  BY <1>1 DEF HearsEpoch, Tells
<1>3. ASSUME NEW i \in 0..Len(box), UnsubscribedFrom(box, r, listed, i)
      PROVE  i \in 0..Len(b) /\ UnsubscribedFrom(b, r, listed, i)
  BY <1>1, <1>3 DEF UnsubscribedFrom
<1>. QED BY <1>2, <1>3 DEF Follows, b

\* Data that have come stay, and data that come now follow the subscription.
LEMMA DataStay ==
  ASSUME NEW box \in Seq(Messages), NEW r, NEW epoch, NEW m \in Messages,
         m.type # "unsubscribed", Tells(m) => m.epoch = epoch
  PROVE  /\ HasData(box, r, epoch) => HasData(Append(box, m), r, epoch)
         /\ m.type = "data" /\ (\E i \in 0..Len(box) : SubscribedFrom(box, r, epoch, i))
              => HasData(Append(box, m), r, epoch)
<1>. DEFINE b == Append(box, m)
<1>1. /\ Len(box) \in Nat /\ Len(b) = Len(box) + 1 /\ b[Len(box) + 1] = m
      /\ \A i \in 1..Len(box) : b[i] = box[i]
      /\ \A i \in Nat : \A j \in (i + 1)..Len(b) :
           j = Len(box) + 1 \/ (j \in (i + 1)..Len(box) /\ j \in 1..Len(box))
  BY Appended
<1>. HIDE DEF b
<1>2. ASSUME NEW i \in 0..Len(box), SubscribedFrom(box, r, epoch, i)
      PROVE  i \in 0..Len(b) /\ SubscribedFrom(b, r, epoch, i)
  BY <1>1, <1>2 DEF SubscribedFrom
<1>3. ASSUME HasData(box, r, epoch)
      PROVE  HasData(b, r, epoch)
  <2>1. PICK i \in 0..Len(box) : /\ SubscribedFrom(box, r, epoch, i)
                                 /\ (i = 0 /\ r.data) \/ \E k \in (i + 1)..Len(box) : box[k].type = "data"
    BY <1>3 DEF HasData
  <2>2. \A k \in (i + 1)..Len(box) : k \in (i + 1)..Len(b) /\ b[k] = box[k]
    BY <1>1
  <2>. QED BY <1>2, <2>1, <2>2 DEF HasData
<1>4. ASSUME m.type = "data", NEW i \in 0..Len(box), SubscribedFrom(box, r, epoch, i)
      PROVE  HasData(b, r, epoch)
  <2>1. Len(b) \in (i + 1)..Len(b)
    BY <1>1
  <2>. QED BY <1>1, <1>2, <1>4, <2>1 DEF HasData
<1>. QED BY <1>3, <1>4 DEF b

\* What a message does to the record r, and to the list of the transport.
Reads(m, r, listed, q, lists) ==
  \/ /\ m.type \in {"registry", "peer_ready"}
     /\ q.epoch = m.epoch /\ (q.subscribed => r.subscribed) /\ (lists => listed)
     /\ m.epoch = r.epoch => q.subscribed = r.subscribed /\ q.data = r.data
  \/ /\ m.type = "subscribed"
     /\ q.epoch = m.epoch /\ q.subscribed /\ q.data = r.data /\ lists
  \/ /\ m.type = "unsubscribed"
     /\ q.epoch = r.epoch /\ ~q.subscribed /\ ~lists
  \/ /\ m.type = "data"
     /\ q.epoch = r.epoch /\ q.subscribed = r.subscribed /\ q.data /\ lists = listed

\* A message is read: what comes after it moves up.
LEMMA Read ==
  ASSUME NEW box \in Seq(Messages), box # <<>>
  PROVE  LET b == Tail(box) IN
         /\ b \in Seq(Messages) /\ Len(box) \in Nat /\ Len(box) > 0 /\ Len(b) = Len(box) - 1
         /\ Head(box) = box[1] /\ \A i \in 1..Len(b) : b[i] = box[i + 1]
         /\ \A i \in 1..Len(box) : i - 1 \in 0..Len(b) /\ (i # 1 => b[i - 1] = box[i])
         /\ \A i \in Nat : \A j \in (i + 1)..Len(b) :
              j \in 1..Len(b) /\ j + 1 \in ((i + 1) + 1)..Len(box) /\ j + 1 \in 1..Len(box)
         /\ Types(box) = Types(b) \cup {Head(box).type}
<1>. DEFINE b == Tail(box)
<1>1. /\ b \in Seq(Messages) /\ Len(box) \in Nat /\ Len(box) > 0 /\ Len(b) = Len(box) - 1
      /\ Head(box) = box[1] /\ \A i \in 1..Len(b) : b[i] = box[i + 1]
  BY HeadTailProperties, EmptySeq, LenProperties
<1>. HIDE DEF b
<1>2. \A i \in 1..Len(box) : /\ i - 1 \in 0..Len(b)
                             /\ (i # 1 => i - 1 \in 1..Len(b) /\ (i - 1) + 1 = i)
  BY <1>1
<1>3. \A i \in Nat : \A j \in (i + 1)..Len(b) :
        j \in 1..Len(b) /\ j + 1 \in ((i + 1) + 1)..Len(box) /\ j + 1 \in 1..Len(box)
  BY <1>1
<1>4. Types(box) = Types(b) \cup {Head(box).type}
  BY TypesOfTail DEF b
<1>. QED BY <1>1, <1>2, <1>3, <1>4 DEF b

\* Reading changes nothing of what will be known of the epoch and of the subscription
\* to it, and of data that follow it.
KeepsUp(box, r, listed, q, lists, epoch) ==
  /\ HearsEpoch(box, r.epoch, epoch) => HearsEpoch(Tail(box), q.epoch, epoch)
  /\ \A i \in 0..Len(box) : SubscribedFrom(box, r, epoch, i) =>
       \E k \in 0..Len(Tail(box)) :
         /\ SubscribedFrom(Tail(box), q, epoch, k)
         /\ (i = 0 /\ r.data) \/ (\E j \in (i + 1)..Len(box) : box[j].type = "data") =>
              (k = 0 /\ q.data) \/ \E j \in (k + 1)..Len(Tail(box)) : Tail(box)[j].type = "data"
  /\ \A i \in 0..Len(box) : UnsubscribedFrom(box, r, listed, i) =>
       \E k \in 0..Len(Tail(box)) : UnsubscribedFrom(Tail(box), q, lists, k)

\* A client that reads a message keeps up.
LEMMA ReadIsFollowed ==
  ASSUME NEW box \in Seq(Messages), box # <<>>, NEW r, NEW listed \in BOOLEAN, NEW q,
         NEW lists \in BOOLEAN,
         Reads(Head(box), r, listed, q, lists), NEW epoch
  PROVE  KeepsUp(box, r, listed, q, lists, epoch)
<1>. DEFINE b == Tail(box)
            m == Head(box)
<1>1. /\ Len(box) \in Nat /\ Len(box) > 0 /\ Len(b) = Len(box) - 1 /\ m = box[1] /\ Len(b) \in Nat
      /\ \A i \in 1..Len(b) : b[i] = box[i + 1]
      /\ \A i \in 1..Len(box) : i - 1 \in 0..Len(b) /\ (i # 1 => b[i - 1] = box[i])
      /\ \A i \in Nat : \A j \in (i + 1)..Len(b) :
           j \in 1..Len(b) /\ j + 1 \in ((i + 1) + 1)..Len(box) /\ j + 1 \in 1..Len(box)
  BY Read
<1>2. Reads(m, r, listed, q, lists)
  OBVIOUS
<1>. HIDE DEF b, m
<1>3. ASSUME HearsEpoch(box, r.epoch, epoch) PROVE HearsEpoch(b, q.epoch, epoch)
  <2>1. CASE r.epoch = epoch /\ \A i \in 1..Len(box) : ~Tells(box[i])
    <3>1. ~Tells(m) /\ \A i \in 1..Len(b) : ~Tells(b[i])
      BY <1>1, <2>1
    <3>. QED BY <1>2, <2>1, <3>1 DEF HearsEpoch, Reads, Tells
  <2>2. ASSUME NEW i \in 1..Len(box), Tells(box[i]), box[i].epoch = epoch,
               \A j \in (i + 1)..Len(box) : ~Tells(box[j])
        PROVE  HearsEpoch(b, q.epoch, epoch)
    <3>1. i - 1 \in Nat /\ i - 1 \in 0..Len(b) /\ ((i - 1) + 1) + 1 = i + 1
      BY <1>1
    <3>2. \A j \in ((i - 1) + 1)..Len(b) : ~Tells(b[j])
      BY <1>1, <2>2, <3>1
    <3>3. CASE i = 1
      <4>1. q.epoch = epoch
        BY <1>1, <1>2, <2>2, <3>3 DEF Reads, Tells
      <4>. QED BY <3>2, <3>3, <4>1 DEF HearsEpoch
    <3>4. CASE i # 1
      <4>1. i - 1 \in 1..Len(b) /\ b[i - 1] = box[i]
        BY <1>1, <3>4
      <4>. QED BY <2>2, <3>2, <4>1 DEF HearsEpoch
    <3>. QED BY <3>3, <3>4
  <2>. QED BY <1>3, <2>1, <2>2 DEF HearsEpoch
<1>4. ASSUME NEW i \in 0..Len(box), SubscribedFrom(box, r, epoch, i)
      PROVE  \E k \in 0..Len(b) :
               /\ SubscribedFrom(b, q, epoch, k)
               /\ (i = 0 /\ r.data) \/ (\E j \in (i + 1)..Len(box) : box[j].type = "data") =>
                    (k = 0 /\ q.data) \/ \E j \in (k + 1)..Len(b) : b[j].type = "data"
  <2>1. CASE i = 0
    <3>1. /\ r.subscribed /\ r.epoch = epoch
          /\ \A j \in 1..Len(box) : /\ box[j].type # "unsubscribed"
                                    /\ (Tells(box[j]) => box[j].epoch = epoch)
      BY <1>4, <2>1 DEF SubscribedFrom
    <3>2. m.type # "unsubscribed" /\ (Tells(m) => m.epoch = epoch)
      BY <1>1, <3>1
    <3>3. q.subscribed /\ q.epoch = epoch /\ (r.data \/ m.type = "data" => q.data)
      BY <1>2, <3>1, <3>2 DEF Reads, Tells
    <3>4. 0 \in 0..Len(b) /\ SubscribedFrom(b, q, epoch, 0)
      <4>1. \A j \in 1..Len(b) : j + 1 \in 1..Len(box) /\ b[j] = box[j + 1]
        BY <1>1
      <4>2. \A j \in 1..Len(b) : b[j].type # "unsubscribed" /\ (Tells(b[j]) => b[j].epoch = epoch)
        BY <3>1, <4>1
      <4>. QED BY <1>1, <3>3, <4>2 DEF SubscribedFrom
    <3>5. ASSUME NEW j \in 1..Len(box), box[j].type = "data"
          PROVE  q.data \/ \E k \in 1..Len(b) : b[k].type = "data"
      <4>1. CASE j = 1
        BY <1>1, <3>3, <3>5, <4>1
      <4>2. CASE j # 1
        <5>1. j - 1 \in 1..Len(b) /\ b[j - 1] = box[j]
          BY <1>1, <4>2
        <5>. QED BY <3>5, <5>1
      <4>. QED BY <4>1, <4>2
    <3>. QED BY <2>1, <3>3, <3>4, <3>5
  <2>2. CASE i # 0
    <3>1. /\ i \in 1..Len(box) /\ i - 1 \in 0..Len(b) /\ i - 1 \in Nat /\ ((i - 1) + 1) + 1 = i + 1
      BY <1>1, <2>2
    <3>2. /\ box[i].type = "subscribed" /\ box[i].epoch = epoch
          /\ \A j \in (i + 1)..Len(box) :
               box[j].type # "unsubscribed" /\ (Tells(box[j]) => box[j].epoch = epoch)
      BY <1>4, <2>2 DEF SubscribedFrom
    <3>3. \A j \in ((i - 1) + 1)..Len(b) : /\ b[j].type # "unsubscribed"
                                           /\ (Tells(b[j]) => b[j].epoch = epoch)
      BY <1>1, <3>1, <3>2
    <3>4. SubscribedFrom(b, q, epoch, i - 1)
      <4>1. CASE i = 1
        <5>1. q.subscribed /\ q.epoch = epoch
          BY <1>1, <1>2, <3>2, <4>1 DEF Reads
        <5>. QED BY <3>3, <4>1, <5>1 DEF SubscribedFrom
      <4>2. CASE i # 1
        <5>1. b[i - 1] = box[i] /\ i - 1 # 0
          BY <1>1, <3>1, <4>2
        <5>. QED BY <3>2, <3>3, <5>1 DEF SubscribedFrom
      <4>. QED BY <4>1, <4>2
    <3>5. ASSUME NEW j \in (i + 1)..Len(box), box[j].type = "data"
          PROVE  \E k \in ((i - 1) + 1)..Len(b) : b[k].type = "data"
      <4>1. j - 1 \in ((i - 1) + 1)..Len(b) /\ b[j - 1] = box[j]
        BY <1>1, <3>1
      <4>. QED BY <3>5, <4>1
    <3>. QED BY <2>2, <3>1, <3>4, <3>5
  <2>. QED BY <2>1, <2>2
<1>5. ASSUME NEW i \in 0..Len(box), UnsubscribedFrom(box, r, listed, i)
      PROVE  \E k \in 0..Len(b) : UnsubscribedFrom(b, q, lists, k)
  <2>1. CASE i = 0
    <3>1. ~r.subscribed /\ ~listed /\ \A j \in 1..Len(box) : box[j].type # "subscribed"
      BY <1>5, <2>1 DEF UnsubscribedFrom
    <3>2. m.type # "subscribed" /\ \A j \in 1..Len(b) : b[j].type # "subscribed"
      BY <1>1, <3>1
    <3>3. ~q.subscribed /\ ~lists
      BY <1>2, <3>1, <3>2 DEF Reads
    <3>4. 0 \in 0..Len(b) /\ UnsubscribedFrom(b, q, lists, 0)
      BY <1>1, <3>2, <3>3 DEF UnsubscribedFrom
    <3>. QED BY <3>4
  <2>2. CASE i # 0
    <3>1. /\ i \in 1..Len(box) /\ i - 1 \in 0..Len(b) /\ i - 1 \in Nat /\ ((i - 1) + 1) + 1 = i + 1
      BY <1>1, <2>2
    <3>2. box[i].type = "unsubscribed" /\ \A j \in (i + 1)..Len(box) : box[j].type # "subscribed"
      BY <1>5, <2>2 DEF UnsubscribedFrom
    <3>3. \A j \in ((i - 1) + 1)..Len(b) : b[j].type # "subscribed"
      BY <1>1, <3>1, <3>2
    <3>4. UnsubscribedFrom(b, q, lists, i - 1)
      <4>1. CASE i = 1
        <5>1. ~q.subscribed /\ ~lists
          BY <1>1, <1>2, <3>2, <4>1 DEF Reads
        <5>. QED BY <3>3, <4>1, <5>1 DEF UnsubscribedFrom
      <4>2. CASE i # 1
        <5>1. b[i - 1] = box[i] /\ i - 1 # 0
          BY <1>1, <3>1, <4>2
        <5>. QED BY <3>2, <3>3, <5>1 DEF UnsubscribedFrom
      <4>. QED BY <4>1, <4>2
    <3>. QED BY <3>1, <3>4
  <2>. QED BY <2>1, <2>2
<1>. QED BY <1>3, <1>4, <1>5 DEF b, m, KeepsUp

\* A subscription that the transport lists and the record does not have is on its way.
LEMMA ListedIsAnswered ==
  ASSUME NEW box, NEW r, NEW epoch, NEW on \in BOOLEAN,
         Follows(box, r, TRUE, epoch, on, TRUE), ~r.subscribed, Len(box) \in Nat
  PROVE  Types(box) \cap {"subscribed", "unsubscribed"} # {}
<1>1. CASE on
  <2>1. PICK i \in 0..Len(box) : SubscribedFrom(box, r, epoch, i)
    BY <1>1 DEF Follows
  <2>2. i \in 1..Len(box) /\ box[i].type = "subscribed"
    BY <2>1 DEF SubscribedFrom
  <2>. QED BY <2>2 DEF Types
<1>2. CASE ~on
  <2>1. PICK i \in 0..Len(box) : UnsubscribedFrom(box, r, TRUE, i)
    BY <1>2 DEF Follows
  <2>2. i \in 1..Len(box) /\ box[i].type = "unsubscribed"
    BY <2>1 DEF UnsubscribedFrom
  <2>. QED BY <2>2 DEF Types
<1>. QED BY <1>1, <1>2

\* Only epoch, subscription and, with that, data of the record count.
LEMMA SameRecord ==
  ASSUME NEW box, NEW r, NEW q, NEW listed, NEW epoch, NEW on, NEW agreed,
         q.epoch = r.epoch, q.subscribed = r.subscribed, r.subscribed => q.data = r.data
  PROVE  /\ Follows(box, r, listed, epoch, on, agreed) => Follows(box, q, listed, epoch, on, agreed)
         /\ HasData(box, r, epoch) => HasData(box, q, epoch)
<1>1. \A i : SubscribedFrom(box, r, epoch, i) <=> SubscribedFrom(box, q, epoch, i)
  BY DEF SubscribedFrom
<1>2. \A i : UnsubscribedFrom(box, r, listed, i) <=> UnsubscribedFrom(box, q, listed, i)
  BY DEF UnsubscribedFrom
<1>3. Follows(box, r, listed, epoch, on, agreed) => Follows(box, q, listed, epoch, on, agreed)
  BY <1>1, <1>2 DEF Follows
<1>4. ASSUME HasData(box, r, epoch) PROVE HasData(box, q, epoch)
  <2>1. PICK i \in 0..Len(box) : /\ SubscribedFrom(box, r, epoch, i)
                                 /\ (i = 0 /\ r.data) \/ \E k \in (i + 1)..Len(box) : box[k].type = "data"
    BY <1>4 DEF HasData
  <2>2. i = 0 => r.subscribed
    BY <2>1 DEF SubscribedFrom
  <2>. QED BY <1>1, <2>1, <2>2 DEF HasData
<1>. QED BY <1>3, <1>4

-----------------------------------------------------------------------------
(* What steps change for a client.                                         *)

\* What the first part says of a client.
LEMMA ClientFacts ==
  ASSUME IInv, NEW c \in Clients
  PROVE  /\ c \in Actors /\ Backend \in Actors /\ c # Backend
         /\ inbox[c] \in Seq(Messages) /\ Len(inbox[c]) \in Nat /\ inbox[Backend] \in Seq(Messages)
         /\ conn[c] \in Sessions \cup {0} /\ 0 \notin Sessions /\ gw.peers \subseteq Sessions
         /\ gw.subs \subseteq gw.peers /\ gw.lease = gw.item
         /\ Connected(c) =>
              conn[c] \in Sessions /\ conn[c] # gw.lease /\ outbox[conn[c]] \in Seq(Requests)
         /\ Connected(c) => \A a \in Actors : a # c => conn[a] # conn[c]
         /\ gw.subs # {} => gw.lease # 0 /\ gw.lease \in Sessions /\ gw.lease \in gw.peers
<1>1. c \in Actors /\ Backend \in Actors /\ c # Backend
  BY GatewayAssumption DEF Actors
<1>2. /\ inbox[c] \in Seq(Messages) /\ Len(inbox[c]) \in Nat /\ inbox[Backend] \in Seq(Messages)
      /\ conn \in [Actors -> Sessions \cup {0}] /\ Sessions = 1..Len(owner) /\ Len(owner) \in Nat
      /\ gw \in Gateways(Len(owner)) /\ GatewayIsRight(gw) /\ outbox \in [Sessions -> Seq(Requests)]
  BY <1>1, KnownEpochs, LenProperties DEF IInv, Typed, Sessions
<1>3. /\ gw.peers \subseteq Sessions /\ gw.subs \subseteq gw.peers /\ gw.lease = gw.item
      /\ 0 \notin Sessions
      /\ gw.subs # {} => gw.lease # 0 /\ gw.lease \in Sessions /\ gw.lease \in gw.peers
  BY <1>2 DEF Gateways, GatewayIsRight
<1>4. ASSUME Connected(c)
      PROVE  /\ conn[c] \in Sessions /\ conn[c] # gw.lease /\ outbox[conn[c]] \in Seq(Requests)
             /\ \A a \in Actors : a # c => conn[a] # conn[c]
  <2>1. conn[c] \in Sessions /\ conn[c] # 0 /\ owner[conn[c]] = c
    BY <1>1, <1>3, <1>4 DEF Connected, IInv, SocketsInOrder
  <2>2. \A a \in Actors : conn[a] # 0 => owner[conn[a]] = a
    BY DEF IInv, SocketsInOrder
  <2>3. gw.lease # 0 => owner[gw.lease] = Backend
    BY DEF IInv, LeaseInOrder
  <2>. QED BY <1>1, <1>2, <2>1, <2>2, <2>3
<1>. QED BY <1>1, <1>2, <1>3, <1>4

\* The invariant of one client.
ClientInv(c) == ClientInOrder(c) /\ ClientFollows(c) /\ ClientIsAnswered(c) /\ ClientGetsData(c)

\* What happens to others: a message to the client c changes at most what it has, and
\* a request of it is answered.
LEMMA Bystander ==
  ASSUME IInv, NEW c \in Clients, ClientInv(c),
         conn'[c] = conn[c], record'[c] = record[c], asked'[c] = asked[c], (c \in subbed') = (c \in subbed),
         Connected(c)' =>
           /\ Connected(c) /\ gw'.item = gw.item /\ ((conn[c] \in gw'.subs) = (conn[c] \in gw.subs))
           /\ \/ inbox'[c] = inbox[c]
              \/ \E m \in Messages : /\ inbox'[c] = Append(inbox[c], m)
                                     /\ m.type \notin {"subscribed", "unsubscribed"}
                                     /\ Tells(m) => m.epoch = gw.item
           /\ "unsubscribe" \in Types(outbox[conn[c]]) => "unsubscribe" \in Types(outbox'[conn[c]])
           /\ "subscribe" \in Types(outbox[conn[c]]) =>
                "subscribe" \in Types(outbox'[conn[c]]) \/ "offline" \in Types(inbox'[c]),
         Connected(c)' /\ conn[c] \in gw.subs /\ Agreed(c) /\ conn'[Backend] = gw'.lease =>
           /\ conn[Backend] = gw.lease
           /\ DataUnderWay => DataUnderWay' \/ HasData(inbox'[c], record[c], gw.item)
  PROVE  ClientInv(c)'
<1>1. ClientInOrder(c)'
  BY DEF ClientInv, ClientInOrder
<1>2. CASE ~Connected(c)'
  BY <1>1, <1>2 DEF ClientInv, ClientFollows, ClientIsAnswered, ClientGetsData
<1>3. CASE Connected(c)'
  <2>1. Connected(c) /\ gw'.item = gw.item /\ ((conn[c] \in gw'.subs) = (conn[c] \in gw.subs))
    BY <1>3
  <2>2. inbox[c] \in Seq(Messages)
    BY ClientFacts
  <2>3. Agreed(c)' => Agreed(c)
    BY <1>3 DEF Agreed
  <2>4. Follows(inbox[c], record[c], c \in subbed, gw.item, conn[c] \in gw.subs, Agreed(c))
    BY <2>1 DEF ClientInv, ClientFollows
  <2>5. /\ Follows(inbox'[c], record[c], c \in subbed, gw.item, conn[c] \in gw.subs, Agreed(c))
        /\ HasData(inbox[c], record[c], gw.item) => HasData(inbox'[c], record[c], gw.item)
        /\ Types(inbox[c]) \subseteq Types(inbox'[c])
    <3>1. CASE inbox'[c] = inbox[c]
      BY <2>4, <3>1
    <3>2. ASSUME NEW m \in Messages, inbox'[c] = Append(inbox[c], m),
                 m.type \notin {"subscribed", "unsubscribed"}, Tells(m) => m.epoch = gw.item
          PROVE  /\ Follows(inbox'[c], record[c], c \in subbed, gw.item, conn[c] \in gw.subs, Agreed(c))
                 /\ HasData(inbox[c], record[c], gw.item) => HasData(inbox'[c], record[c], gw.item)
                 /\ Types(inbox[c]) \subseteq Types(inbox'[c])
      <4>1. Follows(inbox'[c], record[c], c \in subbed, gw.item, conn[c] \in gw.subs, Agreed(c))
        BY <2>2, <2>4, <3>2, SameIsFollowed
      <4>2. HasData(inbox[c], record[c], gw.item) => HasData(inbox'[c], record[c], gw.item)
        BY <2>2, <3>2, DataStay
      <4>3. Types(inbox[c]) \subseteq Types(inbox'[c])
        BY <2>2, <3>2, TypesOfAppend
      <4>. QED BY <4>1, <4>2, <4>3
    <3>. QED BY <1>3, <3>1, <3>2
  <2>6. ClientFollows(c)'
    <3>1. Follows(inbox'[c], record[c], c \in subbed, gw.item, conn[c] \in gw.subs, Agreed(c)')
      BY <2>3, <2>5 DEF Follows
    <3>. QED BY <2>1, <3>1 DEF ClientFollows
  <2>7. ClientIsAnswered(c)'
    BY <1>3, <2>1, <2>5 DEF ClientInv, ClientIsAnswered
  <2>8. ClientGetsData(c)'
    BY <1>3, <2>1, <2>3, <2>5 DEF ClientInv, ClientGetsData
  <2>. QED BY <1>1, <2>6, <2>7, <2>8 DEF ClientInv
<1>. QED BY <1>2, <1>3

\* The backend is gone, or there is another one: nobody is subscribed, and the
\* clients that are left are told.
LEMMA ClientIsTold ==
  ASSUME IInv, NEW c \in Clients, ClientInv(c),
         conn'[c] = conn[c], record'[c] = record[c], asked'[c] = asked[c], (c \in subbed') = (c \in subbed),
         gw'.subs = {}, NEW T, NEW item \in Nat, gw'.item = item,
         Connected(c)' =>
           /\ Connected(c) /\ conn[c] \in T /\ inbox'[c] = ToldGone(inbox, gw.subs, T, item)[c]
           /\ outbox'[conn[c]] = outbox[conn[c]]
  PROVE  ClientInv(c)'
<1>1. ClientInOrder(c)' /\ ClientGetsData(c)'
  BY DEF ClientInv, ClientInOrder, ClientGetsData
<1>2. CASE ~Connected(c)'
  BY <1>1, <1>2 DEF ClientInv, ClientFollows, ClientIsAnswered
<1>3. CASE Connected(c)'
  <2>. DEFINE gone == Message("unsubscribed", 0)
              news == Message("registry", item)
              first == Sent(inbox, gw.subs, <<gone>>)
  <2>1. /\ gone \in Messages /\ gone.type = "unsubscribed"
        /\ news \in Messages /\ news.type = "registry" /\ news.epoch = item
    BY NoticesAreMessages
  <2>2. c \in Actors /\ inbox[c] \in Seq(Messages) /\ inbox \in [Actors -> Seq(Messages)]
    BY ClientFacts DEF IInv, Typed
  <2>3. /\ Connected(c) /\ conn[c] \in T /\ inbox'[c] = Sent(first, T, <<news>>)[c]
        /\ outbox'[conn[c]] = outbox[conn[c]]
    BY <1>3 DEF ToldGone
  <2>. HIDE DEF gone, news
  <2>4. /\ first \in [Actors -> Seq(Messages)]
        /\ first[c] = IF conn[c] \in gw.subs THEN Append(inbox[c], gone) ELSE inbox[c]
    BY <2>1, <2>2, SentIsAppended DEF Sockets
  <2>. HIDE DEF first
  <2>5. inbox'[c] = Append(first[c], news) /\ first[c] \in Seq(Messages)
    BY <2>1, <2>2, <2>3, <2>4, SentIsAppended DEF Sockets
  <2>6. Follows(inbox[c], record[c], c \in subbed, gw.item, conn[c] \in gw.subs, Agreed(c))
    BY <2>3 DEF ClientInv, ClientFollows
  <2>7. Follows(first[c], record[c], c \in subbed, gw.item, FALSE, Agreed(c))
    <3>1. CASE conn[c] \in gw.subs
      <4>1. HearsEpoch(inbox[c], record[c].epoch, gw.item)
        BY <2>6 DEF Follows
      <4>. QED BY <2>1, <2>2, <2>4, <3>1, <4>1, UnsubscribedIsFollowed
    <3>2. CASE conn[c] \notin gw.subs
      <4>1. (conn[c] \in gw.subs) = FALSE
        BY <3>2
      <4>. QED BY <2>4, <2>6, <3>2, <4>1
    <3>. QED BY <3>1, <3>2
  <2>8. Follows(inbox'[c], record[c], c \in subbed, item, FALSE, Agreed(c))
    <3>1. Follows(Append(first[c], news), record[c], c \in subbed, item, FALSE, Agreed(c))
      BY <2>1, <2>5, <2>7, RegistryIsFollowed, Zenon
    <3>. QED BY <2>5, <3>1
  <2>9. Agreed(c)' = Agreed(c)
    BY <2>3 DEF Agreed
  <2>10. ClientFollows(c)'
    <3>1. (conn[c] \in gw'.subs) = FALSE
      OBVIOUS
    <3>. QED BY <2>8, <2>9, <3>1 DEF ClientFollows
  <2>11. Types(inbox[c]) \subseteq Types(inbox'[c])
    <3>1. Types(first[c]) \subseteq Types(inbox'[c])
      BY <2>1, <2>5, TypesOfAppend
    <3>2. Types(inbox[c]) \subseteq Types(first[c])
      BY <2>1, <2>2, <2>4, TypesOfAppend
    <3>. QED BY <3>1, <3>2
  <2>12. ClientIsAnswered(c)'
    BY <2>3, <2>11 DEF ClientInv, ClientIsAnswered
  <2>. QED BY <1>1, <2>10, <2>12 DEF ClientInv
<1>. QED BY <1>2, <1>3

\* What a request leaves of the requests, and what a message adds to the messages.
LEMMA ReceiveTypes ==
  ASSUME IInv, NEW s \in Sessions, NEW type, Receive(s, type)
  PROVE  /\ s \in gw.peers /\ UNCHANGED <<owner, conn, backendVars, clientVars>>
         /\ \A t \in Sessions : t # s => outbox'[t] = outbox[t]
         /\ Types(outbox[s]) = Types(outbox'[s]) \cup {type}
<1>1. outbox \in [Sessions -> Seq(Requests)] /\ outbox[s] \in Seq(Requests)
  BY DEF IInv, Typed
<1>2. /\ s \in gw.peers /\ UNCHANGED <<owner, conn, backendVars, clientVars>>
      /\ outbox[s] # <<>> /\ Head(outbox[s]).type = type /\ outbox' = [outbox EXCEPT ![s] = Tail(@)]
  BY DEF Receive
<1>3. outbox'[s] = Tail(outbox[s]) /\ \A t \in Sessions : t # s => outbox'[t] = outbox[t]
  BY <1>1, <1>2
<1>4. Types(outbox[s]) = Types(Tail(outbox[s])) \cup {type}
  BY <1>1, <1>2, TypesOfTail
<1>. QED BY <1>2, <1>3, <1>4

\* What is sent is in the boxes that it is sent to.
LEMMA SentTypes ==
  ASSUME NEW boxes \in [Actors -> Seq(Messages)], NEW S, NEW m \in Messages, NEW a \in Actors
  PROVE  /\ Types(boxes[a]) \subseteq Types(Sent(boxes, S, <<m>>)[a])
         /\ a \in Sockets(S) => m.type \in Types(Sent(boxes, S, <<m>>)[a])
<1>1. Types(Append(boxes[a], m)) = Types(boxes[a]) \cup {m.type}
  BY TypesOfAppend
<1>2. Sent(boxes, S, <<m>>)[a] = IF a \in Sockets(S) THEN Append(boxes[a], m) ELSE boxes[a]
  BY SentIsAppended
<1>. QED BY <1>1, <1>2

\* A request of another kind than data, from whomever, leaves the data under way.
LEMMA DataStayUnderWay ==
  ASSUME IInv, NEW s \in Sessions, NEW type, Receive(s, type), type # "data",
         gw.lease \in Sessions,
         gw'.lease = gw.lease, Types(inbox[Backend]) \subseteq Types(inbox'[Backend])
  PROVE  DataUnderWay => DataUnderWay'
<1>1. "data" \in Types(outbox[gw.lease]) => "data" \in Types(outbox'[gw.lease])
  BY ReceiveTypes
<1>. QED BY <1>1 DEF DataUnderWay

-----------------------------------------------------------------------------
(* The gateway, for a client.                                              *)

\* A subscription is answered, and its data are asked for.
LEMMA SubscribeIsFollowed ==
  ASSUME IInv, NEW s \in Sessions, HandleSubscribe(s), NEW c \in Clients, ClientInv(c)
  PROVE  ClientInv(c)'
<1>. DEFINE g == AddSubscription(gw, s)
            bp == FindBackendPeer(gw)
            on == IF g.active # gw.active THEN bp ELSE {}
            notice == Demand(TRUE)
            told == Sent(inbox, on, <<notice>>)
            answer == Message("subscribed", gw.lease)
            request == Message("request_data", 0)
            answered == Sent(told, {s}, <<answer>>)
            source == IF s \in gw.own THEN {} ELSE bp
            asked2 == Sent(answered, source, <<request>>)
<1>1. /\ Receive(s, "subscribe")
      /\ IF gw.item = 0 \/ gw.lease = 0
         THEN inbox' = Sent(inbox, {s}, <<Message("offline", 0)>>) /\ UNCHANGED gw
         ELSE gw' = g /\ inbox' = asked2
  BY Zenon DEF HandleSubscribe
<1>2. /\ s \in gw.peers /\ UNCHANGED <<owner, conn, record, asked, subbed>>
      /\ \A t \in Sessions : t # s => outbox'[t] = outbox[t]
      /\ Types(outbox[s]) = Types(outbox'[s]) \cup {"subscribe"}
  BY <1>1, ReceiveTypes DEF clientVars
<1>3. /\ inbox \in [Actors -> Seq(Messages)] /\ Len(owner) \in Nat /\ gw \in Gateways(Len(owner))
      /\ GatewayIsRight(gw) /\ gw.own = gw.subs
  BY KnownEpochs DEF IInv, Typed, GatewayIsRight
<1>4. /\ c \in Actors /\ Backend \in Actors /\ inbox[c] \in Seq(Messages)
      /\ c \notin Sockets(bp) /\ c \notin Sockets({})
      /\ conn[c] \in Sessions \cup {0} /\ 0 \notin Sessions /\ gw.lease = gw.item
  BY ClientFacts, LeaseSocket DEF Sockets
<1>5. CASE gw.item = 0 \/ gw.lease = 0
  <2>. DEFINE m == Message("offline", 0)
  <2>1. m \in Messages /\ m.type = "offline"
    BY NoticesAreMessages
  <2>2. inbox' = Sent(inbox, {s}, <<m>>) /\ gw' = gw
    BY <1>1, <1>5
  <2>. HIDE DEF m
  <2>3. inbox'[c] = IF conn[c] = s THEN Append(inbox[c], m) ELSE inbox[c]
    BY <1>3, <1>4, <2>1, <2>2, SentIsAppended DEF Sockets
  <2>4. conn[c] = s => "offline" \in Types(inbox'[c])
    BY <1>4, <2>1, <2>3, TypesOfAppend
  <2>5. conn[c] \notin gw.subs
    BY <1>3, <1>4, <1>5 DEF GatewayIsRight
  <2>6. Connected(c)' => Connected(c) /\ conn[c] \in Sessions
    BY <1>2, <1>4, <2>2 DEF Connected
  <2>7. ~Tells(m) /\ m.type \notin {"subscribed", "unsubscribed"}
    BY <2>1 DEF Tells
  <2>8. Connected(c)' =>
          /\ "unsubscribe" \in Types(outbox[conn[c]]) => "unsubscribe" \in Types(outbox'[conn[c]])
          /\ "subscribe" \in Types(outbox[conn[c]]) =>
               "subscribe" \in Types(outbox'[conn[c]]) \/ "offline" \in Types(inbox'[c])
    BY <1>2, <2>4, <2>6
  <2>9. inbox'[c] = inbox[c]
        \/ \E k \in Messages : /\ inbox'[c] = Append(inbox[c], k)
                               /\ k.type \notin {"subscribed", "unsubscribed"}
                               /\ Tells(k) => k.epoch = gw.item
    BY <2>1, <2>3, <2>7
  <2>. QED BY <1>2, <2>2, <2>5, <2>6, <2>8, <2>9, Bystander
<1>6. CASE ~ (gw.item = 0 \/ gw.lease = 0)
  <2>1. inbox' = asked2 /\ gw' = g
    BY <1>1, <1>6
  <2>2. g.lease = gw.lease /\ g.item = gw.item /\ g.peers = gw.peers /\ g.subs = gw.subs \cup {s}
    BY <1>2, <1>3, <1>6, AddSubscriptionIsRight
  <2>3. /\ notice \in Messages
        /\ answer \in Messages /\ answer.type = "subscribed" /\ answer.epoch = gw.lease
        /\ request \in Messages /\ request.type = "request_data"
    <3>1. gw.lease \in Nat
      BY KnownEpochs
    <3>2. notice \in Messages
      BY NoticesAreMessages
    <3>3. answer \in Messages /\ answer.type = "subscribed" /\ answer.epoch = gw.lease
      BY <3>1, NoticesAreMessages
    <3>4. request \in Messages /\ request.type = "request_data"
      BY NoticesAreMessages
    <3>. QED BY <3>2, <3>3, <3>4
  <2>11. conn[c] \notin on /\ conn[c] \notin source
    BY <1>4 DEF Sockets
  <2>. HIDE DEF g, answer, request, on, notice
  <2>4. /\ told \in [Actors -> Seq(Messages)] /\ told[c] = inbox[c]
        /\ Types(inbox[Backend]) \subseteq Types(told[Backend])
    <3>1. /\ Sent(inbox, on, <<notice>>) \in [Actors -> Seq(Messages)]
          /\ Types(inbox[Backend]) \subseteq Types(Sent(inbox, on, <<notice>>)[Backend])
      BY <1>3, <1>4, <2>3, SentIsAppended, SentTypes
    <3>2. Sent(inbox, on, <<notice>>)[c] = inbox[c]
      <4>1. c \in Actors /\ inbox \in [Actors -> Seq(Messages)] /\ notice \in Messages
        BY <1>3, <1>4, <2>3
      <4>2. c \notin Sockets(on)
        BY <2>11 DEF Sockets
      <4>. QED BY <4>1, <4>2, SentIsAppended
    <3>. QED BY <2>11, <3>1, <3>2
  <2>. HIDE DEF told
  <2>5. /\ answered \in [Actors -> Seq(Messages)]
        /\ Types(told[Backend]) \subseteq Types(answered[Backend])
        /\ answered[c] = IF conn[c] = s THEN Append(inbox[c], answer) ELSE inbox[c]
    <3>1. /\ Sent(told, {s}, <<answer>>) \in [Actors -> Seq(Messages)]
          /\ Types(told[Backend]) \subseteq Types(Sent(told, {s}, <<answer>>)[Backend])
      BY <1>4, <2>3, <2>4, SentIsAppended, SentTypes
    <3>2. Sent(told, {s}, <<answer>>)[c] = IF conn[c] \in {s} THEN Append(told[c], answer) ELSE told[c]
      BY <1>4, <2>3, <2>4, SentIsAppended DEF Sockets
    <3>. QED BY <2>4, <3>1, <3>2
  <2>. HIDE DEF answered
  <2>12. s \notin gw.own => source = bp
    OBVIOUS
  <2>. HIDE DEF source, bp
  <2>6. /\ asked2[c] = answered[c] /\ Types(answered[Backend]) \subseteq Types(asked2[Backend])
        /\ s \notin gw.own /\ Backend \in Sockets(bp) => "request_data" \in Types(asked2[Backend])
    <3>1. /\ Types(answered[Backend]) \subseteq Types(Sent(answered, source, <<request>>)[Backend])
          /\ Backend \in Sockets(source) =>
               request.type \in Types(Sent(answered, source, <<request>>)[Backend])
      BY <1>4, <2>3, <2>5, SentIsAppended, SentTypes
    <3>2. Sent(answered, source, <<request>>)[c] = answered[c]
      <4>1. c \in Actors /\ answered \in [Actors -> Seq(Messages)] /\ request \in Messages
        BY <1>4, <2>3, <2>5
      <4>2. c \notin Sockets(source)
        BY <2>11 DEF Sockets
      <4>. QED BY <4>1, <4>2, SentIsAppended
    <3>. QED BY <2>3, <2>11, <2>12, <3>1, <3>2
  <2>. HIDE DEF asked2
  <2>7. Types(inbox[Backend]) \subseteq Types(inbox'[Backend])
    BY <2>1, <2>4, <2>5, <2>6
  <2>8. DataUnderWay => DataUnderWay'
    <3>1. gw.lease \in Sessions
      BY <1>3, <1>6 DEF Gateways, Sessions
    <3>. QED BY <1>1, <2>1, <2>2, <2>7, <3>1, DataStayUnderWay
  <2>9. CASE conn[c] # s
    <3>1. inbox'[c] = inbox[c]
      BY <2>1, <2>5, <2>6, <2>9
    <3>2. (conn[c] \in gw'.subs) = (conn[c] \in gw.subs)
      BY <2>1, <2>2, <2>9
    <3>3. Connected(c)' => Connected(c) /\ outbox'[conn[c]] = outbox[conn[c]]
      BY <1>2, <1>4, <2>1, <2>2, <2>9 DEF Connected
    <3>. QED BY <1>2, <2>1, <2>2, <2>8, <3>1, <3>2, <3>3, Bystander
  <2>10. CASE conn[c] = s
    <3>1. inbox'[c] = Append(inbox[c], answer)
      BY <2>1, <2>5, <2>6, <2>10
    <3>2. Connected(c) /\ Connected(c)' /\ conn'[c] = s /\ s \in gw'.subs
      BY <1>2, <1>4, <2>1, <2>2, <2>10 DEF Connected
    <3>3. "subscribed" \in Types(inbox'[c])
      BY <1>4, <2>3, <3>1, TypesOfAppend
    <3>4. ClientInOrder(c)'
      BY <1>2 DEF ClientInv, ClientInOrder
    <3>5. ClientFollows(c)'
      <4>1. Follows(inbox'[c], record[c], c \in subbed, gw.item, TRUE, Agreed(c)')
        BY <1>4, <2>3, <3>1, SubscribedIsFollowed
      <4>2. (conn'[c] \in gw'.subs) = TRUE
        BY <3>2
      <4>. QED BY <1>2, <2>1, <2>2, <4>1, <4>2 DEF ClientFollows
    <3>6. ClientIsAnswered(c)'
      BY <3>3 DEF ClientIsAnswered
    <3>7. ClientGetsData(c)'
      <4>1. CASE s \notin gw.subs
        <5>1. conn'[Backend] = gw'.lease => Backend \in Sockets(bp)
          <6>1. bp = {gw.lease} \ {0}
            BY <1>3, BackendPeerIsKnown DEF bp
          <6>. QED BY <1>2, <1>4, <1>6, <2>1, <2>2, <6>1 DEF Sockets
        <5>. QED BY <1>3, <2>1, <2>6, <4>1, <5>1 DEF ClientGetsData, DataUnderWay
      <4>2. CASE s \in gw.subs
        <5>1. Agreed(c)' => Agreed(c)
          BY <1>2, <2>10 DEF Agreed
        <5>2. HasData(inbox[c], record[c], gw.item) => HasData(inbox'[c], record[c], gw.item)
          BY <1>4, <2>3, <3>1, DataStay
        <5>. QED BY <1>2, <2>1, <2>2, <2>8, <2>10, <3>2, <4>2, <5>1, <5>2
                 DEF ClientInv, ClientGetsData
      <4>. QED BY <4>1, <4>2
    <3>. QED BY <3>4, <3>5, <3>6, <3>7 DEF ClientInv
  <2>. QED BY <2>9, <2>10
<1>. QED BY <1>5, <1>6

\* The end of a subscription is answered.
LEMMA UnsubscribeIsFollowed ==
  ASSUME IInv, NEW s \in Sessions, HandleUnsubscribe(s), NEW c \in Clients, ClientInv(c)
  PROVE  ClientInv(c)'
<1>. DEFINE g == RemoveSubscription(gw, s)
            bp == FindBackendPeer(gw)
            answer == Message("unsubscribed", 0)
            answered == Sent(inbox, {s}, <<answer>>)
            off == IF g.active # gw.active THEN bp ELSE {}
            notice == Demand(FALSE)
            told == Sent(answered, off, <<notice>>)
<1>1. Receive(s, "unsubscribe") /\ gw' = g /\ inbox' = told
  BY Zenon DEF HandleUnsubscribe
<1>2. /\ s \in gw.peers /\ UNCHANGED <<owner, conn, record, asked, subbed>>
      /\ \A t \in Sessions : t # s => outbox'[t] = outbox[t]
      /\ Types(outbox[s]) = Types(outbox'[s]) \cup {"unsubscribe"}
  BY <1>1, ReceiveTypes DEF clientVars
<1>3. /\ inbox \in [Actors -> Seq(Messages)] /\ Len(owner) \in Nat /\ gw \in Gateways(Len(owner))
      /\ GatewayIsRight(gw)
  BY KnownEpochs DEF IInv, Typed
<1>4. /\ c \in Actors /\ Backend \in Actors /\ inbox[c] \in Seq(Messages)
      /\ c \notin Sockets(bp) /\ c \notin Sockets({})
      /\ conn[c] \in Sessions \cup {0} /\ 0 \notin Sessions /\ gw.lease = gw.item
      /\ gw.subs # {} => gw.lease \in Sessions
  BY ClientFacts, LeaseSocket DEF Sockets
<1>5. g.peers = gw.peers /\ g.lease = gw.lease /\ g.item = gw.item /\ g.subs = gw.subs \ {s}
  <2>1. IsWithout(Len(owner), gw, s, g)
    BY <1>3, RemoveSubscriptionIsRight
  <2>. QED BY <2>1 DEF IsWithout
<1>13. conn[c] \notin off
  BY <1>4 DEF Sockets
<1>6. answer \in Messages /\ answer.type = "unsubscribed" /\ notice \in Messages
  BY NoticesAreMessages
<1>. HIDE DEF g, bp, answer, off, notice
<1>7. /\ answered \in [Actors -> Seq(Messages)]
      /\ Types(inbox[Backend]) \subseteq Types(answered[Backend])
      /\ answered[c] = IF conn[c] = s THEN Append(inbox[c], answer) ELSE inbox[c]
  <2>1. /\ Sent(inbox, {s}, <<answer>>) \in [Actors -> Seq(Messages)]
        /\ Types(inbox[Backend]) \subseteq Types(Sent(inbox, {s}, <<answer>>)[Backend])
    BY <1>3, <1>4, <1>6, SentIsAppended, SentTypes
  <2>2. Sent(inbox, {s}, <<answer>>)[c] = IF conn[c] \in {s} THEN Append(inbox[c], answer) ELSE inbox[c]
    BY <1>3, <1>4, <1>6, SentIsAppended DEF Sockets
  <2>. QED BY <2>1, <2>2
<1>. HIDE DEF answered
<1>8. told[c] = answered[c] /\ Types(answered[Backend]) \subseteq Types(told[Backend])
  <2>1. Types(answered[Backend]) \subseteq Types(Sent(answered, off, <<notice>>)[Backend])
    BY <1>4, <1>6, <1>7, SentIsAppended, SentTypes
  <2>2. Sent(answered, off, <<notice>>)[c] = answered[c]
    <3>1. c \in Actors /\ answered \in [Actors -> Seq(Messages)] /\ notice \in Messages
      BY <1>4, <1>6, <1>7
    <3>2. c \notin Sockets(off)
      BY <1>13 DEF Sockets
    <3>. QED BY <3>1, <3>2, SentIsAppended
  <2>. QED BY <1>13, <2>1, <2>2
<1>. HIDE DEF told
<1>9. Types(inbox[Backend]) \subseteq Types(inbox'[Backend])
  BY <1>1, <1>7, <1>8
<1>10. gw.subs # {} => (DataUnderWay => DataUnderWay')
  BY <1>1, <1>4, <1>5, <1>9, DataStayUnderWay
<1>11. CASE conn[c] # s
  <2>1. inbox'[c] = inbox[c]
    BY <1>1, <1>7, <1>8, <1>11
  <2>2. (conn[c] \in gw'.subs) = (conn[c] \in gw.subs)
    BY <1>1, <1>5, <1>11
  <2>3. Connected(c)' => Connected(c) /\ outbox'[conn[c]] = outbox[conn[c]]
    BY <1>1, <1>2, <1>4, <1>5, <1>11 DEF Connected
  <2>. QED BY <1>1, <1>2, <1>5, <1>10, <2>1, <2>2, <2>3, Bystander
<1>12. CASE conn[c] = s
  <2>1. inbox'[c] = Append(inbox[c], answer) /\ Connected(c) /\ conn'[c] \notin gw'.subs
    BY <1>1, <1>2, <1>4, <1>5, <1>7, <1>8, <1>12 DEF Connected
  <2>2. "unsubscribed" \in Types(inbox'[c])
    BY <1>4, <1>6, <2>1, TypesOfAppend
  <2>3. ClientFollows(c)'
    <3>1. HearsEpoch(inbox[c], record[c].epoch, gw.item)
      BY <2>1 DEF ClientInv, ClientFollows, Follows
    <3>2. Follows(inbox'[c], record[c], c \in subbed, gw.item, FALSE, Agreed(c)')
      <4>1. Follows(Append(inbox[c], answer), record[c], c \in subbed, gw.item, FALSE, Agreed(c)')
        BY <1>4, <1>6, <3>1, UnsubscribedIsFollowed, Zenon
      <4>. QED BY <2>1, <4>1
    <3>3. (conn'[c] \in gw'.subs) = FALSE
      BY <2>1
    <3>. QED BY <1>1, <1>2, <1>5, <3>2, <3>3 DEF ClientFollows
  <2>4. ClientIsAnswered(c)'
    BY <2>2 DEF ClientIsAnswered
  <2>5. ClientInOrder(c)' /\ ClientGetsData(c)'
    BY <1>2, <2>1 DEF ClientInv, ClientInOrder, ClientGetsData
  <2>. QED BY <2>3, <2>4, <2>5 DEF ClientInv
<1>. QED BY <1>11, <1>12

\* Acknowledgements and data are told.
LEMMA HeartbeatIsFollowed ==
  ASSUME IInv, NEW s \in Sessions, HandleHeartbeat(s), NEW c \in Clients, ClientInv(c)
  PROVE  ClientInv(c)'
<1>1. /\ Receive(s, "heartbeat") /\ gw' = gw
      /\ inbox' = IF IsCurrentBackendOwner(gw, s) THEN Sent(inbox, {s}, <<Demand(gw.active)>>) ELSE inbox
  BY DEF HandleHeartbeat
<1>2. /\ s \in gw.peers /\ UNCHANGED <<owner, conn, record, asked, subbed>>
      /\ \A t \in Sessions : t # s => outbox'[t] = outbox[t]
      /\ Types(outbox[s]) = Types(outbox'[s]) \cup {"heartbeat"}
  BY <1>1, ReceiveTypes DEF clientVars
<1>3. inbox \in [Actors -> Seq(Messages)] /\ gw.active \in BOOLEAN
  BY DEF IInv, Typed, Gateways
<1>4. /\ c \in Actors /\ Backend \in Actors /\ c \notin Sockets(FindBackendPeer(gw))
      /\ conn[c] \in Sessions \cup {0}
      /\ gw.subs # {} => gw.lease \in Sessions
  BY ClientFacts, LeaseSocket
<1>5. inbox'[c] = inbox[c] /\ Types(inbox[Backend]) \subseteq Types(inbox'[Backend])
  <2>1. CASE IsCurrentBackendOwner(gw, s)
    <3>1. {s} = FindBackendPeer(gw) /\ Demand(gw.active) \in Messages
      BY <1>2, <1>3, <2>1, NoticesAreMessages DEF IsCurrentBackendOwner, FindBackendPeer
    <3>2. inbox' = Sent(inbox, {s}, <<Demand(gw.active)>>)
      BY <1>1, <2>1
    <3>3. conn[c] \notin {s}
      BY <1>4, <3>1 DEF Sockets
    <3>. DEFINE m == Demand(gw.active)
    <3>6. m \in Messages
      BY <3>1
    <3>. HIDE DEF m
    <3>4. Types(inbox[Backend]) \subseteq Types(Sent(inbox, {s}, <<m>>)[Backend])
      BY <1>3, <1>4, <3>6, SentIsAppended, SentTypes
    <3>5. Sent(inbox, {s}, <<m>>)[c] = inbox[c]
      BY <1>3, <1>4, <3>3, <3>6, SentIsAppended DEF Sockets
    <3>. QED BY <3>2, <3>3, <3>4, <3>5 DEF m
  <2>2. CASE ~ IsCurrentBackendOwner(gw, s)
    BY <1>1, <2>2
  <2>. QED BY <2>1, <2>2
<1>6. gw.subs # {} => (DataUnderWay => DataUnderWay')
  BY <1>1, <1>4, <1>5, DataStayUnderWay
<1>7. Connected(c)' => Connected(c) /\ conn[c] \in Sessions
  BY <1>1, <1>2, <1>4 DEF Connected
<1>8. Connected(c)' =>
        /\ "unsubscribe" \in Types(outbox[conn[c]]) => "unsubscribe" \in Types(outbox'[conn[c]])
        /\ "subscribe" \in Types(outbox[conn[c]]) => "subscribe" \in Types(outbox'[conn[c]])
  BY <1>2, <1>7
<1>. QED BY <1>1, <1>2, <1>5, <1>6, <1>7, <1>8, Bystander

\* The data reach those that are subscribed.
LEMMA DataAreFollowed ==
  ASSUME IInv, NEW s \in Sessions, HandleData(s), NEW c \in Clients, ClientInv(c)
  PROVE  ClientInv(c)'
<1>. DEFINE S == gw.subs \cap gw.peers
            m == Message("data", s)
<1>1. /\ Receive(s, "data") /\ gw' = gw
      /\ inbox' = IF IsCurrentBackendOwner(gw, s) THEN Sent(inbox, S, <<m>>) ELSE inbox
  BY DEF HandleData
<1>2. /\ s \in gw.peers /\ UNCHANGED <<owner, conn, record, asked, subbed>>
      /\ \A t \in Sessions : t # s => outbox'[t] = outbox[t]
      /\ Types(outbox[s]) = Types(outbox'[s]) \cup {"data"}
  BY <1>1, ReceiveTypes DEF clientVars
<1>3. /\ inbox \in [Actors -> Seq(Messages)] /\ gw \in Gateways(Len(owner))
      /\ GatewayIsRight(gw) /\ Len(owner) \in Nat
  BY KnownEpochs DEF IInv, Typed
<1>4. /\ c \in Actors /\ Backend \in Actors /\ inbox[c] \in Seq(Messages)
      /\ conn[c] \in Sessions \cup {0}
      /\ 0 \notin Sessions
      /\ gw.subs # {} => gw.lease # 0 /\ gw.lease \in Sessions
  BY ClientFacts
<1>5. s \in Nat /\ m \in Messages /\ m.type = "data"
  BY <1>3, NoticesAreMessages DEF Sessions
<1>. HIDE DEF m
<1>6. ~Tells(m)
  BY <1>5 DEF Tells
<1>7. Connected(c)' => Connected(c) /\ conn[c] \in Sessions
  BY <1>1, <1>2, <1>4 DEF Connected
<1>8. Connected(c)' =>
        /\ "unsubscribe" \in Types(outbox[conn[c]]) => "unsubscribe" \in Types(outbox'[conn[c]])
        /\ "subscribe" \in Types(outbox[conn[c]]) => "subscribe" \in Types(outbox'[conn[c]])
  BY <1>2, <1>7
<1>9. CASE IsCurrentBackendOwner(gw, s)
  <2>1. inbox' = Sent(inbox, S, <<m>>)
    BY <1>1, <1>9
  <2>2. /\ inbox'[c] = IF conn[c] \in S THEN Append(inbox[c], m) ELSE inbox[c]
    BY <1>3, <1>4, <1>5, <2>1, SentIsAppended DEF Sockets
  <2>3. ASSUME Connected(c)', conn[c] \in gw.subs, Agreed(c)
        PROVE  HasData(inbox'[c], record[c], gw.item)
    <3>1. inbox'[c] = Append(inbox[c], m)
      BY <1>7, <2>2, <2>3 DEF Connected
    <3>2. \E i \in 0..Len(inbox[c]) : SubscribedFrom(inbox[c], record[c], gw.item, i)
      BY <1>7, <2>3 DEF ClientInv, ClientFollows, Follows
    <3>. QED BY <1>4, <1>5, <1>6, <3>1, <3>2, DataStay
  <2>4. inbox'[c] = inbox[c]
        \/ \E k \in Messages : /\ inbox'[c] = Append(inbox[c], k)
                               /\ k.type \notin {"subscribed", "unsubscribed"}
                               /\ Tells(k) => k.epoch = gw.item
    BY <1>5, <1>6, <2>2
  <2>. QED BY <1>1, <1>2, <1>7, <1>8, <2>3, <2>4, Bystander
<1>10. CASE ~ IsCurrentBackendOwner(gw, s)
  <2>1. inbox' = inbox
    BY <1>1, <1>10
  <2>2. gw.subs # {} => gw.lease # s
    BY <1>3, <1>4, <1>10 DEF GatewayIsRight, IsCurrentBackendOwner
  <2>3. gw.subs # {} => (DataUnderWay => DataUnderWay')
    BY <1>1, <1>2, <1>4, <2>1, <2>2 DEF DataUnderWay
  <2>. QED BY <1>1, <1>2, <1>7, <1>8, <2>1, <2>3, Bystander
<1>. QED BY <1>9, <1>10

\* What a session that goes takes with it, and what the gateway says of it.
LEMMA PeerGoneDoes ==
  ASSUME IInv, NEW s \in Sessions, PeerGone(s)
  PROVE  /\ gw'.peers = gw.peers \ {s} /\ UNCHANGED <<owner, conn, backendVars, clientVars>>
         /\ \A t \in Sessions : t # s => outbox'[t] = outbox[t]
         /\ \/ /\ gw.lease = s /\ gw'.subs = {} /\ gw'.item = 0
               /\ inbox' = ToldGone(inbox, gw.subs, gw.peers \ {s}, 0)
            \/ /\ gw.lease # s /\ gw'.lease = gw.lease /\ gw'.item = gw.item /\ gw'.subs = gw.subs \ {s}
               /\ inbox' = inbox \/ inbox' = Sent(inbox, FindBackendPeer(gw), <<Demand(FALSE)>>)
<1>. DEFINE owned == IsCurrentBackendOwner(gw, s)
            g == IF owned THEN Unregister(gw) ELSE gw
            told == IF owned THEN ToldGone(inbox, gw.subs, gw.peers \ {s}, 0) ELSE inbox
            rest == RemovePeer(g, s)
            silent == s \in g.own /\ ~rest.active
            last == Sent(told, IF silent THEN FindBackendPeer(g) ELSE {}, <<Demand(FALSE)>>)
<1>1. /\ s \in gw.peers /\ gw' = rest /\ inbox' = last /\ outbox' = Unread({s})
      /\ UNCHANGED <<owner, conn, backendVars, clientVars>>
  BY Zenon DEF PeerGone
<1>2. \A t \in Sessions : t # s => outbox'[t] = outbox[t]
  BY <1>1 DEF Unread
<1>3. /\ inbox \in [Actors -> Seq(Messages)] /\ BoxesInOrder(owner, inbox)
      /\ Len(owner) \in Nat /\ gw \in Gateways(Len(owner)) /\ GatewayIsRight(gw)
  BY KnownEpochs DEF IInv, Typed
<1>4. Demand(FALSE) \in Messages /\ 0 \in Nat
  BY NoticesAreMessages
<1>5. s # 0 /\ s \in Nat
  BY <1>3 DEF Sessions
<1>6. CASE owned
  <2>1. gw.lease = s /\ gw.lease # 0
    BY <1>5, <1>6 DEF IsCurrentBackendOwner
  <2>2. rest.lease = 0 /\ rest.item = 0 /\ rest.peers = gw.peers \ {s} /\ rest.subs = {}
    BY <1>3, <1>6, <2>1, RemoveOwnerIsRight DEF GatewayIsRight
  <2>3. told = ToldGone(inbox, gw.subs, gw.peers \ {s}, 0)
    BY <1>6
  <2>4. BoxesInOrder(owner, told)
    BY <1>3, <1>4, <2>3, KnownEpochs, ToldGoneIsRight
  <2>5. g.lease = 0 /\ g.peers = gw.peers
    <3>. DEFINE j == DropSubscribers(gw)
    <3>1. j \in Gateways(Len(owner)) /\ j.peers = gw.peers
      BY <1>3, DropSubscribersIsRight
    <3>2. g = RemoveBackend([j EXCEPT !.item = 0])
      BY <1>6, Zenon DEF Unregister
    <3>. HIDE DEF g, j
    <3>. QED BY <3>1, <3>2 DEF RemoveBackend, Gateways
  <2>6. FindBackendPeer(g) = {}
    BY <1>3, <2>5 DEF FindBackendPeer, Gateways
  <2>. HIDE DEF told, g, rest
  <2>7. last = Sent(told, {}, <<Demand(FALSE)>>)
    BY <2>6
  <2>8. last = told
    BY <1>4, <2>4, <2>7, NobodyIsTold DEF BoxesInOrder
  <2>. QED BY <1>1, <1>2, <2>1, <2>2, <2>3, <2>8
<1>7. CASE ~ owned
  <2>1. gw.lease # s
    BY <1>3, <1>5, <1>7 DEF IsCurrentBackendOwner, GatewayIsRight
  <2>2. g = gw /\ told = inbox
    BY <1>7
  <2>3. /\ rest.lease = gw.lease /\ rest.item = gw.item /\ rest.peers = gw.peers \ {s}
        /\ rest.subs = gw.subs \ {s}
    BY <1>3, <2>1, <2>2, RemovePeerIsRight
  <2>. HIDE DEF rest, g, told
  <2>4. last = inbox \/ last = Sent(inbox, FindBackendPeer(gw), <<Demand(FALSE)>>)
    BY <1>3, <1>4, <2>2, NobodyIsTold
  <2>. QED BY <1>1, <1>2, <2>1, <2>3, <2>4
<1>. QED BY <1>6, <1>7

\* A session goes; if it is the backend's everybody is told.
LEMMA PeerGoneIsFollowed ==
  ASSUME IInv, NEW s \in Sessions, PeerGone(s), NEW c \in Clients, ClientInv(c)
  PROVE  ClientInv(c)'
<1>1. /\ gw'.peers = gw.peers \ {s} /\ UNCHANGED <<owner, conn, record, asked, subbed>>
      /\ \A t \in Sessions : t # s => outbox'[t] = outbox[t]
  BY PeerGoneDoes DEF clientVars
<1>2. /\ inbox \in [Actors -> Seq(Messages)] /\ c \in Actors /\ Backend \in Actors
      /\ gw.peers \subseteq Sessions
      /\ gw.subs # {} => gw.lease \in Sessions
  BY ClientFacts DEF IInv, Typed
<1>3. Connected(c)' => Connected(c) /\ conn[c] # s /\ outbox'[conn[c]] = outbox[conn[c]]
  BY <1>1, <1>2 DEF Connected
<1>4. CASE gw'.subs = {} /\ gw'.item = 0 /\ inbox' = ToldGone(inbox, gw.subs, gw.peers \ {s}, 0)
  <2>. DEFINE T == gw.peers \ {s}
  <2>1. Connected(c)' => conn[c] \in T
    BY <1>1, <1>2 DEF Connected
  <2>2. inbox'[c] = ToldGone(inbox, gw.subs, T, 0)[c] /\ 0 \in Nat
    BY <1>4
  <2>. HIDE DEF T
  <2>. QED BY <1>1, <1>3, <1>4, <2>1, <2>2, ClientIsTold
<1>5. CASE /\ gw.lease # s /\ gw'.lease = gw.lease /\ gw'.item = gw.item /\ gw'.subs = gw.subs \ {s}
           /\ inbox' = inbox \/ inbox' = Sent(inbox, FindBackendPeer(gw), <<Demand(FALSE)>>)
  <2>1. inbox'[c] = inbox[c] /\ Types(inbox[Backend]) \subseteq Types(inbox'[Backend])
    <3>1. CASE inbox' = inbox
      BY <3>1
    <3>2. CASE inbox' = Sent(inbox, FindBackendPeer(gw), <<Demand(FALSE)>>)
      <4>. DEFINE m == Demand(FALSE)
                  S == FindBackendPeer(gw)
      <4>1. m \in Messages /\ c \notin Sockets(S)
        BY NoticesAreMessages, LeaseSocket
      <4>2. inbox' = Sent(inbox, S, <<m>>)
        BY <3>2
      <4>. HIDE DEF m, S
      <4>3. Sent(inbox, S, <<m>>)[c] = inbox[c]
        BY <1>2, <4>1, SentIsAppended
      <4>4. Types(inbox[Backend]) \subseteq Types(Sent(inbox, S, <<m>>)[Backend])
        BY <1>2, <4>1, SentTypes
      <4>. QED BY <4>2, <4>3, <4>4
    <3>. QED BY <1>5, <3>1, <3>2
  <2>2. gw.subs # {} => (DataUnderWay => DataUnderWay')
    BY <1>1, <1>2, <1>5, <2>1 DEF DataUnderWay
  <2>3. Connected(c)' => (conn[c] \in gw'.subs) = (conn[c] \in gw.subs)
    BY <1>3, <1>5
  <2>. QED BY <1>1, <1>3, <1>5, <2>1, <2>2, <2>3, Bystander
<1>. QED BY <1>4, <1>5, PeerGoneDoes

\* The lease expires, and everybody is told.
LEMMA LeaseExpiresIsFollowed ==
  ASSUME IInv, LeaseExpires, NEW c \in Clients, ClientInv(c)
  PROVE  ClientInv(c)'
<1>. DEFINE rest == RemovePeer(Unregister(gw), gw.lease)
            T == gw.peers
<1>1. /\ gw.lease # 0 /\ gw' = rest /\ inbox' = ToldGone(inbox, gw.subs, T, 0)
      /\ outbox' = Unread({gw.lease}) /\ UNCHANGED <<owner, conn, record, asked, subbed>>
  BY Zenon DEF LeaseExpires, clientVars
<1>2. /\ Len(owner) \in Nat /\ gw \in Gateways(Len(owner)) /\ GatewayIsRight(gw)
      /\ T \subseteq Sessions
  BY KnownEpochs, ClientFacts DEF IInv, Typed
<1>3. rest.item = 0 /\ rest.peers = gw.peers \ {gw.lease} /\ rest.subs = {}
  BY <1>1, <1>2, RemoveOwnerIsRight DEF GatewayIsRight
<1>. HIDE DEF rest
<1>4. Connected(c)' => Connected(c) /\ conn[c] \in T /\ outbox'[conn[c]] = outbox[conn[c]]
  BY <1>1, <1>2, <1>3 DEF Connected, Unread
<1>5. inbox'[c] = ToldGone(inbox, gw.subs, T, 0)[c] /\ 0 \in Nat
  BY <1>1
<1>. HIDE DEF T
<1>. QED BY <1>1, <1>3, <1>4, <1>5, ClientIsTold

\* The registry is told again.
LEMMA PollIsFollowed ==
  ASSUME IInv, PollRegistry, NEW c \in Clients, ClientInv(c)
  PROVE  ClientInv(c)'
<1>. DEFINE m == Message("registry", gw.item)
            S == gw.peers
<1>1. inbox' = Sent(inbox, S, <<m>>) /\ UNCHANGED <<gw, outbox, conn, record, asked, subbed>>
  BY DEF PollRegistry, clientVars
<1>2. m \in Messages /\ m.type = "registry" /\ m.epoch = gw.item
  BY KnownEpochs, NoticesAreMessages
<1>3. inbox \in [Actors -> Seq(Messages)] /\ c \in Actors /\ Backend \in Actors
  BY ClientFacts DEF IInv, Typed
<1>. HIDE DEF m, S
<1>4. inbox'[c] = IF c \in Sockets(S) THEN Append(inbox[c], m) ELSE inbox[c]
  BY <1>1, <1>2, <1>3, SentIsAppended
<1>5. Types(inbox[Backend]) \subseteq Types(inbox'[Backend])
  BY <1>1, <1>2, <1>3, SentTypes
<1>6. inbox'[c] = inbox[c]
      \/ \E k \in Messages : /\ inbox'[c] = Append(inbox[c], k)
                             /\ k.type \notin {"subscribed", "unsubscribed"}
                             /\ Tells(k) => k.epoch = gw.item
  BY <1>2, <1>4
<1>7. DataUnderWay => DataUnderWay'
  BY <1>1, <1>5 DEF DataUnderWay
<1>8. Connected(c)' => Connected(c)
  BY <1>1 DEF Connected
<1>. QED BY <1>1, <1>6, <1>7, <1>8, Bystander

\* After a restart nobody is connected.
LEMMA RestartIsFollowed ==
  ASSUME IInv, GatewayRestarts, NEW c \in Clients, ClientInv(c)
  PROVE  ClientInv(c)'
<1>1. gw'.peers = {} /\ UNCHANGED <<conn, record, asked, subbed>>
  BY DEF GatewayRestarts, EmptyState, clientVars
<1>2. ~Connected(c)'
  BY <1>1 DEF Connected
<1>. QED BY <1>1, <1>2, Bystander

\* What a new session changes.
LEMMA HelloDoes ==
  ASSUME IInv, NEW a \in Actors, owner' = Append(owner, a), outbox' = Append(outbox, <<>>),
         conn' = [conn EXCEPT ![a] = Len(owner) + 1]
  PROVE  /\ \A t \in Sessions : outbox'[t] = outbox[t]
         /\ conn'[a] = Len(owner) + 1 /\ Len(owner) + 1 \notin Sessions /\ Len(owner) \in Nat
         /\ \A b \in Actors : b # a => conn'[b] = conn[b]
<1>1. Len(owner) \in Nat /\ Sessions = 1..Len(owner)
  BY KnownEpochs DEF Sessions
<1>2. outbox \in [1..Len(owner) -> Seq(Requests)] /\ <<>> \in Seq(Requests)
  BY <1>1, EmptySeq DEF IInv, Typed
<1>3. outbox \in Seq(Seq(Requests)) /\ Len(outbox) = Len(owner)
  BY <1>1, <1>2, SeqDef, LenProperties
<1>4. \A t \in Sessions : outbox'[t] = outbox[t]
  BY <1>1, <1>2, <1>3, AppendProperties
<1>5. conn'[a] = Len(owner) + 1 /\ \A b \in Actors : b # a => conn'[b] = conn[b]
  BY DEF IInv, Typed
<1>6. Len(owner) + 1 \notin Sessions
  BY <1>1
<1>. QED BY <1>1, <1>4, <1>5, <1>6, Zenon

\* A client with a new session knows nothing yet, and is told the registry.
LEMMA OwnHelloIsFollowed ==
  ASSUME IInv, NEW c \in Clients, ClientInv(c), Hello(c)
  PROVE  ClientInv(c)'
<1>. DEFINE n == Len(owner)
            g == [gw EXCEPT !.peers = @ \cup {n + 1}]
            m == Message("peer_ready", gw.item)
<1>1. c \in Actors /\ c # Backend
  BY ClientFacts
<1>2. /\ n \in Nat /\ gw \in Gateways(n) /\ GatewayIsRight(gw)
      /\ inbox \in [Actors -> Seq(Messages)]
      /\ asked[c] \in Sessions \cup {0} /\ gw.subs \subseteq Sessions
  BY KnownEpochs, ClientFacts DEF IInv, Typed
<1>3. g.item = gw.item /\ g.subs = gw.subs
  BY <1>2, AddPeerIsRight
<1>4. /\ conn[c] = 0 /\ owner' = Append(owner, c) /\ outbox' = Append(outbox, <<>>)
      /\ gw' = g /\ conn' = [conn EXCEPT ![c] = n + 1]
      /\ inbox' = [inbox EXCEPT ![c] = <<Message("peer_ready", g.item)>>]
      /\ UNCHANGED <<record, asked, subbed>>
  BY <1>1 DEF Hello, clientVars
<1>5. inbox'[c] = <<m>>
  BY <1>1, <1>2, <1>3, <1>4
<1>6. m.type = "peer_ready" /\ m.epoch = gw.item
  BY KnownEpochs, NoticesAreMessages
<1>. HIDE DEF g, m
<1>7. conn'[c] = n + 1 /\ n + 1 \notin Sessions
  BY <1>1, <1>4, HelloDoes
<1>8. conn'[c] # 0 /\ conn'[c] # asked'[c] /\ conn'[c] \notin gw'.subs
  BY <1>2, <1>3, <1>4, <1>7
<1>9. c \notin subbed /\ ~record[c].subscribed
  BY <1>4 DEF ClientInv, ClientInOrder
<1>10. ClientInOrder(c)' /\ ClientIsAnswered(c)' /\ ClientGetsData(c)'
  BY <1>4, <1>8, <1>9 DEF ClientInOrder, ClientIsAnswered, ClientGetsData
<1>11. Follows(<<m>>, record[c], FALSE, gw.item, FALSE, Agreed(c)')
  <2>1. Len(<<m>>) = 1 /\ <<m>>[1] = m /\ 1..1 = {1} /\ 0 \in 0..1 /\ \A j : j \notin (1 + 1)..1
    OBVIOUS
  <2>2. HearsEpoch(<<m>>, record[c].epoch, gw.item)
    BY <1>6, <2>1 DEF HearsEpoch, Tells
  <2>3. UnsubscribedFrom(<<m>>, record[c], FALSE, 0)
    BY <1>6, <1>9, <2>1 DEF UnsubscribedFrom
  <2>. QED BY <2>1, <2>2, <2>3 DEF Follows
<1>12. ClientFollows(c)'
  <2>1. (c \in subbed') = FALSE /\ (conn'[c] \in gw'.subs) = FALSE
    BY <1>4, <1>8, <1>9
  <2>. QED BY <1>3, <1>4, <1>5, <1>11, <2>1 DEF ClientFollows
<1>. QED BY <1>10, <1>12 DEF ClientInv

\* A client that connects is told the registry, and others notice nothing.
LEMMA ClientHelloIsFollowed ==
  ASSUME IInv, NEW a \in Clients, Hello(a), NEW c \in Clients, ClientInv(c), a # c
  PROVE  ClientInv(c)'
<1>. DEFINE n == Len(owner)
            g == [gw EXCEPT !.peers = @ \cup {n + 1}]
<1>1. a \in Actors /\ a # Backend /\ c \in Actors /\ Backend \in Actors
  BY ClientFacts
<1>2. /\ n \in Nat /\ gw \in Gateways(n) /\ GatewayIsRight(gw)
      /\ inbox \in [Actors -> Seq(Messages)]
      /\ conn[c] \in Sessions \cup {0}
      /\ gw.subs # {} => gw.lease \in Sessions
  BY KnownEpochs, ClientFacts DEF IInv, Typed
<1>3. g.item = gw.item /\ g.subs = gw.subs /\ g.lease = gw.lease /\ g.peers = gw.peers \cup {n + 1}
  BY <1>2, AddPeerIsRight
<1>4. /\ owner' = Append(owner, a) /\ outbox' = Append(outbox, <<>>)
      /\ gw' = g /\ conn' = [conn EXCEPT ![a] = n + 1]
      /\ inbox' = [inbox EXCEPT ![a] = <<Message("peer_ready", g.item)>>]
      /\ UNCHANGED <<record, asked, subbed>>
  BY <1>1 DEF Hello, clientVars
<1>5. inbox'[c] = inbox[c] /\ inbox'[Backend] = inbox[Backend]
  BY <1>1, <1>2, <1>4
<1>. HIDE DEF g
<1>6. /\ n + 1 \notin Sessions /\ conn'[c] = conn[c] /\ conn'[Backend] = conn[Backend]
      /\ \A t \in Sessions : outbox'[t] = outbox[t]
  BY <1>1, <1>4, HelloDoes
<1>7. Connected(c)' => Connected(c) /\ outbox'[conn[c]] = outbox[conn[c]]
  BY <1>2, <1>3, <1>4, <1>6 DEF Connected
<1>8. gw.subs # {} => (DataUnderWay => DataUnderWay')
  BY <1>2, <1>3, <1>4, <1>5, <1>6 DEF DataUnderWay
<1>. QED BY <1>3, <1>4, <1>5, <1>6, <1>7, <1>8, Bystander

\* The backend is registered, and everybody is told.
LEMMA BackendHelloIsFollowed ==
  ASSUME IInv, Hello(Backend), NEW c \in Clients, ClientInv(c)
  PROVE  ClientInv(c)'
<1>. DEFINE n == Len(owner)
            g == Register(gw, n + 1)
            T == gw.peers
            told == ToldGone(inbox, gw.subs, T, n + 1)
<1>1. Backend # c /\ c \in Actors /\ Backend \in Actors
  BY ClientFacts
<1>2. /\ n \in Nat /\ gw \in Gateways(n) /\ GatewayIsRight(gw)
      /\ conn[c] \in Sessions \cup {0} /\ n + 1 \in Nat
  BY KnownEpochs, ClientFacts DEF IInv, Typed
<1>3. g.item = n + 1 /\ g.subs = {} /\ g.peers = T \cup {n + 1}
  <2>1. /\ g.item = n + 1 /\ g.lease = n + 1 /\ ~g.active /\ GatewayIsRight(g)
        /\ g.peers = T \cup {n + 1}
    BY <1>2, RegisterIsRight
  <2>. QED BY <2>1 DEF GatewayIsRight
<1>4. /\ owner' = Append(owner, Backend) /\ outbox' = Append(outbox, <<>>)
      /\ gw' = g /\ conn' = [conn EXCEPT ![Backend] = n + 1]
      /\ inbox' = [ToldGone(inbox, IF gw.lease # 0 THEN gw.subs ELSE {}, T, n + 1)
                     EXCEPT ![Backend] = <<Message("peer_ready", g.item)>>]
      /\ UNCHANGED <<record, asked, subbed>>
  BY DEF Hello, clientVars
<1>5. (IF gw.lease # 0 THEN gw.subs ELSE {}) = gw.subs
  BY <1>2 DEF GatewayIsRight
<1>6. inbox' = [told EXCEPT ![Backend] = <<Message("peer_ready", g.item)>>]
  BY <1>4, <1>5
<1>7. inbox'[c] = told[c]
  BY <1>1, <1>6 DEF ToldGone, Sent
<1>. HIDE DEF g
<1>8. /\ n + 1 \notin Sessions /\ conn'[c] = conn[c] /\ \A t \in Sessions : outbox'[t] = outbox[t]
  BY <1>1, <1>4, HelloDoes
<1>9. Connected(c)' => Connected(c) /\ conn[c] \in T /\ outbox'[conn[c]] = outbox[conn[c]]
  BY <1>2, <1>3, <1>4, <1>8 DEF Connected
<1>. HIDE DEF T, n
<1>. QED BY <1>2, <1>3, <1>4, <1>7, <1>8, <1>9, ClientIsTold

\* What an actor adds to the requests of its session.
LEMMA PostTypes ==
  ASSUME IInv, NEW s, NEW type \in {"subscribe", "unsubscribe", "heartbeat", "data"}
  PROVE  \A t \in Sessions :
           /\ Types(outbox[t]) \subseteq Types(Post(s, type)[t])
           /\ t # s => Post(s, type)[t] = outbox[t]
           /\ t = s /\ s \in gw.peers => Types(Post(s, type)[t]) = Types(outbox[t]) \cup {type}
<1>1. outbox \in [Sessions -> Seq(Requests)] /\ [type |-> type] \in Requests
  BY DEF IInv, Typed, Requests
<1>2. ASSUME NEW t \in Sessions
      PROVE  Types(Append(outbox[t], [type |-> type])) = Types(outbox[t]) \cup {type}
  BY <1>1, TypesOfAppend
<1>3. ASSUME NEW t \in Sessions
      PROVE  Post(s, type)[t] = IF t = s /\ s \in gw.peers THEN Append(outbox[t], [type |-> type]) ELSE outbox[t]
  BY <1>1 DEF Post
<1>. QED BY <1>2, <1>3

-----------------------------------------------------------------------------
(* The backend and the clients, for a client.                              *)

\* What the backend does changes only what it is about to send.
LEMMA BackendIsFollowed ==
  ASSUME IInv, BackendReads \/ Heartbeat \/ PushData \/ BackendDrops, NEW c \in Clients,
         ClientInv(c)
  PROVE  ClientInv(c)'
<1>1. /\ c \in Actors /\ Backend \in Actors /\ c # Backend /\ conn[c] \in Sessions \cup {0}
      /\ inbox[Backend] \in Seq(Messages)
      /\ inbox \in [Actors -> Seq(Messages)] /\ conn \in [Actors -> Sessions \cup {0}]
      /\ Connected(c) => conn[c] \in Sessions
      /\ gw.subs # {} => gw.lease # 0 /\ gw.lease \in Sessions /\ gw.lease \in gw.peers
  BY ClientFacts DEF IInv, Typed
<1>2. /\ UNCHANGED <<gw, record, asked, subbed>> /\ conn'[c] = conn[c] /\ inbox'[c] = inbox[c]
  BY <1>1 DEF BackendReads, Heartbeat, PushData, BackendDrops, clientVars
<1>3. \A t \in Sessions : Types(outbox[t]) \subseteq Types(outbox'[t])
  <2>1. \/ outbox' = outbox \/ outbox' = Post(conn[Backend], "heartbeat")
        \/ outbox' = Post(conn[Backend], "data")
    BY DEF BackendReads, Heartbeat, PushData, BackendDrops
  <2>. QED BY <2>1, PostTypes
<1>4. Connected(c)' => Connected(c)
  BY <1>2 DEF Connected
<1>5. ASSUME gw.subs # {}, conn'[Backend] = gw'.lease
      PROVE  conn[Backend] = gw.lease /\ (DataUnderWay => DataUnderWay')
  <2>1. CASE BackendDrops
    <3>1. conn'[Backend] = 0
      BY <1>1, <2>1 DEF BackendDrops
    <3>. QED BY <1>1, <1>2, <1>5, <3>1
  <2>2. CASE Heartbeat \/ PushData
    <3>1. UNCHANGED <<conn, inbox>>
      BY <2>2 DEF Heartbeat, PushData
    <3>. QED BY <1>1, <1>2, <1>3, <1>5, <3>1 DEF DataUnderWay
  <2>3. CASE BackendReads
    <3>. DEFINE m == Head(inbox[Backend])
    <3>1. /\ inbox[Backend] # <<>> /\ inbox' = [inbox EXCEPT ![Backend] = Tail(@)] /\ conn' = conn
          /\ outbox' = IF m.type \in {"peer_ready", "request_data"} THEN Post(conn[Backend], "data") ELSE outbox
      BY <2>3 DEF BackendReads
    <3>2. /\ inbox'[Backend] = Tail(inbox[Backend])
          /\ Types(inbox[Backend]) = Types(Tail(inbox[Backend])) \cup {m.type}
      BY <1>1, <3>1, TypesOfTail
    <3>. HIDE DEF m
    <3>3. m.type \in {"peer_ready", "request_data"} => "data" \in Types(outbox'[gw.lease])
      <4>1. Types(Post(gw.lease, "data")[gw.lease]) = Types(outbox[gw.lease]) \cup {"data"}
        BY <1>1, <1>5, PostTypes
      <4>. QED BY <1>2, <1>5, <3>1, <4>1
    <3>. QED BY <1>1, <1>2, <1>3, <1>5, <3>1, <3>2, <3>3 DEF DataUnderWay
  <2>. QED BY <2>1, <2>2, <2>3
<1>. QED BY <1>1, <1>2, <1>3, <1>4, <1>5, Bystander

\* What a client does concerns its own record, queue and session.
TouchesOnly(c) ==
  /\ UNCHANGED gw
  /\ \A d \in Clients : d # c =>
       record'[d] = record[d] /\ asked'[d] = asked[d] /\ ((d \in subbed') = (d \in subbed))
  /\ \A a \in Actors : a # c => conn'[a] = conn[a] /\ inbox'[a] = inbox[a]
  /\ \A t \in Sessions : t # conn[c] => outbox'[t] = outbox[t]
  /\ \A t \in Sessions : Types(outbox[t]) \subseteq Types(outbox'[t])

\* What a client does no other notices.
LEMMA OthersAreFollowed ==
  ASSUME IInv, NEW a \in Clients, TouchesOnly(a), NEW c \in Clients, ClientInv(c), a # c
  PROVE  ClientInv(c)'
<1>1. /\ c \in Actors /\ a \in Actors /\ Backend \in Actors /\ a # Backend
      /\ gw.subs # {} => gw.lease # 0 /\ gw.lease \in Sessions
      /\ Connected(c) => conn[c] \in Sessions /\ conn[a] # conn[c]
  BY ClientFacts
<1>2. /\ UNCHANGED gw /\ conn'[c] = conn[c] /\ conn'[Backend] = conn[Backend]
      /\ inbox'[c] = inbox[c] /\ inbox'[Backend] = inbox[Backend]
      /\ record'[c] = record[c] /\ asked'[c] = asked[c] /\ ((c \in subbed') = (c \in subbed))
  BY <1>1 DEF TouchesOnly
<1>3. Connected(c)' => Connected(c) /\ outbox'[conn[c]] = outbox[conn[c]]
  BY <1>1, <1>2 DEF Connected, TouchesOnly
<1>4. gw.subs # {} => (DataUnderWay => DataUnderWay')
  BY <1>1, <1>2 DEF DataUnderWay, TouchesOnly
<1>. QED BY <1>2, <1>3, <1>4, Bystander

\* What a client does to its own record.
LEMMA OwnStep ==
  ASSUME IInv, NEW c \in Clients, ClientInv(c), TouchesOnly(c), conn'[c] = conn[c],
         inbox'[c] = inbox[c],
         (c \in subbed') = (c \in subbed),
         record'[c].epoch = record[c].epoch, record'[c].subscribed = record[c].subscribed,
         record[c].subscribed => record'[c].data = record[c].data
  PROVE  ClientInOrder(c)' /\ ClientFollows(c)' /\ ClientGetsData(c)'
<1>1. /\ c # Backend /\ Backend \in Actors
      /\ gw.subs # {} => gw.lease # 0 /\ gw.lease \in Sessions
      /\ Connected(c) => conn[c] \in Sessions
  BY ClientFacts
<1>2. UNCHANGED gw /\ conn'[Backend] = conn[Backend] /\ inbox'[Backend] = inbox[Backend]
  BY <1>1 DEF TouchesOnly
<1>3. (Connected(c)' => Connected(c)) /\ (Connected(c) /\ Agreed(c)' => Agreed(c))
  BY <1>1, <1>2 DEF Connected, Agreed, TouchesOnly
<1>4. ClientInOrder(c)'
  BY DEF ClientInv, ClientInOrder
<1>5. ClientFollows(c)'
  <2>. SUFFICES ASSUME Connected(c)'
                PROVE  Follows(inbox'[c], record'[c], c \in subbed', gw'.item, conn'[c] \in gw'.subs, Agreed(c)')
    BY DEF ClientFollows
  <2>1. Follows(inbox[c], record[c], c \in subbed, gw.item, conn[c] \in gw.subs, Agreed(c))
    BY <1>3 DEF ClientInv, ClientFollows
  <2>2. Follows(inbox[c], record'[c], c \in subbed, gw.item, conn[c] \in gw.subs, Agreed(c))
    BY <2>1, SameRecord
  <2>. QED BY <1>2, <1>3, <2>2 DEF Follows
<1>6. ClientGetsData(c)'
  <2>. SUFFICES ASSUME Connected(c)', conn[c] \in gw.subs, Agreed(c)', conn[Backend] = gw.lease
                PROVE  HasData(inbox'[c], record'[c], gw.item) \/ DataUnderWay'
    BY <1>2 DEF ClientGetsData
  <2>1. HasData(inbox[c], record[c], gw.item) \/ DataUnderWay
    BY <1>3 DEF ClientInv, ClientGetsData
  <2>2. DataUnderWay => DataUnderWay'
    BY <1>1, <1>2 DEF DataUnderWay, TouchesOnly
  <2>3. HasData(inbox[c], record[c], gw.item) => HasData(inbox[c], record'[c], gw.item)
    BY SameRecord
  <2>. QED BY <2>1, <2>2, <2>3
<1>. QED BY <1>4, <1>5, <1>6

\* What a client reads.
LEMMA OwnRead ==
  ASSUME IInv, NEW c \in Clients, ClientInv(c), TouchesOnly(c), conn'[c] = conn[c], conn[c] # 0,
         inbox[c] # <<>>, inbox'[c] = Tail(inbox[c]),
         Reads(Head(inbox[c]), record[c], c \in subbed, record'[c], c \in subbed'),
         record'[c].subscribed => c \in subbed'
  PROVE  ClientInOrder(c)' /\ ClientFollows(c)' /\ ClientGetsData(c)'
<1>. DEFINE box == inbox[c]
            listed == c \in subbed
            lists == c \in subbed'
            r == record[c]
            q == record'[c]
<1>1. /\ c # Backend /\ Backend \in Actors /\ box \in Seq(Messages)
      /\ gw.subs # {} => gw.lease # 0 /\ gw.lease \in Sessions
      /\ Connected(c) => conn[c] \in Sessions
  BY ClientFacts
<1>2. UNCHANGED gw /\ conn'[Backend] = conn[Backend] /\ inbox'[Backend] = inbox[Backend]
  BY <1>1 DEF TouchesOnly
<1>3. (Connected(c)' => Connected(c)) /\ (Connected(c) /\ Agreed(c)' => Agreed(c))
  BY <1>1, <1>2 DEF Connected, Agreed, TouchesOnly
<1>4. ClientInOrder(c)'
  BY DEF ClientInOrder
<1>5. /\ \A e : HearsEpoch(box, r.epoch, e) => HearsEpoch(Tail(box), q.epoch, e)
      /\ \A e : \A i \in 0..Len(box) : SubscribedFrom(box, r, e, i) =>
           \E k \in 0..Len(Tail(box)) :
             /\ SubscribedFrom(Tail(box), q, e, k)
             /\ (i = 0 /\ r.data) \/ (\E j \in (i + 1)..Len(box) : box[j].type = "data") =>
                  (k = 0 /\ q.data) \/ \E j \in (k + 1)..Len(Tail(box)) : Tail(box)[j].type = "data"
      /\ \A i \in 0..Len(box) : UnsubscribedFrom(box, r, listed, i) =>
           \E k \in 0..Len(Tail(box)) : UnsubscribedFrom(Tail(box), q, lists, k)
  <2>1. /\ box # <<>> /\ listed \in BOOLEAN /\ lists \in BOOLEAN
        /\ Reads(Head(box), r, listed, q, lists)
    OBVIOUS
  <2>. HIDE DEF box, listed, lists, r, q
  <2>2. ASSUME NEW e PROVE KeepsUp(box, r, listed, q, lists, e)
    BY <1>1, <2>1, ReadIsFollowed
  <2>. QED BY <2>2, Zenon DEF KeepsUp
<1>6. ClientFollows(c)'
  <2>. SUFFICES ASSUME Connected(c)'
                PROVE  Follows(Tail(box), q, lists, gw.item, conn[c] \in gw.subs, Agreed(c)')
    BY <1>2 DEF ClientFollows
  <2>1. Follows(box, r, listed, gw.item, conn[c] \in gw.subs, Agreed(c))
    BY <1>3 DEF ClientInv, ClientFollows
  <2>. HIDE DEF box, listed, lists, r, q
  <2>2. HearsEpoch(Tail(box), q.epoch, gw.item)
    BY <1>5, <2>1 DEF Follows
  <2>3. Agreed(c)' /\ conn[c] \in gw.subs =>
          \E k \in 0..Len(Tail(box)) : SubscribedFrom(Tail(box), q, gw.item, k)
    BY <1>3, <1>5, <2>1 DEF Follows
  <2>4. Agreed(c)' /\ conn[c] \notin gw.subs =>
          \E k \in 0..Len(Tail(box)) : UnsubscribedFrom(Tail(box), q, lists, k)
    BY <1>3, <1>5, <2>1 DEF Follows
  <2>. QED BY <2>2, <2>3, <2>4 DEF Follows
<1>7. ClientGetsData(c)'
  <2>. SUFFICES ASSUME Connected(c)', conn[c] \in gw.subs, Agreed(c)', conn[Backend] = gw.lease
                PROVE  HasData(Tail(box), q, gw.item) \/ DataUnderWay'
    BY <1>2 DEF ClientGetsData
  <2>1. HasData(box, r, gw.item) \/ DataUnderWay
    BY <1>3 DEF ClientInv, ClientGetsData
  <2>2. DataUnderWay => DataUnderWay'
    BY <1>1, <1>2 DEF DataUnderWay, TouchesOnly
  <2>. HIDE DEF box, listed, lists, r, q
  <2>3. HasData(box, r, gw.item) => HasData(Tail(box), q, gw.item)
    BY <1>5 DEF HasData
  <2>. QED BY <2>1, <2>2, <2>3
<1>. QED BY <1>4, <1>6, <1>7

\* openBackend, of the record r: the request is posted, or the transport lists the
\* backend, or there is no socket.
LEMMA OpenedDoes ==
  ASSUME IInv, NEW c \in Clients, NEW r \in Records, Opened(c, r)
  PROVE  /\ \A d \in Clients : d # c => record'[d] = record[d] /\ asked'[d] = asked[d]
         /\ record'[c] = IF r.epoch # 0 THEN MarkSubscribing(r) ELSE r
         /\ \A t \in Sessions : t # conn[c] => outbox'[t] = outbox[t]
         /\ \A t \in Sessions : /\ Types(outbox[t]) \subseteq Types(outbox'[t])
                                /\ "unsubscribe" \in Types(outbox'[t]) =>
                                     "unsubscribe" \in Types(outbox[t])
         /\ \/ outbox' = outbox /\ asked' = asked /\ (r.epoch = 0 \/ c \in subbed \/ conn[c] = 0)
            \/ conn[c] \in gw.peers => "subscribe" \in Types(outbox'[conn[c]])
<1>. DEFINE sends == r.epoch # 0 /\ c \notin subbed /\ conn[c] # 0
            p == Post(conn[c], "subscribe")
<1>1. /\ record' = [record EXCEPT ![c] = IF r.epoch # 0 THEN MarkSubscribing(r) ELSE r]
      /\ outbox' = IF sends THEN p ELSE outbox
      /\ asked' = IF sends THEN [asked EXCEPT ![c] = conn[c]] ELSE asked
  BY Zenon DEF Opened
<1>2. record \in [Clients -> Records] /\ asked \in [Clients -> Sessions \cup {0}]
  BY DEF IInv, Typed
<1>3. /\ \A d \in Clients : d # c => record'[d] = record[d] /\ asked'[d] = asked[d]
      /\ record'[c] = IF r.epoch # 0 THEN MarkSubscribing(r) ELSE r
  BY <1>1, <1>2
<1>4. ASSUME NEW t \in Sessions
      PROVE  /\ Types(outbox[t]) \subseteq Types(p[t])
             /\ t # conn[c] => p[t] = outbox[t]
             /\ t = conn[c] /\ conn[c] \in gw.peers =>
                  Types(p[t]) = Types(outbox[t]) \cup {"subscribe"}
             /\ conn[c] \notin gw.peers => p[t] = outbox[t]
  <2>1. conn[c] \notin gw.peers => p[t] = outbox[t]
    BY DEF Post, IInv, Typed
  <2>2. "subscribe" \in {"subscribe", "unsubscribe", "heartbeat", "data"}
    OBVIOUS
  <2>. QED BY <2>1, <2>2, PostTypes
<1>5. ASSUME NEW t \in Sessions
      PROVE  "unsubscribe" \in Types(p[t]) => "unsubscribe" \in Types(outbox[t])
  BY <1>4
<1>6. conn[c] \in gw.peers => conn[c] \in Sessions
  BY ClientFacts
<1>. HIDE DEF p
<1>7. \A t \in Sessions : t # conn[c] => outbox'[t] = outbox[t]
  BY <1>1, <1>4
<1>8. \A t \in Sessions : /\ Types(outbox[t]) \subseteq Types(outbox'[t])
                          /\ "unsubscribe" \in Types(outbox'[t]) =>
                               "unsubscribe" \in Types(outbox[t])
  BY <1>1, <1>4, <1>5
<1>9. sends /\ conn[c] \in gw.peers => "subscribe" \in Types(outbox'[conn[c]])
  BY <1>1, <1>4, <1>6
<1>. QED BY <1>1, <1>3, <1>7, <1>8, <1>9

\* A client that opens a backend on a connection is answered: it asks, or the
\* transport lists the backend, and then the record knows it or will.
LEMMA OpeningIsAnswered ==
  ASSUME IInv, NEW c \in Clients, NEW r \in Records, Opened(c, r), r.epoch # 0,
         UNCHANGED <<gw, conn, subbed>>,
         inbox'[c] \in Seq(Messages), ClientFollows(c)'
  PROVE  ClientIsAnswered(c)'
<1>. SUFFICES ASSUME Connected(c)', ~record'[c].subscribed
              PROVE  \/ "subscribe" \in Types(outbox'[conn[c]])
                     \/ Types(inbox'[c]) \cap {"subscribed", "unsubscribed"} # {}
                     \/ "unsubscribe" \in Types(outbox'[conn[c]])
  BY DEF ClientIsAnswered
<1>1. conn[c] # 0 /\ conn[c] \in gw.peers
  BY DEF Connected
<1>2. CASE c \in subbed /\ "unsubscribe" \notin Types(outbox'[conn[c]])
  <2>1. (c \in subbed') = TRUE /\ Agreed(c)' = TRUE
    BY <1>2 DEF Agreed
  <2>. DEFINE on == conn'[c] \in gw'.subs
              box == inbox'[c]
              q == record'[c]
              e == gw'.item
  <2>2. Follows(box, q, TRUE, e, on, TRUE)
    BY <2>1 DEF ClientFollows
  <2>3. on \in BOOLEAN /\ ~q.subscribed /\ Len(box) \in Nat
    BY LenProperties
  <2>. HIDE DEF on, box, q, e
  <2>4. Types(box) \cap {"subscribed", "unsubscribed"} # {}
    BY <2>2, <2>3, ListedIsAnswered
  <2>. QED BY <2>4 DEF box
<1>. QED BY <1>1, <1>2, OpenedDoes

\* A user opens the backend,
LEMMA OpenIsFollowed ==
  ASSUME IInv, NEW c \in Clients, Open(c)
  PROVE  TouchesOnly(c) /\ (ClientInv(c) => ClientInv(c)')
<1>1. Opened(c, record[c]) /\ UNCHANGED <<gw, conn, inbox, subbed>>
  BY DEF Open
<1>2. record[c] \in Records /\ inbox[c] \in Seq(Messages)
  BY ClientsKnow, ClientFacts
<1>. DEFINE r == record[c]
            q == IF r.epoch # 0 THEN MarkSubscribing(r) ELSE r
<1>3. /\ \A d \in Clients : d # c => record'[d] = record[d] /\ asked'[d] = asked[d]
      /\ record'[c] = q
      /\ \A t \in Sessions : t # conn[c] => outbox'[t] = outbox[t]
      /\ \A t \in Sessions : /\ Types(outbox[t]) \subseteq Types(outbox'[t])
                             /\ "unsubscribe" \in Types(outbox'[t]) =>
                                  "unsubscribe" \in Types(outbox[t])
      /\ \/ outbox' = outbox /\ asked' = asked /\ (r.epoch = 0 \/ c \in subbed \/ conn[c] = 0)
         \/ conn[c] \in gw.peers => "subscribe" \in Types(outbox'[conn[c]])
  BY <1>1, <1>2, OpenedDoes
<1>4. TouchesOnly(c)
  BY <1>1, <1>3 DEF TouchesOnly
<1>5. ASSUME ClientInv(c) PROVE ClientInv(c)'
  <2>1. q.epoch = r.epoch /\ q.subscribed = r.subscribed /\ q.data = r.data
    BY <1>2 DEF MarkSubscribing, Records
  <2>. HIDE DEF q
  <2>2. ClientInOrder(c)' /\ ClientFollows(c)' /\ ClientGetsData(c)'
    BY <1>1, <1>3, <1>4, <1>5, <2>1, OwnStep
  <2>3. CASE r.epoch # 0
    <3>1. ClientIsAnswered(c)'
      BY <1>1, <1>2, <2>2, <2>3, OpeningIsAnswered
    <3>. QED BY <2>2, <3>1 DEF ClientInv
  <2>4. CASE r.epoch = 0
    <3>1. ClientIsAnswered(c)'
      BY <1>1, <1>3, <1>5, <2>4 DEF ClientInv, ClientIsAnswered, Connected, q
    <3>. QED BY <2>2, <3>1 DEF ClientInv
  <2>. QED BY <2>3, <2>4
<1>. QED BY <1>4, <1>5

\* or closes it.
LEMMA CloseIsFollowed ==
  ASSUME IInv, NEW c \in Clients, Close(c)
  PROVE  TouchesOnly(c) /\ (ClientInv(c) => ClientInv(c)')
<1>. DEFINE r == record[c]
            p == Post(conn[c], "unsubscribe")
<1>1. /\ record' = IF r.subscribed THEN [record EXCEPT ![c] = MarkUnsubscribed(@)] ELSE record
      /\ outbox' = IF r.subscribed /\ conn[c] # 0 THEN p ELSE outbox
      /\ UNCHANGED <<gw, conn, inbox, subbed, asked>>
  BY DEF Close
<1>2. record \in [Clients -> Records] /\ r \in Records
  BY ClientsKnow
<1>3. ASSUME NEW t \in Sessions
      PROVE  /\ Types(outbox[t]) \subseteq Types(p[t])
             /\ t # conn[c] => p[t] = outbox[t]
             /\ t = conn[c] /\ conn[c] \in gw.peers =>
                  Types(p[t]) = Types(outbox[t]) \cup {"unsubscribe"}
  <2>1. "unsubscribe" \in {"subscribe", "unsubscribe", "heartbeat", "data"}
    OBVIOUS
  <2>. QED BY <2>1, PostTypes
<1>. HIDE DEF p
<1>4. TouchesOnly(c)
  BY <1>1, <1>2, <1>3 DEF TouchesOnly
<1>5. ASSUME ClientInv(c) PROVE ClientInv(c)'
  <2>1. CASE r.subscribed
    <3>1. /\ record'[c].epoch = r.epoch /\ ~record'[c].subscribed
          /\ record'[c].open = "unsubscribed"
      BY <1>1, <1>2, <2>1 DEF MarkUnsubscribed, Records
    <3>2. Connected(c)' => Connected(c) /\ ~Agreed(c)'
      <4>1. Connected(c) => conn[c] \in Sessions
        BY ClientFacts
      <4>. QED BY <1>1, <1>3, <2>1, <4>1 DEF Connected, Agreed
    <3>3. ClientFollows(c)'
      <4>. SUFFICES ASSUME Connected(c)'
                    PROVE  Follows(inbox[c], record'[c], c \in subbed, gw.item, conn[c] \in gw.subs, FALSE)
        <5>1. Connected(c)' => Agreed(c)' = FALSE
          BY <3>2 DEF Agreed
        <5>. QED BY <1>1, <5>1 DEF ClientFollows
      <4>1. HearsEpoch(inbox[c], r.epoch, gw.item)
        BY <1>5, <3>2 DEF ClientInv, ClientFollows, Follows
      <4>. QED BY <3>1, <4>1 DEF Follows
    <3>. QED BY <1>1, <1>5, <3>1, <3>2, <3>3 DEF ClientInv, ClientInOrder, ClientIsAnswered, ClientGetsData
  <2>2. CASE ~r.subscribed
    <3>1. UNCHANGED <<gw, conn, record, asked, subbed, inbox, outbox>>
      BY <1>1, <2>2
    <3>. QED BY <1>5, <3>1, Bystander DEF Connected, DataUnderWay
  <2>. QED BY <2>1, <2>2
<1>. QED BY <1>4, <1>5

\* A client forgets a backend,
LEMMA CollectionIsFollowed ==
  ASSUME IInv, NEW c \in Clients, CollectGarbage(c)
  PROVE  TouchesOnly(c) /\ (ClientInv(c) => ClientInv(c)')
<1>1. /\ record[c].epoch = 0 /\ ~record[c].subscribed /\ record' = [record EXCEPT ![c] = NoRecord]
      /\ UNCHANGED <<gw, outbox, conn, inbox, subbed, asked>>
  BY DEF CollectGarbage
<1>2. record \in [Clients -> Records] /\ record[c] \in Records
  BY ClientsKnow
<1>3. record'[c] = NoRecord /\ TouchesOnly(c)
  BY <1>1, <1>2 DEF TouchesOnly
<1>4. NoRecord.epoch = 0 /\ NoRecord.subscribed = FALSE /\ NoRecord.open = "unsubscribed"
  BY DEF NoRecord
<1>5. ASSUME ClientInv(c) PROVE ClientInv(c)'
  <2>1. record'[c].epoch = record[c].epoch /\ record'[c].subscribed = record[c].subscribed
    BY <1>1, <1>2, <1>3, <1>4 DEF Records
  <2>2. ClientInOrder(c)' /\ ClientFollows(c)' /\ ClientGetsData(c)'
    BY <1>1, <1>3, <1>5, <2>1, OwnStep
  <2>3. ClientIsAnswered(c)'
    BY <1>3, <1>4 DEF ClientIsAnswered
  <2>. QED BY <2>2, <2>3 DEF ClientInv
<1>. QED BY <1>3, <1>5

\* loses its socket,
LEMMA DisconnectionIsFollowed ==
  ASSUME IInv, NEW c \in Clients, Offline(c) \/ ClientDrops(c)
  PROVE  TouchesOnly(c) /\ (ClientInv(c) => ClientInv(c)')
<1>1. /\ conn' = [conn EXCEPT ![c] = 0] /\ inbox' = [inbox EXCEPT ![c] = <<>>]
      /\ record' = IF c \in subbed THEN [record EXCEPT ![c] = MarkUnsubscribed(@)] ELSE record
      /\ subbed' = subbed \ {c} /\ UNCHANGED <<gw, outbox, asked>>
  BY DEF Offline, ClientDrops, Disconnected
<1>2. record \in [Clients -> Records] /\ record[c] \in Records /\ c \in Actors
  BY ClientsKnow, ClientFacts
<1>3. conn \in [Actors -> Sessions \cup {0}] /\ inbox \in [Actors -> Seq(Messages)]
  BY DEF IInv, Typed
<1>4. TouchesOnly(c)
  BY <1>1, <1>2, <1>3 DEF TouchesOnly
<1>5. ASSUME ClientInv(c) PROVE ClientInv(c)'
  <2>1. conn'[c] = 0 /\ c \notin subbed'
    BY <1>1, <1>2, <1>3
  <2>2. ~record'[c].subscribed
    BY <1>1, <1>2, <1>5 DEF ClientInv, ClientInOrder, MarkUnsubscribed, Records
  <2>. QED BY <2>1, <2>2
           DEF ClientInv, ClientInOrder, ClientFollows, ClientIsAnswered, ClientGetsData, Connected
<1>. QED BY <1>4, <1>5

\* The registry: what it does to the record.
LEMMA SnapshotDoes ==
  ASSUME NEW r \in Records, NEW e \in Nat
  PROVE  LET q == ApplyRegistrySnapshot(r, e) IN
         /\ q \in Records /\ q.epoch = e /\ (q.subscribed => r.subscribed)
         /\ e = r.epoch => q = r
         /\ e = 0 /\ r.epoch # 0 => ~q.subscribed
         /\ q.open = "subscribing" => r.open = "subscribing" /\ q.subscribed = r.subscribed
<1>1. CASE e = r.epoch
  BY <1>1 DEF ApplyRegistrySnapshot
<1>2. CASE e # r.epoch /\ e = 0
  BY <1>2 DEF ApplyRegistrySnapshot, Records
<1>3. CASE e # r.epoch /\ e # 0 /\ r.epoch = 0
  BY <1>3 DEF ApplyRegistrySnapshot, Records
<1>4. CASE e # r.epoch /\ e # 0 /\ r.epoch # 0
  BY <1>4 DEF ApplyRegistrySnapshot, Records
<1>. QED BY <1>1, <1>2, <1>3, <1>4

\* or reads the registry and opens again what is desired.
LEMMA ApplyRegistryIsFollowed ==
  ASSUME IInv, NEW c \in Clients, ApplyRegistry(c)
  PROVE  TouchesOnly(c) /\ (ClientInv(c) => ClientInv(c)')
<1>. DEFINE item == Head(inbox[c]).epoch
            r == record[c]
            p == ApplyRegistrySnapshot(r, item)
            q == record'[c]
<1>1. /\ conn[c] # 0 /\ inbox[c] # <<>> /\ Head(inbox[c]).type \in {"registry", "peer_ready"}
      /\ inbox' = [inbox EXCEPT ![c] = Tail(@)] /\ UNCHANGED <<gw, conn>>
      /\ subbed' = IF item = 0 /\ r.epoch # 0 THEN subbed \ {c} ELSE subbed
      /\ \/ p.epoch # 0 /\ Opened(c, p)
         \/ record' = [record EXCEPT ![c] = p] /\ UNCHANGED <<outbox, asked>>
  BY Zenon DEF ApplyRegistry, ClientReads, Reopens
<1>2. /\ record \in [Clients -> Records] /\ r \in Records /\ item \in Nat
      /\ c \in Actors /\ inbox[c] \in Seq(Messages) /\ inbox \in [Actors -> Seq(Messages)]
  BY <1>1, ClientsKnow, ClientFacts DEF IInv, Typed
<1>3. /\ p \in Records /\ p.epoch = item /\ (p.subscribed => r.subscribed)
      /\ item = r.epoch => p = r
      /\ item = 0 /\ r.epoch # 0 => ~p.subscribed
      /\ p.open = "subscribing" => r.open = "subscribing" /\ p.subscribed = r.subscribed
  BY <1>2, SnapshotDoes
<1>4. inbox'[c] = Tail(inbox[c]) /\ \A a \in Actors : a # c => inbox'[a] = inbox[a]
  BY <1>1, <1>2
<1>5. \A d \in Clients : d # c => ((d \in subbed') = (d \in subbed))
  BY <1>1
<1>. HIDE DEF item, r, p
<1>6. /\ TouchesOnly(c) /\ q.epoch = p.epoch /\ q.subscribed = p.subscribed /\ q.data = p.data
  <2>1. CASE Opened(c, p)
    <3>1. /\ \A d \in Clients : d # c => record'[d] = record[d] /\ asked'[d] = asked[d]
          /\ q = p \/ q = MarkSubscribing(p)
          /\ \A t \in Sessions : t # conn[c] => outbox'[t] = outbox[t]
          /\ \A t \in Sessions : Types(outbox[t]) \subseteq Types(outbox'[t])
      BY <1>3, <2>1, OpenedDoes
    <3>2. TouchesOnly(c)
      BY <1>1, <1>4, <1>5, <3>1 DEF TouchesOnly
    <3>. QED BY <1>3, <3>1, <3>2 DEF MarkSubscribing, Records
  <2>2. CASE record' = [record EXCEPT ![c] = p] /\ UNCHANGED <<outbox, asked>>
    <3>1. q = p /\ \A d \in Clients : d # c => record'[d] = record[d]
      BY <1>2, <2>2
    <3>2. TouchesOnly(c)
      BY <1>1, <1>4, <1>5, <2>2, <3>1 DEF TouchesOnly
    <3>. QED BY <3>1, <3>2
  <2>. QED BY <1>1, <2>1, <2>2
<1>7. ASSUME ClientInv(c) PROVE ClientInv(c)'
  <2>1. r.subscribed => c \in subbed
    BY <1>7 DEF ClientInv, ClientInOrder, r
  <2>2. Reads(Head(inbox[c]), record[c], c \in subbed, record'[c], c \in subbed')
    <3>1. q.epoch = Head(inbox[c]).epoch
      BY <1>3, <1>6 DEF item
    <3>2. (q.subscribed => r.subscribed) /\ (c \in subbed' => c \in subbed)
      BY <1>1, <1>3, <1>6
    <3>3. item = r.epoch => q.subscribed = r.subscribed /\ q.data = r.data
      BY <1>3, <1>6
    <3>. QED BY <1>1, <3>1, <3>2, <3>3 DEF Reads, item, r
  <2>3. q.subscribed => c \in subbed'
    BY <1>1, <1>3, <1>6, <2>1
  <2>4. ClientInOrder(c)' /\ ClientFollows(c)' /\ ClientGetsData(c)'
    BY <1>1, <1>4, <1>6, <1>7, <2>2, <2>3, OwnRead
  <2>5. ClientIsAnswered(c)'
    <3>1. CASE p.epoch # 0 /\ Opened(c, p)
      <4>1. inbox'[c] \in Seq(Messages)
        BY <1>1, <1>2, <1>4, HeadTailProperties
      <4>2. UNCHANGED <<gw, conn, subbed>>
        BY <1>1, <1>3, <3>1
      <4>. QED BY <1>3, <2>4, <3>1, <4>1, <4>2, OpeningIsAnswered
    <3>2. CASE record' = [record EXCEPT ![c] = p] /\ UNCHANGED <<outbox, asked>>
      <4>1. q = p
        BY <1>2, <3>2
      <4>2. Types(inbox[c]) = Types(inbox'[c]) \cup {Head(inbox[c]).type}
        BY <1>1, <1>2, <1>4, TypesOfTail
      <4>. QED BY <1>1, <1>3, <1>7, <3>2, <4>1, <4>2
               DEF ClientInv, ClientIsAnswered, Connected, r
    <3>. QED BY <1>1, <3>1, <3>2
  <2>. QED BY <2>4, <2>5 DEF ClientInv
<1>. QED BY <1>6, <1>7

\* The other messages that a client reads.
LEMMA AnswersAreFollowed ==
  ASSUME IInv, NEW c \in Clients, Subscribed(c) \/ Unsubscribed(c) \/ Data(c)
  PROVE  TouchesOnly(c) /\ (ClientInv(c) => ClientInv(c)')
<1>. DEFINE m == Head(inbox[c])
            r == record[c]
            q == record'[c]
<1>1. /\ conn[c] # 0 /\ inbox[c] # <<>> /\ inbox' = [inbox EXCEPT ![c] = Tail(@)]
      /\ UNCHANGED <<gw, conn, outbox, asked>>
      /\ \/ /\ m.type = "subscribed" /\ subbed' = subbed \cup {c}
            /\ record' = [record EXCEPT ![c] = MarkSubscribed(r, m.epoch)]
         \/ /\ m.type = "unsubscribed" /\ subbed' = subbed \ {c}
            /\ record' = [record EXCEPT ![c] = MarkUnsubscribed(r)]
         \/ /\ m.type = "data" /\ subbed' = subbed
            /\ record' = [record EXCEPT ![c] = MarkDataInitialized(r)]
  BY DEF Subscribed, Unsubscribed, Data, ClientReads
<1>2. /\ record \in [Clients -> Records] /\ r \in Records
      /\ c \in Actors /\ inbox[c] \in Seq(Messages) /\ inbox \in [Actors -> Seq(Messages)]
  BY ClientsKnow, ClientFacts DEF IInv, Typed
<1>. HIDE DEF m, r
<1>3. /\ inbox'[c] = Tail(inbox[c]) /\ \A a \in Actors : a # c => inbox'[a] = inbox[a]
      /\ \A d \in Clients : d # c => record'[d] = record[d] /\ ((d \in subbed') = (d \in subbed))
      /\ \/ m.type = "subscribed" /\ c \in subbed' /\ q = MarkSubscribed(r, m.epoch)
         \/ m.type = "unsubscribed" /\ c \notin subbed' /\ q = MarkUnsubscribed(r)
         \/ m.type = "data" /\ (c \in subbed') = (c \in subbed) /\ q = MarkDataInitialized(r)
  BY <1>1, <1>2
<1>4. TouchesOnly(c)
  BY <1>1, <1>3 DEF TouchesOnly
<1>5. \/ /\ m.type = "subscribed" /\ c \in subbed'
         /\ q.epoch = m.epoch /\ q.subscribed /\ q.data = r.data /\ q.open = "subscribed"
      \/ /\ m.type = "unsubscribed" /\ c \notin subbed'
         /\ q.epoch = r.epoch /\ ~q.subscribed /\ q.open = "unsubscribed"
      \/ /\ m.type = "data" /\ (c \in subbed') = (c \in subbed)
         /\ q.epoch = r.epoch /\ q.subscribed = r.subscribed /\ q.data /\ q.open = r.open
  BY <1>2, <1>3 DEF MarkSubscribed, MarkUnsubscribed, MarkDataInitialized, Records
<1>6. ASSUME ClientInv(c) PROVE ClientInv(c)'
  <2>1. Reads(Head(inbox[c]), record[c], c \in subbed, record'[c], c \in subbed')
    BY <1>5 DEF Reads, m, r
  <2>2. q.subscribed => c \in subbed'
    BY <1>5, <1>6 DEF ClientInv, ClientInOrder, r
  <2>3. ClientInOrder(c)' /\ ClientFollows(c)' /\ ClientGetsData(c)'
    BY <1>1, <1>3, <1>4, <1>6, <2>1, <2>2, OwnRead
  <2>4. ClientIsAnswered(c)'
    <3>1. Types(inbox[c]) = Types(inbox'[c]) \cup {m.type}
      BY <1>1, <1>2, <1>3, TypesOfTail DEF m
    <3>. QED BY <1>1, <1>5, <1>6, <3>1 DEF ClientInv, ClientIsAnswered, Connected, r
  <2>. QED BY <2>3, <2>4 DEF ClientInv
<1>. QED BY <1>4, <1>6

-----------------------------------------------------------------------------
(* The second part of the invariant.                                        *)

\* The second part holds at the start,
LEMMA ClientsInit == Init => ClientsInv
<1>. SUFFICES ASSUME Init, NEW c \in Clients PROVE ClientInv(c)
  BY DEF ClientsInv, ClientInv
<1>1. conn[c] = 0 /\ ~record[c].subscribed /\ c \notin subbed
  BY DEF Init, Actors, NoRecord
<1>. QED BY <1>1
         DEF ClientInv, ClientInOrder, ClientFollows, ClientIsAnswered, ClientGetsData, Connected

\* and after every step, given the first.
LEMMA ClientsStep == IInv /\ ClientsInv /\ [Next]_vars => ClientsInv'
<1>. SUFFICES ASSUME IInv, ClientsInv, [Next]_vars, NEW c \in Clients PROVE ClientInv(c)'
  BY DEF ClientsInv, ClientInv
<1>1. ClientInv(c)
  BY DEF ClientsInv, ClientInv
<1>2. ASSUME NEW a \in Clients, TouchesOnly(a), a = c => ClientInv(c)'
      PROVE  ClientInv(c)'
  BY <1>1, <1>2, OthersAreFollowed
<1>3. CASE \E a \in Actors : Hello(a)
  <2>1. CASE Hello(Backend)
    BY <1>1, <2>1, BackendHelloIsFollowed
  <2>2. CASE \E a \in Clients : Hello(a)
    BY <1>1, <2>2, OwnHelloIsFollowed, ClientHelloIsFollowed
  <2>. QED BY <1>3, <2>1, <2>2 DEF Actors
<1>4. CASE \E s \in Sessions :
             \/ HandleSubscribe(s) \/ HandleUnsubscribe(s) \/ HandleHeartbeat(s) \/ HandleData(s)
             \/ PeerGone(s)
  BY <1>1, <1>4, SubscribeIsFollowed, UnsubscribeIsFollowed, HeartbeatIsFollowed, DataAreFollowed,
     PeerGoneIsFollowed
<1>5. CASE LeaseExpires \/ PollRegistry \/ GatewayRestarts
  BY <1>1, <1>5, LeaseExpiresIsFollowed, PollIsFollowed, RestartIsFollowed
<1>6. CASE BackendReads \/ Heartbeat \/ PushData \/ BackendDrops
  BY <1>1, <1>6, BackendIsFollowed
<1>7. ASSUME NEW a \in Clients,
             \/ Open(a) \/ Close(a) \/ ApplyRegistry(a) \/ Subscribed(a) \/ Unsubscribed(a) \/ Data(a)
             \/ Offline(a) \/ ClientDrops(a) \/ CollectGarbage(a)
      PROVE  ClientInv(c)'
  <2>1. TouchesOnly(a) /\ (ClientInv(a) => ClientInv(a)')
    BY <1>7, OpenIsFollowed, CloseIsFollowed, ApplyRegistryIsFollowed, AnswersAreFollowed,
       DisconnectionIsFollowed, CollectionIsFollowed
  <2>. QED BY <1>1, <1>2, <2>1
<1>8. CASE UNCHANGED vars
  <2>1. UNCHANGED <<gw, conn, outbox, inbox, record, asked, subbed>>
    BY <1>8 DEF vars, clientVars
  <2>. QED BY <1>1, <2>1, Bystander DEF Connected, DataUnderWay
<1>. QED BY <1>3, <1>4, <1>5, <1>6, <1>7, <1>8, Zenon DEF Next

-----------------------------------------------------------------------------
(* The theorems.                                                            *)

\* First part: in every state the gateway counts its subscribers, the lease belongs to
\* the backend's last session, and the backend hears the demand there is.
THEOREM Invariance == Spec => []IInv
BY InitIsRight, StepsAreRight, PTL DEF Spec

\* Every variable keeps its type.
THEOREM TypeCorrect == Spec => []TypeOK
<1>1. IInv => TypeOK
  <2>. SUFFICES ASSUME IInv PROVE TypeOK
    OBVIOUS
  <2>1. Len(owner) \in Nat /\ owner \in Seq(Actors) /\ Len(owner) <= MaxHellos /\ MaxHellos \in Nat
    BY KnownEpochs, GatewayAssumption DEF IInv, Typed
  <2>2. \A s \in Sessions : owner[s] \in Actors
    BY <2>1, ElementOfSeq DEF Sessions
  <2>3. gw \in Gateways(Len(owner)) /\ GatewayIsRight(gw)
    BY DEF IInv, Typed
  <2>4. /\ gw.peers \subseteq Sessions /\ gw.backends \subseteq gw.peers
        /\ gw.lease \in gw.backends \cup {0} /\ gw.item \in Sessions \cup {0}
        /\ gw.subs \subseteq Sessions /\ gw.own \subseteq gw.peers /\ gw.active \in BOOLEAN
    BY <2>1, <2>3 DEF Gateways, GatewayIsRight, Sessions
  <2>5. gw.count \in 0..MaxHellos
    <3>1. gw.subs \in SUBSET (1..Len(owner)) /\ gw.count = Cardinality(gw.subs)
      BY <2>3 DEF Gateways, GatewayIsRight
    <3>2. gw.count \in 0..Len(owner)
      BY <2>1, <3>1, SessionsAreFinite
    <3>. QED BY <2>1, <3>2
  <2>6. /\ DOMAIN outbox = Sessions /\ conn \in [Actors -> Sessions \cup {0}]
        /\ DOMAIN inbox = Actors
        /\ ready \in BOOLEAN /\ demand \in BOOLEAN /\ desired \subseteq Clients
        /\ subbed \subseteq Clients
    BY DEF IInv, Typed
  <2>7. \A c \in Clients :
          /\ record[c].epoch \in Sessions \cup {0} /\ asked[c] \in Sessions \cup {0}
          /\ record[c].open \in {"unsubscribed", "subscribing", "subscribed", "error"}
    BY DEF IInv, Typed, Records
  <2>. QED BY <2>2, <2>4, <2>5, <2>6, <2>7 DEF TypeOK
<1>. QED BY <1>1, Invariance, PTL

\* The registry, the subscriptions and the demand for the stream agree, across replaced
\* owners, expired leases, restarts and sessions that go in any order.
THEOREM RegistryStaysAgreed == Spec => []RegistryAgrees
<1>1. IInv => RegistryAgrees
  <2>. SUFFICES ASSUME IInv PROVE RegistryAgrees
    OBVIOUS
  <2>1. DemandCountsSubscribers
    BY DEF IInv, GatewayIsRight, DemandCountsSubscribers
  <2>2. BackendHearsDemand
    <3>1. inbox[Backend] \in Seq(Messages)
      BY DEF IInv, Typed, Actors
    <3>. QED BY <3>1, HearsTheLast DEF IInv, BackendHears, BackendHearsDemand
  <2>. QED BY <2>1, <2>2 DEF IInv, RegistryAgrees
<1>. QED BY <1>1, Invariance, PTL

\* No client reads data of an owner after it was told of a later one.
THEOREM EpochsStayInOrder == Spec => []EpochsInOrder
<1>1. IInv => EpochsInOrder
  BY DEF IInv, BoxesInOrder, BoxInOrder, EpochsInOrder
<1>. QED BY <1>1, Invariance, PTL

\* Second part: each client follows the gateway, is answered and gets the data.
THEOREM ClientsStayRight == Spec => []ClientsInv
<1>1. IInv /\ ClientsInv /\ [Next]_vars => ClientsInv'
  BY ClientsStep
<1>. QED BY <1>1, ClientsInit, Invariance, PTL DEF Spec

\* Nothing is under way: what the messages would tell is what the record says.
LEMMA QuietClient ==
  ASSUME IInv, ClientsInv, NEW c \in Clients, Quiet(c)
  PROVE  /\ record[c].epoch = gw.item
         /\ conn[c] \in gw.subs => record[c].subscribed /\ c \in subbed
         /\ conn[c] \notin gw.subs => ~record[c].subscribed /\ c \notin subbed
         /\ Agreed(c) /\ Connected(c) /\ inbox[c] = <<>>
<1>1. Connected(c) /\ inbox[c] = <<>> /\ Agreed(c)
  BY DEF Quiet, Agreed, Types
<1>2. Len(inbox[c]) = 0
  BY <1>1
<1>3. Follows(inbox[c], record[c], c \in subbed, gw.item, conn[c] \in gw.subs, TRUE)
  <2>1. Agreed(c) = TRUE
    BY <1>1 DEF Agreed
  <2>. QED BY <1>1, <2>1 DEF ClientsInv, ClientFollows
<1>4. record[c].epoch = gw.item
  BY <1>2, <1>3 DEF Follows, HearsEpoch
<1>5. conn[c] \in gw.subs => record[c].subscribed
  BY <1>2, <1>3 DEF Follows, SubscribedFrom
<1>6. conn[c] \notin gw.subs => ~record[c].subscribed /\ c \notin subbed
  BY <1>2, <1>3 DEF Follows, UnsubscribedFrom
<1>. QED BY <1>1, <1>4, <1>5, <1>6 DEF ClientsInv, ClientInOrder

\* With nothing under way, client and gateway agree.
THEOREM ViewsSettle == Spec => []ViewSettles
<1>1. IInv /\ ClientsInv => ViewSettles
  <2>. SUFFICES ASSUME IInv, ClientsInv, NEW c \in Clients, Quiet(c)
                PROVE  /\ record[c].epoch = gw.item
                       /\ record[c].subscribed <=> conn[c] \in gw.subs
                       /\ record[c].subscribed <=> c \in subbed
    BY DEF ViewSettles
  <2>. QED BY QuietClient
<1>. QED BY <1>1, Invariance, ClientsStayRight, PTL

\* A request that was sent on the present connection is answered, and a client that is
\* subscribed gets the data of the backend.
THEOREM SubscribersAreServed == Spec => []SubscriberIsServed
<1>1. IInv /\ ClientsInv => SubscriberIsServed
  <2>. SUFFICES ASSUME IInv, ClientsInv PROVE SubscriberIsServed
    OBVIOUS
  <2>1. SubscribingIsAnswered
    BY DEF ClientsInv, ClientIsAnswered, SubscribingIsAnswered
  <2>2. SubscriberGetsData
    <3>. SUFFICES ASSUME NEW c \in Clients, Quiet(c), record[c].subscribed,
                         inbox[Backend] = <<>>, outbox[gw.lease] = <<>>, conn[Backend] = gw.lease
                  PROVE  record[c].data
      BY DEF SubscriberGetsData
    <3>1. conn[c] \in gw.subs /\ Agreed(c) /\ Connected(c) /\ inbox[c] = <<>>
      BY QuietClient
    <3>2. ~DataUnderWay
      BY DEF DataUnderWay, Types
    <3>3. HasData(inbox[c], record[c], gw.item)
      BY <3>1, <3>2 DEF ClientsInv, ClientGetsData
    <3>. QED BY <3>1, <3>3 DEF HasData
  <2>. QED BY <2>1, <2>2 DEF SubscriberIsServed
<1>. QED BY <1>1, Invariance, ClientsStayRight, PTL
=============================================================================
