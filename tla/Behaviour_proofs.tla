-------------------------- MODULE Behaviour_proofs --------------------------
(***************************************************************************)
(* The dispatch of requests and answers drives the table of Requests and   *)
(* nothing else touches it: every step of Behaviour is a step of Requests  *)
(* or leaves its variables alone.  So what Requests promises holds of the  *)
(* composition, for any number of peers, connections and protocols.        *)
(*                                                                         *)
(* What the handlers are given rests on the table: a request of a peer is  *)
(* in one place at a time, and one that the client was asked is responded  *)
(* to only with the answer that took it out of the table.                  *)
(***************************************************************************)
EXTENDS Behaviour, Requests_proofs, FiniteSetTheorems

\* A step of the composition is one of the table: a request is received when
\* poll_events takes it, answered and sent when the client and the service are.
LEMMA StepOfTable ==
    ASSUME BehaviourNext
    PROVE  Next \/ UNCHANGED vars
<1>1. ASSUME NEW p \in PeerId, connect(p) \/ rpc_request(p)
                               \/ \E kind \in {"Ping", "Status"} : timer_elapses(kind, p)
      PROVE  UNCHANGED vars
  BY <1>1 DEF connect, rpc_request, timer_elapses
<1>2. ASSUME NEW c \in 1..Len(conns), close(c) \/ \E proto \in Protocol : inject_event(c, proto)
      PROVE  UNCHANGED vars
  BY <1>2 DEF close, inject_event
<1>3. ASSUME NEW r \in unanswered, NEW client \in Client, client_response(r, client)
      PROVE  Next
  BY <1>3 DEF client_response, Next
<1>4. CASE send_successful_response
  BY <1>4 DEF send_successful_response, Next
<1>5. CASE wake \/ poll_gossipsub
  BY <1>5 DEF wake, poll_gossipsub
<1>6. ASSUME poll PROVE Next \/ UNCHANGED vars
  <2>1. CASE poll_rpc
    BY <2>1 DEF poll_rpc, on_rpc_event
  <2>2. CASE poll_disconnect
    BY <2>2 DEF poll_disconnect
  <2>3. CASE \E d \in due : poll_peer_manager(d)
    BY <2>3 DEF poll_peer_manager
  <2>4. CASE poll_events
    BY <2>4 DEF poll_events, Next
  <2>5. CASE poll_pending
    BY <2>5 DEF poll_pending
  <2> QED
    BY <1>6, <2>1, <2>2, <2>3, <2>4, <2>5 DEF poll
<1> QED
  BY <1>1, <1>2, <1>3, <1>4, <1>5, <1>6 DEF BehaviourNext

\* The composition of the handlers' reports, the behaviour and the service
\* implements the table of Requests (mothra.rs keeps it for all of them).
THEOREM BehaviourImplementsRequests == BehaviourSpec => Spec
<1>1. BehaviourInit => Init
  BY DEF BehaviourInit
<1>2. [BehaviourNext]_behaviourVars => [Next]_vars
  BY StepOfTable DEF behaviourVars
<1> QED
  BY <1>1, <1>2, PTL DEF BehaviourSpec, Spec

\* Whatever the peers, the connections and the clients do, no request of a peer
\* is answered twice (SendResponse in mothra.rs, reached through the behaviour).
THEOREM DispatchAnswersAtMostOnce == BehaviourSpec => []AnsweredAtMostOnce
BY BehaviourImplementsRequests, RequestsAnsweredAtMostOnce, PTL

-----------------------------------------------------------------------------
(* Where a request of a peer is between the handlers and the client        *)

\* What is queued: messages of handlers, responses to them, and requests of ours.
Incoming  == [kind : {"Message"}, peer : PeerId, conn : 1..MaxConns, sub : 1..MaxRequests,
              proto : Protocol]
Outgoing  == [kind : {"Response"}, peer : PeerId, conn : 1..MaxConns, sub : 1..MaxRequests,
              proto : Protocol]
Asking    == [kind : {"Request"}, peer : PeerId, proto : {"MetaData", "Status", "Ping"}]
Gossip    == [proto |-> "PubsubMessage"]
Delivery  == [conn : 1..MaxConns, sub : 1..MaxRequests, proto : Protocol]
Asked     == [peer : PeerId, id : (1..MaxConns) \X (1..MaxRequests)]
Connected == [peer : PeerId, up : BOOLEAN, active : BOOLEAN, opened : Seq(Protocol)]

DispatchTypes ==
    /\ conns \in Seq(Connected) /\ Len(conns) <= MaxConns
    /\ \A c \in 1..Len(conns) : Len(conns[c].opened) <= MaxRequests
    /\ rpc_events \in Seq(Incoming \cup Outgoing \cup Asking)
    /\ events \in Seq(Incoming \cup {Gossip})
    /\ due \subseteq [kind : {"Ping", "Status"}, peer : PeerId] /\ told \subseteq PeerId
    /\ asked \in Seq(Asked) /\ Len(asked) = issued
    /\ delivered \in Seq(Delivery)

\* Substream sub of connection c was opened for a request of this protocol.
Opened(c, sub, proto) ==
    /\ c \in 1..Len(conns) /\ sub \in 1..Len(conns[c].opened)
    /\ conns[c].opened[sub] = proto

\* What a queue holds.
Contents(s) == {s[k] : k \in 1..Len(s)}

\* Everything under way is about a request that a peer made.
Genuine ==
    /\ \A e \in Contents(rpc_events) \cap (Incoming \cup Outgoing) : Opened(e.conn, e.sub, e.proto)
    /\ \A e \in Contents(events) \cap Incoming :
          e.proto = "Status" /\ Opened(e.conn, e.sub, e.proto)
    /\ \A e \in Contents(asked) : Opened(e.id[1], e.id[2], "Status")
    /\ \A e \in Contents(delivered) : Opened(e.conn, e.sub, e.proto)

\* The substreams that the elements of a queue that are in M name, and that each
\* is named once.
SubstreamOf(e)  == <<e.conn, e.sub>>
Named(s, M)     == {SubstreamOf(e) : e \in Contents(s) \cap M}
NamedOnce(s, M) ==
    \A j, k \in 1..Len(s) :
        s[j] \in M /\ s[k] \in M /\ SubstreamOf(s[j]) = SubstreamOf(s[k]) => j = k

Arriving == Named(rpc_events, Incoming)
Replying == Named(rpc_events, Outgoing)
Passing  == Named(events, Incoming)
AskedOf  == {asked[n].id : n \in 1..Len(asked)}
Replied  == Named(delivered, Delivery)
Answered == {sent[k].id : k \in 1..Len(sent)}

\* A request of a peer is in one place, and its response is queued or delivered
\* once; one that the client was asked is replied to only when the table of
\* Requests has let it go.
OnePlaceEach ==
    /\ NamedOnce(rpc_events, Incoming) /\ NamedOnce(rpc_events, Outgoing)
    /\ NamedOnce(events, Incoming) /\ NamedOnce(delivered, Delivery)
    /\ \A m, n \in 1..Len(asked) : asked[m].id = asked[n].id => m = n
    /\ Arriving \cap (Replying \cup Passing \cup AskedOf \cup Replied) = {}
    /\ Passing \cap (Replying \cup AskedOf \cup Replied) = {}
    /\ Replying \cap Replied = {}
    /\ \A n \in 1..Len(asked) : asked[n].id \in Replying \cup Replied => n \in Answered

DispatchInv == RequestsInv /\ DispatchTypes /\ Genuine /\ OnePlaceEach

-----------------------------------------------------------------------------

\* Appending to a queue and taking its head, seen from one kind of elements.
LEMMA NamedAppend ==
    ASSUME NEW T, NEW M, NEW s \in Seq(T), NEW e \in T
    PROVE  /\ Append(s, e) \in Seq(T) /\ Contents(Append(s, e)) = Contents(s) \cup {e}
           /\ e \in M => /\ Named(Append(s, e), M) = Named(s, M) \cup {SubstreamOf(e)}
                         /\ NamedOnce(s, M) /\ SubstreamOf(e) \notin Named(s, M) =>
                               NamedOnce(Append(s, e), M)
           /\ e \notin M => /\ Named(Append(s, e), M) = Named(s, M)
                            /\ NamedOnce(s, M) => NamedOnce(Append(s, e), M)
<1> DEFINE t == Append(s, e)
<1>1. /\ t \in Seq(T) /\ Len(t) = Len(s) + 1 /\ Len(s) \in Nat
      /\ t[Len(s) + 1] = e /\ \A k \in 1..Len(s) : t[k] = s[k]
  OBVIOUS
<1> HIDE DEF t
<1>2. 1..Len(t) = 1..Len(s) \cup {Len(s) + 1}
  BY <1>1
<1>3. Contents(t) = Contents(s) \cup {e}
  BY <1>1, <1>2 DEF Contents
<1>4. ASSUME e \in M
      PROVE  /\ Named(t, M) = Named(s, M) \cup {SubstreamOf(e)}
             /\ NamedOnce(s, M) /\ SubstreamOf(e) \notin Named(s, M) => NamedOnce(t, M)
  <2>1. Named(t, M) = Named(s, M) \cup {SubstreamOf(e)}
    BY <1>3, <1>4 DEF Named
  <2>2. \A k \in 1..Len(s) : s[k] \in M => SubstreamOf(s[k]) \in Named(s, M)
    BY DEF Named, Contents
  <2>3. NamedOnce(s, M) /\ SubstreamOf(e) \notin Named(s, M) => NamedOnce(t, M)
    BY <1>1, <1>2, <2>2 DEF NamedOnce
  <2> QED
    BY <2>1, <2>3
<1>5. ASSUME e \notin M
      PROVE  Named(t, M) = Named(s, M) /\ (NamedOnce(s, M) => NamedOnce(t, M))
  <2>1. Named(t, M) = Named(s, M)
    BY <1>3, <1>5 DEF Named
  <2>2. NamedOnce(s, M) => NamedOnce(t, M)
    BY <1>1, <1>2, <1>5 DEF NamedOnce
  <2> QED
    BY <2>1, <2>2
<1> QED
  BY <1>1, <1>3, <1>4, <1>5 DEF t

LEMMA NamedTail ==
    ASSUME NEW T, NEW M, NEW s \in Seq(T), s # <<>>
    PROVE  /\ Tail(s) \in Seq(T) /\ Head(s) \in T /\ Head(s) \in Contents(s)
           /\ Contents(Tail(s)) \subseteq Contents(s)
           /\ NamedOnce(s, M) => NamedOnce(Tail(s), M)
           /\ NamedOnce(s, M) /\ Head(s) \in M =>
                 /\ SubstreamOf(Head(s)) \in Named(s, M)
                 /\ Named(Tail(s), M) = Named(s, M) \ {SubstreamOf(Head(s))}
           /\ Head(s) \notin M => Named(Tail(s), M) = Named(s, M)
<1> DEFINE t == Tail(s)
<1>1. /\ t \in Seq(T) /\ Len(t) = Len(s) - 1 /\ Len(s) \in Nat \ {0}
      /\ Head(s) = s[1] /\ \A k \in 1..Len(t) : t[k] = s[k + 1]
  OBVIOUS
<1> HIDE DEF t
<1>2. s[1] \in T /\ s[1] \in Contents(s)
  BY <1>1 DEF Contents
<1>3. Contents(t) \subseteq Contents(s)
  BY <1>1 DEF Contents
<1>4. Contents(s) = Contents(t) \cup {s[1]}
  <2>1. ASSUME NEW x \in Contents(s), x # s[1] PROVE x \in Contents(t)
    <3>1. PICK k \in 1..Len(s) : x = s[k]
      BY <2>1 DEF Contents
    <3>2. k # 1 /\ k - 1 \in 1..Len(t) /\ t[k - 1] = s[k]
      BY <1>1, <2>1, <3>1
    <3> QED
      BY <3>1, <3>2 DEF Contents
  <2> QED
    BY <1>2, <1>3, <2>1
<1>5. NamedOnce(s, M) => NamedOnce(t, M)
  BY <1>1 DEF NamedOnce
<1>6. ASSUME NamedOnce(s, M), s[1] \in M
      PROVE  SubstreamOf(s[1]) \in Named(s, M) /\ Named(t, M) = Named(s, M) \ {SubstreamOf(s[1])}
  <2>1. \A e \in Contents(t) \cap M : SubstreamOf(e) # SubstreamOf(s[1])
    BY <1>1, <1>6 DEF Contents, NamedOnce
  <2> QED
    BY <1>4, <1>6, <2>1 DEF Named
<1>7. s[1] \notin M => Named(t, M) = Named(s, M)
  BY <1>4 DEF Named
<1> QED
  BY <1>1, <1>2, <1>3, <1>5, <1>6, <1>7 DEF t

\* The kinds of what is queued.
LEMMA Kinds ==
    /\ \A e \in Incoming : e.kind = "Message" /\ e \notin Outgoing /\ e \notin Asking
    /\ \A e \in Outgoing : e.kind = "Response" /\ e \notin Incoming /\ e \notin Asking
    /\ \A e \in Asking : e.kind = "Request" /\ e \notin Incoming /\ e \notin Outgoing
    /\ Gossip \notin Incoming /\ \A e \in Incoming : e.proto # "PubsubMessage"
BY BehaviourAssumption DEF Incoming, Outgoing, Asking, Gossip

\* Connections are added, and substreams to them; none is taken away.
ConnsGrow ==
    \A c \in 1..Len(conns) :
        /\ c \in 1..Len(conns')
        /\ \A sub \in 1..Len(conns[c].opened) :
              sub \in 1..Len(conns'[c].opened) /\ conns'[c].opened[sub] = conns[c].opened[sub]

LEMMA OpenedStays ==
    ASSUME ConnsGrow
    PROVE  \A c, sub, proto : Opened(c, sub, proto) => Opened(c, sub, proto)'
BY DEF ConnsGrow, Opened

\* inject_event leaves room for one more substream of every connection.
LEMMA RoomForOne ==
    ASSUME DispatchTypes, NEW c \in 1..Len(conns), Cardinality(substreams) < MaxRequests
    PROVE  Len(conns[c].opened) + 1 <= MaxRequests
<1> DEFINE S == {c} \X (1..MaxRequests)
<1>1. /\ Len(conns) \in Nat /\ conns[c].opened \in Seq(Protocol) /\ Len(conns[c].opened) \in Nat
      /\ Len(conns) <= MaxConns /\ Len(conns[c].opened) <= MaxRequests
  <2>1. conns \in Seq(Connected) /\ conns[c] \in Connected
    BY DEF DispatchTypes
  <2>2. conns[c].opened \in Seq(Protocol)
    BY <2>1 DEF Connected
  <2> QED
    BY <2>1, <2>2 DEF DispatchTypes
<1>2. MaxConns \in Nat /\ MaxRequests \in Nat
  BY BehaviourAssumption, RequestsAssumption
<1> SUFFICES ASSUME Len(conns[c].opened) = MaxRequests PROVE FALSE
  BY <1>1, <1>2
<1>3. S \subseteq substreams
  BY <1>1, <1>2 DEF substreams, opened
<1>4. IsFiniteSet(1..MaxConns) /\ IsFiniteSet(1..MaxRequests) /\ Cardinality(1..MaxRequests) = MaxRequests
  <2>1. IsFiniteSet(1..MaxConns) /\ IsFiniteSet(1..MaxRequests)
    BY <1>2, FS_Interval
  <2>2. Cardinality(1..MaxRequests) = IF 1 > MaxRequests THEN 0 ELSE MaxRequests - 1 + 1
    BY <1>2, FS_Interval
  <2> QED
    BY <1>2, <2>1, <2>2
<1>5. IsFiniteSet(substreams)
  <2>1. IsFiniteSet((1..MaxConns) \X (1..MaxRequests))
    BY <1>4, FS_Product
  <2> QED
    BY <2>1, FS_Subset DEF substreams
<1>6. Cardinality(S) = MaxRequests
  <2>1. IsFiniteSet({c}) /\ Cardinality({c}) = 1
    BY FS_Singleton
  <2>2. Cardinality(S) = Cardinality({c}) * Cardinality(1..MaxRequests)
    BY <1>4, <2>1, FS_Product
  <2> HIDE DEF S
  <2> QED
    BY <1>2, <1>4, <2>1, <2>2
<1>7. Cardinality(S) <= Cardinality(substreams) /\ Cardinality(substreams) \in Nat
  BY <1>3, <1>5, FS_Subset, FS_CardinalityType
<1> QED
  BY <1>2, <1>6, <1>7

\* Requests of our own may be queued and taken, and connections and substreams
\* may come, without any effect on the requests of peers.
LEMMA QuietStep ==
    ASSUME DispatchTypes, Genuine, OnePlaceEach, ConnsGrow,
           \/ rpc_events' = rpc_events
           \/ \E e \in Asking : rpc_events' = Append(rpc_events, e)
           \/ rpc_events # <<>> /\ Head(rpc_events) \in Asking /\ rpc_events' = Tail(rpc_events),
           \/ events' = events \/ events' = Append(events, Gossip)
           \/ events # <<>> /\ Head(events) = Gossip /\ events' = Tail(events),
           UNCHANGED <<asked, delivered, sent>>
    PROVE  Genuine' /\ OnePlaceEach'
<1>1. /\ rpc_events \in Seq(Incoming \cup Outgoing \cup Asking)
      /\ events \in Seq(Incoming \cup {Gossip})
  BY DEF DispatchTypes
<1> DEFINE Quiet ==
             /\ Contents(rpc_events') \cap (Incoming \cup Outgoing) \subseteq Contents(rpc_events)
             /\ Arriving' = Arriving /\ Replying' = Replying
             /\ NamedOnce(rpc_events', Incoming) /\ NamedOnce(rpc_events', Outgoing)
<1>2. Quiet
  <2>1. CASE rpc_events' = rpc_events
    BY <2>1 DEF OnePlaceEach, Arriving, Replying
  <2>2. ASSUME NEW e \in Asking, rpc_events' = Append(rpc_events, e)
        PROVE  Quiet
    <3>1. e \notin Incoming /\ e \notin Outgoing /\ e \in Incoming \cup Outgoing \cup Asking
      BY Kinds
    <3>2. /\ Contents(rpc_events') = Contents(rpc_events) \cup {e}
          /\ Named(rpc_events', Incoming) = Named(rpc_events, Incoming)
          /\ NamedOnce(rpc_events', Incoming)
      BY <1>1, <2>2, <3>1, NamedAppend DEF OnePlaceEach
    <3>3. Named(rpc_events', Outgoing) = Named(rpc_events, Outgoing)
          /\ NamedOnce(rpc_events', Outgoing)
      BY <1>1, <2>2, <3>1, NamedAppend DEF OnePlaceEach
    <3> QED
      BY <3>1, <3>2, <3>3 DEF Arriving, Replying
  <2>3. ASSUME rpc_events # <<>>, Head(rpc_events) \in Asking, rpc_events' = Tail(rpc_events)
        PROVE  Quiet
    <3>1. Head(rpc_events) \notin Incoming /\ Head(rpc_events) \notin Outgoing
      BY <2>3, Kinds
    <3>2. /\ Named(rpc_events', Incoming) = Named(rpc_events, Incoming)
          /\ NamedOnce(rpc_events', Incoming) /\ Contents(rpc_events') \subseteq Contents(rpc_events)
      BY <1>1, <2>3, <3>1, NamedTail DEF OnePlaceEach
    <3>3. /\ Named(rpc_events', Outgoing) = Named(rpc_events, Outgoing)
          /\ NamedOnce(rpc_events', Outgoing)
      BY <1>1, <2>3, <3>1, NamedTail DEF OnePlaceEach
    <3> QED
      BY <3>2, <3>3 DEF Arriving, Replying
  <2> QED
    BY <2>1, <2>2, <2>3
<1>3. /\ Contents(events') \cap Incoming \subseteq Contents(events)
      /\ Passing' = Passing /\ NamedOnce(events', Incoming)
  <2>1. CASE events' = events
    BY <2>1 DEF OnePlaceEach, Passing
  <2>2. CASE events' = Append(events, Gossip)
    <3>1. Gossip \notin Incoming /\ Gossip \in Incoming \cup {Gossip}
      BY Kinds
    <3>2. /\ Contents(events') = Contents(events) \cup {Gossip}
          /\ Named(events', Incoming) = Named(events, Incoming) /\ NamedOnce(events', Incoming)
      BY <1>1, <2>2, <3>1, NamedAppend DEF OnePlaceEach
    <3> QED
      BY <3>1, <3>2 DEF Passing
  <2>3. CASE events # <<>> /\ Head(events) = Gossip /\ events' = Tail(events)
    <3>1. Head(events) \notin Incoming
      BY <2>3, Kinds
    <3>2. /\ Contents(events') \subseteq Contents(events) /\ NamedOnce(events', Incoming)
          /\ Named(events', Incoming) = Named(events, Incoming)
      BY <1>1, <2>3, <3>1, NamedTail DEF OnePlaceEach
    <3> QED
      BY <3>2 DEF Passing
  <2> QED
    BY <2>1, <2>2, <2>3
<1>4. AskedOf' = AskedOf /\ Replied' = Replied /\ Answered' = Answered
  BY DEF AskedOf, Replied, Answered
<1>5. Genuine'
  BY <1>2, <1>3, OpenedStays DEF Genuine
<1>6. OnePlaceEach'
  BY <1>2, <1>3, <1>4 DEF OnePlaceEach
<1> QED
  BY <1>5, <1>6

\* What is under way names substreams that exist.
LEMMA NamesExist ==
    ASSUME DispatchTypes, Genuine,
           NEW x \in Arriving \cup Replying \cup Passing \cup AskedOf \cup Replied
    PROVE  x[1] \in 1..Len(conns) /\ x[2] \in 1..Len(conns[x[1]].opened)
<1>1. Contents(delivered) \subseteq Delivery
  BY DEF DispatchTypes, Contents
<1>2. CASE x \in Arriving \cup Replying \cup Passing
  BY <1>2 DEF Arriving, Replying, Passing, Named, SubstreamOf, Genuine, Opened
<1>3. CASE x \in Replied
  BY <1>3 DEF Replied, Named, SubstreamOf, Genuine, Opened
<1>4. CASE x \in AskedOf
  BY <1>4 DEF AskedOf, Contents, Genuine, Opened
<1> QED
  BY <1>2, <1>3, <1>4

\* A handler reports a request on a new substream.
LEMMA InjectStep ==
    ASSUME DispatchTypes, Genuine, OnePlaceEach,
           NEW c \in 1..Len(conns), NEW proto \in Protocol, inject_event(c, proto)
    PROVE  DispatchTypes' /\ Genuine' /\ OnePlaceEach'
<1>1. /\ conns \in Seq(Connected) /\ conns[c] \in Connected /\ Len(conns) \in Nat
      /\ Len(conns) <= MaxConns /\ rpc_events \in Seq(Incoming \cup Outgoing \cup Asking)
  BY DEF DispatchTypes
<1>2. conns[c].opened \in Seq(Protocol) /\ conns[c].peer \in PeerId
  BY <1>1 DEF Connected
<1>3. PICK n \in Nat : n = Len(conns[c].opened)
  BY <1>2
<1>4. PICK e : e = [kind |-> "Message", peer |-> conns[c].peer, conn |-> c, sub |-> n + 1,
                    proto |-> proto]
  OBVIOUS
<1>5. /\ conns' = [conns EXCEPT ![c].opened = Append(@, proto)]
      /\ rpc_events' = Append(rpc_events, e) /\ Cardinality(substreams) < MaxRequests
      /\ UNCHANGED <<events, due, told, asked, delivered, issued, sent>>
  BY <1>3, <1>4 DEF inject_event, vars, Received
<1>6. n + 1 <= MaxRequests /\ MaxConns \in Nat /\ MaxRequests \in Nat
  BY <1>3, <1>5, RoomForOne, BehaviourAssumption, RequestsAssumption
<1>7. e.conn = c /\ e.sub = n + 1 /\ e.proto = proto /\ e \in Incoming
  BY <1>1, <1>2, <1>4, <1>6 DEF Incoming
<1>8. /\ conns' \in Seq(Connected) /\ Len(conns') = Len(conns)
      /\ conns'[c].opened = Append(conns[c].opened, proto)
      /\ \A d \in 1..Len(conns) \ {c} : conns'[d] = conns[d]
  <2>1. PICK v : v = [conns[c] EXCEPT !.opened = Append(@, proto)]
    OBVIOUS
  <2>2. v \in Connected /\ v.opened = Append(conns[c].opened, proto)
    <3>1. Append(conns[c].opened, proto) \in Seq(Protocol)
      BY <1>2
    <3> QED
      BY <1>1, <2>1, <3>1 DEF Connected
  <2>3. conns' = [conns EXCEPT ![c] = v]
    BY <1>5, <2>1
  <2> QED
    BY <1>1, <2>2, <2>3
<1>9. /\ Len(conns'[c].opened) = n + 1 /\ conns'[c].opened[n + 1] = proto
      /\ \A sub \in 1..n : conns'[c].opened[sub] = conns[c].opened[sub]
  BY <1>2, <1>3, <1>8
<1>10. ConnsGrow
  <2>1. \A sub \in 1..n : sub \in 1..n + 1
    BY <1>3
  <2> QED
    BY <1>3, <1>8, <1>9, <2>1 DEF ConnsGrow
<1>11. e \in Incoming \cup Outgoing \cup Asking /\ e \notin Outgoing
  BY <1>7, Kinds
<1>12. SubstreamOf(e) \notin Arriving \cup Replying \cup Passing \cup AskedOf \cup Replied
  <2>1. SubstreamOf(e)[1] = c /\ SubstreamOf(e)[2] = n + 1 /\ n + 1 \notin 1..n
    BY <1>3, <1>7 DEF SubstreamOf
  <2> QED
    BY <1>3, <2>1, NamesExist
<1>13. /\ Contents(rpc_events') = Contents(rpc_events) \cup {e}
       /\ rpc_events' \in Seq(Incoming \cup Outgoing \cup Asking)
       /\ Arriving' = Arriving \cup {SubstreamOf(e)} /\ NamedOnce(rpc_events', Incoming)
  BY <1>1, <1>5, <1>7, <1>11, <1>12, NamedAppend DEF OnePlaceEach, Arriving
<1>14. Replying' = Replying /\ NamedOnce(rpc_events', Outgoing)
  BY <1>1, <1>5, <1>11, NamedAppend DEF OnePlaceEach, Replying
<1>15. /\ Passing' = Passing /\ AskedOf' = AskedOf /\ Replied' = Replied
       /\ Answered' = Answered
  BY <1>5 DEF Passing, AskedOf, Replied, Answered
<1>16. DispatchTypes'
  <2>1. \A d \in 1..Len(conns') : Len(conns'[d].opened) <= MaxRequests
    BY <1>6, <1>8, <1>9 DEF DispatchTypes
  <2> QED
    BY <1>1, <1>5, <1>8, <1>13, <2>1 DEF DispatchTypes
<1>17. Genuine'
  <2>1. Opened(e.conn, e.sub, e.proto)'
    BY <1>1, <1>3, <1>7, <1>8, <1>9 DEF Opened
  <2> QED
    BY <1>5, <1>10, <1>13, <2>1, OpenedStays DEF Genuine
<1>18. OnePlaceEach'
  BY <1>5, <1>12, <1>13, <1>14, <1>15 DEF OnePlaceEach
<1> QED
  BY <1>16, <1>17, <1>18

\* What taking the head of the queue of the RPC behaviour does to the places.
LEMMA TakeMessage ==
    ASSUME DispatchTypes, OnePlaceEach, NEW m, m = Head(rpc_events), rpc_events # <<>>
    PROVE  /\ m \in Contents(rpc_events) /\ m \in Incoming \cup Outgoing \cup Asking
           /\ Tail(rpc_events) \in Seq(Incoming \cup Outgoing \cup Asking)
           /\ Contents(Tail(rpc_events)) \subseteq Contents(rpc_events)
           /\ NamedOnce(Tail(rpc_events), Incoming) /\ NamedOnce(Tail(rpc_events), Outgoing)
           /\ m \in Incoming =>
                 /\ Named(Tail(rpc_events), Incoming) = Arriving \ {SubstreamOf(m)}
                 /\ Named(Tail(rpc_events), Outgoing) = Replying
                 /\ SubstreamOf(m) \in Arriving
           /\ m \in Outgoing =>
                 /\ Named(Tail(rpc_events), Incoming) = Arriving
                 /\ Named(Tail(rpc_events), Outgoing) = Replying \ {SubstreamOf(m)}
                 /\ SubstreamOf(m) \in Replying
<1>1. rpc_events \in Seq(Incoming \cup Outgoing \cup Asking)
  BY DEF DispatchTypes
<1>2. NamedOnce(rpc_events, Incoming) /\ NamedOnce(rpc_events, Outgoing)
  BY DEF OnePlaceEach
<1>3. (m \in Incoming => m \notin Outgoing) /\ (m \in Outgoing => m \notin Incoming)
  BY Kinds
<1>4. /\ m \in Contents(rpc_events) /\ m \in Incoming \cup Outgoing \cup Asking
      /\ Tail(rpc_events) \in Seq(Incoming \cup Outgoing \cup Asking)
      /\ Contents(Tail(rpc_events)) \subseteq Contents(rpc_events)
      /\ NamedOnce(Tail(rpc_events), Incoming)
      /\ m \in Incoming => /\ Named(Tail(rpc_events), Incoming) = Arriving \ {SubstreamOf(m)}
                           /\ SubstreamOf(m) \in Arriving
      /\ m \notin Incoming => Named(Tail(rpc_events), Incoming) = Arriving
  BY <1>1, <1>2, NamedTail DEF Arriving
<1>5. /\ NamedOnce(Tail(rpc_events), Outgoing)
      /\ m \in Outgoing => /\ Named(Tail(rpc_events), Outgoing) = Replying \ {SubstreamOf(m)}
                           /\ SubstreamOf(m) \in Replying
      /\ m \notin Outgoing => Named(Tail(rpc_events), Outgoing) = Replying
  BY <1>1, <1>2, NamedTail DEF Replying
<1> QED
  BY <1>3, <1>4, <1>5

\* A message of a handler is answered, passed on or, a Goodbye, acted upon.
LEMMA HandleStep ==
    ASSUME DispatchTypes, Genuine, OnePlaceEach, rpc_events # <<>>,
           Head(rpc_events) \in Incoming, on_rpc_event(Head(rpc_events))
    PROVE  DispatchTypes' /\ Genuine' /\ OnePlaceEach'
<1>1. PICK m : m = Head(rpc_events)
  OBVIOUS
<1>2. PICK t : t = Tail(rpc_events)
  OBVIOUS
<1>3. PICK x : x = SubstreamOf(m)
  OBVIOUS
<1>4. /\ m \in Contents(rpc_events) /\ m \in Incoming
      /\ t \in Seq(Incoming \cup Outgoing \cup Asking) /\ Contents(t) \subseteq Contents(rpc_events)
      /\ NamedOnce(t, Incoming) /\ NamedOnce(t, Outgoing)
      /\ Named(t, Incoming) = Arriving \ {x} /\ Named(t, Outgoing) = Replying /\ x \in Arriving
  BY <1>1, <1>2, <1>3, TakeMessage
<1>5. UNCHANGED <<conns, due, told, asked, delivered, issued, sent>>
  BY DEF on_rpc_event, vars
<1>6. events \in Seq(Incoming \cup {Gossip}) /\ m.proto \in Protocol
  BY <1>4 DEF DispatchTypes, Incoming
<1>7. \A c, sub, proto : Opened(c, sub, proto) => Opened(c, sub, proto)'
  BY <1>5 DEF Opened
<1>8. Opened(m.conn, m.sub, m.proto)
  BY <1>4 DEF Genuine
<1>9. AskedOf' = AskedOf /\ Replied' = Replied /\ Answered' = Answered
  BY <1>5 DEF AskedOf, Replied, Answered
<1>10. x \notin Replying \cup Passing \cup AskedOf \cup Replied
  BY <1>4 DEF OnePlaceEach
<1>11. \/ m.proto \in {"Ping", "MetaData"} \/ m.proto = "Status" \/ m.proto = "Goodbye"
  BY <1>6, BehaviourAssumption
<1>12. CASE m.proto \in {"Ping", "MetaData"}
  <2>1. PICK r : r = [kind |-> "Response", peer |-> m.peer, conn |-> m.conn, sub |-> m.sub,
                      proto |-> m.proto]
    OBVIOUS
  <2>2. r \in Outgoing /\ SubstreamOf(r) = x /\ r.conn = m.conn /\ r.sub = m.sub /\ r.proto = m.proto
    BY <1>3, <1>4, <2>1 DEF Incoming, Outgoing, SubstreamOf
  <2>3. r \in Incoming \cup Outgoing \cup Asking /\ r \notin Incoming
    BY <2>2, Kinds
  <2>4. rpc_events' = Append(t, r) /\ events' = events
    <3>1. rpc_events' = t \o <<r>> /\ events' = events \o <<>>
      BY <1>1, <1>2, <1>12, <2>1 DEF on_rpc_event, Response, propagated
    <3> QED
      BY <1>4, <1>6, <3>1
  <2>5. /\ rpc_events' \in Seq(Incoming \cup Outgoing \cup Asking)
        /\ Contents(rpc_events') = Contents(t) \cup {r}
        /\ Named(rpc_events', Outgoing) = Replying \cup {x} /\ NamedOnce(rpc_events', Outgoing)
    BY <1>4, <1>10, <2>2, <2>3, <2>4, NamedAppend
  <2>6. Named(rpc_events', Incoming) = Arriving \ {x} /\ NamedOnce(rpc_events', Incoming)
    BY <1>4, <2>3, <2>4, NamedAppend
  <2>7. Arriving' = Arriving \ {x} /\ Replying' = Replying \cup {x} /\ Passing' = Passing
    BY <2>4, <2>5, <2>6 DEF Arriving, Replying, Passing
  <2>8. DispatchTypes'
    BY <1>5, <2>4, <2>5 DEF DispatchTypes
  <2>9. Genuine'
    <3>1. \A e \in Contents(rpc_events') \cap (Incoming \cup Outgoing) : Opened(e.conn, e.sub, e.proto)
      BY <1>4, <1>8, <2>2, <2>5 DEF Genuine
    <3> QED
      BY <1>5, <1>7, <2>4, <3>1 DEF Genuine
  <2>10. OnePlaceEach'
    <3>1. \A n \in 1..Len(asked) : asked[n].id # x
      BY <1>10 DEF AskedOf
    <3> QED
      BY <1>4, <1>5, <1>9, <1>10, <2>4, <2>5, <2>6, <2>7, <3>1 DEF OnePlaceEach
  <2> QED
    BY <2>8, <2>9, <2>10
<1>13. ASSUME m.proto \notin {"Ping", "MetaData"}
       PROVE  /\ rpc_events' = t
              /\ Arriving' = Arriving \ {x} /\ Replying' = Replying
  <2>1. rpc_events' = t \o <<>>
    BY <1>1, <1>2, <1>13 DEF on_rpc_event
  <2>2. rpc_events' = t
    BY <1>4, <2>1
  <2> QED
    BY <1>4, <2>2 DEF Arriving, Replying
<1>14. CASE m.proto = "Status"
  <2>1. rpc_events' = t /\ Arriving' = Arriving \ {x} /\ Replying' = Replying
    BY <1>13, <1>14
  <2>2. events' = Append(events, m)
    <3>1. events' = events \o <<m>>
      BY <1>1, <1>14 DEF on_rpc_event, propagated
    <3> QED
      BY <1>4, <1>6, <3>1
  <2>3. NamedOnce(events, Incoming) /\ x \notin Named(events, Incoming)
    BY <1>10 DEF OnePlaceEach, Passing
  <2>4. /\ events' \in Seq(Incoming \cup {Gossip}) /\ Contents(events') = Contents(events) \cup {m}
        /\ Named(events', Incoming) = Named(events, Incoming) \cup {x}
        /\ NamedOnce(events', Incoming)
    BY <1>3, <1>4, <1>6, <2>2, <2>3, NamedAppend
  <2>5. Passing' = Passing \cup {x}
    BY <2>4 DEF Passing
  <2>6. DispatchTypes'
    BY <1>4, <1>5, <2>1, <2>4 DEF DispatchTypes
  <2>7. Genuine'
    <3>1. \A e \in Contents(rpc_events') \cap (Incoming \cup Outgoing) : Opened(e.conn, e.sub, e.proto)
      BY <1>4, <2>1 DEF Genuine
    <3>2. \A e \in Contents(events') \cap Incoming :
             e.proto = "Status" /\ Opened(e.conn, e.sub, e.proto)
      BY <1>8, <1>14, <2>4 DEF Genuine
    <3> QED
      BY <1>5, <1>7, <3>1, <3>2 DEF Genuine
  <2>8. OnePlaceEach'
    BY <1>4, <1>5, <1>9, <1>10, <2>1, <2>4, <2>5 DEF OnePlaceEach
  <2> QED
    BY <2>6, <2>7, <2>8
<1>15. CASE m.proto = "Goodbye"
  <2>1. rpc_events' = t /\ Arriving' = Arriving \ {x} /\ Replying' = Replying
    BY <1>13, <1>15
  <2>2. events' = events
    <3>1. events' = events \o <<>>
      BY <1>1, <1>15 DEF on_rpc_event, propagated
    <3> QED
      BY <1>6, <3>1
  <2>3. Passing' = Passing
    BY <2>2 DEF Passing
  <2>4. DispatchTypes'
    BY <1>4, <1>5, <2>1, <2>2 DEF DispatchTypes
  <2>5. Genuine'
    <3>1. \A e \in Contents(rpc_events') \cap (Incoming \cup Outgoing) : Opened(e.conn, e.sub, e.proto)
      BY <1>4, <2>1 DEF Genuine
    <3> QED
      BY <1>5, <1>7, <2>2, <3>1 DEF Genuine
  <2>6. OnePlaceEach'
    BY <1>4, <1>5, <1>9, <2>1, <2>2, <2>3 DEF OnePlaceEach
  <2> QED
    BY <2>4, <2>5, <2>6
<1> QED
  BY <1>11, <1>12, <1>14, <1>15

\* A response is given to the handler of its request, or dropped with it.
LEMMA DeliverStep ==
    ASSUME DispatchTypes, Genuine, OnePlaceEach, rpc_events # <<>>,
           Head(rpc_events) \in Outgoing, rpc_events' = Tail(rpc_events),
           notify_one(Head(rpc_events)),
           UNCHANGED <<conns, events, due, told, asked, issued, sent>>
    PROVE  DispatchTypes' /\ Genuine' /\ OnePlaceEach'
<1>1. PICK m : m = Head(rpc_events)
  OBVIOUS
<1>2. PICK x : x = SubstreamOf(m)
  OBVIOUS
<1>3. /\ m \in Contents(rpc_events) /\ m \in Outgoing
      /\ rpc_events' \in Seq(Incoming \cup Outgoing \cup Asking)
      /\ Contents(rpc_events') \subseteq Contents(rpc_events)
      /\ NamedOnce(rpc_events', Incoming) /\ NamedOnce(rpc_events', Outgoing)
      /\ Named(rpc_events', Incoming) = Arriving
      /\ Named(rpc_events', Outgoing) = Replying \ {x} /\ x \in Replying
  BY <1>1, <1>2, TakeMessage
<1>4. Arriving' = Arriving /\ Replying' = Replying \ {x}
  BY <1>3 DEF Arriving, Replying
<1>5. \A c, sub, proto : Opened(c, sub, proto) => Opened(c, sub, proto)'
  BY DEF Opened
<1>6. Opened(m.conn, m.sub, m.proto)
  BY <1>3 DEF Genuine
<1>7. AskedOf' = AskedOf /\ Passing' = Passing /\ Answered' = Answered
  BY DEF AskedOf, Passing, Answered
<1>8. x \notin Arriving \cup Passing \cup Replied
  BY <1>3 DEF OnePlaceEach
<1>9. delivered \in Seq(Delivery)
  BY DEF DispatchTypes
<1>10. PICK d : d = [conn |-> m.conn, sub |-> m.sub, proto |-> m.proto]
  OBVIOUS
<1>11. d \in Delivery /\ SubstreamOf(d) = x /\ d.conn = m.conn /\ d.sub = m.sub /\ d.proto = m.proto
  BY <1>2, <1>3, <1>10 DEF Outgoing, Delivery, SubstreamOf
<1>12. delivered' = delivered \/ delivered' = Append(delivered, d)
  <2>1. notify_one(m)
    BY <1>1
  <2>2. notify_target(m) \subseteq {m.conn}
    BY DEF notify_target
  <2> QED
    BY <1>10, <2>1, <2>2 DEF notify_one
<1>13. /\ delivered' \in Seq(Delivery) /\ NamedOnce(delivered', Delivery)
       /\ Contents(delivered') \subseteq Contents(delivered) \cup {d}
       /\ Replied \subseteq Replied' /\ Replied' \subseteq Replied \cup {x}
  <2>1. CASE delivered' = delivered
    BY <1>9, <2>1 DEF OnePlaceEach, Replied
  <2>2. CASE delivered' = Append(delivered, d)
    <3>1. /\ delivered' \in Seq(Delivery) /\ Contents(delivered') = Contents(delivered) \cup {d}
          /\ Named(delivered', Delivery) = Named(delivered, Delivery) \cup {x}
          /\ NamedOnce(delivered', Delivery)
      BY <1>8, <1>9, <1>11, <2>2, NamedAppend DEF OnePlaceEach, Replied
    <3> QED
      BY <3>1 DEF Replied
  <2> QED
    BY <1>12, <2>1, <2>2
<1>14. DispatchTypes'
  BY <1>3, <1>13 DEF DispatchTypes
<1>15. Genuine'
  <2>1. \A e \in Contents(rpc_events') \cap (Incoming \cup Outgoing) : Opened(e.conn, e.sub, e.proto)
    BY <1>3 DEF Genuine
  <2>2. \A e \in Contents(delivered') : Opened(e.conn, e.sub, e.proto)
    BY <1>6, <1>11, <1>13 DEF Genuine
  <2> QED
    BY <1>5, <2>1, <2>2 DEF Genuine
<1>16. OnePlaceEach'
  <2>1. \A n \in 1..Len(asked) : asked[n].id \in AskedOf
    BY DEF AskedOf
  <2> QED
    BY <1>3, <1>4, <1>7, <1>8, <1>13, <2>1 DEF OnePlaceEach
<1> QED
  BY <1>14, <1>15, <1>16

\* A request goes up to the client: the table has given it the next number.
LEMMA AskStep ==
    ASSUME RequestsInv, DispatchTypes, Genuine, OnePlaceEach, poll_events
    PROVE  DispatchTypes' /\ Genuine' /\ OnePlaceEach'
<1>1. events \in Seq(Incoming \cup {Gossip}) /\ asked \in Seq(Asked) /\ Len(asked) = issued
  BY DEF DispatchTypes
<1>2. /\ events # <<>> /\ events' = Tail(events)
      /\ UNCHANGED <<conns, rpc_events, due, told, delivered>>
  BY DEF poll_events
<1>3. PICK m : m = Head(events)
  OBVIOUS
<1>4. m \in Incoming \cup {Gossip} /\ m \in Contents(events)
      /\ events' \in Seq(Incoming \cup {Gossip})
  BY <1>1, <1>2, <1>3, NamedTail
<1>5. CASE m = Gossip
  <2>1. UNCHANGED vars /\ UNCHANGED asked
    BY <1>3, <1>5 DEF poll_events, Gossip
  <2>2. DispatchTypes'
    BY <1>2, <1>4, <2>1 DEF DispatchTypes, vars
  <2>3. ConnsGrow /\ UNCHANGED <<asked, delivered, sent>>
    BY <1>2, <2>1 DEF ConnsGrow, vars
  <2>4. Genuine' /\ OnePlaceEach'
    BY <1>2, <1>3, <1>5, <2>3, QuietStep
  <2> QED
    BY <2>2, <2>4
<1>6. CASE m \in Incoming
  <2>1. PICK x : x = SubstreamOf(m)
    OBVIOUS
  <2>2. PICK a : a = [peer |-> m.peer, id |-> x]
    OBVIOUS
  <2>3. /\ asked' = Append(asked, a) /\ issued' = issued + 1 /\ sent' = sent
        /\ a \in Asked /\ a.id = x
    <3>1. m.proto # "PubsubMessage"
      BY <1>6, Kinds
    <3>2. request_received /\ asked' = Append(asked, a)
      BY <1>3, <2>1, <2>2, <3>1 DEF poll_events, SubstreamOf
    <3>3. x \in (1..MaxConns) \X (1..MaxRequests) /\ m.peer \in PeerId
      BY <1>6, <2>1 DEF Incoming, SubstreamOf
    <3> QED
      BY <2>2, <3>2, <3>3 DEF request_received, Asked
  <2>4. /\ asked' \in Seq(Asked) /\ Len(asked') = Len(asked) + 1 /\ Len(asked) \in Nat
        /\ asked'[Len(asked) + 1] = a /\ \A n \in 1..Len(asked) : asked'[n] = asked[n]
    BY <1>1, <2>3, AppendElements
  <2>5. Contents(asked') = Contents(asked) \cup {a} /\ AskedOf' = AskedOf \cup {x}
    <3>1. 1..Len(asked') = 1..Len(asked) \cup {Len(asked) + 1}
      BY <2>4
    <3> QED
      BY <2>3, <2>4, <3>1 DEF Contents, AskedOf
  <2>6. /\ Contents(events') \subseteq Contents(events) /\ NamedOnce(events', Incoming)
        /\ x \in Named(events, Incoming) /\ Named(events', Incoming) = Named(events, Incoming) \ {x}
    BY <1>1, <1>2, <1>3, <1>6, <2>1, NamedTail DEF OnePlaceEach
  <2>7. Passing' = Passing \ {x} /\ x \in Passing
    BY <2>6 DEF Passing
  <2>8. Arriving' = Arriving /\ Replying' = Replying /\ Replied' = Replied /\ Answered' = Answered
    BY <1>2, <2>3 DEF Arriving, Replying, Replied, Answered
  <2>9. x \notin Arriving \cup Replying \cup AskedOf \cup Replied
    BY <2>7 DEF OnePlaceEach
  <2>10. DispatchTypes'
    BY <1>1, <1>2, <1>4, <2>3, <2>4 DEF DispatchTypes
  <2>11. Genuine'
    <3>1. \A c, sub, proto : Opened(c, sub, proto) => Opened(c, sub, proto)'
      BY <1>2 DEF Opened
    <3>2. Opened(a.id[1], a.id[2], "Status")
      <4>1. m.proto = "Status" /\ Opened(m.conn, m.sub, m.proto)
        BY <1>4, <1>6 DEF Genuine
      <4>2. a.id[1] = m.conn /\ a.id[2] = m.sub
        BY <2>1, <2>3 DEF SubstreamOf
      <4> QED
        BY <4>1, <4>2
    <3> QED
      BY <1>2, <2>5, <2>6, <3>1, <3>2 DEF Genuine
  <2>12. OnePlaceEach'
    <3>1. \A n \in 1..Len(asked) : asked[n].id # x
      BY <2>9 DEF AskedOf
    <3>2. \A j, n \in 1..Len(asked') : asked'[j].id = asked'[n].id => j = n
      BY <2>3, <2>4, <3>1 DEF OnePlaceEach
    <3>3. \A n \in 1..Len(asked') : asked'[n].id \in Replying \cup Replied => n \in Answered
      BY <2>3, <2>4, <2>9 DEF OnePlaceEach
    <3> QED
      BY <1>2, <2>5, <2>6, <2>7, <2>8, <2>9, <3>2, <3>3 DEF OnePlaceEach
  <2> QED
    BY <2>10, <2>11, <2>12
<1> QED
  BY <1>4, <1>5, <1>6

\* An answer of the client: the table names a request that has had none, and a
\* response to its substream is queued.
LEMMA AnswerStep ==
    ASSUME RequestsInv, DispatchTypes, Genuine, OnePlaceEach, send_successful_response
    PROVE  DispatchTypes' /\ Genuine' /\ OnePlaceEach'
<1>1. /\ send_response /\ UNCHANGED <<conns, events, due, told, asked, delivered, issued>>
      /\ asked \in Seq(Asked) /\ Len(asked) = issued /\ issued \in Nat
  BY DEF send_successful_response, send_response, DispatchTypes, RequestsInv
<1>2. PICK m : m = Head(network_recv)
  OBVIOUS
<1>3. m.index \in Index /\ m.answers \in 1..issued
  <2>1. network_recv \in Seq(Message(issued)) /\ network_recv # <<>>
    BY DEF RequestsInv, send_successful_response, send_response
  <2>2. m \in Message(issued)
    BY <1>2, <2>1, HeadTail, Zenon
  <2> QED
    BY <2>2 DEF Message
<1>4. PICK S : S = Answer(issued)
  OBVIOUS
<1>5. sent \in Seq(S) /\ Len(sent) \in Nat
  BY <1>4 DEF RequestsInv
<1>6. CASE requests[m.index] = None
  <2>1. sent' = sent
    BY <1>1, <1>2, <1>6 DEF send_response
  <2>2. rpc_events' = rpc_events
    BY <1>5, <2>1 DEF send_successful_response
  <2>3. DispatchTypes'
    BY <1>1, <2>2 DEF DispatchTypes
  <2>4. ConnsGrow
    BY <1>1 DEF ConnsGrow
  <2> QED
    BY <1>1, <2>1, <2>2, <2>3, <2>4, QuietStep
<1>7. CASE requests[m.index] # None
  <2>1. PICK n : n = requests[m.index]
    OBVIOUS
  <2>2. n \in 1..issued
    BY <1>1, <1>3, <1>7, <2>1 DEF RequestsInv, None
  <2>3. PICK a : a = [answers |-> m.answers, id |-> n]
    OBVIOUS
  <2>4. a.answers = m.answers /\ a.id = n /\ a \in S
    BY <1>3, <1>4, <2>2, <2>3 DEF Answer
  <2>5. sent' = Append(sent, a)
    BY <1>1, <1>2, <1>7, <2>1, <2>3 DEF send_response
  <2>6. /\ Len(sent') = Len(sent) + 1 /\ sent'[Len(sent) + 1] = a
        /\ \A k \in 1..Len(sent) : sent'[k] = sent[k]
    BY <1>5, <2>4, <2>5, AppendElements
  <2>7. Answered' = Answered \cup {n}
    <3>1. 1..Len(sent') = 1..Len(sent) \cup {Len(sent) + 1}
      BY <1>5, <2>6
    <3> QED
      BY <2>4, <2>6, <3>1 DEF Answered
  <2>8. n \notin Answered
    BY <1>3, <2>1 DEF Answered, RequestsInv, AnsweredAtMostOnce
  <2>9. PICK x : x = asked[n].id
    OBVIOUS
  <2>10. /\ asked[n] \in Asked /\ asked[n] \in Contents(asked) /\ x \in AskedOf
         /\ asked[m.answers] \in Asked
    BY <1>1, <1>3, <2>2, <2>9 DEF Contents, AskedOf
  <2>11. /\ x[1] \in 1..MaxConns /\ x[2] \in 1..MaxRequests /\ x = <<x[1], x[2]>>
         /\ asked[m.answers].peer \in PeerId
    BY <2>9, <2>10 DEF Asked
  <2>12. Opened(x[1], x[2], "Status") /\ "Status" \in Protocol
    <3>1. Opened(x[1], x[2], "Status")
      BY <2>9, <2>10 DEF Genuine
    <3>2. conns[x[1]] \in Connected
      BY <3>1 DEF Opened, DispatchTypes
    <3>3. conns[x[1]].opened \in Seq(Protocol)
      BY <3>2 DEF Connected
    <3> QED
      BY <3>1, <3>3 DEF Opened
  <2>13. PICK r : r = [kind |-> "Response", peer |-> asked[m.answers].peer, conn |-> x[1],
                       sub |-> x[2], proto |-> "Status"]
    OBVIOUS
  <2>14. /\ r \in Outgoing /\ SubstreamOf(r) = x
         /\ r.conn = x[1] /\ r.sub = x[2] /\ r.proto = "Status"
    BY <2>11, <2>12, <2>13 DEF Outgoing, SubstreamOf
  <2>15. r \in Incoming \cup Outgoing \cup Asking /\ r \notin Incoming
    BY <2>14, Kinds
  <2>16. rpc_events' = Append(rpc_events, r)
    <3>1. Len(sent') > Len(sent) /\ sent'[Len(sent')] = a
      BY <1>5, <2>6
    <3> QED
      BY <2>4, <2>9, <2>13, <3>1 DEF send_successful_response, Response
  <2>17. x \notin Replying \cup Replied
    BY <1>1, <2>2, <2>8, <2>9 DEF OnePlaceEach
  <2>18. rpc_events \in Seq(Incoming \cup Outgoing \cup Asking)
    BY DEF DispatchTypes
  <2>19. /\ rpc_events' \in Seq(Incoming \cup Outgoing \cup Asking)
         /\ Contents(rpc_events') = Contents(rpc_events) \cup {r}
         /\ Named(rpc_events', Outgoing) = Replying \cup {x} /\ NamedOnce(rpc_events', Outgoing)
    BY <2>14, <2>15, <2>16, <2>17, <2>18, NamedAppend DEF OnePlaceEach, Replying
  <2>20. Named(rpc_events', Incoming) = Arriving /\ NamedOnce(rpc_events', Incoming)
    BY <2>15, <2>16, <2>18, NamedAppend DEF OnePlaceEach, Arriving
  <2>21. /\ Arriving' = Arriving /\ Replying' = Replying \cup {x} /\ Passing' = Passing
         /\ AskedOf' = AskedOf /\ Replied' = Replied
    BY <1>1, <2>19, <2>20 DEF Arriving, Replying, Passing, AskedOf, Replied
  <2>22. DispatchTypes'
    BY <1>1, <2>19 DEF DispatchTypes
  <2>23. Genuine'
    <3>1. \A c, sub, proto : Opened(c, sub, proto) => Opened(c, sub, proto)'
      BY <1>1 DEF Opened
    <3>2. \A e \in Contents(rpc_events') \cap (Incoming \cup Outgoing) : Opened(e.conn, e.sub, e.proto)
      BY <2>12, <2>14, <2>19 DEF Genuine
    <3> QED
      BY <1>1, <3>1, <3>2 DEF Genuine
  <2>24. OnePlaceEach'
    <3>1. \A k \in 1..Len(asked) : asked[k].id = x => k = n
      BY <1>1, <2>2, <2>9 DEF OnePlaceEach
    <3>2. \A k \in 1..Len(asked) :
             asked[k].id \in Replying \cup {x} \cup Replied => k \in Answered \cup {n}
      BY <3>1 DEF OnePlaceEach
    <3>3. x \notin Arriving \cup Passing
      BY <2>10 DEF OnePlaceEach
    <3> QED
      BY <1>1, <2>7, <2>17, <2>19, <2>20, <2>21, <3>2, <3>3 DEF OnePlaceEach
  <2> QED
    BY <2>22, <2>23, <2>24
<1> QED
  BY <1>6, <1>7

\* A peer connects: its connection has no substreams yet.
LEMMA ConnectStep ==
    ASSUME DispatchTypes, Genuine, OnePlaceEach, NEW p \in PeerId, connect(p)
    PROVE  DispatchTypes' /\ Genuine' /\ OnePlaceEach'
<1>1. /\ conns \in Seq(Connected) /\ Len(conns) \in Nat /\ Len(conns) < MaxConns
      /\ rpc_events \in Seq(Incoming \cup Outgoing \cup Asking)
  BY DEF DispatchTypes, connect
<1>2. PICK v : v = [peer |-> p, up |-> TRUE, active |-> TRUE, opened |-> <<>>]
  OBVIOUS
<1>3. PICK e : e = [kind |-> "Request", peer |-> p, proto |-> "MetaData"]
  OBVIOUS
<1>4. v \in Connected /\ v.opened = <<>> /\ e \in Asking
  BY <1>2, <1>3 DEF Connected, Asking
<1>5. /\ conns' = Append(conns, v) /\ rpc_events' = Append(rpc_events, e)
      /\ told' = told \cup {p} /\ UNCHANGED <<events, due, asked, delivered, issued, sent>>
  BY <1>2, <1>3 DEF connect, Request, vars
<1>6. /\ conns' \in Seq(Connected) /\ Len(conns') = Len(conns) + 1
      /\ conns'[Len(conns) + 1] = v /\ \A c \in 1..Len(conns) : conns'[c] = conns[c]
  BY <1>1, <1>4, <1>5, AppendElements
<1>7. ConnsGrow
  BY <1>1, <1>6 DEF ConnsGrow
<1>8. Genuine' /\ OnePlaceEach'
  BY <1>4, <1>5, <1>7, QuietStep
<1>9. DispatchTypes'
  <2>1. Len(conns') <= MaxConns
    BY <1>1, <1>6, BehaviourAssumption
  <2>2. \A c \in 1..Len(conns') : Len(conns'[c].opened) <= MaxRequests
    <3>1. \A c \in 1..Len(conns) : Len(conns'[c].opened) <= MaxRequests
      BY <1>6 DEF DispatchTypes
    <3>2. Len(conns'[Len(conns) + 1].opened) <= MaxRequests
      BY <1>4, <1>6, RequestsAssumption
    <3> QED
      BY <1>1, <1>6, <3>1, <3>2
  <2>3. rpc_events' \in Seq(Incoming \cup Outgoing \cup Asking)
    BY <1>1, <1>4, <1>5
  <2> QED
    BY <1>5, <1>6, <2>1, <2>2, <2>3 DEF DispatchTypes
<1> QED
  BY <1>8, <1>9

\* A connection ends or a handler is shut down: what was opened stays on record.
LEMMA MarkStep ==
    ASSUME DispatchTypes, Genuine, OnePlaceEach,
           conns' \in Seq(Connected), Len(conns') = Len(conns),
           \A c \in 1..Len(conns) : conns'[c].opened = conns[c].opened,
           UNCHANGED <<rpc_events, events, due, told, asked, delivered, issued, sent>>
    PROVE  DispatchTypes' /\ Genuine' /\ OnePlaceEach'
<1>1. ConnsGrow
  BY DEF ConnsGrow
<1>2. Genuine' /\ OnePlaceEach'
  BY <1>1, QuietStep
<1>3. DispatchTypes'
  BY DEF DispatchTypes
<1> QED
  BY <1>2, <1>3

\* A request of ours is queued or taken, a timer runs out, gossip arrives.
LEMMA OursStep ==
    ASSUME DispatchTypes, Genuine, OnePlaceEach,
           \/ rpc_events' = rpc_events
           \/ \E e \in Asking : rpc_events' = Append(rpc_events, e)
           \/ rpc_events # <<>> /\ Head(rpc_events) \in Asking /\ rpc_events' = Tail(rpc_events),
           events' = events \/ events' = Append(events, Gossip),
           due' \subseteq [kind : {"Ping", "Status"}, peer : PeerId], told' \subseteq PeerId,
           UNCHANGED <<conns, asked, delivered, issued, sent>>
    PROVE  DispatchTypes' /\ Genuine' /\ OnePlaceEach'
<1>1. ConnsGrow
  BY DEF ConnsGrow
<1>2. Genuine' /\ OnePlaceEach'
  BY <1>1, QuietStep
<1>3. rpc_events' \in Seq(Incoming \cup Outgoing \cup Asking)
  <2>1. PICK T : T = Incoming \cup Outgoing \cup Asking
    OBVIOUS
  <2>2. rpc_events \in Seq(T) /\ \A e \in Asking : e \in T
    BY <2>1 DEF DispatchTypes
  <2> QED
    BY <2>1, <2>2, AppendElements, HeadTail
<1>4. events' \in Seq(Incoming \cup {Gossip})
  <2>1. PICK T : T = Incoming \cup {Gossip}
    OBVIOUS
  <2>2. events \in Seq(T) /\ Gossip \in T
    BY <2>1 DEF DispatchTypes
  <2> QED
    BY <2>1, <2>2, AppendElements
<1>5. DispatchTypes'
  BY <1>3, <1>4 DEF DispatchTypes
<1> QED
  BY <1>2, <1>5

\* Every step keeps what is under way genuine and in one place.
LEMMA DispatchStep ==
    ASSUME RequestsInv, DispatchTypes, Genuine, OnePlaceEach, BehaviourNext
    PROVE  DispatchTypes' /\ Genuine' /\ OnePlaceEach'
<1> DEFINE Kept == DispatchTypes' /\ Genuine' /\ OnePlaceEach'
<1>1. /\ conns \in Seq(Connected) /\ \A c \in 1..Len(conns) : conns[c] \in Connected
      /\ due \subseteq [kind : {"Ping", "Status"}, peer : PeerId] /\ told \subseteq PeerId
  BY DEF DispatchTypes
<1>2. ASSUME NEW p \in PeerId, connect(p) PROVE Kept
  BY <1>2, ConnectStep
<1>3. ASSUME NEW p \in PeerId, rpc_request(p) PROVE Kept
  <2>1. PICK e \in Asking : e = [kind |-> "Request", peer |-> p, proto |-> "Status"]
    BY DEF Asking
  <2>2. /\ rpc_events' = Append(rpc_events, e) /\ told' \subseteq PeerId
        /\ UNCHANGED <<conns, events, due, asked, delivered, issued, sent>>
    BY <1>1, <1>3, <2>1 DEF rpc_request, Request, vars
  <2> QED
    BY <1>1, <2>2, OursStep
<1>4. ASSUME NEW p \in PeerId, NEW kind \in {"Ping", "Status"}, timer_elapses(kind, p) PROVE Kept
  <2>1. /\ due' \subseteq [kind : {"Ping", "Status"}, peer : PeerId]
        /\ UNCHANGED <<conns, rpc_events, events, told, asked, delivered, issued, sent>>
    BY <1>1, <1>4 DEF timer_elapses, queues, vars
  <2> QED
    BY <1>1, <2>1, OursStep
<1>5. ASSUME NEW c \in 1..Len(conns), close(c) PROVE Kept
  <2>1. PICK v : v = [conns[c] EXCEPT !.up = FALSE, !.active = FALSE]
    OBVIOUS
  <2>2. v \in Connected /\ v.opened = conns[c].opened
    BY <1>1, <2>1 DEF Connected
  <2>3. /\ conns' = [conns EXCEPT ![c] = v]
        /\ UNCHANGED <<rpc_events, events, due, told, asked, delivered, issued, sent>>
    BY <1>1, <1>5, <2>1 DEF close, queues, vars
  <2>4. /\ conns' \in Seq(Connected) /\ Len(conns') = Len(conns)
        /\ \A d \in 1..Len(conns) : conns'[d].opened = conns[d].opened
    BY <1>1, <2>2, <2>3
  <2> QED
    BY <2>3, <2>4, MarkStep
<1>6. ASSUME NEW c \in 1..Len(conns), NEW proto \in Protocol, inject_event(c, proto) PROVE Kept
  BY <1>6, InjectStep
<1>7. ASSUME NEW r \in unanswered, NEW client \in Client, client_response(r, client) PROVE Kept
  <2>1. UNCHANGED <<conns, rpc_events, events, due, told, asked, delivered, issued, sent>>
    BY <1>7 DEF client_response, rpc_response, dispatchVars, queues
  <2> QED
    BY <1>1, <2>1, OursStep
<1>8. CASE send_successful_response
  BY <1>8, AnswerStep
<1>9. CASE wake \/ poll_pending
  <2>1. UNCHANGED <<conns, rpc_events, events, due, told, asked, delivered, issued, sent>>
    BY <1>9 DEF wake, poll_pending, queues, vars
  <2> QED
    BY <1>1, <2>1, OursStep
<1>10. CASE poll_gossipsub
  <2>1. /\ events' = Append(events, Gossip)
        /\ UNCHANGED <<conns, rpc_events, due, told, asked, delivered, issued, sent>>
    BY <1>10 DEF poll_gossipsub, on_gossip_event, Gossip, vars
  <2> QED
    BY <1>1, <2>1, OursStep
<1>11. CASE poll_rpc
  <2>1. PICK m : m = Head(rpc_events)
    OBVIOUS
  <2>2. rpc_events # <<>> /\ m \in Incoming \cup Outgoing \cup Asking
    BY <1>11, <2>1, TakeMessage DEF poll_rpc
  <2>3. CASE m \in Incoming
    BY <1>11, <2>1, <2>2, <2>3, Kinds, HandleStep DEF poll_rpc
  <2>4. ASSUME m \notin Incoming
        PROVE  /\ rpc_events' = Tail(rpc_events)
               /\ IF m.kind = "Request" THEN notify_any(m) ELSE notify_one(m)
               /\ UNCHANGED <<conns, events, due, told, asked, issued, sent>>
    BY <1>11, <2>1, <2>2, <2>4, Kinds DEF poll_rpc, vars
  <2>5. CASE m \in Outgoing
    BY <2>1, <2>2, <2>4, <2>5, Kinds, DeliverStep
  <2>6. CASE m \in Asking
    BY <1>1, <2>1, <2>2, <2>4, <2>6, Kinds, OursStep DEF notify_any
  <2> QED
    BY <2>2, <2>3, <2>5, <2>6
<1>12. CASE poll_disconnect
  <2>1. PICK D : D = connections(Head(peers_to_dc))
    OBVIOUS
  <2>2. /\ conns' = [c \in 1..Len(conns) |-> IF c \in D THEN [conns[c] EXCEPT !.active = FALSE]
                                             ELSE conns[c]]
        /\ UNCHANGED <<rpc_events, events, due, told, asked, delivered, issued, sent>>
    BY <1>12, <2>1 DEF poll_disconnect, vars
  <2>3. ASSUME NEW c \in 1..Len(conns)
        PROVE  conns'[c] \in Connected /\ conns'[c].opened = conns[c].opened
    <3>1. [conns[c] EXCEPT !.active = FALSE] \in Connected
          /\ [conns[c] EXCEPT !.active = FALSE].opened = conns[c].opened
      BY <1>1 DEF Connected
    <3> QED
      BY <1>1, <2>2, <3>1
  <2>4. Len(conns) \in Nat /\ conns' = [c \in 1..Len(conns) |-> conns'[c]]
    BY <1>1, <2>2
  <2>5. conns' \in Seq(Connected) /\ Len(conns') = Len(conns)
    BY <2>3, <2>4
  <2> QED
    BY <2>2, <2>3, <2>5, MarkStep
<1>13. ASSUME NEW d \in due, poll_peer_manager(d) PROVE Kept
  <2>1. d.peer \in PeerId /\ due' \subseteq due
        /\ UNCHANGED <<conns, events, asked, delivered, issued, sent>>
    BY <1>1, <1>13 DEF poll_peer_manager, vars
  <2>2. CASE d.kind = "Ping"
    <3>1. PICK e \in Asking : e = [kind |-> "Request", peer |-> d.peer, proto |-> "Ping"]
      BY <2>1 DEF Asking
    <3>2. rpc_events' = Append(rpc_events, e) /\ told' = told
      BY <1>13, <2>2, <3>1 DEF poll_peer_manager, Request
    <3> QED
      BY <1>1, <2>1, <3>2, OursStep
  <2>3. CASE d.kind = "Status"
    <3>1. rpc_events' = rpc_events /\ told' \subseteq PeerId
      BY <1>1, <1>13, <2>1, <2>3 DEF poll_peer_manager
    <3> QED
      BY <1>1, <2>1, <3>1, OursStep
  <2> QED
    BY <1>13, <2>2, <2>3 DEF poll_peer_manager
<1>14. CASE poll_events
  BY <1>14, AskStep
<1> QED
  BY <1>2, <1>3, <1>4, <1>5, <1>6, <1>7, <1>8, <1>9, <1>10, <1>11, <1>12, <1>13, <1>14
     DEF BehaviourNext, poll

\* Requests of peers and responses to them are in one place each, always.
LEMMA DispatchInvariant == BehaviourSpec => []DispatchInv
<1> DEFINE Rest == DispatchTypes /\ Genuine /\ OnePlaceEach
<1>1. BehaviourInit => Rest
  <2> SUFFICES ASSUME BehaviourInit PROVE Rest
    OBVIOUS
  <2>1. /\ conns = <<>> /\ rpc_events = <<>> /\ events = <<>> /\ asked = <<>> /\ delivered = <<>>
        /\ due = {} /\ told = {} /\ issued = 0
    BY DEF BehaviourInit, Init
  <2>2. DispatchTypes
    BY <2>1, BehaviourAssumption DEF DispatchTypes
  <2>3. Contents(<<>>) = {}
    BY DEF Contents
  <2>4. Genuine
    BY <2>1, <2>3 DEF Genuine
  <2>5. \A M : Named(<<>>, M) = {} /\ NamedOnce(<<>>, M)
    BY <2>3 DEF Named, NamedOnce
  <2>6. OnePlaceEach
    BY <2>1, <2>5 DEF OnePlaceEach, Arriving, Replying, Passing, Replied
  <2> QED
    BY <2>2, <2>4, <2>6
<1>2. RequestsInv /\ Rest /\ [BehaviourNext]_behaviourVars => Rest'
  <2> SUFFICES ASSUME RequestsInv, Rest, [BehaviourNext]_behaviourVars PROVE Rest'
    OBVIOUS
  <2>1. CASE BehaviourNext
    BY <2>1, DispatchStep
  <2>2. CASE UNCHANGED behaviourVars
    <3>1. UNCHANGED <<conns, rpc_events, events, due, told, asked, delivered, issued, sent>>
      BY <2>2 DEF behaviourVars, dispatchVars, queues, vars
    <3>2. due \subseteq [kind : {"Ping", "Status"}, peer : PeerId] /\ told \subseteq PeerId
      BY DEF DispatchTypes
    <3> QED
      BY <3>1, <3>2, OursStep
  <2> QED
    BY <2>1, <2>2
<1>3. RequestsInv /\ Rest => DispatchInv
  BY DEF DispatchInv
<1> HIDE DEF Rest
<1> QED
  BY <1>1, <1>2, <1>3, BehaviourImplementsRequests, RequestsInvariant, PTL DEF BehaviourSpec

\* However the peers come and go, whatever the clients answer and however often,
\* and in whichever order the task gets to its queues: a response that reaches a
\* handler (notify_handler of a Response in rpc/mod.rs) is for a request that was
\* made on that substream, for its protocol, and the only one.
THEOREM DispatchResponsesMatch == BehaviourSpec => []ResponsesMatch
<1>1. DispatchInv => ResponsesMatch
  <2> SUFFICES ASSUME DispatchInv PROVE ResponsesMatch
    OBVIOUS
  <2>1. DispatchTypes /\ Genuine /\ OnePlaceEach
    BY DEF DispatchInv
  <2>2. ASSUME NEW k \in 1..Len(delivered)
        PROVE  /\ <<delivered[k].conn, delivered[k].sub>> \in substreams
               /\ opened(delivered[k].conn)[delivered[k].sub] = delivered[k].proto
    <3>1. PICK d : d = delivered[k]
      OBVIOUS
    <3>2. d \in Delivery /\ d \in Contents(delivered)
      BY <2>1, <3>1 DEF DispatchTypes, Contents
    <3>3. Opened(d.conn, d.sub, d.proto)
      BY <2>1, <3>2 DEF Genuine
    <3>4. opened(d.conn) = conns[d.conn].opened /\ d.sub \in 1..Len(opened(d.conn))
      BY <3>3 DEF opened, Opened
    <3>5. <<d.conn, d.sub>> \in (1..MaxConns) \X (1..MaxRequests) /\ d.sub <= Len(opened(d.conn))
      BY <3>2, <3>4 DEF Delivery
    <3> QED
      BY <3>1, <3>3, <3>4, <3>5 DEF substreams, Opened
  <2>3. \A k \in 1..Len(delivered) : delivered[k] \in Delivery
    BY <2>1 DEF DispatchTypes
  <2>4. ASSUME NEW j \in 1..Len(delivered), NEW k \in 1..Len(delivered),
               delivered[j].conn = delivered[k].conn, delivered[j].sub = delivered[k].sub
        PROVE  j = k
    BY <2>1, <2>3, <2>4 DEF OnePlaceEach, NamedOnce, SubstreamOf
  <2> QED
    BY <2>2, <2>4 DEF ResponsesMatch
<1> QED
  BY <1>1, DispatchInvariant, PTL

=============================================================================
