----------------------------- MODULE Behaviour -----------------------------
(***************************************************************************)
(* How requests of peers travel: from the connection handlers through the  *)
(* queue of the RPC behaviour (core/network/src/rpc/mod.rs), the combined  *)
(* behaviour (core/network/src/behaviour/mod.rs) and the network service   *)
(* (Requests) to the client, and how answers travel back.                  *)
(*                                                                         *)
(* All of it is one task.  pc says where the task is: asleep until it is   *)
(* woken, in the swarm, which lets connections make progress before it     *)
(* polls the behaviour, in the loop over the RPC behaviour, or in          *)
(* custom_poll.  Ping and MetaData are answered by the behaviour, a        *)
(* Goodbye has the peer disconnected, a Status goes up to the client.      *)
(*                                                                         *)
(* The swarm is external.  As in Service it keeps one connection per peer, *)
(* and a peer that comes back has a new ConnectionId; substreams are       *)
(* numbered anew in each connection.                                       *)
(***************************************************************************)
EXTENDS Requests

CONSTANTS
    PeerId,      \* peers
    Protocol,    \* protocols of the requests that peers make
    MaxConns,    \* bound on the connections
    MaxInputs    \* bound on timers that run out, gossip messages and our requests

ASSUME BehaviourAssumption ==
    /\ Protocol \subseteq {"Ping", "MetaData", "Goodbye", "Status"}
    /\ MaxConns \in Nat /\ MaxInputs \in Nat

VARIABLES
    pc,           \* where the task is
    conns,        \* swarm: the connections and their handlers, by ConnectionId
    rpc_events,   \* RPC::events: NetworkBehaviourActions
    peers_to_dc,  \* Behaviour::peers_to_dc
    events,       \* Behaviour::events
    due,          \* timers of the peer manager that have run out
    told,         \* peers that the client has been told to send a Status to
    inputs,       \* number of timers, gossip messages and requests so far
    asked,        \* what the n-th request given to the client was
    delivered     \* responses given to handlers

queues        == <<rpc_events, peers_to_dc, events>>
dispatchVars  == <<pc, conns, queues, due, told, inputs, asked, delivered>>
behaviourVars == <<vars, dispatchVars>>


Request(p, proto) == [kind |-> "Request", peer |-> p, proto |-> proto]
Response(p, id, proto) ==
    [kind |-> "Response", peer |-> p, conn |-> id[1], sub |-> id[2], proto |-> proto]
Received(p, id, proto) ==
    [kind |-> "Message", peer |-> p, conn |-> id[1], sub |-> id[2], proto |-> proto]

up(c) == c \in 1..Len(conns) /\ conns[c].up
connections(p) == {c \in 1..Len(conns) : conns[c].up /\ conns[c].peer = p}
opened(c) == IF c \in 1..Len(conns) THEN conns[c].opened ELSE <<>>
substreams == {s \in (1..MaxConns) \X (1..MaxRequests) : s[2] <= Len(opened(s[1]))}

-----------------------------------------------------------------------------
(* What the network does while the task is not in the behaviour            *)

Outside == pc \in {"asleep", "swarm"} /\ pc' = "swarm"

\* A peer connects.  The RPC behaviour asks for its metadata, and the client is
\* told to send it a Status.
connect(p) ==
    /\ Outside /\ Len(conns) < MaxConns /\ connections(p) = {}
    /\ conns' = Append(conns, [peer |-> p, up |-> TRUE, active |-> TRUE,
                               opened |-> <<>>])
    /\ rpc_events' = Append(rpc_events, Request(p, "MetaData"))
    /\ told' = told \cup {p}
    /\ UNCHANGED <<vars, peers_to_dc, events, due, inputs, asked, delivered>>

close(c) ==
    /\ Outside /\ up(c)
    /\ conns' = [conns EXCEPT ![c].up = FALSE, ![c].active = FALSE]
    /\ UNCHANGED <<vars, queues, due, told, inputs, asked, delivered>>

\* An active handler reports a request of the peer.
inject_event(c, proto) ==
    /\ Outside /\ up(c) /\ conns[c].active /\ Cardinality(substreams) < MaxRequests
    /\ conns' = [conns EXCEPT ![c].opened = Append(@, proto)]
    /\ rpc_events' = Append(rpc_events,
                        Received(conns[c].peer, <<c, Len(conns[c].opened) + 1>>, proto))
    /\ UNCHANGED <<vars, peers_to_dc, events, due, told, inputs, asked, delivered>>

\* A ping or a status timer of a peer runs out.
timer_elapses(kind, p) ==
    /\ Outside /\ connections(p) # {} /\ inputs < MaxInputs
    /\ inputs' = inputs + 1
    /\ due' = due \cup {[kind |-> kind, peer |-> p]}
    /\ UNCHANGED <<vars, conns, queues, told, asked, delivered>>

\* Mutant: the interval is only looked at when a timer has run out as well.
heartbeat_WhenDue == pc = "asleep" /\ due # {} /\ pc' = "swarm"

\* The interval of the peer manager wakes the task every 30 seconds.
heartbeat == pc = "asleep" /\ pc' = "swarm"

wake == heartbeat /\ UNCHANGED <<vars, conns, queues, due, told, inputs, asked, delivered>>

-----------------------------------------------------------------------------
(* The client, through the channel of the network service                  *)

\* rpc_request, and NetworkMessage::SendRequest that it is taken for.
rpc_request(p) ==
    /\ Outside /\ p \in told /\ inputs < MaxInputs
    /\ inputs' = inputs + 1
    /\ told' = told \ {p}
    /\ rpc_events' = Append(rpc_events, Request(p, "Status"))
    /\ UNCHANGED <<vars, conns, peers_to_dc, events, due, asked, delivered>>

\* A repeated answer leaves room for the requests that are still to come.
client_response(r, client) ==
    /\ rpc_response(r, client)
    /\ Cardinality(unanswered') + Len(network_recv') + MaxRequests - issued <= MaxPending
    /\ UNCHANGED dispatchVars

\* NetworkMessage::SendResponse goes on to Behaviour::send_successful_response:
\* the client names the peer it was asked by, the table the substream.
send_successful_response ==
    /\ Outside
    /\ send_response
    /\ rpc_events' =
         IF Len(sent') > Len(sent)
         THEN LET a == sent'[Len(sent')]
              IN  Append(rpc_events, Response(asked[a.answers].peer, asked[a.id].id, "Status"))
         ELSE rpc_events
    /\ UNCHANGED <<conns, peers_to_dc, events, due, told, inputs, asked, delivered>>

-----------------------------------------------------------------------------
(* Behaviour::poll                                                         *)

\* Mutant: a Ping is answered and passed on to the client as well.
propagated_Ping(m) == IF m.proto \in {"Status", "Ping"} THEN <<m>> ELSE <<>>

\* propagate_request: the requests that go up to the client.
propagated(m) == IF m.proto = "Status" THEN <<m>> ELSE <<>>

\* What on_rpc_event queues for a message of a handler.
on_rpc_event(m) ==
    /\ rpc_events' = Tail(rpc_events) \o
         (IF m.proto \in {"Ping", "MetaData"}
          THEN <<Response(m.peer, <<m.conn, m.sub>>, m.proto)>> ELSE <<>>)
    /\ peers_to_dc' = IF m.proto = "Goodbye" THEN Append(peers_to_dc, m.peer) ELSE peers_to_dc
    /\ events' = events \o propagated(m)
    /\ UNCHANGED <<vars, conns, due, told, inputs, asked, delivered>>

\* NotifyHandler::Any for a request: any connection of the peer, none if it has
\* left.  What the handler does with it is in RPCHandler.
notify_any(m) == UNCHANGED delivered

\* Mutant: the response goes to whichever connection the peer has.
notify_target_Any(m) == connections(m.peer)

\* NotifyHandler::One for a response: the connection of the request, if it is
\* still there and the peer that is named is connected.
notify_target(m) == IF connections(m.peer) # {} THEN {c \in {m.conn} : up(c)} ELSE {}

\* Whether the swarm delivers to a connection of another peer than the one that
\* is named is left open.
notify_one(m) ==
    \/ \E c \in notify_target(m) :
          delivered' = Append(delivered, [conn |-> c, sub |-> m.sub, proto |-> m.proto])
    \/ notify_target(m) \cap connections(m.peer) = {} /\ UNCHANGED delivered

\* The loop over the RPC behaviour: messages are handled, actions for handlers
\* returned to the swarm.
poll_rpc ==
    /\ pc \in {"swarm", "rpc"} /\ rpc_events # <<>>
    /\ LET m == Head(rpc_events)
       IN  \/ /\ m.kind = "Message" /\ pc' = "rpc" /\ on_rpc_event(m)
           \/ /\ m.kind # "Message" /\ pc' = "swarm"
              /\ rpc_events' = Tail(rpc_events)
              /\ IF m.kind = "Request" THEN notify_any(m) ELSE notify_one(m)
              /\ UNCHANGED <<vars, conns, peers_to_dc, events, due, told, inputs, asked>>

\* A gossip message is queued for the client, in the poll that goes on to the
\* RPC behaviour.
on_gossip_event == events' = Append(events, [proto |-> "PubsubMessage"])

poll_gossipsub ==
    /\ pc = "swarm" /\ inputs < MaxInputs /\ inputs' = inputs + 1
    /\ pc' = "rpc" /\ on_gossip_event
    /\ UNCHANGED <<vars, conns, rpc_events, peers_to_dc, due, told, asked, delivered>>

\* The RPC behaviour has nothing: peers to disconnect come first.
CustomPoll == pc = "custom" \/ (pc \in {"swarm", "rpc"} /\ rpc_events = <<>>)

poll_disconnect ==
    /\ pc # "custom" /\ CustomPoll /\ peers_to_dc # <<>>
    /\ pc' = "swarm"
    /\ peers_to_dc' = Tail(peers_to_dc)
    /\ conns' = [c \in 1..Len(conns) |->
                   IF c \in connections(Head(peers_to_dc))
                   THEN [conns[c] EXCEPT !.active = FALSE] ELSE conns[c]]
    /\ UNCHANGED <<vars, rpc_events, events, due, told, inputs, asked, delivered>>

\* Then the peer manager.  A Ping is queued behind the RPC behaviour, which has
\* been polled already, and the loop goes on; a Status returns to the client.
poll_peer_manager(d) ==
    /\ CustomPoll /\ (pc = "custom" \/ peers_to_dc = <<>>)
    /\ d \in due /\ due' = due \ {d}
    /\ \/ /\ d.kind = "Ping" /\ pc' = "custom"
          /\ rpc_events' = Append(rpc_events, Request(d.peer, "Ping"))
          /\ UNCHANGED told
       \/ /\ d.kind = "Status" /\ pc' = "swarm"
          /\ told' = told \cup {d.peer}
          /\ UNCHANGED rpc_events
    /\ UNCHANGED <<vars, conns, peers_to_dc, events, inputs, asked, delivered>>

\* Then the events for the client, the oldest first.
poll_events ==
    /\ CustomPoll /\ (pc = "custom" \/ peers_to_dc = <<>>) /\ due = {} /\ events # <<>>
    /\ pc' = "swarm"
    /\ events' = Tail(events)
    /\ LET m == Head(events)
       IN  \/ /\ m.proto # "PubsubMessage" /\ request_received
              /\ asked' = Append(asked, [peer |-> m.peer, id |-> <<m.conn, m.sub>>])
           \/ /\ m.proto = "PubsubMessage" /\ UNCHANGED <<vars, asked>>
    /\ UNCHANGED <<conns, rpc_events, peers_to_dc, due, told, inputs, delivered>>

\* Poll::Pending: the task sleeps, whatever custom_poll left in the queue of
\* the RPC behaviour.
poll_pending ==
    /\ CustomPoll /\ (pc = "custom" \/ peers_to_dc = <<>>) /\ due = {} /\ events = <<>>
    /\ pc' = "asleep"
    /\ UNCHANGED <<vars, conns, queues, due, told, inputs, asked, delivered>>

poll == poll_rpc \/ poll_disconnect \/ (\E d \in due : poll_peer_manager(d)) \/ poll_events \/ poll_pending

-----------------------------------------------------------------------------

BehaviourInit ==
    /\ Init
    /\ pc = "asleep" /\ conns = <<>>
    /\ rpc_events = <<>> /\ peers_to_dc = <<>> /\ events = <<>>
    /\ due = {} /\ told = {} /\ inputs = 0 /\ asked = <<>> /\ delivered = <<>>

BehaviourNext ==
    \/ \E p \in PeerId : \/ connect(p) \/ rpc_request(p)
                         \/ \E kind \in {"Ping", "Status"} : timer_elapses(kind, p)
    \/ \E c \in 1..Len(conns) : \/ close(c)
                                \/ \E proto \in Protocol : inject_event(c, proto)
    \/ \E r \in unanswered, client \in Client : client_response(r, client)
    \/ send_successful_response
    \/ wake
    \/ poll_gossipsub
    \/ poll

BehaviourSpec == BehaviourInit /\ [][BehaviourNext]_behaviourVars

\* A task that is awake is polled, and the interval elapses.
BehaviourFairSpec ==
    BehaviourSpec /\ WF_behaviourVars(poll) /\ WF_behaviourVars(wake)

-----------------------------------------------------------------------------
(* Properties                                                              *)

\* Every response that reaches a handler is one to a request that was made on
\* a substream of that connection, for that protocol, and the only one, however
\* often the client answers and the peer comes and goes.  Which peer's request
\* an answer of the client is for is another matter, see AnswersItsRequest.
ResponsesMatch ==
    /\ \A k \in 1..Len(delivered) :
          LET d == delivered[k]
          IN  <<d.conn, d.sub>> \in substreams /\ opened(d.conn)[d.sub] = d.proto
    /\ \A j, k \in 1..Len(delivered) :
          delivered[j].conn = delivered[k].conn /\ delivered[j].sub = delivered[k].sub => j = k

\* The request of a peer has been served: a Ping or MetaData request has been
\* responded to and a Goodbye has shut the handler down, unless the connection
\* has ended; a Status has reached the client.
Served(c, sub) ==
    CASE opened(c)[sub] \in {"Ping", "MetaData"} ->
            ~up(c) \/ \E k \in 1..Len(delivered) : delivered[k].conn = c /\ delivered[k].sub = sub
      [] opened(c)[sub] = "Goodbye" -> ~conns[c].active
      [] opened(c)[sub] = "Status" -> \E n \in 1..Len(asked) : asked[n].id = <<c, sub>>

\* What peers ask for is done, and no request of ours stays in the queue of the
\* RPC behaviour, though custom_poll wakes nobody when it puts one there.  What
\* is served stays served and there are MaxRequests at most, so this says that
\* each of them is served in the end.
PeersServed == []<>(rpc_events = <<>> /\ \A s \in substreams : Served(s[1], s[2]))

=============================================================================
