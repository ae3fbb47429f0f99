---------------------------- MODULE PeerManager ----------------------------
(***************************************************************************)
(* The peer manager (core/network/src/peer_manager/mod.rs): on top of the  *)
(* peer database and the discovery service it keeps the timers after which *)
(* a peer is pinged or sent a status, and the queue of events that the     *)
(* behaviour takes from it.                                                *)
(*                                                                         *)
(* A HashSetDelay is the set of its keys, see DelaySet for what it         *)
(* promises and HashSetDelay for the code that keeps the promise: a timer  *)
(* that is set again is only put off.  Queries carry no min_ttl, see       *)
(* Discovery.                                                              *)
(***************************************************************************)
EXTENDS PeerDB, Discovery

CONSTANTS
    target_peers,   \* number of peers that we would like to connect to
    MaxEvents       \* bound on the queue of events

ASSUME TargetAssumption == target_peers \in Nat /\ MaxEvents \in Nat

VARIABLES
    ping_peers,     \* peers with a ping timer
    status_peers,   \* peers with a status timer
    events          \* PeerManagerEvents that the behaviour has not taken yet

timerVars == <<ping_peers, status_peers>>
pmVars    == <<pdbVars, discoveryVars, timerVars, events>>

Dial(p)   == [kind |-> "Dial", peer |-> p]
Ping(p)   == [kind |-> "Ping", peer |-> p]
Status(p) == [kind |-> "Status", peer |-> p]

PeerManagerEvent == [kind : {"Dial", "Ping", "Status"}, peer : PeerId]

peer_statusd(p) ==
    /\ status_peers' = status_peers \cup {p}
    /\ UNCHANGED ping_peers

\* Mutant: the ping timer is not removed.
remove_timers_KeepsPing(p) ==
    status_peers' = status_peers \ {p} /\ UNCHANGED ping_peers

remove_timers(p) ==
    /\ ping_peers' = ping_peers \ {p}
    /\ status_peers' = status_peers \ {p}

\* Mutant: the timers are removed and the database is not told.
notify_disconnect_TimersOnly(p) == remove_timers(p) /\ UNCHANGED pdbVars

notify_disconnect(p) == disconnect(p) /\ remove_timers(p)

start_timers(p) ==
    /\ ping_peers' = ping_peers \cup {p}
    /\ status_peers' = status_peers \cup {p}

\* Mutant: the status is written past the setters of the database.
connect_peer_Direct(p, connection) ==
    /\ peers' = Store(p, SetStatus(entry_or_default(p),
                          IF connection = "Dialing" THEN "Dialing" ELSE "Connected"))
    /\ UNCHANGED <<n_dc, panicked>>
    /\ start_timers(p)

\* An ingoing connection is counted with connect_outgoing, and the other way
\* round, as in the code.
connect_peer(p, connection) ==
    /\ CASE connection = "Dialing"           -> dialing_peer(p)
         [] connection = "IngoingConnected"  -> connect_outgoing(p)
         [] connection = "OutgoingConnected" -> connect_ingoing(p)
    /\ start_timers(p)

\* handle_rpc_error: what a peer is reported for.  Errors of our own, and most
\* timeouts, are not held against it.
RPCError == {"IncompleteStream", "InternalError", "HandlerRejected", "InvalidData", "IoError",
             "Unknown", "ServerError", "InvalidRequest", "DecodeError", "UnsupportedProtocol",
             "StreamTimeout", "NegotiationTimeout"}

peer_action(proto, err) ==
    CASE err \in {"InvalidData", "DecodeError"} -> "Fatal"
      [] err \in {"IncompleteStream", "ServerError"} -> "MidToleranceError"
      [] err \in {"IoError", "Unknown", "NegotiationTimeout"} -> "HighToleranceError"
      [] err = "InvalidRequest" -> "LowToleranceError"
      [] err = "UnsupportedProtocol" /\ proto = "Ping" -> "Fatal"
      [] err = "UnsupportedProtocol" /\ proto \in {"MetaData", "Status"} -> "LowToleranceError"
      [] err = "StreamTimeout" /\ proto = "Ping" -> "LowToleranceError"
      [] OTHER -> "None"

handle_rpc_error(p, proto, err) ==
    /\ peer_action(proto, err) # "None"
    /\ add_reputation(p, peer_action(proto, err))
    /\ UNCHANGED <<discoveryVars, timerVars, events>>

\* A discovery query returned the peers found: those that are neither known to
\* be connected, dialled nor banned are to be dialled.  Dialling changes the
\* database only later, so one answer may name more peers than are needed.
peers_discovered(found) ==
    LET suitable == {p \in found : ~is_connected_or_dialing(p) /\ ~peer_banned(p)}
        dials    == IF Cardinality(connected_or_dialing_peers) < target_peers
                    THEN suitable ELSE {}
    IN  \E order \in [1..Cardinality(dials) -> dials] :
          /\ {order[k] : k \in DOMAIN order} = dials
          /\ Len(events) + Len(order) <= MaxEvents
          /\ events' = events \o [k \in DOMAIN order |-> Dial(order[k])]

poll_discovery ==
    /\ \/ \E outcome \in {"Pending", "Empty", "Failed"} : poll(outcome) /\ UNCHANGED events
       \/ \E found \in SUBSET PeerId \ {{}} : poll("Found") /\ peers_discovered(found)
    /\ UNCHANGED <<pdbVars, timerVars>>

\* Every HEARTBEAT_INTERVAL: more peers are sought if there are too few.
heartbeat ==
    /\ IF Cardinality(connected_or_dialing_peers) < target_peers
       THEN discover_peers ELSE UNCHANGED discoveryVars
    /\ UNCHANGED <<pdbVars, timerVars, events>>

\* A ping, or status, timer has elapsed: it is set again and the event queued.
ping_elapsed(p) ==
    /\ p \in ping_peers /\ Len(events) < MaxEvents
    /\ events' = Append(events, Ping(p))
    /\ UNCHANGED <<pdbVars, discoveryVars, timerVars>>

status_elapsed(p) ==
    /\ p \in status_peers /\ Len(events) < MaxEvents
    /\ events' = Append(events, Status(p))
    /\ UNCHANGED <<pdbVars, discoveryVars, timerVars>>

PMInit ==
    /\ PDBInit /\ DiscoveryInit
    /\ ping_peers = {} /\ status_peers = {} /\ events = <<>>

=============================================================================
