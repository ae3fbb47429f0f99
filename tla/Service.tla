------------------------------ MODULE Service ------------------------------
(***************************************************************************)
(* The libp2p service (core/network/src/service.rs) over the peer manager: *)
(* what it does with the events of the swarm, with the events of the peer  *)
(* manager, and with the bans that the client asks for.  All of it runs in *)
(* one task, so every reaction is one action.                              *)
(*                                                                         *)
(* The swarm is external.  As the code uses it: it refuses a second        *)
(* connection to a peer (MAX_CONNECTIONS_PER_PEER is 1) and peers that are *)
(* banned; it dials only peers that are neither connected nor being        *)
(* dialled (DialPeerCondition::Disconnected), one address after the other, *)
(* and reports every address that fails; dial_addr, at start-up, is not    *)
(* announced by a Dialing event; whether the connections that ban_peer_id  *)
(* drops are reported as closed is left open.                              *)
(***************************************************************************)
EXTENDS PeerManager

CONSTANTS
    BootNodes,    \* peers that are dialled by address at start-up
    MaxAddrs,     \* addresses that a peer may have
    Errors,       \* errors that the RPC handlers report
    BanReports,   \* may dropped connections be reported as closed?
    MaxBans       \* bound on the bans

ASSUME ServiceAssumption ==
    /\ BootNodes \subseteq PeerId /\ MaxAddrs \in Nat /\ MaxBans \in Nat
    /\ Errors \subseteq RPCError
    /\ \A proto \in {"Ping", "Status"}, err \in Errors :
          peer_action(proto, err) \in PeerAction \cup {"None"}
    /\ BanReports \subseteq BOOLEAN

VARIABLES
    connected,    \* swarm: peers with an established connection
    dials,        \* swarm: addresses left to try for a peer that is dialled
    boot,         \* swarm: peers being dialled by address
    banned,       \* swarm: banned peers
    rpc_events,   \* peers with a status message that the behaviour has yet to see
    bans          \* peers_to_ban and peer_ban_timeout: the two timers of each ban

swarmVars == <<connected, dials, boot, banned>>
serviceVars == <<pmVars, swarmVars, rpc_events, bans>>

-----------------------------------------------------------------------------
(* Events of the swarm                                                     *)

Connect(p) ==
    /\ p \notin connected /\ p \notin banned
    /\ connected' = connected \cup {p}
    /\ UNCHANGED <<discoveryVars, events, banned, rpc_events, bans>>

\* A peer dials us: ConnectionEstablished with a Listener endpoint.
established_listener(p) ==
    /\ Connect(p)
    /\ connect_peer(p, "IngoingConnected")
    /\ UNCHANGED <<dials, boot>>

\* Our dial succeeds: ConnectionEstablished with a Dialer endpoint goes to the
\* database and not to the peer manager.
established_dialer(p) ==
    /\ Connect(p)
    /\ \/ dials[p] > 0 /\ dials' = [dials EXCEPT ![p] = 0] /\ UNCHANGED boot
       \/ p \in boot /\ boot' = boot \ {p} /\ UNCHANGED dials
    /\ connect_outgoing(p)
    /\ UNCHANGED timerVars

\* ConnectionClosed, the last one of the peer.
connection_closed(p) ==
    /\ p \in connected
    /\ connected' = connected \ {p}
    /\ notify_disconnect(p)
    /\ UNCHANGED <<discoveryVars, events, dials, boot, banned, rpc_events, bans>>

\* UnreachableAddr: an address of a dialled peer fails, or its connection is
\* refused because the peer has one by now.
unreachable_addr(p) ==
    /\ dials[p] > 0
    /\ dials' = [dials EXCEPT ![p] = @ - 1]
    /\ notify_disconnect(p)
    /\ UNCHANGED <<discoveryVars, events, connected, boot, banned, rpc_events, bans>>

\* UnknownPeerUnreachableAddr for an address dialled at start-up, and
\* BannedPeer when a dial finds the peer banned: both are only logged.
dial_dropped(p) ==
    /\ \/ p \in boot /\ boot' = boot \ {p} /\ UNCHANGED dials
       \/ p \in banned /\ dials[p] > 0 /\ dials' = [dials EXCEPT ![p] = 0] /\ UNCHANGED boot
    /\ UNCHANGED <<pmVars, connected, banned, rpc_events, bans>>

-----------------------------------------------------------------------------
(* Events of the peer manager and of the RPC protocol                      *)

\* The behaviour takes an event of the peer manager.  A Dial reaches the swarm,
\* which announces it with a Dialing event if it does dial; a Ping is a request
\* and a Status a call of the client.
custom_poll ==
    /\ events # <<>>
    /\ events' = Tail(events)
    /\ UNCHANGED <<discoveryVars, connected, boot, banned, rpc_events, bans>>
    /\ LET e == Head(events)
           p == e.peer
       IN  IF e.kind = "Dial" /\ p \notin connected \cup banned /\ dials[p] = 0
           THEN \E addrs \in 0..MaxAddrs :
                  /\ dials' = [dials EXCEPT ![p] = addrs]
                  /\ IF addrs > 0 THEN connect_peer(p, "Dialing")
                     ELSE UNCHANGED <<pdbVars, timerVars>>
           ELSE UNCHANGED <<pdbVars, timerVars, dials>>

\* A status message of a peer waits in the RPC behaviour until the behaviour
\* is polled, which may be after the peer is gone.
status_arrives(p) ==
    /\ p \in connected
    /\ rpc_events' = rpc_events \cup {p}
    /\ UNCHANGED <<pmVars, swarmVars, bans>>

on_rpc_event(p) ==
    /\ p \in rpc_events
    /\ rpc_events' = rpc_events \ {p}
    /\ peer_statusd(p)
    /\ UNCHANGED <<pdbVars, discoveryVars, events, swarmVars, bans>>

on_rpc_error(p, proto, err) ==
    /\ handle_rpc_error(p, proto, err)
    /\ UNCHANGED <<swarmVars, rpc_events, bans>>

peer_manager_poll ==
    /\ heartbeat \/ poll_discovery \/ \E p \in PeerId : ping_elapsed(p) \/ status_elapsed(p)
    /\ UNCHANGED <<swarmVars, rpc_events, bans>>

-----------------------------------------------------------------------------
(* Bans                                                                    *)

\* The client asks for a ban: two timers are started, whatever others run.
disconnect_and_ban_peer(p) ==
    /\ Len(bans) < MaxBans
    /\ bans' = Append(bans, [peer |-> p, to_ban |-> TRUE, to_unban |-> TRUE])
    /\ UNCHANGED <<pmVars, swarmVars, rpc_events>>

\* The first timer, after BAN_PEER_WAIT_TIMEOUT.
ban_elapsed(k) ==
    /\ bans[k].to_ban
    /\ bans' = [bans EXCEPT ![k].to_ban = FALSE]
    /\ LET p == bans[k].peer
       IN  /\ banned' = banned \cup {p}
           /\ connected' = connected \ {p}
           /\ \E reported \in BanReports :
                 IF reported /\ p \in connected THEN notify_disconnect(p)
                 ELSE UNCHANGED <<pdbVars, timerVars>>
    /\ UNCHANGED <<discoveryVars, events, dials, boot, rpc_events>>

\* Mutant: the second timer only runs out for a peer that is connected.
unban_due_Connected(k) == bans[k].to_unban /\ bans[k].peer \in connected

\* The second timer is the longer one, by far: the task is taken to have served
\* the first by then.
unban_due(k) == bans[k].to_unban /\ ~bans[k].to_ban

unban_elapsed(k) ==
    /\ unban_due(k)
    /\ bans' = [bans EXCEPT ![k].to_unban = FALSE]
    /\ banned' = banned \ {bans[k].peer}
    /\ UNCHANGED <<pmVars, connected, dials, boot, rpc_events>>

-----------------------------------------------------------------------------

Init ==
    /\ PMInit
    /\ connected = {} /\ banned = {}
    /\ dials = [p \in PeerId |-> 0] /\ boot = BootNodes
    /\ rpc_events = {} /\ bans = <<>>

DialEnds(p) == established_dialer(p) \/ unreachable_addr(p) \/ dial_dropped(p)

Next ==
    /\ ~panicked
    /\ \/ \E p \in PeerId :
             \/ established_listener(p)
             \/ DialEnds(p)
             \/ connection_closed(p)
             \/ status_arrives(p)
             \/ on_rpc_event(p)
             \/ \E proto \in {"Ping", "Status"}, err \in Errors : on_rpc_error(p, proto, err)
             \/ disconnect_and_ban_peer(p)
       \/ custom_poll
       \/ peer_manager_poll
       \/ \E k \in 1..Len(bans) : ban_elapsed(k) \/ unban_elapsed(k)

Spec == Init /\ [][Next]_serviceVars

\* The task serves what is due: the heartbeat and the timers of bans elapse,
\* the behaviour is polled, discv5 ends its queries, the transport its dials.
Fairness ==
    /\ WF_serviceVars(~panicked /\ heartbeat /\ UNCHANGED <<swarmVars, rpc_events, bans>>)
    /\ WF_serviceVars(~panicked /\ poll_discovery /\ UNCHANGED <<swarmVars, rpc_events, bans>>)
    /\ WF_serviceVars(~panicked /\ custom_poll)
    /\ \A p \in PeerId : WF_serviceVars(~panicked /\ DialEnds(p))
    /\ \A k \in 1..MaxBans : /\ WF_serviceVars(~panicked /\ k <= Len(bans) /\ ban_elapsed(k))
                             /\ WF_serviceVars(~panicked /\ k <= Len(bans) /\ unban_elapsed(k))

FairSpec == Spec /\ Fairness

-----------------------------------------------------------------------------
(* Properties                                                              *)

\* Type invariant: all that names a peer names one of PeerId, and a reputation
\* stays within a u8 whatever the RPC errors that it is lowered for.
ServiceTypeOK ==
    /\ PDBTypeOK
    /\ ping_peers \subseteq PeerId /\ status_peers \subseteq PeerId
    /\ \A k \in 1..Len(events) : events[k] \in PeerManagerEvent
    /\ connected \subseteq PeerId /\ banned \subseteq PeerId /\ dials \in [PeerId -> 0..MaxAddrs]

\* The database never claims a connection, or a dial, that the swarm does not
\* have, in whatever order dials, failures and connections are reported and
\* whichever other peers are banned.  A peer that the client bans is left out:
\* ban_peer_id may drop its connections, and a dial find it banned, without a
\* report to the peer manager.
DatabaseNotAhead ==
    \A p \in PeerId \ {bans[k].peer : k \in 1..Len(bans)} :
        /\ is_connected(p) => p \in connected
        /\ HasStatus(p, "Dialing") => dials[p] > 0

\* Only peers that are connected or dialled are pinged: no ping timer outlives
\* its peer.
NoZombiePings == ping_peers \subseteq connected_or_dialing_peers

\* A peer does not stay in the state Dialing, which would count it among our
\* peers, unless it is banned meanwhile.
DialingEnds ==
    \A p \in PeerId : HasStatus(p, "Dialing") ~>
        (~HasStatus(p, "Dialing") \/ \E k \in 1..Len(bans) : bans[k].peer = p)

\* While there are fewer peers than we would like, discovery is asked for more
\* again and again, and what it is asked for is started: heartbeat, "It will
\* request discovery queries if the peer count has not reached the desired
\* number of peers".
TooFew == Cardinality(connected_or_dialing_peers) < target_peers
PeersSought ==
    /\ TooFew ~> (queued_queries # <<>> \/ active_queries > 0 \/ ~TooFew)
    /\ queued_queries # <<>> ~> queued_queries = <<>>

\* "Adds a peer to be banned for a period of time, specified by a timeout"
\* (disconnect_and_ban_peer): no ban is for ever.
BansEnd == \A p \in PeerId : p \in banned ~> p \notin banned

-----------------------------------------------------------------------------
(* What the comments of the code say and the code does not do              *)

\* "The peer has disconnected" (PeerConnectionStatus::Disconnected).
DisconnectedIsDisconnected ==
    \A p \in PeerId : HasStatus(p, "Disconnected") => p \notin connected

=============================================================================
