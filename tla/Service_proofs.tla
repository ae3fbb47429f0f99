--------------------------- MODULE Service_proofs ---------------------------
(***************************************************************************)
(* Proofs about the service, for any peers, limits and orders of events:   *)
(* it uses the database only through its operations, so what is proved of  *)
(* PeerDB holds in the running system; no ping timer outlives its peer;    *)
(* the database is never ahead of the swarm; and the queries of discovery  *)
(* stay in step.                                                           *)
(***************************************************************************)
EXTENDS Service, PeerDB_proofs, SequenceTheorems

Ban == [peer : PeerId, to_ban : BOOLEAN, to_unban : BOOLEAN]

\* What is waiting to be served names peers.
WaitingOK == events \in Seq(PeerManagerEvent) /\ bans \in Seq(Ban)

\* What a step can do to the database, and to the ping timers at the same time.
Keeps          == UNCHANGED pdbVars /\ UNCHANGED ping_peers
Joins(p)       == /\ connect_outgoing(p) \/ dialing_peer(p)
                  /\ ping_peers' \subseteq ping_peers \cup {p}
Leaves(p)      == disconnect(p) /\ ping_peers' = ping_peers \ {p}
Reported(p, a) == add_reputation(p, a) /\ UNCHANGED ping_peers

Effect ==
    \/ Keeps
    \/ \E p \in PeerId : Joins(p) \/ Leaves(p) \/ \E a \in PeerAction : Reported(p, a)

\* notify_disconnect and connect_peer are such effects.
LEMMA PeerEffects ==
    ASSUME NEW p \in PeerId
    PROVE  /\ notify_disconnect(p) => Effect
           /\ connect_peer(p, "IngoingConnected") => Effect
           /\ connect_peer(p, "Dialing") => Effect
<1>1. ASSUME notify_disconnect(p) PROVE Effect
  BY <1>1 DEF notify_disconnect, remove_timers, Effect, Leaves
<1>2. ASSUME connect_peer(p, "IngoingConnected") PROVE Effect
  <2>1. connect_outgoing(p) /\ ping_peers' = ping_peers \cup {p}
    BY <1>2 DEF connect_peer, start_timers
  <2> QED
    BY <2>1 DEF Effect, Joins
<1>3. ASSUME connect_peer(p, "Dialing") PROVE Effect
  <2>1. dialing_peer(p) /\ ping_peers' = ping_peers \cup {p}
    BY <1>3 DEF connect_peer, start_timers
  <2> QED
    BY <2>1 DEF Effect, Joins
<1> QED
  BY <1>1, <1>2, <1>3

\* The parts of a sequence, and what it may be put together from.
LEMMA SeqParts ==
    ASSUME NEW S, NEW s \in Seq(S)
    PROVE  /\ s # <<>> => Head(s) \in S /\ Tail(s) \in Seq(S)
           /\ \A t \in Seq(S) : s \o t \in Seq(S)
           /\ \A e \in S : Append(s, e) \in Seq(S)
           /\ \A k \in 1..Len(s), e \in S : [s EXCEPT ![k] = e] \in Seq(S)
<1>1. s # <<>> => Head(s) \in S /\ Tail(s) \in Seq(S)
  OBVIOUS
<1>2. \A t \in Seq(S) : s \o t \in Seq(S)
  OBVIOUS
<1>3. \A e \in S : Append(s, e) \in Seq(S)
  OBVIOUS
<1>4. ASSUME NEW k \in 1..Len(s), NEW e \in S PROVE [s EXCEPT ![k] = e] \in Seq(S)
  <2>1. [s EXCEPT ![k] = e] \in [1..Len(s) -> S]
    OBVIOUS
  <2> QED
    BY <2>1
<1> QED
  BY <1>1, <1>2, <1>3, <1>4

\* Every step of the service is one of these effects.
LEMMA StepEffect ==
    ASSUME WaitingOK, Next
    PROVE  ~panicked /\ Effect
<1>1. ~panicked
  BY DEF Next
<1> SUFFICES Effect
  BY <1>1
<1>2. ASSUME NEW p \in PeerId, established_listener(p) PROVE Effect
  BY <1>2, PeerEffects DEF established_listener
<1>3. ASSUME NEW p \in PeerId, established_dialer(p) PROVE Effect
  BY <1>3 DEF established_dialer, timerVars, Effect, Joins
<1>4. ASSUME NEW p \in PeerId, unreachable_addr(p) PROVE Effect
  BY <1>4, PeerEffects DEF unreachable_addr
<1>5. ASSUME NEW p \in PeerId, dial_dropped(p) PROVE Effect
  BY <1>5 DEF dial_dropped, pmVars, timerVars, Effect, Keeps
<1>6. ASSUME NEW p \in PeerId, connection_closed(p) PROVE Effect
  BY <1>6, PeerEffects DEF connection_closed
<1>7. ASSUME NEW p \in PeerId, status_arrives(p) PROVE Effect
  BY <1>7 DEF status_arrives, pmVars, timerVars, Effect, Keeps
<1>8. ASSUME NEW p \in PeerId, on_rpc_event(p) PROVE Effect
  BY <1>8 DEF on_rpc_event, peer_statusd, Effect, Keeps
<1>9. ASSUME NEW p \in PeerId, NEW proto \in {"Ping", "Status"}, NEW err \in Errors,
             on_rpc_error(p, proto, err)
      PROVE  Effect
  <2>1. peer_action(proto, err) \in PeerAction
    BY <1>9, ServiceAssumption DEF on_rpc_error, handle_rpc_error
  <2>2. add_reputation(p, peer_action(proto, err)) /\ UNCHANGED ping_peers
    BY <1>9 DEF on_rpc_error, handle_rpc_error, timerVars
  <2> QED
    BY <2>1, <2>2, Zenon DEF Effect, Reported
<1>10. ASSUME NEW p \in PeerId, disconnect_and_ban_peer(p) PROVE Effect
  BY <1>10 DEF disconnect_and_ban_peer, pmVars, timerVars, Effect, Keeps
<1>11. CASE custom_poll
  <2>1. PICK p : p = Head(events).peer
    OBVIOUS
  <2>2. p \in PeerId
    <3>1. events \in Seq(PeerManagerEvent) /\ events # <<>>
      BY <1>11 DEF custom_poll, WaitingOK
    <3>2. Head(events) \in PeerManagerEvent
      BY <3>1, SeqParts
    <3> QED
      BY <2>1, <3>2 DEF PeerManagerEvent
  <2>3. connect_peer(p, "Dialing") \/ UNCHANGED <<pdbVars, timerVars>>
    BY <1>11, <2>1 DEF custom_poll
  <2>4. CASE connect_peer(p, "Dialing")
    BY <2>2, <2>4, PeerEffects
  <2>5. CASE UNCHANGED <<pdbVars, timerVars>>
    BY <2>5 DEF timerVars, Effect, Keeps
  <2> QED
    BY <2>3, <2>4, <2>5
<1>12. CASE peer_manager_poll
  BY <1>12 DEF peer_manager_poll, heartbeat, poll_discovery, ping_elapsed, status_elapsed,
     timerVars, Effect, Keeps
<1>13. ASSUME NEW k \in 1..Len(bans), ban_elapsed(k) PROVE Effect
  <2>1. bans[k].peer \in PeerId
    <3>1. bans[k] \in Ban
      BY DEF WaitingOK
    <3> QED
      BY <3>1 DEF Ban
  <2>2. notify_disconnect(bans[k].peer) \/ UNCHANGED <<pdbVars, timerVars>>
    BY <1>13 DEF ban_elapsed
  <2>3. CASE notify_disconnect(bans[k].peer)
    BY <2>1, <2>3, PeerEffects
  <2>4. CASE UNCHANGED <<pdbVars, timerVars>>
    BY <2>4 DEF timerVars, Effect, Keeps
  <2> QED
    BY <2>2, <2>3, <2>4
<1>14. ASSUME NEW k \in 1..Len(bans), unban_elapsed(k) PROVE Effect
  BY <1>14 DEF unban_elapsed, pmVars, timerVars, Effect, Keeps
<1> QED
  BY <1>2, <1>3, <1>4, <1>5, <1>6, <1>7, <1>8, <1>9, <1>10, <1>11, <1>12, <1>13, <1>14,
     Zenon DEF Next, DialEnds

\* What waits to be served keeps naming peers.
LEMMA StepWaiting ==
    ASSUME WaitingOK, Next
    PROVE  WaitingOK'
<1>1. \A p \in PeerId : /\ Dial(p) \in PeerManagerEvent
                        /\ Ping(p) \in PeerManagerEvent
                        /\ Status(p) \in PeerManagerEvent
  BY DEF Dial, Ping, Status, PeerManagerEvent
<1>2. CASE custom_poll
  BY <1>2 DEF custom_poll, WaitingOK
<1>3. ASSUME poll_discovery, UNCHANGED bans PROVE WaitingOK'
  <2>1. CASE UNCHANGED events
    BY <1>3, <2>1 DEF WaitingOK
  <2>2. CASE \E found \in SUBSET PeerId : peers_discovered(found)
    <3>1. PICK found \in SUBSET PeerId : peers_discovered(found)
      BY <2>2
    <3>2. PICK d \in SUBSET PeerId :
             \E order \in [1..Cardinality(d) -> d] :
                events' = events \o [k \in DOMAIN order |-> Dial(order[k])]
      BY <3>1 DEF peers_discovered
    <3>3. PICK order \in [1..Cardinality(d) -> d] :
             events' = events \o [k \in DOMAIN order |-> Dial(order[k])]
      BY <3>2
    <3>4. Cardinality(d) \in Nat
      BY PeerIdAssumption, FS_Subset, FS_CardinalityType
    <3>5. [k \in DOMAIN order |-> Dial(order[k])] \in Seq(PeerManagerEvent)
      BY <1>1, <3>4
    <3> QED
      BY <1>3, <3>3, <3>5, SeqParts DEF WaitingOK
  <2> QED
    BY <1>3, <2>1, <2>2 DEF poll_discovery
<1>4. CASE peer_manager_poll
  <2>1. UNCHANGED bans
    BY <1>4 DEF peer_manager_poll
  <2>2. CASE heartbeat
    BY <2>1, <2>2 DEF heartbeat, WaitingOK
  <2>3. CASE poll_discovery
    BY <2>1, <2>3, <1>3
  <2>4. ASSUME NEW p \in PeerId, ping_elapsed(p) \/ status_elapsed(p) PROVE WaitingOK'
    BY <1>1, <2>1, <2>4 DEF ping_elapsed, status_elapsed, WaitingOK
  <2> QED
    BY <1>4, <2>2, <2>3, <2>4 DEF peer_manager_poll
<1>5. ASSUME NEW p \in PeerId, disconnect_and_ban_peer(p) PROVE WaitingOK'
  BY <1>5 DEF disconnect_and_ban_peer, pmVars, WaitingOK, Ban
<1>6. ASSUME NEW k \in 1..Len(bans), ban_elapsed(k) \/ unban_elapsed(k) PROVE WaitingOK'
  <2>1. UNCHANGED events
    BY <1>6 DEF ban_elapsed, unban_elapsed, pmVars
  <2>2. \/ bans' = [bans EXCEPT ![k].to_ban = FALSE]
        \/ bans' = [bans EXCEPT ![k].to_unban = FALSE]
    BY <1>6 DEF ban_elapsed, unban_elapsed
  <2>3. bans[k] \in Ban
    BY DEF WaitingOK
  <2>4. \/ bans' = [bans EXCEPT ![k] = [bans[k] EXCEPT !.to_ban = FALSE]]
        \/ bans' = [bans EXCEPT ![k] = [bans[k] EXCEPT !.to_unban = FALSE]]
    BY <2>2
  <2>5. /\ [bans[k] EXCEPT !.to_ban = FALSE] \in Ban
        /\ [bans[k] EXCEPT !.to_unban = FALSE] \in Ban
    BY <2>3 DEF Ban
  <2>6. bans' \in Seq(Ban)
    <3>1. bans \in Seq(Ban)
      BY DEF WaitingOK
    <3>2. \A e \in Ban : [bans EXCEPT ![k] = e] \in Seq(Ban)
      BY <3>1, SeqParts
    <3> QED
      BY <2>4, <2>5, <3>2, Zenon
  <2> QED
    BY <2>1, <2>6 DEF WaitingOK
<1>7. ASSUME UNCHANGED <<events, bans>> PROVE WaitingOK'
  BY <1>7 DEF WaitingOK
<1>8. ASSUME NEW p \in PeerId,
             \/ established_listener(p) \/ DialEnds(p) \/ connection_closed(p)
             \/ status_arrives(p) \/ on_rpc_event(p)
      PROVE  UNCHANGED <<events, bans>>
  BY <1>8 DEF established_listener, DialEnds, established_dialer, unreachable_addr,
     dial_dropped, connection_closed, status_arrives, on_rpc_event, Connect, pmVars
<1>9. ASSUME NEW p, NEW proto, NEW err, on_rpc_error(p, proto, err)
      PROVE  UNCHANGED <<events, bans>>
  BY <1>9 DEF on_rpc_error, handle_rpc_error
<1> QED
  BY <1>2, <1>4, <1>5, <1>6, <1>7, <1>8, <1>9, Zenon DEF Next

-----------------------------------------------------------------------------
(* The database                                                            *)

\* An effect on the database is one of its operations, or none.
LEMMA EffectIsCall ==
    ASSUME ~panicked, Effect
    PROVE  [PDBNext]_pdbVars
<1>1. CASE Keeps
  BY <1>1 DEF Keeps
<1>2. ASSUME NEW p \in PeerId, Joins(p) PROVE PDBNext
  BY <1>2, Zenon DEF Joins, PDBNext
<1>3. ASSUME NEW p \in PeerId, Leaves(p) PROVE PDBNext
  BY <1>3, Zenon DEF Leaves, PDBNext
<1>4. ASSUME NEW p \in PeerId, NEW a \in PeerAction, Reported(p, a) PROVE PDBNext
  BY <1>4, Zenon DEF Reported, PDBNext
<1> QED
  BY <1>1, <1>2, <1>3, <1>4 DEF Effect

\* Every step of the service is a call of the database or leaves it alone.
LEMMA DatabaseStep ==
    ASSUME WaitingOK, [Next]_serviceVars
    PROVE  WaitingOK' /\ [PDBNext]_pdbVars
<1>1. CASE Next
  BY <1>1, StepWaiting, StepEffect, EffectIsCall
<1>2. CASE UNCHANGED serviceVars
  BY <1>2 DEF serviceVars, pmVars, WaitingOK
<1> QED
  BY <1>1, <1>2

\* Nothing is waiting at the start.
LEMMA StartWaiting ==
    ASSUME Init
    PROVE  WaitingOK /\ PDBInit
BY DEF Init, PMInit, WaitingOK

\* The service uses the peer database only through its operations: what holds
\* of PeerDB for any sequence of calls holds in the running system.
THEOREM ServiceUsesPeerDB == Spec => PDBSpec
<1> QED
  BY StartWaiting, DatabaseStep, PTL DEF Spec, PDBSpec

\* So the disconnected peers that the service remembers are bounded, and the
\* unwrap() of shrink_to_fit never brings the network task down.
THEOREM ServiceBounded == Spec => []DisconnectedBounded
<1> QED
  BY ServiceUsesPeerDB, PeerDBBounded, PTL

-----------------------------------------------------------------------------
(* The timers                                                              *)

\* A peer that is stored as connected or dialled joins those that are.
LEMMA StoredJoins ==
    ASSUME NEW p, NEW info, info.connection_status \in {"Connected", "Dialing"},
           peers' = Store(p, info)
    PROVE  connected_or_dialing_peers \cup {p} \subseteq connected_or_dialing_peers'
BY DEF Store, connected_or_dialing_peers, is_connected_or_dialing, is_connected, HasStatus

\* disconnect takes no other peer from those that are connected or dialled.
LEMMA OnlyOneLeaves ==
    ASSUME NEW p, disconnect(p)
    PROVE  connected_or_dialing_peers \ {p} \subseteq connected_or_dialing_peers'
<1>1. PICK info, n : shrink_to_fit(Store(p, info), n)
  BY DEF disconnect
<1>2. PICK ps : ps = Store(p, info)
  OBVIOUS
<1>3. \/ peers' = peers
      \/ \E to_drop \in SUBSET DisconnectedIn(ps) :
            peers' = [q \in DOMAIN ps \ to_drop |-> ps[q]]
  BY <1>1, <1>2 DEF shrink_to_fit
<1>4. ASSUME NEW q \in connected_or_dialing_peers \ {p}
      PROVE  q \in connected_or_dialing_peers'
  <2>1. q \in DOMAIN peers /\ peers[q].connection_status \in {"Connected", "Dialing"}
    BY DEF connected_or_dialing_peers, is_connected_or_dialing, is_connected, HasStatus
  <2>2. q \in DOMAIN ps /\ ps[q] = peers[q] /\ q \notin DisconnectedIn(ps)
    BY <1>2, <1>4, <2>1 DEF Store, DisconnectedIn
  <2>3. q \in DOMAIN peers' /\ peers'[q] = peers[q]
    BY <1>3, <2>1, <2>2
  <2> QED
    BY <2>1, <2>3 DEF connected_or_dialing_peers, is_connected_or_dialing, is_connected,
       HasStatus
<1> QED
  BY <1>4

\* No effect leaves a ping timer of a peer that is gone.
LEMMA PingStep ==
    ASSUME PDBTypeOK, NoZombiePings, Effect
    PROVE  NoZombiePings'
<1>1. CASE Keeps
  BY <1>1 DEF Keeps, pdbVars, NoZombiePings, connected_or_dialing_peers,
     is_connected_or_dialing, is_connected, HasStatus
<1>2. ASSUME NEW p \in PeerId, Joins(p) PROVE NoZombiePings'
  <2>1. entry_or_default(p) \in PeerInfo
    BY EntryType
  <2>2. PICK info : peers' = Store(p, info) /\ info.connection_status \in {"Connected", "Dialing"}
    BY <1>2, <2>1, StatusType DEF Joins, connect_outgoing, dialing_peer, PeerConnectionStatus
  <2>3. connected_or_dialing_peers \cup {p} \subseteq connected_or_dialing_peers'
    BY <2>2, StoredJoins
  <2> QED
    BY <1>2, <2>3 DEF Joins, NoZombiePings
<1>3. ASSUME NEW p \in PeerId, Leaves(p) PROVE NoZombiePings'
  BY <1>3, OnlyOneLeaves DEF Leaves, NoZombiePings
<1>4. ASSUME NEW p \in PeerId, NEW a \in PeerAction, Reported(p, a) PROVE NoZombiePings'
  <2>1. /\ DOMAIN peers' = DOMAIN peers
        /\ \A q \in DOMAIN peers : peers'[q].connection_status = peers[q].connection_status
    BY <1>4 DEF Reported, add_reputation, PDBTypeOK, PeerInfo
  <2>2. connected_or_dialing_peers' = connected_or_dialing_peers
    BY <2>1 DEF connected_or_dialing_peers, is_connected_or_dialing, is_connected, HasStatus
  <2> QED
    BY <1>4, <2>2 DEF Reported, NoZombiePings
<1> QED
  BY <1>1, <1>2, <1>3, <1>4 DEF Effect

\* Only peers that are connected or dialled are pinged, in whatever order their
\* connections, dials and failures are reported.
THEOREM ServiceNoZombiePings == Spec => []NoZombiePings
<1>1. Init => WaitingOK /\ NoZombiePings
  BY StartWaiting DEF Init, PMInit, NoZombiePings
<1>2. WaitingOK /\ PDBTypeOK /\ NoZombiePings /\ [Next]_serviceVars
         => WaitingOK' /\ NoZombiePings'
  <2>1. ASSUME WaitingOK, PDBTypeOK, NoZombiePings, Next PROVE NoZombiePings'
    BY <2>1, StepEffect, PingStep
  <2>2. ASSUME NoZombiePings, UNCHANGED serviceVars PROVE NoZombiePings'
    BY <2>2 DEF serviceVars, pmVars, timerVars, pdbVars, NoZombiePings,
       connected_or_dialing_peers, is_connected_or_dialing, is_connected, HasStatus
  <2> QED
    BY <2>1, <2>2, DatabaseStep
<1>3. Spec => []PDBTypeOK
  BY ServiceUsesPeerDB, PeerDBTypeCorrect, PTL
<1> QED
  BY <1>1, <1>2, <1>3, PTL DEF Spec

-----------------------------------------------------------------------------
(* The swarm                                                               *)

SwarmTypes ==
    /\ status_peers \subseteq PeerId /\ rpc_events \subseteq PeerId
    /\ connected \subseteq PeerId /\ banned \subseteq PeerId
    /\ dials \in [PeerId -> 0..MaxAddrs]

\* The timers of a step name peers, if those of the step before did.
LEMMA StatusTimers ==
    ASSUME NEW p \in PeerId, status_peers \subseteq PeerId,
           \/ notify_disconnect(p) \/ peer_statusd(p) \/ start_timers(p)
           \/ connect_peer(p, "IngoingConnected") \/ connect_peer(p, "Dialing")
           \/ UNCHANGED timerVars
    PROVE  status_peers' \subseteq PeerId
BY DEF notify_disconnect, remove_timers, peer_statusd, start_timers, connect_peer, timerVars

\* All that the swarm and the timers name are peers, and no dial has more
\* addresses left than a peer may have.
LEMMA SwarmStep ==
    ASSUME WaitingOK, SwarmTypes, Next
    PROVE  SwarmTypes'
<1>1. /\ status_peers \subseteq PeerId /\ rpc_events \subseteq PeerId
      /\ connected \subseteq PeerId /\ banned \subseteq PeerId
      /\ dials \in [PeerId -> 0..MaxAddrs] /\ MaxAddrs \in Nat
  BY ServiceAssumption DEF SwarmTypes
<1>2. ASSUME NEW p \in PeerId, established_listener(p) PROVE SwarmTypes'
  BY <1>1, <1>2, StatusTimers DEF established_listener, Connect, SwarmTypes
<1>3. ASSUME NEW p \in PeerId, established_dialer(p) PROVE SwarmTypes'
  <2>1. dials' \in [PeerId -> 0..MaxAddrs]
    BY <1>1, <1>3 DEF established_dialer
  <2> QED
    BY <1>1, <1>3, <2>1 DEF established_dialer, Connect, timerVars, SwarmTypes
<1>4. ASSUME NEW p \in PeerId, unreachable_addr(p) PROVE SwarmTypes'
  <2>1. dials' \in [PeerId -> 0..MaxAddrs]
    BY <1>1, <1>4 DEF unreachable_addr
  <2> QED
    BY <1>1, <1>4, <2>1, StatusTimers DEF unreachable_addr, SwarmTypes
<1>5. ASSUME NEW p \in PeerId, dial_dropped(p) PROVE SwarmTypes'
  <2>1. dials' \in [PeerId -> 0..MaxAddrs]
    BY <1>1, <1>5 DEF dial_dropped
  <2> QED
    BY <1>1, <1>5, <2>1 DEF dial_dropped, pmVars, timerVars, SwarmTypes
<1>6. ASSUME NEW p \in PeerId, connection_closed(p) PROVE SwarmTypes'
  BY <1>1, <1>6, StatusTimers DEF connection_closed, SwarmTypes
<1>7. ASSUME NEW p \in PeerId, status_arrives(p) PROVE SwarmTypes'
  BY <1>1, <1>7 DEF status_arrives, pmVars, timerVars, swarmVars, SwarmTypes
<1>8. ASSUME NEW p \in PeerId, on_rpc_event(p) PROVE SwarmTypes'
  BY <1>1, <1>8, StatusTimers DEF on_rpc_event, swarmVars, SwarmTypes
<1>9. ASSUME NEW p, NEW proto, NEW err, on_rpc_error(p, proto, err) PROVE SwarmTypes'
  BY <1>1, <1>9 DEF on_rpc_error, handle_rpc_error, timerVars, swarmVars, SwarmTypes
<1>10. ASSUME NEW p, disconnect_and_ban_peer(p) PROVE SwarmTypes'
  BY <1>1, <1>10 DEF disconnect_and_ban_peer, pmVars, timerVars, swarmVars, SwarmTypes
<1>11. CASE custom_poll
  <2>1. PICK p : p = Head(events).peer
    OBVIOUS
  <2>2. p \in PeerId
    <3>1. events \in Seq(PeerManagerEvent) /\ events # <<>>
      BY <1>11 DEF custom_poll, WaitingOK
    <3>2. Head(events) \in PeerManagerEvent
      BY <3>1, SeqParts
    <3> QED
      BY <2>1, <3>2 DEF PeerManagerEvent
  <2>3. /\ UNCHANGED <<connected, banned, rpc_events>>
        /\ connect_peer(p, "Dialing") \/ UNCHANGED timerVars
        /\ dials' = dials \/ \E addrs \in 0..MaxAddrs : dials' = [dials EXCEPT ![p] = addrs]
    BY <1>11, <2>1 DEF custom_poll
  <2>4. dials' \in [PeerId -> 0..MaxAddrs]
    BY <1>1, <2>3
  <2> QED
    BY <1>1, <2>2, <2>3, <2>4, StatusTimers DEF SwarmTypes
<1>12. CASE peer_manager_poll
  BY <1>1, <1>12 DEF peer_manager_poll, heartbeat, poll_discovery, ping_elapsed, status_elapsed,
     timerVars, swarmVars, SwarmTypes
<1>13. ASSUME NEW k \in 1..Len(bans), ban_elapsed(k) \/ unban_elapsed(k) PROVE SwarmTypes'
  <2>1. bans[k].peer \in PeerId
    <3>1. bans[k] \in Ban
      BY DEF WaitingOK
    <3> QED
      BY <3>1 DEF Ban
  <2>2. status_peers' \subseteq PeerId
    BY <1>1, <1>13, <2>1, StatusTimers DEF ban_elapsed, unban_elapsed, pmVars
  <2> QED
    BY <1>1, <1>13, <2>1, <2>2 DEF ban_elapsed, unban_elapsed, SwarmTypes
<1> QED
  BY <1>2, <1>3, <1>4, <1>5, <1>6, <1>7, <1>8, <1>9, <1>10, <1>11, <1>12, <1>13,
     Zenon DEF Next, DialEnds

\* So they do always.
LEMMA SwarmInvariant == Spec => [](WaitingOK /\ SwarmTypes)
<1>1. Init => WaitingOK /\ SwarmTypes
  BY StartWaiting, ServiceAssumption DEF Init, PMInit, SwarmTypes
<1>2. WaitingOK /\ SwarmTypes /\ [Next]_serviceVars => (WaitingOK /\ SwarmTypes)'
  <2> SUFFICES ASSUME WaitingOK, SwarmTypes, [Next]_serviceVars PROVE WaitingOK' /\ SwarmTypes'
    OBVIOUS
  <2>1. CASE UNCHANGED serviceVars
    BY <2>1, DatabaseStep DEF serviceVars, pmVars, timerVars, swarmVars, SwarmTypes
  <2> QED
    BY <2>1, SwarmStep, DatabaseStep
<1> QED
  BY <1>1, <1>2, PTL DEF Spec

\* Everything that the service, the peer manager and the database keep is of
\* its kind: reputations stay within a u8 whatever the errors that handlers
\* report, and timers, events and the swarm name peers.
THEOREM ServiceTypeCorrect == Spec => []ServiceTypeOK
<1>1. PDBTypeOK /\ NoZombiePings /\ WaitingOK /\ SwarmTypes => ServiceTypeOK
  <2> SUFFICES ASSUME PDBTypeOK, NoZombiePings, WaitingOK, SwarmTypes PROVE ServiceTypeOK
    OBVIOUS
  <2>1. ping_peers \subseteq PeerId
    BY DEF NoZombiePings, connected_or_dialing_peers, PDBTypeOK
  <2>2. \A k \in 1..Len(events) : events[k] \in PeerManagerEvent
    BY DEF WaitingOK
  <2> QED
    BY <2>1, <2>2 DEF SwarmTypes, ServiceTypeOK
<1>2. Spec => []PDBTypeOK
  BY ServiceUsesPeerDB, PeerDBTypeCorrect, PTL
<1> QED
  BY <1>1, <1>2, ServiceNoZombiePings, SwarmInvariant, PTL

-----------------------------------------------------------------------------
(* The database and the swarm                                              *)

\* The peers that the client has asked to ban, and what is to hold of others.
Condemned == {bans[k].peer : k \in 1..Len(bans)}

NotAhead(q) == /\ is_connected(q) => q \in connected
               /\ HasStatus(q, "Dialing") => dials[q] > 0

\* An operation on one peer gives no other peer a connection or a dial.
LEMMA OthersKeepStatus ==
    ASSUME PDBTypeOK, NEW p \in PeerId, NEW q \in PeerId \ {p},
           \/ connect_outgoing(p) \/ dialing_peer(p) \/ disconnect(p)
           \/ \E a \in PeerAction : add_reputation(p, a),
           NEW s, HasStatus(q, s)'
    PROVE  HasStatus(q, s)
<1>1. ASSUME NEW ps, NEW info, ps = Store(p, info), q \in DOMAIN peers', peers'[q] = ps[q],
             q \in DOMAIN ps
      PROVE  HasStatus(q, s)
  BY <1>1 DEF Store, HasStatus
<1>2. CASE connect_outgoing(p) \/ dialing_peer(p)
  <2>1. PICK info : peers' = Store(p, info)
    BY <1>2 DEF connect_outgoing, dialing_peer
  <2> QED
    BY <2>1, <1>1 DEF HasStatus
<1>3. CASE disconnect(p)
  <2>1. PICK info, n : shrink_to_fit(Store(p, info), n)
    BY <1>3 DEF disconnect
  <2>2. PICK ps : ps = Store(p, info)
    OBVIOUS
  <2>3. \/ peers' = peers
        \/ \E to_drop \in SUBSET DisconnectedIn(ps) :
              peers' = [x \in DOMAIN ps \ to_drop |-> ps[x]]
    BY <2>1, <2>2 DEF shrink_to_fit
  <2>4. CASE peers' = peers
    BY <2>4 DEF HasStatus
  <2>5. CASE \E to_drop \in SUBSET DisconnectedIn(ps) :
                peers' = [x \in DOMAIN ps \ to_drop |-> ps[x]]
    BY <1>1, <2>2, <2>5 DEF HasStatus
  <2> QED
    BY <2>3, <2>4, <2>5
<1>4. CASE \E a \in PeerAction : add_reputation(p, a)
  BY <1>4 DEF add_reputation, HasStatus, PDBTypeOK
<1> QED
  BY <1>2, <1>3, <1>4

\* disconnect leaves the peer neither connected nor dialled, unless it panics.
LEMMA DisconnectedAfter ==
    ASSUME PDBTypeOK, NEW p \in PeerId, disconnect(p), ~panicked'
    PROVE  ~HasStatus(p, "Connected")' /\ ~HasStatus(p, "Dialing")'
<1>1. entry_or_default(p) \in PeerInfo
  BY EntryType
<1>2. PICK info, n : /\ info.connection_status \in {"Disconnected", "Banned"}
                     /\ shrink_to_fit(Store(p, info), n)
  BY <1>1, StatusType DEF disconnect, PeerConnectionStatus
<1>3. PICK ps : ps = Store(p, info)
  OBVIOUS
<1>4. PICK to_drop \in SUBSET DisconnectedIn(ps) : peers' = [x \in DOMAIN ps \ to_drop |-> ps[x]]
  BY <1>2, <1>3 DEF shrink_to_fit
<1>5. ps[p] = info
  BY <1>3 DEF Store
<1> QED
  BY <1>2, <1>4, <1>5 DEF HasStatus

\* What other peers do puts the database ahead for no peer.
LEMMA OthersNotAhead ==
    ASSUME PDBTypeOK, NEW p \in PeerId, NEW q \in PeerId \ {p}, NotAhead(q),
           \/ connect_outgoing(p) \/ dialing_peer(p) \/ disconnect(p)
           \/ \E a \in PeerAction : add_reputation(p, a),
           connected \ {p} \subseteq connected', dials'[q] = dials[q]
    PROVE  NotAhead(q)'
BY OthersKeepStatus DEF NotAhead, is_connected

\* Nor does a step that leaves the database alone, takes no connection away and
\* no dial.
LEMMA SameNotAhead ==
    ASSUME NEW q \in PeerId, NotAhead(q), UNCHANGED pdbVars,
           q \in connected => q \in connected', dials'[q] = dials[q]
    PROVE  NotAhead(q)'
BY DEF NotAhead, is_connected, HasStatus, pdbVars

AheadInv == DatabaseNotAhead /\ banned \subseteq Condemned

\* Every step keeps the database from being ahead of the swarm.
LEMMA AheadStep ==
    ASSUME WaitingOK, SwarmTypes, PDBTypeOK, AheadInv, Next, ~panicked'
    PROVE  AheadInv'
<1>1. /\ \A q \in PeerId \ Condemned : NotAhead(q)
      /\ banned \subseteq Condemned
  BY DEF AheadInv, DatabaseNotAhead, Condemned, NotAhead
<1>2. dials \in [PeerId -> 0..MaxAddrs] /\ MaxAddrs \in Nat
  BY ServiceAssumption DEF SwarmTypes
<1> DEFINE Kept == /\ \A q \in PeerId \ Condemned' : NotAhead(q)'
                   /\ banned' \subseteq Condemned'
<1> HIDE DEF Kept
<1>3. ASSUME Kept PROVE AheadInv'
  BY <1>3 DEF Kept, AheadInv, DatabaseNotAhead, Condemned, NotAhead
<1>4. ASSUME bans' = bans PROVE Condemned' = Condemned
  BY <1>4 DEF Condemned
<1>5. ASSUME NEW p \in PeerId, bans' = bans, banned' = banned, connected \ {p} \subseteq connected',
             \/ connect_outgoing(p) \/ dialing_peer(p) \/ disconnect(p),
             \A q \in PeerId \ {p} : dials'[q] = dials[q], NotAhead(p)'
      PROVE  Kept
  BY <1>1, <1>4, <1>5, OthersNotAhead DEF Kept
<1>6. ASSUME NEW p \in PeerId, established_listener(p) PROVE Kept
  <2>1. /\ connect_outgoing(p) /\ connected' = connected \cup {p}
        /\ UNCHANGED <<dials, banned, bans>>
    BY <1>6 DEF established_listener, Connect, connect_peer
  <2>2. NotAhead(p)'
    <3>1. ~HasStatus(p, "Dialing")'
      BY <2>1, EntryType, StatusType DEF connect_outgoing, Store, HasStatus
    <3> QED
      BY <2>1, <3>1 DEF NotAhead
  <2> QED
    BY <1>5, <2>1, <2>2
<1>7. ASSUME NEW p \in PeerId, established_dialer(p) PROVE Kept
  <2>1. /\ connect_outgoing(p) /\ connected' = connected \cup {p}
        /\ UNCHANGED <<banned, bans>> /\ \A q \in PeerId \ {p} : dials'[q] = dials[q]
    BY <1>2, <1>7 DEF established_dialer, Connect
  <2>2. NotAhead(p)'
    <3>1. ~HasStatus(p, "Dialing")'
      BY <2>1, EntryType, StatusType DEF connect_outgoing, Store, HasStatus
    <3> QED
      BY <2>1, <3>1 DEF NotAhead
  <2> QED
    BY <1>5, <2>1, <2>2
<1>8. ASSUME NEW p \in PeerId, unreachable_addr(p) \/ connection_closed(p) PROVE Kept
  <2>1. /\ disconnect(p) /\ connected \ {p} \subseteq connected'
        /\ UNCHANGED <<banned, bans>> /\ \A q \in PeerId \ {p} : dials'[q] = dials[q]
    BY <1>2, <1>8 DEF unreachable_addr, connection_closed, notify_disconnect
  <2>2. NotAhead(p)'
    BY <2>1, DisconnectedAfter DEF NotAhead, is_connected
  <2> QED
    BY <1>5, <2>1, <2>2
<1>9. ASSUME UNCHANGED pdbVars, UNCHANGED <<connected, banned, bans>>,
             \A q \in PeerId \ banned : dials'[q] = dials[q]
      PROVE  Kept
  BY <1>1, <1>4, <1>9, SameNotAhead DEF Kept
<1>10. ASSUME NEW p \in PeerId, dial_dropped(p) PROVE Kept
  <2>1. \A q \in PeerId \ banned : dials'[q] = dials[q]
    BY <1>2, <1>10 DEF dial_dropped
  <2> QED
    BY <1>9, <1>10, <2>1 DEF dial_dropped, pmVars
<1>11. ASSUME NEW p \in PeerId, status_arrives(p) \/ on_rpc_event(p) PROVE Kept
  BY <1>9, <1>11 DEF status_arrives, on_rpc_event, pmVars, swarmVars
<1>12. ASSUME NEW p \in PeerId, NEW proto \in {"Ping", "Status"}, NEW err \in Errors,
              on_rpc_error(p, proto, err)
       PROVE  Kept
  <2>1. PICK a \in PeerAction : add_reputation(p, a)
    BY <1>12, ServiceAssumption DEF on_rpc_error, handle_rpc_error
  <2>2. UNCHANGED <<connected, dials, banned, bans>>
    BY <1>12 DEF on_rpc_error, swarmVars
  <2>3. ASSUME NEW q \in PeerId, NotAhead(q) PROVE NotAhead(q)'
    <3>1. /\ DOMAIN peers' = DOMAIN peers
          /\ \A x \in DOMAIN peers : peers'[x].connection_status = peers[x].connection_status
      BY <2>1 DEF add_reputation, PDBTypeOK, PeerInfo
    <3> QED
      BY <2>2, <2>3, <3>1 DEF NotAhead, is_connected, HasStatus
  <2> QED
    BY <1>1, <1>4, <2>2, <2>3 DEF Kept
<1>13. ASSUME NEW p \in PeerId, disconnect_and_ban_peer(p) PROVE Kept
  <2>1. UNCHANGED <<pdbVars, connected, dials, banned>>
    BY <1>13 DEF disconnect_and_ban_peer, pmVars, swarmVars
  <2>2. Condemned \subseteq Condemned'
    <3>1. PICK e : e = [peer |-> p, to_ban |-> TRUE, to_unban |-> TRUE]
      OBVIOUS
    <3>2. e \in Ban /\ bans \in Seq(Ban) /\ bans' = Append(bans, e)
      BY <1>13, <3>1 DEF disconnect_and_ban_peer, WaitingOK, Ban
    <3>3. \A k \in 1..Len(bans) : k \in 1..Len(bans') /\ bans'[k] = bans[k]
      BY <3>2
    <3> QED
      BY <3>3 DEF Condemned
  <2> QED
    BY <1>1, <2>1, <2>2, SameNotAhead DEF Kept
<1>14. ASSUME custom_poll PROVE Kept
  <2>1. PICK p : p = Head(events).peer
    OBVIOUS
  <2>2. p \in PeerId
    <3>1. events \in Seq(PeerManagerEvent) /\ events # <<>>
      BY <1>14 DEF custom_poll, WaitingOK
    <3>2. Head(events) \in PeerManagerEvent
      BY <3>1, SeqParts
    <3> QED
      BY <2>1, <3>2 DEF PeerManagerEvent
  <2>3. UNCHANGED <<connected, banned, bans>>
    BY <1>14 DEF custom_poll
  <2>4. \/ UNCHANGED pdbVars /\ UNCHANGED dials
        \/ \E addrs \in 0..MaxAddrs :
              /\ dials[p] = 0 /\ dials' = [dials EXCEPT ![p] = addrs]
              /\ IF addrs > 0 THEN connect_peer(p, "Dialing") /\ p \notin connected
                 ELSE UNCHANGED pdbVars
    BY <1>14, <2>1 DEF custom_poll
  <2>5. CASE UNCHANGED pdbVars /\ UNCHANGED dials
    BY <1>9, <2>3, <2>5
  <2>6. ASSUME NEW addrs \in 0..MaxAddrs, dials[p] = 0, dials' = [dials EXCEPT ![p] = addrs],
               IF addrs > 0 THEN connect_peer(p, "Dialing") /\ p \notin connected
               ELSE UNCHANGED pdbVars
        PROVE  Kept
    <3>1. dials'[p] = addrs /\ \A q \in PeerId \ {p} : dials'[q] = dials[q]
      BY <1>2, <2>2, <2>6
    <3>2. CASE addrs > 0
      <4>1. dialing_peer(p)
        BY <2>6, <3>2 DEF connect_peer
      <4>2. ~HasStatus(p, "Connected")'
        BY <2>2, <4>1, EntryType, StatusType DEF dialing_peer, Store, HasStatus, PeerConnectionStatus
      <4>3. NotAhead(p)'
        BY <3>1, <3>2, <4>2 DEF NotAhead, is_connected
      <4> QED
        BY <1>5, <2>2, <2>3, <3>1, <4>1, <4>3
    <3>3. CASE ~(addrs > 0)
      <4>1. addrs = 0 /\ UNCHANGED pdbVars
        BY <1>2, <2>6, <3>3
      <4>2. \A q \in PeerId : dials'[q] = dials[q]
        BY <2>6, <3>1, <4>1
      <4> QED
        BY <1>9, <2>3, <4>1, <4>2
    <3> QED
      BY <3>2, <3>3
  <2> QED
    BY <2>4, <2>5, <2>6
<1>15. ASSUME peer_manager_poll PROVE Kept
  <2>1. UNCHANGED pdbVars
    BY <1>15 DEF peer_manager_poll, heartbeat, poll_discovery, ping_elapsed, status_elapsed
  <2>2. UNCHANGED <<connected, dials, banned, bans>>
    BY <1>15 DEF peer_manager_poll, swarmVars
  <2> QED
    BY <1>9, <2>1, <2>2
<1>16. ASSUME NEW k \in 1..Len(bans), ban_elapsed(k) \/ unban_elapsed(k)
       PROVE  Condemned' = Condemned /\ bans[k].peer \in PeerId \cap Condemned
  <2>1. bans \in Seq(Ban) /\ bans[k] \in Ban
    BY DEF WaitingOK
  <2>2. \/ bans' = [bans EXCEPT ![k] = [bans[k] EXCEPT !.to_ban = FALSE]]
        \/ bans' = [bans EXCEPT ![k] = [bans[k] EXCEPT !.to_unban = FALSE]]
    BY <1>16 DEF ban_elapsed, unban_elapsed
  <2>3. PICK e : e.peer = bans[k].peer /\ bans' = [bans EXCEPT ![k] = e]
    BY <2>1, <2>2 DEF Ban
  <2>4. Len(bans') = Len(bans) /\ \A j \in 1..Len(bans) : bans'[j].peer = bans[j].peer
    BY <2>1, <2>3
  <2> QED
    BY <2>1, <2>4 DEF Condemned, Ban
<1>17. ASSUME NEW k \in 1..Len(bans), ban_elapsed(k) PROVE Kept
  <2>1. PICK p \in PeerId : p = bans[k].peer /\ p \in Condemned /\ Condemned' = Condemned
    BY <1>16, <1>17
  <2>2. /\ banned' = banned \cup {p} /\ connected' = connected \ {p} /\ UNCHANGED dials
        /\ disconnect(p) \/ UNCHANGED pdbVars
    BY <1>17, <2>1 DEF ban_elapsed, notify_disconnect
  <2>3. ASSUME NEW q \in PeerId \ Condemned PROVE NotAhead(q)'
    BY <1>1, <2>1, <2>2, <2>3, OthersNotAhead, SameNotAhead
  <2> QED
    BY <1>1, <2>1, <2>2, <2>3 DEF Kept
<1>18. ASSUME NEW k \in 1..Len(bans), unban_elapsed(k) PROVE Kept
  <2>1. Condemned' = Condemned
    BY <1>16, <1>18
  <2>2. banned' \subseteq banned /\ UNCHANGED <<pdbVars, connected, dials>>
    BY <1>18 DEF unban_elapsed, pmVars
  <2> QED
    BY <1>1, <2>1, <2>2, SameNotAhead DEF Kept
<1> QED
  BY <1>3, <1>6, <1>7, <1>8, <1>10, <1>11, <1>12, <1>13, <1>14, <1>15, <1>17, <1>18,
     Zenon DEF Next, DialEnds

\* The database claims no connection and no dial that the swarm does not have,
\* in whatever order dials, failures, connections and bans of others are
\* reported (the handling of swarm events in service.rs).
THEOREM ServiceDatabaseNotAhead == Spec => []DatabaseNotAhead
<1>1. Init => AheadInv
  BY DEF Init, PMInit, PDBInit, AheadInv, DatabaseNotAhead, is_connected, HasStatus
<1>2. /\ AheadInv /\ WaitingOK /\ SwarmTypes /\ PDBTypeOK /\ DisconnectedBounded'
      /\ [Next]_serviceVars
      => AheadInv'
  <2> SUFFICES ASSUME AheadInv, WaitingOK, SwarmTypes, PDBTypeOK, DisconnectedBounded',
                      [Next]_serviceVars
               PROVE  AheadInv'
    OBVIOUS
  <2>1. CASE Next
    BY <2>1, AheadStep DEF DisconnectedBounded
  <2>2. CASE UNCHANGED serviceVars
    BY <2>2 DEF serviceVars, pmVars, pdbVars, swarmVars, AheadInv, DatabaseNotAhead, Condemned,
       is_connected, HasStatus
  <2> QED
    BY <2>1, <2>2
<1>3. AheadInv => DatabaseNotAhead
  BY DEF AheadInv
<1>4. Spec => []PDBTypeOK
  BY ServiceUsesPeerDB, PeerDBTypeCorrect, PTL
<1> QED
  BY <1>1, <1>2, <1>3, <1>4, SwarmInvariant, ServiceBounded, PTL DEF Spec

-----------------------------------------------------------------------------
(* Discovery                                                               *)

Outcome == {"Pending", "Empty", "Failed", "Found"}

QueriesInv ==
    /\ queued_queries \in Seq({"FindPeers"})
    /\ active_queries \in Nat /\ find_peer_active \in BOOLEAN
    /\ QueriesInStep

\* A step of the service queues a query, polls discovery, or leaves it alone.
LEMMA DiscoveryEffect ==
    ASSUME [Next]_serviceVars
    PROVE  \/ UNCHANGED discoveryVars
           \/ discover_peers
           \/ \E outcome \in Outcome : poll(outcome)
<1>1. ASSUME peer_manager_poll
      PROVE  \/ UNCHANGED discoveryVars
             \/ discover_peers
             \/ \E outcome \in Outcome : poll(outcome)
  BY <1>1 DEF peer_manager_poll, heartbeat, poll_discovery, ping_elapsed, status_elapsed, Outcome
<1>2. ASSUME NEW p,
             \/ established_listener(p) \/ DialEnds(p) \/ connection_closed(p)
             \/ status_arrives(p) \/ on_rpc_event(p) \/ disconnect_and_ban_peer(p)
      PROVE  UNCHANGED discoveryVars
  BY <1>2 DEF established_listener, DialEnds, established_dialer, unreachable_addr,
     dial_dropped, connection_closed, status_arrives, on_rpc_event,
     disconnect_and_ban_peer, Connect, pmVars
<1>3. ASSUME NEW p, NEW proto, NEW err, on_rpc_error(p, proto, err)
      PROVE  UNCHANGED discoveryVars
  BY <1>3 DEF on_rpc_error, handle_rpc_error
<1>4. ASSUME NEW k, ban_elapsed(k) \/ unban_elapsed(k) PROVE UNCHANGED discoveryVars
  BY <1>4 DEF ban_elapsed, unban_elapsed, pmVars
<1>5. CASE custom_poll
  BY <1>5 DEF custom_poll
<1>6. CASE UNCHANGED serviceVars
  BY <1>6 DEF serviceVars, pmVars
<1> QED
  BY <1>1, <1>2, <1>3, <1>4, <1>5, <1>6, Zenon DEF Next

\* Queueing keeps the queries in step: one is queued only while none is running.
LEMMA QueueStep ==
    ASSUME QueriesInv, discover_peers
    PROVE  QueriesInv'
<1>1. UNCHANGED <<find_peer_active, active_queries>>
  BY DEF discover_peers
<1>2. CASE UNCHANGED queued_queries
  BY <1>1, <1>2 DEF QueriesInv, QueriesInStep, Spins, at_capacity
<1>3. CASE queued_queries' = <<"FindPeers">> /\ ~find_peer_active
  BY <1>1, <1>3 DEF QueriesInv, QueriesInStep, Spins, at_capacity
<1> QED
  BY <1>2, <1>3 DEF discover_peers

\* Polling keeps them in step: a query that is started leaves the queue empty.
LEMMA PollStep ==
    ASSUME QueriesInv, NEW outcome \in Outcome, poll(outcome)
    PROVE  QueriesInv'
<1>1. CASE queued_queries # <<>> /\ ~at_capacity
  <2>1. ~find_peer_active
    BY <1>1, Zenon DEF QueriesInv, QueriesInStep, Spins
  <2>2. active_queries = 0
    BY <2>1 DEF QueriesInv, QueriesInStep
  <2>3. Len(queued_queries) = 1
    <3>1. queued_queries \in Seq({"FindPeers"}) /\ Len(queued_queries) <= 1
      BY Zenon DEF QueriesInv, QueriesInStep
    <3>2. queued_queries # <<>>
      BY <1>1
    <3> QED
      BY <3>1, <3>2, EmptySeq
  <2>4. queued_queries' = <<>>
    <3>1. queued_queries' = Tail(queued_queries)
      BY <1>1 DEF poll
    <3> QED
      BY <2>3, <3>1 DEF QueriesInv
  <2>5. active_queries' = IF outcome = "Pending" THEN 1 ELSE 0
    BY <1>1, <2>2 DEF poll
  <2>6. find_peer_active' \in BOOLEAN /\ (find_peer_active' <=> outcome = "Pending")
    BY <1>1, Zenon DEF poll, query_over
  <2> QED
    BY <2>4, <2>5, <2>6 DEF QueriesInv, QueriesInStep, Spins
<1>2. CASE ~(queued_queries # <<>> /\ ~at_capacity)
  <2>1. queued_queries' = queued_queries
    BY <1>2 DEF poll
  <2>2. CASE outcome = "Pending"
    <3>1. active_queries' = active_queries
      BY <1>2, <2>2 DEF poll
    <3>2. find_peer_active' = find_peer_active
      <4>1. CASE find_peer_active = TRUE
        BY <1>2, <2>2, <4>1, Zenon DEF poll, query_over
      <4>2. CASE find_peer_active = FALSE
        BY <1>2, <2>2, <4>2, Zenon DEF poll, query_over
      <4> QED
        BY <4>1, <4>2, Zenon DEF QueriesInv
    <3> QED
      BY <2>1, <3>1, <3>2 DEF QueriesInv, QueriesInStep, Spins, at_capacity
  <2>3. CASE outcome # "Pending"
    <3>1. active_queries > 0 /\ active_queries' = active_queries - 1
      BY <1>2, <2>3 DEF poll
    <3>2. active_queries' = 0
      BY <3>1 DEF QueriesInv, QueriesInStep
    <3>3. find_peer_active' = FALSE
      BY <2>3, Zenon DEF poll, query_over
    <3>4. ~Spins' /\ (find_peer_active' => queued_queries' = <<>>)
      BY <3>3, Zenon DEF Spins
    <3>5. find_peer_active' <=> active_queries' > 0
      BY <3>2, <3>3
    <3>6. queued_queries' \in Seq({"FindPeers"}) /\ Len(queued_queries') <= 1
      BY <2>1, Zenon DEF QueriesInv, QueriesInStep
    <3>7. active_queries' \in Nat /\ active_queries' <= 1
      BY <3>2
    <3> QED
      BY <3>3, <3>4, <3>5, <3>6, <3>7, Zenon DEF QueriesInv, QueriesInStep
  <2> QED
    BY <2>2, <2>3
<1> QED
  BY <1>1, <1>2

\* process_queue always ends and no more than one query for peers is under way,
\* whatever discv5 answers and however many queries may run at a time.
THEOREM ServiceQueriesInStep == Spec => []QueriesInStep
<1>1. Init => QueriesInv
  <2> SUFFICES ASSUME Init PROVE QueriesInv
    OBVIOUS
  <2>1. find_peer_active = FALSE /\ active_queries = 0
    BY DEF Init, PMInit, DiscoveryInit
  <2>2. queued_queries \in Seq({"FindPeers"}) /\ Len(queued_queries) <= 1
    <3>1. queued_queries = <<>> \/ queued_queries = <<"FindPeers">>
      BY Zenon DEF Init, PMInit, DiscoveryInit
    <3>2. CASE queued_queries = <<>>
      BY <3>2
    <3>3. CASE queued_queries = <<"FindPeers">>
      BY <3>3
    <3> QED
      BY <3>1, <3>2, <3>3
  <2>3. /\ find_peer_active <=> active_queries > 0
        /\ active_queries \in Nat /\ active_queries <= 1
    BY <2>1
  <2>4. ~Spins /\ (find_peer_active => queued_queries = <<>>)
    BY <2>1, Zenon DEF Spins
  <2> QED
    BY <2>1, <2>2, <2>3, <2>4, Zenon DEF QueriesInv, QueriesInStep
<1>2. QueriesInv /\ [Next]_serviceVars => QueriesInv'
  <2> SUFFICES ASSUME QueriesInv, [Next]_serviceVars PROVE QueriesInv'
    OBVIOUS
  <2>1. CASE UNCHANGED discoveryVars
    BY <2>1 DEF discoveryVars, QueriesInv, QueriesInStep, Spins, at_capacity
  <2>2. CASE discover_peers
    BY <2>2, QueueStep
  <2>3. ASSUME NEW outcome \in Outcome, poll(outcome) PROVE QueriesInv'
    BY <2>3, PollStep
  <2> QED
    BY <2>1, <2>2, <2>3, DiscoveryEffect
<1>3. QueriesInv => QueriesInStep
  BY DEF QueriesInv
<1> QED
  BY <1>1, <1>2, <1>3, PTL DEF Spec

=============================================================================
