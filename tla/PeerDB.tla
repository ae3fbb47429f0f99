------------------------------- MODULE PeerDB -------------------------------
(***************************************************************************)
(* The peer database of the network crate                                  *)
(* (core/network/src/peer_manager/peerdb.rs and peer_info.rs): the map     *)
(* from peer ids to what is known of the peer, and the counter n_dc of     *)
(* disconnected peers that decides when a peer is forgotten.               *)
(*                                                                         *)
(* Every operation runs under the write lock of NetworkGlobals.peers, so   *)
(* each is one atomic action.  Instants are left out except min_ttl, the   *)
(* only one the database compares.  Integer overflow of the u8 connection  *)
(* counters wraps, as it does in a release build.                          *)
(***************************************************************************)
EXTENDS Integers, FiniteSets

CONSTANTS
    PeerId,         \* the peers
    MAX_DC_PEERS,   \* disconnected peers that are remembered (30 in the code)
    U8,             \* number of values of a u8 connection counter (256)
    PeerAction,     \* the actions that peers are reported for
    Ttl,            \* instants given to update_min_ttl
    MetaSeq,        \* sequence numbers of the metadata of a peer
    Rep             \* values given to set_reputation

ASSUME PeerIdAssumption == IsFiniteSet(PeerId)
ASSUME MaxDcAssumption  == MAX_DC_PEERS \in Nat \ {0}
ASSUME U8Assumption     == U8 \in Nat \ {0, 1}
ASSUME DataAssumption   == /\ PeerAction \subseteq {"Fatal", "LowToleranceError",
                                                    "MidToleranceError",
                                                    "HighToleranceError",
                                                    "_ValidMessage"}
                           /\ Ttl \subseteq Nat
                           /\ MetaSeq \subseteq Nat
                           /\ Rep \subseteq 0..255

VARIABLES
    peers,          \* PeerDB.peers: a function on the known peers
    n_dc,           \* PeerDB.n_dc
    panicked        \* an unwrap() of the database has failed

pdbVars == <<peers, n_dc, panicked>>

-----------------------------------------------------------------------------
(* Values                                                                  *)

DEFAULT_REPUTATION == 50

Rep_max == 255

None == -1      \* Option::None, below every Some(t) as in Rust's order

PeerConnectionStatus == {"Connected", "Disconnected", "Banned", "Dialing", "Unknown"}

PeerInfo == [connection_status : PeerConnectionStatus,
             n_in : 0..(U8 - 1), n_out : 0..(U8 - 1),
             reputation : 0..Rep_max,
             min_ttl : Ttl \cup {None}, meta_data : MetaSeq \cup {None}]

PeerInfo_default == [connection_status |-> "Unknown", n_in |-> 0, n_out |-> 0,
                     reputation |-> DEFAULT_REPUTATION,
                     min_ttl |-> None, meta_data |-> None]

(* The entry of a peer, made with the defaults if there is none.           *)
entry_or_default(p) == IF p \in DOMAIN peers THEN peers[p] ELSE PeerInfo_default

(* The map with the entry of p set to info.                                *)
Store(p, info) == [q \in DOMAIN peers \cup {p} |-> IF q = p THEN info ELSE peers[q]]

-----------------------------------------------------------------------------
(* Getters                                                                 *)

HasStatus(p, status) == p \in DOMAIN peers /\ peers[p].connection_status = status

is_connected(p) == HasStatus(p, "Connected")

is_connected_or_dialing(p) == is_connected(p) \/ HasStatus(p, "Dialing")

peer_banned(p) == HasStatus(p, "Banned")

connected_or_dialing_peers == {p \in DOMAIN peers : is_connected_or_dialing(p)}

DisconnectedIn(ps) == {p \in DOMAIN ps : ps[p].connection_status = "Disconnected"}

disconnected_peers == DisconnectedIn(peers)

-----------------------------------------------------------------------------
(* PeerConnectionStatus: what a connection does to the entry of a peer     *)

\* A second connection counts one up, any other status starts afresh.
status_connect_ingoing(info) ==
    IF info.connection_status = "Connected"
    THEN [info EXCEPT !.n_in = (@ + 1) % U8]
    ELSE [info EXCEPT !.connection_status = "Connected", !.n_in = 1, !.n_out = 0]

status_connect_outgoing(info) ==
    IF info.connection_status = "Connected"
    THEN [info EXCEPT !.n_out = (@ + 1) % U8]
    ELSE [info EXCEPT !.connection_status = "Connected", !.n_in = 0, !.n_out = 1]

\* The statuses other than Connected carry no counters.
SetStatus(info, status) ==
    [info EXCEPT !.connection_status = status, !.n_in = 0, !.n_out = 0]

-----------------------------------------------------------------------------
(* Setters                                                                 *)

\* n_dc.saturating_sub(1) if the peer was counted as disconnected.
n_dc_without(p) ==
    IF HasStatus(p, "Disconnected") /\ n_dc > 0 THEN n_dc - 1 ELSE n_dc

dialing_peer(p) ==
    /\ n_dc' = n_dc_without(p)
    /\ peers' = Store(p, SetStatus(entry_or_default(p), "Dialing"))
    /\ UNCHANGED panicked

connect_ingoing(p) ==
    /\ n_dc' = n_dc_without(p)
    /\ peers' = Store(p, status_connect_ingoing(entry_or_default(p)))
    /\ UNCHANGED panicked

\* Mutant: a peer that reconnects is still counted as disconnected.
connect_outgoing_KeepsCount(p) ==
    /\ peers' = Store(p, status_connect_outgoing(entry_or_default(p)))
    /\ UNCHANGED <<n_dc, panicked>>

connect_outgoing(p) ==
    /\ n_dc' = n_dc_without(p)
    /\ peers' = Store(p, status_connect_outgoing(entry_or_default(p)))
    /\ UNCHANGED panicked

\* Mutant: the peer with the highest reputation is dropped.
shrink_to_fit_DropsBest(ps, n) ==
    LET dc     == DisconnectedIn(ps)
        excess == IF n > MAX_DC_PEERS THEN 1 ELSE 0
    IN  /\ \E to_drop \in SUBSET dc :
              /\ Cardinality(to_drop) = excess
              /\ \A d \in to_drop, k \in dc \ to_drop :
                    ps[d].reputation >= ps[k].reputation
              /\ peers' = [q \in DOMAIN ps \ to_drop |-> ps[q]]
        /\ n_dc' = n - excess
        /\ UNCHANGED panicked

\* Mutant: the limit is off by one.
shrink_to_fit_OffByOne(ps, n) ==
    /\ \E to_drop \in SUBSET DisconnectedIn(ps) :
          /\ Cardinality(to_drop) = IF n > MAX_DC_PEERS + 1 THEN 1 ELSE 0
          /\ peers' = [q \in DOMAIN ps \ to_drop |-> ps[q]]
          /\ n_dc' = n - Cardinality(to_drop)
    /\ UNCHANGED panicked

\* The loop drops a disconnected peer of the lowest reputation until n is
\* within the limit: it drops n - MAX_DC_PEERS of them, ties in any order, and
\* its unwrap() panics if there are not as many.
shrink_to_fit(ps, n) ==
    LET dc     == DisconnectedIn(ps)
        excess == IF n > MAX_DC_PEERS THEN n - MAX_DC_PEERS ELSE 0
    IN  IF excess > Cardinality(dc)
        THEN /\ panicked' = TRUE
             /\ UNCHANGED <<peers, n_dc>>
        ELSE /\ \E to_drop \in SUBSET dc :
                   /\ Cardinality(to_drop) = excess
                   /\ \A d \in to_drop, k \in dc \ to_drop :
                         ps[d].reputation <= ps[k].reputation
                   /\ peers' = [q \in DOMAIN ps \ to_drop |-> ps[q]]
             /\ n_dc' = n - excess
             /\ UNCHANGED panicked

\* Mutant: the test for a banned peer is missing.
disconnect_ForgetsBan(p) ==
    LET info == entry_or_default(p)
    IN  IF info.connection_status # "Disconnected"
        THEN shrink_to_fit(Store(p, SetStatus(info, "Disconnected")), n_dc + 1)
        ELSE shrink_to_fit(Store(p, info), n_dc)

disconnect(p) ==
    LET info == entry_or_default(p)
    IN  IF info.connection_status \notin {"Disconnected", "Banned"}
        THEN shrink_to_fit(Store(p, SetStatus(info, "Disconnected")), n_dc + 1)
        ELSE shrink_to_fit(Store(p, info), n_dc)

ban(p) ==
    /\ n_dc' = n_dc_without(p)
    /\ peers' = Store(p, SetStatus(entry_or_default(p), "Banned"))
    /\ UNCHANGED panicked

\* Mutant: the new instant always replaces the old one.
update_min_ttl_Always(p, min_ttl) ==
    /\ peers' = Store(p, [entry_or_default(p) EXCEPT !.min_ttl = min_ttl])
    /\ UNCHANGED <<n_dc, panicked>>

update_min_ttl(p, min_ttl) ==
    LET info == entry_or_default(p)
    IN  /\ peers' = Store(p, IF min_ttl > info.min_ttl
                             THEN [info EXCEPT !.min_ttl = min_ttl] ELSE info)
        /\ UNCHANGED <<n_dc, panicked>>

add_metadata(p, seq) ==
    /\ p \in DOMAIN peers
    /\ peers' = [peers EXCEPT ![p].meta_data = seq]
    /\ UNCHANGED <<n_dc, panicked>>

set_reputation(p, rep) ==
    /\ p \in DOMAIN peers
    /\ peers' = [peers EXCEPT ![p].reputation = rep]
    /\ UNCHANGED <<n_dc, panicked>>

\* PeerAction::rep_change: the change of reputation, saturating at the ends
\* of a u8.
rep_change(action) ==
    CASE action = "Fatal"              -> -255
      [] action = "LowToleranceError"  -> -60
      [] action = "MidToleranceError"  -> -25
      [] action = "HighToleranceError" -> -15
      [] action = "_ValidMessage"      -> 20

Saturate(n) == IF n < 0 THEN 0 ELSE IF n > Rep_max THEN Rep_max ELSE n

\* Mutant: the change is added without saturating.
add_reputation_Wraps(p, action) ==
    /\ p \in DOMAIN peers
    /\ peers' = [peers EXCEPT ![p].reputation = @ + rep_change(action)]
    /\ UNCHANGED <<n_dc, panicked>>

add_reputation(p, action) ==
    /\ p \in DOMAIN peers
    /\ peers' = [peers EXCEPT ![p].reputation = Saturate(@ + rep_change(action))]
    /\ UNCHANGED <<n_dc, panicked>>

-----------------------------------------------------------------------------
(* The database on its own: any sequence of calls                          *)

PDBInit ==
    /\ peers = [p \in {} |-> PeerInfo_default]
    /\ n_dc = 0
    /\ panicked = FALSE

PDBNext ==
    /\ ~panicked
    /\ \E p \in PeerId :
          \/ dialing_peer(p)
          \/ connect_ingoing(p)
          \/ connect_outgoing(p)
          \/ disconnect(p)
          \/ ban(p)
          \/ \E t \in Ttl : update_min_ttl(p, t)
          \/ \E s \in MetaSeq : add_metadata(p, s)
          \/ \E r \in Rep : set_reputation(p, r)
          \/ \E a \in PeerAction : add_reputation(p, a)

PDBSpec == PDBInit /\ [][PDBNext]_pdbVars

-----------------------------------------------------------------------------
(* Properties                                                              *)

\* Type invariant: known peers have well-formed entries, a reputation stays
\* within a u8 and only a connected peer carries connection counts.
PDBTypeOK ==
    /\ DOMAIN peers \subseteq PeerId
    /\ peers \in [DOMAIN peers -> PeerInfo]
    /\ n_dc \in Nat
    /\ panicked \in BOOLEAN

\* n_dc is the number of disconnected peers, whatever the sequence of calls
\* (what peerdb.rs test_disconnected_consistency asserts for one sequence):
\* a drift would make shrink_to_fit forget peers too early, or never.
DisconnectedConsistency == n_dc = Cardinality(disconnected_peers)

\* No more than MAX_DC_PEERS disconnected peers are remembered after any call
\* (test_disconnected_are_bounded), and the unwrap() of shrink_to_fit, "safe
\* since n_dc > MAX_DC_PEERS > 0", never fails.
DisconnectedBounded ==
    /\ Cardinality(disconnected_peers) <= MAX_DC_PEERS
    /\ ~panicked

\* A call forgets at most one peer ("the difference should never be > 1"), it
\* never forgets a banned one, and no disconnected peer that it keeps has a
\* lower reputation.
ForgetsOnlyTheWorst ==
    [][\A d \in DOMAIN peers \ DOMAIN peers' :
          /\ DOMAIN peers \ DOMAIN peers' = {d}
          /\ ~peer_banned(d)
          /\ \A k \in DisconnectedIn(peers') :
                peers[d].reputation <= peers'[k].reputation]_pdbVars

\* Disconnecting, reporting and evicting never lift a ban: a banned peer stays
\* in the database until a dial or a connection replaces its status ("A banned
\* peer remains banned").
BanSurvivesDisconnect ==
    [][\A p \in PeerId : peer_banned(p) =>
          /\ p \in DOMAIN peers'
          /\ peers'[p].connection_status \in {"Banned", "Dialing", "Connected"}]_pdbVars

\* While a peer is known, the time until which it is to be retained is only
\* ever extended, whatever else happens to it in between: dials, connections
\* and disconnections do not shorten it ("only update if the ttl is longer").
MinTtlNeverShrinks ==
    [][\A p \in DOMAIN peers \cap DOMAIN peers' :
          peers'[p].min_ttl >= peers[p].min_ttl]_pdbVars

=============================================================================
