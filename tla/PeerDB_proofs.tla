---------------------------- MODULE PeerDB_proofs ----------------------------
(***************************************************************************)
(* Proofs about PeerDB, for every finite set of peers and every limit      *)
(* MAX_DC_PEERS > 0.                                                       *)
(*                                                                         *)
(* The inductive invariant PDBInv is the type invariant together with      *)
(* n_dc = Cardinality(disconnected_peers) <= MAX_DC_PEERS.  The equality   *)
(* is what makes the bound inductive: disconnect() adds at most one to     *)
(* n_dc, so shrink_to_fit() has to drop at most one peer, and because n_dc *)
(* is the true count there is one to drop and its unwrap() succeeds.       *)
(***************************************************************************)
EXTENDS PeerDB, FiniteSetTheorems, TLAPS

PDBInv == PDBTypeOK /\ DisconnectedConsistency /\ DisconnectedBounded

\* The disconnected peers after an entry was stored: the peer is one of them
\* exactly if its new status is Disconnected.
LEMMA StoreDisconnected ==
  ASSUME NEW p \in PeerId, NEW info \in PeerInfo
  PROVE  DisconnectedIn(Store(p, info)) =
           IF info.connection_status = "Disconnected"
           THEN disconnected_peers \cup {p}
           ELSE disconnected_peers \ {p}
BY DEF DisconnectedIn, Store, disconnected_peers

\* Storing a well-formed entry keeps the map well-formed.
LEMMA StoreType ==
  ASSUME PDBTypeOK, NEW p \in PeerId, NEW info \in PeerInfo
  PROVE  /\ DOMAIN Store(p, info) = DOMAIN peers \cup {p}
         /\ DOMAIN Store(p, info) \subseteq PeerId
         /\ Store(p, info) \in [DOMAIN Store(p, info) -> PeerInfo]
         /\ Store(p, info)[p] = info
BY DEF PDBTypeOK, Store

\* entry_or_default yields a well-formed entry.
LEMMA EntryType ==
  ASSUME PDBTypeOK, NEW p \in PeerId
  PROVE  entry_or_default(p) \in PeerInfo
BY U8Assumption DEF PDBTypeOK, entry_or_default, PeerInfo, PeerInfo_default,
   PeerConnectionStatus, DEFAULT_REPUTATION, Rep_max

\* Changes of status yield well-formed entries.
LEMMA StatusType ==
  ASSUME NEW info \in PeerInfo
  PROVE  /\ status_connect_ingoing(info) \in PeerInfo
         /\ status_connect_ingoing(info).connection_status = "Connected"
         /\ status_connect_outgoing(info) \in PeerInfo
         /\ status_connect_outgoing(info).connection_status = "Connected"
         /\ \A s \in PeerConnectionStatus :
              /\ SetStatus(info, s) \in PeerInfo
              /\ SetStatus(info, s).connection_status = s
<1>1. /\ (info.n_in + 1) % U8 \in 0..(U8 - 1)
      /\ (info.n_out + 1) % U8 \in 0..(U8 - 1)
  BY U8Assumption DEF PeerInfo
<1>2. 0 \in 0..(U8 - 1) /\ 1 \in 0..(U8 - 1)
  BY U8Assumption
<1>3. /\ status_connect_ingoing(info) \in PeerInfo
      /\ status_connect_ingoing(info).connection_status = "Connected"
  <2>1. CASE info.connection_status = "Connected"
    BY <1>1, <2>1 DEF status_connect_ingoing, PeerInfo
  <2>2. CASE info.connection_status # "Connected"
    BY <1>2, <2>2 DEF status_connect_ingoing, PeerInfo, PeerConnectionStatus
  <2>3. QED BY <2>1, <2>2
<1>4. /\ status_connect_outgoing(info) \in PeerInfo
      /\ status_connect_outgoing(info).connection_status = "Connected"
  <2>1. CASE info.connection_status = "Connected"
    BY <1>1, <2>1 DEF status_connect_outgoing, PeerInfo
  <2>2. CASE info.connection_status # "Connected"
    BY <1>2, <2>2 DEF status_connect_outgoing, PeerInfo, PeerConnectionStatus
  <2>3. QED BY <2>1, <2>2
<1>5. ASSUME NEW s \in PeerConnectionStatus
      PROVE  /\ SetStatus(info, s) \in PeerInfo
             /\ SetStatus(info, s).connection_status = s
  BY <1>2 DEF SetStatus, PeerInfo
<1>6. QED BY <1>3, <1>4, <1>5

\* The disconnected peers are finite, and n_dc_without is their number once p
\* is no longer one of them.
LEMMA WithoutCount ==
  ASSUME PDBInv, NEW p \in PeerId
  PROVE  /\ IsFiniteSet(disconnected_peers)
         /\ IsFiniteSet(disconnected_peers \ {p})
         /\ n_dc_without(p) = Cardinality(disconnected_peers \ {p})
         /\ n_dc_without(p) \in Nat
         /\ n_dc_without(p) <= MAX_DC_PEERS
<1>1. disconnected_peers \in SUBSET PeerId
  BY DEF PDBInv, PDBTypeOK, disconnected_peers, DisconnectedIn
<1>2. IsFiniteSet(disconnected_peers)
  BY <1>1, PeerIdAssumption, FS_Subset
<1>3. Cardinality(disconnected_peers) \in Nat
  BY <1>2, FS_CardinalityType
<1>4. /\ IsFiniteSet(disconnected_peers \ {p})
      /\ Cardinality(disconnected_peers \ {p}) =
           IF p \in disconnected_peers THEN Cardinality(disconnected_peers) - 1
                                       ELSE Cardinality(disconnected_peers)
  BY <1>2, FS_RemoveElement
<1>5. Cardinality(disconnected_peers \ {p}) \in Nat
  BY <1>4, FS_CardinalityType
<1>6. HasStatus(p, "Disconnected") <=> p \in disconnected_peers
  BY DEF HasStatus, disconnected_peers, DisconnectedIn
<1>7. n_dc = Cardinality(disconnected_peers) /\ n_dc <= MAX_DC_PEERS
  BY DEF PDBInv, DisconnectedConsistency, DisconnectedBounded
<1>8. QED
  BY <1>2, <1>3, <1>4, <1>5, <1>6, <1>7, MaxDcAssumption DEF n_dc_without

\* Giving a peer a status other than Disconnected keeps the invariant, when
\* the counter follows.
LEMMA LeaveDisconnected ==
  ASSUME PDBInv, NEW p \in PeerId, NEW info \in PeerInfo,
         info.connection_status # "Disconnected",
         n_dc' = n_dc_without(p), peers' = Store(p, info), panicked' = panicked
  PROVE  PDBInv'
<1>1. disconnected_peers' = disconnected_peers \ {p}
  BY StoreDisconnected DEF disconnected_peers, DisconnectedIn
<1>2. PDBTypeOK'
  BY StoreType, WithoutCount DEF PDBInv, PDBTypeOK
<1>3. DisconnectedConsistency' /\ DisconnectedBounded'
  BY <1>1, WithoutCount DEF PDBInv, DisconnectedConsistency, DisconnectedBounded
<1>4. QED
  BY <1>2, <1>3 DEF PDBInv

\* Dropping no peer, or one disconnected peer of the lowest reputation, is all
\* that shrink_to_fit() does when the count is true and at most one too high.
LEMMA ShrinkByAtMostOne ==
  ASSUME NEW ps, NEW n \in Nat,
         IsFiniteSet(DisconnectedIn(ps)),
         n = Cardinality(DisconnectedIn(ps)),
         n <= MAX_DC_PEERS + 1,
         shrink_to_fit(ps, n)
  PROVE  /\ panicked' = panicked
         /\ \/ n <= MAX_DC_PEERS /\ peers' = [q \in DOMAIN ps |-> ps[q]] /\ n_dc' = n
            \/ /\ n > MAX_DC_PEERS
               /\ n_dc' = n - 1
               /\ \E d \in DisconnectedIn(ps) :
                     /\ peers' = [q \in DOMAIN ps \ {d} |-> ps[q]]
                     /\ \A k \in DisconnectedIn(ps) \ {d} :
                           ps[d].reputation <= ps[k].reputation
<1> DEFINE dc     == DisconnectedIn(ps)
           excess == IF n > MAX_DC_PEERS THEN n - MAX_DC_PEERS ELSE 0
<1>1. excess \in Nat /\ excess <= 1 /\ ~(excess > Cardinality(dc))
  BY MaxDcAssumption
<1>2. /\ \E to_drop \in SUBSET dc :
           /\ Cardinality(to_drop) = excess
           /\ \A d \in to_drop, k \in dc \ to_drop :
                 ps[d].reputation <= ps[k].reputation
           /\ peers' = [q \in DOMAIN ps \ to_drop |-> ps[q]]
      /\ n_dc' = n - excess
      /\ panicked' = panicked
  BY <1>1 DEF shrink_to_fit
<1>3. PICK to_drop \in SUBSET dc :
           /\ Cardinality(to_drop) = excess
           /\ \A d \in to_drop, k \in dc \ to_drop :
                 ps[d].reputation <= ps[k].reputation
           /\ peers' = [q \in DOMAIN ps \ to_drop |-> ps[q]]
  BY <1>2
<1>4. IsFiniteSet(to_drop)
  BY <1>3, FS_Subset
<1>5. CASE n <= MAX_DC_PEERS
  <2>1. excess = 0
    BY <1>5, MaxDcAssumption
  <2>2. to_drop = {}
    BY <2>1, <1>3, <1>4, FS_EmptySet
  <2>3. DOMAIN ps \ to_drop = DOMAIN ps
    BY <2>2
  <2>4. QED BY <1>2, <1>3, <1>5, <2>1, <2>3
<1>6. CASE n > MAX_DC_PEERS
  <2>1. excess = 1
    BY <1>6, <1>1, MaxDcAssumption
  <2>2. PICK d : to_drop = {d}
    BY <2>1, <1>3, <1>4, FS_Singleton
  <2>3. d \in dc
    BY <2>2, <1>3
  <2>4. \A k \in dc \ {d} : ps[d].reputation <= ps[k].reputation
    BY <2>2, <1>3
  <2>5. peers' = [q \in DOMAIN ps \ {d} |-> ps[q]]
    BY <2>2, <1>3
  <2>6. QED BY <1>2, <1>6, <2>1, <2>3, <2>4, <2>5
<1>7. n <= MAX_DC_PEERS \/ n > MAX_DC_PEERS
  BY MaxDcAssumption
<1>8. QED BY <1>5, <1>6, <1>7, Zenon

\* The map and the count that disconnect() hands to shrink_to_fit().
LEMMA DisconnectArguments ==
  ASSUME PDBInv, NEW p \in PeerId, disconnect(p)
  PROVE  \E info \in PeerInfo, n \in Nat :
           /\ info.connection_status \in {"Disconnected", "Banned"}
           /\ info.connection_status = "Banned" <=> peer_banned(p)
           /\ info.reputation = entry_or_default(p).reputation
           /\ IsFiniteSet(DisconnectedIn(Store(p, info)))
           /\ n = Cardinality(DisconnectedIn(Store(p, info)))
           /\ n <= MAX_DC_PEERS + 1
           /\ shrink_to_fit(Store(p, info), n)
<1> DEFINE e    == entry_or_default(p)
           calm == e.connection_status \in {"Disconnected", "Banned"}
           info == IF calm THEN e ELSE SetStatus(e, "Disconnected")
           n    == IF calm THEN n_dc ELSE n_dc + 1
<1>1. e \in PeerInfo
  BY EntryType DEF PDBInv
<1>2. /\ info \in PeerInfo
      /\ info.connection_status \in {"Disconnected", "Banned"}
      /\ ~calm => info.connection_status = "Disconnected"
  BY <1>1, StatusType DEF PeerConnectionStatus
<1>3. info.reputation = e.reputation
  BY <1>1 DEF SetStatus, PeerInfo
<1>4. info.connection_status = "Banned" <=> peer_banned(p)
  BY <1>1, <1>2 DEF peer_banned, HasStatus, entry_or_default, PeerInfo_default
<1>5. shrink_to_fit(Store(p, info), n)
  BY DEF disconnect
<1>6. /\ IsFiniteSet(disconnected_peers)
      /\ n_dc = Cardinality(disconnected_peers)
      /\ n_dc \in Nat
      /\ n_dc <= MAX_DC_PEERS
  BY WithoutCount DEF PDBInv, PDBTypeOK, DisconnectedConsistency, DisconnectedBounded
<1>7. /\ IsFiniteSet(DisconnectedIn(Store(p, info)))
      /\ n = Cardinality(DisconnectedIn(Store(p, info)))
  <2>1. CASE ~calm
    <3>1. p \notin disconnected_peers
      BY <2>1 DEF disconnected_peers, DisconnectedIn, entry_or_default
    <3>2. DisconnectedIn(Store(p, info)) = disconnected_peers \cup {p}
      BY <1>2, <2>1, StoreDisconnected
    <3>3. QED BY <3>1, <3>2, <1>6, <2>1, FS_AddElement
  <2>2. CASE e.connection_status = "Disconnected"
    <3>1. p \in disconnected_peers
      BY <2>2 DEF disconnected_peers, DisconnectedIn, entry_or_default, PeerInfo_default
    <3>2. info.connection_status = "Disconnected" /\ n = n_dc
      BY <2>2
    <3>3. DisconnectedIn(Store(p, info)) = disconnected_peers \cup {p}
      BY <3>2, <1>2, StoreDisconnected
    <3>4. QED BY <3>1, <3>2, <3>3, <1>6
  <2>3. CASE e.connection_status = "Banned"
    <3>1. p \notin disconnected_peers
      BY <2>3 DEF disconnected_peers, DisconnectedIn, entry_or_default
    <3>2. info.connection_status # "Disconnected" /\ n = n_dc
      BY <2>3
    <3>3. DisconnectedIn(Store(p, info)) = disconnected_peers \ {p}
      BY <3>2, <1>2, StoreDisconnected
    <3>4. QED BY <3>1, <3>2, <3>3, <1>6
  <2>4. QED BY <2>1, <2>2, <2>3
<1>8. n \in Nat /\ n <= MAX_DC_PEERS + 1
  BY <1>6, MaxDcAssumption
<1>9. QED BY <1>2, <1>3, <1>4, <1>5, <1>7, <1>8

\* Disconnecting a peer keeps the invariant.
LEMMA DisconnectInv ==
  ASSUME PDBInv, NEW p \in PeerId, disconnect(p)
  PROVE  PDBInv'
<1>1. PICK info \in PeerInfo, n \in Nat :
           /\ IsFiniteSet(DisconnectedIn(Store(p, info)))
           /\ n = Cardinality(DisconnectedIn(Store(p, info)))
           /\ n <= MAX_DC_PEERS + 1
           /\ shrink_to_fit(Store(p, info), n)
  BY DisconnectArguments
<1> DEFINE ps == Store(p, info)
<1>2. /\ DOMAIN ps \subseteq PeerId
      /\ ps \in [DOMAIN ps -> PeerInfo]
  BY StoreType DEF PDBInv
<1>3. ps = [q \in DOMAIN ps |-> ps[q]]
  BY <1>2
<1>4. /\ panicked' = panicked
      /\ \/ n <= MAX_DC_PEERS /\ peers' = [q \in DOMAIN ps |-> ps[q]] /\ n_dc' = n
         \/ /\ n > MAX_DC_PEERS
            /\ n_dc' = n - 1
            /\ \E d \in DisconnectedIn(ps) :
                  /\ peers' = [q \in DOMAIN ps \ {d} |-> ps[q]]
                  /\ \A k \in DisconnectedIn(ps) \ {d} :
                        ps[d].reputation <= ps[k].reputation
  BY <1>1, ShrinkByAtMostOne, Zenon
<1>5. panicked \in BOOLEAN /\ ~panicked
  BY DEF PDBInv, PDBTypeOK, DisconnectedBounded
<1>6. \/ n <= MAX_DC_PEERS /\ peers' = ps /\ n_dc' = n
      \/ /\ n > MAX_DC_PEERS
         /\ n_dc' = n - 1
         /\ \E d \in DisconnectedIn(ps) : peers' = [q \in DOMAIN ps \ {d} |-> ps[q]]
  <2>1. CASE n <= MAX_DC_PEERS /\ peers' = [q \in DOMAIN ps |-> ps[q]] /\ n_dc' = n
    BY <1>3, <2>1, Zenon
  <2>2. QED BY <1>4, <2>1, Zenon
<1>7. CASE n <= MAX_DC_PEERS /\ peers' = ps /\ n_dc' = n
  <2>1. disconnected_peers' = DisconnectedIn(ps)
    BY <1>7 DEF disconnected_peers, DisconnectedIn
  <2>2. PDBTypeOK'
    BY <1>2, <1>4, <1>5, <1>7 DEF PDBTypeOK
  <2>3. QED
    BY <1>1, <1>4, <1>5, <1>7, <2>1, <2>2
       DEF PDBInv, DisconnectedConsistency, DisconnectedBounded
<1>8. CASE /\ n > MAX_DC_PEERS
           /\ n_dc' = n - 1
           /\ \E d \in DisconnectedIn(ps) : peers' = [q \in DOMAIN ps \ {d} |-> ps[q]]
  <2>1. PICK d \in DisconnectedIn(ps) : peers' = [q \in DOMAIN ps \ {d} |-> ps[q]]
    BY <1>8
  <2>2. disconnected_peers' = DisconnectedIn(ps) \ {d}
    BY <2>1 DEF disconnected_peers, DisconnectedIn
  <2>3. Cardinality(DisconnectedIn(ps) \ {d}) = n - 1
    BY <1>1, <2>1, FS_RemoveElement
  <2>4. n - 1 \in Nat /\ n - 1 <= MAX_DC_PEERS
    BY <1>1, <1>8, MaxDcAssumption
  <2>5. PDBTypeOK'
    BY <1>2, <1>4, <1>5, <1>8, <2>1, <2>4 DEF PDBTypeOK
  <2>6. QED
    BY <1>4, <1>5, <1>8, <2>2, <2>3, <2>4, <2>5
       DEF PDBInv, DisconnectedConsistency, DisconnectedBounded
<1>9. QED BY <1>6, <1>7, <1>8

\* Changing the entry of a peer without touching its status keeps the
\* invariant.
LEMMA SameStatusInv ==
  ASSUME PDBInv, NEW p \in PeerId, NEW info \in PeerInfo,
         info.connection_status = entry_or_default(p).connection_status,
         peers' = Store(p, info), UNCHANGED <<n_dc, panicked>>
  PROVE  PDBInv'
<1>1. info.connection_status = "Disconnected" <=> p \in disconnected_peers
  BY DEF entry_or_default, PeerInfo_default, disconnected_peers, DisconnectedIn
<1>2. disconnected_peers' = disconnected_peers
  <2>1. disconnected_peers' = DisconnectedIn(Store(p, info))
    BY DEF disconnected_peers, DisconnectedIn
  <2>2. CASE info.connection_status = "Disconnected"
    <3>1. DisconnectedIn(Store(p, info)) = disconnected_peers \cup {p}
      BY <2>2, StoreDisconnected
    <3>2. QED BY <1>1, <2>1, <2>2, <3>1
  <2>3. CASE info.connection_status # "Disconnected"
    <3>1. DisconnectedIn(Store(p, info)) = disconnected_peers \ {p}
      BY <2>3, StoreDisconnected
    <3>2. QED BY <1>1, <2>1, <2>3, <3>1
  <2>4. QED BY <2>2, <2>3
<1>3. PDBTypeOK'
  BY StoreType DEF PDBInv, PDBTypeOK
<1>4. QED
  BY <1>2, <1>3 DEF PDBInv, DisconnectedConsistency, DisconnectedBounded

\* Updating a field of a known entry is storing the updated entry.
LEMMA UpdateIsStore ==
  ASSUME PDBTypeOK, NEW p \in DOMAIN peers, NEW info
  PROVE  [peers EXCEPT ![p] = info] = Store(p, info) /\ entry_or_default(p) = peers[p]
BY DEF PDBTypeOK, Store, entry_or_default

\* A saturated reputation is a u8.
LEMMA SaturateType ==
  ASSUME NEW r \in 0..Rep_max, NEW a \in PeerAction
  PROVE  Saturate(r + rep_change(a)) \in 0..Rep_max
<1>1. rep_change(a) \in Int
  BY DataAssumption DEF rep_change
<1>2. QED BY <1>1 DEF Saturate, Rep_max

\* Every call of the database keeps the invariant.
LEMMA NextInv ==
  ASSUME PDBInv, PDBNext
  PROVE  PDBInv'
<1>1. PICK p \in PeerId :
         \/ dialing_peer(p) \/ connect_ingoing(p) \/ connect_outgoing(p)
         \/ disconnect(p) \/ ban(p)
         \/ \E t \in Ttl : update_min_ttl(p, t)
         \/ \E s \in MetaSeq : add_metadata(p, s)
         \/ \E r \in Rep : set_reputation(p, r)
         \/ \E a \in PeerAction : add_reputation(p, a)
  BY DEF PDBNext
<1> DEFINE e == entry_or_default(p)
<1>2. e \in PeerInfo /\ PDBTypeOK
  BY EntryType DEF PDBInv
<1>3. CASE dialing_peer(p)
  <2>1. SetStatus(e, "Dialing") \in PeerInfo
        /\ SetStatus(e, "Dialing").connection_status = "Dialing"
    BY <1>2, StatusType DEF PeerConnectionStatus
  <2>2. QED BY <1>3, <2>1, LeaveDisconnected DEF dialing_peer
<1>4. CASE connect_ingoing(p)
  <2>1. status_connect_ingoing(e) \in PeerInfo
        /\ status_connect_ingoing(e).connection_status = "Connected"
    BY <1>2, StatusType
  <2>2. QED BY <1>4, <2>1, LeaveDisconnected DEF connect_ingoing
<1>5. CASE connect_outgoing(p)
  <2>1. status_connect_outgoing(e) \in PeerInfo
        /\ status_connect_outgoing(e).connection_status = "Connected"
    BY <1>2, StatusType
  <2>2. QED BY <1>5, <2>1, LeaveDisconnected DEF connect_outgoing
<1>6. CASE disconnect(p)
  BY <1>6, DisconnectInv
<1>7. CASE ban(p)
  <2>1. SetStatus(e, "Banned") \in PeerInfo
        /\ SetStatus(e, "Banned").connection_status = "Banned"
    BY <1>2, StatusType DEF PeerConnectionStatus
  <2>2. QED BY <1>7, <2>1, LeaveDisconnected DEF ban
<1>8. ASSUME NEW t \in Ttl, update_min_ttl(p, t) PROVE PDBInv'
  <2> DEFINE info == IF t > e.min_ttl THEN [e EXCEPT !.min_ttl = t] ELSE e
  <2>1. info \in PeerInfo /\ info.connection_status = e.connection_status
    BY <1>2 DEF PeerInfo
  <2>2. peers' = Store(p, info) /\ UNCHANGED <<n_dc, panicked>>
    BY <1>8 DEF update_min_ttl
  <2>3. QED BY <2>1, <2>2, SameStatusInv
<1>9. ASSUME NEW s \in MetaSeq, add_metadata(p, s) PROVE PDBInv'
  <2> DEFINE info == [peers[p] EXCEPT !.meta_data = s]
  <2>1. p \in DOMAIN peers /\ e = peers[p]
    BY <1>9, <1>2, UpdateIsStore DEF add_metadata
  <2>2. info \in PeerInfo /\ info.connection_status = e.connection_status
    BY <1>2, <2>1 DEF PeerInfo
  <2>3. peers' = [peers EXCEPT ![p] = info] /\ UNCHANGED <<n_dc, panicked>>
    BY <1>9 DEF add_metadata
  <2>4. peers' = Store(p, info)
    BY <1>2, <2>1, <2>3, UpdateIsStore
  <2>5. QED BY <2>2, <2>3, <2>4, SameStatusInv
<1>10. ASSUME NEW r \in Rep, set_reputation(p, r) PROVE PDBInv'
  <2> DEFINE info == [peers[p] EXCEPT !.reputation = r]
  <2>1. p \in DOMAIN peers /\ e = peers[p]
    BY <1>10, <1>2, UpdateIsStore DEF set_reputation
  <2>2. info \in PeerInfo /\ info.connection_status = e.connection_status
    BY <1>2, <2>1, DataAssumption DEF PeerInfo, Rep_max
  <2>3. peers' = [peers EXCEPT ![p] = info] /\ UNCHANGED <<n_dc, panicked>>
    BY <1>10 DEF set_reputation
  <2>4. peers' = Store(p, info)
    BY <1>2, <2>1, <2>3, UpdateIsStore
  <2>5. QED BY <2>2, <2>3, <2>4, SameStatusInv
<1>11. ASSUME NEW a \in PeerAction, add_reputation(p, a) PROVE PDBInv'
  <2> DEFINE rep  == Saturate(peers[p].reputation + rep_change(a))
             info == [peers[p] EXCEPT !.reputation = rep]
  <2>1. p \in DOMAIN peers /\ e = peers[p]
    BY <1>11, <1>2, UpdateIsStore DEF add_reputation
  <2>2. rep \in 0..Rep_max
    BY <1>2, <2>1, SaturateType DEF PeerInfo
  <2>3. info \in PeerInfo /\ info.connection_status = e.connection_status
    BY <1>2, <2>1, <2>2 DEF PeerInfo
  <2>4. peers' = [peers EXCEPT ![p] = info] /\ UNCHANGED <<n_dc, panicked>>
    BY <1>11 DEF add_reputation
  <2>5. peers' = Store(p, info)
    BY <1>2, <2>1, <2>4, UpdateIsStore
  <2>6. QED BY <2>3, <2>4, <2>5, SameStatusInv
<1>12. QED
  BY <1>1, <1>3, <1>4, <1>5, <1>6, <1>7, <1>8, <1>9, <1>10, <1>11

\* The invariant of the database: the type invariant, the truth of n_dc, the
\* bound on remembered peers and the absence of a failing unwrap().
THEOREM PeerDBInvariant == PDBSpec => []PDBInv
<1>1. PDBInit => PDBInv
  <2> SUFFICES ASSUME PDBInit PROVE PDBInv
    OBVIOUS
  <2>1. DOMAIN peers = {} /\ disconnected_peers = {}
    BY DEF PDBInit, disconnected_peers, DisconnectedIn
  <2>2. Cardinality(disconnected_peers) = 0
    BY <2>1, FS_EmptySet
  <2>3. PDBTypeOK
    BY <2>1 DEF PDBInit, PDBTypeOK
  <2>4. QED
    BY <2>2, <2>3, MaxDcAssumption
       DEF PDBInit, PDBInv, DisconnectedConsistency, DisconnectedBounded
<1>2. PDBInv /\ [PDBNext]_pdbVars => PDBInv'
  <2>1. ASSUME PDBInv, PDBNext PROVE PDBInv'
    BY <2>1, NextInv
  <2>2. ASSUME PDBInv, UNCHANGED pdbVars PROVE PDBInv'
    BY <2>2 DEF PDBInv, pdbVars, PDBTypeOK, DisconnectedConsistency,
       DisconnectedBounded, disconnected_peers, DisconnectedIn
  <2>3. QED BY <2>1, <2>2
<1>3. QED BY <1>1, <1>2, PTL DEF PDBSpec

\* Type correctness of the database, for any sequence of calls.
THEOREM PeerDBTypeCorrect == PDBSpec => []PDBTypeOK
<1>1. PDBInv => PDBTypeOK
  BY DEF PDBInv
<1>2. QED BY <1>1, PeerDBInvariant, PTL

\* n_dc is always the number of disconnected peers.
THEOREM PeerDBConsistent == PDBSpec => []DisconnectedConsistency
<1>1. PDBInv => DisconnectedConsistency
  BY DEF PDBInv
<1>2. QED BY <1>1, PeerDBInvariant, PTL

\* At most MAX_DC_PEERS disconnected peers are remembered, and the unwrap() of
\* shrink_to_fit() never fails.
THEOREM PeerDBBounded == PDBSpec => []DisconnectedBounded
<1>1. PDBInv => DisconnectedBounded
  BY DEF PDBInv
<1>2. QED BY <1>1, PeerDBInvariant, PTL

\* Only disconnect() forgets a peer.
LEMMA OthersForgetNothing ==
  ASSUME PDBInv, PDBNext, \A p \in PeerId : ~disconnect(p)
  PROVE  /\ DOMAIN peers \subseteq DOMAIN peers'
         /\ \A q \in DOMAIN peers : peer_banned(q) =>
               peers'[q].connection_status \in {"Banned", "Dialing", "Connected"}
<1>1. PICK p \in PeerId :
         \/ dialing_peer(p) \/ connect_ingoing(p) \/ connect_outgoing(p) \/ ban(p)
         \/ \E t \in Ttl : update_min_ttl(p, t)
         \/ \E s \in MetaSeq : add_metadata(p, s)
         \/ \E r \in Rep : set_reputation(p, r)
         \/ \E a \in PeerAction : add_reputation(p, a)
  BY DEF PDBNext
<1> DEFINE e == entry_or_default(p)
<1>2. PDBTypeOK /\ e \in PeerInfo
  BY EntryType DEF PDBInv
<1>3. \A q \in DOMAIN peers : q = p => e = peers[q]
  BY DEF entry_or_default
<1>4. ASSUME NEW info \in PeerInfo, peers' = Store(p, info),
             info.connection_status \in {"Banned", "Dialing", "Connected"}
             \/ info.connection_status = e.connection_status
      PROVE  /\ DOMAIN peers \subseteq DOMAIN peers'
             /\ \A q \in DOMAIN peers : peer_banned(q) =>
                   peers'[q].connection_status \in {"Banned", "Dialing", "Connected"}
  BY <1>3, <1>4 DEF Store, peer_banned, HasStatus
<1>5. CASE dialing_peer(p)
  BY <1>2, <1>4, <1>5, StatusType DEF dialing_peer, PeerConnectionStatus
<1>6. CASE connect_ingoing(p)
  BY <1>2, <1>4, <1>6, StatusType DEF connect_ingoing
<1>7. CASE connect_outgoing(p)
  BY <1>2, <1>4, <1>7, StatusType DEF connect_outgoing
<1>8. CASE ban(p)
  BY <1>2, <1>4, <1>8, StatusType DEF ban, PeerConnectionStatus
<1>9. ASSUME NEW t \in Ttl, update_min_ttl(p, t)
      PROVE  /\ DOMAIN peers \subseteq DOMAIN peers'
             /\ \A q \in DOMAIN peers : peer_banned(q) =>
                   peers'[q].connection_status \in {"Banned", "Dialing", "Connected"}
  <2> DEFINE info == IF t > e.min_ttl THEN [e EXCEPT !.min_ttl = t] ELSE e
  <2>1. info \in PeerInfo /\ info.connection_status = e.connection_status
    BY <1>2 DEF PeerInfo
  <2>2. peers' = Store(p, info)
    BY <1>9 DEF update_min_ttl
  <2>3. QED BY <1>4, <2>1, <2>2
<1>10. CASE \E s \in MetaSeq : add_metadata(p, s)
  BY <1>2, <1>10 DEF add_metadata, PDBTypeOK, PeerInfo, peer_banned, HasStatus
<1>11. CASE \E r \in Rep : set_reputation(p, r)
  BY <1>2, <1>11 DEF set_reputation, PDBTypeOK, PeerInfo, peer_banned, HasStatus
<1>12. CASE \E a \in PeerAction : add_reputation(p, a)
  BY <1>2, <1>12 DEF add_reputation, PDBTypeOK, PeerInfo, peer_banned, HasStatus
<1>13. QED
  BY <1>1, <1>5, <1>6, <1>7, <1>8, <1>9, <1>10, <1>11, <1>12

\* What disconnect() forgets: at most one peer, disconnected afterwards and of
\* the lowest reputation; banned peers keep their status.
LEMMA DisconnectForgets ==
  ASSUME PDBInv, NEW p \in PeerId, disconnect(p)
  PROVE  /\ \A d \in DOMAIN peers \ DOMAIN peers' :
              /\ DOMAIN peers \ DOMAIN peers' = {d}
              /\ ~peer_banned(d)
              /\ \A k \in DisconnectedIn(peers') :
                    peers[d].reputation <= peers'[k].reputation
         /\ \A q \in DOMAIN peers : peer_banned(q) =>
              /\ q \in DOMAIN peers'
              /\ peers'[q].connection_status = "Banned"
<1>1. PICK info \in PeerInfo, n \in Nat :
           /\ info.connection_status \in {"Disconnected", "Banned"}
           /\ info.connection_status = "Banned" <=> peer_banned(p)
           /\ info.reputation = entry_or_default(p).reputation
           /\ IsFiniteSet(DisconnectedIn(Store(p, info)))
           /\ n = Cardinality(DisconnectedIn(Store(p, info)))
           /\ n <= MAX_DC_PEERS + 1
           /\ shrink_to_fit(Store(p, info), n)
  BY DisconnectArguments, Zenon
<1>2. PICK ps : ps = Store(p, info)
  OBVIOUS
<1>3. /\ IsFiniteSet(DisconnectedIn(ps))
      /\ n = Cardinality(DisconnectedIn(ps))
      /\ n <= MAX_DC_PEERS + 1
      /\ shrink_to_fit(ps, n)
  BY <1>2, <1>1
<1>4. /\ panicked' = panicked
      /\ \/ n <= MAX_DC_PEERS /\ peers' = [q \in DOMAIN ps |-> ps[q]] /\ n_dc' = n
         \/ /\ n > MAX_DC_PEERS
            /\ n_dc' = n - 1
            /\ \E d \in DisconnectedIn(ps) :
                  /\ peers' = [q \in DOMAIN ps \ {d} |-> ps[q]]
                  /\ \A k \in DisconnectedIn(ps) \ {d} :
                        ps[d].reputation <= ps[k].reputation
  BY <1>3, ShrinkByAtMostOne, Zenon
<1>5. DOMAIN ps = DOMAIN peers \cup {p} /\ ps[p] = info
  BY <1>2 DEF Store
<1>6. \A q \in DOMAIN peers : q # p => ps[q] = peers[q]
  BY <1>2 DEF Store
<1>7. \A q \in DOMAIN peers : ps[q].reputation = peers[q].reputation
  BY <1>1, <1>5, <1>6 DEF entry_or_default
<1>8. \A q \in DOMAIN peers :
         peer_banned(q) <=> ps[q].connection_status = "Banned"
  BY <1>1, <1>5, <1>6 DEF peer_banned, HasStatus
<1>9. CASE peers' = [q \in DOMAIN ps |-> ps[q]]
  <2>1. DOMAIN peers' = DOMAIN ps /\ \A q \in DOMAIN ps : peers'[q] = ps[q]
    BY <1>9
  <2>2. DOMAIN peers \ DOMAIN peers' = {}
    BY <1>5, <2>1
  <2>3. \A q \in DOMAIN peers : peer_banned(q) =>
          q \in DOMAIN peers' /\ peers'[q].connection_status = "Banned"
    BY <1>5, <1>8, <2>1
  <2>4. QED BY <2>2, <2>3
<1>10. ASSUME NEW d \in DisconnectedIn(ps),
             peers' = [q \in DOMAIN ps \ {d} |-> ps[q]],
             \A k \in DisconnectedIn(ps) \ {d} : ps[d].reputation <= ps[k].reputation
      PROVE  /\ \A x \in DOMAIN peers \ DOMAIN peers' :
                  /\ DOMAIN peers \ DOMAIN peers' = {x}
                  /\ ~peer_banned(x)
                  /\ \A k \in DisconnectedIn(peers') :
                        peers[x].reputation <= peers'[k].reputation
             /\ \A q \in DOMAIN peers : peer_banned(q) =>
                  /\ q \in DOMAIN peers'
                  /\ peers'[q].connection_status = "Banned"
  <2>1. d \in DOMAIN ps /\ ps[d].connection_status = "Disconnected"
    BY DEF DisconnectedIn
  <2>2. DisconnectedIn(peers') = DisconnectedIn(ps) \ {d}
        /\ \A k \in DisconnectedIn(peers') : peers'[k] = ps[k]
    BY <1>10 DEF DisconnectedIn
  <2>3. DOMAIN peers \ DOMAIN peers' \subseteq {d}
    BY <1>5, <1>10
  <2>4. d \in DOMAIN peers => ~peer_banned(d)
    BY <1>5, <1>8, <2>1
  <2>5. \A x \in DOMAIN peers \ DOMAIN peers' :
           /\ x = d
           /\ \A k \in DisconnectedIn(peers') :
                 peers[x].reputation <= peers'[k].reputation
    BY <1>5, <1>7, <1>10, <2>2, <2>3
  <2>6. \A q \in DOMAIN peers : peer_banned(q) =>
           q \in DOMAIN peers' /\ peers'[q].connection_status = "Banned"
    <3> SUFFICES ASSUME NEW q \in DOMAIN peers, peer_banned(q)
                 PROVE  q \in DOMAIN peers' /\ peers'[q].connection_status = "Banned"
      OBVIOUS
    <3>1. q # d /\ q \in DOMAIN ps /\ ps[q].connection_status = "Banned"
      BY <1>5, <1>8, <2>4
    <3>2. QED BY <1>10, <3>1
  <2>7. QED BY <2>4, <2>5, <2>6
<1>11. QED
  BY <1>4, <1>9, <1>10, Zenon

\* A call forgets at most one peer, never a banned one, and none of a higher
\* reputation than a disconnected peer it keeps.
THEOREM PeerDBForgetsOnlyTheWorst == PDBSpec => ForgetsOnlyTheWorst
<1> DEFINE Forgets == \A d \in DOMAIN peers \ DOMAIN peers' :
                         /\ DOMAIN peers \ DOMAIN peers' = {d}
                         /\ ~peer_banned(d)
                         /\ \A k \in DisconnectedIn(peers') :
                               peers[d].reputation <= peers'[k].reputation
<1>1. PDBInv /\ [PDBNext]_pdbVars => [Forgets]_pdbVars
  <2>1. ASSUME PDBInv, PDBNext PROVE Forgets
    <3>1. CASE \E p \in PeerId : disconnect(p)
      BY <2>1, <3>1, DisconnectForgets
    <3>2. CASE \A p \in PeerId : ~disconnect(p)
      BY <2>1, <3>2, OthersForgetNothing
    <3>3. QED BY <3>1, <3>2
  <2>2. QED BY <2>1
<1>2. QED BY <1>1, PeerDBInvariant, PTL DEF PDBSpec, ForgetsOnlyTheWorst

\* Disconnecting, reporting and evicting never lift a ban.
THEOREM PeerDBBanSurvives == PDBSpec => BanSurvivesDisconnect
<1> DEFINE Survives == \A p \in PeerId : peer_banned(p) =>
              /\ p \in DOMAIN peers'
              /\ peers'[p].connection_status \in {"Banned", "Dialing", "Connected"}
<1>1. PDBInv /\ [PDBNext]_pdbVars => [Survives]_pdbVars
  <2>1. ASSUME PDBInv, PDBNext PROVE Survives
    <3>0. \A p : peer_banned(p) => p \in DOMAIN peers
      BY DEF peer_banned, HasStatus
    <3>1. CASE \E p \in PeerId : disconnect(p)
      BY <2>1, <3>0, <3>1, DisconnectForgets
    <3>2. CASE \A p \in PeerId : ~disconnect(p)
      BY <2>1, <3>0, <3>2, OthersForgetNothing
    <3>3. QED BY <3>1, <3>2
  <2>2. QED BY <2>1
<1>2. QED BY <1>1, PeerDBInvariant, PTL DEF PDBSpec, BanSurvivesDisconnect

\* What a call stores keeps the time until which the peer is to be retained.
LEMMA StatusKeepsTtl ==
  ASSUME NEW info \in PeerInfo
  PROVE  /\ status_connect_ingoing(info).min_ttl = info.min_ttl
         /\ status_connect_outgoing(info).min_ttl = info.min_ttl
         /\ \A s : SetStatus(info, s).min_ttl = info.min_ttl
         /\ info.min_ttl \in Int
<1>1. info.min_ttl \in Int
  <2>1. info.min_ttl \in Ttl \cup {None}
    BY DEF PeerInfo
  <2>2. \A t \in Ttl : t \in Int
    BY DataAssumption
  <2>3. None \in Int
    BY DEF None
  <2>4. QED BY <2>1, <2>2, <2>3, Zenon
<1>2. QED
  BY <1>1 DEF PeerInfo, status_connect_ingoing, status_connect_outgoing, SetStatus

\* No call shortens the time until which a peer that stays known is retained.
LEMMA TtlStep ==
  ASSUME PDBInv, PDBNext, NEW q \in DOMAIN peers \cap DOMAIN peers'
  PROVE  peers'[q].min_ttl >= peers[q].min_ttl
<1>1. PICK p \in PeerId :
         \/ dialing_peer(p) \/ connect_ingoing(p) \/ connect_outgoing(p)
         \/ disconnect(p) \/ ban(p)
         \/ \E t \in Ttl : update_min_ttl(p, t)
         \/ \E s \in MetaSeq : add_metadata(p, s)
         \/ \E r \in Rep : set_reputation(p, r)
         \/ \E a \in PeerAction : add_reputation(p, a)
  BY DEF PDBNext
<1>2. PICK e : e = entry_or_default(p)
  OBVIOUS
<1>3. e \in PeerInfo /\ e.min_ttl \in Int /\ (q = p => peers[q] = e)
  BY <1>2, EntryType, StatusKeepsTtl DEF PDBInv, entry_or_default
<1>4. peers[q] \in PeerInfo /\ peers[q].min_ttl \in Int
  BY StatusKeepsTtl DEF PDBInv, PDBTypeOK
<1>5. ASSUME NEW info, info.min_ttl >= e.min_ttl,
             peers' = Store(p, info) \/ peers'[q] = Store(p, info)[q]
      PROVE  peers'[q].min_ttl >= peers[q].min_ttl
  <2>1. Store(p, info)[q] = IF q = p THEN info ELSE peers[q]
    BY DEF Store
  <2>2. QED BY <1>3, <1>4, <1>5, <2>1
<1>6. CASE dialing_peer(p)
  BY <1>2, <1>3, <1>5, <1>6, StatusKeepsTtl DEF dialing_peer
<1>7. CASE connect_ingoing(p)
  BY <1>2, <1>3, <1>5, <1>7, StatusKeepsTtl DEF connect_ingoing
<1>8. CASE connect_outgoing(p)
  BY <1>2, <1>3, <1>5, <1>8, StatusKeepsTtl DEF connect_outgoing
<1>9. CASE ban(p)
  BY <1>2, <1>3, <1>5, <1>9, StatusKeepsTtl DEF ban
<1>10. CASE disconnect(p)
  <2>1. PICK info, n : info.min_ttl = e.min_ttl /\ shrink_to_fit(Store(p, info), n)
    BY <1>2, <1>3, <1>10, StatusKeepsTtl DEF disconnect
  <2>2. PICK ps : ps = Store(p, info)
    OBVIOUS
  <2>3. \/ peers' = peers
        \/ \E to_drop \in SUBSET DisconnectedIn(ps) :
              peers' = [x \in DOMAIN ps \ to_drop |-> ps[x]]
    BY <2>1, <2>2 DEF shrink_to_fit
  <2>4. peers'[q] = peers[q] \/ peers'[q] = ps[q]
    BY <2>3
  <2>5. QED BY <1>3, <1>4, <1>5, <2>1, <2>2, <2>4
<1>11. ASSUME NEW t \in Ttl, update_min_ttl(p, t)
       PROVE  peers'[q].min_ttl >= peers[q].min_ttl
  <2>1. PICK info : info = IF t > e.min_ttl THEN [e EXCEPT !.min_ttl = t] ELSE e
    OBVIOUS
  <2>2. info.min_ttl >= e.min_ttl
    <3>1. t \in Int
      BY DataAssumption
    <3>2. [e EXCEPT !.min_ttl = t].min_ttl = t
      BY <1>3 DEF PeerInfo
    <3>3. QED BY <1>3, <2>1, <3>1, <3>2
  <2>3. peers' = Store(p, info)
    BY <1>2, <1>11, <2>1 DEF update_min_ttl
  <2>4. QED BY <1>5, <2>2, <2>3
<1>12. CASE \/ \E s \in MetaSeq : add_metadata(p, s)
            \/ \E r \in Rep : set_reputation(p, r)
            \/ \E a \in PeerAction : add_reputation(p, a)
  <2>1. peers'[q].min_ttl = peers[q].min_ttl
    BY <1>4, <1>12 DEF add_metadata, set_reputation, add_reputation, PeerInfo
  <2>2. QED BY <1>4, <2>1
<1>13. QED
  BY <1>1, <1>6, <1>7, <1>8, <1>9, <1>10, <1>11, <1>12

\* While a peer is known, the time until which it is to be retained is only
\* ever extended (update_min_ttl and every other call of peerdb.rs).
THEOREM PeerDBMinTtlNeverShrinks == PDBSpec => MinTtlNeverShrinks
<1> DEFINE Extends == \A p \in DOMAIN peers \cap DOMAIN peers' :
                         peers'[p].min_ttl >= peers[p].min_ttl
<1>1. PDBInv /\ [PDBNext]_pdbVars => [Extends]_pdbVars
  BY TtlStep
<1>2. QED BY <1>1, PeerDBInvariant, PTL DEF PDBSpec, MinTtlNeverShrinks

=============================================================================
