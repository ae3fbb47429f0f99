----------------------------- MODULE Discovery -----------------------------
(***************************************************************************)
(* The discovery service (core/network/src/discovery/mod.rs): a queue of   *)
(* queries for peers, of which MAX_CONCURRENT_QUERIES run at a time.  The  *)
(* only queries are FindPeers: nothing asks for the peers of a subnet.     *)
(* discv5, which runs the queries, is external: a query ends when it likes *)
(* with peers, without any, or with an error.  The stream of discv5 events *)
(* (a new external address) and the cache of ENRs are left out.            *)
(***************************************************************************)
EXTENDS Integers, Sequences

CONSTANTS
    MAX_CONCURRENT_QUERIES,   \* 1 in the code
    Started                   \* is discv5 running?

ASSUME DiscoveryAssumption ==
    MAX_CONCURRENT_QUERIES \in Nat \ {0} /\ Started \in BOOLEAN

VARIABLES
    queued_queries,     \* FindPeers queries waiting to be started
    find_peer_active,   \* is a FindPeers query running?
    active_queries      \* number of queries under way

discoveryVars == <<queued_queries, find_peer_active, active_queries>>

\* Mutant: a query is queued while one is running.
discover_peers_WhileActive ==
    /\ queued_queries' = IF ~Started \/ queued_queries # <<>>
                         THEN queued_queries ELSE <<"FindPeers">>
    /\ UNCHANGED <<find_peer_active, active_queries>>

\* A query is queued unless one is running or queued already.
discover_peers ==
    /\ queued_queries' = IF ~Started \/ find_peer_active \/ queued_queries # <<>>
                         THEN queued_queries ELSE <<"FindPeers">>
    /\ UNCHANGED <<find_peer_active, active_queries>>

at_capacity == active_queries >= MAX_CONCURRENT_QUERIES

\* The loop of process_queue puts a FindPeers query back when one is running,
\* and takes it out again: it does not end.
Spins == queued_queries # <<>> /\ ~at_capacity /\ find_peer_active

\* Mutant: a query that yields nothing leaves the flag set.
query_over_OnResultOnly(outcome) == outcome \notin {"Pending", "Empty", "Failed"}

\* poll_queries clears find_peer_active whatever the outcome of the query.
query_over(outcome) == outcome # "Pending"

\* One call of poll(): process_queue starts what it can, then poll_queries
\* looks whether a query is over.
poll(outcome) ==
    LET starts == queued_queries # <<>> /\ ~at_capacity
        active == IF starts THEN active_queries + 1 ELSE active_queries
    IN  /\ Started /\ ~Spins
        /\ outcome # "Pending" => active > 0
        /\ queued_queries' = IF starts THEN Tail(queued_queries) ELSE queued_queries
        /\ active_queries' = IF outcome = "Pending" THEN active ELSE active - 1
        /\ find_peer_active' = ((starts \/ find_peer_active) /\ ~query_over(outcome))

\* PeerManager::new asks for peers at once.
DiscoveryInit ==
    /\ queued_queries = IF Started THEN <<"FindPeers">> ELSE <<>>
    /\ find_peer_active = FALSE
    /\ active_queries = 0

-----------------------------------------------------------------------------
(* Properties                                                              *)

\* process_queue always ends: "Only permit one FindPeers query at a time" is
\* kept by never queueing a second one, and the flag is set exactly while a
\* query runs.
QueriesInStep ==
    /\ ~Spins
    /\ find_peer_active <=> active_queries > 0
    /\ active_queries <= 1 /\ Len(queued_queries) <= 1
    /\ find_peer_active => queued_queries = <<>>

=============================================================================
