------------------------------ MODULE Requests ------------------------------
(***************************************************************************)
(* The table of unanswered requests of the network service                 *)
(* (core/src/mothra.rs).  A request of a peer is given the index at which  *)
(* its PeerRequestId is stored; the client, on its own thread, answers     *)
(* with a message that names an index, through an unbounded channel.       *)
(*                                                                         *)
(* A PeerRequestId, a connection and a substream of it, is a number here:  *)
(* no two requests of peers have the same.  sent is a history variable: it *)
(* pairs the request that a client answered with the one that the answer   *)
(* was sent to.                                                            *)
(***************************************************************************)
EXTENDS Integers, Sequences, FiniteSets

CONSTANTS
    SLOTS,        \* length of the table, 256 in the code
    Client,       \* how clients answer: through rpc_response, or with the index
    Repeats,      \* may the client answer a request twice?
    MaxPending,   \* requests of peers that may be unanswered at a time
    MaxRequests   \* bound on the requests of peers

ASSUME RequestsAssumption ==
    /\ SLOTS \in Nat \ {0} /\ MaxPending \in Nat /\ MaxRequests \in Nat
    /\ Client \subseteq {"rpc_response", "keeps_index"} /\ Repeats \in BOOLEAN

VARIABLES
    requests,      \* the table: a PeerRequestId or None per index
    num_requests,  \* AtomicU8: the index of the next request
    network_recv,  \* SendResponse messages under way
    unanswered,    \* what the client has been asked: index and PeerRequestId
    issued,        \* number of requests received so far
    sent           \* responses given to libp2p

vars == <<requests, num_requests, network_recv, unanswered, issued, sent>>

None == 0

Index == 0..SLOTS - 1

\* Mutant: the counter does not wrap.
fetch_add_Unbounded(n) == n + 1

\* An AtomicU8 wraps around, and the table is as long as its range.
fetch_add(n) == (n + 1) % SLOTS
fetch_sub(n) == (n - 1) % SLOTS

\* BehaviourEvent::RequestReceived: the id is stored at num_requests, which is
\* increased, and the client is called with the index.
request_received ==
    /\ issued < MaxRequests
    /\ Cardinality(unanswered) + Len(network_recv) < MaxPending
    /\ issued' = issued + 1
    /\ requests' = [requests EXCEPT ![num_requests] = issued + 1]
    /\ num_requests' = fetch_add(num_requests)
    /\ unanswered' = unanswered \cup {[index |-> num_requests, id |-> issued + 1]}
    /\ UNCHANGED <<network_recv, sent>>

\* rpc_response always names index 0; a client that sends the message itself
\* names the index that it was given.
rpc_response(r, client) ==
    /\ r \in unanswered
    /\ network_recv' = Append(network_recv,
          [index |-> IF client = "rpc_response" THEN 0 ELSE r.index, answers |-> r.id])
    /\ \/ unanswered' = unanswered \ {r}
       \/ Repeats /\ Len(network_recv) < MaxPending /\ UNCHANGED unanswered
    /\ UNCHANGED <<requests, num_requests, issued, sent>>

\* Mutant: the slot is not cleared.
cleared_Never(index) == requests

cleared(index) == [requests EXCEPT ![index] = None]

\* NetworkMessage::SendResponse: what the index names is answered, and the
\* index freed.
send_response ==
    /\ network_recv # <<>>
    /\ network_recv' = Tail(network_recv)
    /\ LET m  == Head(network_recv)
           id == requests[m.index]
       IN  /\ IF id # None
              THEN /\ num_requests' = fetch_sub(num_requests)
                   /\ sent' = Append(sent, [answers |-> m.answers, id |-> id])
              ELSE UNCHANGED <<num_requests, sent>>
           /\ requests' = cleared(m.index)
    /\ UNCHANGED <<unanswered, issued>>

Init ==
    /\ requests = [i \in Index |-> None] /\ num_requests = 0
    /\ network_recv = <<>> /\ unanswered = {} /\ issued = 0 /\ sent = <<>>

Next ==
    \/ request_received
    \/ \E r \in unanswered, client \in Client : rpc_response(r, client)
    \/ send_response

Spec == Init /\ [][Next]_vars

-----------------------------------------------------------------------------
(* Properties                                                              *)

\* The table, the counter and the channel hold indices and ids of requests
\* that peers made.
RequestsTypeOK ==
    /\ requests \in [Index -> 0..issued] /\ num_requests \in Index
    /\ \A k \in 1..Len(network_recv) : network_recv[k].index \in Index
    /\ \A r \in unanswered : r.index \in Index /\ r.id \in 1..issued

\* No request is answered twice, however often and for whatever index the
\* client calls: an id is stored once and its slot is cleared with the answer.
AnsweredAtMostOnce ==
    /\ \A j, k \in 1..Len(sent) : sent[j].id = sent[k].id => j = k
    /\ \A k \in 1..Len(sent), i \in Index : requests[i] # sent[k].id
    /\ \A i, j \in Index : requests[i] = requests[j] /\ requests[i] # None => i = j

\* "Identifier of the request. All responses to this request must use this
\* id" (BehaviourEvent::RequestReceived): an answer goes to the request that
\* the client answers.
AnswersItsRequest == \A k \in 1..Len(sent) : sent[k].answers = sent[k].id

=============================================================================
