------------------------------- MODULE RPCCall -------------------------------
(***************************************************************************)
(* What one RPC call promises, without bytes: the peer receives the request *)
(* that was made and no other, its answer is the answer that we are given, *)
(* and a side is told of an error only if the stream was disturbed or if   *)
(* the other side made a message that the protocol cannot carry.           *)
(***************************************************************************)
CONSTANTS
    None,
    Carries(_),             \* can this request be carried?
    CarriesResponse(_, _),  \* can this response to this request?
    OneWay(_)               \* does the request expect no response?

VARIABLES
    request, received,      \* the request made, what the peer was given
    response, outcome,      \* the response made, what we were given
    fault                   \* the connection broke or a timer elapsed

vars == <<request, received, response, outcome, fault>>

Failed(x) == x.kind = "Err"

Init ==
    /\ request = None /\ received = None /\ response = None /\ outcome = None
    /\ fault = FALSE

\* A request that cannot be carried may fail at once.
Request ==
    /\ request = None /\ request' # None
    /\ outcome' = outcome \/ (Failed(outcome') /\ ~Carries(request'))
    /\ UNCHANGED <<received, response, fault>>

\* The peer may miss a request that expects no response: we do not stay.
Receive ==
    /\ request # None /\ received = None
    /\ \/ received' = request /\ Carries(request)
       \/ Failed(received') /\ (fault' \/ ~Carries(request) \/ OneWay(request))
    /\ fault => fault'
    /\ UNCHANGED <<request, response, outcome>>

Respond ==
    /\ received # None /\ received = request /\ ~OneWay(request)
    /\ response = None /\ response' # None
    /\ UNCHANGED <<request, received, outcome, fault>>

Return ==
    /\ request # None /\ outcome = None /\ outcome' # None
    /\ \/ response # None /\ outcome' = response /\ CarriesResponse(request, response)
       \/ OneWay(request) /\ ~Failed(outcome')
       \/ /\ Failed(outcome')
          /\ \/ fault' \/ ~Carries(request)
             \/ response # None /\ ~CarriesResponse(request, response)
             \/ OneWay(request)
    /\ fault => fault'
    /\ UNCHANGED <<request, received, response>>

Disturb == fault' = TRUE /\ UNCHANGED <<request, received, response, outcome>>

Next == Request \/ Receive \/ Respond \/ Return \/ Disturb

Spec == Init /\ [][Next]_vars

=============================================================================
