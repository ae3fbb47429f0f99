------------------------------ MODULE RPCStream ------------------------------
(***************************************************************************)
(* One RPC call on its substream (core/network/src/rpc/protocol.rs and the *)
(* parts of handler.rs that read and write the substream): the initiator   *)
(* encodes a request, flushes it and closes its half of the stream; the    *)
(* responder decodes it, and its handler encodes the response that the     *)
(* behaviour gives it; the initiator's handler decodes that.  The bytes    *)
(* arrive in any pieces, the connection may break, both sides have timers, *)
(* and a side that gives up drops the stream, which the other side may     *)
(* notice before it has read all that was written.                         *)
(***************************************************************************)
EXTENDS RPCCodec

CONSTANTS
    Protos,       \* protocols of the requests
    Coded,        \* kinds of responses
    MaxLen        \* bound on the length of the data of a message

ASSUME StreamAssumption ==
    /\ Protos \subseteq {"Status", "Goodbye", "Ping", "MetaData"}
    /\ Coded \subseteq {"Success", "InvalidRequest", "ServerError", "Unknown"}
    /\ MaxLen \in Nat

VARIABLES
    request, received,  \* the RPCRequest, what upgrade_inbound makes of it
    response, outcome,  \* the RPCCodedResponse, what the initiator makes of it
    dst, wire,          \* per half: bytes that are not flushed, not read
    shut,               \* per half: closed by its writer
    codec,              \* per half: the decoder of its reader
    dropped,            \* who has let go of the stream, or "connection"
    fault               \* the connection broke or a timer elapsed

halfVars == <<dst, wire, shut, codec>>
vars == <<request, received, response, outcome, halfVars, dropped, fault>>

Half == {"request", "response"}

Data == {[k \in 1..n |-> k] : n \in 0..MaxLen}

Request ==
    {[kind |-> "Request", proto |-> p, data |-> d] : p \in Protos \ {"MetaData"}, d \in Data}
    \cup {[kind |-> "Request", proto |-> p, data |-> <<>>] : p \in Protos \cap {"MetaData"}}

Response == [kind : {"Response"}, coded : Coded, data : Data]

StreamError == {Err("IoError"), Err("IncompleteStream")}

expects_none(req) == req.proto = "Goodbye"

Drop(who) == dropped' = dropped \cup {who}

-----------------------------------------------------------------------------
(* Writing                                                                 *)

\* upgrade_outbound: socket.send(self) encodes; an error ends the upgrade.
upgrade_outbound(req) ==
    /\ request = None /\ request' = req
    /\ LET enc == encode_request(req.proto, req.data)
       IN  IF enc.kind = "Ok"
           THEN dst' = [dst EXCEPT !["request"] = enc.bytes] /\ UNCHANGED <<outcome, dropped>>
           ELSE outcome' = Err("InternalError") /\ Drop("initiator") /\ UNCHANGED dst
    /\ UNCHANGED <<received, response, wire, shut, codec, fault>>

\* Sink::start_send on the inbound substream.  An error leaves what is in dst
\* and goes on to close the stream, like a success that has been flushed.
start_send(coded, data) ==
    /\ received # None /\ received = request /\ ~expects_none(request)
    /\ response = None /\ "responder" \notin dropped
    /\ response' = [kind |-> "Response", coded |-> coded, data |-> data]
    /\ dst' = [dst EXCEPT !["response"] = encode_response(coded, data).dst]
    /\ UNCHANGED <<request, received, outcome, wire, shut, codec, dropped, fault>>

writer(h) == IF h = "request" THEN "initiator" ELSE "responder"
reader(h) == IF h = "request" THEN "responder" ELSE "initiator"

\* Sink::poll_flush writes as much as the stream takes.
poll_flush(h) ==
    /\ dst[h] # <<>> /\ dropped \cap {writer(h), "connection"} = {}
    /\ \E n \in 1..Len(dst[h]) :
          /\ wire' = [wire EXCEPT ![h] = @ \o SubSeq(dst[h], 1, n)]
          /\ dst'  = [dst EXCEPT ![h] = SubSeq(@, n + 1, Len(@))]
    /\ UNCHANGED <<request, received, response, outcome, shut, codec, dropped, fault>>

\* Mutant: a response that could not be encoded leaves the stream open.
poll_close_OnlyWhenSent(h) ==
    /\ (IF h = "request" THEN request ELSE response) # None
    /\ h = "response" => encode_response(response.coded, response.data).kind = "Ok"
    /\ dst[h] = <<>> /\ ~shut[h] /\ dropped \cap {writer(h), "connection"} = {}
    /\ shut' = [shut EXCEPT ![h] = TRUE]
    /\ IF h = "request" /\ expects_none(request)
       THEN outcome' = [kind |-> "NoResponse"] /\ Drop("initiator")
       ELSE UNCHANGED <<outcome, dropped>>
    /\ UNCHANGED <<request, received, response, dst, wire, codec, fault>>

\* Sink::poll_close, after the flush.  The initiator lets go of a stream on
\* which it expects nothing.
poll_close(h) ==
    /\ (IF h = "request" THEN request ELSE response) # None
    /\ dst[h] = <<>> /\ ~shut[h] /\ dropped \cap {writer(h), "connection"} = {}
    /\ shut' = [shut EXCEPT ![h] = TRUE]
    /\ IF h = "request" /\ expects_none(request)
       THEN outcome' = [kind |-> "NoResponse"] /\ Drop("initiator")
       ELSE UNCHANGED <<outcome, dropped>>
    /\ UNCHANGED <<request, received, response, dst, wire, codec, fault>>

-----------------------------------------------------------------------------
(* Reading                                                                 *)

\* upgrade_inbound: any error of the decoder, and the end of the stream, is an
\* incomplete stream.  The handler keeps the stream to respond on.
take_request(item) ==
    /\ received' = IF item.kind = "Request" THEN item ELSE Err("IncompleteStream")
    /\ IF item.kind = "Request" /\ ~expects_none(item) THEN UNCHANGED dropped
       ELSE Drop("responder")
    /\ UNCHANGED outcome

\* poll() of the initiator's handler: the end of the stream is an error, and
\* whatever it is, the stream is let go of.
take_response(item) ==
    /\ outcome' = IF item.kind = "End" THEN Err("IncompleteStream") ELSE item
    /\ Drop("initiator")
    /\ UNCHANGED received

take(h, item) == IF h = "request" THEN take_request(item) ELSE take_response(item)

decode(h, c) ==
    IF h = "request" THEN decode_request(request.proto, c) ELSE decode_response(request.proto, c)

\* External: Decoder::decode_eof.
decode_eof(h, c) ==
    LET r == decode(h, c)
    IN  IF r.item # None THEN r.item
        ELSE IF r.codec.src = <<>> THEN [kind |-> "End"] ELSE Err("IoError")

\* Who reads this half waits for a message.  The initiator does once its
\* upgrade is done; a MetaData request is not read at all.
awaits(h) ==
    /\ request # None
    /\ reader(h) \notin dropped
    /\ IF h = "request" THEN received = None /\ request.proto # "MetaData"
                        ELSE outcome = None /\ shut["request"]

upgrade_inbound_metadata ==
    /\ request # None /\ request.proto = "MetaData" /\ received = None
    /\ received' = request
    /\ UNCHANGED <<request, response, outcome, halfVars, dropped, fault>>

\* Framed::poll_next with n more bytes.
poll_next(h) ==
    /\ awaits(h) /\ "connection" \notin dropped
    /\ \E n \in 1..Len(wire[h]) :
          LET c == [codec[h] EXCEPT !.src = @ \o SubSeq(wire[h], 1, n)]
              r == decode(h, c)
          IN  /\ wire'  = [wire EXCEPT ![h] = SubSeq(@, n + 1, Len(@))]
              /\ codec' = [codec EXCEPT ![h] = r.codec]
              /\ IF r.item = None THEN UNCHANGED <<received, outcome, dropped>>
                                  ELSE take(h, r.item)
    /\ UNCHANGED <<request, response, dst, shut, fault>>

\* Framed::poll_next at the end of the stream.
poll_next_eof(h) ==
    /\ awaits(h) /\ shut[h] /\ wire[h] = <<>>
    /\ take(h, decode_eof(h, codec[h]))
    /\ UNCHANGED <<request, response, halfVars, fault>>

-----------------------------------------------------------------------------
(* Faults                                                                  *)

\* The connection breaks.
break ==
    /\ "connection" \notin dropped /\ Drop("connection") /\ fault' = TRUE
    /\ UNCHANGED <<request, received, response, outcome, halfVars>>

\* A side notices that the stream is gone.
stream_gone ==
    /\ request # None
    /\ \/ /\ received = None /\ request.proto # "MetaData"
          /\ dropped \cap {"initiator", "connection"} # {}
          /\ \E e \in StreamError : take_request(e)
       \/ /\ outcome = None /\ dropped \cap {"responder", "connection"} # {}
          /\ \E e \in StreamError : take_response(e)
    /\ UNCHANGED <<request, response, halfVars, fault>>

\* REQUEST_TIMEOUT or TTFB_TIMEOUT in upgrade_inbound, an error of the socket,
\* and RESPONSE_TIMEOUT of the initiator.
timeout ==
    /\ request # None
    /\ \/ /\ received = None /\ request.proto # "MetaData"
          /\ received' \in {Err("StreamTimeout"), Err("IncompleteStream")}
          /\ Drop("responder") /\ UNCHANGED outcome
       \/ /\ outcome = None /\ shut["request"]
          /\ outcome' = Err("StreamTimeout") /\ Drop("initiator") /\ UNCHANGED received
    /\ fault' = TRUE
    /\ UNCHANGED <<request, response, halfVars>>

-----------------------------------------------------------------------------

Init ==
    /\ request = None /\ received = None /\ response = None /\ outcome = None
    /\ dst = [h \in Half |-> <<>>] /\ wire = [h \in Half |-> <<>>]
    /\ shut = [h \in Half |-> FALSE] /\ codec = [h \in Half |-> NewDecoder]
    /\ dropped = {} /\ fault = FALSE

Next ==
    \/ \E req \in Request : upgrade_outbound(req)
    \/ \E coded \in Coded, data \in Data : start_send(coded, data)
    \/ \E h \in Half : poll_flush(h) \/ poll_close(h) \/ poll_next(h) \/ poll_next_eof(h)
    \/ upgrade_inbound_metadata
    \/ break \/ stream_gone \/ timeout

Spec == Init /\ [][Next]_vars

\* The connection tasks poll the substreams as long as there is anything to
\* write or to read, and the stream delivers what it has taken.  Neither a
\* fault nor an answer has to come.
FairSpec ==
    /\ Spec
    /\ \A h \in Half :
          WF_vars(poll_flush(h)) /\ WF_vars(poll_close(h))
          /\ WF_vars(poll_next(h)) /\ WF_vars(poll_next_eof(h))
    /\ WF_vars(upgrade_inbound_metadata) /\ WF_vars(stream_gone)

-----------------------------------------------------------------------------
(* Properties                                                              *)

\* The messages that a call can carry: data, but not more than the limit; no
\* data in a MetaData request, and perhaps none in an error.
Carries(req) ==
    valid_request(req.proto, req.data) /\ Len(req.data) <= max_packet_size

CarriesResponse(req, resp) ==
    /\ Len(resp.data) <= max_packet_size
    /\ resp.coded = "Success" => resp.data # <<>>

Largest == Len(varint[max_packet_size]) + Len(FrameEncoder([k \in 1..max_packet_size |-> k])) + 1

\* No buffer holds more than the largest message, and a length that has been
\* read is within the limit as long as the reader waits for its data.
StreamTypeOK ==
    /\ request \in Request \cup {None} /\ response \in Response \cup {None}
    /\ \A h \in Half :
          /\ Len(dst[h]) + Len(wire[h]) + Len(codec[h].src) <= Largest
          /\ codec[h].len \in -1..max_packet_size
    /\ dropped \subseteq {"initiator", "responder", "connection"}

Call == INSTANCE RPCCall WITH OneWay <- expects_none

\* However the bytes are cut up and whenever a side gives up, the request that
\* upgrade_inbound returns and the response that the handler reports are the
\* ones that were encoded, and an error is reported only after a fault or for a
\* message that the codecs refuse.
ImplementsCall == Call!Spec

\* A decoder does not wait for bytes that never come: a request reaches the
\* responder or is given up, and a response that the responder has encoded, or
\* tried to encode, ends the initiator's wait.
CallEnds ==
    /\ (request # None) ~> (received # None \/ outcome # None)
    /\ (response # None) ~> (outcome # None)

=============================================================================
