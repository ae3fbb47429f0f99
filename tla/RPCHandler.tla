----------------------------- MODULE RPCHandler -----------------------------
(***************************************************************************)
(* The protocols handler of one connection                                 *)
(* (core/network/src/rpc/handler.rs): it answers the requests of the peer  *)
(* on inbound substreams, opens an outbound substream for each of our      *)
(* requests, times both out, and winds down when it is told to shut down.  *)
(*                                                                         *)
(* The connection task calls one method of the handler at a time.  The     *)
(* inject_* methods are one action each; a call of poll() is a sequence of *)
(* actions, one per iteration of its loops, and pc keeps the inject_*      *)
(* methods out until it returns.  What the substreams, the timers and the  *)
(* swarm do is nondeterministic: a timer may have elapsed, or not, whenever *)
(* poll() looks at it; a substream may be ready, pending or broken.        *)
(*                                                                         *)
(* Requests are numbered in the order in which the behaviour issues them   *)
(* (the code gives them application ids, which need not differ); requests, *)
(* outcomes, sent and responses are history variables.           *)
(* remaining_chunks is left out: no protocol expects more than one         *)
(* response.                                                               *)
(***************************************************************************)
EXTENDS Integers, Sequences, FiniteSets

CONSTANTS
    OutProtocol,          \* protocols of the requests that we send
    InProtocol,           \* protocols of the requests that the peer sends
    max_dial_negotiated,  \* 8 in the code
    IO_ERROR_RETRIES,     \* 3 in the code
    DialError,            \* ways in which opening a substream fails
    Farewell,             \* may a shutdown carry a final Goodbye?
    MaxRequests,          \* bound on the requests that we send
    MaxInbound,           \* bound on the requests of the peer
    MaxResponses          \* bound on the responses that the behaviour gives

Protocol == {"Status", "Goodbye", "Ping", "MetaData"}

ASSUME HandlerAssumption ==
    /\ OutProtocol \subseteq Protocol /\ InProtocol \subseteq Protocol
    /\ max_dial_negotiated \in Nat \ {0}
    /\ IO_ERROR_RETRIES \in Nat \ {0}
    /\ DialError \subseteq {"IoError", "NegotiationFailed"}
    /\ Farewell \in BOOLEAN
    /\ MaxRequests \in Nat /\ MaxInbound \in Nat /\ MaxResponses \in Nat

VARIABLES
    state,                  \* HandlerState
    pending_errors,         \* errors to report
    events_out,             \* requests of the peer to report
    dial_queue,             \* requests waiting for a substream
    dial_negotiated,        \* the handler's count of substreams being opened
    dialing,                \* requests whose substream the swarm is opening
    inbound_substreams,     \* id -> state of an inbound substream
    inbound_delay,          \* ids with a timer in inbound_substreams_delay
    outbound_substreams,    \* id -> state of an outbound substream
    outbound_delay,         \* ids with a timer in outbound_substreams_delay
    queued_outbound_items,  \* id -> responses waiting for the substream
    current_inbound_id, current_outbound_id,
    keep_alive,
    io_retries,             \* outbound_io_error_retries
    pc, todo, driving,      \* where poll() is: its phase, the substreams that
                            \* the loop has yet to visit, the one it stays on
    closed,                 \* the connection is gone
    requests,               \* protocol of every request issued so far
    outcomes,               \* outcomes reported for each request
    sent,                   \* responses handed to each inbound substream
    responses               \* number of responses given by the behaviour

streamVars  == <<inbound_substreams, inbound_delay, queued_outbound_items,
                 outbound_substreams, outbound_delay, current_inbound_id,
                 current_outbound_id>>
dialVars    == <<dial_queue, dial_negotiated, dialing, io_retries>>
reportVars  == <<pending_errors, events_out>>
pollVars    == <<pc, todo, driving>>
historyVars == <<requests, outcomes, sent, responses>>
vars == <<state, keep_alive, closed, streamVars, dialVars, reportVars, pollVars,
          historyVars>>

-----------------------------------------------------------------------------
(* Requests, responses and substreams                                      *)

HandlerState == {"Active", "ShuttingDown", "Deactivated"}

InboundSubstreamState ==
    {"ResponseIdle", "ResponsePendingSend", "ResponsePendingFlush", "Closing"}

OutboundSubstreamState == {"RequestPendingResponse", "Closing"}

Response == {"Success", "Error"}

expected_responses(proto) == IF proto = "Goodbye" THEN 0 ELSE 1

\* RPCCodedResponse::multiple_responses and is_error: only errors may follow
\* another response on the same substream.
multiple_responses(response) == response = "Error"

is_error(response) == response = "Error"

\* Mutant: an error response leaves the substream open.
closes_stream_NotOnError(response) == ~multiple_responses(response)

\* Does the substream close after this response?
closes_stream(response) == ~multiple_responses(response) \/ is_error(response)

OutErr(r, error) == [dir |-> "Outbound", id |-> r, error |-> error]
InErr(i, error)  == [dir |-> "Inbound", id |-> i, error |-> error]

Without(f, x) == [y \in DOMAIN f \ {x} |-> f[y]]
With(f, x, v) == [y \in DOMAIN f \cup {x} |-> IF y = x THEN v ELSE f[y]]

Idle == pc = "idle" /\ ~closed

\* Mutant: the test names the wrong state.
deactivated_WrongState == state = "ShuttingDown"

deactivated == state = "Deactivated"

\* Mutant: established inbound substreams are not looked at.
updated_keep_alive_NoInbound(queue, dials, inbound, outbound, errors, events) ==
    IF queue = <<>> /\ dials = 0 /\ DOMAIN outbound = {} /\ errors = <<>> /\ events = <<>>
    THEN "Until" ELSE "Yes"

\* update_keep_alive: Yes while anything is dialled, established or waiting
\* to be reported, else Until the inactivity timeout.
updated_keep_alive(queue, dials, inbound, outbound, errors, events) ==
    IF /\ queue = <<>> /\ dials = 0
       /\ DOMAIN inbound = {} /\ DOMAIN outbound = {}
       /\ errors = <<>> /\ events = <<>>
    THEN "Until" ELSE "Yes"

\* update_keep_alive as the last thing of an action.
update_keep_alive ==
    keep_alive' = updated_keep_alive(dial_queue', dial_negotiated', inbound_substreams',
                                     outbound_substreams', pending_errors', events_out')

-----------------------------------------------------------------------------
(* Calls of the behaviour and of the connection                            *)

\* Mutant: the queue is cleared without a word.
rejected_queue_Silent == <<>>

\* What is queued is rejected, last request first.
rejected_queue ==
    [k \in 1..Len(dial_queue) |->
        OutErr(dial_queue[Len(dial_queue) + 1 - k], "HandlerRejected")]

\* RPCHandler::shutdown, through BehaviourHandlerIn::Shutdown: what is queued
\* is rejected and only final_msg may still be dialled.
shutdown(final_msg) ==
    /\ Idle
    /\ IF state = "Active"
       THEN /\ pending_errors' = pending_errors \o rejected_queue
            /\ dial_queue' = final_msg
            /\ state' = "ShuttingDown"
       ELSE UNCHANGED <<pending_errors, dial_queue, state>>
    /\ UNCHANGED <<dial_negotiated, dialing, io_retries, events_out, streamVars,
                   pollVars, closed, outcomes, sent, responses>>
    /\ update_keep_alive

Shutdown ==
    \/ shutdown(<<>>) /\ UNCHANGED requests
    \/ /\ Farewell /\ Len(requests) < MaxRequests
       /\ requests' = Append(requests, "Goodbye")
       /\ shutdown(<<Len(requests) + 1>>)

\* Mutant: the queue takes requests in any state.
enqueue_AnyState(r) ==
    /\ dial_queue' = Append(dial_queue, r)
    /\ UNCHANGED pending_errors
    /\ update_keep_alive

\* What send_request does with request r: to the queue, or rejected at once.
enqueue(r) ==
    IF state = "Active"
    THEN /\ dial_queue' = Append(dial_queue, r)
         /\ UNCHANGED pending_errors
         /\ update_keep_alive
    ELSE /\ pending_errors' = Append(pending_errors, OutErr(r, "HandlerRejected"))
         /\ UNCHANGED <<dial_queue, keep_alive>>

send_request(proto) ==
    /\ Idle /\ Len(requests) < MaxRequests
    /\ requests' = Append(requests, proto)
    /\ UNCHANGED <<dial_negotiated, dialing, io_retries, events_out, streamVars,
                   pollVars, state, closed, outcomes, sent, responses>>
    /\ enqueue(Len(requests) + 1)

\* The behaviour answers a request that was reported to it.  A response to a
\* substream that is gone is dropped.
send_response(i, response) ==
    LET in  == inbound_substreams[i]
        use == in.st \in {"ResponsePendingSend", "ResponsePendingFlush"}
    IN  /\ Idle /\ responses < MaxResponses
        /\ i \in DOMAIN inbound_substreams
        /\ \A k \in 1..Len(events_out) : events_out[k] # i
        /\ responses' = responses + 1
        /\ pending_errors' = IF is_error(response)
                             THEN Append(pending_errors, InErr(i, "ErrorResponse"))
                             ELSE pending_errors
        /\ inbound_substreams' =
              CASE deactivated -> inbound_substreams
                [] ~deactivated /\ in.st = "ResponseIdle" ->
                     [inbound_substreams EXCEPT
                        ![i].st = "ResponsePendingSend",
                        ![i].closing = closes_stream(response)]
                [] ~deactivated /\ use /\ ~multiple_responses(response) ->
                     [inbound_substreams EXCEPT ![i].closing = TRUE]
                [] OTHER -> inbound_substreams
        /\ queued_outbound_items' =
              IF ~deactivated /\ use /\ multiple_responses(response)
              THEN With(queued_outbound_items, i,
                        IF i \in DOMAIN queued_outbound_items
                        THEN Append(queued_outbound_items[i], response) ELSE <<response>>)
              ELSE queued_outbound_items
        /\ UNCHANGED <<inbound_delay, outbound_substreams, outbound_delay,
                       current_inbound_id, current_outbound_id, dialVars, events_out,
                       pollVars, state, keep_alive, closed, requests, outcomes,
                       sent>>

\* A request of the peer has been read.  It is dropped unless the handler is
\* active, and kept on its substream if a response is due.
inject_fully_negotiated_inbound(proto) ==
    /\ Idle /\ current_inbound_id < MaxInbound
    /\ state = "Active"
    /\ IF expected_responses(proto) > 0
       THEN /\ inbound_delay' = inbound_delay \cup {current_inbound_id}
            /\ inbound_substreams' = With(inbound_substreams, current_inbound_id,
                  [st |-> "ResponseIdle", closing |-> FALSE, timer |-> TRUE])
       ELSE UNCHANGED <<inbound_delay, inbound_substreams>>
    /\ events_out' = Append(events_out, current_inbound_id)
    /\ current_inbound_id' = current_inbound_id + 1
    /\ UNCHANGED <<queued_outbound_items, outbound_substreams, outbound_delay,
                   current_outbound_id, dialVars, pending_errors, pollVars, state, closed,
                   historyVars>>
    /\ update_keep_alive

\* Mutant: the slot is not given back.
free_slot_Forgotten == UNCHANGED dial_negotiated

free_slot == dial_negotiated' = dial_negotiated - 1

\* The substream for request r is open and r has been written to it.
inject_fully_negotiated_outbound(r) ==
    /\ Idle /\ r \in dialing
    /\ dialing' = dialing \ {r}
    /\ free_slot
    /\ UNCHANGED <<dial_queue, io_retries, events_out, inbound_substreams, inbound_delay,
                   queued_outbound_items, current_inbound_id, pollVars, state, closed,
                   historyVars>>
    /\ IF deactivated
       THEN /\ pending_errors' = Append(pending_errors, OutErr(r, "HandlerRejected"))
            /\ UNCHANGED <<outbound_substreams, outbound_delay, current_outbound_id,
                           keep_alive>>
       ELSE /\ IF expected_responses(requests[r]) > 0
               THEN /\ outbound_delay' = outbound_delay \cup {current_outbound_id}
                    /\ outbound_substreams' = With(outbound_substreams, current_outbound_id,
                          [st |-> "RequestPendingResponse", req |-> r])
                    /\ current_outbound_id' = current_outbound_id + 1
               ELSE UNCHANGED <<outbound_substreams, outbound_delay, current_outbound_id>>
            /\ UNCHANGED pending_errors
            /\ update_keep_alive

retry(error) == error = "IoError" /\ io_retries + 1 < IO_ERROR_RETRIES

\* Mutant: the counter is not reset when the retries are used up.
retries_after_NoReset(error) == IF error = "IoError" THEN io_retries + 1 ELSE io_retries

retries_after(error) == IF retry(error) THEN io_retries + 1 ELSE 0

\* Opening the substream for request r failed.  An IO error is retried, and
\* the retry keeps the slot of the attempt that failed.
inject_dial_upgrade_error(r, error) ==
    /\ Idle /\ r \in dialing
    /\ dialing' = dialing \ {r}
    /\ UNCHANGED <<events_out, streamVars, pollVars, state, closed, historyVars>>
    /\ io_retries' = retries_after(error)
    /\ IF retry(error)
       THEN UNCHANGED dial_negotiated /\ enqueue(r)
       ELSE /\ free_slot
            /\ keep_alive' = updated_keep_alive(dial_queue, dial_negotiated',
                  inbound_substreams, outbound_substreams, pending_errors, events_out)
            /\ pending_errors' = Append(pending_errors, OutErr(r, error))
            /\ UNCHANGED dial_queue

-----------------------------------------------------------------------------
(* poll()                                                                  *)

\* poll() returns: to the connection with a value, or pending.
return == pc' = "idle" /\ todo' = {} /\ driving' = {}

\* An event of poll() about request r reaches the behaviour.
report(r, outcome) == outcomes' = [outcomes EXCEPT ![r] = Append(@, outcome)]

\* Failures are reported first.
poll_report_error ==
    /\ Idle /\ pending_errors # <<>>
    /\ pending_errors' = Tail(pending_errors)
    /\ LET err == Head(pending_errors)
       IN  IF err.dir = "Outbound" THEN report(err.id, err.error) ELSE UNCHANGED outcomes
    /\ UNCHANGED <<events_out, streamVars, dialVars, pollVars, state, keep_alive, closed,
                   requests, sent, responses>>

poll_report_event ==
    /\ Idle /\ pending_errors = <<>> /\ events_out # <<>>
    /\ events_out' = Tail(events_out)
    /\ UNCHANGED <<pending_errors, streamVars, dialVars, pollVars, state, keep_alive,
                   closed, historyVars>>

\* Nothing to report: the rest of poll() runs, after the check of the timer of
\* a shutdown.
poll_begin(elapsed) ==
    /\ Idle /\ pending_errors = <<>> /\ events_out = <<>>
    /\ pc' = "inbound_delay"
    /\ IF elapsed
       THEN /\ state = "ShuttingDown"
            /\ state' = "Deactivated"
            /\ queued_outbound_items' = <<>>
       ELSE UNCHANGED <<state, queued_outbound_items>>
    /\ UNCHANGED <<todo, driving, inbound_substreams, inbound_delay, outbound_substreams,
                   outbound_delay, current_inbound_id, current_outbound_id, dialVars,
                   reportVars, keep_alive, closed, historyVars>>

\* Mutant: only a busy substream is closed.
close_OnlyBusy(i) ==
    /\ UNCHANGED queued_outbound_items
    /\ inbound_substreams' = [inbound_substreams EXCEPT ![i].timer = FALSE]

\* InboundSubstreamState::close for a substream that has timed out: an error
\* is sent, at once if the substream is idle, else after what it is busy with.
close(i) ==
    LET in    == inbound_substreams[i]
        items == IF i \in DOMAIN queued_outbound_items
                 THEN queued_outbound_items[i] ELSE <<>>
        busy  == in.st \in {"ResponsePendingSend", "ResponsePendingFlush"}
    IN  /\ queued_outbound_items' = With(queued_outbound_items, i,
              IF busy /\ ~in.closing THEN Append(items, "Error") ELSE items)
        /\ inbound_substreams' = [inbound_substreams EXCEPT ![i] =
              IF in.st = "ResponseIdle"
              THEN [st |-> "ResponsePendingSend", closing |-> TRUE, timer |-> FALSE]
              ELSE [in EXCEPT !.timer = FALSE]]

\* The timer of inbound substream i has elapsed.
poll_inbound_timeout(i) ==
    /\ pc = "inbound_delay" /\ ~closed /\ i \in inbound_delay
    /\ inbound_delay' = inbound_delay \ {i}
    /\ IF i \in DOMAIN inbound_substreams
       THEN /\ pending_errors' = Append(pending_errors, InErr(i, "StreamTimeout"))
            /\ close(i)
       ELSE UNCHANGED <<pending_errors, queued_outbound_items, inbound_substreams>>
    /\ UNCHANGED <<outbound_substreams, outbound_delay, current_inbound_id,
                   current_outbound_id, dialVars, events_out, pollVars, state, keep_alive,
                   closed, historyVars>>

\* Mutant: the entry is looked up and left in place.
remove_outbound_Get(o) == UNCHANGED outbound_substreams

remove_outbound(o) == outbound_substreams' = Without(outbound_substreams, o)

\* The timer of outbound substream o has elapsed; poll() returns the error if
\* the substream is "in the books".
poll_outbound_timeout(o) ==
    /\ pc = "outbound_delay" /\ ~closed /\ o \in outbound_delay
    /\ outbound_delay' = outbound_delay \ {o}
    /\ UNCHANGED <<inbound_substreams, inbound_delay, queued_outbound_items,
                   current_inbound_id, current_outbound_id, dialVars, reportVars, state,
                   closed, requests, sent, responses>>
    /\ IF o \in DOMAIN outbound_substreams
       THEN /\ remove_outbound(o)
            /\ report(outbound_substreams[o].req, "StreamTimeout")
            /\ update_keep_alive
            /\ return
       ELSE UNCHANGED <<outbound_substreams, outcomes, keep_alive, pollVars>>

\* A delay queue cannot be read: poll() gives the connection up.
poll_delay_error ==
    /\ pc \in {"inbound_delay", "outbound_delay"} /\ ~closed
    /\ closed' = TRUE
    /\ return
    /\ UNCHANGED <<streamVars, dialVars, reportVars, state, keep_alive, historyVars>>

\* A loop of poll() has nothing left to do: on to the next one.
poll_next_phase ==
    /\ ~closed /\ todo = {}
    /\ \/ pc = "inbound_delay" /\ pc' = "outbound_delay" /\ todo' = {}
       \/ pc = "outbound_delay" /\ pc' = "inbound" /\ todo' = DOMAIN inbound_substreams
       \/ pc = "inbound" /\ pc' = "outbound" /\ todo' = DOMAIN outbound_substreams
       \/ pc = "outbound" /\ pc' = "dial" /\ todo' = {}
    /\ driving' = {}
    /\ UNCHANGED <<streamVars, dialVars, reportVars, state, keep_alive, closed, historyVars>>

-----------------------------------------------------------------------------
(* poll(): the inbound substreams                                          *)

\* drive_stream_further: the loop stays on substream i, or is done with it.
further(i) == driving' = {i} /\ UNCHANGED <<pc, todo>>
done(i)    == driving' = {} /\ todo' = todo \ {i} /\ UNCHANGED pc

Driving(i, st) ==
    /\ pc = "inbound" /\ ~closed /\ i \in todo /\ driving \subseteq {i}
    /\ inbound_substreams[i].st = st
    /\ UNCHANGED <<outbound_substreams, outbound_delay, current_inbound_id,
                   current_outbound_id, dialVars, events_out, state, requests, outcomes,
                   responses>>

GoTo(i, st) == inbound_substreams' = [inbound_substreams EXCEPT ![i].st = st]

\* apply_queued_responses: the next queued response is sent, or the substream
\* is idle.
apply_queued_responses(i) ==
    IF i \in DOMAIN queued_outbound_items /\ queued_outbound_items[i] # <<>>
    THEN /\ inbound_substreams' = [inbound_substreams EXCEPT
              ![i].st = "ResponsePendingSend", ![i].closing = FALSE]
         /\ queued_outbound_items' = [queued_outbound_items EXCEPT ![i] = Tail(@)]
         /\ further(i)
    ELSE /\ GoTo(i, "ResponseIdle")
         /\ UNCHANGED queued_outbound_items
         /\ done(i)

\* Mutant: what is queued for the substream stays.
drop_inbound_KeepsQueue(i) ==
    /\ inbound_delay' = IF inbound_substreams[i].timer
                        THEN inbound_delay \ {i} ELSE inbound_delay
    /\ UNCHANGED queued_outbound_items
    /\ inbound_substreams' = Without(inbound_substreams, i)
    /\ done(i)

\* The substream is dropped with its timer and its queue.
drop_inbound(i) ==
    /\ inbound_delay' = IF inbound_substreams[i].timer
                        THEN inbound_delay \ {i} ELSE inbound_delay
    /\ queued_outbound_items' = Without(queued_outbound_items, i)
    /\ inbound_substreams' = Without(inbound_substreams, i)
    /\ done(i)

\* A deactivated handler tells the behaviour of a response it cuts short.
cancel(i) ==
    pending_errors' = IF inbound_substreams[i].closing THEN pending_errors
                      ELSE Append(pending_errors, InErr(i, "HandlerRejected"))

drive_pending_send(i) ==
    /\ Driving(i, "ResponsePendingSend")
    /\ \/ /\ deactivated
          /\ cancel(i) /\ GoTo(i, "Closing") /\ further(i)
          /\ UNCHANGED <<queued_outbound_items, inbound_delay, keep_alive, closed, sent>>
       \/ /\ ~deactivated                                \* written to the substream
          /\ GoTo(i, "ResponsePendingFlush") /\ further(i)
          /\ sent' = [sent EXCEPT ![i] = @ + 1]
          /\ UNCHANGED <<queued_outbound_items, inbound_delay, pending_errors, keep_alive,
                         closed>>
       \/ /\ ~deactivated                                \* the codec refuses it
          /\ IF inbound_substreams[i].closing
             THEN GoTo(i, "Closing") /\ further(i) /\ UNCHANGED queued_outbound_items
             ELSE apply_queued_responses(i)
          /\ UNCHANGED <<inbound_delay, pending_errors, keep_alive, closed, sent>>
       \/ /\ ~deactivated                                \* the substream is broken
          /\ inbound_substreams' = Without(inbound_substreams, i)
          /\ closed' = TRUE /\ return
          /\ UNCHANGED <<queued_outbound_items, inbound_delay, pending_errors,
                         events_out, dial_queue, dial_negotiated, outbound_substreams, sent>>
          /\ update_keep_alive
       \/ /\ ~deactivated                                \* not ready
          /\ done(i)
          /\ UNCHANGED <<inbound_substreams, queued_outbound_items, inbound_delay,
                         pending_errors, keep_alive, closed, sent>>

drive_pending_flush(i) ==
    /\ Driving(i, "ResponsePendingFlush")
    /\ UNCHANGED <<closed, sent>>
    /\ \/ /\ IF inbound_substreams[i].closing \/ deactivated  \* flushed
             THEN /\ cancel(i) /\ GoTo(i, "Closing") /\ further(i)
                  /\ UNCHANGED queued_outbound_items
             ELSE apply_queued_responses(i) /\ UNCHANGED pending_errors
          /\ UNCHANGED <<inbound_delay, keep_alive>>
       \/ /\ drop_inbound(i)                              \* the flush failed
          /\ UNCHANGED <<pending_errors, events_out, dial_queue, dial_negotiated,
                         outbound_substreams>>
          /\ update_keep_alive
       \/ /\ done(i)                                      \* not flushed yet
          /\ UNCHANGED <<inbound_substreams, queued_outbound_items, inbound_delay,
                         pending_errors, keep_alive>>

drive_idle(i) ==
    /\ Driving(i, "ResponseIdle")
    /\ IF deactivated
       THEN GoTo(i, "Closing") /\ further(i) /\ UNCHANGED queued_outbound_items
       ELSE apply_queued_responses(i)
    /\ UNCHANGED <<inbound_delay, pending_errors, keep_alive, closed, sent>>

drive_closing(i) ==
    /\ Driving(i, "Closing")
    /\ UNCHANGED <<pending_errors, closed, sent>>
    /\ \/ /\ drop_inbound(i)                              \* closed, or failed to
          /\ UNCHANGED <<events_out, dial_queue, dial_negotiated, outbound_substreams>>
          /\ update_keep_alive
       \/ /\ done(i)                                      \* not closed yet
          /\ UNCHANGED <<inbound_substreams, queued_outbound_items, inbound_delay, keep_alive>>

poll_inbound(i) ==
    drive_pending_send(i) \/ drive_pending_flush(i) \/ drive_idle(i) \/ drive_closing(i)

-----------------------------------------------------------------------------
(* poll(): the outbound substreams                                         *)

Visiting(o, st) ==
    /\ pc = "outbound" /\ ~closed /\ o \in todo
    /\ outbound_substreams[o].st = st
    /\ UNCHANGED <<inbound_substreams, inbound_delay, queued_outbound_items,
                   current_inbound_id, current_outbound_id, dialVars, events_out, state,
                   closed, requests, sent, responses>>

\* Mutant: the timer is left running.
drop_outbound_KeepsTimer(o) == remove_outbound(o) /\ UNCHANGED outbound_delay

drop_outbound(o) ==
    /\ outbound_delay' = outbound_delay \ {o}
    /\ remove_outbound(o)

\* The handler is deactivated: the request is rejected and the substream left
\* to close.
outbound_deactivated(o) ==
    /\ Visiting(o, "RequestPendingResponse") /\ deactivated
    /\ outbound_substreams' = [outbound_substreams EXCEPT ![o].st = "Closing"]
    /\ pending_errors' = Append(pending_errors,
                                OutErr(outbound_substreams[o].req, "HandlerRejected"))
    /\ done(o)
    /\ UNCHANGED <<outbound_delay, keep_alive, outcomes>>

\* A response, or an error, of the peer arrives: it is returned, and the
\* substream is left to close.
outbound_response(o, response) ==
    /\ Visiting(o, "RequestPendingResponse") /\ ~deactivated
    /\ outbound_substreams' = [outbound_substreams EXCEPT ![o].st = "Closing"]
    /\ report(outbound_substreams[o].req,
              IF is_error(response) THEN "ErrorResponse" ELSE "Response")
    /\ return
    /\ UNCHANGED <<outbound_delay, pending_errors, keep_alive>>

\* The peer closed the substream early, or it broke.
outbound_failed(o, error) ==
    /\ Visiting(o, "RequestPendingResponse") /\ ~deactivated
    /\ drop_outbound(o)
    /\ report(outbound_substreams[o].req, error)
    /\ return
    /\ UNCHANGED <<pending_errors, dial_queue, dial_negotiated, inbound_substreams, events_out>>
    /\ update_keep_alive

outbound_pending(o) ==
    /\ \/ Visiting(o, "RequestPendingResponse") /\ ~deactivated
       \/ Visiting(o, "Closing")
    /\ done(o)
    /\ UNCHANGED <<outbound_substreams, outbound_delay, pending_errors, keep_alive, outcomes>>

outbound_closed(o) ==
    /\ Visiting(o, "Closing")
    /\ drop_outbound(o)
    /\ done(o)
    /\ UNCHANGED <<pending_errors, dial_queue, dial_negotiated, inbound_substreams, events_out,
                   outcomes>>
    /\ update_keep_alive

poll_outbound(o) ==
    \/ outbound_deactivated(o)
    \/ \E response \in Response : outbound_response(o, response)
    \/ \E error \in {"IncompleteStream", "StreamError"} : outbound_failed(o, error)
    \/ outbound_pending(o)
    \/ outbound_closed(o)

\* Mutant: one substream too many.
may_dial_OneMore == dial_queue # <<>> /\ dial_negotiated <= max_dial_negotiated

may_dial == dial_queue # <<>> /\ dial_negotiated < max_dial_negotiated

\* The last thing of poll(): a substream is requested for the first request in
\* the queue, unless too many are being opened.
poll_dial ==
    /\ pc = "dial" /\ ~closed
    /\ return
    /\ UNCHANGED <<io_retries, reportVars, streamVars, state, closed, requests, outcomes, sent,
                   responses>>
    /\ IF may_dial
       THEN /\ dial_negotiated' = dial_negotiated + 1
            /\ dial_queue' = Tail(dial_queue)
            /\ dialing' = dialing \cup {Head(dial_queue)}
            /\ update_keep_alive
       ELSE UNCHANGED <<dial_queue, dial_negotiated, dialing, keep_alive>>

-----------------------------------------------------------------------------
(* The connection                                                          *)

\* The peer closes the connection or it breaks; or the swarm closes it because
\* BehaviourHandler::connection_keep_alive lets it, which takes a shutdown.
connection_closed ==
    /\ Idle
    /\ closed' = TRUE
    /\ UNCHANGED <<state, keep_alive, streamVars, dialVars, reportVars, pollVars, historyVars>>

Init ==
    /\ state = "Active" /\ keep_alive = "Yes" /\ closed = FALSE
    /\ pending_errors = <<>> /\ events_out = <<>>
    /\ dial_queue = <<>> /\ dial_negotiated = 0 /\ dialing = {} /\ io_retries = 0
    /\ inbound_substreams = <<>> /\ inbound_delay = {} /\ queued_outbound_items = <<>>
    /\ outbound_substreams = <<>> /\ outbound_delay = {}
    /\ current_inbound_id = 0 /\ current_outbound_id = 0
    /\ pc = "idle" /\ todo = {} /\ driving = {}
    /\ requests = <<>> /\ responses = 0
    /\ outcomes = [r \in 1..MaxRequests |-> <<>>]
    /\ sent = [i \in 0..(MaxInbound - 1) |-> 0]

DialOutcome ==
    \E r \in dialing : \/ inject_fully_negotiated_outbound(r)
                       \/ \E error \in DialError : inject_dial_upgrade_error(r, error)

Poll ==
    \/ poll_report_error \/ poll_report_event
    \/ \E elapsed \in BOOLEAN : poll_begin(elapsed)
    \/ \E i \in inbound_delay : poll_inbound_timeout(i)
    \/ \E o \in outbound_delay : poll_outbound_timeout(o)
    \/ poll_delay_error
    \/ poll_next_phase
    \/ \E i \in todo : poll_inbound(i) \/ poll_outbound(i)
    \/ poll_dial

Next ==
    \/ Shutdown
    \/ \E proto \in OutProtocol : send_request(proto)
    \/ \E i \in DOMAIN inbound_substreams, response \in Response : send_response(i, response)
    \/ \E proto \in InProtocol : inject_fully_negotiated_inbound(proto)
    \/ DialOutcome
    \/ Poll
    \/ connection_closed

Spec == Init /\ [][Next]_vars

\* The connection task polls the handler again and again (the identify handler
\* of the same connection wakes it at intervals), the timers of substreams, that
\* poll() waits on, elapse, and the swarm answers every request for a substream
\* within its upgrade timeout.  Nothing is assumed of the peer, nor of the timer
\* of a shutdown, that nobody waits on.
Fairness ==
    /\ WF_vars(Poll)
    /\ SF_vars(DialOutcome)
    /\ \A i \in 0..(MaxInbound - 1) : SF_vars(poll_inbound_timeout(i))
    /\ \A o \in 0..(MaxRequests - 1) : SF_vars(poll_outbound_timeout(o))

FairSpec == Spec /\ Fairness

-----------------------------------------------------------------------------
(* Properties                                                              *)

Request == 1..MaxRequests

OutcomeKind == {"Response", "ErrorResponse", "StreamTimeout", "IncompleteStream",
                "StreamError", "HandlerRejected"} \cup DialError

\* Type invariant: the queues and maps of the handler hold requests that were
\* made and substreams that were opened, and its retry counter stays below
\* IO_ERROR_RETRIES.
HandlerTypeOK ==
    /\ state \in HandlerState /\ keep_alive \in {"Yes", "Until"} /\ closed \in BOOLEAN
    /\ \A k \in 1..Len(pending_errors) :
          pending_errors[k].dir \in {"Inbound", "Outbound"}
    /\ \A k \in 1..Len(dial_queue) : dial_queue[k] \in 1..Len(requests)
    /\ dial_negotiated \in Nat
    /\ dialing \subseteq 1..Len(requests)
    /\ io_retries \in 0..IO_ERROR_RETRIES - 1
    /\ \A i \in DOMAIN inbound_substreams :
          /\ i < current_inbound_id
          /\ inbound_substreams[i].st \in InboundSubstreamState
    /\ \A o \in DOMAIN outbound_substreams :
          /\ o < current_outbound_id
          /\ outbound_substreams[o].st \in OutboundSubstreamState
          /\ outbound_substreams[o].req \in 1..Len(requests)
    /\ \A r \in Request : \A k \in DOMAIN outcomes[r] : outcomes[r][k] \in OutcomeKind

\* Where a request is while its outcome is not known.
Outstanding(r) ==
    \/ \E k \in 1..Len(dial_queue) : dial_queue[k] = r
    \/ r \in dialing
    \/ \E o \in DOMAIN outbound_substreams :
          outbound_substreams[o] = [st |-> "RequestPendingResponse", req |-> r]
    \/ \E k \in 1..Len(pending_errors) :
          pending_errors[k].dir = "Outbound" /\ pending_errors[k].id = r

\* No path through the handler loses a request: while the connection lives,
\* every request that expects a response is waiting to be dialled, being
\* dialled, waiting for its response, about to be reported, or reported.  The
\* retries, rejections and shut downs of send_request, shutdown,
\* inject_dial_upgrade_error and poll all hand it on.
NoRequestLost ==
    \A r \in 1..Len(requests) :
        closed \/ requests[r] = "Goodbye" \/ Outstanding(r) \/ outcomes[r] # <<>>

\* A request is in one place only, and one that has an outcome is in none: no
\* retry, rejection or late response can give it a second one.
OnePlace ==
    \A r \in 1..Len(requests) :
        /\ Cardinality({k \in 1..Len(dial_queue) : dial_queue[k] = r})
           + (IF r \in dialing THEN 1 ELSE 0)
           + Cardinality({o \in DOMAIN outbound_substreams : outbound_substreams[o] =
                                [st |-> "RequestPendingResponse", req |-> r]})
           + Cardinality({k \in 1..Len(pending_errors) :
                             pending_errors[k].dir = "Outbound" /\ pending_errors[k].id = r})
           <= 1
        /\ outcomes[r] # <<>> => ~Outstanding(r)

\* outbound_substreams and outbound_substreams_delay name the same substreams
\* at every moment, so the "timed out substream not in the books" of poll is
\* never logged and no substream waits without a timer.
OutboundBooks == outbound_delay = DOMAIN outbound_substreams

\* The timers of inbound substreams belong to substreams that hold their key,
\* and the queues of responses to substreams that exist.
InboundBooks ==
    ~closed =>
        /\ inbound_delay = {i \in DOMAIN inbound_substreams : inbound_substreams[i].timer}
        /\ DOMAIN queued_outbound_items \subseteq DOMAIN inbound_substreams

\* The handler may believe that it opens more substreams than it does, never
\* fewer: dial_negotiated does not underflow and the swarm is never asked for
\* more than max_dial_negotiated substreams at a time.
DialsAccounted ==
    /\ Cardinality(dialing) <= dial_negotiated
    /\ dial_negotiated <= max_dial_negotiated

\* The connection is not given up for inactivity while a request is queued or
\* being dialled or a substream is established.
KeepAliveSafe ==
    keep_alive = "Until" =>
        /\ dial_queue = <<>> /\ dialing = {}
        /\ DOMAIN inbound_substreams = {} /\ DOMAIN outbound_substreams = {}

\* The peer gets at most one response per request, whatever the behaviour and
\* the timers do meanwhile: a response in transit marks the substream closing.
RespondsAtMostOnce ==
    /\ \A i \in DOMAIN sent : sent[i] <= 1
    /\ \A i \in DOMAIN inbound_substreams :
          inbound_substreams[i].st \in {"ResponsePendingSend", "ResponsePendingFlush"} =>
              inbound_substreams[i].closing

\* "The handler is deactivated [...] no more messages are sent or received"
\* (HandlerState): no response of ours leaves and none of the peer is reported.
Responses(r) == {k \in DOMAIN outcomes[r] : outcomes[r][k] \in {"Response", "ErrorResponse"}}
DeactivatedSilent ==
    [][state = "Deactivated" =>
          /\ sent' = sent
          /\ \A r \in Request : Responses(r)' = Responses(r)]_vars

\* "While in this state the handler rejects new requests" (HandlerState): once
\* shut down, only the farewell is still dialled, retries included.
OnlyFarewellDialled ==
    [][state # "Active" =>
          \A r \in dialing' \ dialing : requests[r] = "Goodbye"]_vars

\* Every request that expects a response has an outcome in the end, whether
\* the peer answers or not, unless the connection closes first.
RequestsAnswered ==
    \A r \in Request :
        (r <= Len(requests) /\ requests[r] # "Goodbye") ~> (outcomes[r] # <<>> \/ closed)

\* An inbound substream does not wait for the behaviour forever: the request
\* is answered or its timer moves it on.
IdleEnds ==
    \A i \in 0..(MaxInbound - 1) :
        (i \in DOMAIN inbound_substreams /\ inbound_substreams[i].st = "ResponseIdle") ~>
            (closed \/ i \notin DOMAIN inbound_substreams
                    \/ inbound_substreams[i].st # "ResponseIdle")

=============================================================================
