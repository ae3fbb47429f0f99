------------------------- MODULE RPCHandler_proofs -------------------------
(***************************************************************************)
(* The connection handler, for any limits, protocols and numbers of        *)
(* requests: types and books, where a request is, responses to the peer,   *)
(* the dials of the swarm, keep-alive and what a shutdown lets through.    *)
(***************************************************************************)
EXTENDS RPCHandler, TLAPS, FiniteSetTheorems, SequenceTheorems

\* Errors that poll() is to report, about our requests and about the peer's.
OutErrorKind == {"HandlerRejected"} \cup DialError
InErrorKind  == {"HandlerRejected", "ErrorResponse", "StreamTimeout"}

PendingError ==
    [dir : {"Outbound"}, id : Request, error : OutErrorKind]
    \cup [dir : {"Inbound"}, id : Nat, error : InErrorKind]

InboundSubstream == [st : InboundSubstreamState, closing : BOOLEAN, timer : BOOLEAN]
OutboundSubstream == [st : OutboundSubstreamState, req : Request]

InboundId == 0..(MaxInbound - 1)

\* Types, and the substreams that the loops of poll() have yet to visit exist.
Types ==
    /\ state \in HandlerState /\ keep_alive \in {"Yes", "Until"} /\ closed \in BOOLEAN
    /\ pending_errors \in Seq(PendingError) /\ events_out \in Seq(Nat)
    /\ dial_queue \in Seq(Request) /\ dialing \subseteq Request
    /\ dial_negotiated \in Int /\ io_retries \in 0..IO_ERROR_RETRIES - 1
    /\ current_inbound_id \in 0..MaxInbound /\ current_outbound_id \in Nat
    /\ inbound_substreams \in [DOMAIN inbound_substreams -> InboundSubstream]
    /\ DOMAIN inbound_substreams \subseteq 0..current_inbound_id - 1
    /\ outbound_substreams \in [DOMAIN outbound_substreams -> OutboundSubstream]
    /\ DOMAIN outbound_substreams \subseteq 0..current_outbound_id - 1
    /\ queued_outbound_items \in [DOMAIN queued_outbound_items -> Seq(Response)]
    /\ pc \in {"idle", "inbound_delay", "outbound_delay", "inbound", "outbound", "dial"}
    /\ pc = "inbound" => todo \subseteq DOMAIN inbound_substreams
    /\ pc = "outbound" => todo \subseteq DOMAIN outbound_substreams
    /\ requests \in Seq(Protocol) /\ Len(requests) <= MaxRequests
    /\ outcomes \in [Request -> Seq(OutcomeKind)]
    /\ sent \in [InboundId -> Nat]

-----------------------------------------------------------------------------
(* Inbound                                                                 *)

\* A substream that is busy closes afterwards, so an idle one has nothing
\* queued, and nothing has been written to a substream that is idle or about to
\* be written to for the first time.
InboundInv ==
    /\ InboundBooks
    /\ RespondsAtMostOnce
    /\ \A i \in DOMAIN inbound_substreams :
          /\ inbound_substreams[i].st = "ResponseIdle" /\ i \in DOMAIN queued_outbound_items
                => queued_outbound_items[i] = <<>>
          /\ inbound_substreams[i].st \in {"ResponseIdle", "ResponsePendingSend"}
                => sent[i] = 0
    /\ \A i \in InboundId : i >= current_inbound_id => sent[i] = 0

-----------------------------------------------------------------------------
(* Outbound                                                                *)

Elems(s)    == {s[k] : k \in 1..Len(s)}
Distinct(s) == \A j, k \in 1..Len(s) : s[j] = s[k] => j = k

IsOut(e) == e.dir = "Outbound"

\* The requests in a queue of errors, and that each is there once.
FailedIds(s)      == {s[k].id : k \in {j \in 1..Len(s) : IsOut(s[j])}}
DistinctFailed(s) ==
    \A j, k \in 1..Len(s) : IsOut(s[j]) /\ IsOut(s[k]) /\ s[j].id = s[k].id => j = k

Queued     == Elems(dial_queue)
Failing    == FailedIds(pending_errors)
Open       == {outbound_substreams[o].req : o \in DOMAIN outbound_substreams}
AwaitingOn == {o \in DOMAIN outbound_substreams :
                  outbound_substreams[o].st = "RequestPendingResponse"}
Awaiting   == {outbound_substreams[o].req : o \in AwaitingOn}
Reported   == {r \in Request : outcomes[r] # <<>>}
Issued     == 1..Len(requests)

\* Each queue has a request once, and each request one substream.
OneStream ==
    \A o, q \in DOMAIN outbound_substreams :
        outbound_substreams[o].req = outbound_substreams[q].req => o = q
Once == Distinct(dial_queue) /\ DistinctFailed(pending_errors) /\ OneStream

\* A request is in one place at a time, and in none once it is reported; only
\* a substream that is closing may be left over.
Apart ==
    /\ Queued \cap dialing = {} /\ (Queued \cup dialing) \cap (Failing \cup Open) = {}
    /\ Failing \cap Awaiting = {}
    /\ (Queued \cup dialing \cup Failing \cup Awaiting) \cap Reported = {}

\* What is anywhere has been issued.
OnlyIssued == Queued \cup dialing \cup Failing \cup Open \cup Reported \subseteq Issued

\* poll() gets to its timers only when no error is left to report.
QuietAtTimers == pc \in {"inbound_delay", "outbound_delay", "inbound"} => Failing = {}

NotLost ==
    closed \/ \A r \in Issued :
        requests[r] = "Goodbye" \/ r \in Queued \cup dialing \cup Awaiting \cup Failing \cup Reported

\* After a shutdown only a Goodbye is left in the queue.
FarewellOnly == state # "Active" => \A r \in Queued : requests[r] = "Goodbye"

OutboundInv ==
    OutboundBooks /\ Once /\ Apart /\ OnlyIssued /\ QuietAtTimers /\ NotLost /\ FarewellOnly

HandlerInv == Types /\ DialsAccounted /\ KeepAliveSafe /\ InboundInv /\ OutboundInv

-----------------------------------------------------------------------------
(* Maps, queues and the steps of the handler                               *)

\* With adds or replaces one entry of a map.
LEMMA WithMap ==
    ASSUME NEW S, NEW f, f \in [DOMAIN f -> S], NEW x, NEW v \in S
    PROVE  /\ DOMAIN With(f, x, v) = DOMAIN f \cup {x}
           /\ With(f, x, v) \in [DOMAIN f \cup {x} -> S]
           /\ With(f, x, v)[x] = v
           /\ \A y \in DOMAIN f \ {x} : With(f, x, v)[y] = f[y]
BY DEF With

\* Without removes one.
LEMMA WithoutMap ==
    ASSUME NEW S, NEW f, f \in [DOMAIN f -> S], NEW x
    PROVE  /\ DOMAIN Without(f, x) = DOMAIN f \ {x}
           /\ Without(f, x) \in [DOMAIN f \ {x} -> S]
           /\ \A y \in DOMAIN f \ {x} : Without(f, x)[y] = f[y]
BY DEF Without

\* Replacing an entry keeps the domain.
LEMMA ReplaceMap ==
    ASSUME NEW S, NEW f, f \in [DOMAIN f -> S], NEW x \in DOMAIN f, NEW v \in S
    PROVE  /\ DOMAIN [f EXCEPT ![x] = v] = DOMAIN f
           /\ [f EXCEPT ![x] = v] \in [DOMAIN f -> S]
           /\ [f EXCEPT ![x] = v][x] = v
           /\ \A y \in DOMAIN f \ {x} : [f EXCEPT ![x] = v][y] = f[y]
OBVIOUS

\* The queue of dials gains a request at its end and loses its first.
LEMMA QueueAppend ==
    ASSUME NEW s \in Seq(Request), NEW e \in Request
    PROVE  /\ Append(s, e) \in Seq(Request)
           /\ Elems(Append(s, e)) = Elems(s) \cup {e}
           /\ Distinct(s) /\ e \notin Elems(s) => Distinct(Append(s, e))
<1> DEFINE t == Append(s, e)
<1>1. /\ t \in Seq(Request) /\ Len(t) = Len(s) + 1 /\ Len(s) \in Nat
      /\ t[Len(s) + 1] = e /\ \A k \in 1..Len(s) : t[k] = s[k]
  OBVIOUS
<1> HIDE DEF t
<1>2. 1..Len(t) = 1..Len(s) \cup {Len(s) + 1}
  BY <1>1
<1>3. Elems(t) = Elems(s) \cup {e}
  BY <1>1, <1>2 DEF Elems
<1>4. Distinct(s) /\ e \notin Elems(s) => Distinct(t)
  BY <1>1, <1>2 DEF Elems, Distinct
<1> QED
  BY <1>1, <1>3, <1>4 DEF t

LEMMA QueueTail ==
    ASSUME NEW s \in Seq(Request), s # <<>>
    PROVE  /\ Tail(s) \in Seq(Request) /\ Head(s) \in Request /\ Head(s) \in Elems(s)
           /\ Distinct(s) => Elems(Tail(s)) = Elems(s) \ {Head(s)} /\ Distinct(Tail(s))
<1> DEFINE t == Tail(s)
<1>1. /\ t \in Seq(Request) /\ Len(t) = Len(s) - 1 /\ Len(s) \in Nat \ {0}
      /\ Head(s) = s[1] /\ \A k \in 1..Len(t) : t[k] = s[k + 1]
  OBVIOUS
<1> HIDE DEF t
<1>2. s[1] \in Request /\ s[1] \in Elems(s)
  BY <1>1 DEF Elems
<1>3. ASSUME Distinct(s) PROVE Elems(t) = Elems(s) \ {s[1]} /\ Distinct(t)
  <2>1. Distinct(t)
    BY <1>1, <1>3 DEF Distinct
  <2>2. ASSUME NEW x \in Elems(t) PROVE x \in Elems(s) \ {s[1]}
    BY <1>1, <1>3, <2>2 DEF Elems, Distinct
  <2>3. ASSUME NEW x \in Elems(s) \ {s[1]} PROVE x \in Elems(t)
    <3>1. PICK k \in 1..Len(s) : x = s[k]
      BY <2>3 DEF Elems
    <3>2. k # 1 /\ k - 1 \in 1..Len(t) /\ t[k - 1] = s[k]
      BY <1>1, <2>3, <3>1
    <3> QED
      BY <3>1, <3>2 DEF Elems
  <2> QED
    BY <2>1, <2>2, <2>3
<1> QED
  BY <1>1, <1>2, <1>3 DEF t

\* The errors to report gain one at their end, lose the first, and take over
\* the queue of dials of a shutdown.
LEMMA ErrorsAppend ==
    ASSUME NEW s \in Seq(PendingError), NEW e \in PendingError
    PROVE  /\ Append(s, e) \in Seq(PendingError)
           /\ IsOut(e) => FailedIds(Append(s, e)) = FailedIds(s) \cup {e.id}
           /\ ~IsOut(e) => FailedIds(Append(s, e)) = FailedIds(s)
           /\ DistinctFailed(s) /\ (IsOut(e) => e.id \notin FailedIds(s)) =>
                 DistinctFailed(Append(s, e))
<1> DEFINE t == Append(s, e)
<1>1. /\ t \in Seq(PendingError) /\ Len(t) = Len(s) + 1 /\ Len(s) \in Nat
      /\ t[Len(s) + 1] = e /\ \A k \in 1..Len(s) : t[k] = s[k]
  OBVIOUS
<1> HIDE DEF t
<1>2. 1..Len(t) = 1..Len(s) \cup {Len(s) + 1}
  BY <1>1
<1>3. IsOut(e) => FailedIds(t) = FailedIds(s) \cup {e.id}
  BY <1>1, <1>2 DEF FailedIds
<1>4. ~IsOut(e) => FailedIds(t) = FailedIds(s)
  BY <1>1, <1>2 DEF FailedIds
<1>5. DistinctFailed(s) /\ (IsOut(e) => e.id \notin FailedIds(s)) => DistinctFailed(t)
  BY <1>1, <1>2 DEF FailedIds, DistinctFailed
<1> QED
  BY <1>1, <1>3, <1>4, <1>5 DEF t

LEMMA ErrorsTail ==
    ASSUME NEW s \in Seq(PendingError), s # <<>>
    PROVE  /\ Tail(s) \in Seq(PendingError) /\ Head(s) \in PendingError
           /\ IsOut(Head(s)) => Head(s).id \in FailedIds(s)
           /\ DistinctFailed(s) =>
                 /\ DistinctFailed(Tail(s))
                 /\ FailedIds(Tail(s)) =
                       IF IsOut(Head(s)) THEN FailedIds(s) \ {Head(s).id} ELSE FailedIds(s)
<1> DEFINE t == Tail(s)
<1>1. /\ t \in Seq(PendingError) /\ Len(t) = Len(s) - 1 /\ Len(s) \in Nat \ {0}
      /\ Head(s) = s[1] /\ \A k \in 1..Len(t) : t[k] = s[k + 1]
  OBVIOUS
<1> HIDE DEF t
<1>2. s[1] \in PendingError /\ (IsOut(s[1]) => s[1].id \in FailedIds(s))
  BY <1>1 DEF FailedIds
<1>3. ASSUME DistinctFailed(s)
      PROVE  /\ DistinctFailed(t)
             /\ FailedIds(t) = IF IsOut(s[1]) THEN FailedIds(s) \ {s[1].id} ELSE FailedIds(s)
  <2>1. DistinctFailed(t)
    BY <1>1, <1>3 DEF DistinctFailed
  <2>2. ASSUME NEW x \in FailedIds(t)
        PROVE  x \in FailedIds(s) /\ (IsOut(s[1]) => x # s[1].id)
    BY <1>1, <1>3, <2>2 DEF FailedIds, DistinctFailed
  <2>3. ASSUME NEW x \in FailedIds(s), IsOut(s[1]) => x # s[1].id PROVE x \in FailedIds(t)
    <3>1. PICK k \in 1..Len(s) : IsOut(s[k]) /\ x = s[k].id
      BY <2>3 DEF FailedIds
    <3>2. k # 1 /\ k - 1 \in 1..Len(t) /\ t[k - 1] = s[k]
      BY <1>1, <2>3, <3>1
    <3> QED
      BY <3>1, <3>2 DEF FailedIds
  <2> QED
    BY <2>1, <2>2, <2>3
<1> QED
  BY <1>1, <1>2, <1>3 DEF t

LEMMA ErrorsReject ==
    ASSUME pending_errors \in Seq(PendingError), dial_queue \in Seq(Request)
    PROVE  /\ pending_errors \o rejected_queue \in Seq(PendingError)
           /\ FailedIds(pending_errors \o rejected_queue) = Failing \cup Queued
           /\ DistinctFailed(pending_errors) /\ Distinct(dial_queue) /\ Failing \cap Queued = {}
                 => DistinctFailed(pending_errors \o rejected_queue)
<1> DEFINE s == pending_errors
           q == dial_queue
           w == rejected_queue
           t == s \o w
           m == Len(s)
           n == Len(q)
<1>1. /\ m \in Nat /\ n \in Nat /\ w \in Seq(PendingError) /\ Len(w) = n
      /\ \A k \in 1..n : w[k] = OutErr(q[n + 1 - k], "HandlerRejected")
  <2>1. \A k \in 1..n : q[n + 1 - k] \in Request
    OBVIOUS
  <2>2. \A k \in 1..n : OutErr(q[n + 1 - k], "HandlerRejected") \in PendingError
    BY <2>1 DEF OutErr, PendingError, OutErrorKind
  <2> QED
    BY <2>2 DEF rejected_queue
<1>2. /\ t \in Seq(PendingError) /\ Len(t) = m + n
      /\ \A k \in 1..m : t[k] = s[k]
      /\ \A k \in m + 1..m + n : t[k] = w[k - m]
  BY <1>1
<1>3. \A k \in m + 1..m + n :
         /\ IsOut(t[k]) /\ t[k].id = q[n + 1 - (k - m)]
         /\ n + 1 - (k - m) \in 1..n
  <2> HIDE DEF t, w, m, n
  <2> TAKE k \in m + 1..m + n
  <2>1. k - m \in 1..n /\ n + 1 - (k - m) \in 1..n
    BY <1>1
  <2>2. t[k] = OutErr(q[n + 1 - (k - m)], "HandlerRejected")
    BY <1>1, <1>2, <2>1
  <2> QED
    BY <2>1, <2>2 DEF OutErr, IsOut
<1> HIDE DEF t, w, m, n
<1>4. 1..Len(t) = 1..m \cup m + 1..m + n
  BY <1>1, <1>2
<1>5. FailedIds(t) = FailedIds(s) \cup Elems(q)
  <2>1. ASSUME NEW x \in FailedIds(t) PROVE x \in FailedIds(s) \cup Elems(q)
    <3>1. PICK k \in 1..Len(t) : IsOut(t[k]) /\ x = t[k].id
      BY <2>1 DEF FailedIds
    <3>2. CASE k \in 1..m
      BY <1>2, <3>1, <3>2 DEF FailedIds, m
    <3>3. CASE k \in m + 1..m + n
      BY <1>3, <3>1, <3>3 DEF Elems, n
    <3> QED
      BY <1>4, <3>2, <3>3
  <2>2. ASSUME NEW x \in FailedIds(s) PROVE x \in FailedIds(t)
    BY <1>2, <1>4, <2>2 DEF FailedIds, m
  <2>3. ASSUME NEW x \in Elems(q) PROVE x \in FailedIds(t)
    <3>1. PICK j \in 1..n : x = q[j]
      BY <2>3 DEF Elems, n
    <3> DEFINE k == m + n + 1 - j
    <3>2. k \in m + 1..m + n /\ n + 1 - (k - m) = j
      BY <1>1
    <3> HIDE DEF k
    <3>3. IsOut(t[k]) /\ t[k].id = x /\ k \in 1..Len(t)
      BY <1>3, <1>4, <3>1, <3>2
    <3> QED
      BY <3>3 DEF FailedIds
  <2> QED
    BY <2>1, <2>2, <2>3
<1>6. ASSUME DistinctFailed(s), Distinct(q), FailedIds(s) \cap Elems(q) = {}
      PROVE  DistinctFailed(t)
  <2> SUFFICES ASSUME NEW j \in 1..Len(t), NEW k \in 1..Len(t),
                      IsOut(t[j]), IsOut(t[k]), t[j].id = t[k].id
               PROVE  j = k
    BY DEF DistinctFailed
  <2>1. \A i \in 1..m : IsOut(t[i]) => t[i].id \in FailedIds(s)
    BY <1>2 DEF FailedIds, m
  <2>2. \A i \in m + 1..m + n : t[i].id \in Elems(q)
    BY <1>3 DEF Elems, n
  <2>3. CASE j \in 1..m /\ k \in 1..m
    BY <1>2, <1>6, <2>3 DEF DistinctFailed, m
  <2>4. CASE j \in m + 1..m + n /\ k \in m + 1..m + n
    <3>1. n + 1 - (j - m) = n + 1 - (k - m)
      BY <1>3, <1>6, <2>4 DEF Distinct, n
    <3> QED
      BY <1>1, <2>4, <3>1
  <2> QED
    BY <1>4, <1>6, <2>1, <2>2, <2>3, <2>4
<1> QED
  BY <1>2, <1>5, <1>6 DEF t, w, Failing, Queued

\* What an inbound substream does leaves our own requests alone, but for an
\* error about the substream itself.
OutboundKept ==
    UNCHANGED <<dialVars, outbound_substreams, outbound_delay, current_outbound_id,
                requests, outcomes>>

InboundError ==
    \/ pending_errors' = pending_errors
    \/ \E i \in Nat, error \in InErrorKind :
          pending_errors' = Append(pending_errors, InErr(i, error))

\* The three things that happen to a substream that poll() drives: it moves to
\* another state (or stays), is dropped, or breaks the connection.  Nothing is
\* ever applied from its queue.
Moves(i) ==
    \E st \in InboundSubstreamState :
        LET from == inbound_substreams[i].st
            writes == from = "ResponsePendingSend" /\ st = "ResponsePendingFlush"
        IN  /\ inbound_substreams' = [inbound_substreams EXCEPT ![i].st = st]
            /\ st = from \/ st = "Closing" \/ writes
            /\ IF writes THEN ~deactivated /\ sent' = [sent EXCEPT ![i] = @ + 1]
                         ELSE sent' = sent
            /\ todo' \subseteq todo
            /\ UNCHANGED <<queued_outbound_items, inbound_delay, keep_alive, closed, pc>>

Drops(i) == drop_inbound(i) /\ update_keep_alive /\ UNCHANGED <<sent, closed>>

Breaks(i) ==
    /\ inbound_substreams' = Without(inbound_substreams, i)
    /\ closed' = TRUE /\ return /\ update_keep_alive
    /\ UNCHANGED <<queued_outbound_items, inbound_delay, sent>>

LEMMA InboundDriven ==
    ASSUME Types, InboundInv, NEW i \in todo, poll_inbound(i)
    PROVE  /\ i \in DOMAIN inbound_substreams /\ i \in InboundId /\ pc = "inbound" /\ ~closed
           /\ OutboundKept /\ UNCHANGED <<state, events_out, current_inbound_id, responses>>
           /\ InboundError
           /\ Moves(i) \/ Drops(i) \/ Breaks(i)
<1> DEFINE from == inbound_substreams[i].st
<1>1. /\ pc = "inbound" /\ ~closed
      /\ OutboundKept /\ UNCHANGED <<state, events_out, current_inbound_id, responses>>
  BY DEF poll_inbound, drive_pending_send, drive_pending_flush, drive_idle, drive_closing,
         Driving, OutboundKept, dialVars
<1>2. i \in DOMAIN inbound_substreams /\ i \in InboundId /\ i \in Nat
  BY <1>1, HandlerAssumption DEF Types, InboundId
<1>3. /\ from \in InboundSubstreamState /\ inbound_substreams[i].closing \in BOOLEAN
      /\ inbound_substreams[i] = [inbound_substreams[i] EXCEPT !.st = from]
  BY <1>2 DEF Types, InboundSubstream
<1>4. inbound_substreams = [inbound_substreams EXCEPT ![i].st = from]
  BY <1>2, <1>3 DEF Types
<1>5. /\ from \in {"ResponsePendingSend", "ResponsePendingFlush"} => inbound_substreams[i].closing
      /\ from = "ResponseIdle" /\ i \in DOMAIN queued_outbound_items =>
            queued_outbound_items[i] = <<>>
  BY <1>2 DEF InboundInv, RespondsAtMostOnce
<1>6. cancel(i) => InboundError
  BY <1>2 DEF cancel, InboundError, InErrorKind
<1> HIDE DEF from
<1>7. CASE drive_pending_send(i)
  <2>1. from = "ResponsePendingSend"
    BY <1>7 DEF drive_pending_send, Driving, from
  <2>2. InboundError
    BY <1>6, <1>7 DEF drive_pending_send, InboundError
  <2>3. Moves(i) \/ Breaks(i)
    BY <1>4, <1>5, <1>7, <2>1
       DEF drive_pending_send, Moves, Breaks, GoTo, further, done, from, InboundSubstreamState
  <2> QED
    BY <1>1, <1>2, <2>2, <2>3
<1>8. CASE drive_pending_flush(i)
  <2>1. from = "ResponsePendingFlush"
    BY <1>8 DEF drive_pending_flush, Driving, from
  <2>2. InboundError
    BY <1>5, <1>6, <1>8, <2>1 DEF drive_pending_flush, InboundError
  <2>3. Moves(i) \/ Drops(i)
    BY <1>4, <1>5, <1>8, <2>1
       DEF drive_pending_flush, Moves, Drops, GoTo, further, done, from, InboundSubstreamState
  <2> QED
    BY <1>1, <1>2, <2>2, <2>3
<1>9. CASE drive_idle(i)
  <2>1. from = "ResponseIdle"
    BY <1>9 DEF drive_idle, Driving, from
  <2>2. InboundError
    BY <1>9 DEF drive_idle, InboundError
  <2>3. Moves(i)
    BY <1>4, <1>5, <1>9, <2>1
       DEF drive_idle, Moves, GoTo, further, done, from, InboundSubstreamState,
           apply_queued_responses
  <2> QED
    BY <1>1, <1>2, <2>2, <2>3
<1>10. CASE drive_closing(i)
  <2>1. from = "Closing"
    BY <1>10 DEF drive_closing, Driving, from
  <2>2. InboundError
    BY <1>10 DEF drive_closing, InboundError
  <2>3. Moves(i) \/ Drops(i)
    BY <1>4, <1>10, <2>1
       DEF drive_closing, Moves, Drops, done, from, InboundSubstreamState
  <2> QED
    BY <1>1, <1>2, <2>2, <2>3
<1> QED
  BY <1>7, <1>8, <1>9, <1>10 DEF poll_inbound

\* The two kinds of errors.
LEMMA ErrorTypes ==
    /\ \A r \in Request, error \in OutErrorKind :
          /\ OutErr(r, error) \in PendingError /\ IsOut(OutErr(r, error))
          /\ OutErr(r, error).id = r /\ OutErr(r, error).error = error
    /\ \A i \in Nat, error \in InErrorKind :
          InErr(i, error) \in PendingError /\ ~IsOut(InErr(i, error))
BY DEF OutErr, InErr, IsOut, PendingError

LEMMA InboundErrorKeeps ==
    ASSUME pending_errors \in Seq(PendingError), InboundError
    PROVE  /\ pending_errors' \in Seq(PendingError)
           /\ Failing' = Failing
           /\ DistinctFailed(pending_errors) => DistinctFailed(pending_errors')
<1>1. CASE pending_errors' = pending_errors
  BY <1>1 DEF Failing
<1>2. CASE \E i \in Nat, error \in InErrorKind :
              pending_errors' = Append(pending_errors, InErr(i, error))
  <2>1. PICK i \in Nat, error \in InErrorKind :
                pending_errors' = Append(pending_errors, InErr(i, error))
    BY <1>2
  <2> QED
    BY <2>1, ErrorTypes, ErrorsAppend DEF Failing
<1> QED
  BY <1>1, <1>2 DEF InboundError

LEMMA KeepAliveType ==
    \A q, d, in, out, errors, events :
        updated_keep_alive(q, d, in, out, errors, events) \in {"Yes", "Until"}
BY DEF updated_keep_alive

\* An outcome is one of the kinds, and the request has one from then on.
LEMMA ReportType ==
    ASSUME outcomes \in [Request -> Seq(OutcomeKind)],
           NEW r \in Request, NEW outcome \in OutcomeKind, report(r, outcome)
    PROVE  /\ outcomes' \in [Request -> Seq(OutcomeKind)]
           /\ outcomes'[r] # <<>>
           /\ \A q \in Request \ {r} : outcomes'[q] = outcomes[q]
<1>1. Append(outcomes[r], outcome) \in Seq(OutcomeKind) /\ Append(outcomes[r], outcome) # <<>>
  OBVIOUS
<1> QED
  BY <1>1 DEF report

\* The next request has a number of its own.
LEMMA NextRequest ==
    ASSUME requests \in Seq(Protocol), Len(requests) < MaxRequests,
           NEW proto \in Protocol, requests' = Append(requests, proto)
    PROVE  /\ requests' \in Seq(Protocol) /\ Len(requests') <= MaxRequests
           /\ Len(requests) + 1 \in Request /\ Len(requests) + 1 \notin Issued
           /\ Issued' = Issued \cup {Len(requests) + 1}
           /\ requests'[Len(requests) + 1] = proto
           /\ \A r \in Issued : requests'[r] = requests[r]
BY HandlerAssumption DEF Request, Issued

\* The queue of a request that is dialled again, or for the first time.
LEMMA EnqueueTypes ==
    ASSUME Types, NEW r \in Request, enqueue(r)
    PROVE  /\ dial_queue' \in Seq(Request) /\ pending_errors' \in Seq(PendingError)
           /\ keep_alive' \in {"Yes", "Until"}
<1>1. CASE state = "Active"
  <2>1. Append(dial_queue, r) \in Seq(Request)
    BY QueueAppend DEF Types
  <2> QED
    BY <1>1, <2>1, KeepAliveType DEF Types, enqueue, update_keep_alive
<1>2. CASE state # "Active"
  <2>1. OutErr(r, "HandlerRejected") \in PendingError
    BY ErrorTypes DEF OutErrorKind
  <2> QED
    BY <1>2, <2>1, ErrorsAppend DEF Types, enqueue
<1> QED
  BY <1>1, <1>2

LEMMA TypesStep ==
    ASSUME Types, InboundInv, OutboundBooks, [Next]_vars
    PROVE  Types'
<1> USE DEF Types
<1>1. CASE Shutdown
  <2>1. /\ requests' \in Seq(Protocol) /\ Len(requests') <= MaxRequests
        /\ \E final \in Seq(Request) : shutdown(final)
    <3>1. CASE shutdown(<<>>) /\ UNCHANGED requests
      <4>1. <<>> \in Seq(Request)
        OBVIOUS
      <4> QED
        BY <3>1, <4>1
    <3>2. CASE /\ Len(requests) < MaxRequests
               /\ requests' = Append(requests, "Goodbye") /\ shutdown(<<Len(requests) + 1>>)
      <4>1. "Goodbye" \in Protocol
        BY DEF Protocol
      <4>2. <<Len(requests) + 1>> \in Seq(Request)
        BY <3>2, <4>1, NextRequest
      <4> QED
        BY <3>2, <4>1, <4>2, NextRequest
    <3> QED
      BY <1>1, <3>1, <3>2 DEF Shutdown
  <2>2. PICK final \in Seq(Request) : shutdown(final)
    BY <2>1
  <2>3. /\ pending_errors' \in Seq(PendingError) /\ dial_queue' \in Seq(Request)
        /\ state' \in HandlerState
    BY <2>2, ErrorsReject DEF shutdown, HandlerState
  <2> QED
    BY <2>1, <2>2, <2>3, KeepAliveType DEF shutdown, streamVars, pollVars, update_keep_alive
<1>2. ASSUME NEW proto \in OutProtocol, send_request(proto) PROVE Types'
  <2>1. proto \in Protocol
    BY HandlerAssumption
  <2>2. /\ requests' \in Seq(Protocol) /\ Len(requests') <= MaxRequests
        /\ Len(requests) + 1 \in Request
    BY <1>2, <2>1, NextRequest DEF send_request
  <2>3. /\ dial_queue' \in Seq(Request) /\ pending_errors' \in Seq(PendingError)
        /\ keep_alive' \in {"Yes", "Until"}
    BY <1>2, <2>2, EnqueueTypes DEF send_request
  <2> QED
    BY <1>2, <2>2, <2>3 DEF send_request, streamVars, pollVars
<1>3. ASSUME NEW i \in DOMAIN inbound_substreams, NEW response \in Response,
             send_response(i, response)
      PROVE  Types'
  <2>1. pending_errors' \in Seq(PendingError)
    <3>1. i \in Nat /\ InErr(i, "ErrorResponse") \in PendingError
      BY HandlerAssumption, ErrorTypes DEF InErrorKind
    <3> QED
      BY <1>3, <3>1, ErrorsAppend DEF send_response
  <2>2. /\ inbound_substreams' \in [DOMAIN inbound_substreams -> InboundSubstream]
        /\ DOMAIN inbound_substreams' = DOMAIN inbound_substreams
    <3>1. closes_stream(response) \in BOOLEAN
      BY DEF closes_stream
    <3> QED
      BY <1>3, <3>1 DEF send_response, InboundSubstream, InboundSubstreamState
  <2>3. queued_outbound_items' \in [DOMAIN queued_outbound_items' -> Seq(Response)]
    <3>1. <<response>> \in Seq(Response) /\ \A q \in Seq(Response) : Append(q, response) \in Seq(Response)
      OBVIOUS
    <3>2. \A q \in Seq(Response) :
             LET f == With(queued_outbound_items, i, q) IN f \in [DOMAIN f -> Seq(Response)]
      BY DEF With
    <3>3. i \in DOMAIN queued_outbound_items => queued_outbound_items[i] \in Seq(Response)
      OBVIOUS
    <3> QED
      BY <1>3, <3>1, <3>2, <3>3 DEF send_response
  <2> QED
    BY <1>3, <2>1, <2>2, <2>3 DEF send_response, dialVars, pollVars
<1>4. ASSUME NEW proto \in InProtocol, inject_fully_negotiated_inbound(proto) PROVE Types'
  <2> DEFINE i == current_inbound_id
             new == [st |-> "ResponseIdle", closing |-> FALSE, timer |-> TRUE]
  <2>1. i \in Nat /\ i + 1 \in 0..MaxInbound /\ events_out' \in Seq(Nat)
    BY <1>4, HandlerAssumption DEF inject_fully_negotiated_inbound
  <2>2. new \in InboundSubstream
    BY DEF InboundSubstream, InboundSubstreamState
  <2>3. /\ inbound_substreams' \in [DOMAIN inbound_substreams' -> InboundSubstream]
        /\ DOMAIN inbound_substreams' \subseteq DOMAIN inbound_substreams \cup {i}
    <3>1. LET f == With(inbound_substreams, i, new)
          IN  f \in [DOMAIN f -> InboundSubstream] /\ DOMAIN f = DOMAIN inbound_substreams \cup {i}
      BY <2>2 DEF With
    <3> QED
      BY <1>4, <3>1 DEF inject_fully_negotiated_inbound
  <2>4. DOMAIN inbound_substreams' \subseteq 0..current_inbound_id' - 1
    BY <1>4, <2>1, <2>3 DEF inject_fully_negotiated_inbound
  <2> QED
    BY <1>4, <2>1, <2>3, <2>4, KeepAliveType
       DEF inject_fully_negotiated_inbound, dialVars, pollVars, historyVars,
           update_keep_alive, Idle
<1>5. ASSUME NEW r \in dialing, inject_fully_negotiated_outbound(r) PROVE Types'
  <2> DEFINE o == current_outbound_id
             new == [st |-> "RequestPendingResponse", req |-> r]
  <2>1. pending_errors' \in Seq(PendingError)
    <3>1. OutErr(r, "HandlerRejected") \in PendingError
      BY ErrorTypes DEF OutErrorKind
    <3> QED
      BY <1>5, <3>1, ErrorsAppend DEF inject_fully_negotiated_outbound
  <2>2. new \in OutboundSubstream
    BY DEF OutboundSubstream, OutboundSubstreamState
  <2>3. /\ outbound_substreams' \in [DOMAIN outbound_substreams' -> OutboundSubstream]
        /\ DOMAIN outbound_substreams' \subseteq 0..current_outbound_id' - 1
        /\ current_outbound_id' \in Nat
    <3>1. CASE UNCHANGED <<outbound_substreams, current_outbound_id>>
      BY <3>1
    <3>2. CASE /\ outbound_substreams' = With(outbound_substreams, o, new)
               /\ current_outbound_id' = o + 1
      <4>1. /\ outbound_substreams' \in [DOMAIN outbound_substreams' -> OutboundSubstream]
            /\ DOMAIN outbound_substreams' = DOMAIN outbound_substreams \cup {o}
        <5>1. LET f == With(outbound_substreams, o, new)
              IN  f \in [DOMAIN f -> OutboundSubstream] /\ DOMAIN f = DOMAIN outbound_substreams \cup {o}
          BY <2>2 DEF With
        <5> QED
          BY <3>2, <5>1
      <4>2. o + 1 \in Nat /\ DOMAIN outbound_substreams \cup {o} \subseteq 0..(o + 1) - 1
        OBVIOUS
      <4> QED
        BY <3>2, <4>1, <4>2
    <3> QED
      BY <1>5, <3>1, <3>2 DEF inject_fully_negotiated_outbound
  <2>4. keep_alive' \in {"Yes", "Until"} /\ dial_negotiated' \in Int
    BY <1>5, KeepAliveType DEF inject_fully_negotiated_outbound, update_keep_alive, free_slot
  <2> QED
    BY <1>5, <2>1, <2>3, <2>4
       DEF inject_fully_negotiated_outbound, pollVars, historyVars, Idle
<1>6. ASSUME NEW r \in dialing, NEW error \in DialError, inject_dial_upgrade_error(r, error)
      PROVE  Types'
  <2>1. /\ dial_queue' \in Seq(Request) /\ pending_errors' \in Seq(PendingError)
        /\ keep_alive' \in {"Yes", "Until"} /\ dial_negotiated' \in Int
    <3>1. CASE retry(error)
      BY <1>6, <3>1, EnqueueTypes DEF inject_dial_upgrade_error
    <3>2. CASE ~retry(error)
      <4>1. OutErr(r, error) \in PendingError
        BY ErrorTypes DEF OutErrorKind
      <4>2. Append(pending_errors, OutErr(r, error)) \in Seq(PendingError)
        BY <4>1, ErrorsAppend
      <4>3. keep_alive' \in {"Yes", "Until"}
        BY <1>6, <3>2, KeepAliveType DEF inject_dial_upgrade_error
      <4>4. UNCHANGED dial_queue /\ dial_negotiated' = dial_negotiated - 1
        BY <1>6, <3>2 DEF inject_dial_upgrade_error, free_slot
      <4>5. pending_errors' \in Seq(PendingError)
        BY <1>6, <3>2, <4>2 DEF inject_dial_upgrade_error
      <4> QED
        BY <4>3, <4>4, <4>5
    <3> QED
      BY <3>1, <3>2
  <2>2. io_retries' \in 0..IO_ERROR_RETRIES - 1
    BY <1>6, HandlerAssumption DEF inject_dial_upgrade_error, retries_after, retry
  <2> QED
    BY <1>6, <2>1, <2>2 DEF inject_dial_upgrade_error, streamVars, pollVars, historyVars
<1>7. CASE poll_report_error
  <2>1. /\ pending_errors' \in Seq(PendingError)
        /\ Head(pending_errors) \in PendingError
    BY <1>7, ErrorsTail DEF poll_report_error
  <2>2. outcomes' \in [Request -> Seq(OutcomeKind)]
    <3>1. CASE Head(pending_errors).dir = "Outbound"
      <4>1. /\ Head(pending_errors).id \in Request
            /\ Head(pending_errors).error \in OutcomeKind
        BY <2>1, <3>1 DEF PendingError, OutErrorKind, OutcomeKind
      <4> QED
        BY <1>7, <3>1, <4>1, ReportType DEF poll_report_error
    <3>2. CASE Head(pending_errors).dir # "Outbound"
      BY <1>7, <3>2 DEF poll_report_error
    <3> QED
      BY <3>1, <3>2
  <2> QED
    BY <1>7, <2>1, <2>2 DEF poll_report_error, streamVars, dialVars, pollVars
<1>8. CASE poll_report_event
  <2>1. events_out' \in Seq(Nat)
    BY <1>8 DEF poll_report_event
  <2> QED
    BY <1>8, <2>1 DEF poll_report_event, streamVars, dialVars, pollVars, historyVars
<1>9. ASSUME NEW elapsed \in BOOLEAN, poll_begin(elapsed) PROVE Types'
  <2>1. /\ queued_outbound_items' \in [DOMAIN queued_outbound_items' -> Seq(Response)]
        /\ state' \in HandlerState
    <3>1. <<>> \in [DOMAIN <<>> -> Seq(Response)]
      OBVIOUS
    <3> QED
      BY <1>9, <3>1 DEF poll_begin, HandlerState
  <2> QED
    BY <1>9, <2>1 DEF poll_begin, dialVars, reportVars, historyVars
<1>10. ASSUME NEW i \in inbound_delay, poll_inbound_timeout(i) PROVE Types'
  <2>1. CASE i \in DOMAIN inbound_substreams
    <3>1. pending_errors' \in Seq(PendingError)
      <4>1. i \in Nat /\ InErr(i, "StreamTimeout") \in PendingError
        BY <2>1, HandlerAssumption, ErrorTypes DEF InErrorKind
      <4> QED
        BY <1>10, <2>1, <4>1, ErrorsAppend DEF poll_inbound_timeout
    <3>2. /\ inbound_substreams' \in [DOMAIN inbound_substreams -> InboundSubstream]
          /\ DOMAIN inbound_substreams' = DOMAIN inbound_substreams
      <4>1. /\ [st |-> "ResponsePendingSend", closing |-> TRUE, timer |-> FALSE] \in InboundSubstream
            /\ [inbound_substreams[i] EXCEPT !.timer = FALSE] \in InboundSubstream
        BY <2>1 DEF InboundSubstream, InboundSubstreamState
      <4>2. PICK v \in InboundSubstream : inbound_substreams' = [inbound_substreams EXCEPT ![i] = v]
        BY <1>10, <2>1, <4>1 DEF poll_inbound_timeout, close
      <4> QED
        BY <2>1, <4>2, ReplaceMap
    <3>3. queued_outbound_items' \in [DOMAIN queued_outbound_items' -> Seq(Response)]
      <4>1. <<>> \in Seq(Response) /\ \A q \in Seq(Response) : Append(q, "Error") \in Seq(Response)
        BY DEF Response
      <4> QED
        <5>1. \A q \in Seq(Response) :
                 LET f == With(queued_outbound_items, i, q) IN f \in [DOMAIN f -> Seq(Response)]
          BY DEF With
        <5>2. i \in DOMAIN queued_outbound_items => queued_outbound_items[i] \in Seq(Response)
          OBVIOUS
        <5> QED
          BY <1>10, <2>1, <4>1, <5>1, <5>2 DEF poll_inbound_timeout, close
    <3> QED
      BY <1>10, <3>1, <3>2, <3>3 DEF poll_inbound_timeout, dialVars, pollVars, historyVars
  <2>2. CASE i \notin DOMAIN inbound_substreams
    BY <1>10, <2>2 DEF poll_inbound_timeout, dialVars, pollVars, historyVars
  <2> QED
    BY <2>1, <2>2
<1>11. ASSUME NEW o \in outbound_delay, poll_outbound_timeout(o) PROVE Types'
  <2>1. o \in DOMAIN outbound_substreams /\ outbound_substreams[o].req \in Request
    BY DEF OutboundBooks, OutboundSubstream
  <2>2. outcomes' \in [Request -> Seq(OutcomeKind)]
    BY <1>11, <2>1, ReportType DEF poll_outbound_timeout, OutcomeKind
  <2>3. /\ outbound_substreams' \in [DOMAIN outbound_substreams' -> OutboundSubstream]
        /\ DOMAIN outbound_substreams' \subseteq DOMAIN outbound_substreams
    <3>1. LET f == Without(outbound_substreams, o)
          IN  f \in [DOMAIN f -> OutboundSubstream] /\ DOMAIN f = DOMAIN outbound_substreams \ {o}
      BY WithoutMap
    <3> QED
      BY <1>11, <2>1, <3>1 DEF poll_outbound_timeout, remove_outbound
  <2> QED
    BY <1>11, <2>1, <2>2, <2>3, KeepAliveType
       DEF poll_outbound_timeout, dialVars, reportVars, return, update_keep_alive
<1>12. CASE poll_delay_error
  BY <1>12 DEF poll_delay_error, return, streamVars, dialVars, reportVars, historyVars
<1>13. CASE poll_next_phase
  BY <1>13 DEF poll_next_phase, streamVars, dialVars, reportVars, historyVars
<1>14. ASSUME NEW i \in todo, poll_inbound(i) PROVE Types'
  <2>1. /\ i \in DOMAIN inbound_substreams /\ i \in InboundId /\ pc = "inbound"
        /\ OutboundKept /\ UNCHANGED <<state, events_out, current_inbound_id, responses>>
        /\ pending_errors' \in Seq(PendingError)
        /\ Moves(i) \/ Drops(i) \/ Breaks(i)
    BY <1>14, InboundDriven, InboundErrorKeeps
  <2>2. CASE Moves(i)
    <3>1. /\ inbound_substreams' \in [DOMAIN inbound_substreams -> InboundSubstream]
          /\ DOMAIN inbound_substreams' = DOMAIN inbound_substreams
      <4>1. PICK st \in InboundSubstreamState :
                    inbound_substreams' = [inbound_substreams EXCEPT ![i].st = st]
        BY <2>2 DEF Moves
      <4> QED
        BY <2>1, <4>1 DEF InboundSubstream
    <3>2. sent' \in [InboundId -> Nat]
      <4>1. sent' = sent \/ sent' = [sent EXCEPT ![i] = @ + 1]
        BY <2>2 DEF Moves
      <4> QED
        BY <2>1, <4>1
    <3> QED
      BY <2>1, <2>2, <3>1, <3>2 DEF Moves, OutboundKept, dialVars
  <2>3. CASE Drops(i)
    <3>1. /\ inbound_substreams' \in [DOMAIN inbound_substreams' -> InboundSubstream]
          /\ DOMAIN inbound_substreams' = DOMAIN inbound_substreams \ {i}
          /\ queued_outbound_items' \in [DOMAIN queued_outbound_items' -> Seq(Response)]
      BY <2>3, WithoutMap DEF Drops, drop_inbound
    <3> QED
      BY <2>1, <2>3, <3>1, KeepAliveType
         DEF Drops, drop_inbound, done, OutboundKept, dialVars, update_keep_alive
  <2>4. CASE Breaks(i)
    <3>1. /\ inbound_substreams' \in [DOMAIN inbound_substreams' -> InboundSubstream]
          /\ DOMAIN inbound_substreams' = DOMAIN inbound_substreams \ {i}
      BY <2>4, WithoutMap DEF Breaks
    <3> QED
      BY <2>1, <2>4, <3>1, KeepAliveType
         DEF Breaks, return, OutboundKept, dialVars, update_keep_alive
  <2> QED
    BY <2>1, <2>2, <2>3, <2>4
<1>15. ASSUME NEW o \in todo, poll_outbound(o) PROVE Types'
  <2> USE DEF Visiting, dialVars
  <2>1. pc = "outbound" /\ o \in DOMAIN outbound_substreams
    BY <1>15 DEF poll_outbound, outbound_deactivated, outbound_response, outbound_failed,
                 outbound_pending, outbound_closed
  <2>2. outbound_substreams[o] \in OutboundSubstream /\ outbound_substreams[o].req \in Request
    BY <2>1 DEF OutboundSubstream
  <2>3. LET moved == [outbound_substreams EXCEPT ![o].st = "Closing"]
        IN  /\ moved \in [DOMAIN outbound_substreams -> OutboundSubstream]
            /\ DOMAIN moved = DOMAIN outbound_substreams
    BY <2>1 DEF OutboundSubstream, OutboundSubstreamState
  <2>4. LET left == Without(outbound_substreams, o)
        IN  /\ left \in [DOMAIN left -> OutboundSubstream]
            /\ DOMAIN left = DOMAIN outbound_substreams \ {o}
    BY WithoutMap
  <2>5. \A outcome \in OutcomeKind :
           report(outbound_substreams[o].req, outcome) =>
              outcomes' \in [Request -> Seq(OutcomeKind)]
    BY <2>2, ReportType
  <2>6. CASE outbound_deactivated(o)
    <3>1. OutErr(outbound_substreams[o].req, "HandlerRejected") \in PendingError
      BY <2>2, ErrorTypes DEF OutErrorKind
    <3>2. pending_errors' \in Seq(PendingError)
      BY <2>6, <3>1, ErrorsAppend DEF outbound_deactivated
    <3> QED
      BY <2>1, <2>3, <2>6, <3>2 DEF outbound_deactivated, done
  <2>7. ASSUME NEW response \in Response, outbound_response(o, response) PROVE Types'
    BY <2>1, <2>3, <2>5, <2>7 DEF outbound_response, return, OutcomeKind
  <2>8. ASSUME NEW error \in {"IncompleteStream", "StreamError"}, outbound_failed(o, error)
        PROVE  Types'
    BY <2>1, <2>4, <2>5, <2>8, KeepAliveType
       DEF outbound_failed, drop_outbound, remove_outbound, return, OutcomeKind, update_keep_alive
  <2>9. CASE outbound_pending(o)
    BY <2>1, <2>9 DEF outbound_pending, done
  <2>10. CASE outbound_closed(o)
    BY <2>1, <2>4, <2>10, KeepAliveType
       DEF outbound_closed, drop_outbound, remove_outbound, done, update_keep_alive
  <2> QED
    BY <1>15, <2>6, <2>7, <2>8, <2>9, <2>10 DEF poll_outbound
<1>16. CASE poll_dial
  <2>1. dial_queue' \in Seq(Request) /\ dialing' \subseteq Request
    <3>1. may_dial => Tail(dial_queue) \in Seq(Request) /\ Head(dial_queue) \in Request
      BY QueueTail DEF may_dial
    <3> QED
      BY <1>16, <3>1 DEF poll_dial
  <2> QED
    BY <1>16, <2>1, KeepAliveType DEF poll_dial, return, reportVars, streamVars, update_keep_alive
<1>17. CASE connection_closed
  BY <1>17 DEF connection_closed, streamVars, dialVars, reportVars, pollVars, historyVars
<1>18. CASE UNCHANGED vars
  BY <1>18 DEF vars, streamVars, dialVars, reportVars, pollVars, historyVars
<1> QED
  BY <1>1, <1>2, <1>3, <1>4, <1>5, <1>6, <1>7, <1>8, <1>9, <1>10, <1>11, <1>12, <1>13,
     <1>14, <1>15, <1>16, <1>17, <1>18
     DEF Next, DialOutcome, Poll

-----------------------------------------------------------------------------
(* Dials and keep-alive                                                    *)

LEMMA DialingFinite ==
    ASSUME dialing \subseteq Request
    PROVE  IsFiniteSet(dialing) /\ Cardinality(dialing) \in Nat
<1>1. IsFiniteSet(Request)
  BY HandlerAssumption, FS_Interval DEF Request
<1> QED
  BY <1>1, FS_Subset, FS_CardinalityType

\* A slot is taken before the swarm is asked and given back no earlier than
\* the answer comes.
LEMMA DialsStep ==
    ASSUME Types, DialsAccounted, [Next]_vars
    PROVE  DialsAccounted'
<1> DEFINE n == Cardinality(dialing)
<1>1. /\ IsFiniteSet(dialing) /\ n \in Nat /\ dial_negotiated \in Int
      /\ n <= dial_negotiated /\ dial_negotiated <= max_dial_negotiated
  BY DialingFinite DEF Types, DialsAccounted
<1>2. max_dial_negotiated \in Nat
  BY HandlerAssumption
<1>3. \A r \in dialing : Cardinality(dialing \ {r}) = n - 1
  BY <1>1, FS_RemoveElement
<1>4. \A r : Cardinality(dialing \cup {r}) <= n + 1
  BY <1>1, FS_AddElement
<1> HIDE DEF n
<1>5. CASE UNCHANGED <<dialing, dial_negotiated>>
  BY <1>5 DEF DialsAccounted
<1>6. ASSUME NEW r \in dialing, dialing' = dialing \ {r},
             dial_negotiated' \in {dial_negotiated, dial_negotiated - 1}
      PROVE  DialsAccounted'
  BY <1>1, <1>2, <1>3, <1>6 DEF DialsAccounted
<1>7. CASE poll_dial
  <2>1. CASE may_dial
    <3>1. dialing' = dialing \cup {Head(dial_queue)} /\ dial_negotiated' = dial_negotiated + 1
      BY <1>7, <2>1 DEF poll_dial
    <3>2. Cardinality(dialing') <= n + 1
      BY <1>4, <3>1
    <3>3. Cardinality(dialing') \in Nat
      BY <1>1, <3>1, FS_AddElement, FS_CardinalityType
    <3> QED
      BY <1>1, <1>2, <2>1, <3>1, <3>2, <3>3 DEF may_dial, DialsAccounted
  <2>2. CASE ~may_dial
    BY <1>5, <1>7, <2>2 DEF poll_dial
  <2> QED
    BY <2>1, <2>2
<1>8. ASSUME NEW r \in dialing, inject_fully_negotiated_outbound(r) PROVE DialsAccounted'
  BY <1>6, <1>8 DEF inject_fully_negotiated_outbound, free_slot
<1>9. ASSUME NEW r \in dialing, NEW error \in DialError, inject_dial_upgrade_error(r, error)
      PROVE  DialsAccounted'
  BY <1>6, <1>9 DEF inject_dial_upgrade_error, free_slot
<1>10. Shutdown => DialsAccounted'
  BY <1>5 DEF Shutdown, shutdown
<1>11. \A proto \in OutProtocol : send_request(proto) => DialsAccounted'
  BY <1>5 DEF send_request
<1>12. \A i \in DOMAIN inbound_substreams, response \in Response :
          send_response(i, response) => DialsAccounted'
  BY <1>5 DEF send_response, dialVars
<1>13. \A proto \in InProtocol : inject_fully_negotiated_inbound(proto) => DialsAccounted'
  BY <1>5 DEF inject_fully_negotiated_inbound, dialVars
<1>14. CASE \/ poll_report_error \/ poll_report_event \/ poll_delay_error
            \/ poll_next_phase \/ connection_closed
  BY <1>5, <1>14 DEF poll_report_error, poll_report_event, poll_delay_error, poll_next_phase,
              connection_closed, dialVars
<1>15. \A elapsed \in BOOLEAN : poll_begin(elapsed) => DialsAccounted'
  BY <1>5 DEF poll_begin, dialVars
<1>16. /\ \A i \in inbound_delay : poll_inbound_timeout(i) => DialsAccounted'
       /\ \A o \in outbound_delay : poll_outbound_timeout(o) => DialsAccounted'
  BY <1>5 DEF poll_inbound_timeout, poll_outbound_timeout, dialVars
<1>17. \A i \in todo : poll_inbound(i) => DialsAccounted'
  BY <1>5 DEF poll_inbound, drive_pending_send, drive_pending_flush, drive_idle,
              drive_closing, Driving, dialVars
<1>18. \A o \in todo : poll_outbound(o) => DialsAccounted'
  BY <1>5 DEF poll_outbound, outbound_deactivated, outbound_response, outbound_failed,
              outbound_pending, outbound_closed, Visiting, dialVars
<1>19. CASE UNCHANGED vars
  BY <1>5, <1>19 DEF vars, dialVars
<1> QED
  BY <1>7, <1>8, <1>9, <1>10, <1>11, <1>12, <1>13, <1>14, <1>15, <1>16, <1>17, <1>18, <1>19
     DEF Next, DialOutcome, Poll

LEMMA NoDialsLeft ==
    ASSUME Types', DialsAccounted', dial_negotiated' = 0
    PROVE  dialing' = {}
<1>1. IsFiniteSet(Request)
  BY HandlerAssumption, FS_Interval DEF Request
<1>2. IsFiniteSet(dialing') /\ Cardinality(dialing') \in Nat
  BY <1>1, FS_Subset, FS_CardinalityType DEF Types
<1>3. Cardinality(dialing') = 0
  BY <1>2 DEF DialsAccounted
<1> QED
  BY <1>2, <1>3, FS_EmptySet

\* An action that ends with update_keep_alive lets go only when nothing is
\* left, nor dialled, because dialing is within dial_negotiated.
LEMMA UpdatedKeepAlive ==
    ASSUME Types', DialsAccounted', update_keep_alive
    PROVE  KeepAliveSafe'
BY NoDialsLeft DEF KeepAliveSafe, update_keep_alive, updated_keep_alive

LEMMA KeepAliveStep ==
    ASSUME Types, Types', DialsAccounted', InboundInv, OutboundBooks, KeepAliveSafe, [Next]_vars
    PROVE  KeepAliveSafe'
<1>1. ASSUME keep_alive' = keep_alive, dial_queue' = dial_queue, dialing' \subseteq dialing,
             DOMAIN inbound_substreams' = DOMAIN inbound_substreams,
             DOMAIN outbound_substreams' = DOMAIN outbound_substreams
      PROVE  KeepAliveSafe'
  BY <1>1 DEF KeepAliveSafe
<1>2. update_keep_alive => KeepAliveSafe'
  BY UpdatedKeepAlive
<1>3. CASE Shutdown
  BY <1>2, <1>3 DEF Shutdown, shutdown
<1>4. ASSUME NEW r, enqueue(r), dialing' \subseteq dialing,
             UNCHANGED <<inbound_substreams, outbound_substreams>>
      PROVE  KeepAliveSafe'
  BY <1>1, <1>2, <1>4 DEF enqueue
<1>5. ASSUME NEW proto \in OutProtocol, send_request(proto) PROVE KeepAliveSafe'
  BY <1>4, <1>5 DEF send_request, streamVars
<1>6. ASSUME NEW i \in DOMAIN inbound_substreams, NEW response \in Response,
             send_response(i, response)
      PROVE  KeepAliveSafe'
  <2>1. DOMAIN inbound_substreams' = DOMAIN inbound_substreams
    BY <1>6 DEF send_response, Types
  <2> QED
    BY <1>1, <1>6, <2>1 DEF send_response, dialVars
<1>7. ASSUME NEW proto \in InProtocol, inject_fully_negotiated_inbound(proto) PROVE KeepAliveSafe'
  BY <1>2, <1>7 DEF inject_fully_negotiated_inbound
<1>8. ASSUME NEW r \in dialing, inject_fully_negotiated_outbound(r) PROVE KeepAliveSafe'
  BY <1>1, <1>2, <1>8 DEF inject_fully_negotiated_outbound
<1>9. ASSUME NEW r \in dialing, NEW error \in DialError, inject_dial_upgrade_error(r, error)
      PROVE  KeepAliveSafe'
  <2>1. CASE retry(error)
    BY <1>4, <1>9, <2>1 DEF inject_dial_upgrade_error, streamVars
  <2>2. CASE ~retry(error)
    BY <1>9, <2>2, NoDialsLeft
       DEF inject_dial_upgrade_error, streamVars, updated_keep_alive, KeepAliveSafe
  <2> QED
    BY <2>1, <2>2
<1>10. CASE \/ poll_report_error \/ poll_report_event \/ poll_delay_error
            \/ poll_next_phase \/ connection_closed
  BY <1>1, <1>10 DEF poll_report_error, poll_report_event, poll_delay_error, poll_next_phase,
              connection_closed, dialVars, streamVars
<1>11. \A elapsed \in BOOLEAN : poll_begin(elapsed) => KeepAliveSafe'
  BY <1>1 DEF poll_begin, dialVars
<1>12. ASSUME NEW i \in inbound_delay, poll_inbound_timeout(i) PROVE KeepAliveSafe'
  <2>1. DOMAIN inbound_substreams' = DOMAIN inbound_substreams
    BY <1>12 DEF poll_inbound_timeout, close, Types
  <2> QED
    BY <1>1, <1>12, <2>1 DEF poll_inbound_timeout, dialVars
<1>13. ASSUME NEW o \in outbound_delay, poll_outbound_timeout(o) PROVE KeepAliveSafe'
  BY <1>1, <1>2, <1>13 DEF poll_outbound_timeout, dialVars
<1>14. ASSUME NEW i \in todo, poll_inbound(i) PROVE KeepAliveSafe'
  <2>1. OutboundKept /\ (Moves(i) \/ Drops(i) \/ Breaks(i))
    BY <1>14, InboundDriven
  <2>2. CASE Moves(i)
    <3>1. DOMAIN inbound_substreams' = DOMAIN inbound_substreams
      BY <2>2 DEF Moves, Types
    <3> QED
      BY <1>1, <2>1, <2>2, <3>1 DEF Moves, OutboundKept, dialVars
  <2> QED
    BY <1>2, <2>1, <2>2 DEF Drops, Breaks
<1>15. ASSUME NEW o \in todo, poll_outbound(o) PROVE KeepAliveSafe'
  <2>1. DOMAIN [outbound_substreams EXCEPT ![o].st = "Closing"] = DOMAIN outbound_substreams
    OBVIOUS
  <2> QED
    BY <1>1, <1>2, <1>15, <2>1
       DEF poll_outbound, outbound_deactivated, outbound_response, outbound_failed,
           outbound_pending, outbound_closed, Visiting, dialVars
<1>16. CASE poll_dial
  BY <1>1, <1>2, <1>16 DEF poll_dial, streamVars
<1>17. CASE UNCHANGED vars
  BY <1>1, <1>17 DEF vars, dialVars, streamVars
<1> QED
  BY <1>3, <1>5, <1>6, <1>7, <1>8, <1>9, <1>10, <1>11, <1>12, <1>13, <1>14, <1>15, <1>16, <1>17
     DEF Next, DialOutcome, Poll

-----------------------------------------------------------------------------
(* Inbound substreams                                                      *)

LEMMA InboundStep ==
    ASSUME Types, Types', InboundInv, [Next]_vars
    PROVE  InboundInv'
<1> DEFINE D == DOMAIN inbound_substreams
<1>1. CASE /\ UNCHANGED <<inbound_substreams, inbound_delay, queued_outbound_items,
                          current_inbound_id, sent>>
           /\ closed' = closed \/ closed' = TRUE
  BY <1>1 DEF InboundInv, InboundBooks, RespondsAtMostOnce
<1>2. \A i \in D :
         /\ inbound_substreams[i] \in InboundSubstream
         /\ i \in Nat /\ i < current_inbound_id /\ i \in InboundId
  <2>1. /\ D \subseteq 0..current_inbound_id - 1 /\ current_inbound_id \in 0..MaxInbound
        /\ \A i \in D : inbound_substreams[i] \in InboundSubstream
    BY DEF Types
  <2>2. MaxInbound \in Nat
    BY HandlerAssumption
  <2> HIDE DEF D
  <2> QED
    BY <2>1, <2>2 DEF InboundId
<1>3. ASSUME NEW i \in D, NEW response \in Response, send_response(i, response)
      PROVE  InboundInv'
  <2> DEFINE in == inbound_substreams[i]
             in2 == inbound_substreams'[i]
             use == in.st \in {"ResponsePendingSend", "ResponsePendingFlush"}
  <2>1. /\ UNCHANGED <<inbound_delay, current_inbound_id, sent, closed>> /\ ~closed
        /\ closes_stream(response)
    BY <1>3 DEF send_response, Idle, closes_stream, is_error, multiple_responses
  <2>2. /\ DOMAIN inbound_substreams' = D
        /\ \A j \in D \ {i} : inbound_substreams'[j] = inbound_substreams[j]
        /\ in2.timer = in.timer
        /\ \/ in2 = in
           \/ in.st = "ResponseIdle" /\ in2.st = "ResponsePendingSend" /\ in2.closing
           \/ use /\ in2.st = in.st /\ in2.closing
    <3>1. closes_stream(response) = TRUE
      BY DEF closes_stream, is_error, multiple_responses
    <3>2. \/ inbound_substreams' = inbound_substreams
          \/ /\ in.st = "ResponseIdle"
             /\ inbound_substreams' = [inbound_substreams EXCEPT
                   ![i].st = "ResponsePendingSend", ![i].closing = closes_stream(response)]
          \/ use /\ inbound_substreams' = [inbound_substreams EXCEPT ![i].closing = TRUE]
      BY <1>3 DEF send_response
    <3> HIDE DEF use
    <3>3. /\ inbound_substreams \in [D -> InboundSubstream] /\ in \in InboundSubstream
      BY <1>2 DEF Types
    <3>4. CASE inbound_substreams' = inbound_substreams
      BY <3>4
    <3>5. CASE /\ in.st = "ResponseIdle"
               /\ inbound_substreams' = [inbound_substreams EXCEPT
                     ![i].st = "ResponsePendingSend", ![i].closing = closes_stream(response)]
      BY <3>1, <3>3, <3>5 DEF InboundSubstream
    <3>6. CASE use /\ inbound_substreams' = [inbound_substreams EXCEPT ![i].closing = TRUE]
      BY <3>3, <3>6 DEF InboundSubstream
    <3> QED
      BY <3>2, <3>4, <3>5, <3>6
  <2>3. \/ queued_outbound_items' = queued_outbound_items
        \/ use /\ \E q : queued_outbound_items' = With(queued_outbound_items, i, q)
    BY <1>3 DEF send_response
  <2>4. /\ DOMAIN queued_outbound_items' \subseteq DOMAIN queued_outbound_items \cup {i}
        /\ \A j \in DOMAIN queued_outbound_items' \ {i} :
              j \in DOMAIN queued_outbound_items /\ queued_outbound_items'[j] = queued_outbound_items[j]
        /\ use \/ queued_outbound_items' = queued_outbound_items
    BY <2>3 DEF With
  <2> HIDE DEF in, in2, use
  <2>5. InboundBooks'
    BY <2>1, <2>2, <2>4 DEF InboundInv, InboundBooks, in, in2
  <2>6. RespondsAtMostOnce'
    BY <2>1, <2>2 DEF InboundInv, RespondsAtMostOnce, in, in2
  <2> QED
    BY <2>1, <2>2, <2>4, <2>5, <2>6 DEF InboundInv, in, in2, use
<1>4. ASSUME NEW proto \in InProtocol, inject_fully_negotiated_inbound(proto) PROVE InboundInv'
  <2> DEFINE i == current_inbound_id
             new == [st |-> "ResponseIdle", closing |-> FALSE, timer |-> TRUE]
  <2>1. /\ UNCHANGED <<queued_outbound_items, sent, closed>> /\ ~closed
        /\ i \in InboundId /\ i \notin D /\ current_inbound_id' = i + 1
    <3>1. i \in InboundId /\ i \notin D
      <4>1. i \in Nat /\ i < MaxInbound /\ MaxInbound \in Nat
        BY <1>4, HandlerAssumption DEF inject_fully_negotiated_inbound, Types
      <4> QED
        BY <1>2, <4>1 DEF InboundId
    <3> QED
      BY <1>4, <3>1 DEF inject_fully_negotiated_inbound, Idle, historyVars
  <2>2. sent[i] = 0 /\ i \notin DOMAIN queued_outbound_items
    BY <2>1 DEF InboundInv, InboundBooks, Types
  <2>3. CASE UNCHANGED <<inbound_delay, inbound_substreams>>
    BY <2>1, <2>3 DEF InboundInv, InboundBooks, RespondsAtMostOnce, Types, InboundId
  <2>4. CASE /\ inbound_delay' = inbound_delay \cup {i}
             /\ inbound_substreams' = With(inbound_substreams, i, new)
    <3>1. /\ DOMAIN inbound_substreams' = D \cup {i} /\ inbound_substreams'[i] = new
          /\ \A j \in D : inbound_substreams'[j] = inbound_substreams[j]
      BY <2>1, <2>4 DEF With
    <3>2. InboundBooks'
      BY <2>1, <2>4, <3>1 DEF InboundInv, InboundBooks
    <3>3. RespondsAtMostOnce'
      BY <2>1, <3>1 DEF InboundInv, RespondsAtMostOnce
    <3>4. \A j \in D \cup {i} :
             /\ inbound_substreams'[j].st = "ResponseIdle" /\ j \in DOMAIN queued_outbound_items
                   => queued_outbound_items[j] = <<>>
             /\ inbound_substreams'[j].st \in {"ResponseIdle", "ResponsePendingSend"}
                   => sent[j] = 0
      BY <2>2, <3>1 DEF InboundInv
    <3>5. \A j \in InboundId : j >= current_inbound_id' => sent[j] = 0
      BY <2>1 DEF InboundInv, InboundId, Types
    <3> QED
      BY <2>1, <3>1, <3>2, <3>3, <3>4, <3>5 DEF InboundInv
  <2> QED
    BY <1>4, <2>3, <2>4 DEF inject_fully_negotiated_inbound
<1>5. ASSUME NEW elapsed \in BOOLEAN, poll_begin(elapsed) PROVE InboundInv'
  <2>1. CASE elapsed
    BY <1>5, <2>1 DEF poll_begin, InboundInv, InboundBooks, RespondsAtMostOnce, historyVars
  <2>2. CASE ~elapsed
    BY <1>1, <1>5, <2>2 DEF poll_begin, historyVars
  <2> QED
    BY <2>1, <2>2
<1>6. ASSUME NEW i \in inbound_delay, poll_inbound_timeout(i) PROVE InboundInv'
  <2> DEFINE in == inbound_substreams[i]
             in2 == inbound_substreams'[i]
             items == IF i \in DOMAIN queued_outbound_items
                      THEN queued_outbound_items[i] ELSE <<>>
  <2>1. /\ UNCHANGED <<current_inbound_id, sent, closed>> /\ ~closed
        /\ inbound_delay' = inbound_delay \ {i} /\ i \in D
    BY <1>6 DEF poll_inbound_timeout, historyVars, InboundInv, InboundBooks
  <2>2. close(i)
    BY <1>6, <2>1 DEF poll_inbound_timeout
  <2>3. /\ DOMAIN inbound_substreams' = D /\ ~in2.timer
        /\ \A j \in D \ {i} : inbound_substreams'[j] = inbound_substreams[j]
        /\ \/ in.st = "ResponseIdle" /\ in2.st = "ResponsePendingSend" /\ in2.closing
           \/ in.st # "ResponseIdle" /\ in2.st = in.st /\ in2.closing = in.closing
    <3>1. PICK v \in {[st |-> "ResponsePendingSend", closing |-> TRUE, timer |-> FALSE],
                      [in EXCEPT !.timer = FALSE]} :
            /\ inbound_substreams' = [inbound_substreams EXCEPT ![i] = v]
            /\ IF in.st = "ResponseIdle"
               THEN v = [st |-> "ResponsePendingSend", closing |-> TRUE, timer |-> FALSE]
               ELSE v = [in EXCEPT !.timer = FALSE]
      BY <2>2 DEF close
    <3> QED
      BY <1>2, <2>1, <3>1 DEF InboundSubstream, Types
  <2>4. /\ DOMAIN queued_outbound_items' = DOMAIN queued_outbound_items \cup {i}
        /\ \A j \in DOMAIN queued_outbound_items \ {i} :
              queued_outbound_items'[j] = queued_outbound_items[j]
    BY <2>2 DEF close, With
  <2> HIDE DEF in, in2
  <2>5. InboundBooks'
    BY <2>1, <2>3, <2>4 DEF InboundInv, InboundBooks, in, in2
  <2>6. RespondsAtMostOnce'
    BY <2>1, <2>3 DEF InboundInv, RespondsAtMostOnce, in, in2
  <2> QED
    BY <2>1, <2>3, <2>4, <2>5, <2>6 DEF InboundInv, in, in2
<1>7. ASSUME NEW i \in todo, poll_inbound(i) PROVE InboundInv'
  <2> DEFINE in == inbound_substreams[i]
             in2 == inbound_substreams'[i]
  <2>1. /\ i \in D /\ i \in InboundId /\ ~closed /\ current_inbound_id' = current_inbound_id
        /\ Moves(i) \/ Drops(i) \/ Breaks(i)
    BY <1>7, InboundDriven
  <2>2. CASE Moves(i)
    <3>1. PICK st \in InboundSubstreamState :
            /\ inbound_substreams' = [inbound_substreams EXCEPT ![i].st = st]
            /\ \/ st = in.st /\ sent' = sent
               \/ st = "Closing" /\ sent' = sent
               \/ /\ in.st = "ResponsePendingSend" /\ st = "ResponsePendingFlush"
                  /\ sent' = [sent EXCEPT ![i] = @ + 1]
      BY <2>2 DEF Moves, in
    <3>2. /\ DOMAIN inbound_substreams' = D /\ in2.st = st
          /\ in2.closing = in.closing /\ in2.timer = in.timer
          /\ \A j \in D \ {i} : inbound_substreams'[j] = inbound_substreams[j]
      BY <1>2, <2>1, <3>1 DEF InboundSubstream, Types
    <3>3. UNCHANGED <<queued_outbound_items, inbound_delay, closed>>
      BY <2>2 DEF Moves
    <3>4. /\ \A j \in InboundId \ {i} : sent'[j] = sent[j]
          /\ DOMAIN sent' = InboundId
          /\ sent'[i] = sent[i] \/ (in.st = "ResponsePendingSend" /\ sent'[i] = 1)
          /\ st \in {"ResponseIdle", "ResponsePendingSend"} => st = in.st /\ sent' = sent
      BY <2>1, <3>1 DEF InboundInv, Types, in
    <3> HIDE DEF in, in2
    <3>5. InboundBooks'
      BY <2>1, <3>2, <3>3 DEF InboundInv, InboundBooks, in, in2
    <3>6. RespondsAtMostOnce'
      <4>1. \A j \in InboundId : sent'[j] <= 1
        <5>1. \A j \in InboundId : sent[j] <= 1
          BY DEF InboundInv, RespondsAtMostOnce, Types
        <5> QED
          BY <2>1, <3>4, <5>1
      <4>2. in2.st \in {"ResponsePendingSend", "ResponsePendingFlush"} => in2.closing
        BY <2>1, <3>1, <3>2 DEF InboundInv, RespondsAtMostOnce, in
      <4> QED
        BY <3>2, <3>4, <4>1, <4>2 DEF InboundInv, RespondsAtMostOnce, in2
    <3>7. \A j \in D :
             /\ inbound_substreams'[j].st = "ResponseIdle" /\ j \in DOMAIN queued_outbound_items
                   => queued_outbound_items[j] = <<>>
             /\ inbound_substreams'[j].st \in {"ResponseIdle", "ResponsePendingSend"}
                   => sent'[j] = 0
      <4>1. \A j \in D \ {i} : inbound_substreams'[j] = inbound_substreams[j] /\ sent'[j] = sent[j]
        BY <1>2, <3>2, <3>4
      <4>2. in2.st \in {"ResponseIdle", "ResponsePendingSend"} => in2.st = in.st /\ sent'[i] = sent[i]
        BY <3>2, <3>4
      <4> QED
        BY <2>1, <4>1, <4>2 DEF InboundInv, in, in2
    <3>8. \A j \in InboundId : j >= current_inbound_id => sent'[j] = 0
      <4>1. \A j \in InboundId : j >= current_inbound_id => j # i /\ sent[j] = 0
        BY <1>2, <2>1 DEF InboundInv, InboundId, Types
      <4> QED
        BY <3>4, <4>1
    <3> QED
      BY <2>1, <3>2, <3>3, <3>5, <3>6, <3>7, <3>8 DEF InboundInv
  <2>3. CASE Drops(i)
    <3>1. /\ DOMAIN inbound_substreams' = D \ {i}
          /\ \A j \in D \ {i} : inbound_substreams'[j] = inbound_substreams[j]
          /\ DOMAIN queued_outbound_items' = DOMAIN queued_outbound_items \ {i}
          /\ \A j \in DOMAIN queued_outbound_items \ {i} :
                queued_outbound_items'[j] = queued_outbound_items[j]
      BY <2>3 DEF Drops, drop_inbound, Without
    <3>2. /\ UNCHANGED <<sent, closed>>
          /\ inbound_delay' = IF in.timer THEN inbound_delay \ {i} ELSE inbound_delay
      BY <2>3 DEF Drops, drop_inbound
    <3>3. InboundBooks'
      BY <2>1, <3>1, <3>2 DEF InboundInv, InboundBooks
    <3> QED
      BY <2>1, <3>1, <3>2, <3>3 DEF InboundInv, RespondsAtMostOnce
  <2>4. CASE Breaks(i)
    <3>1. /\ DOMAIN inbound_substreams' = D \ {i}
          /\ \A j \in D \ {i} : inbound_substreams'[j] = inbound_substreams[j]
      BY <2>4 DEF Breaks, Without
    <3> QED
      BY <2>1, <2>4, <3>1 DEF InboundInv, InboundBooks, RespondsAtMostOnce, Breaks
  <2> QED
    BY <2>1, <2>2, <2>3, <2>4
<1> USE DEF streamVars, historyVars
<1>8. CASE Shutdown
  BY <1>1, <1>8 DEF Shutdown, shutdown
<1>9. ASSUME NEW proto \in OutProtocol, send_request(proto) PROVE InboundInv'
  BY <1>1, <1>9 DEF send_request
<1>10. ASSUME NEW r \in dialing, inject_fully_negotiated_outbound(r) PROVE InboundInv'
  BY <1>1, <1>10 DEF inject_fully_negotiated_outbound
<1>11. ASSUME NEW r \in dialing, NEW error \in DialError, inject_dial_upgrade_error(r, error)
       PROVE  InboundInv'
  BY <1>1, <1>11 DEF inject_dial_upgrade_error
<1>12. CASE \/ poll_report_error \/ poll_report_event \/ poll_delay_error
            \/ poll_next_phase \/ poll_dial \/ connection_closed
  BY <1>1, <1>12 DEF poll_report_error, poll_report_event, poll_delay_error, poll_next_phase,
                     poll_dial, connection_closed
<1>13. ASSUME NEW o \in outbound_delay, poll_outbound_timeout(o) PROVE InboundInv'
  BY <1>1, <1>13 DEF poll_outbound_timeout
<1>14. ASSUME NEW o \in todo, poll_outbound(o) PROVE InboundInv'
  BY <1>1, <1>14 DEF poll_outbound, outbound_deactivated, outbound_response, outbound_failed,
                     outbound_pending, outbound_closed, Visiting
<1>15. CASE UNCHANGED vars
  BY <1>1, <1>15 DEF vars
<1> QED
  BY <1>3, <1>4, <1>5, <1>6, <1>7, <1>8, <1>9, <1>10, <1>11, <1>12, <1>13, <1>14, <1>15
     DEF Next, DialOutcome, Poll

-----------------------------------------------------------------------------
(* Outbound substreams                                                     *)

\* What the parts of the state have to say about requests.
LEMMA SameRequests ==
    /\ UNCHANGED dial_queue => Queued' = Queued
    /\ UNCHANGED pending_errors => Failing' = Failing
    /\ UNCHANGED outbound_substreams =>
          Open' = Open /\ AwaitingOn' = AwaitingOn /\ Awaiting' = Awaiting /\ OneStream' = OneStream
    /\ UNCHANGED outcomes => Reported' = Reported
    /\ UNCHANGED requests => Issued' = Issued
BY DEF Queued, Failing, Open, AwaitingOn, Awaiting, OneStream, Reported, Issued

\* A substream is opened, left to close, or dropped.
LEMMA SubstreamOpened ==
    ASSUME Types, OneStream, NEW r \in Request, r \notin Open,
           outbound_substreams' = With(outbound_substreams, current_outbound_id,
                                       [st |-> "RequestPendingResponse", req |-> r])
    PROVE  /\ DOMAIN outbound_substreams' = DOMAIN outbound_substreams \cup {current_outbound_id}
           /\ Open' = Open \cup {r} /\ Awaiting' = Awaiting \cup {r} /\ OneStream'
<1> DEFINE D == DOMAIN outbound_substreams
           o == current_outbound_id
<1>1. o \notin D
  BY DEF Types
<1>2. /\ DOMAIN outbound_substreams' = D \cup {o}
      /\ outbound_substreams'[o] = [st |-> "RequestPendingResponse", req |-> r]
      /\ \A q \in D : outbound_substreams'[q] = outbound_substreams[q]
  BY <1>1 DEF With
<1> HIDE DEF o
<1>3. Open' = Open \cup {r}
  BY <1>2 DEF Open
<1>4. AwaitingOn' = AwaitingOn \cup {o}
  BY <1>2 DEF AwaitingOn
<1>5. Awaiting' = Awaiting \cup {r}
  BY <1>1, <1>2, <1>4 DEF Awaiting, AwaitingOn
<1>6. OneStream'
  BY <1>1, <1>2 DEF OneStream, Open
<1> QED
  BY <1>2, <1>3, <1>5, <1>6 DEF o

LEMMA SubstreamClosing ==
    ASSUME Types, OneStream, NEW o \in DOMAIN outbound_substreams,
           outbound_substreams' = [outbound_substreams EXCEPT ![o].st = "Closing"]
    PROVE  /\ DOMAIN outbound_substreams' = DOMAIN outbound_substreams
           /\ Open' = Open /\ Awaiting' = Awaiting \ {outbound_substreams[o].req} /\ OneStream'
<1> DEFINE D == DOMAIN outbound_substreams
<1>1. /\ DOMAIN outbound_substreams' = D
      /\ outbound_substreams'[o].st = "Closing"
      /\ \A q \in D : outbound_substreams'[q].req = outbound_substreams[q].req
      /\ \A q \in D \ {o} : outbound_substreams'[q].st = outbound_substreams[q].st
  BY DEF Types, OutboundSubstream
<1>2. Open' = Open
  BY <1>1 DEF Open
<1>3. AwaitingOn' = AwaitingOn \ {o}
  BY <1>1 DEF AwaitingOn
<1>4. Awaiting' = Awaiting \ {outbound_substreams[o].req}
  BY <1>1, <1>3 DEF Awaiting, AwaitingOn, OneStream
<1>5. OneStream'
  BY <1>1 DEF OneStream
<1> QED
  BY <1>1, <1>2, <1>4, <1>5

LEMMA SubstreamDropped ==
    ASSUME Types, OneStream, NEW o \in DOMAIN outbound_substreams,
           outbound_substreams' = Without(outbound_substreams, o)
    PROVE  /\ DOMAIN outbound_substreams' = DOMAIN outbound_substreams \ {o}
           /\ Open' = Open \ {outbound_substreams[o].req}
           /\ Awaiting' = Awaiting \ {outbound_substreams[o].req} /\ OneStream'
<1> DEFINE D == DOMAIN outbound_substreams
<1>1. /\ DOMAIN outbound_substreams' = D \ {o}
      /\ \A q \in D \ {o} : outbound_substreams'[q] = outbound_substreams[q]
  BY DEF Without
<1>2. Open' = Open \ {outbound_substreams[o].req}
  BY <1>1 DEF Open, OneStream
<1>3. AwaitingOn' = AwaitingOn \ {o}
  BY <1>1 DEF AwaitingOn
<1>4. Awaiting' = Awaiting \ {outbound_substreams[o].req}
  BY <1>1, <1>3 DEF Awaiting, AwaitingOn, OneStream
<1>5. OneStream'
  BY <1>1 DEF OneStream
<1> QED
  BY <1>1, <1>2, <1>4, <1>5

\* The request of a substream, by the state of the substream.
LEMMA SubstreamRequest ==
    ASSUME Types, OneStream, NEW o \in DOMAIN outbound_substreams
    PROVE  /\ outbound_substreams[o].req \in Request /\ outbound_substreams[o].req \in Open
           /\ outbound_substreams[o].st = "RequestPendingResponse" =>
                 outbound_substreams[o].req \in Awaiting
           /\ outbound_substreams[o].st # "RequestPendingResponse" =>
                 outbound_substreams[o].req \notin Awaiting
<1>1. outbound_substreams[o].req \in Request
  BY DEF Types, OutboundSubstream
<1> QED
  BY <1>1 DEF Open, Awaiting, AwaitingOn, OneStream

LEMMA Reports ==
    ASSUME Types, NEW r \in Request, NEW outcome \in OutcomeKind, report(r, outcome)
    PROVE  Reported' = Reported \cup {r}
<1>1. /\ outcomes'[r] # <<>>
      /\ \A q \in Request \ {r} : outcomes'[q] = outcomes[q]
  BY ReportType DEF Types
<1> QED
  BY <1>1 DEF Reported

\* Requests move between the places that they can be in, one at a time but
\* for a shutdown.
LEMMA OutboundStep ==
    ASSUME Types, Types', InboundInv, OutboundInv, [Next]_vars
    PROVE  OutboundInv'
<1>1. /\ OutboundBooks /\ Distinct(dial_queue) /\ DistinctFailed(pending_errors) /\ OneStream
      /\ Apart /\ OnlyIssued /\ QuietAtTimers /\ NotLost /\ FarewellOnly
  BY DEF OutboundInv, Once
<1>2. /\ pending_errors \in Seq(PendingError) /\ dial_queue \in Seq(Request)
      /\ dialing \subseteq Request /\ outcomes \in [Request -> Seq(OutcomeKind)]
      /\ requests \in Seq(Protocol) /\ Awaiting \subseteq Open
  BY DEF Types, Awaiting, AwaitingOn, Open
<1>3. ASSUME UNCHANGED <<dial_queue, dialing, outbound_substreams, outbound_delay,
                         requests, outcomes>>,
             InboundError, closed' = closed \/ closed' = TRUE,
             state' = state \/ state # "Active",
             pc' \in {"inbound_delay", "outbound_delay", "inbound"} => Failing = {}
      PROVE  OutboundInv'
  <2>1. Failing' = Failing /\ DistinctFailed(pending_errors')
    BY <1>1, <1>2, <1>3, InboundErrorKeeps
  <2>2. OutboundBooks' /\ Once'
    BY <1>1, <1>3, <2>1 DEF OutboundBooks, Once, OneStream
  <2>3. Apart' /\ OnlyIssued' /\ QuietAtTimers' /\ NotLost' /\ FarewellOnly'
    BY <1>1, <1>3, <2>1, SameRequests
       DEF Apart, OnlyIssued, QuietAtTimers, NotLost, FarewellOnly
  <2> QED
    BY <2>2, <2>3 DEF OutboundInv
<1>4. UNCHANGED pending_errors => InboundError
  BY DEF InboundError
<1>5. CASE Shutdown
  <2>1. PICK final \in {<<>>, <<Len(requests) + 1>>} :
          /\ shutdown(final)
          /\ \/ final = <<>> /\ UNCHANGED requests
             \/ /\ final = <<Len(requests) + 1>> /\ Len(requests) < MaxRequests
                /\ requests' = Append(requests, "Goodbye")
    BY <1>5 DEF Shutdown
  <2>2. /\ UNCHANGED <<dialing, outbound_substreams, outbound_delay, outcomes, closed, pc>>
        /\ pc = "idle"
    BY <2>1 DEF shutdown, streamVars, pollVars, Idle
  <2>3. /\ Issued \subseteq Issued' /\ Elems(final) \subseteq Issued' \ Issued
        /\ \A r \in Issued : requests'[r] = requests[r]
        /\ \A r \in Issued' \ Issued : requests'[r] = "Goodbye"
        /\ Distinct(final)
    <3>1. CASE final = <<>> /\ UNCHANGED requests
      BY <3>1, SameRequests DEF Elems, Distinct
    <3>2. CASE /\ final = <<Len(requests) + 1>> /\ Len(requests) < MaxRequests
               /\ requests' = Append(requests, "Goodbye")
      <4>1. "Goodbye" \in Protocol
        BY DEF Protocol
      <4>2. /\ Len(requests) + 1 \notin Issued /\ Issued' = Issued \cup {Len(requests) + 1}
            /\ requests'[Len(requests) + 1] = "Goodbye"
            /\ \A r \in Issued : requests'[r] = requests[r]
        BY <1>2, <3>2, <4>1, NextRequest
      <4>3. Elems(final) = {Len(requests) + 1} /\ Distinct(final)
        BY <3>2 DEF Elems, Distinct
      <4> QED
        BY <4>2, <4>3
    <3> QED
      BY <2>1, <3>1, <3>2
  <2>4. CASE state = "Active"
    <3>1. /\ dial_queue' = final /\ state' = "ShuttingDown"
          /\ pending_errors' = pending_errors \o rejected_queue
      BY <2>1, <2>4 DEF shutdown
    <3>2. Queued' = Elems(final)
      BY <3>1 DEF Queued
    <3>3. Failing \cap Queued = {}
      BY <1>1 DEF Apart
    <3>4. /\ Failing' = Failing \cup Queued
          /\ DistinctFailed(pending_errors')
      BY <1>1, <1>2, <3>1, <3>3, ErrorsReject DEF Failing, Queued
    <3>5. OutboundBooks' /\ Once'
      BY <1>1, <2>2, <2>3, <3>1, <3>4 DEF OutboundBooks, Once, OneStream
    <3>6. Apart' /\ OnlyIssued' /\ QuietAtTimers' /\ NotLost' /\ FarewellOnly'
      <4>1. Open' = Open /\ Awaiting' = Awaiting /\ Reported' = Reported
        BY <2>2, SameRequests
      <4>2. Apart' /\ OnlyIssued'
        BY <1>1, <1>2, <2>2, <2>3, <3>2, <3>4, <4>1 DEF Apart, OnlyIssued
      <4>3. NotLost'
        BY <1>1, <2>2, <2>3, <3>2, <3>4, <4>1 DEF NotLost
      <4>4. QuietAtTimers' /\ FarewellOnly'
        BY <2>2, <2>3, <3>2 DEF QuietAtTimers, FarewellOnly
      <4> QED
        BY <4>2, <4>3, <4>4
    <3> QED
      BY <3>5, <3>6 DEF OutboundInv
  <2>5. CASE state # "Active"
    <3>1. UNCHANGED <<dial_queue, state, pending_errors>>
      BY <2>1, <2>5 DEF shutdown
    <3>2. OutboundBooks' /\ Once'
      BY <1>1, <2>2, <3>1 DEF OutboundBooks, Once, OneStream
    <3>3. /\ Open' = Open /\ Awaiting' = Awaiting /\ Reported' = Reported /\ Queued' = Queued
          /\ Failing' = Failing
      BY <2>2, <3>1, SameRequests
    <3>4. Apart' /\ OnlyIssued'
      BY <1>1, <2>2, <2>3, <3>3 DEF Apart, OnlyIssued
    <3>5. NotLost'
      BY <1>1, <2>2, <2>3, <3>3 DEF NotLost
    <3>6. QuietAtTimers' /\ FarewellOnly'
      <4>1. Queued \subseteq Issued
        BY <1>1 DEF OnlyIssued
      <4> QED
        BY <1>1, <2>2, <2>3, <3>1, <3>3, <4>1 DEF QuietAtTimers, FarewellOnly
    <3> QED
      BY <3>2, <3>4, <3>5, <3>6 DEF OutboundInv
  <2> QED
    BY <2>4, <2>5

\* A request that is in no place goes to the queue or is rejected.
<1>6. ASSUME NEW r \in Request, enqueue(r), r \in Issued',
             r \notin Queued \cup Failing \cup Open \cup Reported, r \notin dialing',
             dialing' \subseteq dialing, dialing \ dialing' \subseteq {r},
             Issued' \subseteq Issued \cup {r}, Issued \subseteq Issued',
             \A q \in Issued : requests'[q] = requests[q],
             UNCHANGED <<outbound_substreams, outbound_delay, outcomes, closed, pc, state>>,
             pc = "idle"
      PROVE  OutboundInv'
  <2>1. Open' = Open /\ Awaiting' = Awaiting /\ Reported' = Reported
    BY <1>6, SameRequests
  <2>2. /\ Distinct(dial_queue') /\ DistinctFailed(pending_errors')
        /\ \/ Queued' = Queued \cup {r} /\ Failing' = Failing /\ state = "Active"
           \/ Queued' = Queued /\ Failing' = Failing \cup {r}
    <3>1. CASE state = "Active"
      BY <1>1, <1>2, <1>6, <3>1, QueueAppend DEF enqueue, Queued, Failing
    <3>2. CASE state # "Active"
      <4>1. LET e == OutErr(r, "HandlerRejected")
            IN  e \in PendingError /\ IsOut(e) /\ e.id = r
        BY ErrorTypes DEF OutErrorKind
      <4>2. /\ UNCHANGED dial_queue
            /\ pending_errors' = Append(pending_errors, OutErr(r, "HandlerRejected"))
        BY <1>6, <3>2 DEF enqueue
      <4>3. Failing' = Failing \cup {r} /\ DistinctFailed(pending_errors')
        BY <1>1, <1>2, <1>6, <4>1, <4>2, ErrorsAppend DEF Failing
      <4> QED
        BY <1>1, <4>2, <4>3, SameRequests
    <3> QED
      BY <3>1, <3>2
  <2>3. OutboundBooks' /\ Once'
    BY <1>1, <1>6, <2>2 DEF OutboundBooks, Once, OneStream
  <2>4. Apart' /\ OnlyIssued'
    BY <1>1, <1>2, <1>6, <2>1, <2>2 DEF Apart, OnlyIssued
  <2>5. NotLost'
    BY <1>1, <1>6, <2>1, <2>2 DEF NotLost
  <2>6. QuietAtTimers' /\ FarewellOnly'
    <3>1. Queued \subseteq Issued
      BY <1>1 DEF OnlyIssued
    <3> QED
      BY <1>1, <1>6, <2>2, <3>1 DEF QuietAtTimers, FarewellOnly
  <2> QED
    BY <2>3, <2>4, <2>5, <2>6 DEF OutboundInv
<1>7. ASSUME NEW proto \in OutProtocol, send_request(proto) PROVE OutboundInv'
  <2> DEFINE r == Len(requests) + 1
  <2>1. proto \in Protocol
    BY HandlerAssumption
  <2>2. /\ r \in Request /\ r \notin Issued /\ Issued' = Issued \cup {r}
        /\ \A q \in Issued : requests'[q] = requests[q]
    BY <1>2, <1>7, <2>1, NextRequest DEF send_request
  <2>3. /\ UNCHANGED <<dialing, outbound_substreams, outbound_delay, outcomes, closed, pc, state>>
        /\ pc = "idle" /\ enqueue(r)
    BY <1>7 DEF send_request, streamVars, pollVars, Idle
  <2>4. r \notin Queued \cup Failing \cup Open \cup Reported \cup dialing
    BY <1>1, <2>2 DEF OnlyIssued
  <2> HIDE DEF r
  <2> QED
    BY <1>6, <2>2, <2>3, <2>4
<1>8. ASSUME NEW r \in dialing, NEW error \in DialError, inject_dial_upgrade_error(r, error)
      PROVE  OutboundInv'
  <2>1. /\ UNCHANGED <<outbound_substreams, outbound_delay, requests, outcomes, closed, pc, state>>
        /\ pc = "idle" /\ dialing' = dialing \ {r} /\ r \in Request
    BY <1>2, <1>8 DEF inject_dial_upgrade_error, streamVars, pollVars, historyVars, Idle
  <2>2. r \in Issued /\ r \notin Queued \cup Failing \cup Open \cup Reported
    BY <1>1 DEF Apart, OnlyIssued
  <2>3. Open' = Open /\ Awaiting' = Awaiting /\ Reported' = Reported /\ Issued' = Issued
    BY <2>1, SameRequests
  <2>4. CASE retry(error)
    <3>1. enqueue(r)
      BY <1>8, <2>4 DEF inject_dial_upgrade_error
    <3> QED
      BY <1>6, <2>1, <2>2, <2>3, <3>1
  <2>5. CASE ~retry(error)
    <3>1. UNCHANGED dial_queue /\ pending_errors' = Append(pending_errors, OutErr(r, error))
      BY <1>8, <2>5 DEF inject_dial_upgrade_error
    <3>2. LET e == OutErr(r, error) IN e \in PendingError /\ IsOut(e) /\ e.id = r
      BY <2>1, ErrorTypes DEF OutErrorKind
    <3>3. /\ Failing' = Failing \cup {r} /\ DistinctFailed(pending_errors') /\ Queued' = Queued
      BY <1>1, <1>2, <2>2, <3>1, <3>2, ErrorsAppend, SameRequests DEF Failing
    <3>4. OutboundBooks' /\ Once'
      BY <1>1, <2>1, <3>1, <3>3 DEF OutboundBooks, Once, OneStream
    <3>5. Apart' /\ OnlyIssued' /\ QuietAtTimers' /\ NotLost' /\ FarewellOnly'
      BY <1>1, <1>2, <2>1, <2>2, <2>3, <3>3
         DEF Apart, OnlyIssued, QuietAtTimers, NotLost, FarewellOnly
    <3> QED
      BY <3>4, <3>5 DEF OutboundInv
  <2> QED
    BY <2>4, <2>5
<1>9. ASSUME NEW r \in dialing, inject_fully_negotiated_outbound(r) PROVE OutboundInv'
  <2>1. /\ UNCHANGED <<dial_queue, requests, outcomes, closed, pc, state>>
        /\ pc = "idle" /\ dialing' = dialing \ {r} /\ r \in Request
    BY <1>2, <1>9 DEF inject_fully_negotiated_outbound, pollVars, historyVars, Idle
  <2>2. r \in Issued /\ r \notin Queued \cup Failing \cup Open \cup Reported
    BY <1>1 DEF Apart, OnlyIssued
  <2>3. Queued' = Queued /\ Reported' = Reported /\ Issued' = Issued
    BY <2>1, SameRequests
  <2>4. CASE deactivated
    <3>1. /\ UNCHANGED <<outbound_substreams, outbound_delay>>
          /\ pending_errors' = Append(pending_errors, OutErr(r, "HandlerRejected"))
      BY <1>9, <2>4 DEF inject_fully_negotiated_outbound
    <3>2. LET e == OutErr(r, "HandlerRejected") IN e \in PendingError /\ IsOut(e) /\ e.id = r
      BY <2>1, ErrorTypes DEF OutErrorKind
    <3>3. /\ Failing' = Failing \cup {r} /\ DistinctFailed(pending_errors')
          /\ Open' = Open /\ Awaiting' = Awaiting
      BY <1>1, <1>2, <2>2, <3>1, <3>2, ErrorsAppend, SameRequests DEF Failing
    <3>4. OutboundBooks' /\ Once'
      BY <1>1, <2>1, <3>1, <3>3 DEF OutboundBooks, Once, OneStream
    <3>5. Apart' /\ OnlyIssued' /\ QuietAtTimers' /\ NotLost' /\ FarewellOnly'
      BY <1>1, <1>2, <2>1, <2>2, <2>3, <3>3
         DEF Apart, OnlyIssued, QuietAtTimers, NotLost, FarewellOnly
    <3> QED
      BY <3>4, <3>5 DEF OutboundInv
  <2>5. CASE ~deactivated /\ expected_responses(requests[r]) > 0
    <3>1. /\ UNCHANGED pending_errors
          /\ outbound_delay' = outbound_delay \cup {current_outbound_id}
          /\ outbound_substreams' = With(outbound_substreams, current_outbound_id,
                [st |-> "RequestPendingResponse", req |-> r])
      BY <1>9, <2>5 DEF inject_fully_negotiated_outbound
    <3>2. /\ DOMAIN outbound_substreams' = DOMAIN outbound_substreams \cup {current_outbound_id}
          /\ Open' = Open \cup {r} /\ Awaiting' = Awaiting \cup {r} /\ OneStream'
      BY <1>1, <2>1, <2>2, <3>1, SubstreamOpened
    <3>3. Failing' = Failing
      BY <3>1, SameRequests
    <3>4. OutboundBooks' /\ Once'
      BY <1>1, <2>1, <3>1, <3>2 DEF OutboundBooks, Once
    <3>5. Apart' /\ OnlyIssued' /\ QuietAtTimers' /\ NotLost' /\ FarewellOnly'
      BY <1>1, <1>2, <2>1, <2>2, <2>3, <3>2, <3>3
         DEF Apart, OnlyIssued, QuietAtTimers, NotLost, FarewellOnly
    <3> QED
      BY <3>4, <3>5 DEF OutboundInv
  <2>6. CASE ~deactivated /\ ~(expected_responses(requests[r]) > 0)
    <3>1. UNCHANGED <<pending_errors, outbound_substreams, outbound_delay>>
      BY <1>9, <2>6 DEF inject_fully_negotiated_outbound
    <3>2. requests[r] = "Goodbye"
      BY <2>6 DEF expected_responses
    <3>3. Failing' = Failing /\ Open' = Open /\ Awaiting' = Awaiting
      BY <3>1, SameRequests
    <3>4. OutboundBooks' /\ Once'
      BY <1>1, <2>1, <3>1 DEF OutboundBooks, Once, OneStream
    <3>5. Apart' /\ OnlyIssued' /\ QuietAtTimers' /\ NotLost' /\ FarewellOnly'
      BY <1>1, <1>2, <2>1, <2>2, <2>3, <3>2, <3>3
         DEF Apart, OnlyIssued, QuietAtTimers, NotLost, FarewellOnly
    <3> QED
      BY <3>4, <3>5 DEF OutboundInv
  <2> QED
    BY <2>4, <2>5, <2>6
<1>10. CASE poll_report_error
  <2> DEFINE e == Head(pending_errors)
  <2>1. /\ UNCHANGED <<dial_queue, dialing, outbound_substreams, outbound_delay, requests,
                       closed, pc, state>>
        /\ pc = "idle" /\ pending_errors # <<>> /\ pending_errors' = Tail(pending_errors)
        /\ IF IsOut(e) THEN report(e.id, e.error) ELSE UNCHANGED outcomes
    BY <1>10 DEF poll_report_error, dialVars, streamVars, pollVars, Idle, IsOut
  <2>2. /\ e \in PendingError /\ (IsOut(e) => e.id \in Failing)
        /\ DistinctFailed(pending_errors')
        /\ Failing' = IF IsOut(e) THEN Failing \ {e.id} ELSE Failing
    BY <1>1, <1>2, <2>1, ErrorsTail DEF Failing
  <2>3. Open' = Open /\ Awaiting' = Awaiting /\ Queued' = Queued /\ Issued' = Issued
    BY <2>1, SameRequests
  <2>4. OutboundBooks' /\ Once'
    BY <1>1, <2>1, <2>2 DEF OutboundBooks, Once, OneStream
  <2>5. CASE IsOut(e)
    <3>1. e.id \in Request /\ e.error \in OutcomeKind
      BY <2>2, <2>5 DEF PendingError, IsOut, OutErrorKind, OutcomeKind
    <3>2. Reported' = Reported \cup {e.id}
      BY <2>1, <2>5, <3>1, Reports
    <3> HIDE DEF e
    <3>3. Apart' /\ OnlyIssued' /\ QuietAtTimers' /\ NotLost' /\ FarewellOnly'
      BY <1>1, <2>1, <2>2, <2>3, <2>5, <3>2
         DEF Apart, OnlyIssued, QuietAtTimers, NotLost, FarewellOnly
    <3> QED
      BY <2>4, <3>3 DEF OutboundInv
  <2>6. CASE ~IsOut(e)
    <3>1. Reported' = Reported /\ Failing' = Failing
      BY <2>1, <2>2, <2>6, SameRequests
    <3>2. Apart' /\ OnlyIssued' /\ QuietAtTimers' /\ NotLost' /\ FarewellOnly'
      BY <1>1, <2>1, <2>3, <3>1
         DEF Apart, OnlyIssued, QuietAtTimers, NotLost, FarewellOnly
    <3> QED
      BY <2>4, <3>2 DEF OutboundInv
  <2> QED
    BY <2>5, <2>6
<1>11. ASSUME NEW o \in outbound_delay, poll_outbound_timeout(o) PROVE OutboundInv'
  <2> DEFINE r == outbound_substreams[o].req
  <2>1. o \in DOMAIN outbound_substreams
    BY <1>1 DEF OutboundBooks
  <2>2. /\ UNCHANGED <<dial_queue, dialing, pending_errors, requests, closed, state>>
        /\ pc = "outbound_delay" /\ pc' = "idle"
        /\ outbound_delay' = outbound_delay \ {o} /\ report(r, "StreamTimeout")
        /\ outbound_substreams' = Without(outbound_substreams, o)
    BY <1>11, <2>1 DEF poll_outbound_timeout, dialVars, reportVars, remove_outbound, return
  <2>3. r \in Request /\ r \in Open
    BY <1>1, <2>1, SubstreamRequest
  <2>4. Reported' = Reported \cup {r}
    BY <2>2, <2>3, Reports DEF OutcomeKind
  <2>5. /\ DOMAIN outbound_substreams' = DOMAIN outbound_substreams \ {o}
        /\ Open' = Open \ {r} /\ Awaiting' = Awaiting \ {r} /\ OneStream'
    BY <1>1, <2>1, <2>2, SubstreamDropped
  <2>6. Failing' = Failing /\ Queued' = Queued /\ Issued' = Issued /\ Failing = {}
    BY <1>1, <2>2, SameRequests DEF QuietAtTimers
  <2>7. OutboundBooks' /\ Once'
    BY <1>1, <2>2, <2>5 DEF OutboundBooks, Once
  <2> HIDE DEF r
  <2>8. Apart' /\ OnlyIssued' /\ QuietAtTimers' /\ NotLost' /\ FarewellOnly'
    BY <1>1, <2>2, <2>3, <2>4, <2>5, <2>6
       DEF Apart, OnlyIssued, QuietAtTimers, NotLost, FarewellOnly
  <2> QED
    BY <2>7, <2>8 DEF OutboundInv
<1>12. ASSUME NEW o \in todo, poll_outbound(o) PROVE OutboundInv'
  <2> DEFINE r == outbound_substreams[o].req
  <2>1. /\ UNCHANGED <<dial_queue, dialing, requests, closed, state>>
        /\ pc = "outbound" /\ o \in DOMAIN outbound_substreams
    BY <1>12 DEF poll_outbound, outbound_deactivated, outbound_response, outbound_failed,
                 outbound_pending, outbound_closed, Visiting, dialVars, Types
  <2>2. r \in Request /\ r \in Open
    BY <1>1, <2>1, SubstreamRequest
  <2>3. Queued' = Queued /\ Issued' = Issued
    BY <2>1, SameRequests
  <2>4. CASE outbound_deactivated(o)
    <3>1. /\ UNCHANGED <<outcomes, outbound_delay, pc>>
          /\ outbound_substreams[o].st = "RequestPendingResponse"
          /\ outbound_substreams' = [outbound_substreams EXCEPT ![o].st = "Closing"]
          /\ pending_errors' = Append(pending_errors, OutErr(r, "HandlerRejected"))
      BY <2>4 DEF outbound_deactivated, Visiting, done
    <3>2. r \in Awaiting
      BY <1>1, <2>1, <3>1, SubstreamRequest
    <3>3. /\ DOMAIN outbound_substreams' = DOMAIN outbound_substreams
          /\ Open' = Open /\ Awaiting' = Awaiting \ {r} /\ OneStream'
      BY <1>1, <2>1, <3>1, SubstreamClosing
    <3>4. LET e == OutErr(r, "HandlerRejected") IN e \in PendingError /\ IsOut(e) /\ e.id = r
      BY <2>2, ErrorTypes DEF OutErrorKind
    <3>5. r \notin Failing
      BY <1>1, <3>2 DEF Apart
    <3>6. Failing' = Failing \cup {r} /\ DistinctFailed(pending_errors')
      BY <1>1, <1>2, <3>1, <3>4, <3>5, ErrorsAppend DEF Failing
    <3>7. Reported' = Reported
      BY <3>1, SameRequests
    <3>8. OutboundBooks' /\ Once'
      BY <1>1, <2>1, <3>1, <3>3, <3>6 DEF OutboundBooks, Once
    <3> HIDE DEF r
    <3>9. Apart' /\ OnlyIssued' /\ QuietAtTimers' /\ NotLost' /\ FarewellOnly'
      BY <1>1, <2>1, <2>2, <2>3, <3>1, <3>2, <3>3, <3>6, <3>7
         DEF Apart, OnlyIssued, QuietAtTimers, NotLost, FarewellOnly
    <3> QED
      BY <3>8, <3>9 DEF OutboundInv
  <2>5. ASSUME NEW response \in Response, outbound_response(o, response) PROVE OutboundInv'
    <3>1. /\ UNCHANGED <<pending_errors, outbound_delay>> /\ pc' = "idle"
          /\ outbound_substreams[o].st = "RequestPendingResponse"
          /\ outbound_substreams' = [outbound_substreams EXCEPT ![o].st = "Closing"]
          /\ \E outcome \in OutcomeKind : report(r, outcome)
      BY <2>5 DEF outbound_response, Visiting, return, OutcomeKind
    <3>2. r \in Awaiting
      BY <1>1, <2>1, <3>1, SubstreamRequest
    <3>3. /\ DOMAIN outbound_substreams' = DOMAIN outbound_substreams
          /\ Open' = Open /\ Awaiting' = Awaiting \ {r} /\ OneStream'
      BY <1>1, <2>1, <3>1, SubstreamClosing
    <3>4. Reported' = Reported \cup {r} /\ Failing' = Failing
      BY <2>2, <3>1, Reports, SameRequests
    <3>5. OutboundBooks' /\ Once'
      BY <1>1, <2>1, <3>1, <3>3 DEF OutboundBooks, Once
    <3> HIDE DEF r
    <3>6. Apart' /\ OnlyIssued' /\ QuietAtTimers' /\ NotLost' /\ FarewellOnly'
      BY <1>1, <2>1, <2>2, <2>3, <3>1, <3>2, <3>3, <3>4
         DEF Apart, OnlyIssued, QuietAtTimers, NotLost, FarewellOnly
    <3> QED
      BY <3>5, <3>6 DEF OutboundInv
  <2>6. ASSUME NEW error \in {"IncompleteStream", "StreamError"}, outbound_failed(o, error)
        PROVE  OutboundInv'
    <3>1. /\ UNCHANGED pending_errors /\ pc' = "idle" /\ outbound_delay' = outbound_delay \ {o}
          /\ outbound_substreams[o].st = "RequestPendingResponse"
          /\ outbound_substreams' = Without(outbound_substreams, o)
          /\ \E outcome \in OutcomeKind : report(r, outcome)
      BY <2>6 DEF outbound_failed, drop_outbound, remove_outbound, Visiting, return, OutcomeKind
    <3>2. r \in Awaiting
      BY <1>1, <2>1, <3>1, SubstreamRequest
    <3>3. /\ DOMAIN outbound_substreams' = DOMAIN outbound_substreams \ {o}
          /\ Open' = Open \ {r} /\ Awaiting' = Awaiting \ {r} /\ OneStream'
      BY <1>1, <2>1, <3>1, SubstreamDropped
    <3>4. Reported' = Reported \cup {r} /\ Failing' = Failing
      BY <2>2, <3>1, Reports, SameRequests
    <3>5. OutboundBooks' /\ Once'
      BY <1>1, <2>1, <3>1, <3>3 DEF OutboundBooks, Once
    <3> HIDE DEF r
    <3>6. Apart' /\ OnlyIssued' /\ QuietAtTimers' /\ NotLost' /\ FarewellOnly'
      BY <1>1, <2>1, <2>2, <2>3, <3>1, <3>2, <3>3, <3>4
         DEF Apart, OnlyIssued, QuietAtTimers, NotLost, FarewellOnly
    <3> QED
      BY <3>5, <3>6 DEF OutboundInv
  <2>7. CASE outbound_pending(o)
    BY <1>3, <1>4, <2>1, <2>7 DEF outbound_pending, Visiting, done
  <2>8. CASE outbound_closed(o)
    <3>1. /\ UNCHANGED <<pending_errors, outcomes, pc>> /\ outbound_delay' = outbound_delay \ {o}
          /\ outbound_substreams[o].st = "Closing"
          /\ outbound_substreams' = Without(outbound_substreams, o)
      BY <2>8 DEF outbound_closed, drop_outbound, remove_outbound, Visiting, done
    <3>2. r \notin Awaiting
      BY <1>1, <2>1, <3>1, SubstreamRequest
    <3>3. /\ DOMAIN outbound_substreams' = DOMAIN outbound_substreams \ {o}
          /\ Open' = Open \ {r} /\ Awaiting' = Awaiting \ {r} /\ OneStream'
      BY <1>1, <2>1, <3>1, SubstreamDropped
    <3>4. Reported' = Reported /\ Failing' = Failing
      BY <3>1, SameRequests
    <3>5. OutboundBooks' /\ Once'
      BY <1>1, <2>1, <3>1, <3>3 DEF OutboundBooks, Once
    <3> HIDE DEF r
    <3>6. Apart' /\ OnlyIssued' /\ QuietAtTimers' /\ NotLost' /\ FarewellOnly'
      BY <1>1, <2>1, <2>2, <2>3, <3>1, <3>2, <3>3, <3>4
         DEF Apart, OnlyIssued, QuietAtTimers, NotLost, FarewellOnly
    <3> QED
      BY <3>5, <3>6 DEF OutboundInv
  <2> QED
    BY <1>12, <2>4, <2>5, <2>6, <2>7, <2>8 DEF poll_outbound
<1>13. CASE poll_dial
  <2>1. /\ UNCHANGED <<pending_errors, outbound_substreams, outbound_delay, requests, outcomes,
                       closed, state>>
        /\ pc' = "idle"
    BY <1>13 DEF poll_dial, return, reportVars, streamVars
  <2>2. CASE may_dial
    <3> DEFINE r == Head(dial_queue)
    <3>1. dial_queue' = Tail(dial_queue) /\ dialing' = dialing \cup {r} /\ dial_queue # <<>>
      BY <1>13, <2>2 DEF poll_dial, may_dial
    <3>2. r \in Queued /\ Queued' = Queued \ {r} /\ Distinct(dial_queue')
      BY <1>1, <1>2, <3>1, QueueTail DEF Queued
    <3>3. /\ Open' = Open /\ Awaiting' = Awaiting /\ Reported' = Reported /\ Failing' = Failing
          /\ Issued' = Issued
      BY <2>1, SameRequests
    <3>4. OutboundBooks' /\ Once'
      BY <1>1, <2>1, <3>2 DEF OutboundBooks, Once, OneStream
    <3> HIDE DEF r
    <3>5. Apart' /\ OnlyIssued' /\ QuietAtTimers' /\ NotLost' /\ FarewellOnly'
      BY <1>1, <2>1, <3>1, <3>2, <3>3
         DEF Apart, OnlyIssued, QuietAtTimers, NotLost, FarewellOnly
    <3> QED
      BY <3>4, <3>5 DEF OutboundInv
  <2>3. CASE ~may_dial
    BY <1>3, <1>4, <1>13, <2>1, <2>3 DEF poll_dial
  <2> QED
    BY <2>2, <2>3
<1>14. ASSUME NEW i \in todo, poll_inbound(i) PROVE OutboundInv'
  <2>1. /\ OutboundKept /\ InboundError /\ pc = "inbound" /\ state' = state
        /\ Moves(i) \/ Drops(i) \/ Breaks(i)
    BY <1>14, InboundDriven
  <2>2. closed' = closed \/ closed' = TRUE
    BY <2>1 DEF Moves, Drops, Breaks
  <2>3. Failing = {}
    BY <1>1, <2>1 DEF QuietAtTimers
  <2> QED
    BY <1>3, <2>1, <2>2, <2>3 DEF OutboundKept, dialVars
<1>15. ASSUME NEW i \in inbound_delay, poll_inbound_timeout(i) PROVE OutboundInv'
  <2>1. InboundError
    <3>1. CASE i \in DOMAIN inbound_substreams
      <4>1. i \in Nat /\ "StreamTimeout" \in InErrorKind
        BY <3>1, HandlerAssumption DEF Types, InErrorKind
      <4> QED
        BY <1>15, <3>1, <4>1 DEF poll_inbound_timeout, InboundError
    <3>2. CASE i \notin DOMAIN inbound_substreams
      BY <1>4, <1>15, <3>2 DEF poll_inbound_timeout
    <3> QED
      BY <3>1, <3>2
  <2> QED
    BY <1>1, <1>3, <1>15, <2>1
       DEF poll_inbound_timeout, dialVars, pollVars, historyVars, QuietAtTimers
<1>16. ASSUME NEW i \in DOMAIN inbound_substreams, NEW response \in Response,
              send_response(i, response)
       PROVE  OutboundInv'
  <2>1. InboundError
    <3>1. i \in Nat /\ "ErrorResponse" \in InErrorKind
      BY HandlerAssumption DEF Types, InErrorKind
    <3> QED
      BY <1>16, <3>1 DEF send_response, InboundError
  <2> QED
    BY <1>3, <1>16, <2>1 DEF send_response, dialVars, pollVars, Idle
<1>17. ASSUME NEW proto \in InProtocol, inject_fully_negotiated_inbound(proto) PROVE OutboundInv'
  BY <1>3, <1>4, <1>17
     DEF inject_fully_negotiated_inbound, dialVars, pollVars, historyVars, Idle
<1>18. ASSUME NEW elapsed \in BOOLEAN, poll_begin(elapsed) PROVE OutboundInv'
  <2>1. Failing = {}
    BY <1>18 DEF poll_begin, Failing, FailedIds
  <2>2. state' = state \/ state # "Active"
    BY <1>18 DEF poll_begin
  <2> QED
    BY <1>3, <1>4, <1>18, <2>1, <2>2 DEF poll_begin, dialVars, reportVars, historyVars
<1>19. CASE poll_report_event \/ poll_delay_error \/ connection_closed
  BY <1>3, <1>4, <1>19 DEF poll_report_event, poll_delay_error, connection_closed, streamVars,
                           dialVars, reportVars, pollVars, historyVars, return, Idle
<1>20. CASE poll_next_phase
  BY <1>1, <1>3, <1>4, <1>20
     DEF poll_next_phase, streamVars, dialVars, reportVars, historyVars, QuietAtTimers
<1>21. CASE UNCHANGED vars
  BY <1>1, <1>3, <1>4, <1>21
     DEF vars, streamVars, dialVars, reportVars, pollVars, historyVars, QuietAtTimers
<1> QED
  BY <1>5, <1>7, <1>8, <1>9, <1>10, <1>11, <1>12, <1>13, <1>14, <1>15, <1>16, <1>17, <1>18,
     <1>19, <1>20, <1>21
     DEF Next, DialOutcome, Poll

-----------------------------------------------------------------------------
(* The invariant                                                           *)

LEMMA HandlerStarts == Init => HandlerInv
<1> SUFFICES ASSUME Init PROVE HandlerInv
  OBVIOUS
<1> USE DEF Init
<1>1. /\ DOMAIN inbound_substreams = {} /\ DOMAIN outbound_substreams = {}
      /\ DOMAIN queued_outbound_items = {}
      /\ inbound_substreams \in [{} -> InboundSubstream]
      /\ outbound_substreams \in [{} -> OutboundSubstream]
      /\ queued_outbound_items \in [{} -> Seq(Response)]
  OBVIOUS
<1>2. /\ outcomes \in [Request -> Seq(OutcomeKind)] /\ \A r \in Request : outcomes[r] = <<>>
      /\ sent \in [InboundId -> Nat] /\ \A i \in InboundId : sent[i] = 0
  <2>1. <<>> \in Seq(OutcomeKind)
    OBVIOUS
  <2> QED
    BY <2>1 DEF Request, InboundId
<1>3. Types
  <2>1. /\ pending_errors \in Seq(PendingError) /\ events_out \in Seq(Nat)
        /\ dial_queue \in Seq(Request) /\ requests \in Seq(Protocol) /\ Len(requests) = 0
    OBVIOUS
  <2>2. /\ io_retries \in 0..IO_ERROR_RETRIES - 1 /\ current_inbound_id \in 0..MaxInbound
        /\ current_outbound_id \in Nat /\ 0 <= MaxRequests
    BY HandlerAssumption
  <2>3. /\ state \in HandlerState /\ keep_alive \in {"Yes", "Until"} /\ closed \in BOOLEAN
        /\ dialing = {} /\ dial_negotiated = 0 /\ pc = "idle"
    BY DEF HandlerState
  <2> HIDE DEF Init
  <2> QED
    BY <1>1, <1>2, <2>1, <2>2, <2>3 DEF Types
<1>4. DialsAccounted /\ KeepAliveSafe
  BY HandlerAssumption, FS_EmptySet DEF DialsAccounted, KeepAliveSafe
<1>5. InboundInv
  <2>1. DOMAIN sent = InboundId /\ inbound_delay = {}
    BY <1>2
  <2> HIDE DEF Init
  <2> QED
    BY <1>1, <1>2, <2>1 DEF InboundInv, InboundBooks, RespondsAtMostOnce
<1>6. Queued = {} /\ Failing = {} /\ Open = {} /\ Awaiting = {} /\ Reported = {} /\ Issued = {}
  <2>1. Len(dial_queue) = 0 /\ Len(pending_errors) = 0 /\ Len(requests) = 0
    OBVIOUS
  <2> HIDE DEF Init
  <2>2. Queued = {} /\ Failing = {} /\ Issued = {}
    BY <2>1 DEF Queued, Elems, Failing, FailedIds, Issued
  <2>3. Open = {} /\ Awaiting = {}
    BY <1>1 DEF Open, AwaitingOn, Awaiting
  <2> QED
    BY <1>2, <2>2, <2>3 DEF Reported
<1>7. OutboundBooks /\ Once
  BY <1>1 DEF OutboundBooks, Once, Distinct, DistinctFailed, OneStream
<1>8. OutboundInv
  BY <1>6, <1>7 DEF OutboundInv, Apart, OnlyIssued, QuietAtTimers, NotLost, FarewellOnly
<1> QED
  BY <1>3, <1>4, <1>5, <1>8 DEF HandlerInv

LEMMA HandlerStep == HandlerInv /\ [Next]_vars => HandlerInv'
<1> SUFFICES ASSUME HandlerInv, [Next]_vars PROVE HandlerInv'
  OBVIOUS
<1>1. Types /\ DialsAccounted /\ KeepAliveSafe /\ InboundInv /\ OutboundInv /\ OutboundBooks
  BY DEF HandlerInv, OutboundInv
<1>2. Types'
  BY <1>1, TypesStep
<1>3. DialsAccounted'
  BY <1>1, DialsStep
<1>4. KeepAliveSafe'
  BY <1>1, <1>2, <1>3, KeepAliveStep
<1>5. InboundInv'
  BY <1>1, <1>2, InboundStep
<1>6. OutboundInv'
  BY <1>1, <1>2, OutboundStep
<1> QED
  BY <1>2, <1>3, <1>4, <1>5, <1>6 DEF HandlerInv

\* The inductive invariant holds in every reachable state.
LEMMA HandlerInvariant == Spec => []HandlerInv
BY HandlerStarts, HandlerStep, PTL DEF Spec

-----------------------------------------------------------------------------
(* What it gives                                                           *)

\* Type correctness: what the queues and maps of the handler name was issued or
\* opened, dial_negotiated is no less than zero, and io_retries stays below
\* IO_ERROR_RETRIES.
THEOREM HandlerTypeCorrect == Spec => []HandlerTypeOK
<1>1. HandlerInv => HandlerTypeOK
  <2> SUFFICES ASSUME HandlerInv PROVE HandlerTypeOK
    OBVIOUS
  <2>1. Types /\ OnlyIssued /\ DialsAccounted
    BY DEF HandlerInv, OutboundInv
  <2>2. \A k \in 1..Len(pending_errors) : pending_errors[k].dir \in {"Inbound", "Outbound"}
    <3>1. \A k \in 1..Len(pending_errors) : pending_errors[k] \in PendingError
      BY <2>1 DEF Types
    <3> QED
      BY <3>1 DEF PendingError
  <2>3. /\ \A k \in 1..Len(dial_queue) : dial_queue[k] \in 1..Len(requests)
        /\ dialing \subseteq 1..Len(requests)
    BY <2>1 DEF OnlyIssued, Queued, Elems, Issued
  <2>4. dial_negotiated \in Nat
    BY <2>1, DialingFinite DEF Types, DialsAccounted
  <2>5. \A i \in DOMAIN inbound_substreams :
           i < current_inbound_id /\ inbound_substreams[i].st \in InboundSubstreamState
    BY <2>1 DEF Types, InboundSubstream
  <2>6. \A o \in DOMAIN outbound_substreams :
           /\ o < current_outbound_id /\ outbound_substreams[o].st \in OutboundSubstreamState
           /\ outbound_substreams[o].req \in 1..Len(requests)
    <3>1. \A o \in DOMAIN outbound_substreams : outbound_substreams[o].req \in 1..Len(requests)
      BY <2>1 DEF OnlyIssued, Open, Issued
    <3> QED
      BY <2>1, <3>1 DEF Types, OutboundSubstream
  <2>7. \A r \in Request : \A k \in DOMAIN outcomes[r] : outcomes[r][k] \in OutcomeKind
    <3>1. \A r \in Request : outcomes[r] \in Seq(OutcomeKind)
      BY <2>1 DEF Types
    <3> QED
      BY <3>1
  <2> QED
    BY <2>1, <2>2, <2>3, <2>4, <2>5, <2>6, <2>7 DEF HandlerTypeOK, Types
<1> QED
  BY <1>1, HandlerInvariant, PTL

\* The two maps of outbound substreams and of their timers never disagree.
THEOREM HandlerOutboundBooks == Spec => []OutboundBooks
<1>1. HandlerInv => OutboundBooks
  BY DEF HandlerInv, OutboundInv
<1> QED
  BY <1>1, HandlerInvariant, PTL

\* The timers and the queues of responses belong to inbound substreams.
THEOREM HandlerInboundBooks == Spec => []InboundBooks
<1>1. HandlerInv => InboundBooks
  BY DEF HandlerInv, InboundInv
<1> QED
  BY <1>1, HandlerInvariant, PTL

\* The peer gets at most one response to each of its requests.
THEOREM HandlerRespondsAtMostOnce == Spec => []RespondsAtMostOnce
<1>1. HandlerInv => RespondsAtMostOnce
  BY DEF HandlerInv, InboundInv
<1> QED
  BY <1>1, HandlerInvariant, PTL

\* dial_negotiated covers what the swarm is opening, within its limit.
THEOREM HandlerDialsAccounted == Spec => []DialsAccounted
<1>1. HandlerInv => DialsAccounted
  BY DEF HandlerInv
<1> QED
  BY <1>1, HandlerInvariant, PTL

\* A connection that may be given up carries no dial and no substream.
THEOREM HandlerKeepAliveSafe == Spec => []KeepAliveSafe
<1>1. HandlerInv => KeepAliveSafe
  BY DEF HandlerInv
<1> QED
  BY <1>1, HandlerInvariant, PTL

\* Where a request is, in the words of the properties.
LEMMA WhereRequest ==
    ASSUME Types, NEW r \in Request
    PROVE  Outstanding(r) <=> r \in Queued \cup dialing \cup Awaiting \cup Failing
<1>1. (\E k \in 1..Len(dial_queue) : dial_queue[k] = r) <=> r \in Queued
  BY DEF Queued, Elems
<1>2. (\E k \in 1..Len(pending_errors) :
          pending_errors[k].dir = "Outbound" /\ pending_errors[k].id = r) <=> r \in Failing
  BY DEF Failing, FailedIds, IsOut
<1>3. \A o \in DOMAIN outbound_substreams :
         outbound_substreams[o] = [st |-> "RequestPendingResponse", req |-> r] <=>
         outbound_substreams[o].st = "RequestPendingResponse" /\ outbound_substreams[o].req = r
  BY DEF Types, OutboundSubstream
<1>4. (\E o \in DOMAIN outbound_substreams :
          outbound_substreams[o] = [st |-> "RequestPendingResponse", req |-> r])
      <=> r \in Awaiting
  BY <1>3 DEF Awaiting, AwaitingOn
<1> QED
  BY <1>1, <1>2, <1>4 DEF Outstanding

\* No path through the handler loses a request.
THEOREM HandlerNoRequestLost == Spec => []NoRequestLost
<1>1. HandlerInv => NoRequestLost
  <2> SUFFICES ASSUME HandlerInv, NEW r \in 1..Len(requests), ~closed, requests[r] # "Goodbye"
               PROVE  Outstanding(r) \/ outcomes[r] # <<>>
    BY DEF NoRequestLost
  <2>1. Types /\ NotLost
    BY DEF HandlerInv, OutboundInv
  <2>2. r \in Request /\ r \in Issued
    BY <2>1, HandlerAssumption DEF Types, Request, Issued
  <2>3. r \in Queued \cup dialing \cup Awaiting \cup Failing \cup Reported
    BY <2>1, <2>2 DEF NotLost
  <2> QED
    BY <2>1, <2>2, <2>3, WhereRequest DEF Reported
<1> QED
  BY <1>1, HandlerInvariant, PTL

LEMMA AtMostOne ==
    ASSUME NEW S, \A x, y \in S : x = y
    PROVE  Cardinality(S) = IF S = {} THEN 0 ELSE 1
<1>1. CASE S = {}
  BY <1>1, FS_EmptySet
<1>2. CASE S # {}
  <2>1. PICK x \in S : S = {x}
    BY <1>2
  <2> QED
    BY <1>2, <2>1, FS_Singleton
<1> QED
  BY <1>1, <1>2

\* A request is in one place, and in none once it has an outcome.
THEOREM HandlerOnePlace == Spec => []OnePlace
<1>1. HandlerInv => OnePlace
  <2> SUFFICES ASSUME HandlerInv, NEW r \in 1..Len(requests)
               PROVE  OnePlace!(r)
    BY DEF OnePlace
  <2> DEFINE InQueue  == {k \in 1..Len(dial_queue) : dial_queue[k] = r}
             OnStream == {o \in DOMAIN outbound_substreams : outbound_substreams[o] =
                             [st |-> "RequestPendingResponse", req |-> r]}
             InErrors == {k \in 1..Len(pending_errors) :
                             pending_errors[k].dir = "Outbound" /\ pending_errors[k].id = r}
  <2>1. Types /\ Once /\ Apart
    BY DEF HandlerInv, OutboundInv
  <2>2. r \in Request
    BY <2>1, HandlerAssumption DEF Types, Request
  <2>3. Cardinality(InQueue) = IF r \in Queued THEN 1 ELSE 0
    <3>1. \A j, k \in InQueue : j = k
      BY <2>1 DEF Once, Distinct
    <3>2. InQueue = {} <=> r \notin Queued
      BY DEF Queued, Elems
    <3> HIDE DEF InQueue
    <3> QED
      BY <3>1, <3>2, AtMostOne
  <2>4. Cardinality(InErrors) = IF r \in Failing THEN 1 ELSE 0
    <3>1. \A j, k \in InErrors : j = k
      BY <2>1 DEF Once, DistinctFailed, IsOut
    <3>2. InErrors = {} <=> r \notin Failing
      BY DEF Failing, FailedIds, IsOut
    <3> HIDE DEF InErrors
    <3> QED
      BY <3>1, <3>2, AtMostOne
  <2>5. Cardinality(OnStream) = IF r \in Awaiting THEN 1 ELSE 0
    <3>1. \A o \in DOMAIN outbound_substreams :
             o \in OnStream <=> outbound_substreams[o].st = "RequestPendingResponse"
                                /\ outbound_substreams[o].req = r
      BY <2>1 DEF Types, OutboundSubstream
    <3>2. OnStream \subseteq DOMAIN outbound_substreams
      OBVIOUS
    <3> HIDE DEF OnStream
    <3>3. \A o, q \in OnStream : o = q
      BY <2>1, <3>1, <3>2 DEF Once, OneStream
    <3>4. OnStream = {} <=> r \notin Awaiting
      BY <3>1, <3>2 DEF Awaiting, AwaitingOn
    <3> QED
      BY <3>3, <3>4, AtMostOne
  <2>6. Awaiting \subseteq Open
    BY DEF Awaiting, AwaitingOn, Open
  <2> HIDE DEF InQueue, OnStream, InErrors
  <2>7. Cardinality(InQueue) + (IF r \in dialing THEN 1 ELSE 0) + Cardinality(OnStream)
        + Cardinality(InErrors) <= 1
    BY <2>1, <2>3, <2>4, <2>5, <2>6 DEF Apart
  <2>8. outcomes[r] # <<>> => ~Outstanding(r)
    BY <2>1, <2>2, WhereRequest DEF Apart, Reported
  <2> QED
    BY <2>7, <2>8 DEF InQueue, OnStream, InErrors
<1> QED
  BY <1>1, HandlerInvariant, PTL

-----------------------------------------------------------------------------
(* What no step does                                                       *)

\* Once shut down, the handler dials nothing but a Goodbye.
THEOREM HandlerOnlyFarewellDialled == Spec => OnlyFarewellDialled
<1>1. HandlerInv /\ [Next]_vars =>
         [state # "Active" => \A r \in dialing' \ dialing : requests[r] = "Goodbye"]_vars
  <2> SUFFICES ASSUME HandlerInv, Next, state # "Active", NEW r \in dialing' \ dialing
               PROVE  requests[r] = "Goodbye"
    OBVIOUS
  <2>1. Types /\ FarewellOnly
    BY DEF HandlerInv, OutboundInv
  <2>2. poll_dial
    BY DEF Next, DialOutcome, Poll, Shutdown, shutdown, send_request, send_response,
           inject_fully_negotiated_inbound, inject_fully_negotiated_outbound,
           inject_dial_upgrade_error, poll_report_error, poll_report_event, poll_begin,
           poll_inbound_timeout, poll_outbound_timeout, poll_delay_error, poll_next_phase,
           poll_inbound, drive_pending_send, drive_pending_flush, drive_idle, drive_closing,
           Driving, poll_outbound, outbound_deactivated, outbound_response, outbound_failed,
           outbound_pending, outbound_closed, Visiting, connection_closed, dialVars
  <2>3. dial_queue # <<>> /\ r = Head(dial_queue)
    BY <2>2 DEF poll_dial, may_dial
  <2>4. r \in Queued
    BY <2>1, <2>3, QueueTail DEF Types, Queued
  <2> QED
    BY <2>1, <2>4 DEF FarewellOnly
<1> QED
  BY <1>1, HandlerInvariant, PTL DEF Spec, OnlyFarewellDialled

\* An outcome of the handler's own making is no response.
LEMMA ReportsNoResponse ==
    ASSUME Types, NEW r \in Request, NEW outcome \in OutcomeKind \ {"Response", "ErrorResponse"},
           report(r, outcome)
    PROVE  \A q \in Request : Responses(q)' = Responses(q)
<1> SUFFICES ASSUME NEW q \in Request PROVE Responses(q)' = Responses(q)
  OBVIOUS
<1>1. outcomes \in [Request -> Seq(OutcomeKind)] /\ outcomes[r] \in Seq(OutcomeKind)
  BY DEF Types
<1>2. CASE q # r
  BY <1>1, <1>2 DEF report, Responses
<1>3. CASE q = r
  <2> DEFINE s == outcomes[r]
             t == Append(s, outcome)
  <2>1. outcomes'[r] = t
    BY <1>1 DEF report
  <2>2. /\ DOMAIN s = 1..Len(s) /\ DOMAIN t = 1..Len(s) + 1 /\ Len(s) \in Nat
        /\ t[Len(s) + 1] = outcome /\ \A k \in 1..Len(s) : t[k] = s[k]
    BY <1>1
  <2> HIDE DEF s, t
  <2>3. 1..Len(s) + 1 = 1..Len(s) \cup {Len(s) + 1}
    BY <2>2
  <2>4. {k \in DOMAIN t : t[k] \in {"Response", "ErrorResponse"}} =
        {k \in DOMAIN s : s[k] \in {"Response", "ErrorResponse"}}
    BY <2>2, <2>3
  <2> QED
    BY <1>3, <2>1, <2>4 DEF Responses, s
<1> QED
  BY <1>2, <1>3

\* A deactivated handler writes no response and reports none.
THEOREM HandlerDeactivatedSilent == Spec => DeactivatedSilent
<1> DEFINE Silent == /\ sent' = sent
                     /\ \A r \in Request : Responses(r)' = Responses(r)
<1>1. ASSUME HandlerInv, [Next]_vars, state = "Deactivated" PROVE Silent
  <2>1. Types /\ InboundInv /\ OutboundBooks /\ deactivated
    BY <1>1 DEF HandlerInv, OutboundInv, deactivated
  <2>2. UNCHANGED <<sent, outcomes>> => Silent
    BY DEF Responses
  <2>3. ASSUME UNCHANGED sent, NEW r \in Request,
               NEW outcome \in OutcomeKind \ {"Response", "ErrorResponse"}, report(r, outcome)
        PROVE  Silent
    BY <2>1, <2>3, ReportsNoResponse
  <2> HIDE DEF Silent
  <2>4. CASE poll_report_error
    <3>1. /\ UNCHANGED sent /\ pending_errors # <<>>
          /\ IF IsOut(Head(pending_errors))
             THEN report(Head(pending_errors).id, Head(pending_errors).error)
             ELSE UNCHANGED outcomes
      BY <2>4 DEF poll_report_error, IsOut
    <3>2. Head(pending_errors) \in PendingError
      BY <2>1, <3>1, ErrorsTail DEF Types
    <3>3. IsOut(Head(pending_errors)) =>
             /\ Head(pending_errors).id \in Request
             /\ Head(pending_errors).error \in OutcomeKind \ {"Response", "ErrorResponse"}
      BY <3>2, HandlerAssumption DEF IsOut, PendingError, OutErrorKind, OutcomeKind
    <3> QED
      BY <2>2, <2>3, <3>1, <3>3
  <2>5. ASSUME NEW o \in outbound_delay, poll_outbound_timeout(o) PROVE Silent
    <3>1. o \in DOMAIN outbound_substreams /\ outbound_substreams[o].req \in Request
      BY <2>1 DEF OutboundBooks, Types, OutboundSubstream
    <3>2. UNCHANGED sent /\ report(outbound_substreams[o].req, "StreamTimeout")
      BY <2>5, <3>1 DEF poll_outbound_timeout
    <3> QED
      BY <2>3, <3>1, <3>2 DEF OutcomeKind
  <2>6. ASSUME NEW i \in todo, poll_inbound(i) PROVE Silent
    <3>1. OutboundKept /\ (Moves(i) \/ Drops(i) \/ Breaks(i))
      BY <2>1, <2>6, InboundDriven
    <3>2. sent' = sent
      BY <2>1, <3>1 DEF Moves, Drops, Breaks
    <3> QED
      BY <2>2, <3>1, <3>2 DEF OutboundKept
  <2>7. ASSUME NEW o \in todo, poll_outbound(o) PROVE Silent
    BY <2>1, <2>2, <2>7 DEF poll_outbound, outbound_deactivated, outbound_response,
                            outbound_failed, outbound_pending, outbound_closed, Visiting
  <2> USE DEF historyVars
  <2>8. CASE \/ Shutdown \/ poll_report_event \/ poll_delay_error \/ poll_next_phase
             \/ poll_dial \/ connection_closed \/ UNCHANGED vars
    BY <2>2, <2>8 DEF Shutdown, shutdown, poll_report_event, poll_delay_error, poll_next_phase,
                      poll_dial, connection_closed, vars
  <2>9. /\ \A proto \in OutProtocol : send_request(proto) => Silent
        /\ \A i \in DOMAIN inbound_substreams, response \in Response :
              send_response(i, response) => Silent
        /\ \A proto \in InProtocol : inject_fully_negotiated_inbound(proto) => Silent
    BY <2>2 DEF send_request, send_response, inject_fully_negotiated_inbound
  <2>10. \A r \in dialing :
            /\ inject_fully_negotiated_outbound(r) => Silent
            /\ \A error \in DialError : inject_dial_upgrade_error(r, error) => Silent
    BY <2>2 DEF inject_fully_negotiated_outbound, inject_dial_upgrade_error
  <2>11. /\ \A elapsed \in BOOLEAN : poll_begin(elapsed) => Silent
         /\ \A i \in inbound_delay : poll_inbound_timeout(i) => Silent
    BY <2>2 DEF poll_begin, poll_inbound_timeout
  <2> QED
    BY <1>1, <2>4, <2>5, <2>6, <2>7, <2>8, <2>9, <2>10, <2>11 DEF Next, DialOutcome, Poll
<1>2. HandlerInv /\ [Next]_vars => [state = "Deactivated" => Silent]_vars
  BY <1>1
<1> QED
  BY <1>2, HandlerInvariant, PTL DEF Spec, DeactivatedSilent

=============================================================================
