# A TLA+ verification of mothra

mothra is a peer-to-peer networking library: a libp2p node with discovery
(discv5), gossip, and a request/response protocol (RPC), used by clients in Rust
or, through a C interface, in other languages. This directory holds TLA+ models
of the parts with logic of their own, TLC configurations that check them on
small instances, and TLAPS proofs that hold for every instance.

Paths below are relative to `core/network/src/` unless they start with `core/`.

## Inventory

| Component | State | Operations | Talks to | Hard parts | Correct when |
|---|---|---|---|---|---|
| Peer database `peer_manager/peerdb.rs`, `peer_info.rs` | map of peers to status, connection counts, reputation, min_ttl, metadata; the number of disconnected peers | one setter per event, eviction of the worst disconnected peer | peer manager, service, accessors through a lock | a counter kept beside the map, u8 ranges, a table at its limit | the count is exact, the table bounded, the worst goes first, bans last |
| Timer sets `hashset_delay.rs` | map of keys to slots of a delay queue, and the queue | insert, update, remove, retain, clear, poll | peer manager | two structures changed one after the other, reused slots | a set of keys with one deadline each |
| Discovery `discovery/mod.rs` | queue of queries, running queries, flag, ENR cache | ask for peers, start, poll | discv5, peer manager | a loop that puts back what it takes out; a flag to reset on every outcome | the loop ends, one query at a time, peers are sought while there are too few |
| Peer manager `peer_manager/mod.rs` | ping and status timers, queue of events | connection, disconnection, RPC error, discovered peers, heartbeat, timers | database, discovery, behaviour | decisions on a database that changes later | timers and database agree with the swarm |
| Network service `service.rs` | swarm, timers of bans | one reaction per swarm event, ban, unban | libp2p, peer manager, client | late and reordered events, two timers per ban | the database follows the swarm; bans begin, last and end |
| Behaviour `behaviour/mod.rs` | queues of events and of peers to disconnect | dispatch of RPC, gossip, identify and peer manager events | everything above | messages of peers that are gone | messages reach the right component |
| RPC handler `rpc/handler.rs`, `behaviour/handler/` | per connection: substreams both ways with timers, dial queue, queues of reports, keep-alive, shutdown state | calls of the connection, `poll()` | behaviour, libp2p connection | timeouts against responses, retries, shutdown, a large `poll()` that returns early | no request lost, answered once, books and timers match, no idle connection for ever |
| Request table `core/src/mothra.rs` | 256 ids, an AtomicU8, a channel | store, answer, free | behaviour, client thread | answers out of order, twice, wrap-around | an answer goes to its request, at most once |
| RPC codec `rpc/codec/`, `rpc/protocol.rs` | per substream and half: buffer, length and response code read so far | encode, decode, the upgrades of both sides | handler, libp2p substream | bytes cut anywhere, limits, errors half way through a message, a peer that lets go | what was encoded is decoded, or an error is reported for a reason; nobody waits for ever |
| ENR store `discovery/enr.rs`, `load_private_key` | two files, the record in use, its sequence number | load or build, save | discovery, service | killed between truncating and writing, changed configuration, updates during a save | one identity, no number for two records, changes reach the disk |
| C interface, executor, configuration | see PROJECT.json | | | | not modelled |

The service, peer manager, behaviour and request table run in one tokio task;
each connection's handler runs in the swarm's; the client runs on its own
thread and is reached by calls and an unbounded channel. So interleaving is
between *reactions*, each of which is atomic, and that is what an action is here.

`hazards` in PROJECT.json lists what is hard to test in this code, at its
line, with the property that watches it.

## Modules

```
DelaySet <== HashSetDelay <-- HashSetDelay_proofs      (<== is refined by)
PeerDB <-- PeerDB_proofs
PeerDB, Discovery <-- PeerManager <-- Service <-- Service_proofs
Requests <-- Requests_proofs
Requests <-- Behaviour <-- Behaviour_proofs            (which uses Requests_proofs)
RPCHandler <-- RPCHandler_proofs
EnrStore <-- EnrStore_proofs
RPCCodec <-- RPCStream <-- RPCStream_proofs            RPCCall <== RPCStream
MCPeerDB, MCHashSetDelay, MCService, MCRPCHandler, MCRequests, MCBehaviour,
MCRPCStream, MCEnrStore: instances for TLC
```

**PeerDB** (`peerdb.rs`, `peer_info.rs`). `peers` is a function on the known
peers, `n_dc` the counter, `panicked` records an `unwrap()` that fails. One
action per setter; `disconnect` includes the trailing `shrink_to_fit`. Instants
are left out except `min_ttl`, the only one that is compared. Connection counts
are u8 in the code and `U8` values here. `ban` and `set_reputation` are only called by tests, but
are operations of the database and are kept in its own model; the service never
takes them.

**HashSetDelay** and **DelaySet** (`hashset_delay.rs`). The concrete module has
the map, the delay queue (external: slots are handed out in any order and
reused) and a clock. DelaySet is what users rely on. `ImplementsDelaySet` maps
the deadline of a key to the one in its slot; it is what allows PeerManager to treat
a `HashSetDelay` as a set of keys.

**Discovery** (`discovery/mod.rs`). The queue, the number of active queries and
`find_peer_active`. `poll` is one call of `poll()`; discv5 decides the outcome.
`Spins` describes the state in which the `while` of `process_queue` never ends.

**PeerManager** (`peer_manager/mod.rs`) adds timers and the queue of events.
`poll_next` of the source handles all that is due in one call and then returns
one event; the model has one action per due item (`heartbeat`,
`poll_discovery`, `ping_elapsed`, `status_elapsed`) and `custom_poll` takes one
event. Every run of the source's loop is a sequence of these actions, and other
reactions may come in between, so the model allows more orders than the code.
`heartbeat`, timers and events do not depend on the clock: a timer may elapse at any
time.

**Service** (`service.rs`, `behaviour/mod.rs`) composes them with the swarm,
which is external and modelled from how it is used: one connection per peer,
`DialPeerCondition::Disconnected`, addresses tried one after the other with a
report for each failure, no `Dialing` event for `dial_addr`, banned peers
refused. A Dial and the `Dialing` event that the swarm answers with in the same
poll are one action. A `Goodbye` of a peer is an operation of RPCHandler
(`Shutdown`); what the service sees of it is a later `connection_closed`.

**RPCHandler** (`rpc/handler.rs`). A connection's handler. `pc` is the place in
`poll()`: each phase of it (report, timers, inbound loop, outbound loop, dial) is
a set of actions, and an early return sets `pc` to idle, which is when the
connection may call in. The outcome of each operation on a substream is a
choice. Requests are numbers; `outcomes` and `sent` are history variables that
no action reads. All protocols of this version expect at most
one response, so the branch for several chunks is unreachable and left out.

**Requests** (`core/src/mothra.rs`). The table, the counter modulo its length,
the channel, and two kinds of client: one that calls `rpc_response` and one that
sends the message with the index it was given. `sent` is a history variable.

**Behaviour** (`behaviour/mod.rs`, `rpc/mod.rs`) extends Requests with the way
a request takes from a connection to the client and its answer takes back.
`pc` is where the one task is: asleep, in the swarm, in the loop over the RPC
behaviour, or in `custom_poll`. Queues are served in a fixed order (RPC events,
peers to disconnect, the peer manager, events for the client), and after `Poll::Pending` the
task sleeps until something wakes it, even if `custom_poll` has put a Ping into
a queue that had its turn before. The swarm is external: one connection per
peer, a new `ConnectionId` for a peer that comes back. If the client's answer names another peer than
the connection belongs to, which `rpc_response` can bring about, the model lets the
swarm deliver it or not. Timeouts of substreams are in RPCHandler.

**RPCCodec** (`rpc/codec/`) defines what both sides encode and decode. Bytes are
numbers with no mark of their role, so a decoder that starts at the wrong place
misreads what follows; the varint and the snappy framing are external and written out
as far as lengths go, without compression. What an encoder loops over is a recursive
function or a closed form (the blocks of `FrameEncoder`), so that it can be proved about.
**RPCStream** (`rpc/protocol.rs`,
the parts of `rpc/handler.rs` that read and write) runs them over one substream: any
number of bytes is written or read at a time, either side may give up, the connection may break.
**RPCCall** is what a call promises, without bytes; `ImplementsCall` shows that
RPCStream implements it. RPCHandler takes a decoded message or an error as one outcome;
this refinement is what justifies that.

**EnrStore** (`discovery/enr.rs`, `load_private_key` in `service.rs`, the
`SocketUpdated` event of `discovery/mod.rs`). Starting a node is a sequence of
steps; a file is truncated in one and written in the next, and `stop` kills the
process between any two. `disturbed` records that a disk operation failed or
that the process died while the record on disk was behind: two of the
properties hold only without it. The udp port is treated by the code as the
address is, and one of them is enough.

## Runs

A passing run of TLC covers every reachable state of its instance.

| Run | Checks | Instance and why |
|---|---|---|
| peerdb | PDBTypeOK, DisconnectedConsistency, DisconnectedBounded, ForgetsOnlyTheWorst, BanSurvivesDisconnect, MinTtlNeverShrinks | 3 peers, room for 2: the third disconnected one leads to an eviction, with reputations 0, 50 and 250 and ties to choose among; counters with 2 values overflow |
| timers | OneTimerEach, ImplementsDelaySet | 3 keys, 3 slots, durations 0 to 2, time to 3: slots are reused by other keys |
| service_connections | DatabaseNotAhead, NoZombiePings, QueriesInStep, PDBSpec | 2 peers, 1 dialled at start-up, 2 addresses each, room for 1 disconnected peer, 2 waiting events, so that one answer of discovery asks for two dials |
| service_liveness | ServiceTypeOK, DialingEnds, PeersSought, BansEnd | 1 peer, 2 addresses, 2 bans that may overlap, reported as closed or not, an error that sets the reputation to 0; fairness |
| handler_substreams | HandlerTypeOK, NoRequestLost, OnePlace, OutboundBooks, DialsAccounted, InboundBooks, KeepAliveSafe, OnlyFarewellDialled, DeactivatedSilent | 2 requests of ours on 2 slots with 2 attempts, dials that fail for good or may be tried again, a request of the peer with 2 responses to it, shutdown with and without a last message: everything a connection can be busy with at once. A second request of the peer has the same code and its own substream (checked with one response: 12 million states, too many for a regular run) |
| handler_liveness | RespondsAtMostOnce, RequestsAnswered, IdleEnds | 2 requests on 1 slot so that one waits, no IO error, 1 request of the peer (one that is answered and one that is not), 2 responses so that the second meets a substream that closes or times out; fairness |
| dispatch | RequestsTypeOK, AnsweredAtMostOnce, ResponsesMatch, PeersServed | 2 peers, 2 connections (two peers, or one that comes back), 2 requests for Ping, Goodbye or Status, a table of 2 whose counter wraps around, both kinds of client with repeated answers, 1 timer, gossip message or request of ours; fairness |
| codec | StreamTypeOK, ImplementsCall, CallEnds | limit 5 and data of 0 to 6 bytes, blocks of 2 bytes so that there are up to 3, lengths in base 2 so that they take up to 3 bytes, every cut; a protocol with data, one without a response, one without data; fairness |
| enr_store | EnrStoreTypeOK, SeqNeverReused, OneIdentity, StartsAsConfigured, UpdatesReachDisk | 3 starts, 2 addresses or none configured, 2 ports, 2 updates so that one falls into the save of the other, numbers up to 4 so that they run out, a disk that may fail; fairness |

Bounds (`MaxEvents`, `MaxBans`, `MaxAddrs`, `MaxRequests`, `MaxInbound`,
`MaxResponses`, `MaxPending`, `MaxConns`, `MaxInputs`, `MaxLen`, `MaxStarts`,
`MaxUpdates`, `Horizon`) are constants and appear in guards only. No
component treats one peer, request or key differently from another, and the
properties speak of at most two at a time; what is proved holds without the
bounds.

`CHECK_DEADLOCK FALSE` is set throughout: bounded instances run out of
requests, a closed connection does nothing more, and a database that nobody
calls rests.

### Where code and comments disagree

Three runs state what a comment in the source says, and TLC finds a behaviour
of the code that does otherwise. PROJECT.json quotes the comments.

| Run | What happens |
|---|---|
| service_late_failure | a late failure of our dial marks a peer that has connected to us as disconnected, and stops its timers |
| handler_slots | retries after IO errors use up the dial slots; from then on nothing is dialled |
| requests_overlap | after answers out of order an index is given out twice |

`IO_ERROR_RETRIES` is 3 and `max_dial_negotiated` 8 in the code; handler_slots
has 2 slots to keep the trace short: four requests with two retries each use up 8.

The models show more of the kind, which have no run of their own:

- a peer that is reached at its second address is connected without ping and
  status timers (`service.rs:269`; `established_dialer`, `unreachable_addr`);
- ingoing connections are counted as outgoing (`peer_manager/mod.rs:466`; `connect_peer`);
- a peer reported as `Fatal` is dialled again, as `peers_discovered` looks only
  at its status (`peer_manager/mod.rs:416`);
- the timer of a first ban lifts a second one (`service.rs:357`; `unban_elapsed`);
- a peer that is banned while it is dialled stays `Dialing`, and counts as one of our
  peers (`service.rs:312`; `dial_dropped`);
- retries are counted for all requests of a connection together
  (`rpc/handler.rs:609`; `retries_after`);
- after a last report `keep_alive` stays `Yes` and an idle connection is kept
  (`rpc/handler.rs:666`; `poll_report_error`);
- the timer of an outbound substream runs on while the answered substream
  closes, and its expiry is reported, though `StreamTimeout` is "Timed out waiting for a
  response." (`rpc/handler.rs:732`, `rpc/protocol.rs:320`);
- `rpc_response` answers what is stored at index 0 (`core/src/mothra.rs:306`);
- a Goodbye is queued by peer: if the peer leaves and comes back first, the new
  connection is shut down (`behaviour/mod.rs:599`; `poll_disconnect`);
- a Ping of the peer manager waits in the queue of the RPC behaviour until the
  task is woken for another reason, at the latest by the heartbeat
  (`behaviour/mod.rs:627`; `poll_peer_manager`, `poll_pending`);
- `enr_tcp_port`, "The tcp port to broadcast to peers in order to reach back for libp2p
  services" (`config.rs:44`), is overwritten by the second call of
  `builder.tcp` (`discovery/enr.rs:101`; `build_enr`);
- `globals.local_enr` is not updated when discv5 changes the record
  (`discovery/mod.rs:437`; `socket_updated` leaves `globals_enr`);
- a node killed between an update of discv5 and the end of its save uses a
  sequence number again that peers have seen (`discovery/enr.rs:123`; the exception in
  `SeqNeverReused`);
- a response that is too long is sent as its response code alone
  (`rpc/codec/base.rs:73`; `encode_response`), which the initiator reports as
  an incomplete or broken stream;
- `Goodbye(vec![])`, which `custom_poll` would send with a `DisconnectPeer` event, is
  one that the receiver refuses (`rpc/codec/snappy.rs:121`; `valid_request`).

Read in the code and outside of the models: `receive_gossip` passes the length
of the topic as that of the message id and the peer id
(`core/ffi/src/lib.rs:74`), lengths above 32767 panic there, and `get` of
`hashset_delay.rs`, which nobody calls, returns the first deadline of an entry.

## Fairness

`FairSpec` of Service: weak fairness of the heartbeat, of polling discovery and
the behaviour, and of each timer of a ban, since the task is woken for all of
them and serves all; of the end of each dial and of a running query, since
transport and discv5 time out. Nothing is assumed of peers: they need not
connect, answer or leave. The two timers of a ban are 200 ms and 30 s long
and `unban_due` takes them to be served in that order. If the task were held up for
30 s, `tokio::select!` could serve them the other way round and the ban would
never be lifted.

`FairSpec` of RPCHandler: weak fairness of `poll()`, which the connection calls
again and again, and strong fairness of the end of a dial (the upgrade has a
timeout) and of the timers of substreams: the connection calls in, and a timer is
served, only between two phases of `poll()`, so neither is enabled all the time.
Operations on a substream may stay pending for ever: `RequestsAnswered` and
`IdleEnds` hold without help of the peer, because the timers fire. Wake-ups are
not modelled there: `poll()` may run at any time.

`BehaviourFairSpec`: weak fairness of `poll`, as an executor polls a task that
is awake until it returns `Pending`, and of `wake`, the interval of 30 s. Nothing
is assumed of peers, clients and timers. Without the interval `PeersServed`
fails, for the Ping above.

`FairSpec` of RPCStream: weak fairness of writing, closing, reading and of
noticing that the stream is gone. A response need not come, and no timer has to
run out: `CallEnds` shows that a call ends without one.

`FairSpec` of EnrStore: weak fairness of handling `SocketUpdated` and of the write that
follows the truncation. Nothing makes a node start or stop.

## Proofs

All are checked by TLAPS, for any values of the constants that satisfy the named
assumptions (`PeerIdAssumption`: finitely many peers, positive limits, ranges).

**PeerDB_proofs.** `PeerDBInvariant` proves the inductive `PDBInv`: types,
`n_dc = Cardinality(disconnected_peers)`, the bound, and that no `unwrap()` has
failed. The bound is not inductive by itself: `shrink_to_fit` takes the surplus
from `n_dc`, so the bound needs the exact count, and the count needs the bound to know that
the surplus is at most one (`ShrinkByAtMostOne`). From it follow type
correctness, consistency, boundedness, and the two action properties
`ForgetsOnlyTheWorst` and `BanSurvivesDisconnect`. `MinTtlNeverShrinks` needs only
the types: `TtlStep` goes through what each call stores.

**HashSetDelay_proofs.** `OneTimerEach` with types is inductive: entries and slots are
inverse to each other. Under it every step is a step of DelaySet on
`Deadline`, or leaves it alone: the refinement `HashSetDelayImplements`.

**Requests_proofs.** `RequestsInv` adds to the property that ids are issued once: all
ids stored or answered are at most `issued`. Then a stored id is new and no slot
and no answer has it twice.

**Service_proofs.** `StepEffect` says what any step does to the database and the ping
timers: nothing, one setter and perhaps a timer, a disconnect with its timer, or
a report. Two theorems rest on it alone. `ServiceUsesPeerDB`: the service refines the
specification of the database, so all that is proved of PeerDB holds in it
(`ServiceBounded`). `ServiceNoZombiePings`: every peer with a ping timer is connected or dialled in
the database. `ServiceQueriesInStep` is about discovery alone, for any
`MAX_CONCURRENT_QUERIES`, including those above 1 for which the loop could spin.
`ServiceTypeCorrect` adds the types of the swarm (`SwarmTypes`) to these results.
`ServiceDatabaseNotAhead` has `AheadInv`: the property and that a banned peer is one that
the client asked to ban. It needs that second part for `dial_dropped`, which ends a dial without
telling the database, and `ServiceBounded` for `disconnect`, which would leave the
entry as it was if it panicked.

**RPCHandler_proofs.** One inductive invariant, `HandlerInv`, in five parts. `Types` says
also that the loops of `poll()` visit substreams that exist: `todo` is computed in one
step and used in later ones. `DialsAccounted` and `KeepAliveSafe` are inductive
with it. `InboundInv` strengthens `RespondsAtMostOnce`: nothing has been
written to a substream that is idle or about to be written to, and nothing is queued for one that
is idle, so the one way back to writing, `InboundDriven`, is a first response.
`OutboundInv` says where a request of ours is: each queue has it once (`Once`), the places are disjoint
and a reported request is in none (`Apart`), what is anywhere was issued
(`OnlyIssued`), and none is lost (`NotLost`). `QuietAtTimers` is what keeps a timer that
fires from reporting a request that an error is waiting for: `poll()` reports
errors before it looks at timers. A substream that closes after its answer still
names its request, so `Apart` excludes only those that wait for an answer; this is why
`OnePlace` counts `RequestPendingResponse` alone. `FarewellOnly` gives the
action property `OnlyFarewellDialled`, with the retries. `OnePlace` is stated with cardinalities and follows
from `Once` and `Apart` (`AtMostOne`).

**Behaviour_proofs.** `StepOfTable`: each action of the dispatch is, for the
table, one of Requests or a stutter. Hence `BehaviourImplementsRequests`, and
what is proved of Requests carries over (`DispatchAnswersAtMostOnce`), for any number of peers,
connections and queued messages. The dispatch adds guards and state, never another
way to touch the table.

`DispatchResponsesMatch` is about the way back. Its invariant `DispatchInv` joins `RequestsInv`
with `Genuine`, everything under way names a substream opened for its protocol, and
`OnePlaceEach`: a request of a peer is in one of the queue of the RPC behaviour, the queue for
the client and the client's hands; its response is queued or delivered once; and a request that the
client was asked is responded to only if the table has let it go (`Answered`). That last
part ties the queues to the table: however often the client answers, `AnsweredAtMostOnce` makes
each id leave the table once, so `AnswerStep` queues a response for a substream that has none.
The lemmas `NamedAppend` and `NamedTail` reduce every step to what it adds to and takes from one of these
places.

**EnrStore_proofs.** `StoreInv` adds to the types what each phase of a start has made
sure of (`Configured`) and, until a disk operation fails or a stop comes at the wrong time,
`Identity` and `Numbers`. `Identity`: all that is published, on disk or about to be saved belongs to
the key on disk. `Numbers`: the record in use, or the one on disk while none is, supersedes all
that peers have seen, and a record that is not on disk yet is about to be saved; without
this, nothing would connect the number that the next start counts up from to what was
published before it.

**RPCStream_proofs.** Nothing here is bounded: the limit, the blocks, the digits of a
varint and the messages may have any size (`CodecAssumption`: positive, a radix of at
least 2; `StreamAssumption`: known protocols and response codes). It goes in three parts.

*Induction.* `LeastNumber` comes from the library's theorem on well-founded relations, about
a set instead of a predicate, and gives `Induction`, `StrongInduction` and
`RecursiveFunction`: a function that is defined by recursion exists and has the values that
its definition describes. `VarintDef`, `UviValueDef` and `BlockStartDef` are its uses.

*Codecs.* `UviWhole` and `UviPart`: the bytes of a varint are read back as the number, and not before
the last one is there. `ReadWhole` and `ReadPart` say the same of the blocks.
`Reads(c, data, k)` is the state of a decoder that has had k bytes of a message. `SnappyStep`: with more
bytes, in pieces of any length, the decoder goes from `Reads` to `Reads` and returns nothing,
until the message is whole; then it returns the data and is empty. `RequestStep` and
`ResponseStep` carry this over to the two outer codecs. The response code makes the second one
harder: it is taken off the buffer only when two bytes are there (`awaits_bytes`),
and a response that is too large leaves the code alone on the wire.

*Stream.* `StreamInv` is inductive. `Flow`: for some k, the decoder has had the first k bytes
of the encoded message, and the wire and the encoder's buffer hold the others in order; as long as
the reader waits, its decoder is at that place (`Decoding`). `CallInv` says what results there may be,
`CloseInv` that a half is closed after everything is flushed, `DropInv` who has let go
of the stream and why. Without `DropInv` nothing would tell a stream that is gone because the other
side had an error from one that is gone for no reason. Two consequences
decide the refinement: the end of a request is never met by a reader that waits for one
(`NoEndOfRequest`), and the end of a response only if the response was too large
(`EndOfResponse`). Each action is then a step of RPCCall or not seen by it (`CallStep`), hence
`StreamImplementsCall`. The bound of `StreamTypeCorrect` needs that a longer message has no
shorter encoding (`VarintMonotone`, `BlocksBound`, `LargestMessage`).

**Only model-checked.** All liveness properties, `CallEnds` of the codec run among them
(outside of the prover's reach). Every invariant and every action property or
refinement without fairness that a run checks is proved. The inductive invariants
`HandlerInv`, `DispatchInv`, `StoreInv`, `AheadInv` and `StreamInv` were checked by TLC on the instances
above before they were proved.

## Not modelled

- libp2p, discv5 and tokio themselves; they appear as choices.
- Gossip and identify: events are passed on and no state of this repository
  depends on them, except the client strings kept by `identify`.
- The C interface and the bindings: pointers and lengths of strings, and
  globals that are set once.
- The task executor: it wraps a future so that it ends with the exit signal.
- The delegating handlers (`behaviour/handler/`): they route each call to the
  handler of its protocol; RPCHandler has the calls that reach the RPC handler.
- Configuration, command line, logging, building of the transport.
- Compression, and protocol versions (there is one of each).
- Banned peers in `DatabaseNotAhead`: `ban_peer_id` may drop connections without
  reporting them and the source has a TODO there, so the property leaves out the peers that the
  client asked to ban. The run has no bans; the proof has any number.

## Plan

1. Done: database, timers, discovery, peer manager, service, handler, request
   table, dispatch, codecs, ENR store; their runs; proofs of every safety property that
   the runs check.
2. Open: the hazards in `PROJECT.json` that have a note instead of a property, most of
   them about what libp2p or a waker does between two calls of this code; liveness
   for all values of the constants, which needs another prover.
