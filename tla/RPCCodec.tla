------------------------------ MODULE RPCCodec ------------------------------
(***************************************************************************)
(* The codecs of the RPC substreams (core/network/src/rpc/codec): what the *)
(* two sides of a substream write, and what they make of the bytes that    *)
(* have arrived so far.                                                    *)
(*                                                                         *)
(* A message is a response code (responses only), the length of its data   *)
(* as an unsigned varint, and the data in the snappy frame format: nothing *)
(* if there are none, else a stream identifier and blocks of at most BLOCK *)
(* bytes, each after its length.  Compression is left out: a block is as   *)
(* long as its data.  Bytes are numbers that say nothing of their role, so *)
(* a decoder that loses its place misreads what follows.                   *)
(***************************************************************************)
EXTENDS Integers, Sequences, FiniteSetsExt

CONSTANTS
    max_packet_size,  \* MAX_RPC_SIZE, 1_048_576 in the code
    BLOCK,            \* bytes of data in a full snappy block, 65536
    RADIX             \* numbers that a byte of a varint tells apart, 128

ASSUME CodecAssumption ==
    /\ max_packet_size \in Nat \ {0} /\ BLOCK \in Nat \ {0} /\ RADIX \in Nat \ {0, 1}

None == [kind |-> "None"]

Err(error) == [kind |-> "Err", error |-> error]

-----------------------------------------------------------------------------
(* External: the varint and the snappy frame format                        *)

varint[n \in Nat] ==
    IF n < RADIX THEN <<n>> ELSE <<RADIX + (n % RADIX)>> \o varint[n \div RADIX]

\* The number that the last k of the first n bytes hold, low digits first.
Uvi_value(src, n) ==
    LET value[k \in 0..n] ==
            IF k = 0 THEN 0 ELSE (src[n - k + 1] % RADIX) + RADIX * value[k - 1]
    IN  value

\* Uvi::decode: the number and how many bytes hold it, once its last byte is
\* there; until then nothing is consumed.
Uvi_decode(src) ==
    LET last == {k \in 1..Len(src) : src[k] < RADIX}
        n    == Min(last)
    IN  IF last = {} THEN None
        ELSE [kind |-> "Ok", n |-> n, length |-> Uvi_value(src, n)[n]]

STREAM_IDENTIFIER == 255

\* The blocks that hold n bytes of data.
Blocks(n) == (n + BLOCK - 1) \div BLOCK

\* The byte at position i: with the identifier left out, k blocks are before
\* it and it is byte r of its block, 0 for the length of the block.
FrameEncoder(data) ==
    LET k(i) == (i - 2) \div (BLOCK + 1)
        r(i) == (i - 2) % (BLOCK + 1)
        left(i) == Len(data) - k(i) * BLOCK
    IN  IF data = <<>> THEN <<>>
        ELSE [i \in 1..(1 + Blocks(Len(data)) + Len(data)) |->
                IF i = 1 THEN STREAM_IDENTIFIER
                ELSE IF r(i) = 0 THEN IF left(i) < BLOCK THEN left(i) ELSE BLOCK
                ELSE data[k(i) * BLOCK + r(i)]]

\* Where the next block starts after k blocks, by the lengths in src.
block_start(src) ==
    LET next == [p \in Nat |-> p + 1 + (IF p \in DOMAIN src THEN src[p] ELSE 0)]
        start[k \in Nat] == IF k = 0 THEN 2 ELSE next[start[k - 1]]
    IN  start

\* The blocks that hold the first n bytes of data: there is a byte for the
\* identifier and one for the length of each block.
blocks_holding(src, n) == {k \in 1..Len(src) : block_start(src)[k] - k - 2 >= n}

\* FrameDecoder and read_exact for length bytes: the data and the position of
\* the last byte of the last block that it takes.
read_exact(src, length) ==
    LET enough == blocks_holding(src, length)
        n      == block_start(src)[Min(enough)] - 1
    IN  IF length = 0 THEN [kind |-> "Ok", n |-> 0, data |-> <<>>]
        ELSE IF src = <<>> THEN Err("UnexpectedEof")
        ELSE IF src[1] # STREAM_IDENTIFIER THEN Err("IoError")
        ELSE IF enough = {} \/ n > Len(src) THEN Err("UnexpectedEof")
        ELSE [kind |-> "Ok", n |-> n,
              data |-> [i \in 1..length |-> src[1 + Min(blocks_holding(src, i)) + i]]]

-----------------------------------------------------------------------------
(* codec/snappy.rs                                                         *)

\* Mutant: the sender does not look at the length.
snappy_encode_NoLimit(data) ==
    [kind |-> "Ok", bytes |-> varint[Len(data)] \o FrameEncoder(data)]

\* The part that the two encode methods share.
snappy_encode(data) ==
    IF Len(data) > max_packet_size THEN Err("InternalError")
    ELSE [kind |-> "Ok", bytes |-> varint[Len(data)] \o FrameEncoder(data)]

\* The state of a decoder: the buffer, the length that has been read, if it
\* has, and the response code that has been read (base.rs).
NewDecoder == [src |-> <<>>, len |-> -1, code |-> -1]

\* The first step of the three decode methods: the length, unless it is known.
snappy_len(c) ==
    IF c.len # -1 \/ Uvi_decode(c.src) = None THEN c
    ELSE LET u == Uvi_decode(c.src)
         IN  [c EXCEPT !.len = u.length, !.src = SubSeq(@, u.n + 1, Len(@))]

\* The part that the three decode methods share: the decoder afterwards, and
\* the data, an error, or None if more bytes are needed.
snappy_decode(c0) ==
    LET c == snappy_len(c0)
    IN  IF c.len = -1 THEN [codec |-> c, item |-> None]
        ELSE IF c.len > max_packet_size THEN [codec |-> c, item |-> Err("InvalidData")]
        ELSE LET r == read_exact(c.src, c.len)
             IN  IF r.kind = "Ok"
                 THEN [codec |-> [c EXCEPT !.len = -1, !.src = SubSeq(@, r.n + 1, Len(@))],
                       item  |-> [kind |-> "Ok", data |-> r.data]]
                 ELSE [codec |-> c,
                       item  |-> IF r.error = "UnexpectedEof" THEN None ELSE r]

\* What SnappyInboundCodec::decode and SnappyOutboundCodec::decode take for a
\* message of the protocol.
valid_request(proto, data) == IF proto = "MetaData" THEN data = <<>> ELSE data # <<>>

valid_response(proto, data) == proto # "Goodbye" /\ data # <<>>

-----------------------------------------------------------------------------
(* codec/base.rs and methods.rs                                            *)

as_u8 == [Success |-> 0, InvalidRequest |-> 1, ServerError |-> 2, Unknown |-> 255]

from_error(code) ==
    CASE code = 1 -> "InvalidRequest" [] code = 2 -> "ServerError" [] OTHER -> "Unknown"

is_response(code) == code = 0

\* Outbound, encode: a MetaData request is no bytes at all.
encode_request(proto, data) ==
    IF proto = "MetaData" THEN [kind |-> "Ok", bytes |-> <<>>] ELSE snappy_encode(data)

\* Inbound, encode: what dst holds afterwards, whatever it held before, and
\* whether it succeeded.  The code is in dst before the data are looked at.
encode_response(coded, data) ==
    LET inner == snappy_encode(data)
    IN  IF inner.kind = "Ok"
        THEN [kind |-> "Ok", dst |-> <<as_u8[coded]>> \o inner.bytes]
        ELSE [kind |-> "Err", dst |-> <<as_u8[coded]>>]

\* Inbound, decode.
decode_request(proto, c) ==
    LET r == snappy_decode(c)
    IN  IF r.item.kind # "Ok" THEN r
        ELSE [r EXCEPT !.item = IF valid_request(proto, r.item.data)
                                THEN [kind |-> "Request", proto |-> proto, data |-> r.item.data]
                                ELSE Err("InvalidData")]

\* Mutant: two bytes are not looked at either.
awaits_bytes_TooMany(c) == Len(c.src) <= 2

awaits_bytes(c) == Len(c.src) <= 1

\* Outbound, decode: the response code is taken once, with at least one byte
\* after it, and given up when a message has been decoded.
decode_response(proto, c0) ==
    IF awaits_bytes(c0) THEN [codec |-> c0, item |-> None]
    ELSE LET c == IF c0.code # -1 THEN c0
                  ELSE [c0 EXCEPT !.code = Head(c0.src), !.src = Tail(c0.src)]
             r == snappy_decode(c)
             coded == IF is_response(c.code) THEN "Success" ELSE from_error(c.code)
             valid == coded # "Success" \/ valid_response(proto, r.item.data)
         IN  IF r.item.kind # "Ok" THEN r
             ELSE IF ~valid THEN [r EXCEPT !.item = Err("InvalidData")]
             ELSE [codec |-> [r.codec EXCEPT !.code = -1],
                   item  |-> [kind |-> "Response", coded |-> coded, data |-> r.item.data]]

=============================================================================
