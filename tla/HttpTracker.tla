----------------------------- MODULE HttpTracker -----------------------------
(***************************************************************************)
(* An announce to a tracker: what src/src/tracker/http.rs makes of the     *)
(* bytes a server sends back, what src/src/tracker/announce.rs makes of    *)
(* the body, and how the peers are read out of it (structs/tracker.rs and  *)
(* structs/peer.rs, which the UDP trackers use too).                       *)
(*                                                                         *)
(* Peers in compact form are bytes <<address, k>>, the k-th of 6 for an    *)
(* IPv4 address.  A reply is a record: the lines before the body (up to    *)
(* where the server stopped sending), the length it declared, the bytes    *)
(* of the body it has and of those that were sent, whether the server      *)
(* closes the connection then, and the response the whole body holds.      *)
(***************************************************************************)
EXTENDS Integers, SequencesExt

Compact(addresses, rest) ==
    FlattenSeq([i \in DOMAIN addresses |-> [k \in 1..6 |-> <<addresses[i], k>>]])
      \o [k \in 1..rest |-> <<"rest", k>>]

Bytes(data, from, n) == SubSeq(data, from + 1, from + n)

\* from_compact: no peer, or the one that 6 or 18 bytes stand for.
from_compact(bytes) ==
    IF Len(bytes) \notin {6, 18} THEN <<>>
    ELSE IF \A k \in DOMAIN bytes : bytes[k] = <<bytes[1][1], k>> THEN <<bytes[1][1]>>
    ELSE <<"another address">>

\* Peers are cut out by steps of 6.
from_compact_bytes(data) ==
    FlattenSeq([n \in 1..(Len(data) \div 6) |-> from_compact(Bytes(data, 6 * (n - 1), 6))])

\* Mutant: the last byte is not looked at.
parse_peers_StopsEarly(response) ==
    IF response.compact THEN from_compact_bytes(Front(response.peers))
    ELSE LET parsed == SelectSeq(response.peers, LAMBDA dict : dict.ip)
         IN  [i \in DOMAIN parsed |-> parsed[i].address]

\* One round of the loop over the compact form: no peer in 6 bytes means one in
\* 18, or the end.
parse_round(data, at) ==
    LET peer(size)  == from_compact(Bytes(data, at.offset, size))
        after(size) == [offset |-> at.offset + size, peers |-> at.peers \o peer(size)]
    IN  IF at.offset + 6 > Len(data) THEN at
        ELSE IF peer(6) # <<>> THEN after(6)
        ELSE IF at.offset + 18 <= Len(data) /\ peer(18) # <<>> THEN after(18)
        ELSE at

\* parse_peers: the compact form, or a list of dictionaries, of which those whose
\* ip parses count.
parse_peers(response) ==
    LET data == response.peers
        loop[n \in 0..Len(data)] ==
          IF n = 0 THEN [offset |-> 0, peers |-> <<>>] ELSE parse_round(data, loop[n - 1])
    IN  IF response.compact THEN loop[Len(data)].peers
        ELSE FlattenSeq([k \in DOMAIN data |-> IF data[k].ip THEN <<data[k].address>> ELSE <<>>])
-----------------------------------------------------------------------------
Err   == [kind |-> "err"]
Spins == [kind |-> "spins"]    \* read_line answers 0 bytes, again and again
Waits == [kind |-> "waits"]    \* no byte arrives and no timeout is set
Body(n) == [kind |-> "ok", length |-> n]

\* Where no more bytes come: the end of the stream, or waiting for ever.
AtEnd(reply, outcome) == IF reply.closed THEN outcome ELSE Waits

Declared(reply) == Contains(reply.lines, "content-length")

ReadBody(reply) ==
    IF ~Declared(reply) THEN AtEnd(reply, Body(reply.sent))
    ELSE IF reply.sent >= reply.declared THEN Body(reply.declared)
    ELSE AtEnd(reply, Err)

\* The status line, the headers up to an empty line, the body.  The loop over
\* the headers knows no end of the stream.
perform_request(reply) ==
    IF reply.lines = <<>> THEN AtEnd(reply, Err)
    ELSE IF Head(reply.lines) # "200" THEN Err
    ELSE IF Last(reply.lines) # "" THEN AtEnd(reply, Spins)
    ELSE ReadBody(reply)

\* TrackerClient::announce.  A body that is cut short cannot be parsed; bytes that
\* follow the response are not looked at (serde_bencode::from_bytes).
announce_http(reply) ==
    LET body == perform_request(reply)
        response == reply.response IN
    IF body.kind # "ok" THEN body
    ELSE IF body.length < reply.size THEN Err
    ELSE IF response.failure THEN Err
    ELSE IF response.interval = 0 /\ response.peers = <<>> THEN Err
    ELSE [kind |-> "ok", peers |-> parse_peers(response)]
=============================================================================
