---------------------------- MODULE MessageDecoder ----------------------------
(***************************************************************************)
(* read_message of src/src/protocol/codec.rs on a non-blocking socket: a   *)
(* message is a 4 byte length and that many bytes of id and data, which    *)
(* may arrive in any number of reads and of calls.                         *)
(*                                                                         *)
(* A message is its id and the length of its data; its k-th byte on the    *)
(* wire is the pair <<message, k>>.                                        *)
(***************************************************************************)
EXTENDS Integers, SequencesExt

CONSTANTS
    Message,    \* what a peer may send: [id |-> NoId or a number, data |-> length]
    ReadSize,   \* the 1024 bytes of a read
    MaxSent     \* messages sent in a behaviour

NoId == -1  \* KeepAlive has no id

ASSUME DecoderAssumption ==
    /\ Message \subseteq [id : Nat \cup {NoId}, data : Nat]
    /\ \A m \in Message : m.id = NoId => m.data = 0
    /\ ReadSize \in Nat \ {0}
    /\ MaxSent \in Nat

PrefixLength == 4

VARIABLES
    sent,         \* what the peer sent, in order
    socket,       \* bytes sent and not read
    end,          \* of the connection: open, closed in order, or reset
    buffer,       \* MessageDecoder.buffer
    len_bytes,    \* the prefix read_message took out of the buffer
    pc,           \* where read_message is: idle, prefix or payload; failed
                  \* after an Err, when tick drops the connection
    received      \* the messages read_message returned

vars == <<sent, socket, end, buffer, len_bytes, pc, received>>

\* MessageEncoder::encode: the length counts the id and the data.
LengthOf(m) == IF m.id = NoId THEN 0 ELSE 1 + m.data

Encode(m) == [k \in 1..(PrefixLength + LengthOf(m)) |-> <<m, k>>]

PrefixOf(m) == SubSeq(Encode(m), 1, PrefixLength)

\* u32::from_be_bytes of a prefix.  Four bytes that are not the prefix of a
\* message read as some number.
LengthIn(bytes) ==
    IF \E m \in Message : bytes = PrefixOf(m)
    THEN LengthOf(bytes[1][1]) ELSE ReadSize

message_len == LengthIn(len_bytes)

\* decode_message: the data an id needs at least; ids above 9 are unknown.
DataNeeded(id) ==
    CASE id = 4 -> 4            \* Have
      [] id \in {6, 8} -> 12    \* Request, Cancel
      [] id = 7 -> 8            \* Piece
      [] id = 9 -> 2            \* Port
      [] OTHER -> 0

WellFormed(m) == m.id <= 9 /\ m.data >= DataNeeded(m.id)

Least(a, b) == IF a < b THEN a ELSE b

-----------------------------------------------------------------------------
Init ==
    /\ sent = <<>>
    /\ socket = <<>>
    /\ end = "open"
    /\ buffer = <<>>
    /\ len_bytes = <<>>
    /\ pc = "idle"
    /\ received = <<>>

\* The peer sends a message.
Send(m) ==
    /\ end = "open"
    /\ Len(sent) < MaxSent
    /\ sent' = Append(sent, m)
    /\ socket' = socket \o Encode(m)
    /\ UNCHANGED <<end, buffer, len_bytes, pc, received>>

\* It closes the connection, perhaps in the middle of a message, or resets it.
Close ==
    /\ end = "open"
    /\ end' = "closed"
    /\ \E n \in 0..Len(socket) : socket' = SubSeq(socket, 1, n)
    /\ UNCHANGED <<sent, buffer, len_bytes, pc, received>>

Reset ==
    /\ end # "reset"
    /\ end' = "reset"
    /\ socket' = <<>>
    /\ UNCHANGED <<sent, buffer, len_bytes, pc, received>>

\* Mutant: the whole read buffer is kept, not the n bytes that were read.
Reads_All(wanted) ==
    \E n \in 1..Least(wanted, Len(socket)) :
        /\ buffer' = buffer \o SubSeq(socket, 1, n)
                            \o [k \in 1..(wanted - n) |-> <<[id |-> NoId, data |-> 1], 0>>]
        /\ socket' = SubSeq(socket, n + 1, Len(socket))

\* What reader.read can answer: n bytes, at most `wanted'; nothing yet, while
\* bytes are under way or may still be sent; the end; or an error.
Reads(wanted) ==
    \E n \in 1..Least(wanted, Len(socket)) :
        /\ buffer' = buffer \o SubSeq(socket, 1, n)
        /\ socket' = SubSeq(socket, n + 1, Len(socket))

WouldBlock == end = "open" \/ socket # <<>>
AtEnd == end = "closed" /\ socket = <<>>
ReadError == end = "reset"

-----------------------------------------------------------------------------
\* tick calls read_message.
Call ==
    /\ pc = "idle"
    /\ pc' = "prefix"
    /\ UNCHANGED <<sent, socket, end, buffer, len_bytes, received>>

\* The loop that reads until the prefix is there.
NeedsPrefix == pc = "prefix" /\ Len(buffer) < PrefixLength

ReadPrefix ==
    /\ NeedsPrefix
    /\ Reads(ReadSize)
    /\ UNCHANGED <<sent, end, len_bytes, pc, received>>

\* Mutant: what was read of the prefix is forgotten.
NoPrefix_Drops ==
    /\ NeedsPrefix
    /\ WouldBlock \/ (AtEnd /\ buffer = <<>>)
    /\ pc' = "idle"
    /\ buffer' = <<>>
    /\ UNCHANGED <<sent, socket, end, len_bytes, received>>

\* Ok(None): no more bytes yet, or the connection closed between two messages.
NoPrefix ==
    /\ NeedsPrefix
    /\ WouldBlock \/ (AtEnd /\ buffer = <<>>)
    /\ pc' = "idle"
    /\ UNCHANGED <<sent, socket, end, buffer, len_bytes, received>>

\* The prefix leaves the buffer; without anything after it, it is a KeepAlive.
TakePrefix ==
    /\ pc = "prefix"
    /\ Len(buffer) >= PrefixLength
    /\ LET bytes == SubSeq(buffer, 1, PrefixLength) IN
         IF LengthIn(bytes) = 0
         THEN /\ received' = Append(received, bytes[1][1])
              /\ pc' = "idle"
              /\ UNCHANGED len_bytes
         ELSE /\ len_bytes' = bytes
              /\ pc' = "payload"
              /\ UNCHANGED received
    /\ buffer' = SubSeq(buffer, PrefixLength + 1, Len(buffer))
    /\ UNCHANGED <<sent, socket, end>>

\* The loop that reads until the rest of the message is there.
NeedsPayload == pc = "payload" /\ Len(buffer) < message_len

ReadPayload ==
    /\ NeedsPayload
    /\ Reads(Least(message_len - Len(buffer), ReadSize))
    /\ UNCHANGED <<sent, end, len_bytes, pc, received>>

\* Mutant: the prefix is not put back.
PutBack_DropsPrefix ==
    /\ NeedsPayload
    /\ WouldBlock
    /\ len_bytes' = <<>>
    /\ pc' = "idle"
    /\ UNCHANGED <<sent, socket, end, buffer, received>>

\* Not all of it is there: the prefix goes back in front of the buffer.
PutBack ==
    /\ NeedsPayload
    /\ WouldBlock
    /\ buffer' = len_bytes \o buffer
    /\ len_bytes' = <<>>
    /\ pc' = "idle"
    /\ UNCHANGED <<sent, socket, end, received>>

\* Mutant: a payload that is not there yet is an error.
Fail_WouldBlock ==
    /\ \/ NeedsPrefix /\ AtEnd /\ buffer # <<>>
       \/ NeedsPayload /\ (AtEnd \/ WouldBlock)
       \/ (NeedsPrefix \/ NeedsPayload) /\ ReadError
    /\ pc' = "failed"
    /\ UNCHANGED <<sent, socket, end, buffer, len_bytes, received>>

\* Err: the connection failed, or closed inside a message.
Fail ==
    /\ \/ NeedsPrefix /\ AtEnd /\ buffer # <<>>
       \/ NeedsPayload /\ AtEnd
       \/ (NeedsPrefix \/ NeedsPayload) /\ ReadError
    /\ pc' = "failed"
    /\ UNCHANGED <<sent, socket, end, buffer, len_bytes, received>>

\* Mutant: the buffer is emptied, with what it holds of the next message.
Decode_Clears ==
    /\ pc = "payload"
    /\ Len(buffer) >= message_len
    /\ LET m == buffer[1][1] IN
         IF WellFormed(m)
         THEN pc' = "idle" /\ received' = Append(received, m)
         ELSE pc' = "failed" /\ UNCHANGED received
    /\ buffer' = <<>>
    /\ len_bytes' = <<>>
    /\ UNCHANGED <<sent, socket, end>>

\* The message is taken out of the buffer and decoded, or rejected.
Decode ==
    /\ pc = "payload"
    /\ Len(buffer) >= message_len
    /\ LET m == buffer[1][1] IN
         IF WellFormed(m)
         THEN pc' = "idle" /\ received' = Append(received, m)
         ELSE pc' = "failed" /\ UNCHANGED received
    /\ buffer' = SubSeq(buffer, message_len + 1, Len(buffer))
    /\ len_bytes' = <<>>
    /\ UNCHANGED <<sent, socket, end>>

ReaderStep ==
    \/ Call
    \/ ReadPrefix
    \/ NoPrefix
    \/ TakePrefix
    \/ ReadPayload
    \/ PutBack
    \/ Fail
    \/ Decode

Next ==
    \/ \E m \in Message : Send(m)
    \/ Close
    \/ Reset
    \/ ReaderStep

Spec == Init /\ [][Next]_vars

\* tick calls read_message again and again, and bytes that were sent arrive in
\* the end: a read that could always have found some does find them.
Fairness ==
    /\ WF_vars(ReaderStep)
    /\ SF_vars(ReadPrefix)
    /\ SF_vars(ReadPayload)

FairSpec == Spec /\ Fairness
-----------------------------------------------------------------------------
\* The bytes of the messages.
Byte == UNION {{<<m, k>> : k \in 1..(PrefixLength + LengthOf(m))} : m \in Message}

\* Type invariant of the decoder.
DecoderTypeOK ==
    /\ sent \in Seq(Message)
    /\ socket \in Seq(Byte)
    /\ end \in {"open", "closed", "reset"}
    /\ buffer \in Seq(Byte)
    /\ len_bytes \in Seq(Byte)
    /\ pc \in {"idle", "prefix", "payload", "failed"}
    /\ received \in Seq(Message)

\* read_message hands out exactly the messages the peer sent, in order, across
\* partial reads, reads that run into the next message, and calls given up.
Channel == INSTANCE MessageChannel
ChannelSpec == Channel!Spec

\* The bytes the decoder holds and those still in the socket are the rest of
\* what was sent, from the first message that was not returned on: none is lost
\* or kept twice when a call is given up half way through a message.
Bytes(ms) == FlattenSeq([k \in DOMAIN ms |-> Encode(ms[k])])

Rest == Bytes(SubSeq(sent, Len(received) + 1, Len(sent)))

Unread == len_bytes \o buffer \o socket

NoByteLost ==
    pc # "failed" =>
        /\ IsPrefix(Unread, Rest)
        /\ end = "open" => Unread = Rest

\* An Err has a cause: the connection ended, or the next message is malformed.
\* A peer is not dropped because its message arrived in pieces.
FailsForCause ==
    pc = "failed" =>
        \/ end # "open"
        \/ ~WellFormed(sent[Len(received) + 1])

\* A message that was sent is returned in the end, unless the connection ends
\* or a malformed message comes before it.
EverythingArrives ==
    \A k \in 1..MaxSent :
        Len(sent) >= k ~> Len(received) >= k \/ end # "open" \/ pc = "failed"
=============================================================================
