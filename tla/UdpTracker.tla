----------------------------- MODULE UdpTracker -----------------------------
(***************************************************************************)
(* src/src/tracker/udp.rs: an announce is a connect request and, with the  *)
(* connection id of its answer, an announce request.  One socket serves    *)
(* all trackers, one announce after the other, and recv_from takes         *)
(* whatever arrives first.  The network loses, delays, reorders and        *)
(* duplicates the answers; a lost request is an answer that is lost.       *)
(*                                                                         *)
(* A connection id is the tracker that issued it; transaction ids, random  *)
(* in the code, are never used twice.                                      *)
(***************************************************************************)
EXTENDS HttpTracker

CONSTANTS
    Tracker,        \* the trackers' addresses
    Listed,         \* Listed[t]: the peers tracker t knows
    Rest,           \* Rest[t]: bytes tracker t sends after its list
    AnnounceBuffer  \* the 2048 bytes the answer to an announce is read into

ASSUME BufferAssumption == AnnounceBuffer \in Nat /\ AnnounceBuffer >= 20

VARIABLES
    udp,              \* "idle", "connecting", "announcing" or "returned"
    server,           \* the tracker of the announce
    transaction_id,   \* the id of the last request
    connection_id,
    answers,          \* datagrams that may still arrive
    udp_result        \* what announce returned

udpVars == <<udp, server, transaction_id, connection_id, answers, udp_result>>

Data(t) == Compact(Listed[t], Rest[t])

\* The answers tracker t may give: to a connect request, to an announce with
\* its own connection id, and an error to anything.
Answer(action, id, size, t, data) ==
    [action |-> action, id |-> id, size |-> size, connection_id |-> t, data |-> data]

ConnectAnswer(t, id) == Answer("connect", id, 16, t, <<>>)
AnnounceAnswer(t, id) == Answer("announce", id, 20 + Len(Data(t)), t, Data(t))
ErrorAnswer(id) == Answer("error", id, 24, "none", <<>>)

\* The transaction id of the next request, which send_to gives to the server:
\* it is answered as it should be or with an error, sooner or later or never.
NextId == transaction_id + 1

Sends(answer, left) ==
    /\ transaction_id' = NextId
    /\ answers' \in {left, left \cup {answer}, left \cup {ErrorAnswer(NextId)}}

Returns(result) ==
    /\ udp' = "returned"
    /\ udp_result' = result

\* announce is called with a URL that parses, and sends the connect request.
announce(t) ==
    /\ udp = "idle"
    /\ udp' = "connecting"
    /\ server' = t
    /\ Sends(ConnectAnswer(t, NextId), answers)
    /\ UNCHANGED <<connection_id, udp_result>>

\* The URL has no port, or the host has no address.
announce_fails(t) ==
    /\ udp = "idle"
    /\ server' = t
    /\ Returns(Err)
    /\ UNCHANGED <<transaction_id, connection_id, answers>>

\* Mutant: any transaction will do.
Accepted_AnyTransaction(a, buffer, least, action) ==
    (IF a.size < buffer THEN a.size ELSE buffer) >= least /\ a.action = action

\* What recv_from leaves of the data that follow the 20 bytes of a header: what
\* the buffer has no room for is lost, and nothing says so.
Kept(data) ==
    IF Len(data) <= AnnounceBuffer - 20 THEN data ELSE SubSeq(data, 1, AnnounceBuffer - 20)

\* The checks on a datagram that was read into a buffer, which cuts it off.
Accepted(a, buffer, least, action) ==
    /\ (IF a.size < buffer THEN a.size ELSE buffer) >= least
    /\ a.action = action
    /\ a.id = transaction_id

\* recv_from in send_connect_request, and the announce request that follows.  A
\* tracker takes no connection id but its own.  The network may hold more
\* copies of what was read.
ReceiveConnect ==
    /\ udp = "connecting"
    /\ \E a \in answers : \E left \in {answers, answers \ {a}} :
        /\ Accepted(a, 16, 16, "connect")
        /\ connection_id' = a.connection_id
        /\ Sends(IF a.connection_id = server THEN AnnounceAnswer(server, NextId)
                                             ELSE ErrorAnswer(NextId),
                 left)
    /\ udp' = "announcing"
    /\ UNCHANGED <<server, udp_result>>

\* recv_from in announce.
ReceiveAnnounce ==
    /\ udp = "announcing"
    /\ \E a \in answers :
        /\ Accepted(a, AnnounceBuffer, 20, "announce")
        /\ Returns([kind |-> "ok", peers |-> from_compact_bytes(Kept(a.data))])
        /\ answers' \in {answers, answers \ {a}}
    /\ UNCHANGED <<server, transaction_id, connection_id>>

\* Any other datagram ends the announce, whoever sent it.
ReceiveOther ==
    /\ \E a \in answers :
        /\ \/ udp = "connecting" /\ ~Accepted(a, 16, 16, "connect")
           \/ udp = "announcing" /\ ~Accepted(a, AnnounceBuffer, 20, "announce")
        /\ answers' \in {answers, answers \ {a}}
    /\ Returns(Err)
    /\ UNCHANGED <<server, transaction_id, connection_id>>

\* Mutant: the read is tried again after a timeout.
Timeout_Again ==
    /\ udp \in {"connecting", "announcing"}
    /\ UNCHANGED udpVars

\* Nothing arrived for 5 seconds.
Timeout ==
    /\ udp \in {"connecting", "announcing"}
    /\ Returns(Err)
    /\ UNCHANGED <<server, transaction_id, connection_id, answers>>

UdpInit ==
    /\ udp = "idle"
    /\ server = "none"
    /\ transaction_id = 0
    /\ connection_id = "none"
    /\ answers = {}
    /\ udp_result = Err

UdpDropped ==
    /\ udp' = "idle"
    /\ server' = "none"
    /\ transaction_id' = 0
    /\ connection_id' = "none"
    /\ answers' = {}
    /\ udp_result' = Err

UdpStep == ReceiveConnect \/ ReceiveAnnounce \/ ReceiveOther \/ Timeout
=============================================================================
