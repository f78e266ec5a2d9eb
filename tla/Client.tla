-------------------------------- MODULE Client --------------------------------
(***************************************************************************)
(* The main thread of src/src/main.rs with everything around the download  *)
(* manager: it asks the trackers for peers one after the other, lets       *)
(* threads connect to them and shake hands, takes the connections they     *)
(* send over a channel, ticks, and announces the completed download.  The  *)
(* listener's threads send connections over the same channel.              *)
(*                                                                         *)
(* A tick is here what DownloadManager shows of it to main: it may drop    *)
(* peers, may complete the download, and may panic.                        *)
(***************************************************************************)
EXTENDS UdpTracker, MetaInfo

CONSTANTS
    Torrent,         \* the MetaInfo of the .torrent file
    UdpUrls,         \* the URLs that start with udp://
    BadUrls,         \* those that do not parse, or whose host has no address
    Replies,         \* Replies[t]: what a connection to HTTP tracker t may yield
    Address,         \* addresses of peers
    Sharing,         \* those that have this torrent
    Incoming,        \* those that connect to us
    TargetPeerCount, \* TARGET_PEER_COUNT
    EnoughPeers,     \* the 50 of `all_peers.len() >= 50'
    BatchSize        \* the 5 of min(5, ...)

tracker_urls == all_tracker_urls(to_torrent_info(Torrent))

ASSUME ClientAssumption ==
    /\ Converts(Torrent)
    /\ tracker_urls \in Seq(Tracker)
    /\ UdpUrls \subseteq Tracker
    /\ Sharing \subseteq Address
    /\ Incoming \subseteq Address
    /\ TargetPeerCount \in Nat \ {0}
    /\ EnoughPeers \in Nat \ {0}
    /\ BatchSize \in Nat \ {0}

VARIABLES
    pc,                   \* where the main thread is
    udp_client,           \* whether the UDP socket could be bound
    url,                  \* the index in tracker_urls of the loops over them
    all_peers,            \* the peers the trackers named
    peer_index,           \* how many of them were given to a thread
    thread,               \* the thread of each of those peers
    listener_thread,      \* the thread of each incoming connection
    channel,              \* conn_tx to conn_rx: addresses of connections
    peers,                \* how many ActivePeers have an address
    complete,             \* piece_manager.is_complete()
    announced_completed,
    completions           \* completed events announced to each of tracker_urls

loopVars == <<peer_index, thread, listener_thread, channel, peers, complete,
              announced_completed, completions>>
vars == <<udpVars, pc, udp_client, url, all_peers, loopVars>>

\* idle: not started yet.
ThreadState == {"idle", "connecting", "handshaking", "done"}

Phase == {"announce", "start", "take", "spawn", "tick", "check", "completed",
          "returned", "blocked", "spinning", "panicked"}

-----------------------------------------------------------------------------
\* verify_existing_pieces ran: the download may be complete already.
Init ==
    /\ UdpInit
    /\ pc = "announce"
    /\ udp_client \in BOOLEAN
    /\ url = 1
    /\ all_peers = <<>>
    /\ peer_index = 0
    /\ thread = <<>>
    /\ listener_thread = [a \in Incoming |-> "idle"]
    /\ channel = <<>>
    /\ peers = [a \in Address |-> 0]
    /\ complete \in BOOLEAN
    /\ announced_completed = FALSE
    /\ completions = [u \in DOMAIN tracker_urls |-> 0]

\* The loop over the trackers has another one for us.
Announcing(kind) ==
    /\ pc = "announce"
    /\ url \in DOMAIN tracker_urls
    /\ kind = IF tracker_urls[url] \in UdpUrls THEN "udp" ELSE "http"
    /\ UNCHANGED <<udp_client, loopVars>>

\* UdpTrackerClient::new failed: UDP trackers are passed over.
NoUdpClient ==
    /\ Announcing("udp")
    /\ ~udp_client
    /\ url' = url + 1
    /\ UNCHANGED <<udpVars, pc, all_peers>>

\* udp.announce is called ...
CallUdp ==
    /\ Announcing("udp")
    /\ udp_client
    /\ IF tracker_urls[url] \in BadUrls THEN announce_fails(tracker_urls[url])
                                        ELSE announce(tracker_urls[url])
    /\ UNCHANGED <<pc, url, all_peers>>

\* ... reads from its socket, twice if all goes well ...
WaitUdp ==
    /\ Announcing("udp")
    /\ UdpStep
    /\ UNCHANGED <<pc, url, all_peers>>

\* An announce returned: its peers are added, and they may be enough.
Announced(result) ==
    IF result.kind # "ok" THEN url' = url + 1 /\ UNCHANGED <<pc, all_peers>>
    ELSE /\ all_peers' = all_peers \o result.peers
         /\ IF Len(all_peers') >= EnoughPeers THEN pc' = "start" /\ UNCHANGED url
                                              ELSE url' = url + 1 /\ UNCHANGED pc

\* ... and returns.
ReturnUdp ==
    /\ Announcing("udp")
    /\ udp = "returned"
    /\ udp' = "idle"
    /\ Announced(udp_result)
    /\ UNCHANGED <<server, transaction_id, connection_id, answers, udp_result>>

\* What an announce to an HTTP tracker ends in.
Outcomes ==
    [t \in Tracker \ UdpUrls |->
       IF t \in BadUrls THEN {Err} ELSE {announce_http(r) : r \in Replies[t]}]

\* The peers that a tracker names have addresses.
ASSUME ListsAssumption ==
    /\ \A t \in Tracker : from_compact_bytes(Kept(Data(t))) \in Seq(Address)
    /\ \A t \in Tracker \ UdpUrls : \A outcome \in Outcomes[t] :
          outcome.kind = "ok" => outcome.peers \in Seq(Address)

Hangs(outcome) ==
    /\ outcome \in {Waits, Spins}
    /\ pc' = IF outcome = Waits THEN "blocked" ELSE "spinning"

\* tracker_client.announce, which returns or hangs.
CallHttp ==
    /\ Announcing("http")
    /\ \E outcome \in Outcomes[tracker_urls[url]] :
        \/ Hangs(outcome) /\ UNCHANGED <<url, all_peers>>
        \/ outcome \notin {Waits, Spins} /\ Announced(outcome)
    /\ UNCHANGED udpVars

\* The trackers are done.
AnnouncesEnd ==
    /\ pc = "announce"
    /\ url \notin DOMAIN tracker_urls
    /\ pc' = "start"
    /\ UNCHANGED <<udpVars, udp_client, url, all_peers, loopVars>>
-----------------------------------------------------------------------------
\* main returns: there is nobody to ask.
NoPeersFound ==
    /\ pc = "start"
    /\ all_peers = <<>>
    /\ pc' = "returned"
    /\ UNCHANGED <<udpVars, udp_client, url, all_peers, loopVars>>

\* Mutant: peer_index stays behind.
SpawnUpTo_IndexStays(last) ==
    /\ thread' = [i \in DOMAIN all_peers |-> IF i \in (peer_index + 1)..last THEN "connecting"
                                             ELSE IF i <= peer_index THEN thread[i] ELSE "idle"]
    /\ UNCHANGED peer_index

\* A thread is spawned for each of the peers after peer_index up to last.
SpawnUpTo(last) ==
    /\ thread' = [i \in DOMAIN all_peers |-> IF i \in (peer_index + 1)..last THEN "connecting"
                                             ELSE IF i <= peer_index THEN thread[i] ELSE "idle"]
    /\ peer_index' = last

\* The initial batch.  The UDP client is not used again.
Start ==
    /\ pc = "start"
    /\ all_peers # <<>>
    /\ pc' = "take"
    /\ SpawnUpTo(Least(2 * TargetPeerCount, Len(all_peers)))
    /\ UdpDropped
    /\ UNCHANGED <<udp_client, url, all_peers, listener_thread, channel, peers, complete,
                   announced_completed, completions>>

\* The threads' steps leave the main thread's state alone.
mainVars == <<udpVars, pc, udp_client, url, all_peers, peer_index, peers, complete,
              announced_completed, completions>>

\* A panic of the main thread ends the process, and its threads with it.
Running == pc # "panicked"

\* PeerConnection::connect, within its timeout or not.
Connect(i) ==
    /\ Running
    /\ i \in DOMAIN thread
    /\ thread[i] = "connecting"
    /\ \E next \in {"handshaking", "done"} : thread' = [thread EXCEPT ![i] = next]
    /\ UNCHANGED <<mainVars, listener_thread, channel>>

\* What the 68 bytes of a handshake may be: cut off by the end of the stream or
\* a timeout, of another protocol, of a torrent the peer has.
Handshakes(a) ==
    [whole : BOOLEAN, protocol : BOOLEAN, info_hash : {IF a \in Sharing THEN "ours" ELSE "other"}]

\* Mutant: the info hash is not compared.
receive_handshake_AnyTorrent(h) == h.whole /\ h.protocol

receive_handshake(h) == h.whole /\ h.protocol /\ h.info_hash = "ours"

\* The handshake with the peer at a, whose connection is sent to the main thread.
perform(a) ==
    \E h \in Handshakes(a) :
        channel' = IF receive_handshake(h) THEN Append(channel, a) ELSE channel

Handshake(i) ==
    /\ Running
    /\ i \in DOMAIN thread
    /\ thread[i] = "handshaking"
    /\ thread' = [thread EXCEPT ![i] = "done"]
    /\ perform(all_peers[i])
    /\ UNCHANGED <<mainVars, listener_thread>>

\* The listener accepts a connection; it is bound when the loop starts.
Accept(a) ==
    /\ Running
    /\ pc \notin {"announce", "start", "returned"}
    /\ listener_thread[a] = "idle"
    /\ listener_thread' = [listener_thread EXCEPT ![a] = "handshaking"]
    /\ UNCHANGED <<mainVars, thread, channel>>

\* Its thread shakes hands, without a timeout: this need not happen.
ListenerHandshake(a) ==
    /\ Running
    /\ listener_thread[a] = "handshaking"
    /\ listener_thread' = [listener_thread EXCEPT ![a] = "done"]
    /\ perform(a)
    /\ UNCHANGED <<mainVars, thread>>
-----------------------------------------------------------------------------
\* Mutant: whatever comes over the channel is a new peer.
already_connected_Never(a) == FALSE

\* The address is that of a peer.
already_connected(a) == peers[a] > 0

\* add_peer fails when the bitfield cannot be sent.
TakeConnection ==
    /\ pc = "take"
    /\ channel # <<>>
    /\ channel' = Tail(channel)
    /\ LET a == Head(channel) IN
          \/ UNCHANGED peers
          \/ ~already_connected(a) /\ peers' = [peers EXCEPT ![a] = @ + 1]
    /\ UNCHANGED <<udpVars, pc, udp_client, url, all_peers, peer_index, thread,
                   listener_thread, complete, announced_completed, completions>>

ChannelEmpty ==
    /\ pc = "take"
    /\ channel = <<>>
    /\ pc' = "spawn"
    /\ UNCHANGED <<udpVars, udp_client, url, all_peers, loopVars>>

active_count == MapThenSumSet(LAMBDA a : peers[a], Address)

\* Mutant: the last batch is as large as the others.
batch_size_NoLimit == BatchSize

\* Mutant: only whole batches are spawned.
batch_size_WholeOnly == IF Len(all_peers) - peer_index < BatchSize THEN 0 ELSE BatchSize

batch_size == Least(BatchSize, Len(all_peers) - peer_index)

Spawn ==
    /\ pc = "spawn"
    /\ pc' = "tick"
    /\ IF active_count < TargetPeerCount /\ peer_index < Len(all_peers)
         THEN SpawnUpTo(peer_index + batch_size)
         ELSE UNCHANGED <<thread, peer_index>>
    /\ UNCHANGED <<udpVars, udp_client, url, all_peers, listener_thread, channel, peers,
                   complete, announced_completed, completions>>

\* DownloadManager's tick.  It can panic when it removes a peer (RemovePanics),
\* and nothing is asked of the peers after that.
Tick ==
    /\ pc = "tick"
    /\ \/ /\ pc' = "check"
          /\ \E lost \in SUBSET Address :
                peers' = [a \in Address |-> IF a \in lost THEN 0 ELSE peers[a]]
          /\ complete' \in {complete, TRUE}
       \/ /\ pc' = "panicked"
          /\ active_count > 0
          /\ UNCHANGED <<peers, complete>>
    /\ UNCHANGED <<udpVars, udp_client, url, all_peers, peer_index, thread, listener_thread,
                   channel, announced_completed, completions>>

\* Mutant: announced_completed is not asked.
MustAnnounce_Always == complete

MustAnnounce == complete /\ ~announced_completed

Check ==
    /\ pc = "check"
    /\ IF MustAnnounce THEN pc' = "completed" /\ url' = 1
                       ELSE pc' = "take" /\ UNCHANGED url
    /\ UNCHANGED <<udpVars, udp_client, all_peers, loopVars>>

\* Mutant: the loop over the trackers is left at a UDP tracker.
CompletedUdp_Breaks ==
    /\ pc = "completed"
    /\ url \in DOMAIN tracker_urls
    /\ tracker_urls[url] \in UdpUrls
    /\ pc' = "take"
    /\ UNCHANGED <<udpVars, url, udp_client, all_peers, loopVars>>

\* The loop over the trackers announces the completed download to those that
\* are not UDP trackers; what they answer does not matter.
CompletedUdp ==
    /\ pc = "completed"
    /\ url \in DOMAIN tracker_urls
    /\ tracker_urls[url] \in UdpUrls
    /\ url' = url + 1
    /\ UNCHANGED <<udpVars, pc, udp_client, all_peers, loopVars>>

CompletedHttp ==
    /\ pc = "completed"
    /\ url \in DOMAIN tracker_urls
    /\ tracker_urls[url] \notin UdpUrls
    /\ completions' = [completions EXCEPT ![url] = @ + 1]
    /\ \E outcome \in Outcomes[tracker_urls[url]] :
        \/ Hangs(outcome) /\ UNCHANGED url
        \/ outcome \notin {Waits, Spins} /\ url' = url + 1 /\ UNCHANGED pc
    /\ UNCHANGED <<udpVars, udp_client, all_peers, peer_index, thread, listener_thread,
                   channel, peers, complete, announced_completed>>

CompletedEnd ==
    /\ pc = "completed"
    /\ url \notin DOMAIN tracker_urls
    /\ announced_completed' = TRUE
    /\ pc' = "take"
    /\ UNCHANGED <<udpVars, udp_client, url, all_peers, peer_index, thread, listener_thread,
                   channel, peers, complete, completions>>

Hung == pc \in {"blocked", "spinning"}

\* The main thread goes nowhere, or is no more.
Halted == Hung \/ ~Running

\* The process ended, or its main thread goes nowhere.
Ended ==
    /\ pc = "returned" \/ Halted
    /\ UNCHANGED vars
-----------------------------------------------------------------------------
Announces == NoUdpClient \/ CallUdp \/ WaitUdp \/ ReturnUdp \/ CallHttp \/ AnnouncesEnd

Loop ==
    \/ TakeConnection \/ ChannelEmpty \/ Spawn \/ Tick
    \/ Check \/ CompletedUdp \/ CompletedHttp \/ CompletedEnd

MainStep == Announces \/ NoPeersFound \/ Start \/ Loop

Threads ==
    \/ \E i \in DOMAIN thread : Connect(i) \/ Handshake(i)
    \/ \E a \in Incoming : Accept(a) \/ ListenerHandshake(a)

Next == MainStep \/ Threads \/ Ended

Spec == Init /\ [][Next]_vars

\* The main thread never stops by itself: UDP reads time out, the channel is
\* not waited for, and only a read from an HTTP tracker may last for ever,
\* which is a step here.  The loop over the channel ends when no thread sends.
FairSpec == Spec /\ WF_vars(MainStep)
-----------------------------------------------------------------------------
\* Every variable has its type.
ClientTypeOK ==
    /\ pc \in Phase
    /\ udp_client \in BOOLEAN
    /\ url \in 1..(Len(tracker_urls) + 1)
    /\ all_peers \in Seq(Address)
    /\ peer_index \in 0..Len(all_peers)
    /\ DOMAIN thread \subseteq DOMAIN all_peers
    /\ \A i \in DOMAIN thread : thread[i] \in ThreadState
    /\ listener_thread \in [Incoming -> ThreadState]
    /\ channel \in Seq(Address)
    /\ peers \in [Address -> Nat]
    /\ complete \in BOOLEAN
    /\ announced_completed \in BOOLEAN
    /\ completions \in [DOMAIN tracker_urls -> Nat]

\* Trackers may name a peer twice, and it may connect to us as well, all threads
\* handing over their connections on their own: main keeps one of an address.
OneConnectionPerAddress == \A a \in Address : peers[a] <= 1

\* Every connection on the way to main, and every peer it has, came through a
\* handshake for this torrent, from whichever thread.
OnlyThisTorrent ==
    /\ \A i \in DOMAIN channel : channel[i] \in Sharing
    /\ \A a \in Address : peers[a] > 0 => a \in Sharing

\* All trackers share a socket, and the answers of an announce that timed out
\* may still arrive: the connection id in use is that of the tracker asked,
\* and the peers it returns are read from what that tracker sent, as far as the
\* buffer has room for it.
AnswersMatch ==
    /\ udp = "announcing" => connection_id = server
    /\ udp = "returned" /\ udp_result.kind = "ok" => 
          udp_result.peers = from_compact_bytes(Kept(Data(server)))

\* How many peers of its list tracker t gets across: over UDP those that fit the
\* buffer whole, 338 in the code.
Delivered(t) ==
    IF t \in UdpUrls THEN Least(Len(Listed[t]), (AnnounceBuffer - 20) \div 6) ELSE Len(Listed[t])

\* What the loop over the trackers adds is the list of the tracker it is at, in its
\* order: over HTTP all of it, in either form; over UDP its front, and the peers
\* that do not fit the buffer are dropped.
PeersFromTheirTracker ==
    [][all_peers' # all_peers =>
         LET t == tracker_urls[url]
         IN  all_peers' = all_peers \o SubSeq(Listed[t], 1, Delivered(t))]_vars

\* Threads were started for exactly the first peer_index peers.
StartedAreTheFirst == \A i \in DOMAIN thread : thread[i] = "idle" <=> i > peer_index

\* An entry of the trackers' lists is tried once: no thread is started for one
\* that had its thread, however peers are lost and batches cut.  This is not said
\* of a peer: one that two trackers name has two entries and gets two threads,
\* because nothing removes duplicates from all_peers (main.rs:92, 107), which
\* main.rs:118 prints as "unique peers".
EntryTriedOnce ==
    [][\A i \in DOMAIN thread : thread[i] = "done" => thread'[i] = "done"]_vars

\* However often the loop runs after the download is complete, each HTTP tracker is
\* sent the completed event once at most, and announced_completed says that all of
\* them were sent it, whether or not they took it.
CompletedOnce ==
    \A u \in DOMAIN tracker_urls :
        /\ completions[u] <= 1
        /\ announced_completed /\ tracker_urls[u] \notin UdpUrls => completions[u] = 1

\* Whatever the network does to UDP trackers, the announces end: in the
\* download, or for want of peers, or at an HTTP tracker that hangs.
AnnouncesFinish == pc = "announce" ~> pc \in {"take", "returned"} \/ Hung

\* As long as there are fewer peers than wanted, main goes on to the next ones,
\* until it tried all, unless an HTTP tracker or a panic stops it.
AllTried ==
    pc = "take" ~> peer_index = Len(all_peers) \/ active_count >= TargetPeerCount \/ Halted

\* Once the download is complete every HTTP tracker is sent the completed event in
\* the end, also those that come after a UDP tracker or a failed announce, unless
\* one of them or a panic stops main.  UDP trackers are told nothing, though the
\* comments speak of "all trackers" and "announce as usual" (main.rs:286, 296), and
\* an event that a tracker did not take is not sent again (main.rs:299).
CompletionReachesHttp ==
    complete /\ pc = "take" ~>
        \/ \A u \in DOMAIN tracker_urls : tracker_urls[u] \notin UdpUrls => completions[u] > 0
        \/ Halted

\* A read of headers ends: "Read headers until empty line" (http.rs:79).  The
\* loop does not end when the stream does.
HeadersEnd == pc # "spinning"
=============================================================================
