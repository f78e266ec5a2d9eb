---------------------------- MODULE Client_proofs ----------------------------
(***************************************************************************)
(* Proofs about the main loop and the UDP trackers, for any trackers,      *)
(* lists of peers, replies, peers, threads and limits.                     *)
(***************************************************************************)
EXTENDS Client, SequenceFacts, FiniteSetTheorems

-----------------------------------------------------------------------------
(* The announces: which answers may be on their way.                         *)

\* The answers with the current transaction id are to the last request, which
\* went to server.
UdpInv ==
    /\ transaction_id \in Nat
    /\ \A a \in answers : a.id \in Nat /\ a.id <= transaction_id
    /\ udp # "idle" => server \in Tracker
    /\ udp = "connecting" => \A a \in answers :
          a.id = transaction_id /\ a.action = "connect" => a.connection_id = server
    /\ udp = "announcing" => \A a \in answers :
          a.id = transaction_id /\ a.action = "announce" => a.data = Data(server)
    /\ AnswersMatch

\* What a request leaves on its way: what was there, its answer or an error.
LEMMA SendsFacts ==
  ASSUME transaction_id \in Nat,
         \A a \in answers : a.id \in Nat /\ a.id <= transaction_id,
         NEW answer, answer.id = NextId,
         NEW left, left \subseteq answers, Sends(answer, left)
  PROVE  /\ transaction_id' \in Nat
         /\ \A a \in answers' : a.id \in Nat /\ a.id <= transaction_id'
         /\ \A a \in answers' : a.id = transaction_id' /\ a.action # "error" => a = answer
<1>1. transaction_id' = transaction_id + 1
  BY DEF Sends, NextId
<1>2. /\ ErrorAnswer(NextId).id = NextId
      /\ ErrorAnswer(NextId).action = "error"
  BY DEF ErrorAnswer, Answer
<1>3. \A a \in answers' : a \in answers \/ a = answer \/ a = ErrorAnswer(NextId)
  BY DEF Sends
<1>4. NextId = transaction_id + 1
  BY DEF NextId
<1> QED BY <1>1, <1>2, <1>3, <1>4

\* No step of the UDP exchange breaks what is known of its answers and numbers.
LEMMA UdpStepInv == UdpInv /\ UdpStep => UdpInv'
<1> SUFFICES ASSUME UdpInv, UdpStep
             PROVE  UdpInv'
  OBVIOUS
<1> USE DEF UdpInv, AnswersMatch
<1>1. CASE ReceiveConnect
  <2>1. PICK a \in answers : \E left \in {answers, answers \ {a}} :
          /\ Accepted(a, 16, 16, "connect")
          /\ connection_id' = a.connection_id
          /\ Sends(IF a.connection_id = server THEN AnnounceAnswer(server, NextId)
                                               ELSE ErrorAnswer(NextId), left)
    BY <1>1 DEF ReceiveConnect
  <2>2. connection_id' = server
    BY <1>1, <2>1 DEF Accepted, ReceiveConnect
  <2>3. PICK left \in {answers, answers \ {a}} : Sends(AnnounceAnswer(server, NextId), left)
    BY <2>1, <2>2
  <2>4. /\ AnnounceAnswer(server, NextId).id = NextId
        /\ AnnounceAnswer(server, NextId).data = Data(server)
    BY DEF AnnounceAnswer, Answer
  <2>5. /\ transaction_id' \in Nat
        /\ \A b \in answers' : b.id \in Nat /\ b.id <= transaction_id'
        /\ \A b \in answers' :
              b.id = transaction_id' /\ b.action # "error" => b = AnnounceAnswer(server, NextId)
    BY <2>3, <2>4, SendsFacts
  <2>6. udp' = "announcing" /\ UNCHANGED <<server, udp_result>> /\ udp = "connecting"
    BY <1>1 DEF ReceiveConnect
  <2>7. Data(server)' = Data(server)
    BY <2>6 DEF Data
  <2> QED BY <2>2, <2>4, <2>5, <2>6, <2>7
<1>2. CASE ReceiveAnnounce
  <2>1. PICK a \in answers :
          /\ Accepted(a, AnnounceBuffer, 20, "announce")
          /\ Returns([kind |-> "ok", peers |-> from_compact_bytes(Kept(a.data))])
          /\ answers' \in {answers, answers \ {a}}
    BY <1>2 DEF ReceiveAnnounce
  <2>2. a.data = Data(server)
    BY <1>2, <2>1 DEF Accepted, ReceiveAnnounce
  <2>3. /\ udp' = "returned"
        /\ udp_result'.peers = from_compact_bytes(Kept(Data(server)))
    BY <2>1, <2>2 DEF Returns
  <2>4. UNCHANGED <<server, transaction_id, connection_id>> /\ udp = "announcing"
    BY <1>2 DEF ReceiveAnnounce
  <2>5. Kept(Data(server))' = Kept(Data(server))
    BY <2>4 DEF Data, Kept
  <2> QED BY <2>1, <2>3, <2>4, <2>5
<1>3. CASE ReceiveOther \/ Timeout
  <2>1. udp \in {"connecting", "announcing"} /\ answers' \subseteq answers
    BY <1>3 DEF ReceiveOther, Timeout
  <2>2. udp' = "returned" /\ udp_result' = Err
    BY <1>3 DEF ReceiveOther, Timeout, Returns
  <2>3. UNCHANGED <<server, transaction_id, connection_id>>
    BY <1>3 DEF ReceiveOther, Timeout
  <2> QED BY <2>1, <2>2, <2>3 DEF Err
<1> QED BY <1>1, <1>2, <1>3 DEF UdpStep

\* Nor does the call that starts an exchange.
LEMMA CallUdpInv == UdpInv /\ CallUdp => UdpInv'
<1> SUFFICES ASSUME UdpInv, CallUdp
             PROVE  UdpInv'
  OBVIOUS
<1> USE DEF UdpInv, AnswersMatch
<1> DEFINE t == tracker_urls[url]
<1>0. t \in Tracker
  BY ClientAssumption DEF CallUdp, Announcing
<1>1. CASE announce_fails(t)
  BY <1>0, <1>1 DEF announce_fails, Returns, Err
<1>2. CASE announce(t)
  <2>1. /\ ConnectAnswer(t, NextId).id = NextId
        /\ ConnectAnswer(t, NextId).connection_id = t
    BY DEF ConnectAnswer, Answer
  <2>2. /\ transaction_id' \in Nat
        /\ \A a \in answers' : a.id \in Nat /\ a.id <= transaction_id'
        /\ \A a \in answers' :
              a.id = transaction_id' /\ a.action # "error" => a = ConnectAnswer(t, NextId)
    BY <1>2, <2>1, SendsFacts DEF announce
  <2>3. udp' = "connecting" /\ server' = t
    BY <1>2 DEF announce
  <2> QED BY <1>0, <2>1, <2>2, <2>3
<1> QED BY <1>1, <1>2 DEF CallUdp

\* No exchange runs at the start.
LEMMA UdpInit_Inv == Init => UdpInv
BY DEF Init, UdpInit, UdpInv, AnswersMatch

\* No step of the client breaks it.
LEMMA UdpNextInv == UdpInv /\ [Next]_vars => UdpInv'
<1> SUFFICES ASSUME UdpInv, [Next]_vars
             PROVE  UdpInv'
  OBVIOUS
<1>1. CASE UNCHANGED udpVars
  <2>1. Data(server)' = Data(server) /\ Kept(Data(server))' = Kept(Data(server))
    BY <1>1 DEF Data, Kept, udpVars
  <2> QED BY <1>1, <2>1 DEF udpVars, UdpInv, AnswersMatch
<1>2. CASE CallUdp
  BY <1>2, CallUdpInv
<1>3. CASE WaitUdp
  BY <1>3, UdpStepInv DEF WaitUdp
<1>4. CASE ReturnUdp
  BY <1>4 DEF ReturnUdp, UdpInv, AnswersMatch
<1>5. CASE Start
  BY <1>5 DEF Start, UdpDropped, UdpInv, AnswersMatch
<1>6. CASE Announces
  <2>1. CASE NoUdpClient \/ CallHttp \/ AnnouncesEnd
    BY <1>1, <2>1 DEF NoUdpClient, CallHttp, AnnouncesEnd
  <2> QED BY <1>2, <1>3, <1>4, <1>6, <2>1 DEF Announces
<1>7. CASE NoPeersFound \/ Loop
  BY <1>1, <1>7 DEF NoPeersFound, Loop, TakeConnection, ChannelEmpty, Spawn, Tick, Check,
                   CompletedUdp, CompletedHttp, CompletedEnd
<1>8. CASE Threads
  BY <1>1, <1>8 DEF Threads, Connect, Handshake, Accept, ListenerHandshake, mainVars
<1>9. CASE Ended \/ UNCHANGED vars
  BY <1>1, <1>9 DEF Ended, vars
<1> QED BY <1>5, <1>6, <1>7, <1>8, <1>9 DEF Next, MainStep

\* What the UDP exchange has accepted came from its tracker, whatever the
\* network does to datagrams (UdpTracker::request, udp.rs).
THEOREM UdpInvariant == Spec => []UdpInv
BY UdpInit_Inv, UdpNextInv, PTL DEF Spec

\* No answer that is late, or of another tracker, is taken for the one an
\* announce waits for.
THEOREM AnswersAlwaysMatch == Spec => []AnswersMatch
<1>1. UdpInv => AnswersMatch
  BY DEF UdpInv
<1> QED BY <1>1, UdpInvariant, PTL

-----------------------------------------------------------------------------
(* Connections: one of an address, all after a handshake for this torrent.   *)

ConnectionInv ==
    /\ channel \in Seq(Sharing)
    /\ peers \in [Address -> Nat]
    /\ OneConnectionPerAddress
    /\ \A a \in Address : peers[a] > 0 => a \in Sharing

\* Only peers that share the torrent enter the channel.
LEMMA PerformInv ==
  ASSUME NEW a, channel \in Seq(Sharing), perform(a)
  PROVE  channel' \in Seq(Sharing)
<1>1. CASE channel' = channel
  BY <1>1
<1>2. CASE channel' # channel
  <2>1. PICK h \in Handshakes(a) : receive_handshake(h) /\ channel' = Append(channel, a)
    BY <1>2 DEF perform
  <2>2. a \in Sharing
    BY <2>1 DEF Handshakes, receive_handshake
  <2> QED BY <2>1, <2>2
<1> QED BY <1>1, <1>2

\* No step of the client gives an address a second connection.
LEMMA ConnectionNextInv == ConnectionInv /\ [Next]_vars => ConnectionInv'
<1> SUFFICES ASSUME ConnectionInv, [Next]_vars
             PROVE  ConnectionInv'
  OBVIOUS
<1> USE DEF ConnectionInv, OneConnectionPerAddress
<1>1. CASE UNCHANGED <<channel, peers>>
  BY <1>1
<1>2. CASE TakeConnection
  <2>1. Head(channel) \in Sharing /\ Tail(channel) \in Seq(Sharing)
    BY <1>2 DEF TakeConnection
  <2>2. \/ UNCHANGED peers
        \/ /\ peers[Head(channel)] = 0
           /\ peers' = [peers EXCEPT ![Head(channel)] = @ + 1]
    BY <1>2, <2>1, ClientAssumption DEF TakeConnection, already_connected
  <2>3. channel' \in Seq(Sharing)
    BY <1>2, <2>1 DEF TakeConnection
  <2> QED BY <2>1, <2>2, <2>3
<1>3. CASE Tick
  <2>1. CASE UNCHANGED peers
    BY <1>1, <1>3, <2>1 DEF Tick
  <2>2. CASE \E lost \in SUBSET Address :
               peers' = [a \in Address |-> IF a \in lost THEN 0 ELSE peers[a]]
    BY <1>3, <2>2 DEF Tick
  <2> QED BY <1>3, <2>1, <2>2 DEF Tick
<1>4. CASE Loop
  BY <1>1, <1>2, <1>3, <1>4 DEF Loop, ChannelEmpty, Spawn, Check, CompletedUdp, CompletedHttp,
                                CompletedEnd, loopVars
<1>5. CASE Threads
  <2>1. UNCHANGED peers
    BY <1>5 DEF Threads, Connect, Handshake, Accept, ListenerHandshake, mainVars
  <2>2. UNCHANGED channel \/ \E a : perform(a)
    BY <1>5 DEF Threads, Connect, Handshake, Accept, ListenerHandshake
  <2>3. channel' \in Seq(Sharing)
    BY <2>2, PerformInv
  <2> QED BY <2>1, <2>3
<1>6. CASE Announces \/ NoPeersFound \/ Start
  BY <1>1, <1>6 DEF Announces, NoUdpClient, CallUdp, WaitUdp, ReturnUdp, CallHttp, AnnouncesEnd,
                   Announcing, NoPeersFound, Start, loopVars
<1>7. CASE Ended \/ UNCHANGED vars
  BY <1>1, <1>7 DEF Ended, vars, loopVars
<1> QED BY <1>4, <1>5, <1>6, <1>7 DEF Next, MainStep

\* add_peer is never given an address that is connected (main.rs, manager.rs).
THEOREM ConnectionInvariant == Spec => []ConnectionInv
<1>1. Init => ConnectionInv
  BY DEF Init, ConnectionInv, OneConnectionPerAddress
<1> QED BY <1>1, ConnectionNextInv, PTL DEF Spec

\* However many threads hand over connections to an address, one is kept.
THEOREM OneConnectionAlways == Spec => []OneConnectionPerAddress
<1>1. ConnectionInv => OneConnectionPerAddress
  BY DEF ConnectionInv
<1> QED BY <1>1, ConnectionInvariant, PTL

\* Nothing reaches the peers, or the channel, without the right handshake.
THEOREM OnlyThisTorrentAlways == Spec => []OnlyThisTorrent
<1>1. ConnectionInv => OnlyThisTorrent
  BY DEF ConnectionInv, OnlyThisTorrent
<1> QED BY <1>1, ConnectionInvariant, PTL

-----------------------------------------------------------------------------
(* Completed events.                                                         *)

\* What was announced before the completed download is (Before), while the loop
\* is at url (During), and after it.
Http(u) == tracker_urls[u] \notin UdpUrls

CompletionInv ==
    /\ url \in 1..(Len(tracker_urls) + 1)
    /\ announced_completed \in BOOLEAN
    /\ completions \in [DOMAIN tracker_urls -> 0..1]
    /\ announced_completed =>
          \A u \in DOMAIN tracker_urls : Http(u) => completions[u] = 1
    /\ pc \notin {"completed", "blocked", "spinning"} /\ ~announced_completed =>
          \A u \in DOMAIN tracker_urls : completions[u] = 0
    /\ pc = "completed" =>
          /\ ~announced_completed
          /\ \A u \in DOMAIN tracker_urls :
                completions[u] = IF Http(u) /\ u < url THEN 1 ELSE 0

\* The loop over the trackers runs from 1 to their number.
LEMMA UrlNext ==
  ASSUME url \in 1..(Len(tracker_urls) + 1)
  PROVE  /\ DOMAIN tracker_urls = 1..Len(tracker_urls)
         /\ url \in DOMAIN tracker_urls => url + 1 \in 1..(Len(tracker_urls) + 1)
         /\ url \notin DOMAIN tracker_urls =>
               \A u \in DOMAIN tracker_urls : u < url
<1>1. DOMAIN tracker_urls = 1..Len(tracker_urls) /\ Len(tracker_urls) \in Nat
  BY ClientAssumption
<1> QED BY <1>1

\* The trackers' URLs do not change.
LEMMA UrlsFixed == tracker_urls' = tracker_urls /\ \A u : Http(u)' = Http(u)
BY DEF tracker_urls, Http

\* The steps before the loop tell nobody of a completion.
LEMMA CompletionAnnouncesInv ==
  CompletionInv /\ (Announces \/ NoPeersFound \/ Start) => CompletionInv'
<1> SUFFICES ASSUME CompletionInv, Announces \/ NoPeersFound \/ Start
             PROVE  CompletionInv'
  OBVIOUS
<1>1. UNCHANGED <<announced_completed, completions>>
  BY DEF Announces, NoUdpClient, CallUdp, WaitUdp, ReturnUdp, CallHttp, AnnouncesEnd,
         Announcing, NoPeersFound, Start, loopVars
<1>2. pc \in {"announce", "start"}
  BY DEF Announces, NoUdpClient, CallUdp, WaitUdp, ReturnUdp, CallHttp, AnnouncesEnd,
         Announcing, NoPeersFound, Start
<1>3. pc' # "completed"
  BY <1>2 DEF Announces, NoUdpClient, CallUdp, WaitUdp, ReturnUdp, CallHttp, AnnouncesEnd,
         NoPeersFound, Start, Announced, Hangs
<1>4. url' = url \/ (url \in DOMAIN tracker_urls /\ url' = url + 1)
  BY DEF Announces, NoUdpClient, CallUdp, WaitUdp, ReturnUdp, CallHttp, AnnouncesEnd,
         Announcing, NoPeersFound, Start, Announced
<1>5. url' \in 1..(Len(tracker_urls) + 1)
  BY <1>4, UrlNext DEF CompletionInv
<1> QED BY <1>1, <1>2, <1>3, <1>5, UrlsFixed DEF CompletionInv

\* A round of the main loop.
LEMMA CompletionLoopInv == CompletionInv /\ Loop => CompletionInv'
<1> SUFFICES ASSUME CompletionInv, Loop
             PROVE  CompletionInv'
  OBVIOUS
<1> USE UrlsFixed DEF CompletionInv
<1>1. CASE TakeConnection \/ ChannelEmpty \/ Spawn \/ Tick
  <2>1. /\ pc \notin {"completed", "blocked", "spinning"}
        /\ pc' \notin {"completed", "blocked", "spinning"}
    BY <1>1 DEF TakeConnection, ChannelEmpty, Spawn, Tick
  <2>2. UNCHANGED <<url, announced_completed, completions>>
    BY <1>1 DEF TakeConnection, ChannelEmpty, Spawn, Tick, loopVars
  <2> QED BY <2>1, <2>2
<1>2. CASE Check
  <2>1. UNCHANGED <<announced_completed, completions>> /\ pc = "check"
    BY <1>2 DEF Check, loopVars
  <2>2. CASE pc' = "completed" /\ url' = 1 /\ ~announced_completed
    <3>1. \A u \in DOMAIN tracker_urls : ~(u < 1)
      BY UrlNext
    <3>2. url' \in 1..(Len(tracker_urls) + 1)
      BY <2>2, UrlNext, ClientAssumption
    <3>3. \A u \in DOMAIN tracker_urls :
            completions'[u] = IF Http(u) /\ u < url' THEN 1 ELSE 0
      BY <2>1, <2>2, <3>1
    <3> QED BY <2>1, <2>2, <3>2, <3>3
  <2>3. CASE pc' = "take" /\ UNCHANGED url
    BY <2>1, <2>3
  <2> QED BY <1>2, <2>2, <2>3 DEF Check, MustAnnounce
<1>3. CASE CompletedUdp
  <2>1. /\ pc = "completed" /\ UNCHANGED <<pc, announced_completed, completions>>
        /\ url \in DOMAIN tracker_urls /\ ~Http(url) /\ url' = url + 1
    BY <1>3 DEF CompletedUdp, loopVars, Http
  <2>2. url' \in 1..(Len(tracker_urls) + 1)
    BY <2>1, UrlNext
  <2>3. \A u \in DOMAIN tracker_urls : u < url' <=> u < url \/ u = url
    BY <2>1, UrlNext
  <2> QED BY <2>1, <2>2, <2>3
<1>4. CASE CompletedHttp
  <2>1. /\ pc = "completed" /\ UNCHANGED announced_completed
        /\ url \in DOMAIN tracker_urls /\ Http(url)
        /\ completions' = [completions EXCEPT ![url] = @ + 1]
    BY <1>4 DEF CompletedHttp, Http
  <2>2. \/ url' = url /\ pc' \in {"blocked", "spinning"}
        \/ url' = url + 1 /\ pc' = pc
    BY <1>4 DEF CompletedHttp, Hangs
  <2>3. completions[url] = 0
    BY <2>1, UrlNext
  <2>4. completions' = [completions EXCEPT ![url] = 1]
    BY <2>1, <2>3
  <2>5. /\ url' \in 1..(Len(tracker_urls) + 1)
        /\ completions' \in [DOMAIN tracker_urls -> 0..1]
    BY <2>1, <2>2, <2>4, UrlNext
  <2>6. CASE pc' \in {"blocked", "spinning"}
    BY <2>1, <2>5, <2>6
  <2>7. CASE url' = url + 1 /\ pc' = pc
    <3>1. \A u \in DOMAIN tracker_urls : u < url' <=> u < url \/ u = url
      BY <2>1, <2>7, UrlNext
    <3>2. \A u \in DOMAIN tracker_urls :
            completions'[u] = IF Http(u) /\ u < url' THEN 1 ELSE 0
      BY <2>1, <2>4, <3>1
    <3> QED BY <2>1, <2>5, <2>7, <3>2
  <2> QED BY <2>2, <2>6, <2>7
<1>5. CASE CompletedEnd
  <2>1. /\ pc = "completed" /\ pc' = "take" /\ announced_completed' = TRUE
        /\ UNCHANGED <<url, completions>> /\ url \notin DOMAIN tracker_urls
    BY <1>5 DEF CompletedEnd
  <2>2. \A u \in DOMAIN tracker_urls : u < url
    BY <2>1, UrlNext
  <2> QED BY <2>1, <2>2
<1> QED BY <1>1, <1>2, <1>3, <1>4, <1>5 DEF Loop

\* No tracker is told of the completion twice, and once main has announced it, every
\* HTTP tracker was told (announced_completed, main.rs).
THEOREM CompletionInvariant == Spec => []CompletionInv
<1>1. Init => CompletionInv
  <2> SUFFICES ASSUME Init
               PROVE  CompletionInv
    OBVIOUS
  <2>1. url \in 1..(Len(tracker_urls) + 1)
    BY ClientAssumption DEF Init
  <2>2. /\ pc = "announce"
        /\ announced_completed = FALSE
        /\ completions = [u \in DOMAIN tracker_urls |-> 0]
    BY DEF Init
  <2>3. completions \in [DOMAIN tracker_urls -> 0..1]
    BY <2>2
  <2> QED BY <2>1, <2>2, <2>3 DEF CompletionInv
<1>2. CompletionInv /\ [Next]_vars => CompletionInv'
  <2> SUFFICES ASSUME CompletionInv, [Next]_vars
               PROVE  CompletionInv'
    OBVIOUS
  <2>1. CASE UNCHANGED <<pc, url, announced_completed, completions>>
    BY <2>1, UrlsFixed DEF CompletionInv
  <2>2. CASE Threads \/ Ended \/ UNCHANGED vars
    BY <2>1, <2>2 DEF Threads, Connect, Handshake, Accept, ListenerHandshake, mainVars, Ended,
                     vars, loopVars
  <2> QED BY <2>2, CompletionAnnouncesInv, CompletionLoopInv DEF Next, MainStep
<1> QED BY <1>1, <1>2, PTL DEF Spec

\* A tracker is told of the completed download once, and the flag says that all
\* HTTP trackers were.
THEOREM CompletedOnceAlways == Spec => []CompletedOnce
<1>1. CompletionInv => CompletedOnce
  BY DEF CompletionInv, CompletedOnce, Http
<1> QED BY <1>1, CompletionInvariant, PTL

-----------------------------------------------------------------------------
(* The threads: one for each of the first peer_index peers.                  *)

\* Before the loop there is no thread; then there is a state for every peer.
ThreadInv ==
    /\ all_peers \in Seq(Address)
    /\ peer_index \in 0..Len(all_peers)
    /\ \/ thread = <<>> /\ peer_index = 0
       \/ DOMAIN thread = DOMAIN all_peers /\ pc \notin {"announce", "start"}
    /\ StartedAreTheFirst

\* Spawning leaves the threads of the first peers as they are.
LEMMA SpawnFacts ==
  ASSUME ThreadInv, NEW last \in peer_index..Len(all_peers), SpawnUpTo(last), UNCHANGED all_peers,
         pc' \notin {"announce", "start"}
  PROVE  /\ ThreadInv'
         /\ \A i \in DOMAIN thread : thread[i] = "done" => thread'[i] = "done"
<1> USE DEF ThreadInv, StartedAreTheFirst
<1>1. /\ DOMAIN all_peers = 1..Len(all_peers)
      /\ Len(all_peers) \in Nat
      /\ last \in Nat /\ last <= Len(all_peers)
      /\ peer_index \in Nat
    BY SMT
<1>2. /\ peer_index' = last
      /\ DOMAIN thread' = DOMAIN all_peers
      /\ \A i \in DOMAIN all_peers :
            thread'[i] = IF i \in (peer_index + 1)..last THEN "connecting"
                         ELSE IF i <= peer_index THEN thread[i] ELSE "idle"
  BY DEF SpawnUpTo
<1>3. ASSUME NEW i \in DOMAIN all_peers, i <= peer_index
      PROVE  i \in DOMAIN thread /\ thread'[i] = thread[i] /\ thread[i] # "idle"
  <2>1. i \in DOMAIN thread
    BY <1>1, <1>3
  <2>2. ~(i \in (peer_index + 1)..last)
    BY <1>1, <1>3
  <2>3. thread[i] # "idle"
    BY <1>1, <1>3, <2>1
  <2> QED BY <1>2, <1>3, <2>1, <2>2, <2>3
<1>4. \A i \in DOMAIN all_peers : thread'[i] = "idle" <=> i > last
  <2> SUFFICES ASSUME NEW i \in DOMAIN all_peers
               PROVE  thread'[i] = "idle" <=> i > last
    OBVIOUS
  <2>1. CASE i <= peer_index
    BY <1>1, <1>3, <2>1
  <2>2. CASE i \in (peer_index + 1)..last
    BY <1>1, <1>2, <2>2
  <2>3. CASE i > last
    BY <1>1, <1>2, <2>3
  <2> QED BY <1>1, <2>1, <2>2, <2>3
<1>5. \A i \in DOMAIN thread : thread[i] = "done" => i \in DOMAIN all_peers /\ i <= peer_index
  <2> SUFFICES ASSUME NEW i \in DOMAIN thread, thread[i] = "done"
               PROVE  i \in DOMAIN all_peers /\ i <= peer_index
    OBVIOUS
  <2>1. i \in DOMAIN all_peers
    OBVIOUS
  <2> QED BY <1>1, <2>1
<1>6. ThreadInv'
  BY <1>1, <1>2, <1>4
<1> QED BY <1>3, <1>5, <1>6

\* While trackers are asked there are no threads.
LEMMA ThreadAnnouncesInv ==
  ASSUME ThreadInv, UdpInv, Announces
  PROVE  ThreadInv'
<1> USE DEF ThreadInv, StartedAreTheFirst
<1>1. UNCHANGED <<thread, peer_index>> /\ pc = "announce"
  BY DEF Announces, NoUdpClient, CallUdp, WaitUdp, ReturnUdp, CallHttp, AnnouncesEnd,
         Announcing, loopVars
<1>2. thread = <<>> /\ peer_index = 0
  BY <1>1
<1>3. ASSUME NEW result, result.kind = "ok" => result.peers \in Seq(Address), Announced(result)
      PROVE  all_peers' \in Seq(Address)
  <2>1. CASE result.kind = "ok"
    <3>1. all_peers' = all_peers \o result.peers
      BY <1>3, <2>1 DEF Announced
    <3> QED BY <1>3, <2>1, <3>1
  <2>2. CASE result.kind # "ok"
    <3>1. all_peers' = all_peers
      BY <1>3, <2>2, Zenon DEF Announced
    <3> QED BY <3>1
  <2> QED BY <2>1, <2>2
<1>4. all_peers' \in Seq(Address)
  <2>1. CASE ReturnUdp
    <3>1. udp = "returned" /\ Announced(udp_result)
      BY <2>1 DEF ReturnUdp
    <3>2. udp_result.kind = "ok" => udp_result.peers \in Seq(Address)
      BY <3>1, ListsAssumption DEF UdpInv, AnswersMatch
    <3> QED BY <3>1, <3>2, <1>3
  <2>2. CASE CallHttp
    <3>1. tracker_urls[url] \in Tracker \ UdpUrls
      BY <2>2, ClientAssumption DEF CallHttp, Announcing
    <3>2. PICK outcome \in Outcomes[tracker_urls[url]] :
            UNCHANGED all_peers \/ Announced(outcome)
      BY <2>2 DEF CallHttp
    <3>3. outcome.kind = "ok" => outcome.peers \in Seq(Address)
      BY <3>1, <3>2, ListsAssumption
    <3> QED BY <3>2, <3>3, <1>3
  <2>3. CASE UNCHANGED all_peers
    BY <2>3
  <2> QED BY <2>1, <2>2, <2>3 DEF Announces, NoUdpClient, CallUdp, WaitUdp, AnnouncesEnd
<1> QED BY <1>1, <1>2, <1>4

\* What every step does to the threads.
LEMMA ThreadNextInv ==
  ASSUME ThreadInv, UdpInv, [Next]_vars
  PROVE  /\ ThreadInv'
         /\ \A i \in DOMAIN thread : thread[i] = "done" => thread'[i] = "done"
<1>1. CASE UNCHANGED <<all_peers, peer_index, thread>> /\ (pc' = pc \/ pc' \notin {"announce", "start"})
  BY <1>1 DEF ThreadInv, StartedAreTheFirst
<1>2. CASE Announces
  <2>1. UNCHANGED thread
    BY <1>2 DEF Announces, NoUdpClient, CallUdp, WaitUdp, ReturnUdp, CallHttp, AnnouncesEnd,
               Announcing, loopVars
  <2> QED BY <1>2, <2>1, ThreadAnnouncesInv
<1>3. CASE Start
  <2>1. Least(2 * TargetPeerCount, Len(all_peers)) \in 0..Len(all_peers)
    BY ClientAssumption DEF ThreadInv, Least
  <2>2. peer_index = 0
    BY <1>3 DEF Start, ThreadInv
  <2>3. pc' = "take" /\ UNCHANGED all_peers
        /\ SpawnUpTo(Least(2 * TargetPeerCount, Len(all_peers)))
    BY <1>3 DEF Start
  <2> QED BY <2>1, <2>2, <2>3, SpawnFacts
<1>4. CASE Spawn
  <2>1. pc' = "tick" /\ UNCHANGED all_peers
    BY <1>4 DEF Spawn
  <2>2. CASE UNCHANGED <<thread, peer_index>>
    BY <1>1, <2>1, <2>2
  <2>3. CASE peer_index < Len(all_peers) /\ SpawnUpTo(peer_index + batch_size)
    <3>1. peer_index + batch_size \in peer_index..Len(all_peers)
      BY <2>3, ClientAssumption DEF ThreadInv, batch_size, Least
    <3> QED BY <2>1, <2>3, <3>1, SpawnFacts
  <2> QED BY <1>4, <2>2, <2>3 DEF Spawn
<1>5. CASE \E i \in DOMAIN thread : Connect(i) \/ Handshake(i)
  <2>1. PICK i \in DOMAIN thread : \E next \in {"handshaking", "done"} :
          /\ thread[i] \in {"connecting", "handshaking"}
          /\ thread' = [thread EXCEPT ![i] = next]
          /\ UNCHANGED <<all_peers, peer_index, pc>>
    BY <1>5 DEF Connect, Handshake, mainVars
  <2>2. DOMAIN thread' = DOMAIN thread /\ thread # <<>>
    BY <2>1
  <2>3. \A j \in DOMAIN thread : thread'[j] = "idle" <=> thread[j] = "idle"
    BY <2>1
  <2> QED BY <2>1, <2>2, <2>3 DEF ThreadInv, StartedAreTheFirst
<1>6. CASE NoPeersFound \/ TakeConnection \/ ChannelEmpty \/ Tick \/ Check \/ CompletedUdp
           \/ CompletedHttp \/ CompletedEnd \/ Ended \/ UNCHANGED vars
  BY <1>1, <1>6 DEF NoPeersFound, TakeConnection, ChannelEmpty, Tick, Check, CompletedUdp,
         CompletedHttp, CompletedEnd, Hangs, Ended, vars, loopVars
<1>7. CASE \E a \in Incoming : Accept(a) \/ ListenerHandshake(a)
  BY <1>1, <1>7 DEF Accept, ListenerHandshake, mainVars
<1> QED BY <1>2, <1>3, <1>4, <1>5, <1>6, <1>7 DEF Next, MainStep, Loop, Threads

\* The threads started so far are those of the first peers of the list (main.rs).
THEOREM ThreadInvariant == Spec => []ThreadInv
<1>1. Init => ThreadInv
  BY DEF Init, ThreadInv, StartedAreTheFirst
<1>2. ThreadInv /\ UdpInv /\ [Next]_vars => ThreadInv'
  BY ThreadNextInv
<1> QED BY <1>1, <1>2, UdpInvariant, PTL DEF Spec

\* Threads are started in the order of the list, leaving nobody out.
THEOREM StartedAreAlwaysTheFirst == Spec => []StartedAreTheFirst
<1>1. ThreadInv => StartedAreTheFirst
  BY DEF ThreadInv
<1> QED BY <1>1, ThreadInvariant, PTL

\* No entry of the trackers' lists gets a second thread.  (A peer may: it can have
\* several entries, as nothing removes duplicates from all_peers.)
THEOREM NoEntryTriedAgain == Spec => EntryTriedOnce
<1> DEFINE Stay == \A i \in DOMAIN thread : thread[i] = "done" => thread'[i] = "done"
<1>1. ThreadInv /\ UdpInv /\ [Next]_vars => [Stay]_vars
  BY ThreadNextInv
<1>2. Spec => [][Stay]_vars
  BY <1>1, ThreadInvariant, UdpInvariant, PTL DEF Spec
<1> QED BY <1>2 DEF EntryTriedOnce

-----------------------------------------------------------------------------
(* The type invariant.                                                       *)

OtherTypes ==
    /\ pc \in Phase
    /\ udp_client \in BOOLEAN
    /\ complete \in BOOLEAN
    /\ listener_thread \in [Incoming -> ThreadState]
    /\ \A i \in DOMAIN thread : thread[i] \in ThreadState

\* The threads keep their states.
LEMMA ThreadStatesStep ==
  ASSUME OtherTypes, ThreadInv, [Next]_vars
  PROVE  \A i \in DOMAIN thread' : thread'[i] \in ThreadState
<1> USE DEF OtherTypes, ThreadState
<1>1. CASE UNCHANGED thread
  BY <1>1
<1>2. ASSUME NEW last, SpawnUpTo(last)
      PROVE  \A i \in DOMAIN thread' : thread'[i] \in ThreadState
  <2> SUFFICES ASSUME NEW i \in DOMAIN thread'
               PROVE  thread'[i] \in ThreadState
    OBVIOUS
  <2>1. i \in DOMAIN all_peers
    BY <1>2 DEF SpawnUpTo
  <2>2. i <= peer_index => i \in DOMAIN thread
    BY <2>1 DEF ThreadInv
  <2> QED BY <1>2, <2>1, <2>2 DEF SpawnUpTo
<1>3. CASE Start \/ Spawn
  BY <1>1, <1>2, <1>3 DEF Start, Spawn
<1>4. CASE \E i \in DOMAIN thread : Connect(i) \/ Handshake(i)
  BY <1>4 DEF Connect, Handshake
<1>5. CASE \E a \in Incoming : Accept(a) \/ ListenerHandshake(a)
  BY <1>1, <1>5 DEF Accept, ListenerHandshake
<1>6. CASE Announces
  BY <1>1, <1>6 DEF Announces, NoUdpClient, CallUdp, WaitUdp, ReturnUdp, CallHttp, AnnouncesEnd,
         Announcing, loopVars
<1>7. CASE NoPeersFound \/ TakeConnection \/ ChannelEmpty \/ Tick \/ Check \/ CompletedUdp
           \/ CompletedHttp \/ CompletedEnd \/ Ended \/ UNCHANGED vars
  BY <1>1, <1>7 DEF NoPeersFound, TakeConnection, ChannelEmpty, Tick, Check, CompletedUdp,
         CompletedHttp, CompletedEnd, Ended, vars, loopVars
<1> QED BY <1>3, <1>4, <1>5, <1>6, <1>7 DEF Next, MainStep, Loop, Threads

\* The other variables keep their types.
LEMMA OtherTypesStep ==
  ASSUME OtherTypes, ThreadInv, [Next]_vars
  PROVE  OtherTypes'
<1> USE DEF OtherTypes, ThreadState, Phase
<1>1. \A i \in DOMAIN thread' : thread'[i] \in ThreadState
  BY ThreadStatesStep
<1>2. CASE Announces \/ NoPeersFound \/ Start \/ Loop
  <2>1. UNCHANGED <<udp_client, listener_thread>>
    BY <1>2 DEF Announces, NoUdpClient, CallUdp, WaitUdp, ReturnUdp, CallHttp, AnnouncesEnd,
         Announcing, NoPeersFound, Start, Loop, TakeConnection, ChannelEmpty, Spawn, Tick, Check,
         CompletedUdp, CompletedHttp, CompletedEnd, loopVars
  <2>2. complete' \in BOOLEAN
    BY <1>2 DEF Announces, NoUdpClient, CallUdp, WaitUdp, ReturnUdp, CallHttp, AnnouncesEnd,
         Announcing, NoPeersFound, Start, Loop, TakeConnection, ChannelEmpty, Spawn, Tick, Check,
         CompletedUdp, CompletedHttp, CompletedEnd, loopVars
  <2>3. pc' \in Phase
    BY <1>2 DEF Announces, NoUdpClient, CallUdp, WaitUdp, ReturnUdp, CallHttp, AnnouncesEnd,
         Announced, Hangs, NoPeersFound, Start, Loop, TakeConnection, ChannelEmpty, Spawn, Tick,
         Check, CompletedUdp, CompletedHttp, CompletedEnd
  <2> QED BY <1>1, <2>1, <2>2, <2>3
<1>3. CASE Threads
  BY <1>1, <1>3 DEF Threads, Connect, Handshake, Accept, ListenerHandshake, mainVars
<1>4. CASE Ended \/ UNCHANGED vars
  BY <1>4 DEF Ended, vars, loopVars
<1> QED BY <1>2, <1>3, <1>4 DEF Next, MainStep

\* The main loop's variables keep their types; no index leaves its list.
THEOREM ClientTypeCorrect == Spec => []ClientTypeOK
<1>1. Init => OtherTypes
  BY DEF Init, OtherTypes, Phase, ThreadState
<1>2. OtherTypes /\ ThreadInv /\ [Next]_vars => OtherTypes'
  BY OtherTypesStep
<1>3. OtherTypes /\ ThreadInv /\ ConnectionInv /\ CompletionInv => ClientTypeOK
  <2> SUFFICES ASSUME OtherTypes, ThreadInv, ConnectionInv, CompletionInv
               PROVE  ClientTypeOK
    OBVIOUS
  <2>1. channel \in Seq(Address)
    BY ClientAssumption DEF ConnectionInv
  <2>2. DOMAIN thread \subseteq DOMAIN all_peers
    BY DEF ThreadInv
  <2>3. completions \in [DOMAIN tracker_urls -> Nat]
    BY DEF CompletionInv
  <2> QED BY <2>1, <2>2, <2>3 DEF ClientTypeOK, OtherTypes, ThreadInv, ConnectionInv, CompletionInv
<1> QED BY <1>1, <1>2, <1>3, ThreadInvariant, ConnectionInvariant, CompletionInvariant, PTL DEF Spec

-----------------------------------------------------------------------------
(* The peers: what the trackers list is what main has.                       *)

\* The dictionaries whose ip parses are those of the peers of a list, in its
\* order: at says where each is.
NamedBy(dictionaries, list) ==
    \E count \in Nat : \E at \in [1..Len(list) -> 1..count] :
        /\ DOMAIN dictionaries = 1..count
        /\ \A i, j \in 1..Len(list) : i < j => at[i] < at[j]
        /\ \A i \in 1..Len(list) : dictionaries[at[i]].ip /\ dictionaries[at[i]].address = list[i]
        /\ \A k \in 1..count : dictionaries[k].ip => \E i \in 1..Len(list) : at[i] = k

\* The trackers send the peers they list: as dictionaries, or in compact form
\* with less than one peer more.
TrackersSendTheirLists ==
    /\ \A t \in Tracker : Listed[t] \in Seq(Address) /\ Rest[t] \in 0..5
    /\ \A t \in Tracker \ (UdpUrls \cup BadUrls) : \A r \in Replies[t] :
          LET s == r.response IN
          ~s.failure /\ (s.interval # 0 \/ s.peers # <<>>) =>
             IF s.compact THEN \E rest \in 0..5 : s.peers = Compact(Listed[t], rest)
                          ELSE NamedBy(s.peers, Listed[t])

\* Where the bytes of a peer are.
LEMMA CompactBytes ==
  ASSUME NEW list \in Seq(Address), NEW rest \in Nat
  PROVE  /\ Len(Compact(list, rest)) = 6 * Len(list) + rest
         /\ Compact(list, rest) \in Seq((Address \cup {"rest"}) \X Nat)
         /\ \A i \in 1..Len(list), k \in 1..6 :
               Compact(list, rest)[6 * (i - 1) + k] = <<list[i], k>>
<1> DEFINE B == (Address \cup {"rest"}) \X Nat
           part(i) == [k \in 1..6 |-> <<list[i], k>>]
           ss == [i \in DOMAIN list |-> part(i)]
           tail == [k \in 1..rest |-> <<"rest", k>>]
           n == Len(list)
<1>1. n \in Nat /\ DOMAIN list = 1..n /\ \A i \in 1..n : list[i] \in Address
  OBVIOUS
<1> HIDE DEF n
<1>2. ASSUME NEW i \in 1..n PROVE part(i) \in Seq(B) /\ Len(part(i)) = 6
  <2>1. \A k \in 1..6 : <<list[i], k>> \in B
    BY <1>1
  <2> HIDE DEF B
  <2> QED BY <2>1
<1>3. tail \in Seq(B) /\ Len(tail) = rest
  <2>1. \A k \in 1..rest : <<"rest", k>> \in B
    OBVIOUS
  <2> HIDE DEF B
  <2> QED BY <2>1
<1> HIDE DEF B, part, tail
<1>4. ss \in Seq(Seq(B)) /\ Len(ss) = n /\ \A i \in 1..n : ss[i] = part(i)
  BY <1>1, <1>2
<1>5. Compact(list, rest) = FlattenSeq(ss) \o tail
  BY DEF Compact, part, tail
<1> HIDE DEF ss
<1>6. FlattenSeq(ss) \in Seq(B)
  BY <1>4, FlattenType
<1>7. /\ Len(FlattenSeq(ss)) = 6 * n
      /\ \A i \in 1..n, k \in 1..6 : FlattenSeq(ss)[6 * (i - 1) + k] = part(i)[k]
  <2>1. \A i \in 1..Len(ss) : Len(ss[i]) = 6
    BY <1>2, <1>4
  <2>2. /\ Len(FlattenSeq(ss)) = 6 * Len(ss)
        /\ \A i \in 1..Len(ss), k \in 1..6 : FlattenSeq(ss)[6 * (i - 1) + k] = ss[i][k]
    BY <1>4, <2>1, FlattenSixes
  <2>3. ASSUME NEW i \in 1..n, NEW k \in 1..6
        PROVE  FlattenSeq(ss)[6 * (i - 1) + k] = part(i)[k]
    <3>1. i \in 1..Len(ss) /\ ss[i] = part(i)
      BY <1>4
    <3> QED BY <2>2, <3>1, Zenon
  <2> QED BY <1>4, <2>2, <2>3, Zenon
<1> DEFINE flat == FlattenSeq(ss)
<1> HIDE DEF flat
<1>8. /\ flat \o tail \in Seq(B) /\ Len(flat \o tail) = Len(flat) + Len(tail)
      /\ \A k \in 1..Len(flat) : (flat \o tail)[k] = flat[k]
  BY <1>3, <1>6, ConcatElements DEF flat
<1>9. ASSUME NEW i \in 1..n, NEW k \in 1..6
      PROVE  Compact(list, rest)[6 * (i - 1) + k] = <<list[i], k>>
  <2>1. 6 * (i - 1) + k \in 1..(6 * n)
    BY <1>1
  <2>2. part(i)[k] = <<list[i], k>>
    BY DEF part
  <2> QED BY <1>5, <1>7, <1>8, <2>1, <2>2 DEF flat
<1> QED BY <1>1, <1>3, <1>5, <1>7, <1>8, <1>9 DEF flat, n, B

\* Six bytes from the start of one make that peer.
LEMMA SixBytes ==
  ASSUME NEW list \in Seq(Address), NEW rest \in Nat, NEW i \in 1..Len(list)
  PROVE  from_compact(Bytes(Compact(list, rest), 6 * (i - 1), 6)) = <<list[i]>>
<1> DEFINE data == Compact(list, rest)
           B == (Address \cup {"rest"}) \X Nat
           first == 6 * (i - 1)
           six == SubSeq(data, first + 1, first + 6)
<1>1. /\ Len(data) = 6 * Len(list) + rest
      /\ data \in Seq(B)
      /\ \A k \in 1..6 : data[first + k] = <<list[i], k>>
  BY CompactBytes
<1> HIDE DEF data, B
<1>2. first \in Nat /\ first <= first + 6 /\ first + 6 <= Len(data)
  BY <1>1
<1>3. /\ Len(six) = 6 /\ six \in Seq(B)
      /\ \A k \in 1..6 : six[k] = data[first + k]
  <2> DEFINE last == first + 6
  <2>1. last \in Nat /\ last - first = 6
    BY <1>2
  <2>2. /\ SubSeq(data, first + 1, last) \in Seq(B)
        /\ Len(SubSeq(data, first + 1, last)) = last - first
        /\ \A k \in 1..(last - first) : SubSeq(data, first + 1, last)[k] = data[first + k]
    <3> HIDE DEF first, last
    <3> QED BY <1>1, <1>2, <2>1, SliceElements, SMTT(30) DEF last
  <2> QED BY <2>1, <2>2
<1>4. Bytes(data, first, 6) = six
  BY DEF Bytes
<1> HIDE DEF six, first
<1>5. DOMAIN six = 1..6
  BY <1>3
<1>6. \A k \in 1..6 : six[k] = <<list[i], k>>
  BY <1>1, <1>3
<1>7. six[1][1] = list[i]
  BY <1>6
<1> QED BY <1>3, <1>4, <1>5, <1>6, <1>7 DEF from_compact, first, data

\* Cutting bytes by sixes gives a list back whose peers they are; less than six
\* more are no peer.
LEMMA CutBySixes ==
  ASSUME NEW list \in Seq(Address), NEW data, Len(data) \div 6 = Len(list),
         \A i \in 1..Len(list) : from_compact(Bytes(data, 6 * (i - 1), 6)) = <<list[i]>>
  PROVE  from_compact_bytes(data) = list
<1> DEFINE n == Len(list)
           one(i) == from_compact(Bytes(data, 6 * (i - 1), 6))
           ss == [i \in 1..(Len(data) \div 6) |-> one(i)]
           at == [i \in 1..n |-> i]
<1>1. n \in Nat /\ \A i \in 1..n : list[i] \in Address
  OBVIOUS
<1>2. \A i \in 1..n : one(i) = <<list[i]>>
  OBVIOUS
<1>3. from_compact_bytes(data) = FlattenSeq(ss)
  BY DEF from_compact_bytes
<1>4. ss = [i \in 1..n |-> one(i)]
  OBVIOUS
<1> HIDE DEF n, one
<1>5. /\ ss \in Seq(Seq(Address)) /\ Len(ss) = n
      /\ \A i \in 1..n : ss[i] = <<list[i]>>
  <2>1. ss = [i \in 1..n |-> <<list[i]>>]
    BY <1>2, <1>4
  <2>2. \A i \in 1..n : <<list[i]>> \in Seq(Address)
    BY <1>1
  <2> HIDE DEF ss
  <2> QED BY <1>1, <2>1, <2>2
<1> HIDE DEF ss
<1>6. /\ at \in [1..n -> 1..n]
      /\ \A i \in 1..n : at[i] = i
  OBVIOUS
<1> HIDE DEF at
<1>7. FlattenSeq(ss) = list
  <2>1. Picks(at, list, ss)
    BY <1>5, <1>6 DEF n, Picks
  <2> QED BY <1>5, <2>1, FlattenFilter
<1> QED BY <1>3, <1>7

\* What the buffer has room for is read back as the front of the list: a peer
\* that is cut apart is none.
LEMMA CutKept ==
  ASSUME NEW list \in Seq(Address), NEW rest \in 0..5
  PROVE  from_compact_bytes(Kept(Compact(list, rest)))
           = SubSeq(list, 1, Least(Len(list), (AnnounceBuffer - 20) \div 6))
<1> DEFINE data == Compact(list, rest)
           n == Len(list)
           room == AnnounceBuffer - 20
           whole == room \div 6
           m == Least(n, whole)
           front == SubSeq(list, 1, m)
           kept == Kept(data)
           B == (Address \cup {"rest"}) \X Nat
<1>1. rest \in Nat /\ n \in Nat /\ room \in Nat
  BY BufferAssumption
<1>2. Len(data) = 6 * n + rest /\ data \in Seq(B)
  BY <1>1, CompactBytes
<1>3. whole \in Nat /\ room % 6 \in 0..5 /\ room = whole * 6 + (room % 6)
  <2> HIDE DEF room
  <2> QED BY <1>1, QuotientFacts
<1>4. m \in 0..n /\ m <= whole
  <2> HIDE DEF n, whole
  <2> QED BY <1>1, <1>3 DEF Least
<1>5. front \in Seq(Address) /\ Len(front) = m /\ \A i \in 1..m : front[i] = list[i]
  <2> HIDE DEF m
  <2>1. m \in Nat /\ 0 <= m /\ m <= Len(list)
    BY <1>4
  <2>2. /\ SubSeq(list, 0 + 1, m) \in Seq(Address)
        /\ Len(SubSeq(list, 0 + 1, m)) = m - 0
        /\ \A i \in 1..(m - 0) : SubSeq(list, 0 + 1, m)[i] = list[0 + i]
    BY <2>1, SliceElements
  <2> QED BY <2>1, <2>2
<1> HIDE DEF data, B
<1>6. /\ Len(kept) \div 6 = m
      /\ \A i \in 1..m : Bytes(kept, 6 * (i - 1), 6) = Bytes(data, 6 * (i - 1), 6)
  <2>1. ASSUME NEW a \in Nat, NEW q \in Nat, NEW r \in 0..(6 - 1), a = q * 6 + r
        PROVE  a \div 6 = q
    BY <2>1, QuotientUnique
  <2>2. CASE Len(data) <= room
    <3>1. kept = data
      BY <2>2 DEF Kept
    <3>2. n <= whole
      <4> HIDE DEF n, room, whole
      <4> QED BY <1>1, <1>2, <1>3, <2>2
    <3>3. m = n
      <4> HIDE DEF n, whole
      <4> QED BY <1>1, <1>3, <3>2 DEF Least
    <3>4. Len(data) \div 6 = n
      <4> HIDE DEF n
      <4>1. Len(data) = n * 6 + rest /\ rest \in 0..(6 - 1) /\ Len(data) \in Nat
        BY <1>1, <1>2
      <4> QED BY <1>1, <2>1, <4>1
    <3> QED BY <3>1, <3>3, <3>4
  <2>3. CASE Len(data) > room
    <3>1. kept = SubSeq(data, 1, room)
      BY <1>1, <1>2, <2>3 DEF Kept
    <3>2. whole <= n
      <4> HIDE DEF n, room, whole
      <4> QED BY <1>1, <1>2, <1>3, <2>3
    <3>3. m = whole
      <4> HIDE DEF n, whole
      <4> QED BY <1>1, <1>3, <3>2 DEF Least
    <3> HIDE DEF m, room, n, kept
    <3>4. /\ Len(kept) = room
          /\ kept \in Seq(B)
          /\ \A k \in 1..room : kept[k] = data[k]
      <4>1. 0 \in Nat /\ 0 <= room /\ room <= Len(data)
        BY <1>1, <1>2, <2>3
      <4>2. /\ SubSeq(data, 0 + 1, room) \in Seq(B)
            /\ Len(SubSeq(data, 0 + 1, room)) = room - 0
            /\ \A k \in 1..(room - 0) : SubSeq(data, 0 + 1, room)[k] = data[0 + k]
        BY <1>1, <1>2, <4>1, SliceElements
      <4> QED BY <1>1, <1>2, <3>1, <4>2
    <3>5. room \div 6 = m
      BY <3>3 DEF whole
    <3>6. ASSUME NEW i \in 1..m PROVE Bytes(kept, 6 * (i - 1), 6) = Bytes(data, 6 * (i - 1), 6)
      <4> DEFINE first == 6 * (i - 1)
                 last == first + 6
      <4>1. first \in Nat /\ last \in Nat /\ first <= last /\ last - first = 6 /\ last <= room
        BY <1>1, <1>3, <1>4, <3>3
      <4>2. last <= Len(kept) /\ last <= Len(data)
        BY <4>1, <1>1, <1>2, <2>3, <3>4
      <4> HIDE DEF first, last
      <4>3. /\ SubSeq(kept, first + 1, last) \in Seq(B)
            /\ Len(SubSeq(kept, first + 1, last)) = last - first
            /\ \A k \in 1..(last - first) : SubSeq(kept, first + 1, last)[k] = kept[first + k]
        BY <4>1, <4>2, <3>4, SliceElements
      <4>4. /\ SubSeq(data, first + 1, last) \in Seq(B)
            /\ Len(SubSeq(data, first + 1, last)) = last - first
            /\ \A k \in 1..(last - first) : SubSeq(data, first + 1, last)[k] = data[first + k]
        BY <4>1, <4>2, <1>2, SliceElements
      <4>5. \A k \in 1..(last - first) : kept[first + k] = data[first + k]
        BY <4>1, <3>4, <1>1
      <4>6. SubSeq(kept, first + 1, last) = SubSeq(data, first + 1, last)
        <5> DEFINE x == SubSeq(kept, first + 1, last)
                   y == SubSeq(data, first + 1, last)
        <5>1. x \in Seq(B) /\ y \in Seq(B) /\ Len(x) = Len(y) /\ \A k \in 1..Len(x) : x[k] = y[k]
          BY <4>3, <4>4, <4>5
        <5> HIDE DEF x, y
        <5>2. x = y
          BY <5>1
        <5> QED BY <5>2 DEF x, y
      <4>7. Bytes(kept, first, 6) = SubSeq(kept, first + 1, first + 6)
            /\ Bytes(data, first, 6) = SubSeq(data, first + 1, first + 6)
        BY DEF Bytes
      <4>8. last = first + 6
        BY DEF last
      <4> QED BY <4>6, <4>7, <4>8 DEF first
    <3> QED BY <3>4, <3>5, <3>6
  <2> QED BY <1>1, <1>2, <2>2, <2>3
<1>7. ASSUME NEW i \in 1..m PROVE from_compact(Bytes(kept, 6 * (i - 1), 6)) = <<front[i]>>
  <2>1. i \in 1..Len(list)
    BY <1>4
  <2>2. from_compact(Bytes(data, 6 * (i - 1), 6)) = <<list[i]>>
    BY <1>1, <2>1, SixBytes DEF data
  <2> QED BY <1>5, <1>6, <2>2
<1> HIDE DEF m, kept, front
<1>8. from_compact_bytes(kept) = front
  BY <1>5, <1>6, <1>7, CutBySixes
<1> QED BY <1>8 DEF kept, front, m, whole, room, n, data

\* So does the loop of parse_peers.
LEMMA ParseCompact ==
  ASSUME NEW list \in Seq(Address), NEW rest \in 0..5, NEW response,
         response.compact, response.peers = Compact(list, rest)
  PROVE  parse_peers(response) = list
<1> DEFINE data == response.peers
           m == Len(list)
           L == Len(data)
           done(n) == IF n < m THEN n ELSE m
           h == [n \in 0..L |-> [offset |-> 6 * done(n), peers |-> SubSeq(list, 1, done(n))]]
           body(f, n) == IF n = 0 THEN [offset |-> 0, peers |-> <<>>]
                                  ELSE parse_round(data, f[n - 1])
           loop[n \in 0..L] == body(loop, n)
<1>1. m \in Nat /\ L \in Nat /\ L = 6 * m + rest
  <2>1. rest \in Nat /\ m \in Nat
    OBVIOUS
  <2>2. L = 6 * m + rest
    BY <2>1, CompactBytes
  <2> QED BY <2>1, <2>2
<1>2. \A i \in 1..m : from_compact(Bytes(data, 6 * (i - 1), 6)) = <<list[i]>>
  BY SixBytes
<1>3. /\ SubSeq(list, 1, m) = list
      /\ SubSeq(list, 1, 0) = <<>>
      /\ \A i \in 1..m : SubSeq(list, 1, i) = SubSeq(list, 1, i - 1) \o <<list[i]>>
  OBVIOUS
<1>4. parse_peers(response) = loop[L].peers
  BY DEF parse_peers
<1> HIDE DEF m, data, L
<1>5. ASSUME NEW n \in 1..L PROVE parse_round(data, h[n - 1]) = h[n]
  <2>1. n - 1 \in 0..L /\ n \in 0..L
    BY <1>1
  <2> DEFINE d == done(n - 1)
  <2>2. h[n - 1] = [offset |-> 6 * d, peers |-> SubSeq(list, 1, d)]
    BY <2>1
  <2>3. h[n] = [offset |-> 6 * done(n), peers |-> SubSeq(list, 1, done(n))]
    BY <2>1
  <2> HIDE DEF h
  <2>4. CASE n - 1 < m
    <3>1. n \in 1..m /\ d = n - 1 /\ done(n) = n /\ ~(6 * (n - 1) + 6 > L)
          /\ 6 * n = 6 * (n - 1) + 6
      BY <1>1, <2>4
    <3> HIDE DEF d, done
    <3>2. from_compact(Bytes(data, 6 * (n - 1), 6)) = <<list[n]>> /\ <<list[n]>> # <<>>
      BY <1>2, <3>1
    <3>3. SubSeq(list, 1, n) = SubSeq(list, 1, n - 1) \o <<list[n]>>
      BY <1>3, <3>1
    <3> DEFINE before == SubSeq(list, 1, n - 1)
               o == 6 * (n - 1)
               e == <<list[n]>>
    <3>4. parse_round(data, [offset |-> o, peers |-> before]) = [offset |-> o + 6, peers |-> before \o e]
      <4>1. from_compact(Bytes(data, o, 6)) = e /\ e # <<>> /\ ~(o + 6 > Len(data))
        BY <3>1, <3>2 DEF L
      <4> HIDE DEF before, o, e
      <4> QED BY <4>1 DEF parse_round
    <3> QED BY <2>2, <2>3, <3>1, <3>3, <3>4 DEF d
  <2>5. CASE ~(n - 1 < m)
    <3>1. d = m /\ done(n) = m /\ 6 * m + 6 > L
      BY <1>1, <2>5
    <3> HIDE DEF d, done
    <3> DEFINE all == SubSeq(list, 1, m)
               o == 6 * m
    <3>2. parse_round(data, [offset |-> o, peers |-> all]) = [offset |-> o, peers |-> all]
      <4>1. o + 6 > Len(data)
        BY <3>1 DEF L
      <4> HIDE DEF all, o
      <4> QED BY <4>1 DEF parse_round
    <3> QED BY <2>2, <2>3, <3>1, <3>2
  <2> QED BY <2>4, <2>5
<1>6. h[0] = [offset |-> 0, peers |-> <<>>] /\ h[L].peers = list
  <2>1. 0 \in 0..L /\ L \in 0..L /\ done(0) = 0 /\ done(L) = m
    BY <1>1
  <2> HIDE DEF done
  <2>2. h[0] = [offset |-> 0, peers |-> SubSeq(list, 1, 0)]
    <3>1. h[0] = [offset |-> 6 * 0, peers |-> SubSeq(list, 1, 0)] /\ 6 * 0 = 0
      BY <2>1
    <3> HIDE DEF h
    <3> QED BY <3>1
  <2>3. h[L] = [offset |-> 6 * m, peers |-> SubSeq(list, 1, m)]
    BY <2>1
  <2> HIDE DEF h
  <2>4. h[L].peers = list
    BY <1>3, <2>3
  <2>5. SubSeq(list, 1, 0) = <<>>
    BY <1>3
  <2> QED BY <2>2, <2>4, <2>5
<1>7. h = [n \in 0..L |-> h[n]]
  OBVIOUS
<1> HIDE DEF h
<1>8. h = [n \in 0..L |-> body(h, n)]
  <2>1. ASSUME NEW n \in 0..L PROVE h[n] = body(h, n)
    <3>1. CASE n = 0
      BY <1>6, <3>1
    <3>2. CASE n # 0
      <4>1. n \in 1..L
        BY <1>1, <3>2
      <4> QED BY <1>5, <3>2, <4>1
    <3> QED BY <3>1, <3>2
  <2> HIDE DEF body
  <2> QED BY <1>7, <2>1
<1>9. loop = [n \in 0..L |-> body(loop, n)]
  <2> HIDE DEF body
  <2> QED BY <1>8
<1> HIDE DEF loop
<1> DEFINE S == {k \in Nat : k <= L => loop[k] = h[k]}
<1>10. 0 \in S
  <2>1. 0 \in 0..L
    BY <1>1
  <2> QED BY <1>6, <1>9, <2>1
<1>11. ASSUME NEW k \in Nat, k \in S PROVE k + 1 \in S
  <2> SUFFICES ASSUME k + 1 <= L PROVE loop[k + 1] = h[k + 1]
    OBVIOUS
  <2>1. k + 1 \in 1..L /\ k + 1 \in 0..L /\ (k + 1) - 1 = k /\ k + 1 # 0 /\ k <= L
    BY <1>1
  <2>2. loop[k + 1] = parse_round(data, loop[k])
    BY <1>9, <2>1
  <2>3. loop[k] = h[k]
    BY <1>11, <2>1
  <2> QED BY <1>5, <2>1, <2>2, <2>3
<1>12. Nat \subseteq S
  <2> HIDE DEF S
  <2> QED BY <1>10, <1>11, SetInduction
<1>13. loop[L] = h[L]
  BY <1>1, <1>12
<1> QED BY <1>4, <1>6, <1>13

\* Dictionaries whose ip does not parse are passed over.
LEMMA ParseDictionaries ==
  ASSUME NEW list \in Seq(Address), NEW response, ~response.compact,
         NamedBy(response.peers, list)
  PROVE  parse_peers(response) = list
<1> DEFINE data == response.peers
           part(k) == IF data[k].ip THEN <<data[k].address>> ELSE <<>>
           ss == [k \in DOMAIN data |-> part(k)]
<1>1. parse_peers(response) = FlattenSeq(ss)
  BY DEF parse_peers
<1>0. PICK count \in Nat : \E at \in [1..Len(list) -> 1..count] :
        /\ DOMAIN data = 1..count
        /\ \A i, j \in 1..Len(list) : i < j => at[i] < at[j]
        /\ \A i \in 1..Len(list) : data[at[i]].ip /\ data[at[i]].address = list[i]
        /\ \A k \in 1..count : data[k].ip => \E i \in 1..Len(list) : at[i] = k
  BY DEF NamedBy
<1>2. PICK at \in [1..Len(list) -> 1..count] :
        /\ DOMAIN data = 1..count
        /\ \A i, j \in 1..Len(list) : i < j => at[i] < at[j]
        /\ \A i \in 1..Len(list) : data[at[i]].ip /\ data[at[i]].address = list[i]
        /\ \A k \in 1..count : data[k].ip => \E i \in 1..Len(list) : at[i] = k
  BY <1>0
<1> HIDE DEF data
<1>3. \A i \in 1..Len(list) : list[i] \in Address /\ at[i] \in 1..count
  BY <1>2
<1>4. \A i \in 1..Len(list) : part(at[i]) = <<list[i]>>
  BY <1>2
<1>5. \A k \in 1..count : (\A i \in 1..Len(list) : at[i] # k) => part(k) = <<>>
  BY <1>2
<1>6. \A k \in 1..count : part(k) \in Seq(Address)
  <2> HIDE DEF part
  <2> SUFFICES ASSUME NEW k \in 1..count PROVE part(k) \in Seq(Address)
    OBVIOUS
  <2>1. CASE \E i \in 1..Len(list) : at[i] = k
    <3>1. PICK i \in 1..Len(list) : at[i] = k
      BY <2>1
    <3>2. part(k) = <<list[i]>> /\ list[i] \in Address
      BY <3>1, <1>3, <1>4
    <3> QED BY <3>2
  <2>2. CASE \A i \in 1..Len(list) : at[i] # k
    <3>1. part(k) = <<>>
      BY <1>5, <2>2
    <3> QED BY <3>1
  <2> QED BY <2>1, <2>2
<1> HIDE DEF part
<1>7. ss \in Seq(Seq(Address)) /\ Len(ss) = count /\ \A k \in 1..count : ss[k] = part(k)
  BY <1>2, <1>6
<1> HIDE DEF ss
<1>8. Picks(at, list, ss)
  BY <1>2, <1>3, <1>4, <1>5, <1>7 DEF Picks
<1>9. FlattenSeq(ss) = list
  BY <1>7, <1>8, FlattenFilter
<1> QED BY <1>1, <1>9

\* The list of a UDP answer is the front of its tracker's list that was delivered.
LEMMA UdpLists ==
  ASSUME TrackersSendTheirLists, NEW t \in Tracker, t \in UdpUrls
  PROVE  from_compact_bytes(Kept(Data(t))) = SubSeq(Listed[t], 1, Delivered(t))
<1>1. Listed[t] \in Seq(Address) /\ Rest[t] \in 0..5
  BY DEF TrackersSendTheirLists
<1> QED BY <1>1, CutKept DEF Data, Delivered

\* The list of an HTTP answer is the list of its tracker, in either form.
LEMMA HttpLists ==
  ASSUME TrackersSendTheirLists, NEW t \in Tracker \ UdpUrls,
         NEW outcome \in Outcomes[t], outcome.kind = "ok"
  PROVE  outcome.peers = SubSeq(Listed[t], 1, Delivered(t))
<1>1. t \notin BadUrls /\ \E r \in Replies[t] : outcome = announce_http(r)
  BY DEF Outcomes, Err
<1>2. PICK r \in Replies[t] : outcome = announce_http(r)
  BY <1>1
<1> DEFINE s == r.response
<1>3. /\ ~s.failure /\ (s.interval # 0 \/ s.peers # <<>>)
      /\ outcome = [kind |-> "ok", peers |-> parse_peers(s)]
  <2> DEFINE body == perform_request(r)
  <2>1. announce_http(r) = IF body.kind # "ok" THEN body
                           ELSE IF body.length < r.size THEN Err
                           ELSE IF s.failure THEN Err
                           ELSE IF s.interval = 0 /\ s.peers = <<>> THEN Err
                           ELSE [kind |-> "ok", peers |-> parse_peers(s)]
    BY DEF announce_http
  <2>2. Err.kind # "ok"
    BY DEF Err
  <2> HIDE DEF body, s
  <2> QED BY <1>2, <2>1, <2>2
<1>4. IF s.compact THEN \E rest \in 0..5 : s.peers = Compact(Listed[t], rest)
                   ELSE NamedBy(s.peers, Listed[t])
  BY <1>1, <1>3 DEF TrackersSendTheirLists
<1>5. Listed[t] \in Seq(Address)
  BY DEF TrackersSendTheirLists
<1> HIDE DEF s
<1>6. parse_peers(s) = Listed[t]
  <2>1. CASE s.compact
    BY <1>4, <1>5, <2>1, ParseCompact
  <2>2. CASE ~s.compact
    BY <1>4, <1>5, <2>2, ParseDictionaries
  <2> QED BY <2>1, <2>2
<1>7. SubSeq(Listed[t], 1, Delivered(t)) = Listed[t]
  <2>1. Delivered(t) = Len(Listed[t])
    BY DEF Delivered
  <2> QED BY <1>5, <2>1
<1> QED BY <1>3, <1>6, <1>7

\* While an announce over UDP runs, main is at its tracker in the list.
AskedInv ==
    pc = "announce" /\ udp # "idle" =>
        /\ udp_client
        /\ url \in DOMAIN tracker_urls
        /\ tracker_urls[url] \in UdpUrls
        /\ server = tracker_urls[url]

\* While a UDP announce runs, main stays at the tracker it asked.
LEMMA AskedNextInv == AskedInv /\ [Next]_vars => AskedInv'
<1> SUFFICES ASSUME AskedInv, [Next]_vars
             PROVE  AskedInv'
  OBVIOUS
<1> USE DEF AskedInv
<1>1. CASE NoUdpClient
  BY <1>1 DEF NoUdpClient, Announcing, udpVars
<1>2. CASE CallUdp
  <2>1. server' = tracker_urls[url] /\ UNCHANGED <<pc, url, udp_client>> /\ udp_client
    BY <1>2 DEF CallUdp, Announcing, announce, announce_fails
  <2>2. url \in DOMAIN tracker_urls /\ tracker_urls[url] \in UdpUrls
    BY <1>2 DEF CallUdp, Announcing
  <2> QED BY <2>1, <2>2
<1>3. CASE WaitUdp
  <2>1. udp # "idle" /\ UNCHANGED <<pc, url, udp_client, server>>
    BY <1>3 DEF WaitUdp, Announcing, UdpStep, ReceiveConnect, ReceiveAnnounce, ReceiveOther, Timeout
  <2> QED BY <2>1
<1>4. CASE ReturnUdp
  BY <1>4 DEF ReturnUdp
<1>5. CASE CallHttp
  <2>1. udp' = udp /\ pc = "announce" /\ tracker_urls[url] \notin UdpUrls
    BY <1>5 DEF CallHttp, Announcing, udpVars
  <2> QED BY <2>1
<1>6. CASE pc' # "announce"
  BY <1>6
<1>7. CASE UNCHANGED <<udp, server, pc, url, udp_client>>
  BY <1>7
<1>8. CASE AnnouncesEnd \/ NoPeersFound \/ Start
  BY <1>6, <1>8 DEF AnnouncesEnd, NoPeersFound, Start
<1>9. CASE Loop
  BY <1>6, <1>9 DEF Loop, TakeConnection, ChannelEmpty, Spawn, Tick, Check, CompletedUdp,
                    CompletedHttp, CompletedEnd, Hangs
<1>10. CASE Threads
  BY <1>7, <1>10 DEF Threads, Connect, Handshake, Accept, ListenerHandshake, mainVars, udpVars
<1>11. CASE Ended \/ UNCHANGED vars
  BY <1>7, <1>11 DEF Ended, vars, udpVars
<1> QED BY <1>1, <1>2, <1>3, <1>4, <1>5, <1>8, <1>9, <1>10, <1>11 DEF Next, MainStep, Announces

\* When the trackers send what they list, main gets from each of them the peers it
\* lists and no others, while the answers of all arrive at one socket in any order:
\* the whole list over HTTP, and over UDP the peers that fit the buffer.
THEOREM PeersComeFromTheirTracker ==
  ASSUME TrackersSendTheirLists
  PROVE  Spec => PeersFromTheirTracker
<1> DEFINE sent == SubSeq(Listed[tracker_urls[url]], 1, Delivered(tracker_urls[url]))
           Adds == all_peers' # all_peers => all_peers' = all_peers \o sent
<1>1. ASSUME NEW result, Announced(result), result.kind = "ok" => result.peers = sent
      PROVE  Adds
  BY <1>1 DEF Announced
<1>2. UdpInv /\ AskedInv /\ [Next]_vars => Adds
  <2> SUFFICES ASSUME UdpInv, AskedInv, [Next]_vars
               PROVE  Adds
    OBVIOUS
  <2> HIDE DEF Adds
  <2>1. CASE UNCHANGED all_peers
    BY <2>1 DEF Adds
  <2>2. CASE ReturnUdp
    <3>1. udp = "returned" /\ Announced(udp_result) /\ pc = "announce"
      BY <2>2 DEF ReturnUdp, Announcing
    <3>2. server = tracker_urls[url] /\ server \in Tracker /\ server \in UdpUrls
      BY <3>1 DEF AskedInv, UdpInv
    <3>3. udp_result.kind = "ok" => udp_result.peers = sent
      BY <3>1, <3>2, UdpLists DEF UdpInv, AnswersMatch
    <3> QED BY <3>1, <3>3, <1>1
  <2>3. CASE CallHttp
    <3>1. tracker_urls[url] \in Tracker \ UdpUrls
      BY <2>3, ClientAssumption DEF CallHttp, Announcing
    <3>2. PICK outcome \in Outcomes[tracker_urls[url]] :
            UNCHANGED all_peers \/ Announced(outcome)
      BY <2>3 DEF CallHttp
    <3>3. outcome.kind = "ok" => outcome.peers = sent
      BY <3>1, <3>2, HttpLists
    <3> QED BY <3>2, <3>3, <1>1, <2>1
  <2>4. CASE NoUdpClient \/ CallUdp \/ WaitUdp \/ AnnouncesEnd \/ NoPeersFound \/ Start \/ Loop
    BY <2>1, <2>4 DEF NoUdpClient, CallUdp, WaitUdp, AnnouncesEnd, NoPeersFound, Start, Loop,
         TakeConnection, ChannelEmpty, Spawn, Tick, Check, CompletedUdp, CompletedHttp, CompletedEnd
  <2>5. CASE Threads
    BY <2>1, <2>5 DEF Threads, Connect, Handshake, Accept, ListenerHandshake, mainVars
  <2>6. CASE Ended \/ UNCHANGED vars
    BY <2>1, <2>6 DEF Ended, vars
  <2> QED BY <2>2, <2>3, <2>4, <2>5, <2>6 DEF Next, MainStep, Announces
<1>3. Init => AskedInv
  BY DEF Init, UdpInit, AskedInv
<1>4. Spec => []AskedInv
  BY <1>3, AskedNextInv, PTL DEF Spec
<1> HIDE DEF Adds
<1>5. Spec => [][Adds]_vars
  BY <1>2, <1>4, UdpInvariant, PTL DEF Spec
<1> QED BY <1>5 DEF PeersFromTheirTracker, Adds
=============================================================================
