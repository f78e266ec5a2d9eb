----------------------- MODULE DownloadManager_proofs -----------------------
(***************************************************************************)
(* Proofs about the download manager, for any set of peers, number of      *)
(* pieces and blocks, limits, initial files and number of faults.          *)
(***************************************************************************)
EXTENDS DownloadManager, PieceManager_proofs

-----------------------------------------------------------------------------
(* The type invariant, one group of variables at a time.  A step of TickStep *)
(* or Next is one of the following, which each proof goes through.           *)

\* A peer that owes nothing.
LEMMA NothingOwedType == NothingOwed \in [Block -> Nat]
BY DEF NothingOwed

\* The initial states have the types.
LEMMA InitType == Init => DMTypeOK
<1> SUFFICES ASSUME Init
             PROVE  DMTypeOK
  OBVIOUS
<1>1. PeerTypeOK
  BY DEF Init, PeerTypeOK
<1>2. NetTypeOK
  BY ManagerAssumption, NothingOwedType DEF Init, NetTypeOK, StreamState
<1>3. TickTypeOK
  <2>1. peers \in Seq(Peer) /\ peers_to_remove \in Seq(Nat) /\ Len(peers) = 0
    BY EmptySeq DEF Init
  <2>2. pc \in Phase /\ cursor \in 0..Len(peers) /\ endgame \in BOOLEAN
    <3>1. pc = "idle" /\ cursor = 0
      BY DEF Init
    <3>2. endgame \in BOOLEAN
      BY DEF Init
    <3> QED BY <2>1, <3>1, <3>2 DEF Phase
  <2>3. availability \in [Piece -> Nat] /\ completed_pieces \subseteq Piece
    BY DEF Init
  <2> QED BY <2>1, <2>2, <2>3 DEF TickTypeOK
<1> QED BY <1>1, <1>2, <1>3 DEF DMTypeOK

\* The types of the peers.
LEMMA PeerTypeStep == PeerTypeOK /\ [Next]_vars => PeerTypeOK'
<1> SUFFICES ASSUME PeerTypeOK, [Next]_vars
             PROVE  PeerTypeOK'
  OBVIOUS
<1> USE DEF PeerTypeOK
<1>1. CASE UNCHANGED <<peerVars, unchoked_peers>>
  BY <1>1 DEF peerVars
<1>2. CASE Restart
  BY <1>2 DEF Restart
<1>3. CASE RemoveDead
  BY <1>3 DEF RemoveDead, DropPeer
<1>4. CASE ManageChoking
  <2>0. \/ UNCHANGED <<am_choking, unchoked_peers>>
        \/ /\ am_choking' = [am_choking EXCEPT ![Current] = FALSE]
           /\ unchoked_peers' = unchoked_peers + 1
    BY <1>4 DEF ManageChoking
  <2>1. am_choking' \in [Peer -> BOOLEAN]
    BY <2>0
  <2>3. unchoked_peers' \in Nat
    BY <2>0
  <2>2. UNCHANGED <<peer_choking, peer_interested, am_interested, have_pieces,
                    inflight_requests, requested_blocks>>
    BY <1>4 DEF ManageChoking
  <2> QED BY <2>1, <2>2, <2>3
<1>5. CASE ManageInterest
  <2>1. am_interested' \in [Peer -> BOOLEAN]
    BY <1>5 DEF ManageInterest
  <2> QED BY <1>5, <2>1 DEF ManageInterest
<1>6. ASSUME NEW c \in Peer, ReadChoke(c) \/ ReadUnchoke(c) \/ ReadInterested(c)
      PROVE  PeerTypeOK'
  BY <1>6 DEF ReadChoke, ReadUnchoke, ReadInterested
<1>7. ASSUME NEW c \in Peer, ReadHave(c) \/ ReadBitfield(c)
      PROVE  PeerTypeOK'
  <2>1. PICK ps \in SUBSET Piece : SetHave(c, ps)
    BY <1>7, ManagerAssumption DEF ReadHave, ReadBitfield
  <2> QED BY <2>1 DEF SetHave
<1>8. ASSUME NEW c \in Peer, ReadPiece(c)
      PROVE  PeerTypeOK'
  <2>1. PICK b, data : PieceArrives(c, b, data)
    BY <1>8 DEF ReadPiece
  <2> QED BY <2>1 DEF PieceArrives
<1>9. ASSUME NEW c \in Peer, RequestContinue(c)
      PROVE  PeerTypeOK'
  <2>1. PICK b \in Block : Asked(c, b)
    BY <1>9 DEF RequestContinue, Eligible
  <2> QED BY <1>9, <2>1 DEF RequestContinue, Requesting, RequestFrame, Asked
<1>10. ASSUME NEW c \in Peer, RequestNew(c)
       PROVE  PeerTypeOK'
  <2>1. PICK p \in Piece :
          \/ Asked(c, <<p, 0>>)
          \/ UNCHANGED <<inflight_requests, requested_blocks, owed>>
    BY <1>10 DEF RequestNew
  <2>2. <<p, 0>> \in Block
    BY BlockFacts
  <2> QED BY <1>10, <2>1, <2>2 DEF RequestNew, Requesting, RequestFrame, Asked
<1>11. ASSUME NEW c \in Peer, RequestNothing(c) \/ RequestFails(c)
       PROVE  UNCHANGED <<peerVars, unchoked_peers>>
  BY <1>11 DEF RequestNothing, RequestFails, Requesting, RequestFrame, peerVars
<1>12. ASSUME NEW c \in Peer, add_peer(c) \/ PeerCloses(c) \/ PeerResets(c) \/ ReadRequest(c)
       PROVE  UNCHANGED <<peerVars, unchoked_peers>>
  BY <1>12 DEF add_peer, PeerCloses, PeerResets, ReadRequest
<1>13. CASE TickBegin \/ ReadNothing \/ ReadError \/ RemovePanics \/ BroadcastHave
            \/ UNCHANGED vars
  BY <1>1, <1>13 DEF TickBegin, ReadNothing, ReadError, RemovePanics, BroadcastHave, vars
<1> HIDE DEF PeerTypeOK
<1> QED BY <1>1, <1>2, <1>3, <1>4, <1>5, <1>6, <1>7, <1>8, <1>9, <1>10, <1>11, <1>12, <1>13
        DEF Next, TickStep

\* What sending a message does to the stream and the fault budget.
LEMMA SendsFacts ==
  ASSUME NetTypeOK, NEW c, NEW ok \in BOOLEAN, Sends(c, ok)
  PROVE  /\ stream' \in [Peer -> StreamState]
         /\ faults' \in 0..MaxFaults
         /\ \A d \in Peer : stream'[d] = "none" <=> stream[d] = "none"
<1>1. stream \in [Peer -> StreamState] /\ faults \in 0..MaxFaults /\ MaxFaults \in Nat
  BY ManagerAssumption DEF NetTypeOK
<1>2. CASE UNCHANGED stream /\ (UNCHANGED faults \/ Fault("congest"))
  BY <1>1, <1>2 DEF Fault
<1>3. CASE /\ stream[c] # "none"
           /\ stream' = [stream EXCEPT ![c] = "dead"]
           /\ UNCHANGED faults
  <2>1. stream' \in [Peer -> StreamState]
    BY <1>1, <1>3 DEF StreamState
  <2>2. \A d \in Peer : stream'[d] = "none" <=> stream[d] = "none"
    BY <1>1, <1>3
  <2> QED BY <1>1, <1>3, <2>1, <2>2
<1> QED BY <1>2, <1>3 DEF Sends

\* A fault that happens is counted and changes no type.
LEMMA FaultType ==
  ASSUME NetTypeOK, NEW kind, Fault(kind) \/ UNCHANGED faults
  PROVE  faults' \in 0..MaxFaults
BY ManagerAssumption DEF Fault, NetTypeOK

\* A block more, or one less, is owed.
LEMMA OwedStep ==
  ASSUME owed \in [Peer -> [Block -> Nat]], NEW c \in Peer, NEW b \in Block, NEW n \in Nat
  PROVE  [owed EXCEPT ![c][b] = n] \in [Peer -> [Block -> Nat]]
<1>1. owed[c] \in [Block -> Nat]
  OBVIOUS
<1>2. [owed[c] EXCEPT ![b] = n] \in [Block -> Nat]
  BY <1>1
<1> QED BY <1>2

\* What a Piece message carries, whichever fault goes with it.
LEMMA ReadPieceFacts ==
  ASSUME NetTypeOK, NEW c \in Peer, ReadPiece(c)
  PROVE  /\ faults' \in 0..MaxFaults
         /\ \E b \in Block, data \in BlockData :
              /\ PieceArrives(c, b, data)
              /\ data \in {"bad", "long"} => ~RightData
<1>1. Owed(c) \subseteq Block
  BY DEF Owed
<1>2. CASE \E b \in Owed(c) : PieceArrives(c, b, "good") /\ UNCHANGED faults
  BY <1>1, <1>2, FaultType DEF BlockData
<1>3. CASE \E b \in Owed(c) : PieceArrives(c, b, "bad") /\ Fault("corrupt")
  <2>1. ~RightData
    BY <1>3 DEF Fault, RightData
  <2> QED BY <1>1, <1>3, <2>1, FaultType DEF BlockData
<1>4. CASE \E b \in Owed(c) : PieceArrives(c, b, "long") /\ Fault("long")
  <2>1. ~RightData
    BY <1>4 DEF Fault, RightData
  <2> QED BY <1>1, <1>4, <2>1, FaultType DEF BlockData
<1>5. CASE \E b \in Owed(c) : PieceArrives(c, b, "part") /\ (Fault("short") \/ Fault("write"))
  BY <1>1, <1>5, FaultType DEF BlockData
<1>6. CASE \E b \in Block \ Owed(c) : PieceArrives(c, b, "good") /\ Fault("stray")
  BY <1>6, FaultType DEF BlockData
<1> QED BY <1>2, <1>3, <1>4, <1>5, <1>6 DEF ReadPiece

\* What write_block may leave on disk: a block that is right stays right unless
\* the data are wrong, and only the block that was sent can become right.
LEMMA WriteBlockFacts ==
  ASSUME NetTypeOK, NEW b \in Block, NEW data \in BlockData, WriteBlock(b, data)
  PROVE  /\ disk' \in [Block -> DiskState]
         /\ data \in {"good", "part"} =>
               \A d \in Block : disk[d] = "good" => disk'[d] = "good"
         /\ \A d \in Block : disk'[d] = "good" => disk[d] = "good" \/ d = b
<1>1. disk \in [Block -> DiskState]
  BY DEF NetTypeOK
<1>2. CASE data \in {"good", "bad"} /\ disk' = [disk EXCEPT ![b] = data]
  BY <1>1, <1>2 DEF DiskState
<1>3. ASSUME NEW kind \in AfterPart(b), data = "part", disk' = [disk EXCEPT ![b] = kind]
      PROVE  /\ disk' \in [Block -> DiskState]
             /\ \A d \in Block : disk[d] = "good" => disk'[d] = "good"
             /\ \A d \in Block : disk'[d] = "good" => disk[d] = "good" \/ d = b
  <2>1. kind \in DiskState /\ (disk[b] = "good" => kind = "good")
    BY <1>1, <1>3 DEF AfterPart, DiskState
  <2> QED BY <1>1, <1>3, <2>1
<1>4. ASSUME NEW kind \in {"part", "bad"}, data = "long",
             disk' = [d \in Block |-> IF d = b THEN "good"
                                      ELSE IF d \in BlockAfter(b) THEN AfterOverrun(d, kind)
                                      ELSE disk[d]]
      PROVE  /\ disk' \in [Block -> DiskState]
             /\ \A d \in Block : disk'[d] = "good" => disk[d] = "good" \/ d = b
  BY <1>1, <1>4 DEF DiskState, AfterOverrun
<1> QED BY <1>2, <1>3, <1>4 DEF WriteBlock

\* The types of the remote ends.
LEMMA NetTypeStep == NetTypeOK /\ TickTypeOK /\ [Next]_vars => NetTypeOK'
<1> SUFFICES ASSUME NetTypeOK, TickTypeOK, [Next]_vars
             PROVE  NetTypeOK'
  OBVIOUS
<1> USE DEF NetTypeOK
<1>1. CASE UNCHANGED <<disk, netVars>>
  BY <1>1 DEF netVars
<1>2. CASE Restart
  <2>1. faults' \in 0..MaxFaults
    BY <1>2, FaultType DEF Restart
  <2> QED BY <1>2, <2>1, NothingOwedType DEF Restart, StreamState
<1>3. CASE RemoveDead
  BY <1>3, NothingOwedType DEF RemoveDead, DropPeer, StreamState
<1>4. CASE ManageChoking
  <2>1. UNCHANGED <<stream, faults>> \/ \E ok \in BOOLEAN : Sends(Current, ok)
    BY <1>4 DEF ManageChoking
  <2>2. stream' \in [Peer -> StreamState] /\ faults' \in 0..MaxFaults
    BY <2>1, SendsFacts
  <2> QED BY <1>4, <2>2 DEF ManageChoking
<1>5. CASE ManageInterest
  <2>1. UNCHANGED <<stream, faults>> \/ \E ok \in BOOLEAN : Sends(Current, ok)
    BY <1>5 DEF ManageInterest
  <2>2. stream' \in [Peer -> StreamState] /\ faults' \in 0..MaxFaults
    BY <2>1, SendsFacts
  <2> QED BY <1>5, <2>2 DEF ManageInterest
<1>6. ASSUME NEW c \in Peer, RequestNothing(c)
      PROVE  NetTypeOK'
  BY <1>6 DEF RequestNothing, Requesting, RequestFrame
<1>7. ASSUME NEW c \in Peer, RequestContinue(c) \/ RequestNew(c) \/ RequestFails(c)
      PROVE  NetTypeOK'
  <2>1. \E ok \in BOOLEAN : Sends(c, ok)
    BY <1>7 DEF RequestContinue, RequestNew, RequestFails, SendsLater, Sends
  <2>2. stream' \in [Peer -> StreamState] /\ faults' \in 0..MaxFaults
    BY <2>1, SendsFacts
  <2>3. UNCHANGED owed \/ \E b \in Block : Asked(c, b)
    BY <1>7, BlockFacts DEF RequestContinue, Eligible, RequestNew, RequestFails
  <2>4. owed' \in [Peer -> [Block -> Nat]]
    <3>1. CASE UNCHANGED owed
      BY <3>1
    <3>2. ASSUME NEW b \in Block, Asked(c, b)
          PROVE  owed' \in [Peer -> [Block -> Nat]]
      <4>1. owed[c][b] + 1 \in Nat
        OBVIOUS
      <4>2. [owed EXCEPT ![c][b] = owed[c][b] + 1] \in [Peer -> [Block -> Nat]]
        BY <4>1, OwedStep
      <4> QED BY <3>2, <4>2 DEF Asked
    <3> QED BY <2>3, <3>1, <3>2
  <2>5. UNCHANGED <<disk, told>>
    BY <1>7 DEF RequestContinue, RequestNew, RequestFails, Requesting, RequestFrame
  <2> QED BY <2>2, <2>4, <2>5
<1>8. ASSUME NEW c \in Peer, ReadPiece(c)
      PROVE  NetTypeOK'
  <2>1. PICK b \in Block, data \in BlockData :
          PieceArrives(c, b, data)
    BY <1>8, ReadPieceFacts
  <2>2. disk' \in [Block -> DiskState]
    BY <2>1, WriteBlockFacts DEF PieceArrives
  <2>3. faults' \in 0..MaxFaults
    BY <1>8, ReadPieceFacts
  <2>4. owed' \in [Peer -> [Block -> Nat]]
    <3> DEFINE n == IF owed[c][b] = 0 THEN 0 ELSE owed[c][b] - 1
    <3>1. n \in Nat
      <4>1. owed[c][b] \in Nat
        OBVIOUS
      <4> QED BY <4>1
    <3>2. [owed EXCEPT ![c][b] = n] \in [Peer -> [Block -> Nat]]
      <4> HIDE DEF n
      <4> QED BY <3>1, OwedStep
    <3> QED BY <2>1, <3>2 DEF PieceArrives
  <2> QED BY <2>1, <2>2, <2>3, <2>4 DEF PieceArrives
<1>9. CASE ReadError
  <2>1. faults' \in 0..MaxFaults
    BY <1>9, FaultType DEF ReadError
  <2>2. stream' \in [Peer -> StreamState]
    BY <1>9 DEF ReadError, StreamState
  <2> QED BY <1>9, <2>1, <2>2 DEF ReadError
<1>10. ASSUME NEW c \in Peer, ReadChoke(c)
       PROVE  NetTypeOK'
  BY <1>10, FaultType, NothingOwedType DEF ReadChoke
<1>11. ASSUME NEW c \in Peer, ReadRequest(c)
       PROVE  NetTypeOK'
  <2>1. faults' \in 0..MaxFaults
    BY <1>11, FaultType DEF ReadRequest
  <2>2. stream' \in [Peer -> StreamState] /\ owed' \in [Peer -> [Block -> Nat]]
    BY <1>11, NothingOwedType DEF ReadRequest, StreamState
  <2> QED BY <1>11, <2>1, <2>2 DEF ReadRequest
<1>12. ASSUME NEW c \in Peer, PeerCloses(c) \/ PeerResets(c)
       PROVE  NetTypeOK'
  <2>1. faults' \in 0..MaxFaults
    BY <1>12, FaultType DEF PeerCloses, PeerResets
  <2>2. stream' \in [Peer -> StreamState] /\ owed' \in [Peer -> [Block -> Nat]]
    BY <1>12, NothingOwedType DEF PeerCloses, PeerResets, StreamState
  <2> QED BY <1>12, <2>1, <2>2 DEF PeerCloses, PeerResets
<1>13. ASSUME NEW c \in Peer, add_peer(c)
       PROVE  NetTypeOK'
  BY <1>13 DEF add_peer, StreamState, get_bitfield, WithStatus
<1>14. CASE BroadcastHave
  <2>1. faults' \in 0..MaxFaults
    BY <1>14, FaultType DEF BroadcastHave
  <2>2. stream' \in [Peer -> StreamState]
    BY <1>14 DEF BroadcastHave, StreamState
  <2>3. told' \in [Peer -> SUBSET Piece]
    BY <1>14 DEF BroadcastHave, TickTypeOK
  <2> QED BY <1>14, <2>1, <2>2, <2>3 DEF BroadcastHave
<1>15. ASSUME NEW c \in Peer,
              ReadUnchoke(c) \/ ReadInterested(c) \/ ReadHave(c) \/ ReadBitfield(c)
       PROVE  UNCHANGED <<disk, netVars>>
  BY <1>15 DEF ReadUnchoke, ReadInterested, ReadHave, ReadBitfield, SetHave
<1>16. CASE TickBegin \/ ReadNothing \/ RemovePanics \/ UNCHANGED vars
  BY <1>1, <1>16 DEF TickBegin, ReadNothing, RemovePanics, vars
<1> HIDE DEF NetTypeOK
<1> QED BY <1>1, <1>2, <1>3, <1>4, <1>5, <1>6, <1>7, <1>8, <1>9, <1>10, <1>11, <1>12,
           <1>13, <1>14, <1>15, <1>16 DEF Next, TickStep

\* Where NextPeer leads, and what PushDead makes of the list.
LEMMA NextPeerFacts ==
  ASSUME TickTypeOK, NextPeer
  PROVE  pc' \in Phase /\ cursor' \in 0..Len(peers)
<1>1. Len(peers) \in Nat /\ cursor \in 0..Len(peers)
  BY LenProperties DEF TickTypeOK
<1> QED BY <1>1 DEF NextPeer, Phase

\* The list of peers to remove stays a list of numbers.
LEMMA PushDeadFacts ==
  ASSUME TickTypeOK, PushDead
  PROVE  peers_to_remove' \in Seq(Nat)
<1>1. cursor \in Nat /\ peers_to_remove \in Seq(Nat)
  BY LenProperties DEF TickTypeOK
<1> QED BY <1>1, AppendProperties DEF PushDead

\* The last element of a list and what is left without it.
LEMMA FrontFacts ==
  ASSUME NEW S, NEW s \in Seq(S), s # <<>>
  PROVE  Front(s) \in Seq(S) /\ Last(s) \in S
<1>1. Len(s) \in Nat \ {0}
  BY EmptySeq
<1>2. \A i \in 1..(Len(s) - 1) : s[i] \in S
  BY <1>1, ElementOfSeq
<1>3. SubSeq(s, 1, Len(s) - 1) \in Seq(S)
  BY <1>1, <1>2, SubSeqProperties
<1>4. s[Len(s)] \in S
  BY <1>1, ElementOfSeq
<1> QED BY <1>3, <1>4 DEF Front, Last

\* The types of what a tick keeps.
LEMMA TickTypeStep == TickTypeOK /\ LoopScoped /\ NetTypeOK /\ [Next]_vars => TickTypeOK'
<1> SUFFICES ASSUME TickTypeOK, LoopScoped, NetTypeOK, [Next]_vars
             PROVE  TickTypeOK'
  OBVIOUS
<1> USE DEF TickTypeOK
<1>0. cursor \in Nat /\ Len(peers) \in Nat
  BY LenProperties
<1>1. CASE UNCHANGED <<peers, pc, cursor, listVars, snapVars>>
  BY <1>1 DEF listVars, snapVars
<1>2. CASE Restart
  <2>1. peers' \in Seq(Peer) /\ peers_to_remove' \in Seq(Nat)
    BY <1>2, EmptySeq DEF Restart
  <2>2. cursor' \in 0..Len(peers')
    BY <1>2, EmptySeq DEF Restart
  <2>3. pc' \in Phase
    BY <1>2 DEF Restart, Phase
  <2>4. endgame' \in BOOLEAN
    BY <1>2 DEF Restart
  <2> QED BY <1>2, <2>1, <2>2, <2>3, <2>4 DEF Restart
<1>3. CASE RemoveDead
  <2>1. PICK i \in 1..Len(peers) : i = Last(peers_to_remove) /\ peers' = RemoveAt(peers, i)
    BY <1>3, LenProperties DEF RemoveDead
  <2>2. peers' \in Seq(Peer) /\ Len(peers') = Len(peers) - 1
    BY <2>1, RemoveAtFacts
  <2>3. cursor = 0
    BY <1>3 DEF RemoveDead, LoopScoped
  <2>4. cursor' \in 0..Len(peers')
    BY <1>0, <1>3, <2>1, <2>2, <2>3 DEF RemoveDead
  <2>5. peers_to_remove' \in Seq(Nat)
    BY <1>3, FrontFacts DEF RemoveDead
  <2> QED BY <1>3, <2>2, <2>4, <2>5 DEF RemoveDead, snapVars
<1>4. ASSUME NEW c \in Peer, add_peer(c)
      PROVE  TickTypeOK'
  <2>1. peers' \in Seq(Peer) /\ Len(peers') = Len(peers) + 1
    BY <1>4, AppendProperties DEF add_peer
  <2>2. cursor' \in 0..Len(peers')
    BY <1>0, <1>4, <2>1 DEF add_peer
  <2> QED BY <1>4, <2>1, <2>2 DEF add_peer, snapVars, listVars
<1>5. CASE TickBegin
  <2>1. Len(peers) \in Nat \ {0}
    BY <1>5, EmptySeq DEF TickBegin
  <2>2. \A p \in Piece : Cardinality({c \in Peer : p \in have_pieces[c]}) \in Nat
    BY ManagerAssumption, FS_Subset, FS_CardinalityType
  <2>3. availability' \in [Piece -> Nat]
    BY <1>5, <2>2 DEF TickBegin
  <2>4. cursor' \in 0..Len(peers)
    BY <1>5, <2>1 DEF TickBegin
  <2>5. pc' \in Phase
    BY <1>5 DEF TickBegin, Phase
  <2>6. endgame' \in BOOLEAN
    BY <1>5 DEF TickBegin, NothingMissing
  <2>7. UNCHANGED <<peers, listVars>>
    BY <1>5 DEF TickBegin
  <2> QED BY <2>3, <2>4, <2>5, <2>6, <2>7 DEF listVars
<1>6. CASE BroadcastHave
  <2>1. pc' \in Phase
    BY <1>6 DEF BroadcastHave, Phase
  <2>2. endgame' \in BOOLEAN
    BY <1>6 DEF BroadcastHave
  <2> QED BY <1>6, <2>1, <2>2 DEF BroadcastHave
<1>7. CASE ReadError
  <2>1. peers_to_remove' \in Seq(Nat)
    BY <1>7, PushDeadFacts DEF ReadError
  <2> QED BY <1>7, <2>1 DEF ReadError, Goto, Phase, snapVars
<1>8. ASSUME NEW c \in Peer, ReadRequest(c)
      PROVE  TickTypeOK'
  <2>1. peers_to_remove' \in Seq(Nat)
    BY <1>8, PushDeadFacts DEF ReadRequest
  <2>2. pc' \in Phase
    BY <1>8 DEF ReadRequest, Goto, Phase
  <2>3. UNCHANGED <<peers, cursor, completed_pieces, snapVars>>
    BY <1>8 DEF ReadRequest, Goto
  <2> QED BY <2>1, <2>2, <2>3 DEF snapVars
<1>9. ASSUME NEW c \in Peer,
             \/ ReadChoke(c) \/ ReadUnchoke(c) \/ ReadInterested(c)
             \/ ReadHave(c) \/ ReadBitfield(c)
      PROVE  TickTypeOK'
  <2>1. Goto("choke") /\ UNCHANGED <<peers, listVars, snapVars>>
    BY <1>9 DEF ReadChoke, ReadUnchoke, ReadInterested, ReadHave, ReadBitfield, SetHave
  <2> QED BY <2>1 DEF Goto, Phase, listVars, snapVars
<1>10. ASSUME NEW c \in Peer, ReadPiece(c)
       PROVE  TickTypeOK'
  <2>1. PICK b \in Block, data \in BlockData :
           PieceArrives(c, b, data)
    BY <1>10, ReadPieceFacts
  <2>2. completed_pieces' \subseteq Piece
    BY <2>1, BlockFacts DEF PieceArrives
  <2>3. Goto("choke") /\ UNCHANGED <<peers, peers_to_remove, snapVars>>
    BY <2>1 DEF PieceArrives
  <2> QED BY <2>2, <2>3 DEF Goto, Phase, snapVars
<1>11. CASE ManageChoking
  <2>1. Goto("interest") /\ UNCHANGED <<peers, listVars, snapVars>>
    BY <1>11 DEF ManageChoking
  <2> QED BY <2>1 DEF Goto, Phase, listVars, snapVars
<1>12. CASE ManageInterest
  <2>1. \/ Goto("request") /\ UNCHANGED peers_to_remove
        \/ NextPeer /\ PushDead
    BY <1>12 DEF ManageInterest
  <2>2. pc' \in Phase /\ cursor' \in 0..Len(peers)
    BY <2>1, NextPeerFacts DEF Goto, Phase
  <2>3. peers_to_remove' \in Seq(Nat)
    BY <2>1, PushDeadFacts
  <2>4. UNCHANGED <<peers, completed_pieces, snapVars>>
    BY <1>12 DEF ManageInterest
  <2> QED BY <2>2, <2>3, <2>4 DEF snapVars
<1>13. ASSUME NEW c \in Peer,
              RequestNothing(c) \/ RequestContinue(c) \/ RequestNew(c) \/ RequestFails(c)
       PROVE  TickTypeOK'
  <2>1. NextPeer /\ UNCHANGED <<peers, listVars, snapVars>>
    BY <1>13 DEF RequestNothing, RequestContinue, RequestNew, RequestFails, Requesting,
                 RequestFrame
  <2> QED BY <2>1, NextPeerFacts DEF listVars, snapVars
<1>14. CASE RemovePanics
  <2>1. pc' \in Phase /\ UNCHANGED <<peers, cursor, listVars, snapVars>>
    BY <1>14 DEF RemovePanics, Phase
  <2> QED BY <2>1 DEF listVars, snapVars
<1>15. ASSUME NEW c \in Peer, PeerCloses(c) \/ PeerResets(c)
       PROVE  UNCHANGED <<peers, pc, cursor, listVars, snapVars>>
  BY <1>15 DEF PeerCloses, PeerResets
<1>16. CASE UNCHANGED vars
  BY <1>1, <1>16 DEF vars
<1>17. ASSUME ReadNothing
       PROVE  TickTypeOK'
  <2>1. Goto("choke") /\ UNCHANGED <<peers, listVars, snapVars>>
    BY <1>17 DEF ReadNothing
  <2> QED BY <2>1 DEF Goto, Phase, listVars, snapVars
<1> HIDE DEF TickTypeOK
<1> QED BY <1>1, <1>2, <1>3, <1>4, <1>5, <1>6, <1>7, <1>8, <1>9, <1>10, <1>11, <1>12,
           <1>13, <1>14, <1>15, <1>16, <1>17 DEF Next, TickStep

-----------------------------------------------------------------------------
(* The loop and its list, and the Vec of peers.                              *)

\* No peer is active and no tick runs at the start.
LEMMA InitScoped == Init => TickScoped
<1> SUFFICES ASSUME Init
             PROVE  TickScoped
  OBVIOUS
<1>1. LoopScoped
  BY DEF Init, LoopScoped
<1>2. peers = <<>> /\ DOMAIN peers = {}
  BY EmptySeq, LenProperties DEF Init
<1>3. \A c \in Peer : stream[c] = "none"
  BY DEF Init
<1>4. OneActivePeer
  BY <1>2, <1>3 DEF OneActivePeer, Connected
<1> QED BY <1>1, <1>4 DEF TickScoped

\* The indices of the loops of a tick stay in bounds.
LEMMA LoopScopedStep == TickTypeOK /\ LoopScoped /\ [Next]_vars => LoopScoped'
<1> SUFFICES ASSUME TickTypeOK, LoopScoped, [Next]_vars
             PROVE  LoopScoped'
  OBVIOUS
<1> USE DEF LoopScoped
<1>0. cursor \in Nat /\ Len(peers) \in Nat
  BY LenProperties DEF TickTypeOK
<1>1. CASE UNCHANGED <<pc, cursor, listVars>>
  BY <1>1 DEF listVars
<1>2. CASE pc = "read" /\ Goto("choke")
  BY <1>2 DEF Goto
<1>3. CASE pc = "choke" /\ Goto("interest")
  BY <1>3 DEF Goto
<1>4. CASE pc = "interest" /\ Goto("request")
  BY <1>4 DEF Goto
<1>5. CASE pc \in {"interest", "request"} /\ NextPeer
  BY <1>0, <1>5 DEF NextPeer
<1>6. CASE ReadNothing \/ ReadError
  BY <1>2, <1>6 DEF ReadNothing, ReadError
<1>7. ASSUME NEW c \in Peer,
             \/ ReadChoke(c) \/ ReadUnchoke(c) \/ ReadHave(c) \/ ReadBitfield(c)
             \/ ReadRequest(c) \/ ReadInterested(c)
      PROVE  pc = "read" /\ Goto("choke")
  BY <1>7 DEF ReadChoke, ReadUnchoke, ReadHave, ReadBitfield, SetHave, ReadRequest,
              ReadInterested, Reading
<1>8. ASSUME NEW c \in Peer, ReadPiece(c)
      PROVE  pc = "read" /\ Goto("choke")
  BY <1>8 DEF ReadPiece, PieceArrives, Reading
<1>9. CASE ManageChoking
  BY <1>3, <1>9 DEF ManageChoking
<1>10. CASE ManageInterest
  BY <1>4, <1>5, <1>10 DEF ManageInterest
<1>11. ASSUME NEW c \in Peer,
              RequestNothing(c) \/ RequestContinue(c) \/ RequestNew(c) \/ RequestFails(c)
       PROVE  pc = "request" /\ NextPeer
  BY <1>11 DEF RequestNothing, RequestContinue, RequestNew, RequestFails, Requesting
<1>12. CASE TickBegin
  BY <1>12 DEF TickBegin
<1>13. CASE RemoveDead \/ RemovePanics
  BY <1>13 DEF RemoveDead, RemovePanics
<1>14. CASE BroadcastHave
  BY <1>14 DEF BroadcastHave
<1>15. CASE Restart
  BY <1>15 DEF Restart
<1>16. ASSUME NEW c \in Peer, add_peer(c) \/ PeerCloses(c) \/ PeerResets(c)
       PROVE  UNCHANGED <<pc, cursor, listVars>>
  BY <1>16 DEF add_peer, PeerCloses, PeerResets
<1>17. CASE UNCHANGED vars
  BY <1>1, <1>17 DEF vars
<1> HIDE DEF LoopScoped
<1> QED BY <1>1, <1>2, <1>3, <1>5, <1>6, <1>7, <1>8, <1>9, <1>10, <1>11, <1>12, <1>13,
           <1>14, <1>15, <1>16, <1>17 DEF Next, TickStep

\* The part of a step that leaves the Vec of peers alone.
LEMMA SamePeers ==
  ASSUME OneActivePeer, UNCHANGED peers,
         \A d \in Peer : stream'[d] = "none" <=> stream[d] = "none"
  PROVE  OneActivePeer'
BY DEF OneActivePeer, Connected

\* A peer is added only when its address is not active.
LEMMA AddPeerScoped ==
  ASSUME TickTypeOK, NetTypeOK, OneActivePeer, NEW c \in Peer, add_peer(c)
  PROVE  OneActivePeer'
<1>1. /\ ~Connected(c)
      /\ peers' = Append(peers, c)
      /\ stream' = [stream EXCEPT ![c] = "open"]
  BY DEF add_peer, already_connected
<1>2. /\ Len(peers) \in Nat
      /\ DOMAIN peers = 1..Len(peers)
      /\ DOMAIN peers' = 1..(Len(peers) + 1)
      /\ \A i \in 1..Len(peers) : peers'[i] = peers[i]
      /\ peers'[Len(peers) + 1] = c
  <2>1. peers \in Seq(Peer) /\ peers' \in Seq(Peer)
    BY <1>1, AppendProperties DEF TickTypeOK
  <2> QED BY <1>1, <2>1, AppendProperties, LenProperties
<1>3. \A d : Connected(d)' <=> Connected(d) \/ d = c
  <2> SUFFICES ASSUME NEW d
               PROVE  Connected(d)' <=> Connected(d) \/ d = c
    OBVIOUS
  <2>1. Connected(d)' <=> \E i \in 1..(Len(peers) + 1) : peers'[i] = d
    BY <1>2 DEF Connected
  <2>2. ASSUME NEW i \in 1..(Len(peers) + 1), peers'[i] = d
        PROVE  Connected(d) \/ d = c
    <3>1. i \in 1..Len(peers) \/ i = Len(peers) + 1
      BY <1>2
    <3> QED BY <1>2, <2>2, <3>1 DEF Connected
  <2>3. ASSUME Connected(d) \/ d = c
        PROVE  \E i \in 1..(Len(peers) + 1) : peers'[i] = d
    <3>1. CASE d = c
      BY <1>2, <3>1
    <3>2. CASE Connected(d)
      <4>1. PICK i \in 1..Len(peers) : peers[i] = d
        BY <1>2, <3>2 DEF Connected
      <4>2. i \in 1..(Len(peers) + 1)
        BY <1>2
      <4> QED BY <1>2, <4>1, <4>2
    <3> QED BY <2>3, <3>1, <3>2
  <2> QED BY <2>1, <2>2, <2>3
<1>4. \A d \in Peer : Connected(d)' <=> stream'[d] # "none"
  BY <1>1, <1>3 DEF NetTypeOK, OneActivePeer
<1>5. \A j, k \in DOMAIN peers' : peers'[j] = peers'[k] => j = k
  <2> SUFFICES ASSUME NEW j \in DOMAIN peers', NEW k \in DOMAIN peers', peers'[j] = peers'[k]
               PROVE  j = k
    OBVIOUS
  <2>1. /\ j \in 1..Len(peers) \/ j = Len(peers) + 1
        /\ k \in 1..Len(peers) \/ k = Len(peers) + 1
    BY <1>2
  <2>2. \A i \in 1..Len(peers) : peers[i] # c
    BY <1>1, <1>2 DEF Connected
  <2>3. \A i, l \in 1..Len(peers) : peers[i] = peers[l] => i = l
    BY <1>2 DEF OneActivePeer
  <2> QED BY <1>2, <2>1, <2>2, <2>3
<1> QED BY <1>4, <1>5 DEF OneActivePeer

\* A peer removed leaves the others once each.
LEMMA RemoveDeadScoped ==
  ASSUME TickTypeOK, NetTypeOK, OneActivePeer, RemoveDead
  PROVE  OneActivePeer'
<1> DEFINE i == Last(peers_to_remove)
<1>1. peers \in Seq(Peer) /\ DOMAIN peers = 1..Len(peers)
  BY LenProperties DEF TickTypeOK
<1>2. /\ i \in 1..Len(peers)
      /\ peers' = RemoveAt(peers, i)
      /\ stream' = [stream EXCEPT ![peers[i]] = "none"]
  BY <1>1 DEF RemoveDead, DropPeer
<1>3. \A j, k \in 1..Len(peers) : peers[j] = peers[k] => j = k
  BY <1>1 DEF OneActivePeer
<1> HIDE DEF i
<1>4. RemoveAt(peers, i) \in Seq(Peer)
  BY <1>1, <1>2, RemoveAtFacts
<1>5. /\ \A j, k \in 1..Len(RemoveAt(peers, i)) :
            RemoveAt(peers, i)[j] = RemoveAt(peers, i)[k] => j = k
      /\ \A e : (\E j \in 1..Len(RemoveAt(peers, i)) : RemoveAt(peers, i)[j] = e)
                   <=> e # peers[i] /\ \E j \in 1..Len(peers) : peers[j] = e
  BY <1>1, <1>2, <1>3, RemoveAtDistinct
<1>6. DOMAIN peers' = 1..Len(peers')
  BY <1>2, <1>4, LenProperties
<1>7. \A d : Connected(d)' <=> Connected(d) /\ d # peers[i]
  BY <1>1, <1>2, <1>5, <1>6 DEF Connected
<1>8. \A d \in Peer : Connected(d)' <=> stream'[d] # "none"
  BY <1>2, <1>7 DEF NetTypeOK, OneActivePeer
<1>9. \A j, k \in DOMAIN peers' : peers'[j] = peers'[k] => j = k
  BY <1>2, <1>5, <1>6
<1> QED BY <1>8, <1>9 DEF OneActivePeer

\* No step makes an address active twice.
LEMMA OneActivePeerStep ==
  TickTypeOK /\ NetTypeOK /\ OneActivePeer /\ [Next]_vars => OneActivePeer'
<1> SUFFICES ASSUME TickTypeOK, NetTypeOK, OneActivePeer, [Next]_vars
             PROVE  OneActivePeer'
  OBVIOUS
<1>0. stream \in [Peer -> StreamState]
  BY DEF NetTypeOK
<1>1. CASE UNCHANGED <<peers, stream>>
  BY <1>1, SamePeers
<1>2. CASE Restart
  <2>1. DOMAIN peers' = {}
    BY <1>2, EmptySeq, LenProperties DEF Restart
  <2>2. \A c \in Peer : stream'[c] = "none"
    BY <1>2 DEF Restart
  <2> QED BY <2>1, <2>2 DEF OneActivePeer, Connected
<1>3. CASE RemoveDead
  BY <1>3, RemoveDeadScoped
<1>4. ASSUME NEW c \in Peer, add_peer(c)
      PROVE  OneActivePeer'
  BY <1>4, AddPeerScoped
<1>5. CASE ManageChoking
  <2>1. UNCHANGED stream \/ \E ok \in BOOLEAN : Sends(Current, ok)
    BY <1>5 DEF ManageChoking
  <2>2. UNCHANGED peers
    BY <1>5 DEF ManageChoking
  <2> QED BY <2>1, <2>2, SendsFacts, SamePeers
<1>6. CASE ManageInterest
  <2>1. UNCHANGED stream \/ \E ok \in BOOLEAN : Sends(Current, ok)
    BY <1>6 DEF ManageInterest
  <2>2. UNCHANGED peers
    BY <1>6 DEF ManageInterest
  <2> QED BY <2>1, <2>2, SendsFacts, SamePeers
<1>7. ASSUME NEW c \in Peer,
             RequestNothing(c) \/ RequestContinue(c) \/ RequestNew(c) \/ RequestFails(c)
      PROVE  OneActivePeer'
  <2>1. UNCHANGED stream \/ \E ok \in BOOLEAN : Sends(c, ok)
    BY <1>7 DEF RequestNothing, RequestContinue, RequestNew, RequestFails, SendsLater, Sends
  <2>2. UNCHANGED peers
    BY <1>7 DEF RequestNothing, RequestContinue, RequestNew, RequestFails, Requesting,
                RequestFrame
  <2> QED BY <2>1, <2>2, SendsFacts, SamePeers
<1>8. CASE ReadError
  <2>1. UNCHANGED stream \/ (stream[Current] = "reset"
                              /\ stream' = [stream EXCEPT ![Current] = "dead"])
    BY <1>8 DEF ReadError
  <2>2. \A d \in Peer : stream'[d] = "none" <=> stream[d] = "none"
    BY <1>0, <2>1
  <2>3. UNCHANGED peers
    BY <1>8 DEF ReadError
  <2> QED BY <2>2, <2>3, SamePeers
<1>9. ASSUME NEW c \in Peer, ReadRequest(c) \/ PeerCloses(c) \/ PeerResets(c)
      PROVE  OneActivePeer'
  <2>1. \A d \in Peer : stream'[d] = "none" <=> stream[d] = "none"
    BY <1>0, <1>9 DEF ReadRequest, Reading, PeerCloses, PeerResets
  <2>2. UNCHANGED peers
    BY <1>9 DEF ReadRequest, PeerCloses, PeerResets
  <2> QED BY <2>1, <2>2, SamePeers
<1>10. ASSUME NEW c \in Peer,
              \/ ReadChoke(c) \/ ReadUnchoke(c) \/ ReadHave(c) \/ ReadBitfield(c)
              \/ ReadInterested(c)
       PROVE  UNCHANGED <<peers, stream>>
  BY <1>10 DEF ReadChoke, ReadUnchoke, ReadHave, ReadBitfield, SetHave, ReadInterested,
               netVars
<1>11. ASSUME NEW c \in Peer, ReadPiece(c)
       PROVE  UNCHANGED <<peers, stream>>
  BY <1>11 DEF ReadPiece, PieceArrives
<1>12. CASE TickBegin \/ ReadNothing \/ RemovePanics \/ UNCHANGED vars
  BY <1>1, <1>12 DEF TickBegin, ReadNothing, RemovePanics, netVars, vars
<1>13. CASE BroadcastHave
  <2>1. \A d \in Peer : stream'[d] = "none" <=> stream[d] = "none"
    BY <1>13 DEF BroadcastHave
  <2>2. UNCHANGED peers
    BY <1>13 DEF BroadcastHave
  <2> QED BY <2>1, <2>2, SamePeers
<1> QED BY <1>1, <1>2, <1>3, <1>4, <1>5, <1>6, <1>7, <1>8, <1>9, <1>10, <1>11, <1>12, <1>13
        DEF Next, TickStep

-----------------------------------------------------------------------------
\* In every reachable state the variables have their types, the loop variable
\* names a peer exactly while the loop runs, and the Vec of peers has one entry
\* for each connection.
THEOREM ManagerTypeCorrect == Spec => [](DMTypeOK /\ TickScoped)
<1>1. Init => DMTypeOK /\ TickScoped
  BY InitType, InitScoped
<1>2. DMTypeOK /\ TickScoped /\ [Next]_vars => (DMTypeOK /\ TickScoped)'
  BY PeerTypeStep, NetTypeStep, TickTypeStep, LoopScopedStep, OneActivePeerStep
  DEF DMTypeOK, TickScoped
<1> QED BY <1>1, <1>2, PTL DEF Spec

\* tick's loop variable and its Vec of peers are in order in every step of it.
THEOREM TickStaysScoped == Spec => []TickScoped
BY ManagerTypeCorrect, PTL

-----------------------------------------------------------------------------
(* The download manager implements the piece manager's specification.        *)

\* What a step does to the piece manager: it uses one of its operations, with
\* the verdict of the files when a block arrives, or leaves it alone; only a
\* block that arrives changes the files.
LEMMA PieceSteps ==
  ASSUME NetTypeOK, [Next]_vars
  PROVE  \/ UNCHANGED <<pmVars, disk>>
         \/ /\ \E p \in Piece, sent \in BOOLEAN : start_downloading(p, sent)
            /\ UNCHANGED disk
         \/ /\ \E b \in Block : RequestBlock(b)
            /\ UNCHANGED disk
         \/ /\ verify_existing_pieces(Verified(disk))
            /\ UNCHANGED disk
         \/ \E b \in Block, data \in BlockData :
              /\ BlockReceived(b, verify_piece(b[1], disk'))
              /\ WriteBlock(b, data)
              /\ data \in {"bad", "long"} => ~RightData
<1>1. CASE Restart
  BY <1>1 DEF Restart
<1>2. ASSUME NEW c \in Peer, ReadPiece(c)
      PROVE  \E b \in Block, data \in BlockData :
              /\ BlockReceived(b, verify_piece(b[1], disk'))
              /\ WriteBlock(b, data)
              /\ data \in {"bad", "long"} => ~RightData
  BY <1>2, ReadPieceFacts DEF PieceArrives
<1>3. ASSUME NEW c \in Peer, RequestContinue(c)
      PROVE  /\ \E b \in Block : RequestBlock(b)
             /\ UNCHANGED disk
  BY <1>3 DEF RequestContinue, Eligible, Requesting, RequestFrame
<1>4. ASSUME NEW c \in Peer, RequestNew(c)
      PROVE  /\ \E p \in Piece, sent \in BOOLEAN : start_downloading(p, sent)
             /\ UNCHANGED disk
  BY <1>4 DEF RequestNew, Requesting, RequestFrame
<1>5. ASSUME NEW c \in Peer, RequestNothing(c) \/ RequestFails(c)
      PROVE  UNCHANGED <<pmVars, disk>>
  BY <1>5 DEF RequestNothing, RequestFails, Requesting, RequestFrame
<1>6. ASSUME NEW c \in Peer,
             \/ ReadChoke(c) \/ ReadUnchoke(c) \/ ReadHave(c) \/ ReadBitfield(c)
             \/ ReadRequest(c) \/ ReadInterested(c)
             \/ add_peer(c) \/ PeerCloses(c) \/ PeerResets(c)
      PROVE  UNCHANGED <<pmVars, disk>>
  BY <1>6 DEF ReadChoke, ReadUnchoke, ReadHave, ReadBitfield, SetHave, ReadRequest,
              ReadInterested, add_peer, PeerCloses, PeerResets
<1>7. CASE TickBegin \/ ReadNothing \/ ReadError \/ ManageChoking \/ ManageInterest
           \/ RemoveDead \/ RemovePanics \/ BroadcastHave \/ UNCHANGED vars
  BY <1>7 DEF TickBegin, ReadNothing, ReadError, ManageChoking, ManageInterest,
              RemoveDead, RemovePanics, BroadcastHave, vars
<1> QED BY <1>1, <1>2, <1>3, <1>4, <1>5, <1>6, <1>7 DEF Next, TickStep

\* verify_piece has one of three verdicts.
LEMMA VerdictType == \A p, d : verify_piece(p, d) \in Verdict
BY DEF verify_piece, Verdict

\* Every behaviour of the download manager is one of the piece manager: tick
\* and add_peer reach into it only through its operations.
THEOREM ImplementsPieceManager == Spec => PMSpec
<1>1. Init => PMInit
  BY DEF Init, PMInit, Verified
<1>2. NetTypeOK /\ [Next]_vars => [PMNext]_pmVars
  <2> SUFFICES ASSUME NetTypeOK, [Next]_vars
               PROVE  [PMNext]_pmVars
    OBVIOUS
  <2>1. Verified(disk) \in SUBSET Piece
    BY DEF Verified
  <2> QED BY <2>1, PieceSteps, VerdictType DEF PMNext
<1>3. DMTypeOK => NetTypeOK
  BY DEF DMTypeOK
<1> QED BY <1>1, <1>2, <1>3, ManagerTypeCorrect, PTL DEF Spec, PMSpec

\* The piece manager's invariant holds in every state of the download manager.
THEOREM ManagerKeepsPieces == Spec => []PMInv
BY ImplementsPieceManager, PieceManagerCorrect, PTL

-----------------------------------------------------------------------------
(* What is complete is right on disk and stays complete.                     *)

\* A piece that verifies is good on disk.
LEMMA VerifiedIsGood ==
  ASSUME NEW p, NEW d, verify_piece(p, d) = "ok"
  PROVE  \A b \in BlocksOf(p) : d[b] = "good"
BY DEF verify_piece

\* A block that arrives can only complete its own piece, and only when the
\* files verify; no other piece changes.
LEMMA BlockReceivedFacts ==
  ASSUME PMInv, NEW b \in Block, NEW verdict, BlockReceived(b, verdict)
  PROVE  \A p \in Piece :
            /\ piece_status[p] = "Complete" => piece_status'[p] = "Complete"
            /\ piece_status'[p] = "Complete" =>
                  \/ piece_status[p] = "Complete"
                  \/ p = b[1] /\ verdict = "ok"
<1>1. b[1] \in Piece /\ piece_status \in [Piece -> Status]
  BY BlockFacts DEF PMInv, PMTypeOK
<1>2. Queued(b[1]) => piece_status[b[1]] = "Downloading"
  BY <1>1 DEF PMInv, QueueIsDownloading
<1>3. CASE UNCHANGED piece_status
  BY <1>3
<1>4. CASE Queued(b[1]) /\ verdict = "ok" /\ mark_complete(b[1])
  <2>1. piece_status' = [piece_status EXCEPT ![b[1]] = "Complete"]
    BY <1>2, <1>4 DEF mark_complete
  <2> QED BY <1>1, <1>4, <2>1
<1>5. CASE Queued(b[1]) /\ reset_piece(b[1])
  BY <1>1, <1>2, <1>5 DEF reset_piece
<1> QED BY <1>3, <1>4, <1>5 DEF BlockReceived, SetDownloaded, pmVars

\* What is complete stays good on disk.
LEMMA CompleteIsVerifiedStep ==
  ASSUME RightData, PMInv, NetTypeOK, CompleteIsVerified, [Next]_vars
  PROVE  CompleteIsVerified'
<1> SUFFICES ASSUME NEW p \in Piece, piece_status'[p] = "Complete",
                    NEW d \in BlocksOf(p)
             PROVE  disk'[d] = "good"
  BY DEF CompleteIsVerified, WithStatus
<1>0. d \in Block
  BY BlockFacts
<1>1. piece_status[p] = "Complete" => disk[d] = "good"
  BY DEF CompleteIsVerified, WithStatus
<1>2. CASE UNCHANGED <<pmVars, disk>>
  BY <1>1, <1>2 DEF pmVars
<1>3. CASE UNCHANGED disk /\ \E q \in Piece, sent \in BOOLEAN : start_downloading(q, sent)
  <2>1. piece_status[p] = "Complete"
    BY <1>3 DEF start_downloading, PMInv, PMTypeOK
  <2> QED BY <1>1, <1>3, <2>1
<1>4. CASE UNCHANGED disk /\ \E b \in Block : RequestBlock(b)
  BY <1>1, <1>4 DEF RequestBlock
<1>5. CASE UNCHANGED disk /\ verify_existing_pieces(Verified(disk))
  <2>1. verify_piece(p, disk) = "ok"
    BY <1>5 DEF verify_existing_pieces, Verified
  <2> QED BY <1>5, <2>1, VerifiedIsGood
<1>6. ASSUME NEW b \in Block, NEW data \in BlockData,
             BlockReceived(b, verify_piece(b[1], disk')),
             WriteBlock(b, data),
             data \in {"bad", "long"} => ~RightData
      PROVE  disk'[d] = "good"
  <2>1. data \in {"good", "part"}
    BY <1>6 DEF BlockData
  <2>2. CASE piece_status[p] = "Complete"
    BY <1>0, <1>1, <1>6, <2>1, <2>2, WriteBlockFacts
  <2>3. CASE piece_status[p] # "Complete"
    <3>1. p = b[1] /\ verify_piece(b[1], disk') = "ok"
      BY <1>6, <2>3, BlockReceivedFacts
    <3> QED BY <3>1, VerifiedIsGood
  <2> QED BY <2>2, <2>3
<1> QED BY <1>2, <1>3, <1>4, <1>5, <1>6, PieceSteps

\* As long as no peer sends wrong data, every piece we call complete has all
\* its bytes right on disk: across duplicates in the endgame, short answers, failed
\* writes, crashes, and whatever the files held at the start.
THEOREM CompleteStaysVerified ==
  ASSUME RightData
  PROVE  Spec => []CompleteIsVerified
<1>1. Init => CompleteIsVerified
  <2> SUFFICES ASSUME Init, NEW p \in Piece, piece_status[p] = "Complete"
               PROVE  \A b \in BlocksOf(p) : disk[b] = "good"
    BY DEF CompleteIsVerified, WithStatus
  <2>1. verify_piece(p, disk) = "ok"
    BY DEF Init, Start, Verified
  <2> QED BY <2>1, VerifiedIsGood
<1>2. PMInv /\ NetTypeOK /\ CompleteIsVerified /\ [Next]_vars => CompleteIsVerified'
  BY CompleteIsVerifiedStep
<1>3. DMTypeOK => NetTypeOK
  BY DEF DMTypeOK
<1> QED BY <1>1, <1>2, <1>3, ManagerTypeCorrect, ManagerKeepsPieces, PTL DEF Spec

\* A complete piece is never taken back.
LEMMA NeverUncompletedStep ==
  ASSUME RightData, PMInv, NetTypeOK, CompleteIsVerified, [Next]_vars,
         NEW p \in Piece, piece_status[p] = "Complete"
  PROVE  piece_status'[p] = "Complete"
<1>1. CASE UNCHANGED <<pmVars, disk>>
  BY <1>1 DEF pmVars
<1>2. CASE \E q \in Piece, sent \in BOOLEAN : start_downloading(q, sent)
  BY <1>2 DEF start_downloading, PMInv, PMTypeOK
<1>3. CASE \E b \in Block : RequestBlock(b)
  BY <1>3 DEF RequestBlock
<1>4. CASE verify_existing_pieces(Verified(disk))
  <2>1. verify_piece(p, disk) = "ok"
    BY DEF CompleteIsVerified, WithStatus, verify_piece
  <2> QED BY <1>4, <2>1 DEF verify_existing_pieces, Verified
<1>5. CASE \E b \in Block : BlockReceived(b, verify_piece(b[1], disk'))
  BY <1>5, BlockReceivedFacts
<1> QED BY <1>1, <1>2, <1>3, <1>4, <1>5, PieceSteps

\* As long as no peer sends wrong data, a piece that is complete stays so, also
\* when the program dies and verifies its files again.
THEOREM CompletionIsLasting ==
  ASSUME RightData
  PROVE  Spec => NeverUncompleted
<1> DEFINE Lasting ==
      \A p \in Piece : piece_status[p] = "Complete" => piece_status'[p] = "Complete"
<1>1. PMInv /\ NetTypeOK /\ CompleteIsVerified /\ [Next]_vars => [Lasting]_vars
  BY NeverUncompletedStep
<1>2. DMTypeOK => NetTypeOK
  BY DEF DMTypeOK
<1>3. Spec => [][Lasting]_vars
  BY <1>1, <1>2, ManagerTypeCorrect, ManagerKeepsPieces, CompleteStaysVerified, PTL
  DEF Spec
<1> QED BY <1>3 DEF NeverUncompleted

-----------------------------------------------------------------------------
(* What the peers are told.                                                  *)

\* The pieces that tick has still to announce are complete too.
ToldInv ==
    /\ NeverOveradvertised
    /\ completed_pieces \subseteq WithStatus("Complete")

\* Apart from a restart no step takes back a piece, and what is told, or will
\* be, is complete.
LEMMA ToldStep ==
  ASSUME PMInv, NetTypeOK, ToldInv, [Next]_vars
  PROVE  ToldInv'
<1> USE DEF ToldInv, NeverOveradvertised, WithStatus
<1>0. told \in [Peer -> SUBSET Piece]
  BY DEF NetTypeOK
<1>1. ASSUME \A p \in Piece : piece_status[p] = "Complete" => piece_status'[p] = "Complete",
             completed_pieces' \subseteq WithStatus("Complete")',
             \A c \in Peer : told'[c] \subseteq told[c] \cup completed_pieces \cup WithStatus("Complete")
      PROVE  ToldInv'
  BY <1>1
<1>2. ASSUME UNCHANGED <<pmVars, told>>, completed_pieces' \subseteq completed_pieces
      PROVE  ToldInv'
  BY <1>2 DEF pmVars
<1>3. CASE Restart
  BY <1>3 DEF Restart
<1>4. ASSUME NEW c \in Peer, ReadPiece(c)
      PROVE  ToldInv'
  <2>0. PICK b \in Block : \E data \in BlockData :
          PieceArrives(c, b, data)
    BY <1>4, ReadPieceFacts
  <2>1. /\ BlockReceived(b, verify_piece(b[1], disk'))
        /\ completed_pieces' =
             IF piece_status'[b[1]] = "Complete" /\ piece_status[b[1]] # "Complete"
             THEN completed_pieces \cup {b[1]} ELSE completed_pieces
        /\ UNCHANGED told
    BY <2>0 DEF PieceArrives
  <2>2. \A p \in Piece : piece_status[p] = "Complete" => piece_status'[p] = "Complete"
    BY <2>1, BlockReceivedFacts
  <2>3. b[1] \in Piece
    BY BlockFacts
  <2>4. completed_pieces' \subseteq WithStatus("Complete")'
    <3>1. ASSUME NEW p \in completed_pieces
          PROVE  p \in WithStatus("Complete")'
      BY <2>2, <3>1
    <3>2. CASE completed_pieces' = completed_pieces
      BY <3>1, <3>2
    <3>3. CASE completed_pieces' = completed_pieces \cup {b[1]} /\ piece_status'[b[1]] = "Complete"
      BY <2>3, <3>1, <3>3
    <3> QED BY <2>1, <3>2, <3>3
  <2> QED BY <1>1, <2>1, <2>2, <2>4
<1>5. ASSUME NEW c \in Peer, RequestContinue(c) \/ RequestNew(c)
      PROVE  ToldInv'
  <2>1. UNCHANGED <<told, completed_pieces>>
    BY <1>5 DEF RequestContinue, RequestNew, Requesting, RequestFrame, listVars
  <2>2. \/ \E b \in Block : RequestBlock(b)
        \/ \E p \in Piece, sent \in BOOLEAN : start_downloading(p, sent)
    BY <1>5 DEF RequestContinue, RequestNew, Eligible
  <2>3. \A p \in Piece : piece_status[p] = "Complete" => piece_status'[p] = "Complete"
    BY <2>2 DEF RequestBlock, start_downloading, PMInv, PMTypeOK
  <2> QED BY <1>1, <2>1, <2>3
<1>6. ASSUME NEW c \in Peer, RequestNothing(c) \/ RequestFails(c)
      PROVE  ToldInv'
  BY <1>2, <1>6 DEF RequestNothing, RequestFails, Requesting, RequestFrame, listVars
<1>7. ASSUME NEW c \in Peer, add_peer(c)
      PROVE  ToldInv'
  <2>1. UNCHANGED <<pmVars, completed_pieces>>
    BY <1>7 DEF add_peer, listVars
  <2>2. told' = [told EXCEPT ![c] = WithStatus("Complete")]
    BY <1>7 DEF add_peer, get_bitfield
  <2> QED BY <1>0, <2>1, <2>2 DEF pmVars
<1>8. CASE RemoveDead
  <2>1. UNCHANGED pmVars /\ completed_pieces' = completed_pieces
    BY <1>8 DEF RemoveDead
  <2>2. told' = [told EXCEPT ![peers[Last(peers_to_remove)]] = {}]
    BY <1>8 DEF RemoveDead, DropPeer
  <2> QED BY <1>0, <2>1, <2>2 DEF pmVars
<1>9. CASE BroadcastHave
  <2>1. UNCHANGED pmVars /\ completed_pieces' = {}
    BY <1>9 DEF BroadcastHave
  <2>2. \A c \in Peer : told'[c] \subseteq told[c] \cup completed_pieces
    BY <1>9 DEF BroadcastHave
  <2> QED BY <1>1, <2>1, <2>2 DEF pmVars
<1>10. ASSUME NEW c \in Peer,
              \/ ReadChoke(c) \/ ReadUnchoke(c) \/ ReadHave(c) \/ ReadBitfield(c)
              \/ ReadRequest(c) \/ ReadInterested(c) \/ PeerCloses(c) \/ PeerResets(c)
       PROVE  ToldInv'
  BY <1>2, <1>10 DEF ReadChoke, ReadUnchoke, ReadHave, ReadBitfield, SetHave, ReadRequest,
              ReadInterested, PeerCloses, PeerResets, listVars, netVars
<1>11. CASE TickBegin \/ ReadNothing \/ ReadError \/ ManageChoking \/ ManageInterest
            \/ RemovePanics \/ UNCHANGED vars
  BY <1>2, <1>11 DEF TickBegin, ReadNothing, ReadError, ManageChoking, ManageInterest,
              RemovePanics, vars, listVars, netVars
<1> QED BY <1>3, <1>4, <1>5, <1>6, <1>7, <1>8, <1>9, <1>10, <1>11 DEF Next, TickStep

\* No peer is ever told of a piece we do not have, whatever fails, and whoever
\* joins or sends wrong data.
THEOREM NeverTellsTooMuch == Spec => []NeverOveradvertised
<1>1. Init => ToldInv
  BY DEF Init, ToldInv, NeverOveradvertised
<1>2. PMInv /\ NetTypeOK /\ ToldInv /\ [Next]_vars => ToldInv'
  BY ToldStep
<1>3. (DMTypeOK => NetTypeOK) /\ (ToldInv => NeverOveradvertised)
  BY DEF DMTypeOK, ToldInv
<1> QED BY <1>1, <1>2, <1>3, ManagerTypeCorrect, ManagerKeepsPieces, PTL DEF Spec

-----------------------------------------------------------------------------
(* Upload slots.                                                             *)

SlotsInv == IsFiniteSet(Unchoked) /\ UploadSlots

\* No step gives out more upload slots than there are.
LEMMA SlotsStep ==
  ASSUME PeerTypeOK, SlotsInv, [Next]_vars
  PROVE  SlotsInv'
<1> USE DEF PeerTypeOK
<1>0. /\ IsFiniteSet(Unchoked) /\ Cardinality(Unchoked) \in Nat
      /\ Cardinality(Unchoked) <= unchoked_peers /\ unchoked_peers <= MaxUnchoked
  BY FS_CardinalityType DEF SlotsInv, UploadSlots
<1>1. ASSUME UNCHANGED unchoked_peers, Unchoked' \subseteq Unchoked
      PROVE  SlotsInv'
  <2>1. IsFiniteSet(Unchoked') /\ Cardinality(Unchoked') <= Cardinality(Unchoked)
    BY <1>0, <1>1, FS_Subset
  <2>2. Cardinality(Unchoked') \in Nat
    BY <2>1, FS_CardinalityType
  <2> QED BY <1>0, <1>1, <2>1, <2>2 DEF SlotsInv, UploadSlots
<1>2. CASE UNCHANGED <<am_choking, unchoked_peers>>
  BY <1>1, <1>2 DEF Unchoked
<1>3. CASE ManageChoking
  <2>1. CASE /\ am_choking' = [am_choking EXCEPT ![Current] = FALSE]
             /\ unchoked_peers' = unchoked_peers + 1
             /\ unchoked_peers < MaxUnchoked
    <3>1. Unchoked' \subseteq Unchoked \cup {Current}
      BY <2>1 DEF Unchoked
    <3>2. /\ IsFiniteSet(Unchoked \cup {Current})
          /\ Cardinality(Unchoked \cup {Current}) \in Nat
          /\ Cardinality(Unchoked \cup {Current}) <= Cardinality(Unchoked) + 1
      <4>1. /\ IsFiniteSet(Unchoked \cup {Current})
            /\ Cardinality(Unchoked \cup {Current}) =
                 IF Current \in Unchoked THEN Cardinality(Unchoked) ELSE Cardinality(Unchoked) + 1
        BY <1>0, FS_AddElement
      <4> QED BY <1>0, <4>1, FS_CardinalityType
    <3>3. IsFiniteSet(Unchoked') /\ Cardinality(Unchoked') <= Cardinality(Unchoked \cup {Current})
      BY <3>1, <3>2, FS_Subset
    <3>4. Cardinality(Unchoked') \in Nat
      BY <3>3, FS_CardinalityType
    <3> QED BY <1>0, <2>1, <3>2, <3>3, <3>4, ManagerAssumption DEF SlotsInv, UploadSlots
  <2>2. \/ UNCHANGED <<am_choking, unchoked_peers>>
        \/ /\ am_choking' = [am_choking EXCEPT ![Current] = FALSE]
           /\ unchoked_peers' = unchoked_peers + 1
           /\ unchoked_peers < MaxUnchoked
    BY <1>3 DEF ManageChoking, MayUnchoke
  <2> QED BY <1>2, <2>1, <2>2
<1>4. CASE RemoveDead
  <2>1. UNCHANGED unchoked_peers /\ am_choking' = [am_choking EXCEPT ![peers[Last(peers_to_remove)]] = TRUE]
    BY <1>4 DEF RemoveDead, DropPeer
  <2>2. Unchoked' \subseteq Unchoked
    BY <2>1 DEF Unchoked
  <2> QED BY <1>1, <2>1, <2>2
<1>5. CASE Restart
  <2>1. Unchoked' = {} /\ unchoked_peers' = 0
    BY <1>5 DEF Restart, Unchoked
  <2> QED BY <2>1, FS_EmptySet, ManagerAssumption DEF SlotsInv, UploadSlots
<1>6. ASSUME NEW c \in Peer,
             RequestNothing(c) \/ RequestContinue(c) \/ RequestNew(c) \/ RequestFails(c)
      PROVE  UNCHANGED <<am_choking, unchoked_peers>>
  BY <1>6 DEF RequestNothing, RequestContinue, RequestNew, RequestFails, Requesting, RequestFrame
<1>7. ASSUME NEW c \in Peer,
             \/ ReadChoke(c) \/ ReadUnchoke(c) \/ ReadHave(c) \/ ReadBitfield(c)
             \/ ReadRequest(c) \/ ReadInterested(c) \/ add_peer(c) \/ PeerCloses(c)
             \/ PeerResets(c)
      PROVE  UNCHANGED <<am_choking, unchoked_peers>>
  BY <1>7 DEF ReadChoke, ReadUnchoke, ReadHave, ReadBitfield, SetHave, ReadRequest,
              ReadInterested, add_peer, PeerCloses, PeerResets, peerVars
<1>8. ASSUME NEW c \in Peer, ReadPiece(c)
      PROVE  UNCHANGED <<am_choking, unchoked_peers>>
  BY <1>8 DEF ReadPiece, PieceArrives
<1>9. CASE TickBegin \/ ReadNothing \/ ReadError \/ ManageInterest \/ RemovePanics
           \/ BroadcastHave \/ UNCHANGED vars
  BY <1>2, <1>9 DEF TickBegin, ReadNothing, ReadError, ManageInterest, RemovePanics,
              BroadcastHave, vars, peerVars
<1> QED BY <1>2, <1>3, <1>4, <1>5, <1>6, <1>7, <1>8, <1>9 DEF Next, TickStep

\* However peers come and go, we upload to at most MaxUnchoked of them.
THEOREM UploadSlotsHold == Spec => []UploadSlots
<1>1. Init => SlotsInv
  <2> SUFFICES ASSUME Init
               PROVE  SlotsInv
    OBVIOUS
  <2>1. Unchoked = {} /\ unchoked_peers = 0
    BY DEF Init, Unchoked
  <2> QED BY <2>1, FS_EmptySet, ManagerAssumption DEF SlotsInv, UploadSlots
<1>2. PeerTypeOK /\ SlotsInv /\ [Next]_vars => SlotsInv'
  BY SlotsStep
<1>3. (DMTypeOK => PeerTypeOK) /\ (SlotsInv => UploadSlots)
  BY DEF DMTypeOK, SlotsInv
<1> QED BY <1>1, <1>2, <1>3, ManagerTypeCorrect, PTL DEF Spec
=============================================================================
