--------------------------- MODULE Pipeline_proofs ---------------------------
(***************************************************************************)
(* Proofs about the requests of the download manager, for any peers,       *)
(* pieces and limits: what is asked of whom, what is counted, what becomes *)
(* of a piece whose blocks have arrived, and of the peers that fail.       *)
(*                                                                         *)
(* Most of it is true only as long as some faults do not happen; each      *)
(* theorem names those, and allows all the others.                         *)
(***************************************************************************)
EXTENDS DownloadManager_proofs

\* Every answer is as long as it should be, or longer, and the disk takes it.
WholeBlocks == Faults \cap {"short", "write"} = {}

\* Every block that is downloaded is right: no piece is ever reset.
NothingSpoilt == Faults \cap {"corrupt", "long", "short", "write"} = {}

\* Peers answer what they were asked, and no more.
AnswersAsAsked == Faults \cap {"choke", "stray"} = {}

\* Sockets take what is sent.
SocketsTake == "congest" \notin Faults

\* Connections do not fail under tick's hands, and carry messages only.
ConnectionsLast == Faults \cap {"break", "garbage"} = {}

-----------------------------------------------------------------------------
(* The steps, by what they do to requests.                                   *)

reqVars == <<inflight_requests, requested_blocks, owed>>

\* No stream is opened.
NothingOpens == \A c \in Peer : stream'[c] = "open" => stream[c] = "open"

\* The requests of one peer are forgotten with the peer.
Drops(c) ==
    /\ inflight_requests' = [inflight_requests EXCEPT ![c] = 0]
    /\ requested_blocks' = [requested_blocks EXCEPT ![c] = {}]
    /\ owed' = [owed EXCEPT ![c] = NothingOwed]
    /\ stream' = [stream EXCEPT ![c] = "none"]

\* A peer forgets what it owes, and chokes us or loses its connection.
Forgets(c) ==
    /\ owed' = [owed EXCEPT ![c] = NothingOwed]
    /\ UNCHANGED <<inflight_requests, requested_blocks>>
    /\ stream'[c] = "open" => ~AnswersAsAsked

\* A block arrives; whether it was owed and is right depends on the faults.
Arrives(c, b, data) ==
    /\ PieceArrives(c, b, data)
    /\ data # "good" => ~NothingSpoilt
    /\ data = "part" => ~WholeBlocks
    /\ b \notin Owed(c) => ~AnswersAsAsked

\* tick asks for a block of a piece in its queue, or of one it starts.
AsksFor(c, b) ==
    /\ stream[c] \in {"open", "closed"}
    /\ MayRequest(c)
    /\ Asked(c, b)
    /\ \/ b \in Eligible(c) /\ RequestBlock(b)
       \/ b[1] \in Piece /\ b = <<b[1], 0>> /\ start_downloading(b[1], TRUE)

\* add_peer and the ends of connections leave the requests alone.
Quiet ==
    /\ UNCHANGED <<pmVars, reqVars>>
    /\ \A c \in Peer : stream'[c] = "open" => stream[c] \in {"open", "none"}

\* Every step does one of these to the requests.
LEMMA RequestSteps ==
  ASSUME DMTypeOK, TickScoped, [Next]_vars
  PROVE  \/ Quiet /\ UNCHANGED disk
         \/ /\ \E p \in Piece : start_downloading(p, FALSE)
            /\ UNCHANGED <<reqVars, disk>> /\ NothingOpens
         \/ \E c \in Peer : Forgets(c) /\ UNCHANGED <<pmVars, disk>> /\ NothingOpens
         \/ \E c \in Peer : Drops(c) /\ UNCHANGED <<pmVars, disk>>
         \/ \E c \in Peer, b \in Block, data \in BlockData :
               Arrives(c, b, data) /\ UNCHANGED stream
         \/ \E c \in Peer, b \in Block : AsksFor(c, b) /\ UNCHANGED <<disk, stream>>
         \/ Restart
<1>0. stream \in [Peer -> StreamState] /\ owed \in [Peer -> [Block -> Nat]]
  BY DEF DMTypeOK, NetTypeOK
<1> DEFINE Goal ==
         \/ Quiet /\ UNCHANGED disk
         \/ /\ \E p \in Piece : start_downloading(p, FALSE)
            /\ UNCHANGED <<reqVars, disk>> /\ NothingOpens
         \/ \E c \in Peer : Forgets(c) /\ UNCHANGED <<pmVars, disk>> /\ NothingOpens
         \/ \E c \in Peer : Drops(c) /\ UNCHANGED <<pmVars, disk>>
         \/ \E c \in Peer, b \in Block, data \in BlockData :
               Arrives(c, b, data) /\ UNCHANGED stream
         \/ \E c \in Peer, b \in Block : AsksFor(c, b) /\ UNCHANGED <<disk, stream>>
         \/ Restart
<1> SUFFICES Goal
  OBVIOUS
<1>1. CASE UNCHANGED <<pmVars, reqVars, disk>> /\ NothingOpens
  BY <1>1 DEF Quiet, NothingOpens
<1>2. ASSUME NEW c, NEW ok, Sends(c, ok) PROVE NothingOpens
  BY <1>0, <1>2 DEF Sends, NothingOpens
<1>3. CASE TickBegin \/ ReadNothing \/ RemovePanics \/ UNCHANGED vars
  BY <1>1, <1>3 DEF TickBegin, ReadNothing, RemovePanics, vars, netVars, peerVars, reqVars, NothingOpens
<1>4. CASE ReadError
  <2>1. NothingOpens
    BY <1>0, <1>4 DEF ReadError, NothingOpens
  <2> QED BY <1>1, <1>4, <2>1 DEF ReadError, peerVars, reqVars
<1>5. CASE BroadcastHave
  BY <1>1, <1>5 DEF BroadcastHave, peerVars, reqVars, NothingOpens
<1>6. CASE ManageChoking \/ ManageInterest
  <2>1. NothingOpens
    BY <1>2, <1>6 DEF ManageChoking, ManageInterest, NothingOpens
  <2> QED BY <1>1, <1>6, <2>1 DEF ManageChoking, ManageInterest, peerVars, reqVars
<1>7. CASE RemoveDead
  <2>1. peers[Last(peers_to_remove)] \in Peer
    BY <1>7, LenProperties, ElementOfSeq DEF RemoveDead, DMTypeOK, TickTypeOK
  <2>2. Drops(peers[Last(peers_to_remove)])
    BY <1>7 DEF RemoveDead, DropPeer, Drops
  <2> QED BY <1>7, <2>1, <2>2 DEF RemoveDead
<1>8. ASSUME NEW c \in Peer,
             ReadUnchoke(c) \/ ReadHave(c) \/ ReadBitfield(c) \/ ReadInterested(c)
      PROVE  UNCHANGED <<pmVars, reqVars, disk>> /\ NothingOpens
  BY <1>8 DEF ReadUnchoke, ReadHave, ReadBitfield, SetHave, ReadInterested, netVars, reqVars, NothingOpens
<1>9. ASSUME NEW c \in Peer, ReadChoke(c)
      PROVE  Goal
  <2>1. ~AnswersAsAsked
    BY <1>9 DEF ReadChoke, Fault, AnswersAsAsked
  <2> QED BY <1>9, <2>1 DEF ReadChoke, Forgets, NothingOpens
<1>10. ASSUME NEW c \in Peer, ReadRequest(c)
      PROVE  Goal
  <2>1. CASE UNCHANGED <<stream, owed>>
    BY <1>1, <1>10, <2>1 DEF ReadRequest, peerVars, reqVars, NothingOpens
  <2>2. CASE /\ stream' = [stream EXCEPT ![c] = "dead"]
             /\ owed' = [owed EXCEPT ![c] = NothingOwed]
    <3>1. NothingOpens /\ stream'[c] # "open"
      BY <1>0, <2>2 DEF NothingOpens
    <3> QED BY <1>10, <2>2, <3>1 DEF ReadRequest, peerVars, Forgets
  <2> QED BY <1>10, <2>1, <2>2 DEF ReadRequest
<1>11. ASSUME NEW c \in Peer, ReadPiece(c)
      PROVE  Goal
  <2>1. PICK b \in Block, data \in BlockData :
           Arrives(c, b, data)
    <3>1. Owed(c) \subseteq Block
      BY DEF Owed
    <3>2. CASE \E b \in Owed(c) : PieceArrives(c, b, "good")
      BY <3>1, <3>2 DEF Arrives, BlockData
    <3>3. CASE \E b \in Owed(c) : PieceArrives(c, b, "bad") /\ Fault("corrupt")
      BY <3>1, <3>3 DEF Arrives, Fault, NothingSpoilt, BlockData
    <3>4. CASE \E b \in Owed(c) : PieceArrives(c, b, "long") /\ Fault("long")
      BY <3>1, <3>4 DEF Arrives, Fault, NothingSpoilt, BlockData
    <3>5. CASE \E b \in Owed(c) : PieceArrives(c, b, "part") /\ (Fault("short") \/ Fault("write"))
      BY <3>1, <3>5 DEF Arrives, Fault, NothingSpoilt, WholeBlocks, BlockData
    <3>6. CASE \E b \in Block \ Owed(c) : PieceArrives(c, b, "good") /\ Fault("stray")
      BY <3>6 DEF Arrives, Fault, AnswersAsAsked, BlockData
    <3> QED BY <1>11, <3>2, <3>3, <3>4, <3>5, <3>6 DEF ReadPiece
  <2>2. UNCHANGED stream
    BY <2>1 DEF Arrives, PieceArrives
  <2> QED BY <2>1, <2>2
<1>12. ASSUME NEW c \in Peer, RequestNothing(c)
      PROVE  UNCHANGED <<pmVars, reqVars, disk>> /\ NothingOpens
  BY <1>12 DEF RequestNothing, Requesting, RequestFrame, reqVars, NothingOpens
<1>13. ASSUME NEW c \in Peer, RequestFails(c)
      PROVE  UNCHANGED <<pmVars, reqVars, disk>> /\ NothingOpens
  BY <1>2, <1>13 DEF RequestFails, Requesting, RequestFrame, reqVars
<1>14. ASSUME NEW c \in Peer, RequestContinue(c)
      PROVE  Goal
  <2>1. PICK b \in Eligible(c) : /\ Sends(c, TRUE) \/ SendsLater(c)
                                 /\ MayRequest(c) /\ RequestBlock(b) /\ Asked(c, b)
    BY <1>14 DEF RequestContinue
  <2>2. b \in Block
    BY DEF Eligible
  <2>3. UNCHANGED <<disk, stream>>
    BY <1>14, <2>1 DEF Sends, SendsLater, RequestContinue, Requesting, RequestFrame
  <2>4. stream[c] \in {"open", "closed"}
    BY <2>1 DEF Sends, SendsLater
  <2> QED BY <2>1, <2>2, <2>3, <2>4 DEF AsksFor
<1>15. ASSUME NEW c \in Peer, RequestNew(c)
      PROVE  Goal
  <2>1. PICK p \in Piece :
          \/ /\ Sends(c, TRUE) \/ SendsLater(c)
             /\ start_downloading(p, TRUE)
             /\ Asked(c, <<p, 0>>)
          \/ /\ Sends(c, FALSE)
             /\ start_downloading(p, FALSE)
             /\ UNCHANGED reqVars
    BY <1>15 DEF RequestNew, reqVars
  <2>2. <<p, 0>> \in Block /\ <<p, 0>>[1] = p
    BY BlockFacts
  <2>3. UNCHANGED disk
    BY <1>15 DEF RequestNew, Requesting, RequestFrame
  <2>4. CASE start_downloading(p, TRUE) /\ Asked(c, <<p, 0>>) /\ (Sends(c, TRUE) \/ SendsLater(c))
    <3>1. UNCHANGED stream /\ stream[c] \in {"open", "closed"}
      BY <2>4 DEF Sends, SendsLater
    <3>2. AsksFor(c, <<p, 0>>)
      BY <1>15, <2>2, <2>4, <3>1 DEF AsksFor, RequestNew
    <3> QED BY <2>2, <2>3, <3>1, <3>2
  <2>5. CASE start_downloading(p, FALSE) /\ UNCHANGED reqVars /\ Sends(c, FALSE)
    BY <1>2, <2>3, <2>5
  <2> QED BY <2>1, <2>4, <2>5
<1>16. ASSUME NEW c \in Peer, add_peer(c)
      PROVE  Goal
  <2>1. stream[c] = "none"
    BY <1>16 DEF add_peer, already_connected, TickScoped, OneActivePeer
  <2>2. \A d \in Peer : stream'[d] = "open" => stream[d] \in {"open", "none"}
    BY <1>0, <1>16, <2>1 DEF add_peer
  <2> QED BY <1>16, <2>2 DEF add_peer, Quiet, peerVars, reqVars
<1>17. ASSUME NEW c \in Peer, PeerCloses(c)
      PROVE  UNCHANGED <<pmVars, reqVars, disk>> /\ NothingOpens
  BY <1>0, <1>17 DEF PeerCloses, peerVars, reqVars, NothingOpens
<1>18. ASSUME NEW c \in Peer, PeerResets(c)
      PROVE  Goal
  <2>1. NothingOpens /\ stream'[c] # "open"
    BY <1>0, <1>18 DEF PeerResets, NothingOpens
  <2> QED BY <1>18, <2>1 DEF PeerResets, peerVars, Forgets
<1>19. CASE Restart
  BY <1>19
<1> HIDE DEF Goal
<1> QED BY <1>1, <1>3, <1>4, <1>5, <1>6, <1>7, <1>8, <1>9, <1>10, <1>11, <1>12, <1>13, <1>14,
           <1>15, <1>16, <1>17, <1>18, <1>19 DEF Next, TickStep

-----------------------------------------------------------------------------
(* A full piece is settled.                                                  *)

\* The blocks a PieceState calls downloaded are whole on disk, right or wrong.
OnDisk == \A b \in downloaded : disk[b] \in {"good", "bad"}

\* No piece has all its blocks and no verdict.
NoLimbo ==
    \A p \in WithStatus("Downloading") : ~(BlocksOf(p) \subseteq downloaded)

\* A piece has as many blocks as its number says.
LEMMA BlockCount == \A p \in Piece : Cardinality(BlocksOf(p)) = NumBlocks(p)
<1> SUFFICES ASSUME NEW p \in Piece
             PROVE  Cardinality(BlocksOf(p)) = NumBlocks(p)
  OBVIOUS
<1> DEFINE n == NumBlocks(p)
           places == 0..(n - 1)
<1>1. n \in Nat \ {0}
  BY BlockFacts
<1> HIDE DEF n
<1>2. IsFiniteSet(places) /\ Cardinality(places) = n
  BY <1>1, FS_Interval
<1>3. IsFiniteSet({p}) /\ Cardinality({p}) = 1
  BY FS_Singleton
<1>4. BlocksOf(p) = {p} \X places
  BY DEF BlocksOf, n
<1> HIDE DEF places
<1>5. Cardinality({p} \X places) = Cardinality({p}) * Cardinality(places)
  BY <1>2, <1>3, FS_Product
<1> QED BY <1>1, <1>2, <1>3, <1>4, <1>5 DEF n

\* The count says whether the block that arrives is the last one missing.
LEMMA FullMeansAll ==
  ASSUME PMInv, NEW b \in Block
  PROVE  CountWith(b) = NumBlocks(b[1]) <=> BlocksOf(b[1]) \subseteq downloaded \cup {b}
<1> DEFINE p == b[1]
           before == downloaded \cap BlocksOf(p)
           after == (downloaded \cup {b}) \cap BlocksOf(p)
<1>1. p \in Piece /\ b \in BlocksOf(p) /\ IsFiniteSet(BlocksOf(p))
  BY BlockFacts
<1>2. Cardinality(BlocksOf(p)) = NumBlocks(p)
  BY <1>1, BlockCount
<1>3. downloaded_count[p] = Cardinality(before)
  BY <1>1 DEF PMInv, BlockCountExact
<1>4. /\ after = before \cup {b}
      /\ b \in before <=> b \in downloaded
  BY <1>1
<1>5. IsFiniteSet(before) /\ IsFiniteSet(after)
  BY <1>1, FS_Subset
<1> HIDE DEF before, after, p
<1>6. Cardinality(before \cup {b}) =
        IF b \in before THEN Cardinality(before) ELSE Cardinality(before) + 1
  BY <1>5, FS_AddElement
<1>7. CountWith(b) = Cardinality(after)
  BY <1>3, <1>4, <1>6 DEF CountWith, p
<1>8. after \subseteq BlocksOf(p)
  BY DEF after
<1>9. Cardinality(after) = Cardinality(BlocksOf(p)) <=> after = BlocksOf(p)
  BY <1>1, <1>8, FS_Subset
<1>10. after = BlocksOf(p) <=> BlocksOf(p) \subseteq downloaded \cup {b}
  BY DEF after
<1> QED BY <1>2, <1>7, <1>9, <1>10 DEF p

\* When every block is whole one that is on disk stays there.
LEMMA WrittenFacts ==
  ASSUME WholeBlocks, NetTypeOK, NEW c \in Peer, NEW b \in Block,
         NEW data \in BlockData, Arrives(c, b, data)
  PROVE  \A d \in Block : disk[d] \in {"good", "bad"} \/ d = b => disk'[d] \in {"good", "bad"}
<1>1. disk \in [Block -> DiskState]
  BY DEF NetTypeOK
<1>2. data # "part" /\ WriteBlock(b, data)
  BY DEF Arrives, PieceArrives
<1> QED BY <1>1, <1>2 DEF WriteBlock, AfterOverrun

\* A block that arrives is kept while others are missing; the last one settles
\* its piece, because the files reach to its end.
LEMMA LastBlockSettles ==
  ASSUME WholeBlocks, PMInv, NetTypeOK, OnDisk, NEW c \in Peer, NEW b \in Block,
         NEW data \in BlockData,
         Arrives(c, b, data)
  PROVE  \/ UNCHANGED pmVars
         \/ /\ SetDownloaded(b)
            /\ ~(BlocksOf(b[1]) \subseteq downloaded \cup {b})
         \/ /\ Queued(b[1])
            /\ mark_complete(b[1]) \/ reset_piece(b[1])
            /\ DropPieceState(b[1])
<1> DEFINE verdict == verify_piece(b[1], disk')
<1>1. BlockReceived(b, verdict)
  BY DEF Arrives, PieceArrives
<1>2. b[1] \in Piece
  BY BlockFacts
<1>3. CASE CountWith(b) = NumBlocks(b[1])
  <2> DEFINE last == LastOf(b[1])
  <2>1. BlocksOf(b[1]) \subseteq downloaded \cup {b}
    BY <1>3, FullMeansAll
  <2>2. last \in BlocksOf(b[1])
    <3>1. NumBlocks(b[1]) \in Nat \ {0}
      BY <1>2, BlockFacts
    <3> QED BY <3>1 DEF BlocksOf, LastOf
  <2>3. last \in Block
    BY <1>2, <2>2, BlockFacts
  <2>4. disk'[last] \in {"good", "bad"}
    BY <2>1, <2>2, <2>3, WrittenFacts DEF OnDisk
  <2>5. verdict # "error"
    BY <2>4 DEF verify_piece, EndsInside
  <2>6. Queued(b[1]) => piece_status[b[1]] # "Complete"
    BY <1>2 DEF PMInv, QueueIsDownloading
  <2> HIDE DEF verdict
  <2> QED BY <1>1, <1>3, <2>5, <2>6 DEF BlockReceived, mark_complete, reset_piece
<1>4. CASE CountWith(b) # NumBlocks(b[1])
  <2>1. ~(BlocksOf(b[1]) \subseteq downloaded \cup {b})
    BY <1>4, FullMeansAll
  <2> HIDE DEF verdict
  <2> QED BY <1>1, <1>4, <2>1 DEF BlockReceived
<1> QED BY <1>3, <1>4

\* What is downloaded stays on disk.
LEMMA OnDiskStep ==
  ASSUME WholeBlocks, PMInv, DMTypeOK, TickScoped, OnDisk, [Next]_vars
  PROVE  OnDisk'
<1>1. NetTypeOK /\ downloaded \subseteq Block
  BY DEF DMTypeOK, PMInv, PMTypeOK
<1>2. CASE UNCHANGED <<downloaded, disk>>
  BY <1>2 DEF OnDisk
<1>3. ASSUME NEW c \in Peer, NEW b \in Block, NEW data \in BlockData, Arrives(c, b, data)
      PROVE  OnDisk'
  <2>1. \A d \in Block : disk[d] \in {"good", "bad"} \/ d = b => disk'[d] \in {"good", "bad"}
    BY <1>1, <1>3, WrittenFacts
  <2>2. downloaded' \subseteq downloaded \cup {b}
    BY <1>1, <1>3, LastBlockSettles DEF pmVars, SetDownloaded, DropPieceState
  <2> QED BY <1>1, <2>1, <2>2 DEF OnDisk
<1>4. CASE Restart
  BY <1>4 DEF Restart, verify_existing_pieces, OnDisk
<1>5. CASE \E p \in Piece : start_downloading(p, FALSE) /\ UNCHANGED disk
  BY <1>2, <1>5 DEF start_downloading
<1>6. ASSUME NEW c \in Peer, NEW b \in Block, AsksFor(c, b), UNCHANGED disk
      PROVE  OnDisk'
  BY <1>2, <1>6 DEF AsksFor, RequestBlock, start_downloading
<1> QED BY <1>2, <1>3, <1>4, <1>5, <1>6, RequestSteps DEF Quiet, pmVars

\* No step leaves a full piece without a verdict.
LEMMA NoLimboStep ==
  ASSUME WholeBlocks, PMInv, DMTypeOK, TickScoped, OnDisk, NoLimbo, [Next]_vars
  PROVE  NoLimbo'
<1> SUFFICES ASSUME NEW p \in Piece, piece_status'[p] = "Downloading",
                    BlocksOf(p) \subseteq downloaded'
             PROVE  FALSE
  BY DEF NoLimbo, WithStatus
<1>1. /\ NetTypeOK
      /\ downloaded \subseteq Block
      /\ piece_status \in [Piece -> Status]
      /\ <<p, 0>> \in BlocksOf(p)
      /\ \A b \in BlocksOf(p) : b \in Block /\ b[1] = p
  BY BlockFacts DEF DMTypeOK, PMInv, PMTypeOK
<1>2. ~(piece_status[p] = "Downloading" /\ BlocksOf(p) \subseteq downloaded)
  BY DEF NoLimbo, WithStatus
<1>3. CASE UNCHANGED <<piece_status, downloaded>>
  BY <1>2, <1>3
<1>4. ASSUME NEW q \in Piece, NEW sent, start_downloading(q, sent)
      PROVE  FALSE
  <2>1. /\ piece_status[q] = "Missing"
        /\ piece_status' = [piece_status EXCEPT ![q] = "Downloading"]
        /\ downloaded' = downloaded
    BY <1>4 DEF start_downloading
  <2>2. CASE q = p
    <3>1. <<p, 0>> \in downloaded
      BY <1>1, <2>1
    <3>2. Queued(p)
      BY <1>1, <3>1 DEF PMInv, FlagsOnlyInQueue
    <3> QED BY <2>1, <2>2, <3>2 DEF PMInv, QueueIsDownloading
  <2>3. CASE q # p
    BY <1>1, <1>2, <2>1, <2>3
  <2> QED BY <2>2, <2>3
<1>5. ASSUME NEW c \in Peer, NEW b \in Block, NEW data \in BlockData, Arrives(c, b, data)
      PROVE  FALSE
  <2>1. b[1] \in Piece
    BY BlockFacts
  <2>2. CASE SetDownloaded(b) /\ ~(BlocksOf(b[1]) \subseteq downloaded \cup {b})
    <3>1. UNCHANGED piece_status /\ downloaded' = downloaded \cup {b}
      BY <2>2 DEF SetDownloaded
    <3>2. b[1] # p
      BY <2>2, <3>1
    <3>3. BlocksOf(p) \subseteq downloaded
      BY <1>1, <3>1, <3>2
    <3> QED BY <1>2, <3>1, <3>3
  <2>3. CASE /\ Queued(b[1])
             /\ mark_complete(b[1]) \/ reset_piece(b[1])
             /\ DropPieceState(b[1])
    <3>1. \/ piece_status' = [piece_status EXCEPT ![b[1]] = "Complete"]
          \/ piece_status' = [piece_status EXCEPT ![b[1]] = "Missing"]
      <4>1. piece_status[b[1]] # "Complete"
        BY <2>1, <2>3 DEF PMInv, QueueIsDownloading
      <4> QED BY <2>3, <4>1 DEF mark_complete, reset_piece
    <3>2. b[1] # p
      BY <1>1, <2>1, <3>1
    <3>3. piece_status[p] = "Downloading"
      BY <1>1, <3>1, <3>2
    <3>4. downloaded' \subseteq downloaded
      BY <2>3 DEF DropPieceState
    <3> QED BY <1>2, <3>3, <3>4
  <2> QED BY <1>1, <1>3, <1>5, <2>2, <2>3, LastBlockSettles DEF pmVars
<1>6. CASE Restart
  BY <1>6 DEF Restart, verify_existing_pieces
<1>7. ASSUME NEW c \in Peer, NEW b \in Block, AsksFor(c, b)
      PROVE  FALSE
  BY <1>3, <1>4, <1>7 DEF AsksFor, RequestBlock
<1> QED BY <1>3, <1>4, <1>5, <1>6, <1>7, RequestSteps DEF Quiet, pmVars

\* While no answer is shorter than what was asked and no write fails, a piece
\* whose blocks have all arrived is settled by the handler of the last one: wrong
\* and overlong data, repeats, chokes, lost connections and crashes do not keep it
\* from a verdict.
THEOREM FullPiecesSettle ==
  ASSUME WholeBlocks
  PROVE  Spec => []NoLimbo
<1>1. Init => OnDisk /\ NoLimbo
  BY DEF Init, Start, OnDisk, NoLimbo, WithStatus
<1>2. /\ PMInv /\ DMTypeOK /\ TickScoped /\ OnDisk /\ NoLimbo /\ [Next]_vars
      => (OnDisk /\ NoLimbo)'
  BY OnDiskStep, NoLimboStep
<1> QED BY <1>1, <1>2, ManagerTypeCorrect, ManagerKeepsPieces, PTL DEF Spec

\* The arrival of a block leaves a full piece Downloading only when its last block
\* is not right on disk.
LEMMA ArrivalCutsLimbo ==
  ASSUME PMInv, NetTypeOK, LimboIsCut, NEW c \in Peer, NEW b \in Block,
         NEW data \in BlockData, Arrives(c, b, data),
         NEW p \in Piece, piece_status'[p] = "Downloading", BlocksOf(p) \subseteq downloaded'
  PROVE  disk'[LastOf(p)] # "good"
<1> DEFINE verdict == verify_piece(b[1], disk')
<1>1. BlockReceived(b, verdict) /\ WriteBlock(b, data)
  BY DEF Arrives, PieceArrives
<1>2. /\ piece_status \in [Piece -> Status]
      /\ b[1] \in Piece
      /\ \A d \in BlocksOf(p) : d[1] = p
      /\ LastOf(p) \in Block /\ LastOf(p)[1] = p
  <2>1. NumBlocks(p) \in Nat \ {0}
    BY BlockFacts
  <2>2. LastOf(p) \in BlocksOf(p)
    BY <2>1 DEF LastOf, BlocksOf
  <2> QED BY <2>2, BlockFacts DEF PMInv, PMTypeOK
<1>3. disk'[LastOf(p)] = "good" => disk[LastOf(p)] = "good" \/ LastOf(p) = b
  BY <1>1, <1>2, WriteBlockFacts
<1>4. CASE b[1] = p /\ Queued(p)
  <2>1. verdict = "error"
    <3>1. piece_status[p] # "Complete"
      BY <1>4 DEF PMInv, QueueIsDownloading
    <3>2. ~mark_complete(p) /\ ~reset_piece(p)
      BY <1>2, <3>1 DEF mark_complete, reset_piece
    <3>3. SetDownloaded(b) => BlocksOf(b[1]) \subseteq downloaded \cup {b}
      BY <1>4 DEF SetDownloaded
    <3>4. SetDownloaded(b) => CountWith(b) = NumBlocks(b[1])
      BY <3>3, FullMeansAll
    <3> HIDE DEF verdict
    <3> QED BY <1>1, <1>4, <3>2, <3>4 DEF BlockReceived
  <2>2. EndsInside(p, disk')
    BY <1>4, <2>1 DEF verify_piece
  <2> QED BY <2>2 DEF EndsInside
<1>5. CASE ~(b[1] = p /\ Queued(p))
  <2>1. piece_status[p] = "Downloading" /\ BlocksOf(p) \subseteq downloaded
    <3>1. CASE UNCHANGED pmVars
      BY <3>1 DEF pmVars
    <3>2. CASE Queued(b[1]) /\ SetDownloaded(b)
      BY <1>2, <1>5, <3>2 DEF SetDownloaded
    <3>3. CASE Queued(b[1]) /\ (mark_complete(b[1]) \/ reset_piece(b[1]))
      <4>1. b[1] # p /\ piece_status[b[1]] # "Complete"
        BY <1>2, <1>5, <3>3 DEF PMInv, QueueIsDownloading
      <4>2. /\ DropPieceState(b[1])
            /\ \/ piece_status' = [piece_status EXCEPT ![b[1]] = "Complete"]
               \/ piece_status' = [piece_status EXCEPT ![b[1]] = "Missing"]
        BY <3>3, <4>1 DEF mark_complete, reset_piece
      <4> QED BY <1>2, <4>1, <4>2 DEF DropPieceState
    <3> HIDE DEF verdict
    <3> QED BY <1>1, <3>1, <3>2, <3>3 DEF BlockReceived
  <2>2. disk[LastOf(p)] # "good"
    BY <2>1 DEF LimboIsCut, WithStatus
  <2>3. LastOf(p) # b
    <3>1. Queued(p)
      BY <2>1 DEF PMInv, QueueIsDownloading
    <3> QED BY <1>2, <1>5, <3>1
  <2> QED BY <1>3, <2>2, <2>3
<1> QED BY <1>4, <1>5

\* No step puts a piece that is right to its end in limbo.
LEMMA LimboIsCutStep ==
  ASSUME PMInv, DMTypeOK, TickScoped, LimboIsCut, [Next]_vars
  PROVE  LimboIsCut'
<1> SUFFICES ASSUME NEW p \in Piece, piece_status'[p] = "Downloading",
                    BlocksOf(p) \subseteq downloaded'
             PROVE  disk'[LastOf(p)] # "good"
  BY DEF LimboIsCut, WithStatus
<1>1. /\ NetTypeOK
      /\ piece_status \in [Piece -> Status]
      /\ <<p, 0>> \in BlocksOf(p) /\ <<p, 0>>[1] = p
  BY BlockFacts DEF DMTypeOK, PMInv, PMTypeOK
<1>2. CASE UNCHANGED <<piece_status, downloaded, disk>>
  BY <1>2 DEF LimboIsCut, WithStatus
<1>3. ASSUME NEW q \in Piece, NEW sent, start_downloading(q, sent), UNCHANGED disk
      PROVE  disk'[LastOf(p)] # "good"
  <2>1. /\ piece_status[q] = "Missing"
        /\ piece_status' = [piece_status EXCEPT ![q] = "Downloading"]
        /\ downloaded' = downloaded
    BY <1>3 DEF start_downloading
  <2>2. piece_status[p] = "Downloading"
    BY <1>1, <2>1 DEF PMInv, FlagsOnlyInQueue, QueueIsDownloading
  <2> QED BY <1>3, <2>1, <2>2 DEF LimboIsCut, WithStatus
<1>4. CASE Restart
  BY <1>4 DEF Restart, verify_existing_pieces
<1>5. ASSUME NEW c \in Peer, NEW b \in Block, AsksFor(c, b), UNCHANGED disk
      PROVE  disk'[LastOf(p)] # "good"
  BY <1>2, <1>3, <1>5 DEF AsksFor, RequestBlock
<1> QED BY <1>1, <1>2, <1>3, <1>4, <1>5, ArrivalCutsLimbo, RequestSteps DEF Quiet, pmVars

\* Whatever the peers, the disk and the network do, a piece whose blocks have all
\* arrived waits without a verdict only while its last block is not right on disk.
THEOREM LimboOnlyWhenCut == Spec => []LimboIsCut
<1>1. Init => LimboIsCut
  BY DEF Init, Start, LimboIsCut, WithStatus
<1>2. PMInv /\ DMTypeOK /\ TickScoped /\ LimboIsCut /\ [Next]_vars => LimboIsCut'
  BY LimboIsCutStep
<1> QED BY <1>1, <1>2, ManagerTypeCorrect, ManagerKeepsPieces, PTL DEF Spec

-----------------------------------------------------------------------------
(* Requests are counted, remembered and made once.                           *)

InflightLimited == \A c \in Peer : inflight_requests[c] <= MaxInflight

\* Every block that is downloaded is right on disk.
GoodOnDisk == \A b \in downloaded : disk[b] = "good"

\* A block asked of a peer is still flagged, unless its piece is complete.
AsksFlagged ==
    \A c \in Peer : \A b \in requested_blocks[c] :
        \/ piece_status[b[1]] = "Complete"
        \/ piece_status[b[1]] = "Downloading" /\ b \in requested

\* A peer owes no block twice, and none that is not remembered.
OwedOnce ==
    \A c \in Peer : \A b \in Block :
        owed[c][b] <= 1 /\ (owed[c][b] > 0 => b \in requested_blocks[c])

\* No more is counted than what is remembered.
CountedOnce ==
    \A c \in Peer : /\ IsFiniteSet(requested_blocks[c])
                    /\ inflight_requests[c] <= Cardinality(requested_blocks[c])

\* The inductive invariant of the pipeline.
PipelineInv == GoodOnDisk /\ AsksFlagged /\ OwedOnce /\ CountedOnce

\* What is owed after one count is replaced.
LEMMA OwedAt ==
  ASSUME owed \in [Peer -> [Block -> Nat]], NEW c \in Peer, NEW b \in Block, NEW n \in Nat,
         owed' = [owed EXCEPT ![c][b] = n]
  PROVE  \A d \in Peer : \A e \in Block :
            owed'[d][e] = IF d = c /\ e = b THEN n ELSE owed[d][e]
OBVIOUS

\* What the arrival of a block does to the requests of its sender, and of the
\* others.
LEMMA ArrivalAnswers ==
  ASSUME DMTypeOK, NEW c \in Peer, NEW b \in Block, NEW data,
         Arrives(c, b, data)
  PROVE  /\ \A d \in Peer \ {c} : /\ inflight_requests'[d] = inflight_requests[d]
                                  /\ requested_blocks'[d] = requested_blocks[d]
         /\ inflight_requests'[c] = IF inflight_requests[c] = 0 THEN 0 ELSE inflight_requests[c] - 1
         /\ requested_blocks'[c] = requested_blocks[c] \ {b}
         /\ \A d \in Peer : \A e \in Block :
               owed'[d][e] = IF d = c /\ e = b
                             THEN IF owed[c][b] = 0 THEN 0 ELSE owed[c][b] - 1
                             ELSE owed[d][e]
<1>1. /\ inflight_requests \in [Peer -> Nat]
      /\ requested_blocks \in [Peer -> SUBSET Block]
      /\ owed \in [Peer -> [Block -> Nat]]
  BY DEF DMTypeOK, PeerTypeOK, NetTypeOK
<1>2. /\ inflight_requests' = [inflight_requests EXCEPT ![c] = IF @ = 0 THEN 0 ELSE @ - 1]
      /\ requested_blocks' = [requested_blocks EXCEPT ![c] = @ \ {b}]
      /\ owed' = [owed EXCEPT ![c][b] = IF @ = 0 THEN 0 ELSE @ - 1]
  BY DEF Arrives, PieceArrives
<1> DEFINE n == IF owed[c][b] = 0 THEN 0 ELSE owed[c][b] - 1
<1>3. n \in Nat /\ owed' = [owed EXCEPT ![c][b] = n]
  <2>1. owed[c][b] \in Nat
    BY <1>1
  <2>2. n \in Nat
    BY <2>1
  <2> QED BY <1>2, <2>2
<1>4. \A d \in Peer : \A e \in Block :
         owed'[d][e] = IF d = c /\ e = b THEN n ELSE owed[d][e]
  <2> HIDE DEF n
  <2> QED BY <1>1, <1>3, OwedAt
<1> QED BY <1>1, <1>2, <1>4

\* What a Request does to the requests of the peer it is sent to, and of the
\* others.
LEMMA RequestCounts ==
  ASSUME DMTypeOK, NEW c \in Peer, NEW b \in Block, AsksFor(c, b)
  PROVE  /\ \A d \in Peer \ {c} : /\ inflight_requests'[d] = inflight_requests[d]
                                  /\ requested_blocks'[d] = requested_blocks[d]
         /\ inflight_requests'[c] = inflight_requests[c] + 1
         /\ inflight_requests[c] < MaxInflight
         /\ requested_blocks'[c] = requested_blocks[c] \cup {b}
         /\ \A d \in Peer : \A e \in Block :
               owed'[d][e] = IF d = c /\ e = b /\ stream[c] = "open"
                             THEN owed[c][b] + 1 ELSE owed[d][e]
<1>1. /\ inflight_requests \in [Peer -> Nat]
      /\ requested_blocks \in [Peer -> SUBSET Block]
      /\ owed \in [Peer -> [Block -> Nat]]
  BY DEF DMTypeOK, PeerTypeOK, NetTypeOK
<1>2. /\ inflight_requests' = [inflight_requests EXCEPT ![c] = @ + 1]
      /\ requested_blocks' = [requested_blocks EXCEPT ![c] = @ \cup {b}]
      /\ owed' = IF stream[c] = "open" THEN [owed EXCEPT ![c][b] = @ + 1] ELSE owed
      /\ inflight_requests[c] < MaxInflight
  BY DEF AsksFor, Asked, MayRequest
<1>3. CASE stream[c] = "open"
  <2> DEFINE n == owed[c][b] + 1
  <2>1. n \in Nat /\ owed' = [owed EXCEPT ![c][b] = n]
    BY <1>1, <1>2, <1>3
  <2>2. \A d \in Peer : \A e \in Block :
           owed'[d][e] = IF d = c /\ e = b THEN n ELSE owed[d][e]
    <3> HIDE DEF n
    <3> QED BY <1>1, <2>1, OwedAt
  <2> QED BY <1>1, <1>2, <1>3, <2>2
<1>4. CASE stream[c] # "open"
  BY <1>1, <1>2, <1>4
<1> QED BY <1>3, <1>4

\* No counter of requests passes the limit.
LEMMA InflightStep ==
  ASSUME DMTypeOK, TickScoped, InflightLimited, [Next]_vars
  PROVE  InflightLimited'
<1>1. inflight_requests \in [Peer -> Nat] /\ MaxInflight \in Nat
  BY ManagerAssumption DEF DMTypeOK, PeerTypeOK
<1>2. CASE UNCHANGED inflight_requests
  BY <1>2 DEF InflightLimited
<1>3. ASSUME NEW c \in Peer, NEW b \in Block, NEW data,
             Arrives(c, b, data)
      PROVE  InflightLimited'
  BY <1>1, <1>3, ArrivalAnswers DEF InflightLimited
<1>4. ASSUME NEW c \in Peer, NEW b \in Block, AsksFor(c, b)
      PROVE  InflightLimited'
  BY <1>1, <1>4, RequestCounts DEF InflightLimited
<1>5. ASSUME NEW c \in Peer, Drops(c)
      PROVE  InflightLimited'
  BY <1>1, <1>5 DEF InflightLimited, Drops
<1>6. CASE Restart
  BY <1>1, <1>6 DEF InflightLimited, Restart
<1> QED BY <1>2, <1>3, <1>4, <1>5, <1>6, RequestSteps DEF Quiet, reqVars, Forgets

\* The first bound of PipelineBounded needs no condition: however peers choke,
\* repeat, fail or send unasked, no counter of requests passes MaxInflight.
THEOREM InflightStaysLimited == Spec => []InflightLimited
<1>1. Init => InflightLimited
  BY ManagerAssumption DEF Init, InflightLimited
<1>2. DMTypeOK /\ TickScoped /\ InflightLimited /\ [Next]_vars => InflightLimited'
  BY InflightStep
<1> QED BY <1>1, <1>2, ManagerTypeCorrect, PTL DEF Spec

\* While nothing spoils a piece the last block completes it.
LEMMA LastBlockCompletes ==
  ASSUME NothingSpoilt, PMInv, NetTypeOK, GoodOnDisk, NEW c \in Peer, NEW b \in Block,
         NEW data \in BlockData,
         Arrives(c, b, data)
  PROVE  /\ \A d \in Block : disk[d] = "good" \/ d = b => disk'[d] = "good"
         /\ \/ UNCHANGED pmVars
            \/ SetDownloaded(b)
            \/ /\ Queued(b[1])
               /\ piece_status' = [piece_status EXCEPT ![b[1]] = "Complete"]
               /\ DropPieceState(b[1])
<1> DEFINE verdict == verify_piece(b[1], disk')
<1>1. BlockReceived(b, verdict)
  BY DEF Arrives, PieceArrives
<1>2. b[1] \in Piece /\ \A d \in BlocksOf(b[1]) : d \in Block
  BY BlockFacts
<1>3. disk \in [Block -> DiskState] /\ disk' = [disk EXCEPT ![b] = "good"]
  BY DEF Arrives, PieceArrives, WriteBlock, NetTypeOK
<1>4. \A d \in Block : disk[d] = "good" \/ d = b => disk'[d] = "good"
  BY <1>3
<1>5. CountWith(b) = NumBlocks(b[1]) => verdict = "ok"
  <2> SUFFICES ASSUME CountWith(b) = NumBlocks(b[1]), NEW d \in BlocksOf(b[1])
               PROVE  disk'[d] = "good"
    BY DEF verify_piece
  <2>1. d \in downloaded \cup {b}
    BY FullMeansAll
  <2> QED BY <1>2, <1>4, <2>1 DEF GoodOnDisk
<1>6. Queued(b[1]) => piece_status[b[1]] # "Complete"
  BY <1>2 DEF PMInv, QueueIsDownloading
<1> HIDE DEF verdict
<1>7. \/ UNCHANGED pmVars
      \/ SetDownloaded(b)
      \/ Queued(b[1]) /\ mark_complete(b[1])
  BY <1>1, <1>5 DEF BlockReceived
<1> QED BY <1>4, <1>6, <1>7 DEF mark_complete

\* What is on disk stays good.
LEMMA GoodOnDiskStep ==
  ASSUME NothingSpoilt, PMInv, DMTypeOK, TickScoped, GoodOnDisk, [Next]_vars
  PROVE  GoodOnDisk'
<1>1. NetTypeOK /\ downloaded \subseteq Block
  BY DEF DMTypeOK, PMInv, PMTypeOK
<1>2. CASE UNCHANGED <<downloaded, disk>>
  BY <1>2 DEF GoodOnDisk
<1>3. ASSUME NEW c \in Peer, NEW b \in Block, NEW data \in BlockData, Arrives(c, b, data)
      PROVE  GoodOnDisk'
  <2>1. \A d \in Block : disk[d] = "good" \/ d = b => disk'[d] = "good"
    BY <1>1, <1>3, LastBlockCompletes
  <2>2. downloaded' \subseteq downloaded \cup {b}
    BY <1>1, <1>3, LastBlockCompletes DEF pmVars, SetDownloaded, DropPieceState
  <2> QED BY <1>1, <2>1, <2>2 DEF GoodOnDisk
<1>4. CASE Restart
  BY <1>4 DEF Restart, verify_existing_pieces, GoodOnDisk
<1>5. CASE \E p \in Piece : start_downloading(p, FALSE) /\ UNCHANGED disk
  BY <1>2, <1>5 DEF start_downloading
<1>6. ASSUME NEW c \in Peer, NEW b \in Block, AsksFor(c, b), UNCHANGED disk
      PROVE  GoodOnDisk'
  BY <1>2, <1>6 DEF AsksFor, RequestBlock, start_downloading
<1> QED BY <1>2, <1>3, <1>4, <1>5, <1>6, RequestSteps DEF Quiet, pmVars

\* What a peer was asked stays flagged until its piece is complete.
LEMMA AsksFlaggedStep ==
  ASSUME NothingSpoilt, PMInv, DMTypeOK, TickScoped, GoodOnDisk, AsksFlagged, [Next]_vars
  PROVE  AsksFlagged'
<1>1. /\ NetTypeOK
      /\ requested_blocks \in [Peer -> SUBSET Block]
      /\ piece_status \in [Piece -> Status]
      /\ \A b \in Block : b[1] \in Piece
  BY BlockFacts DEF DMTypeOK, PeerTypeOK, PMInv, PMTypeOK
<1>2. CASE UNCHANGED <<piece_status, requested, requested_blocks>>
  BY <1>2 DEF AsksFlagged
<1>3. ASSUME NEW p \in Piece, start_downloading(p, FALSE), UNCHANGED requested_blocks
      PROVE  AsksFlagged'
  BY <1>1, <1>3 DEF AsksFlagged, start_downloading
<1>4. ASSUME NEW c \in Peer, Drops(c), UNCHANGED pmVars
      PROVE  AsksFlagged'
  BY <1>1, <1>4 DEF AsksFlagged, Drops, pmVars
<1>5. ASSUME NEW c \in Peer, NEW b \in Block, NEW data \in BlockData, Arrives(c, b, data)
      PROVE  AsksFlagged'
  <2>1. \A d \in Peer : requested_blocks'[d] \subseteq requested_blocks[d]
    BY <1>5, ArrivalAnswers
  <2>2. CASE UNCHANGED <<piece_status, requested>>
    BY <2>1, <2>2 DEF AsksFlagged
  <2>3. CASE /\ Queued(b[1])
             /\ piece_status' = [piece_status EXCEPT ![b[1]] = "Complete"]
             /\ DropPieceState(b[1])
    <3>1. \A e \in Block : e[1] # b[1] => e \notin BlocksOf(b[1])
      BY <1>1, BlockFacts
    <3>2. ASSUME NEW d \in Peer, NEW e \in requested_blocks[d]
          PROVE  \/ piece_status'[e[1]] = "Complete"
                 \/ piece_status'[e[1]] = "Downloading" /\ e \in requested'
      <4>1. e \in Block /\ e[1] \in Piece
        BY <1>1, <3>2
      <4>2. \/ piece_status[e[1]] = "Complete"
            \/ piece_status[e[1]] = "Downloading" /\ e \in requested
        BY <3>2 DEF AsksFlagged
      <4>3. CASE e[1] = b[1]
        BY <1>1, <2>3, <4>1, <4>3
      <4>4. CASE e[1] # b[1]
        BY <1>1, <2>3, <3>1, <4>1, <4>2, <4>4 DEF DropPieceState
      <4> QED BY <4>3, <4>4
    <3> QED BY <2>1, <3>2 DEF AsksFlagged
  <2> QED BY <1>1, <1>5, <2>2, <2>3, LastBlockCompletes DEF pmVars, SetDownloaded
<1>6. ASSUME NEW c \in Peer, NEW b \in Block, AsksFor(c, b)
      PROVE  AsksFlagged'
  <2>1. \A d \in Peer : requested_blocks'[d] \subseteq requested_blocks[d] \cup {b}
    BY <1>6, RequestCounts
  <2>2. CASE RequestBlock(b)
    <3>1. UNCHANGED piece_status /\ requested' = requested \cup {b}
      BY <2>2 DEF RequestBlock
    <3>2. piece_status[b[1]] = "Downloading"
      BY <1>1, <2>2 DEF RequestBlock, PMInv, QueueIsDownloading
    <3> QED BY <2>1, <3>1, <3>2 DEF AsksFlagged
  <2>3. CASE b[1] \in Piece /\ b = <<b[1], 0>> /\ start_downloading(b[1], TRUE)
    <3>1. /\ piece_status[b[1]] = "Missing"
          /\ piece_status' = [piece_status EXCEPT ![b[1]] = "Downloading"]
          /\ requested' = requested \cup {b}
      BY <2>3 DEF start_downloading
    <3> QED BY <1>1, <2>1, <3>1 DEF AsksFlagged
  <2> QED BY <1>6, <2>2, <2>3 DEF AsksFor
<1>7. CASE Restart
  BY <1>7 DEF Restart, AsksFlagged
<1> QED BY <1>2, <1>3, <1>4, <1>5, <1>6, <1>7, RequestSteps DEF Quiet, pmVars, reqVars, Forgets

\* A block is asked of a peer only when the peer does not have it to answer yet.
LEMMA AsksForNew ==
  ASSUME AsksFlagged, NEW c \in Peer, NEW b \in Block, AsksFor(c, b)
  PROVE  b \notin requested_blocks[c]
BY DEF AsksFor, Eligible, AsksFlagged, start_downloading

\* No peer comes to owe a block twice.
LEMMA OwedOnceStep ==
  ASSUME DMTypeOK, TickScoped, AsksFlagged, OwedOnce, [Next]_vars
  PROVE  OwedOnce'
<1>1. /\ requested_blocks \in [Peer -> SUBSET Block]
      /\ owed \in [Peer -> [Block -> Nat]]
      /\ \A b \in Block : NothingOwed[b] = 0
  BY DEF DMTypeOK, PeerTypeOK, NetTypeOK, NothingOwed
<1>2. CASE UNCHANGED reqVars
  BY <1>2 DEF OwedOnce, reqVars
<1>3. ASSUME NEW c \in Peer, Forgets(c) \/ Drops(c)
      PROVE  OwedOnce'
  <2>1. \A d \in Peer : \A e \in Block :
           owed'[d][e] = IF d = c THEN 0 ELSE owed[d][e]
    BY <1>1, <1>3 DEF Forgets, Drops
  <2>2. \A d \in Peer \ {c} : requested_blocks'[d] = requested_blocks[d]
    BY <1>1, <1>3 DEF Forgets, Drops
  <2> QED BY <2>1, <2>2 DEF OwedOnce
<1>4. ASSUME NEW c \in Peer, NEW b \in Block, NEW data,
             Arrives(c, b, data)
      PROVE  OwedOnce'
  <2>1. ASSUME NEW d \in Peer, NEW e \in Block
        PROVE  owed'[d][e] <= 1 /\ (owed'[d][e] > 0 => e \in requested_blocks'[d])
    <3>1. /\ owed[d][e] \in Nat /\ owed[d][e] <= 1
          /\ owed[d][e] > 0 => e \in requested_blocks[d]
      BY <1>1 DEF OwedOnce
    <3>2. CASE d = c /\ e = b
      <4>1. owed'[d][e] = 0
        BY <1>4, <3>1, <3>2, ArrivalAnswers
      <4> QED BY <4>1
    <3>3. CASE ~(d = c /\ e = b)
      <4>1. owed'[d][e] = owed[d][e]
        BY <1>4, <3>3, ArrivalAnswers
      <4>2. e \in requested_blocks[d] => e \in requested_blocks'[d]
        BY <1>4, <3>3, ArrivalAnswers
      <4> QED BY <3>1, <4>1, <4>2
    <3> QED BY <3>2, <3>3
  <2> QED BY <2>1 DEF OwedOnce
<1>5. ASSUME NEW c \in Peer, NEW b \in Block, AsksFor(c, b)
      PROVE  OwedOnce'
  <2>1. ASSUME NEW d \in Peer, NEW e \in Block
        PROVE  owed'[d][e] <= 1 /\ (owed'[d][e] > 0 => e \in requested_blocks'[d])
    <3>1. /\ owed[d][e] \in Nat /\ owed[d][e] <= 1
          /\ owed[d][e] > 0 => e \in requested_blocks[d]
      BY <1>1 DEF OwedOnce
    <3>2. \A x \in requested_blocks[d] : x \in requested_blocks'[d]
      BY <1>5, RequestCounts
    <3>3. CASE d = c /\ e = b
      <4>1. owed[d][e] = 0
        BY <1>5, <3>1, <3>3, AsksForNew
      <4>2. owed'[d][e] <= 1 /\ e \in requested_blocks'[d]
        BY <1>5, <3>3, <4>1, RequestCounts
      <4> QED BY <4>2
    <3>4. CASE ~(d = c /\ e = b)
      <4>1. owed'[d][e] = owed[d][e]
        BY <1>5, <3>4, RequestCounts
      <4> QED BY <3>1, <3>2, <4>1
    <3> QED BY <3>3, <3>4
  <2> QED BY <2>1 DEF OwedOnce
<1>6. CASE Restart
  BY <1>1, <1>6 DEF Restart, OwedOnce
<1> QED BY <1>2, <1>3, <1>4, <1>5, <1>6, RequestSteps DEF Quiet

\* No more comes to be counted than what is remembered.
LEMMA CountedOnceStep ==
  ASSUME DMTypeOK, TickScoped, AsksFlagged, CountedOnce, [Next]_vars
  PROVE  CountedOnce'
<1>1. inflight_requests \in [Peer -> Nat] /\ requested_blocks \in [Peer -> SUBSET Block]
  BY DEF DMTypeOK, PeerTypeOK
<1>2. CASE UNCHANGED <<inflight_requests, requested_blocks>>
  BY <1>2 DEF CountedOnce
<1>3. ASSUME NEW c \in Peer,
             \A d \in Peer \ {c} : /\ inflight_requests'[d] = inflight_requests[d]
                                   /\ requested_blocks'[d] = requested_blocks[d],
             /\ IsFiniteSet(requested_blocks'[c])
             /\ inflight_requests'[c] <= Cardinality(requested_blocks'[c])
      PROVE  CountedOnce'
  BY <1>3 DEF CountedOnce
<1>4. ASSUME NEW c \in Peer, Drops(c)
      PROVE  CountedOnce'
  BY <1>1, <1>3, <1>4, FS_EmptySet DEF Drops
<1>5. ASSUME NEW c \in Peer, NEW b \in Block, NEW data,
             Arrives(c, b, data)
      PROVE  CountedOnce'
  <2> DEFINE r == requested_blocks[c]
             n == inflight_requests[c]
  <2>1. IsFiniteSet(r) /\ n \in Nat /\ n <= Cardinality(r)
    BY <1>1 DEF CountedOnce
  <2>2. /\ requested_blocks'[c] = r \ {b}
        /\ inflight_requests'[c] = IF n = 0 THEN 0 ELSE n - 1
    BY <1>5, ArrivalAnswers
  <2>3. \A d \in Peer \ {c} : /\ inflight_requests'[d] = inflight_requests[d]
                              /\ requested_blocks'[d] = requested_blocks[d]
    BY <1>5, ArrivalAnswers
  <2> HIDE DEF r, n
  <2>4. /\ IsFiniteSet(r \ {b})
        /\ Cardinality(r \ {b}) = IF b \in r THEN Cardinality(r) - 1 ELSE Cardinality(r)
    BY <2>1, FS_RemoveElement
  <2>5. Cardinality(r) \in Nat /\ Cardinality(r \ {b}) \in Nat
    BY <2>1, <2>4, FS_CardinalityType
  <2>6. inflight_requests'[c] <= Cardinality(requested_blocks'[c])
    BY <2>1, <2>2, <2>4, <2>5
  <2> QED BY <1>3, <2>2, <2>3, <2>4, <2>6
<1>6. ASSUME NEW c \in Peer, NEW b \in Block, AsksFor(c, b)
      PROVE  CountedOnce'
  <2> DEFINE r == requested_blocks[c]
             n == inflight_requests[c]
  <2>1. IsFiniteSet(r) /\ n \in Nat /\ n <= Cardinality(r) /\ b \notin r
    BY <1>1, <1>6, AsksForNew DEF CountedOnce
  <2>2. requested_blocks'[c] = r \cup {b} /\ inflight_requests'[c] = n + 1
    BY <1>6, RequestCounts
  <2>3. \A d \in Peer \ {c} : /\ inflight_requests'[d] = inflight_requests[d]
                              /\ requested_blocks'[d] = requested_blocks[d]
    BY <1>6, RequestCounts
  <2> HIDE DEF r, n
  <2>4. IsFiniteSet(r \cup {b}) /\ Cardinality(r \cup {b}) = Cardinality(r) + 1
    BY <2>1, FS_AddElement
  <2>5. Cardinality(r) \in Nat
    BY <2>1, FS_CardinalityType
  <2>6. inflight_requests'[c] <= Cardinality(requested_blocks'[c])
    BY <2>1, <2>2, <2>4, <2>5
  <2> QED BY <1>3, <2>2, <2>3, <2>4, <2>6
<1>7. CASE Restart
  BY <1>7, FS_EmptySet DEF Restart, CountedOnce
<1> QED BY <1>2, <1>4, <1>5, <1>6, <1>7, RequestSteps DEF Quiet, reqVars, Forgets

\* The parts together.
LEMMA PipelineHolds ==
  ASSUME NothingSpoilt
  PROVE  Spec => []PipelineInv
<1>1. Init => PipelineInv
  BY FS_EmptySet DEF Init, Start, NothingOwed, PipelineInv, GoodOnDisk, AsksFlagged,
                     OwedOnce, CountedOnce
<1>2. PMInv /\ DMTypeOK /\ TickScoped /\ PipelineInv /\ [Next]_vars => PipelineInv'
  BY GoodOnDiskStep, AsksFlaggedStep, OwedOnceStep, CountedOnceStep DEF PipelineInv
<1> QED BY <1>1, <1>2, ManagerTypeCorrect, ManagerKeepsPieces, PTL DEF Spec

\* While no piece is spoilt the pipeline of every peer is in order: the counter
\* stays within the limit and within what is remembered, and what is owed is
\* remembered, whatever is choked away, sent unasked or lost with a connection.
THEOREM PipelineStaysBounded ==
  ASSUME NothingSpoilt
  PROVE  Spec => []PipelineBounded
<1>1. InflightLimited /\ PipelineInv => PipelineBounded
  BY DEF InflightLimited, PipelineInv, CountedOnce, OwedOnce, PipelineBounded, Owed
<1> QED BY <1>1, InflightStaysLimited, PipelineHolds, PTL

\* A request in normal mode is for a block that nobody else owes.
LEMMA AsksOnceStep ==
  ASSUME PMInv, DMTypeOK, TickScoped, AsksFlagged, OwedOnce, [Next]_vars, ~endgame,
         NEW c \in Peer, NEW d \in Peer, c # d, NEW b \in Owed(d)
  PROVE  owed'[c][b] <= owed[c][b]
<1>1. /\ owed \in [Peer -> [Block -> Nat]]
      /\ b \in Block /\ owed[d][b] > 0
      /\ \A e \in Block : NothingOwed[e] = 0
  BY DEF DMTypeOK, NetTypeOK, Owed, NothingOwed
<1>2. owed[c][b] \in Nat
  BY <1>1
<1>3. CASE UNCHANGED owed
  BY <1>2, <1>3
<1>4. ASSUME NEW x \in Peer, Forgets(x) \/ Drops(x)
      PROVE  owed'[c][b] <= owed[c][b]
  BY <1>1, <1>2, <1>4 DEF Forgets, Drops
<1>5. ASSUME NEW x \in Peer, NEW e \in Block, NEW data,
             Arrives(x, e, data)
      PROVE  owed'[c][b] <= owed[c][b]
  BY <1>1, <1>2, <1>5, ArrivalAnswers
<1>6. ASSUME NEW x \in Peer, NEW e \in Block, AsksFor(x, e)
      PROVE  owed'[c][b] <= owed[c][b]
  <2>1. b \in requested_blocks[d]
    BY <1>1 DEF OwedOnce
  <2>2. \/ piece_status[b[1]] = "Complete"
        \/ piece_status[b[1]] = "Downloading" /\ b \in requested
    BY <2>1 DEF AsksFlagged
  <2>3. e # b
    <3>1. b[1] \in Piece
      BY <1>1, BlockFacts
    <3>2. CASE e \in Eligible(x) /\ RequestBlock(e)
      <4>1. e \notin requested /\ Queued(e[1])
        BY <3>2 DEF Eligible
      <4> QED BY <2>2, <3>1, <4>1 DEF PMInv, QueueIsDownloading
    <3>3. CASE start_downloading(e[1], TRUE)
      BY <2>2, <3>3 DEF start_downloading
    <3> QED BY <1>6, <3>2, <3>3 DEF AsksFor
  <2> QED BY <1>1, <1>2, <1>6, <2>3, RequestCounts
<1>7. CASE Restart
  BY <1>1, <1>2, <1>7 DEF Restart
<1> QED BY <1>3, <1>4, <1>5, <1>6, <1>7, RequestSteps DEF Quiet, reqVars

\* While no piece is spoilt, a tick that is not in endgame mode asks nobody for
\* a block that another peer still owes.
THEOREM NormalModeAsksOnlyOnce ==
  ASSUME NothingSpoilt
  PROVE  Spec => NormalModeAsksOnce
<1> DEFINE Once == ~endgame => \A c, d \in Peer :
                     c # d => \A b \in Owed(d) : owed'[c][b] <= owed[c][b]
<1>1. PMInv /\ DMTypeOK /\ TickScoped /\ PipelineInv /\ [Next]_vars => [Once]_vars
  BY AsksOnceStep DEF PipelineInv
<1>2. Spec => [][Once]_vars
  BY <1>1, ManagerTypeCorrect, ManagerKeepsPieces, PipelineHolds, PTL DEF Spec
<1> QED BY <1>2 DEF NormalModeAsksOnce

-----------------------------------------------------------------------------
(* Everything complete is announced.                                         *)

\* Whoever is connected was told of each complete piece, or will be when this
\* tick returns.
Announced ==
    \A c \in Peer : stream[c] = "open" =>
        WithStatus("Complete") \subseteq told[c] \cup completed_pieces

\* Only add_peer opens a connection.
LEMMA OnlyAddPeerOpens ==
  ASSUME NetTypeOK, [Next]_vars, \A c \in Peer : ~add_peer(c)
  PROVE  NothingOpens
<1>0. stream \in [Peer -> StreamState]
  BY DEF NetTypeOK
<1> USE DEF NothingOpens
<1>1. CASE UNCHANGED stream
  BY <1>1
<1>2. ASSUME NEW c, NEW ok, Sends(c, ok) PROVE NothingOpens
  BY <1>0, <1>2 DEF Sends
<1>3. CASE ReadError \/ BroadcastHave \/ RemoveDead \/ Restart
  BY <1>0, <1>3 DEF ReadError, BroadcastHave, RemoveDead, DropPeer, Restart
<1>4. CASE ManageChoking \/ ManageInterest
  BY <1>1, <1>2, <1>4 DEF ManageChoking, ManageInterest
<1>5. ASSUME NEW c \in Peer, ReadRequest(c) \/ PeerCloses(c) \/ PeerResets(c)
      PROVE  NothingOpens
  BY <1>0, <1>5 DEF ReadRequest, PeerCloses, PeerResets
<1>6. ASSUME NEW c \in Peer,
             RequestNothing(c) \/ RequestContinue(c) \/ RequestNew(c) \/ RequestFails(c)
      PROVE  NothingOpens
  BY <1>1, <1>2, <1>6 DEF RequestNothing, RequestContinue, RequestNew, RequestFails, SendsLater
<1>7. ASSUME NEW c \in Peer,
             \/ ReadChoke(c) \/ ReadUnchoke(c) \/ ReadHave(c) \/ ReadBitfield(c)
             \/ ReadInterested(c) \/ ReadPiece(c)
      PROVE  UNCHANGED stream
  BY <1>7 DEF ReadChoke, ReadUnchoke, ReadHave, ReadBitfield, SetHave, ReadInterested,
              ReadPiece, PieceArrives, netVars
<1>8. CASE TickBegin \/ ReadNothing \/ RemovePanics \/ UNCHANGED vars
  BY <1>1, <1>8 DEF TickBegin, ReadNothing, RemovePanics, vars, netVars
<1> QED BY <1>1, <1>3, <1>4, <1>5, <1>6, <1>7, <1>8 DEF Next, TickStep

\* A step that completes a piece puts it on tick's list; only the broadcast
\* empties that list, once everyone was told.
LEMMA AnnouncedStep ==
  ASSUME SocketsTake, PMInv, NetTypeOK, Announced, [Next]_vars
  PROVE  Announced'
<1> USE DEF Announced, WithStatus
<1>0. told \in [Peer -> SUBSET Piece] /\ stream \in [Peer -> StreamState]
  BY DEF NetTypeOK
<1>1. ASSUME NothingOpens, UNCHANGED told, completed_pieces \subseteq completed_pieces',
             \A p \in Piece : piece_status'[p] = "Complete" =>
                                 piece_status[p] = "Complete" \/ p \in completed_pieces'
      PROVE  Announced'
  BY <1>1 DEF NothingOpens
<1>2. ASSUME NothingOpens, UNCHANGED <<pmVars, told, completed_pieces>>
      PROVE  Announced'
  BY <1>1, <1>2 DEF pmVars
<1>3. ASSUME NEW c \in Peer, add_peer(c)
      PROVE  Announced'
  <2>1. UNCHANGED <<pmVars, completed_pieces>>
    BY <1>3 DEF add_peer, listVars
  <2>2. /\ told' = [told EXCEPT ![c] = WithStatus("Complete")]
        /\ stream' = [stream EXCEPT ![c] = "open"]
    BY <1>3 DEF add_peer, get_bitfield
  <2> QED BY <1>0, <2>1, <2>2 DEF pmVars
<1> SUFFICES ASSUME \A c \in Peer : ~add_peer(c)
             PROVE  Announced'
  BY <1>3
<1>4. NothingOpens
  BY OnlyAddPeerOpens
<1>5. CASE Restart
  BY <1>5 DEF Restart
<1>6. CASE RemoveDead
  <2> DEFINE c == peers[Last(peers_to_remove)]
  <2>1. UNCHANGED <<pmVars, completed_pieces>>
    BY <1>6 DEF RemoveDead
  <2>2. /\ told' = [told EXCEPT ![c] = {}]
        /\ stream' = [stream EXCEPT ![c] = "none"]
    BY <1>6 DEF RemoveDead, DropPeer
  <2> HIDE DEF c
  <2> QED BY <1>0, <2>1, <2>2 DEF pmVars
<1>7. CASE BroadcastHave
  <2>1. UNCHANGED pmVars
    BY <1>7 DEF BroadcastHave
  <2>2. \A c \in Peer : stream[c] = "open" => told'[c] = told[c] \cup completed_pieces
    BY <1>7 DEF BroadcastHave, Fault, SocketsTake
  <2> QED BY <1>4, <2>1, <2>2 DEF pmVars, NothingOpens
<1>8. ASSUME NEW c \in Peer, ReadPiece(c)
      PROVE  Announced'
  <2>0. PICK b \in Block : \E data \in BlockData :
          PieceArrives(c, b, data)
    BY <1>8, ReadPieceFacts
  <2>1. /\ BlockReceived(b, verify_piece(b[1], disk'))
        /\ completed_pieces' =
             IF piece_status'[b[1]] = "Complete" /\ piece_status[b[1]] # "Complete"
             THEN completed_pieces \cup {b[1]} ELSE completed_pieces
        /\ UNCHANGED told
    BY <2>0 DEF PieceArrives
  <2>2. \A p \in Piece : piece_status'[p] = "Complete" =>
                            piece_status[p] = "Complete" \/ p = b[1]
    BY <2>1, BlockReceivedFacts
  <2>3. completed_pieces \subseteq completed_pieces'
    BY <2>1
  <2>4. \A p \in Piece : piece_status'[p] = "Complete" =>
                            piece_status[p] = "Complete" \/ p \in completed_pieces'
    BY <2>1, <2>2
  <2> QED BY <1>1, <1>4, <2>1, <2>3, <2>4
<1>9. ASSUME NEW c \in Peer, RequestContinue(c) \/ RequestNew(c)
      PROVE  Announced'
  <2>1. UNCHANGED <<told, completed_pieces>>
    BY <1>9 DEF RequestContinue, RequestNew, Requesting, RequestFrame, listVars
  <2>2. \/ \E b \in Block : RequestBlock(b)
        \/ \E p \in Piece, sent \in BOOLEAN : start_downloading(p, sent)
    BY <1>9 DEF RequestContinue, RequestNew, Eligible
  <2>3. \A p \in Piece : piece_status'[p] = "Complete" => piece_status[p] = "Complete"
    BY <2>2 DEF RequestBlock, start_downloading, PMInv, PMTypeOK
  <2> QED BY <1>1, <1>4, <2>1, <2>3
<1>10. ASSUME NEW c \in Peer, RequestNothing(c) \/ RequestFails(c)
       PROVE  Announced'
  BY <1>2, <1>4, <1>10 DEF RequestNothing, RequestFails, Requesting, RequestFrame, listVars
<1>11. ASSUME NEW c \in Peer,
              \/ ReadChoke(c) \/ ReadUnchoke(c) \/ ReadHave(c) \/ ReadBitfield(c)
              \/ ReadRequest(c) \/ ReadInterested(c) \/ PeerCloses(c) \/ PeerResets(c)
       PROVE  Announced'
  BY <1>2, <1>4, <1>11 DEF ReadChoke, ReadUnchoke, ReadHave, ReadBitfield, SetHave,
              ReadRequest, ReadInterested, PeerCloses, PeerResets, listVars, netVars
<1>12. CASE TickBegin \/ ReadNothing \/ ReadError \/ ManageChoking \/ ManageInterest
            \/ RemovePanics \/ UNCHANGED vars
  BY <1>2, <1>4, <1>12 DEF TickBegin, ReadNothing, ReadError, ManageChoking, ManageInterest,
              RemovePanics, vars, listVars, netVars
<1> QED BY <1>5, <1>6, <1>7, <1>8, <1>9, <1>10, <1>11, <1>12 DEF Next, TickStep

\* While sockets take what is sent, every open peer was told between two ticks
\* of exactly the pieces we have, however its arrival and the completion of
\* pieces interleave.
THEOREM AdvertisesExactly ==
  ASSUME SocketsTake
  PROVE  Spec => []AdvertisedExactly
<1>1. Init => ToldInv /\ Announced
  BY DEF Init, ToldInv, NeverOveradvertised, Announced
<1>2. /\ PMInv /\ NetTypeOK /\ ToldInv /\ Announced /\ [Next]_vars
      => (ToldInv /\ Announced)'
  BY ToldStep, AnnouncedStep
<1>3. TickScoped /\ ToldInv /\ Announced => AdvertisedExactly
  BY DEF TickScoped, LoopScoped, ToldInv, NeverOveradvertised, Announced, AdvertisedExactly
<1>4. DMTypeOK => NetTypeOK
  BY DEF DMTypeOK
<1> QED BY <1>1, <1>2, <1>3, <1>4, ManagerTypeCorrect, ManagerKeepsPieces, PTL DEF Spec

-----------------------------------------------------------------------------
(* The counter of requests is exact.                                         *)

\* The inductive invariant: the property, and what a new connection starts with.
SlotsExactInv ==
    \A c \in Peer :
        /\ stream[c] = "open" => /\ IsFiniteSet(OwedRequests(c))
                                 /\ inflight_requests[c] = Cardinality(OwedRequests(c))
        /\ stream[c] = "none" => inflight_requests[c] = 0 /\ owed[c] = NothingOwed

\* The requests a peer owes, one by one.
LEMMA OwedRequestsAt ==
  ASSUME NEW c
  PROVE  /\ \A b, k : <<b, k>> \in OwedRequests(c) <=> b \in Block /\ k \in 1..owed[c][b]
         /\ \A r \in OwedRequests(c) : r = <<r[1], r[2]>>
BY DEF OwedRequests

\* A peer that owes nothing has no requests.
LEMMA NoRequestsOwed ==
  ASSUME NEW c, owed[c] = NothingOwed
  PROVE  OwedRequests(c) = {}
<1>1. \A b \in Block : 1..owed[c][b] = {}
  BY DEF NothingOwed
<1> QED BY <1>1 DEF OwedRequests

\* One request more, or one less, is owed.
LEMMA OneMoreOwed ==
  ASSUME NEW c, NEW b \in Block, \A e \in Block : owed[c][e] \in Nat,
         \A e \in Block : owed'[c][e] = IF e = b THEN owed[c][b] + 1 ELSE owed[c][e]
  PROVE  /\ OwedRequests(c)' = OwedRequests(c) \cup {<<b, owed[c][b] + 1>>}
         /\ <<b, owed[c][b] + 1>> \notin OwedRequests(c)
<1>1. \A e \in Block : owed[c][e] \in Nat /\
         1..owed'[c][e] = IF e = b THEN (1..owed[c][b]) \cup {owed[c][b] + 1} ELSE 1..owed[c][e]
  <2>1. \A n \in Nat : 1..(n + 1) = (1..n) \cup {n + 1}
    OBVIOUS
  <2>2. 1..owed'[c][b] = (1..owed[c][b]) \cup {owed[c][b] + 1}
    BY <2>1
  <2> QED BY <2>2
<1> QED BY <1>1 DEF OwedRequests

\* A block that arrives is one request less.
LEMMA OneLessOwed ==
  ASSUME NEW c, NEW b \in Block, \A e \in Block : owed[c][e] \in Nat, owed[c][b] > 0,
         \A e \in Block : owed'[c][e] = IF e = b THEN owed[c][b] - 1 ELSE owed[c][e]
  PROVE  /\ OwedRequests(c)' = OwedRequests(c) \ {<<b, owed[c][b]>>}
         /\ <<b, owed[c][b]>> \in OwedRequests(c)
<1>1. \A e \in Block : owed[c][e] \in Nat /\
         1..owed'[c][e] = IF e = b THEN (1..owed[c][b]) \ {owed[c][b]} ELSE 1..owed[c][e]
  <2>1. \A n \in Nat \ {0} : 1..(n - 1) = (1..n) \ {n}
    OBVIOUS
  <2>2. 1..owed'[c][b] = (1..owed[c][b]) \ {owed[c][b]}
    BY <2>1
  <2> QED BY <2>2
<1>2. owed[c][b] \in 1..owed[c][b]
  BY <1>1
<1> QED BY <1>1, <1>2 DEF OwedRequests

\* A peer that owes the same has the same requests.
LEMMA SameOwed ==
  ASSUME NEW c, \A e \in Block : owed'[c][e] = owed[c][e]
  PROVE  OwedRequests(c)' = OwedRequests(c)
BY DEF OwedRequests

\* A connection ends for the manager only with its ActivePeer.
LEMMA OnlyDropEnds ==
  ASSUME DMTypeOK, TickScoped, [Next]_vars, NEW c \in Peer, stream'[c] = "none"
  PROVE  stream[c] = "none" \/ Drops(c) \/ Restart
<1>0. NetTypeOK /\ stream \in [Peer -> StreamState]
  BY DEF DMTypeOK, NetTypeOK
<1>1. CASE UNCHANGED stream
  BY <1>1
<1>2. ASSUME NEW d, NEW ok \in BOOLEAN, Sends(d, ok) PROVE stream[c] = "none"
  BY <1>0, <1>2, SendsFacts
<1>3. CASE ReadError \/ BroadcastHave
  BY <1>0, <1>3 DEF ReadError, BroadcastHave
<1>4. CASE RemoveDead
  <2> DEFINE d == peers[Last(peers_to_remove)]
  <2>1. Drops(d)
    BY <1>4 DEF RemoveDead, DropPeer, Drops
  <2> HIDE DEF d
  <2>2. d # c => stream'[c] = stream[c]
    BY <1>0, <2>1 DEF Drops
  <2> QED BY <2>1, <2>2
<1>5. CASE ManageChoking \/ ManageInterest
  BY <1>1, <1>2, <1>5 DEF ManageChoking, ManageInterest
<1>6. ASSUME NEW d \in Peer, ReadRequest(d) \/ PeerCloses(d) \/ PeerResets(d) \/ add_peer(d)
      PROVE  stream[c] = "none"
  BY <1>0, <1>6 DEF ReadRequest, PeerCloses, PeerResets, add_peer
<1>7. ASSUME NEW d \in Peer,
             RequestNothing(d) \/ RequestContinue(d) \/ RequestNew(d) \/ RequestFails(d)
      PROVE  stream[c] = "none"
  BY <1>1, <1>2, <1>7 DEF RequestNothing, RequestContinue, RequestNew, RequestFails, SendsLater
<1>8. ASSUME NEW d \in Peer,
             \/ ReadChoke(d) \/ ReadUnchoke(d) \/ ReadHave(d) \/ ReadBitfield(d)
             \/ ReadInterested(d) \/ ReadPiece(d)
      PROVE  UNCHANGED stream
  BY <1>8 DEF ReadChoke, ReadUnchoke, ReadHave, ReadBitfield, SetHave, ReadInterested,
              ReadPiece, PieceArrives, netVars
<1>9. CASE TickBegin \/ ReadNothing \/ RemovePanics \/ UNCHANGED vars
  BY <1>1, <1>9 DEF TickBegin, ReadNothing, RemovePanics, vars, netVars
<1> QED BY <1>1, <1>3, <1>4, <1>5, <1>6, <1>7, <1>8, <1>9 DEF Next, TickStep

\* The counter follows the requests owed.
LEMMA SlotsExactStep ==
  ASSUME AnswersAsAsked, DMTypeOK, TickScoped, SlotsExactInv, [Next]_vars
  PROVE  SlotsExactInv'
<1>0. /\ inflight_requests \in [Peer -> Nat]
      /\ owed \in [Peer -> [Block -> Nat]]
      /\ stream \in [Peer -> StreamState]
  BY DEF DMTypeOK, PeerTypeOK, NetTypeOK
<1>1. ASSUME NEW c \in Peer, stream'[c] = "none"
      PROVE  \/ stream[c] = "none" /\ ~Drops(c) /\ ~Restart
             \/ inflight_requests'[c] = 0 /\ owed'[c] = NothingOwed'
  BY <1>0, <1>1, OnlyDropEnds DEF Drops, Restart, NothingOwed
<1>2. ASSUME NEW c \in Peer, stream[c] \in {"open", "none"}
      PROVE  /\ IsFiniteSet(OwedRequests(c))
             /\ inflight_requests[c] = Cardinality(OwedRequests(c))
  BY <1>2, NoRequestsOwed, FS_EmptySet DEF SlotsExactInv
<1>3. ASSUME NEW c \in Peer,
             inflight_requests'[c] = inflight_requests[c],
             owed'[c] = owed[c],
             stream'[c] = "open" => stream[c] \in {"open", "none"},
             stream'[c] = "none" => stream[c] = "none"
      PROVE  /\ stream'[c] = "open" => /\ IsFiniteSet(OwedRequests(c)')
                                       /\ inflight_requests'[c] = Cardinality(OwedRequests(c)')
             /\ stream'[c] = "none" => inflight_requests'[c] = 0 /\ owed'[c] = NothingOwed'
  <2>1. OwedRequests(c)' = OwedRequests(c)
    BY <1>3, SameOwed
  <2> QED BY <1>2, <1>3, <2>1 DEF SlotsExactInv, NothingOwed
<1>4. CASE UNCHANGED reqVars /\ \A c \in Peer : stream'[c] = "open" => stream[c] \in {"open", "none"}
  BY <1>1, <1>3, <1>4 DEF SlotsExactInv, reqVars
<1>5. ASSUME NEW c \in Peer, Forgets(c), NothingOpens
      PROVE  SlotsExactInv'
  <2>1. \A d \in Peer : inflight_requests'[d] = inflight_requests[d]
    BY <1>5 DEF Forgets
  <2>2. \A d \in Peer \ {c} : owed'[d] = owed[d]
    BY <1>0, <1>5 DEF Forgets
  <2>3. stream'[c] # "open"
    BY <1>5 DEF Forgets
  <2>4. owed'[c] = NothingOwed
    BY <1>0, <1>5 DEF Forgets
  <2>5. stream'[c] = "none" => inflight_requests'[c] = 0 /\ owed'[c] = NothingOwed'
    BY <1>1, <2>1, <2>4 DEF SlotsExactInv, NothingOwed
  <2> QED BY <1>1, <1>3, <1>5, <2>1, <2>2, <2>3, <2>5 DEF SlotsExactInv, NothingOpens
<1>6. ASSUME NEW c \in Peer, Drops(c)
      PROVE  SlotsExactInv'
  <2>1. \A d \in Peer \ {c} : /\ inflight_requests'[d] = inflight_requests[d]
                              /\ owed'[d] = owed[d]
                              /\ stream'[d] = stream[d]
    BY <1>0, <1>6 DEF Drops
  <2>2. /\ inflight_requests'[c] = 0
        /\ owed'[c] = NothingOwed'
        /\ stream'[c] = "none"
    BY <1>0, <1>6 DEF Drops, NothingOwed
  <2> QED BY <1>3, <2>1, <2>2 DEF SlotsExactInv
<1>7. ASSUME NEW c \in Peer, NEW b \in Block, NEW data,
             Arrives(c, b, data), UNCHANGED stream
      PROVE  SlotsExactInv'
  <2>1. \A d \in Peer \ {c} : inflight_requests'[d] = inflight_requests[d] /\ owed'[d] = owed[d]
    BY <1>0, <1>7 DEF Arrives, PieceArrives
  <2>2. stream[c] \in {"open", "closed"} /\ owed[c][b] > 0
    BY <1>0, <1>7 DEF Arrives, PieceArrives, Reading, AnswersAsAsked, Owed
  <2>3. /\ OwedRequests(c)' = OwedRequests(c) \ {<<b, owed[c][b]>>}
        /\ <<b, owed[c][b]>> \in OwedRequests(c)
    <3>1. \A e \in Block : owed[c][e] \in Nat
      BY <1>0
    <3>2. \A e \in Block : owed'[c][e] = IF e = b THEN owed[c][b] - 1 ELSE owed[c][e]
      BY <1>7, <2>2, <3>1, ArrivalAnswers
    <3> QED BY <2>2, <3>1, <3>2, OneLessOwed
  <2>4. stream[c] = "open" => /\ IsFiniteSet(OwedRequests(c)')
                              /\ inflight_requests'[c] = Cardinality(OwedRequests(c)')
    <3> SUFFICES ASSUME stream[c] = "open"
                 PROVE  /\ IsFiniteSet(OwedRequests(c)')
                        /\ inflight_requests'[c] = Cardinality(OwedRequests(c)')
      OBVIOUS
    <3> DEFINE S == OwedRequests(c)
               r == <<b, owed[c][b]>>
    <3>1. IsFiniteSet(S) /\ inflight_requests[c] = Cardinality(S) /\ r \in S
      BY <1>2, <2>3
    <3>2. inflight_requests'[c] = IF inflight_requests[c] = 0 THEN 0 ELSE inflight_requests[c] - 1
      BY <1>7, ArrivalAnswers
    <3>3. OwedRequests(c)' = S \ {r}
      BY <2>3
    <3> HIDE DEF S, r
    <3>4. IsFiniteSet(S \ {r}) /\ Cardinality(S \ {r}) = Cardinality(S) - 1
      BY <3>1, FS_RemoveElement
    <3>5. Cardinality(S) \in Nat /\ Cardinality(S \ {r}) \in Nat
      BY <3>1, <3>4, FS_CardinalityType
    <3> QED BY <3>1, <3>2, <3>3, <3>4, <3>5
  <2> QED BY <1>3, <1>7, <2>1, <2>2, <2>4 DEF SlotsExactInv
<1>8. ASSUME NEW c \in Peer, NEW b \in Block, AsksFor(c, b), UNCHANGED stream
      PROVE  SlotsExactInv'
  <2>1. \A d \in Peer \ {c} : inflight_requests'[d] = inflight_requests[d] /\ owed'[d] = owed[d]
    BY <1>0, <1>8 DEF AsksFor, Asked
  <2>2. stream[c] \in {"open", "closed"}
    BY <1>8 DEF AsksFor
  <2>3. stream[c] = "open" => /\ IsFiniteSet(OwedRequests(c)')
                              /\ inflight_requests'[c] = Cardinality(OwedRequests(c)')
    <3> SUFFICES ASSUME stream[c] = "open"
                 PROVE  /\ IsFiniteSet(OwedRequests(c)')
                        /\ inflight_requests'[c] = Cardinality(OwedRequests(c)')
      OBVIOUS
    <3> DEFINE S == OwedRequests(c)
               r == <<b, owed[c][b] + 1>>
    <3>1. /\ OwedRequests(c)' = S \cup {r}
          /\ r \notin S
      <4>1. \A e \in Block : owed[c][e] \in Nat
        BY <1>0
      <4>2. \A e \in Block : owed'[c][e] = IF e = b THEN owed[c][b] + 1 ELSE owed[c][e]
        BY <1>8, RequestCounts
      <4> QED BY <4>1, <4>2, OneMoreOwed
    <3>2. IsFiniteSet(S) /\ inflight_requests[c] = Cardinality(S)
      BY <1>2
    <3>3. inflight_requests'[c] = inflight_requests[c] + 1
      BY <1>8, RequestCounts
    <3> HIDE DEF S, r
    <3>4. IsFiniteSet(S \cup {r}) /\ Cardinality(S \cup {r}) = Cardinality(S) + 1
      BY <3>1, <3>2, FS_AddElement
    <3> QED BY <3>1, <3>2, <3>3, <3>4
  <2> QED BY <1>3, <1>8, <2>1, <2>2, <2>3 DEF SlotsExactInv
<1>9. CASE Restart
  BY <1>9 DEF Restart, SlotsExactInv, NothingOwed
<1> QED BY <1>4, <1>5, <1>6, <1>7, <1>8, <1>9, RequestSteps DEF Quiet, NothingOpens

\* While peers answer what they were asked and no more, the counter of an open
\* peer is exactly the number of requests it owes: no slot of the pipeline is
\* lost or used twice, whatever the answers hold and whoever is disconnected.
THEOREM SlotsStayExact ==
  ASSUME AnswersAsAsked
  PROVE  Spec => []SlotsExact
<1>1. Init => SlotsExactInv
  BY DEF Init, SlotsExactInv
<1>2. DMTypeOK /\ TickScoped /\ SlotsExactInv /\ [Next]_vars => SlotsExactInv'
  BY SlotsExactStep
<1>3. SlotsExactInv => SlotsExact
  BY DEF SlotsExactInv, SlotsExact
<1> QED BY <1>1, <1>2, <1>3, ManagerTypeCorrect, PTL DEF Spec

-----------------------------------------------------------------------------
(* The list of dead peers.                                                   *)

\* No connection is broken.
NothingBroken == \A c \in Peer : stream[c] \in {"none", "open", "closed"}

\* No connection breaks if none is reset and every byte decodes.
LEMMA NothingBreaks ==
  ASSUME ConnectionsLast, NetTypeOK, NothingBroken, [Next]_vars
  PROVE  NothingBroken'
<1> USE DEF NothingBroken
<1>0. stream \in [Peer -> StreamState]
  BY DEF NetTypeOK
<1>1. CASE UNCHANGED stream
  BY <1>1
<1>2. ASSUME NEW c \in Peer, NEW ok, Sends(c, ok) PROVE UNCHANGED stream
  BY <1>2 DEF Sends
<1>3. ASSUME NEW c, c \notin Peer, NEW ok, Sends(c, ok) PROVE NothingBroken'
  BY <1>0, <1>3 DEF Sends
<1>4. CASE ReadError
  <2>1. ~Fault("garbage")
    BY DEF Fault, ConnectionsLast
  <2>2. stream' = [stream EXCEPT ![Current] = "dead"] /\ stream[Current] = "reset"
    BY <1>4, <2>1 DEF ReadError
  <2>3. Current \notin Peer
    BY <2>2
  <2> QED BY <1>0, <2>2, <2>3
<1>5. CASE BroadcastHave
  BY <1>0, <1>5 DEF BroadcastHave
<1>6. CASE RemoveDead \/ Restart
  BY <1>0, <1>6 DEF RemoveDead, DropPeer, Restart
<1>7. CASE ManageChoking \/ ManageInterest
  BY <1>1, <1>2, <1>3, <1>7 DEF ManageChoking, ManageInterest
<1>8. ASSUME NEW c \in Peer, ReadRequest(c) \/ PeerResets(c) \/ PeerCloses(c) \/ add_peer(c)
      PROVE  NothingBroken'
  <2>1. ~Fault("break")
    BY DEF Fault, ConnectionsLast
  <2> QED BY <1>0, <1>8, <2>1 DEF ReadRequest, PeerResets, PeerCloses, add_peer
<1>9. ASSUME NEW c \in Peer,
              RequestNothing(c) \/ RequestContinue(c) \/ RequestNew(c) \/ RequestFails(c)
       PROVE  UNCHANGED stream
  BY <1>2, <1>9 DEF RequestNothing, RequestContinue, RequestNew, RequestFails, SendsLater
<1>10. ASSUME NEW c \in Peer,
              \/ ReadChoke(c) \/ ReadUnchoke(c) \/ ReadHave(c) \/ ReadBitfield(c)
              \/ ReadInterested(c) \/ ReadPiece(c)
       PROVE  UNCHANGED stream
  BY <1>10 DEF ReadChoke, ReadUnchoke, ReadHave, ReadBitfield, SetHave, ReadInterested,
               ReadPiece, PieceArrives, netVars
<1>11. CASE TickBegin \/ ReadNothing \/ RemovePanics \/ UNCHANGED vars
  BY <1>1, <1>11 DEF TickBegin, ReadNothing, RemovePanics, vars, netVars
<1> QED BY <1>1, <1>4, <1>5, <1>6, <1>7, <1>8, <1>9, <1>10, <1>11 DEF Next, TickStep

\* Once everything is complete it stays so until a restart.
LEMMA IsCompleteStays ==
  ASSUME PMInv, DMTypeOK, TickScoped, [Next]_vars, ~Restart, is_complete
  PROVE  is_complete'
<1>1. WithStatus("Complete") \subseteq Piece /\ IsFiniteSet(Piece)
      /\ Cardinality(WithStatus("Complete")) = TotalPieces
  BY PieceFinite DEF PMInv, CompleteCountExact, WithStatus, is_complete
<1>2. Cardinality(Piece) = TotalPieces
  <2>1. 0 \in Int /\ TotalPieces - 1 \in Int /\ TotalPieces \in Nat \ {0}
    BY LayoutAssumption
  <2> QED BY <2>1, FS_Interval DEF Piece
<1>3. WithStatus("Complete") = Piece
  BY <1>1, <1>2, FS_Subset
<1>4. \A p \in Piece : ~Queued(p) /\ piece_status[p] = "Complete"
  BY <1>3 DEF PMInv, QueueIsDownloading, WithStatus
<1>5. ASSUME NEW b \in Block, NEW v, BlockReceived(b, v)
      PROVE  UNCHANGED pmVars
  BY <1>4, <1>5, BlockFacts DEF BlockReceived
<1>6. UNCHANGED pieces_complete
  BY <1>5, RequestSteps DEF Quiet, Arrives, PieceArrives, AsksFor, start_downloading,
                            RequestBlock, pmVars
<1> QED BY <1>6 DEF is_complete

\* The list holds places of the Vec, those of peers the loop has come to, and
\* the current one only if ManageInterest will not put it there again.
ListInBounds ==
    \A j \in DOMAIN peers_to_remove :
        /\ peers_to_remove[j] \in 1..Len(peers)
        /\ pc = "read" => peers_to_remove[j] < cursor
        /\ pc \in {"choke", "interest", "request"} => peers_to_remove[j] <= cursor
        /\ pc \in {"choke", "interest"} /\ peers_to_remove[j] = cursor => ~MustInterest(Current)

\* It is sorted, and names no place twice.
ListSorted ==
    \A j, k \in DOMAIN peers_to_remove :
        j < k => peers_to_remove[j] < peers_to_remove[k]

Listed(i) == \E j \in DOMAIN peers_to_remove : peers_to_remove[j] = i

\* A peer we unchoked and did not tell of our interest.
Untold(c) == ~am_choking[c] /\ MustInterest(c)

\* Such a peer is on the list, or ManageInterest is about to try.
UntoldIsListed ==
    \A c \in Peer : Untold(c) =>
        \E i \in DOMAIN peers : /\ peers[i] = c
                                /\ Listed(i) \/ (pc = "interest" /\ i = cursor)

\* The inductive invariant of the list.
ListInv == ListInBounds /\ ListSorted /\ UntoldIsListed /\ NoPanic

\* Steps that only move on in the loop body.
LEMMA ListKept ==
  ASSUME ListInv, UNCHANGED <<peers, cursor, peers_to_remove>>,
         \A c \in Peer : Untold(c)' => Untold(c),
         MustInterest(Current)' => MustInterest(Current),
         \/ pc' = pc
         \/ pc = "read" /\ pc' = "choke"
         \/ pc = "interest" /\ ~MustInterest(Current)' /\ pc' = "request",
         TickTypeOK
  PROVE  ListInv'
<1>0. /\ cursor \in Nat
      /\ peers_to_remove \in Seq(Nat)
      /\ DOMAIN peers_to_remove = 1..Len(peers_to_remove)
      /\ \A j \in DOMAIN peers_to_remove : peers_to_remove[j] \in Nat
  BY LenProperties, ElementOfSeq DEF TickTypeOK
<1>1. ListInBounds'
  BY <1>0 DEF ListInv, ListInBounds, Current
<1>2. ListSorted'
  BY DEF ListInv, ListSorted
<1>3. UntoldIsListed'
  <2> SUFFICES ASSUME NEW c \in Peer, Untold(c)'
               PROVE  \E i \in DOMAIN peers : /\ peers[i] = c
                                              /\ Listed(i) \/ (pc' = "interest" /\ i = cursor)
    BY DEF UntoldIsListed, Listed
  <2>1. PICK i \in DOMAIN peers : /\ peers[i] = c
                                  /\ Listed(i) \/ (pc = "interest" /\ i = cursor)
    BY DEF ListInv, UntoldIsListed
  <2>2. Untold(c)
    OBVIOUS
  <2> QED BY <1>0, <2>1, <2>2 DEF Untold, Current, Listed
<1>4. NoPanic'
  BY DEF ListInv, NoPanic
<1> QED BY <1>1, <1>2, <1>3, <1>4 DEF ListInv

\* The Vec of peers when one more place is put on the list.
LEMMA PushFacts ==
  ASSUME TickTypeOK, ListInv, PushDead, ~Listed(cursor), cursor \in 1..Len(peers),
         pc \in {"read", "choke", "interest", "request"}
  PROVE  /\ DOMAIN peers_to_remove' = 1..(Len(peers_to_remove) + 1)
         /\ DOMAIN peers_to_remove = 1..Len(peers_to_remove)
         /\ Len(peers_to_remove) \in Nat
         /\ \A j \in 1..Len(peers_to_remove) : peers_to_remove'[j] = peers_to_remove[j]
         /\ peers_to_remove'[Len(peers_to_remove) + 1] = cursor
         /\ \A j \in 1..Len(peers_to_remove) : peers_to_remove[j] \in Nat /\ peers_to_remove[j] < cursor
<1>1. /\ peers_to_remove \in Seq(Nat) /\ cursor \in Nat
      /\ peers_to_remove' = Append(peers_to_remove, cursor)
  BY LenProperties DEF TickTypeOK, PushDead
<1>2. /\ DOMAIN peers_to_remove = 1..Len(peers_to_remove) /\ Len(peers_to_remove) \in Nat
      /\ \A j \in 1..Len(peers_to_remove) : peers_to_remove[j] \in Nat
  BY <1>1, LenProperties, ElementOfSeq
<1>3. \A j \in DOMAIN peers_to_remove : peers_to_remove[j] <= cursor
  BY <1>1, <1>2 DEF ListInv, ListInBounds
<1>4. /\ DOMAIN peers_to_remove' = 1..(Len(peers_to_remove) + 1)
      /\ \A j \in 1..Len(peers_to_remove) : peers_to_remove'[j] = peers_to_remove[j]
      /\ peers_to_remove'[Len(peers_to_remove) + 1] = cursor
  BY <1>1, <1>2, AppendProperties, LenProperties
<1> QED BY <1>1, <1>2, <1>3, <1>4 DEF Listed

\* With an empty list nobody may be left untold.
LEMMA ListEmpty ==
  ASSUME peers_to_remove' = <<>>, \A c \in Peer : ~Untold(c)', pc' # "panicked"
  PROVE  ListInv'
<1>1. DOMAIN peers_to_remove' = {}
  BY EmptySeq, LenProperties
<1> QED BY <1>1 DEF ListInv, ListInBounds, ListSorted, UntoldIsListed, NoPanic

\* The current peer is put on the list, and the loop body goes on, or is left.
LEMMA ListPushed ==
  ASSUME TickTypeOK, ListInv, UNCHANGED peers, PushDead, cursor \in 1..Len(peers),
         ~Listed(cursor), \A c \in Peer : Untold(c)' => Untold(c),
         \/ pc = "read" /\ pc' = "choke" /\ cursor' = cursor /\ ~MustInterest(Current)'
         \/ pc = "interest" /\ NextPeer
  PROVE  ListInv'
<1> DEFINE n == Len(peers_to_remove)
<1>1. /\ DOMAIN peers_to_remove' = 1..(n + 1)
      /\ DOMAIN peers_to_remove = 1..n
      /\ n \in Nat
      /\ \A j \in 1..n : peers_to_remove'[j] = peers_to_remove[j]
      /\ peers_to_remove'[n + 1] = cursor
      /\ \A j \in 1..n : peers_to_remove[j] \in Nat /\ peers_to_remove[j] < cursor
  BY PushFacts
<1> HIDE DEF n
<1>2. Len(peers) \in Nat /\ cursor \in Nat
  BY LenProperties DEF TickTypeOK
<1>3. \/ pc' = "choke" /\ cursor' = cursor /\ ~MustInterest(Current)'
      \/ pc' = "read" /\ cursor' = cursor + 1
      \/ pc' = "remove"
  BY DEF NextPeer
<1>4. \A j \in 1..(n + 1) : /\ peers_to_remove'[j] \in Nat
                            /\ peers_to_remove'[j] <= cursor
                            /\ peers_to_remove'[j] \in 1..Len(peers)
  <2>1. ASSUME NEW j \in 1..n
        PROVE  /\ peers_to_remove'[j] \in Nat
               /\ peers_to_remove'[j] <= cursor
               /\ peers_to_remove'[j] \in 1..Len(peers)
    BY <1>1, <1>2, <2>1 DEF ListInv, ListInBounds
  <2> QED BY <1>1, <1>2, <2>1
<1>5. ListInBounds'
  BY <1>1, <1>2, <1>3, <1>4 DEF ListInBounds
<1>6. ListSorted'
  BY <1>1, <1>2 DEF ListInv, ListSorted
<1>7. UntoldIsListed'
  <2> SUFFICES ASSUME NEW c \in Peer, Untold(c)'
               PROVE  \E i \in DOMAIN peers : peers[i] = c /\ Listed(i)'
    BY DEF UntoldIsListed
  <2>1. PICK i \in DOMAIN peers : peers[i] = c /\ (Listed(i) \/ i = cursor)
    BY DEF ListInv, UntoldIsListed
  <2> QED BY <1>1, <2>1 DEF Listed
<1>8. NoPanic'
  BY <1>3 DEF NoPanic
<1> QED BY <1>5, <1>6, <1>7, <1>8 DEF ListInv

\* The loop goes on with the next peer.
LEMMA ListNext ==
  ASSUME TickTypeOK, ListInv, pc = "request", NextPeer, UNCHANGED <<peers, peers_to_remove>>,
         \A c \in Peer : Untold(c)' => Untold(c)
  PROVE  ListInv'
<1>1. /\ Len(peers) \in Nat /\ cursor \in Nat
      /\ \A j \in DOMAIN peers_to_remove : peers_to_remove[j] \in Nat
  BY LenProperties, ElementOfSeq DEF TickTypeOK
<1>2. \/ pc' = "read" /\ cursor' = cursor + 1
      \/ pc' = "remove"
  BY DEF NextPeer
<1>3. ListInBounds'
  BY <1>1, <1>2 DEF ListInv, ListInBounds
<1>4. ListSorted' /\ NoPanic'
  BY <1>2 DEF ListInv, ListSorted, NoPanic
<1>5. UntoldIsListed'
  BY DEF ListInv, UntoldIsListed, Listed
<1> QED BY <1>3, <1>4, <1>5 DEF ListInv

\* The last place of the list is removed from the Vec: it is the greatest, so
\* those before it still name the same peers.
LEMMA ListRemoved ==
  ASSUME DMTypeOK, TickScoped, ListInv, RemoveDead
  PROVE  ListInv'
<1> DEFINE n == Len(peers_to_remove)
           i == Last(peers_to_remove)
<1>1. /\ peers \in Seq(Peer) /\ DOMAIN peers = 1..Len(peers) /\ Len(peers) \in Nat
      /\ peers_to_remove \in Seq(Nat) /\ DOMAIN peers_to_remove = 1..n /\ n \in Nat \ {0}
      /\ \A j \in 1..n : peers_to_remove[j] \in Nat
  BY LenProperties, EmptySeq, ElementOfSeq DEF DMTypeOK, TickTypeOK, RemoveDead
<1>2. /\ i = peers_to_remove[n]
      /\ i \in 1..Len(peers) /\ i \in Nat
      /\ peers' = RemoveAt(peers, i)
      /\ peers_to_remove' = SubSeq(peers_to_remove, 1, n - 1)
      /\ pc' = "remove" /\ pc = "remove"
  BY <1>1 DEF RemoveDead, Last, Front
<1> HIDE DEF i, n
<1>3. /\ DOMAIN peers_to_remove' = 1..(n - 1)
      /\ \A j \in 1..(n - 1) : peers_to_remove'[j] = peers_to_remove[j]
  BY <1>1, <1>2, SubSeqProperties, LenProperties
<1>4. /\ DOMAIN peers' = 1..(Len(peers) - 1)
      /\ Len(peers') = Len(peers) - 1
      /\ \A k \in 1..(Len(peers) - 1) : peers'[k] = IF k < i THEN peers[k] ELSE peers[k + 1]
  <2>1. /\ RemoveAt(peers, i) \in Seq(Peer)
        /\ Len(RemoveAt(peers, i)) = Len(peers) - 1
        /\ \A k \in 1..(Len(peers) - 1) :
              RemoveAt(peers, i)[k] = IF k < i THEN peers[k] ELSE peers[k + 1]
    BY <1>1, <1>2, RemoveAtFacts
  <2>2. DOMAIN RemoveAt(peers, i) = 1..Len(RemoveAt(peers, i))
    BY <2>1, LenProperties
  <2> QED BY <1>2, <2>1, <2>2
<1>5. \A j \in 1..(n - 1) : peers_to_remove[j] < i /\ peers_to_remove[j] >= 1
  <2> SUFFICES ASSUME NEW j \in 1..(n - 1)
               PROVE  peers_to_remove[j] < i /\ peers_to_remove[j] >= 1
    OBVIOUS
  <2>1. j \in 1..n /\ n \in 1..n /\ j < n
    BY <1>1
  <2>2. peers_to_remove[j] < peers_to_remove[n]
    BY <1>1, <2>1 DEF ListInv, ListSorted
  <2>3. peers_to_remove[j] \in 1..Len(peers)
    BY <1>1, <2>1 DEF ListInv, ListInBounds
  <2> QED BY <1>1, <1>2, <2>2, <2>3
<1>6. ListInBounds'
  BY <1>1, <1>2, <1>3, <1>4, <1>5 DEF ListInBounds
<1>7. ListSorted'
  <2>1. 1..(n - 1) \subseteq 1..n
    BY <1>1
  <2> QED BY <1>1, <1>3, <2>1, SMTT(30) DEF ListInv, ListSorted
<1>8. UntoldIsListed'
  <2> SUFFICES ASSUME NEW c \in Peer, Untold(c)'
               PROVE  \E k \in DOMAIN peers' : peers'[k] = c /\ Listed(k)'
    BY DEF UntoldIsListed
  <2>1. /\ am_choking' = [am_choking EXCEPT ![peers[i]] = TRUE]
        /\ am_interested' = [am_interested EXCEPT ![peers[i]] = FALSE]
        /\ UNCHANGED pieces_complete
        /\ am_choking \in [Peer -> BOOLEAN] /\ am_interested \in [Peer -> BOOLEAN]
    BY DEF RemoveDead, DropPeer, pmVars, DMTypeOK, PeerTypeOK, i
  <2>2. c # peers[i] /\ Untold(c)
    BY <2>1 DEF Untold, MustInterest, is_complete
  <2>3. PICK k \in DOMAIN peers : peers[k] = c /\ Listed(k)
    BY <1>2, <2>2 DEF ListInv, UntoldIsListed
  <2>4. PICK j \in 1..n : peers_to_remove[j] = k
    BY <1>1, <2>3 DEF Listed
  <2>5. j \in 1..(n - 1)
    BY <1>1, <1>2, <2>2, <2>3, <2>4
  <2>6. k < i /\ k \in 1..(Len(peers) - 1)
    BY <1>1, <1>2, <1>5, <2>4, <2>5
  <2> QED BY <1>3, <1>4, <2>3, <2>4, <2>5, <2>6 DEF Listed
<1>9. NoPanic'
  BY <1>2 DEF NoPanic
<1> QED BY <1>6, <1>7, <1>8, <1>9 DEF ListInv

\* The list of peers to remove stays sorted, in bounds and complete.
LEMMA ListStep ==
  ASSUME ConnectionsLast, PMInv, DMTypeOK, TickScoped, NothingBroken, ListInv, [Next]_vars
  PROVE  ListInv'
<1>0. /\ NetTypeOK /\ TickTypeOK /\ pc # "panicked"
      /\ Len(peers) \in Nat /\ cursor \in 0..Len(peers) /\ DOMAIN peers = 1..Len(peers)
      /\ am_choking \in [Peer -> BOOLEAN] /\ am_interested \in [Peer -> BOOLEAN]
  BY LenProperties DEF DMTypeOK, PeerTypeOK, TickTypeOK, ListInv, NoPanic
<1>1. ASSUME pc \in {"read", "choke", "interest", "request"}
      PROVE  cursor \in 1..Len(peers) /\ Current \in Peer
  <2>1. cursor \in 1..Len(peers)
    BY <1>0, <1>1 DEF TickScoped, LoopScoped
  <2> QED BY <2>1, ElementOfSeq DEF DMTypeOK, TickTypeOK, Current
<1>2. ASSUME pc = "idle"
      PROVE  peers_to_remove = <<>>
  BY <1>2 DEF TickScoped, LoopScoped
<1>3. ASSUME peers_to_remove = <<>>, pc # "interest", NEW c \in Peer
      PROVE  ~Untold(c)
  <2>1. DOMAIN peers_to_remove = {}
    BY <1>3, EmptySeq, LenProperties
  <2> QED BY <1>3, <2>1 DEF ListInv, UntoldIsListed, Listed
<1>4. ASSUME UNCHANGED am_choking, UNCHANGED am_interested, ~Restart
      PROVE  /\ \A c \in Peer : Untold(c)' => Untold(c)
             /\ UNCHANGED <<peers, cursor>> => (MustInterest(Current)' => MustInterest(Current))
  BY <1>4, IsCompleteStays DEF Untold, MustInterest, Current
<1>5. CASE UNCHANGED vars
  <2>1. UNCHANGED <<peers, cursor, peers_to_remove, pc, am_choking, am_interested, pieces_complete>>
    BY <1>5 DEF vars, peerVars, listVars, pmVars
  <2> QED BY <1>0, <2>1, ListKept DEF Untold, MustInterest, is_complete, Current
<1>6. CASE Restart
  BY <1>6, ListEmpty DEF Restart, Untold
<1> SUFFICES ASSUME ~Restart, Next
             PROVE  ListInv'
  BY <1>5, <1>6
<1>7. CASE TickBegin
  <2>1. /\ pc = "idle" /\ pc' = "read"
        /\ UNCHANGED <<am_choking, am_interested, peers_to_remove>>
    BY <1>7 DEF TickBegin, peerVars, listVars
  <2> QED BY <1>2, <1>3, <1>4, <2>1, ListEmpty
<1>8. ASSUME pc = "read", Goto("choke"), UNCHANGED <<peers, peers_to_remove, am_choking, am_interested>>
      PROVE  ListInv'
  BY <1>0, <1>4, <1>8, ListKept DEF Goto
<1>9. CASE ReadNothing
  BY <1>8, <1>9 DEF ReadNothing, peerVars, listVars
<1>10. CASE ReadError
  <2>1. stream[Current] \in {"none", "open", "closed"}
    BY <1>1, <1>10 DEF ReadError, NothingBroken
  <2>2. ~Fault("garbage")
    BY DEF Fault, ConnectionsLast
  <2> QED BY <1>10, <2>1, <2>2 DEF ReadError
<1>11. ASSUME NEW c \in Peer,
              \/ ReadChoke(c) \/ ReadUnchoke(c) \/ ReadHave(c) \/ ReadBitfield(c)
              \/ ReadInterested(c) \/ ReadPiece(c)
       PROVE  ListInv'
  BY <1>8, <1>11 DEF ReadChoke, ReadUnchoke, ReadHave, ReadBitfield, SetHave, ReadInterested,
                     ReadPiece, PieceArrives, Reading, listVars
<1>12. ASSUME NEW c \in Peer, ReadRequest(c)
       PROVE  ListInv'
  <2>1. /\ pc = "read" /\ c = Current /\ ~am_choking[c]
        /\ PushDead /\ pc' = "choke" /\ cursor' = cursor
        /\ UNCHANGED <<peers, am_choking, am_interested, pieces_complete>>
    BY <1>12 DEF ReadRequest, Reading, Goto, peerVars, pmVars
  <2>2. ~Listed(cursor)
    BY <1>0, <2>1 DEF ListInv, ListInBounds, Listed
  <2>3. ~MustInterest(Current)
    <3> SUFFICES ASSUME MustInterest(Current)
                 PROVE  FALSE
      OBVIOUS
    <3>1. PICK i \in DOMAIN peers : peers[i] = Current /\ Listed(i)
      BY <2>1 DEF ListInv, UntoldIsListed, Untold
    <3>2. i = cursor
      BY <1>0, <1>1, <2>1, <3>1 DEF Current, TickScoped, OneActivePeer
    <3> QED BY <2>2, <3>1, <3>2
  <2>4. ~MustInterest(Current)'
    BY <2>1, <2>3 DEF MustInterest, is_complete, Current
  <2> QED BY <1>0, <1>1, <1>4, <2>1, <2>2, <2>4, ListPushed
<1>13. CASE ManageChoking
  <2>1. /\ pc = "choke" /\ pc' = "interest"
        /\ UNCHANGED <<peers, cursor, peers_to_remove, am_interested, pieces_complete>>
        /\ \/ UNCHANGED am_choking
           \/ am_choking' = [am_choking EXCEPT ![Current] = FALSE]
    BY <1>13 DEF ManageChoking, Goto, pmVars, listVars
  <2>2. \A c \in Peer : Untold(c)' => Untold(c) \/ c = Current
    BY <1>0, <2>1 DEF Untold, MustInterest, is_complete
  <2>3. ListInBounds'
    BY <2>1 DEF ListInv, ListInBounds, MustInterest, is_complete, Current
  <2>4. ListSorted' /\ NoPanic'
    BY <2>1 DEF ListInv, ListSorted, NoPanic
  <2>5. UntoldIsListed'
    <3> SUFFICES ASSUME NEW c \in Peer, Untold(c)'
                 PROVE  \E i \in DOMAIN peers : peers[i] = c /\ (Listed(i) \/ i = cursor)
      BY <2>1 DEF UntoldIsListed, Listed
    <3>1. CASE c = Current
      BY <1>0, <1>1, <2>1, <3>1 DEF Current
    <3>2. CASE Untold(c)
      BY <3>2 DEF ListInv, UntoldIsListed
    <3> QED BY <2>2, <3>1, <3>2
  <2> QED BY <2>3, <2>4, <2>5 DEF ListInv
<1>14. CASE ManageInterest
  <2>1. pc = "interest" /\ UNCHANGED <<peers, am_choking, pieces_complete>>
    BY <1>14 DEF ManageInterest, pmVars
  <2>2. CASE /\ ~MustInterest(Current) /\ Goto("request")
             /\ UNCHANGED <<am_interested, peers_to_remove>>
    <3>1. ~MustInterest(Current)'
      BY <2>1, <2>2 DEF MustInterest, is_complete, Current, Goto
    <3> QED BY <1>0, <1>4, <2>1, <2>2, <3>1, ListKept DEF Goto
  <2>3. CASE /\ am_interested' = [am_interested EXCEPT ![Current] = TRUE]
             /\ Goto("request")
             /\ UNCHANGED peers_to_remove
    <3>1. \A c \in Peer : Untold(c)' => Untold(c)
      BY <1>0, <2>1, <2>3 DEF Untold, MustInterest, is_complete
    <3>2. ~MustInterest(Current)'
      BY <1>0, <1>1, <2>1, <2>3 DEF MustInterest, Current, Goto
    <3> QED BY <1>0, <2>1, <2>3, <3>1, <3>2, ListKept DEF Goto
  <2>4. CASE MustInterest(Current) /\ PushDead /\ NextPeer /\ UNCHANGED am_interested
    <3>1. ~Listed(cursor)
      BY <2>1, <2>4 DEF ListInv, ListInBounds, Listed
    <3> QED BY <1>0, <1>1, <1>4, <2>1, <2>4, <3>1, ListPushed
  <2> QED BY <1>14, <2>2, <2>3, <2>4 DEF ManageInterest
<1>15. ASSUME NEW c \in Peer,
              RequestNothing(c) \/ RequestContinue(c) \/ RequestNew(c) \/ RequestFails(c)
       PROVE  ListInv'
  <2>1. /\ pc = "request" /\ NextPeer
        /\ UNCHANGED <<peers, peers_to_remove, am_choking, am_interested>>
    BY <1>15 DEF RequestNothing, RequestContinue, RequestNew, RequestFails, Requesting,
                 RequestFrame, listVars
  <2> QED BY <1>0, <1>4, <2>1, ListNext
<1>16. CASE RemoveDead
  BY <1>16, ListRemoved
<1>17. CASE RemovePanics
  <2>1. /\ peers_to_remove \in Seq(Nat) /\ peers_to_remove # <<>>
        /\ Last(peers_to_remove) \notin DOMAIN peers
    BY <1>0, <1>17 DEF RemovePanics, TickTypeOK
  <2>2. Len(peers_to_remove) \in DOMAIN peers_to_remove
    BY <2>1, EmptySeq, LenProperties
  <2>3. Last(peers_to_remove) \in 1..Len(peers)
    BY <2>2 DEF ListInv, ListInBounds, Last
  <2> QED BY <1>0, <2>1, <2>3
<1>18. CASE BroadcastHave
  <2>1. /\ peers_to_remove = <<>> /\ pc = "remove" /\ pc' = "idle"
        /\ UNCHANGED <<peers_to_remove, am_choking, am_interested>>
    BY <1>18 DEF BroadcastHave, peerVars
  <2> QED BY <1>3, <1>4, <2>1, ListEmpty
<1>19. ASSUME NEW c \in Peer, add_peer(c)
       PROVE  ListInv'
  <2>1. /\ pc = "idle" /\ pc' = pc
        /\ UNCHANGED <<peers_to_remove, am_choking, am_interested>>
    BY <1>19 DEF add_peer, listVars, peerVars
  <2> QED BY <1>2, <1>3, <1>4, <2>1, ListEmpty
<1>20. ASSUME NEW c \in Peer, PeerCloses(c) \/ PeerResets(c)
       PROVE  ListInv'
  <2>1. UNCHANGED <<peers, cursor, peers_to_remove, pc, am_choking, am_interested>>
    BY <1>20 DEF PeerCloses, PeerResets, listVars, peerVars
  <2> QED BY <1>0, <1>4, <2>1, ListKept
<1> QED BY <1>7, <1>9, <1>10, <1>11, <1>12, <1>13, <1>14, <1>15, <1>16, <1>17, <1>18, <1>19,
           <1>20 DEF Next, TickStep

\* While connections last, no tick removes an index out of range: each peer is
\* put on the list once at most, in the order of the Vec, although both a
\* refused answer and a refused Interested put it there.
THEOREM NeverPanics ==
  ASSUME ConnectionsLast
  PROVE  Spec => []NoPanic
<1>1. Init => NothingBroken /\ ListInv
  <2> SUFFICES ASSUME Init
               PROVE  NothingBroken /\ ListInv
    OBVIOUS
  <2>1. DOMAIN peers_to_remove = {}
    BY EmptySeq, LenProperties DEF Init
  <2>2. \A c \in Peer : stream[c] = "none" /\ ~Untold(c)
    BY DEF Init, Untold
  <2>3. pc = "idle"
    BY DEF Init
  <2> QED BY <2>1, <2>2, <2>3 DEF NothingBroken, ListInv, ListInBounds, ListSorted,
                                  UntoldIsListed, NoPanic
<1>2. /\ PMInv /\ DMTypeOK /\ TickScoped /\ NothingBroken /\ ListInv /\ [Next]_vars
      => (NothingBroken /\ ListInv)'
  <2>1. DMTypeOK => NetTypeOK
    BY DEF DMTypeOK
  <2> QED BY <2>1, NothingBreaks, ListStep
<1>3. ListInv => NoPanic
  BY DEF ListInv
<1> QED BY <1>1, <1>2, <1>3, ManagerTypeCorrect, ManagerKeepsPieces, PTL DEF Spec
=============================================================================
