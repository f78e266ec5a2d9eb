--------------------------- MODULE DownloadManager ---------------------------
(***************************************************************************)
(* The download manager of src/src/download/manager.rs: the peers it is    *)
(* connected to, and tick(), which main calls forever.  The state of the   *)
(* pieces is that of PieceManager; the files are abstracted to the kind of *)
(* data each block has on disk; a remote peer is the messages it may send, *)
(* the requests it owes an answer and what it was told we have.            *)
(*                                                                         *)
(* One call of tick() is several steps, one per phase of the loop body for *)
(* each peer, so that a remote peer, the network or the operating system   *)
(* can act between any two of them.                                        *)
(***************************************************************************)
EXTENDS PieceManager

CONSTANTS
    Peer,         \* remote addresses: main.rs keeps one connection for each
    Content,      \* Content[c]: the pieces peer c has or will have
    MaxInflight,  \* the 10 of `inflight_requests < 10'
    MaxUnchoked,  \* the 5 of `unchoked_peers < 5'
    InitialDisk,  \* what the output files may hold when the program starts
    Responsive,   \* peers that keep answering (liveness only)
    Faults,       \* which faults may happen, see FaultKind
    MaxFaults     \* how many of them, in one behaviour

\* none: never written; part: the first bytes only, or those of an overrun;
\* good: the torrent's bytes; bad: as many bytes, not all of them right.
DiskState == {"none", "part", "good", "bad"}

\* The data of a Piece message: right, wrong, right but more than was asked for,
\* or less than was asked for, even nothing.  A write the disk refuses or takes
\* in part leaves what a short answer leaves.
BlockData == {"good", "bad", "long", "part"}

\* close:   a peer closes its connection in order
\* break:   a connection is reset
\* garbage: a peer sends bytes the decoder rejects
\* congest: a socket takes no more bytes for now (WouldBlock on a write)
\* choke:   a peer chokes us and drops the requests it owes
\* stray:   a peer sends a block it does not owe
\* corrupt: a peer answers with wrong data
\* long:    a peer answers with more data than it was asked for
\* short:   a peer answers with less data than it was asked for
\* write:   the disk refuses a write, or takes part of it
\* crash:   the program dies and is started again
FaultKind == {"close", "break", "garbage", "congest", "choke", "stray",
              "corrupt", "long", "short", "write", "crash"}

ASSUME ManagerAssumption ==
    /\ Content \in [Peer -> SUBSET Piece]
    /\ IsFiniteSet(Peer)
    /\ MaxInflight \in Nat \ {0}
    /\ MaxUnchoked \in Nat \ {0}
    /\ InitialDisk \subseteq [Block -> DiskState]
    /\ Responsive \subseteq Peer
    /\ Faults \subseteq FaultKind
    /\ MaxFaults \in Nat

VARIABLES
    peers,              \* Vec<ActivePeer>, as the addresses in it
    peer_choking,       \* the fields of each ActivePeer, keyed by address;
    peer_interested,    \* those of an address that is not in peers are
    am_choking,         \* the values ActivePeer::new would give them
    am_interested,
    have_pieces,        \* the pieces whose flag is set
    inflight_requests,
    requested_blocks,
    unchoked_peers,
    disk,               \* the kind of data each block has in the files
    stream,             \* the TCP stream of each peer, see StreamState
    owed,               \* how often peer c owes us each block
    told,               \* pieces peer c was told we have (Bitfield, Have)
    pc,                 \* where the main thread is
    cursor,             \* tick's loop variable i, from 1; 0 outside the loop
    endgame,            \* tick's snapshots
    availability,
    peers_to_remove,    \* tick's Vec of indices
    completed_pieces,   \* tick's list of pieces to broadcast
    faults              \* faults so far

peerVars == <<peer_choking, peer_interested, am_choking, am_interested,
              have_pieces, inflight_requests, requested_blocks>>
listVars == <<peers_to_remove, completed_pieces>>
snapVars == <<endgame, availability>>
netVars  == <<stream, owed, told, faults>>
vars == <<pmVars, peers, peerVars, unchoked_peers, disk, netVars, pc, cursor,
          listVars, snapVars>>

Phase == {"idle", "read", "choke", "interest", "request", "remove", "panicked"}

\* open: both ways work; closed: the peer closed in order, reads answer Ok(0)
\* once the buffer is empty and writes still succeed; reset: a RST arrived and
\* the next operation reports it; dead: it was reported, reads answer Ok(0) and
\* writes fail; none: there is no connection.
StreamState == {"none", "open", "closed", "reset", "dead"}

-----------------------------------------------------------------------------
Connected(c) == \E i \in DOMAIN peers : peers[i] = c

Current == peers[cursor]

Fault(kind) ==
    /\ kind \in Faults
    /\ faults < MaxFaults
    /\ faults' = faults + 1

\* The requests a peer received and did not answer: after a reset of its piece
\* a block can be asked of the same peer again.
NothingOwed == [b \in Block |-> 0]

Owed(c) == {b \in Block : owed[c][b] > 0}

\* send_message to peer c, on a non-blocking socket.  What it does to the
\* stream and the fault budget; `ok' is whether it returned Ok.
Sends(c, ok) ==
    \/ /\ ok
       /\ stream[c] \in {"open", "closed"}
       /\ UNCHANGED <<stream, faults>>
    \/ /\ ~ok
       /\ stream[c] \in {"reset", "dead"}
       /\ stream' = [stream EXCEPT ![c] = "dead"]
       /\ UNCHANGED faults
    \/ /\ ~ok
       /\ stream[c] = "open"
       /\ Fault("congest")
       /\ UNCHANGED stream

LastOf(p) == <<p, NumBlocks(p) - 1>>

\* The file ends before piece p does: its last block is not whole and nothing was
\* ever written after it.  The torrent is one file here; Storage has several.
EndsInside(p, d) ==
    /\ d[LastOf(p)] \in {"none", "part"}
    /\ \A b \in Block : b[1] > p => d[b] = "none"

\* verify_piece(p) when the files hold d: read_exact fails where the file ends
\* too soon; a gap before data reads as zeros, which do not match.
verify_piece(p, d) ==
    IF \A b \in BlocksOf(p) : d[b] = "good" THEN "ok"
    ELSE IF EndsInside(p, d) THEN "error"
    ELSE "mismatch"

\* Mutant: the loop over the pieces leaves out the last one.
Verified_NotLast(d) == {p \in Piece : p < TotalPieces - 1 /\ verify_piece(p, d) = "ok"}

Verified(d) == {p \in Piece : verify_piece(p, d) = "ok"}

\* Mutant: the loop runs once too often.
NextPeer_OneMore ==
    IF cursor <= Len(peers) THEN pc' = "read"   /\ cursor' = cursor + 1
                            ELSE pc' = "remove" /\ cursor' = 0

\* The loop goes on with the next peer, or ends.
NextPeer ==
    IF cursor < Len(peers) THEN pc' = "read"   /\ cursor' = cursor + 1
                           ELSE pc' = "remove" /\ cursor' = 0

Goto(phase) == pc' = phase /\ UNCHANGED cursor

\* peers_to_remove.push(i)
PushDead == peers_to_remove' = Append(peers_to_remove, cursor)

-----------------------------------------------------------------------------
Init ==
    /\ disk \in InitialDisk
    /\ Start(Verified(disk))
    /\ peers = <<>>
    /\ peer_choking = [c \in Peer |-> TRUE]
    /\ peer_interested = [c \in Peer |-> FALSE]
    /\ am_choking = [c \in Peer |-> TRUE]
    /\ am_interested = [c \in Peer |-> FALSE]
    /\ have_pieces = [c \in Peer |-> {}]
    /\ inflight_requests = [c \in Peer |-> 0]
    /\ requested_blocks = [c \in Peer |-> {}]
    /\ unchoked_peers = 0
    /\ stream = [c \in Peer |-> "none"]
    /\ owed = [c \in Peer |-> NothingOwed]
    /\ told = [c \in Peer |-> {}]
    /\ pc = "idle"
    /\ cursor = 0
    /\ endgame = FALSE
    /\ availability = [p \in Piece |-> 0]
    /\ peers_to_remove = <<>>
    /\ completed_pieces = {}
    /\ faults = 0

\* Mutants: the bitfield shows started pieces, or none.
get_bitfield_Started == Piece \ WithStatus("Missing")
get_bitfield_Empty == {}

already_connected(c) == Connected(c)

\* The pieces the bitfield shows.
get_bitfield == WithStatus("Complete")

\* add_peer, on a connection main took from its channel; main drops one whose
\* address is already in peers.  The remote learns our bitfield.  When that
\* cannot be sent nothing changes, so that case is no action.
add_peer(c) ==
    /\ pc = "idle"
    /\ ~already_connected(c)
    /\ peers' = Append(peers, c)
    /\ stream' = [stream EXCEPT ![c] = "open"]
    /\ told' = [told EXCEPT ![c] = get_bitfield]
    /\ UNCHANGED <<pmVars, peerVars, unchoked_peers, disk, owed, faults, pc,
                   cursor, listVars, snapVars>>

\* tick takes its two snapshots and enters the loop.  With no peers a tick
\* changes nothing.
TickBegin ==
    /\ pc = "idle"
    /\ peers # <<>>
    /\ endgame' = NothingMissing
    /\ availability' = [p \in Piece |-> Cardinality({c \in Peer : p \in have_pieces[c]})]
    /\ pc' = "read"
    /\ cursor' = 1
    /\ UNCHANGED <<pmVars, peers, peerVars, unchoked_peers, disk, netVars, listVars>>
-----------------------------------------------------------------------------
\* 1. Read messages.  A message can be read while the stream is open, or out of
\* the buffer of one that was closed in order.
Reading(c) ==
    /\ pc = "read"
    /\ c = Current
    /\ stream[c] \in {"open", "closed"}

\* Ok(None): no whole message has arrived, or the peer closed its connection.
\* The same state follows a message tick ignores (NotInterested, KeepAlive,
\* Cancel, Port) and a Request that is served, or is not because the peer is
\* choked or the block cannot be read.
ReadNothing ==
    /\ pc = "read"
    /\ stream[Current] # "reset"
    /\ Goto("choke")
    /\ UNCHANGED <<pmVars, peers, peerVars, unchoked_peers, disk, netVars,
                   listVars, snapVars>>

\* Err(_): a reset is reported, or the decoder rejects what arrived.  The peer
\* is put on the list and the loop body goes on.
ReadError ==
    /\ pc = "read"
    /\ \/ /\ stream[Current] = "reset"
          /\ stream' = [stream EXCEPT ![Current] = "dead"]
          /\ UNCHANGED faults
       \/ /\ Reading(Current)
          /\ Fault("garbage")
          /\ UNCHANGED stream
    /\ PushDead
    /\ Goto("choke")
    /\ UNCHANGED <<pmVars, peers, peerVars, unchoked_peers, disk, owed, told,
                   completed_pieces, snapVars>>

ReadChoke(c) ==
    /\ Reading(c)
    /\ Fault("choke")
    /\ peer_choking' = [peer_choking EXCEPT ![c] = TRUE]
    /\ owed' = [owed EXCEPT ![c] = NothingOwed]
    /\ Goto("choke")
    /\ UNCHANGED <<pmVars, peers, peer_interested, am_choking, am_interested,
                   have_pieces, inflight_requests, requested_blocks,
                   unchoked_peers, disk, stream, told, listVars, snapVars>>

ReadUnchoke(c) ==
    /\ Reading(c)
    /\ peer_choking' = [peer_choking EXCEPT ![c] = FALSE]
    /\ Goto("choke")
    /\ UNCHANGED <<pmVars, peers, peer_interested, am_choking, am_interested,
                   have_pieces, inflight_requests, requested_blocks,
                   unchoked_peers, disk, netVars, listVars, snapVars>>

\* Have and Bitfield only ever set flags, for the pieces the torrent has.
SetHave(c, ps) ==
    /\ Reading(c)
    /\ have_pieces' = [have_pieces EXCEPT ![c] = @ \cup ps]
    /\ Goto("choke")
    /\ UNCHANGED <<pmVars, peers, peer_choking, peer_interested, am_choking,
                   am_interested, inflight_requests, requested_blocks,
                   unchoked_peers, disk, netVars, listVars, snapVars>>

ReadHave(c) == \E p \in Content[c] : SetHave(c, {p})

ReadBitfield(c) == SetHave(c, Content[c])

\* The block after b in the torrent, which data longer than b run into; they are
\* not taken further here.
BlockAfter(b) ==
    Block \cap (IF b[2] + 1 < NumBlocks(b[1]) THEN {<<b[1], b[2] + 1>>}
                                             ELSE {<<b[1] + 1, 0>>})

\* What block b may hold once its first bytes, or none of them, are written.
AfterPart(b) ==
    IF disk[b] = "none" THEN {"none", "part"}
    ELSE IF disk[b] = "bad" THEN {"bad", "good"}
    ELSE {disk[b]}

\* What block d holds once wrong data, fewer or more than it has, run into it.
AfterOverrun(d, kind) == IF disk[d] \in {"none", "part"} THEN kind ELSE "bad"

\* write_block and its error path.  It is not told whether the block was wanted,
\* how long it should be or that its piece is complete.
WriteBlock(b, data) ==
    \/ /\ data \in {"good", "bad"}
       /\ disk' = [disk EXCEPT ![b] = data]
    \/ /\ data = "part"
       /\ \E kind \in AfterPart(b) : disk' = [disk EXCEPT ![b] = kind]
    \/ /\ data = "long"
       /\ \E kind \in {"part", "bad"} :
            disk' = [d \in Block |-> IF d = b THEN "good"
                                    ELSE IF d \in BlockAfter(b) THEN AfterOverrun(d, kind)
                                    ELSE disk[d]]

\* A Piece message: the whole handler.
PieceArrives(c, b, data) ==
    /\ Reading(c)
    /\ WriteBlock(b, data)
    /\ inflight_requests' = [inflight_requests EXCEPT ![c] = IF @ = 0 THEN 0 ELSE @ - 1]
    /\ requested_blocks' = [requested_blocks EXCEPT ![c] = @ \ {b}]
    /\ owed' = [owed EXCEPT ![c][b] = IF @ = 0 THEN 0 ELSE @ - 1]
    /\ BlockReceived(b, verify_piece(b[1], disk'))
    /\ completed_pieces' =
         IF piece_status'[b[1]] = "Complete" /\ piece_status[b[1]] # "Complete"
         THEN completed_pieces \cup {b[1]} ELSE completed_pieces
    /\ Goto("choke")
    /\ UNCHANGED <<peers, peer_choking, peer_interested, am_choking,
                   am_interested, have_pieces, unchoked_peers, stream, told,
                   peers_to_remove, snapVars>>

ReadPiece(c) ==
    \/ \E b \in Owed(c) : PieceArrives(c, b, "good") /\ UNCHANGED faults
    \/ \E b \in Owed(c) : PieceArrives(c, b, "bad") /\ Fault("corrupt")
    \/ \E b \in Owed(c) : PieceArrives(c, b, "long") /\ Fault("long")
    \/ \E b \in Owed(c) : PieceArrives(c, b, "part") /\ (Fault("short") \/ Fault("write"))
    \/ \E b \in Block \ Owed(c) : PieceArrives(c, b, "good") /\ Fault("stray")

\* A Request whose answer cannot be sent: the socket is full, or the reset
\* arrives between the read and the write.
ReadRequest(c) ==
    /\ Reading(c)
    /\ ~am_choking[c]
    /\ \/ /\ Fault("congest")
          /\ UNCHANGED <<stream, owed>>
       \/ /\ Fault("break")
          /\ stream' = [stream EXCEPT ![c] = "dead"]
          /\ owed' = [owed EXCEPT ![c] = NothingOwed]
    /\ PushDead
    /\ Goto("choke")
    /\ UNCHANGED <<pmVars, peers, peerVars, unchoked_peers, disk, told,
                   completed_pieces, snapVars>>

ReadInterested(c) ==
    /\ Reading(c)
    /\ peer_interested' = [peer_interested EXCEPT ![c] = TRUE]
    /\ Goto("choke")
    /\ UNCHANGED <<pmVars, peers, peer_choking, am_choking, am_interested,
                   have_pieces, inflight_requests, requested_blocks,
                   unchoked_peers, disk, netVars, listVars, snapVars>>
-----------------------------------------------------------------------------
\* Mutant: the limit is gone.
MayUnchoke_NoLimit(c) == peer_interested[c] /\ am_choking[c]

\* 2. Manage choking: unchoke an interested peer while there is a slot.
MayUnchoke(c) ==
    peer_interested[c] /\ am_choking[c] /\ unchoked_peers < MaxUnchoked

ManageChoking ==
    /\ pc = "choke"
    /\ \/ /\ ~MayUnchoke(Current)
          /\ UNCHANGED <<am_choking, unchoked_peers, stream, faults>>
       \/ /\ MayUnchoke(Current)
          /\ Sends(Current, TRUE)
          /\ am_choking' = [am_choking EXCEPT ![Current] = FALSE]
          /\ unchoked_peers' = unchoked_peers + 1
       \/ /\ MayUnchoke(Current)
          /\ Sends(Current, FALSE)
          /\ UNCHANGED <<am_choking, unchoked_peers>>
    /\ Goto("interest")
    /\ UNCHANGED <<pmVars, peers, peer_choking, peer_interested, am_interested,
                   have_pieces, inflight_requests, requested_blocks, disk, owed,
                   told, listVars, snapVars>>

\* 3. Manage interest: tell the peer we are interested unless we are done; when
\* that fails the peer is put on the list and the rest of the body is skipped.
MustInterest(c) == ~am_interested[c] /\ ~is_complete

ManageInterest ==
    /\ pc = "interest"
    /\ \/ /\ ~MustInterest(Current)
          /\ Goto("request")
          /\ UNCHANGED <<am_interested, stream, faults, peers_to_remove>>
       \/ /\ MustInterest(Current)
          /\ Sends(Current, TRUE)
          /\ am_interested' = [am_interested EXCEPT ![Current] = TRUE]
          /\ Goto("request")
          /\ UNCHANGED peers_to_remove
       \/ /\ MustInterest(Current)
          /\ Sends(Current, FALSE)
          /\ PushDead
          /\ NextPeer
          /\ UNCHANGED am_interested
    /\ UNCHANGED <<pmVars, peers, peer_choking, peer_interested, am_choking,
                   have_pieces, inflight_requests, requested_blocks,
                   unchoked_peers, disk, owed, told, completed_pieces, snapVars>>

\* Mutant: the pipeline takes one request too many.
MayRequest_OneMore(c) ==
    /\ ~peer_choking[c]
    /\ am_interested[c]
    /\ inflight_requests[c] <= MaxInflight

\* 4. Request blocks, one per peer and tick.
MayRequest(c) ==
    /\ ~peer_choking[c]
    /\ am_interested[c]
    /\ inflight_requests[c] < MaxInflight

\* Mutant: every tick asks as in the endgame.
Eligible_Endgame(c) ==
    {b \in Block :
        /\ Queued(b[1])
        /\ b[1] \in have_pieces[c]
        /\ b \notin downloaded
        /\ b \notin requested_blocks[c]}

\* Blocks of queued pieces tick would ask c for.
Eligible(c) ==
    {b \in Block :
        /\ Queued(b[1])
        /\ b[1] \in have_pieces[c]
        /\ b \notin downloaded
        /\ b \notin requested_blocks[c]
        /\ endgame \/ b \notin requested}

\* The one it asks for: the first of its piece, of the first such piece queued.
FirstEligible(b, c) ==
    /\ b \in Eligible(c)
    /\ \A d \in Eligible(c) :
        \/ PlaceOf(b[1]) < PlaceOf(d[1])
        \/ b[1] = d[1] /\ b[2] <= d[2]

MayStart(c) == ~endgame /\ Candidates(have_pieces[c]) # {}

\* Mutant: the request is not counted.
Asked_Uncounted(c, b) ==
    /\ requested_blocks' = [requested_blocks EXCEPT ![c] = @ \cup {b}]
    /\ owed' = IF stream[c] = "open" THEN [owed EXCEPT ![c][b] = @ + 1] ELSE owed
    /\ UNCHANGED inflight_requests

\* The bookkeeping of a Request that was sent to c for block b; a peer that has
\* closed its connection owes no answer to it.
Asked(c, b) ==
    /\ inflight_requests' = [inflight_requests EXCEPT ![c] = @ + 1]
    /\ requested_blocks' = [requested_blocks EXCEPT ![c] = @ \cup {b}]
    /\ owed' = IF stream[c] = "open" THEN [owed EXCEPT ![c][b] = @ + 1] ELSE owed

RequestFrame ==
    UNCHANGED <<peers, peer_choking, peer_interested, am_choking,
                am_interested, have_pieces, unchoked_peers, disk, told,
                listVars, snapVars>>

Requesting(c) ==
    /\ pc = "request"
    /\ c = Current
    /\ NextPeer
    /\ RequestFrame

\* Mutant: the search through the queue drops the pieces this peer lacks.
RequestNothing_Prunes(c) ==
    /\ Requesting(c)
    /\ ~MayRequest(c) \/ (Eligible(c) = {} /\ ~MayStart(c))
    /\ downloading_pieces' = SelectSeq(downloading_pieces, LAMBDA p : p \in have_pieces[c])
    /\ UNCHANGED <<piece_status, pieces_complete, downloaded, requested, downloaded_count,
                   inflight_requests, requested_blocks, owed, stream, faults>>

RequestNothing(c) ==
    /\ Requesting(c)
    /\ ~MayRequest(c) \/ (Eligible(c) = {} /\ ~MayStart(c))
    /\ UNCHANGED <<pmVars, inflight_requests, requested_blocks, owed, stream, faults>>

\* The socket refuses a Request, and takes a later one of the same tick.
SendsLater(c) ==
    /\ stream[c] = "open"
    /\ Fault("congest")
    /\ UNCHANGED stream

\* Continue a piece of the queue.  The loops stop at the first Request that
\* could be sent, not at the first that was tried.
RequestContinue(c) ==
    /\ Requesting(c)
    /\ MayRequest(c)
    /\ \E b \in Eligible(c) :
        /\ \/ FirstEligible(b, c) /\ Sends(c, TRUE)
           \/ ~FirstEligible(b, c) /\ SendsLater(c)
        /\ RequestBlock(b)
        /\ Asked(c, b)

\* Start a new piece and ask for its first block.  When no Request can be sent
\* the piece is started all the same, with no block asked for.
RequestNew(c) ==
    /\ Requesting(c)
    /\ MayRequest(c)
    /\ MayStart(c)
    /\ \E p \in Piece :
        /\ NextNeeded(p, have_pieces[c], availability)
        /\ \/ /\ IF Eligible(c) = {} THEN Sends(c, TRUE) ELSE SendsLater(c)
              /\ start_downloading(p, TRUE)
              /\ Asked(c, <<p, 0>>)
           \/ /\ Sends(c, FALSE)
              /\ start_downloading(p, FALSE)
              /\ UNCHANGED <<inflight_requests, requested_blocks, owed>>

\* No Request for the queue can be sent and no piece can be started.
RequestFails(c) ==
    /\ Requesting(c)
    /\ MayRequest(c)
    /\ Eligible(c) # {}
    /\ ~MayStart(c)
    /\ Sends(c, FALSE)
    /\ UNCHANGED <<pmVars, inflight_requests, requested_blocks, owed>>
-----------------------------------------------------------------------------
\* The ActivePeer of c is dropped; its connection with it.  unchoked_peers is
\* not touched.
DropPeer(c) ==
    /\ peer_choking' = [peer_choking EXCEPT ![c] = TRUE]
    /\ peer_interested' = [peer_interested EXCEPT ![c] = FALSE]
    /\ am_choking' = [am_choking EXCEPT ![c] = TRUE]
    /\ am_interested' = [am_interested EXCEPT ![c] = FALSE]
    /\ have_pieces' = [have_pieces EXCEPT ![c] = {}]
    /\ inflight_requests' = [inflight_requests EXCEPT ![c] = 0]
    /\ requested_blocks' = [requested_blocks EXCEPT ![c] = {}]
    /\ stream' = [stream EXCEPT ![c] = "none"]
    /\ owed' = [owed EXCEPT ![c] = NothingOwed]
    /\ told' = [told EXCEPT ![c] = {}]

\* Mutant: the indices are taken from the first to the last.
RemoveDead_Forward ==
    /\ pc = "remove"
    /\ peers_to_remove # <<>>
    /\ Head(peers_to_remove) \in DOMAIN peers
    /\ peers' = RemoveAt(peers, Head(peers_to_remove))
    /\ DropPeer(peers[Head(peers_to_remove)])
    /\ peers_to_remove' = Tail(peers_to_remove)
    /\ UNCHANGED <<pmVars, unchoked_peers, disk, faults, pc, cursor,
                   completed_pieces, snapVars>>

\* self.peers.remove(i), for the indices of the list from the last to the first.
RemoveDead ==
    /\ pc = "remove"
    /\ peers_to_remove # <<>>
    /\ Last(peers_to_remove) \in DOMAIN peers
    /\ peers' = RemoveAt(peers, Last(peers_to_remove))
    /\ DropPeer(peers[Last(peers_to_remove)])
    /\ peers_to_remove' = Front(peers_to_remove)
    /\ UNCHANGED <<pmVars, unchoked_peers, disk, faults, pc, cursor,
                   completed_pieces, snapVars>>

\* Vec::remove panics on an index that is out of range.
RemovePanics ==
    /\ pc = "remove"
    /\ peers_to_remove # <<>>
    /\ Last(peers_to_remove) \notin DOMAIN peers
    /\ pc' = "panicked"
    /\ UNCHANGED <<pmVars, peers, peerVars, unchoked_peers, disk, netVars,
                   cursor, listVars, snapVars>>

\* broadcast_have for each completed piece, errors ignored, and tick returns.
\* `lost' are the peers whose socket did not take the messages.
BroadcastHave ==
    /\ pc = "remove"
    /\ peers_to_remove = <<>>
    /\ \E lost \in SUBSET {c \in Peer : stream[c] = "open"} :
         /\ IF lost = {} THEN UNCHANGED faults
            ELSE completed_pieces # {} /\ Fault("congest")
         /\ told' = [c \in Peer |->
              IF stream[c] = "open" /\ c \notin lost
              THEN told[c] \cup completed_pieces ELSE told[c]]
    /\ stream' = [c \in Peer |->
         IF stream[c] = "reset" /\ completed_pieces # {} THEN "dead" ELSE stream[c]]
    /\ completed_pieces' = {}
    /\ endgame' = FALSE
    /\ availability' = [p \in Piece |-> 0]
    /\ pc' = "idle"
    /\ UNCHANGED <<pmVars, peers, peerVars, unchoked_peers, disk, owed, cursor,
                   peers_to_remove>>
-----------------------------------------------------------------------------
\* The remote side and the network.
PeerCloses(c) ==
    /\ pc # "panicked"
    /\ stream[c] = "open"
    /\ Fault("close")
    /\ stream' = [stream EXCEPT ![c] = "closed"]
    /\ UNCHANGED <<pmVars, peers, peerVars, unchoked_peers, disk, owed, told,
                   pc, cursor, listVars, snapVars>>

PeerResets(c) ==
    /\ pc # "panicked"
    /\ stream[c] \in {"open", "closed"}
    /\ Fault("break")
    /\ stream' = [stream EXCEPT ![c] = IF @ = "open" THEN "reset" ELSE "dead"]
    /\ owed' = [owed EXCEPT ![c] = NothingOwed]
    /\ UNCHANGED <<pmVars, peers, peerVars, unchoked_peers, disk, told, pc,
                   cursor, listVars, snapVars>>

\* The program dies, by a crash at any point or by the panic, and is started
\* again: nothing survives but the files, which verify_existing_pieces reads.
Restart ==
    /\ \/ pc = "panicked" /\ UNCHANGED faults
       \/ pc # "panicked" /\ Fault("crash")
    /\ verify_existing_pieces(Verified(disk))
    /\ peers' = <<>>
    /\ peer_choking' = [c \in Peer |-> TRUE]
    /\ peer_interested' = [c \in Peer |-> FALSE]
    /\ am_choking' = [c \in Peer |-> TRUE]
    /\ am_interested' = [c \in Peer |-> FALSE]
    /\ have_pieces' = [c \in Peer |-> {}]
    /\ inflight_requests' = [c \in Peer |-> 0]
    /\ requested_blocks' = [c \in Peer |-> {}]
    /\ unchoked_peers' = 0
    /\ stream' = [c \in Peer |-> "none"]
    /\ owed' = [c \in Peer |-> NothingOwed]
    /\ told' = [c \in Peer |-> {}]
    /\ pc' = "idle"
    /\ cursor' = 0
    /\ endgame' = FALSE
    /\ availability' = [p \in Piece |-> 0]
    /\ peers_to_remove' = <<>>
    /\ completed_pieces' = {}
    /\ UNCHANGED disk
-----------------------------------------------------------------------------
\* The steps of the main thread.
TickStep ==
    \/ TickBegin
    \/ ReadNothing
    \/ ReadError
    \/ \E c \in Peer :
        \/ ReadChoke(c)
        \/ ReadUnchoke(c)
        \/ ReadHave(c)
        \/ ReadBitfield(c)
        \/ ReadPiece(c)
        \/ ReadRequest(c)
        \/ ReadInterested(c)
    \/ ManageChoking
    \/ ManageInterest
    \/ \E c \in Peer :
        \/ RequestNothing(c)
        \/ RequestContinue(c)
        \/ RequestNew(c)
        \/ RequestFails(c)
    \/ RemoveDead
    \/ RemovePanics
    \/ BroadcastHave

Next ==
    \/ TickStep
    \/ \E c \in Peer : add_peer(c) \/ PeerCloses(c) \/ PeerResets(c)
    \/ Restart

Spec == Init /\ [][Next]_vars

\* main calls tick in a loop that nothing stops, so its next step is always
\* taken in the end.  A responsive peer is found and connected, says what it
\* has, unchokes us and answers what it owes, each in the end if it can again
\* and again: an assumption on the remote side, made for these peers only.
Fairness ==
    /\ WF_vars(TickStep)
    /\ \A c \in Responsive :
        /\ SF_vars(add_peer(c))
        /\ SF_vars(ReadBitfield(c))
        /\ SF_vars(ReadUnchoke(c))
        /\ SF_vars(ReadPiece(c))

FairSpec == Spec /\ Fairness
-----------------------------------------------------------------------------
\* The types of the peers' fields, of the world outside and of tick's locals;
\* those of the piece manager are in PMTypeOK.
PeerTypeOK ==
    /\ peer_choking \in [Peer -> BOOLEAN]
    /\ peer_interested \in [Peer -> BOOLEAN]
    /\ am_choking \in [Peer -> BOOLEAN]
    /\ am_interested \in [Peer -> BOOLEAN]
    /\ have_pieces \in [Peer -> SUBSET Piece]
    /\ inflight_requests \in [Peer -> Nat]
    /\ requested_blocks \in [Peer -> SUBSET Block]
    /\ unchoked_peers \in Nat

NetTypeOK ==
    /\ disk \in [Block -> DiskState]
    /\ stream \in [Peer -> StreamState]
    /\ owed \in [Peer -> [Block -> Nat]]
    /\ told \in [Peer -> SUBSET Piece]
    /\ faults \in 0..MaxFaults

TickTypeOK ==
    /\ peers \in Seq(Peer)
    /\ pc \in Phase
    /\ cursor \in 0..Len(peers)
    /\ endgame \in BOOLEAN
    /\ availability \in [Piece -> Nat]
    /\ peers_to_remove \in Seq(Nat)
    /\ completed_pieces \subseteq Piece

\* Type invariant of the download manager: the three groups above.
DMTypeOK == PeerTypeOK /\ NetTypeOK /\ TickTypeOK

\* A piece we call complete, count, advertise and serve has all its bytes right
\* on disk, for as long as we call it so: no late or duplicate block, failed
\* write or restart spoils it.  (write_block, mark_complete, get_bitfield.)
CompleteIsVerified ==
    \A p \in WithStatus("Complete") : \A b \in BlocksOf(p) : disk[b] = "good"

Unchoked == {c \in Peer : ~am_choking[c]}

\* We upload to no more peers than the counter says, and the counter stays
\* within its limit, whatever peers come, fail and go.
UploadSlots ==
    /\ Cardinality(Unchoked) <= unchoked_peers
    /\ unchoked_peers <= MaxUnchoked

\* A peer is only asked for a block while fewer than MaxInflight requests count
\* as unanswered; that count never exceeds the requests tick remembers, and every
\* request the peer still owes is remembered, whatever was answered, dropped by a
\* choke or sent unasked.
PipelineBounded ==
    \A c \in Peer :
        /\ inflight_requests[c] <= MaxInflight
        /\ inflight_requests[c] <= Cardinality(requested_blocks[c])
        /\ Owed(c) \subseteq requested_blocks[c]

\* The requests a peer owes an answer to, those for the same block numbered.
OwedRequests(c) == UNION {{b} \X (1..owed[c][b]) : b \in Block}

\* With peers that answer what they were asked and no more, the counter is
\* exactly the number of requests an open peer owes: no slot of the pipeline is
\* lost or used twice.
SlotsExact ==
    \A c \in Peer : stream[c] = "open" =>
        inflight_requests[c] = Cardinality(OwedRequests(c))

\* In a tick that is not in endgame mode no block is asked of a peer while
\* another one owes it, though the flag that prevents it belongs to the block
\* and the list of what is outstanding to each peer.
NormalModeAsksOnce ==
    [][~endgame => \A c, d \in Peer :
          c # d => \A b \in Owed(d) : owed'[c][b] <= owed[c][b]]_vars

\* Between two ticks every peer whose connection works was told of exactly the
\* pieces we have: none is missed by a peer that joins while pieces complete,
\* none is announced before it is verified.
AdvertisedExactly ==
    pc = "idle" =>
        \A c \in Peer : stream[c] = "open" => told[c] = WithStatus("Complete")

\* At no time was a peer told of a piece we do not have.
NeverOveradvertised ==
    \A c \in Peer : told[c] \subseteq WithStatus("Complete")

\* A piece whose blocks have all arrived is left Downloading, with nothing to ask
\* for again, in one case only: its last block is not right on disk.  Whatever else
\* is wrong with it makes it missing, and nothing wrong makes it complete.  (The
\* three arms of `match verify_piece'; the case is that of Err.)
LimboIsCut ==
    \A p \in WithStatus("Downloading") :
        BlocksOf(p) \subseteq downloaded => disk[LastOf(p)] # "good"

\* The loop variable names a peer exactly while the loop runs, and nothing of a
\* tick is left over when it returns.
LoopScoped ==
    /\ pc \in {"read", "choke", "interest", "request"} <=> cursor # 0
    /\ pc = "idle" => peers_to_remove = <<>> /\ completed_pieces = {}

\* There is one connection, and one ActivePeer, for each address, whatever was
\* removed from the middle of the Vec.
OneActivePeer ==
    /\ \A c \in Peer : Connected(c) <=> stream[c] # "none"
    /\ \A j, k \in DOMAIN peers : peers[j] = peers[k] => j = k

\* tick's own state is in order: the two above.
TickScoped == LoopScoped /\ OneActivePeer

\* The removal of dead peers never goes out of range.
NoPanic == pc # "panicked"

\* Between ticks the counter is the number of peers we are uploading to.
SlotsFollowUploads == pc = "idle" => unchoked_peers = Cardinality(Unchoked)

\* A piece, once complete, stays complete: across duplicate blocks, failed
\* verifications, failed writes and restarts.
NeverUncompleted ==
    [][\A p \in Piece : piece_status[p] = "Complete" => piece_status'[p] = "Complete"]_vars

\* No peer sends wrong data, or too much of it.
RightData == Faults \cap {"corrupt", "long"} = {}

\* Only a peer whose connection failed is removed from the list by tick.
Failed(c) == stream[c] \in {"reset", "dead"}

RemovesOnlyFailed ==
    [][\A c \in Peer : Connected(c) /\ ~Connected(c)' /\ pc = "remove" => Failed(c)]_vars

\* Every piece a responsive peer has is complete in the end.
ObtainableCompletes ==
    \A p \in Piece :
        (\E c \in Responsive : p \in Content[c]) => <>(piece_status[p] = "Complete")

\* A peer whose connection is closed or broken is dropped in the end.
LostPeerIsDropped ==
    \A c \in Peer : stream[c] \in {"closed", "reset"} ~> ~Connected(c)
=============================================================================
