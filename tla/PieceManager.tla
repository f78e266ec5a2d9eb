---------------------------- MODULE PieceManager ----------------------------
(***************************************************************************)
(* The piece manager of src/src/download/manager.rs: which pieces of the   *)
(* torrent are missing, being downloaded or complete, and, for the pieces  *)
(* being downloaded, which of their blocks were asked for and arrived.     *)
(*                                                                         *)
(* A block is a pair <<piece, position>>.  The PieceState of a piece in    *)
(* downloading_pieces is spread over three variables keyed by its blocks   *)
(* or its index: `downloaded' and `requested' hold the blocks whose flag   *)
(* is set, downloaded_count[p] its counter.  An entry of the queue is just *)
(* the index of its piece; QueueIsDownloading shows that two entries never *)
(* share an index, which is what lets them be keyed so.                    *)
(***************************************************************************)
EXTENDS Integers, FiniteSets, SequencesExt

CONSTANTS
    TotalPieces,     \* piece_manager.total_pieces
    BlocksPerPiece,  \* blocks of every piece but the last
    LastBlocks       \* blocks of the last piece, from last_piece_length

ASSUME LayoutAssumption ==
    /\ TotalPieces \in Nat \ {0}
    /\ BlocksPerPiece \in Nat \ {0}
    /\ LastBlocks \in 1..BlocksPerPiece

Piece == 0..(TotalPieces - 1)

\* start_downloading gives the last piece its own length, and PieceState::new
\* cuts a length into blocks: at least one, because no length is zero.
NumBlocks(p) == IF p = TotalPieces - 1 THEN LastBlocks ELSE BlocksPerPiece

BlocksOf(p) == {p} \X (0..(NumBlocks(p) - 1))

Block == UNION {BlocksOf(p) : p \in Piece}

Status == {"Missing", "Downloading", "Complete"}

\* What verify_piece answers about a piece on disk: Ok(true), Ok(false), Err.
Verdict == {"ok", "mismatch", "error"}

VARIABLES
    piece_status,        \* the status of each piece
    pieces_complete,     \* the counter is_complete() compares with total_pieces
    downloading_pieces,  \* the queue of pieces being downloaded
    downloaded,          \* blocks with BlockInfo.downloaded
    requested,           \* blocks with BlockInfo.requested
    downloaded_count     \* PieceState.downloaded_count (0 without a PieceState)

pmVars == <<piece_status, pieces_complete, downloading_pieces, downloaded,
            requested, downloaded_count>>

-----------------------------------------------------------------------------
WithStatus(s) == {p \in Piece : piece_status[p] = s}

Queued(p) == \E k \in DOMAIN downloading_pieces : downloading_pieces[k] = p

is_complete == pieces_complete = TotalPieces

\* tick's endgame test: no piece is Missing.
NothingMissing == \A p \in Piece : piece_status[p] # "Missing"

\* get_next_needed_piece returns p: of the missing pieces the peer has, the
\* least available one; the stable sort leaves the lowest index among equals.
Candidates(have) == {p \in WithStatus("Missing") : p \in have}

NextNeeded(p, have, availability) ==
    /\ p \in Candidates(have)
    /\ \A q \in Candidates(have) :
        \/ availability[p] < availability[q]
        \/ availability[p] = availability[q] /\ p <= q

-----------------------------------------------------------------------------
\* The place of a queued piece.
PlaceOf(p) == CHOOSE k \in DOMAIN downloading_pieces : downloading_pieces[k] = p

\* Mutant: the flags of the old attempt stay.
DropPieceState_KeepsFlags(p) ==
    /\ downloading_pieces' = IF Queued(p) THEN RemoveAt(downloading_pieces, PlaceOf(p))
                                          ELSE downloading_pieces
    /\ downloaded' = downloaded \ BlocksOf(p)
    /\ downloaded_count' = [downloaded_count EXCEPT ![p] = 0]
    /\ UNCHANGED requested

\* downloading_pieces.retain(|p| p.index != index), which drops the PieceState.
DropPieceState(p) ==
    /\ downloading_pieces' = IF Queued(p) THEN RemoveAt(downloading_pieces, PlaceOf(p))
                                          ELSE downloading_pieces
    /\ downloaded' = downloaded \ BlocksOf(p)
    /\ requested' = requested \ BlocksOf(p)
    /\ downloaded_count' = [downloaded_count EXCEPT ![p] = 0]

\* Mutant: a completed piece stays in the queue.
mark_complete_KeepsEntry(p) ==
    /\ piece_status' = [piece_status EXCEPT ![p] = "Complete"]
    /\ pieces_complete' = pieces_complete + 1
    /\ UNCHANGED <<downloading_pieces, downloaded, requested, downloaded_count>>

mark_complete(p) ==
    IF piece_status[p] = "Complete"
    THEN UNCHANGED pmVars
    ELSE /\ piece_status' = [piece_status EXCEPT ![p] = "Complete"]
         /\ pieces_complete' = pieces_complete + 1
         /\ DropPieceState(p)

\* Mutants: a reset takes the piece off the counter, or leaves its status.
reset_piece_Uncounts(p) ==
    /\ piece_status' = [piece_status EXCEPT ![p] = "Missing"]
    /\ pieces_complete' = pieces_complete - 1
    /\ DropPieceState(p)

reset_piece_KeepsStatus(p) ==
    /\ DropPieceState(p)
    /\ UNCHANGED <<piece_status, pieces_complete>>

reset_piece(p) ==
    /\ piece_status' = [piece_status EXCEPT ![p] = "Missing"]
    /\ DropPieceState(p)
    /\ UNCHANGED pieces_complete

\* start_downloading(p) on a missing piece, and the request for its first
\* block that follows it in tick when that request could be sent.
start_downloading(p, first_sent) ==
    /\ piece_status[p] = "Missing"
    /\ piece_status' = [piece_status EXCEPT ![p] = "Downloading"]
    /\ downloading_pieces' = Append(downloading_pieces, p)
    /\ requested' = IF first_sent THEN requested \cup {<<p, 0>>} ELSE requested
    /\ UNCHANGED <<pieces_complete, downloaded, downloaded_count>>

\* tick sets BlockInfo.requested on a block of a queued piece.
RequestBlock(b) ==
    /\ Queued(b[1])
    /\ requested' = requested \cup {b}
    /\ UNCHANGED <<piece_status, pieces_complete, downloading_pieces,
                   downloaded, downloaded_count>>

\* Mutant: every arrival counts.
CountWith_Always(b) == downloaded_count[b[1]] + 1

\* The count after block b of a queued piece arrived: it grows only for a
\* block that was not downloaded yet.
CountWith(b) ==
    IF b \in downloaded THEN downloaded_count[b[1]]
                        ELSE downloaded_count[b[1]] + 1

SetDownloaded(b) ==
    /\ downloaded' = downloaded \cup {b}
    /\ downloaded_count' = [downloaded_count EXCEPT ![b[1]] = CountWith(b)]
    /\ UNCHANGED <<piece_status, pieces_complete, downloading_pieces, requested>>

\* Mutants: a full piece that cannot be verified is complete, or the counter is
\* tested before the block that arrived is counted.
BlockReceived_ErrorIsOk(b, verdict) ==
    LET full == CountWith(b) = NumBlocks(b[1]) IN
    \/ ~Queued(b[1]) /\ UNCHANGED pmVars
    \/ Queued(b[1]) /\ ~full /\ SetDownloaded(b)
    \/ Queued(b[1]) /\ full /\ verdict # "mismatch" /\ mark_complete(b[1])
    \/ Queued(b[1]) /\ full /\ verdict = "mismatch" /\ reset_piece(b[1])

BlockReceived_TestsFirst(b, verdict) ==
    LET full == downloaded_count[b[1]] = NumBlocks(b[1]) IN
    \/ ~Queued(b[1]) /\ UNCHANGED pmVars
    \/ Queued(b[1]) /\ (~full \/ verdict = "error") /\ SetDownloaded(b)
    \/ Queued(b[1]) /\ full /\ verdict = "ok" /\ mark_complete(b[1])
    \/ Queued(b[1]) /\ full /\ verdict = "mismatch" /\ reset_piece(b[1])

\* The part of tick's Piece handler that follows the write: mark the block,
\* and verify the piece when its last block arrived.  An Err verdict leaves
\* the piece as it is, full and Downloading.
BlockReceived(b, verdict) ==
    LET full == CountWith(b) = NumBlocks(b[1]) IN
    \/ ~Queued(b[1]) /\ UNCHANGED pmVars
    \/ Queued(b[1]) /\ ~full /\ SetDownloaded(b)
    \/ Queued(b[1]) /\ full /\ verdict = "error" /\ SetDownloaded(b)
    \/ Queued(b[1]) /\ full /\ verdict = "ok" /\ mark_complete(b[1])
    \/ Queued(b[1]) /\ full /\ verdict = "mismatch" /\ reset_piece(b[1])

-----------------------------------------------------------------------------
\* PieceManager::new followed by verify_existing_pieces, which found the
\* pieces `good' verified on disk: main runs the two before anything else.
Start(good) ==
    /\ piece_status = [p \in Piece |-> IF p \in good THEN "Complete" ELSE "Missing"]
    /\ pieces_complete = Cardinality(good)
    /\ downloading_pieces = <<>>
    /\ downloaded = {}
    /\ requested = {}
    /\ downloaded_count = [p \in Piece |-> 0]

\* Mutant: the pieces found are added to those counted before.
verify_existing_pieces_Adds(good) ==
    /\ piece_status' = [p \in Piece |-> IF p \in good THEN "Complete" ELSE "Missing"]
    /\ pieces_complete' = pieces_complete + Cardinality(good)
    /\ downloading_pieces' = <<>>
    /\ downloaded' = {}
    /\ requested' = {}
    /\ downloaded_count' = [p \in Piece |-> 0]

verify_existing_pieces(good) ==
    /\ piece_status' = [p \in Piece |-> IF p \in good THEN "Complete" ELSE "Missing"]
    /\ pieces_complete' = Cardinality(good)
    /\ downloading_pieces' = <<>>
    /\ downloaded' = {}
    /\ requested' = {}
    /\ downloaded_count' = [p \in Piece |-> 0]

PMInit == \E good \in SUBSET Piece : Start(good)

\* What a caller may do with a piece manager.
PMNext ==
    \/ \E p \in Piece, sent \in BOOLEAN : start_downloading(p, sent)
    \/ \E b \in Block : RequestBlock(b)
    \/ \E b \in Block, verdict \in Verdict : BlockReceived(b, verdict)
    \/ \E good \in SUBSET Piece : verify_existing_pieces(good)

\* Every change of the pieces, the queue and the block flags is one of its
\* operations; the download manager is shown to implement this.
PMSpec == PMInit /\ [][PMNext]_pmVars

-----------------------------------------------------------------------------
\* Type invariant of the piece manager.
PMTypeOK ==
    /\ piece_status \in [Piece -> Status]
    /\ pieces_complete \in Nat
    /\ downloading_pieces \in Seq(Piece)
    /\ downloaded \subseteq Block
    /\ requested \subseteq Block
    /\ downloaded_count \in [Piece -> Nat]

\* The counter that decides is_complete(), the endgame and the announce of a
\* finished download never drifts from the statuses it stands for.
CompleteCountExact == pieces_complete = Cardinality(WithStatus("Complete"))

\* downloading_pieces holds exactly the pieces that are Downloading, each once:
\* `find(|p| p.index == index)' cannot meet a stale or a second PieceState.
QueueIsDownloading ==
    /\ \A p \in Piece : Queued(p) <=> piece_status[p] = "Downloading"
    /\ \A j, k \in DOMAIN downloading_pieces :
            downloading_pieces[j] = downloading_pieces[k] => j = k

\* downloaded_count, which decides that a piece is full, counts the distinct
\* blocks that arrived, however often and by whomever they were sent.
BlockCountExact ==
    \A p \in Piece : downloaded_count[p] = Cardinality(downloaded \cap BlocksOf(p))

\* Block flags exist only inside the PieceState of a queued piece: no flag of
\* an earlier attempt survives a reset.
FlagsOnlyInQueue == \A b \in downloaded \cup requested : Queued(b[1])

\* The inductive invariant of the piece manager: all of the above.
PMInv ==
    /\ PMTypeOK
    /\ CompleteCountExact
    /\ QueueIsDownloading
    /\ BlockCountExact
    /\ FlagsOnlyInQueue
=============================================================================
