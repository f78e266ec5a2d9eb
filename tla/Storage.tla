------------------------------- MODULE Storage -------------------------------
(***************************************************************************)
(* src/src/storage/files.rs: the pieces of a torrent laid over its files,  *)
(* byte by byte.  write_block is one step per round of its loop, so that   *)
(* it may fail, or the program die, with some of the files written; the    *)
(* operations that only read are operators of the state.                   *)
(*                                                                         *)
(* Bytes are numbers: o + 1 is the torrent's byte at offset o, Junk any    *)
(* other one, and Zero what a hole in a file reads as.                     *)
(***************************************************************************)
EXTENDS MetaInfo

CONSTANTS
    Torrents,   \* the MetaInfos of the torrents
    BlockSize   \* BLOCK_SIZE of manager.rs

ASSUME StorageAssumption ==
    /\ BlockSize \in Nat \ {0}
    /\ \A m \in Torrents : /\ m.pieces \in Nat /\ m.files \in Seq(Nat)
                           /\ m.piece_length \in Nat \ {0}
                           /\ Converts(m)

\* The torrents after the conversion, which is what FileManager::new is given.
Layouts == {to_torrent_info(m) : m \in Torrents}

Zero == 0
Junk == -1
None == -2

VARIABLES
    layout,          \* the torrent's files and piece length, from its TorrentInfo
    content,         \* the bytes of each file
    exists,          \* the files that exist
    writing,         \* whether write_block is running, and its locals:
    file,            \* the file of the loop's round
    current_offset,  \* where the next byte goes
    remaining_data,  \* and what is left to write
    result           \* what the last write_block returned

locals == <<writing, file, current_offset, remaining_data>>
vars == <<layout, content, exists, locals, result>>

files == layout.files
piece_length == layout.piece_length

\* file_start_offset in the round of file f, and file_end_offset.
Start(f) == FileStart(files, f)
End(f) == Start(f) + files[f]

total_size == Start(Len(files) + 1)

\* One hash for each piece.
total_pieces == layout.num_pieces

Piece == 0..(total_pieces - 1)

-----------------------------------------------------------------------------
\* Mutant: a last piece of full length has length zero.
last_piece_length_Rest == total_size % piece_length

\* PieceManager::new.
last_piece_length ==
    LET rest == total_size % piece_length IN
    IF rest = 0 THEN piece_length ELSE rest

\* The length that start_downloading cuts into blocks.
length_to_download(p) ==
    IF p = total_pieces - 1 THEN last_piece_length ELSE piece_length

\* PieceState::new: the blocks of a piece, as <<begin, length>>.
BlocksOf(p) ==
    {<<k * BlockSize, Least(BlockSize, length_to_download(p) - k * BlockSize)>> :
        k \in {k \in 0..length_to_download(p) : k * BlockSize < length_to_download(p)}}

\* FileManager has the rule of the last piece once more, for what it reads.
get_piece_length(p) ==
    LET remainder == total_size % piece_length IN
    IF p = total_pieces - 1 /\ remainder # 0 THEN remainder ELSE piece_length

-----------------------------------------------------------------------------
\* The file of a round holds the next byte.
InFile == current_offset >= Start(file) /\ current_offset < End(file)

offset_in_file == current_offset - Start(file)

\* Mutant: the end of the file does not limit the write.
bytes_to_write_All == Len(remaining_data)

bytes_to_write == Least(Len(remaining_data), files[file] - offset_in_file)

\* Mutant: opening the file for the write empties it.
Put_Truncates(old, offset, bytes) ==
    [k \in 1..(offset + Len(bytes)) |-> IF k > offset THEN bytes[k - offset] ELSE Zero]

\* What a file holds after bytes were written at an offset: a gap before them
\* is filled with zeros, and writing nothing changes nothing.
Put(old, offset, bytes) ==
    IF bytes = <<>> THEN old
    ELSE [k \in 1..(IF Len(old) > offset + Len(bytes) THEN Len(old)
                                                   ELSE offset + Len(bytes)) |->
            IF k \in (offset + 1)..(offset + Len(bytes)) THEN bytes[k - offset]
            ELSE IF k <= Len(old) THEN old[k] ELSE Zero]

\* The first n of the remaining bytes reach the file, which is created.
WriteToFile(n) ==
    /\ content' = [content EXCEPT ![file] =
                     Put(@, offset_in_file, SubSeq(remaining_data, 1, n))]
    /\ exists' = exists \cup {file}

Return(r) ==
    /\ result' = r
    /\ writing' = FALSE
    /\ file' = 1
    /\ current_offset' = 0
    /\ remaining_data' = <<>>

Init ==
    /\ layout \in Layouts
    /\ content = [f \in DOMAIN files |-> <<>>]
    /\ exists = {}
    /\ writing = FALSE
    /\ file = 1
    /\ current_offset = 0
    /\ remaining_data = <<>>
    /\ result = "ok"

\* write_block is called with what a Piece message says: nothing checks the
\* piece, the offset in it or the number of bytes.
write_block(p, begin, data) ==
    /\ ~writing
    /\ writing' = TRUE
    /\ file' = 1
    /\ current_offset' = p * piece_length + begin
    /\ remaining_data' = data
    /\ UNCHANGED <<layout, content, exists, result>>

\* A round of the loop that finds nothing to write in its file.
SkipFile ==
    /\ writing
    /\ file \in DOMAIN files
    /\ ~InFile
    /\ file' = file + 1
    /\ UNCHANGED <<layout, content, exists, writing, current_offset,
                   remaining_data, result>>

\* A round that writes: the loop ends when no data are left.
WriteFile ==
    /\ writing
    /\ file \in DOMAIN files
    /\ InFile
    /\ WriteToFile(bytes_to_write)
    /\ IF bytes_to_write = Len(remaining_data)
       THEN Return("ok")
       ELSE /\ file' = file + 1
            /\ current_offset' = current_offset + bytes_to_write
            /\ remaining_data' = SubSeq(remaining_data, bytes_to_write + 1,
                                        Len(remaining_data))
            /\ UNCHANGED <<writing, result>>
    /\ UNCHANGED layout

\* A round that fails: the file cannot be opened, or takes only part of the
\* bytes.  A crash leaves the same files behind.
WriteFails ==
    /\ writing
    /\ file \in DOMAIN files
    /\ InFile
    /\ \/ UNCHANGED <<content, exists>>
       \/ \E n \in 0..bytes_to_write : WriteToFile(n)
    /\ Return("error")
    /\ UNCHANGED layout

\* The loop ran out of files: what is left of the data is dropped.
WriteEnds ==
    /\ writing
    /\ file \notin DOMAIN files
    /\ Return("ok")
    /\ UNCHANGED <<layout, content, exists>>

\* The data of a call: the torrent's own, or any others.
RightData(at, n) == [k \in 1..n |-> at + k]
JunkData(n) == [k \in 1..n |-> Junk]

Next ==
    \/ \E p \in 0..total_pieces, begin \in 0..(piece_length - 1),
          n \in 0..(BlockSize + 1) :
        \/ write_block(p, begin, RightData(p * piece_length + begin, n))
        \/ write_block(p, begin, JunkData(n))
    \/ SkipFile
    \/ WriteFile
    \/ WriteFails
    \/ WriteEnds

Spec == Init /\ [][Next]_vars
-----------------------------------------------------------------------------
Failed(s) == [s EXCEPT !.ok = FALSE]

\* Mutant: no seek to the place in the file.
ReadRound_NoSeek(s, f) ==
    LET last == Least(files[f], s.need) IN
    IF ~s.ok \/ s.need = 0 \/ ~(s.at < End(f) /\ s.at + s.need > Start(f)) THEN s
    ELSE IF f \notin exists \/ Len(content[f]) < last THEN Failed(s)
    ELSE [ok |-> TRUE, at |-> s.at + last, need |-> s.need - last,
          data |-> s.data \o SubSeq(content[f], 1, last)]

\* A round of read_piece's loop; `need' is what is left of the buffer.  A file
\* that is missing or too short fails it.
ReadRound(s, f) ==
    LET first == IF s.at > Start(f) THEN s.at - Start(f) ELSE 0
        last  == Least(files[f], first + s.need) IN
    IF ~s.ok \/ s.need = 0 \/ ~(s.at < End(f) /\ s.at + s.need > Start(f)) THEN s
    ELSE IF f \notin exists \/ Len(content[f]) < last THEN Failed(s)
    ELSE [ok |-> TRUE, at |-> s.at + (last - first), need |-> s.need - (last - first),
          data |-> s.data \o SubSeq(content[f], first + 1, last)]

\* The loop over the files.  The buffer is made of zeros: what no file filled
\* stays so.
read_piece(p) ==
    LET after[f \in 0..Len(files)] ==
            IF f = 0 THEN [ok |-> TRUE, at |-> p * piece_length,
                           need |-> get_piece_length(p), data |-> <<>>]
                     ELSE ReadRound(after[f - 1], f)
        s == after[Len(files)]
    IN  [ok |-> s.ok, data |-> s.data \o [k \in 1..s.need |-> Zero]]

\* A hash tells the torrent's bytes from all others.
verify_piece(p) ==
    LET read == read_piece(p) IN
    IF ~read.ok THEN "error"
    ELSE IF read.data = RightData(p * piece_length, get_piece_length(p)) THEN "ok"
    ELSE "mismatch"

\* Mutant: a block that ends with its piece is refused.
read_block_NotLast(p, begin, length) ==
    LET read == read_piece(p) IN
    IF ~read.ok \/ begin + length >= Len(read.data) THEN [ok |-> FALSE, data |-> <<>>]
    ELSE [ok |-> TRUE, data |-> SubSeq(read.data, begin + 1, begin + length)]

read_block(p, begin, length) ==
    LET read == read_piece(p) IN
    IF ~read.ok \/ begin + length > Len(read.data) THEN [ok |-> FALSE, data |-> <<>>]
    ELSE [ok |-> TRUE, data |-> SubSeq(read.data, begin + 1, begin + length)]
-----------------------------------------------------------------------------
\* The files as one array of bytes.
Holder(o) == CHOOSE f \in DOMAIN files : Start(f) <= o /\ o < End(f)

mem == [o \in 0..(total_size - 1) |->
          LET f == Holder(o) IN
          IF o - Start(f) < Len(content[f]) THEN content[f][o - Start(f) + 1]
                                            ELSE None]

\* Type invariant of the storage: no file outgrows its length in the torrent,
\* and none that does not exist has content.
StorageTypeOK ==
    /\ layout \in Layouts
    /\ exists \subseteq DOMAIN files
    /\ DOMAIN content = DOMAIN files
    /\ \A f \in DOMAIN files :
        /\ content[f] \in Seq({Zero, Junk} \cup 1..(total_size + BlockSize + 1))
        /\ Len(content[f]) <= files[f]
        /\ f \notin exists => content[f] = <<>>
    /\ writing \in BOOLEAN
    /\ file \in 1..(Len(files) + 1)
    /\ current_offset \in Nat
    /\ Len(remaining_data) <= BlockSize + 1
    /\ result \in {"ok", "error"}

\* write_block treats the files as one array: whatever boundaries a block
\* crosses, each byte goes to its own place, none is lost when the call
\* succeeds, and a failed call leaves a prefix and spoils nothing else.
Flat == INSTANCE FlatStore
          WITH Byte <- Nat \cup {Junk}, at <- current_offset, data <- remaining_data
FlatSpec == Flat!Spec

\* The blocks tick asks for tile the torrent: every byte of it is in exactly
\* one block of one piece, also when the last piece or block is short or full.
\* And those of a piece are what verify_piece reads of it, although the piece
\* manager and the files compute its length each for themselves.
Offsets(b) == b[1]..(b[1] + b[2] - 1)

BlocksTile ==
    LET Covers(p, b, o) == o \in (p * piece_length + b[1])..
                                 (p * piece_length + b[1] + b[2] - 1)
        covering(o) == UNION {{<<p, b>> : b \in {b \in BlocksOf(p) : Covers(p, b, o)}} :
                                p \in Piece}
    IN  /\ \A o \in 0..(total_size - 1) : Cardinality(covering(o)) = 1
        /\ \A p \in Piece :
              UNION {Offsets(b) : b \in BlocksOf(p)} = 0..(get_piece_length(p) - 1)

\* verify_piece sees what the writes left: Ok(true) for the torrent's bytes,
\* Ok(false) for others, Err exactly when a byte of the piece was never stored.
Bytes(p) == (p * piece_length)..(p * piece_length + get_piece_length(p) - 1)

VerifyFollowsBytes ==
    ~writing => \A p \in Piece :
        verify_piece(p) = IF \E o \in Bytes(p) : mem[o] = None THEN "error"
                          ELSE IF \A o \in Bytes(p) : mem[o] = o + 1 THEN "ok"
                          ELSE "mismatch"

\* A block that is served is what the array holds at its place, and a request
\* that runs out of its piece is refused.
ServesStoredBytes ==
    ~writing =>
      \A p \in Piece, begin \in 0..piece_length, length \in 0..(piece_length + 1) :
        LET block == read_block(p, begin, length)
            at == p * piece_length + begin IN
        IF \/ begin + length > get_piece_length(p)
           \/ \E o \in Bytes(p) : mem[o] = None
        THEN ~block.ok
        ELSE block = [ok |-> TRUE, data |-> [k \in 1..length |-> mem[at + k - 1]]]
=============================================================================
