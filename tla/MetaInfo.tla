------------------------------- MODULE MetaInfo -------------------------------
(***************************************************************************)
(* What src/src/protodef/meta_info.rs makes of a .torrent file.            *)
(*                                                                         *)
(* A MetaInfo is a record with the fields of the file: piece_length,       *)
(* pieces (the number of bytes of the hashes), files (the lengths; a       *)
(* torrent of one file gives the same numbers as a list of that file),     *)
(* announce, and announce_list, the tiers of trackers or NoList.           *)
(***************************************************************************)
EXTENDS Integers, FiniteSets, SequencesExt

NoList == <<"no announce-list">>

\* Offset of file f in the torrent.
FileStart(lengths, f) ==
    LET start[g \in 1..f] == IF g = 1 THEN 0 ELSE start[g - 1] + lengths[g - 1]
    IN  start[f]

\* The conversion panics on a hash of less than 20 bytes, and divides by the
\* length of a piece for each file.
Converts(m) ==
    /\ m.pieces % 20 = 0
    /\ m.files = <<>> \/ m.piece_length > 0

\* The ranges of pieces of the files are left out: nothing reads them.  (To compute
\* them, a debug build panics on an empty file at the start; a release build wraps.)
to_torrent_info(m) ==
    [piece_length |-> m.piece_length,
     num_pieces   |-> m.pieces \div 20,
     files        |-> m.files,
     trackers     |-> IF m.announce_list = NoList THEN << <<m.announce>> >>
                                                  ELSE m.announce_list]

all_tracker_urls(info) == FlattenSeq(info.trackers)

Least(a, b) == IF a < b THEN a ELSE b
=============================================================================
