------------------------------ MODULE MCStorage ------------------------------
(***************************************************************************)
(* Values for the constants of Storage in TLC's runs.                      *)
(***************************************************************************)
EXTENDS Storage

Torrent(lengths, size) ==
    [files |-> lengths, piece_length |-> size, announce |-> "tracker", announce_list |-> NoList,
     pieces |-> 20 * ((FileStart(lengths, Len(lengths) + 1) + size - 1) \div size)]

\* A piece over three files with an empty one among them and a short last
\* piece; pieces inside one file with a full last piece, after an empty file; a
\* file that ends with its piece; a single short piece.
SmallTorrents ==
    {Torrent(<<1, 0, 1, 2>>, 3), Torrent(<<0, 3, 1>>, 2), Torrent(<<2, 1>>, 2),
     Torrent(<<1>>, 2)}
=============================================================================
