------------------------- MODULE MCDownloadManager -------------------------
(***************************************************************************)
(* Values for the constants of DownloadManager in TLC's runs.              *)
(***************************************************************************)
EXTENDS DownloadManager

CONSTANTS p1, p2

\* Every peer has, or will have, every piece.
AllContent == [c \in Peer |-> Piece]

\* Nobody has the last piece.
NobodyHasLast == [c \in Peer |-> Piece \ {TotalPieces - 1}]

EmptyDisk == {[b \in Block |-> "none"]}

\* No files, or those of an earlier run: one piece is right and one is not.
OldDisks == {[b \in Block |-> "none"],
             [b \in Block |-> IF b[1] = 0 THEN "good" ELSE "bad"]}

PeerSymmetry == Permutations(Peer)
=============================================================================
