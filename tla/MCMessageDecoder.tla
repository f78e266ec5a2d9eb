-------------------------- MODULE MCMessageDecoder --------------------------
(***************************************************************************)
(* Values for the constants of MessageDecoder in TLC's runs.               *)
(***************************************************************************)
EXTENDS MessageDecoder

\* KeepAlive, Unchoke, Have, a Piece of two bytes, and a Have that is too short.
SomeMessages ==
    {[id |-> NoId, data |-> 0], [id |-> 1, data |-> 0], [id |-> 4, data |-> 4],
     [id |-> 7, data |-> 10], [id |-> 4, data |-> 3]}
=============================================================================
