------------------------------ MODULE MCClient ------------------------------
(***************************************************************************)
(* Values for the constants of Client in TLC's runs: trackers A and B over *)
(* UDP, H over HTTP, and X, whose URL does not parse.                      *)
(***************************************************************************)
EXTENDS Client

\* One tier has two trackers, and two trackers name the same peer.  A's list is
\* longer than what is read of it.
SmallTorrent ==
    [piece_length |-> 4, pieces |-> 20, files |-> <<4>>, announce |-> "A",
     announce_list |-> << <<"A", "X">>, <<"B">>, <<"H">> >>]

SmallLists ==
    [t \in Tracker |-> CASE t = "A" -> <<"a", "b", "c">> [] t = "B" -> <<"b">>
                         [] t = "H" -> <<"c", "a">> [] OTHER -> <<>>]

SmallRest == [t \in Tracker |-> IF t = "A" THEN 5 ELSE 0]

Dict(ip, address) == [ip |-> ip, address |-> address]

\* What H may answer with: peers as bytes, with or without a rest, or as
\* dictionaries, one of which has a host name in place of an address, or a failure.
Responses ==
    {[compact |-> TRUE, peers |-> Compact(SmallLists["H"], 5), failure |-> FALSE, interval |-> 1],
     [compact |-> TRUE, peers |-> Compact(SmallLists["H"], 0), failure |-> FALSE, interval |-> 0],
     [compact |-> FALSE, failure |-> FALSE, interval |-> 1,
      peers |-> <<Dict(TRUE, "c"), Dict(FALSE, "b"), Dict(TRUE, "a")>>],
     [compact |-> TRUE, peers |-> <<>>, failure |-> TRUE, interval |-> 0],
     [compact |-> TRUE, peers |-> <<>>, failure |-> FALSE, interval |-> 0]}

\* The server stops at any place: before or after any line, in the body, whose length
\* it may declare wrongly, or after it: the response takes 2 units of at most 3; and
\* it closes, or not.
Lines == {<<>>, <<"other">>, <<"200">>, <<"200", "content-length">>,
          <<"200", "content-length", "">>, <<"200", "">>}

SmallReplies ==
    [t \in {"H"} |->
       {[lines |-> l, closed |-> c, sent |-> s, declared |-> d, size |-> 2, response |-> r] :
          l \in Lines, c \in BOOLEAN, s \in 1..3, d \in 1..3, r \in Responses}]
=============================================================================
