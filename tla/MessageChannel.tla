---------------------------- MODULE MessageChannel ----------------------------
(***************************************************************************)
(* What read_message of src/src/protocol/codec.rs promises: the messages a *)
(* peer sends come out one by one, whole and in the order they were sent,  *)
(* however the network cuts them.                                          *)
(***************************************************************************)
EXTENDS Integers, Sequences

CONSTANT Message

VARIABLES sent, received

Init == sent = <<>> /\ received = <<>>

Send ==
    /\ \E m \in Message : sent' = Append(sent, m)
    /\ UNCHANGED received

Receive ==
    /\ Len(received) < Len(sent)
    /\ received' = Append(received, sent[Len(received) + 1])
    /\ UNCHANGED sent

Spec == Init /\ [][Send \/ Receive]_<<sent, received>>
=============================================================================
