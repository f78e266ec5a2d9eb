------------------------------ MODULE FlatStore ------------------------------
(***************************************************************************)
(* What write_block of src/src/storage/files.rs promises: the files of a   *)
(* torrent are one array of bytes.  A write goes to consecutive places of  *)
(* the array, part by part, and changes no other byte; when it fails or    *)
(* the program dies, what was stored is a prefix of its data; when it      *)
(* succeeds, all of them that lie within the array are.                    *)
(***************************************************************************)
EXTENDS Integers, FiniteSets, Sequences

CONSTANTS
    Byte,   \* what a byte can be
    None,   \* a byte no file holds yet
    Zero    \* what a hole in a file reads as

VARIABLES
    mem,      \* the array, from place 0
    writing,  \* whether a write is in progress,
    at,       \* the place of its next byte
    data,     \* and the bytes it still has to store
    result    \* how the last write ended: "ok" or "error"

flatVars == <<mem, writing, at, data, result>>

Place == DOMAIN mem

Init ==
    /\ Place = 0..(Cardinality(Place) - 1)
    /\ mem \in [Place -> Byte \cup {None}]
    /\ writing = FALSE
    /\ at = 0
    /\ data = <<>>
    /\ result = "ok"

\* n bytes of the data reach the array.  No other byte changes, except that a
\* place no file held may become a hole.
Stored(n) ==
    /\ DOMAIN mem' = Place
    /\ n > 0 => at + n - 1 \in Place
    /\ \A o \in Place :
        IF o \in at..(at + n - 1) THEN mem'[o] = data[o - at + 1]
        ELSE mem'[o] = mem[o] \/ (mem[o] = None /\ mem'[o] = Zero)

Begin ==
    /\ ~writing
    /\ writing' = TRUE
    /\ at' \in Nat
    /\ data' \in Seq(Byte)
    /\ UNCHANGED <<mem, result>>

Part ==
    /\ writing
    /\ \E n \in 1..(Len(data) - 1) :
        /\ Stored(n)
        /\ at' = at + n
        /\ data' = SubSeq(data, n + 1, Len(data))
    /\ UNCHANGED <<writing, result>>

Over(r) ==
    /\ writing
    /\ result' = r
    /\ writing' = FALSE
    /\ at' = 0
    /\ data' = <<>>

\* Success: the data are stored, or the array ends before they do.
Succeed ==
    /\ Over("ok")
    /\ \/ Stored(Len(data))
       \/ at \notin Place /\ Stored(0)

Fail ==
    /\ Over("error")
    /\ \E n \in 0..Len(data) : Stored(n)

Next == Begin \/ Part \/ Succeed \/ Fail

Spec == Init /\ [][Next]_flatVars
=============================================================================
