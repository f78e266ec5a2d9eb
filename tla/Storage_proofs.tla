---------------------------- MODULE Storage_proofs ----------------------------
(***************************************************************************)
(* Proofs about the storage, for any torrents and any size of blocks: the  *)
(* files, laid one after the other, are one array of bytes, in which the   *)
(* pieces and their blocks lie side by side.                               *)
(***************************************************************************)
EXTENDS Storage, SequenceFacts, FiniteSetTheorems

-----------------------------------------------------------------------------
(* Where the files lie in the torrent.                                       *)

\* FileStart is a running sum.
LEMMA FileStartSum ==
  ASSUME NEW lengths \in Seq(Nat)
  PROVE  \E g \in [Nat -> Nat] :
            /\ g[0] = 0
            /\ \A k \in 1..Len(lengths) : g[k] = g[k - 1] + lengths[k]
            /\ \A f \in 1..(Len(lengths) + 1) : FileStart(lengths, f) = g[f - 1]
<1> DEFINE n == Len(lengths)
           step == [x \in Nat \X Nat |-> IF x[1] + 1 \in 1..n THEN x[2] + lengths[x[1] + 1] ELSE x[2]]
<1>1. n \in Nat /\ \A k \in 1..n : lengths[k] \in Nat
  OBVIOUS
<1>2. step \in [Nat \X Nat -> Nat]
  BY <1>1
<1>3. PICK g \in [Nat -> Nat] : \A k \in Nat : DefinedUpTo(g, k, 0, step)
  <2> HIDE DEF step
  <2> QED BY <1>2, Recursion
<1>4. g[0] = 0
  BY <1>3 DEF DefinedUpTo
<1>5. ASSUME NEW k \in 1..n PROVE g[k] = g[k - 1] + lengths[k]
  <2>1. k - 1 \in Nat /\ (k - 1) + 1 = k /\ k \in Nat /\ k - 1 \in 0..(k - 1)
    BY <1>1
  <2>2. g[k] = step[<<k - 1, g[k - 1]>>]
    <3> HIDE DEF step
    <3>1. DefinedUpTo(g, k, 0, step)
      BY <1>3, <2>1
    <3> QED BY <2>1, <3>1 DEF DefinedUpTo
  <2>3. <<k - 1, g[k - 1]>> \in Nat \X Nat
    BY <2>1
  <2> QED BY <2>1, <2>2, <2>3
<1> HIDE DEF step
<1>6. ASSUME NEW f \in 1..(n + 1) PROVE FileStart(lengths, f) = g[f - 1]
  <2> DEFINE start[i \in 1..f] == IF i = 1 THEN 0 ELSE start[i - 1] + lengths[i - 1]
             h == [i \in 1..f |-> g[i - 1]]
  <2>1. ASSUME NEW i \in 1..f PROVE h[i] = IF i = 1 THEN 0 ELSE h[i - 1] + lengths[i - 1]
    <3>1. CASE i = 1
      BY <3>1, <1>4
    <3>2. CASE i # 1
      <4>1. i - 1 \in 1..n /\ i - 1 \in 1..f
        BY <1>1, <3>2
      <4> QED BY <3>2, <1>5, <4>1
    <3> QED BY <3>1, <3>2
  <2>2. h = [i \in 1..f |-> IF i = 1 THEN 0 ELSE h[i - 1] + lengths[i - 1]]
    <3>1. h = [i \in 1..f |-> h[i]]
      OBVIOUS
    <3> HIDE DEF h
    <3> QED BY <2>1, <3>1
  <2>3. start = [i \in 1..f |-> IF i = 1 THEN 0 ELSE start[i - 1] + lengths[i - 1]]
    <3> HIDE DEF h
    <3> QED BY <2>2
  <2>4. FileStart(lengths, f) = start[f]
    BY DEF FileStart
  <2> HIDE DEF start
  <2> DEFINE S == {k \in Nat : k + 1 \in 1..f => start[k + 1] = g[k]}
  <2>5. 0 \in S
    BY <1>4, <2>3
  <2>6. ASSUME NEW k \in Nat, k \in S PROVE k + 1 \in S
    <3> SUFFICES ASSUME (k + 1) + 1 \in 1..f PROVE start[(k + 1) + 1] = g[k + 1]
      OBVIOUS
    <3>1. k + 1 \in 1..f /\ k + 1 \in 1..n /\ ((k + 1) + 1) - 1 = k + 1 /\ (k + 1) + 1 # 1
          /\ (k + 1) - 1 = k
      BY <1>1
    <3>2. start[(k + 1) + 1] = start[k + 1] + lengths[k + 1]
      BY <2>3, <3>1
    <3>3. g[k + 1] = g[k] + lengths[k + 1]
      BY <1>5, <3>1
    <3> QED BY <2>6, <3>1, <3>2, <3>3
  <2>7. Nat \subseteq S
    <3> HIDE DEF S
    <3> QED BY <2>5, <2>6, SetInduction
  <2>8. f - 1 \in Nat /\ (f - 1) + 1 = f /\ f \in 1..f
    BY <1>1
  <2> QED BY <2>4, <2>7, <2>8
<1> QED BY <1>4, <1>5, <1>6

\* Each file starts where the one before it ends.
LEMMA FileStartFacts ==
  ASSUME NEW lengths \in Seq(Nat)
  PROVE  /\ FileStart(lengths, 1) = 0
         /\ \A f \in 1..(Len(lengths) + 1) : FileStart(lengths, f) \in Nat
         /\ \A f \in 1..Len(lengths) :
               FileStart(lengths, f + 1) = FileStart(lengths, f) + lengths[f]
<1>1. PICK g \in [Nat -> Nat] :
            /\ g[0] = 0
            /\ \A k \in 1..Len(lengths) : g[k] = g[k - 1] + lengths[k]
            /\ \A f \in 1..(Len(lengths) + 1) : FileStart(lengths, f) = g[f - 1]
  BY FileStartSum
<1>2. Len(lengths) \in Nat
  OBVIOUS
<1>3. FileStart(lengths, 1) = 0
  BY <1>1, <1>2
<1>4. ASSUME NEW f \in 1..(Len(lengths) + 1) PROVE FileStart(lengths, f) \in Nat
  BY <1>1, <1>2
<1>5. ASSUME NEW f \in 1..Len(lengths)
      PROVE  FileStart(lengths, f + 1) = FileStart(lengths, f) + lengths[f]
  <2>1. f + 1 \in 1..(Len(lengths) + 1) /\ f \in 1..(Len(lengths) + 1) /\ (f + 1) - 1 = f
    BY <1>2
  <2> QED BY <1>1, <2>1
<1> QED BY <1>3, <1>4, <1>5

\* A later file starts where an earlier one ends, or after it.
LEMMA FileStartGrows ==
  ASSUME NEW lengths \in Seq(Nat), NEW f \in 1..Len(lengths), NEW g \in (f + 1)..(Len(lengths) + 1)
  PROVE  FileStart(lengths, f) + lengths[f] <= FileStart(lengths, g)
<1> DEFINE n == Len(lengths)
           at(k) == FileStart(lengths, k)
           S == {k \in Nat : f + 1 + k <= n + 1 => at(f) + lengths[f] <= at(f + 1 + k)}
<1>1. n \in Nat /\ f \in Nat /\ f >= 1
  OBVIOUS
<1>2. /\ \A k \in 1..(n + 1) : at(k) \in Nat
      /\ \A k \in 1..n : at(k + 1) = at(k) + lengths[k] /\ lengths[k] \in Nat
  BY FileStartFacts, SMTT(30)
<1> HIDE DEF at
<1>3. 0 \in S
  BY <1>1, <1>2
<1>4. ASSUME NEW k \in Nat, k \in S PROVE k + 1 \in S
  <2> SUFFICES ASSUME f + 1 + (k + 1) <= n + 1
               PROVE  at(f) + lengths[f] <= at(f + 1 + (k + 1))
    OBVIOUS
  <2>1. f + 1 + k \in 1..n /\ f + 1 + (k + 1) = (f + 1 + k) + 1 /\ f + 1 + k <= n + 1
        /\ f \in 1..n /\ f \in 1..(n + 1) /\ f + 1 + k \in 1..(n + 1)
    BY <1>1
  <2>2. at((f + 1 + k) + 1) = at(f + 1 + k) + lengths[f + 1 + k]
    BY <1>2, <2>1
  <2>3. at(f) + lengths[f] <= at(f + 1 + k)
    BY <1>4, <2>1
  <2>4. at(f) \in Nat /\ lengths[f] \in Nat /\ at(f + 1 + k) \in Nat /\ lengths[f + 1 + k] \in Nat
    BY <1>2, <2>1
  <2> QED BY <2>1, <2>2, <2>3, <2>4, SMTT(30)
<1>5. Nat \subseteq S
  <2> HIDE DEF S
  <2> QED BY <1>3, <1>4, SetInduction
<1>6. g - (f + 1) \in Nat /\ f + 1 + (g - (f + 1)) = g /\ g <= n + 1
  BY <1>1
<1>7. at(f) + lengths[f] <= at(f + 1 + (g - (f + 1)))
  BY <1>5, <1>6
<1> QED BY <1>6, <1>7 DEF at

\* Each offset of the torrent lies in a file, and in one only.
LEMMA OffsetHasFile ==
  ASSUME NEW lengths \in Seq(Nat), NEW o \in Nat, o < FileStart(lengths, Len(lengths) + 1)
  PROVE  \E f \in 1..Len(lengths) :
            FileStart(lengths, f) <= o /\ o < FileStart(lengths, f) + lengths[f]
<1> DEFINE n == Len(lengths)
           at(k) == FileStart(lengths, k)
           S == {k \in Nat : k <= n /\ o < at(k + 1) =>
                    \E f \in 1..n : at(f) <= o /\ o < at(f) + lengths[f]}
<1>1. n \in Nat
  OBVIOUS
<1>2. /\ \A k \in 1..(n + 1) : at(k) \in Nat
      /\ \A k \in 1..n : at(k + 1) = at(k) + lengths[k] /\ lengths[k] \in Nat
      /\ at(1) = 0
  BY FileStartFacts
<1> HIDE DEF at
<1>3. 0 \in S
  BY <1>1, <1>2
<1>4. ASSUME NEW k \in Nat, k \in S PROVE k + 1 \in S
  <2> SUFFICES ASSUME k + 1 <= n, o < at((k + 1) + 1)
               PROVE  \E f \in 1..n : at(f) <= o /\ o < at(f) + lengths[f]
    OBVIOUS
  <2>1. k + 1 \in 1..n /\ k + 1 \in 1..(n + 1) /\ k <= n
    BY <1>1
  <2>2. at((k + 1) + 1) = at(k + 1) + lengths[k + 1] /\ at(k + 1) \in Nat
    BY <1>2, <2>1
  <2>3. CASE o < at(k + 1)
    BY <1>4, <2>1, <2>3
  <2>4. CASE at(k + 1) <= o
    BY <2>1, <2>2, <2>4
  <2> QED BY <2>2, <2>3, <2>4
<1>5. Nat \subseteq S
  <2> HIDE DEF S
  <2> QED BY <1>3, <1>4, SetInduction
<1>6. n \in S
  BY <1>1, <1>5
<1> QED BY <1>6 DEF at

-----------------------------------------------------------------------------
(* The layout of the torrent of a run.                                       *)

\* The torrent that is stored: its sizes, and where each file starts.
LEMMA LayoutFacts ==
  ASSUME layout \in Layouts
  PROVE  /\ files \in Seq(Nat) /\ Len(files) \in Nat /\ DOMAIN files = 1..Len(files)
         /\ piece_length \in Nat \ {0}
         /\ total_pieces \in Nat
         /\ total_size \in Nat
         /\ Start(1) = 0
         /\ \A f \in DOMAIN files : files[f] \in Nat
         /\ \A f \in 1..(Len(files) + 1) : Start(f) \in Nat
         /\ \A f \in DOMAIN files :
               /\ f \in Nat /\ f >= 1 /\ f <= Len(files)
               /\ f + 1 \in 1..(Len(files) + 1)
               /\ f \in 1..(Len(files) + 1)
               /\ Start(f + 1) = End(f)
               /\ Start(f) \in Nat /\ End(f) \in Nat /\ End(f) = Start(f) + files[f]
               /\ End(f) <= total_size
<1>1. PICK m \in Torrents : layout = to_torrent_info(m)
  BY DEF Layouts
<1>2. /\ files = m.files /\ piece_length = m.piece_length
      /\ total_pieces = m.pieces \div 20
  BY <1>1 DEF files, piece_length, total_pieces, to_torrent_info
<1>3. m.pieces \in Nat /\ m.files \in Seq(Nat) /\ m.piece_length \in Nat \ {0}
  BY StorageAssumption
<1>4. files \in Seq(Nat) /\ piece_length \in Nat \ {0} /\ total_pieces \in Nat
  BY <1>2, <1>3
<1> DEFINE lengths == files
<1>5. lengths \in Seq(Nat) /\ Len(lengths) \in Nat /\ DOMAIN lengths = 1..Len(lengths)
      /\ \A f \in 1..Len(lengths) : lengths[f] \in Nat
  BY <1>4
<1> HIDE DEF lengths
<1>6. /\ FileStart(lengths, 1) = 0
      /\ \A f \in 1..(Len(lengths) + 1) : FileStart(lengths, f) \in Nat
      /\ \A f \in 1..Len(lengths) : FileStart(lengths, f + 1) = FileStart(lengths, f) + lengths[f]
  BY <1>5, FileStartFacts
<1>7. ASSUME NEW f \in 1..Len(lengths)
      PROVE  FileStart(lengths, f) + lengths[f] <= FileStart(lengths, Len(lengths) + 1)
  <2>1. CASE f = Len(lengths)
    BY <2>1, <1>5, <1>6
  <2>2. CASE f # Len(lengths)
    <3>1. Len(lengths) + 1 \in (f + 1)..(Len(lengths) + 1)
      BY <1>5
    <3> QED BY <3>1, <1>5, FileStartGrows
  <2> QED BY <2>1, <2>2
<1>8. /\ \A f \in 1..Len(lengths) :
            /\ f \in Nat /\ f >= 1 /\ f <= Len(lengths)
            /\ f + 1 \in 1..(Len(lengths) + 1)
            /\ f \in 1..(Len(lengths) + 1)
      /\ 1 \in 1..(Len(lengths) + 1) /\ Len(lengths) + 1 \in 1..(Len(lengths) + 1)
  BY <1>5
<1> QED BY <1>4, <1>5, <1>6, <1>7, <1>8 DEF lengths, Start, End, total_size

\* The file that holds an offset is the one whose range has it.
LEMMA HolderFacts ==
  ASSUME layout \in Layouts
  PROVE  /\ \A o \in 0..(total_size - 1) :
               /\ Holder(o) \in DOMAIN files
               /\ Start(Holder(o)) <= o /\ o < End(Holder(o))
         /\ \A f \in DOMAIN files, o \in Int :
               Start(f) <= o /\ o < End(f) => o \in 0..(total_size - 1) /\ Holder(o) = f
<1> DEFINE lengths == files
<1>0. lengths \in Seq(Nat) /\ Len(lengths) \in Nat /\ DOMAIN lengths = 1..Len(lengths)
      /\ total_size = FileStart(lengths, Len(lengths) + 1) /\ total_size \in Nat
      /\ \A f : Start(f) = FileStart(lengths, f) /\ End(f) = FileStart(lengths, f) + lengths[f]
  BY LayoutFacts DEF total_size, Start, End
<1>1. /\ \A f \in 1..Len(lengths) : Start(f) \in Nat /\ End(f) \in Nat /\ End(f) <= total_size /\ f \in Nat
  BY LayoutFacts
<1> HIDE DEF lengths
<1>2. ASSUME NEW o \in 0..(total_size - 1)
      PROVE  /\ Holder(o) \in DOMAIN files
             /\ Start(Holder(o)) <= o /\ o < End(Holder(o))
  <2>1. \E f \in 1..Len(lengths) : FileStart(lengths, f) <= o /\ o < FileStart(lengths, f) + lengths[f]
    <3>1. o \in Nat /\ o < FileStart(lengths, Len(lengths) + 1)
      BY <1>0
    <3> QED BY <3>1, <1>0, OffsetHasFile
  <2>2. \E f \in DOMAIN files : Start(f) <= o /\ o < End(f)
    BY <2>1, <1>0 DEF lengths
  <2> QED BY <2>2 DEF Holder
<1>3. ASSUME NEW f \in 1..Len(lengths), NEW g \in 1..Len(lengths), f < g PROVE End(f) <= Start(g)
  <2>1. g \in (f + 1)..(Len(lengths) + 1)
    BY <1>0, <1>3
  <2>2. FileStart(lengths, f) + lengths[f] <= FileStart(lengths, g)
    BY <2>1, <1>0, FileStartGrows
  <2> QED BY <2>2, <1>0
<1>4. ASSUME NEW f \in DOMAIN files, NEW o \in Int, Start(f) <= o, o < End(f)
      PROVE  o \in 0..(total_size - 1) /\ Holder(o) = f
  <2>1. f \in 1..Len(lengths)
    BY <1>0 DEF lengths
  <2>2. o \in 0..(total_size - 1)
    BY <2>1, <1>0, <1>1, <1>4
  <2> DEFINE g == Holder(o)
  <2>3. g \in 1..Len(lengths) /\ Start(g) <= o /\ o < End(g)
    BY <2>2, <1>2, <1>0 DEF lengths
  <2> HIDE DEF g
  <2>4. ~(f < g) /\ ~(g < f)
    BY <2>1, <2>3, <1>1, <1>3, <1>4
  <2>5. f = g
    BY <2>1, <2>3, <2>4, <1>1
  <2> QED BY <2>2, <2>5 DEF g
<1> QED BY <1>2, <1>4

-----------------------------------------------------------------------------
(* What a write does to a file.                                              *)

\* What bytes put into a file leave there.
LEMMA PutFacts ==
  ASSUME NEW old \in Seq(Int), NEW offset \in Nat, NEW bytes \in Seq(Int),
         NEW new, new = Put(old, offset, bytes)
  PROVE  /\ new \in Seq(Int)
         /\ Len(new) = IF bytes = <<>> \/ Len(old) > offset + Len(bytes)
                       THEN Len(old) ELSE offset + Len(bytes)
         /\ \A k \in 1..Len(new) :
               new[k] = IF k \in (offset + 1)..(offset + Len(bytes)) THEN bytes[k - offset]
                        ELSE IF k <= Len(old) THEN old[k] ELSE Zero
<1>1. Len(old) \in Nat /\ Len(bytes) \in Nat
  OBVIOUS
<1>2. CASE bytes = <<>>
  <2>1. new = old /\ Len(bytes) = 0
    BY <1>2 DEF Put
  <2> QED BY <2>1, <1>1, <1>2
<1>3. CASE bytes # <<>>
  <2> DEFINE n == IF Len(old) > offset + Len(bytes) THEN Len(old) ELSE offset + Len(bytes)
             byte(k) == IF k \in (offset + 1)..(offset + Len(bytes)) THEN bytes[k - offset]
                        ELSE IF k <= Len(old) THEN old[k] ELSE Zero
  <2>1. new = [k \in 1..n |-> byte(k)]
    BY <1>3 DEF Put
  <2>2. n \in Nat
    BY <1>1
  <2>3. \A k \in 1..n : byte(k) \in Int
    BY <1>1 DEF Zero
  <2> HIDE DEF n, byte
  <2>4. new \in Seq(Int) /\ Len(new) = n /\ \A k \in 1..n : new[k] = byte(k)
    BY <2>1, <2>2, <2>3
  <2> QED BY <2>4, <1>3 DEF n, byte
<1> QED BY <1>2, <1>3

\* Every byte of a file is the torrent's byte at its place, or one that was
\* never right: writes move no byte.
InPlace ==
    \A f \in DOMAIN files, k \in Nat :
        k \in 1..Len(content[f]) => content[f][k] \in {Zero, Junk, Start(f) + k}

\* What is left to write goes to current_offset, which no earlier file has.
DataInPlace ==
    /\ remaining_data \in Seq(Nat \cup {Junk})
    /\ Len(remaining_data) <= BlockSize + 1
    /\ \A k \in 1..Len(remaining_data) : remaining_data[k] \in {Junk, current_offset + k}
    /\ current_offset \in Nat
    /\ file \in 1..(Len(files) + 1)
    /\ writing => current_offset >= Start(file)
    /\ ~writing => file = 1 /\ current_offset = 0 /\ remaining_data = <<>>

FilesFit ==
    /\ content \in [DOMAIN files -> Seq(Nat \cup {Junk})]
    /\ \A f \in DOMAIN files : Len(content[f]) <= files[f]
    /\ exists \subseteq DOMAIN files
    /\ \A f \in DOMAIN files : f \notin exists => content[f] = <<>>

\* The inductive invariant.
StorageInv ==
    /\ layout \in Layouts
    /\ FilesFit
    /\ InPlace
    /\ DataInPlace
    /\ writing \in BOOLEAN
    /\ result \in {"ok", "error"}

\* The place and the size of a round's write.
LEMMA RoundFacts ==
  ASSUME StorageInv, file \in DOMAIN files, InFile
  PROVE  /\ offset_in_file \in Nat /\ offset_in_file < files[file] /\ files[file] \in Nat
         /\ bytes_to_write \in 0..Len(remaining_data)
         /\ offset_in_file + bytes_to_write <= files[file]
         /\ bytes_to_write # Len(remaining_data) =>
               bytes_to_write > 0 /\ current_offset + bytes_to_write = Start(file + 1)
         /\ Start(file) \in Nat /\ current_offset = Start(file) + offset_in_file
         /\ current_offset \in Nat /\ Len(remaining_data) \in Nat
<1>1. /\ Start(file) \in Nat /\ End(file) = Start(file) + files[file] /\ files[file] \in Nat
      /\ Start(file + 1) = End(file)
  BY LayoutFacts DEF StorageInv
<1>2. current_offset \in Nat /\ Len(remaining_data) \in Nat
  BY DEF StorageInv, DataInPlace
<1> QED BY <1>1, <1>2 DEF InFile, offset_in_file, bytes_to_write, Least

\* A round that writes n bytes: what the file holds after it.
LEMMA WriteFacts ==
  ASSUME StorageInv, file \in DOMAIN files, InFile, NEW n \in 0..bytes_to_write, WriteToFile(n)
  PROVE  /\ content' \in [DOMAIN files -> Seq(Nat \cup {Junk})]
         /\ \A f \in DOMAIN files : f # file => content'[f] = content[f]
         /\ Len(content'[file]) = IF n = 0 \/ Len(content[file]) > offset_in_file + n
                                  THEN Len(content[file]) ELSE offset_in_file + n
         /\ Len(content'[file]) <= files[file]
         /\ \A k \in 1..Len(content'[file]) :
               content'[file][k] =
                  IF k \in (offset_in_file + 1)..(offset_in_file + n)
                  THEN remaining_data[k - offset_in_file]
                  ELSE IF k <= Len(content[file]) THEN content[file][k] ELSE Zero
         /\ exists' = exists \cup {file}
<1> DEFINE old == content[file]
           bytes == SubSeq(remaining_data, 1, n)
           new == Put(old, offset_in_file, bytes)
<1>1. /\ offset_in_file \in Nat /\ offset_in_file < files[file] /\ files[file] \in Nat
      /\ bytes_to_write \in 0..Len(remaining_data)
      /\ offset_in_file + bytes_to_write <= files[file]
      /\ Len(remaining_data) \in Nat
  BY RoundFacts
<1>2. /\ remaining_data \in Seq(Nat \cup {Junk})
      /\ content \in [DOMAIN files -> Seq(Nat \cup {Junk})]
      /\ old \in Seq(Nat \cup {Junk}) /\ Len(old) <= files[file] /\ Len(old) \in Nat
  BY DEF StorageInv, FilesFit, DataInPlace
<1>3. n \in Nat /\ n \in 0..Len(remaining_data) /\ offset_in_file + n <= files[file]
  BY <1>1
<1>4. /\ bytes \in Seq(Nat \cup {Junk}) /\ Len(bytes) = n
      /\ \A k \in 1..n : bytes[k] = remaining_data[k]
  <2> DEFINE d == remaining_data
             T == Nat \cup {Junk}
  <2>1. d \in Seq(T) /\ n \in 0..Len(d)
    BY <1>2, <1>3
  <2> HIDE DEF d, T
  <2>2. SubSeq(d, 1, n) \in Seq(T) /\ Len(SubSeq(d, 1, n)) = n
        /\ \A k \in 1..n : SubSeq(d, 1, n)[k] = d[k]
    BY <2>1
  <2> QED BY <2>2 DEF d, T
<1>5. content' = [content EXCEPT ![file] = new] /\ exists' = exists \cup {file}
  BY DEF WriteToFile
<1> HIDE DEF bytes, old, new
<1>6. (bytes = <<>>) = (n = 0)
  BY <1>4, <1>3
<1>7. old \in Seq(Int) /\ bytes \in Seq(Int)
  BY <1>2, <1>4 DEF Junk
<1>8. /\ new \in Seq(Int)
      /\ Len(new) = IF bytes = <<>> \/ Len(old) > offset_in_file + Len(bytes)
                    THEN Len(old) ELSE offset_in_file + Len(bytes)
      /\ \A k \in 1..Len(new) :
            new[k] = IF k \in (offset_in_file + 1)..(offset_in_file + Len(bytes))
                     THEN bytes[k - offset_in_file]
                     ELSE IF k <= Len(old) THEN old[k] ELSE Zero
  <2> DEFINE o == offset_in_file
  <2>1. o \in Nat /\ new = Put(old, o, bytes)
    BY <1>1 DEF new
  <2> HIDE DEF o
  <2> USE <1>7, <2>1
  <2>2. /\ new \in Seq(Int)
        /\ Len(new) = IF bytes = <<>> \/ Len(old) > o + Len(bytes)
                      THEN Len(old) ELSE o + Len(bytes)
        /\ \A k \in 1..Len(new) :
              new[k] = IF k \in (o + 1)..(o + Len(bytes)) THEN bytes[k - o]
                       ELSE IF k <= Len(old) THEN old[k] ELSE Zero
    BY PutFacts
  <2> QED BY <2>2 DEF o
<1>9. Len(new) = IF n = 0 \/ Len(old) > offset_in_file + n THEN Len(old) ELSE offset_in_file + n
  BY <1>4, <1>6, <1>8
<1>10. ASSUME NEW k \in 1..Len(new)
       PROVE  new[k] = IF k \in (offset_in_file + 1)..(offset_in_file + n)
                       THEN remaining_data[k - offset_in_file]
                       ELSE IF k <= Len(old) THEN old[k] ELSE Zero
  <2>1. CASE k \in (offset_in_file + 1)..(offset_in_file + n)
    <3>1. k - offset_in_file \in 1..n
      BY <2>1, <1>1, <1>3
    <3> QED BY <3>1, <2>1, <1>4, <1>8
  <2>2. CASE k \notin (offset_in_file + 1)..(offset_in_file + n)
    BY <2>2, <1>4, <1>8
  <2> QED BY <2>1, <2>2
<1>11. Len(new) \in Nat /\ Len(new) <= files[file]
  BY <1>1, <1>2, <1>3, <1>9
<1>12. ASSUME NEW k \in 1..Len(new) PROVE new[k] \in Nat \cup {Junk}
  <2>1. CASE k \in (offset_in_file + 1)..(offset_in_file + n)
    <3>1. k - offset_in_file \in 1..Len(remaining_data)
      BY <2>1, <1>1, <1>3
    <3>2. remaining_data[k - offset_in_file] \in Nat \cup {Junk}
      BY <3>1, <1>2
    <3> QED BY <3>2, <2>1, <1>10
  <2>2. CASE k \notin (offset_in_file + 1)..(offset_in_file + n)
    <3>1. k <= Len(old) => k \in 1..Len(old)
      BY <1>2
    <3>2. k <= Len(old) => old[k] \in Nat \cup {Junk}
      BY <3>1, <1>2
    <3> QED BY <2>2, <3>2, <1>10 DEF Zero
  <2> QED BY <2>1, <2>2
<1>13. new \in Seq(Nat \cup {Junk})
  BY <1>8, <1>12, new = [k \in 1..Len(new) |-> new[k]]
<1>14. content'[file] = new /\ \A f \in DOMAIN files : f # file => content'[f] = content[f]
  BY <1>2, <1>5
<1>15. content' \in [DOMAIN files -> Seq(Nat \cup {Junk})]
  BY <1>2, <1>5, <1>13
<1> QED BY <1>5, <1>9, <1>10, <1>11, <1>14, <1>15 DEF old

\* Nothing is stored at the start.
LEMMA InitStorage ==
  ASSUME Init
  PROVE  StorageInv
<1>1. layout \in Layouts
  BY DEF Init
<1>2. Len(files) \in Nat /\ Start(1) = 0
  BY <1>1, LayoutFacts
<1>3. FilesFit
  <2>1. \A f \in DOMAIN files : content[f] = <<>> /\ files[f] \in Nat
    BY <1>1, LayoutFacts DEF Init
  <2>2. content \in [DOMAIN files -> Seq(Nat \cup {Junk})]
    BY DEF Init
  <2> QED BY <2>1, <2>2 DEF FilesFit, Init
<1>4. InPlace
  BY DEF Init, InPlace
<1>5. DataInPlace
  <2>1. BlockSize \in Nat /\ <<>> \in Seq(Nat \cup {Junk}) /\ Len(<<>>) = 0
    BY StorageAssumption
  <2> QED BY <1>2, <2>1 DEF Init, DataInPlace
<1> QED BY <1>1, <1>3, <1>4, <1>5 DEF StorageInv, Init

\* The data a call brings are right for the place it names, or right nowhere.
LEMMA CallStorage ==
  ASSUME StorageInv, NEW p \in 0..total_pieces, NEW begin \in 0..(piece_length - 1),
         NEW n \in 0..(BlockSize + 1), NEW data,
         data = RightData(p * piece_length + begin, n) \/ data = JunkData(n),
         write_block(p, begin, data)
  PROVE  StorageInv' /\ current_offset' \in Nat /\ remaining_data' \in Seq(Nat \cup {Junk})
<1>1. /\ Len(files) \in Nat /\ Start(1) = 0 /\ piece_length \in Nat \ {0} /\ total_pieces \in Nat
      /\ BlockSize \in Nat
  BY LayoutFacts, StorageAssumption DEF StorageInv
<1> DEFINE at == p * piece_length + begin
<1>2. at \in Nat
  BY <1>1
<1>3. /\ current_offset' = at /\ remaining_data' = data /\ file' = 1 /\ writing' = TRUE
      /\ UNCHANGED <<layout, content, exists, result>>
  BY DEF write_block
<1> HIDE DEF at
<1>4. /\ data \in Seq(Nat \cup {Junk}) /\ Len(data) = n
      /\ \A k \in 1..n : data[k] \in {Junk, at + k}
  <2>1. n \in Nat
    BY <1>1
  <2>2. CASE data = JunkData(n)
    BY <2>1, <2>2 DEF JunkData
  <2>3. CASE data = RightData(at, n)
    BY <2>1, <2>3, <1>2 DEF RightData
  <2> QED BY <2>2, <2>3 DEF at
<1>5. DataInPlace'
  <2>1. Len(files') = Len(files) /\ Start(1)' = 0
    BY <1>1, <1>3 DEF files, Start
  <2>2. file' \in 1..(Len(files') + 1)
    BY <1>1, <1>3, <2>1
  <2>3. writing' => current_offset' >= Start(file)'
    BY <1>2, <1>3, <2>1 DEF Start, files
  <2> QED BY <1>2, <1>3, <1>4, <2>2, <2>3 DEF DataInPlace
<1>6. FilesFit' /\ InPlace'
  BY <1>3 DEF StorageInv, FilesFit, InPlace, Start, files
<1> QED BY <1>2, <1>3, <1>4, <1>5, <1>6 DEF StorageInv

\* A round over a file that the data does not touch.
LEMMA SkipStorage ==
  ASSUME StorageInv, SkipFile
  PROVE  StorageInv'
<1>1. /\ writing /\ file \in DOMAIN files /\ ~InFile /\ file' = file + 1
      /\ UNCHANGED <<layout, content, exists, writing, current_offset, remaining_data, result>>
  BY DEF SkipFile
<1>2. /\ Start(file + 1) = End(file) /\ End(file) \in Nat /\ Start(file) \in Nat
      /\ file + 1 \in 1..(Len(files) + 1)
  BY <1>1, LayoutFacts DEF StorageInv
<1>3. current_offset >= Start(file + 1)
  BY <1>1, <1>2 DEF StorageInv, DataInPlace, InFile
<1>4. DataInPlace'
  BY <1>1, <1>2, <1>3 DEF StorageInv, DataInPlace, Start, files
<1>5. FilesFit' /\ InPlace'
  BY <1>1 DEF StorageInv, FilesFit, InPlace, Start, files
<1> QED BY <1>1, <1>4, <1>5 DEF StorageInv

\* A write puts bytes that are right for current_offset there, and zeros in the
\* gap before them.
LEMMA WriteStorage ==
  ASSUME StorageInv, file \in DOMAIN files, InFile, NEW n \in 0..bytes_to_write, WriteToFile(n),
         UNCHANGED layout
  PROVE  FilesFit' /\ InPlace'
<1>1. /\ content' \in [DOMAIN files -> Seq(Nat \cup {Junk})]
      /\ \A f \in DOMAIN files : f # file => content'[f] = content[f]
      /\ Len(content'[file]) = IF n = 0 \/ Len(content[file]) > offset_in_file + n
                               THEN Len(content[file]) ELSE offset_in_file + n
      /\ Len(content'[file]) <= files[file]
      /\ \A k \in 1..Len(content'[file]) :
            content'[file][k] =
               IF k \in (offset_in_file + 1)..(offset_in_file + n)
               THEN remaining_data[k - offset_in_file]
               ELSE IF k <= Len(content[file]) THEN content[file][k] ELSE Zero
      /\ exists' = exists \cup {file}
  BY WriteFacts
<1>2. /\ offset_in_file \in Nat /\ bytes_to_write \in 0..Len(remaining_data)
      /\ Start(file) \in Nat /\ current_offset = Start(file) + offset_in_file
      /\ Len(remaining_data) \in Nat
  BY RoundFacts
<1>3. \A f \in DOMAIN files : Start(f) \in Nat
  BY LayoutFacts DEF StorageInv
<1>4. UNCHANGED files /\ \A f : Start(f)' = Start(f)
  BY DEF files, Start
<1>5. FilesFit'
  <2>1. \A f \in DOMAIN files : Len(content'[f]) <= files[f]
    BY <1>1 DEF StorageInv, FilesFit
  <2>2. \A f \in DOMAIN files : f \notin exists' => content'[f] = <<>>
    BY <1>1 DEF StorageInv, FilesFit
  <2> QED BY <1>1, <1>4, <2>1, <2>2 DEF StorageInv, FilesFit
<1>6. ASSUME NEW f \in DOMAIN files, NEW k \in Nat, k \in 1..Len(content'[f])
      PROVE  content'[f][k] \in {Zero, Junk, Start(f) + k}
  <2>1. CASE f # file
    BY <2>1, <1>1, <1>6 DEF StorageInv, InPlace
  <2>2. CASE f = file /\ k \in (offset_in_file + 1)..(offset_in_file + n)
    <3> DEFINE i == k - offset_in_file
    <3>1. i \in 1..Len(remaining_data) /\ current_offset + i = Start(f) + k
      BY <2>2, <1>2
    <3>2. remaining_data[i] \in {Junk, current_offset + i}
      BY <3>1 DEF StorageInv, DataInPlace
    <3> HIDE DEF i
    <3>3. content'[f][k] = remaining_data[i]
      BY <2>2, <1>1, <1>6 DEF i
    <3> QED BY <3>1, <3>2, <3>3
  <2>3. CASE f = file /\ k \notin (offset_in_file + 1)..(offset_in_file + n)
    <3>1. content'[f][k] = IF k <= Len(content[f]) THEN content[f][k] ELSE Zero
      BY <2>3, <1>1, <1>6
    <3>2. k <= Len(content[f]) => k \in 1..Len(content[f])
      BY <1>6 DEF StorageInv, FilesFit
    <3> QED BY <3>1, <3>2 DEF StorageInv, InPlace
  <2> QED BY <2>1, <2>2, <2>3
<1>7. InPlace'
  BY <1>4, <1>6 DEF InPlace
<1> QED BY <1>5, <1>7

\* When a call returns, its locals are as before any call.
LEMMA ReturnStorage ==
  ASSUME StorageInv, FilesFit', InPlace', UNCHANGED layout,
         NEW r \in {"ok", "error"}, Return(r)
  PROVE  StorageInv'
<1>1. Len(files) \in Nat /\ BlockSize \in Nat
  BY LayoutFacts, StorageAssumption DEF StorageInv
<1>2. <<>> \in Seq(Nat \cup {Junk}) /\ Len(<<>>) = 0
  OBVIOUS
<1>3. DataInPlace'
  BY <1>1, <1>2 DEF Return, DataInPlace, files
<1> QED BY <1>3 DEF StorageInv, Return

\* A round that writes bytes into a file.
LEMMA WriteFileStorage ==
  ASSUME StorageInv, WriteFile
  PROVE  StorageInv'
<1> DEFINE n == bytes_to_write
           d == remaining_data
<1>1. writing /\ file \in DOMAIN files /\ InFile /\ WriteToFile(n) /\ UNCHANGED layout
  BY DEF WriteFile
<1>2. /\ n \in 0..Len(d) /\ current_offset \in Nat /\ Len(d) \in Nat
      /\ n # Len(d) => n > 0 /\ current_offset + n = Start(file + 1)
  BY <1>1, RoundFacts
<1>3. FilesFit' /\ InPlace'
  BY <1>1, <1>2, WriteStorage, n \in 0..bytes_to_write
<1>4. CASE n = Len(d)
  <2>1. Return("ok")
    BY <1>4 DEF WriteFile
  <2> QED BY <1>1, <1>3, <2>1, ReturnStorage
<1>5. CASE n # Len(d)
  <2>1. /\ file' = file + 1
        /\ current_offset' = current_offset + n
        /\ remaining_data' = SubSeq(d, n + 1, Len(d))
        /\ UNCHANGED <<writing, result>>
    BY <1>5 DEF WriteFile
  <2>2. /\ d \in Seq(Nat \cup {Junk}) /\ Len(d) <= BlockSize + 1 /\ BlockSize \in Nat
        /\ \A k \in 1..Len(d) : d[k] \in {Junk, current_offset + k}
    BY StorageAssumption DEF StorageInv, DataInPlace
  <2>3. file + 1 \in 1..(Len(files) + 1) /\ Start(file + 1) \in Nat
    BY <1>1, LayoutFacts DEF StorageInv
  <2> HIDE DEF n, d
  <2>4. /\ SubSeq(d, n + 1, Len(d)) \in Seq(Nat \cup {Junk})
        /\ Len(SubSeq(d, n + 1, Len(d))) = Len(d) - n
        /\ \A k \in 1..(Len(d) - n) : SubSeq(d, n + 1, Len(d))[k] = d[n + k]
    <3> DEFINE T == Nat \cup {Junk}
    <3>1. d \in Seq(T)
      BY <2>2
    <3> HIDE DEF T
    <3> QED BY <1>2, <3>1 DEF T
  <2> DEFINE rest == remaining_data'
  <2>5. /\ rest \in Seq(Nat \cup {Junk}) /\ Len(rest) = Len(d) - n
        /\ \A k \in 1..(Len(d) - n) : rest[k] = d[n + k]
    BY <2>1, <2>4
  <2>6. ASSUME NEW k \in 1..Len(rest) PROVE rest[k] \in {Junk, current_offset' + k}
    <3>1. n + k \in 1..Len(d) /\ k \in 1..(Len(d) - n)
      BY <2>5, <1>2
    <3>2. d[n + k] \in {Junk, current_offset + (n + k)}
      BY <3>1, <2>2
    <3>3. current_offset + (n + k) = current_offset' + k
      BY <3>1, <2>1, <1>2
    <3> QED BY <3>1, <3>2, <3>3, <2>5
  <2>7. current_offset' \in Nat /\ current_offset' >= Start(file + 1) /\ Len(rest) <= BlockSize + 1
    BY <1>2, <1>5, <2>1, <2>2, <2>3, <2>5
  <2>8. files' = files /\ Start(file)' = Start(file + 1)
    BY <1>1, <2>1 DEF Start, files
  <2>9. DataInPlace'
    BY <1>1, <2>1, <2>3, <2>5, <2>6, <2>7, <2>8 DEF DataInPlace
  <2> QED BY <1>1, <1>3, <2>1, <2>9 DEF StorageInv
<1> QED BY <1>4, <1>5

\* Every step keeps the invariant.
LEMMA NextStorage ==
  ASSUME StorageInv, [Next]_vars
  PROVE  StorageInv'
<1>1. ASSUME NEW p \in 0..total_pieces, NEW begin \in 0..(piece_length - 1),
             NEW n \in 0..(BlockSize + 1),
             \/ write_block(p, begin, RightData(p * piece_length + begin, n))
             \/ write_block(p, begin, JunkData(n))
      PROVE  StorageInv'
  BY <1>1, CallStorage
<1>2. CASE SkipFile
  BY <1>2, SkipStorage
<1>3. CASE WriteFile
  BY <1>3, WriteFileStorage
<1>4. CASE WriteFails
  <2>1. writing /\ file \in DOMAIN files /\ InFile /\ Return("error") /\ UNCHANGED layout
    BY <1>4 DEF WriteFails
  <2>2. CASE UNCHANGED <<content, exists>>
    BY <2>1, <2>2, ReturnStorage DEF StorageInv, FilesFit, InPlace, Start, files
  <2>3. ASSUME NEW n \in 0..bytes_to_write, WriteToFile(n) PROVE StorageInv'
    BY <2>1, <2>3, WriteStorage, ReturnStorage
  <2> QED BY <1>4, <2>2, <2>3 DEF WriteFails
<1>5. CASE WriteEnds
  BY <1>5, ReturnStorage DEF WriteEnds, StorageInv, FilesFit, InPlace, Start, files
<1>6. CASE UNCHANGED vars
  BY <1>6 DEF vars, locals, StorageInv, FilesFit, InPlace, DataInPlace, Start, files
<1> QED BY <1>1, <1>2, <1>3, <1>4, <1>5, <1>6 DEF Next

\* Whatever calls are made, and wherever they fail, each byte of a file is the
\* torrent's byte at that place, or one that is right nowhere.
THEOREM StorageInvariant == Spec => []StorageInv
<1>1. Init => StorageInv
  BY InitStorage
<1>2. StorageInv /\ [Next]_vars => StorageInv'
  BY NextStorage
<1> QED BY <1>1, <1>2, PTL DEF Spec

\* No file outgrows its length in the torrent, and none that does not exist has
\* content: the type invariant of files.rs.
THEOREM StorageTypeCorrect == Spec => []StorageTypeOK
<1>1. ASSUME StorageInv PROVE StorageTypeOK
  <2>1. \A f \in DOMAIN files : Start(f) \in Nat /\ End(f) <= total_size /\ files[f] \in Nat
           /\ End(f) = Start(f) + files[f]
    BY <1>1, LayoutFacts DEF StorageInv
  <2>2. total_size \in Nat /\ BlockSize \in Nat
    BY <1>1, LayoutFacts, StorageAssumption DEF StorageInv
  <2>3. ASSUME NEW f \in DOMAIN files
        PROVE  content[f] \in Seq({Zero, Junk} \cup 1..(total_size + BlockSize + 1))
    <3> DEFINE s == content[f]
               T == {Zero, Junk} \cup 1..(total_size + BlockSize + 1)
    <3>1. s \in Seq(Nat \cup {Junk}) /\ Len(s) \in Nat /\ Len(s) <= files[f]
      BY <1>1 DEF StorageInv, FilesFit
    <3>2. \A k \in 1..Len(s) : s[k] \in {Zero, Junk, Start(f) + k}
      BY <1>1, <3>1 DEF StorageInv, InPlace
    <3> HIDE DEF s
    <3>3. \A k \in 1..Len(s) : s[k] \in T
      BY <3>1, <3>2, <2>1, <2>2
    <3> HIDE DEF T
    <3>4. s \in Seq(T)
      BY <3>1, <3>3
    <3> QED BY <3>4 DEF s, T
  <2> QED BY <1>1, <2>3 DEF StorageInv, FilesFit, DataInPlace, StorageTypeOK
<1> QED BY <1>1, StorageInvariant, PTL

-----------------------------------------------------------------------------
(* The files are one array: write_block implements FlatStore.                *)

\* mem for given contents of the files.
MemOf(c) ==
    [o \in 0..(total_size - 1) |->
       LET f == Holder(o) IN
       IF o - Start(f) < Len(c[f]) THEN c[f][o - Start(f) + 1] ELSE None]

\* A place of the array is a place of the file that holds it.
LEMMA MemFacts ==
  ASSUME layout \in Layouts, NEW c, NEW f \in DOMAIN files, NEW o \in Int,
         Start(f) <= o, o < End(f)
  PROVE  /\ o \in 0..(total_size - 1)
         /\ MemOf(c)[o] = IF o - Start(f) < Len(c[f]) THEN c[f][o - Start(f) + 1] ELSE None
<1>1. o \in 0..(total_size - 1) /\ Holder(o) = f
  BY HolderFacts
<1> QED BY <1>1 DEF MemOf

\* The flat array is the one the files stand for.
LEMMA MemIsMemOf ==
  ASSUME UNCHANGED layout
  PROVE  /\ mem = MemOf(content) /\ mem' = MemOf(content')
         /\ DOMAIN mem = 0..(total_size - 1) /\ DOMAIN mem' = 0..(total_size - 1)
<1>1. mem = MemOf(content) /\ DOMAIN MemOf(content) = 0..(total_size - 1)
      /\ DOMAIN MemOf(content') = 0..(total_size - 1)
  BY DEF mem, MemOf
<1>2. /\ \A f : Start(f)' = Start(f) /\ End(f)' = End(f)
      /\ total_size' = total_size /\ files' = files
  BY DEF Start, End, total_size, files
<1>3. \A o : Holder(o)' = Holder(o)
  BY <1>2 DEF Holder
<1>4. mem' = MemOf(content')
  BY <1>2, <1>3 DEF mem, MemOf
<1> QED BY <1>1, <1>4

\* A round that writes n bytes stores them at the next places of the array.
LEMMA WriteIsStored ==
  ASSUME StorageInv, file \in DOMAIN files, InFile, NEW n \in 0..bytes_to_write, WriteToFile(n),
         UNCHANGED layout
  PROVE  Flat!Stored(n)
<1> DEFINE first == offset_in_file
           was == Len(content[file])
<1>1. /\ content' \in [DOMAIN files -> Seq(Nat \cup {Junk})]
      /\ \A f \in DOMAIN files : f # file => content'[f] = content[f]
      /\ Len(content'[file]) = IF n = 0 \/ was > first + n THEN was ELSE first + n
      /\ Len(content'[file]) <= files[file]
      /\ \A k \in 1..Len(content'[file]) :
            content'[file][k] =
               IF k \in (first + 1)..(first + n) THEN remaining_data[k - first]
               ELSE IF k <= was THEN content[file][k] ELSE Zero
  BY WriteFacts
<1>2. /\ first \in Nat /\ n \in Nat /\ first + n <= files[file] /\ files[file] \in Nat
      /\ Start(file) \in Nat /\ current_offset = Start(file) + first /\ was \in Nat
  BY RoundFacts DEF StorageInv, FilesFit
<1>3. /\ mem = MemOf(content) /\ mem' = MemOf(content')
      /\ DOMAIN mem = 0..(total_size - 1) /\ DOMAIN mem' = 0..(total_size - 1)
  BY MemIsMemOf
<1>4. End(file) = Start(file) + files[file] /\ layout \in Layouts
  BY DEF End, StorageInv
<1> HIDE DEF first, was
<1>5. n > 0 => current_offset + n - 1 \in DOMAIN mem
  <2> SUFFICES ASSUME n > 0 PROVE current_offset + n - 1 \in DOMAIN mem
    OBVIOUS
  <2>1. /\ Start(file) <= current_offset + n - 1 /\ current_offset + n - 1 < End(file)
        /\ current_offset + n - 1 \in Int
    BY <1>2, <1>4
  <2> QED BY <2>1, <1>3, <1>4, HolderFacts
<1>6. ASSUME NEW o \in DOMAIN mem
      PROVE  IF o \in current_offset..(current_offset + n - 1)
             THEN mem'[o] = remaining_data[o - current_offset + 1]
             ELSE mem'[o] = mem[o] \/ (mem[o] = None /\ mem'[o] = Zero)
  <2> DEFINE f == Holder(o)
             k == o - Start(f) + 1
  <2>1. /\ o \in Int /\ f \in DOMAIN files /\ Start(f) <= o /\ o < End(f)
        /\ Start(f) \in Nat /\ End(f) = Start(f) + files[f]
    BY <1>3, <1>4, HolderFacts, LayoutFacts
  <2> HIDE DEF f
  <2>2. /\ mem[o] = IF o - Start(f) < Len(content[f]) THEN content[f][k] ELSE None
        /\ mem'[o] = IF o - Start(f) < Len(content'[f]) THEN content'[f][k] ELSE None
    BY <2>1, <1>3, <1>4, MemFacts
  <2>3. CASE f # file
    <3>1. ~(Start(file) <= o /\ o < End(file))
      BY <2>1, <2>3, <1>4, HolderFacts DEF f
    <3>2. o \notin current_offset..(current_offset + n - 1)
      BY <3>1, <2>1, <1>2, <1>4
    <3>3. content'[f] = content[f]
      BY <2>1, <2>3, <1>1
    <3> QED BY <3>2, <3>3, <2>2
  <2>4. CASE f = file
    <3>1. k \in Nat /\ k >= 1 /\ o - Start(f) = k - 1 /\ k <= files[file]
      BY <1>2, <2>1, <2>4
    <3>2. o \in current_offset..(current_offset + n - 1) <=> k \in (first + 1)..(first + n)
      BY <3>1, <2>1, <2>4, <1>2
    <3>3. o - current_offset + 1 = k - first
      BY <2>1, <2>4, <1>2
    <3> HIDE DEF k
    <3>4. Len(content'[file]) \in Nat
      BY <1>1, <1>2
    <3>5. CASE k \in (first + 1)..(first + n)
      <4>1. k \in 1..Len(content'[file])
        BY <3>1, <3>4, <3>5, <1>1, <1>2
      <4>2. mem'[o] = content'[file][k]
        BY <4>1, <3>1, <3>4, <2>2, <2>4
      <4>3. content'[file][k] = remaining_data[k - first]
        BY <4>1, <3>5, <1>1
      <4> QED BY <4>2, <4>3, <3>2, <3>3, <3>5
    <3>6. CASE k \notin (first + 1)..(first + n) /\ k <= was
      <4>1. k \in 1..Len(content'[file]) /\ was <= Len(content'[file])
        BY <3>1, <3>4, <3>6, <1>1, <1>2
      <4>2. mem'[o] = content'[file][k] /\ mem[o] = content[file][k]
        BY <4>1, <3>1, <3>4, <3>6, <1>2, <2>2, <2>4 DEF was
      <4>3. content'[file][k] = content[file][k]
        BY <4>1, <3>6, <1>1
      <4> QED BY <4>2, <4>3, <3>2, <3>6
    <3>7. CASE k \notin (first + 1)..(first + n) /\ k > was
      <4>1. mem[o] = None
        BY <3>1, <3>7, <1>2, <2>2, <2>4 DEF was
      <4>2. CASE k <= Len(content'[file])
        <5>1. k \in 1..Len(content'[file])
          BY <4>2, <3>1, <3>4
        <5>2. mem'[o] = content'[file][k]
          BY <4>2, <3>1, <3>4, <2>2, <2>4
        <5>3. content'[file][k] = Zero
          BY <5>1, <3>7, <3>1, <1>1, <1>2
        <5> QED BY <4>1, <5>2, <5>3, <3>2, <3>7
      <4>3. CASE ~(k <= Len(content'[file]))
        <5>1. mem'[o] = None
          BY <4>3, <3>1, <3>4, <2>2, <2>4
        <5> QED BY <4>1, <5>1, <3>2, <3>7
      <4> QED BY <4>2, <4>3
    <3> QED BY <3>5, <3>6, <3>7, <3>1, <1>2
  <2> QED BY <2>3, <2>4
<1> QED BY <1>3, <1>5, <1>6 DEF Flat!Stored, Flat!Place

\* A round that writes nothing stores nothing.
LEMMA NothingIsStored ==
  ASSUME StorageInv, UNCHANGED <<layout, content>>
  PROVE  UNCHANGED mem /\ Flat!Stored(0)
<1>1. UNCHANGED mem /\ DOMAIN mem = 0..(total_size - 1)
  BY MemIsMemOf
<1>2. current_offset \in Nat /\ total_size \in Nat
  BY LayoutFacts DEF StorageInv, DataInPlace
<1>3. current_offset..(current_offset + 0 - 1) = {} /\ ~(0 > 0)
  BY <1>2
<1> QED BY <1>1, <1>3 DEF Flat!Stored, Flat!Place

\* Every step is one of the flat array, or changes nothing of it.
LEMMA StepIsFlat ==
  ASSUME StorageInv, [Next]_vars
  PROVE  [Flat!Next]_<<mem, writing, current_offset, remaining_data, result>>
<1> DEFINE flat == <<mem, writing, current_offset, remaining_data, result>>
<1>1. ASSUME NEW p \in 0..total_pieces, NEW begin \in 0..(piece_length - 1),
             NEW n \in 0..(BlockSize + 1), NEW data,
             data = RightData(p * piece_length + begin, n) \/ data = JunkData(n),
             write_block(p, begin, data)
      PROVE  Flat!Begin
  <2>1. current_offset' \in Nat /\ remaining_data' \in Seq(Nat \cup {Junk})
    BY <1>1, CallStorage
  <2>2. UNCHANGED mem
    BY <1>1, NothingIsStored DEF write_block
  <2> QED BY <1>1, <2>1, <2>2 DEF Flat!Begin, write_block
<1>2. CASE SkipFile
  <2>1. UNCHANGED flat
    BY <1>2, NothingIsStored DEF SkipFile
  <2> QED BY <2>1
<1>3. CASE WriteFile
  <2>1. /\ writing /\ file \in DOMAIN files /\ InFile /\ UNCHANGED layout
        /\ WriteToFile(bytes_to_write)
    BY <1>3 DEF WriteFile
  <2>2. /\ bytes_to_write \in 0..Len(remaining_data) /\ Len(remaining_data) \in Nat
        /\ bytes_to_write # Len(remaining_data) => bytes_to_write > 0
    BY <2>1, RoundFacts
  <2>3. Flat!Stored(bytes_to_write)
    BY <2>1, <2>2, WriteIsStored, bytes_to_write \in 0..bytes_to_write
  <2>4. CASE bytes_to_write = Len(remaining_data)
    <3>1. Return("ok")
      BY <1>3, <2>4 DEF WriteFile
    <3>2. Flat!Over("ok")
      BY <2>1, <3>1 DEF Flat!Over, Return
    <3>3. Flat!Succeed
      BY <2>3, <2>4, <3>2 DEF Flat!Succeed
    <3> QED BY <3>3 DEF Flat!Next
  <2>5. CASE bytes_to_write # Len(remaining_data)
    <3>1. /\ current_offset' = current_offset + bytes_to_write
          /\ remaining_data' = SubSeq(remaining_data, bytes_to_write + 1, Len(remaining_data))
          /\ UNCHANGED <<writing, result>>
      BY <1>3, <2>5 DEF WriteFile
    <3>2. bytes_to_write \in 1..(Len(remaining_data) - 1)
      BY <2>2, <2>5
    <3>3. Flat!Part
      BY <2>1, <2>3, <3>1, <3>2 DEF Flat!Part
    <3> QED BY <3>3 DEF Flat!Next
  <2> QED BY <2>4, <2>5
<1>4. CASE WriteFails
  <2>1. writing /\ file \in DOMAIN files /\ InFile /\ Return("error") /\ UNCHANGED layout
    BY <1>4 DEF WriteFails
  <2>2. Flat!Over("error")
    BY <2>1 DEF Flat!Over, Return
  <2>3. bytes_to_write \in 0..Len(remaining_data) /\ Len(remaining_data) \in Nat
    BY <2>1, RoundFacts
  <2>4. \E n \in 0..Len(remaining_data) : Flat!Stored(n)
    <3>1. CASE UNCHANGED <<content, exists>>
      <4>1. Flat!Stored(0) /\ 0 \in 0..Len(remaining_data)
        BY <2>1, <2>3, <3>1, NothingIsStored
      <4> QED BY <4>1
    <3>2. ASSUME NEW n \in 0..bytes_to_write, WriteToFile(n)
          PROVE  Flat!Stored(n) /\ n \in 0..Len(remaining_data)
      BY <2>1, <2>3, <3>2, WriteIsStored
    <3> QED BY <1>4, <3>1, <3>2 DEF WriteFails
  <2>5. Flat!Fail
    BY <2>2, <2>4 DEF Flat!Fail
  <2> QED BY <2>5 DEF Flat!Next
<1>5. CASE WriteEnds
  <2>1. writing /\ file \notin DOMAIN files /\ Return("ok") /\ UNCHANGED <<layout, content>>
    BY <1>5 DEF WriteEnds
  <2>2. Flat!Over("ok")
    BY <2>1 DEF Flat!Over, Return
  <2>3. current_offset \notin DOMAIN mem
    <3>1. file = Len(files) + 1
      BY <2>1, LayoutFacts, SMTT(30) DEF StorageInv, DataInPlace
    <3>2. current_offset >= total_size /\ current_offset \in Nat /\ total_size \in Nat
      BY <2>1, <3>1, LayoutFacts DEF StorageInv, DataInPlace, total_size
    <3>3. DOMAIN mem = 0..(total_size - 1)
      BY <2>1, MemIsMemOf
    <3> QED BY <3>2, <3>3
  <2>4. Flat!Stored(0)
    BY <2>1, NothingIsStored
  <2>5. Flat!Succeed
    BY <2>2, <2>3, <2>4 DEF Flat!Succeed, Flat!Place
  <2> QED BY <2>5 DEF Flat!Next
<1>6. CASE UNCHANGED vars
  <2>1. UNCHANGED flat
    BY <1>6, NothingIsStored DEF vars, locals
  <2> QED BY <2>1
<1>7. ASSUME NEW p \in 0..total_pieces, NEW begin \in 0..(piece_length - 1),
             NEW n \in 0..(BlockSize + 1),
             \/ write_block(p, begin, RightData(p * piece_length + begin, n))
             \/ write_block(p, begin, JunkData(n))
      PROVE  Flat!Begin
  BY <1>1, <1>7
<1> QED BY <1>2, <1>3, <1>4, <1>5, <1>6, <1>7 DEF Next, Flat!Next

\* No file has a byte yet: the array is empty.
LEMMA InitIsFlat ==
  ASSUME Init
  PROVE  Flat!Init
<1>1. StorageInv
  BY InitStorage
<1>2. total_size \in Nat /\ \A o \in 0..(total_size - 1) :
         /\ Holder(o) \in DOMAIN files
         /\ Start(Holder(o)) <= o /\ Start(Holder(o)) \in Nat
  BY <1>1, HolderFacts, LayoutFacts DEF StorageInv
<1>3. DOMAIN mem = 0..(total_size - 1)
  BY DEF mem
<1>4. ASSUME NEW o \in 0..(total_size - 1) PROVE mem[o] = None
  <2> DEFINE f == Holder(o)
  <2>1. content[f] = <<>> /\ f \in DOMAIN files /\ Start(f) <= o /\ Start(f) \in Nat
    BY <1>2 DEF Init
  <2>2. mem[o] = IF o - Start(f) < Len(content[f]) THEN content[f][o - Start(f) + 1] ELSE None
    BY DEF mem
  <2> HIDE DEF f
  <2>3. Len(content[f]) = 0
    BY <2>1
  <2> QED BY <2>1, <2>2, <2>3, <1>2
<1>5. mem \in [DOMAIN mem -> (Nat \cup {Junk}) \cup {None}]
  <2>1. mem = [o \in DOMAIN mem |-> mem[o]]
    BY DEF mem
  <2> QED BY <1>3, <1>4, <2>1
<1>6. Cardinality(DOMAIN mem) = total_size
  <2>1. Cardinality(0..(total_size - 1)) = total_size
    BY <1>2, FS_Interval
  <2> QED BY <1>3, <2>1
<1>7. ASSUME NEW S PROVE Flat!Cardinality(S) = Cardinality(S)
  BY DEF Flat!Cardinality, Cardinality
<1> QED BY <1>3, <1>5, <1>6, <1>7 DEF Flat!Init, Flat!Place, Init

\* write_block treats the files as one array of bytes: each byte goes to its own
\* place whatever boundaries a block crosses, a call that succeeds has stored all
\* that lie in the torrent, and one that fails leaves a prefix and spoils
\* nothing else.
THEOREM StorageImplementsFlatStore == Spec => FlatSpec
<1>1. Init => Flat!Init
  BY InitIsFlat
<1>2. StorageInv /\ [Next]_vars
         => [Flat!Next]_<<mem, writing, current_offset, remaining_data, result>>
  BY StepIsFlat
<1> QED BY <1>1, <1>2, StorageInvariant, PTL DEF Spec, FlatSpec, Flat!Spec, Flat!flatVars

-----------------------------------------------------------------------------
(* The pieces and their blocks.                                              *)

\* The torrents have one hash for each piece of their bytes: the conversion
\* takes num_pieces from the hashes, and nothing compares it with the files.
HashesMatch ==
    \A m \in Torrents :
        m.pieces = 20 * ((FileStart(m.files, Len(m.files) + 1) + m.piece_length - 1)
                           \div m.piece_length)

\* The pieces lie side by side, and the last one ends with the torrent.
LEMMA PieceFacts ==
  ASSUME HashesMatch, layout \in Layouts
  PROVE  /\ \A p \in Piece :
               /\ p \in Nat /\ p * piece_length \in Nat
               /\ get_piece_length(p) \in 1..piece_length
               /\ p * piece_length + get_piece_length(p) <= total_size
               /\ p = total_pieces - 1 => p * piece_length + get_piece_length(p) = total_size
               /\ p # total_pieces - 1 => get_piece_length(p) = piece_length
         /\ \A o \in 0..(total_size - 1) :
               o \div piece_length \in Piece /\ o \in Bytes(o \div piece_length)
         /\ \A p \in Piece : \A o \in Bytes(p) :
               o \in 0..(total_size - 1) /\ p = o \div piece_length
<1> DEFINE T == total_size
           L == piece_length
           P == total_pieces
           rest == T % L
           q == T \div L
<1>1. T \in Nat /\ L \in Nat \ {0} /\ P \in Nat
  BY LayoutFacts
<1>2. P = (T + L - 1) \div L
  <2>1. PICK m \in Torrents : layout = to_torrent_info(m)
    BY DEF Layouts
  <2>2. /\ files = m.files /\ L = m.piece_length /\ P = m.pieces \div 20
    BY <2>1 DEF files, piece_length, total_pieces, to_torrent_info
  <2>3. m.pieces = 20 * ((T + L - 1) \div L)
    BY <2>2 DEF HashesMatch, total_size, Start
  <2> DEFINE x == (T + L - 1) \div L
  <2>4. x \in Nat
    <3>1. T + L - 1 \in Nat
      BY <1>1
    <3> QED BY <3>1, <1>1, QuotientFacts
  <2> HIDE DEF x
  <2>5. (20 * x) \div 20 = x
    BY <2>4
  <2> QED BY <2>2, <2>3, <2>5 DEF x
<1>3. last_piece_length = IF rest = 0 THEN L ELSE rest
  BY DEF last_piece_length
<1>4. \A p : get_piece_length(p) = IF p = P - 1 THEN last_piece_length ELSE L
  BY <1>3 DEF get_piece_length
<1>5. \A p : Bytes(p) = (p * L)..(p * L + get_piece_length(p) - 1)
  BY DEF Bytes
<1>6. Piece = 0..(P - 1)
  BY DEF Piece
<1> HIDE DEF T, L, P
<1>7. q \in Nat /\ rest \in 0..(L - 1) /\ T = q * L + rest
  BY <1>1, QuotientFacts
<1> HIDE DEF rest, q
<1>8. T <= P * L /\ (P > 0 => (P - 1) * L < T) /\ P * L \in Nat
  <2> DEFINE a == T + L - 1
  <2>1. a \in Nat
    BY <1>1
  <2>2. P = a \div L
    BY <1>2
  <2> HIDE DEF a
  <2>3. a = P * L + (a % L) /\ a % L \in 0..(L - 1)
    BY <1>1, <2>1, <2>2, QuotientFacts
  <2>4. P * L \in Nat /\ (P - 1) * L = P * L - L
    BY <1>1
  <2> QED BY <1>1, <2>3, <2>4 DEF a
<1>9. ASSUME P > 0
      PROVE  last_piece_length \in 1..L /\ (P - 1) * L + last_piece_length = T
  <2>1. P - 1 \in Nat /\ (P - 1) * L \in Nat /\ (P - 1) * L = P * L - L
    BY <1>1, <1>9
  <2>2. CASE rest = 0
    <3>1. T = q * L
      BY <1>1, <1>7, <2>2
    <3>2. ~(q < P) \/ q * L + L <= P * L
      BY <1>1, <1>7, ProductGrows
    <3>3. ~(P < q) \/ P * L + L <= q * L
      BY <1>1, <1>7, ProductGrows
    <3>4. q = P
      BY <3>1, <3>2, <3>3, <1>1, <1>7, <1>8, <1>9, <2>1
    <3> QED BY <3>1, <3>4, <2>1, <2>2, <1>1, <1>3
  <2>3. CASE rest # 0
    <3>1. ~(q < P - 1) \/ q * L + L <= (P - 1) * L
      BY <1>1, <1>7, <2>1, ProductGrows
    <3>2. ~(P - 1 < q) \/ (P - 1) * L + L <= q * L
      BY <1>1, <1>7, <2>1, ProductGrows
    <3>3. q = P - 1
      <4>1. q * L \in Nat /\ q \in Nat /\ rest \in 1..(L - 1)
        BY <1>7, <1>1, <2>3
      <4> DEFINE x == q * L
                 y == (P - 1) * L
      <4>2. x \in Nat /\ y \in Nat /\ T = x + rest /\ T <= y + L /\ y < T
        BY <4>1, <1>1, <1>7, <1>8, <1>9, <2>1
      <4>3. (~(q < P - 1) \/ x + L <= y) /\ (~(P - 1 < q) \/ y + L <= x)
        BY <3>1, <3>2
      <4> HIDE DEF x, y
      <4> QED BY <4>1, <4>2, <4>3, <1>1, <2>1
    <3>4. T = (P - 1) * L + rest /\ rest \in 1..L
      BY <3>3, <2>3, <1>1, <1>7
    <3> QED BY <3>4, <2>3, <1>3
  <2> QED BY <2>2, <2>3
<1>10. ASSUME NEW p \in 0..(P - 1)
       PROVE  /\ p \in Nat /\ p * L \in Nat
              /\ get_piece_length(p) \in 1..L
              /\ p * L + get_piece_length(p) <= T
              /\ p = P - 1 => p * L + get_piece_length(p) = T
              /\ p # P - 1 => get_piece_length(p) = L
  <2>1. p \in Nat /\ p * L \in Nat /\ P > 0
    BY <1>1
  <2>2. CASE p = P - 1
    <3>1. get_piece_length(p) = last_piece_length
      BY <2>2, <1>4
    <3> QED BY <2>1, <2>2, <3>1, <1>1, <1>9
  <2>3. CASE p # P - 1
    <3>1. get_piece_length(p) = L
      BY <2>3, <1>4
    <3>2. p < P - 1 /\ P - 1 \in Nat
      BY <2>3, <2>1, <1>1
    <3>3. p * L + L <= (P - 1) * L
      BY <3>2, <2>1, <1>1, ProductGrows
    <3>4. (P - 1) * L \in Nat
      BY <3>2, <1>1
    <3> QED BY <2>1, <2>3, <3>1, <3>3, <3>4, <1>1, <1>8
  <2> QED BY <2>2, <2>3
<1>11. ASSUME NEW o \in 0..(T - 1)
       PROVE  o \div L \in 0..(P - 1) /\ o \in Bytes(o \div L)
  <2> DEFINE p == o \div L
             r == o % L
  <2>1. p \in Nat /\ r \in 0..(L - 1) /\ o = p * L + r /\ o \in Nat
    BY <1>1, QuotientFacts
  <2> HIDE DEF p, r
  <2>2. p < P
    <3> SUFFICES ASSUME P <= p PROVE FALSE
      BY <2>1, <1>1
    <3>1. P = p \/ P * L + L <= p * L
      BY <2>1, <1>1, ProductGrows
    <3>2. p * L \in Nat
      BY <2>1, <1>1
    <3> QED BY <3>1, <3>2, <2>1, <1>1, <1>8
  <2>3. p \in 0..(P - 1)
    BY <2>1, <2>2, <1>1
  <2>4. r < get_piece_length(p)
    <3>1. CASE p = P - 1
      <4>1. p * L + get_piece_length(p) = T /\ p * L \in Nat /\ get_piece_length(p) \in 1..L
        BY <3>1, <2>3, <1>10
      <4> QED BY <4>1, <2>1, <1>1
    <3>2. CASE p # P - 1
      BY <3>2, <2>1, <2>3, <1>10
    <3> QED BY <3>1, <3>2
  <2>5. o \in Bytes(p)
    <3>1. p * L \in Nat /\ get_piece_length(p) \in 1..L
      BY <2>3, <1>10
    <3> QED BY <3>1, <2>1, <2>4, <1>1, <1>5
  <2> QED BY <2>3, <2>5 DEF p
<1>12. ASSUME NEW p \in 0..(P - 1), NEW o \in Bytes(p)
       PROVE  o \in 0..(T - 1) /\ p = o \div L
  <2>1. p \in Nat /\ p * L \in Nat /\ get_piece_length(p) \in 1..L /\ p * L + get_piece_length(p) <= T
    BY <1>10
  <2>2. o \in (p * L)..(p * L + get_piece_length(p) - 1)
    BY <1>5
  <2> DEFINE r == o - p * L
             x == p * L
             N == get_piece_length(p)
  <2>3. o \in 0..(T - 1) /\ r \in 0..(L - 1) /\ o = x + r /\ o \in Nat
    <3>1. x \in Nat /\ N \in 1..L /\ x + N <= T /\ o \in x..(x + N - 1) /\ r = o - x
      BY <2>1, <2>2
    <3> HIDE DEF x, N, r
    <3> QED BY <3>1, <1>1
  <2>4. p = o \div L
    BY <2>1, <2>3, <1>1, QuotientUnique
  <2> QED BY <2>3, <2>4
<1> QED BY <1>6, <1>10, <1>11, <1>12 DEF T, L, P

-----------------------------------------------------------------------------
(* read_piece: the loop over the files.                                      *)

\* The variables of the loop.
ReadState == [ok : BOOLEAN, at : Nat, need : Nat, data : Seq(Int)]

\* A read that fails stays failed.
LEMMA FailedFacts ==
  ASSUME NEW s \in ReadState
  PROVE  Failed(s) \in ReadState /\ Failed(s).ok = FALSE
<1>1. Failed(s) \in ReadState
  BY Zenon DEF ReadState, Failed
<1>2. Failed(s).ok = FALSE
  BY Zenon DEF ReadState, Failed
<1> QED BY <1>1, <1>2

Greater(a, b) == IF a > b THEN a ELSE b

\* How far the files up to `reached' take a reading from a to e.
Reach(a, e, reached) == Least(e, Greater(a, reached))

\* The loop invariant: what was read is what the array holds, and a reading
\* that failed met a byte that no file has.
ReadUpTo(s, a, e, reached) ==
    IF s.ok
    THEN /\ s.at = Reach(a, e, reached) /\ s.need = e - s.at
         /\ Len(s.data) = s.at - a
         /\ \A k \in 1..Len(s.data) : s.data[k] = mem[a + k - 1] /\ mem[a + k - 1] # None
    ELSE \E o \in a..(e - 1) : mem[o] = None

\* A file that a reading is past, or does not come to, takes it no further.
LEMMA ReachStays ==
  ASSUME NEW a \in Nat, NEW e \in Nat, a < e, NEW start \in Nat, NEW end \in Nat, start <= end,
         NEW at \in Nat, at = Reach(a, e, start), e - at = 0 \/ ~(at < end /\ at + (e - at) > start)
  PROVE  at = Reach(a, e, end)
BY DEF Reach, Least, Greater

\* A round leaves all as it is, or fails, or reads from first to last in its
\* file.
LEMMA ReadRoundCases ==
  ASSUME StorageInv, NEW f \in DOMAIN files, NEW s \in ReadState
  PROVE  \/ /\ ReadRound(s, f) = s
            /\ s.ok = FALSE \/ s.need = 0 \/ ~(s.at < End(f) /\ s.at + s.need > Start(f))
         \/ \E first, last \in Nat :
              /\ s.ok = TRUE /\ s.need > 0 /\ s.at < End(f)
              /\ first = (IF s.at > Start(f) THEN s.at - Start(f) ELSE 0)
              /\ first <= last /\ last <= files[f] /\ last <= first + s.need
              /\ last = files[f] \/ last = first + s.need
              /\ \/ /\ f \notin exists \/ Len(content[f]) < last
                    /\ ReadRound(s, f) = Failed(s)
                 \/ /\ last <= Len(content[f])
                    /\ ReadRound(s, f) =
                         [ok |-> TRUE, at |-> s.at + (last - first),
                          need |-> s.need - (last - first),
                          data |-> s.data \o SubSeq(content[f], first + 1, last)]
<1> DEFINE at == s.at
           need == s.need
           start == Start(f)
           end == End(f)
           length == files[f]
           c == content[f]
           first == IF at > start THEN at - start ELSE 0
           last == Least(length, first + need)
<1>1. start \in Nat /\ length \in Nat /\ end = start + length
  BY LayoutFacts DEF StorageInv
<1>2. at \in Nat /\ need \in Nat /\ s.ok \in BOOLEAN
  BY DEF ReadState
<1>3. Len(c) \in Nat /\ (f \notin exists => Len(c) = 0)
  <2>1. (f \notin exists => c = <<>>) /\ c \in Seq(Nat \cup {Junk})
    BY DEF StorageInv, FilesFit
  <2> HIDE DEF c
  <2> QED BY <2>1
<1>4. ReadRound(s, f) =
        IF ~s.ok \/ need = 0 \/ ~(at < end /\ at + need > start) THEN s
        ELSE IF f \notin exists \/ Len(c) < last THEN Failed(s)
        ELSE [ok |-> TRUE, at |-> at + (last - first), need |-> need - (last - first),
              data |-> s.data \o SubSeq(c, first + 1, last)]
  BY DEF ReadRound
<1> HIDE DEF at, need, start, end, length, c
<1>5. CASE s.ok = FALSE \/ need = 0 \/ ~(at < end /\ at + need > start)
  <2>1. ReadRound(s, f) = s
    BY <1>2, <1>4, <1>5
  <2> QED BY <2>1, <1>5 DEF at, need, start, end
<1>6. CASE s.ok = TRUE /\ need # 0 /\ at < end /\ at + need > start
  <2>1. first \in Nat /\ first <= length
    BY <1>1, <1>2, <1>6
  <2>2. need > 0
    BY <1>2, <1>6
  <2> HIDE DEF first
  <2>3. last \in Nat /\ first <= last /\ last <= length /\ last <= first + need
        /\ (last = length \/ last = first + need)
    BY <1>1, <1>2, <2>1, <2>2 DEF Least
  <2>4. first = (IF at > start THEN at - start ELSE 0)
    BY DEF first
  <2> HIDE DEF last
  <2>5. CASE f \notin exists \/ Len(c) < last
    <3>1. ReadRound(s, f) = Failed(s)
      BY <2>5, <1>4, <1>6
    <3> QED BY <1>6, <2>1, <2>2, <2>3, <2>4, <2>5, <3>1 DEF at, need, start, end, length, c
  <2>6. CASE ~(f \notin exists \/ Len(c) < last)
    <3>1. last <= Len(c)
      BY <2>6, <2>3, <1>3
    <3>2. ReadRound(s, f) =
            [ok |-> TRUE, at |-> at + (last - first), need |-> need - (last - first),
             data |-> s.data \o SubSeq(c, first + 1, last)]
      BY <2>6, <1>4, <1>6
    <3> QED BY <1>6, <2>1, <2>2, <2>3, <2>4, <3>1, <3>2 DEF at, need, start, end, length, c
  <2> QED BY <2>5, <2>6
<1> QED BY <1>2, <1>5, <1>6

\* What is read in one round follows what was read before.
LEMMA ReadRoundStep ==
  ASSUME StorageInv, NEW f \in DOMAIN files, NEW s \in ReadState
  PROVE  /\ ReadRound(s, f) \in ReadState
         /\ \A a \in Nat, e \in Nat :
               a < e /\ ReadUpTo(s, a, e, Start(f)) => ReadUpTo(ReadRound(s, f), a, e, End(f))
<1> DEFINE t == ReadRound(s, f)
           at == s.at
           need == s.need
           data == s.data
           start == Start(f)
           end == End(f)
           length == files[f]
           c == content[f]
<1>1. start \in Nat /\ length \in Nat /\ end = start + length /\ end \in Nat /\ layout \in Layouts
  BY LayoutFacts DEF StorageInv
<1>2. at \in Nat /\ need \in Nat /\ s.ok \in BOOLEAN /\ data \in Seq(Int)
  BY DEF ReadState
<1>3. c \in Seq(Nat \cup {Junk}) /\ mem = MemOf(content) /\ (f \notin exists => Len(c) = 0)
  BY DEF StorageInv, FilesFit, mem, MemOf
<1>4. Len(c) \in Nat /\ Len(data) \in Nat /\ c \in Seq(Int)
  BY <1>2, <1>3 DEF Junk
<1>5. ASSUME NEW o \in Int, start <= o, o < end
      PROVE  mem[o] = IF o - start < Len(c) THEN c[o - start + 1] ELSE None
  BY <1>1, <1>3, <1>5, MemFacts
<1>6. ASSUME NEW a \in Nat, NEW e \in Nat, ReadUpTo(s, a, e, start), s.ok = TRUE
      PROVE  /\ at = Reach(a, e, start) /\ need = e - at
             /\ Len(data) = at - a
             /\ \A k \in 1..Len(data) : data[k] = mem[a + k - 1] /\ mem[a + k - 1] # None
  BY <1>6 DEF ReadUpTo
<1>7. \/ /\ t = s
         /\ s.ok = FALSE \/ need = 0 \/ ~(at < end /\ at + need > start)
      \/ \E first, last \in Nat :
           /\ s.ok = TRUE /\ need > 0 /\ at < end
           /\ first = (IF at > start THEN at - start ELSE 0)
           /\ first <= last /\ last <= length /\ last <= first + need
           /\ last = length \/ last = first + need
           /\ \/ /\ f \notin exists \/ Len(c) < last
                 /\ t = Failed(s)
              \/ /\ last <= Len(c)
                 /\ t = [ok |-> TRUE, at |-> at + (last - first), need |-> need - (last - first),
                         data |-> data \o SubSeq(c, first + 1, last)]
  BY ReadRoundCases
<1> HIDE DEF t, at, need, data, start, end, length, c
<1>8. CASE t = s /\ (s.ok = FALSE \/ need = 0 \/ ~(at < end /\ at + need > start))
  <2>1. ASSUME NEW a \in Nat, NEW e \in Nat, a < e, ReadUpTo(s, a, e, start)
        PROVE  ReadUpTo(s, a, e, end)
    <3>1. CASE s.ok = FALSE
      BY <3>1, <2>1 DEF ReadUpTo
    <3>2. CASE s.ok = TRUE
      <4>1. at = Reach(a, e, start) /\ need = e - at
        BY <3>2, <2>1, <1>6
      <4>2. e - at = 0 \/ ~(at < end /\ at + (e - at) > start)
        BY <4>1, <3>2, <1>8
      <4>3. start <= end
        BY <1>1
      <4>4. at = Reach(a, e, end)
        BY <4>1, <4>2, <4>3, <1>1, <1>2, a \in Nat, e \in Nat, a < e, ReachStays
      <4> QED BY <3>2, <4>4, <2>1 DEF ReadUpTo, at
    <3> QED BY <3>1, <3>2, <1>2
  <2> QED BY <1>8, <2>1 DEF t, start, end
<1>9. ASSUME NEW first \in Nat, NEW last \in Nat,
             s.ok = TRUE, need > 0, at < end,
             first = (IF at > start THEN at - start ELSE 0),
             first <= last, last <= length, last <= first + need,
             last = length \/ last = first + need,
             \/ /\ f \notin exists \/ Len(c) < last
                /\ t = Failed(s)
             \/ /\ last <= Len(c)
                /\ t = [ok |-> TRUE, at |-> at + (last - first), need |-> need - (last - first),
                        data |-> data \o SubSeq(c, first + 1, last)]
      PROVE  /\ t \in ReadState
             /\ \A a \in Nat, e \in Nat :
                   a < e /\ ReadUpTo(s, a, e, start) => ReadUpTo(t, a, e, end)
  <2>1. ASSUME NEW a \in Nat, NEW e \in Nat, a < e, ReadUpTo(s, a, e, start)
        PROVE  /\ at = Reach(a, e, start) /\ need = e - at
               /\ at >= start /\ first = at - start /\ at >= a
               /\ first < last /\ start + last <= e
               /\ start + last = Reach(a, e, end)
    <3>1. at = Reach(a, e, start) /\ need = e - at
      BY <1>6, <1>9, <2>1
    <3>2. /\ e - at > 0 /\ at < start + length /\ last <= first + (e - at)
          /\ last = length \/ last = first + (e - at)
          /\ first = (IF at > start THEN at - start ELSE 0)
          /\ last <= length /\ start \in Nat /\ length \in Nat /\ at = Reach(a, e, start)
          /\ at \in Nat
      BY <3>1, <1>1, <1>2, <1>9
    <3>3. at >= start /\ first = at - start /\ at >= a
      BY <3>2, <2>1 DEF Reach, Least, Greater
    <3>4. first < last /\ start + last <= e
      BY <3>2, <3>3
    <3>5. start + last = Reach(a, e, start + length)
      BY <3>2, <3>3, <3>4, <2>1 DEF Reach, Least, Greater
    <3> QED BY <3>1, <3>3, <3>4, <3>5, <1>1
  <2>2. CASE (f \notin exists \/ Len(c) < last) /\ t = Failed(s)
    <3>1. t \in ReadState /\ t.ok = FALSE
      BY <2>2, FailedFacts
    <3>2. ASSUME NEW a \in Nat, NEW e \in Nat, a < e, ReadUpTo(s, a, e, start)
          PROVE  ReadUpTo(t, a, e, end)
      <4> DEFINE o == start + last - 1
      <4>1. at >= start /\ first = at - start /\ first < last /\ at >= a /\ start + last <= e
        BY <2>1, <3>2
      <4>2. o \in a..(e - 1) /\ o \in Int /\ start <= o /\ o < end /\ o - start = last - 1
        BY <4>1, <1>1, <1>2, <1>9
      <4> HIDE DEF o
      <4>3. Len(c) < last
        BY <4>1, <2>2, <1>3
      <4>4. mem[o] = None
        BY <4>2, <4>3, <1>4, <1>5
      <4> QED BY <4>2, <4>4, <3>1 DEF ReadUpTo
    <3> QED BY <3>1, <3>2
  <2>3. CASE /\ last <= Len(c)
             /\ t = [ok |-> TRUE, at |-> at + (last - first), need |-> need - (last - first),
                     data |-> data \o SubSeq(c, first + 1, last)]
    <3> DEFINE new == SubSeq(c, first + 1, last)
               n == last - first
               all == data \o new
    <3>0. first <= last /\ last <= Len(c)
      BY <1>9, <2>3
    <3>1. /\ new \in Seq(Int) /\ Len(new) = n /\ n \in Nat
          /\ \A k \in 1..n : new[k] = c[first + k]
      <4>1. n \in Nat
        BY <3>0
      <4> QED BY <4>1, <3>0, <1>4, SliceElements
    <3> HIDE DEF new, n
    <3>2. /\ all \in Seq(Int) /\ Len(all) = Len(data) + n
          /\ \A k \in 1..Len(data) : all[k] = data[k]
          /\ \A k \in 1..n : all[Len(data) + k] = new[k]
      <4>1. /\ data \o new \in Seq(Int) /\ Len(data \o new) = Len(data) + Len(new)
            /\ \A k \in 1..Len(data) : (data \o new)[k] = data[k]
            /\ \A k \in 1..Len(new) : (data \o new)[Len(data) + k] = new[k]
        <5>1. ASSUME NEW x \in Seq(Int), NEW y \in Seq(Int)
              PROVE  /\ x \o y \in Seq(Int) /\ Len(x \o y) = Len(x) + Len(y)
                     /\ \A k \in 1..Len(x) : (x \o y)[k] = x[k]
                     /\ \A k \in 1..Len(y) : (x \o y)[Len(x) + k] = y[k]
          BY ConcatElements
        <5> QED BY <5>1, <1>2, <3>1
      <4> QED BY <4>1, <3>1
    <3> HIDE DEF all
    <3>3. t = [ok |-> TRUE, at |-> at + n, need |-> need - n, data |-> all]
      BY <2>3 DEF new, n, all
    <3>4. at + n \in Nat /\ need - n \in Nat
      <4>1. n <= need
        BY <1>2, <1>9 DEF n
      <4> QED BY <4>1, <1>2, <3>1
    <3>5. t \in ReadState /\ t.ok = TRUE /\ t.at = at + n /\ t.need = need - n /\ t.data = all
      BY <3>2, <3>3, <3>4 DEF ReadState
    <3>6. ASSUME NEW a \in Nat, NEW e \in Nat, a < e, ReadUpTo(s, a, e, start)
          PROVE  ReadUpTo(t, a, e, end)
      <4>1. /\ need = e - at /\ at >= start /\ first = at - start /\ at >= a
            /\ start + last = Reach(a, e, end) /\ start + last <= e
        BY <2>1, <3>6
      <4>2. /\ Len(data) = at - a
            /\ \A k \in 1..Len(data) : data[k] = mem[a + k - 1] /\ mem[a + k - 1] # None
        BY <1>6, <1>9, <3>6
      <4>3. at + n = start + last
        BY <4>1, <1>1, <1>2, <1>9 DEF n
      <4>4. /\ at + n = Reach(a, e, end) /\ need - n = e - (at + n)
            /\ Len(all) = (at + n) - a
        BY <4>1, <4>2, <4>3, <3>1, <3>2, <1>2, <1>4
      <4>5. ASSUME NEW k \in 1..Len(all) PROVE all[k] = mem[a + k - 1] /\ mem[a + k - 1] # None
        <5>1. CASE k <= Len(data)
          <6>1. k \in 1..Len(data)
            BY <5>1, <1>4
          <6> QED BY <6>1, <4>2, <3>2
        <5>2. CASE k > Len(data)
          <6> DEFINE j == k - Len(data)
                     o == a + k - 1
          <6>1. j \in 1..n /\ k = Len(data) + j
            BY <5>2, <1>4, <3>1, <3>2
          <6>2. all[k] = c[first + j]
            BY <6>1, <3>1, <3>2
          <6>3. o \in Int /\ o - start = first + j - 1 /\ start <= o /\ o < end
            <7>1. /\ Len(data) = at - a /\ at >= start /\ first = at - start /\ first <= last
                  /\ last <= length /\ first \in Nat /\ last \in Nat
              BY <4>1, <4>2, <1>9
            <7>2. n \in Nat /\ j \in 1..(last - first) /\ k \in Nat
              BY <6>1, <3>1, <1>4 DEF n
            <7>3. k = (at - a) + j
              BY <6>1, <7>1
            <7> HIDE DEF j
            <7> QED BY <7>1, <7>2, <7>3, <1>1, <1>2
          <6> HIDE DEF o, j
          <6>4. first + j \in 1..Len(c)
            <7>1. first \in Nat /\ last \in Nat /\ Len(c) \in Nat
              BY <1>4, <1>9
            <7>2. j \in Nat /\ 1 <= j /\ j <= n
              BY <6>1, <3>1
            <7>3. first + j <= last
              BY <7>1, <7>2 DEF n
            <7> QED BY <7>1, <7>2, <7>3, <3>0
          <6>5. mem[o] = IF o - start < Len(c) THEN c[o - start + 1] ELSE None
            BY <6>3, <1>5
          <6>6. o - start < Len(c) /\ o - start + 1 = first + j
            <7>1. j \in Int
              BY <6>1, <3>1
            <7> QED BY <7>1, <6>3, <6>4, <1>1, <1>4
          <6>7. c[first + j] # None
            <7>1. c[first + j] \in Nat \cup {Junk}
              BY <6>4, <1>3
            <7> QED BY <7>1 DEF None, Junk
          <6> QED BY <6>2, <6>5, <6>6, <6>7 DEF o
        <5> QED BY <5>1, <5>2, <1>4
      <4> QED BY <4>4, <4>5, <3>5 DEF ReadUpTo
    <3> QED BY <3>5, <3>6
  <2> QED BY <1>9, <2>2, <2>3
<1>10. /\ t \in ReadState
       /\ \A a \in Nat, e \in Nat : a < e /\ ReadUpTo(s, a, e, start) => ReadUpTo(t, a, e, end)
  <2>1. CASE t = s /\ (s.ok = FALSE \/ need = 0 \/ ~(at < end /\ at + need > start))
    BY <1>8, <2>1 DEF t, start, end
  <2>2. CASE ~(t = s /\ (s.ok = FALSE \/ need = 0 \/ ~(at < end /\ at + need > start)))
    BY <1>7, <1>9, <2>2
  <2> QED BY <2>1, <2>2
<1> QED BY <1>10 DEF t, start, end

\* The state of the loop after each file.
LEMMA ReadLoop ==
  ASSUME StorageInv, NEW p \in Nat, p * piece_length \in Nat, get_piece_length(p) \in Nat
  PROVE  \E g \in [Nat -> ReadState] :
            /\ g[0] = [ok |-> TRUE, at |-> p * piece_length, need |-> get_piece_length(p),
                       data |-> <<>>]
            /\ \A f \in 1..Len(files) : g[f] = ReadRound(g[f - 1], f)
            /\ read_piece(p).ok = g[Len(files)].ok
            /\ read_piece(p).data = g[Len(files)].data
                                      \o [k \in 1..g[Len(files)].need |-> Zero]
<1> DEFINE n == Len(files)
           first == [ok |-> TRUE, at |-> p * piece_length, need |-> get_piece_length(p),
                     data |-> <<>>]
           Round(s, f) == ReadRound(s, f)
           step == [x \in Nat \X ReadState |->
                      IF x[1] + 1 \in 1..n THEN Round(x[2], x[1] + 1) ELSE x[2]]
<1>1. n \in Nat /\ DOMAIN files = 1..n
  BY LayoutFacts DEF StorageInv
<1>2. \A s \in ReadState, f \in 1..n : Round(s, f) \in ReadState
  BY <1>1, ReadRoundStep
<1>3. first \in ReadState
  <2>1. <<>> \in Seq(Int)
    OBVIOUS
  <2> QED BY <2>1 DEF ReadState
<1> HIDE DEF n, first, Round
<1>4. step \in [Nat \X ReadState -> ReadState]
  BY <1>2
<1>5. PICK g \in [Nat -> ReadState] : \A k \in Nat : DefinedUpTo(g, k, first, step)
  <2> HIDE DEF step
  <2> QED BY <1>3, <1>4, Recursion
<1>6. g[0] = first
  BY <1>5 DEF DefinedUpTo
<1>7. ASSUME NEW f \in 1..n PROVE g[f] = Round(g[f - 1], f)
  <2>1. f - 1 \in Nat /\ (f - 1) + 1 = f /\ f \in Nat /\ f - 1 \in 0..(f - 1)
    BY <1>1
  <2>2. g[f] = step[<<f - 1, g[f - 1]>>]
    <3> HIDE DEF step
    <3>1. DefinedUpTo(g, f, first, step)
      BY <1>5, <2>1
    <3> QED BY <2>1, <3>1 DEF DefinedUpTo
  <2>3. <<f - 1, g[f - 1]>> \in Nat \X ReadState
    BY <2>1
  <2> QED BY <2>1, <2>2, <2>3
<1> HIDE DEF step
<1>8. /\ read_piece(p).ok = g[n].ok
      /\ read_piece(p).data = g[n].data \o [k \in 1..g[n].need |-> Zero]
  <2> DEFINE after[f \in 0..Len(files)] ==
               IF f = 0 THEN [ok |-> TRUE, at |-> p * piece_length,
                              need |-> get_piece_length(p), data |-> <<>>]
                        ELSE ReadRound(after[f - 1], f)
             h == [f \in 0..n |-> g[f]]
  <2>1. ASSUME NEW f \in 0..n PROVE h[f] = IF f = 0 THEN first ELSE Round(h[f - 1], f)
    <3>1. CASE f = 0
      BY <3>1, <1>6
    <3>2. CASE f # 0
      <4>1. f \in 1..n /\ f - 1 \in 0..n
        BY <1>1, <3>2
      <4> QED BY <3>2, <4>1, <1>7
    <3> QED BY <3>1, <3>2
  <2>2. h = [f \in 0..n |-> IF f = 0 THEN first ELSE Round(h[f - 1], f)]
    <3>1. h = [f \in 0..n |-> h[f]]
      OBVIOUS
    <3> HIDE DEF h
    <3> QED BY <2>1, <3>1
  <2>3. after = [f \in 0..n |-> IF f = 0 THEN first ELSE Round(after[f - 1], f)]
    <3> HIDE DEF h
    <3> QED BY <2>2 DEF n, first, Round
  <2>4. /\ read_piece(p).ok = after[n].ok
        /\ read_piece(p).data = after[n].data \o [k \in 1..after[n].need |-> Zero]
    <3>1. read_piece(p) = [ok |-> after[Len(files)].ok,
                           data |-> after[Len(files)].data
                                      \o [k \in 1..after[Len(files)].need |-> Zero]]
      BY DEF read_piece
    <3> HIDE DEF after
    <3> DEFINE x == after[Len(files)].ok
               y == after[Len(files)].data \o [k \in 1..after[Len(files)].need |-> Zero]
               r == read_piece(p)
    <3>2. r = [ok |-> x, data |-> y]
      BY <3>1
    <3> HIDE DEF x, y, r
    <3>3. r.ok = x /\ r.data = y
      BY <3>2
    <3> QED BY <3>3 DEF x, y, r, n
  <2> HIDE DEF after, h
  <2> DEFINE S == {k \in Nat : k <= n => after[k] = g[k]}
  <2>5. 0 \in S
    BY <1>1, <1>6, <2>3
  <2>6. ASSUME NEW k \in Nat, k \in S PROVE k + 1 \in S
    <3> SUFFICES ASSUME k + 1 <= n PROVE after[k + 1] = g[k + 1]
      OBVIOUS
    <3>1. k + 1 \in 1..n /\ k + 1 \in 0..n /\ (k + 1) - 1 = k /\ k + 1 # 0 /\ k <= n
      BY <1>1
    <3>2. after[k + 1] = Round(after[k], k + 1)
      BY <2>3, <3>1
    <3>3. g[k + 1] = Round(g[k], k + 1)
      BY <1>7, <3>1
    <3>4. after[k] = g[k]
      BY <2>6, <3>1
    <3> QED BY <3>2, <3>3, <3>4
  <2>7. Nat \subseteq S
    <3> HIDE DEF S
    <3> QED BY <2>5, <2>6, SetInduction
  <2>8. after[n] = g[n]
    BY <1>1, <2>7
  <2> QED BY <2>4, <2>8
<1> QED BY <1>6, <1>7, <1>8 DEF n, first, Round

\* What read_piece returns: the bytes of the piece as the array holds them, or
\* an error when one of them is missing.
LEMMA ReadPieceFacts ==
  ASSUME StorageInv, HashesMatch, NEW p \in Piece
  PROVE  /\ read_piece(p).ok \in BOOLEAN
         /\ read_piece(p).ok = TRUE <=> \A o \in Bytes(p) : mem[o] # None
         /\ read_piece(p).ok = TRUE =>
              /\ read_piece(p).data \in Seq(Int)
              /\ Len(read_piece(p).data) = get_piece_length(p)
              /\ \A k \in 1..get_piece_length(p) :
                    read_piece(p).data[k] = mem[p * piece_length + k - 1]
<1> DEFINE a == p * piece_length
           N == get_piece_length(p)
           e == a + N
           n == Len(files)
           data == read_piece(p).data
<1>1. layout \in Layouts
  BY DEF StorageInv
<1>2. /\ p \in Nat /\ a \in Nat /\ N \in 1..piece_length /\ e <= total_size
      /\ piece_length \in Nat /\ total_size \in Nat
  BY <1>1, PieceFacts, LayoutFacts
<1>3. n \in Nat /\ DOMAIN files = 1..n /\ total_size = Start(n + 1) /\ Start(1) = 0
      /\ \A f \in 1..n : Start(f + 1) = End(f)
  BY <1>1, LayoutFacts DEF total_size
<1>4. N \in Nat /\ e \in Nat /\ a < e /\ Bytes(p) = a..(e - 1)
  BY <1>2 DEF Bytes
<1>5. PICK g \in [Nat -> ReadState] :
            /\ g[0] = [ok |-> TRUE, at |-> a, need |-> N, data |-> <<>>]
            /\ \A f \in 1..n : g[f] = ReadRound(g[f - 1], f)
            /\ read_piece(p).ok = g[n].ok
            /\ data = g[n].data \o [k \in 1..g[n].need |-> Zero]
  BY <1>2, <1>4, ReadLoop
<1>6. ASSUME NEW f \in 1..n, NEW s \in ReadState, ReadUpTo(s, a, e, Start(f))
      PROVE  ReadUpTo(ReadRound(s, f), a, e, End(f))
  <2> HIDE DEF a, e
  <2>1. \A b \in Nat, c \in Nat : b < c /\ ReadUpTo(s, b, c, Start(f))
                                  => ReadUpTo(ReadRound(s, f), b, c, End(f))
    BY <1>3, ReadRoundStep
  <2> QED BY <1>2, <1>4, <1>6, <2>1
<1>7. read_piece(p).ok = g[n].ok /\ data = g[n].data \o [k \in 1..g[n].need |-> Zero]
  BY <1>5
<1> HIDE DEF a, N, e, n, data
<1>8. ReadUpTo(g[0], a, e, Start(1))
  <2>1. a = Reach(a, e, 0) /\ N = e - a
    BY <1>2, <1>4 DEF Reach, Least, Greater, e
  <2>2. g[0].ok = TRUE /\ g[0].at = a /\ g[0].need = N /\ g[0].data = <<>> /\ Len(<<>>) = 0
    BY <1>5
  <2>3. Len(g[0].data) = a - a /\ 1..Len(g[0].data) = {}
    BY <2>2, <1>2
  <2> QED BY <2>1, <2>2, <2>3, <1>3 DEF ReadUpTo
<1>9. ReadUpTo(g[n], a, e, total_size)
  <2> DEFINE S == {k \in Nat : k <= n => ReadUpTo(g[k], a, e, Start(k + 1))}
  <2>1. 0 \in S
    BY <1>8
  <2>2. ASSUME NEW k \in Nat, k \in S PROVE k + 1 \in S
    <3> SUFFICES ASSUME k + 1 <= n PROVE ReadUpTo(g[k + 1], a, e, Start((k + 1) + 1))
      OBVIOUS
    <3>1. k + 1 \in 1..n /\ (k + 1) - 1 = k /\ k <= n
      BY <1>3
    <3>2. ReadUpTo(g[k], a, e, Start(k + 1))
      BY <2>2, <3>1
    <3>3. g[k + 1] = ReadRound(g[k], k + 1)
      BY <1>5, <3>1
    <3>4. ReadUpTo(ReadRound(g[k], k + 1), a, e, End(k + 1))
      BY <1>6, <3>1, <3>2
    <3> QED BY <1>3, <3>1, <3>3, <3>4
  <2>3. Nat \subseteq S
    <3> HIDE DEF S
    <3> QED BY <2>1, <2>2, SetInduction
  <2>4. n \in S
    BY <1>3, <2>3
  <2> QED BY <1>3, <2>4
<1>10. g[n] \in ReadState
  BY <1>3, <1>5
<1>11. CASE g[n].ok = TRUE
  <2> DEFINE d == g[n].data
  <2>1. /\ g[n].at = Reach(a, e, total_size) /\ g[n].need = e - g[n].at
        /\ Len(d) = g[n].at - a /\ d \in Seq(Int)
        /\ \A k \in 1..Len(d) : d[k] = mem[a + k - 1] /\ mem[a + k - 1] # None
    BY <1>9, <1>10, <1>11 DEF ReadUpTo, ReadState
  <2>2. g[n].at = e
    BY <2>1, <1>2, <1>4 DEF Reach, Least, Greater
  <2>3. g[n].need = 0 /\ Len(d) = N
    BY <2>1, <2>2, <1>2, <1>4 DEF e
  <2>4. data = d
    <3>1. [k \in 1..0 |-> Zero] = <<>>
      OBVIOUS
    <3> QED BY <3>1, <2>1, <2>3, <1>7
  <2> HIDE DEF d
  <2>5. ASSUME NEW o \in a..(e - 1) PROVE mem[o] # None
    <3>1. o - a + 1 \in 1..Len(d) /\ a + (o - a + 1) - 1 = o
      BY <2>3, <1>2, <1>4 DEF e
    <3> QED BY <3>1, <2>1
  <2> QED BY <1>4, <1>7, <1>11, <2>1, <2>3, <2>4, <2>5 DEF a, N, data
<1>12. CASE g[n].ok = FALSE
  BY <1>4, <1>7, <1>9, <1>12 DEF ReadUpTo
<1> QED BY <1>10, <1>11, <1>12 DEF ReadState

\* verify_piece says of each piece what the writes left of it: an error when a
\* byte was never stored, true for the torrent's bytes and false for others.
THEOREM VerifySeesTheBytes ==
  ASSUME HashesMatch
  PROVE  Spec => []VerifyFollowsBytes
<1>1. ASSUME StorageInv PROVE VerifyFollowsBytes
  <2> SUFFICES ASSUME NEW p \in Piece
               PROVE  verify_piece(p) = IF \E o \in Bytes(p) : mem[o] = None THEN "error"
                                        ELSE IF \A o \in Bytes(p) : mem[o] = o + 1 THEN "ok"
                                        ELSE "mismatch"
    BY DEF VerifyFollowsBytes
  <2> DEFINE a == p * piece_length
             N == get_piece_length(p)
             ok == read_piece(p).ok
             data == read_piece(p).data
             right == RightData(a, N)
  <2>1. /\ ok \in BOOLEAN
        /\ ok = TRUE <=> \A o \in Bytes(p) : mem[o] # None
        /\ ok = TRUE => data \in Seq(Int) /\ Len(data) = N /\ \A k \in 1..N : data[k] = mem[a + k - 1]
    BY <1>1, ReadPieceFacts
  <2>2. a \in Nat /\ N \in Nat /\ Bytes(p) = a..(a + N - 1)
    BY <1>1, PieceFacts, LayoutFacts DEF StorageInv, Bytes
  <2>3. verify_piece(p) = IF ~ok THEN "error" ELSE IF data = right THEN "ok" ELSE "mismatch"
    BY DEF verify_piece
  <2>4. right \in Seq(Int) /\ Len(right) = N /\ \A k \in 1..N : right[k] = a + k
    <3> HIDE DEF a, N
    <3> QED BY <2>2 DEF RightData
  <2> HIDE DEF a, N, ok, data, right
  <2>5. ASSUME ok = TRUE PROVE data = right <=> \A o \in Bytes(p) : mem[o] = o + 1
    <3>1. ASSUME data = right, NEW o \in Bytes(p) PROVE mem[o] = o + 1
      <4>1. o - a + 1 \in 1..N /\ a + (o - a + 1) - 1 = o /\ a + (o - a + 1) = o + 1
        BY <2>2
      <4>2. data[o - a + 1] = mem[o] /\ right[o - a + 1] = o + 1
        BY <4>1, <2>1, <2>4, <2>5
      <4> QED BY <3>1, <4>2
    <3>2. ASSUME \A o \in Bytes(p) : mem[o] = o + 1 PROVE data = right
      <4>1. ASSUME NEW k \in 1..N PROVE data[k] = right[k]
        <5>1. a + k - 1 \in Bytes(p) /\ (a + k - 1) + 1 = a + k
          BY <2>2
        <5> QED BY <5>1, <3>2, <2>1, <2>4, <2>5
      <4> QED BY <4>1, <2>1, <2>4, <2>5, SeqEqual
    <3> QED BY <3>1, <3>2
  <2>6. CASE ok = TRUE
    BY <2>1, <2>3, <2>5, <2>6
  <2>7. CASE ok = FALSE
    BY <2>1, <2>3, <2>7
  <2> QED BY <2>1, <2>6, <2>7
<1> QED BY <1>1, StorageInvariant, PTL

\* A block that is served is what the array holds at its place, and a request
\* that runs out of its piece, or asks for what was never stored, is refused.
THEOREM BlocksComeFromTheirPlace ==
  ASSUME HashesMatch
  PROVE  Spec => []ServesStoredBytes
<1>1. ASSUME StorageInv PROVE ServesStoredBytes
  <2> SUFFICES ASSUME NEW p \in Piece, NEW begin \in 0..piece_length,
                      NEW length \in 0..(piece_length + 1)
               PROVE  LET block == read_block(p, begin, length)
                          at == p * piece_length + begin IN
                      IF \/ begin + length > get_piece_length(p)
                         \/ \E o \in Bytes(p) : mem[o] = None
                      THEN ~block.ok
                      ELSE block = [ok |-> TRUE, data |-> [k \in 1..length |-> mem[at + k - 1]]]
    BY DEF ServesStoredBytes
  <2> DEFINE a == p * piece_length
             N == get_piece_length(p)
             ok == read_piece(p).ok
             data == read_piece(p).data
             part == SubSeq(data, begin + 1, begin + length)
             block == read_block(p, begin, length)
  <2>1. /\ ok \in BOOLEAN
        /\ ok = TRUE <=> \A o \in Bytes(p) : mem[o] # None
        /\ ok = TRUE => data \in Seq(Int) /\ Len(data) = N /\ \A k \in 1..N : data[k] = mem[a + k - 1]
    BY <1>1, ReadPieceFacts
  <2>2. a \in Nat /\ N \in Nat /\ begin \in Nat /\ length \in Nat
    BY <1>1, PieceFacts, LayoutFacts DEF StorageInv
  <2>3. block = IF ~ok \/ begin + length > Len(data) THEN [ok |-> FALSE, data |-> <<>>]
                ELSE [ok |-> TRUE, data |-> part]
    BY DEF read_block
  <2> HIDE DEF a, N, ok, data, block
  <2>4. ASSUME ok = TRUE, begin + length <= N
        PROVE  part = [k \in 1..length |-> mem[(a + begin) + k - 1]]
    <3>1. data \in Seq(Int) /\ begin <= begin + length /\ begin + length <= Len(data)
          /\ begin + length \in Nat /\ (begin + length) - begin = length
      BY <2>1, <2>2, <2>4
    <3>2. part \in Seq(Int) /\ Len(part) = length /\ \A k \in 1..length : part[k] = data[begin + k]
      <4> DEFINE last == begin + length
      <4>1. /\ last \in Nat /\ begin <= last /\ last <= Len(data) /\ last - begin = length
            /\ begin \in Nat /\ data \in Seq(Int)
        BY <3>1, <2>2
      <4> HIDE DEF last
      <4>2. /\ SubSeq(data, begin + 1, last) \in Seq(Int)
            /\ Len(SubSeq(data, begin + 1, last)) = last - begin
            /\ \A k \in 1..(last - begin) : SubSeq(data, begin + 1, last)[k] = data[begin + k]
        BY <4>1, SliceElements
      <4> QED BY <4>1, <4>2 DEF last
    <3> HIDE DEF part
    <3>3. part = [k \in 1..length |-> part[k]]
      BY <3>2
    <3>4. ASSUME NEW k \in 1..length PROVE part[k] = mem[(a + begin) + k - 1]
      <4>1. begin + k \in 1..N /\ a + (begin + k) - 1 = (a + begin) + k - 1
        BY <2>2, <2>4
      <4> QED BY <4>1, <3>2, <2>1, <2>4
    <3> QED BY <3>3, <3>4
  <2> HIDE DEF part
  <2>5. CASE begin + length > N \/ ok = FALSE
    <3>1. block = [ok |-> FALSE, data |-> <<>>]
      BY <2>1, <2>3, <2>5
    <3>2. ~block.ok
      BY <3>1
    <3>3. begin + length > N \/ \E o \in Bytes(p) : mem[o] = None
      BY <2>1, <2>5
    <3> QED BY <3>2, <3>3 DEF a, N, block
  <2>6. CASE ~(begin + length > N) /\ ok = TRUE
    <3>1. begin + length <= N
      BY <2>2, <2>6
    <3>2. block = [ok |-> TRUE, data |-> part]
      BY <3>1, <2>1, <2>2, <2>3, <2>6
    <3>3. block = [ok |-> TRUE, data |-> [k \in 1..length |-> mem[(a + begin) + k - 1]]]
      BY <3>1, <3>2, <2>4, <2>6
    <3>4. ~(begin + length > N) /\ ~(\E o \in Bytes(p) : mem[o] = None)
      BY <2>1, <2>6
    <3> QED BY <3>3, <3>4 DEF a, N, block
  <2> QED BY <2>1, <2>5, <2>6
<1> QED BY <1>1, StorageInvariant, PTL

\* The piece manager and the files agree on the length of a piece.
LEMMA LengthsAgree == \A p : length_to_download(p) = get_piece_length(p)
BY DEF length_to_download, last_piece_length, get_piece_length

\* A piece is cut into blocks that lie side by side, the last one short.
LEMMA BlockFacts ==
  ASSUME NEW p, NEW N \in Nat, length_to_download(p) = N, NEW r \in 0..(N - 1)
  PROVE  \E b \in BlocksOf(p) :
            /\ b \in Nat \X Nat /\ b[1] <= r /\ r < b[1] + b[2]
            /\ \A c \in BlocksOf(p) :
                  /\ c \in Nat \X Nat /\ c[1] + c[2] <= N
                  /\ c[1] <= r /\ r < c[1] + c[2] => c = b
<1> DEFINE B == BlockSize
           block(k) == <<k * B, Least(B, N - k * B)>>
           k0 == r \div B
<1>1. B \in Nat \ {0} /\ r \in Nat
  BY StorageAssumption
<1>2. BlocksOf(p) = {block(k) : k \in {k \in 0..N : k * B < N}}
  BY DEF BlocksOf
<1>3. k0 \in Nat /\ k0 * B \in Nat /\ k0 * B <= r /\ r < k0 * B + B
  <2>1. k0 \in Nat /\ r % B \in 0..(B - 1) /\ r = k0 * B + (r % B)
    BY <1>1, QuotientFacts
  <2> HIDE DEF k0
  <2>2. k0 * B \in Nat
    BY <1>1, <2>1
  <2> QED BY <1>1, <2>1, <2>2
<1> HIDE DEF B, k0
<1>4. ASSUME NEW k \in Nat, k * B < N
      PROVE  /\ block(k) \in Nat \X Nat /\ block(k)[1] = k * B
             /\ block(k)[1] + block(k)[2] <= N
             /\ block(k)[2] = B \/ block(k)[1] + block(k)[2] = N
             /\ block(k)[2] <= B
  <2>1. k * B \in Nat
    BY <1>1
  <2> DEFINE x == k * B
  <2>2. x \in Nat /\ x < N
    BY <1>4, <2>1
  <2> HIDE DEF x
  <2>3. Least(B, N - x) \in Nat /\ x + Least(B, N - x) <= N
        /\ (Least(B, N - x) = B \/ x + Least(B, N - x) = N) /\ Least(B, N - x) <= B
    BY <1>1, <2>2 DEF Least
  <2> QED BY <2>2, <2>3 DEF x
<1>5. k0 * B < N
  BY <1>1, <1>3
<1>6. k0 \in 0..N
  <2>1. k0 <= k0 * B
    BY <1>1, <1>3
  <2> QED BY <1>3, <1>5, <2>1
<1>7. block(k0) \in BlocksOf(p)
  BY <1>2, <1>5, <1>6
<1>8. block(k0)[1] <= r /\ r < block(k0)[1] + block(k0)[2] /\ block(k0) \in Nat \X Nat
  <2> DEFINE b == block(k0)
  <2>1. b \in Nat \X Nat /\ b[1] = k0 * B /\ (b[2] = B \/ b[1] + b[2] = N)
    BY <1>3, <1>4, <1>5
  <2> HIDE DEF b
  <2> QED BY <2>1, <1>1, <1>3 DEF b
<1>9. ASSUME NEW c \in BlocksOf(p)
      PROVE  /\ c \in Nat \X Nat /\ c[1] + c[2] <= N
             /\ c[1] <= r /\ r < c[1] + c[2] => c = block(k0)
  <2>1. PICK k \in 0..N : k * B < N /\ c = block(k)
    BY <1>2
  <2> HIDE DEF block
  <2>2. /\ c \in Nat \X Nat /\ c[1] = k * B
        /\ c[1] + c[2] <= N /\ c[2] <= B
    BY <1>4, <2>1
  <2>3. ASSUME c[1] <= r, r < c[1] + c[2] PROVE k = k0
    <3>1. ~(k < k0) \/ k * B + B <= k0 * B
      BY <1>1, <1>3, ProductGrows
    <3>2. ~(k0 < k) \/ k0 * B + B <= k * B
      BY <1>1, <1>3, ProductGrows
    <3> DEFINE x == k * B
               y == k0 * B
               c2 == c[2]
    <3>3. x \in Nat /\ y \in Nat /\ c2 \in Nat /\ x <= r /\ r < x + c2 /\ c2 <= B /\ y <= r /\ r < y + B
      BY <1>1, <1>3, <2>2, <2>3
    <3>4. (~(k < k0) \/ x + B <= y) /\ (~(k0 < k) \/ y + B <= x)
      BY <3>1, <3>2
    <3> HIDE DEF x, y, c2
    <3> QED BY <3>3, <3>4, <1>1, <1>3
  <2> QED BY <2>1, <2>2, <2>3
<1> HIDE DEF block
<1> QED BY <1>7, <1>8, <1>9

\* The blocks tick asks for tile the torrent: every byte is in exactly one block
\* of one piece, and those of a piece are what verify_piece reads of it.
THEOREM EveryByteInOneBlock ==
  ASSUME HashesMatch
  PROVE  Spec => []BlocksTile
<1>1. ASSUME StorageInv PROVE BlocksTile
  <2> DEFINE Covers(p, b, o) == o \in (p * piece_length + b[1])..
                                        (p * piece_length + b[1] + b[2] - 1)
             covering(o) == UNION {{<<p, b>> : b \in {b \in BlocksOf(p) : Covers(p, b, o)}} :
                                     p \in Piece}
  <2>1. ASSUME NEW o \in 0..(total_size - 1) PROVE Cardinality(covering(o)) = 1
    <3> DEFINE q == o \div piece_length
               r == o - q * piece_length
    <3>1. q \in Piece /\ o \in Bytes(q)
      BY <1>1, PieceFacts DEF StorageInv
    <3>2. ASSUME NEW p \in Piece
          PROVE  /\ p * piece_length \in Nat /\ get_piece_length(p) \in Nat
                 /\ \A x \in Bytes(p) : p = x \div piece_length
                 /\ Bytes(p) = (p * piece_length)..(p * piece_length + get_piece_length(p) - 1)
      <4>1. layout \in Layouts /\ piece_length \in Nat
        BY <1>1, LayoutFacts DEF StorageInv
      <4>2. p * piece_length \in Nat /\ get_piece_length(p) \in 1..piece_length
            /\ \A x \in Bytes(p) : p = x \div piece_length
        BY <4>1, PieceFacts
      <4> QED BY <4>1, <4>2 DEF Bytes
    <3> HIDE DEF q
    <3>3. r \in 0..(get_piece_length(q) - 1) /\ o = q * piece_length + r
      BY <3>1, <3>2
    <3> HIDE DEF r
    <3>4. PICK b \in BlocksOf(q) :
            /\ b \in Nat \X Nat /\ b[1] <= r /\ r < b[1] + b[2]
            /\ \A c \in BlocksOf(q) : c[1] <= r /\ r < c[1] + c[2] => c = b
      <4>1. ASSUME NEW N \in Nat, get_piece_length(q) = N, r \in 0..(N - 1)
            PROVE  \E b \in BlocksOf(q) :
                      /\ b \in Nat \X Nat /\ b[1] <= r /\ r < b[1] + b[2]
                      /\ \A c \in BlocksOf(q) : c[1] <= r /\ r < c[1] + c[2] => c = b
        BY <4>1, BlockFacts, LengthsAgree
      <4> QED BY <4>1, <3>1, <3>2, <3>3
    <3>5. Covers(q, b, o)
      <4>1. b[1] \in Nat /\ b[2] \in Nat /\ q * piece_length \in Nat
        BY <3>1, <3>2, <3>4
      <4> QED BY <4>1, <3>3, <3>4
    <3>6. ASSUME NEW p \in Piece, NEW c \in BlocksOf(p), Covers(p, c, o) PROVE p = q /\ c = b
      <4> DEFINE a == p * piece_length
                 N == get_piece_length(p)
      <4>1. a \in Nat /\ N \in Nat /\ Bytes(p) = a..(a + N - 1) /\ BlockSize \in Nat \ {0}
        BY <3>2, StorageAssumption
      <4>2. c[1] \in Nat /\ c[2] \in Int /\ c[1] + c[2] <= N
        <5>1. PICK k \in {k \in 0..N : k * BlockSize < N} :
                 c = <<k * BlockSize, Least(BlockSize, N - k * BlockSize)>>
          BY LengthsAgree DEF BlocksOf
        <5>2. k * BlockSize \in Nat
          BY <4>1
        <5> DEFINE x == k * BlockSize
        <5>3. c[1] = x /\ c[2] = Least(BlockSize, N - x) /\ x \in Nat
          BY <5>1, <5>2
        <5> HIDE DEF x, N
        <5> QED BY <5>3, <4>1 DEF Least
      <4>3. o \in Bytes(p)
        <5>1. o \in (a + c[1])..(a + c[1] + c[2] - 1)
          BY <3>6
        <5> HIDE DEF a, N
        <5> QED BY <5>1, <4>1, <4>2
      <4>4. p = q
        BY <4>3, <3>2 DEF q
      <4>5. c[1] <= r /\ r < c[1] + c[2]
        <5>1. o \in (a + c[1])..(a + c[1] + c[2] - 1) /\ o = a + r /\ r \in Nat
          BY <3>3, <3>6, <4>1, <4>4
        <5> HIDE DEF a
        <5> QED BY <5>1, <4>1, <4>2, SMTT(30)
      <4>6. c = b
        BY <4>4, <4>5, <3>4
      <4> QED BY <4>4, <4>6
    <3> HIDE DEF Covers
    <3>7. covering(o) = {<<q, b>>}
      BY <3>1, <3>4, <3>5, <3>6
    <3> QED BY <3>7, FS_Singleton
  <2>2. ASSUME NEW p \in Piece
        PROVE  UNION {Offsets(b) : b \in BlocksOf(p)} = 0..(get_piece_length(p) - 1)
    <3> DEFINE N == get_piece_length(p)
    <3>1. layout \in Layouts /\ piece_length \in Nat
      BY <1>1, LayoutFacts DEF StorageInv
    <3>2. N \in 1..piece_length
      BY <3>1, PieceFacts
    <3>3. N \in Nat /\ 0 \in 0..(N - 1) /\ length_to_download(p) = N
      BY <3>1, <3>2, LengthsAgree
    <3> HIDE DEF N
    <3>4. ASSUME NEW r \in 0..(N - 1) PROVE \E b \in BlocksOf(p) : r \in Offsets(b)
      <4>1. PICK b \in BlocksOf(p) : b \in Nat \X Nat /\ b[1] <= r /\ r < b[1] + b[2]
        BY <3>3, BlockFacts
      <4> QED BY <4>1 DEF Offsets
    <3>5. ASSUME NEW b \in BlocksOf(p) PROVE Offsets(b) \subseteq 0..(N - 1)
      <4>1. b \in Nat \X Nat /\ b[1] + b[2] <= N
        BY <3>3, BlockFacts
      <4> QED BY <4>1, <3>3 DEF Offsets
    <3> QED BY <3>4, <3>5 DEF N
  <2> QED BY <2>1, <2>2 DEF BlocksTile
<1> QED BY <1>1, StorageInvariant, PTL
=============================================================================
