------------------------- MODULE PieceManager_proofs -------------------------
(***************************************************************************)
(* Proofs that every use of the piece manager keeps its invariant PMInv,   *)
(* for any number of pieces and of blocks in a piece.                      *)
(***************************************************************************)
EXTENDS PieceManager, TLAPS, FiniteSetTheorems, SequenceTheorems

-----------------------------------------------------------------------------
(* Facts about sequences and about the layout of blocks.                    *)

\* What removing one element of a sequence leaves: Vec::remove and retain.
LEMMA RemoveAtFacts ==
  ASSUME NEW S, NEW q \in Seq(S), NEW k \in 1..Len(q)
  PROVE  /\ RemoveAt(q, k) \in Seq(S)
         /\ Len(RemoveAt(q, k)) = Len(q) - 1
         /\ \A i \in 1..(Len(q) - 1) :
               RemoveAt(q, k)[i] = IF i < k THEN q[i] ELSE q[i + 1]
<1> DEFINE front == SubSeq(q, 1, k - 1)
           back  == SubSeq(q, k + 1, Len(q))
<1>1. Len(q) \in Nat /\ k \in Nat /\ 1 <= k /\ k <= Len(q)
      /\ \A i \in 1..Len(q) : q[i] \in S
  BY LenProperties, ElementOfSeq
<1>2. /\ front \in Seq(S)
      /\ Len(front) = k - 1
      /\ \A i \in 1..(k - 1) : front[i] = q[i]
  <2>1. \A i \in 1..(k - 1) : q[i] \in S
    BY <1>1
  <2>2. /\ SubSeq(q, 1, k - 1) \in Seq(S)
        /\ Len(SubSeq(q, 1, k - 1)) = IF 1 <= k - 1 THEN (k - 1) - 1 + 1 ELSE 0
        /\ \A i \in 1..((k - 1) - 1 + 1) : SubSeq(q, 1, k - 1)[i] = q[1 + i - 1]
    <3> HIDE DEF front
    <3>1. 1 \in Int /\ k - 1 \in Int
      BY <1>1
    <3> QED BY <2>1, <3>1, SubSeqProperties
  <2> QED BY <1>1, <2>2
<1>3. /\ back \in Seq(S)
      /\ Len(back) = Len(q) - k
      /\ \A i \in 1..(Len(q) - k) : back[i] = q[k + i]
  <2>1. \A i \in (k + 1)..Len(q) : q[i] \in S
    BY <1>1
  <2>2. k + 1 \in Int /\ Len(q) \in Int
    BY <1>1
  <2>3. /\ SubSeq(q, k + 1, Len(q)) \in Seq(S)
        /\ Len(SubSeq(q, k + 1, Len(q))) =
              IF k + 1 <= Len(q) THEN Len(q) - (k + 1) + 1 ELSE 0
        /\ \A i \in 1..(Len(q) - (k + 1) + 1) :
              SubSeq(q, k + 1, Len(q))[i] = q[(k + 1) + i - 1]
    BY <2>1, <2>2, SubSeqProperties
  <2> QED BY <1>1, <2>3
<1> HIDE DEF front, back
<1>4. /\ front \o back \in Seq(S)
      /\ Len(front \o back) = Len(front) + Len(back)
      /\ \A i \in 1..(Len(front) + Len(back)) : (front \o back)[i] =
            IF i <= Len(front) THEN front[i] ELSE back[i - Len(front)]
  BY <1>2, <1>3, ConcatProperties
<1>5. RemoveAt(q, k) = front \o back
  BY DEF RemoveAt, front, back
<1>6. ASSUME NEW i \in 1..(Len(q) - 1)
      PROVE  (front \o back)[i] = IF i < k THEN q[i] ELSE q[i + 1]
  <2>1. i \in 1..(Len(front) + Len(back))
    BY <1>1, <1>2, <1>3
  <2>2. CASE i < k
    <3>1. i <= Len(front) /\ i \in 1..(k - 1)
      BY <1>1, <1>2, <2>2
    <3> QED BY <1>2, <1>4, <2>1, <2>2, <3>1
  <2>3. CASE ~(i < k)
    <3>1. ~(i <= Len(front)) /\ i - Len(front) \in 1..(Len(q) - k)
          /\ k + (i - Len(front)) = i + 1
      BY <1>1, <1>2, <2>3
    <3>2. (front \o back)[i] = back[i - Len(front)]
      BY <1>4, <2>1, <3>1
    <3> QED BY <1>3, <2>3, <3>1, <3>2
  <2> QED BY <2>2, <2>3
<1>7. Len(front \o back) = Len(q) - 1
  BY <1>1, <1>2, <1>3, <1>4
<1>8. \A i \in 1..(Len(q) - 1) :
        (front \o back)[i] = IF i < k THEN q[i] ELSE q[i + 1]
  BY <1>6
<1> QED BY <1>4, <1>5, <1>7, <1>8

\* Removing an element of a sequence without repetitions removes exactly it.
LEMMA RemoveAtDistinct ==
  ASSUME NEW S, NEW q \in Seq(S), NEW k \in 1..Len(q),
         \A i, j \in 1..Len(q) : q[i] = q[j] => i = j
  PROVE  /\ \A i, j \in 1..Len(RemoveAt(q, k)) :
               RemoveAt(q, k)[i] = RemoveAt(q, k)[j] => i = j
         /\ \A e : (\E i \in 1..Len(RemoveAt(q, k)) : RemoveAt(q, k)[i] = e)
                     <=> e # q[k] /\ \E i \in 1..Len(q) : q[i] = e
<1> DEFINE r == RemoveAt(q, k)
<1>1. Len(q) \in Nat /\ k \in Nat /\ 1 <= k /\ k <= Len(q)
  BY LenProperties
<1>2. /\ Len(r) = Len(q) - 1
      /\ \A i \in 1..(Len(q) - 1) : r[i] = IF i < k THEN q[i] ELSE q[i + 1]
  BY RemoveAtFacts
<1> HIDE DEF r
<1>3. \A i, j \in 1..Len(r) : r[i] = r[j] => i = j
  <2> SUFFICES ASSUME NEW i \in 1..Len(r), NEW j \in 1..Len(r), r[i] = r[j]
               PROVE  i = j
    OBVIOUS
  <2> DEFINE m == IF i < k THEN i ELSE i + 1
             n == IF j < k THEN j ELSE j + 1
  <2>1. m \in 1..Len(q) /\ n \in 1..Len(q) /\ r[i] = q[m] /\ r[j] = q[n]
    BY <1>1, <1>2
  <2>2. m = n
    BY <2>1
  <2> QED BY <1>1, <1>2, <2>2
<1>4. ASSUME NEW e, NEW i \in 1..Len(r), r[i] = e
      PROVE  e # q[k] /\ \E m \in 1..Len(q) : q[m] = e
  <2> DEFINE m == IF i < k THEN i ELSE i + 1
  <2>1. m \in 1..Len(q) /\ m # k /\ r[i] = q[m]
    BY <1>1, <1>2
  <2> QED BY <1>1, <1>4, <2>1
<1>5. ASSUME NEW e, e # q[k], NEW i \in 1..Len(q), q[i] = e
      PROVE  \E m \in 1..Len(r) : r[m] = e
  <2>1. i # k
    BY <1>5
  <2>2. CASE i < k
    <3>1. i \in 1..Len(r) /\ r[i] = q[i]
      BY <1>1, <1>2, <2>2
    <3> QED BY <1>5, <3>1
  <2>3. CASE ~(i < k)
    <3>1. i - 1 \in 1..Len(r) /\ ~(i - 1 < k) /\ (i - 1) + 1 = i
      BY <1>1, <1>2, <2>1, <2>3
    <3>2. r[i - 1] = q[i]
      BY <1>2, <3>1
    <3> QED BY <1>5, <3>1, <3>2
  <2> QED BY <2>2, <2>3
<1> QED BY <1>3, <1>4, <1>5 DEF r

\* Blocks name a piece, and the blocks of a piece are finitely many.
LEMMA BlockFacts ==
  /\ \A b \in Block : b[1] \in Piece /\ b \in BlocksOf(b[1])
  /\ \A p \in Piece : /\ BlocksOf(p) \subseteq Block
                      /\ IsFiniteSet(BlocksOf(p))
                      /\ NumBlocks(p) \in Nat \ {0}
                      /\ <<p, 0>> \in BlocksOf(p)
                      /\ \A b \in BlocksOf(p) : b[1] = p
<1> USE LayoutAssumption
<1>1. \A p \in Piece : NumBlocks(p) \in Nat \ {0}
  BY DEF Piece, NumBlocks
<1>2. ASSUME NEW p \in Piece
      PROVE  IsFiniteSet(BlocksOf(p))
  <2>1. IsFiniteSet({p})
    BY FS_Singleton
  <2>2. IsFiniteSet(0..(NumBlocks(p) - 1))
    BY <1>1, FS_Interval
  <2> QED BY <2>1, <2>2, FS_Product DEF BlocksOf
<1>3. \A p \in Piece : \A b \in BlocksOf(p) : b[1] = p
  BY DEF BlocksOf
<1>4. \A p \in Piece : <<p, 0>> \in BlocksOf(p)
  BY <1>1 DEF BlocksOf
<1> QED BY <1>1, <1>2, <1>3, <1>4 DEF Block

\* There are finitely many pieces.
LEMMA PieceFinite == IsFiniteSet(Piece)
BY LayoutAssumption, FS_Interval DEF Piece

\* Where a queued piece stands in the queue.
LEMMA PlaceFacts ==
  ASSUME PMTypeOK, NEW p, Queued(p)
  PROVE  PlaceOf(p) \in 1..Len(downloading_pieces) /\ downloading_pieces[PlaceOf(p)] = p
BY LenProperties DEF PMTypeOK, Queued, PlaceOf

-----------------------------------------------------------------------------
(* Each operation keeps the invariant.                                      *)

\* The initial state, and the one verify_existing_pieces leaves, for whatever
\* pieces it found on disk.
LEMMA StartInv ==
  ASSUME NEW good \in SUBSET Piece, Start(good)
  PROVE  PMInv
<1> USE DEF Start
<1>1. PMTypeOK
  BY PieceFinite, FS_Subset, FS_CardinalityType, EmptySeq DEF PMTypeOK, Status
<1>2. WithStatus("Complete") = good
  BY DEF WithStatus
<1>3. \A p \in Piece : ~Queued(p) /\ piece_status[p] # "Downloading"
  BY DEF Queued
<1>4. QueueIsDownloading
  BY <1>3 DEF QueueIsDownloading
<1>5. BlockCountExact
  BY FS_EmptySet DEF BlockCountExact
<1> QED BY <1>1, <1>2, <1>4, <1>5 DEF PMInv, CompleteCountExact, FlagsOnlyInQueue

\* What dropping the PieceState of a queued piece does to the queue.
LEMMA DropKeepsQueue ==
  ASSUME PMInv, NEW p \in Piece, Queued(p), DropPieceState(p)
  PROVE  /\ downloading_pieces' \in Seq(Piece)
         /\ \A j, k \in DOMAIN downloading_pieces' :
               downloading_pieces'[j] = downloading_pieces'[k] => j = k
         /\ \A q : Queued(q)' <=> Queued(q) /\ q # p
<1> DEFINE queue == downloading_pieces
           place == PlaceOf(p)
<1>1. place \in 1..Len(queue) /\ queue[place] = p /\ queue \in Seq(Piece)
  BY PlaceFacts DEF PMInv, PMTypeOK
<1>2. queue' = RemoveAt(queue, place)
  BY DEF DropPieceState
<1>3. DOMAIN queue = 1..Len(queue)
  BY <1>1, LenProperties
<1>4. \A i, j \in 1..Len(queue) : queue[i] = queue[j] => i = j
  BY <1>3 DEF PMInv, QueueIsDownloading
<1>5. /\ queue' \in Seq(Piece)
      /\ \A i, j \in 1..Len(queue') : queue'[i] = queue'[j] => i = j
      /\ \A e : (\E i \in 1..Len(queue') : queue'[i] = e)
                  <=> e # p /\ \E i \in 1..Len(queue) : queue[i] = e
  <2> HIDE DEF place, queue
  <2>1. RemoveAt(queue, place) \in Seq(Piece)
    BY <1>1, RemoveAtFacts
  <2>2. /\ \A i, j \in 1..Len(RemoveAt(queue, place)) :
              RemoveAt(queue, place)[i] = RemoveAt(queue, place)[j] => i = j
        /\ \A e : (\E i \in 1..Len(RemoveAt(queue, place)) : RemoveAt(queue, place)[i] = e)
                     <=> e # queue[place] /\ \E i \in 1..Len(queue) : queue[i] = e
    BY <1>1, <1>4, RemoveAtDistinct
  <2> QED BY <1>1, <1>2, <2>1, <2>2
<1>6. DOMAIN queue' = 1..Len(queue')
  BY <1>5, LenProperties
<1> QED BY <1>3, <1>5, <1>6 DEF Queued

\* The block flags and the counter of every other piece are untouched.
LEMMA DropKeepsBlocks ==
  ASSUME PMInv, NEW p \in Piece, Queued(p), DropPieceState(p)
  PROVE  /\ downloaded' \subseteq Block /\ requested' \subseteq Block
         /\ downloaded_count' \in [Piece -> Nat]
         /\ BlockCountExact'
         /\ FlagsOnlyInQueue'
<1>1. /\ downloaded \subseteq Block /\ requested \subseteq Block
      /\ downloaded_count \in [Piece -> Nat]
  BY DEF PMInv, PMTypeOK
<1>2. /\ downloaded' = downloaded \ BlocksOf(p)
      /\ requested' = requested \ BlocksOf(p)
      /\ downloaded_count' = [downloaded_count EXCEPT ![p] = 0]
  BY DEF DropPieceState
<1>3. BlockCountExact'
  <2> SUFFICES ASSUME NEW q \in Piece
               PROVE  downloaded_count'[q] = Cardinality(downloaded' \cap BlocksOf(q))
    BY DEF BlockCountExact
  <2>1. CASE q = p
    <3>1. downloaded' \cap BlocksOf(q) = {}
      BY <1>2, <2>1
    <3> QED BY <1>1, <1>2, <2>1, <3>1, FS_EmptySet
  <2>2. CASE q # p
    <3>1. downloaded' \cap BlocksOf(q) = downloaded \cap BlocksOf(q)
      BY <1>2, <2>2, BlockFacts
    <3> QED BY <1>1, <1>2, <2>2, <3>1 DEF PMInv, BlockCountExact
  <2> QED BY <2>1, <2>2
<1>4. FlagsOnlyInQueue'
  <2> SUFFICES ASSUME NEW b \in downloaded' \cup requested'
               PROVE  Queued(b[1])'
    BY DEF FlagsOnlyInQueue
  <2>1. b \in Block /\ b \notin BlocksOf(p) /\ b \in downloaded \cup requested
    BY <1>1, <1>2
  <2>2. b[1] # p
    BY <2>1, BlockFacts
  <2>3. Queued(b[1])
    BY <2>1 DEF PMInv, FlagsOnlyInQueue
  <2> QED BY <2>2, <2>3, DropKeepsQueue
<1>5. downloaded_count' \in [Piece -> Nat]
  BY <1>1, <1>2
<1> QED BY <1>1, <1>2, <1>3, <1>4, <1>5

\* mark_complete keeps the bookkeeping.
LEMMA MarkCompleteInv ==
  ASSUME PMInv, NEW p \in Piece, Queued(p), mark_complete(p)
  PROVE  PMInv'
<1>1. piece_status[p] = "Downloading"
  BY DEF PMInv, QueueIsDownloading
<1>2. /\ piece_status' = [piece_status EXCEPT ![p] = "Complete"]
      /\ pieces_complete' = pieces_complete + 1
      /\ DropPieceState(p)
  BY <1>1 DEF mark_complete
<1>3. piece_status \in [Piece -> Status] /\ pieces_complete \in Nat
  BY DEF PMInv, PMTypeOK
<1>4. PMTypeOK'
  BY <1>2, <1>3, DropKeepsQueue, DropKeepsBlocks DEF PMTypeOK, Status
<1>5. CompleteCountExact'
  <2>1. WithStatus("Complete")' = WithStatus("Complete") \cup {p}
    BY <1>2, <1>3 DEF WithStatus
  <2>2. p \notin WithStatus("Complete") /\ WithStatus("Complete") \subseteq Piece
    BY <1>1 DEF WithStatus
  <2>3. IsFiniteSet(WithStatus("Complete"))
    BY <2>2, PieceFinite, FS_Subset
  <2>4. Cardinality(WithStatus("Complete") \cup {p}) = Cardinality(WithStatus("Complete")) + 1
    BY <2>2, <2>3, FS_AddElement
  <2> QED BY <1>2, <2>1, <2>4 DEF PMInv, CompleteCountExact
<1>6. QueueIsDownloading'
  <2>1. \A q \in Piece : Queued(q)' <=> piece_status'[q] = "Downloading"
    BY <1>2, <1>3, DropKeepsQueue DEF PMInv, QueueIsDownloading
  <2> QED BY <1>2, <2>1, DropKeepsQueue DEF QueueIsDownloading
<1> QED BY <1>2, <1>4, <1>5, <1>6, DropKeepsBlocks DEF PMInv

\* reset_piece keeps the bookkeeping.
LEMMA ResetPieceInv ==
  ASSUME PMInv, NEW p \in Piece, Queued(p), reset_piece(p)
  PROVE  PMInv'
<1>1. piece_status[p] = "Downloading"
  BY DEF PMInv, QueueIsDownloading
<1>2. /\ piece_status' = [piece_status EXCEPT ![p] = "Missing"]
      /\ pieces_complete' = pieces_complete
      /\ DropPieceState(p)
  BY DEF reset_piece
<1>3. piece_status \in [Piece -> Status] /\ pieces_complete \in Nat
  BY DEF PMInv, PMTypeOK
<1>4. PMTypeOK'
  BY <1>2, <1>3, DropKeepsQueue, DropKeepsBlocks DEF PMTypeOK, Status
<1>5. CompleteCountExact'
  <2>1. WithStatus("Complete")' = WithStatus("Complete")
    BY <1>1, <1>2, <1>3 DEF WithStatus
  <2> QED BY <1>2, <2>1 DEF PMInv, CompleteCountExact
<1>6. QueueIsDownloading'
  <2>1. \A q \in Piece : Queued(q)' <=> piece_status'[q] = "Downloading"
    BY <1>2, <1>3, DropKeepsQueue DEF PMInv, QueueIsDownloading
  <2> QED BY <1>2, <2>1, DropKeepsQueue DEF QueueIsDownloading
<1> QED BY <1>2, <1>4, <1>5, <1>6, DropKeepsBlocks DEF PMInv

\* start_downloading keeps the bookkeeping.
LEMMA StartDownloadingInv ==
  ASSUME PMInv, NEW p \in Piece, NEW sent \in BOOLEAN, start_downloading(p, sent)
  PROVE  PMInv'
<1> DEFINE queue == downloading_pieces
<1>1. /\ piece_status[p] = "Missing"
      /\ piece_status' = [piece_status EXCEPT ![p] = "Downloading"]
      /\ queue' = Append(queue, p)
      /\ requested' = IF sent THEN requested \cup {<<p, 0>>} ELSE requested
      /\ UNCHANGED <<pieces_complete, downloaded, downloaded_count>>
  BY DEF start_downloading
<1>2. PMTypeOK
  BY DEF PMInv
<1>3. /\ queue' \in Seq(Piece)
      /\ Len(queue') = Len(queue) + 1
      /\ \A i \in 1..Len(queue) : queue'[i] = queue[i]
      /\ queue'[Len(queue) + 1] = p
      /\ Len(queue) \in Nat
      /\ DOMAIN queue = 1..Len(queue)
      /\ DOMAIN queue' = 1..(Len(queue) + 1)
  <2>1. queue \in Seq(Piece)
    BY <1>2 DEF PMTypeOK
  <2>2. Append(queue, p) \in Seq(Piece)
    BY <2>1, AppendProperties
  <2> QED BY <1>1, <2>1, <2>2, AppendProperties, LenProperties
<1>4. PMTypeOK'
  <2>1. requested' \subseteq Block
    BY <1>1, <1>2, BlockFacts DEF PMTypeOK
  <2> QED BY <1>1, <1>2, <1>3, <2>1 DEF PMTypeOK, Status
<1>5. ~Queued(p)
  BY <1>1 DEF PMInv, QueueIsDownloading
<1>6. \A q : Queued(q)' <=> Queued(q) \/ q = p
  <2> SUFFICES ASSUME NEW q
               PROVE  Queued(q)' <=> Queued(q) \/ q = p
    OBVIOUS
  <2>1. Queued(q)' <=> \E i \in 1..(Len(queue) + 1) : queue'[i] = q
    BY <1>3 DEF Queued
  <2>2. Queued(q) <=> \E i \in 1..Len(queue) : queue[i] = q
    BY <1>3 DEF Queued
  <2>3. ASSUME NEW i \in 1..(Len(queue) + 1), queue'[i] = q
        PROVE  Queued(q) \/ q = p
    <3>1. i \in 1..Len(queue) \/ i = Len(queue) + 1
      BY <1>3
    <3> QED BY <1>3, <2>2, <2>3, <3>1
  <2>4. ASSUME Queued(q) \/ q = p
        PROVE  \E i \in 1..(Len(queue) + 1) : queue'[i] = q
    <3>1. CASE q = p
      BY <1>3, <3>1
    <3>2. CASE Queued(q)
      <4>1. PICK i \in 1..Len(queue) : queue[i] = q
        BY <2>2, <3>2
      <4>2. i \in 1..(Len(queue) + 1)
        BY <1>3
      <4> QED BY <1>3, <4>1, <4>2
    <3> QED BY <2>4, <3>1, <3>2
  <2> QED BY <2>1, <2>3, <2>4
<1>7. CompleteCountExact'
  <2>1. WithStatus("Complete")' = WithStatus("Complete")
    BY <1>1, <1>2 DEF WithStatus, PMTypeOK
  <2> QED BY <1>1, <2>1 DEF PMInv, CompleteCountExact
<1>8. QueueIsDownloading'
  <2>1. \A q \in Piece : Queued(q)' <=> piece_status'[q] = "Downloading"
    BY <1>1, <1>2, <1>6 DEF PMInv, QueueIsDownloading, PMTypeOK
  <2>2. ASSUME NEW j \in DOMAIN queue', NEW k \in DOMAIN queue', queue'[j] = queue'[k]
        PROVE  j = k
    <3>1. /\ j \in 1..Len(queue) \/ j = Len(queue) + 1
          /\ k \in 1..Len(queue) \/ k = Len(queue) + 1
      BY <1>3
    <3>2. \A i \in 1..Len(queue) : queue[i] # p
      BY <1>3, <1>5 DEF Queued
    <3>3. \A i, l \in 1..Len(queue) : queue[i] = queue[l] => i = l
      BY <1>3 DEF PMInv, QueueIsDownloading
    <3> QED BY <1>3, <2>2, <3>1, <3>2, <3>3
  <2> QED BY <2>1, <2>2 DEF QueueIsDownloading
<1>9. BlockCountExact'
  BY <1>1 DEF PMInv, BlockCountExact
<1>10. FlagsOnlyInQueue'
  <2> SUFFICES ASSUME NEW b \in downloaded' \cup requested'
               PROVE  Queued(b[1])'
    BY DEF FlagsOnlyInQueue
  <2>1. b \in downloaded \cup requested \/ b = <<p, 0>>
    BY <1>1
  <2>2. CASE b \in downloaded \cup requested
    BY <1>6, <2>2 DEF PMInv, FlagsOnlyInQueue
  <2>3. CASE b = <<p, 0>>
    BY <1>6, <2>3
  <2> QED BY <2>1, <2>2, <2>3
<1> QED BY <1>4, <1>7, <1>8, <1>9, <1>10 DEF PMInv

\* request_block keeps the bookkeeping.
LEMMA RequestBlockInv ==
  ASSUME PMInv, NEW b \in Block, RequestBlock(b)
  PROVE  PMInv'
<1> USE DEF RequestBlock
<1>1. \A q : Queued(q)' <=> Queued(q)
  BY DEF Queued
<1>2. PMTypeOK'
  BY DEF PMInv, PMTypeOK
<1>3. CompleteCountExact' /\ QueueIsDownloading' /\ BlockCountExact'
  BY <1>1 DEF PMInv, CompleteCountExact, QueueIsDownloading, BlockCountExact, WithStatus
<1>4. FlagsOnlyInQueue'
  BY <1>1 DEF PMInv, FlagsOnlyInQueue
<1> QED BY <1>2, <1>3, <1>4 DEF PMInv

\* The counter stays exact whether the block is new or a duplicate.
LEMMA SetDownloadedInv ==
  ASSUME PMInv, NEW b \in Block, Queued(b[1]), SetDownloaded(b)
  PROVE  PMInv'
<1>1. /\ downloaded' = downloaded \cup {b}
      /\ downloaded_count' = [downloaded_count EXCEPT ![b[1]] = CountWith(b)]
      /\ UNCHANGED <<piece_status, pieces_complete, downloading_pieces, requested>>
  BY DEF SetDownloaded
<1>2. b[1] \in Piece /\ b \in BlocksOf(b[1])
  BY BlockFacts
<1>3. /\ downloaded_count \in [Piece -> Nat]
      /\ CountWith(b) \in Nat
  BY <1>2 DEF PMInv, PMTypeOK, CountWith
<1>4. \A q : Queued(q)' <=> Queued(q)
  BY <1>1 DEF Queued
<1>5. PMTypeOK'
  BY <1>1, <1>3 DEF PMInv, PMTypeOK
<1>6. CompleteCountExact' /\ QueueIsDownloading'
  BY <1>1, <1>4 DEF PMInv, CompleteCountExact, QueueIsDownloading, WithStatus
<1>7. BlockCountExact'
  <2> SUFFICES ASSUME NEW q \in Piece
               PROVE  downloaded_count'[q] = Cardinality(downloaded' \cap BlocksOf(q))
    BY DEF BlockCountExact
  <2>1. downloaded_count[q] = Cardinality(downloaded \cap BlocksOf(q))
    BY DEF PMInv, BlockCountExact
  <2>2. CASE q # b[1]
    <3>1. downloaded' \cap BlocksOf(q) = downloaded \cap BlocksOf(q)
      BY <1>1, <2>2, BlockFacts
    <3> QED BY <1>1, <1>3, <2>1, <2>2, <3>1
  <2>3. CASE q = b[1]
    <3>1. downloaded' \cap BlocksOf(q) = (downloaded \cap BlocksOf(q)) \cup {b}
      BY <1>1, <1>2, <2>3
    <3>2. IsFiniteSet(downloaded \cap BlocksOf(q))
      <4>1. IsFiniteSet(BlocksOf(q)) /\ downloaded \cap BlocksOf(q) \subseteq BlocksOf(q)
        BY BlockFacts
      <4> QED BY <4>1, FS_Subset
    <3>3. Cardinality(downloaded' \cap BlocksOf(q)) =
             IF b \in downloaded \cap BlocksOf(q)
             THEN Cardinality(downloaded \cap BlocksOf(q))
             ELSE Cardinality(downloaded \cap BlocksOf(q)) + 1
      BY <3>1, <3>2, FS_AddElement
    <3>4. downloaded_count'[q] = IF b \in downloaded THEN downloaded_count[q]
                                                     ELSE downloaded_count[q] + 1
      BY <1>1, <1>2, <1>3, <2>3 DEF CountWith
    <3> QED BY <1>2, <2>1, <2>3, <3>3, <3>4
  <2> QED BY <2>2, <2>3
<1>8. FlagsOnlyInQueue'
  BY <1>1, <1>4 DEF PMInv, FlagsOnlyInQueue
<1> QED BY <1>5, <1>6, <1>7, <1>8 DEF PMInv

\* block_received keeps the bookkeeping.
LEMMA BlockReceivedInv ==
  ASSUME PMInv, NEW b \in Block, NEW verdict, BlockReceived(b, verdict)
  PROVE  PMInv'
<1>1. b[1] \in Piece
  BY BlockFacts
<1>2. CASE UNCHANGED pmVars
  BY <1>2 DEF PMInv, PMTypeOK, CompleteCountExact, QueueIsDownloading, BlockCountExact,
              FlagsOnlyInQueue, Queued, WithStatus, pmVars
<1>3. CASE Queued(b[1]) /\ SetDownloaded(b)
  BY <1>3, SetDownloadedInv
<1>4. CASE Queued(b[1]) /\ mark_complete(b[1])
  BY <1>1, <1>4, MarkCompleteInv
<1>5. CASE Queued(b[1]) /\ reset_piece(b[1])
  BY <1>1, <1>5, ResetPieceInv
<1> QED BY <1>2, <1>3, <1>4, <1>5 DEF BlockReceived

\* verify_existing_pieces keeps the bookkeeping.
LEMMA VerifyExistingInv ==
  ASSUME NEW good \in SUBSET Piece, verify_existing_pieces(good)
  PROVE  PMInv'
<1> USE DEF verify_existing_pieces
<1>1. PMTypeOK'
  BY PieceFinite, FS_Subset, FS_CardinalityType, EmptySeq DEF PMTypeOK, Status
<1>2. WithStatus("Complete")' = good
  BY DEF WithStatus
<1>3. \A p \in Piece : ~Queued(p)' /\ piece_status'[p] # "Downloading"
  BY DEF Queued
<1>4. QueueIsDownloading'
  BY <1>3 DEF QueueIsDownloading
<1>5. BlockCountExact'
  BY FS_EmptySet DEF BlockCountExact
<1> QED BY <1>1, <1>2, <1>4, <1>5 DEF PMInv, CompleteCountExact, FlagsOnlyInQueue

-----------------------------------------------------------------------------
\* Whatever a caller does with the operations of the piece manager, its
\* counters, its queue, its flags and its statuses agree.
THEOREM PieceManagerCorrect == PMSpec => []PMInv
<1>1. PMInit => PMInv
  BY StartInv DEF PMInit
<1>2. PMInv /\ [PMNext]_pmVars => PMInv'
  <2> SUFFICES ASSUME PMInv, [PMNext]_pmVars
               PROVE  PMInv'
    OBVIOUS
  <2>1. ASSUME NEW p \in Piece, NEW sent \in BOOLEAN, start_downloading(p, sent)
        PROVE  PMInv'
    BY <2>1, StartDownloadingInv
  <2>2. ASSUME NEW b \in Block, RequestBlock(b)
        PROVE  PMInv'
    BY <2>2, RequestBlockInv
  <2>3. ASSUME NEW b \in Block, NEW verdict \in Verdict, BlockReceived(b, verdict)
        PROVE  PMInv'
    BY <2>3, BlockReceivedInv
  <2>4. ASSUME NEW good \in SUBSET Piece, verify_existing_pieces(good)
        PROVE  PMInv'
    BY <2>4, VerifyExistingInv
  <2>5. CASE UNCHANGED pmVars
    BY <2>5 DEF PMInv, PMTypeOK, CompleteCountExact, QueueIsDownloading,
                BlockCountExact, FlagsOnlyInQueue, Queued, WithStatus, pmVars
  <2> QED BY <2>1, <2>2, <2>3, <2>4, <2>5 DEF PMNext
<1> QED BY <1>1, <1>2, PTL DEF PMSpec

\* The counter is_complete() reads never drifts from the statuses.
THEOREM CompleteCountStaysExact == PMSpec => []CompleteCountExact
<1>1. PMInv => CompleteCountExact
  BY DEF PMInv
<1> QED BY <1>1, PieceManagerCorrect, PTL

\* The piece manager's variables keep their types.
THEOREM PieceTypesHold == PMSpec => []PMTypeOK
<1>1. PMInv => PMTypeOK
  BY DEF PMInv
<1> QED BY <1>1, PieceManagerCorrect, PTL

\* No block is marked requested or downloaded in a piece that is not in the
\* queue: a reset or a completion leaves no flag behind.
THEOREM FlagsStayInQueue == PMSpec => []FlagsOnlyInQueue
<1>1. PMInv => FlagsOnlyInQueue
  BY DEF PMInv
<1> QED BY <1>1, PieceManagerCorrect, PTL

\* downloading_pieces is exactly the Downloading pieces, each once.
THEOREM QueueStaysExact == PMSpec => []QueueIsDownloading
<1>1. PMInv => QueueIsDownloading
  BY DEF PMInv
<1> QED BY <1>1, PieceManagerCorrect, PTL

\* downloaded_count is the number of distinct blocks that arrived.
THEOREM BlockCountStaysExact == PMSpec => []BlockCountExact
<1>1. PMInv => BlockCountExact
  BY DEF PMInv
<1> QED BY <1>1, PieceManagerCorrect, PTL
=============================================================================
