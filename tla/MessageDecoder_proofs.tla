------------------------ MODULE MessageDecoder_proofs ------------------------
(***************************************************************************)
(* Proofs about read_message, for any messages, any size of a read and any *)
(* number of messages.                                                     *)
(***************************************************************************)
EXTENDS MessageDecoder, SequenceFacts

-----------------------------------------------------------------------------
(* What a message is on the wire.                                            *)

\* The length of a message is that of its id and its data.
LEMMA LengthFacts ==
  ASSUME NEW m \in Message
  PROVE  LengthOf(m) \in Nat
BY DecoderAssumption DEF LengthOf, NoId

\* An encoding is the prefix and as many bytes as the prefix says.
LEMMA EncodeFacts ==
  ASSUME NEW m \in Message
  PROVE  /\ Encode(m) \in Seq(Byte)
         /\ Len(Encode(m)) = PrefixLength + LengthOf(m)
         /\ \A k \in 1..(PrefixLength + LengthOf(m)) : Encode(m)[k] = <<m, k>>
<1> DEFINE n == PrefixLength + LengthOf(m)
<1>1. n \in Nat
  BY LengthFacts DEF PrefixLength
<1>2. \A k \in 1..n : <<m, k>> \in Byte
  BY DEF Byte
<1>3. Encode(m) \in [1..n -> Byte]
  BY <1>2 DEF Encode
<1> HIDE DEF n
<1>4. Encode(m) \in Seq(Byte) /\ Len(Encode(m)) = n
  BY <1>1, <1>3
<1>5. \A k \in 1..n : Encode(m)[k] = <<m, k>>
  BY DEF Encode, n
<1> QED BY <1>4, <1>5 DEF n

\* The length read from the prefix of a message is the length of its rest.
LEMMA PrefixFacts ==
  ASSUME NEW m \in Message
  PROVE  /\ PrefixOf(m) \in Seq(Byte)
         /\ Len(PrefixOf(m)) = PrefixLength
         /\ PrefixOf(m)[1][1] = m
         /\ LengthIn(PrefixOf(m)) = LengthOf(m)
<1>1. Encode(m) \in Seq(Byte) /\ Len(Encode(m)) >= PrefixLength /\ Encode(m)[1] = <<m, 1>>
  BY EncodeFacts, LengthFacts DEF PrefixLength
<1>2. /\ PrefixOf(m) \in Seq(Byte)
      /\ Len(PrefixOf(m)) = PrefixLength
      /\ PrefixOf(m)[1] = Encode(m)[1]
  <2> HIDE DEF Byte
  <2> QED BY <1>1 DEF PrefixOf, PrefixLength
<1> QED BY <1>1, <1>2 DEF LengthIn

\* The bytes of messages, one of which is added at the end, or taken off the front.
LEMMA BytesType ==
  ASSUME NEW ms \in Seq(Message)
  PROVE  /\ [k \in DOMAIN ms |-> Encode(ms[k])] \in Seq(Seq(Byte))
         /\ Bytes(ms) \in Seq(Byte)
<1> DEFINE es == [k \in DOMAIN ms |-> Encode(ms[k])]
<1>1. \A k \in DOMAIN ms : Encode(ms[k]) \in Seq(Byte)
  BY EncodeFacts
<1>2. es \in [1..Len(ms) -> Seq(Byte)] /\ Len(ms) \in Nat
  BY <1>1
<1>3. es \in Seq(Seq(Byte))
  BY <1>2
<1> HIDE DEF es
<1>4. FlattenSeq(es) \in Seq(Byte)
  BY <1>3, FlattenType
<1> QED BY <1>3, <1>4 DEF Bytes, es

\* A message sent last is the end of the bytes.
LEMMA BytesAppend ==
  ASSUME NEW ms \in Seq(Message), NEW m \in Message
  PROVE  Bytes(Append(ms, m)) = Bytes(ms) \o Encode(m)
<1> DEFINE es == [k \in DOMAIN ms |-> Encode(ms[k])]
           fs == [k \in DOMAIN Append(ms, m) |-> Encode(Append(ms, m)[k])]
<1>1. es \in Seq(Seq(Byte)) /\ Encode(m) \in Seq(Byte)
  BY BytesType, EncodeFacts
<1>2. Len(es) = Len(ms) /\ DOMAIN es = 1..Len(ms) /\ \A k \in 1..Len(ms) : es[k] = Encode(ms[k])
  OBVIOUS
<1>3. Append(ms, m) \in Seq(Message) /\ Len(Append(ms, m)) = Len(ms) + 1
  OBVIOUS
<1>4. fs \in Seq(Seq(Byte)) /\ Len(fs) = Len(ms) + 1
  <2>1. ASSUME NEW ns \in Seq(Message) PROVE [k \in DOMAIN ns |-> Encode(ns[k])] \in Seq(Seq(Byte))
    BY BytesType
  <2>2. DOMAIN Append(ms, m) = 1..(Len(ms) + 1) /\ Len(ms) \in Nat
    OBVIOUS
  <2>3. DOMAIN fs = 1..(Len(ms) + 1)
    BY <2>2
  <2>4. fs \in Seq(Seq(Byte))
    BY <1>3, <2>1
  <2> HIDE DEF fs
  <2> QED BY <2>2, <2>3, <2>4, LenProperties
<1>5. \A k \in 1..(Len(ms) + 1) : fs[k] = Encode(Append(ms, m)[k])
  BY <1>3
<1>6. \A k \in 1..Len(ms) : Append(ms, m)[k] = ms[k]
  OBVIOUS
<1>7. Append(ms, m)[Len(ms) + 1] = m
  OBVIOUS
<1> HIDE DEF es, fs
<1>8. /\ Append(es, Encode(m)) \in Seq(Seq(Byte))
      /\ Len(Append(es, Encode(m))) = Len(ms) + 1
      /\ \A k \in 1..Len(ms) : Append(es, Encode(m))[k] = es[k]
      /\ Append(es, Encode(m))[Len(ms) + 1] = Encode(m)
  BY <1>1, <1>2, AppendProperties
<1>9. \A k \in 1..(Len(ms) + 1) : fs[k] = Append(es, Encode(m))[k]
  BY <1>2, <1>5, <1>6, <1>7, <1>8
<1>10. fs = Append(es, Encode(m))
  BY <1>4, <1>8, <1>9, SeqEqual
<1>11. FlattenSeq(Append(es, Encode(m))) = FlattenSeq(es) \o Encode(m)
  BY <1>1, FlattenAppend
<1> QED BY <1>10, <1>11 DEF Bytes, es, fs

\* The first message is the front of the bytes.
LEMMA BytesFirst ==
  ASSUME NEW ms \in Seq(Message), Len(ms) > 0
  PROVE  /\ SubSeq(ms, 2, Len(ms)) \in Seq(Message)
         /\ Bytes(ms) = Encode(ms[1]) \o Bytes(SubSeq(ms, 2, Len(ms)))
<1> DEFINE rest == SubSeq(ms, 2, Len(ms))
           es == [k \in DOMAIN ms |-> Encode(ms[k])]
           rs == [k \in DOMAIN rest |-> Encode(rest[k])]
<1>0. Len(ms) \in Nat /\ Len(ms) > 0
  OBVIOUS
<1>1. /\ rest \in Seq(Message) /\ Len(rest) = Len(ms) - 1 /\ ms[1] \in Message
      /\ \A k \in 1..(Len(ms) - 1) : rest[k] = ms[k + 1]
  BY AfterFirst, ElementOfSeq, <1>0
<1> HIDE DEF rest
<1>2. es \in Seq(Seq(Byte)) /\ rs \in Seq(Seq(Byte)) /\ Encode(ms[1]) \in Seq(Byte)
  BY <1>1, BytesType, EncodeFacts
<1>3. Len(es) = Len(ms) /\ \A k \in 1..Len(ms) : es[k] = Encode(ms[k])
  OBVIOUS
<1>4. Len(rs) = Len(ms) - 1 /\ \A k \in 1..(Len(ms) - 1) : rs[k] = Encode(ms[k + 1])
  BY <1>1
<1> HIDE DEF es, rs
<1>5. Len(es) = Len(rs) + 1 /\ es[1] = Encode(ms[1])
  BY <1>0, <1>3, <1>4
<1>6. ASSUME NEW k \in 1..Len(rs) PROVE es[k + 1] = rs[k]
  <2>1. k \in 1..(Len(ms) - 1) /\ k + 1 \in 1..Len(ms)
    BY <1>0, <1>4
  <2> QED BY <2>1, <1>3, <1>4
<1>7. <<Encode(ms[1])>> \o rs = es
  BY <1>2, <1>5, <1>6, FirstAndRest, ZenonT(60)
<1>8. FlattenSeq(<<Encode(ms[1])>> \o rs) = Encode(ms[1]) \o FlattenSeq(rs)
  BY <1>2, FlattenCons
<1> QED BY <1>1, <1>7, <1>8 DEF Bytes, es, rs, rest

-----------------------------------------------------------------------------
(* Where the bytes are.                                                      *)

\* The message that read_message is to return next.
Due == sent[Len(received) + 1]

\* The bytes held and those in the socket, with what the network lost after
\* them, are the bytes of the messages that were not returned.
BytesInv ==
    \E lost \in Seq(Byte) :
        /\ Rest = Unread \o lost
        /\ end = "open" => lost = <<>>

\* Between calls no prefix is out of the buffer; in the middle of a message the
\* prefix is the one of the next message; after an Err there was a cause.
DecoderInv ==
    /\ DecoderTypeOK
    /\ Len(received) <= Len(sent)
    /\ pc # "failed" => BytesInv
    /\ pc \in {"idle", "prefix"} => len_bytes = <<>>
    /\ pc = "payload" =>
          /\ Len(received) < Len(sent)
          /\ len_bytes = PrefixOf(Due)
          /\ LengthOf(Due) # 0
    /\ pc = "failed" => end # "open" \/ (Len(received) < Len(sent) /\ ~WellFormed(Due))

\* What is in hand and in the socket are bytes.
LEMMA UnreadType ==
  ASSUME DecoderTypeOK
  PROVE  Unread \in Seq(Byte)
<1>1. len_bytes \in Seq(Byte) /\ buffer \in Seq(Byte) /\ socket \in Seq(Byte)
  BY DEF DecoderTypeOK
<1>2. len_bytes \o buffer \in Seq(Byte)
  BY <1>1
<1> QED BY <1>1, <1>2 DEF Unread

\* Associativity, for the sequences this module is about.
LEMMA ByteConcat ==
  ASSUME NEW x \in Seq(Byte), NEW y \in Seq(Byte), NEW z \in Seq(Byte)
  PROVE  x \o y \in Seq(Byte) /\ (x \o y) \o z = x \o (y \o z)
<1>1. x \o y \in Seq(Byte)
  BY ConcatProperties
<1>2. (x \o y) \o z = x \o (y \o z)
  BY ConcatAssociative
<1> QED BY <1>1, <1>2

\* What is left after the messages returned.
LEMMA RestType ==
  ASSUME DecoderTypeOK, Len(received) <= Len(sent)
  PROVE  /\ SubSeq(sent, Len(received) + 1, Len(sent)) \in Seq(Message)
         /\ Rest \in Seq(Byte)
<1>1. SubSeq(sent, Len(received) + 1, Len(sent)) \in Seq(Message)
  BY DEF DecoderTypeOK
<1> QED BY <1>1, BytesType DEF Rest

\* It starts with the message that is due.
LEMMA RestIsDue ==
  ASSUME DecoderTypeOK, Len(received) < Len(sent)
  PROVE  /\ Due \in Message
         /\ SubSeq(sent, Len(received) + 2, Len(sent)) \in Seq(Message)
         /\ Rest = Encode(Due) \o Bytes(SubSeq(sent, Len(received) + 2, Len(sent)))
<1> DEFINE r == Len(received)
           ms == SubSeq(sent, r + 1, Len(sent))
<1>1. sent \in Seq(Message) /\ r \in Nat /\ Len(sent) \in Nat /\ r < Len(sent)
  BY DEF DecoderTypeOK
<1> HIDE DEF r
<1>2. ms \in Seq(Message) /\ Len(ms) = Len(sent) - r /\ ms[1] = sent[r + 1] /\ sent[r + 1] \in Message
  BY <1>1
<1>3. Tail(ms) = SubSeq(sent, r + 2, Len(sent)) /\ SubSeq(sent, r + 2, Len(sent)) \in Seq(Message)
  <2>1. r + 1 \in 1..Len(sent) /\ Len(sent) \in (r + 1)..Len(sent) /\ (r + 1) + 1 = r + 2
    BY <1>1
  <2>2. Tail(ms) = SubSeq(sent, (r + 1) + 1, Len(sent))
    BY <1>1, <2>1, HeadTailOfSubSeq
  <2> QED BY <1>1, <2>1, <2>2
<1>4. Tail(ms) = SubSeq(ms, 2, Len(ms))
  BY <1>1, <1>2, TailIsSubSeq
<1>5. Bytes(ms) = Encode(ms[1]) \o Bytes(SubSeq(ms, 2, Len(ms)))
  <2>1. ASSUME NEW ns \in Seq(Message), Len(ns) > 0
        PROVE  Bytes(ns) = Encode(ns[1]) \o Bytes(SubSeq(ns, 2, Len(ns)))
    BY <2>1, BytesFirst
  <2> HIDE DEF ms
  <2>2. Len(ms) > 0
    BY <1>1, <1>2
  <2> QED BY <1>2, <2>1, <2>2
<1> QED BY <1>2, <1>3, <1>4, <1>5 DEF Rest, Due, r

\* Nothing is left when every message was returned.
LEMMA RestIsEmpty ==
  ASSUME DecoderTypeOK, Len(received) = Len(sent)
  PROVE  Rest = <<>>
<1>1. SubSeq(sent, Len(received) + 1, Len(sent)) = <<>>
  BY SubSeqEmpty DEF DecoderTypeOK
<1>2. [k \in DOMAIN <<>> |-> Encode(<<>>[k])] = <<>>
  OBVIOUS
<1> QED BY <1>1, <1>2, FlattenEmpty DEF Rest, Bytes

\* A step that only moves bytes about keeps them all.
LEMMA BytesKept ==
  ASSUME BytesInv, Unread' = Unread, UNCHANGED <<sent, received, end>>
  PROVE  BytesInv'
<1>1. Rest' = Rest
  BY DEF Rest, Bytes
<1> QED BY <1>1 DEF BytesInv

\* A read takes a non-empty front of the socket to the end of the buffer.
LEMMA ReadsKeeps ==
  ASSUME DecoderTypeOK, NEW wanted \in Nat, Reads(wanted), UNCHANGED len_bytes
  PROVE  buffer' \in Seq(Byte) /\ socket' \in Seq(Byte) /\ Unread' = Unread
<1>1. len_bytes \in Seq(Byte) /\ buffer \in Seq(Byte) /\ socket \in Seq(Byte)
  BY DEF DecoderTypeOK
<1>2. PICK n \in 1..Least(wanted, Len(socket)) :
         /\ buffer' = buffer \o SubSeq(socket, 1, n)
         /\ socket' = SubSeq(socket, n + 1, Len(socket))
  BY DEF Reads
<1>3. n \in 0..Len(socket)
  BY <1>1 DEF Least
<1> DEFINE a == SubSeq(socket, 1, n)
           b == SubSeq(socket, n + 1, Len(socket))
<1>4. a \in Seq(Byte) /\ b \in Seq(Byte) /\ socket = a \o b
  BY <1>1, <1>3, ConcatSubSeq
<1>5. buffer' = buffer \o a /\ socket' = b
  BY <1>2
<1> HIDE DEF a, b
<1>6. (len_bytes \o (buffer \o a)) \o b = (len_bytes \o buffer) \o (a \o b)
  <2> DEFINE z == len_bytes \o buffer
  <2>1. z \in Seq(Byte)
    BY <1>1, ConcatProperties
  <2> HIDE DEF z
  <2>2. len_bytes \o (buffer \o a) = z \o a
    <3>1. a \in Seq(Byte)
      BY <1>4
    <3>2. (len_bytes \o buffer) \o a = len_bytes \o (buffer \o a)
      BY ONLY <1>1, <3>1, ByteConcat, SMTT(30)
    <3> QED BY <3>2, Zenon DEF z
  <2>3. (z \o a) \o b = z \o (a \o b)
    BY <1>4, <2>1, ConcatAssociative
  <2> QED BY <2>2, <2>3 DEF z
<1>7. Unread' = Unread
  BY <1>4, <1>5, <1>6 DEF Unread
<1> QED BY <1>1, <1>4, <1>5, <1>7

\* What is held starts with the message that is due, as far as it goes.
LEMMA WhatIsDue ==
  ASSUME DecoderTypeOK, Len(received) <= Len(sent), BytesInv,
         NEW p \in Seq(Byte), NEW q \in Seq(Byte), Unread = p \o q, Len(p) >= PrefixLength
  PROVE  /\ Len(received) < Len(sent)
         /\ Len(p) = PrefixLength => p = PrefixOf(Due)
         /\ Len(p) = Len(Encode(Due)) =>
              /\ p = Encode(Due)
              /\ \E lost \in Seq(Byte) :
                    /\ Bytes(SubSeq(sent, Len(received) + 2, Len(sent))) = q \o lost
                    /\ end = "open" => lost = <<>>
<1>1. PICK lost \in Seq(Byte) : Rest = Unread \o lost /\ (end = "open" => lost = <<>>)
  BY DEF BytesInv
<1>2. q \o lost \in Seq(Byte) /\ Rest = p \o (q \o lost)
  BY <1>1, ByteConcat
<1>3. Len(received) < Len(sent)
  <2> SUFFICES ASSUME Len(received) = Len(sent) PROVE FALSE
    BY DEF DecoderTypeOK
  <2>1. p \o (q \o lost) = <<>>
    BY <1>2, RestIsEmpty
  <2>2. Len(p \o (q \o lost)) = Len(p) + Len(q \o lost)
    BY <1>2, ConcatProperties
  <2>3. Len(p) \in Nat /\ Len(q \o lost) \in Nat
    BY <1>2
  <2> QED BY <2>1, <2>2, <2>3 DEF PrefixLength
<1> DEFINE next == Bytes(SubSeq(sent, Len(received) + 2, Len(sent)))
<1>4. Due \in Message /\ next \in Seq(Byte) /\ Rest = Encode(Due) \o next
  BY <1>3, RestIsDue, BytesType
<1>5. Encode(Due) \in Seq(Byte) /\ Len(Encode(Due)) \in Nat /\ Len(Encode(Due)) >= PrefixLength
  BY <1>4, EncodeFacts, LengthFacts DEF PrefixLength
<1> HIDE DEF next
<1>6. ASSUME Len(p) = PrefixLength PROVE p = PrefixOf(Due)
  <2> DEFINE e == SubSeq(Encode(Due), PrefixLength + 1, Len(Encode(Due)))
  <2>1. PrefixLength \in 0..Len(Encode(Due))
    BY <1>5 DEF PrefixLength
  <2>2. /\ PrefixOf(Due) \in Seq(Byte) /\ Len(PrefixOf(Due)) = PrefixLength /\ e \in Seq(Byte)
        /\ Encode(Due) = PrefixOf(Due) \o e
    BY <1>5, <2>1, ConcatSubSeq DEF PrefixOf
  <2> HIDE DEF e
  <2>3. e \o next \in Seq(Byte) /\ Rest = PrefixOf(Due) \o (e \o next)
    <3>1. e \o next \in Seq(Byte)
      BY <1>4, <2>2, ByteConcat
    <3> DEFINE f == PrefixOf(Due)
    <3>2. f \in Seq(Byte) /\ Rest = (f \o e) \o next
      BY <1>4, <2>2
    <3> HIDE DEF f
    <3>3. (f \o e) \o next = f \o (e \o next)
      BY <1>4, <2>2, <3>2, ByteConcat, ZenonT(60)
    <3> QED BY <3>1, <3>2, <3>3 DEF f
  <2> DEFINE x == q \o lost
             y == e \o next
  <2>4. x \in Seq(Byte) /\ y \in Seq(Byte) /\ p \o x = PrefixOf(Due) \o y
    BY <1>2, <2>3
  <2> HIDE DEF x, y
  <2> QED BY <1>6, <2>2, <2>4, ConcatCancel
<1>7. ASSUME Len(p) = Len(Encode(Due)) PROVE p = Encode(Due) /\ next = q \o lost
  <2> DEFINE x == q \o lost
  <2>1. x \in Seq(Byte) /\ p \o x = Encode(Due) \o next
    BY <1>2, <1>4
  <2> HIDE DEF x
  <2>2. p = Encode(Due) /\ x = next
    BY <1>4, <1>5, <1>7, <2>1, ConcatCancel
  <2> QED BY <2>2 DEF x
<1> QED BY <1>1, <1>3, <1>6, <1>7 DEF next

\* A message that is whole is handed out, and the bytes after it are left.
LEMMA MessageReturned ==
  ASSUME DecoderTypeOK, Len(received) <= Len(sent), BytesInv,
         NEW p \in Seq(Byte), NEW q \in Seq(Byte), Unread = p \o q, Len(p) >= PrefixLength,
         Len(p) = Len(Encode(Due)), Unread' = q,
         received' = Append(received, Due), UNCHANGED <<sent, end>>
  PROVE  /\ received' \in Seq(Message)
         /\ Len(received') <= Len(sent')
         /\ BytesInv'
<1>1. Len(received) < Len(sent)
  BY WhatIsDue
<1>2. Due \in Message
  BY <1>1, RestIsDue
<1>3. received' \in Seq(Message) /\ Len(received') = Len(received) + 1 /\ Len(received) \in Nat
  BY <1>2, AppendProperties DEF DecoderTypeOK
<1>4. Len(received') <= Len(sent')
  BY <1>1, <1>3 DEF DecoderTypeOK
<1>5. PICK lost \in Seq(Byte) :
        /\ Bytes(SubSeq(sent, Len(received) + 2, Len(sent))) = q \o lost
        /\ end = "open" => lost = <<>>
  BY WhatIsDue
<1>6. Len(received') + 1 = Len(received) + 2
  BY <1>3
<1>7. Rest' = Bytes(SubSeq(sent, Len(received) + 2, Len(sent)))
  BY <1>6 DEF Rest, Bytes
<1> QED BY <1>3, <1>4, <1>5, <1>7 DEF BytesInv

\* Nothing is sent at the start.
LEMMA InitDecoder == Init => DecoderInv
<1> SUFFICES ASSUME Init PROVE DecoderInv
  OBVIOUS
<1>1. DecoderTypeOK
  BY DEF Init, DecoderTypeOK
<1>2. Rest = <<>> /\ Unread = <<>> /\ <<>> \in Seq(Byte)
  BY <1>1, RestIsEmpty, ByteConcat DEF Init, Unread
<1>3. <<>> \o <<>> = <<>>
  OBVIOUS
<1>4. BytesInv
  BY <1>2, <1>3 DEF BytesInv
<1> QED BY <1>1, <1>4 DEF DecoderInv, Init

\* A message sent adds its encoding to what is unread and to what is due.
LEMMA SendStep ==
  ASSUME DecoderInv, NEW m \in Message, Send(m)
  PROVE  DecoderInv'
<1>1. DecoderTypeOK /\ Len(received) <= Len(sent) /\ sent \in Seq(Message) /\ Len(sent) \in Nat
      /\ received \in Seq(Message) /\ Len(received) \in Nat
  BY DEF DecoderInv, DecoderTypeOK
<1>2. /\ end = "open" /\ sent' = Append(sent, m) /\ socket' = socket \o Encode(m)
      /\ UNCHANGED <<end, buffer, len_bytes, pc, received>>
  BY DEF Send
<1>3. /\ sent' \in Seq(Message) /\ Len(sent') = Len(sent) + 1
      /\ \A k \in 1..Len(sent) : sent'[k] = sent[k]
  BY <1>1, <1>2, AppendProperties
<1>4. len_bytes \in Seq(Byte) /\ buffer \in Seq(Byte) /\ socket \in Seq(Byte) /\ Encode(m) \in Seq(Byte)
  BY <1>1, EncodeFacts DEF DecoderTypeOK
<1>5. DecoderTypeOK'
  <2>1. socket' \in Seq(Byte)
    BY <1>2, <1>4, ByteConcat
  <2> QED BY <1>1, <1>2, <1>3, <2>1 DEF DecoderTypeOK
<1>6. Len(received) < Len(sent) => Due' = Due
  BY <1>1, <1>2, <1>3 DEF Due
<1>7. Rest' = Rest \o Encode(m)
  <2>1. SubSeq(sent', Len(received) + 1, Len(sent')) = Append(SubSeq(sent, Len(received) + 1, Len(sent)), m)
    <3>1. ASSUME NEW i \in 1..(Len(sent) + 1)
          PROVE  SubSeq(Append(sent, m), i, Len(sent) + 1) = Append(SubSeq(sent, i, Len(sent)), m)
      BY <1>1, SubSeqAppend
    <3>2. Len(received) + 1 \in 1..(Len(sent) + 1)
      BY <1>1
    <3> QED BY <1>2, <1>3, <3>1, <3>2
  <2>2. SubSeq(sent, Len(received) + 1, Len(sent)) \in Seq(Message)
    BY <1>1, RestType
  <2>3. Bytes(Append(SubSeq(sent, Len(received) + 1, Len(sent)), m))
          = Bytes(SubSeq(sent, Len(received) + 1, Len(sent))) \o Encode(m)
    BY <2>2, BytesAppend
  <2>4. Rest' = Bytes(SubSeq(sent', Len(received) + 1, Len(sent')))
    BY <1>2 DEF Rest, Bytes
  <2> QED BY <2>1, <2>3, <2>4 DEF Rest
<1>8. pc # "failed" => BytesInv'
  <2> SUFFICES ASSUME pc # "failed" PROVE BytesInv'
    OBVIOUS
  <2>1. PICK lost \in Seq(Byte) : Rest = Unread \o lost /\ (end = "open" => lost = <<>>)
    BY DEF DecoderInv, BytesInv
  <2>2. Rest = Unread
    BY <1>1, <1>2, <2>1, UnreadType, ConcatEmptySeq
  <2>3. Unread' = Unread \o Encode(m)
    <3> DEFINE z == len_bytes \o buffer
    <3>1. z \in Seq(Byte)
      BY <1>4, ByteConcat
    <3> HIDE DEF z
    <3>2. z \o (socket \o Encode(m)) = (z \o socket) \o Encode(m)
      BY <3>1, <1>4, ByteConcat, ZenonT(60)
    <3> QED BY <1>2, <3>2 DEF Unread, z
  <2>4. Rest' = Unread' /\ Unread' \in Seq(Byte)
    BY <1>5, <1>7, <2>2, <2>3, UnreadType, RestType, <1>1, <1>4, ByteConcat
  <2>5. Rest' = Unread' \o <<>> /\ <<>> \in Seq(Byte)
    BY <2>4, ConcatEmptySeq
  <2> QED BY <2>5 DEF BytesInv
<1> QED BY <1>1, <1>2, <1>3, <1>5, <1>6, <1>8 DEF DecoderInv

\* What the network loses at the end.
LEMMA EndStep ==
  ASSUME DecoderInv, NEW left \in Seq(Byte), NEW gone \in Seq(Byte), socket = left \o gone,
         socket' = left, end' \in {"closed", "reset"},
         UNCHANGED <<sent, buffer, len_bytes, pc, received>>
  PROVE  DecoderInv'
<1>1. DecoderTypeOK /\ Len(received) <= Len(sent)
  BY DEF DecoderInv
<1>2. DecoderTypeOK'
  BY <1>1 DEF DecoderTypeOK
<1>3. pc # "failed" => BytesInv'
  <2> SUFFICES ASSUME pc # "failed" PROVE BytesInv'
    OBVIOUS
  <2>1. PICK lost \in Seq(Byte) : Rest = Unread \o lost
    BY DEF DecoderInv, BytesInv
  <2> DEFINE z == len_bytes \o buffer
  <2>2. z \in Seq(Byte)
    BY <1>1, ByteConcat DEF DecoderTypeOK
  <2>3. Unread = z \o socket /\ Unread' = z \o left
    BY DEF Unread
  <2> HIDE DEF z
  <2>4. Unread = Unread' \o gone /\ Unread' \in Seq(Byte)
    BY <2>2, <2>3, ByteConcat
  <2>5. gone \o lost \in Seq(Byte) /\ Rest = Unread' \o (gone \o lost)
    <3>1. gone \o lost \in Seq(Byte)
      BY ByteConcat
    <3> DEFINE u == Unread'
    <3>2. u \in Seq(Byte) /\ Rest = (u \o gone) \o lost
      BY <2>1, <2>4
    <3> HIDE DEF u
    <3>3. (u \o gone) \o lost = u \o (gone \o lost)
      BY <3>2, ByteConcat
    <3> QED BY <3>1, <3>2, <3>3 DEF u
  <2>6. Rest' = Rest /\ end' # "open"
    BY DEF Rest, Bytes
  <2> QED BY <2>5, <2>6 DEF BytesInv
<1>4. Due' = Due
  BY DEF Due
<1>5. /\ Len(received') <= Len(sent') /\ end' # "open" /\ pc' = pc
      /\ (Len(received) < Len(sent))' = (Len(received) < Len(sent))
  BY <1>1
<1> QED BY <1>2, <1>3, <1>4, <1>5 DEF DecoderInv

\* A close loses nothing.
LEMMA CloseStep == DecoderInv /\ Close => DecoderInv'
<1> SUFFICES ASSUME DecoderInv, Close PROVE DecoderInv'
  OBVIOUS
<1>1. PICK n \in 0..Len(socket) : socket' = SubSeq(socket, 1, n)
  BY DEF Close
<1> DEFINE left == SubSeq(socket, 1, n)
           gone == SubSeq(socket, n + 1, Len(socket))
<1>2. socket \in Seq(Byte)
  BY DEF DecoderInv, DecoderTypeOK
<1>3. left \in Seq(Byte) /\ gone \in Seq(Byte) /\ socket = left \o gone
  BY <1>2, ConcatSubSeq
<1>4. socket' = left /\ end' = "closed" /\ UNCHANGED <<sent, buffer, len_bytes, pc, received>>
  BY <1>1 DEF Close
<1> HIDE DEF left, gone
<1> QED BY <1>3, <1>4, EndStep

\* A reset loses what was in the socket.
LEMMA ResetStep == DecoderInv /\ Reset => DecoderInv'
<1> SUFFICES ASSUME DecoderInv, Reset PROVE DecoderInv'
  OBVIOUS
<1>1. socket \in Seq(Byte) /\ <<>> \in Seq(Byte) /\ socket = <<>> \o socket
  BY ConcatEmptySeq DEF DecoderInv, DecoderTypeOK
<1>2. socket' = <<>> /\ end' = "reset" /\ UNCHANGED <<sent, buffer, len_bytes, pc, received>>
  BY DEF Reset
<1> QED BY <1>1, <1>2, EndStep

\* A read for the prefix moves bytes from the socket to the buffer.
LEMMA ReadPrefixStep == DecoderInv /\ ReadPrefix => DecoderInv'
<1> SUFFICES ASSUME DecoderInv, ReadPrefix PROVE DecoderInv'
  OBVIOUS
<1>1. /\ Reads(ReadSize) /\ UNCHANGED <<sent, end, len_bytes, pc, received>>
      /\ ReadSize \in Nat /\ DecoderTypeOK
  BY DecoderAssumption DEF ReadPrefix, DecoderInv
<1>2. buffer' \in Seq(Byte) /\ socket' \in Seq(Byte) /\ Unread' = Unread
  BY <1>1, ReadsKeeps
<1>3. DecoderTypeOK'
  BY <1>1, <1>2 DEF DecoderTypeOK
<1>4. pc # "failed" => BytesInv'
  BY <1>1, <1>2, BytesKept DEF DecoderInv
<1>5. Due' = Due
  BY <1>1 DEF Due
<1> QED BY <1>1, <1>3, <1>4, <1>5 DEF DecoderInv

\* So does a read for the payload.
LEMMA ReadPayloadStep == DecoderInv /\ ReadPayload => DecoderInv'
<1> SUFFICES ASSUME DecoderInv, ReadPayload PROVE DecoderInv'
  OBVIOUS
<1> DEFINE wanted == Least(message_len - Len(buffer), ReadSize)
<1>1. /\ Reads(wanted) /\ UNCHANGED <<sent, end, len_bytes, pc, received>>
      /\ pc = "payload" /\ Len(buffer) < message_len /\ DecoderTypeOK
  BY DEF ReadPayload, NeedsPayload, DecoderInv
<1>2. Due \in Message /\ message_len = LengthOf(Due) /\ message_len \in Nat
  BY <1>1, RestIsDue, PrefixFacts, LengthFacts DEF DecoderInv, message_len
<1>3. wanted \in Nat
  BY <1>1, <1>2, DecoderAssumption DEF Least, DecoderTypeOK
<1> HIDE DEF wanted
<1>4. buffer' \in Seq(Byte) /\ socket' \in Seq(Byte) /\ Unread' = Unread
  BY <1>1, <1>3, ReadsKeeps
<1>5. DecoderTypeOK'
  BY <1>1, <1>4 DEF DecoderTypeOK
<1>6. BytesInv'
  BY <1>1, <1>4, BytesKept DEF DecoderInv
<1>7. Due' = Due
  BY <1>1 DEF Due
<1>8. PrefixOf(Due)' = PrefixOf(Due) /\ LengthOf(Due)' = LengthOf(Due)
  BY <1>7 DEF PrefixOf, LengthOf, Encode
<1> QED BY <1>1, <1>5, <1>6, <1>7, <1>8 DEF DecoderInv

\* A call begins, or ends before there is a prefix.
LEMMA CallStep == DecoderInv /\ (Call \/ NoPrefix) => DecoderInv'
<1> SUFFICES ASSUME DecoderInv, Call \/ NoPrefix PROVE DecoderInv'
  OBVIOUS
<1>1. /\ UNCHANGED <<sent, socket, end, buffer, len_bytes, received>>
      /\ pc \in {"idle", "prefix"} /\ pc' \in {"idle", "prefix"}
  BY DEF Call, NoPrefix, NeedsPrefix
<1>2. Unread' = Unread
  BY <1>1 DEF Unread
<1>3. BytesInv'
  BY <1>1, <1>2, BytesKept DEF DecoderInv
<1> QED BY <1>1, <1>3 DEF DecoderInv, DecoderTypeOK

\* A prefix whose payload is not all there is put back before it.
LEMMA PutBackStep == DecoderInv /\ PutBack => DecoderInv'
<1> SUFFICES ASSUME DecoderInv, PutBack PROVE DecoderInv'
  OBVIOUS
<1>1. /\ UNCHANGED <<sent, socket, end, received>> /\ pc = "payload" /\ pc' = "idle"
      /\ buffer' = len_bytes \o buffer /\ len_bytes' = <<>>
  BY DEF PutBack, NeedsPayload
<1>2. len_bytes \in Seq(Byte) /\ buffer \in Seq(Byte)
  BY DEF DecoderInv, DecoderTypeOK
<1>3. buffer' \in Seq(Byte) /\ len_bytes' \in Seq(Byte)
  BY <1>1, <1>2, ByteConcat
<1>4. <<>> \o (len_bytes \o buffer) = len_bytes \o buffer
  BY <1>1, <1>3, ConcatEmptySeq
<1>5. Unread' = Unread
  BY <1>1, <1>4 DEF Unread
<1>6. BytesInv'
  BY <1>1, <1>5, BytesKept DEF DecoderInv
<1> QED BY <1>1, <1>3, <1>6 DEF DecoderInv, DecoderTypeOK

\* A read fails only when the connection is at its end.
LEMMA FailStep == DecoderInv /\ Fail => DecoderInv'
<1> SUFFICES ASSUME DecoderInv, Fail PROVE DecoderInv'
  OBVIOUS
<1>1. UNCHANGED <<sent, socket, end, buffer, len_bytes, received>> /\ pc' = "failed" /\ end # "open"
  BY DEF Fail, AtEnd, ReadError
<1> QED BY <1>1 DEF DecoderInv, DecoderTypeOK

\* A step that returns at most the message that is due.
Delivers ==
    /\ UNCHANGED sent
    /\ \/ UNCHANGED received
       \/ Len(received) < Len(sent) /\ received' = Append(received, Due)

\* A prefix is the one of the message due; one of zero is the keep-alive due.
LEMMA TakePrefixStep == DecoderInv /\ TakePrefix => DecoderInv' /\ Delivers
<1> SUFFICES ASSUME DecoderInv, TakePrefix PROVE DecoderInv' /\ Delivers
  OBVIOUS
<1> DEFINE p == SubSeq(buffer, 1, PrefixLength)
           b == SubSeq(buffer, PrefixLength + 1, Len(buffer))
<1>1. /\ pc = "prefix" /\ Len(buffer) >= PrefixLength /\ buffer' = b
      /\ UNCHANGED <<sent, socket, end>>
      /\ IF LengthIn(p) = 0
         THEN received' = Append(received, p[1][1]) /\ pc' = "idle" /\ UNCHANGED len_bytes
         ELSE len_bytes' = p /\ pc' = "payload" /\ UNCHANGED received
  BY DEF TakePrefix
<1>2. /\ DecoderTypeOK /\ Len(received) <= Len(sent) /\ BytesInv /\ len_bytes = <<>>
      /\ buffer \in Seq(Byte) /\ socket \in Seq(Byte)
  BY <1>1 DEF DecoderInv, DecoderTypeOK
<1>3. p \in Seq(Byte) /\ Len(p) = PrefixLength /\ b \in Seq(Byte) /\ buffer = p \o b
  <2>1. PrefixLength \in 0..Len(buffer)
    BY <1>1, <1>2 DEF PrefixLength
  <2> QED BY <1>2, <2>1, ConcatSubSeq
<1> HIDE DEF p, b
<1>4. b \o socket \in Seq(Byte) /\ Unread = p \o (b \o socket)
  BY <1>2, <1>3, ByteConcat, ConcatEmptySeq, SMTT(30) DEF Unread
<1>5. Len(p) >= PrefixLength
  BY <1>3 DEF PrefixLength
<1>6. Len(received) < Len(sent) /\ p = PrefixOf(Due)
  BY <1>2, <1>3, <1>4, <1>5, WhatIsDue
<1>7. Due \in Message
  BY <1>2, <1>6, RestIsDue
<1>8. p[1][1] = Due /\ LengthIn(p) = LengthOf(Due)
  BY <1>6, <1>7, PrefixFacts
<1>9. CASE LengthOf(Due) = 0
  <2>1. received' = Append(received, Due) /\ pc' = "idle" /\ len_bytes' = <<>>
    BY <1>1, <1>2, <1>8, <1>9
  <2>2. Len(p) = Len(Encode(Due))
    <3>1. Len(Encode(Due)) = PrefixLength + LengthOf(Due)
      BY <1>7, EncodeFacts
    <3> QED BY <1>3, <1>9, <3>1 DEF PrefixLength
  <2>3. Unread' = b \o socket
    BY <1>1, <1>3, <2>1, ConcatEmptySeq DEF Unread
  <2>4. received' \in Seq(Message) /\ Len(received') <= Len(sent') /\ BytesInv'
    BY <1>1, <1>2, <1>3, <1>4, <1>5, <2>1, <2>2, <2>3, MessageReturned
  <2>5. DecoderTypeOK'
    BY <1>1, <1>2, <1>3, <2>1, <2>4 DEF DecoderTypeOK
  <2> QED BY <1>1, <1>6, <2>1, <2>4, <2>5 DEF DecoderInv, Delivers
<1>10. CASE LengthOf(Due) # 0
  <2>1. received' = received /\ pc' = "payload" /\ len_bytes' = p
    BY <1>1, <1>8, <1>10
  <2>2. Unread' = Unread
    BY <1>1, <1>2, <1>3, <1>4, <2>1, ByteConcat DEF Unread
  <2>3. BytesInv'
    BY <1>1, <1>2, <2>1, <2>2, BytesKept
  <2>4. DecoderTypeOK'
    BY <1>1, <1>2, <1>3, <2>1 DEF DecoderTypeOK
  <2>5. Due' = Due
    BY <1>1, <2>1 DEF Due
  <2>6. PrefixOf(Due)' = PrefixOf(Due) /\ LengthOf(Due)' = LengthOf(Due)
    BY <2>5 DEF PrefixOf, LengthOf, Encode
  <2>7. Len(received') < Len(sent')
    BY <1>1, <1>6, <2>1
  <2> QED BY <1>1, <1>2, <1>6, <1>10, <2>1, <2>3, <2>4, <2>6, <2>7 DEF DecoderInv, Delivers
<1> QED BY <1>9, <1>10

\* A payload that is all there makes the message due.
LEMMA DecodeStep == DecoderInv /\ Decode => DecoderInv' /\ Delivers
<1> SUFFICES ASSUME DecoderInv, Decode PROVE DecoderInv' /\ Delivers
  OBVIOUS
<1> DEFINE c == SubSeq(buffer, 1, message_len)
           b == SubSeq(buffer, message_len + 1, Len(buffer))
           p == len_bytes \o c
<1>1. /\ pc = "payload" /\ Len(buffer) >= message_len /\ buffer' = b /\ len_bytes' = <<>>
      /\ UNCHANGED <<sent, socket, end>>
      /\ IF WellFormed(buffer[1][1])
         THEN pc' = "idle" /\ received' = Append(received, buffer[1][1])
         ELSE pc' = "failed" /\ UNCHANGED received
  BY DEF Decode
<1>2. /\ DecoderTypeOK /\ Len(received) <= Len(sent) /\ BytesInv
      /\ Len(received) < Len(sent) /\ len_bytes = PrefixOf(Due) /\ LengthOf(Due) # 0
      /\ buffer \in Seq(Byte) /\ socket \in Seq(Byte) /\ len_bytes \in Seq(Byte)
  BY <1>1 DEF DecoderInv, DecoderTypeOK
<1>3. Due \in Message
  BY <1>2, RestIsDue
<1>4. message_len = LengthOf(Due) /\ message_len \in Nat /\ message_len # 0 /\ Len(len_bytes) = PrefixLength
  BY <1>2, <1>3, PrefixFacts, LengthFacts DEF message_len
<1>5. c \in Seq(Byte) /\ Len(c) = message_len /\ b \in Seq(Byte) /\ buffer = c \o b
  <2>1. message_len \in 0..Len(buffer)
    BY <1>1, <1>2, <1>4
  <2> QED BY <1>2, <2>1, ConcatSubSeq
<1>6. c[1] = buffer[1]
  BY <1>2, <1>1, <1>4
<1> HIDE DEF c, b
<1>7. /\ p \in Seq(Byte) /\ Len(p) = PrefixLength + LengthOf(Due)
      /\ p[PrefixLength + 1] = c[1]
  <2>1. /\ p \in Seq(Byte) /\ Len(p) = Len(len_bytes) + Len(c)
        /\ \A i \in 1..(Len(len_bytes) + Len(c)) :
              p[i] = IF i <= Len(len_bytes) THEN len_bytes[i] ELSE c[i - Len(len_bytes)]
    BY <1>2, <1>5, ConcatProperties
  <2>2. Len(len_bytes) = 4 /\ Len(c) = message_len
    BY <1>4, <1>5 DEF PrefixLength
  <2> HIDE DEF p
  <2>3. p[5] = c[1]
    BY <1>4, <2>1, <2>2
  <2> QED BY <1>4, <2>1, <2>2, <2>3 DEF PrefixLength
<1>8. b \o socket \in Seq(Byte) /\ Unread = p \o (b \o socket)
  <2>1. b \o socket \in Seq(Byte)
    BY <1>2, <1>5, ByteConcat
  <2>2. len_bytes \o (c \o b) = p \o b
    BY <1>2, <1>5, ByteConcat, ZenonT(60)
  <2> HIDE DEF p
  <2>3. (p \o b) \o socket = p \o (b \o socket)
    <3>1. p \in Seq(Byte) /\ b \in Seq(Byte) /\ socket \in Seq(Byte)
      BY <1>2, <1>5, <1>7
    <3> QED BY <3>1, ByteConcat
  <2> QED BY <1>5, <2>1, <2>2, <2>3 DEF Unread
<1> HIDE DEF p
<1>9. Len(p) = Len(Encode(Due)) /\ Len(p) >= PrefixLength
  BY <1>3, <1>4, <1>7, EncodeFacts DEF PrefixLength
<1>10. p = Encode(Due)
  BY <1>2, <1>7, <1>8, <1>9, WhatIsDue
<1>11. buffer[1][1] = Due
  <2>1. PrefixLength + 1 \in 1..(PrefixLength + LengthOf(Due))
    BY <1>4 DEF PrefixLength
  <2>2. Encode(Due)[PrefixLength + 1] = <<Due, PrefixLength + 1>>
    BY <1>3, <2>1, EncodeFacts
  <2> QED BY <1>6, <1>7, <1>10, <2>2
<1>12. CASE WellFormed(Due)
  <2>1. received' = Append(received, Due) /\ pc' = "idle"
    BY <1>1, <1>11, <1>12
  <2>2. Unread' = b \o socket
    BY <1>1, <1>5, ConcatEmptySeq DEF Unread
  <2>3. received' \in Seq(Message) /\ Len(received') <= Len(sent') /\ BytesInv'
    BY <1>1, <1>2, <1>7, <1>8, <1>9, <2>1, <2>2, MessageReturned
  <2>4. DecoderTypeOK'
    BY <1>1, <1>2, <1>5, <2>1, <2>3 DEF DecoderTypeOK
  <2> QED BY <1>1, <1>2, <2>1, <2>3, <2>4 DEF DecoderInv, Delivers
<1>13. CASE ~WellFormed(Due)
  <2>1. received' = received /\ pc' = "failed"
    BY <1>1, <1>11, <1>13
  <2>2. DecoderTypeOK'
    BY <1>1, <1>2, <1>5, <2>1 DEF DecoderTypeOK
  <2>3. Due' = Due
    BY <1>1, <2>1 DEF Due
  <2>4. WellFormed(Due)' = WellFormed(Due)
    BY <2>3 DEF WellFormed
  <2>5. Len(received') < Len(sent')
    BY <1>1, <1>2, <2>1
  <2> QED BY <1>1, <1>2, <1>13, <2>1, <2>2, <2>4, <2>5 DEF DecoderInv, Delivers
<1> QED BY <1>12, <1>13

\* Every step keeps the invariant.
LEMMA DecoderInductive == DecoderInv /\ [Next]_vars => DecoderInv'
<1> SUFFICES ASSUME DecoderInv, [Next]_vars PROVE DecoderInv'
  OBVIOUS
<1>1. ASSUME NEW m \in Message, Send(m) PROVE DecoderInv'
  BY <1>1, SendStep
<1>2. CASE Close
  BY <1>2, CloseStep
<1>3. CASE Reset
  BY <1>3, ResetStep
<1>4. CASE Call \/ NoPrefix
  BY <1>4, CallStep
<1>5. CASE ReadPrefix
  BY <1>5, ReadPrefixStep
<1>6. CASE TakePrefix
  BY <1>6, TakePrefixStep
<1>7. CASE ReadPayload
  BY <1>7, ReadPayloadStep
<1>8. CASE PutBack
  BY <1>8, PutBackStep
<1>9. CASE Fail
  BY <1>9, FailStep
<1>10. CASE Decode
  BY <1>10, DecodeStep
<1>11. CASE UNCHANGED vars
  <2>1. UNCHANGED <<sent, socket, end, buffer, len_bytes, pc, received>>
    BY <1>11 DEF vars
  <2>2. Rest' = Rest /\ Unread' = Unread /\ Due' = Due
    BY <2>1 DEF Rest, Bytes, Unread, Due
  <2>3. /\ BytesInv' = BytesInv
        /\ (Len(received) < Len(sent))' = (Len(received) < Len(sent))
        /\ (Len(received) <= Len(sent))' = (Len(received) <= Len(sent))
        /\ WellFormed(Due)' = WellFormed(Due)
        /\ PrefixOf(Due)' = PrefixOf(Due) /\ LengthOf(Due)' = LengthOf(Due)
    BY <2>1, <2>2 DEF BytesInv, WellFormed, PrefixOf, LengthOf, Encode
  <2> QED BY <2>1, <2>2, <2>3 DEF DecoderInv, DecoderTypeOK
<1> QED BY <1>1, <1>2, <1>3, <1>4, <1>5, <1>6, <1>7, <1>8, <1>9, <1>10, <1>11 DEF Next, ReaderStep

\* Whatever the cuts of the stream, the reader holds a front of the bytes of the
\* messages it has not returned yet (read_message, connection.rs).
THEOREM DecoderInvariant == Spec => []DecoderInv
<1>1. Init => DecoderInv
  BY InitDecoder
<1>2. DecoderInv /\ [Next]_vars => DecoderInv'
  BY DecoderInductive
<1> QED BY <1>1, <1>2, PTL DEF Spec

-----------------------------------------------------------------------------
(* What read_message promises.                                               *)

\* The fields keep their types, however the bytes arrive.
THEOREM DecoderTypeCorrect == Spec => []DecoderTypeOK
<1>1. DecoderInv => DecoderTypeOK
  BY DEF DecoderInv
<1> QED BY <1>1, DecoderInvariant, PTL

\* No byte is lost or kept twice: what the decoder holds and the socket has is
\* the rest of what was sent, from the first message not returned on.
THEOREM DecoderKeepsBytes == Spec => []NoByteLost
<1>1. DecoderInv => NoByteLost
  <2> SUFFICES ASSUME DecoderInv, pc # "failed"
               PROVE  IsPrefix(Unread, Rest) /\ (end = "open" => Unread = Rest)
    BY DEF NoByteLost
  <2>1. PICK lost \in Seq(Byte) : Rest = Unread \o lost /\ (end = "open" => lost = <<>>)
    BY DEF DecoderInv, BytesInv
  <2>2. Unread \in Seq(Byte)
    BY UnreadType DEF DecoderInv
  <2>3. IsPrefix(Unread, Rest)
    BY <2>1, <2>2, ConcatIsPrefix
  <2>4. end = "open" => Rest = Unread
    BY <2>1, <2>2, ConcatEmptySeq
  <2> QED BY <2>3, <2>4
<1> QED BY <1>1, DecoderInvariant, PTL

\* read_message answers an error, on which tick drops the peer, only when the
\* connection ended or the message due does not decode.
THEOREM DecoderFailsForCause == Spec => []FailsForCause
<1>1. DecoderInv => FailsForCause
  BY DEF DecoderInv, FailsForCause, Due
<1> QED BY <1>1, DecoderInvariant, PTL

\* read_message implements the channel: it hands out exactly the messages that
\* were sent, each once and in their order.
THEOREM DecoderImplementsChannel == Spec => ChannelSpec
<1>1. Init => Channel!Init
  BY DEF Init, Channel!Init
<1>2. DecoderInv /\ [Next]_vars => [Channel!Send \/ Channel!Receive]_<<sent, received>>
  <2> SUFFICES ASSUME DecoderInv, [Next]_vars
               PROVE  Channel!Send \/ Channel!Receive \/ UNCHANGED <<sent, received>>
    OBVIOUS
  <2>1. ASSUME NEW m \in Message, Send(m) PROVE Channel!Send
    BY <2>1 DEF Send, Channel!Send
  <2>2. CASE TakePrefix
    BY <2>2, TakePrefixStep DEF Delivers, Due, Channel!Receive
  <2>3. CASE Decode
    BY <2>3, DecodeStep DEF Delivers, Due, Channel!Receive
  <2>4. CASE \/ Close \/ Reset \/ Call \/ ReadPrefix \/ NoPrefix \/ ReadPayload
             \/ PutBack \/ Fail \/ UNCHANGED vars
    BY <2>4 DEF Close, Reset, Call, ReadPrefix, NoPrefix, ReadPayload, PutBack, Fail, vars
  <2> QED BY <2>1, <2>2, <2>3, <2>4 DEF Next, ReaderStep
<1> QED BY <1>1, <1>2, DecoderInvariant, PTL DEF Spec, ChannelSpec, Channel!Spec
=============================================================================
