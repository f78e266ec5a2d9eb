--------------------------- MODULE SequenceFacts ---------------------------
(***************************************************************************)
(* Sequences that are cut and put together, and what FlattenSeq does to    *)
(* one that grows at either end, or whose parts have one length.           *)
(***************************************************************************)
EXTENDS NatFacts, SequencesExt, SequenceTheorems

\* Two ways to cut a sequence at the same place.
LEMMA ConcatCancel ==
  ASSUME NEW T, NEW a \in Seq(T), NEW b \in Seq(T), NEW c \in Seq(T), NEW d \in Seq(T),
         Len(a) = Len(c), a \o b = c \o d
  PROVE  a = c /\ b = d
<1>1. ASSUME NEW i \in 1..Len(a) PROVE a[i] = c[i]
  <2>1. (a \o b)[i] = a[i] /\ (c \o d)[i] = c[i]
    BY ConcatProperties
  <2> QED BY <2>1
<1>2. a = c
  BY <1>1, SeqEqual
<1>3. b = d
  BY <1>2, ConcatSimplifications
<1> QED BY <1>2, <1>3

\* A sequence is what is before a cut and what is after it.
LEMMA ConcatSubSeq ==
  ASSUME NEW T, NEW s \in Seq(T), NEW n \in 0..Len(s)
  PROVE  /\ SubSeq(s, 1, n) \in Seq(T) /\ Len(SubSeq(s, 1, n)) = n
         /\ SubSeq(s, n + 1, Len(s)) \in Seq(T)
         /\ s = SubSeq(s, 1, n) \o SubSeq(s, n + 1, Len(s))
<1>1. SubSeq(s, 1, n) \in Seq(T) /\ Len(SubSeq(s, 1, n)) = n
  OBVIOUS
<1>2. SubSeq(s, n + 1, Len(s)) \in Seq(T)
  OBVIOUS
<1>3. SubSeq(s, 1, n) \o SubSeq(s, n + 1, Len(s)) = SubSeq(s, 1, Len(s))
  BY ConcatAdjacentSubSeq, 1 \in 1..(Len(s) + 1), n \in (1 - 1)..Len(s), Len(s) \in n..Len(s)
<1>4. SubSeq(s, 1, Len(s)) = s
  BY SubSeqFull
<1> QED BY <1>1, <1>2, <1>3, <1>4

\* The elements of a concatenation, counted in each part from its start.
LEMMA ConcatElements ==
  ASSUME NEW T, NEW a \in Seq(T), NEW b \in Seq(T)
  PROVE  /\ a \o b \in Seq(T) /\ Len(a \o b) = Len(a) + Len(b)
         /\ \A k \in 1..Len(a) : (a \o b)[k] = a[k]
         /\ \A k \in 1..Len(b) : (a \o b)[Len(a) + k] = b[k]
OBVIOUS

\* The elements from one place to another.
LEMMA SliceElements ==
  ASSUME NEW T, NEW s \in Seq(T), NEW first \in Nat, NEW last \in Nat,
         first <= last, last <= Len(s)
  PROVE  /\ SubSeq(s, first + 1, last) \in Seq(T)
         /\ Len(SubSeq(s, first + 1, last)) = last - first
         /\ \A k \in 1..(last - first) : SubSeq(s, first + 1, last)[k] = s[first + k]
OBVIOUS

\* What follows the first element.
LEMMA AfterFirst ==
  ASSUME NEW T, NEW s \in Seq(T), Len(s) > 0
  PROVE  /\ SubSeq(s, 2, Len(s)) \in Seq(T)
         /\ Len(SubSeq(s, 2, Len(s))) = Len(s) - 1
         /\ \A k \in 1..(Len(s) - 1) : SubSeq(s, 2, Len(s))[k] = s[k + 1]
<1>1. Len(s) \in Nat /\ \A i \in 2..Len(s) : s[i] \in T
  OBVIOUS
<1> DEFINE n == Len(s)
<1> HIDE DEF n
<1>2. n \in Int /\ 2 \in Int /\ n > 0 /\ \A i \in 2..n : s[i] \in T
  BY <1>1 DEF n
<1>3. /\ SubSeq(s, 2, n) \in Seq(T)
      /\ Len(SubSeq(s, 2, n)) = IF 2 <= n THEN n - 2 + 1 ELSE 0
      /\ \A k \in 1..(n - 2 + 1) : SubSeq(s, 2, n)[k] = s[2 + k - 1]
  BY <1>2, SubSeqProperties
<1>4. Len(SubSeq(s, 2, n)) = n - 1
  BY <1>2, <1>3
<1>5. ASSUME NEW k \in 1..(n - 1) PROVE SubSeq(s, 2, n)[k] = s[k + 1]
  <2>1. k \in 1..(n - 2 + 1) /\ 2 + k - 1 = k + 1
    BY <1>2
  <2> QED BY <1>3, <2>1
<1> QED BY <1>3, <1>4, <1>5 DEF n

\* A sequence is its first element and what follows it.
LEMMA FirstAndRest ==
  ASSUME NEW T, NEW e \in T, NEW s \in Seq(T), NEW t \in Seq(T),
         Len(t) = Len(s) + 1, t[1] = e, \A k \in 1..Len(s) : t[k + 1] = s[k]
  PROVE  <<e>> \o s = t
<1>1. <<e>> \in Seq(T) /\ Len(<<e>>) = 1 /\ <<e>>[1] = e
  OBVIOUS
<1> DEFINE f == <<e>>
           n == Len(s)
<1>2. n \in Nat
  OBVIOUS
<1> HIDE DEF f, n
<1>3. /\ f \o s \in Seq(T)
      /\ Len(f \o s) = Len(f) + Len(s)
      /\ \A i \in 1..(Len(f) + Len(s)) : (f \o s)[i] = IF i <= Len(f) THEN f[i] ELSE s[i - Len(f)]
  BY <1>1, ConcatProperties DEF f
<1>4. ASSUME NEW i \in 1..Len(t) PROVE (f \o s)[i] = t[i]
  <2>1. CASE i = 1
    BY <2>1, <1>1, <1>2, <1>3 DEF f, n
  <2>2. CASE i # 1
    <3>1. i - 1 \in 1..n /\ (i - 1) + 1 = i /\ i \in 1..(1 + n) /\ ~(i <= 1)
      BY <2>2, <1>2 DEF n
    <3>2. (f \o s)[i] = s[i - 1]
      BY <3>1, <1>1, <1>3 DEF f, n
    <3> QED BY <3>1, <3>2 DEF n
  <2> QED BY <2>1, <2>2
<1>5. Len(f \o s) = Len(t)
  BY <1>1, <1>2, <1>3 DEF f, n
<1>6. f \o s = t
  BY <1>3, <1>4, <1>5, SeqEqual
<1> QED BY <1>6 DEF f

\* What is left from a place on, when an element is added.
LEMMA SubSeqAppend ==
  ASSUME NEW T, NEW s \in Seq(T), NEW e \in T, NEW i \in 1..(Len(s) + 1)
  PROVE  SubSeq(Append(s, e), i, Len(s) + 1) = Append(SubSeq(s, i, Len(s)), e)
<1> DEFINE n == Len(s)
           a == SubSeq(Append(s, e), i, n + 1)
           b == Append(SubSeq(s, i, n), e)
<1>1. n \in Nat /\ i \in Nat /\ 1 <= i /\ i <= n + 1
  OBVIOUS
<1>2. /\ Append(s, e) \in Seq(T) /\ Len(Append(s, e)) = n + 1
      /\ \A k \in 1..(n + 1) : Append(s, e)[k] = IF k = n + 1 THEN e ELSE s[k]
  BY AppendProperties
<1>3. /\ SubSeq(s, i, n) \in Seq(T) /\ Len(SubSeq(s, i, n)) = n - i + 1
      /\ \A k \in 1..(n - i + 1) : SubSeq(s, i, n)[k] = s[i + k - 1]
  BY <1>1
<1>4. a \in Seq(T) /\ Len(a) = n - i + 2 /\ \A k \in 1..(n - i + 2) : a[k] = Append(s, e)[i + k - 1]
  <2> DEFINE t == Append(s, e)
  <2> HIDE DEF t
  <2>1. t \in Seq(T) /\ Len(t) = n + 1
    BY <1>2 DEF t
  <2> HIDE DEF n
  <2>2. /\ SubSeq(t, i, n + 1) \in Seq(T) /\ Len(SubSeq(t, i, n + 1)) = n - i + 2
        /\ \A k \in 1..(n - i + 2) : SubSeq(t, i, n + 1)[k] = t[i + k - 1]
    BY <1>1, <2>1
  <2> QED BY <2>2 DEF t
<1>5. /\ b \in Seq(T) /\ Len(b) = n - i + 2
      /\ \A k \in 1..(n - i + 2) : b[k] = IF k = n - i + 2 THEN e ELSE SubSeq(s, i, n)[k]
  <2> DEFINE t == SubSeq(s, i, n)
  <2> HIDE DEF t, n
  <2>1. t \in Seq(T) /\ Len(t) = n - i + 1
    BY <1>3 DEF t
  <2>2. /\ Append(t, e) \in Seq(T) /\ Len(Append(t, e)) = n - i + 2
        /\ \A k \in 1..(n - i + 2) : Append(t, e)[k] = IF k = n - i + 2 THEN e ELSE t[k]
    BY <1>1, <2>1
  <2> QED BY <2>2 DEF t
<1> HIDE DEF a, b, n
<1>6. ASSUME NEW k \in 1..(n - i + 2) PROVE a[k] = b[k]
  <2>1. i + k - 1 \in 1..(n + 1) /\ (i + k - 1 = n + 1 <=> k = n - i + 2)
    BY <1>1
  <2>2. k # n - i + 2 => k \in 1..(n - i + 1)
    BY <1>1
  <2> QED BY <2>1, <2>2, <1>2, <1>3, <1>4, <1>5
<1>7. a = b
  BY <1>4, <1>5, <1>6, SeqEqual
<1> QED BY <1>7 DEF a, b, n

\* A sequence is the front of what it is joined with.
LEMMA ConcatIsPrefix ==
  ASSUME NEW T, NEW s \in Seq(T), NEW u \in Seq(T)
  PROVE  IsPrefix(s, s \o u)
<1>1. Len(s) <= Len(s \o u)
  OBVIOUS
<1>2. SubSeq(s, 1, Len(s)) = s /\ SubSeq(s \o u, 1, Len(s)) = s
  OBVIOUS
<1> QED BY <1>1, <1>2 DEF IsPrefix

\* Putting the first k parts behind each other, for every k: the values of the
\* function FlattenSeq defines inside.
LEMMA FlattenIsRecursive ==
  ASSUME NEW T, NEW ss \in Seq(Seq(T))
  PROVE  \E g \in [Nat -> Seq(T)] :
            /\ g[0] = <<>>
            /\ \A i \in 1..Len(ss) : g[i] = g[i - 1] \o ss[i]
            /\ FlattenSeq(ss) = g[Len(ss)]
<1> DEFINE n == Len(ss)
           step == [x \in Nat \X Seq(T) |-> IF x[1] + 1 \in 1..n THEN x[2] \o ss[x[1] + 1] ELSE x[2]]
<1>1. <<>> \in Seq(T) /\ step \in [Nat \X Seq(T) -> Seq(T)]
  OBVIOUS
<1>2. PICK g \in [Nat -> Seq(T)] : \A k \in Nat : DefinedUpTo(g, k, <<>>, step)
  <2> HIDE DEF step
  <2> QED BY <1>1, Recursion
<1>3. g[0] = <<>>
  BY <1>2 DEF DefinedUpTo
<1>4. ASSUME NEW k \in Nat PROVE g[k + 1] = step[<<k, g[k]>>]
  <2> HIDE DEF step
  <2>1. k + 1 \in Nat /\ k \in 0..((k + 1) - 1)
    OBVIOUS
  <2>2. DefinedUpTo(g, k + 1, <<>>, step)
    BY <1>2, <2>1
  <2> QED BY <2>1, <2>2 DEF DefinedUpTo
<1>5. ASSUME NEW i \in 1..n PROVE g[i] = g[i - 1] \o ss[i]
  <2>1. i - 1 \in Nat /\ (i - 1) + 1 = i
    OBVIOUS
  <2>2. g[i] = step[<<i - 1, g[i - 1]>>]
    <3> HIDE DEF step
    <3> QED BY <2>1, <1>4
  <2>3. <<i - 1, g[i - 1]>> \in Nat \X Seq(T)
    BY <2>1
  <2> QED BY <2>1, <2>2, <2>3
<1>6. ASSUME n # 0 PROVE FlattenSeq(ss) = g[n]
  <2> DEFINE flatten[i \in 1..Len(ss)] == IF i = 1 THEN ss[i] ELSE flatten[i - 1] \o ss[i]
             h == [i \in 1..n |-> g[i]]
  <2> HIDE DEF step
  <2>1. ASSUME NEW i \in 1..n PROVE h[i] = IF i = 1 THEN ss[i] ELSE h[i - 1] \o ss[i]
    <3>1. CASE i = 1
      <4>1. ss[i] \in Seq(T) /\ i - 1 = 0
        BY <3>1
      <4>2. g[i] = <<>> \o ss[i]
        BY <4>1, <1>3, <1>5
      <4>3. g[i] = ss[i]
        BY <4>1, <4>2
      <4> QED BY <3>1, <4>3
    <3>2. CASE i # 1
      <4>1. i - 1 \in 1..n
        BY <3>2
      <4> QED BY <3>2, <1>5, <4>1
    <3> QED BY <3>1, <3>2
  <2>2. h = [i \in 1..Len(ss) |-> IF i = 1 THEN ss[i] ELSE h[i - 1] \o ss[i]]
    <3>1. h = [i \in 1..n |-> h[i]]
      OBVIOUS
    <3> HIDE DEF h
    <3> QED BY <2>1, <3>1
  <2>3. flatten = [i \in 1..Len(ss) |-> IF i = 1 THEN ss[i] ELSE flatten[i - 1] \o ss[i]]
    <3> HIDE DEF h
    <3> QED BY <2>2
  <2>4. FlattenSeq(ss) = flatten[Len(ss)]
    BY <1>6 DEF FlattenSeq
  <2> HIDE DEF flatten
  <2> DEFINE S == {k \in Nat : k + 1 \in 1..n => flatten[k + 1] = g[k + 1]}
  <2>5. 0 \in S
    <3>1. 1 \in 1..n => flatten[1] = ss[1] /\ g[1] = h[1] /\ h[1] = ss[1]
      BY <2>1, <2>3
    <3> QED BY <3>1
  <2>6. ASSUME NEW k \in Nat, k \in S PROVE k + 1 \in S
    <3> SUFFICES ASSUME (k + 1) + 1 \in 1..n PROVE flatten[(k + 1) + 1] = g[(k + 1) + 1]
      OBVIOUS
    <3> DEFINE i == (k + 1) + 1
    <3>1. i # 1 /\ i - 1 = k + 1 /\ k + 1 \in 1..n
      BY SMTT(30)
    <3>2. flatten[i] = flatten[i - 1] \o ss[i]
      BY <2>3, <3>1
    <3>3. g[i] = g[i - 1] \o ss[i]
      BY <1>5, <3>1
    <3>4. flatten[k + 1] = g[k + 1]
      BY <2>6, <3>1
    <3> QED BY <3>1, <3>2, <3>3, <3>4
  <2>7. Nat \subseteq S
    <3> HIDE DEF S
    <3> QED BY <2>5, <2>6, SetInduction
  <2>8. n - 1 \in Nat /\ (n - 1) + 1 = n /\ n \in 1..n
    BY <1>6
  <2> QED BY <2>4, <2>7, <2>8
<1>7. n = 0 => FlattenSeq(ss) = <<>>
  BY DEF FlattenSeq
<1> HIDE DEF step
<1> QED BY <1>3, <1>5, <1>6, <1>7

\* Nothing but sequences over the same set comes out.
LEMMA FlattenType ==
  ASSUME NEW T, NEW ss \in Seq(Seq(T))
  PROVE  FlattenSeq(ss) \in Seq(T)
<1>1. PICK g \in [Nat -> Seq(T)] : FlattenSeq(ss) = g[Len(ss)]
  BY FlattenIsRecursive
<1>2. Len(ss) \in Nat
  OBVIOUS
<1> QED BY <1>1, <1>2

\* No sequences flatten to the empty one.
LEMMA FlattenEmpty == FlattenSeq(<<>>) = <<>>
BY DEF FlattenSeq

\* One more part at the end comes out at the end.
LEMMA FlattenAppend ==
  ASSUME NEW T, NEW ss \in Seq(Seq(T)), NEW s \in Seq(T)
  PROVE  FlattenSeq(Append(ss, s)) = FlattenSeq(ss) \o s
<1> DEFINE tt == Append(ss, s)
           n == Len(ss)
<1>1. tt \in Seq(Seq(T)) /\ Len(tt) = n + 1 /\ tt[n + 1] = s /\ \A i \in 1..n : tt[i] = ss[i]
  OBVIOUS
<1>2. PICK g \in [Nat -> Seq(T)] :
            /\ g[0] = <<>>
            /\ \A i \in 1..Len(ss) : g[i] = g[i - 1] \o ss[i]
            /\ FlattenSeq(ss) = g[Len(ss)]
  BY FlattenIsRecursive
<1>3. PICK h \in [Nat -> Seq(T)] :
            /\ h[0] = <<>>
            /\ \A i \in 1..Len(tt) : h[i] = h[i - 1] \o tt[i]
            /\ FlattenSeq(tt) = h[Len(tt)]
  <2> HIDE DEF tt
  <2> QED BY <1>1, FlattenIsRecursive
<1> HIDE DEF tt
<1> DEFINE S == {k \in Nat : k <= n => g[k] = h[k]}
<1>4. 0 \in S
  BY <1>2, <1>3
<1>5. ASSUME NEW k \in Nat, k \in S PROVE k + 1 \in S
  <2> SUFFICES ASSUME k + 1 <= n PROVE g[k + 1] = h[k + 1]
    OBVIOUS
  <2>1. k + 1 \in 1..n /\ k + 1 \in 1..Len(tt) /\ (k + 1) - 1 = k
    BY <1>1
  <2>2. g[k + 1] = g[k] \o ss[k + 1] /\ h[k + 1] = h[k] \o tt[k + 1]
    BY <1>2, <1>3, <2>1
  <2>3. g[k] = h[k]
    BY <1>5, <2>1
  <2> QED BY <2>1, <2>2, <2>3, <1>1
<1>6. Nat \subseteq S
  <2> HIDE DEF S
  <2> QED BY <1>4, <1>5, SetInduction
<1>7. g[n] = h[n]
  BY <1>6
<1>8. n + 1 \in 1..Len(tt) /\ (n + 1) - 1 = n
  BY <1>1
<1>9. h[n + 1] = h[n] \o s
  BY <1>1, <1>3, <1>8
<1> QED BY <1>1, <1>2, <1>3, <1>7, <1>9 DEF tt

\* One more part in front comes out in front.
LEMMA FlattenCons ==
  ASSUME NEW T, NEW ss \in Seq(Seq(T)), NEW s \in Seq(T)
  PROVE  FlattenSeq(<<s>> \o ss) = s \o FlattenSeq(ss)
<1> DEFINE S == {n \in Nat : \A tt \in Seq(Seq(T)) :
                   Len(tt) = n => FlattenSeq(<<s>> \o tt) = s \o FlattenSeq(tt)}
<1>1. 0 \in S
  <2> SUFFICES ASSUME NEW tt \in Seq(Seq(T)), Len(tt) = 0
               PROVE  FlattenSeq(<<s>> \o tt) = s \o FlattenSeq(tt)
    OBVIOUS
  <2>1. tt = <<>> /\ <<s>> \o tt = Append(<<>>, s) /\ <<>> \in Seq(Seq(T))
    OBVIOUS
  <2>2. FlattenSeq(Append(<<>>, s)) = FlattenSeq(<<>>) \o s
    BY FlattenAppend, <2>1
  <2>3. FlattenSeq(<<>>) = <<>>
    BY FlattenEmpty
  <2>4. <<>> \o s = s /\ s \o <<>> = s
    OBVIOUS
  <2> QED BY <2>1, <2>2, <2>3, <2>4
<1>2. ASSUME NEW n \in Nat, n \in S PROVE n + 1 \in S
  <2> SUFFICES ASSUME NEW tt \in Seq(Seq(T)), Len(tt) = n + 1
               PROVE  FlattenSeq(<<s>> \o tt) = s \o FlattenSeq(tt)
    BY n + 1 \in Nat, Zenon
  <2> DEFINE uu == SubSeq(tt, 1, n)
             u == tt[n + 1]
  <2>1. uu \in Seq(Seq(T)) /\ Len(uu) = n /\ u \in Seq(T) /\ tt = Append(uu, u)
    OBVIOUS
  <2> HIDE DEF uu, u
  <2>2. <<s>> \o uu \in Seq(Seq(T)) /\ <<s>> \o tt = Append(<<s>> \o uu, u)
    BY <2>1
  <2>3. FlattenSeq(<<s>> \o tt) = FlattenSeq(<<s>> \o uu) \o u
    BY <2>1, <2>2, FlattenAppend
  <2>4. FlattenSeq(tt) = FlattenSeq(uu) \o u
    BY <2>1, FlattenAppend
  <2>5. FlattenSeq(<<s>> \o uu) = s \o FlattenSeq(uu)
    BY <1>2, <2>1
  <2>6. FlattenSeq(uu) \in Seq(T)
    BY <2>1, FlattenType
  <2>7. (s \o FlattenSeq(uu)) \o u = s \o (FlattenSeq(uu) \o u)
    BY <2>1, <2>6, SMTT(30)
  <2> QED BY <2>3, <2>4, <2>5, <2>7
<1>3. Nat \subseteq S
  <2> HIDE DEF S
  <2> QED BY <1>1, <1>2, SetInduction
<1>4. Len(ss) \in Nat
  OBVIOUS
<1>5. Len(ss) \in S
  <2> HIDE DEF S
  <2> QED BY <1>3, <1>4
<1> QED BY <1>5, Zenon

\* Parts of one element or none, of which at says where those of a list are.
Picks(at, list, ss) ==
    /\ at \in [1..Len(list) -> 1..Len(ss)]
    /\ \A i, j \in 1..Len(list) : i < j => at[i] < at[j]
    /\ \A i \in 1..Len(list) : ss[at[i]] = <<list[i]>>
    /\ \A k \in 1..Len(ss) : (\A i \in 1..Len(list) : at[i] # k) => ss[k] = <<>>

\* What they make is the list.
LEMMA FlattenFilter ==
  ASSUME NEW T, NEW list \in Seq(T), NEW ss \in Seq(Seq(T)), NEW at, Picks(at, list, ss)
  PROVE  FlattenSeq(ss) = list
<1> DEFINE n == Len(ss)
           m == Len(list)
           pos(i) == at[i]
<1>1. /\ at \in [1..m -> 1..n]
      /\ \A i, j \in 1..m : i < j => pos(i) < pos(j)
      /\ \A i \in 1..m : ss[pos(i)] = <<list[i]>>
      /\ \A k \in 1..n : (\A i \in 1..m : pos(i) # k) => ss[k] = <<>>
  BY DEF Picks
<1>2. n \in Nat /\ m \in Nat
  OBVIOUS
<1>3. \A i \in 1..m : pos(i) \in 1..n
  <2> HIDE DEF n, m
  <2> QED BY <1>1
<1>4. /\ n \in Nat /\ m \in Nat
      /\ \A i \in 1..m : pos(i) \in Nat /\ 1 <= pos(i) /\ pos(i) <= n
      /\ \A i, j \in 1..m : i < j => pos(i) < pos(j)
  <2> HIDE DEF n, m, pos
  <2> QED BY <1>1, <1>2, <1>3
<1>5. SubSeq(list, 1, m) = list /\ SubSeq(list, 1, 0) = <<>>
  OBVIOUS
<1>6. ASSUME NEW j \in Nat, j + 1 \in 1..m
      PROVE  SubSeq(list, 1, j + 1) = SubSeq(list, 1, j) \o <<list[j + 1]>>
  OBVIOUS
<1>7. PICK g \in [Nat -> Seq(T)] :
            /\ g[0] = <<>>
            /\ \A i \in 1..n : g[i] = g[i - 1] \o ss[i]
            /\ FlattenSeq(ss) = g[n]
  BY FlattenIsRecursive
<1> HIDE DEF n, m, pos
<1> DEFINE Reached(k, j) == /\ g[k] = SubSeq(list, 1, j)
                            /\ \A i \in 1..m : (i <= j => pos(i) <= k) /\ (j < i => k < pos(i))
           S == {k \in Nat : k <= n => \E j \in 0..m : Reached(k, j)}
<1> HIDE DEF Reached
<1>8. 0 \in S
  <2>1. SubSeq(list, 1, 0) = <<>>
    BY <1>5
  <2>2. \A i \in 1..m : 0 < pos(i) /\ ~(i <= 0)
    BY <1>4
  <2>3. Reached(0, 0)
    BY <2>1, <2>2, <1>7 DEF Reached
  <2>4. 0 \in 0..m
    BY <1>4
  <2> QED BY <1>4, <2>3, <2>4
<1>9. ASSUME NEW k \in Nat, k \in S PROVE k + 1 \in S
  <2> SUFFICES ASSUME k + 1 <= n PROVE \E j \in 0..m : Reached(k + 1, j)
    OBVIOUS
  <2>0. k <= n /\ k + 1 \in Nat
    BY <1>4
  <2>1. PICK j \in 0..m : Reached(k, j)
    BY <1>9, <2>0
  <2>6. /\ j \in Nat /\ j <= m
        /\ g[k] = SubSeq(list, 1, j)
        /\ \A i \in 1..m : (i <= j => pos(i) <= k) /\ (j < i => k < pos(i))
    BY <1>4, <2>1 DEF Reached
  <2>2. k + 1 \in 1..n /\ (k + 1) - 1 = k
    BY <1>4
  <2>3. g[k + 1] = g[k] \o ss[k + 1]
    BY <1>7, <2>2
  <2>4. ASSUME NEW i \in 1..m, pos(i) = k + 1 PROVE \E l \in 0..m : Reached(k + 1, l)
    <3>1. ~(i <= j)
      BY <1>4, <2>6, <2>4
    <3>2. j + 1 \in 1..m /\ j \in Nat
      BY <1>4, <3>1
    <3>3. k < pos(j + 1) /\ pos(j + 1) \in Nat
      BY <1>4, <2>6, <3>2, SMTT(30)
    <3>4. ~(j + 1 < i)
      <4>1. j + 1 < i => pos(j + 1) < pos(i)
        BY <1>4, <3>2
      <4> QED BY <4>1, <3>3, <2>4
    <3>5. i = j + 1
      BY <3>1, <3>2, <3>4
    <3>6. g[k + 1] = SubSeq(list, 1, j) \o <<list[j + 1]>>
      BY <1>1, <2>6, <2>3, <2>4, <3>5
    <3>7. SubSeq(list, 1, j + 1) = SubSeq(list, 1, j) \o <<list[j + 1]>>
      BY <1>6, <3>2
    <3>8. ASSUME NEW l \in 1..m PROVE (l <= j + 1 => pos(l) <= k + 1) /\ (j + 1 < l => k + 1 < pos(l))
      <4>0. pos(l) \in Nat /\ l \in Nat
        BY <1>4
      <4>1. CASE l <= j
        BY <1>4, <2>6, <3>2, <4>0, <4>1
      <4>2. CASE l = j + 1
        BY <2>4, <3>5, <4>2
      <4>3. CASE l > j + 1
        <5>1. pos(i) < pos(l) /\ pos(l) \in Nat
          BY <1>4, <3>2, <4>3, <3>5
        <5> QED BY <1>4, <4>3, <5>1, <2>4, <3>2
      <4> QED BY <3>2, <4>0, <4>1, <4>2, <4>3
    <3>9. Reached(k + 1, j + 1)
      BY <3>6, <3>7, <3>8 DEF Reached
    <3> QED BY <1>4, <3>2, <3>9
  <2>5. CASE \A i \in 1..m : pos(i) # k + 1
    <3>1. ss[k + 1] = <<>>
      BY <1>1, <2>2, <2>5
    <3>2. g[k + 1] = g[k]
      <4>1. g[k] \in Seq(T)
        BY <1>9
      <4> QED BY <2>3, <3>1, <4>1
    <3>3. ASSUME NEW i \in 1..m PROVE (i <= j => pos(i) <= k + 1) /\ (j < i => k + 1 < pos(i))
      <4>1. pos(i) \in Nat /\ pos(i) # k + 1
        BY <1>4, <2>5
      <4>2. (i <= j => pos(i) <= k) /\ (j < i => k < pos(i))
        BY <2>6
      <4>3. ASSUME NEW x \in Nat, x # k + 1
            PROVE  (x <= k => x <= k + 1) /\ (k < x => k + 1 < x)
        BY <4>3, NextNumber
      <4> HIDE DEF S
      <4> QED BY <4>1, <4>2, <4>3
    <3>4. Reached(k + 1, j)
      BY <2>6, <3>2, <3>3 DEF Reached
    <3> QED BY <2>1, <3>4
  <2> QED BY <2>4, <2>5
<1>10. Nat \subseteq S
  <2> HIDE DEF S
  <2> QED BY <1>8, <1>9, SetInduction
<1>11. \E j \in 0..m : Reached(n, j)
  <2>1. n \in S /\ n \in Nat
    <3> HIDE DEF S
    <3> QED BY <1>4, <1>10
  <2> QED BY <2>1
<1>12. PICK j \in 0..m : Reached(n, j)
  BY <1>11
<1>13. /\ j \in Nat /\ j <= m
      /\ g[n] = SubSeq(list, 1, j)
      /\ \A i \in 1..m : (i <= j => pos(i) <= n) /\ (j < i => n < pos(i))
  BY <1>4, <1>12 DEF Reached
<1>14. j = m
  <2>1. ASSUME j < m PROVE FALSE
    <3>1. m \in 1..m /\ ~(m <= j) /\ pos(m) <= n
      BY <1>4, <1>13, <2>1
    <3> QED BY <1>4, <3>1, <1>13
  <2> QED BY <1>4, <1>13, <2>1
<1> QED BY <1>5, <1>7, <1>14, <1>13

\* Parts of six elements lie six apart.
LEMMA FlattenSixes ==
  ASSUME NEW T, NEW ss \in Seq(Seq(T)), \A i \in 1..Len(ss) : Len(ss[i]) = 6
  PROVE  /\ Len(FlattenSeq(ss)) = 6 * Len(ss)
         /\ \A i \in 1..Len(ss), k \in 1..6 : FlattenSeq(ss)[6 * (i - 1) + k] = ss[i][k]
<1> DEFINE n == Len(ss)
<1>1. n \in Nat /\ \A i \in 1..n : ss[i] \in Seq(T) /\ Len(ss[i]) = 6
  OBVIOUS
<1>2. PICK g \in [Nat -> Seq(T)] :
            /\ g[0] = <<>>
            /\ \A i \in 1..n : g[i] = g[i - 1] \o ss[i]
            /\ FlattenSeq(ss) = g[n]
  BY FlattenIsRecursive
<1> HIDE DEF n
<1> DEFINE Laid(j) == /\ Len(g[j]) = 6 * j
                      /\ \A i \in 1..j, k \in 1..6 : g[j][6 * (i - 1) + k] = ss[i][k]
           S == {j \in Nat : j <= n => Laid(j)}
<1> HIDE DEF Laid
<1>3. 0 \in S
  BY <1>2 DEF Laid
<1>4. ASSUME NEW j \in Nat, j \in S PROVE j + 1 \in S
  <2> SUFFICES ASSUME j + 1 <= n PROVE Laid(j + 1)
    OBVIOUS
  <2>1. Len(g[j]) = 6 * j /\ \A i \in 1..j, k \in 1..6 : g[j][6 * (i - 1) + k] = ss[i][k]
    BY <1>1, <1>4 DEF Laid
  <2>2. j + 1 \in 1..n /\ (j + 1) - 1 = j
    BY <1>1
  <2>3. g[j + 1] = g[j] \o ss[j + 1] /\ g[j] \in Seq(T) /\ ss[j + 1] \in Seq(T)
        /\ Len(ss[j + 1]) = 6
    BY <1>1, <1>2, <2>2
  <2> DEFINE a == g[j]
             b == ss[j + 1]
  <2>4. /\ Len(a \o b) = Len(a) + Len(b)
        /\ \A k \in 1..Len(a) : (a \o b)[k] = a[k]
        /\ \A k \in 1..Len(b) : (a \o b)[Len(a) + k] = b[k]
    <3>1. a \in Seq(T) /\ b \in Seq(T)
      BY <2>3
    <3> HIDE DEF a, b
    <3> QED BY <3>1, ConcatElements
  <2>5. Len(g[j + 1]) = 6 * (j + 1)
    BY <2>1, <2>3, <2>4
  <2>6. ASSUME NEW i \in 1..(j + 1), NEW k \in 1..6
        PROVE  g[j + 1][6 * (i - 1) + k] = ss[i][k]
    <3>1. CASE i = j + 1
      <4>1. 6 * (i - 1) + k = Len(a) + k /\ k \in 1..Len(b)
        BY <2>1, <2>3, <3>1
      <4> QED BY <2>3, <2>4, <3>1, <4>1
    <3>2. CASE i # j + 1
      <4>1. i \in 1..j /\ 6 * (i - 1) + k \in 1..(6 * j)
        BY <3>2
      <4> QED BY <2>1, <2>3, <2>4, <4>1, ZenonT(60)
    <3> QED BY <3>1, <3>2
  <2> QED BY <2>5, <2>6 DEF Laid
<1>5. Nat \subseteq S
  <2> HIDE DEF S
  <2> QED BY <1>3, <1>4, SetInduction
<1>6. Laid(n)
  BY <1>1, <1>5
<1> QED BY <1>1, <1>2, <1>6 DEF n, Laid
=============================================================================
