------------------------ MODULE RequestReaderProofs ------------------------
(***************************************************************************)
(* Proofs about RequestReader: what get_line makes of a request, for lines *)
(* of any number and length, any terminator and a buffer of any size.      *)
(***************************************************************************)
EXTENDS RequestReader, SequenceTheorems, WellFoundedInduction, TLAPS

-----------------------------------------------------------------------------

(* Induction, stated of a set: it has no smallest number missing.          *)
LEMMA NumbersOneByOne ==
  ASSUME NEW P, 0 \in P, \A m \in Nat : m \in P => m + 1 \in P
  PROVE  \A m \in Nat : m \in P
<1> DEFINE Missing == {m \in Nat : m \notin P}
<1> SUFFICES ASSUME Missing # {} PROVE FALSE
  OBVIOUS
<1>1. PICK m \in Missing : \A l \in Missing : <<l, m>> \notin OpToRel(<, Nat)
  <2>1. Missing \subseteq Nat
    OBVIOUS
  <2> QED
    BY <2>1, NatLessThanWellFounded, WFMin, Zenon
<1>2. m \in Nat /\ m \notin P /\ \A l \in Missing : ~(l < m)
  BY <1>1 DEF OpToRel
<1>3. m # 0 /\ m - 1 \in Nat /\ m - 1 < m /\ m - 1 + 1 = m
  BY <1>2
<1>4. m - 1 \in P
  BY <1>2, <1>3
<1> QED
  BY <1>2, <1>3, <1>4

(* The function that FlattenSeq is the last value of.                      *)
IsFlatten(f, s, n) ==
  f = [k \in 1..n |-> IF k = 1 THEN s[k] ELSE f[k - 1] \o s[k]]

LEMMA FlattenExists ==
  ASSUME NEW s, NEW n \in Nat
  PROVE  \E f : IsFlatten(f, s, n)
<1> DEFINE P == {m \in Nat : \E f : IsFlatten(f, s, m)}
<1>1. 0 \in P
  <2>1. IsFlatten([k \in 1..0 |-> 0], s, 0)
    BY DEF IsFlatten
  <2> QED
    BY <2>1
<1>2. ASSUME NEW m \in Nat, m \in P
      PROVE  m + 1 \in P
  <2>1. PICK f : IsFlatten(f, s, m)
    BY <1>2
  <2>2. \A k \in 1..m : f[k] = IF k = 1 THEN s[k] ELSE f[k - 1] \o s[k]
    BY <2>1 DEF IsFlatten
  <2> DEFINE last == IF m = 0 THEN s[m + 1] ELSE f[m] \o s[m + 1]
             g == [k \in 1..m + 1 |-> IF k <= m THEN f[k] ELSE last]
  <2> HIDE DEF last
  <2>3. /\ \A k \in 1..m : g[k] = f[k]
        /\ g[m + 1] = last
        /\ g = [k \in 1..m + 1 |-> g[k]]
    BY <1>2
  <2> HIDE DEF g
  <2>4. ASSUME NEW k \in 1..m + 1
        PROVE  g[k] = IF k = 1 THEN s[k] ELSE g[k - 1] \o s[k]
    <3>1. CASE k <= m
      <4>1. k \in 1..m /\ (k # 1 => k - 1 \in 1..m)
        BY <1>2, <3>1
      <4> QED
        BY <2>2, <2>3, <4>1
    <3>2. CASE k = m + 1
      <4>1. k - 1 = m /\ (k = 1 <=> m = 0) /\ (k # 1 => m \in 1..m)
        BY <1>2, <3>2
      <4> QED
        BY <2>3, <3>2, <4>1 DEF last
    <3> QED
      BY <1>2, <3>1, <3>2
  <2>5. IsFlatten(g, s, m + 1)
    BY <2>3, <2>4, Zenon DEF IsFlatten
  <2> QED
    BY <2>5
<1> HIDE DEF P
<1>3. n \in P
  BY <1>1, <1>2, NumbersOneByOne
<1> QED
  BY <1>3 DEF P

(* FlattenSeq of sequences of X: its value, and what it starts with.       *)
LEMMA FlattenValue ==
  ASSUME NEW X, NEW s \in Seq(Seq(X)), s # <<>>
  PROVE  \E f : /\ FlattenSeq(s) = f[Len(s)]
                /\ f[1] = s[1]
                /\ \A k \in 2..Len(s) : f[k] = f[k - 1] \o s[k]
                /\ \A k \in 1..Len(s) : f[k] \in Seq(X)
<1>1. Len(s) \in Nat /\ Len(s) # 0 /\ \A k \in 1..Len(s) : s[k] \in Seq(X)
  OBVIOUS
<1> DEFINE f == CHOOSE g : IsFlatten(g, s, Len(s))
<1>2. IsFlatten(f, s, Len(s))
  BY <1>1, FlattenExists
<1>3. FlattenSeq(s) = f[Len(s)]
  BY <1>1 DEF FlattenSeq, IsFlatten
<1> HIDE DEF f
<1>4. /\ f[1] = s[1]
      /\ \A k \in 2..Len(s) : f[k] = f[k - 1] \o s[k]
  <2>1. \A k \in 1..Len(s) : f[k] = IF k = 1 THEN s[k] ELSE f[k - 1] \o s[k]
    BY <1>2 DEF IsFlatten
  <2>2. 1 \in 1..Len(s) /\ \A k \in 2..Len(s) : k \in 1..Len(s) /\ k # 1
    BY <1>1
  <2> QED
    BY <2>1, <2>2
<1>5. \A k \in 1..Len(s) : f[k] \in Seq(X)
  <2> DEFINE P == {m \in Nat : m \in 1..Len(s) => f[m] \in Seq(X)}
  <2>1. 0 \in P
    OBVIOUS
  <2>2. ASSUME NEW m \in Nat, m \in P
        PROVE  m + 1 \in P
    <3>1. PICK l \in Nat : l = m + 1
      BY <2>2
    <3>2. ASSUME l \in 1..Len(s)
          PROVE  f[l] \in Seq(X)
      <4>1. CASE m = 0
        <5>1. l = 1
          BY <3>1, <4>1
        <5> QED
          BY <1>1, <1>4, <3>2, <5>1
      <4>2. CASE m # 0
        <5>1. l \in 2..Len(s) /\ l - 1 = m /\ m \in 1..Len(s)
          BY <1>1, <2>2, <3>1, <3>2, <4>2
        <5>2. f[l] = f[m] \o s[l] /\ f[m] \in Seq(X) /\ s[l] \in Seq(X)
          BY <1>1, <1>4, <2>2, <3>2, <5>1
        <5> QED
          BY <5>2, ConcatProperties, Zenon
      <4> QED
        BY <4>1, <4>2
    <3> QED
      BY <2>2, <3>1, <3>2
  <2> HIDE DEF P
  <2>3. \A m \in Nat : m \in P
    BY <2>1, <2>2, NumbersOneByOne
  <2> QED
    BY <1>1, <2>3 DEF P
<1> QED
  BY <1>3, <1>4, <1>5

LEMMA FlattenType ==
  ASSUME NEW X, NEW s \in Seq(Seq(X))
  PROVE  FlattenSeq(s) \in Seq(X)
<1>1. CASE s = <<>>
  BY <1>1 DEF FlattenSeq
<1>2. CASE s # <<>>
  <2>1. PICK f : /\ FlattenSeq(s) = f[Len(s)]
                 /\ f[1] = s[1]
                 /\ \A k \in 2..Len(s) : f[k] = f[k - 1] \o s[k]
                 /\ \A k \in 1..Len(s) : f[k] \in Seq(X)
    BY <1>2, FlattenValue, Zenon
  <2>2. Len(s) \in 1..Len(s)
    BY <1>2
  <2> QED
    BY <2>1, <2>2
<1> QED
  BY <1>1, <1>2

(* FlattenSeq is defined from the end; this is its value from the front.   *)
LEMMA FlattenFirst ==
  ASSUME NEW X, NEW s \in Seq(Seq(X)), s # <<>>
  PROVE  FlattenSeq(s) = s[1] \o FlattenSeq(Tail(s))
<1>1. PICK u : u = Tail(s)
  OBVIOUS
<1> SUFFICES FlattenSeq(s) = s[1] \o FlattenSeq(u)
  BY <1>1, Zenon
<1>2. /\ Len(s) \in Nat \ {0} /\ u \in Seq(Seq(X)) /\ Len(u) = Len(s) - 1
      /\ \A k \in 1..Len(s) - 1 : u[k] = s[k + 1]
      /\ \A k \in 1..Len(s) : s[k] \in Seq(X)
  BY <1>1
<1>3. CASE u = <<>>
  <2>1. Len(s) = 1
    <3>1. Len(u) = 0
      BY <1>3
    <3> QED
      BY <1>2, <3>1
  <2>2. FlattenSeq(s) = s[1]
    <3>1. PICK f : /\ FlattenSeq(s) = f[Len(s)]
                   /\ f[1] = s[1]
                   /\ \A k \in 2..Len(s) : f[k] = f[k - 1] \o s[k]
                   /\ \A k \in 1..Len(s) : f[k] \in Seq(X)
      BY FlattenValue, Zenon
    <3> QED
      BY <2>1, <3>1
  <2>3. FlattenSeq(u) = <<>>
    BY <1>3 DEF FlattenSeq
  <2>4. s[1] \o <<>> = s[1]
    <3>1. s[1] \in Seq(X)
      BY <1>2, <2>1
    <3> QED
      BY <3>1, ConcatEmptySeq
  <2> QED
    BY <2>2, <2>3, <2>4, Zenon
<1>4. CASE u # <<>>
  <2>1. PICK f : /\ FlattenSeq(s) = f[Len(s)]
                 /\ f[1] = s[1]
                 /\ \A k \in 2..Len(s) : f[k] = f[k - 1] \o s[k]
                 /\ \A k \in 1..Len(s) : f[k] \in Seq(X)
    BY FlattenValue, Zenon
  <2>2. PICK g : /\ FlattenSeq(u) = g[Len(s) - 1]
                 /\ g[1] = s[2]
                 /\ \A k \in 2..Len(s) - 1 : g[k] = g[k - 1] \o s[k + 1]
                 /\ \A k \in 1..Len(s) - 1 : g[k] \in Seq(X)
    <3>1. PICK g : /\ FlattenSeq(u) = g[Len(u)]
                   /\ g[1] = u[1]
                   /\ \A k \in 2..Len(u) : g[k] = g[k - 1] \o u[k]
                   /\ \A k \in 1..Len(u) : g[k] \in Seq(X)
      BY <1>2, <1>4, FlattenValue, Zenon
    <3>2. Len(s) - 1 \in Nat \ {0}
      <4>1. Len(u) # 0
        BY <1>2, <1>4, EmptySeq
      <4> QED
        BY <1>2, <4>1
    <3>3. \A k \in 2..Len(s) - 1 : k \in 1..Len(s) - 1
      BY <3>2
    <3>4. 1 \in 1..Len(s) - 1 /\ 1 + 1 = 2
      BY <1>2, <3>2
    <3>5. /\ FlattenSeq(u) = g[Len(s) - 1]
          /\ g[1] = s[2]
          /\ \A k \in 2..Len(s) - 1 : g[k] = g[k - 1] \o s[k + 1]
          /\ \A k \in 1..Len(s) - 1 : g[k] \in Seq(X)
      BY <1>2, <3>1, <3>3, <3>4
    <3> QED
      BY <3>5
  <2> DEFINE P == {m \in Nat : m \in 1..Len(s) - 1 => f[m + 1] = s[1] \o g[m]}
  <2>3. 0 \in P
    OBVIOUS
  <2>4. ASSUME NEW m \in Nat, m \in P
        PROVE  m + 1 \in P
    <3>1. PICK l \in Nat : l = m + 1
      OBVIOUS
    <3>2. PICK h \in Nat : h = l + 1
      OBVIOUS
    <3>3. ASSUME l \in 1..Len(s) - 1
          PROVE  f[h] = s[1] \o g[l]
      <4>1. h \in 2..Len(s) /\ h - 1 = l /\ l + 1 = h /\ l - 1 = m
        BY <1>2, <3>1, <3>2, <3>3
      <4>2. f[h] = f[l] \o s[h]
        BY <2>1, <4>1
      <4>3. CASE m = 0
        <5>1. l = 1 /\ h = 2
          BY <3>1, <3>2, <4>3
        <5> QED
          BY <2>1, <2>2, <4>2, <5>1
      <4>4. CASE m # 0
        <5>1. l \in 2..Len(s) - 1 /\ m \in 1..Len(s) - 1
          BY <1>2, <2>4, <3>1, <3>3, <4>4
        <5>2. g[l] = g[m] \o s[h]
          BY <2>2, <4>1, <5>1
        <5>3. f[l] = s[1] \o g[m]
          BY <2>4, <3>1, <5>1
        <5>4. s[1] \in Seq(X) /\ g[m] \in Seq(X) /\ s[h] \in Seq(X)
          BY <1>2, <2>2, <4>1, <5>1
        <5>5. PICK a \in Seq(X), b \in Seq(X), c \in Seq(X) : a = s[1] /\ b = g[m] /\ c = s[h]
          BY <5>4
        <5>6. (a \o b) \o c = a \o (b \o c)
          BY ConcatAssociative, SMTT(30)
        <5> QED
          BY <4>2, <5>2, <5>3, <5>5, <5>6, Zenon
      <4> QED
        BY <4>3, <4>4
    <3>4. l \in P
      BY <3>1, <3>2, <3>3
    <3> QED
      BY <3>1, <3>4
  <2> HIDE DEF P
  <2>5. \A m \in Nat : m \in P
    BY <2>3, <2>4, NumbersOneByOne
  <2>6. Len(s) - 1 \in P /\ Len(s) - 1 \in 1..Len(s) - 1
    <3>1. Len(u) # 0
      BY <1>2, <1>4, EmptySeq
    <3> QED
      BY <1>2, <2>5, <3>1
  <2>7. \A m \in P : m \in 1..Len(s) - 1 => f[m + 1] = s[1] \o g[m]
    BY DEF P
  <2>8. Len(s) - 1 + 1 = Len(s)
    BY <1>2
  <2> QED
    BY <2>1, <2>2, <2>6, <2>7, <2>8, Zenon
<1> QED
  BY <1>1, <1>3, <1>4

(* From the k-th sequence on.                                              *)
LEMMA FlattenFrom ==
  ASSUME NEW X, NEW s \in Seq(Seq(X)), NEW k \in 1..Len(s)
  PROVE  FlattenSeq(SubSeq(s, k, Len(s))) = s[k] \o FlattenSeq(SubSeq(s, k + 1, Len(s)))
<1> DEFINE t == SubSeq(s, k, Len(s))
<1>1. Len(s) \in Nat /\ t \in Seq(Seq(X)) /\ Len(t) = Len(s) - k + 1 /\ t[1] = s[k]
  <2>1. /\ k \in Int /\ Len(s) \in Nat /\ k <= Len(s) /\ 1 <= k
        /\ \A l \in k..Len(s) : s[l] \in Seq(X)
    OBVIOUS
  <2>2. k \in 1..Len(s) + 1 /\ Len(s) \in k - 1..Len(s)
    BY <2>1
  <2>3. /\ t \in Seq(Seq(X)) /\ Len(t) = Len(s) - k + 1
        /\ \A l \in 1..Len(s) - k + 1 : t[l] = s[k + l - 1]
    BY <2>2, SubSeqProperties
  <2> QED
    BY <2>1, <2>3
<1>2. Tail(t) = SubSeq(s, k + 1, Len(s))
  <2>1. k \in 1..Len(s) /\ Len(s) \in k..Len(s)
    OBVIOUS
  <2> QED
    BY <2>1, HeadTailOfSubSeq, Zenon
<1> HIDE DEF t
<1>3. FlattenSeq(t) = t[1] \o FlattenSeq(Tail(t))
  <2>1. t # <<>>
    BY <1>1
  <2> QED
    BY <1>1, <2>1, FlattenFirst
<1> QED
  BY <1>1, <1>2, <1>3 DEF t

-----------------------------------------------------------------------------

LEMMA RepeatType ==
  ASSUME NEW byte \in Bytes, NEW n \in Nat
  PROVE  /\ Repeat(byte, n) \in Seq(Bytes) /\ Len(Repeat(byte, n)) = n
         /\ \A k \in 1..n : Repeat(byte, n)[k] = byte
BY DEF Repeat

LEMMA RequestFields ==
  ASSUME NEW q \in Requests
  PROVE  /\ q.lens \in Seq(Nat) /\ q.eol \in Seq(Terminators) /\ q.eol \in Seq(Bytes)
         /\ Len(q.eol) \in Nat \ {0} /\ q.body \in Nat /\ q.closes \in BOOLEAN
         /\ Len(q.lens) \in Nat /\ \A k \in 1..Len(q.lens) : q.lens[k] \in Nat
<1>1. /\ q.lens \in Seq(Nat) /\ q.eol \in Seq({"r", "n", "z"}) /\ q.eol # <<>>
      /\ q.body \in Nat /\ q.closes \in BOOLEAN
  BY RequestsAssumption
<1>2. {"r", "n", "z"} = Terminators /\ Terminators \subseteq Bytes
  BY DEF Terminators, Bytes
<1>3. q.eol \in Seq(Terminators) /\ q.eol \in Seq(Bytes) /\ Len(q.eol) \in Nat \ {0}
  <2>1. q.eol \in Seq(Terminators)
    BY <1>1, <1>2
  <2>2. q.eol \in Seq(Bytes)
    BY <1>2, <2>1, SeqMonotonic
  <2>3. Len(q.eol) \in Nat /\ Len(q.eol) # 0
    BY <1>1, <2>1, EmptySeq
  <2> QED
    BY <2>1, <2>2, <2>3
<1> QED
  BY <1>1, <1>3

(* The lines of the head, and what is sent from the k-th of them on.       *)
HeadLines(q) == [k \in 1..Len(q.lens) |-> Repeat("x", q.lens[k]) \o q.eol]

From(q, k) == FlattenSeq(SubSeq(HeadLines(q), k, Len(q.lens))) \o Repeat("b", q.body)

LEMMA HeadLinesType ==
  ASSUME NEW q \in Requests
  PROVE  /\ HeadLines(q) \in Seq(Seq(Bytes)) /\ Len(HeadLines(q)) = Len(q.lens)
         /\ \A k \in 1..Len(q.lens) : HeadLines(q)[k] = Repeat("x", q.lens[k]) \o q.eol
<1>1. \A k \in 1..Len(q.lens) : Repeat("x", q.lens[k]) \o q.eol \in Seq(Bytes)
  <2> SUFFICES ASSUME NEW k \in 1..Len(q.lens)
               PROVE  Repeat("x", q.lens[k]) \o q.eol \in Seq(Bytes)
    OBVIOUS
  <2>1. Repeat("x", q.lens[k]) \in Seq(Bytes) /\ q.eol \in Seq(Bytes)
    BY RequestFields, RepeatType DEF Bytes
  <2> QED
    BY <2>1, ConcatProperties, Zenon
<1>2. /\ HeadLines(q) = [k \in 1..Len(q.lens) |-> HeadLines(q)[k]]
      /\ \A k \in 1..Len(q.lens) : HeadLines(q)[k] = Repeat("x", q.lens[k]) \o q.eol
  BY Zenon DEF HeadLines
<1>3. Len(q.lens) \in Nat
  BY RequestFields
<1>4. \A k \in 1..Len(q.lens) : HeadLines(q)[k] \in Seq(Bytes)
  BY <1>1, <1>2, Zenon
<1>5. HeadLines(q) \in Seq(Seq(Bytes)) /\ Len(HeadLines(q)) = Len(q.lens)
  BY <1>2, <1>3, <1>4
<1> QED
  BY <1>2, <1>5

LEMMA FromParts ==
  ASSUME NEW q \in Requests
  PROVE  /\ Stream(q) = From(q, 1)
         /\ From(q, Len(q.lens) + 1) = Repeat("b", q.body)
         /\ \A k \in 1..Len(q.lens) + 1 : From(q, k) \in Seq(Bytes)
         /\ \A k \in 1..Len(q.lens) :
              From(q, k) = Repeat("x", q.lens[k]) \o (q.eol \o From(q, k + 1))
<1>1. Len(q.lens) \in Nat
  BY RequestFields
<1>2. Repeat("b", q.body) \in Seq(Bytes)
  BY RequestFields, RepeatType DEF Bytes
<1>3. PICK s : s = HeadLines(q)
  OBVIOUS
<1>4. /\ s \in Seq(Seq(Bytes)) /\ Len(s) = Len(q.lens)
      /\ \A k \in 1..Len(q.lens) : s[k] = Repeat("x", q.lens[k]) \o q.eol
  BY <1>3, HeadLinesType
<1>5. Stream(q) = From(q, 1)
  <2>1. SubSeq(s, 1, Len(s)) = s
    BY <1>4, SubSeqFull
  <2> QED
    BY <1>3, <1>4, <2>1 DEF Stream, From, HeadLines
<1>6. From(q, Len(q.lens) + 1) = Repeat("b", q.body)
  <2>1. SubSeq(s, Len(q.lens) + 1, Len(q.lens)) = <<>>
    BY <1>1, SubSeqEmpty
  <2>2. FlattenSeq(<<>>) = <<>>
    BY DEF FlattenSeq
  <2> QED
    BY <1>2, <1>3, <2>1, <2>2, ConcatEmptySeq DEF From
<1>7. ASSUME NEW k \in 1..Len(q.lens) + 1
      PROVE  /\ FlattenSeq(SubSeq(s, k, Len(q.lens))) \in Seq(Bytes)
             /\ From(q, k) \in Seq(Bytes)
  <2>1. SubSeq(s, k, Len(q.lens)) \in Seq(Seq(Bytes))
    <3>1. k \in Int /\ Len(q.lens) \in Int /\ \A l \in k..Len(q.lens) : s[l] \in Seq(Bytes)
      BY <1>1, <1>4
    <3> QED
      BY <3>1, SubSeqProperties, Zenon
  <2>2. FlattenSeq(SubSeq(s, k, Len(q.lens))) \in Seq(Bytes)
    BY <2>1, FlattenType, Zenon
  <2>3. FlattenSeq(SubSeq(s, k, Len(q.lens))) \o Repeat("b", q.body) \in Seq(Bytes)
    BY <1>2, <2>2, ConcatProperties, Zenon
  <2> QED
    BY <1>3, <2>2, <2>3 DEF From
<1>8. ASSUME NEW k \in 1..Len(q.lens)
      PROVE  From(q, k) = Repeat("x", q.lens[k]) \o (q.eol \o From(q, k + 1))
  <2>1. PICK r \in Seq(Bytes) : r = FlattenSeq(SubSeq(s, k + 1, Len(q.lens)))
    BY <1>1, <1>7
  <2>2. PICK b \in Seq(Bytes) : b = Repeat("b", q.body)
    BY <1>2
  <2>3. PICK x \in Seq(Bytes) : x = Repeat("x", q.lens[k])
    BY RequestFields, RepeatType DEF Bytes
  <2>4. PICK e \in Seq(Bytes) : e = q.eol
    BY RequestFields
  <2>5. From(q, k) = ((x \o e) \o r) \o b
    <3>1. FlattenSeq(SubSeq(s, k, Len(s))) = s[k] \o FlattenSeq(SubSeq(s, k + 1, Len(s)))
      BY <1>4, FlattenFrom, Zenon
    <3> QED
      BY <1>3, <1>4, <2>1, <2>2, <2>3, <2>4, <3>1, Zenon DEF From
  <2>6. From(q, k + 1) = r \o b
    BY <1>3, <2>1, <2>2, Zenon DEF From
  <2>7. ((x \o e) \o r) \o b = x \o (e \o (r \o b))
    <3>1. PICK y \in Seq(Bytes), z \in Seq(Bytes) : y = x \o e /\ z = r \o b
      BY ConcatProperties, Zenon
    <3>2. (y \o r) \o b = y \o (r \o b)
      BY ConcatAssociative, SMTT(30)
    <3>3. (x \o e) \o z = x \o (e \o z)
      BY ConcatAssociative, SMTT(30)
    <3> QED
      BY <3>1, <3>2, <3>3, Zenon
  <2> QED
    BY <2>3, <2>4, <2>5, <2>6, <2>7, Zenon
<1> QED
  BY <1>5, <1>6, <1>7, <1>8

-----------------------------------------------------------------------------

LEMMA StreamType ==
  ASSUME NEW q \in Requests
  PROVE  Stream(q) \in Seq(Bytes)
<1>1. 1 \in 1..Len(q.lens) + 1
  BY RequestFields
<1> QED
  BY <1>1, FromParts

LEMMA TypeInit == Init => TypeOK
<1> SUFFICES ASSUME Init PROVE TypeOK
  OBVIOUS
<1>1. unread \in Seq(Bytes)
  BY StreamType DEF Init
<1>2. lines \in Seq([text : 0..BufSize - 1, newline : BOOLEAN])
  BY EmptySeq DEF Init
<1>3. 0 \in 0..BufSize - 1
  BY BufSizeAssumption
<1> QED
  BY <1>1, <1>2, <1>3, BufSizeAssumption DEF Init, TypeOK, Bytes

LEMMA TypeNext == TypeOK /\ [Next]_vars => TypeOK'
<1> SUFFICES ASSUME TypeOK, [Next]_vars PROVE TypeOK'
  OBVIOUS
<1> USE BufSizeAssumption
<1>1. CASE RecvByte
  <2>1. Head(unread) \in Bytes /\ Tail(unread) \in Seq(Bytes)
    BY <1>1 DEF RecvByte, TypeOK
  <2>2. i' \in 0..BufSize - 1 /\ top' \in 0..BufSize
    BY <1>1 DEF RecvByte, TypeOK, BufferFull, WriteUpTo
  <2> QED
    BY <1>1, <2>1, <2>2 DEF RecvByte, TypeOK
<1>2. CASE RecvNothing
  BY <1>2 DEF RecvNothing, TypeOK
<1>3. CASE RecvFull
  BY <1>3 DEF RecvFull, TypeOK
<1>4. CASE RecvAgain
  <2>1. unread # <<>> => Head(unread) \in Bytes /\ Tail(unread) \in Seq(Bytes)
    BY DEF TypeOK
  <2> QED
    BY <1>4, <2>1 DEF RecvAgain, TypeOK
<1>5. CASE ReturnLine
  <2>1. PICK line : line = [text |-> i, newline |-> ch # "z"]
    OBVIOUS
  <2>2. line \in [text : 0..BufSize - 1, newline : BOOLEAN]
    BY <2>1 DEF TypeOK
  <2>3. lines' \in Seq([text : 0..BufSize - 1, newline : BOOLEAN])
    BY <1>5, <2>1, <2>2 DEF ReturnLine, TypeOK
  <2>4. /\ phase' \in {"line", "head", "served"}
        /\ pc' \in {"recv", "again", "end"} /\ i' = 0 /\ ch' = "z"
        /\ UNCHANGED <<request, unread>>
    BY <1>5 DEF ReturnLine, TypeOK
  <2>5. top' \in 0..BufSize
    BY <1>5 DEF ReturnLine, TypeOK, WriteUpTo
  <2> QED
    BY <2>3, <2>4, <2>5 DEF TypeOK, Bytes
<1>6. CASE UNCHANGED vars
  BY <1>6 DEF vars, local, TypeOK
<1> QED
  BY <1>1, <1>2, <1>3, <1>4, <1>5, <1>6 DEF Next, Reading, Idle

(* get_line's index stays in buf, and what it writes goes at most one byte *)
(* behind it (server_http.h:224-225), however long the lines are and       *)
(* whatever ends them; no byte is made up that is not one of the request.  *)
THEOREM TypeCorrect == Spec => []TypeOK
<1>1. Init => TypeOK
  BY TypeInit
<1>2. TypeOK /\ [Next]_vars => TypeOK'
  BY TypeNext
<1> QED
  BY <1>1, <1>2, PTL DEF Spec

-----------------------------------------------------------------------------

(* Any run of BufSize - 1 bytes has a terminator among them.               *)
Broken(s) ==
  \A a \in 1..Len(s) : a + BufSize - 2 <= Len(s) =>
    \E b \in a..a + BufSize - 2 : s[b] \in Terminators

(* Of a request with short lines, no more than fits into the buffer comes  *)
(* before the next terminator.                                             *)
Fits ==
  (ShortLines /\ request.body < BufSize - 1) =>
    /\ top < BufSize
    /\ Broken(unread)
    /\ pc # "recv" => i < BufSize - 1
    /\ (pc = "recv" /\ Len(unread) >= BufSize - 1 - i) =>
         \E b \in 1..BufSize - 1 - i : unread[b] \in Terminators

LEMMA BrokenLine ==
  ASSUME NEW l \in Nat, l < BufSize - 1,
         NEW e \in Seq(Terminators), e # <<>>,
         NEW s \in Seq(Bytes), Broken(s)
  PROVE  Broken(Repeat("x", l) \o (e \o s))
<1> USE BufSizeAssumption
<1>1. PICK m \in Nat : m = Len(e)
  OBVIOUS
<1>2. m # 0 /\ \A b \in 1..m : e[b] \in Terminators
  BY <1>1, EmptySeq
<1>3. PICK t : t = Repeat("x", l) \o (e \o s)
  OBVIOUS
<1>4. Repeat("x", l) \in Seq(Bytes) /\ Len(Repeat("x", l)) = l
  BY RepeatType DEF Bytes
<1>5. /\ Len(t) = l + m + Len(s) /\ Len(s) \in Nat
      /\ \A b \in 1..m : t[l + b] = e[b]
      /\ \A b \in 1..Len(s) : t[l + m + b] = s[b]
  <2>1. PICK u : u = e \o s
    OBVIOUS
  <2>2. /\ Len(u) = m + Len(s) /\ Len(s) \in Nat
        /\ \A b \in 1..m : u[b] = e[b]
        /\ \A b \in 1..Len(s) : u[m + b] = s[b]
    BY <1>1, <2>1
  <2>3. PICK x : x = Repeat("x", l) /\ x \in Seq(Bytes) /\ Len(x) = l
    BY <1>4
  <2>4. u \in Seq(Bytes)
    <3>1. e \in Seq(Bytes)
      BY SeqMonotonic DEF Terminators, Bytes
    <3> QED
      BY <2>1, <3>1, ConcatProperties, Zenon
  <2>5. Len(t) = l + Len(u) /\ \A b \in 1..Len(u) : t[l + b] = u[b]
    <3>1. /\ Len(t) = Len(x) + Len(u)
          /\ \A c \in 1..Len(x) + Len(u) : t[c] = IF c <= Len(x) THEN x[c] ELSE u[c - Len(x)]
      BY <1>3, <2>1, <2>3, <2>4, ConcatProperties, Zenon
    <3>2. \A b \in 1..Len(u) : l + b \in 1..l + Len(u) /\ ~(l + b <= l) /\ l + b - l = b
      BY <2>2
    <3> QED
      BY <2>3, <3>1, <3>2
  <2> QED
    BY <2>2, <2>5
<1>6. SUFFICES ASSUME NEW a \in 1..Len(t), a + BufSize - 2 <= Len(t)
               PROVE  \E b \in a..a + BufSize - 2 : t[b] \in Terminators
  BY <1>3 DEF Broken
<1>7. CASE a <= l
  <2>1. l + 1 \in a..a + BufSize - 2 /\ 1 \in 1..m
    BY <1>2, <1>7
  <2> QED
    BY <1>2, <1>5, <2>1
<1>8. CASE a > l /\ a <= l + m
  <2>1. PICK b \in 1..m : a = l + b
    <3>1. a - l \in 1..m /\ a = l + (a - l)
      BY <1>8
    <3> QED
      BY <3>1
  <2>2. t[a] \in Terminators
    BY <1>2, <1>5, <2>1
  <2>3. a \in a..a + BufSize - 2
    BY <1>5
  <2> QED
    BY <2>2, <2>3
<1>9. CASE a > l + m
  <2>1. PICK c \in 1..Len(s) : a = l + m + c
    <3>1. a - l - m \in 1..Len(s) /\ a = l + m + (a - l - m)
      BY <1>5, <1>9
    <3> QED
      BY <3>1
  <2>2. PICK b \in c..c + BufSize - 2 : s[b] \in Terminators
    BY <1>5, <1>6, <2>1 DEF Broken
  <2>3. l + m + b \in a..a + BufSize - 2 /\ b \in 1..Len(s)
    BY <1>5, <1>6, <2>1, <2>2
  <2> QED
    BY <1>5, <2>2, <2>3
<1> QED
  BY <1>7, <1>8, <1>9

LEMMA BrokenStream ==
  ASSUME NEW q \in Requests, q.body < BufSize - 1,
         \A k \in 1..Len(q.lens) : q.lens[k] < BufSize - 1
  PROVE  Broken(Stream(q))
<1> USE BufSizeAssumption
<1>1. PICK n \in Nat : n = Len(q.lens)
  BY RequestFields
<1> DEFINE P == {m \in Nat : m <= n => Broken(From(q, n + 1 - m))}
<1>2. 0 \in P
  <2>1. Broken(Repeat("b", q.body))
    BY RequestFields, RepeatType DEF Broken, Bytes
  <2>2. From(q, n + 1 - 0) = Repeat("b", q.body)
    <3>1. n + 1 - 0 = n + 1
      OBVIOUS
    <3> QED
      BY <1>1, <3>1, FromParts, Zenon
  <2> QED
    BY <2>1, <2>2
<1>3. ASSUME NEW m \in Nat, m \in P
      PROVE  m + 1 \in P
  <2>1. SUFFICES ASSUME m + 1 <= n
                 PROVE  Broken(From(q, n + 1 - (m + 1)))
    OBVIOUS
  <2>2. PICK k \in 1..n : k = n + 1 - (m + 1) /\ k + 1 = n + 1 - m
    <3>1. n - m \in 1..n /\ n - m = n + 1 - (m + 1) /\ n - m + 1 = n + 1 - m
      BY <2>1
    <3> QED
      BY <3>1
  <2>3. Broken(From(q, k + 1))
    BY <1>3, <2>1, <2>2
  <2>4. From(q, k + 1) \in Seq(Bytes) /\ From(q, k) = Repeat("x", q.lens[k]) \o (q.eol \o From(q, k + 1))
    <3>1. k + 1 \in 1..n + 1
      OBVIOUS
    <3> QED
      BY <1>1, <3>1, FromParts, Zenon
  <2>5. /\ q.lens[k] \in Nat /\ q.lens[k] < BufSize - 1
        /\ q.eol \in Seq(Terminators) /\ q.eol # <<>>
    BY <1>1, RequestFields, EmptySeq
  <2>6. Broken(Repeat("x", q.lens[k]) \o (q.eol \o From(q, k + 1)))
    BY <2>3, <2>4, <2>5, BrokenLine
  <2> QED
    BY <2>2, <2>4, <2>6, Zenon
<1> HIDE DEF P
<1>4. n \in P
  BY <1>2, <1>3, NumbersOneByOne
<1>5. Broken(From(q, n + 1 - n)) /\ n + 1 - n = 1
  BY <1>4 DEF P
<1> QED
  BY <1>5, FromParts, Zenon


LEMMA FitsInit == Init => Fits
<1> SUFFICES ASSUME Init, ShortLines, request.body < BufSize - 1
             PROVE  /\ top < BufSize /\ Broken(unread) /\ pc = "recv"
                    /\ Len(unread) >= BufSize - 1 - i =>
                         \E b \in 1..BufSize - 1 - i : unread[b] \in Terminators
  BY DEF Fits
<1>1. Broken(unread)
  BY BrokenStream DEF Init, ShortLines
<1>2. unread \in Seq(Bytes) /\ i = 0 /\ top < BufSize /\ pc = "recv"
  BY StreamType, BufSizeAssumption DEF Init
<1>3. Len(unread) >= BufSize - 1 => \E b \in 1..BufSize - 1 : unread[b] \in Terminators
  <2> SUFFICES ASSUME Len(unread) >= BufSize - 1
               PROVE  \E b \in 1..BufSize - 1 : unread[b] \in Terminators
    OBVIOUS
  <2>1. 1 \in 1..Len(unread) /\ 1 + BufSize - 2 <= Len(unread) /\ 1 + BufSize - 2 = BufSize - 1
    BY <1>2, BufSizeAssumption
  <2> QED
    BY <1>1, <2>1 DEF Broken
<1> QED
  BY <1>1, <1>2, <1>3, BufSizeAssumption

LEMMA BrokenTail ==
  ASSUME NEW s \in Seq(Bytes), s # <<>>, Broken(s)
  PROVE  Broken(Tail(s))
<1>1. PICK t : t = Tail(s)
  OBVIOUS
<1>2. Len(t) = Len(s) - 1 /\ Len(s) \in Nat /\ \A b \in 1..Len(t) : t[b] = s[b + 1]
  BY <1>1
<1> SUFFICES ASSUME NEW a \in 1..Len(t), a + BufSize - 2 <= Len(t)
             PROVE  \E b \in a..a + BufSize - 2 : t[b] \in Terminators
  BY <1>1 DEF Broken
<1>3. PICK c \in 1..Len(s) : c = a + 1 /\ c + BufSize - 2 <= Len(s)
  <2>1. a + 1 \in 1..Len(s) /\ a + 1 + BufSize - 2 <= Len(s)
    BY <1>2, BufSizeAssumption
  <2> QED
    BY <2>1
<1>4. PICK b \in c..c + BufSize - 2 : s[b] \in Terminators
  BY <1>3 DEF Broken
<1>5. b - 1 \in a..a + BufSize - 2 /\ b - 1 \in 1..Len(t) /\ b - 1 + 1 = b
  BY <1>2, <1>3, <1>4, BufSizeAssumption
<1> QED
  BY <1>2, <1>4, <1>5

LEMMA FitsNext == TypeOK /\ Fits /\ [Next]_vars => Fits'
<1> SUFFICES ASSUME TypeOK, Fits, [Next]_vars, ShortLines', request'.body < BufSize - 1
             PROVE  /\ top' < BufSize /\ Broken(unread')
                    /\ pc' # "recv" => i' < BufSize - 1
                    /\ (pc' = "recv" /\ Len(unread') >= BufSize - 1 - i') =>
                         \E b \in 1..BufSize - 1 - i' : unread'[b] \in Terminators
  BY DEF Fits, Broken
<1> USE BufSizeAssumption
<1>1. request' = request
  BY DEF Next, Reading, Idle, RecvByte, RecvNothing, RecvFull, RecvAgain, ReturnLine, vars
<1>2. /\ top < BufSize /\ Broken(unread)
      /\ pc # "recv" => i < BufSize - 1
      /\ (pc = "recv" /\ Len(unread) >= BufSize - 1 - i) =>
           \E b \in 1..BufSize - 1 - i : unread[b] \in Terminators
  BY <1>1 DEF Fits, ShortLines
<1>3. unread \in Seq(Bytes) /\ Len(unread) \in Nat /\ i \in 0..BufSize - 1
  BY DEF TypeOK
<1>4. CASE RecvByte
  <2>1. /\ unread # <<>> /\ pc = "recv" /\ i # BufSize - 1
        /\ ch' = Head(unread) /\ unread' = Tail(unread) /\ top' < BufSize
        /\ \/ ch' \in Terminators /\ pc' = "again" /\ i' = i
           \/ ch' \notin Terminators /\ pc' = "recv" /\ i' = i + 1
    BY <1>2, <1>3, <1>4 DEF RecvByte, BufferFull, WriteUpTo
  <2>2. Broken(unread')
    BY <1>2, <1>3, <2>1, BrokenTail
  <2>3. CASE pc' = "again"
    BY <1>2, <1>3, <2>1, <2>2, <2>3
  <2>4. CASE pc' = "recv"
    <3>1. /\ i' = i + 1 /\ i' < BufSize /\ unread[1] \notin Terminators
          /\ Len(unread') = Len(unread) - 1
          /\ \A b \in 1..Len(unread') : unread'[b] = unread[b + 1]
      BY <1>3, <2>1, <2>4
    <3>2. ASSUME Len(unread') >= BufSize - 1 - i'
          PROVE  \E b \in 1..BufSize - 1 - i' : unread'[b] \in Terminators
      <4>1. PICK b \in 1..BufSize - 1 - i : unread[b] \in Terminators
        BY <1>2, <1>3, <2>1, <3>1, <3>2
      <4>2. b # 1
        BY <3>1, <4>1
      <4>3. b - 1 \in 1..BufSize - 1 - i' /\ b - 1 \in 1..Len(unread') /\ b - 1 + 1 = b
        BY <1>3, <3>1, <3>2, <4>1, <4>2
      <4> QED
        BY <3>1, <4>1, <4>3
    <3> QED
      BY <1>2, <2>1, <2>2, <2>4, <3>2
  <2> QED
    BY <2>1, <2>3, <2>4
<1>5. CASE RecvNothing
  <2>1. /\ pc = "recv" /\ i # BufSize - 1 /\ UNCHANGED <<unread, i, top>>
        /\ pc' \in {"again", "recv"}
    BY <1>5 DEF RecvNothing, BufferFull
  <2> QED
    BY <1>2, <1>3, <2>1
<1>6. CASE RecvFull
  <2>1. pc = "recv" /\ i = BufSize - 1
    BY <1>6 DEF RecvFull, BufferFull
  <2>2. FALSE
    BY <1>2, <1>3, <2>1
  <2> QED
    BY <2>2
<1>7. CASE RecvAgain
  <2>1. /\ pc = "again" /\ pc' = "end" /\ i' = i /\ top' = top
        /\ unread' = unread \/ (unread # <<>> /\ unread' = Tail(unread))
    BY <1>7 DEF RecvAgain
  <2>2. Broken(unread')
    BY <1>2, <1>3, <2>1, BrokenTail
  <2> QED
    BY <1>2, <2>1, <2>2
<1>8. CASE ReturnLine
  <2>1. /\ pc = "end" /\ unread' = unread /\ i' = 0
        /\ top' \in {i, i + 1, top}
    BY <1>8 DEF ReturnLine, WriteUpTo
  <2>2. i < BufSize - 1
    BY <1>2, <2>1
  <2>3. top' < BufSize
    BY <1>2, <1>3, <2>1, <2>2
  <2>4. Len(unread) >= BufSize - 1 => \E b \in 1..BufSize - 1 : unread[b] \in Terminators
    <3> SUFFICES ASSUME Len(unread) >= BufSize - 1
                 PROVE  \E b \in 1..BufSize - 1 : unread[b] \in Terminators
      OBVIOUS
    <3>1. 1 \in 1..Len(unread) /\ 1 + BufSize - 2 <= Len(unread) /\ 1 + BufSize - 2 = BufSize - 1
      BY <1>3
    <3> QED
      BY <1>2, <3>1 DEF Broken
  <2>5. BufSize - 1 - i' = BufSize - 1 /\ i' < BufSize - 1
    BY <2>1
  <2>6. Broken(unread')
    BY <1>2, <2>1
  <2> QED
    BY <2>1, <2>3, <2>4, <2>5, <2>6
<1>9. CASE UNCHANGED vars
  <2>1. UNCHANGED <<top, unread, pc, i>>
    BY <1>9 DEF vars, local
  <2> QED
    BY <1>2, <2>1
<1> QED
  BY <1>4, <1>5, <1>6, <1>7, <1>8, <1>9 DEF Next, Reading, Idle

(* Lines shorter than the buffer never make get_line write behind it: buf  *)
(* has a terminator among any BufSize - 1 bytes still to come.             *)
THEOREM ShortLinesFitAlways == Spec => []ShortLinesFit
<1>1. Fits => ShortLinesFit
  BY DEF Fits, ShortLinesFit
<1>2. Init => TypeOK /\ Fits
  BY TypeInit, FitsInit
<1>3. TypeOK /\ Fits /\ [Next]_vars => (TypeOK /\ Fits)'
  BY TypeNext, FitsNext
<1> QED
  BY <1>1, <1>2, <1>3, PTL DEF Spec

-----------------------------------------------------------------------------

(* Only the line that ends the head is empty, the request line aside.      *)
HeadLast ==
  /\ phase = "line" <=> lines = <<>>
  /\ \A k \in 2..Len(lines) : lines[k].text = 0 => phase = "served" /\ k = Len(lines)
  /\ phase = "served" => Len(lines) > 1 /\ lines[Len(lines)].text = 0

LEMMA HeadLastNext ==
  TypeOK /\ HeadLast /\ [Next]_vars => HeadLast'
<1> SUFFICES ASSUME TypeOK, HeadLast, [Next]_vars PROVE HeadLast'
  OBVIOUS
<1>1. CASE UNCHANGED <<phase, lines>>
  BY <1>1 DEF HeadLast
<1>2. CASE phase # "served" /\ ReturnLine
  <2>1. PICK line : line = [text |-> i, newline |-> ch # "z"]
    OBVIOUS
  <2>2. PICK ended \in BOOLEAN : ended <=> (phase = "head" /\ i = 0)
    OBVIOUS
  <2>3. LastOfHead(line) <=> i = 0
    BY <2>1 DEF LastOfHead, Blank
  <2>4. phase' = IF ended THEN "served" ELSE "head"
    BY <1>2, <2>1, <2>2, <2>3 DEF ReturnLine
  <2>5. lines' = Append(lines, line)
    BY <1>2, <2>1 DEF ReturnLine
  <2>6. /\ Len(lines) \in Nat /\ Len(lines') = Len(lines) + 1
        /\ \A k \in 1..Len(lines) : lines'[k] = lines[k]
        /\ lines'[Len(lines) + 1] = line /\ lines' # <<>>
    BY <2>5 DEF TypeOK
  <2>7. line.text = i
    BY <2>1
  <2>8. phase = "head" => Len(lines) > 0
    BY <2>6, EmptySeq DEF HeadLast, TypeOK
  <2>9. phase = "line" => Len(lines) = 0
    BY DEF HeadLast
  <2>10. phase \in {"line", "head"}
    BY <1>2 DEF TypeOK
  <2>11. \A k \in 2..Len(lines) : lines'[k].text # 0
    BY <1>2, <2>6 DEF HeadLast
  <2>12. ASSUME NEW k \in 2..Len(lines'), lines'[k].text = 0
         PROVE  phase' = "served" /\ k = Len(lines')
    <3>1. k = Len(lines) + 1
      BY <2>6, <2>11, <2>12
    <3>2. i = 0 /\ phase = "head"
      BY <2>6, <2>7, <2>9, <2>10, <2>12, <3>1
    <3> QED
      BY <2>2, <2>4, <2>6, <3>1, <3>2
  <2>13. ASSUME phase' = "served"
         PROVE  Len(lines') > 1 /\ lines'[Len(lines')].text = 0
    <3>1. phase = "head" /\ i = 0
      BY <2>2, <2>4, <2>13
    <3> QED
      BY <2>6, <2>7, <2>8, <3>1
  <2>14. phase' # "line"
    BY <2>2, <2>4
  <2> QED
    BY <2>6, <2>12, <2>13, <2>14 DEF HeadLast
<1> QED
  BY <1>1, <1>2 DEF Next, Reading, Idle, RecvByte, RecvNothing, RecvFull, RecvAgain, vars


-----------------------------------------------------------------------------

LEMMA Division ==
  ASSUME NEW w \in Nat \ {0}, NEW r \in Nat
  PROVE  /\ r \div w \in Nat /\ r % w \in 0..w - 1
         /\ r < w => r \div w = 0 /\ r % w = r
         /\ (w + r) \div w = r \div w + 1 /\ (w + r) % w = r % w
<1>1. r \div w \in Nat /\ r % w \in 0..w - 1
  OBVIOUS
<1>2. r < w => r \div w = 0 /\ r % w = r
  OBVIOUS
<1>3. (w + r) \div w = r \div w + 1
  OBVIOUS
<1>4. (w + r) % w = r % w
  BY <1>3, SMTT(30)
<1> QED
  BY <1>1, <1>2, <1>3, <1>4

(* A piece of a line is all that is left of it, or BufSize - 1 bytes.      *)
LEMMA PiecesOfValue ==
  ASSUME NEW r \in Nat
  PROVE  /\ PiecesOf(r) \in Seq(Nat)
         /\ r < BufSize - 1 => PiecesOf(r) = <<r>>
         /\ PiecesOf(BufSize - 1 + r) = <<BufSize - 1>> \o PiecesOf(r)
<1>1. PICK w \in Nat \ {0} : w = BufSize - 1
  BY BufSizeAssumption
<1>2. PICK d \in Nat, m \in Nat : d = r \div w /\ m = r % w
  <2>1. r \div w \in Nat /\ r % w \in Nat
    BY Division
  <2> QED
    BY <2>1, Zenon
<1>3. PICK p : p = [k \in 1..d + 1 |-> IF k <= d THEN w ELSE m]
  OBVIOUS
<1>4. p = PiecesOf(r)
  BY <1>1, <1>2, <1>3 DEF PiecesOf
<1>5. p \in Seq(Nat) /\ Len(p) = d + 1 /\ \A k \in 1..d + 1 : p[k] = IF k <= d THEN w ELSE m
  BY <1>3
<1>6. r < w => p = <<r>>
  <2> SUFFICES ASSUME r < w PROVE p = <<r>>
    OBVIOUS
  <2>1. d = 0 /\ m = r
    BY <1>2, Division
  <2> QED
    BY <1>5, <2>1
<1>7. PiecesOf(w + r) = <<w>> \o p
  <2>1. PICK u : u = [k \in 1..d + 1 + 1 |-> IF k <= d + 1 THEN w ELSE m]
    OBVIOUS
  <2>2. PiecesOf(w + r) = u
    <3>1. (w + r) \div w = d + 1 /\ (w + r) % w = m
      BY <1>2, Division
    <3>2. (w + r) \div w + 1 = d + 1 + 1
      BY <3>1
    <3> QED
      BY <1>1, <2>1, <3>1, <3>2 DEF PiecesOf
  <2>3. /\ u \in Seq(Nat) /\ Len(u) = d + 2
        /\ \A k \in 1..d + 2 : u[k] = IF k <= d + 1 THEN w ELSE m
    BY <2>1
  <2>4. /\ <<w>> \o p \in Seq(Nat) /\ Len(<<w>> \o p) = d + 2
        /\ \A k \in 1..d + 2 : (<<w>> \o p)[k] = IF k = 1 THEN w ELSE p[k - 1]
    BY <1>5
  <2>5. \A k \in 1..d + 2 : u[k] = (<<w>> \o p)[k]
    <3> SUFFICES ASSUME NEW k \in 1..d + 2
                 PROVE  (IF k <= d + 1 THEN w ELSE m) = IF k = 1 THEN w ELSE p[k - 1]
      BY <2>3, <2>4
    <3>1. CASE k = 1
      BY <3>1
    <3>2. CASE k # 1
      <4>1. k - 1 \in 1..d + 1 /\ (k - 1 <= d <=> k <= d + 1)
        BY <3>2
      <4> QED
        BY <1>5, <3>2, <4>1
    <3> QED
      BY <3>1, <3>2
  <2>6. u = <<w>> \o p
    BY <2>3, <2>4, <2>5, SeqEqual
  <2> QED
    BY <2>2, <2>6
<1> QED
  BY <1>1, <1>4, <1>5, <1>6, <1>7

(* The pieces of the lines from the k-th on.                               *)
PieceLines(q) == [k \in 1..Len(q.lens) |-> PiecesOf(q.lens[k])]

PiecesFrom(q, k) == FlattenSeq(SubSeq(PieceLines(q), k, Len(q.lens)))

LEMMA PiecesFromParts ==
  ASSUME NEW q \in Requests
  PROVE  /\ FlattenSeq(PieceLines(q)) = PiecesFrom(q, 1)
         /\ PiecesFrom(q, Len(q.lens) + 1) = <<>>
         /\ \A k \in 1..Len(q.lens) + 1 : PiecesFrom(q, k) \in Seq(Nat)
         /\ \A k \in 1..Len(q.lens) :
              PiecesFrom(q, k) = PiecesOf(q.lens[k]) \o PiecesFrom(q, k + 1)
<1>1. Len(q.lens) \in Nat
  BY RequestFields
<1>2. PICK s : s = PieceLines(q)
  OBVIOUS
<1>3. /\ s \in Seq(Seq(Nat)) /\ Len(s) = Len(q.lens)
      /\ \A k \in 1..Len(q.lens) : s[k] = PiecesOf(q.lens[k])
  <2>1. \A k \in 1..Len(q.lens) : PiecesOf(q.lens[k]) \in Seq(Nat)
    BY RequestFields, PiecesOfValue
  <2>2. /\ s = [k \in 1..Len(q.lens) |-> s[k]]
        /\ \A k \in 1..Len(q.lens) : s[k] = PiecesOf(q.lens[k])
    BY <1>2, Zenon DEF PieceLines
  <2>3. \A k \in 1..Len(q.lens) : s[k] \in Seq(Nat)
    BY <2>1, <2>2, Zenon
  <2>4. s \in Seq(Seq(Nat)) /\ Len(s) = Len(q.lens)
    BY <1>1, <2>2, <2>3
  <2> QED
    BY <2>2, <2>4
<1>4. FlattenSeq(s) = PiecesFrom(q, 1)
  <2>1. SubSeq(s, 1, Len(s)) = s
    BY <1>3, SubSeqFull
  <2> QED
    BY <1>2, <1>3, <2>1, Zenon DEF PiecesFrom
<1>5. PiecesFrom(q, Len(q.lens) + 1) = <<>>
  <2>1. SubSeq(s, Len(q.lens) + 1, Len(q.lens)) = <<>>
    BY <1>1, SubSeqEmpty
  <2>2. FlattenSeq(<<>>) = <<>>
    BY DEF FlattenSeq
  <2> QED
    BY <1>2, <2>1, <2>2, Zenon DEF PiecesFrom
<1>6. ASSUME NEW k \in 1..Len(q.lens) + 1
      PROVE  PiecesFrom(q, k) \in Seq(Nat)
  <2>1. SubSeq(s, k, Len(q.lens)) \in Seq(Seq(Nat))
    <3>1. k \in Int /\ Len(q.lens) \in Int /\ \A l \in k..Len(q.lens) : s[l] \in Seq(Nat)
      BY <1>1, <1>3
    <3> QED
      BY <3>1, SubSeqProperties, Zenon
  <2> QED
    BY <1>2, <2>1, FlattenType, Zenon DEF PiecesFrom
<1>7. ASSUME NEW k \in 1..Len(q.lens)
      PROVE  PiecesFrom(q, k) = PiecesOf(q.lens[k]) \o PiecesFrom(q, k + 1)
  <2>1. FlattenSeq(SubSeq(s, k, Len(s))) = s[k] \o FlattenSeq(SubSeq(s, k + 1, Len(s)))
    BY <1>3, FlattenFrom, Zenon
  <2> QED
    BY <1>2, <1>3, <2>1, Zenon DEF PiecesFrom
<1> QED
  BY <1>2, <1>4, <1>5, <1>6, <1>7


-----------------------------------------------------------------------------

Texts == [k \in 1..Len(lines) |-> lines[k].text]

(* The server in the middle of line k, r bytes of its text still unread.   *)
At(k, r) ==
  /\ pc = "recv"  => /\ unread = Repeat("x", r) \o (request.eol \o From(request, k + 1))
                     /\ i > 0 => ch = "x"
  /\ pc = "again" => /\ unread = <<"n">> \o From(request, k + 1)
                     /\ r = 0 /\ i < BufSize - 1 /\ ch = "r"
  /\ pc = "end"   => \/ /\ unread = Repeat("x", r) \o (request.eol \o From(request, k + 1))
                        /\ i = BufSize - 1 /\ ch = "x"
                     \/ /\ unread = From(request, k + 1)
                        /\ r = 0 /\ i < BufSize - 1 /\ ch = "n"
  /\ Pieces = Texts \o (PiecesOf(i + r) \o PiecesFrom(request, k + 1))
  /\ ShortLines => Len(lines) = k - 1 /\ i + r = request.lens[k]

InHead == phase # "served" /\ \E k \in 1..Len(request.lens), r \in Nat : At(k, r)

BehindHead == phase # "served" /\ Len(lines) >= Len(Pieces) /\ ~(ShortLines /\ EndsBlank)

AfterHead ==
  phase = "served" /\ (ShortLines /\ EndsBlank => unread = Repeat("b", request.body))

(* What the server has made of a request of lines that end in "\r\n".      *)
Where == CRLF => LinesArePieces /\ (InHead \/ BehindHead \/ AfterHead)

LEMMA RepeatParts ==
  ASSUME NEW s \in Seq(Bytes), NEW r \in Nat
  PROVE  /\ Repeat("x", 0) \o s = s
         /\ r > 0 => /\ Repeat("x", r) \o s # <<>>
                     /\ Head(Repeat("x", r) \o s) = "x"
                     /\ Tail(Repeat("x", r) \o s) = Repeat("x", r - 1) \o s
<1>1. Repeat("x", 0) \o s = s
  <2>1. Repeat("x", 0) = <<>>
    BY DEF Repeat
  <2> QED
    BY <2>1, ConcatEmptySeq
<1>2. ASSUME r > 0
      PROVE  /\ Repeat("x", r) \o s # <<>>
             /\ Head(Repeat("x", r) \o s) = "x"
             /\ Tail(Repeat("x", r) \o s) = Repeat("x", r - 1) \o s
  <2>1. PICK x : /\ x = Repeat("x", r) /\ x \in Seq(Bytes) /\ Len(x) = r
                 /\ \A k \in 1..r : x[k] = "x"
    BY RepeatType DEF Bytes
  <2>2. PICK y : /\ y = Repeat("x", r - 1) /\ y \in Seq(Bytes) /\ Len(y) = r - 1
                 /\ \A k \in 1..r - 1 : y[k] = "x"
    <3>1. r - 1 \in Nat
      BY <1>2
    <3> QED
      BY <3>1, RepeatType DEF Bytes
  <2>3. PICK u : u = x \o s
    OBVIOUS
  <2>4. /\ u \in Seq(Bytes) /\ Len(u) = r + Len(s) /\ u[1] = "x" /\ Len(s) \in Nat
        /\ \A k \in 1..r + Len(s) : u[k] = IF k <= r THEN "x" ELSE s[k - r]
    <3>1. /\ u \in Seq(Bytes) /\ Len(u) = r + Len(s) /\ Len(s) \in Nat
          /\ \A k \in 1..r + Len(s) : u[k] = IF k <= r THEN x[k] ELSE s[k - r]
      <4>1. /\ u \in Seq(Bytes) /\ Len(u) = Len(x) + Len(s)
            /\ \A k \in 1..Len(x) + Len(s) : u[k] = IF k <= Len(x) THEN x[k] ELSE s[k - Len(x)]
        BY <2>1, <2>3, ConcatProperties, Zenon
      <4> QED
        BY <2>1, <4>1
    <3>2. 1 \in 1..r + Len(s) /\ 1 <= r /\ \A k \in 1..r + Len(s) : k <= r => k \in 1..r
      BY <1>2, <3>1
    <3> QED
      BY <2>1, <3>1, <3>2
  <2>5. PICK t : t = Tail(u)
    OBVIOUS
  <2>6. /\ t \in Seq(Bytes) /\ Len(t) = r - 1 + Len(s)
        /\ \A k \in 1..r - 1 + Len(s) : t[k] = u[k + 1]
    BY <1>2, <2>4, <2>5
  <2>7. PICK v : v = y \o s
    OBVIOUS
  <2>8. /\ v \in Seq(Bytes) /\ Len(v) = r - 1 + Len(s)
        /\ \A k \in 1..r - 1 + Len(s) : v[k] = IF k <= r - 1 THEN "x" ELSE s[k - (r - 1)]
    <3>1. /\ v \in Seq(Bytes) /\ Len(v) = r - 1 + Len(s)
          /\ \A k \in 1..r - 1 + Len(s) : v[k] = IF k <= r - 1 THEN y[k] ELSE s[k - (r - 1)]
      BY <2>2, <2>7, ConcatProperties
    <3>2. \A k \in 1..r - 1 + Len(s) : k <= r - 1 => k \in 1..r - 1
      BY <2>4
    <3> QED
      BY <2>2, <3>1, <3>2
  <2>9. \A k \in 1..r - 1 + Len(s) : t[k] = v[k]
    <3> SUFFICES ASSUME NEW k \in 1..r - 1 + Len(s) PROVE t[k] = v[k]
      OBVIOUS
    <3>1. /\ k + 1 \in 1..r + Len(s) /\ (k + 1 <= r <=> k <= r - 1)
          /\ k + 1 - r = k - (r - 1)
      BY <1>2, <2>4
    <3> QED
      BY <2>4, <2>6, <2>8, <3>1
  <2>10. t = v
    BY <2>6, <2>8, <2>9, SeqEqual
  <2>11. u # <<>> /\ Head(u) = "x"
    BY <1>2, <2>4
  <2> QED
    BY <2>1, <2>2, <2>3, <2>5, <2>7, <2>10, <2>11, Zenon
<1> QED
  BY <1>1, <1>2

LEMMA LineEndParts ==
  ASSUME NEW s \in Seq(Bytes)
  PROVE  /\ <<"r", "n">> \o s \in Seq(Bytes) /\ <<"r", "n">> \o s # <<>>
         /\ Head(<<"r", "n">> \o s) = "r" /\ Tail(<<"r", "n">> \o s) = <<"n">> \o s
         /\ <<"n">> \o s # <<>> /\ Head(<<"n">> \o s) = "n" /\ Tail(<<"n">> \o s) = s
<1>1. PICK u : u = <<"n">> \o s
  OBVIOUS
<1>2. /\ u \in Seq(Bytes) /\ Len(u) = 1 + Len(s) /\ u[1] = "n" /\ Len(s) \in Nat
      /\ \A k \in 1..Len(s) : u[k + 1] = s[k]
  BY <1>1 DEF Bytes
<1>3. u # <<>> /\ Head(u) = "n" /\ Tail(u) = s
  BY <1>2
<1>4. PICK t : t = <<"r", "n">> \o s
  OBVIOUS
<1>5. /\ t \in Seq(Bytes) /\ Len(t) = 2 + Len(s) /\ t[1] = "r" /\ t[2] = "n"
      /\ \A k \in 1..Len(s) : t[k + 2] = s[k]
  BY <1>4 DEF Bytes
<1>6. t # <<>> /\ Head(t) = "r"
  BY <1>2, <1>5
<1>7. PICK v : v = Tail(t)
  OBVIOUS
<1>8. /\ v \in Seq(Bytes) /\ Len(v) = 1 + Len(s)
      /\ \A k \in 1..1 + Len(s) : v[k] = t[k + 1]
  BY <1>2, <1>5, <1>7
<1>9. \A k \in 1..1 + Len(s) : v[k] = u[k]
  <2> SUFFICES ASSUME NEW k \in 1..1 + Len(s) PROVE v[k] = u[k]
    OBVIOUS
  <2>1. CASE k = 1
    BY <1>2, <1>5, <1>8, <2>1
  <2>2. CASE k # 1
    <3>1. PICK l \in 1..Len(s) : k = l + 1
      <4>1. k - 1 \in 1..Len(s) /\ k = k - 1 + 1
        BY <1>2, <2>2
      <4> QED
        BY <4>1
    <3>2. v[k] = t[l + 2]
      BY <1>2, <1>8, <3>1
    <3> QED
      BY <1>2, <1>5, <3>1, <3>2
  <2> QED
    BY <2>1, <2>2
<1>10. v = u
  BY <1>2, <1>8, <1>9, SeqEqual
<1> QED
  BY <1>1, <1>3, <1>4, <1>5, <1>6, <1>7, <1>10, Zenon


(* The bytes of the rest of a line, and of the lines after it.             *)
LEMMA RestType ==
  ASSUME NEW q \in Requests, NEW k \in 1..Len(q.lens), NEW r \in Nat
  PROVE  /\ From(q, k + 1) \in Seq(Bytes) /\ q.eol \o From(q, k + 1) \in Seq(Bytes)
         /\ PiecesOf(r) \in Seq(Nat) /\ PiecesFrom(q, k + 1) \in Seq(Nat)
<1>1. k + 1 \in 1..Len(q.lens) + 1
  BY RequestFields
<1>2. From(q, k + 1) \in Seq(Bytes) /\ PiecesFrom(q, k + 1) \in Seq(Nat) /\ PiecesOf(r) \in Seq(Nat)
  BY <1>1, FromParts, PiecesFromParts, PiecesOfValue, Zenon
<1>3. q.eol \in Seq(Bytes)
  BY RequestFields
<1> QED
  BY <1>2, <1>3, ConcatProperties, Zenon

(* While it reads, the server stays in its line.                           *)
LEMMA StayInLine ==
  ASSUME TypeOK, CRLF, NEW k \in 1..Len(request.lens), NEW r \in Nat, At(k, r),
         RecvByte \/ RecvNothing \/ RecvFull \/ RecvAgain
  PROVE  \E p \in Nat : At(k, p)'
<1> USE BufSizeAssumption
<1>1. /\ request \in Requests /\ request' = request /\ lines' = lines
      /\ unread \in Seq(Bytes) /\ i \in 0..BufSize - 1
  BY DEF TypeOK, RecvByte, RecvNothing, RecvFull, RecvAgain
<1>2. PICK F : F = From(request, k + 1) /\ F \in Seq(Bytes)
  BY <1>1, RestType
<1>3. request.eol = <<"r", "n">> /\ <<"r", "n">> \o F \in Seq(Bytes)
  BY <1>2, LineEndParts DEF CRLF
<1>4. /\ pc = "recv"  => /\ unread = Repeat("x", r) \o (<<"r", "n">> \o F)
                         /\ i > 0 => ch = "x"
      /\ pc = "again" => /\ unread = <<"n">> \o F
                         /\ r = 0 /\ i < BufSize - 1 /\ ch = "r"
  BY <1>2, <1>3 DEF At
<1>5. SUFFICES \E p \in Nat :
        /\ pc' = "recv"  => /\ unread' = Repeat("x", p) \o (<<"r", "n">> \o F)
                            /\ i' > 0 => ch' = "x"
        /\ pc' = "again" => /\ unread' = <<"n">> \o F
                            /\ p = 0 /\ i' < BufSize - 1 /\ ch' = "r"
        /\ pc' = "end"   => \/ /\ unread' = Repeat("x", p) \o (<<"r", "n">> \o F)
                               /\ i' = BufSize - 1 /\ ch' = "x"
                            \/ /\ unread' = F
                               /\ p = 0 /\ i' < BufSize - 1 /\ ch' = "n"
        /\ i' + p = i + r
  <2>1. Pieces' = Pieces /\ Texts' = Texts /\ (ShortLines' <=> ShortLines)
    BY <1>1 DEF Pieces, Texts, ShortLines
  <2>2. ASSUME NEW p \in Nat, i' + p = i + r
        PROVE  /\ Pieces' = Texts' \o (PiecesOf(i' + p) \o PiecesFrom(request', k + 1))
               /\ ShortLines' => Len(lines') = k - 1 /\ i' + p = request'.lens[k]
    BY <1>1, <2>1, <2>2, Zenon DEF At
  <2>3. From(request', k + 1) = F /\ request'.eol = <<"r", "n">>
    BY <1>1, <1>2, <1>3
  <2> QED
    BY <1>5, <2>2, <2>3, Zenon DEF At
<1>6. CASE RecvByte
  <2>1. /\ pc = "recv" /\ i < BufSize - 1
        /\ ch' = Head(unread) /\ unread' = Tail(unread)
        /\ IF ch' \in Terminators THEN pc' = "again" /\ i' = i ELSE i' = i + 1 /\ pc' = pc
    BY <1>1, <1>6 DEF RecvByte, BufferFull
  <2>2. CASE r = 0
    <3>1. unread = <<"r", "n">> \o F
      BY <1>3, <1>4, <2>1, <2>2, RepeatParts
    <3>2. ch' = "r" /\ unread' = <<"n">> \o F
      BY <1>2, <2>1, <3>1, LineEndParts
    <3>3. pc' = "again" /\ i' = i
      BY <2>1, <3>2 DEF Terminators
    <3> QED
      BY <2>1, <2>2, <3>2, <3>3
  <2>3. CASE r > 0
    <3>1. ch' = "x" /\ unread' = Repeat("x", r - 1) \o (<<"r", "n">> \o F)
      BY <1>3, <1>4, <2>1, <2>3, RepeatParts
    <3>2. pc' = "recv" /\ i' = i + 1
      BY <2>1, <3>1 DEF Terminators
    <3>3. r - 1 \in Nat /\ i' + (r - 1) = i + r
      BY <1>1, <2>3, <3>2
    <3> QED
      BY <3>1, <3>2, <3>3
  <2>4. r = 0 \/ r > 0
    OBVIOUS
  <2> QED
    BY <2>2, <2>3, <2>4, Zenon
<1>7. CASE RecvNothing
  <2>1. pc = "recv" /\ unread = <<>>
    BY <1>7 DEF RecvNothing
  <2>2. Repeat("x", r) \o (<<"r", "n">> \o F) # <<>>
    BY <1>2, <1>3, RepeatParts, LineEndParts
  <2> QED
    BY <1>4, <2>1, <2>2
<1>8. CASE RecvFull
  <2>1. /\ pc = "recv" /\ i = BufSize - 1 /\ pc' = "end"
        /\ unread' = unread /\ i' = i /\ ch' = ch
    BY <1>8 DEF RecvFull, BufferFull
  <2>2. i > 0
    BY <2>1
  <2> QED
    BY <1>4, <2>1, <2>2
<1>9. CASE RecvAgain
  <2>1. pc = "again" /\ pc' = "end" /\ i' = i
    BY <1>9 DEF RecvAgain
  <2>2. unread = <<"n">> \o F /\ unread # <<>>
    BY <1>2, <1>4, <2>1, LineEndParts
  <2>3. ch' = Head(unread) /\ unread' = Tail(unread)
    BY <1>9, <2>2 DEF RecvAgain
  <2>4. ch' = "n" /\ unread' = F
    BY <1>2, <2>2, <2>3, LineEndParts
  <2> QED
    BY <1>4, <2>1, <2>4
<1> QED
  BY <1>6, <1>7, <1>8, <1>9


(* The next piece moves from what is to come to what was returned.         *)
LEMMA NextPiece ==
  ASSUME NEW s \in Seq(Nat), NEW m \in Nat, NEW p \in Seq(Nat), NEW g \in Seq(Nat)
  PROVE  /\ s \o (<<m>> \o g) = Append(s, m) \o g
         /\ s \o ((<<m>> \o p) \o g) = Append(s, m) \o (p \o g)
<1>1. PICK e \in Seq(Nat) : e = <<m>>
  <2>1. <<m>> \in Seq(Nat)
    OBVIOUS
  <2> QED
    BY <2>1, Zenon
<1>2. Append(s, m) = s \o e
  BY <1>1, AppendIsConcat
<1>3. ASSUME NEW t \in Seq(Nat)
      PROVE  (s \o e) \o t = s \o (e \o t)
  BY ConcatAssociative, SMTT(30)
<1>4. (e \o p) \o g = e \o (p \o g) /\ p \o g \in Seq(Nat)
  BY ConcatAssociative, ConcatProperties, SMTT(30)
<1>5. s \o (e \o g) = Append(s, m) \o g
  BY <1>2, <1>3, Zenon
<1>6. s \o ((e \o p) \o g) = Append(s, m) \o (p \o g)
  BY <1>2, <1>3, <1>4, Zenon
<1> QED
  BY <1>1, <1>5, <1>6, Zenon

LEMMA TextsNext ==
  ASSUME TypeOK, ReturnLine, ch # "z"
  PROVE  /\ Texts \in Seq(Nat) /\ Len(Texts) = Len(lines) /\ Len(lines) \in Nat
         /\ Texts' = Append(Texts, i) /\ Len(lines') = Len(lines) + 1
         /\ \A k \in 1..Len(lines) : lines'[k] = lines[k]
         /\ lines'[Len(lines) + 1].text = i /\ lines'[Len(lines) + 1].newline
<1>1. PICK line : line = [text |-> i, newline |-> TRUE]
  OBVIOUS
<1>2. lines' = Append(lines, line)
  BY <1>1 DEF ReturnLine
<1>3. /\ Len(lines) \in Nat /\ Len(lines') = Len(lines) + 1
      /\ \A k \in 1..Len(lines) : lines'[k] = lines[k]
      /\ lines'[Len(lines) + 1] = line
  BY <1>2 DEF TypeOK
<1>4. line.text = i /\ line.newline /\ i \in Nat
  BY <1>1, BufSizeAssumption DEF TypeOK
<1>5. \A k \in 1..Len(lines) : lines[k].text \in Nat
  <2>1. \A k \in 1..Len(lines) : lines[k] \in [text : 0..BufSize - 1, newline : BOOLEAN]
    BY ElementOfSeq, Zenon DEF TypeOK
  <2> QED
    BY <2>1, BufSizeAssumption
<1>6. Texts \in Seq(Nat) /\ Len(Texts) = Len(lines)
  BY <1>3, <1>5 DEF Texts
<1>7. Texts' = Append(Texts, i)
  <2>1. PICK l \in Nat : l = Len(lines) + 1
    BY <1>3
  <2>2. PICK u : u = Texts'
    OBVIOUS
  <2>3. u = [k \in 1..l |-> lines'[k].text]
    BY <1>3, <2>1, <2>2 DEF Texts
  <2>4. \A k \in 1..l : lines'[k].text \in Nat
    BY <1>3, <1>4, <1>5, <2>1
  <2>5. u \in Seq(Nat) /\ Len(u) = l /\ \A k \in 1..l : u[k] = lines'[k].text
    BY <2>3, <2>4
  <2>6. \A k \in 1..Len(lines) : Texts[k] = lines[k].text
    BY DEF Texts
  <2>7. /\ Append(Texts, i) \in Seq(Nat) /\ Len(Append(Texts, i)) = l
        /\ \A k \in 1..Len(lines) : Append(Texts, i)[k] = Texts[k]
        /\ Append(Texts, i)[l] = i
    BY <1>4, <1>6, <2>1
  <2>8. \A k \in 1..l : u[k] = Append(Texts, i)[k]
    <3> SUFFICES ASSUME NEW k \in 1..l PROVE u[k] = Append(Texts, i)[k]
      OBVIOUS
    <3>1. k = l \/ k \in 1..Len(lines)
      BY <1>3, <2>1
    <3> QED
      BY <1>3, <1>4, <2>1, <2>5, <2>6, <2>7, <3>1
  <2> QED
    BY <2>2, <2>5, <2>7, <2>8, SeqEqual
<1> QED
  BY <1>3, <1>4, <1>6, <1>7

LEMMA ToldNext ==
  ASSUME TypeOK, ReturnLine, ch # "z", CRLF, LinesArePieces,
         NEW g \in Seq(Nat), Pieces = Append(Texts, i) \o g
  PROVE  LinesArePieces'
<1>1. Pieces' = Pieces
  BY DEF ReturnLine, Pieces
<1>2. PICK t : t = Texts /\ t \in Seq(Nat) /\ Len(t) = Len(lines) /\ Len(lines) \in Nat
  BY TextsNext
<1>3. i \in Nat
  BY BufSizeAssumption DEF TypeOK
<1>4. PICK u : u = Append(t, i) /\ u \in Seq(Nat) /\ Len(u) = Len(lines) + 1 /\ u[Len(lines) + 1] = i
  <2>1. /\ Append(t, i) \in Seq(Nat) /\ Len(Append(t, i)) = Len(lines) + 1
        /\ Append(t, i)[Len(lines) + 1] = i
    BY <1>2, <1>3
  <2> QED
    BY <2>1, Zenon
<1>5. (u \o g)[Len(lines) + 1] = i
  <2>1. Len(lines) + 1 \in 1..Len(u) + Len(g) /\ Len(lines) + 1 <= Len(u)
    BY <1>2, <1>4
  <2> QED
    BY <1>4, <2>1, ConcatProperties
<1>6. Pieces[Len(lines) + 1] = i
  BY <1>2, <1>4, <1>5, Zenon
<1>7. \A k \in 1..Len(lines) : k <= Len(Pieces) =>
        lines[k].text = Pieces[k] /\ lines[k].newline
  BY DEF LinesArePieces
<1>8. ASSUME NEW k \in 1..Len(lines'), k <= Len(Pieces')
      PROVE  lines'[k].text = Pieces'[k] /\ lines'[k].newline
  <2>1. k = Len(lines) + 1 \/ k \in 1..Len(lines)
    BY TextsNext
  <2> QED
    BY <1>1, <1>6, <1>7, <1>8, <2>1, TextsNext
<1> QED
  BY <1>8 DEF LinesArePieces


(* A line of the head is returned, or a piece of a long one.               *)
LEMMA ReturnInHead ==
  ASSUME TypeOK, HeadLast, CRLF, LinesArePieces, InHead, ReturnLine
  PROVE  LinesArePieces' /\ (InHead' \/ BehindHead' \/ AfterHead')
<1> USE BufSizeAssumption
<1>1. PICK k \in 1..Len(request.lens), r \in Nat : At(k, r)
  BY DEF InHead
<1>2. /\ phase # "served" /\ pc = "end" /\ i \in 0..BufSize - 1
      /\ phase' = IF phase = "head" /\ (i = 0) THEN "served" ELSE "head"
      /\ pc' = IF phase' = "served" THEN "end" ELSE "recv"
      /\ i' = 0 /\ ch' = "z" /\ request' = request /\ unread' = unread
  BY DEF ReturnLine, LastOfHead, Blank, TypeOK, InHead
<1>3. PICK q \in Requests : q = request
  BY DEF TypeOK
<1>4. PICK n \in Nat : n = Len(q.lens) /\ \A l \in 1..n : q.lens[l] \in Nat
  BY RequestFields
<1>5. k \in 1..n /\ k + 1 \in 1..n + 1
  BY <1>1, <1>3, <1>4
<1>6. PICK F : F = From(q, k + 1) /\ F \in Seq(Bytes)
  BY <1>1, <1>3, RestType
<1>7. PICK G \in Seq(Nat) : G = PiecesFrom(q, k + 1)
  BY <1>1, <1>3, RestType
<1>8. /\ \/ /\ unread = Repeat("x", r) \o (q.eol \o F)
            /\ i = BufSize - 1 /\ ch = "x"
         \/ unread = F /\ r = 0 /\ i < BufSize - 1 /\ ch = "n"
      /\ Pieces = Texts \o (PiecesOf(i + r) \o G)
      /\ ShortLines => Len(lines) = k - 1 /\ i + r = q.lens[k]
  BY <1>1, <1>2, <1>3, <1>6, <1>7, Zenon DEF At
<1>9. ch # "z"
  BY <1>8
<1>10. Pieces' = Pieces /\ (ShortLines' <=> ShortLines) /\ (EndsBlank' <=> EndsBlank)
  BY <1>2 DEF Pieces, ShortLines, EndsBlank, Last
<1>11. /\ Texts \in Seq(Nat) /\ Len(Texts) = Len(lines) /\ Len(lines) \in Nat
       /\ Texts' = Append(Texts, i) /\ Len(lines') = Len(lines) + 1
  BY <1>9, TextsNext
<1>12. i \in Nat /\ Append(Texts, i) \in Seq(Nat)
  BY <1>2, <1>11
<1>13. ASSUME NEW p \in Seq(Nat)
       PROVE  /\ Texts \o (<<i>> \o G) = Append(Texts, i) \o G
              /\ Texts \o ((<<i>> \o p) \o G) = Append(Texts, i) \o (p \o G)
  <2>1. PICK t \in Seq(Nat), m \in Nat : t = Texts /\ m = i
    BY <1>11, <1>12, Zenon
  <2>2. /\ t \o (<<m>> \o G) = Append(t, m) \o G
        /\ t \o ((<<m>> \o p) \o G) = Append(t, m) \o (p \o G)
    BY NextPiece
  <2> QED
    BY <2>1, <2>2, Zenon
<1>14. phase = "head" <=> Len(lines) > 0
  <2>1. lines # <<>> <=> Len(lines) > 0
    BY <1>11, EmptySeq DEF TypeOK
  <2> QED
    BY <1>2, <2>1 DEF HeadLast, TypeOK
<1>15. ShortLines => q.lens[k] < BufSize - 1 /\ (k \in 2..n - 1 => q.lens[k] > 0)
  BY <1>3, <1>4, <1>5 DEF ShortLines
<1>16. CASE i = BufSize - 1
  <2>1. unread = Repeat("x", r) \o (q.eol \o F)
    <3>1. ~(i < BufSize - 1)
      BY <1>16
    <3> QED
      BY <1>8, <3>1, Zenon
  <2>2. ~ShortLines
    <3>1. q.lens[k] \in Nat
      BY <1>4, <1>5
    <3> QED
      BY <1>8, <1>15, <1>16, <3>1
  <2>3. PICK p \in Seq(Nat) : p = PiecesOf(r)
    BY PiecesOfValue
  <2>4. Pieces = Append(Texts, i) \o (p \o G)
    <3>1. PiecesOf(i + r) = <<i>> \o p
      BY <1>16, <2>3, PiecesOfValue
    <3> QED
      BY <1>8, <1>13, <2>3, <3>1, Zenon
  <2>5. LinesArePieces'
    <3>1. p \o G \in Seq(Nat)
      BY ConcatProperties
    <3> QED
      BY <1>9, <2>4, <3>1, ToldNext
  <2>6. phase' = "head" /\ pc' = "recv"
    BY <1>2, <1>16
  <2>7. Pieces' = Texts' \o (PiecesOf(i' + r) \o PiecesFrom(request', k + 1))
    <3>1. i' + r = r
      BY <1>2
    <3> QED
      BY <1>2, <1>3, <1>7, <1>10, <1>11, <2>3, <2>4, <3>1, Zenon
  <2>8. unread' = Repeat("x", r) \o (request'.eol \o From(request', k + 1))
    BY <1>2, <1>3, <1>6, <2>1, Zenon
  <2>9. At(k, r)'
    BY <1>2, <1>10, <2>2, <2>6, <2>7, <2>8 DEF At
  <2>10. InHead'
    BY <1>2, <1>3, <1>4, <1>5, <2>6, <2>9 DEF InHead
  <2> QED
    BY <2>5, <2>10
<1>17. CASE i < BufSize - 1
  <2>1. unread = F /\ r = 0 /\ i + r = i
    <3>1. i # BufSize - 1
      BY <1>12, <1>17
    <3>2. unread = F /\ r = 0
      BY <1>8, <3>1, Zenon
    <3> QED
      BY <1>12, <3>2
  <2>2. Pieces = Append(Texts, i) \o G
    <3>1. PiecesOf(i) = <<i>>
      BY <1>12, <1>17, PiecesOfValue
    <3> QED
      BY <1>8, <1>12, <1>13, <2>1, <3>1, Zenon
  <2>3. LinesArePieces'
    BY <1>9, <2>2, ToldNext
  <2>4. ASSUME ShortLines, EndsBlank
        PROVE  /\ phase' = "served" <=> k = n
               /\ k = n => unread' = Repeat("b", request'.body)
    <3>1. n > 1 /\ q.lens[n] = 0
      BY <1>3, <1>4, <2>4 DEF EndsBlank, Last
    <3>2. Len(lines) = k - 1 /\ i = q.lens[k]
      BY <1>8, <2>1, <2>4
    <3>3. phase' = "served" <=> k > 1 /\ i = 0
      BY <1>2, <1>5, <1>14, <3>2
    <3>4. phase' = "served" <=> k = n
      BY <1>5, <1>15, <2>4, <3>1, <3>2, <3>3
    <3>5. k = n => F = Repeat("b", q.body)
      BY <1>4, <1>6, FromParts, Zenon
    <3> QED
      BY <1>2, <1>3, <2>1, <3>4, <3>5
  <2>5. CASE phase' = "served"
    <3>1. AfterHead'
      BY <1>10, <2>4, <2>5 DEF AfterHead
    <3> QED
      BY <2>3, <3>1
  <2>6. CASE phase' # "served" /\ k = n
    <3>1. ~(ShortLines /\ EndsBlank)
      BY <2>4, <2>6
    <3>2. Len(Pieces) = Len(lines')
      <4>1. G = <<>>
        BY <1>4, <1>7, <2>6, PiecesFromParts
      <4>2. Pieces = Append(Texts, i)
        BY <1>12, <2>2, <4>1, ConcatEmptySeq
      <4> QED
        BY <1>11, <1>12, <4>2
    <3>3. BehindHead'
      BY <1>10, <1>11, <2>6, <3>1, <3>2 DEF BehindHead
    <3> QED
      BY <2>3, <3>3
  <2>7. CASE phase' # "served" /\ k # n
    <3>1. PICK l \in 1..n : l = k + 1
      BY <1>5, <2>7
    <3>2. PICK p \in Nat : p = q.lens[l]
      BY <1>4
    <3>3. F = Repeat("x", p) \o (q.eol \o From(q, l + 1))
      BY <1>4, <1>6, <3>1, <3>2, FromParts, Zenon
    <3>4. G = PiecesOf(p) \o PiecesFrom(q, l + 1)
      BY <1>4, <1>7, <3>1, <3>2, PiecesFromParts, Zenon
    <3>5. i' + p = p /\ pc' = "recv"
      BY <1>2, <2>7
    <3>6. Pieces' = Texts' \o (PiecesOf(i' + p) \o PiecesFrom(request', l + 1))
      BY <1>2, <1>3, <1>10, <1>11, <2>2, <3>4, <3>5, Zenon
    <3>7. unread' = Repeat("x", p) \o (request'.eol \o From(request', l + 1))
      BY <1>2, <1>3, <2>1, <3>3, Zenon
    <3>8. ShortLines' => Len(lines') = l - 1 /\ i' + p = request'.lens[l]
      <4>1. ShortLines => Len(lines) = k - 1
        BY <1>8
      <4>2. l - 1 = k /\ (Len(lines) = k - 1 => Len(lines) + 1 = k)
        BY <1>5, <1>11, <3>1
      <4> QED
        BY <1>2, <1>3, <1>10, <1>11, <3>2, <3>5, <4>1, <4>2, Zenon
    <3>9. At(l, p)'
      BY <1>2, <3>5, <3>6, <3>7, <3>8 DEF At
    <3>10. InHead'
      BY <1>2, <1>3, <1>4, <2>7, <3>9 DEF InHead
    <3> QED
      BY <2>3, <3>10
  <2> QED
    BY <2>5, <2>6, <2>7
<1> QED
  BY <1>2, <1>16, <1>17


IInv == TypeOK /\ Fits /\ HeadLast /\ Where

LEMMA WhereInit == Init => Where
<1> SUFFICES ASSUME Init, CRLF PROVE LinesArePieces /\ (InHead \/ BehindHead)
  BY DEF Where
<1>1. LinesArePieces
  BY DEF Init, LinesArePieces
<1>2. PICK q \in Requests : q = request
  BY DEF Init
<1>3. PICK n \in Nat : n = Len(q.lens) /\ \A l \in 1..n : q.lens[l] \in Nat
  BY RequestFields
<1>4. Pieces = PiecesFrom(q, 1)
  BY <1>2, PiecesFromParts DEF Pieces, PieceLines
<1>5. CASE n = 0
  <2>1. Pieces = <<>>
    <3>1. n + 1 = 1
      BY <1>5
    <3> QED
      BY <1>3, <1>4, <3>1, PiecesFromParts, Zenon
  <2>2. ~EndsBlank
    BY <1>2, <1>3, <1>5 DEF EndsBlank
  <2>3. Len(lines) >= Len(Pieces) /\ phase # "served"
    BY <2>1 DEF Init
  <2> QED
    BY <1>1, <2>2, <2>3 DEF BehindHead
<1>6. CASE n # 0
  <2>1. PICK k \in 1..n : k = 1
    BY <1>6
  <2>2. PICK r \in Nat : r = q.lens[k]
    BY <1>3
  <2>3. Texts = <<>> /\ Len(lines) = 0 /\ i = 0 /\ pc = "recv" /\ phase # "served"
    BY DEF Init, Texts
  <2>4. unread = Repeat("x", r) \o (q.eol \o From(q, k + 1))
    <3>1. unread = From(q, k)
      BY <1>2, <2>1, FromParts DEF Init
    <3> QED
      BY <1>3, <2>2, <3>1, FromParts, Zenon
  <2>5. Pieces = Texts \o (PiecesOf(i + r) \o PiecesFrom(q, k + 1))
    <3>1. Pieces = PiecesOf(r) \o PiecesFrom(q, k + 1)
      BY <1>3, <1>4, <2>1, <2>2, PiecesFromParts, Zenon
    <3>2. PICK p \in Seq(Nat) : p = Pieces
      <4>1. 1 \in 1..n + 1
        OBVIOUS
      <4> QED
        BY <1>3, <1>4, <4>1, PiecesFromParts
    <3>3. <<>> \o p = p
      BY ConcatEmptySeq
    <3>4. i + r = r
      BY <2>3
    <3> QED
      BY <2>3, <3>1, <3>2, <3>3, <3>4, Zenon
  <2>6. Len(lines) = k - 1 /\ i + r = q.lens[k]
    BY <2>1, <2>2, <2>3
  <2>7. At(k, r)
    BY <1>2, <2>3, <2>4, <2>5, <2>6 DEF At
  <2>8. InHead
    BY <1>2, <1>3, <2>3, <2>7 DEF InHead
  <2> QED
    BY <1>1, <2>8
<1> QED
  BY <1>5, <1>6

LEMMA WhereNext == TypeOK /\ HeadLast /\ Where /\ [Next]_vars => Where'
<1> SUFFICES ASSUME TypeOK, HeadLast, Where, [Next]_vars, CRLF'
             PROVE  LinesArePieces' /\ (InHead' \/ BehindHead' \/ AfterHead')
  BY DEF Where
<1>1. request' = request
  BY DEF Next, Reading, Idle, RecvByte, RecvNothing, RecvFull, RecvAgain, ReturnLine, vars
<1>2. /\ CRLF /\ Pieces' = Pieces
      /\ (ShortLines' <=> ShortLines) /\ (EndsBlank' <=> EndsBlank)
  BY <1>1 DEF CRLF, Pieces, ShortLines, EndsBlank, Last
<1>3. LinesArePieces /\ (InHead \/ BehindHead \/ AfterHead)
  BY <1>2 DEF Where
<1>4. CASE UNCHANGED vars
  <2>1. UNCHANGED <<request, unread, i, ch, pc, phase, lines, top>>
    BY <1>4 DEF vars, local
  <2>2. LinesArePieces'
    BY <1>2, <1>3, <2>1 DEF LinesArePieces
  <2>3. BehindHead => BehindHead'
    BY <1>2, <2>1 DEF BehindHead
  <2>4. AfterHead => AfterHead'
    BY <1>2, <2>1 DEF AfterHead
  <2>5. InHead => InHead'
    <3>1. Texts' = Texts
      BY <2>1 DEF Texts
    <3>2. \A k \in 1..Len(request.lens), r \in Nat : At(k, r) => At(k, r)'
      BY <1>2, <2>1, <3>1, Zenon DEF At
    <3>3. Len(request'.lens) = Len(request.lens) /\ phase' = phase
      BY <2>1
    <3> QED
      BY <3>2, <3>3, Zenon DEF InHead
  <2> QED
    BY <1>3, <2>2, <2>3, <2>4, <2>5
<1>5. CASE phase # "served" /\ (RecvByte \/ RecvNothing \/ RecvFull \/ RecvAgain)
  <2>1. phase' = phase /\ lines' = lines
    BY <1>5 DEF RecvByte, RecvNothing, RecvFull, RecvAgain
  <2>2. LinesArePieces'
    BY <1>2, <1>3, <2>1 DEF LinesArePieces
  <2>3. CASE BehindHead
    <3>1. BehindHead'
      BY <1>2, <2>1, <2>3 DEF BehindHead
    <3> QED
      BY <2>2, <3>1
  <2>4. CASE InHead
    <3>1. PICK k \in 1..Len(request.lens), r \in Nat : At(k, r)
      BY <2>4 DEF InHead
    <3>2. PICK p \in Nat : At(k, p)'
      BY <1>2, <1>5, <3>1, StayInLine
    <3>3. k \in 1..Len(request'.lens) /\ phase' # "served"
      BY <1>1, <1>5, <2>1
    <3>4. InHead'
      BY <3>2, <3>3, Zenon DEF InHead
    <3> QED
      BY <2>2, <3>4
  <2> QED
    BY <1>3, <1>5, <2>3, <2>4 DEF AfterHead
<1>6. CASE phase # "served" /\ ReturnLine
  <2>1. CASE InHead
    BY <1>2, <1>3, <1>6, <2>1, ReturnInHead
  <2>2. CASE BehindHead
    <3>1. PICK line : lines' = Append(lines, line)
      BY <1>6 DEF ReturnLine
    <3>2. /\ Len(lines) \in Nat /\ Len(lines') = Len(lines) + 1
          /\ \A k \in 1..Len(lines) : lines'[k] = lines[k]
      BY <3>1 DEF TypeOK
    <3>3. PICK m : m = Len(Pieces) /\ Len(lines) >= m /\ m \in Nat
      <4>1. Pieces \in Seq(Nat)
        <5>1. 1 \in 1..Len(request.lens) + 1 /\ request \in Requests
          BY RequestFields DEF TypeOK
        <5> QED
          BY <5>1, PiecesFromParts DEF Pieces, PieceLines
      <4> QED
        BY <2>2, <4>1 DEF BehindHead
    <3>4. LinesArePieces'
      <4> SUFFICES ASSUME NEW k \in 1..Len(lines'), k <= m
                   PROVE  lines'[k].text = Pieces[k] /\ lines'[k].newline
        BY <1>2, <3>3 DEF LinesArePieces
      <4>1. k \in 1..Len(lines)
        BY <3>2, <3>3
      <4> QED
        BY <1>2, <1>3, <3>2, <3>3, <4>1 DEF LinesArePieces
    <3>5. phase' = "served" \/ (phase' # "served" /\ Len(lines') >= m)
      BY <3>2, <3>3
    <3> QED
      BY <1>2, <2>2, <3>3, <3>4, <3>5 DEF BehindHead, AfterHead
  <2> QED
    BY <1>3, <1>6, <2>1, <2>2 DEF AfterHead
<1> QED
  BY <1>4, <1>5, <1>6 DEF Next, Reading, Idle

LEMMA HeadLastInit == Init => HeadLast
BY DEF Init, HeadLast

LEMMA Invariance == Spec => []IInv
<1>1. Init => IInv
  BY TypeInit, FitsInit, HeadLastInit, WhereInit DEF IInv
<1>2. IInv /\ [Next]_vars => IInv'
  BY TypeNext, FitsNext, HeadLastNext, WhereNext DEF IInv
<1> QED
  BY <1>1, <1>2, PTL DEF Spec

(* Of lines that end in "\r\n" get_line returns every byte once, in order, *)
(* and one "\n" a piece (the comment at server_http.h:209).                *)
THEOREM LinesArePiecesAlways == Spec => []LinesArePieces
<1>1. IInv => LinesArePieces
  BY DEF IInv, Where, LinesArePieces
<1> QED
  BY <1>1, Invariance, PTL

(* The loops over the head end at the first blank piece after the request  *)
(* line: no blank one is passed over, and none is made up.                 *)
THEOREM HeadEndsAtBlankAlways == Spec => []HeadEndsAtBlank
<1>1. IInv => HeadEndsAtBlank
  <2> SUFFICES ASSUME IInv, CRLF, phase = "served"
               PROVE  /\ \A k \in 2..Len(lines) - 1 : lines[k].text > 0
                      /\ Len(lines) <= Len(Pieces) => Pieces[Len(lines)] = 0 /\ Len(lines) > 1
    BY DEF HeadEndsAtBlank
  <2>1. Len(lines) \in Nat /\ \A k \in 1..Len(lines) : lines[k].text \in Nat
    <3>1. \A k \in 1..Len(lines) : lines[k] \in [text : 0..BufSize - 1, newline : BOOLEAN]
      BY ElementOfSeq, Zenon DEF IInv, TypeOK
    <3> QED
      BY <3>1, BufSizeAssumption DEF IInv, TypeOK
  <2>2. ASSUME NEW k \in 2..Len(lines) - 1
        PROVE  lines[k].text > 0
    <3>1. k \in 2..Len(lines) /\ k # Len(lines) /\ k \in 1..Len(lines)
      BY <2>1, <2>2
    <3>2. lines[k].text # 0
      BY <3>1 DEF IInv, HeadLast
    <3> QED
      BY <2>1, <3>1, <3>2
  <2>3. Len(lines) > 1 /\ lines[Len(lines)].text = 0
    BY DEF IInv, HeadLast
  <2>4. Len(lines) <= Len(Pieces) => Pieces[Len(lines)] = 0
    <3>1. Len(lines) \in 1..Len(lines)
      BY <2>1, <2>3
    <3>2. LinesArePieces
      BY DEF IInv, Where
    <3> QED
      BY <2>3, <3>1, <3>2 DEF LinesArePieces
  <2> QED
    BY <2>2, <2>3, <2>4
<1> QED
  BY <1>1, Invariance, PTL

(* After a head of short lines the whole body, and only it, is left for    *)
(* the body loop of exec_cgi.                                              *)
THEOREM BodyIntactAlways == Spec => []BodyIntact
<1>1. IInv => BodyIntact
  BY DEF IInv, Where, InHead, BehindHead, AfterHead, BodyIntact
<1> QED
  BY <1>1, Invariance, PTL

=============================================================================
