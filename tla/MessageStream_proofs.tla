------------------------ MODULE MessageStream_proofs ------------------------
(***************************************************************************)
(* Proofs about MessageReader for every byte stream, every way to cut it   *)
(* into chunks and every radix and length limit of the varint.             *)
(***************************************************************************)
EXTENDS MessageStream, Flattening_proofs, FiniteSetTheorems

-----------------------------------------------------------------------------
(* Decoding.                                                               *)

LEMMA DecodedType ==
    ASSUME NEW s \in Seq(Byte), NEW i \in 1..Len(s)
    PROVE  DecodedAt(s, i) \in Seq(Seq(Byte))
<1>1. \A x \in Seq(Byte) : <<x>> \in Seq(Seq(Byte))
  OBVIOUS
<1>2. <<>> \in Seq(Seq(Byte))
  OBVIOUS
<1>3. s[i] \in Byte
  OBVIOUS
<1>4. <<s[i]>> \in Seq(Byte) /\ Replacement \in Seq(Byte)
  BY <1>3 DEF Replacement, Byte
<1>5. i < Len(s) => <<s[i], s[i + 1]>> \in Seq(Byte)
  <2> SUFFICES ASSUME i < Len(s) PROVE <<s[i], s[i + 1]>> \in Seq(Byte)
    OBVIOUS
  <2>1. s[i + 1] \in Byte
    OBVIOUS
  <2> QED BY <1>3, <2>1
<1> QED BY <1>1, <1>2, <1>4, <1>5 DEF DecodedAt

LEMMA TextAssociative ==
    ASSUME NEW x \in Seq(Seq(Byte)), NEW y \in Seq(Seq(Byte)), NEW z \in Seq(Seq(Byte))
    PROVE  (x \o y) \o z = x \o (y \o z)
BY PartsAssociative

\* The text of the bytes from first to last of s.
Chars(s, first, last) ==
    FlattenSeq([i \in 1..(last - first + 1) |-> DecodedAt(s, first - 1 + i)])

LEMMA CharsEmpty ==
    ASSUME NEW s, NEW first \in Int, NEW last \in Int, first = last + 1
    PROVE  Chars(s, first, last) = <<>>
<1>1. last - first + 1 = 0
  OBVIOUS
<1>2. [i \in 1..0 |-> DecodedAt(s, first - 1 + i)] = <<>>
  OBVIOUS
<1> QED BY <1>1, <1>2, FlattenEmpty DEF Chars

LEMMA CharsPieces ==
    ASSUME NEW s \in Seq(Byte), NEW first \in Nat \ {0}, NEW last \in Nat,
           first <= last + 1, last <= Len(s)
    PROVE  [i \in 1..(last - first + 1) |-> DecodedAt(s, first - 1 + i)] \in Seq(Seq(Seq(Byte)))
<1>1. last - first + 1 \in Nat
  OBVIOUS
<1>2. \A i \in 1..(last - first + 1) : DecodedAt(s, first - 1 + i) \in Seq(Seq(Byte))
  <2> TAKE i \in 1..(last - first + 1)
  <2>1. first - 1 + i \in 1..Len(s)
    OBVIOUS
  <2> QED BY <2>1, DecodedType
<1> QED BY <1>1, <1>2

LEMMA CharsType ==
    ASSUME NEW s \in Seq(Byte), NEW first \in Nat \ {0}, NEW last \in Nat,
           first <= last + 1, last <= Len(s)
    PROVE  Chars(s, first, last) \in Seq(Seq(Byte))
BY CharsPieces, FlattenType DEF Chars

LEMMA CharsGrow ==
    ASSUME NEW s \in Seq(Byte), NEW first \in Nat \ {0}, NEW last \in Nat,
           first <= last + 1, last < Len(s)
    PROVE  Chars(s, first, last + 1) = Chars(s, first, last) \o DecodedAt(s, last + 1)
<1> DEFINE n == last - first + 1
           old == [i \in 1..n |-> DecodedAt(s, first - 1 + i)]
           new == [i \in 1..(n + 1) |-> DecodedAt(s, first - 1 + i)]
           x == DecodedAt(s, last + 1)
<1>0. n \in Nat /\ last <= Len(s)
  OBVIOUS
<1>1. old \in Seq(Seq(Seq(Byte)))
  BY <1>0, CharsPieces
<1>2. x \in Seq(Seq(Byte))
  BY DecodedType
<1>3. first - 1 + (n + 1) = last + 1
  OBVIOUS
<1>4. new = Append(old, x)
  <2>1. Len(old) = n /\ new[n + 1] = x /\ \A i \in 1..n : new[i] = old[i]
    BY <1>0, <1>1, <1>3
  <2>2. \A i \in 1..(n + 1) : i = n + 1 \/ i \in 1..n
    BY <1>0
  <2>3. \A i \in 1..(n + 1) : new[i] \in Seq(Seq(Byte))
    <3> HIDE DEF old, x, new, n
    <3> QED BY <1>1, <1>2, <2>1, <2>2
  <2>4. new \in Seq(Seq(Seq(Byte))) /\ Len(new) = n + 1
    BY <1>0, <2>3
  <2> HIDE DEF old, x, new, n
  <2>5. /\ Append(old, x) \in Seq(Seq(Seq(Byte))) /\ Len(Append(old, x)) = n + 1
        /\ Append(old, x)[n + 1] = x /\ \A i \in 1..n : Append(old, x)[i] = old[i]
    BY <1>1, <1>2, <2>1, AppendProperties
  <2>6. \A i \in 1..(n + 1) : new[i] = Append(old, x)[i]
    BY <2>1, <2>2, <2>5
  <2> QED BY <2>4, <2>5, <2>6, SeqEqual
<1>5. (last + 1) - first + 1 = n + 1
  OBVIOUS
<1>6. Chars(s, first, last + 1) = FlattenSeq(new)
  BY <1>5 DEF Chars
<1>7. Chars(s, first, last) = FlattenSeq(old)
  BY DEF Chars
<1> HIDE DEF old, new, x, n
<1> QED BY <1>1, <1>2, <1>4, <1>6, <1>7, FlattenAppend DEF x

LEMMA CharsSplit ==
    ASSUME NEW s \in Seq(Byte), NEW a \in Nat \ {0}, NEW b \in Nat, NEW c \in Nat,
           a <= b + 1, b <= c, c <= Len(s)
    PROVE  Chars(s, a, c) = Chars(s, a, b) \o Chars(s, b + 1, c)
<1> DEFINE P(m) == b + m <= Len(s) =>
                     Chars(s, a, b + m) = Chars(s, a, b) \o Chars(s, b + 1, b + m)
<1>1. P(0)
  <2> SUFFICES ASSUME b <= Len(s) PROVE Chars(s, a, b) = Chars(s, a, b) \o Chars(s, b + 1, b)
    OBVIOUS
  <2>1. Chars(s, b + 1, b) = <<>>
    BY CharsEmpty
  <2>2. Chars(s, a, b) \in Seq(Seq(Byte))
    BY CharsType
  <2> QED BY <2>1, <2>2, ConcatEmptySeq
<1>2. ASSUME NEW m \in Nat, P(m) PROVE P(m + 1)
  <2> SUFFICES ASSUME b + (m + 1) <= Len(s)
               PROVE  Chars(s, a, b + (m + 1)) = Chars(s, a, b) \o Chars(s, b + 1, b + (m + 1))
    OBVIOUS
  <2> DEFINE k == b + m
  <2>0. k \in Nat /\ k < Len(s) /\ b + (m + 1) = k + 1 /\ a <= k + 1 /\ b + 1 <= k + 1
    OBVIOUS
  <2>1. Chars(s, a, k) = Chars(s, a, b) \o Chars(s, b + 1, k)
    BY <1>2, <2>0
  <2> HIDE DEF k
  <2>2. Chars(s, a, k + 1) = Chars(s, a, k) \o DecodedAt(s, k + 1)
    BY <2>0, CharsGrow
  <2>3. Chars(s, b + 1, k + 1) = Chars(s, b + 1, k) \o DecodedAt(s, k + 1)
    BY <2>0, CharsGrow
  <2>4. /\ Chars(s, a, b) \in Seq(Seq(Byte)) /\ Chars(s, b + 1, k) \in Seq(Seq(Byte))
        /\ DecodedAt(s, k + 1) \in Seq(Seq(Byte))
    <3>1. k + 1 \in 1..Len(s) /\ b <= Len(s) /\ k <= Len(s) /\ b + 1 \in Nat \ {0}
      BY <2>0
    <3> QED BY <2>0, <3>1, CharsType, DecodedType
  <2>5. (Chars(s, a, b) \o Chars(s, b + 1, k)) \o DecodedAt(s, k + 1)
          = Chars(s, a, b) \o (Chars(s, b + 1, k) \o DecodedAt(s, k + 1))
    BY <2>4, TextAssociative
  <2> QED BY <2>0, <2>1, <2>2, <2>3, <2>5
<1>3. \A m \in Nat : P(m)
  <2> HIDE DEF P
  <2> DEFINE T == {m \in Nat : P(m)}
  <2>1. T \subseteq Nat /\ 0 \in T /\ \A m \in T : m + 1 \in T
    BY <1>1, <1>2
  <2>2. T = Nat
    <3> HIDE DEF T
    <3> QED BY <2>1, SetInduction
  <2> QED BY <2>2
<1>4. c - b \in Nat /\ b + (c - b) = c
  OBVIOUS
<1>5. P(c - b)
  BY <1>3, <1>4
<1> QED BY <1>4, <1>5

\* Bytes that decode alike one by one decode alike together.
LEMMA CharsSame ==
    ASSUME NEW s, NEW t, NEW a \in Int, NEW b \in Int, NEW c \in Int, NEW d \in Int,
           b - a = d - c,
           \A i \in 1..(b - a + 1) : DecodedAt(s, a - 1 + i) = DecodedAt(t, c - 1 + i)
    PROVE  Chars(s, a, b) = Chars(t, c, d)
<1>1. [i \in 1..(b - a + 1) |-> DecodedAt(s, a - 1 + i)]
        = [i \in 1..(d - c + 1) |-> DecodedAt(t, c - 1 + i)]
  OBVIOUS
<1> QED BY <1>1 DEF Chars

\* A character reaches from position k of s over to the next.
Severed(s, k) == k \in 1..(Len(s) - 1) /\ s[k] \in Lead /\ s[k + 1] \in Cont

\* The part of a sequence from a to b.
LEMMA PartFacts ==
    ASSUME NEW S, NEW s \in Seq(S), NEW a \in Nat \ {0}, NEW b \in Nat, a <= b + 1, b <= Len(s),
           NEW n, n = b - a + 1
    PROVE  /\ n \in Nat /\ SubSeq(s, a, b) \in Seq(S) /\ Len(SubSeq(s, a, b)) = n
           /\ \A i \in 1..n : SubSeq(s, a, b)[i] = s[a - 1 + i]
<1> DEFINE u == SubSeq(s, a, b)
<1>1. n \in Nat /\ n = (IF a <= b THEN b - a + 1 ELSE 0) /\ a \in Int /\ b \in Int
  OBVIOUS
<1>2. \A i \in a..b : s[i] \in S
  OBVIOUS
<1>3. u \in Seq(S) /\ Len(u) = n /\ \A i \in 1..n : u[i] = s[a + i - 1]
  BY <1>1, <1>2, SubSeqProperties
<1>4. \A i \in 1..n : a + i - 1 = a - 1 + i
  OBVIOUS
<1> HIDE DEF u
<1>5. \A i \in 1..n : u[i] = s[a - 1 + i]
  BY <1>3, <1>4
<1> QED BY <1>1, <1>3, <1>5 DEF u

\* A part of a stream decodes as in the stream, unless its ends cut a character.
LEMMA DecodedPart ==
    ASSUME NEW s \in Seq(Byte), NEW a \in Nat \ {0}, NEW b \in Nat, a <= b + 1, b <= Len(s),
           ~Severed(s, a - 1), ~Severed(s, b)
    PROVE  DecodeUtf8(SubSeq(s, a, b)) = Chars(s, a, b)
<1> DEFINE n == b - a + 1
           u == SubSeq(s, a, b)
<1>1. n \in Nat /\ Len(u) = n /\ \A i \in 1..n : u[i] = s[a - 1 + i]
  BY PartFacts
<1> HIDE DEF u
<1>2. ASSUME NEW i \in 1..n PROVE DecodedAt(u, i) = DecodedAt(s, a - 1 + i)
  <2> DEFINE k == a - 1 + i
  <2>1. k \in Nat /\ k \in 1..Len(s) /\ k <= b /\ u[i] = s[k] /\ (i = 1 <=> k = a) /\ (i = n <=> k = b)
    BY <1>1, SMTT(60)
  <2>2. i < n => u[i + 1] = s[k + 1] /\ k < Len(s)
    <3> SUFFICES ASSUME i < n PROVE u[i + 1] = s[k + 1] /\ k < Len(s)
      OBVIOUS
    <3>1. i + 1 \in 1..n /\ a - 1 + (i + 1) = k + 1
      OBVIOUS
    <3> QED BY <1>1, <3>1
  <2>3. i > 1 => u[i - 1] = s[k - 1] /\ k > 1
    <3> SUFFICES ASSUME i > 1 PROVE u[i - 1] = s[k - 1] /\ k > 1
      OBVIOUS
    <3>1. i - 1 \in 1..n /\ a - 1 + (i - 1) = k - 1
      OBVIOUS
    <3> QED BY <1>1, <3>1
  <2>4. (i < n /\ u[i] \in Lead /\ u[i + 1] \in Cont)
          <=> (k < Len(s) /\ s[k] \in Lead /\ s[k + 1] \in Cont)
    <3>1. CASE i < n
      BY <2>1, <2>2, <3>1
    <3>2. CASE ~(i < n)
      <4>1. k = b
        BY <1>1, <2>1, <3>2
      <4> QED BY <2>1, <3>2, <4>1 DEF Severed
    <3> QED BY <3>1, <3>2
  <2>5. (u[i] \in Cont /\ i > 1 /\ u[i - 1] \in Lead)
          <=> (s[k] \in Cont /\ k > 1 /\ s[k - 1] \in Lead)
    <3>1. CASE i > 1
      BY <2>1, <2>3, <3>1
    <3>2. CASE ~(i > 1)
      <4>1. k = a
        BY <2>1, <3>2
      <4>2. k > 1 => (a - 1) \in 1..(Len(s) - 1) /\ (a - 1) + 1 = k
        BY <2>1, <4>1
      <4> QED BY <2>1, <3>2, <4>1, <4>2 DEF Severed
    <3> QED BY <3>1, <3>2
  <2> HIDE DEF k, n
  <2>6. i < n => <<u[i], u[i + 1]>> = <<s[k], s[k + 1]>>
    BY <2>1, <2>2
  <2>7. DecodedAt(u, i) = DecodedAt(s, k)
    BY <1>1, <2>1, <2>2, <2>4, <2>5, <2>6 DEF DecodedAt
  <2> QED BY <2>7 DEF k
<1>3. DecodeUtf8(u) = Chars(u, 1, n)
  <2>1. n - 1 + 1 = n /\ \A i \in 1..n : 1 - 1 + i = i
    BY <1>1
  <2>2. [i \in 1..n |-> DecodedAt(u, i)] = [i \in 1..n |-> DecodedAt(u, 1 - 1 + i)]
    BY <2>1
  <2> HIDE DEF n
  <2> QED BY <1>1, <2>1, <2>2 DEF DecodeUtf8, Chars
<1>4. Chars(u, 1, n) = Chars(s, a, b)
  <2>1. \A i \in 1..(n - 1 + 1) : DecodedAt(u, 1 - 1 + i) = DecodedAt(s, a - 1 + i)
    <3>1. n - 1 + 1 = n /\ \A i \in 1..n : 1 - 1 + i = i
      BY <1>1
    <3> QED BY <1>2, <3>1
  <2>2. [i \in 1..(n - 1 + 1) |-> DecodedAt(u, 1 - 1 + i)]
          = [i \in 1..(b - a + 1) |-> DecodedAt(s, a - 1 + i)]
    BY <2>1
  <2> QED BY <2>2 DEF Chars
<1> QED BY <1>3, <1>4 DEF u

LEMMA DecodedWhole ==
    ASSUME NEW s \in Seq(Byte)
    PROVE  DecodeUtf8(s) = Chars(s, 1, Len(s)) /\ DecodeUtf8(s) \in Seq(Seq(Byte))
<1>1. ~Severed(s, 1 - 1) /\ ~Severed(s, Len(s)) /\ Len(s) \in Nat /\ 1 <= Len(s) + 1
  BY DEF Severed
<1>2. SubSeq(s, 1, Len(s)) = s
  OBVIOUS
<1>3. DecodeUtf8(SubSeq(s, 1, Len(s))) = Chars(s, 1, Len(s))
  BY <1>1, DecodedPart
<1>4. Chars(s, 1, Len(s)) \in Seq(Seq(Byte))
  BY <1>1, CharsType
<1> QED BY <1>2, <1>3, <1>4

LEMMA Utf8Facts ==
    /\ LF \in Byte /\ LF \notin Lead /\ LF \notin Cont /\ LF < 128
    /\ SOH \in Byte /\ SOH \notin Lead /\ SOH \notin Cont /\ SOH < 128
    /\ \A c \in Lead : c \notin Cont /\ ~(c < 128) /\ c # LF /\ c # SOH
    /\ \A c \in Cont : ~(c < 128) /\ c # LF /\ c # SOH
BY Utf8Assumption DEF Utf8Assumption, LF, SOH, Byte

\* s begins t.
Begins(s, t) == Len(s) <= Len(t) /\ \A i \in 1..Len(s) : t[i] = s[i]

LEMMA DecodedBefore ==
    ASSUME NEW s \in Seq(Byte), NEW t \in Seq(Byte), Begins(s, t), NEW i \in 1..Len(s),
           i < Len(s) \/ ~Severed(t, i)
    PROVE  DecodedAt(s, i) = DecodedAt(t, i)
<1>1. Len(s) \in Nat /\ Len(t) \in Nat /\ s[i] = t[i] /\ (i > 1 => s[i - 1] = t[i - 1])
  BY DEF Begins
<1>2. CASE i < Len(s)
  <2>1. i < Len(t) /\ s[i + 1] = t[i + 1]
    BY <1>1, <1>2 DEF Begins
  <2> QED BY <1>1, <1>2, <2>1 DEF DecodedAt
<1>3. CASE ~(i < Len(s))
  <2>1. ~(i < Len(t) /\ t[i] \in Lead /\ t[i + 1] \in Cont)
    BY <1>1, <1>3 DEF Severed
  <2> QED BY <1>1, <1>3, <2>1 DEF DecodedAt
<1> QED BY <1>2, <1>3

LEMMA CharsBefore ==
    ASSUME NEW s \in Seq(Byte), NEW t \in Seq(Byte), Begins(s, t),
           NEW a \in Nat \ {0}, NEW b \in 0..Len(s), b < Len(s) \/ ~Severed(t, b)
    PROVE  Chars(s, a, b) = Chars(t, a, b)
<1>0. Len(s) \in Nat /\ b \in Int /\ a \in Int
  OBVIOUS
<1>1. ASSUME NEW i \in 1..(b - a + 1) PROVE DecodedAt(s, a - 1 + i) = DecodedAt(t, a - 1 + i)
  <2> DEFINE k == a - 1 + i
  <2>1. k \in 1..Len(s) /\ k <= b
    BY <1>0
  <2>2. k < Len(s) \/ ~Severed(t, k)
    <3>1. CASE k < b
      BY <1>0, <2>1, <3>1
    <3>2. CASE k = b
      BY <3>2
    <3> QED BY <1>0, <2>1, <3>1, <3>2
  <2> HIDE DEF k
  <2>3. DecodedAt(s, k) = DecodedAt(t, k)
    BY <2>1, <2>2, DecodedBefore
  <2> QED BY <2>3 DEF k
<1>2. [i \in 1..(b - a + 1) |-> DecodedAt(s, a - 1 + i)]
        = [i \in 1..(b - a + 1) |-> DecodedAt(t, a - 1 + i)]
  BY <1>1
<1> QED BY <1>2 DEF Chars

\* Only a newline decodes to a newline, and to nothing else.
LEMMA DecodedNewline ==
    ASSUME NEW s \in Seq(Byte), NEW i \in 1..Len(s), s[i] = LF
    PROVE  DecodedAt(s, i) = << <<LF>> >>
BY Utf8Facts DEF DecodedAt

LEMMA DecodedOther ==
    ASSUME NEW s \in Seq(Byte), NEW i \in 1..Len(s), s[i] # LF
    PROVE  \/ DecodedAt(s, i) = <<>>
           \/ \E c \in Seq(Byte) : c # <<LF>> /\ DecodedAt(s, i) = <<c>>
<1>0. s[i] \in Byte /\ (i < Len(s) => s[i + 1] \in Byte)
  OBVIOUS
<1>1. <<s[i]>> \in Seq(Byte) /\ <<s[i]>> # <<LF>>
  BY <1>0
<1>2. Replacement \in Seq(Byte) /\ Replacement # <<LF>>
  BY DEF Replacement, Byte
<1>3. i < Len(s) => <<s[i], s[i + 1]>> \in Seq(Byte) /\ <<s[i], s[i + 1]>> # <<LF>>
  <2> SUFFICES ASSUME i < Len(s) PROVE <<s[i], s[i + 1]>> \in Seq(Byte) /\ <<s[i], s[i + 1]>> # <<LF>>
    OBVIOUS
  <2>1. s[i] \in Byte /\ s[i + 1] \in Byte
    BY <1>0
  <2> QED BY <2>1
<1>4. CASE s[i] < 128
  BY <1>1, <1>4 DEF DecodedAt
<1>5. CASE ~(s[i] < 128) /\ s[i] \in Lead /\ i < Len(s) /\ s[i + 1] \in Cont
  BY <1>3, <1>5 DEF DecodedAt
<1>6. CASE /\ ~(s[i] < 128) /\ ~(s[i] \in Lead /\ i < Len(s) /\ s[i + 1] \in Cont)
           /\ s[i] \in Cont /\ i > 1 /\ s[i - 1] \in Lead
  BY <1>6 DEF DecodedAt
<1>7. CASE /\ ~(s[i] < 128) /\ ~(s[i] \in Lead /\ i < Len(s) /\ s[i + 1] \in Cont)
           /\ ~(s[i] \in Cont /\ i > 1 /\ s[i - 1] \in Lead)
  <2>1. DecodedAt(s, i) = <<Replacement>>
    BY <1>7 DEF DecodedAt
  <2> QED BY <1>2, <2>1
<1> QED BY <1>4, <1>5, <1>6, <1>7

LEMMA DecodeConcat ==
    ASSUME NEW u \in Seq(Byte), NEW v \in Seq(Byte), NEW w \in Seq(Byte),
           Len(w) = Len(u) + Len(v), Begins(u, w), \A k \in 1..Len(v) : w[Len(u) + k] = v[k],
           ~Severed(w, Len(u))
    PROVE  DecodeUtf8(w) = DecodeUtf8(u) \o DecodeUtf8(v)
<1> DEFINE n == Len(u)
           m == Len(w)
<1>1. n \in Nat /\ m \in Nat /\ n <= m /\ Len(v) \in Nat /\ Len(v) = m - n
  OBVIOUS
<1>2. DecodeUtf8(w) = Chars(w, 1, m)
  BY DecodedWhole
<1>3. DecodeUtf8(u) = Chars(u, 1, n)
  BY DecodedWhole
<1>4. Chars(w, 1, m) = Chars(w, 1, n) \o Chars(w, n + 1, m)
  <2>1. 1 <= n + 1 /\ m <= Len(w) /\ 1 \in Nat \ {0}
    BY <1>1
  <2> HIDE DEF n, m
  <2> QED BY <1>1, <2>1, CharsSplit
<1>5. Chars(u, 1, n) = Chars(w, 1, n)
  <2>1. n \in 0..Len(u) /\ ~Severed(w, n) /\ 1 \in Nat \ {0}
    BY <1>1
  <2> HIDE DEF n
  <2> QED BY <2>1, CharsBefore
<1>6. Chars(w, n + 1, m) = DecodeUtf8(v)
  <2> DEFINE a == n + 1
             x == SubSeq(w, a, m)
  <2>1. /\ a \in Nat \ {0} /\ a <= m + 1 /\ m <= Len(w) /\ a - 1 = n /\ Len(v) = m - a + 1
        /\ ~Severed(w, a - 1) /\ ~Severed(w, m)
    BY <1>1 DEF Severed
  <2> HIDE DEF n, m, a
  <2>2. DecodeUtf8(SubSeq(w, a, m)) = Chars(w, a, m)
    BY <1>1, <2>1, DecodedPart
  <2>3. /\ SubSeq(w, a, m) \in Seq(Byte) /\ Len(SubSeq(w, a, m)) = Len(v)
        /\ \A k \in 1..Len(v) : SubSeq(w, a, m)[k] = w[a - 1 + k]
    BY <1>1, <2>1, PartFacts
  <2>4. \A k \in 1..Len(v) : w[a - 1 + k] = v[k]
    BY <2>1 DEF n
  <2> HIDE DEF x
  <2>5. x = v
    <3>1. x \in Seq(Byte) /\ Len(x) = Len(v) /\ \A k \in 1..Len(v) : x[k] = v[k]
      BY <2>3, <2>4 DEF x
    <3> QED BY <3>1, SeqEqual
  <2> QED BY <2>2, <2>5 DEF x, a
<1> QED BY <1>2, <1>3, <1>4, <1>5, <1>6

LEMMA StripType ==
    ASSUME NEW S, NEW chars \in Seq(S)
    PROVE  StripCR(chars) \in Seq(S)
<1>1. SubSeq(chars, 1, Len(chars) - 1) \in Seq(S)
  <2>1. \A i \in 1..(Len(chars) - 1) : chars[i] \in S
    OBVIOUS
  <2>2. 1 \in Int /\ Len(chars) - 1 \in Int
    OBVIOUS
  <2> QED BY <2>1, <2>2, SubSeqProperties
<1> QED BY <1>1 DEF StripCR, Front

-----------------------------------------------------------------------------
(* The length of a binary message.                                         *)

Accumulations == [value : Nat, scale : Nat]
Accumulate(r, c) == [value |-> r.value + LowBits(c) * r.scale, scale |-> r.scale * Radix]

LEMMA VarintType ==
    ASSUME NEW c \in Byte, NEW v \in Nat, NEW scale \in Nat
    PROVE  v + LowBits(c) * scale \in Nat /\ scale * Radix \in Nat
<1>1. LowBits(c) \in Nat
  BY RadixAssumption DEF RadixAssumption, LowBits, Byte
<1> QED BY <1>1, RadixAssumption DEF RadixAssumption

LEMMA AccumulateType ==
    ASSUME NEW r \in Accumulations, NEW c \in Byte
    PROVE  Accumulate(r, c) \in Accumulations
<1>1. r.value \in Nat /\ r.scale \in Nat
  BY DEF Accumulations
<1>2. r.value + LowBits(c) * r.scale \in Nat /\ r.scale * Radix \in Nat
  BY <1>1, VarintType
<1> QED BY <1>2 DEF Accumulate, Accumulations

IsAccumulated(f, u) ==
    f = [k \in 0..Len(u) |-> IF k = 0 THEN [value |-> 0, scale |-> 1] ELSE Accumulate(f[k - 1], u[k])]

LEMMA AccumulatedFacts ==
    ASSUME NEW u \in Seq(Byte)
    PROVE  /\ IsAccumulated(Accumulated(u), u)
           /\ \A k \in 0..Len(u) : Accumulated(u)[k] \in Accumulations
<1> DEFINE n == Len(u)
           first == [value |-> 0, scale |-> 1]
           step == [k \in 1..n |-> [r \in Accumulations |-> Accumulate(r, u[k])]]
<1>1. n \in Nat /\ first \in Accumulations
  BY DEF Accumulations
<1>2. step \in [1..n -> [Accumulations -> Accumulations]]
  <2>1. \A k \in 1..n : u[k] \in Byte
    OBVIOUS
  <2> QED BY <2>1, AccumulateType
<1>3. PICK f \in [0..n -> Accumulations] : Recursion(f, n, first, step)
  <2> HIDE DEF n, first, step
  <2> QED BY <1>1, <1>2, RecursionExists
<1>4. IsAccumulated(f, u)
  <2>1. \A k \in 1..n : f[k - 1] \in Accumulations
    <3>1. \A k \in 1..n : k - 1 \in 0..n
      BY <1>1
    <3> QED BY <3>1
  <2>2. \A k \in 1..n : step[k][f[k - 1]] = Accumulate(f[k - 1], u[k])
    BY <2>1
  <2>3. \A k \in 0..n : k = 0 \/ k \in 1..n
    BY <1>1
  <2> HIDE DEF n, step, first
  <2>4. f = [k \in 0..n |-> IF k = 0 THEN first ELSE step[k][f[k - 1]]]
    BY <1>3 DEF Recursion
  <2>5. f = [k \in 0..n |-> IF k = 0 THEN first ELSE Accumulate(f[k - 1], u[k])]
    <3>1. \A k \in 0..n : (IF k = 0 THEN first ELSE step[k][f[k - 1]])
                            = (IF k = 0 THEN first ELSE Accumulate(f[k - 1], u[k]))
      BY <2>2, <2>3
    <3> QED BY <2>4, <3>1
  <2> QED BY <2>5 DEF IsAccumulated, n, first
<1>5. IsAccumulated(Accumulated(u), u)
  BY <1>4 DEF Accumulated, IsAccumulated, Accumulate
<1> DEFINE g == Accumulated(u)
<1>6. ASSUME NEW k \in 0..n PROVE g[k] \in Accumulations
  <2> HIDE DEF g, n, first
  <2> DEFINE T == {j \in Nat : g[j] \in Accumulations}
  <2>0. g = [j \in 0..n |-> IF j = 0 THEN first ELSE Accumulate(g[j - 1], u[j])]
    BY <1>5 DEF IsAccumulated, g, n, first
  <2>1. 0 \in T
    <3>1. 0 \in 0..n
      BY <1>1
    <3>2. g[0] = first
      BY <2>0, <3>1
    <3> QED BY <1>1, <3>2
  <2>2. ASSUME NEW j \in 1..n, j - 1 \in T PROVE j \in T
    <3>1. j \in 0..n /\ j # 0 /\ j \in Nat
      BY <1>1
    <3>2. g[j] = Accumulate(g[j - 1], u[j])
      BY <2>0, <3>1
    <3>3. u[j] \in Byte
      BY DEF n
    <3> QED BY <2>2, <3>1, <3>2, <3>3, AccumulateType
  <2>3. \A j \in 0..n : j \in T
    <3> HIDE DEF T
    <3> QED BY <1>1, <2>1, <2>2, Steps
  <2> QED BY <2>3
<1> QED BY <1>5, <1>6

LEMMA AccumulatedSteps ==
    ASSUME NEW u \in Seq(Byte)
    PROVE  /\ Accumulated(u)[0] = [value |-> 0, scale |-> 1]
           /\ \A k \in 1..Len(u) : Accumulated(u)[k] = Accumulate(Accumulated(u)[k - 1], u[k])
<1> DEFINE g == Accumulated(u)
<1>1. IsAccumulated(g, u) /\ Len(u) \in Nat
  BY AccumulatedFacts
<1> HIDE DEF g
<1>2. g = [k \in 0..Len(u) |-> IF k = 0 THEN [value |-> 0, scale |-> 1] ELSE Accumulate(g[k - 1], u[k])]
  BY <1>1 DEF IsAccumulated
<1>3. 0 \in 0..Len(u) /\ \A k \in 1..Len(u) : k \in 0..Len(u) /\ k # 0
  BY <1>1
<1>4. g[0] = [value |-> 0, scale |-> 1]
  BY <1>2, <1>3
<1>5. \A k \in 1..Len(u) : g[k] = Accumulate(g[k - 1], u[k])
  BY <1>2, <1>3
<1> QED BY <1>4, <1>5 DEF g

LEMMA AccumulatedBefore ==
    ASSUME NEW u \in Seq(Byte), NEW v \in Seq(Byte), Begins(u, v), NEW k \in 0..Len(u)
    PROVE  Accumulated(v)[k] = Accumulated(u)[k]
<1> DEFINE f == Accumulated(u)
           g == Accumulated(v)
           n == Len(u)
<1>1. n \in Nat /\ n <= Len(v) /\ Len(v) \in Nat /\ \A j \in 1..n : u[j] = v[j]
  BY DEF Begins
<1>2. f[0] = g[0]
  BY AccumulatedSteps
<1>3. ASSUME NEW j \in 1..n, f[j - 1] = g[j - 1] PROVE f[j] = g[j]
  <2>1. j \in 1..Len(u) /\ j \in 1..Len(v)
    BY <1>1
  <2>2. f[j] = Accumulate(f[j - 1], u[j]) /\ g[j] = Accumulate(g[j - 1], v[j])
    BY <2>1, AccumulatedSteps
  <2> QED BY <1>1, <1>3, <2>2
<1> HIDE DEF f, g
<1>4. Alike(f, g, n)
  BY <1>2, <1>3 DEF Alike
<1>5. \A j \in 0..n : f[j] = g[j]
  <2> HIDE DEF n
  <2> QED BY <1>1, <1>4, SameSteps
<1> QED BY <1>5 DEF f, g

LEMMA SmallestIs ==
    ASSUME NEW T, T \subseteq Int, NEW b \in T, \A y \in T : b <= y
    PROVE  Min(T) = b
<1>1. \A x \in T : (\A y \in T : x =< y) => x = b
  OBVIOUS
<1> QED BY <1>1 DEF Min

\* The varint at the beginning of u has r bytes.
VarintOf(u, r) ==
    /\ r \in 1..VarintMaxBytes /\ r <= Len(u)
    /\ \A k \in 1..(r - 1) : Continues(u[k])
    /\ ~Continues(u[r])

LEMMA DecodeEnds ==
    ASSUME NEW u \in Seq(Byte), NEW r, VarintOf(u, r)
    PROVE  DecodeVarint(u) = [ok |-> TRUE, value |-> Accumulated(u)[r].value, used |-> r]
<1> DEFINE T == {k \in 1..Len(u) : ~Continues(u[k])}
<1>1. r \in T /\ r \in 1..VarintMaxBytes /\ Len(u) \in Nat /\ T \subseteq Int
  BY DEF VarintOf
<1>2. \A y \in T : r <= y
  BY <1>1 DEF VarintOf
<1>3. SelectInSeq(u, LAMBDA c : ~Continues(c)) = r
  <2>1. Min(T) = r
    <3> HIDE DEF T
    <3> QED BY <1>1, <1>2, SmallestIs
  <2>2. T # {}
    BY <1>1
  <2> QED BY <2>1, <2>2 DEF SelectInSeq
<1>4. ~(r = 0 \/ r > VarintMaxBytes)
  BY <1>1, VarintMaxAssumption DEF VarintMaxAssumption
<1> QED BY <1>3, <1>4 DEF DecodeVarint

LEMMA DecodeContinues ==
    ASSUME NEW u \in Seq(Byte), \A k \in 1..Len(u) : k <= VarintMaxBytes => Continues(u[k])
    PROVE  DecodeVarint(u) = [ok |-> FALSE, value |-> 0, used |-> 0]
<1> DEFINE T == {k \in 1..Len(u) : ~Continues(u[k])}
           last == SelectInSeq(u, LAMBDA c : ~Continues(c))
<1>1. T \subseteq Nat /\ \A k \in T : k > VarintMaxBytes
  BY VarintMaxAssumption DEF VarintMaxAssumption
<1>2. last = IF T # {} THEN Min(T) ELSE 0
  BY DEF SelectInSeq
<1>3. T # {} => Min(T) \in T
  <2> SUFFICES ASSUME T # {} PROVE Min(T) \in T
    OBVIOUS
  <2> HIDE DEF T
  <2>1. PICK m \in T : \A y \in T : ~(y < m)
    BY <1>1, LeastOf
  <2>2. T \subseteq Int /\ \A y \in T : m <= y
    BY <1>1, <2>1
  <2> QED BY <2>2, SmallestIs
<1> HIDE DEF T
<1>4. last = 0 \/ last > VarintMaxBytes
  BY <1>1, <1>2, <1>3
<1> QED BY <1>4 DEF DecodeVarint

LEMMA DecodeType ==
    ASSUME NEW u \in Seq(Byte)
    PROVE  /\ DecodeVarint(u).ok \in BOOLEAN
           /\ DecodeVarint(u).value \in Nat
           /\ DecodeVarint(u).used \in Nat
<1>1. CASE \E r : VarintOf(u, r)
  <2>1. PICK r : VarintOf(u, r)
    BY <1>1
  <2>2. r \in 0..Len(u) /\ r \in Nat
    BY <2>1 DEF VarintOf
  <2>3. Accumulated(u)[r].value \in Nat
    BY <2>2, AccumulatedFacts DEF Accumulations
  <2>4. DecodeVarint(u) = [ok |-> TRUE, value |-> Accumulated(u)[r].value, used |-> r]
    BY <2>1, DecodeEnds
  <2> QED BY <2>2, <2>3, <2>4
<1>2. CASE ~(\E r : VarintOf(u, r))
  <2> DEFINE T == {k \in 1..Len(u) : k <= VarintMaxBytes /\ ~Continues(u[k])}
  <2>1. T = {}
    <3> SUFFICES ASSUME T # {} PROVE FALSE
      OBVIOUS
    <3>1. T \subseteq Nat
      OBVIOUS
    <3>2. PICK m \in T : \A y \in T : ~(y < m)
      <4> HIDE DEF T
      <4> QED BY <3>1, LeastOf
    <3>3. \A k \in 1..(m - 1) : Continues(u[k])
      BY <3>2, VarintMaxAssumption DEF VarintMaxAssumption
    <3>4. VarintOf(u, m)
      BY <3>2, <3>3, VarintMaxAssumption DEF VarintOf, VarintMaxAssumption
    <3> QED BY <1>2, <3>4
  <2>2. \A k \in 1..Len(u) : k <= VarintMaxBytes => Continues(u[k])
    BY <2>1
  <2>3. DecodeVarint(u) = [ok |-> FALSE, value |-> 0, used |-> 0]
    BY <2>2, DecodeContinues
  <2> QED BY <2>3
<1> QED BY <1>1, <1>2

-----------------------------------------------------------------------------
(* The parser's states.                                                   *)

Inv ==
    /\ ParserTypeOK
    /\ BuffersBelongToMessage
    /\ PayloadAsAnnounced
    /\ state = "LENGTH" => varint_bytes_read < VarintMaxBytes

Advances == data # <<>> => Len(data') < Len(data)

LEMMA InitInv == Init => Inv
BY VarintMaxAssumption
  DEF VarintMaxAssumption, Init, ReaderInit, Inv, ParserTypeOK, States, BuffersBelongToMessage, PayloadAsAnnounced

-----------------------------------------------------------------------------
(* The bytes of the chunk.                                                 *)

LEMMA TailFacts ==
    ASSUME NEW s \in Seq(Byte), s # <<>>
    PROVE  /\ Head(s) \in Byte /\ Tail(s) \in Seq(Byte)
           /\ Len(s) \in Nat \ {0} /\ Len(Tail(s)) = Len(s) - 1
BY HeadTailProperties, EmptySeq

LEMMA SuffixFacts ==
    ASSUME NEW s \in Seq(Byte), NEW m \in Nat, m > 1, s # <<>>
    PROVE  SubSeq(s, m, Len(s)) \in Seq(Byte) /\ Len(SubSeq(s, m, Len(s))) < Len(s)
<1>1. Len(s) \in Nat \ {0}
  BY TailFacts
<1>2. \A i \in m..Len(s) : s[i] \in Byte
  BY <1>1, ElementOfSeq
<1> QED
  BY <1>1, <1>2, SubSeqProperties

LEMMA PrefixFacts ==
    ASSUME NEW s \in Seq(Byte), NEW n \in 0..Len(s)
    PROVE  SubSeq(s, 1, n) \in Seq(Byte) /\ Len(SubSeq(s, 1, n)) = n
<1>1. Len(s) \in Nat
  BY LenProperties
<1>2. \A i \in 1..n : s[i] \in Byte
  BY <1>1, ElementOfSeq
<1> QED
  BY <1>1, <1>2, SubSeqProperties

-----------------------------------------------------------------------------
(* Each branch of the loop of feed keeps the invariant and consumes a byte. *)

LEMMA FeedLoopInv == Inv /\ FeedLoop => Inv' /\ Advances
<1> SUFFICES ASSUME Inv, FeedLoop PROVE Inv' /\ Advances
  OBVIOUS
<1> USE VarintMaxAssumption DEF VarintMaxAssumption
<1> USE DEF Inv, Advances, BuffersBelongToMessage, PayloadAsAnnounced, ParserTypeOK, States
<1>1. data \in Seq(Byte)
  OBVIOUS
<1>2. CASE IdleSOH
  BY <1>1, <1>2, TailFacts DEF IdleSOH, varint_vars, handler_vars
<1>3. CASE IdleNewline
  BY <1>1, <1>3, TailFacts DEF IdleNewline, TextEnd, parser_vars
<1>4. CASE FeedTextDelimiter
  <2>1. PICK k \in 0..(Len(data) - 1) :
            /\ state' = IF data[k + 1] = LF THEN "IDLE" ELSE "VERSION"
            /\ data' = SubSeq(data, k + 2, Len(data))
            /\ text_buf' = <<>>
            /\ UNCHANGED binary_buf
    BY <1>4 DEF FeedTextDelimiter, TextEnd, AfterText
  <2>2. data' \in Seq(Byte) /\ Len(data') < Len(data)
    <3>1. data # <<>>
      BY <1>4 DEF FeedTextDelimiter, AtText
    <3>2. k + 2 \in Nat /\ k + 2 > 1
      OBVIOUS
    <3> QED
      BY <1>1, <2>1, <3>1, <3>2, SuffixFacts
  <2>3. state # "PAYLOAD" /\ UNCHANGED <<varint_vars, payload_remaining>>
    BY <1>4 DEF FeedTextDelimiter, AtText
  <2> QED
    BY <2>1, <2>2, <2>3 DEF varint_vars
<1>5. CASE FeedTextPartial
  <2>1. data # <<>> /\ data' = <<>> /\ Len(data) \in Nat \ {0} /\ Len(data') = 0
    BY <1>1, <1>5, TailFacts, EmptySeq DEF FeedTextPartial, AtText
  <2> QED
    BY <1>5, <2>1 DEF FeedTextPartial, TextData, AtText, varint_vars
<1>6. CASE VersionKnown
  BY <1>1, <1>6, TailFacts DEF VersionKnown, handler_vars
<1>7. CASE VersionUnknown
  BY <1>1, <1>7, TailFacts DEF VersionUnknown, VersionByte, varint_vars, handler_vars
<1>8. CASE LengthMore
  <2>1. /\ Head(data) \in Byte /\ data' \in Seq(Byte) /\ Len(data') < Len(data)
    BY <1>1, <1>8, TailFacts DEF LengthMore
  <2>2. /\ varint_value' \in Nat /\ varint_scale' \in Nat
        /\ varint_bytes_read' = varint_bytes_read + 1
    BY <1>8, <2>1, VarintType DEF LengthMore, VarintByte
  <2>3. varint_bytes_read' \in 0..VarintMaxBytes
    BY <1>8, <2>2 DEF LengthMore
  <2>4. state' \in {"IDLE", "LENGTH"} /\ (state' = "LENGTH" => varint_bytes_read' < VarintMaxBytes)
    BY <1>8, <2>3 DEF LengthMore, TooLong
  <2> QED
    BY <1>8, <2>1, <2>2, <2>3, <2>4 DEF LengthMore, handler_vars
<1>9. CASE LengthDone
  <2>1. /\ Head(data) \in Byte /\ data' \in Seq(Byte) /\ Len(data') < Len(data)
    BY <1>1, <1>9, TailFacts DEF LengthDone
  <2>2. /\ varint_value' \in Nat /\ varint_scale' \in Nat
        /\ varint_bytes_read' = varint_bytes_read + 1
    BY <1>9, <2>1, VarintType DEF LengthDone, VarintByte
  <2>3. varint_bytes_read' \in 0..VarintMaxBytes
    BY <1>9, <2>2 DEF LengthDone
  <2>4. binary_buf' = <<>> /\ Len(binary_buf') = 0 /\ text_buf' = text_buf /\ state = "LENGTH"
    BY <1>9 DEF LengthDone
  <2>5. \/ state' = "IDLE" /\ payload_remaining' = payload_remaining
        \/ state' = "PAYLOAD" /\ payload_remaining' = varint_value' /\ varint_value' # 0
    BY <1>9 DEF LengthDone
  <2> QED
    BY <2>1, <2>2, <2>3, <2>4, <2>5
<1>10. CASE FeedPayload
  <2> DEFINE take == PayloadTake
  <2>1. data # <<>> /\ state = "PAYLOAD" /\ payload_remaining > 0
    BY <1>10 DEF FeedPayload
  <2>2. take \in 1..Len(data) /\ take <= payload_remaining
    BY <1>1, <2>1, TailFacts DEF PayloadTake
  <2>3. data' \in Seq(Byte) /\ Len(data') < Len(data)
    BY <1>1, <1>10, <2>1, <2>2, SuffixFacts DEF FeedPayload
  <2>4. SubSeq(data, 1, take) \in Seq(Byte) /\ Len(SubSeq(data, 1, take)) = take
    BY <1>1, <2>2, PrefixFacts
  <2>5. text_buf' = text_buf /\ UNCHANGED varint_vars /\ payload_remaining' = payload_remaining - take
    BY <1>10 DEF FeedPayload, BinaryEnd
  <2>6. CASE take = payload_remaining
    <3>1. binary_buf' = <<>> /\ state' = "IDLE"
      BY <1>10, <2>6 DEF FeedPayload, BinaryEnd
    <3> QED
      BY <2>1, <2>2, <2>3, <2>5, <2>6, <3>1 DEF varint_vars
  <2>7. CASE take # payload_remaining
    <3>1. binary_buf' = binary_buf \o SubSeq(data, 1, take) /\ state' = state
      BY <1>10, <2>7 DEF FeedPayload, Collected
    <3>2. binary_buf' \in Seq(Byte) /\ Len(binary_buf') = Len(binary_buf) + take
      BY <2>4, <3>1, ConcatProperties
    <3>3. Len(binary_buf) \in Nat /\ payload_remaining' \in Nat /\ payload_remaining' > 0
      BY <2>2, <2>5, <2>7, LenProperties
    <3>4. Len(binary_buf') + payload_remaining' = varint_value'
      BY <2>1, <2>2, <2>5, <3>2, <3>3 DEF varint_vars
    <3>5. state' = "PAYLOAD" /\ varint_bytes_read' = varint_bytes_read /\ text_buf' = <<>>
          /\ varint_value' \in Nat /\ varint_scale' \in Nat
      BY <2>1, <2>5, <3>1 DEF varint_vars
    <3> HIDE DEF PayloadTake
    <3> QED
      BY <2>3, <3>2, <3>3, <3>4, <3>5
  <2> QED
    BY <2>6, <2>7
<1> QED
  BY <1>2, <1>3, <1>4, <1>5, <1>6, <1>7, <1>8, <1>9, <1>10 DEF FeedLoop

LEMMA NextInv == Inv /\ [Next]_vars => Inv' /\ (Advances \/ UNCHANGED vars)
<1> SUFFICES ASSUME Inv, [Next]_vars PROVE Inv' /\ (Advances \/ UNCHANGED vars)
  OBVIOUS
<1> USE VarintMaxAssumption DEF VarintMaxAssumption
<1> USE DEF Inv, BuffersBelongToMessage, PayloadAsAnnounced, ParserTypeOK
<1>1. ASSUME NEW chunk \in Chunks, FeedChunk(chunk) PROVE Inv' /\ Advances
  <2>1. chunk \in Seq(Byte)
    <3>1. PICK m \in 0..MaxChunk : chunk \in [1..m -> Alphabet]
      BY DEF Chunks, SeqOf
    <3>2. m \in Nat /\ chunk \in [1..m -> Byte]
      BY <3>1, AlphabetAssumption DEF AlphabetAssumption
    <3> QED
      BY <3>2
  <2>2. data' = chunk /\ data = <<>> /\ UNCHANGED <<parser_vars, handler_vars>>
    BY <1>1 DEF FeedChunk, Feed
  <2> QED
    BY <2>1, <2>2 DEF FeedChunk, Feed, Advances, parser_vars, handler_vars
<1>2. CASE FeedIteration
  BY <1>2, FeedLoopInv DEF FeedIteration
<1>3. CASE DrainMessages
  BY <1>3 DEF DrainMessages, Drain, Advances, parser_vars
<1>4. CASE ResetReader
  BY <1>4 DEF ResetReader, Reset, ResetHandler, Advances, States
<1>5. CASE UNCHANGED vars
  BY <1>5 DEF vars, reader_vars, parser_vars, handler_vars
<1> QED
  BY <1>1, <1>2, <1>3, <1>4, <1>5 DEF Next

-----------------------------------------------------------------------------
LEMMA Invariance == Spec => []Inv
BY InitInv, NextInv, PTL DEF Spec

\* On any byte stream, garbage included, text and payload buffers are used only
\* inside the message they belong to.
THEOREM BuffersCorrect == Spec => []BuffersBelongToMessage
<1>1. Inv => BuffersBelongToMessage
  BY DEF Inv
<1> QED
  BY Invariance, <1>1, PTL

\* A binary message is collected to exactly the length its header announced.
THEOREM PayloadCorrect == Spec => []PayloadAsAnnounced
<1>1. Inv => PayloadAsAnnounced
  BY DEF Inv
<1> QED
  BY Invariance, <1>1, PTL

\* Every iteration of the loop of feed consumes a byte of the chunk, so feed
\* returns after at most as many iterations as the chunk has bytes.
THEOREM FeedTerminates == Spec => FeedAdvances
<1>1. Inv /\ [Next]_vars => [data # <<>> => Len(data') < Len(data)]_vars
  BY NextInv DEF Advances
<1> QED
  BY Invariance, <1>1, PTL DEF Spec, FeedAdvances

-----------------------------------------------------------------------------
(* The lines of a text.                                                    *)

Characters == Seq(Byte)
Partitions == [whole : Seq(Seq(Characters)), rest : Seq(Characters)]
Split(p, c) ==
    IF c = <<LF>>
    THEN [whole |-> Append(p.whole, StripCR(p.rest)), rest |-> <<>>]
    ELSE [whole |-> p.whole, rest |-> Append(p.rest, c)]

LEMMA SplitType ==
    ASSUME NEW p \in Partitions, NEW c \in Characters
    PROVE  Split(p, c) \in Partitions
<1>1. p.whole \in Seq(Seq(Characters)) /\ p.rest \in Seq(Characters)
  BY DEF Partitions
<1>2. StripCR(p.rest) \in Seq(Characters)
  BY <1>1, StripType
<1>3. Append(p.whole, StripCR(p.rest)) \in Seq(Seq(Characters))
  BY <1>1, <1>2, AppendProperties
<1>4. Append(p.rest, c) \in Seq(Characters) /\ <<>> \in Seq(Characters)
  BY <1>1, AppendProperties
<1> QED BY <1>1, <1>3, <1>4 DEF Partitions, Split

Partitioned(f, chars) ==
    f = [i \in 0..Len(chars) |->
            IF i = 0 THEN [whole |-> <<>>, rest |-> <<>>] ELSE Split(f[i - 1], chars[i])]

LEMMA PartitionExists ==
    ASSUME NEW chars \in Seq(Characters)
    PROVE  \E f \in [0..Len(chars) -> Partitions] :
              Partitioned(f, chars) /\ Partition(chars) = f[Len(chars)]
<1> DEFINE n == Len(chars)
           first == [whole |-> <<>>, rest |-> <<>>]
           step == [i \in 1..n |-> [p \in Partitions |-> Split(p, chars[i])]]
<1>1. n \in Nat /\ first \in Partitions
  BY DEF Partitions
<1>2. step \in [1..n -> [Partitions -> Partitions]]
  <2>1. \A i \in 1..n : chars[i] \in Characters
    OBVIOUS
  <2> QED BY <2>1, SplitType
<1>3. PICK f \in [0..n -> Partitions] : Recursion(f, n, first, step)
  <2> HIDE DEF n, first, step
  <2> QED BY <1>1, <1>2, RecursionExists
<1>4. Partitioned(f, chars)
  <2>1. \A i \in 1..n : f[i - 1] \in Partitions
    <3>1. \A i \in 1..n : i - 1 \in 0..n
      BY <1>1
    <3> QED BY <3>1
  <2>2. \A i \in 1..n : step[i][f[i - 1]] = Split(f[i - 1], chars[i])
    BY <2>1
  <2>3. \A i \in 0..n : i = 0 \/ i \in 1..n
    BY <1>1
  <2> HIDE DEF n, step, first
  <2>4. f = [i \in 0..n |-> IF i = 0 THEN first ELSE step[i][f[i - 1]]]
    BY <1>3 DEF Recursion
  <2>5. f = [i \in 0..n |-> IF i = 0 THEN first ELSE Split(f[i - 1], chars[i])]
    <3>1. \A i \in 0..n : (IF i = 0 THEN first ELSE step[i][f[i - 1]])
                            = (IF i = 0 THEN first ELSE Split(f[i - 1], chars[i]))
      BY <2>2, <2>3
    <3> QED BY <2>4, <3>1
  <2> QED BY <2>5 DEF Partitioned, n, first
<1>5. PICK g : Partitioned(g, chars) /\ Partition(chars) = g[Len(chars)]
  BY <1>4 DEF Partition, Partitioned, Split
<1>6. f[n] = g[n]
  <2>0. f = [i \in 0..n |-> IF i = 0 THEN first ELSE Split(f[i - 1], chars[i])]
        /\ g = [i \in 0..n |-> IF i = 0 THEN first ELSE Split(g[i - 1], chars[i])]
    BY <1>4, <1>5 DEF Partitioned
  <2>1. f[0] = first /\ g[0] = first
    <3>1. 0 \in 0..n
      BY <1>1
    <3> QED BY <2>0, <3>1
  <2>2. ASSUME NEW i \in 1..n, f[i - 1] = g[i - 1] PROVE f[i] = g[i]
    <3>1. i \in 0..n /\ i # 0
      BY <1>1
    <3>2. f[i] = Split(f[i - 1], chars[i]) /\ g[i] = Split(g[i - 1], chars[i])
      BY <2>0, <3>1
    <3> QED BY <2>2, <3>2
  <2>3. \A i \in 0..n : f[i] = g[i]
    <3> HIDE DEF n, first
    <3>1. Alike(f, g, n)
      BY <2>1, <2>2 DEF Alike
    <3> QED BY <1>1, <3>1, SameSteps
  <2>4. n \in 0..n
    BY <1>1
  <2> QED BY <2>3, <2>4
<1> QED BY <1>4, <1>5, <1>6

LEMMA PartitionEmpty == Partition(<<>>) = [whole |-> <<>>, rest |-> <<>>]
<1>1. <<>> \in Seq(Characters) /\ Len(<<>>) = 0
  OBVIOUS
<1>2. PICK f : Partitioned(f, <<>>) /\ Partition(<<>>) = f[0]
  BY <1>1, PartitionExists
<1>3. 0 \in 0..0
  OBVIOUS
<1> QED BY <1>1, <1>2, <1>3 DEF Partitioned

LEMMA PartitionAppend ==
    ASSUME NEW chars \in Seq(Characters), NEW c \in Characters
    PROVE  Partition(Append(chars, c)) = Split(Partition(chars), c)
<1> DEFINE n == Len(chars)
           t == Append(chars, c)
<1>1. /\ t \in Seq(Characters) /\ Len(t) = n + 1 /\ n \in Nat
      /\ \A i \in 1..n : t[i] = chars[i]
      /\ t[n + 1] = c
  BY AppendProperties
<1>2. PICK f : Partitioned(f, chars) /\ Partition(chars) = f[n]
  BY PartitionExists
<1> HIDE DEF t
<1>3. PICK g : Partitioned(g, t) /\ Partition(t) = g[n + 1]
  BY <1>1, PartitionExists
<1> DEFINE first == [whole |-> <<>>, rest |-> <<>>]
<1> HIDE DEF n, first
<1>4. /\ f = [i \in 0..n |-> IF i = 0 THEN first ELSE Split(f[i - 1], chars[i])]
      /\ g = [i \in 0..(n + 1) |-> IF i = 0 THEN first ELSE Split(g[i - 1], t[i])]
  BY <1>1, <1>2, <1>3 DEF Partitioned, n, first
<1>5. Alike(f, g, n)
  <2>1. f[0] = g[0]
    <3>1. 0 \in 0..n /\ 0 \in 0..(n + 1)
      BY <1>1
    <3> QED BY <1>4, <3>1
  <2>2. ASSUME NEW i \in 1..n, f[i - 1] = g[i - 1] PROVE f[i] = g[i]
    <3>1. i \in 0..n /\ i \in 0..(n + 1) /\ i # 0
      BY <1>1
    <3>2. f[i] = Split(f[i - 1], chars[i]) /\ g[i] = Split(g[i - 1], t[i])
      BY <1>4, <3>1
    <3> QED BY <1>1, <2>2, <3>2
  <2> QED BY <2>1, <2>2 DEF Alike
<1>6. f[n] = g[n]
  <2>1. n \in 0..n
    BY <1>1
  <2> QED BY <1>1, <1>5, <2>1, SameSteps
<1>7. g[n + 1] = Split(g[n], c)
  <2>1. n + 1 \in 0..(n + 1) /\ n + 1 # 0 /\ (n + 1) - 1 = n
    BY <1>1
  <2>2. g[n + 1] = Split(g[(n + 1) - 1], t[n + 1])
    BY <1>4, <2>1
  <2> QED BY <1>1, <2>1, <2>2
<1> QED BY <1>2, <1>3, <1>6, <1>7 DEF n, t

-----------------------------------------------------------------------------
(* The newlines of a stream.                                               *)

\* How many newlines there are up to position m.
Newlines(s, m) == {j \in 1..m : s[j] = LF}
Rank(s, m) == Cardinality(Newlines(s, m))

\* e is the last newline up to m, or 0.
LastEnd(s, m, e) ==
    /\ e \in 0..m
    /\ e # 0 => s[e] = LF
    /\ \A k \in (e + 1)..m : s[k] # LF

LEMMA NewlinesFinite ==
    ASSUME NEW s, NEW m \in Nat
    PROVE  IsFiniteSet(Newlines(s, m)) /\ Rank(s, m) \in Nat
<1>1. IsFiniteSet(1..m) /\ Newlines(s, m) \in SUBSET (1..m)
  BY FS_Interval DEF Newlines
<1>2. IsFiniteSet(Newlines(s, m))
  BY <1>1, FS_Subset
<1> QED BY <1>2, FS_CardinalityType DEF Rank

LEMMA RankNone == ASSUME NEW s PROVE Rank(s, 0) = 0
<1>1. Newlines(s, 0) = {}
  BY DEF Newlines
<1> QED BY <1>1, FS_EmptySet DEF Rank

LEMMA RankStep ==
    ASSUME NEW s, NEW m \in Nat
    PROVE  Rank(s, m + 1) = IF s[m + 1] = LF THEN Rank(s, m) + 1 ELSE Rank(s, m)
<1>1. CASE s[m + 1] = LF
  <2>1. Newlines(s, m + 1) = Newlines(s, m) \cup {m + 1} /\ m + 1 \notin Newlines(s, m)
    BY <1>1 DEF Newlines
  <2>2. IsFiniteSet(Newlines(s, m))
    BY NewlinesFinite
  <2>3. Cardinality(Newlines(s, m) \cup {m + 1}) = Cardinality(Newlines(s, m)) + 1
    BY <2>1, <2>2, FS_AddElement
  <2> QED BY <1>1, <2>1, <2>3 DEF Rank
<1>2. CASE s[m + 1] # LF
  <2>1. Newlines(s, m + 1) = Newlines(s, m)
    BY <1>2 DEF Newlines
  <2> QED BY <1>2, <2>1 DEF Rank
<1> QED BY <1>1, <1>2

LEMMA RankGrows ==
    ASSUME NEW s, NEW m \in Nat, NEW e \in 1..m, s[e] = LF
    PROVE  Rank(s, e) \in 1..Rank(s, m)
<1>1. IsFiniteSet(Newlines(s, m)) /\ Rank(s, m) \in Nat
  BY NewlinesFinite
<1>2. Newlines(s, e) \in SUBSET Newlines(s, m)
  BY DEF Newlines
<1>3. Rank(s, e) <= Rank(s, m)
  BY <1>1, <1>2, FS_Subset DEF Rank
<1>4. IsFiniteSet(Newlines(s, e)) /\ Rank(s, e) \in Nat
  <2>1. e \in Nat
    OBVIOUS
  <2> QED BY <2>1, NewlinesFinite
<1>5. e \in Newlines(s, e)
  BY DEF Newlines
<1>6. Rank(s, e) # 0
  BY <1>4, <1>5, FS_EmptySet DEF Rank
<1> QED BY <1>1, <1>3, <1>4, <1>6

LEMMA LastEndExists ==
    ASSUME NEW s, NEW m \in Nat
    PROVE  \E e : LastEnd(s, m, e)
<1> DEFINE T == {k \in Nat : \E e : LastEnd(s, k, e)}
<1>1. 0 \in T
  <2>1. LastEnd(s, 0, 0)
    BY DEF LastEnd
  <2> QED BY <2>1
<1>2. ASSUME NEW k \in T PROVE k + 1 \in T
  <2>1. PICK e : LastEnd(s, k, e)
    OBVIOUS
  <2>2. CASE s[k + 1] = LF
    <3>1. LastEnd(s, k + 1, k + 1)
      BY <2>2 DEF LastEnd
    <3> QED BY <3>1
  <2>3. CASE s[k + 1] # LF
    <3>1. LastEnd(s, k + 1, e)
      BY <2>1, <2>3 DEF LastEnd
    <3> QED BY <3>1
  <2> QED BY <2>2, <2>3
<1>3. T = Nat
  <2> HIDE DEF T
  <2>1. T \subseteq Nat
    BY DEF T
  <2> QED BY <1>1, <1>2, <2>1, SetInduction
<1> QED BY <1>3

LEMMA LastEndUnique ==
    ASSUME NEW s, NEW m \in Nat, NEW d, NEW e, LastEnd(s, m, d), LastEnd(s, m, e)
    PROVE  d = e
BY DEF LastEnd

\* The lines `all` are those that end up to position m of s.
LinesTo(all, s, m) ==
    /\ Len(all) = Rank(s, m)
    /\ \A e \in 1..m : \A b \in Nat :
          s[e] = LF /\ LastEnd(s, e - 1, b) => all[Rank(s, e)] = StripCR(Chars(s, b + 1, e - 1))

LEMMA LinesToSame ==
    ASSUME NEW all, NEW s \in Seq(Byte), NEW m \in Nat, LinesTo(all, s, m), s[m + 1] # LF
    PROVE  LinesTo(all, s, m + 1)
<1>1. Len(all) = Rank(s, m + 1)
  BY RankStep DEF LinesTo
<1>2. \A e \in 1..(m + 1) : s[e] = LF => e \in 1..m
  OBVIOUS
<1> QED BY <1>1, <1>2 DEF LinesTo

LEMMA LinesToMore ==
    ASSUME NEW all \in Seq(Seq(Characters)), NEW s \in Seq(Byte), NEW m \in Nat,
           LinesTo(all, s, m), s[m + 1] = LF, NEW d \in Nat, LastEnd(s, m, d),
           NEW line \in Seq(Characters), line = StripCR(Chars(s, d + 1, m))
    PROVE  LinesTo(Append(all, line), s, m + 1)
<1> DEFINE more == Append(all, line)
<1>1. /\ Len(more) = Len(all) + 1 /\ Len(all) \in Nat /\ more[Len(all) + 1] = line
      /\ \A i \in 1..Len(all) : more[i] = all[i]
  BY AppendProperties
<1> HIDE DEF more
<1>2. Rank(s, m + 1) = Rank(s, m) + 1 /\ Len(all) = Rank(s, m)
  BY RankStep DEF LinesTo
<1>3. ASSUME NEW e \in 1..(m + 1), NEW b \in Nat, s[e] = LF, LastEnd(s, e - 1, b)
      PROVE  more[Rank(s, e)] = StripCR(Chars(s, b + 1, e - 1))
  <2>1. CASE e = m + 1
    <3>1. e - 1 = m /\ LastEnd(s, m, b)
      BY <1>3, <2>1
    <3>2. b = d
      BY <3>1, LastEndUnique
    <3>3. Rank(s, e) = Len(all) + 1
      BY <1>2, <2>1
    <3> QED BY <1>1, <3>1, <3>2, <3>3
  <2>2. CASE e # m + 1
    <3>1. e \in 1..m
      BY <2>2
    <3>2. Rank(s, e) \in 1..Len(all)
      BY <1>2, <1>3, <3>1, RankGrows
    <3>3. all[Rank(s, e)] = StripCR(Chars(s, b + 1, e - 1))
      BY <1>3, <3>1 DEF LinesTo
    <3> QED BY <1>1, <3>2, <3>3
  <2> QED BY <2>1, <2>2
<1> QED BY <1>1, <1>2, <1>3 DEF LinesTo, more

\* A newline more, or a byte more, of a stream.
Cutting(p, old, s, m) ==
    /\ p \in Partitions
    /\ \E e \in Nat : LastEnd(s, m, e) /\ p.rest = Chars(s, e + 1, m)
    /\ LinesTo(old \o p.whole, s, m)

LEMMA SplitNewline ==
    ASSUME NEW p
    PROVE  /\ Split(p, <<LF>>).whole = Append(p.whole, StripCR(p.rest))
           /\ Split(p, <<LF>>).rest = <<>>
BY DEF Split

LEMMA CuttingStep ==
    ASSUME NEW s \in Seq(Byte), NEW old \in Seq(Seq(Characters)), NEW m \in Nat, m < Len(s),
           NEW text \in Seq(Characters), Cutting(Partition(text), old, s, m)
    PROVE  Cutting(Partition(text \o DecodedAt(s, m + 1)), old, s, m + 1)
<1> DEFINE p == Partition(text)
           x == DecodedAt(s, m + 1)
<1>0. m + 1 \in 1..Len(s)
  OBVIOUS
<1>1. /\ p \in Partitions /\ LinesTo(old \o p.whole, s, m)
      /\ p.whole \in Seq(Seq(Characters)) /\ p.rest \in Seq(Characters)
  BY DEF Cutting, Partitions
<1>2. PICK e \in Nat : LastEnd(s, m, e) /\ p.rest = Chars(s, e + 1, m)
  BY DEF Cutting
<1>3. e <= m
  BY <1>2 DEF LastEnd
<1>4. Chars(s, e + 1, m + 1) = Chars(s, e + 1, m) \o x
  <2>1. e + 1 \in Nat \ {0} /\ e + 1 <= m + 1
    BY <1>3
  <2> QED BY <2>1, CharsGrow
<1> HIDE DEF p
<1>5. CASE s[m + 1] = LF
  <2>1. x = << <<LF>> >> /\ <<LF>> \in Characters
    BY <1>0, <1>5, DecodedNewline, Utf8Facts DEF Characters
  <2>2. text \o x = Append(text, <<LF>>)
    BY <2>1, AppendIsConcat
  <2>3. Partition(text \o x) = Split(p, <<LF>>)
    BY <2>1, <2>2, PartitionAppend DEF p
  <2>4. StripCR(p.rest) \in Seq(Characters)
    BY <1>1, StripType
  <2>5. Split(p, <<LF>>) = [whole |-> Append(p.whole, StripCR(p.rest)), rest |-> <<>>]
    BY DEF Split
  <2>6. Split(p, <<LF>>) \in Partitions
    BY <1>1, <2>1, SplitType
  <2>7. old \o Append(p.whole, StripCR(p.rest)) = Append(old \o p.whole, StripCR(p.rest))
    BY <1>1, <2>4, SMTT(60)
  <2>8. old \o p.whole \in Seq(Seq(Characters))
    BY <1>1
  <2>9. LinesTo(old \o Append(p.whole, StripCR(p.rest)), s, m + 1)
    <3>1. StripCR(p.rest) = StripCR(Chars(s, e + 1, m))
      BY <1>2
    <3> QED BY <1>1, <1>2, <1>5, <2>4, <2>7, <2>8, <3>1, LinesToMore
  <2>10. LastEnd(s, m + 1, m + 1)
    BY <1>5 DEF LastEnd
  <2>11. <<>> = Chars(s, (m + 1) + 1, m + 1)
    <3>1. m + 1 \in Int /\ (m + 1) + 1 \in Int
      OBVIOUS
    <3> QED BY <3>1, CharsEmpty
  <2> DEFINE q == Split(p, <<LF>>)
  <2>12. q.whole = Append(p.whole, StripCR(p.rest)) /\ q.rest = <<>>
    BY SplitNewline
  <2>13. q \in Partitions
    BY <2>6
  <2> HIDE DEF q
  <2>14. /\ q \in Partitions /\ LinesTo(old \o q.whole, s, m + 1)
         /\ m + 1 \in Nat /\ q.rest = Chars(s, (m + 1) + 1, m + 1)
    BY <2>9, <2>11, <2>12, <2>13
  <2>15. Cutting(q, old, s, m + 1)
    BY <2>10, <2>14 DEF Cutting
  <2> QED BY <2>3, <2>15 DEF q
<1>6. CASE s[m + 1] # LF
  <2>1. LastEnd(s, m + 1, e)
    BY <1>2, <1>6 DEF LastEnd
  <2>2. LinesTo(old \o p.whole, s, m + 1)
    BY <1>1, <1>6, LinesToSame
  <2>3. CASE x = <<>>
    <3>1. text \o x = text /\ Chars(s, e + 1, m + 1) = p.rest
      <4>1. p.rest \o <<>> = p.rest /\ text \o <<>> = text
        BY <1>1
      <4> QED BY <1>2, <1>4, <2>3, <4>1
    <3> QED BY <1>1, <2>1, <2>2, <3>1 DEF Cutting, p
  <2>4. ASSUME NEW c \in Characters, c # <<LF>>, x = <<c>>
        PROVE  Cutting(Partition(text \o x), old, s, m + 1)
    <3>1. text \o x = Append(text, c)
      BY <2>4, AppendIsConcat
    <3>2. Partition(text \o x) = Split(p, c) /\ Split(p, c) \in Partitions
      BY <1>1, <3>1, PartitionAppend, SplitType DEF p
    <3>3. Split(p, c) = [whole |-> p.whole, rest |-> Append(p.rest, c)]
      BY <2>4 DEF Split
    <3>4. Append(p.rest, c) = Chars(s, e + 1, m + 1)
      <4>1. Append(p.rest, c) = p.rest \o x
        BY <1>1, <2>4, AppendIsConcat
      <4> QED BY <1>2, <1>4, <4>1
    <3> QED BY <2>1, <2>2, <3>2, <3>3, <3>4 DEF Cutting
  <2> QED BY <1>0, <1>6, <2>3, <2>4, DecodedOther DEF Characters
<1> QED BY <1>5, <1>6

\* The bytes of s the incremental decoder has decoded.
Settled(s) == Len(s) - Len(HeldBack(s))

LEMMA SettledFacts ==
    ASSUME NEW s \in Seq(Byte)
    PROVE  /\ HeldBack(s) \in Seq(Byte) /\ Settled(s) \in 0..Len(s)
           /\ Len(HeldBack(s)) = Len(s) - Settled(s)
           /\ \A i \in 1..(Len(s) - Settled(s)) : HeldBack(s)[i] = s[Settled(s) + i]
           /\ \A k \in (Settled(s) + 1)..Len(s) : s[k] \in Lead
           /\ Settled(s) = Len(s) => s = <<>> \/ s[Len(s)] \notin Lead
<1>1. Len(s) \in Nat /\ (s # <<>> => Len(s) # 0 /\ s[Len(s)] \in Byte)
  OBVIOUS
<1>2. CASE s # <<>> /\ s[Len(s)] \in Lead
  <2>1. HeldBack(s) = <<s[Len(s)]>> /\ <<s[Len(s)]>> \in Seq(Byte) /\ Len(<<s[Len(s)]>>) = 1
    BY <1>1, <1>2 DEF HeldBack, Last
  <2>2. Settled(s) = Len(s) - 1 /\ Len(s) # 0
    BY <1>1, <1>2, <2>1 DEF Settled
  <2>3. \A i \in 1..(Len(s) - Settled(s)) : HeldBack(s)[i] = s[Settled(s) + i]
    <3> SUFFICES ASSUME NEW i \in 1..(Len(s) - Settled(s)) PROVE HeldBack(s)[i] = s[Settled(s) + i]
      OBVIOUS
    <3>1. i = 1 /\ Settled(s) + i = Len(s)
      BY <1>1, <2>2
    <3> QED BY <2>1, <3>1
  <2>4. \A k \in (Settled(s) + 1)..Len(s) : k = Len(s)
    BY <1>1, <2>2
  <2> QED BY <1>1, <1>2, <2>1, <2>2, <2>3, <2>4
<1>3. CASE ~(s # <<>> /\ s[Len(s)] \in Lead)
  <2>1. HeldBack(s) = <<>> /\ Settled(s) = Len(s)
    BY <1>1, <1>3 DEF HeldBack, Last, Settled
  <2> QED BY <1>1, <1>3, <2>1
<1> QED BY <1>2, <1>3

LEMMA SettledUncut ==
    ASSUME NEW s \in Seq(Byte), NEW t \in Seq(Byte), Begins(s, t)
    PROVE  ~Severed(t, Settled(s))
<1> SUFFICES ASSUME Severed(t, Settled(s)) PROVE FALSE
  OBVIOUS
<1> DEFINE n == Settled(s)
<1>1. n \in 1..(Len(t) - 1) /\ t[n] \in Lead /\ t[n + 1] \in Cont
  BY DEF Severed
<1>2. n \in 0..Len(s) /\ \A k \in (n + 1)..Len(s) : s[k] \in Lead
  BY SettledFacts
<1>3. n = Len(s) => s = <<>> \/ s[Len(s)] \notin Lead
  BY SettledFacts
<1> HIDE DEF n
<1>4. CASE n = Len(s)
  <2>1. s # <<>> /\ t[n] = s[Len(s)]
    BY <1>1, <1>4 DEF Begins
  <2> QED BY <1>1, <1>3, <1>4, <2>1
<1>5. CASE n # Len(s)
  <2>1. n + 1 \in (n + 1)..Len(s) /\ n + 1 \in 1..Len(s)
    BY <1>1, <1>2, <1>5
  <2>2. s[n + 1] \in Lead /\ t[n + 1] = s[n + 1]
    BY <1>2, <2>1 DEF Begins
  <2> QED BY <1>1, <2>2, Utf8Facts
<1> QED BY <1>4, <1>5

LEMMA ConcatBegins ==
    ASSUME NEW S, NEW s \in Seq(S), NEW c \in Seq(S)
    PROVE  /\ s \o c \in Seq(S) /\ Len(s \o c) = Len(s) + Len(c)
           /\ Begins(s, s \o c)
           /\ \A i \in 1..Len(c) : (s \o c)[Len(s) + i] = c[i]
<1>1. /\ s \o c \in Seq(S) /\ Len(s \o c) = Len(s) + Len(c) /\ Len(s) \in Nat /\ Len(c) \in Nat
      /\ \A i \in 1..(Len(s) + Len(c)) :
            (s \o c)[i] = IF i <= Len(s) THEN s[i] ELSE c[i - Len(s)]
  BY ConcatProperties
<1>2. \A i \in 1..Len(s) : i \in 1..(Len(s) + Len(c)) /\ i <= Len(s)
  BY <1>1
<1>3. \A i \in 1..Len(c) : /\ Len(s) + i \in 1..(Len(s) + Len(c)) /\ ~(Len(s) + i <= Len(s))
                           /\ (Len(s) + i) - Len(s) = i
  BY <1>1
<1>4. \A i \in 1..Len(c) : (s \o c)[Len(s) + i] = c[i]
  BY <1>1, <1>3
<1> QED BY <1>1, <1>2, <1>4 DEF Begins

\* What is decoded of a chunk and the byte held back from the chunk before it.
ChunkDecoded(s, t, bytes) ==
    /\ bytes \in Seq(Byte)
    /\ HeldBack(bytes) = HeldBack(t)
    /\ Settled(s) <= Settled(t)
    /\ SubSeq(bytes, 1, Len(bytes) - Len(HeldBack(bytes))) = SubSeq(t, Settled(s) + 1, Settled(t))

LEMMA DecodedChunk ==
    ASSUME NEW s \in Seq(Byte), NEW chunk \in Seq(Byte), chunk # <<>>,
           NEW t, t = s \o chunk, NEW bytes, bytes = HeldBack(s) \o chunk
    PROVE  ChunkDecoded(s, t, bytes)
<1> DEFINE n == Settled(s)
           m == Settled(t)
           h == HeldBack(s)
<1>1. /\ t \in Seq(Byte) /\ Len(t) = Len(s) + Len(chunk) /\ Begins(s, t)
      /\ \A i \in 1..Len(chunk) : t[Len(s) + i] = chunk[i]
  BY ConcatBegins
<1>2. /\ h \in Seq(Byte) /\ n \in 0..Len(s) /\ Len(h) = Len(s) - n
      /\ \A i \in 1..(Len(s) - n) : h[i] = s[n + i]
  BY SettledFacts
<1> HIDE DEF n, h
<1>3. /\ bytes \in Seq(Byte) /\ Len(bytes) = Len(h) + Len(chunk) /\ Begins(h, bytes)
      /\ \A i \in 1..Len(chunk) : bytes[Len(h) + i] = chunk[i]
  <2>1. bytes = h \o chunk
    BY DEF h
  <2>2. h \in Seq(Byte)
    BY <1>2
  <2>3. /\ h \o chunk \in Seq(Byte) /\ Len(h \o chunk) = Len(h) + Len(chunk) /\ Begins(h, h \o chunk)
        /\ \A i \in 1..Len(chunk) : (h \o chunk)[Len(h) + i] = chunk[i]
    BY <2>2, ConcatBegins
  <2> QED BY <2>1, <2>3
<1>4. Len(s) \in Nat /\ Len(chunk) \in Nat \ {0} /\ Len(h) \in Nat
  BY <1>2
<1>5. bytes[Len(bytes)] = chunk[Len(chunk)] /\ t[Len(t)] = chunk[Len(chunk)] /\ bytes # <<>> /\ t # <<>>
  <2>1. Len(chunk) \in 1..Len(chunk)
    BY <1>4
  <2>2. Len(bytes) # 0 /\ Len(t) # 0
    BY <1>1, <1>3, <1>4
  <2> QED BY <1>1, <1>3, <2>1, <2>2
<1>6. HeldBack(bytes) = HeldBack(t)
  BY <1>5 DEF HeldBack, Last
<1>7. m \in 0..Len(t) /\ Len(HeldBack(t)) = Len(t) - m /\ Len(HeldBack(t)) <= 1
  <2>1. m \in 0..Len(t) /\ Len(HeldBack(t)) = Len(t) - m
    BY <1>1, SettledFacts
  <2>2. Len(HeldBack(t)) <= 1
    BY DEF HeldBack
  <2> QED BY <2>1, <2>2
<1>8. ASSUME NEW i \in 1..Len(bytes) PROVE bytes[i] = t[n + i]
  <2>1. CASE i <= Len(h)
    <3>1. bytes[i] = h[i]
      BY <1>4, <2>1, <1>3 DEF Begins
    <3>2. h[i] = s[n + i] /\ n + i \in 1..Len(s)
      BY <1>2, <1>4, <2>1
    <3>3. t[n + i] = s[n + i]
      BY <1>1, <3>2 DEF Begins
    <3> QED BY <3>1, <3>2, <3>3
  <2>2. CASE ~(i <= Len(h))
    <3> DEFINE j == i - Len(h)
    <3>1. j \in 1..Len(chunk) /\ Len(h) + j = i /\ Len(s) + j = n + i
      BY <1>2, <1>3, <1>4, <2>2
    <3> HIDE DEF j
    <3>2. bytes[i] = chunk[j] /\ t[n + i] = chunk[j]
      BY <1>1, <1>3, <3>1
    <3> QED BY <3>2
  <2> QED BY <2>1, <2>2
<1> HIDE DEF m
<1>9. n <= m
  BY <1>1, <1>2, <1>4, <1>7
<1> DEFINE last == Len(bytes) - Len(HeldBack(bytes))
<1>10. last \in 0..Len(bytes) /\ last = m - n
  BY <1>1, <1>2, <1>3, <1>4, <1>6, <1>7
<1>11. SubSeq(bytes, 1, last) = SubSeq(t, n + 1, m)
  <2> DEFINE u == SubSeq(bytes, 1, last)
             v == SubSeq(t, n + 1, m)
  <2>1. u \in Seq(Byte) /\ Len(u) = last /\ \A i \in 1..last : u[i] = bytes[i]
    <3>1. last \in Nat /\ 1 <= last + 1 /\ last <= Len(bytes) /\ last = last - 1 + 1
          /\ \A i \in 1..last : 1 - 1 + i = i
      BY <1>3, <1>4, <1>10
    <3> HIDE DEF last
    <3>2. u \in Seq(Byte) /\ Len(u) = last /\ \A i \in 1..last : u[i] = bytes[1 - 1 + i]
      BY <1>3, <3>1, PartFacts
    <3> HIDE DEF u
    <3> QED BY <3>1, <3>2
  <2>2. v \in Seq(Byte) /\ Len(v) = last /\ \A i \in 1..last : v[i] = t[n + i]
    <3> DEFINE first == n + 1
    <3>1. first \in Nat \ {0} /\ m \in Nat /\ first <= m + 1 /\ m <= Len(t) /\ last = m - first + 1
          /\ \A i \in 1..last : first - 1 + i = n + i
      BY <1>1, <1>2, <1>4, <1>7, <1>9, <1>10
    <3> HIDE DEF last, first
    <3> HIDE DEF m, n
    <3>2. SubSeq(t, first, m) \in Seq(Byte) /\ Len(SubSeq(t, first, m)) = last
      BY <3>1, PartFacts
    <3>3. \A i \in 1..last : SubSeq(t, first, m)[i] = t[first - 1 + i]
      BY <3>1, PartFacts
    <3>4. v = SubSeq(t, first, m)
      BY DEF first
    <3> HIDE DEF v
    <3> QED BY <3>1, <3>2, <3>3, <3>4
  <2> HIDE DEF u, v, last
  <2>3. \A i \in 1..last : u[i] = v[i]
    <3>1. \A i \in 1..last : i \in 1..Len(bytes)
      BY <1>3, <1>4, <1>10
    <3> QED BY <1>8, <2>1, <2>2, <3>1
  <2>4. u = v
    BY <2>1, <2>2, <2>3, SeqEqual
  <2> QED BY <2>4 DEF u, v
<1> QED BY <1>3, <1>6, <1>9, <1>11 DEF n, m, ChunkDecoded

-----------------------------------------------------------------------------
(* A LineFramer's lines.                                                   *)

LineInv ==
    /\ decoder = HeldBack(fed)
    /\ got_lines \in Seq(Seq(Characters))
    /\ lines \in Seq(Seq(Characters))
    /\ \E e \in Nat : LastEnd(fed, Settled(fed), e) /\ line_buf = Chars(fed, e + 1, Settled(fed))
    /\ LinesTo(got_lines \o lines, fed, Settled(fed))

LEMMA LinesToBefore ==
    ASSUME NEW s \in Seq(Byte), NEW t \in Seq(Byte), Begins(s, t), NEW n \in 0..Len(s),
           NEW all, LinesTo(all, s, n), NEW e \in Nat, LastEnd(s, n, e)
    PROVE  LinesTo(all, t, e)
<1>1. e \in 0..n /\ Len(s) \in Nat /\ \A i \in 1..n : t[i] = s[i]
  BY DEF LastEnd, Begins
<1>2. Rank(t, e) = Rank(s, n)
  <2>1. Newlines(t, e) = Newlines(s, n)
    BY <1>1 DEF Newlines, LastEnd
  <2> QED BY <2>1 DEF Rank
<1>3. ASSUME NEW d \in 1..e, NEW b \in Nat, t[d] = LF, LastEnd(t, d - 1, b)
      PROVE  all[Rank(t, d)] = StripCR(Chars(t, b + 1, d - 1))
  <2>1. d \in 1..n /\ s[d] = LF /\ d - 1 \in 0..Len(s) /\ d - 1 < Len(s)
    BY <1>1, <1>3
  <2>2. LastEnd(s, d - 1, b)
    BY <1>1, <1>3, <2>1 DEF LastEnd
  <2>3. Rank(t, d) = Rank(s, d)
    <3>1. Newlines(t, d) = Newlines(s, d)
      BY <1>1, <2>1 DEF Newlines
    <3> QED BY <3>1 DEF Rank
  <2>4. Chars(s, b + 1, d - 1) = Chars(t, b + 1, d - 1)
    <3>1. b + 1 \in Nat \ {0}
      OBVIOUS
    <3> QED BY <2>1, <3>1, CharsBefore
  <2>5. all[Rank(s, d)] = StripCR(Chars(s, b + 1, d - 1))
    BY <2>1, <2>2 DEF LinesTo
  <2> QED BY <2>3, <2>4, <2>5
<1> QED BY <1>2, <1>3 DEF LinesTo

LEMMA CuttingAll ==
    ASSUME NEW s \in Seq(Byte), NEW old \in Seq(Seq(Characters)), NEW e \in Nat, NEW m \in e..Len(s),
           LastEnd(s, e, e), LinesTo(old, s, e)
    PROVE  Cutting(Partition(Chars(s, e + 1, m)), old, s, m)
<1> DEFINE T == {k \in Nat : e + k <= m => Cutting(Partition(Chars(s, e + 1, e + k)), old, s, e + k)}
<1>0. Len(s) \in Nat /\ m \in Nat
  OBVIOUS
<1>1. 0 \in T
  <2>1. Chars(s, e + 1, e) = <<>>
    BY CharsEmpty
  <2> DEFINE p == [whole |-> <<>>, rest |-> <<>>]
  <2>2. p \in Partitions /\ p.rest = Chars(s, e + 1, e)
    BY <2>1 DEF Partitions
  <2>3. LinesTo(old \o p.whole, s, e)
    <3>1. old \o <<>> = old /\ p.whole = <<>>
      OBVIOUS
    <3> QED BY <3>1
  <2>4. Cutting(p, old, s, e)
    <3> HIDE DEF p
    <3> QED BY <2>2, <2>3 DEF Cutting
  <2>5. Cutting(Partition(Chars(s, e + 1, e)), old, s, e)
    BY <2>1, <2>4, PartitionEmpty
  <2>6. e + 0 = e
    OBVIOUS
  <2> QED BY <2>5, <2>6
<1>2. ASSUME NEW k \in T PROVE k + 1 \in T
  <2> SUFFICES ASSUME e + (k + 1) <= m
               PROVE  Cutting(Partition(Chars(s, e + 1, e + (k + 1))), old, s, e + (k + 1))
    OBVIOUS
  <2> DEFINE j == e + k
             text == Chars(s, e + 1, j)
  <2>1. j \in Nat /\ j < Len(s) /\ j <= Len(s) /\ e + (k + 1) = j + 1 /\ e + 1 \in Nat \ {0} /\ e + 1 <= j + 1
    OBVIOUS
  <2>2. Cutting(Partition(text), old, s, j)
    OBVIOUS
  <2> HIDE DEF j
  <2>3. text \in Seq(Characters)
    BY <2>1, CharsType DEF Characters
  <2>4. Chars(s, e + 1, j + 1) = text \o DecodedAt(s, j + 1)
    BY <2>1, CharsGrow
  <2> HIDE DEF text
  <2>5. Cutting(Partition(text \o DecodedAt(s, j + 1)), old, s, j + 1)
    BY <2>1, <2>2, <2>3, CuttingStep
  <2> QED BY <2>1, <2>4, <2>5
<1>3. T = Nat
  <2> HIDE DEF T
  <2>1. T \subseteq Nat
    BY DEF T
  <2> QED BY <1>1, <1>2, <2>1, SetInduction
<1>4. m - e \in Nat /\ e + (m - e) = m
  BY <1>0
<1>5. m - e \in T
  BY <1>3, <1>4
<1> QED BY <1>4, <1>5

LEMMA LineInvInit == Init => LineInv
<1> SUFFICES ASSUME Init PROVE LineInv
  OBVIOUS
<1>1. /\ fed = <<>> /\ decoder = <<>> /\ line_buf = <<>> /\ lines = <<>> /\ got_lines = <<>>
  BY DEF Init, LineInit
<1>2. HeldBack(fed) = <<>> /\ Settled(fed) = 0
  BY <1>1 DEF HeldBack, Settled
<1>3. LastEnd(fed, 0, 0) /\ Chars(fed, 0 + 1, 0) = <<>>
  BY CharsEmpty DEF LastEnd
<1>4. LinesTo(got_lines \o lines, fed, 0)
  <2>1. got_lines \o lines = <<>> /\ Len(<<>>) = 0 /\ 1..0 = {}
    BY <1>1
  <2> QED BY <2>1, RankNone DEF LinesTo
<1> QED BY <1>1, <1>2, <1>3, <1>4 DEF LineInv

LEMMA LinesAssociative ==
    ASSUME NEW x \in Seq(Seq(Characters)), NEW y \in Seq(Seq(Characters)), NEW z \in Seq(Seq(Characters))
    PROVE  x \o (y \o z) = (x \o y) \o z
BY PartsAssociative

LEMMA ChunkType == ASSUME NEW chunk \in Chunks PROVE chunk \in Seq(Byte) /\ chunk # <<>>
<1>1. PICK m \in 0..MaxChunk : chunk \in [1..m -> Alphabet]
  BY DEF Chunks, SeqOf
<1>2. m \in Nat /\ chunk \in [1..m -> Byte]
  BY <1>1, AlphabetAssumption DEF AlphabetAssumption
<1> QED BY <1>2 DEF Chunks

LEMMA FeedLineInv ==
    ASSUME LineInv, fed \in Seq(Byte), NEW chunk \in Chunks, FeedChunk(chunk)
    PROVE  LineInv'
<1> DEFINE s == fed
           t == fed \o chunk
           n == Settled(fed)
           m == Settled(t)
           all == got_lines \o lines
           bytes == decoder \o chunk
           held == HeldBack(bytes)
           text == line_buf \o DecodeUtf8(SubSeq(bytes, 1, Len(bytes) - Len(held)))
           p == Partition(text)
<1>0. chunk \in Seq(Byte) /\ chunk # <<>>
  BY ChunkType
<1>1. /\ t \in Seq(Byte) /\ Begins(fed, t) /\ Len(t) \in Nat
  BY <1>0, ConcatBegins
<1>2. /\ decoder' = held /\ line_buf' = p.rest /\ lines' = lines \o p.whole
      /\ fed' = t /\ got_lines' = got_lines
  BY DEF FeedChunk, FeedLine
<1>3. /\ held = HeldBack(t) /\ n <= m
      /\ SubSeq(bytes, 1, Len(bytes) - Len(held)) = SubSeq(t, n + 1, m)
  <2>1. decoder = HeldBack(fed)
    BY DEF LineInv
  <2>2. t = fed \o chunk /\ bytes = HeldBack(fed) \o chunk
    BY <2>1
  <2> HIDE DEF t, bytes
  <2>3. ChunkDecoded(fed, t, bytes)
    BY <1>0, <2>2, DecodedChunk
  <2> QED BY <2>3 DEF ChunkDecoded
<1>4. n \in 0..Len(fed) /\ m \in 0..Len(t) /\ Len(fed) \in Nat /\ Len(fed) <= Len(t)
  <2>1. n \in 0..Len(fed) /\ Len(fed) <= Len(t)
    BY <1>1, SettledFacts DEF Begins
  <2>2. m \in 0..Len(t)
    <3> HIDE DEF t
    <3> QED BY <1>1, SettledFacts
  <2> QED BY <2>1, <2>2
<1>5. ~Severed(t, n) /\ ~Severed(t, m)
  <2>1. Begins(t, t)
    BY <1>1 DEF Begins
  <2> HIDE DEF t
  <2> QED BY <1>1, <2>1, SettledUncut
<1> HIDE DEF t, n, m
<1>6. DecodeUtf8(SubSeq(t, n + 1, m)) = Chars(t, n + 1, m)
  <2>1. n + 1 \in Nat \ {0} /\ n + 1 <= m + 1 /\ (n + 1) - 1 = n /\ m \in Nat /\ m <= Len(t)
    BY <1>1, <1>3, <1>4
  <2> QED BY <1>1, <1>5, <2>1, DecodedPart
<1>7. PICK e \in Nat : LastEnd(fed, n, e) /\ line_buf = Chars(fed, e + 1, n)
  BY DEF LineInv, n
<1>8. e <= n
  BY <1>7 DEF LastEnd
<1>9. line_buf = Chars(t, e + 1, n)
  <2>1. e + 1 \in Nat \ {0}
    OBVIOUS
  <2> QED BY <1>1, <1>4, <1>5, <1>7, <2>1, CharsBefore
<1>10. text = Chars(t, e + 1, m)
  <2>1. /\ e + 1 \in Nat \ {0} /\ e + 1 <= n + 1 /\ n \in Nat /\ m \in Nat /\ m <= Len(t)
    BY <1>1, <1>4, <1>8
  <2>2. Chars(t, e + 1, m) = Chars(t, e + 1, n) \o Chars(t, n + 1, m)
    BY <1>1, <1>3, <2>1, CharsSplit
  <2> QED BY <1>3, <1>6, <1>9, <2>2
<1>11. all \in Seq(Seq(Characters)) /\ LinesTo(all, t, e) /\ LastEnd(t, e, e)
  <2>1. got_lines \in Seq(Seq(Characters)) /\ lines \in Seq(Seq(Characters))
    BY DEF LineInv
  <2>2. all \in Seq(Seq(Characters))
    BY <2>1
  <2>3. LinesTo(all, fed, n)
    BY DEF LineInv, n
  <2>4. LinesTo(all, t, e)
    <3> HIDE DEF all
    <3> QED BY <1>1, <1>4, <1>7, <2>3, LinesToBefore
  <2>5. LastEnd(t, e, e)
    <3>1. e # 0 => t[e] = fed[e] /\ fed[e] = LF
      BY <1>1, <1>4, <1>7, <1>8 DEF LastEnd, Begins
    <3> QED BY <3>1 DEF LastEnd
  <2> QED BY <2>2, <2>4, <2>5
<1>12. Cutting(p, all, t, m)
  <2>1. m \in e..Len(t)
    BY <1>1, <1>3, <1>4, <1>8
  <2>2. Cutting(Partition(Chars(t, e + 1, m)), all, t, m)
    <3> HIDE DEF all
    <3> QED BY <1>1, <1>11, <2>1, CuttingAll
  <2> QED BY <1>10, <2>2
<1> HIDE DEF p
<1>13. got_lines' \o lines' = all \o p.whole
  <2>1. got_lines \in Seq(Seq(Characters)) /\ lines \in Seq(Seq(Characters)) /\ p.whole \in Seq(Seq(Characters))
    BY <1>12 DEF LineInv, Cutting, Partitions
  <2>2. got_lines \o (lines \o p.whole) = (got_lines \o lines) \o p.whole
    BY <2>1, LinesAssociative
  <2> QED BY <1>2, <2>2
<1>14. got_lines' \in Seq(Seq(Characters)) /\ lines' \in Seq(Seq(Characters))
  BY <1>2, <1>12 DEF LineInv, Cutting, Partitions
<1>15. decoder' = HeldBack(fed') /\ Settled(fed') = m
  BY <1>2, <1>3 DEF m
<1>16. \E d \in Nat : LastEnd(t, m, d) /\ line_buf' = Chars(t, d + 1, m)
  BY <1>2, <1>12 DEF Cutting
<1>17. LinesTo(got_lines' \o lines', t, m)
  BY <1>12, <1>13 DEF Cutting
<1> HIDE DEF held, all
<1>18. fed' = t
  BY <1>2
<1> QED BY <1>14, <1>15, <1>16, <1>17, <1>18 DEF LineInv

LEMMA LineInvNext == LineInv /\ fed \in Seq(Byte) /\ [Next]_vars => LineInv'
<1> SUFFICES ASSUME LineInv, fed \in Seq(Byte), [Next]_vars PROVE LineInv'
  OBVIOUS
<1>1. ASSUME NEW chunk \in Chunks, FeedChunk(chunk) PROVE LineInv'
  BY <1>1, FeedLineInv
<1>2. CASE FeedIteration \/ UNCHANGED vars
  <2>1. UNCHANGED <<line_vars, fed, got_lines>>
    BY <1>2 DEF FeedIteration, vars
  <2> QED BY <2>1 DEF LineInv, line_vars
<1>3. CASE DrainMessages
  <2>1. /\ decoder' = decoder /\ line_buf' = line_buf /\ fed' = fed
        /\ lines' = <<>> /\ got_lines' = got_lines \o lines
    BY <1>3 DEF DrainMessages, DrainLines
  <2>2. got_lines' \in Seq(Seq(Characters)) /\ lines' \in Seq(Seq(Characters))
    BY <2>1 DEF LineInv
  <2>3. got_lines' \o lines' = got_lines \o lines
    BY <2>1, <2>2
  <2> QED BY <2>1, <2>2, <2>3 DEF LineInv
<1>4. CASE ResetReader
  <2>1. /\ fed' = <<>> /\ decoder' = <<>> /\ line_buf' = <<>> /\ lines' = <<>> /\ got_lines' = <<>>
    BY <1>4 DEF ResetReader, ResetLines
  <2>2. HeldBack(<<>>) = <<>> /\ Settled(<<>>) = 0
    BY DEF HeldBack, Settled
  <2>3. LastEnd(<<>>, 0, 0) /\ Chars(<<>>, 0 + 1, 0) = <<>>
    BY CharsEmpty DEF LastEnd
  <2>4. LinesTo(<<>> \o <<>>, <<>>, 0)
    <3>1. <<>> \o <<>> = <<>> /\ Len(<<>>) = 0 /\ 1..0 = {}
      OBVIOUS
    <3> QED BY <3>1, RankNone DEF LinesTo
  <2> QED BY <2>1, <2>2, <2>3, <2>4 DEF LineInv
<1> QED BY <1>1, <1>2, <1>3, <1>4 DEF Next

LEMMA LargestIs ==
    ASSUME NEW T, T \subseteq Int, NEW b \in T, \A y \in T : b >= y
    PROVE  Max(T) = b
<1>1. \A x \in T : (\A y \in T : x >= y) => x = b
  OBVIOUS
<1> QED BY <1>1 DEF Max

LEMMA LineInvCorrect == LineInv /\ fed \in Seq(Byte) => LinesOfStream
<1> SUFFICES ASSUME LineInv, fed \in Seq(Byte) PROVE LinesOfStream
  OBVIOUS
<1> DEFINE ends == {i \in DOMAIN fed : fed[i] = LF}
           all == got_lines \o lines
           n == Settled(fed)
<1>1. n \in 0..Len(fed) /\ Len(fed) \in Nat /\ DOMAIN fed = 1..Len(fed)
  BY SettledFacts
<1>2. \A k \in (n + 1)..Len(fed) : fed[k] # LF
  BY SettledFacts, Utf8Facts
<1>3. LinesTo(all, fed, n)
  BY DEF LineInv
<1> HIDE DEF n, all
<1>4. ends = Newlines(fed, n)
  <2>1. \A i \in 1..Len(fed) : i \in 1..n \/ i \in (n + 1)..Len(fed)
    BY <1>1
  <2>2. \A i \in 1..n : i \in 1..Len(fed)
    BY <1>1
  <2> QED BY <1>1, <1>2, <2>1, <2>2 DEF Newlines
<1> HIDE DEF ends
<1>5. Len(all) = Cardinality(ends)
  BY <1>3, <1>4 DEF LinesTo, Rank
<1>6. ASSUME NEW e \in ends
      PROVE  all[Cardinality({j \in ends : j <= e})] = LineTo(fed, ends, e)
  <2>1. e \in 1..n /\ fed[e] = LF /\ e - 1 \in Nat /\ e \in Nat /\ e <= Len(fed)
    BY <1>1, <1>4 DEF Newlines
  <2>2. {j \in ends : j <= e} = Newlines(fed, e)
    BY <1>1, <1>4, <2>1 DEF Newlines
  <2>3. PICK b : LastEnd(fed, e - 1, b)
    BY <2>1, LastEndExists
  <2>4. b \in 0..(e - 1) /\ b \in Nat
    BY <2>1, <2>3 DEF LastEnd
  <2>5. all[Rank(fed, e)] = StripCR(Chars(fed, b + 1, e - 1))
    BY <1>3, <2>1, <2>3, <2>4 DEF LinesTo
  <2>6. Max({0} \cup {j \in ends : j < e}) = b
    <3> DEFINE T == {0} \cup {j \in ends : j < e}
    <3>1. T \subseteq Int
      BY <1>4 DEF Newlines
    <3>2. b \in T
      BY <1>1, <1>4, <2>1, <2>3, <2>4 DEF Newlines, LastEnd
    <3>3. \A y \in T : b >= y
      <4>1. ASSUME NEW y \in ends, y < e PROVE b >= y
        <5>1. y \in 1..n /\ fed[y] = LF
          BY <1>4 DEF Newlines
        <5>2. y \notin (b + 1)..(e - 1)
          BY <2>3, <5>1 DEF LastEnd
        <5> QED BY <2>1, <2>4, <4>1, <5>1, <5>2
      <4> QED BY <2>4, <4>1
    <3> HIDE DEF T
    <3>4. Max(T) = b
      BY <3>1, <3>2, <3>3, LargestIs
    <3> QED BY <3>4 DEF T
  <2>7. DecodeUtf8(SubSeq(fed, 1 + b, e - 1)) = Chars(fed, b + 1, e - 1)
    <3> DEFINE a == b + 1
               k == e - 1
    <3>1. a \in Nat \ {0} /\ k \in Nat /\ a <= k + 1 /\ k <= Len(fed) /\ a - 1 = b /\ k + 1 = e /\ a = 1 + b
      BY <1>1, <2>1, <2>4
    <3>2. b # 0 => fed[b] = LF
      BY <2>3 DEF LastEnd
    <3> HIDE DEF a, k
    <3>3. ~Severed(fed, b)
      BY <3>2, Utf8Facts DEF Severed
    <3>4. ~Severed(fed, k)
      BY <2>1, <3>1, Utf8Facts DEF Severed
    <3>5. DecodeUtf8(SubSeq(fed, a, k)) = Chars(fed, a, k)
      BY <3>1, <3>3, <3>4, DecodedPart
    <3> QED BY <3>1, <3>5 DEF k
  <2>8. LineTo(fed, ends, e) = StripCR(DecodeUtf8(SubSeq(fed, 1 + b, e - 1)))
    BY <2>6 DEF LineTo
  <2> QED BY <2>2, <2>5, <2>7, <2>8 DEF Rank
<1> QED BY <1>5, <1>6 DEF LinesOfStream, ends, all

-----------------------------------------------------------------------------
(* Types.                                                                  *)

LEMMA TextType == ASSUME NEW s \in Seq(Byte), NEW buf \in Seq(Seq(Byte))
                  PROVE  /\ buf \o DecodeUtf8(s) \in Seq(Seq(Byte))
                         /\ Text(StripCR(buf \o DecodeUtf8(s))) \in Message
<1>1. buf \o DecodeUtf8(s) \in Seq(Seq(Byte))
  BY DecodedWhole
<1>2. StripCR(buf \o DecodeUtf8(s)) \in Seq(Seq(Byte))
  BY <1>1, StripType
<1> QED BY <1>1, <1>2 DEF Text, Message

Typed ==
    /\ text_buf \in Seq(Seq(Byte))
    /\ messages \in Seq(Message)

LEMMA FeedLoopTyped == Inv /\ Typed /\ FeedLoop => Typed'
<1> SUFFICES ASSUME Inv, Typed, FeedLoop PROVE Typed'
  OBVIOUS
<1>1. /\ text_buf \in Seq(Seq(Byte)) /\ messages \in Seq(Message)
      /\ data \in Seq(Byte) /\ binary_buf \in Seq(Byte)
  BY DEF Inv, ParserTypeOK, Typed
<1>2. CASE UNCHANGED <<text_buf, messages>>
  BY <1>1, <1>2 DEF Typed
<1>3. ASSUME NEW chunk \in Seq(Byte), TextEnd(chunk) PROVE Typed'
  <2>1. messages' = Append(messages, Text(StripCR(text_buf \o DecodeUtf8(chunk)))) /\ text_buf' = <<>>
    BY <1>3 DEF TextEnd
  <2>2. messages' \in Seq(Message)
    BY <1>1, <2>1, TextType, AppendProperties
  <2> QED BY <2>1, <2>2 DEF Typed
<1>4. ASSUME NEW bytes \in Seq(Byte), messages' = Append(messages, Binary(bytes)), text_buf' = text_buf
      PROVE  Typed'
  <2>1. Binary(bytes) \in Message
    BY DEF Binary, Message
  <2> QED BY <1>1, <1>4, <2>1, AppendProperties DEF Typed
<1>5. CASE IdleNewline
  <2>1. <<>> \in Seq(Byte) /\ TextEnd(<<>>)
    BY <1>5 DEF IdleNewline
  <2> QED BY <1>3, <2>1
<1>6. CASE FeedTextDelimiter
  <2>1. PICK k \in 0..(Len(data) - 1) : TextEnd(SubSeq(data, 1, k))
    BY <1>6 DEF FeedTextDelimiter
  <2>2. SubSeq(data, 1, k) \in Seq(Byte)
    <3>1. k \in 0..Len(data)
      BY <1>1
    <3> QED BY <1>1, <3>1, PrefixFacts
  <2> QED BY <1>3, <2>1, <2>2
<1>7. CASE FeedTextPartial
  BY <1>1, <1>7, TextType DEF FeedTextPartial, TextData, Typed
<1>8. CASE LengthDone
  <2>1. <<>> \in Seq(Byte)
    OBVIOUS
  <2>2. text_buf' = text_buf /\ (messages' = messages \/ messages' = Append(messages, Binary(<<>>)))
    BY <1>8 DEF LengthDone
  <2> QED BY <1>2, <1>4, <2>1, <2>2
<1>9. CASE FeedPayload
  <2> DEFINE chunk == SubSeq(data, 1, PayloadTake)
  <2>1. /\ text_buf' = text_buf
        /\ messages' = messages \/ messages' = Append(messages, Binary(binary_buf \o chunk))
    BY <1>9 DEF FeedPayload, BinaryEnd
  <2>2. PayloadTake \in 0..Len(data)
    <3>1. Len(data) \in Nat /\ payload_remaining \in Nat
      BY <1>1 DEF Inv, ParserTypeOK
    <3> QED BY <3>1 DEF PayloadTake
  <2>3. chunk \in Seq(Byte)
    BY <1>1, <2>2, PrefixFacts
  <2> HIDE DEF chunk
  <2>4. binary_buf \o chunk \in Seq(Byte)
    BY <1>1, <2>3
  <2> QED BY <1>2, <1>4, <2>1, <2>4
<1>10. CASE IdleSOH \/ VersionKnown \/ VersionUnknown \/ LengthMore
  BY <1>2, <1>10 DEF IdleSOH, VersionKnown, VersionUnknown, LengthMore, handler_vars
<1> QED BY <1>5, <1>6, <1>7, <1>8, <1>9, <1>10 DEF FeedLoop

TypeInv == Inv /\ TypeOK

LEMMA TypeInvNext == TypeInv /\ [Next]_vars => TypeInv'
<1> SUFFICES ASSUME TypeInv, [Next]_vars PROVE TypeInv'
  OBVIOUS
<1>1. Inv'
  BY NextInv DEF TypeInv
<1>2. Inv /\ Typed /\ fed \in Seq(Byte) /\ got \in Seq(Message)
  BY DEF TypeInv, TypeOK, ReaderTypeOK, Typed
<1>3. Typed' /\ fed' \in Seq(Byte) /\ got' \in Seq(Message)
  <2>1. ASSUME NEW chunk \in Chunks, FeedChunk(chunk) PROVE Typed' /\ fed' \in Seq(Byte) /\ got' = got
    <3>1. fed' = fed \o chunk /\ chunk \in Seq(Byte)
      BY <2>1, ChunkType DEF FeedChunk
    <3>2. fed' \in Seq(Byte)
      BY <1>2, <3>1
    <3> QED BY <1>2, <2>1, <3>2 DEF FeedChunk, Feed, handler_vars, Typed
  <2>2. CASE FeedIteration
    BY <1>2, <2>2, FeedLoopTyped DEF FeedIteration
  <2>3. CASE DrainMessages
    <3>1. messages' = <<>> /\ text_buf' = text_buf /\ fed' = fed /\ got' = got \o messages
      BY <2>3 DEF DrainMessages, Drain
    <3>2. got' \in Seq(Message)
      BY <1>2, <3>1 DEF Typed
    <3> QED BY <1>2, <3>1, <3>2 DEF Typed
  <2>4. CASE ResetReader
    BY <2>4 DEF ResetReader, Reset, ResetHandler, Typed
  <2>5. CASE UNCHANGED vars
    BY <1>2, <2>5 DEF vars, reader_vars, handler_vars, Typed
  <2> QED BY <1>2, <2>1, <2>2, <2>3, <2>4, <2>5 DEF Next
<1> QED BY <1>1, <1>3 DEF TypeInv, TypeOK, ReaderTypeOK, Typed, Inv

LEMMA TypeInvariance == Spec => []TypeInv
<1>1. Init => TypeInv
  BY InitInv DEF Init, ReaderInit, TypeInv, TypeOK, ReaderTypeOK, Inv
<1> QED BY <1>1, TypeInvNext, PTL DEF Spec

LEMMA LineInvariance == Spec => []LineInv
<1>1. TypeInv => fed \in Seq(Byte)
  BY DEF TypeInv, TypeOK
<1>2. TypeInv /\ LineInv /\ [Next]_vars => LineInv'
  BY <1>1, LineInvNext
<1> QED BY LineInvInit, TypeInvariance, <1>2, PTL DEF Spec

\* Every variable of the reader keeps its type, on any byte stream.
THEOREM TypeCorrect == Spec => []TypeOK
<1>1. TypeInv => TypeOK
  BY DEF TypeInv
<1> QED BY TypeInvariance, <1>1, PTL

\* The lines a LineFramer yields are those of the whole stream.
THEOREM LinesCorrect == Spec => []LinesOfStream
<1>1. TypeInv /\ LineInv => LinesOfStream
  BY LineInvCorrect DEF TypeInv, TypeOK
<1> QED BY TypeInvariance, LineInvariance, <1>1, PTL

-----------------------------------------------------------------------------
(* The messages of a stream.                                               *)

LEMMA DelimiterFacts ==
    ASSUME NEW s \in Seq(Byte), NEW i \in Nat \ {0}, NEW d, d = DelimiterFrom(s, i)
    PROVE  \/ d = 0 /\ \A k \in i..Len(s) : ~Delimiter(s[k])
           \/ d \in i..Len(s) /\ Delimiter(s[d]) /\ \A k \in i..(d - 1) : ~Delimiter(s[k])
<1> DEFINE T == {k \in i..Len(s) : Delimiter(s[k])}
<1>0. Len(s) \in Nat /\ T \subseteq Nat
  OBVIOUS
<1>1. d = IF T # {} THEN Min(T) ELSE 0
  BY DEF DelimiterFrom, SelectInSubSeq
<1>2. CASE T = {}
  BY <1>1, <1>2
<1>3. CASE T # {}
  <2>1. PICK m \in T : \A y \in T : ~(y < m)
    <3> HIDE DEF T
    <3> QED BY <1>0, <1>3, LeastOf
  <2>2. Min(T) = m
    <3> HIDE DEF T
    <3>1. T \subseteq Int /\ \A y \in T : m <= y
      BY <1>0, <2>1
    <3> QED BY <3>1, SmallestIs
  <2>3. d = m
    BY <1>1, <1>3, <2>2
  <2>4. m \in i..Len(s) /\ Delimiter(s[m])
    OBVIOUS
  <2>5. ASSUME NEW k \in i..(m - 1) PROVE ~Delimiter(s[k])
    <3>1. k \in i..Len(s) /\ k < m
      BY <1>0, <2>4
    <3> QED BY <2>1, <3>1
  <2> QED BY <2>3, <2>4, <2>5
<1> QED BY <1>2, <1>3

LEMMA DelimiterIs ==
    ASSUME NEW s \in Seq(Byte), NEW i \in Nat \ {0}, NEW d \in i..Len(s), Delimiter(s[d]),
           \A k \in i..(d - 1) : ~Delimiter(s[k])
    PROVE  DelimiterFrom(s, i) = d
<1> DEFINE e == DelimiterFrom(s, i)
<1>0. Len(s) \in Nat
  OBVIOUS
<1>1. \/ e = 0 /\ \A k \in i..Len(s) : ~Delimiter(s[k])
      \/ e \in i..Len(s) /\ Delimiter(s[e]) /\ \A k \in i..(e - 1) : ~Delimiter(s[k])
  BY DelimiterFacts
<1> HIDE DEF e
<1>2. e # 0
  BY <1>1
<1>3. ~(e < d) /\ ~(d < e)
  BY <1>0, <1>1, <1>2
<1> QED BY <1>0, <1>1, <1>2, <1>3 DEF e

LEMMA DelimiterNone ==
    ASSUME NEW s \in Seq(Byte), NEW i \in Nat \ {0}, \A k \in i..Len(s) : ~Delimiter(s[k])
    PROVE  DelimiterFrom(s, i) = 0
<1> DEFINE e == DelimiterFrom(s, i)
<1>1. \/ e = 0 /\ \A k \in i..Len(s) : ~Delimiter(s[k])
      \/ e \in i..Len(s) /\ Delimiter(s[e]) /\ \A k \in i..(e - 1) : ~Delimiter(s[k])
  BY DelimiterFacts
<1> HIDE DEF e
<1> QED BY <1>1 DEF e

LEMMA TextBytesFacts ==
    ASSUME NEW s \in Seq(Byte), NEW a \in Nat \ {0}, NEW b \in Nat, a <= b + 1, b <= Len(s), NEW cut,
           NEW n, n = b - a + 1
    PROVE  /\ n \in Nat /\ TextBytes(s, a, b, cut) \in Seq(Byte) /\ Len(TextBytes(s, a, b, cut)) = n
           /\ \A k \in 1..n : TextBytes(s, a, b, cut)[k] = IF a - 1 + k \in cut THEN 255 ELSE s[a - 1 + k]
<1> DEFINE u == [k \in 1..n |-> IF a - 1 + k \in cut THEN 255 ELSE s[a - 1 + k]]
<1>0. n \in Nat /\ TextBytes(s, a, b, cut) = u
  BY DEF TextBytes
<1>1. ASSUME NEW k \in 1..n PROVE (IF a - 1 + k \in cut THEN 255 ELSE s[a - 1 + k]) \in Byte
  <2>1. a - 1 + k \in 1..Len(s)
    BY <1>0
  <2>2. s[a - 1 + k] \in Byte
    BY <2>1
  <2> QED BY <2>2 DEF Byte
<1>2. u \in [1..n -> Byte]
  BY <1>1
<1>3. u \in Seq(Byte) /\ Len(u) = n
  <2> HIDE DEF u
  <2> QED BY <1>0, <1>2
<1>4. \A k \in 1..n : u[k] = IF a - 1 + k \in cut THEN 255 ELSE s[a - 1 + k]
  OBVIOUS
<1> HIDE DEF u
<1> QED BY <1>0, <1>3, <1>4

\* The bytes after the version byte of a message that begins at i.
Rest(s, i) == SubSeq(s, i + 2, Len(s))

LEMMA RestFacts ==
    ASSUME NEW s \in Seq(Byte), NEW i \in Nat \ {0}, i + 1 <= Len(s), NEW n, n = Len(s) - i - 1
    PROVE  /\ n \in Nat /\ Rest(s, i) \in Seq(Byte) /\ Len(Rest(s, i)) = n
           /\ \A k \in 1..n : Rest(s, i)[k] = s[i + 1 + k]
<1> DEFINE a == i + 2
           b == Len(s)
<1>1. a \in Nat \ {0} /\ b \in Nat /\ a <= b + 1 /\ b <= Len(s) /\ n = b - a + 1
      /\ \A k \in 1..n : a - 1 + k = i + 1 + k
  OBVIOUS
<1> HIDE DEF a, b
<1>2. /\ n \in Nat /\ SubSeq(s, a, b) \in Seq(Byte) /\ Len(SubSeq(s, a, b)) = n
      /\ \A k \in 1..n : SubSeq(s, a, b)[k] = s[a - 1 + k]
  BY <1>1, PartFacts
<1>3. Rest(s, i) = SubSeq(s, a, b)
  BY DEF Rest, a, b
<1> QED BY <1>1, <1>2, <1>3

\* What begins at i yields messages and ends further on, or does not end.
LEMMA ItemFacts ==
    ASSUME NEW s \in Seq(Byte), NEW cut, NEW i \in 1..Len(s), NEW item, item = ItemAt(s, cut, i)
    PROVE  /\ item.yields \in Seq(Message)
           /\ item.next = 0 \/ item.next \in (i + 1)..(Len(s) + 1)
<1>0. Len(s) \in Nat /\ i \in Nat \ {0} /\ Unfinished.next = 0 /\ Unfinished.yields \in Seq(Message)
  BY DEF Unfinished
<1>1. CASE s[i] # SOH
  <2> DEFINE end == DelimiterFrom(s, i)
             chars == StripCR(DecodeUtf8(TextBytes(s, i, end - 1, cut)))
  <2>1. item = IF end = 0 THEN Unfinished
               ELSE [next |-> IF s[end] = LF THEN end + 1 ELSE end, yields |-> <<Text(chars)>>]
    BY <1>1 DEF ItemAt, TextAt
  <2>2. CASE end = 0
    BY <1>0, <2>1, <2>2
  <2>3. CASE end # 0
    <3>1. end \in i..Len(s) /\ Delimiter(s[end])
      BY <1>0, <2>3, DelimiterFacts
    <3> HIDE DEF end
    <3>2. TextBytes(s, i, end - 1, cut) \in Seq(Byte)
      <4> DEFINE b == end - 1
      <4>1. b \in Nat /\ i <= b + 1 /\ b <= Len(s)
        BY <1>0, <3>1
      <4> HIDE DEF b
      <4>2. TextBytes(s, i, b, cut) \in Seq(Byte)
        BY <1>0, <4>1, TextBytesFacts
      <4> QED BY <4>2 DEF b
    <3>3. chars \in Seq(Seq(Byte))
      BY <3>2, DecodedWhole, StripType
    <3> HIDE DEF chars
    <3>4. <<Text(chars)>> \in Seq(Message)
      <4>1. Text(chars) \in Message
        BY <3>3 DEF Text, Message
      <4> QED BY <4>1
    <3>5. s[end] # LF => end # i
      BY <1>1, <3>1 DEF Delimiter
    <3>6. item.next = (IF s[end] = LF THEN end + 1 ELSE end) /\ item.yields = <<Text(chars)>>
      BY <2>1, <2>3
    <3> QED BY <1>0, <3>1, <3>4, <3>5, <3>6
  <2> QED BY <2>2, <2>3
<1>2. CASE s[i] = SOH
  <2>0. item = BinaryAt(s, i)
    BY <1>2 DEF ItemAt
  <2>1. CASE i = Len(s)
    <3>1. item = Unfinished
      BY <2>0, <2>1 DEF BinaryAt
    <3> QED BY <1>0, <3>1
  <2>2. CASE i # Len(s)
    <3> DEFINE length == DecodeVarint(Rest(s, i))
               payload == i + 2 + length.used
               end == payload + length.value
    <3>1. i + 1 <= Len(s)
      BY <1>0, <2>2
    <3>2. Rest(s, i) \in Seq(Byte)
      BY <3>1, RestFacts
    <3>3. length.used \in Nat /\ length.value \in Nat /\ length.ok \in BOOLEAN
      BY <3>2, DecodeType
    <3>4. item = IF s[i + 1] # BINARY_PROTOCOL_V1 THEN [next |-> i + 2, yields |-> <<>>]
                 ELSE IF length.ok
                 THEN IF end > Len(s) + 1 THEN Unfinished
                      ELSE [next |-> end, yields |-> <<Binary(SubSeq(s, payload, end - 1))>>]
                 ELSE IF i + 1 + VarintMaxBytes <= Len(s)
                 THEN [next |-> i + 2 + VarintMaxBytes, yields |-> <<>>]
                 ELSE Unfinished
      BY <2>0, <2>2 DEF BinaryAt, Rest
    <3> HIDE DEF length
    <3>5. payload \in Nat \ {0} /\ end \in Nat /\ payload <= end /\ end > i
      BY <3>3
    <3> HIDE DEF payload, end
    <3>6. CASE s[i + 1] # BINARY_PROTOCOL_V1
      <4>1. item.next = i + 2 /\ item.yields = <<>>
        BY <3>4, <3>6
      <4> QED BY <1>0, <3>1, <4>1
    <3>7. CASE s[i + 1] = BINARY_PROTOCOL_V1 /\ length.ok /\ end > Len(s) + 1
      <4>1. item = Unfinished
        BY <3>4, <3>7
      <4> QED BY <1>0, <4>1
    <3>8. CASE s[i + 1] = BINARY_PROTOCOL_V1 /\ length.ok /\ ~(end > Len(s) + 1)
      <4> DEFINE bytes == SubSeq(s, payload, end - 1)
      <4>1. item.next = end /\ item.yields = <<Binary(bytes)>>
        BY <3>4, <3>8
      <4>2. bytes \in Seq(Byte)
        <5> DEFINE b == end - 1
        <5>1. b \in Nat /\ payload <= b + 1 /\ b <= Len(s)
          BY <1>0, <3>5, <3>8
        <5> HIDE DEF b
        <5>2. SubSeq(s, payload, b) \in Seq(Byte)
          BY <3>5, <5>1, PartFacts
        <5> QED BY <5>2 DEF b
      <4> HIDE DEF bytes
      <4>3. <<Binary(bytes)>> \in Seq(Message)
        <5>1. Binary(bytes) \in Message
          BY <4>2 DEF Binary, Message
        <5> QED BY <5>1
      <4> QED BY <1>0, <3>5, <3>8, <4>1, <4>3
    <3>9. CASE s[i + 1] = BINARY_PROTOCOL_V1 /\ ~length.ok /\ i + 1 + VarintMaxBytes <= Len(s)
      <4>1. item.next = i + 2 + VarintMaxBytes /\ item.yields = <<>>
        BY <3>4, <3>9
      <4> QED BY <1>0, <3>9, <4>1, VarintMaxAssumption DEF VarintMaxAssumption
    <3>10. CASE s[i + 1] = BINARY_PROTOCOL_V1 /\ ~length.ok /\ ~(i + 1 + VarintMaxBytes <= Len(s))
      <4>1. item = Unfinished
        BY <3>4, <3>10
      <4> QED BY <1>0, <4>1
    <3> QED BY <3>6, <3>7, <3>8, <3>9, <3>10
  <2> QED BY <2>1, <2>2
<1> QED BY <1>1, <1>2

\* What the messages from i on are, and their type.
LEMMA MessagesUnfold ==
    ASSUME NEW s \in Seq(Byte), NEW cut, NEW i \in 1..(Len(s) + 1)
    PROVE  /\ MessagesFrom(s, cut)[i] \in Seq(Message)
           /\ MessagesFrom(s, cut)[i] =
                IF i > Len(s) THEN <<>>
                ELSE IF ItemAt(s, cut, i).next = 0 THEN <<>>
                ELSE ItemAt(s, cut, i).yields \o MessagesFrom(s, cut)[ItemAt(s, cut, i).next]
<1> DEFINE n == Len(s)
           next == [k \in 1..n |-> ItemAt(s, cut, k).next]
           yields == [k \in 1..n |-> ItemAt(s, cut, k).yields]
<1>0. n \in Nat
  OBVIOUS
<1>1. yields \in [1..n -> Seq(Message)]
  <2>1. \A k \in 1..n : ItemAt(s, cut, k).yields \in Seq(Message)
    BY ItemFacts
  <2> QED BY <2>1
<1>2. Forward(next, n)
  <2>1. \A k \in 1..n : ItemAt(s, cut, k).next = 0 \/ ItemAt(s, cut, k).next \in (k + 1)..(n + 1)
    BY ItemFacts
  <2> QED BY <2>1 DEF Forward
<1>3. PICK f \in [1..(n + 1) -> Seq(Message)] : Onward(f, n, next, yields)
  <2> HIDE DEF n, next, yields
  <2> QED BY <1>0, <1>1, <1>2, OnwardExists
<1> DEFINE From(g) == g = [k \in 1..(n + 1) |->
                             IF k > n THEN <<>>
                             ELSE IF ItemAt(s, cut, k).next = 0 THEN <<>>
                             ELSE ItemAt(s, cut, k).yields \o g[ItemAt(s, cut, k).next]]
<1>4. \A g : From(g) <=> Onward(g, n, next, yields)
  <2> TAKE g
  <2>1. \A k \in 1..(n + 1) : ~(k > n) => k \in 1..n
    BY <1>0
  <2>2. \A k \in 1..n : next[k] = ItemAt(s, cut, k).next /\ yields[k] = ItemAt(s, cut, k).yields
    OBVIOUS
  <2> HIDE DEF next, yields, n
  <2>3. [k \in 1..(n + 1) |-> IF k > n THEN <<>> ELSE IF ItemAt(s, cut, k).next = 0 THEN <<>>
                              ELSE ItemAt(s, cut, k).yields \o g[ItemAt(s, cut, k).next]]
        = [k \in 1..(n + 1) |-> IF k > n THEN <<>> ELSE IF next[k] = 0 THEN <<>> ELSE yields[k] \o g[next[k]]]
    BY <2>1, <2>2
  <2> QED BY <2>3 DEF Onward
<1>5. From(MessagesFrom(s, cut))
  <2>1. From(f)
    BY <1>3, <1>4
  <2>2. MessagesFrom(s, cut) = CHOOSE g : From(g)
    BY DEF MessagesFrom
  <2> HIDE DEF From
  <2> QED BY <2>1, <2>2
<1> DEFINE g == MessagesFrom(s, cut)
<1>6. g[i] = IF i > n THEN <<>> ELSE IF ItemAt(s, cut, i).next = 0 THEN <<>>
             ELSE ItemAt(s, cut, i).yields \o g[ItemAt(s, cut, i).next]
  <2> HIDE DEF g
  <2>1. From(g)
    BY <1>5 DEF g
  <2> QED BY <2>1
<1>7. g[i] \in Seq(Message)
  <2> HIDE DEF g, next, yields
  <2>1. Onward(g, n, next, yields)
    BY <1>4, <1>5 DEF g
  <2> HIDE DEF n
  <2>2. i \in 1..(n + 1)
    BY DEF n
  <2> QED BY <1>0, <1>1, <1>2, <2>1, <2>2, OnwardType
<1> QED BY <1>6, <1>7

-----------------------------------------------------------------------------
(* Texts that arrive in pieces.                                            *)

\* Both decoders agree on which characters up to position n were cut.
Agree(cut, c2, i, n) == \A p \in 1..(n - 1) : p < i => (p \in c2 <=> p \in cut)

\* No character reaches from s over to the chunk without being recorded.
Recorded(s, cut, chunk) ==
    s # <<>> /\ chunk # <<>> /\ s[Len(s)] \in Lead /\ chunk[1] \in Cont => Len(s) \in cut

\* t begins with s and the chunk after it.
Joins(s, chunk, t) ==
    /\ Begins(s, t) /\ Len(s) + Len(chunk) <= Len(t)
    /\ \A k \in 1..Len(chunk) : t[Len(s) + k] = chunk[k]

SameCuts(cut, c2, n) == \A p \in 1..n : p \in c2 <=> p \in cut

IsText(u, s, a, b, cut) ==
    /\ u \in Seq(Byte) /\ Len(u) = b - a + 1
    /\ \A k \in 1..(b - a + 1) : u[k] = IF a - 1 + k \in cut THEN 255 ELSE s[a - 1 + k]

LEMMA TextBytesAre ==
    ASSUME NEW s \in Seq(Byte), NEW a \in Nat \ {0}, NEW b \in Nat, a <= b + 1, b <= Len(s), NEW cut
    PROVE  IsText(TextBytes(s, a, b, cut), s, a, b, cut)
<1> DEFINE n == b - a + 1
<1>1. n = b - a + 1
  OBVIOUS
<1> HIDE DEF n
<1>2. TextBytes(s, a, b, cut) \in Seq(Byte) /\ Len(TextBytes(s, a, b, cut)) = n
  BY <1>1, TextBytesFacts
<1>3. \A k \in 1..n : TextBytes(s, a, b, cut)[k] = IF a - 1 + k \in cut THEN 255 ELSE s[a - 1 + k]
  BY <1>1, TextBytesFacts
<1> QED BY <1>1, <1>2, <1>3 DEF IsText

IsJoined(t, i, n, c2, s, cut, chunk) ==
    DecodeUtf8(TextBytes(t, i, n, c2)) = DecodeUtf8(TextBytes(s, i, Len(s), cut)) \o DecodeUtf8(chunk)

LEMMA TextJoined ==
    ASSUME NEW s \in Seq(Byte), NEW cut \in SUBSET (1..Len(s)), NEW i \in 1..(Len(s) + 1),
           NEW chunk \in Seq(Byte), NEW n, n = Len(s) + Len(chunk),
           NEW t \in Seq(Byte), Joins(s, chunk, t), NEW c2, SameCuts(cut, c2, n),
           i <= Len(s) => Recorded(s, cut, chunk)
    PROVE  IsJoined(t, i, n, c2, s, cut, chunk)
<1> DEFINE m == Len(s)
           w == TextBytes(t, i, n, c2)
           u == TextBytes(s, i, m, cut)
<1>0. /\ m \in Nat /\ n \in Nat /\ Len(chunk) \in Nat /\ i \in Nat \ {0} /\ i <= m + 1 /\ i <= n + 1 /\ m <= n
      /\ n <= Len(t) /\ Begins(s, t) /\ (\A k \in 1..Len(chunk) : t[Len(s) + k] = chunk[k])
      /\ \A p \in 1..n : p \in c2 <=> p \in cut
  BY DEF Joins, SameCuts
<1>1. /\ u \in Seq(Byte) /\ Len(u) = m - i + 1
      /\ \A k \in 1..(m - i + 1) : u[k] = IF i - 1 + k \in cut THEN 255 ELSE s[i - 1 + k]
  <2>1. m <= Len(s)
    BY <1>0
  <2>2. IsText(u, s, i, m, cut)
    <3> HIDE DEF u, m
    <3> QED BY <1>0, <2>1, TextBytesAre DEF u
  <2> HIDE DEF u
  <2> QED BY <2>2 DEF IsText
<1> HIDE DEF u
<1>2. /\ w \in Seq(Byte) /\ Len(w) = n - i + 1
      /\ \A k \in 1..(n - i + 1) : w[k] = IF i - 1 + k \in c2 THEN 255 ELSE t[i - 1 + k]
  <2>1. i \in Nat \ {0} /\ n \in Nat /\ i <= n + 1 /\ n <= Len(t)
    BY <1>0
  <2>2. IsText(w, t, i, n, c2)
    <3> HIDE DEF w, m
    <3> QED BY <2>1, TextBytesAre DEF w
  <2> HIDE DEF w
  <2> QED BY <2>2 DEF IsText
<1> HIDE DEF w
<1>3. Len(w) = Len(u) + Len(chunk) /\ Len(u) \in Nat
  BY <1>0, <1>1, <1>2
<1>4. Begins(u, w)
  <2>1. ASSUME NEW k \in 1..Len(u) PROVE w[k] = u[k]
    <3> DEFINE p == i - 1 + k
    <3>1. p \in 1..m /\ p \in 1..n /\ k \in 1..(m - i + 1) /\ k \in 1..(n - i + 1)
      BY <1>0, <1>1
    <3>2. t[p] = s[p] /\ (p \in c2 <=> p \in cut)
      BY <1>0, <3>1 DEF Begins
    <3> QED BY <1>1, <1>2, <3>1, <3>2
  <2> QED BY <1>3, <2>1 DEF Begins
<1>5. ASSUME NEW k \in 1..Len(chunk) PROVE w[Len(u) + k] = chunk[k]
  <2> DEFINE p == m + k
  <2>1. p \in 1..n /\ i - 1 + (Len(u) + k) = p /\ Len(u) + k \in 1..(n - i + 1) /\ p \notin 1..m
    BY <1>0, <1>1
  <2>2. p \notin c2
    BY <1>0, <2>1
  <2>3. w[Len(u) + k] = IF i - 1 + (Len(u) + k) \in c2 THEN 255 ELSE t[i - 1 + (Len(u) + k)]
    BY <1>2, <2>1
  <2> QED BY <1>0, <2>1, <2>2, <2>3
<1>6. ~Severed(w, Len(u))
  <2> SUFFICES ASSUME Severed(w, Len(u)) PROVE FALSE
    OBVIOUS
  <2>1. Len(u) \in 1..(Len(w) - 1) /\ w[Len(u)] \in Lead /\ w[Len(u) + 1] \in Cont
    BY DEF Severed
  <2>2. i <= m /\ Len(chunk) # 0 /\ chunk # <<>> /\ s # <<>> /\ i - 1 + Len(u) = m
        /\ Len(u) \in 1..(m - i + 1) /\ 1 \in 1..Len(chunk) /\ Len(u) \in 1..Len(u)
    BY <1>0, <1>1, <1>3, <2>1
  <2>3. w[Len(u)] = u[Len(u)]
    BY <1>4, <2>2 DEF Begins
  <2>4. u[Len(u)] = IF m \in cut THEN 255 ELSE s[m]
    BY <1>1, <2>2
  <2>5. chunk[1] \in Cont
    BY <1>5, <2>1, <2>2
  <2>6. 255 \notin Lead
    BY Utf8Assumption DEF Utf8Assumption
  <2>7. s[m] \in Lead /\ m \notin cut
    BY <2>1, <2>3, <2>4, <2>6
  <2> QED BY <2>2, <2>5, <2>7 DEF Recorded
<1>7. DecodeUtf8(w) = DecodeUtf8(u) \o DecodeUtf8(chunk)
  BY <1>1, <1>2, <1>3, <1>4, <1>5, <1>6, DecodeConcat
<1> QED BY <1>7 DEF u, w, m, IsJoined

\* A lead byte at the end of a text is an error already; recording it as cut
\* changes nothing.
LEMMA TextRecut ==
    ASSUME NEW s \in Seq(Byte), NEW cut, NEW i \in 1..Len(s), s[Len(s)] \in Lead
    PROVE  DecodeUtf8(TextBytes(s, i, Len(s), cut \cup {Len(s)})) = DecodeUtf8(TextBytes(s, i, Len(s), cut))
<1> DEFINE m == Len(s)
           more == cut \cup {m}
           n == m - i + 1
           u == TextBytes(s, i, m, cut)
           v == TextBytes(s, i, m, more)
<1>0. m \in Nat /\ i \in Nat \ {0} /\ i <= m + 1 /\ n \in Nat \ {0}
  OBVIOUS
<1>1. /\ u \in Seq(Byte) /\ Len(u) = n
      /\ \A k \in 1..n : u[k] = IF i - 1 + k \in cut THEN 255 ELSE s[i - 1 + k]
  BY <1>0, TextBytesFacts
<1>2. /\ v \in Seq(Byte) /\ Len(v) = n
      /\ \A k \in 1..n : v[k] = IF i - 1 + k \in more THEN 255 ELSE s[i - 1 + k]
  <2> HIDE DEF more
  <2> QED BY <1>0, TextBytesFacts
<1>3. \A k \in 1..n : k = n \/ (k < n /\ i - 1 + k # m)
  BY <1>0
<1>4. i - 1 + n = m
  BY <1>0
<1> HIDE DEF u, v, n
<1>5. \A k \in 1..n : k # n => u[k] = v[k]
  BY <1>1, <1>2, <1>3
<1>6. v[n] = 255 /\ u[n] \in Lead \cup {255}
  BY <1>0, <1>1, <1>2, <1>4
<1> HIDE DEF m, more
<1>7. /\ 255 \notin Cont /\ 255 \notin Lead /\ ~(255 < 128) /\ ~(u[n] < 128) /\ u[n] \notin Cont
  <2>1. 255 \notin Cont /\ 255 \notin Lead /\ ~(255 < 128)
    BY Utf8Assumption DEF Utf8Assumption
  <2> QED BY <1>6, <2>1, Utf8Facts
<1>8. \A k \in 1..n : DecodedAt(u, k) = DecodedAt(v, k)
  <2> TAKE k \in 1..n
  <2>0. k \in Nat /\ (k > 1 => k - 1 \in 1..n /\ k - 1 # n)
    BY <1>0
  <2>1. CASE k = n
    <3>1. DecodedAt(u, k) = <<Replacement>>
      BY <1>1, <1>7, <2>1 DEF DecodedAt
    <3>2. DecodedAt(v, k) = <<Replacement>>
      BY <1>2, <1>6, <1>7, <2>1 DEF DecodedAt
    <3> QED BY <3>1, <3>2
  <2>2. CASE k # n
    <3>1. k < n /\ k + 1 \in 1..n /\ u[k] = v[k] /\ (k > 1 => u[k - 1] = v[k - 1])
      BY <1>0, <1>5, <2>0, <2>2
    <3>2. u[k + 1] \in Cont <=> v[k + 1] \in Cont
      BY <1>5, <1>6, <1>7, <3>1
    <3>3. u[k + 1] \in Cont => <<u[k], u[k + 1]>> = <<v[k], v[k + 1]>>
      BY <1>5, <1>7, <3>1
    <3> QED BY <1>1, <1>2, <3>1, <3>2, <3>3 DEF DecodedAt
  <2> QED BY <2>1, <2>2
<1>9. DecodeUtf8(u) = DecodeUtf8(v)
  BY <1>1, <1>2, <1>8 DEF DecodeUtf8
<1> QED BY <1>9 DEF u, v, more, m

-----------------------------------------------------------------------------
(* Where the messages consumed so far end.                                 *)

\* However s goes on, the messages up to i are ms.
Boundary(s, cut, i, ms) ==
    \A t \in Seq(Byte) : \A c2 \in SUBSET Nat :
        Begins(s, t) /\ Agree(cut, c2, i, Len(s))
        => MessagesFrom(t, c2)[1] = ms \o MessagesFrom(t, c2)[i]

\* However s goes on, what begins at i yields y and ends before j.
Ends(s, cut, i, j, y) ==
    \A t \in Seq(Byte) : \A c2 \in SUBSET Nat :
        Begins(s, t) /\ Agree(cut, c2, j, Len(s))
        => ItemAt(t, c2, i).next = j /\ ItemAt(t, c2, i).yields = y

LEMMA BeginsTrans ==
    ASSUME NEW s \in Seq(Byte), NEW t \in Seq(Byte), NEW u \in Seq(Byte), Begins(s, t), Begins(t, u)
    PROVE  Begins(s, u)
<1>1. Len(s) \in Nat /\ Len(t) \in Nat /\ Len(u) \in Nat
  OBVIOUS
<1> QED BY <1>1 DEF Begins

LEMMA BoundaryInit == Boundary(<<>>, {}, 1, <<>>)
<1> SUFFICES ASSUME NEW t \in Seq(Byte), NEW c2 \in SUBSET Nat
             PROVE  MessagesFrom(t, c2)[1] = <<>> \o MessagesFrom(t, c2)[1]
  BY DEF Boundary
<1>1. 1 \in 1..(Len(t) + 1)
  OBVIOUS
<1>2. MessagesFrom(t, c2)[1] \in Seq(Message)
  BY <1>1, MessagesUnfold
<1> QED BY <1>2

LEMMA BoundaryGrows ==
    ASSUME NEW s \in Seq(Byte), NEW cut, NEW i \in Nat, NEW ms, Boundary(s, cut, i, ms),
           NEW s2 \in Seq(Byte), Begins(s, s2)
    PROVE  Boundary(s2, cut, i, ms)
<1> SUFFICES ASSUME NEW t \in Seq(Byte), NEW c2 \in SUBSET Nat, Begins(s2, t), Agree(cut, c2, i, Len(s2))
             PROVE  MessagesFrom(t, c2)[1] = ms \o MessagesFrom(t, c2)[i]
  BY DEF Boundary
<1>1. Begins(s, t)
  BY BeginsTrans
<1>2. Agree(cut, c2, i, Len(s))
  <2>1. Len(s) <= Len(s2) /\ Len(s) \in Nat /\ Len(s2) \in Nat
    BY DEF Begins
  <2> QED BY <2>1 DEF Agree
<1> QED BY <1>1, <1>2 DEF Boundary

LEMMA BoundaryRecut ==
    ASSUME NEW s \in Seq(Byte), NEW cut, NEW i \in Nat, NEW ms, Boundary(s, cut, i, ms)
    PROVE  Boundary(s, cut \cup {Len(s)}, i, ms)
<1> SUFFICES ASSUME NEW t \in Seq(Byte), NEW c2 \in SUBSET Nat, Begins(s, t),
                    Agree(cut \cup {Len(s)}, c2, i, Len(s))
             PROVE  MessagesFrom(t, c2)[1] = ms \o MessagesFrom(t, c2)[i]
  BY DEF Boundary
<1>1. Agree(cut, c2, i, Len(s))
  BY DEF Agree
<1> QED BY <1>1 DEF Boundary

LEMMA MessageAssociative ==
    ASSUME NEW x \in Seq(Message), NEW y \in Seq(Message), NEW z \in Seq(Message)
    PROVE  x \o (y \o z) = (x \o y) \o z
BY ConcatAssociative

LEMMA BoundaryNext ==
    ASSUME NEW s \in Seq(Byte), NEW cut, NEW i \in 1..Len(s), NEW ms \in Seq(Message),
           Boundary(s, cut, i, ms), NEW j \in (i + 1)..(Len(s) + 1), NEW y \in Seq(Message),
           Ends(s, cut, i, j, y)
    PROVE  Boundary(s, cut, j, ms \o y)
<1> SUFFICES ASSUME NEW t \in Seq(Byte), NEW c2 \in SUBSET Nat, Begins(s, t), Agree(cut, c2, j, Len(s))
             PROVE  MessagesFrom(t, c2)[1] = (ms \o y) \o MessagesFrom(t, c2)[j]
  BY DEF Boundary
<1> DEFINE f == MessagesFrom(t, c2)
<1>0. Len(s) \in Nat /\ Len(t) \in Nat /\ Len(s) <= Len(t)
  BY DEF Begins
<1>1. Agree(cut, c2, i, Len(s))
  BY <1>0 DEF Agree
<1>2. f[1] = ms \o f[i]
  BY <1>1 DEF Boundary
<1>3. ItemAt(t, c2, i).next = j /\ ItemAt(t, c2, i).yields = y
  BY DEF Ends
<1>4. i \in 1..(Len(t) + 1) /\ ~(i > Len(t)) /\ j # 0 /\ j \in 1..(Len(t) + 1)
  BY <1>0
<1>5. f[i] = IF i > Len(t) THEN <<>> ELSE IF ItemAt(t, c2, i).next = 0 THEN <<>>
             ELSE ItemAt(t, c2, i).yields \o f[ItemAt(t, c2, i).next]
  BY <1>4, MessagesUnfold
<1>6. f[j] \in Seq(Message)
  BY <1>4, MessagesUnfold
<1> HIDE DEF f
<1>7. f[i] = y \o f[j]
  BY <1>3, <1>4, <1>5
<1>8. f[1] = (ms \o y) \o f[j]
  <2> DEFINE z == f[j]
  <2>1. z \in Seq(Message)
    BY <1>6
  <2> HIDE DEF z
  <2>2. ms \o (y \o z) = (ms \o y) \o z
    BY <2>1, MessageAssociative
  <2> QED BY <1>2, <1>7, <2>2 DEF z
<1> QED BY <1>8 DEF f

LEMMA BoundaryOutcome ==
    ASSUME NEW s \in Seq(Byte), NEW cut \in SUBSET Nat, NEW i \in 1..(Len(s) + 1), NEW ms \in Seq(Message),
           Boundary(s, cut, i, ms), i <= Len(s) => ItemAt(s, cut, i).next = 0
    PROVE  MessagesOf(s, cut) = ms
<1>1. Begins(s, s) /\ Agree(cut, cut, i, Len(s)) /\ Len(s) \in Nat
  BY DEF Begins, Agree
<1>2. MessagesFrom(s, cut)[1] = ms \o MessagesFrom(s, cut)[i]
  BY <1>1 DEF Boundary
<1>3. MessagesFrom(s, cut)[i] = IF i > Len(s) THEN <<>> ELSE IF ItemAt(s, cut, i).next = 0 THEN <<>>
             ELSE ItemAt(s, cut, i).yields \o MessagesFrom(s, cut)[ItemAt(s, cut, i).next]
  BY MessagesUnfold
<1>4. MessagesFrom(s, cut)[i] = <<>>
  BY <1>1, <1>3
<1> QED BY <1>2, <1>4 DEF MessagesOf

-----------------------------------------------------------------------------
(* Each branch that completes a message, or gives one up.                  *)

\* s2 is s, a chunk without a delimiter, and a delimiter; the text of the message
\* that began at i starts in s or after it.
TextCompleted(s, cut, i, chunk, s2, n) ==
    /\ \A k \in i..Len(s) : ~Delimiter(s[k])
    /\ \A k \in 1..Len(chunk) : ~Delimiter(chunk[k])
    /\ i <= Len(s) => Recorded(s, cut, chunk)
    /\ Begins(s, s2) /\ n = Len(s) + Len(chunk) /\ Len(s2) = n + 1
    /\ \A k \in 1..Len(chunk) : s2[Len(s) + k] = chunk[k]
    /\ Delimiter(s2[n + 1]) /\ s2[i] # SOH

LEMMA TextEnds ==
    ASSUME NEW s \in Seq(Byte), NEW cut \in SUBSET (1..Len(s)), NEW i \in 1..(Len(s) + 1),
           NEW chunk \in Seq(Byte), NEW s2 \in Seq(Byte), NEW n, TextCompleted(s, cut, i, chunk, s2, n),
           NEW buf, buf = DecodeUtf8(TextBytes(s, i, Len(s), cut))
    PROVE  Ends(s2, cut, i, IF s2[n + 1] = LF THEN n + 2 ELSE n + 1,
                <<Text(StripCR(buf \o DecodeUtf8(chunk)))>>)
<1> USE DEF TextCompleted
<1> DEFINE j == IF s2[n + 1] = LF THEN n + 2 ELSE n + 1
           chars == buf \o DecodeUtf8(chunk)
<1> SUFFICES ASSUME NEW t \in Seq(Byte), NEW c2 \in SUBSET Nat, Begins(s2, t), Agree(cut, c2, j, Len(s2))
             PROVE  ItemAt(t, c2, i).next = j /\ ItemAt(t, c2, i).yields = <<Text(StripCR(chars))>>
  BY DEF Ends
<1>0. Len(s) \in Nat /\ Len(chunk) \in Nat /\ n \in Nat /\ Len(t) \in Nat /\ n + 1 <= Len(t)
      /\ i \in Nat \ {0} /\ i <= n + 1
  BY DEF Begins
<1>1. \A k \in 1..(n + 1) : t[k] = s2[k]
  BY DEF Begins
<1>2. ASSUME NEW k \in i..n PROVE ~Delimiter(t[k])
  <2>1. CASE k <= Len(s)
    <3>1. k \in i..Len(s) /\ k \in 1..Len(s) /\ k \in 1..(n + 1)
      BY <1>0, <2>1
    <3>2. t[k] = s[k]
      BY <1>1, <3>1 DEF Begins
    <3> QED BY <3>1, <3>2
  <2>2. CASE ~(k <= Len(s))
    <3> DEFINE m == k - Len(s)
    <3>1. m \in 1..Len(chunk) /\ Len(s) + m = k /\ k \in 1..(n + 1)
      BY <1>0, <2>2
    <3> HIDE DEF m
    <3>2. s2[Len(s) + m] = chunk[m]
      BY <3>1
    <3>3. t[k] = chunk[m]
      BY <1>1, <3>1, <3>2
    <3> QED BY <3>1, <3>3
  <2> QED BY <2>1, <2>2
<1>3. DelimiterFrom(t, i) = n + 1
  <2> DEFINE d == n + 1
  <2>1. d \in i..Len(t) /\ Delimiter(t[d]) /\ \A k \in i..(d - 1) : ~Delimiter(t[k])
    <3>1. n + 1 \in 1..(n + 1) /\ d - 1 = n /\ d \in i..Len(t)
      BY <1>0
    <3> QED BY <1>1, <1>2, <3>1
  <2> HIDE DEF d
  <2>2. DelimiterFrom(t, i) = d
    BY <1>0, <2>1, DelimiterIs
  <2> QED BY <2>2 DEF d
<1>4. t[i] # SOH /\ t[n + 1] = s2[n + 1]
  BY <1>0, <1>1
<1>5. DecodeUtf8(TextBytes(t, i, n, c2)) = chars
  <2>1. \A p \in 1..n : p \in c2 <=> p \in cut
    <3>1. \A p \in 1..n : p \in 1..(Len(s2) - 1) /\ p < j
      BY <1>0
    <3> HIDE DEF j
    <3> QED BY <3>1 DEF Agree
  <2>2. Begins(s, t)
    BY BeginsTrans
  <2>3. \A k \in 1..Len(chunk) : t[Len(s) + k] = chunk[k]
    <3> TAKE k \in 1..Len(chunk)
    <3>1. Len(s) + k \in 1..(n + 1)
      BY <1>0
    <3> QED BY <1>1, <3>1
  <2>4. n <= Len(t)
    BY <1>0
  <2> HIDE DEF j
  <2>5. DecodeUtf8(TextBytes(t, i, n, c2)) = DecodeUtf8(TextBytes(s, i, Len(s), cut)) \o DecodeUtf8(chunk)
    <3>1. SameCuts(cut, c2, n) /\ Joins(s, chunk, t)
      BY <2>1, <2>2, <2>3, <2>4 DEF SameCuts, Joins
    <3>2. IsJoined(t, i, n, c2, s, cut, chunk)
      BY <3>1, TextJoined
    <3> QED BY <3>2 DEF IsJoined
  <2> QED BY <2>5
<1> DEFINE end == n + 1
<1>6. end - 1 = n /\ end # 0 /\ end + 1 = n + 2
  BY <1>0
<1>7. ItemAt(t, c2, i) = [next |-> IF t[end] = LF THEN end + 1 ELSE end,
                          yields |-> <<Text(StripCR(DecodeUtf8(TextBytes(t, i, end - 1, c2))))>>]
  <2>1. DelimiterFrom(t, i) = end
    BY <1>3
  <2> HIDE DEF end
  <2> QED BY <1>4, <1>6, <2>1 DEF ItemAt, TextAt
<1>8. ItemAt(t, c2, i).next = (IF t[end] = LF THEN end + 1 ELSE end)
      /\ ItemAt(t, c2, i).yields = <<Text(StripCR(DecodeUtf8(TextBytes(t, i, end - 1, c2))))>>
  BY <1>7
<1> HIDE DEF chars
<1> QED BY <1>4, <1>5, <1>6, <1>8

LEMMA VersionEnds ==
    ASSUME NEW s \in Seq(Byte), NEW cut, NEW i \in Nat \ {0}, Len(s) = i + 1, s[i] = SOH,
           s[i + 1] # BINARY_PROTOCOL_V1
    PROVE  Ends(s, cut, i, i + 2, <<>>)
<1> SUFFICES ASSUME NEW t \in Seq(Byte), NEW c2 \in SUBSET Nat, Begins(s, t)
             PROVE  ItemAt(t, c2, i).next = i + 2 /\ ItemAt(t, c2, i).yields = <<>>
  BY DEF Ends
<1>1. t[i] = SOH /\ t[i + 1] # BINARY_PROTOCOL_V1 /\ i # Len(t)
  <2>1. i \in 1..Len(s) /\ i + 1 \in 1..Len(s) /\ Len(t) \in Nat
    OBVIOUS
  <2> QED BY <2>1 DEF Begins
<1>2. ItemAt(t, c2, i) = [next |-> i + 2, yields |-> <<>>]
  BY <1>1 DEF ItemAt, BinaryAt
<1> QED BY <1>2

\* The first r bytes of a length have arrived, and all of them continue.
InLength(s, i, r, value, scale) ==
    /\ i \in Nat \ {0} /\ r \in Nat /\ Len(s) = i + 1 + r
    /\ s[i] = SOH /\ s[i + 1] = BINARY_PROTOCOL_V1
    /\ \A k \in 1..r : Continues(s[i + 1 + k])
    /\ Accumulated(Rest(s, i))[r] = [value |-> value, scale |-> scale]

\* The length has arrived, in r bytes.
InPayload(s, i, r, value) ==
    /\ i \in Nat \ {0} /\ r \in 1..VarintMaxBytes /\ i + 1 + r <= Len(s)
    /\ s[i] = SOH /\ s[i + 1] = BINARY_PROTOCOL_V1
    /\ \A k \in 1..(r - 1) : Continues(s[i + 1 + k])
    /\ ~Continues(s[i + 1 + r])
    /\ Accumulated(Rest(s, i))[r].value = value

LEMMA RestBegins ==
    ASSUME NEW s \in Seq(Byte), NEW t \in Seq(Byte), Begins(s, t), NEW i \in Nat \ {0}, i + 1 <= Len(s)
    PROVE  Begins(Rest(s, i), Rest(t, i)) /\ i + 1 <= Len(t)
<1> DEFINE n == Len(s) - i - 1
           m == Len(t) - i - 1
<1>0. Len(s) \in Nat /\ Len(t) \in Nat /\ Len(s) <= Len(t) /\ i + 1 <= Len(t) /\ n <= m
  BY DEF Begins
<1>1. n \in Nat /\ Len(Rest(s, i)) = n /\ \A k \in 1..n : Rest(s, i)[k] = s[i + 1 + k]
  BY <1>0, RestFacts
<1>2. m \in Nat /\ Len(Rest(t, i)) = m /\ \A k \in 1..m : Rest(t, i)[k] = t[i + 1 + k]
  BY <1>0, RestFacts
<1>3. ASSUME NEW k \in 1..n PROVE Rest(t, i)[k] = Rest(s, i)[k]
  <2>1. k \in 1..m /\ i + 1 + k \in 1..Len(s)
    BY <1>0, <1>1, <1>2
  <2> QED BY <1>1, <1>2, <2>1 DEF Begins
<1> HIDE DEF n, m
<1> QED BY <1>0, <1>1, <1>2, <1>3 DEF Begins

LEMMA SameHeader ==
    ASSUME NEW s \in Seq(Byte), NEW t \in Seq(Byte), Begins(s, t), NEW i \in Nat \ {0}, i + 1 <= Len(s),
           s[i] = SOH, s[i + 1] = BINARY_PROTOCOL_V1
    PROVE  t[i] = SOH /\ t[i + 1] = BINARY_PROTOCOL_V1 /\ i # Len(t)
<1>1. i \in 1..Len(s) /\ i + 1 \in 1..Len(s) /\ Len(t) \in Nat
  OBVIOUS
<1> QED BY <1>1 DEF Begins

\* A message whose length has arrived.
LEMMA VarintArrived ==
    ASSUME NEW s \in Seq(Byte), NEW t \in Seq(Byte), Begins(s, t), NEW i, NEW r, NEW value,
           InPayload(s, i, r, value)
    PROVE  DecodeVarint(Rest(t, i)) = [ok |-> TRUE, value |-> value, used |-> r] /\ value \in Nat
<1>0. i \in Nat \ {0} /\ i + 1 <= Len(s) /\ r \in 1..VarintMaxBytes /\ r \in Nat \ {0} /\ Len(s) \in Nat
  BY VarintMaxAssumption DEF InPayload, VarintMaxAssumption
<1> DEFINE u == Rest(s, i)
           v == Rest(t, i)
           n == Len(s) - i - 1
           m == Len(t) - i - 1
<1>1. n \in Nat /\ u \in Seq(Byte) /\ Len(u) = n /\ \A k \in 1..n : u[k] = s[i + 1 + k]
  BY <1>0, RestFacts
<1>2. Begins(u, v) /\ i + 1 <= Len(t)
  BY <1>0, RestBegins
<1>3. v \in Seq(Byte) /\ Len(v) \in Nat
  BY <1>0, <1>2, RestFacts
<1>4. r \in 1..n /\ \A k \in 1..r : v[k] = s[i + 1 + k]
  <2>1. r \in 1..n
    BY <1>0 DEF InPayload
  <2>2. \A k \in 1..r : k \in 1..n
    BY <1>0, <1>1, <2>1
  <2> HIDE DEF u, v, n
  <2>3. \A k \in 1..n : v[k] = u[k]
    BY <1>1, <1>2 DEF Begins
  <2> QED BY <1>1, <2>1, <2>2, <2>3
<1> HIDE DEF u, v, n
<1>5. VarintOf(v, r)
  <2>1. r <= Len(v)
    BY <1>1, <1>2, <1>3, <1>4 DEF Begins
  <2>2. \A k \in 1..(r - 1) : k \in 1..r
    BY <1>0
  <2>3. \A k \in 1..(r - 1) : Continues(v[k])
    <3> TAKE k \in 1..(r - 1)
    <3>1. Continues(s[i + 1 + k])
      BY DEF InPayload
    <3>2. v[k] = s[i + 1 + k]
      BY <1>4, <2>2
    <3> QED BY <3>1, <3>2
  <2>4. ~Continues(v[r])
    <3>1. ~Continues(s[i + 1 + r])
      BY DEF InPayload
    <3>2. v[r] = s[i + 1 + r]
      BY <1>0, <1>4
    <3> QED BY <3>1, <3>2
  <2> QED BY <1>0, <2>1, <2>3, <2>4 DEF VarintOf
<1>6. DecodeVarint(v) = [ok |-> TRUE, value |-> Accumulated(v)[r].value, used |-> r]
  BY <1>3, <1>5, DecodeEnds
<1>7. r \in 0..Len(u)
  BY <1>0, <1>1, <1>4
<1>8. Accumulated(v)[r] = Accumulated(u)[r] /\ Accumulated(u)[r] \in Accumulations
  BY <1>1, <1>2, <1>3, <1>7, AccumulatedBefore, AccumulatedFacts
<1>9. Accumulated(u)[r].value = value
  BY DEF InPayload, u
<1>10. value \in Nat
  BY <1>8, <1>9 DEF Accumulations
<1> QED BY <1>6, <1>8, <1>9, <1>10 DEF v

\* s ends with `value` bytes after position `at`.
Carries(s, at, bytes, value) ==
    /\ Len(bytes) = value /\ Len(s) = at + value
    /\ \A k \in 1..value : s[at + k] = bytes[k]

LEMMA PayloadEnds ==
    ASSUME NEW s \in Seq(Byte), NEW cut, NEW i, NEW r, NEW value, InPayload(s, i, r, value),
           NEW bytes \in Seq(Byte), Carries(s, i + 1 + r, bytes, value)
    PROVE  Ends(s, cut, i, Len(s) + 1, <<Binary(bytes)>>)
<1> USE DEF Carries
<1> SUFFICES ASSUME NEW t \in Seq(Byte), NEW c2 \in SUBSET Nat, Begins(s, t)
             PROVE  ItemAt(t, c2, i).next = Len(s) + 1 /\ ItemAt(t, c2, i).yields = <<Binary(bytes)>>
  BY DEF Ends
<1>0. /\ i \in Nat \ {0} /\ i + 1 <= Len(s) /\ r \in Nat /\ Len(s) \in Nat /\ Len(t) \in Nat
      /\ Len(s) <= Len(t) /\ s[i] = SOH /\ s[i + 1] = BINARY_PROTOCOL_V1
  BY VarintMaxAssumption DEF InPayload, Begins, VarintMaxAssumption
<1>1. t[i] = SOH /\ t[i + 1] = BINARY_PROTOCOL_V1 /\ i # Len(t)
  BY <1>0, SameHeader
<1> DEFINE length == DecodeVarint(Rest(t, i))
           payload == i + 2 + length.used
           end == payload + length.value
<1>2. length = [ok |-> TRUE, value |-> value, used |-> r] /\ value \in Nat
  BY VarintArrived
<1>3. length.ok = TRUE /\ length.value = value /\ length.used = r
  BY <1>2
<1>4. ItemAt(t, c2, i) = IF length.ok
                 THEN IF end > Len(t) + 1 THEN Unfinished
                      ELSE [next |-> end, yields |-> <<Binary(SubSeq(t, payload, end - 1))>>]
                 ELSE IF i + 1 + VarintMaxBytes <= Len(t)
                 THEN [next |-> i + 2 + VarintMaxBytes, yields |-> <<>>]
                 ELSE Unfinished
  BY <1>1 DEF ItemAt, BinaryAt, Rest
<1> HIDE DEF length
<1>5. payload = i + 2 + r /\ end = Len(s) + 1 /\ end - 1 = Len(s)
  BY <1>0, <1>2, <1>3
<1> HIDE DEF payload, end
<1>6. ~(end > Len(t) + 1)
  BY <1>0, <1>5
<1>7. ItemAt(t, c2, i).next = end /\ ItemAt(t, c2, i).yields = <<Binary(SubSeq(t, payload, end - 1))>>
  BY <1>3, <1>4, <1>6
<1>8. SubSeq(t, payload, end - 1) = bytes
  <2> DEFINE b == Len(s)
             x == SubSeq(t, payload, b)
  <2>1. /\ payload \in Nat \ {0} /\ b \in Nat /\ payload <= b + 1 /\ b <= Len(t) /\ value = b - payload + 1
        /\ payload - 1 = i + 1 + r
    BY <1>0, <1>2, <1>5
  <2> HIDE DEF b
  <2>2. x \in Seq(Byte) /\ Len(x) = value /\ \A k \in 1..value : x[k] = t[payload - 1 + k]
    BY <2>1, PartFacts
  <2>3. \A k \in 1..value : t[payload - 1 + k] = bytes[k]
    <3> TAKE k \in 1..value
    <3>1. i + 1 + r + k \in 1..Len(s)
      BY <1>0, <1>2
    <3>2. t[i + 1 + r + k] = s[i + 1 + r + k]
      BY <3>1 DEF Begins
    <3> QED BY <2>1, <3>2
  <2> HIDE DEF x
  <2>4. x = bytes
    <3>1. \A k \in 1..Len(x) : x[k] = bytes[k]
      BY <2>2, <2>3
    <3> QED BY <2>2, <3>1, SeqEqual
  <2> QED BY <1>5, <2>4 DEF x, b
<1> QED BY <1>5, <1>7, <1>8

LEMMA LengthGivesUp ==
    ASSUME NEW s \in Seq(Byte), NEW cut, NEW i, NEW value, NEW scale,
           InLength(s, i, VarintMaxBytes, value, scale)
    PROVE  Ends(s, cut, i, Len(s) + 1, <<>>)
<1> SUFFICES ASSUME NEW t \in Seq(Byte), NEW c2 \in SUBSET Nat, Begins(s, t)
             PROVE  ItemAt(t, c2, i).next = Len(s) + 1 /\ ItemAt(t, c2, i).yields = <<>>
  BY DEF Ends
<1> DEFINE r == VarintMaxBytes
           u == Rest(t, i)
           n == Len(t) - i - 1
<1>0. /\ i \in Nat \ {0} /\ i + 1 <= Len(s) /\ r \in Nat /\ Len(s) \in Nat /\ Len(t) \in Nat
      /\ Len(s) <= Len(t) /\ s[i] = SOH /\ s[i + 1] = BINARY_PROTOCOL_V1 /\ Len(s) = i + 1 + r
  BY DEF InLength, Begins
<1>1. t[i] = SOH /\ t[i + 1] = BINARY_PROTOCOL_V1 /\ i # Len(t)
  BY <1>0, SameHeader
<1>2. n \in Nat /\ u \in Seq(Byte) /\ Len(u) = n /\ \A k \in 1..n : u[k] = t[i + 1 + k]
  <2>1. i + 1 <= Len(t)
    BY <1>0
  <2> QED BY <1>0, <2>1, RestFacts
<1>3. \A k \in 1..Len(u) : k <= VarintMaxBytes => Continues(u[k])
  <2> SUFFICES ASSUME NEW k \in 1..n, k <= VarintMaxBytes PROVE Continues(u[k])
    BY <1>2
  <2>1. k \in 1..r /\ i + 1 + k \in 1..Len(s)
    BY <1>0, <1>2
  <2>2. Continues(s[i + 1 + k])
    BY <2>1 DEF InLength
  <2>3. t[i + 1 + k] = s[i + 1 + k]
    BY <2>1 DEF Begins
  <2>4. u[k] = t[i + 1 + k]
    BY <1>2
  <2> HIDE DEF u
  <2> QED BY <2>2, <2>3, <2>4
<1>4. DecodeVarint(u) = [ok |-> FALSE, value |-> 0, used |-> 0]
  <2> HIDE DEF u
  <2> QED BY <1>2, <1>3, DecodeContinues
<1>5. DecodeVarint(Rest(t, i)).ok = FALSE
  BY <1>4
<1>6. i + 1 + VarintMaxBytes <= Len(t) /\ i + 2 + VarintMaxBytes = Len(s) + 1
  BY <1>0
<1>7. ItemAt(t, c2, i) = [next |-> i + 2 + VarintMaxBytes, yields |-> <<>>]
  BY <1>1, <1>5, <1>6 DEF ItemAt, BinaryAt, Rest
<1> QED BY <1>6, <1>7

-----------------------------------------------------------------------------
(* What is not complete.                                                   *)

LEMMA TextUnfinished ==
    ASSUME NEW s \in Seq(Byte), NEW cut, NEW i \in 1..Len(s), \A k \in i..Len(s) : ~Delimiter(s[k])
    PROVE  ItemAt(s, cut, i).next = 0
<1>1. i \in Nat \ {0} /\ i \in i..Len(s)
  OBVIOUS
<1>2. s[i] # SOH
  BY <1>1 DEF Delimiter
<1>3. DelimiterFrom(s, i) = 0
  BY <1>1, DelimiterNone
<1>4. ItemAt(s, cut, i) = Unfinished
  BY <1>2, <1>3 DEF ItemAt, TextAt
<1> QED BY <1>4 DEF Unfinished

LEMMA VersionUnfinished ==
    ASSUME NEW s, NEW cut, NEW i, i = Len(s), s[i] = SOH
    PROVE  ItemAt(s, cut, i).next = 0
<1>1. ItemAt(s, cut, i) = Unfinished
  BY DEF ItemAt, BinaryAt
<1> QED BY <1>1 DEF Unfinished

LEMMA LengthUnfinished ==
    ASSUME NEW s \in Seq(Byte), NEW cut, NEW i, NEW r, NEW value, NEW scale, InLength(s, i, r, value, scale),
           r < VarintMaxBytes
    PROVE  ItemAt(s, cut, i).next = 0
<1> DEFINE u == Rest(s, i)
<1>0. /\ i \in Nat \ {0} /\ r \in Nat /\ Len(s) = i + 1 + r /\ s[i] = SOH /\ s[i + 1] = BINARY_PROTOCOL_V1
      /\ i + 1 <= Len(s) /\ r = Len(s) - i - 1 /\ i # Len(s)
  BY DEF InLength
<1>1. u \in Seq(Byte) /\ Len(u) = r /\ \A k \in 1..r : u[k] = s[i + 1 + k]
  BY <1>0, RestFacts
<1>2. \A k \in 1..Len(u) : k <= VarintMaxBytes => Continues(u[k])
  <2> HIDE DEF u
  <2> QED BY <1>1 DEF InLength
<1>3. DecodeVarint(u) = [ok |-> FALSE, value |-> 0, used |-> 0]
  <2> HIDE DEF u
  <2> QED BY <1>1, <1>2, DecodeContinues
<1>4. DecodeVarint(Rest(s, i)).ok = FALSE
  BY <1>3
<1>5. ~(i + 1 + VarintMaxBytes <= Len(s))
  BY <1>0, VarintMaxAssumption DEF VarintMaxAssumption
<1>6. ItemAt(s, cut, i) = Unfinished
  BY <1>0, <1>4, <1>5 DEF ItemAt, BinaryAt, Rest
<1> QED BY <1>6 DEF Unfinished

LEMMA PayloadUnfinished ==
    ASSUME NEW s \in Seq(Byte), NEW cut, NEW i, NEW r, NEW value, InPayload(s, i, r, value),
           i + 1 + r + value > Len(s)
    PROVE  ItemAt(s, cut, i).next = 0
<1> DEFINE length == DecodeVarint(Rest(s, i))
           payload == i + 2 + length.used
           end == payload + length.value
<1>0. /\ i \in Nat \ {0} /\ r \in Nat /\ i + 1 <= Len(s) /\ s[i] = SOH /\ s[i + 1] = BINARY_PROTOCOL_V1
      /\ i # Len(s) /\ Len(s) \in Nat
  BY VarintMaxAssumption DEF InPayload, VarintMaxAssumption
<1>1. Begins(s, s)
  BY <1>0 DEF Begins
<1>2. length = [ok |-> TRUE, value |-> value, used |-> r] /\ value \in Nat
  BY <1>1, VarintArrived
<1>3. length.ok = TRUE /\ length.value = value /\ length.used = r
  BY <1>2
<1>4. ItemAt(s, cut, i) = IF length.ok
                 THEN IF end > Len(s) + 1 THEN Unfinished
                      ELSE [next |-> end, yields |-> <<Binary(SubSeq(s, payload, end - 1))>>]
                 ELSE IF i + 1 + VarintMaxBytes <= Len(s)
                 THEN [next |-> i + 2 + VarintMaxBytes, yields |-> <<>>]
                 ELSE Unfinished
  BY <1>0 DEF ItemAt, BinaryAt, Rest
<1> HIDE DEF length
<1>5. end > Len(s) + 1
  BY <1>0, <1>2, <1>3
<1>6. ItemAt(s, cut, i) = Unfinished
  BY <1>3, <1>4, <1>5
<1> QED BY <1>6 DEF Unfinished

\* Another byte of the length.
LengthStepped(s, s2, i, r, value, scale) ==
    /\ i \in Nat \ {0} /\ r \in Nat /\ Len(s2) = i + 1 + (r + 1)
    /\ s2[i] = SOH /\ s2[i + 1] = BINARY_PROTOCOL_V1
    /\ \A k \in 1..r : Continues(s2[i + 1 + k])
    /\ Accumulated(Rest(s2, i))[r + 1] =
         [value |-> value + LowBits(s2[Len(s) + 1]) * scale, scale |-> scale * Radix]

LEMMA LengthStep ==
    ASSUME NEW s \in Seq(Byte), NEW s2 \in Seq(Byte), Begins(s, s2), Len(s2) = Len(s) + 1,
           NEW i, NEW r, NEW value, NEW scale, InLength(s, i, r, value, scale)
    PROVE  LengthStepped(s, s2, i, r, value, scale)
<1> DEFINE u == Rest(s, i)
           v == Rest(s2, i)
           n == r + 1
<1>0. /\ i \in Nat \ {0} /\ r \in Nat /\ Len(s) = i + 1 + r /\ s[i] = SOH /\ s[i + 1] = BINARY_PROTOCOL_V1
      /\ i + 1 <= Len(s) /\ r = Len(s) - i - 1
  BY DEF InLength
<1>1. i \in 1..Len(s) /\ i + 1 \in 1..Len(s) /\ Len(s2) = i + 1 + n /\ n = Len(s2) - i - 1 /\ i + 1 <= Len(s2)
  BY <1>0
<1>2. s2[i] = SOH /\ s2[i + 1] = BINARY_PROTOCOL_V1
  BY <1>0, <1>1 DEF Begins
<1>3. ASSUME NEW k \in 1..r PROVE Continues(s2[i + 1 + k])
  <2>1. i + 1 + k \in 1..Len(s)
    BY <1>0
  <2>2. s2[i + 1 + k] = s[i + 1 + k]
    BY <2>1 DEF Begins
  <2> QED BY <2>2 DEF InLength
<1>4. u \in Seq(Byte) /\ Len(u) = r
  BY <1>0, RestFacts
<1>5. v \in Seq(Byte) /\ Len(v) = n /\ \A k \in 1..n : v[k] = s2[i + 1 + k]
  BY <1>0, <1>1, RestFacts
<1>6. Begins(u, v)
  BY <1>0, RestBegins
<1>7. Accumulated(u)[r] = [value |-> value, scale |-> scale]
  BY DEF InLength
<1> HIDE DEF u, v
<1>8. r \in 0..Len(u) /\ n \in 1..n /\ n - 1 = r /\ i + 1 + n = Len(s) + 1
  BY <1>0, <1>4
<1>9. Accumulated(v)[r] = [value |-> value, scale |-> scale]
  BY <1>4, <1>5, <1>6, <1>7, <1>8, AccumulatedBefore
<1>10. v[n] = s2[Len(s) + 1]
  BY <1>5, <1>8
<1> HIDE DEF n
<1>11. Accumulated(v)[n] = Accumulate(Accumulated(v)[r], v[n])
  BY <1>5, <1>8, AccumulatedSteps
<1>12. Accumulated(v)[n] = [value |-> value + LowBits(s2[Len(s) + 1]) * scale, scale |-> scale * Radix]
  BY <1>9, <1>10, <1>11 DEF Accumulate
<1> QED BY <1>0, <1>1, <1>2, <1>3, <1>12 DEF n, v, LengthStepped

LEMMA LengthByte ==
    ASSUME NEW s \in Seq(Byte), NEW s2 \in Seq(Byte), Begins(s, s2), Len(s2) = Len(s) + 1,
           NEW i, NEW r, NEW value, NEW scale, InLength(s, i, r, value, scale),
           NEW c, s2[Len(s) + 1] = c, Continues(c)
    PROVE  InLength(s2, i, r + 1, value + LowBits(c) * scale, scale * Radix)
<1>1. /\ i \in Nat \ {0} /\ r \in Nat /\ Len(s2) = i + 1 + (r + 1)
      /\ s2[i] = SOH /\ s2[i + 1] = BINARY_PROTOCOL_V1
      /\ \A k \in 1..r : Continues(s2[i + 1 + k])
      /\ Accumulated(Rest(s2, i))[r + 1] =
           [value |-> value + LowBits(s2[Len(s) + 1]) * scale, scale |-> scale * Radix]
  <2>1. LengthStepped(s, s2, i, r, value, scale)
    BY LengthStep
  <2> QED BY <2>1 DEF LengthStepped
<1>2. ASSUME NEW k \in 1..(r + 1) PROVE Continues(s2[i + 1 + k])
  <2>1. CASE k = r + 1
    <3>1. i + 1 + k = Len(s) + 1
      BY <1>1, <2>1
    <3> QED BY <3>1
  <2>2. CASE k # r + 1
    <3>1. k \in 1..r
      BY <1>1, <2>2
    <3> QED BY <1>1, <3>1
  <2> QED BY <2>1, <2>2
<1>3. r + 1 \in Nat
  BY <1>1
<1> QED BY <1>1, <1>2, <1>3 DEF InLength

LEMMA LengthLast ==
    ASSUME NEW s \in Seq(Byte), NEW s2 \in Seq(Byte), Begins(s, s2), Len(s2) = Len(s) + 1,
           NEW i, NEW r, NEW value, NEW scale, InLength(s, i, r, value, scale), r < VarintMaxBytes,
           NEW c, s2[Len(s) + 1] = c, ~Continues(c)
    PROVE  InPayload(s2, i, r + 1, value + LowBits(c) * scale) /\ Len(s2) = i + 1 + (r + 1)
<1>1. /\ i \in Nat \ {0} /\ r \in Nat /\ Len(s2) = i + 1 + (r + 1)
      /\ s2[i] = SOH /\ s2[i + 1] = BINARY_PROTOCOL_V1
      /\ \A k \in 1..r : Continues(s2[i + 1 + k])
      /\ Accumulated(Rest(s2, i))[r + 1] =
           [value |-> value + LowBits(s2[Len(s) + 1]) * scale, scale |-> scale * Radix]
  <2>1. LengthStepped(s, s2, i, r, value, scale)
    BY LengthStep
  <2> QED BY <2>1 DEF LengthStepped
<1>2. r + 1 \in 1..VarintMaxBytes /\ i + 1 + (r + 1) <= Len(s2) /\ (r + 1) - 1 = r
      /\ i + 1 + (r + 1) = Len(s) + 1
  BY <1>1, VarintMaxAssumption DEF VarintMaxAssumption
<1>3. ~Continues(s2[i + 1 + (r + 1)])
  BY <1>2
<1>4. Accumulated(Rest(s2, i))[r + 1].value = value + LowBits(c) * scale
  BY <1>1
<1> QED BY <1>1, <1>2, <1>3, <1>4 DEF InPayload

-----------------------------------------------------------------------------
(* The reader and the stream.                                              *)

\* What the parser's state says of s, in a message that began at i.
Standing(s, i) ==
    \/ state = "IDLE" /\ i = Len(s) + 1
    \/ /\ state = "TEXT" /\ i <= Len(s)
       /\ \A k \in i..Len(s) : ~Delimiter(s[k])
       /\ text_buf = DecodeUtf8(TextBytes(s, i, Len(s), broken))
    \/ state = "VERSION" /\ i = Len(s) /\ s[i] = SOH
    \/ state = "LENGTH" /\ InLength(s, i, varint_bytes_read, varint_value, varint_scale)
    \/ /\ state = "PAYLOAD" /\ InPayload(s, i, varint_bytes_read, varint_value)
       /\ Len(s) = i + 1 + varint_bytes_read + Len(binary_buf)
       /\ \A k \in 1..Len(binary_buf) : s[i + 1 + varint_bytes_read + k] = binary_buf[k]

\* s was consumed, and its messages are those drained and those to be drained.
Parsed(s) ==
    /\ fed = s \o data
    /\ broken \in SUBSET (1..Len(s))
    /\ state = "TEXT" => Recorded(s, broken, data)
    /\ \E i \in 1..(Len(s) + 1) : Standing(s, i) /\ Boundary(s, broken, i, got \o messages)

ParseInv == \E s \in Seq(Byte) : Parsed(s)

LEMMA TailIs ==
    ASSUME NEW d \in Seq(Byte), d # <<>>
    PROVE  Tail(d) = SubSeq(d, 1 + 1, Len(d)) /\ Head(d) = d[1] /\ 1 \in 1..Len(d)
OBVIOUS

\* s2 is s and the first n bytes of d.
Taken(s, d, n, s2) ==
    /\ s2 \in Seq(Byte) /\ Begins(s, s2) /\ Len(s2) = Len(s) + n
    /\ \A k \in 1..n : s2[Len(s) + k] = d[k]
    /\ s \o d = s2 \o SubSeq(d, n + 1, Len(d))

LEMMA TakeFacts ==
    ASSUME NEW s \in Seq(Byte), NEW d \in Seq(Byte), NEW n \in 1..Len(d),
           NEW s2, s2 = s \o SubSeq(d, 1, n)
    PROVE  Taken(s, d, n, s2)
<1> DEFINE x == SubSeq(d, 1, n)
           y == SubSeq(d, n + 1, Len(d))
<1>0. Len(d) \in Nat /\ n \in Nat
  OBVIOUS
<1>1. x \in Seq(Byte) /\ Len(x) = n /\ \A k \in 1..n : x[k] = d[k]
  <2>1. 1 \in Nat \ {0} /\ 1 <= n + 1 /\ n <= Len(d) /\ n = n - 1 + 1 /\ \A k \in 1..n : 1 - 1 + k = k
    BY <1>0
  <2>2. x \in Seq(Byte) /\ Len(x) = n /\ \A k \in 1..n : x[k] = d[1 - 1 + k]
    BY <1>0, <2>1, PartFacts
  <2> HIDE DEF x
  <2> QED BY <2>1, <2>2
<1>2. y \in Seq(Byte)
  <2> DEFINE a == n + 1
             b == Len(d)
             m == b - a + 1
  <2>1. a \in Nat \ {0} /\ b \in Nat /\ a <= b + 1 /\ b <= Len(d) /\ m = b - a + 1
    BY <1>0
  <2> HIDE DEF a, b, m
  <2>2. SubSeq(d, a, b) \in Seq(Byte)
    BY <2>1, PartFacts
  <2> QED BY <2>2 DEF a, b
<1>3. x \o y = d
  <2>1. 1 \in 1..(Len(d) + 1) /\ n \in (1 - 1)..Len(d) /\ Len(d) \in n..Len(d)
    BY <1>0
  <2>2. SubSeq(d, 1, n) \o SubSeq(d, n + 1, Len(d)) = SubSeq(d, 1, Len(d))
    BY <2>1, ConcatAdjacentSubSeq
  <2>3. SubSeq(d, 1, Len(d)) = d
    OBVIOUS
  <2> QED BY <2>2, <2>3
<1> HIDE DEF x, y
<1>4. s2 = s \o x
  BY DEF x
<1>5. /\ s \o x \in Seq(Byte) /\ Len(s \o x) = Len(s) + Len(x) /\ Begins(s, s \o x)
      /\ \A k \in 1..Len(x) : (s \o x)[Len(s) + k] = x[k]
  BY <1>1, ConcatBegins, ZenonT(60)
<1>6. s \o d = s2 \o y
  <2>1. (s \o x) \o y = s \o (x \o y)
    BY <1>1, <1>2, ConcatAssociative, SMTT(60)
  <2> QED BY <1>3, <1>4, <2>1
<1> QED BY <1>1, <1>4, <1>5, <1>6 DEF y, Taken

\* A step of the loop consumes n bytes, and s becomes s2.
Consumes(s, n, s2) ==
    /\ s2 \in Seq(Byte) /\ Begins(s, s2) /\ Len(s2) = Len(s) + n
    /\ \A k \in 1..n : s2[Len(s) + k] = data[k]
    /\ fed' = s2 \o data'
    /\ broken \in SUBSET (1..Len(s2))
    /\ got' = got /\ broken' = broken

LEMMA Consuming ==
    ASSUME TypeInv, NEW s \in Seq(Byte), Parsed(s), UNCHANGED <<fed, got, broken>>,
           NEW n \in 1..Len(data), data' = SubSeq(data, n + 1, Len(data))
    PROVE  \E s2 : Consumes(s, n, s2)
<1> PICK s2 : s2 = s \o SubSeq(data, 1, n)
  OBVIOUS
<1>1. data \in Seq(Byte)
  BY DEF TypeInv, TypeOK, ReaderTypeOK, ParserTypeOK
<1>2. /\ s2 \in Seq(Byte) /\ Begins(s, s2) /\ Len(s2) = Len(s) + n
      /\ \A k \in 1..n : s2[Len(s) + k] = data[k]
      /\ s \o data = s2 \o SubSeq(data, n + 1, Len(data))
  <2>1. Taken(s, data, n, s2)
    BY <1>1, TakeFacts
  <2> QED BY <2>1 DEF Taken
<1>3. fed' = s2 \o data'
  BY <1>2 DEF Parsed
<1>4. broken \in SUBSET (1..Len(s2))
  <2>1. 1..Len(s) \subseteq 1..Len(s2)
    BY <1>2
  <2> QED BY <2>1 DEF Parsed
<1> QED BY <1>2, <1>3, <1>4 DEF Consumes

LEMMA Reached ==
    ASSUME NEW s, NEW n, NEW s2, Consumes(s, n, s2), state' = "TEXT" => data' = <<>>,
           NEW j \in 1..(Len(s2) + 1), Standing(s2, j)', Boundary(s2, broken, j, got \o messages')
    PROVE  ParseInv'
<1>1. fed' = s2 \o data' /\ broken' \in SUBSET (1..Len(s2)) /\ s2 \in Seq(Byte) /\ got' = got /\ broken' = broken
  BY DEF Consumes
<1>2. state' = "TEXT" => Recorded(s2, broken', data')
  BY DEF Recorded
<1>3. Boundary(s2, broken', j, got' \o messages')
  BY <1>1
<1>4. Parsed(s2)'
  BY <1>1, <1>2, <1>3 DEF Parsed
<1> QED BY <1>1, <1>4 DEF ParseInv

LEMMA AppendedMessage ==
    ASSUME NEW g \in Seq(Message), NEW ms \in Seq(Message), NEW m \in Message
    PROVE  g \o Append(ms, m) = (g \o ms) \o <<m>>
<1>1. Append(ms, m) = ms \o <<m>> /\ <<m>> \in Seq(Message)
  BY AppendIsConcat
<1> QED BY <1>1, MessageAssociative

-----------------------------------------------------------------------------
(* Each branch of the loop keeps the reader and the stream together.       *)

LEMMA Typing ==
    TypeInv => /\ data \in Seq(Byte) /\ text_buf \in Seq(Seq(Byte)) /\ binary_buf \in Seq(Byte)
               /\ messages \in Seq(Message) /\ got \in Seq(Message) /\ got \o messages \in Seq(Message)
<1> SUFFICES ASSUME TypeInv
             PROVE  /\ data \in Seq(Byte) /\ text_buf \in Seq(Seq(Byte)) /\ binary_buf \in Seq(Byte)
                    /\ messages \in Seq(Message) /\ got \in Seq(Message) /\ got \o messages \in Seq(Message)
  OBVIOUS
<1>1. /\ data \in Seq(Byte) /\ text_buf \in Seq(Seq(Byte)) /\ binary_buf \in Seq(Byte)
      /\ messages \in Seq(Message) /\ got \in Seq(Message)
  BY DEF TypeInv, TypeOK, ReaderTypeOK, ParserTypeOK
<1>2. got \o messages \in Seq(Message)
  BY <1>1
<1> QED BY <1>1, <1>2

LEMMA ParsedIdleSOH ==
    ASSUME TypeInv, NEW s \in Seq(Byte), Parsed(s), UNCHANGED <<fed, got, broken>>, IdleSOH
    PROVE  ParseInv'
<1>1. data \in Seq(Byte) /\ data # <<>> /\ state = "IDLE" /\ Head(data) = SOH /\ state' = "VERSION"
      /\ data' = Tail(data) /\ messages' = messages
  BY Typing DEF IdleSOH, handler_vars
<1>2. data' = SubSeq(data, 1 + 1, Len(data)) /\ data[1] = SOH /\ 1 \in 1..Len(data)
  BY <1>1, TailIs
<1>3. PICK s2 : Consumes(s, 1, s2)
  BY <1>2, Consuming
<1>4. s2 \in Seq(Byte) /\ Begins(s, s2) /\ Len(s2) = Len(s) + 1 /\ s2[Len(s) + 1] = SOH
  BY <1>2, <1>3 DEF Consumes
<1>5. PICK i \in 1..(Len(s) + 1) : Standing(s, i) /\ Boundary(s, broken, i, got \o messages)
  BY DEF Parsed
<1>6. i = Len(s2) /\ i \in Nat /\ i \in 1..(Len(s2) + 1)
  BY <1>1, <1>4, <1>5 DEF Standing
<1>7. Standing(s2, i)'
  BY <1>1, <1>4, <1>6 DEF Standing
<1>8. Boundary(s2, broken, i, got \o messages')
  BY <1>1, <1>4, <1>5, <1>6, BoundaryGrows
<1>9. state' # "TEXT"
  BY <1>1
<1> QED BY <1>3, <1>6, <1>7, <1>8, <1>9, Reached

LEMMA ParsedVersionKnown ==
    ASSUME TypeInv, NEW s \in Seq(Byte), Parsed(s), UNCHANGED <<fed, got, broken>>, VersionKnown
    PROVE  ParseInv'
<1>1. data \in Seq(Byte) /\ data # <<>> /\ state = "VERSION" /\ Head(data) = BINARY_PROTOCOL_V1 /\ state' = "LENGTH"
      /\ data' = Tail(data) /\ messages' = messages
      /\ varint_value' = 0 /\ varint_scale' = 1 /\ varint_bytes_read' = 0
  BY Typing DEF VersionKnown, handler_vars
<1>2. data' = SubSeq(data, 1 + 1, Len(data)) /\ data[1] = BINARY_PROTOCOL_V1 /\ 1 \in 1..Len(data)
  BY <1>1, TailIs
<1>3. PICK s2 : Consumes(s, 1, s2)
  BY <1>2, Consuming
<1>4. s2 \in Seq(Byte) /\ Begins(s, s2) /\ Len(s2) = Len(s) + 1 /\ s2[Len(s) + 1] = BINARY_PROTOCOL_V1
  BY <1>2, <1>3 DEF Consumes
<1>5. PICK i \in 1..(Len(s) + 1) : Standing(s, i) /\ Boundary(s, broken, i, got \o messages)
  BY DEF Parsed
<1>6. i = Len(s) /\ s[i] = SOH
  BY <1>1, <1>5 DEF Standing
<1>7. i \in Nat \ {0} /\ i + 1 = Len(s2) /\ i \in 1..(Len(s2) + 1) /\ i \in 1..Len(s)
  BY <1>4, <1>5, <1>6
<1>8. s2[i] = SOH /\ s2[i + 1] = BINARY_PROTOCOL_V1
  BY <1>4, <1>6, <1>7 DEF Begins
<1>9. Accumulated(Rest(s2, i))[0] = [value |-> 0, scale |-> 1]
  <2>1. Rest(s2, i) \in Seq(Byte)
    <3>1. i + 1 <= Len(s2)
      BY <1>7
    <3> QED BY <1>4, <1>7, <3>1, RestFacts
  <2> QED BY <2>1, AccumulatedSteps
<1>10. InLength(s2, i, 0, 0, 1)
  BY <1>7, <1>8, <1>9 DEF InLength
<1>11. Standing(s2, i)'
  BY <1>1, <1>10 DEF Standing
<1>12. Boundary(s2, broken, i, got \o messages')
  BY <1>1, <1>4, <1>5, <1>7, BoundaryGrows
<1>13. state' # "TEXT"
  BY <1>1
<1> QED BY <1>3, <1>7, <1>11, <1>12, <1>13, Reached

LEMMA ParsedVersionUnknown ==
    ASSUME TypeInv, NEW s \in Seq(Byte), Parsed(s), UNCHANGED <<fed, got, broken>>, VersionUnknown
    PROVE  ParseInv'
<1>1. data \in Seq(Byte) /\ data # <<>> /\ state = "VERSION" /\ Head(data) # BINARY_PROTOCOL_V1 /\ state' = "IDLE"
      /\ data' = Tail(data) /\ messages' = messages
  BY Typing DEF VersionUnknown, VersionByte, handler_vars
<1>2. data' = SubSeq(data, 1 + 1, Len(data)) /\ data[1] # BINARY_PROTOCOL_V1 /\ 1 \in 1..Len(data)
  BY <1>1, TailIs
<1>3. PICK s2 : Consumes(s, 1, s2)
  BY <1>2, Consuming
<1>4. s2 \in Seq(Byte) /\ Begins(s, s2) /\ Len(s2) = Len(s) + 1 /\ s2[Len(s) + 1] # BINARY_PROTOCOL_V1
  BY <1>2, <1>3 DEF Consumes
<1>5. PICK i \in 1..(Len(s) + 1) : Standing(s, i) /\ Boundary(s, broken, i, got \o messages)
  BY DEF Parsed
<1>6. i = Len(s) /\ s[i] = SOH
  BY <1>1, <1>5 DEF Standing
<1>7. i \in Nat \ {0} /\ i + 1 = Len(s2) /\ i \in 1..Len(s2) /\ i \in 1..Len(s) /\ i \in Nat
      /\ i + 2 \in (i + 1)..(Len(s2) + 1) /\ i + 2 = Len(s2) + 1 /\ i + 2 \in 1..(Len(s2) + 1)
  BY <1>4, <1>5, <1>6
<1>8. s2[i] = SOH /\ s2[i + 1] # BINARY_PROTOCOL_V1
  BY <1>4, <1>6, <1>7 DEF Begins
<1>9. Ends(s2, broken, i, i + 2, <<>>)
  BY <1>4, <1>7, <1>8, VersionEnds
<1> DEFINE ms == got \o messages
           j == i + 2
<1>10. ms \in Seq(Message) /\ <<>> \in Seq(Message) /\ ms \o <<>> = ms
  BY Typing
<1>11. Boundary(s2, broken, i, ms)
  BY <1>4, <1>5, <1>7, BoundaryGrows
<1>12. j \in (i + 1)..(Len(s2) + 1) /\ Ends(s2, broken, i, j, <<>>) /\ j \in 1..(Len(s2) + 1) /\ j = Len(s2) + 1
  BY <1>7, <1>9
<1>13. got \o messages' = ms
  BY <1>1
<1> HIDE DEF ms, j
<1>14. Boundary(s2, broken, j, ms \o <<>>)
  BY <1>4, <1>7, <1>10, <1>11, <1>12, BoundaryNext
<1>15. Standing(s2, j)'
  BY <1>1, <1>12 DEF Standing
<1>16. state' # "TEXT" /\ Boundary(s2, broken, j, got \o messages')
  BY <1>1, <1>10, <1>13, <1>14
<1> QED BY <1>3, <1>12, <1>15, <1>16, Reached

LEMMA ParsedLengthMore ==
    ASSUME TypeInv, NEW s \in Seq(Byte), Parsed(s), UNCHANGED <<fed, got, broken>>, LengthMore
    PROVE  ParseInv'
<1> DEFINE r == varint_bytes_read
           r2 == varint_bytes_read + 1
           v2 == varint_value'
           sc2 == varint_scale'
<1>1. data \in Seq(Byte) /\ data # <<>> /\ state = "LENGTH" /\ Continues(Head(data))
      /\ data' = Tail(data) /\ messages' = messages /\ varint_bytes_read' = r2
      /\ state' = (IF TooLong(varint_bytes_read') THEN "IDLE" ELSE "LENGTH")
      /\ v2 = varint_value + LowBits(Head(data)) * varint_scale /\ sc2 = varint_scale * Radix
  BY Typing DEF LengthMore, VarintByte, handler_vars
<1>2. data' = SubSeq(data, 1 + 1, Len(data)) /\ Continues(data[1]) /\ 1 \in 1..Len(data) /\ Head(data) = data[1]
  BY <1>1, TailIs
<1>3. PICK s2 : Consumes(s, 1, s2)
  BY <1>2, Consuming
<1>4. s2 \in Seq(Byte) /\ Begins(s, s2) /\ Len(s2) = Len(s) + 1 /\ s2[Len(s) + 1] = data[1]
  BY <1>2, <1>3 DEF Consumes
<1>5. PICK i \in 1..(Len(s) + 1) : Standing(s, i) /\ Boundary(s, broken, i, got \o messages)
  BY DEF Parsed
<1>6. InLength(s, i, r, varint_value, varint_scale)
  BY <1>1, <1>5 DEF Standing
<1>7. InLength(s2, i, r2, v2, sc2)
  BY <1>1, <1>2, <1>4, <1>6, LengthByte
<1>8. r \in 0..VarintMaxBytes /\ (r < VarintMaxBytes) /\ VarintMaxBytes \in Nat /\ i \in Nat /\ Len(s) \in Nat
  BY <1>1, VarintMaxAssumption DEF TypeInv, Inv, ParserTypeOK, VarintMaxAssumption
<1>9. Boundary(s2, broken, i, got \o messages')
  BY <1>1, <1>4, <1>5, <1>8, BoundaryGrows
<1>10. CASE ~(r2 >= VarintMaxBytes)
  <2>1. state' = "LENGTH"
    BY <1>1, <1>10 DEF TooLong
  <2>2. Standing(s2, i)'
    BY <1>1, <1>7, <2>1 DEF Standing
  <2>3. i \in 1..(Len(s2) + 1) /\ state' # "TEXT"
    BY <1>4, <1>8, <2>1
  <2> QED BY <1>3, <1>9, <2>2, <2>3, Reached
<1>11. CASE r2 >= VarintMaxBytes
  <2>1. state' = "IDLE" /\ r2 = VarintMaxBytes
    BY <1>1, <1>8, <1>11 DEF TooLong
  <2>2. Ends(s2, broken, i, Len(s2) + 1, <<>>)
    <3>1. InLength(s2, i, VarintMaxBytes, v2, sc2)
      BY <1>7, <2>1
    <3> HIDE DEF v2, sc2
    <3> QED BY <1>4, <3>1, LengthGivesUp
  <2> DEFINE ms == got \o messages
             j == Len(s2) + 1
  <2>3. ms \in Seq(Message) /\ <<>> \in Seq(Message) /\ ms \o <<>> = ms
    BY Typing
  <2>4. got \o messages' = ms
    BY <1>1
  <2>5. j \in (i + 1)..(Len(s2) + 1) /\ Ends(s2, broken, i, j, <<>>) /\ j \in 1..(Len(s2) + 1) /\ j = Len(s2) + 1
        /\ i \in 1..Len(s2)
    <3>1. i <= Len(s)
      BY <1>6 DEF InLength
    <3> QED BY <1>4, <1>8, <2>2, <3>1
  <2> HIDE DEF ms, j
  <2>6. Boundary(s2, broken, j, ms \o <<>>)
    BY <1>4, <1>9, <2>3, <2>4, <2>5, BoundaryNext
  <2>7. Standing(s2, j)'
    BY <2>1, <2>5 DEF Standing
  <2>8. state' # "TEXT" /\ Boundary(s2, broken, j, got \o messages')
    BY <2>1, <2>3, <2>4, <2>6
  <2> QED BY <1>3, <2>5, <2>7, <2>8, Reached
<1> QED BY <1>10, <1>11

\* The text buffered at i is what the bytes from i on decode to.
BufferedText(s, i) ==
    /\ \A k \in i..Len(s) : ~Delimiter(s[k])
    /\ text_buf = DecodeUtf8(TextBytes(s, i, Len(s), broken))

LEMMA BufferedTextHolds ==
    ASSUME TypeInv, NEW s \in Seq(Byte), NEW i \in 1..(Len(s) + 1), Standing(s, i), state \in {"IDLE", "TEXT"}
    PROVE  BufferedText(s, i)
<1>1. CASE state = "TEXT"
  BY <1>1 DEF Standing, BufferedText
<1>2. CASE state = "IDLE"
  <2>1. i = Len(s) + 1 /\ i \in Nat \ {0} /\ Len(s) \in Nat
    BY <1>2 DEF Standing
  <2>2. text_buf = <<>>
    BY <1>2 DEF TypeInv, Inv, BuffersBelongToMessage
  <2>3. DecodeUtf8(TextBytes(s, i, Len(s), broken)) = <<>>
    <3> DEFINE u == TextBytes(s, i, Len(s), broken)
               m == Len(s)
    <3>1. m \in Nat /\ i <= m + 1 /\ m <= Len(s) /\ m - i + 1 = 0
      BY <2>1
    <3>2. IsText(u, s, i, m, broken)
      <4> HIDE DEF m, u
      <4> QED BY <2>1, <3>1, TextBytesAre DEF m, u
    <3> HIDE DEF u
    <3>3. u = <<>>
      BY <3>1, <3>2 DEF IsText
    <3>4. [q \in 1..0 |-> DecodedAt(<<>>, q)] = <<>> /\ Len(<<>>) = 0
      OBVIOUS
    <3> QED BY <3>3, <3>4, FlattenEmpty DEF u, DecodeUtf8
  <2>4. \A k \in i..Len(s) : ~Delimiter(s[k])
    BY <2>1
  <2> QED BY <2>2, <2>3, <2>4 DEF BufferedText
<1> QED BY <1>1, <1>2

\* The text that ends at the delimiter after the first k bytes of the chunk.
EndedText(k) == Text(StripCR(text_buf \o DecodeUtf8(SubSeq(data, 1, k))))

AfterDelimiter(s, k) == IF data[k + 1] = LF THEN Len(s) + k + 2 ELSE Len(s) + k + 1

LEMMA TextReached ==
    ASSUME TypeInv, NEW s \in Seq(Byte), Parsed(s), NEW i \in 1..(Len(s) + 1), Standing(s, i),
           state \in {"IDLE", "TEXT"}, NEW k \in 0..(Len(data) - 1), Delimiter(data[k + 1]),
           \A m \in 1..k : ~Delimiter(data[m]), state = "IDLE" => data[1] # SOH,
           NEW s2, Consumes(s, k + 1, s2)
    PROVE  /\ Ends(s2, broken, i, AfterDelimiter(s, k), <<EndedText(k)>>)
           /\ s2[i] # SOH /\ s2[Len(s) + k + 1] = data[k + 1]
<1> DEFINE chunk == SubSeq(data, 1, k)
           n == Len(s) + k
           p == k + 1
<1>0. /\ data \in Seq(Byte) /\ Len(data) \in Nat /\ k \in Nat /\ k <= Len(data) /\ k \in 0..Len(data)
      /\ p \in 1..p /\ Len(s) \in Nat /\ n \in Nat /\ n + 1 = Len(s) + p /\ i \in Nat \ {0}
  BY Typing
<1>1. /\ s2 \in Seq(Byte) /\ Begins(s, s2) /\ Len(s2) = Len(s) + p /\ \A m \in 1..p : s2[Len(s) + m] = data[m]
  BY DEF Consumes
<1>2. chunk \in Seq(Byte) /\ Len(chunk) = k /\ \A m \in 1..k : chunk[m] = data[m]
  <2>1. chunk \in Seq(Byte) /\ Len(chunk) = k
    BY <1>0, PrefixFacts
  <2>2. \A m \in 1..k : chunk[m] = data[m]
    BY <1>0
  <2> QED BY <2>1, <2>2
<1>3. s2[n + 1] = data[p] /\ Len(s2) = n + 1
  <2>1. s2[Len(s) + p] = data[p]
    BY <1>0, <1>1
  <2> QED BY <1>0, <1>1, <2>1
<1>4. BufferedText(s, i)
  BY BufferedTextHolds
<1>5. \A m \in 1..Len(chunk) : ~Delimiter(chunk[m])
  BY <1>2
<1>6. \A m \in 1..Len(chunk) : s2[Len(s) + m] = chunk[m]
  <2>1. \A m \in 1..k : m \in 1..p
    BY <1>0
  <2> QED BY <1>1, <1>2, <2>1
<1>7. s2[i] # SOH
  <2>1. CASE state = "TEXT"
    <3>1. i \in i..Len(s) /\ i \in 1..Len(s)
      BY <1>0, <2>1 DEF Standing
    <3>2. ~Delimiter(s[i])
      BY <1>4, <3>1 DEF BufferedText
    <3>3. s2[i] = s[i]
      BY <1>1, <3>1 DEF Begins
    <3> QED BY <3>2, <3>3 DEF Delimiter
  <2>2. CASE state = "IDLE"
    <3>1. i = Len(s) + 1 /\ 1 \in 1..p
      BY <1>0, <2>2 DEF Standing
    <3>2. s2[Len(s) + 1] = data[1]
      BY <1>1, <3>1
    <3> QED BY <2>2, <3>1, <3>2
  <2> QED BY <2>1, <2>2
<1>8. i <= Len(s) => Recorded(s, broken, chunk)
  <2> SUFFICES ASSUME i <= Len(s) PROVE Recorded(s, broken, chunk)
    OBVIOUS
  <2>1. state = "TEXT"
    BY <1>0 DEF Standing
  <2>2. Recorded(s, broken, data)
    BY <2>1 DEF Parsed
  <2>3. chunk # <<>> => data # <<>> /\ chunk[1] = data[1]
    <3> HIDE DEF chunk
    <3> QED BY <1>0, <1>2
  <2> HIDE DEF chunk
  <2> QED BY <2>2, <2>3 DEF Recorded
<1>9. broken \in SUBSET (1..Len(s))
  BY DEF Parsed
<1>10. n = Len(s) + Len(chunk) /\ Delimiter(s2[n + 1])
  BY <1>2, <1>3
<1> HIDE DEF chunk, n, p
<1>11. TextCompleted(s, broken, i, chunk, s2, n)
  BY <1>1, <1>3, <1>4, <1>5, <1>6, <1>7, <1>8, <1>10 DEF BufferedText, TextCompleted
<1>12. Ends(s2, broken, i, IF s2[n + 1] = LF THEN n + 2 ELSE n + 1,
            <<Text(StripCR(text_buf \o DecodeUtf8(chunk)))>>)
  <2>1. text_buf = DecodeUtf8(TextBytes(s, i, Len(s), broken))
    BY <1>4 DEF BufferedText
  <2> QED BY <1>1, <1>2, <1>9, <1>11, <2>1, TextEnds
<1> QED BY <1>3, <1>7, <1>12 DEF chunk, n, p, AfterDelimiter, EndedText

LEMMA ParsedTextEnd ==
    ASSUME TypeInv, NEW s \in Seq(Byte), Parsed(s), UNCHANGED <<fed, got, broken>>,
           state \in {"IDLE", "TEXT"}, NEW k \in 0..(Len(data) - 1), Delimiter(data[k + 1]),
           \A m \in 1..k : ~Delimiter(data[m]), state = "IDLE" => data[1] # SOH,
           messages' = Append(messages, EndedText(k)), data' = SubSeq(data, k + 2, Len(data)),
           state' = IF data[k + 1] = LF THEN "IDLE" ELSE "VERSION"
    PROVE  ParseInv'
<1> PICK j : j = AfterDelimiter(s, k)
  OBVIOUS
<1> DEFINE p == k + 1
           y == EndedText(k)
           ms == got \o messages
<1>0. /\ data \in Seq(Byte) /\ Len(data) \in Nat /\ k \in Nat /\ p \in 1..Len(data) /\ p + 1 = k + 2 /\ Len(s) \in Nat
      /\ k \in 0..Len(data)
  BY Typing
<1>1. data' = SubSeq(data, p + 1, Len(data))
  BY <1>0
<1>2. PICK s2 : Consumes(s, p, s2)
  <2> HIDE DEF p
  <2> QED BY <1>0, <1>1, Consuming
<1>3. PICK i \in 1..(Len(s) + 1) : Standing(s, i) /\ Boundary(s, broken, i, got \o messages)
  BY DEF Parsed
<1>4. Ends(s2, broken, i, j, <<y>>) /\ s2[i] # SOH /\ s2[Len(s) + p] = data[p]
  <2>1. Len(s) + p = Len(s) + k + 1
    BY <1>0
  <2>2. Ends(s2, broken, i, AfterDelimiter(s, k), <<EndedText(k)>>) /\ s2[i] # SOH
        /\ s2[Len(s) + k + 1] = data[k + 1]
    BY <1>2, <1>3, TextReached, SMTT(60)
  <2> QED BY <2>1, <2>2
<1>5. s2 \in Seq(Byte) /\ Begins(s, s2) /\ Len(s2) = Len(s) + p
  BY <1>2 DEF Consumes
<1>6. i \in 1..Len(s2) /\ i \in Nat /\ j \in (i + 1)..(Len(s2) + 1) /\ j \in 1..(Len(s2) + 1)
      /\ (data[p] = LF => j = Len(s2) + 1) /\ (data[p] # LF => j = Len(s2) /\ s2[j] = SOH)
  <2>1. i \in Nat \ {0} /\ i <= Len(s2) /\ Len(s2) = Len(s) + k + 1
    BY <1>0, <1>5
  <2>2. CASE data[p] = LF
    BY <1>0, <2>1, <2>2 DEF AfterDelimiter
  <2>3. CASE data[p] # LF
    <3>1. data[p] = SOH /\ j = Len(s2) /\ s2[Len(s2)] = SOH
      BY <1>0, <1>4, <1>5, <2>1, <2>3 DEF AfterDelimiter, Delimiter
    <3>2. i # Len(s2)
      BY <1>4, <3>1
    <3> QED BY <1>0, <2>1, <2>3, <3>1, <3>2
  <2> QED BY <2>2, <2>3
<1>7. y \in Message /\ <<y>> \in Seq(Message)
  <2>1. SubSeq(data, 1, k) \in Seq(Byte)
    BY <1>0, PrefixFacts
  <2>2. y \in Message
    BY <2>1, TextType, Typing DEF EndedText
  <2> QED BY <2>2
<1>8. messages \in Seq(Message) /\ got \in Seq(Message) /\ ms \in Seq(Message)
  BY Typing
<1>9. Boundary(s2, broken, i, ms)
  BY <1>3, <1>5, <1>6, BoundaryGrows
<1>10. got \o messages' = ms \o <<y>>
  <2> HIDE DEF y
  <2>1. messages' = Append(messages, y)
    BY DEF y
  <2> QED BY <1>7, <1>8, <2>1, AppendedMessage, SMTT(60)
<1> HIDE DEF ms, y
<1>11. Boundary(s2, broken, j, ms \o <<y>>)
  BY <1>4, <1>5, <1>6, <1>7, <1>8, <1>9, BoundaryNext
<1>12. Standing(s2, j)'
  <2>1. CASE data[p] = LF
    <3>1. state' = "IDLE" /\ j = Len(s2) + 1
      BY <1>6, <2>1 DEF p
    <3> QED BY <3>1 DEF Standing
  <2>2. CASE data[p] # LF
    <3>1. state' = "VERSION" /\ j = Len(s2) /\ s2[j] = SOH
      BY <1>6, <2>2 DEF p
    <3> QED BY <3>1 DEF Standing
  <2> QED BY <2>1, <2>2
<1>13. state' # "TEXT" /\ Boundary(s2, broken, j, got \o messages')
  BY <1>10, <1>11
<1>14. state' = "TEXT" => data' = <<>>
  BY <1>13
<1> HIDE DEF p
<1> QED BY <1>2, <1>6, <1>12, <1>13, <1>14, Reached

LEMMA ParsedIdleNewline ==
    ASSUME TypeInv, NEW s \in Seq(Byte), Parsed(s), UNCHANGED <<fed, got, broken>>, IdleNewline
    PROVE  ParseInv'
<1>1. data \in Seq(Byte) /\ data # <<>> /\ state = "IDLE" /\ Head(data) = LF /\ state' = state
      /\ data' = Tail(data) /\ messages' = Append(messages, Text(StripCR(text_buf \o DecodeUtf8(<<>>))))
  BY Typing DEF IdleNewline, TextEnd, parser_vars
<1>2. data' = SubSeq(data, 0 + 2, Len(data)) /\ data[0 + 1] = LF /\ 0 \in 0..(Len(data) - 1) /\ LF # SOH
  BY <1>1, TailIs DEF LF, SOH
<1>3. SubSeq(data, 1, 0) = <<>>
  BY <1>1
<1>4. messages' = Append(messages, EndedText(0))
  BY <1>1, <1>3 DEF EndedText
<1>5. Delimiter(data[0 + 1]) /\ \A m \in 1..0 : ~Delimiter(data[m])
  BY <1>2 DEF Delimiter
<1>6. data[1] # SOH /\ state' = IF data[0 + 1] = LF THEN "IDLE" ELSE "VERSION"
  BY <1>1, <1>2
<1>7. state \in {"IDLE", "TEXT"} /\ (state = "IDLE" => data[1] # SOH)
  BY <1>1, <1>6
<1> QED BY <1>2, <1>4, <1>5, <1>6, <1>7, ParsedTextEnd

LEMMA ParsedTextDelimiter ==
    ASSUME TypeInv, NEW s \in Seq(Byte), Parsed(s), UNCHANGED <<fed, got, broken>>, FeedTextDelimiter
    PROVE  ParseInv'
<1>1. PICK k \in 0..(Len(data) - 1) :
        /\ Delimiter(data[k + 1])
        /\ \A m \in 1..k : ~Delimiter(data[m])
        /\ TextEnd(SubSeq(data, 1, k))
        /\ state' = AfterText(data[k + 1])
        /\ data' = SubSeq(data, k + 2, Len(data))
  BY DEF FeedTextDelimiter
<1>2. messages' = Append(messages, EndedText(k))
  BY <1>1 DEF TextEnd, EndedText
<1>3. state' = IF data[k + 1] = LF THEN "IDLE" ELSE "VERSION"
  BY <1>1 DEF AfterText
<1>4. state \in {"IDLE", "TEXT"} /\ (state = "IDLE" => data[1] # SOH)
  BY Typing DEF FeedTextDelimiter, AtText, Delimiter
<1> QED BY <1>1, <1>2, <1>3, <1>4, ParsedTextEnd

LEMMA ParsedTextPartial ==
    ASSUME TypeInv, NEW s \in Seq(Byte), Parsed(s), UNCHANGED <<fed, got, broken>>, FeedTextPartial
    PROVE  ParseInv'
<1>1. /\ data \in Seq(Byte) /\ data # <<>> /\ state \in {"IDLE", "TEXT"} /\ state' = "TEXT"
      /\ data' = <<>> /\ messages' = messages /\ text_buf' = text_buf \o DecodeUtf8(data)
      /\ \A m \in 1..Len(data) : ~Delimiter(data[m])
  BY Typing DEF FeedTextPartial, AtText, TextData
<1> PICK n : n = Len(data)
  OBVIOUS
<1>2. n \in 1..Len(data) /\ n \in Nat \ {0} /\ data' = SubSeq(data, n + 1, Len(data)) /\ Len(s) \in Nat
  BY <1>1
<1>3. PICK s2 : Consumes(s, n, s2)
  BY <1>2, Consuming
<1>4. /\ s2 \in Seq(Byte) /\ Begins(s, s2) /\ Len(s2) = Len(s) + n /\ \A m \in 1..n : s2[Len(s) + m] = data[m]
      /\ broken' = broken
  BY <1>3 DEF Consumes
<1>5. PICK i \in 1..(Len(s) + 1) : Standing(s, i) /\ Boundary(s, broken, i, got \o messages)
  BY DEF Parsed
<1>6. BufferedText(s, i)
  BY <1>1, <1>5, BufferedTextHolds
<1>7. i <= Len(s) => Recorded(s, broken, data)
  <2> SUFFICES ASSUME i <= Len(s) PROVE Recorded(s, broken, data)
    OBVIOUS
  <2>1. state = "TEXT"
    BY <1>1, <1>2, <1>5 DEF Standing
  <2> QED BY <2>1 DEF Parsed
<1>8. IsJoined(s2, i, Len(s2), broken, s, broken, data)
  <2> DEFINE m == Len(s2)
  <2>1. m = Len(s) + Len(data)
    BY <1>4
  <2>2. Joins(s, data, s2)
    BY <1>2, <1>4 DEF Joins
  <2>3. SameCuts(broken, broken, m)
    BY DEF SameCuts
  <2>4. broken \in SUBSET (1..Len(s))
    BY DEF Parsed
  <2> HIDE DEF m
  <2>5. IsJoined(s2, i, m, broken, s, broken, data)
    BY <1>1, <1>4, <1>7, <2>1, <2>2, <2>3, <2>4, TextJoined
  <2> QED BY <2>5 DEF m
<1>9. text_buf' = DecodeUtf8(TextBytes(s2, i, Len(s2), broken))
  BY <1>1, <1>6, <1>8 DEF IsJoined, BufferedText
<1>10. ASSUME NEW q \in i..Len(s2) PROVE ~Delimiter(s2[q])
  <2>1. CASE q <= Len(s)
    <3>1. q \in i..Len(s) /\ q \in 1..Len(s)
      BY <1>2, <1>4, <2>1
    <3>2. s2[q] = s[q]
      BY <1>4, <3>1 DEF Begins
    <3> QED BY <1>6, <3>1, <3>2 DEF BufferedText
  <2>2. CASE ~(q <= Len(s))
    <3> PICK m : m = q - Len(s)
      OBVIOUS
    <3>1. m \in 1..n /\ m \in 1..Len(data) /\ Len(s) + m = q
      BY <1>2, <1>4, <2>2
    <3>2. s2[Len(s) + m] = data[m]
      BY <1>4, <3>1
    <3> QED BY <1>1, <3>1, <3>2
  <2> QED BY <2>1, <2>2
<1>11. i \in 1..(Len(s2) + 1) /\ i \in Nat /\ i <= Len(s2)
  BY <1>2, <1>4
<1>12. Standing(s2, i)'
  BY <1>1, <1>4, <1>9, <1>10, <1>11 DEF Standing
<1>13. Boundary(s2, broken, i, got \o messages')
  BY <1>1, <1>4, <1>5, <1>11, BoundaryGrows
<1> QED BY <1>1, <1>3, <1>11, <1>12, <1>13, Reached

\* The message that began at i is complete at the end of s2.
LEMMA ParsedBinaryEnd ==
    ASSUME TypeInv, NEW s, NEW i \in Nat, NEW n, NEW s2, Consumes(s, n, s2), i \in 1..Len(s2),
           Boundary(s2, broken, i, got \o messages), NEW bytes \in Seq(Byte),
           Ends(s2, broken, i, Len(s2) + 1, <<Binary(bytes)>>),
           messages' = Append(messages, Binary(bytes)), state' = "IDLE"
    PROVE  ParseInv'
<1> DEFINE ms == got \o messages
           y == Binary(bytes)
<1> PICK j : j = Len(s2) + 1
  OBVIOUS
<1>1. s2 \in Seq(Byte)
  BY DEF Consumes
<1>2. messages \in Seq(Message) /\ got \in Seq(Message) /\ ms \in Seq(Message)
  BY Typing
<1>3. y \in Message /\ <<y>> \in Seq(Message)
  BY DEF Message, Binary
<1>4. got \o messages' = ms \o <<y>>
  <2> HIDE DEF y
  <2>1. messages' = Append(messages, y)
    BY DEF y
  <2> QED BY <1>2, <1>3, <2>1, AppendedMessage
<1>5. j \in (i + 1)..(Len(s2) + 1) /\ j \in 1..(Len(s2) + 1)
  BY <1>1
<1> HIDE DEF ms, y
<1>6. Ends(s2, broken, i, j, <<y>>) /\ Boundary(s2, broken, i, ms)
  BY DEF ms, y
<1>7. Boundary(s2, broken, j, ms \o <<y>>)
  BY <1>1, <1>2, <1>3, <1>5, <1>6, BoundaryNext
<1>8. Boundary(s2, broken, j, got \o messages')
  BY <1>4, <1>7
<1>9. Standing(s2, j)'
  BY DEF Standing
<1>10. state' = "TEXT" => data' = <<>>
  OBVIOUS
<1> QED BY <1>5, <1>8, <1>9, <1>10, Reached

LEMMA ParsedLengthDone ==
    ASSUME TypeInv, NEW s \in Seq(Byte), Parsed(s), UNCHANGED <<fed, got, broken>>, LengthDone
    PROVE  ParseInv'
<1> PICK r : r = varint_bytes_read
  OBVIOUS
<1> PICK v2 : v2 = varint_value + LowBits(Head(data)) * varint_scale
  OBVIOUS
<1>1. /\ data \in Seq(Byte) /\ data # <<>> /\ state = "LENGTH" /\ ~Continues(Head(data))
      /\ data' = Tail(data) /\ varint_bytes_read' = r + 1 /\ varint_value' = v2 /\ binary_buf' = <<>>
      /\ v2 = 0 => state' = "IDLE" /\ messages' = Append(messages, Binary(<<>>))
      /\ v2 # 0 => state' = "PAYLOAD" /\ messages' = messages
  BY Typing DEF LengthDone, VarintByte
<1>2. data' = SubSeq(data, 1 + 1, Len(data)) /\ ~Continues(data[1]) /\ 1 \in 1..Len(data) /\ Head(data) = data[1]
  BY <1>1, TailIs
<1>3. PICK s2 : Consumes(s, 1, s2)
  BY <1>2, Consuming
<1>4. s2 \in Seq(Byte) /\ Begins(s, s2) /\ Len(s2) = Len(s) + 1 /\ s2[Len(s) + 1] = data[1]
  BY <1>2, <1>3 DEF Consumes
<1>5. PICK i \in 1..(Len(s) + 1) : Standing(s, i) /\ Boundary(s, broken, i, got \o messages)
  BY DEF Parsed
<1>6. InLength(s, i, r, varint_value, varint_scale) /\ r < VarintMaxBytes
  BY <1>1, <1>5 DEF Standing, TypeInv, Inv
<1>7. InPayload(s2, i, r + 1, v2) /\ Len(s2) = i + 1 + (r + 1)
  <2> PICK c : c = data[1]
    OBVIOUS
  <2>1. s2[Len(s) + 1] = c /\ ~Continues(c) /\ v2 = varint_value + LowBits(c) * varint_scale
    BY <1>2, <1>4
  <2>2. InPayload(s2, i, r + 1, varint_value + LowBits(c) * varint_scale) /\ Len(s2) = i + 1 + (r + 1)
    BY <1>4, <1>6, <2>1, LengthLast
  <2> QED BY <2>1, <2>2
<1>8. i \in Nat /\ i \in 1..Len(s2) /\ i \in 1..(Len(s2) + 1) /\ r \in Nat
  BY <1>4, <1>6, <1>7 DEF InLength
<1>9. Boundary(s2, broken, i, got \o messages)
  BY <1>4, <1>5, <1>8, BoundaryGrows
<1>10. CASE v2 = 0
  <2>1. <<>> \in Seq(Byte) /\ Len(<<>>) = 0
    OBVIOUS
  <2>2. Len(s2) = i + 1 + (r + 1) + v2
    BY <1>7, <1>8, <1>10
  <2>3. \A k \in 1..v2 : s2[i + 1 + (r + 1) + k] = <<>>[k]
    BY <1>10
  <2>4. Ends(s2, broken, i, Len(s2) + 1, <<Binary(<<>>)>>)
    <3>1. Carries(s2, i + 1 + (r + 1), <<>>, v2)
      BY <1>10, <2>1, <2>2, <2>3 DEF Carries
    <3> QED BY <1>4, <1>7, <2>1, <3>1, PayloadEnds
  <2> QED BY <1>1, <1>3, <1>8, <1>9, <1>10, <2>1, <2>4, ParsedBinaryEnd
<1>11. CASE v2 # 0
  <2>1. Len(s2) = i + 1 + (r + 1) + Len(binary_buf') /\ Len(binary_buf') = 0
    BY <1>1, <1>7, <1>8
  <2>2. Standing(s2, i)'
    BY <1>1, <1>7, <1>11, <2>1 DEF Standing
  <2>3. Boundary(s2, broken, i, got \o messages') /\ state' # "TEXT"
    BY <1>1, <1>9, <1>11
  <2> QED BY <1>3, <1>8, <2>2, <2>3, Reached
<1> QED BY <1>10, <1>11

LEMMA ParsedPayload ==
    ASSUME TypeInv, NEW s \in Seq(Byte), Parsed(s), UNCHANGED <<fed, got, broken>>, FeedPayload
    PROVE  ParseInv'
<1> PICK take : take = PayloadTake
  OBVIOUS
<1> PICK part : part = SubSeq(data, 1, take)
  OBVIOUS
<1> PICK bytes : bytes = binary_buf \o part
  OBVIOUS
<1>1. /\ data \in Seq(Byte) /\ data # <<>> /\ state = "PAYLOAD" /\ data' = SubSeq(data, take + 1, Len(data))
      /\ varint_bytes_read' = varint_bytes_read /\ varint_value' = varint_value
      /\ take = payload_remaining => state' = "IDLE" /\ messages' = Append(messages, Binary(bytes))
      /\ take # payload_remaining => state' = "PAYLOAD" /\ binary_buf' = bytes /\ messages' = messages
  BY Typing DEF FeedPayload, BinaryEnd, Collected, varint_vars
<1>2. /\ payload_remaining \in Nat \ {0} /\ binary_buf \in Seq(Byte)
      /\ Len(binary_buf) + payload_remaining = varint_value /\ Len(binary_buf) \in Nat
  BY <1>1, Typing DEF TypeInv, Inv, ParserTypeOK, BuffersBelongToMessage, PayloadAsAnnounced
<1>3. /\ take \in 1..Len(data) /\ take \in 0..Len(data) /\ take \in Nat /\ Len(data) \in Nat /\ Len(s) \in Nat
  BY <1>1, <1>2 DEF PayloadTake
<1>4. PICK s2 : Consumes(s, take, s2)
  BY <1>1, <1>3, Consuming
<1>5. s2 \in Seq(Byte) /\ Begins(s, s2) /\ Len(s2) = Len(s) + take /\ \A m \in 1..take : s2[Len(s) + m] = data[m]
  BY <1>4 DEF Consumes
<1>6. PICK i \in 1..(Len(s) + 1) : Standing(s, i) /\ Boundary(s, broken, i, got \o messages)
  BY DEF Parsed
<1> PICK r : r = varint_bytes_read
  OBVIOUS
<1> PICK q : q = i + 1 + r
  OBVIOUS
<1>7. /\ InPayload(s, i, r, varint_value) /\ Len(s) = q + Len(binary_buf)
      /\ \A k \in 1..Len(binary_buf) : s[q + k] = binary_buf[k]
  BY <1>1, <1>6 DEF Standing
<1>8. i \in Nat \ {0} /\ i + 1 <= Len(s) /\ r \in 1..VarintMaxBytes /\ r \in Nat \ {0} /\ q \in Nat /\ q <= Len(s)
  <2>1. i \in Nat \ {0} /\ r \in 1..VarintMaxBytes /\ q <= Len(s)
    BY <1>7 DEF InPayload
  <2>2. r \in Nat \ {0}
    BY <2>1, VarintMaxAssumption DEF VarintMaxAssumption
  <2> QED BY <1>3, <2>1, <2>2
<1>9. part \in Seq(Byte) /\ Len(part) = take /\ \A m \in 1..take : part[m] = data[m]
  <2>1. part \in Seq(Byte) /\ Len(part) = take
    BY <1>1, <1>3, PrefixFacts
  <2>2. \A m \in 1..take : part[m] = data[m]
    BY <1>1, <1>3
  <2> QED BY <2>1, <2>2
<1>10. /\ bytes \in Seq(Byte) /\ Len(bytes) = Len(binary_buf) + take
       /\ Len(s2) = q + Len(bytes) /\ \A k \in 1..Len(bytes) : s2[q + k] = bytes[k]
  <2>1. bytes \in Seq(Byte) /\ Len(bytes) = Len(binary_buf) + take
    BY <1>2, <1>9
  <2>2. Len(s2) = q + Len(bytes)
    BY <1>2, <1>3, <1>5, <1>7, <1>8, <2>1
  <2>3. ASSUME NEW k \in 1..Len(bytes) PROVE s2[q + k] = bytes[k]
    <3>1. CASE k <= Len(binary_buf)
      <4>1. k \in 1..Len(binary_buf) /\ q + k \in 1..Len(s)
        BY <1>2, <1>3, <1>7, <1>8, <2>1, <3>1
      <4>2. bytes[k] = binary_buf[k]
        BY <1>2, <1>9, <4>1
      <4>3. s2[q + k] = s[q + k]
        BY <1>5, <4>1 DEF Begins
      <4> QED BY <1>7, <4>1, <4>2, <4>3
    <3>2. CASE ~(k <= Len(binary_buf))
      <4> PICK m : m = k - Len(binary_buf)
        OBVIOUS
      <4>1. m \in 1..take /\ q + k = Len(s) + m /\ k = Len(binary_buf) + m
        BY <1>2, <1>3, <1>7, <1>8, <2>1, <3>2
      <4>2. bytes[k] = part[m]
        BY <1>2, <1>9, <4>1, SMTT(60)
      <4>3. s2[q + k] = data[m]
        BY <1>5, <4>1
      <4> QED BY <1>9, <4>1, <4>2, <4>3
    <3> QED BY <3>1, <3>2
  <2> QED BY <2>1, <2>2, <2>3
<1>11. InPayload(s2, i, r, varint_value)
  <2>1. \A k \in 1..r : i + 1 + k \in 1..Len(s)
    BY <1>3, <1>8 DEF InPayload
  <2>2. i \in 1..Len(s) /\ i + 1 \in 1..Len(s)
    BY <1>3, <1>8
  <2>3. s2[i] = SOH /\ s2[i + 1] = BINARY_PROTOCOL_V1
    BY <1>5, <1>7, <2>2 DEF Begins, InPayload
  <2>4. \A k \in 1..r : s2[i + 1 + k] = s[i + 1 + k]
    BY <1>5, <2>1 DEF Begins
  <2>5. \A k \in 1..(r - 1) : Continues(s2[i + 1 + k])
    <3> TAKE k \in 1..(r - 1)
    <3>1. Continues(s[i + 1 + k])
      BY <1>7 DEF InPayload
    <3>2. k \in 1..r
      BY <1>8
    <3> QED BY <2>4, <3>1, <3>2
  <2>6. ~Continues(s2[i + 1 + r])
    <3>1. ~Continues(s[i + 1 + r])
      BY <1>7 DEF InPayload
    <3>2. r \in 1..r
      BY <1>8
    <3> QED BY <2>4, <3>1, <3>2
  <2>7. Accumulated(Rest(s2, i))[r].value = varint_value
    <3> DEFINE u == Rest(s, i)
               v == Rest(s2, i)
    <3>1. Begins(u, v) /\ i + 1 <= Len(s2)
      BY <1>5, <1>8, RestBegins
    <3>2. u \in Seq(Byte) /\ Len(u) = Len(s) - i - 1
      BY <1>8, RestFacts
    <3>3. v \in Seq(Byte)
      BY <1>5, <1>8, <3>1, RestFacts
    <3>4. r \in 0..Len(u)
      <4>1. q <= Len(s)
        BY <1>8
      <4> HIDE DEF u
      <4> QED BY <1>3, <1>8, <3>2, <4>1
    <3>5. Accumulated(u)[r].value = varint_value
      BY <1>7 DEF InPayload
    <3> HIDE DEF u, v
    <3>6. Accumulated(v)[r] = Accumulated(u)[r]
      BY <3>1, <3>2, <3>3, <3>4, AccumulatedBefore
    <3> QED BY <3>5, <3>6 DEF v
  <2>8. i + 1 + r <= Len(s2)
    BY <1>3, <1>5, <1>8
  <2> QED BY <1>8, <2>3, <2>5, <2>6, <2>7, <2>8 DEF InPayload
<1>12. i \in Nat /\ i \in 1..Len(s2) /\ i \in 1..(Len(s2) + 1)
  BY <1>3, <1>5, <1>8
<1>13. Boundary(s2, broken, i, got \o messages)
  BY <1>5, <1>6, <1>12, BoundaryGrows
<1>14. CASE take = payload_remaining
  <2>1. Len(bytes) = varint_value
    BY <1>2, <1>10, <1>14
  <2>2. Ends(s2, broken, i, Len(s2) + 1, <<Binary(bytes)>>)
    <3>1. Carries(s2, i + 1 + r, bytes, varint_value)
      BY <1>10, <2>1 DEF Carries
    <3> QED BY <1>5, <1>10, <1>11, <3>1, PayloadEnds
  <2> QED BY <1>1, <1>4, <1>10, <1>12, <1>13, <1>14, <2>2, ParsedBinaryEnd
<1>15. CASE take # payload_remaining
  <2>1. Standing(s2, i)'
    BY <1>1, <1>10, <1>11, <1>15 DEF Standing
  <2>2. Boundary(s2, broken, i, got \o messages') /\ state' # "TEXT"
    BY <1>1, <1>13, <1>15
  <2> QED BY <1>4, <1>12, <2>1, <2>2, Reached
<1> QED BY <1>14, <1>15

LEMMA FeedLoopParsed == TypeInv /\ ParseInv /\ FeedIteration => ParseInv'
<1> SUFFICES ASSUME TypeInv, ParseInv, FeedIteration PROVE ParseInv'
  OBVIOUS
<1> PICK s \in Seq(Byte) : Parsed(s)
  BY DEF ParseInv
<1>1. FeedLoop /\ UNCHANGED <<fed, got, broken>>
  BY DEF FeedIteration
<1>2. CASE IdleSOH
  BY <1>1, <1>2, ParsedIdleSOH
<1>3. CASE IdleNewline
  BY <1>1, <1>3, ParsedIdleNewline
<1>4. CASE FeedTextDelimiter
  BY <1>1, <1>4, ParsedTextDelimiter
<1>5. CASE FeedTextPartial
  BY <1>1, <1>5, ParsedTextPartial
<1>6. CASE VersionKnown
  BY <1>1, <1>6, ParsedVersionKnown
<1>7. CASE VersionUnknown
  BY <1>1, <1>7, ParsedVersionUnknown
<1>8. CASE LengthMore
  BY <1>1, <1>8, ParsedLengthMore
<1>9. CASE LengthDone
  BY <1>1, <1>9, ParsedLengthDone
<1>10. CASE FeedPayload
  BY <1>1, <1>10, ParsedPayload
<1> QED BY <1>1, <1>2, <1>3, <1>4, <1>5, <1>6, <1>7, <1>8, <1>9, <1>10 DEF FeedLoop

\* Between two calls of feed, every byte fed is consumed.
LEMMA NothingLeft ==
    ASSUME TypeInv, NEW s \in Seq(Byte), Parsed(s), data = <<>>
    PROVE  fed = s
BY DEF Parsed

LEMMA FeedChunkParsed ==
    ASSUME TypeInv, ParseInv, NEW chunk \in Chunks, FeedChunk(chunk)
    PROVE  ParseInv'
<1> PICK s \in Seq(Byte) : Parsed(s)
  BY DEF ParseInv
<1>1. /\ data = <<>> /\ data' = chunk /\ state' = state /\ fed' = fed \o chunk /\ got' = got
      /\ UNCHANGED <<varint_value, varint_scale, varint_bytes_read>> /\ UNCHANGED <<text_buf, binary_buf, messages>>
  BY DEF FeedChunk, Feed, parser_vars, handler_vars
<1>2. chunk \in Seq(Byte) /\ chunk # <<>> /\ Head(chunk) = chunk[1]
  <2>1. chunk \in Seq(Byte) /\ chunk # <<>>
    BY ChunkType DEF Chunks
  <2> QED BY <2>1, TailIs
<1>3. fed = s /\ fed' = s \o data'
  BY <1>1, NothingLeft
<1>4. broken' = IF s # <<>> /\ s[Len(s)] \in Lead /\ chunk[1] \in Cont THEN broken \cup {Len(s)} ELSE broken
  BY <1>2, <1>3 DEF FeedChunk, Last
<1>5. broken \in SUBSET (1..Len(s))
  BY DEF Parsed
<1>6. broken' \in SUBSET (1..Len(s))
  <2>1. s # <<>> => Len(s) \in 1..Len(s)
    OBVIOUS
  <2> QED BY <1>4, <1>5, <2>1
<1>7. Recorded(s, broken', data')
  BY <1>1, <1>4 DEF Recorded
<1>8. PICK i \in 1..(Len(s) + 1) : Standing(s, i) /\ Boundary(s, broken, i, got \o messages)
  BY DEF Parsed
<1>9. Boundary(s, broken', i, got \o messages)
  <2>1. Boundary(s, broken \cup {Len(s)}, i, got \o messages)
    BY <1>8, BoundaryRecut
  <2> QED BY <1>4, <1>8, <2>1
<1>10. Boundary(s, broken', i, got' \o messages')
  BY <1>1, <1>9
<1>11. Standing(s, i)'
  <2>1. CASE state = "TEXT"
    <3>1. i \in 1..Len(s) /\ (\A k \in i..Len(s) : ~Delimiter(s[k]))
          /\ text_buf = DecodeUtf8(TextBytes(s, i, Len(s), broken))
      BY <1>8, <2>1 DEF Standing
    <3>2. DecodeUtf8(TextBytes(s, i, Len(s), broken')) = DecodeUtf8(TextBytes(s, i, Len(s), broken))
      <4>1. CASE broken' = broken
        BY <4>1
      <4>2. CASE broken' # broken
        <5>1. broken' = broken \cup {Len(s)} /\ s[Len(s)] \in Lead
          BY <1>4, <4>2
        <5> QED BY <3>1, <5>1, TextRecut
      <4> QED BY <4>1, <4>2
    <3>3. i <= Len(s) /\ state' = "TEXT" /\ text_buf' = DecodeUtf8(TextBytes(s, i, Len(s), broken'))
      BY <1>1, <2>1, <3>1, <3>2
    <3> QED BY <3>1, <3>3 DEF Standing
  <2>2. CASE state # "TEXT"
    BY <1>1, <1>8, <2>2 DEF Standing
  <2> QED BY <2>1, <2>2
<1>12. Parsed(s)'
  BY <1>3, <1>6, <1>7, <1>8, <1>10, <1>11 DEF Parsed
<1> QED BY <1>12 DEF ParseInv

LEMMA DrainParsed == TypeInv /\ ParseInv /\ DrainMessages => ParseInv'
<1> SUFFICES ASSUME TypeInv, ParseInv, DrainMessages PROVE ParseInv'
  OBVIOUS
<1> PICK s \in Seq(Byte) : Parsed(s)
  BY DEF ParseInv
<1>1. /\ messages' = <<>> /\ data' = data /\ state' = state /\ fed' = fed /\ got' = got \o messages /\ broken' = broken
      /\ UNCHANGED <<varint_value, varint_scale, varint_bytes_read>> /\ UNCHANGED <<text_buf, binary_buf>>
  BY DEF DrainMessages, Drain, parser_vars
<1>2. got' \o messages' = got \o messages
  <2>1. got \o messages \in Seq(Message)
    BY Typing
  <2>2. (got \o messages) \o <<>> = got \o messages
    <3> DEFINE ms == got \o messages
    <3>1. ms \in Seq(Message)
      BY <2>1
    <3> HIDE DEF ms
    <3>2. ms \o <<>> = ms
      BY <3>1
    <3> QED BY <3>2 DEF ms
  <2> QED BY <1>1, <2>2
<1>3. PICK i \in 1..(Len(s) + 1) : Standing(s, i) /\ Boundary(s, broken, i, got \o messages)
  BY DEF Parsed
<1>4. Standing(s, i)'
  BY <1>1, <1>3 DEF Standing
<1>5. Boundary(s, broken', i, got' \o messages')
  BY <1>1, <1>2, <1>3
<1>6. fed' = s \o data' /\ broken' \in SUBSET (1..Len(s)) /\ (state' = "TEXT" => Recorded(s, broken', data'))
  BY <1>1 DEF Parsed
<1>7. Parsed(s)'
  BY <1>3, <1>4, <1>5, <1>6 DEF Parsed
<1> QED BY <1>7 DEF ParseInv

\* A reader that was just made, or reset, has parsed nothing.
Fresh == /\ data = <<>> /\ state = "IDLE" /\ messages = <<>>
         /\ fed = <<>> /\ got = <<>> /\ broken = {}

LEMMA FreshParsed == Fresh => ParseInv
<1> SUFFICES ASSUME Fresh PROVE ParseInv
  OBVIOUS
<1> PICK s : s = <<>>
  OBVIOUS
<1>1. s \in Seq(Byte) /\ Len(s) = 0 /\ 1 \in 1..(Len(s) + 1) /\ s \o <<>> = <<>>
  OBVIOUS
<1>2. Standing(s, 1)
  BY <1>1 DEF Fresh, Standing
<1>3. Boundary(s, broken, 1, got \o messages)
  BY BoundaryInit DEF Fresh
<1>4. fed = s \o data /\ broken \in SUBSET (1..Len(s)) /\ (state = "TEXT" => Recorded(s, broken, data))
  BY <1>1 DEF Fresh
<1>5. Parsed(s)
  BY <1>1, <1>2, <1>3, <1>4 DEF Parsed
<1> QED BY <1>1, <1>5 DEF ParseInv

LEMMA ParseInvNext == TypeInv /\ ParseInv /\ [Next]_vars => ParseInv'
<1> SUFFICES ASSUME TypeInv, ParseInv, [Next]_vars PROVE ParseInv'
  OBVIOUS
<1>1. ASSUME NEW chunk \in Chunks, FeedChunk(chunk) PROVE ParseInv'
  BY <1>1, FeedChunkParsed
<1>2. CASE FeedIteration
  BY <1>2, FeedLoopParsed
<1>3. CASE DrainMessages
  BY <1>3, DrainParsed
<1>4. CASE ResetReader
  <2>1. Fresh'
    BY <1>4 DEF ResetReader, Reset, ResetHandler, Fresh
  <2>2. Fresh' => ParseInv'
    BY FreshParsed, PTL
  <2> QED BY <2>1, <2>2
<1>5. CASE UNCHANGED vars
  BY <1>5 DEF vars, reader_vars, parser_vars, handler_vars, ParseInv, Parsed, Standing
<1> QED BY <1>1, <1>2, <1>3, <1>4, <1>5 DEF Next

\* What began at the last boundary is not complete.
LEMMA StandingUnfinished ==
    ASSUME TypeInv, NEW s \in Seq(Byte), NEW i \in 1..Len(s), Standing(s, i)
    PROVE  ItemAt(s, broken, i).next = 0
<1>0. Len(s) \in Nat /\ i \in Nat
  OBVIOUS
<1>1. CASE state = "IDLE"
  BY <1>0, <1>1 DEF Standing
<1>2. CASE state = "TEXT"
  BY <1>2, TextUnfinished DEF Standing
<1>3. CASE state = "VERSION"
  BY <1>3, VersionUnfinished DEF Standing
<1>4. CASE state = "LENGTH"
  <2>1. InLength(s, i, varint_bytes_read, varint_value, varint_scale)
    BY <1>4 DEF Standing
  <2>2. varint_bytes_read < VarintMaxBytes
    BY <1>4 DEF TypeInv, Inv
  <2> QED BY <2>1, <2>2, LengthUnfinished
<1>5. CASE state = "PAYLOAD"
  <2>1. InPayload(s, i, varint_bytes_read, varint_value)
        /\ Len(s) = i + 1 + varint_bytes_read + Len(binary_buf)
    BY <1>5 DEF Standing
  <2>2. payload_remaining \in Nat \ {0} /\ Len(binary_buf) + payload_remaining = varint_value
        /\ Len(binary_buf) \in Nat /\ varint_bytes_read \in Nat
    <3>1. payload_remaining \in Nat \ {0} /\ binary_buf \in Seq(Byte) /\ varint_bytes_read \in 0..VarintMaxBytes
      BY <1>5 DEF TypeInv, Inv, ParserTypeOK, BuffersBelongToMessage
    <3>2. Len(binary_buf) + payload_remaining = varint_value
      BY <1>5 DEF TypeInv, Inv, PayloadAsAnnounced
    <3>3. varint_bytes_read \in Nat
      BY <3>1, VarintMaxAssumption DEF VarintMaxAssumption
    <3> QED BY <3>1, <3>2, <3>3
  <2>3. i + 1 + varint_bytes_read + varint_value > Len(s)
    BY <1>0, <2>1, <2>2
  <2> QED BY <2>1, <2>3, PayloadUnfinished
<1> QED BY <1>1, <1>2, <1>3, <1>4, <1>5 DEF Standing

LEMMA ParseInvCorrect == TypeInv /\ ParseInv => ParsesStream
<1> SUFFICES ASSUME TypeInv, ParseInv PROVE ParsesStream
  OBVIOUS
<1> PICK s \in Seq(Byte) : Parsed(s)
  BY DEF ParseInv
<1>1. data \in Seq(Byte) /\ got \o messages \in Seq(Message)
  BY Typing
<1>2. Consumed = s
  <2>1. fed = s \o data /\ Len(s) \in Nat /\ Len(data) \in Nat /\ Len(s \o data) = Len(s) + Len(data)
    BY <1>1 DEF Parsed
  <2>2. Consumed = SubSeq(s \o data, 1, Len(s))
    BY <2>1 DEF Consumed
  <2>3. SubSeq(s \o data, 1, Len(s)) = s
    BY <1>1
  <2> QED BY <2>2, <2>3
<1>3. PICK i \in 1..(Len(s) + 1) : Standing(s, i) /\ Boundary(s, broken, i, got \o messages)
  BY DEF Parsed
<1>4. i <= Len(s) => ItemAt(s, broken, i).next = 0
  <2> SUFFICES ASSUME i <= Len(s) PROVE ItemAt(s, broken, i).next = 0
    OBVIOUS
  <2>1. i \in 1..Len(s)
    OBVIOUS
  <2> QED BY <1>3, <2>1, StandingUnfinished
<1>5. broken \in SUBSET Nat
  <2>1. 1..Len(s) \subseteq Nat
    OBVIOUS
  <2> QED BY <2>1 DEF Parsed
<1> PICK ms : ms = got \o messages
  OBVIOUS
<1>6. MessagesOf(s, broken) = ms
  BY <1>1, <1>3, <1>4, <1>5, BoundaryOutcome
<1> QED BY <1>2, <1>6 DEF ParsesStream

\* The messages drained and those that wait to be drained are exactly the messages
\* of the bytes consumed, whatever the bytes and wherever a read cut them.
THEOREM ParsesCorrect == Spec => []ParsesStream
<1>1. Init => ParseInv
  BY FreshParsed DEF Init, ReaderInit, Fresh
<1> QED BY <1>1, TypeInvariance, ParseInvNext, ParseInvCorrect, PTL DEF Spec

=============================================================================
