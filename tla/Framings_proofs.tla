--------------------------- MODULE Framings_proofs ---------------------------
(***************************************************************************)
(* Proofs about the three framings, for every buffer size, block length,   *)
(* payload and kind of noise: types, the writer's all or nothing, COBS     *)
(* decoding what it encodes, every framing delivering what noise spared,   *)
(* and what the checksum of HDLC frames tells apart.                       *)
(*                                                                         *)
(* Delivery needs to know, at each byte, how much of which frame the       *)
(* receiver has taken off the line (Reading), what the framer then holds   *)
(* of it (CobsHolds, HdlcHolds, SlipHolds) and what of the frames before   *)
(* has been delivered (Arrived).                                           *)
(***************************************************************************)
EXTENDS Framings, Flattening_proofs, FiniteSetTheorems

-----------------------------------------------------------------------------
(* Parts of a list.                                                        *)

\* x stands in d, behind the first m elements.
Within(d, m, x) == m + Len(x) <= Len(d) /\ \A k \in 1..Len(x) : d[m + k] = x[k]

LEMMA Between ==
    ASSUME NEW S, NEW u \in Seq(S), NEW x \in Seq(S), NEW v \in Seq(S), NEW d, d = (u \o x) \o v
    PROVE  /\ d \in Seq(S)
           /\ Len(d) = Len(u) + Len(x) + Len(v)
           /\ Within(d, Len(u), x)
<1>0. Len(u) \in Nat /\ Len(x) \in Nat /\ Len(v) \in Nat
  BY LenProperties
<1>1. /\ u \o x \in Seq(S) /\ Len(u \o x) = Len(u) + Len(x)
      /\ \A i \in 1..(Len(u) + Len(x)) : (u \o x)[i] = IF i <= Len(u) THEN u[i] ELSE x[i - Len(u)]
  BY ConcatProperties
<1>2. PICK w \in Seq(S) : w = u \o x
  BY <1>1
<1>3. /\ d \in Seq(S) /\ Len(d) = Len(w) + Len(v)
      /\ \A i \in 1..(Len(w) + Len(v)) : d[i] = IF i <= Len(w) THEN w[i] ELSE v[i - Len(w)]
  BY <1>2, ConcatProperties
<1>4. ASSUME NEW k \in 1..Len(x) PROVE d[Len(u) + k] = x[k]
  <2>1. PICK i \in Int : i = Len(u) + k
    BY <1>0
  <2>2. /\ i \in 1..(Len(u) + Len(x)) /\ i \in 1..(Len(w) + Len(v))
        /\ i <= Len(w) /\ ~(i <= Len(u)) /\ i - Len(u) = k
    BY <1>0, <1>1, <1>2, <2>1
  <2>3. d[i] = w[i] /\ w[i] = x[k]
    BY <1>1, <1>2, <1>3, <2>2
  <2> QED BY <2>1, <2>3
<1>5. Len(d) = Len(u) + Len(x) + Len(v)
  BY <1>0, <1>1, <1>2, <1>3
<1> QED BY <1>0, <1>3, <1>4, <1>5 DEF Within

LEMMA SameAs ==
    ASSUME NEW S, NEW d \in Seq(S), NEW m \in Nat, NEW x \in Seq(S), Within(d, m, x)
    PROVE  SubSeq(d, m + 1, m + Len(x)) = x
<1>0. Len(x) \in Nat /\ Len(d) \in Nat /\ m + Len(x) <= Len(d) /\ \A k \in 1..Len(x) : d[m + k] = x[k]
  BY LenProperties DEF Within
<1>1. PICK i \in Int, j \in Int : i = m + 1 /\ j = m + Len(x)
  BY <1>0
<1>2. \A k \in i..j : d[k] \in S
  <2>1. \A k \in i..j : k \in 1..Len(d)
    BY <1>0, <1>1
  <2> QED BY <2>1, ElementOfSeq
<1>3. PICK y : y = SubSeq(d, i, j)
  OBVIOUS
<1>4. y \in Seq(S) /\ Len(y) = (IF i <= j THEN j - i + 1 ELSE 0) /\ \A k \in 1..(j - i + 1) : y[k] = d[i + k - 1]
  BY <1>2, <1>3, SubSeqProperties
<1>5. Len(y) = Len(x)
  BY <1>0, <1>1, <1>4
<1>6. \A k \in 1..Len(x) : y[k] = x[k]
  <2> SUFFICES ASSUME NEW k \in 1..Len(x) PROVE y[k] = x[k]
    OBVIOUS
  <2>1. k \in 1..(j - i + 1) /\ i + k - 1 = m + k
    BY <1>0, <1>1
  <2> QED BY <1>0, <1>4, <2>1
<1>7. y = x
  BY <1>4, <1>5, <1>6, SeqEqual
<1> QED BY <1>1, <1>3, <1>7

LEMMA Associative ==
    ASSUME NEW S, NEW s \in Seq(S), NEW t \in Seq(S), NEW u \in Seq(S)
    PROVE  (s \o t) \o u = s \o (t \o u)
BY ConcatAssociative

LEMMA BehindFirst ==
    ASSUME NEW S, NEW u \in Seq(S), NEW h \in S, NEW x \in Seq(S), NEW v \in Seq(S), NEW w, NEW d,
           w = u \o <<h>>, d = (w \o x) \o v
    PROVE  /\ Len(d) = Len(u) + Len(x) + 1 + Len(v)
           /\ SubSeq(d, Len(u) + 2, Len(u) + Len(x) + 1) = x
<1>0. Len(u) \in Nat /\ Len(x) \in Nat /\ Len(v) \in Nat
  BY LenProperties
<1>1. w \in Seq(S) /\ Len(w) = Len(u) + 1
  OBVIOUS
<1>2. d \in Seq(S) /\ Len(d) = Len(w) + Len(x) + Len(v)
  BY <1>1, Between
<1>3. Within(d, Len(w), x)
  BY <1>1, Between
<1>4. SubSeq(d, Len(w) + 1, Len(w) + Len(x)) = x
  <2>1. Len(w) \in Nat
    BY <1>0, <1>1
  <2> QED BY <1>2, <1>3, <2>1, SameAs
<1>5. Len(w) + 1 = Len(u) + 2 /\ Len(w) + Len(x) = Len(u) + Len(x) + 1
  BY <1>0, <1>1
<1> QED BY <1>0, <1>1, <1>2, <1>4, <1>5

LEMMA Behind ==
    ASSUME NEW S, NEW u \in Seq(S), NEW h \in S, NEW x \in Seq(S), NEW v \in Seq(S), NEW d,
           d = (u \o (<<h>> \o x)) \o v
    PROVE  /\ Len(d) = Len(u) + Len(x) + 1 + Len(v)
           /\ d[Len(u) + 1] = h
           /\ SubSeq(d, Len(u) + 2, Len(u) + Len(x) + 1) = x
<1>0. Len(u) \in Nat /\ Len(x) \in Nat /\ Len(v) \in Nat
  BY LenProperties
<1>1. <<h>> \in Seq(S) /\ Len(<<h>>) = 1 /\ <<h>>[1] = h
  OBVIOUS
<1>2. d = ((u \o <<h>>) \o x) \o v
  <2>1. PICK one \in Seq(S) : one = <<h>>
    BY <1>1
  <2>2. (u \o one) \o x = u \o (one \o x)
    BY <2>1, Associative, SMT
  <2> QED BY <2>1, <2>2
<1>3. d[Len(u) + 1] = h
  <2>1. <<h>> \o x \in Seq(S) /\ Len(<<h>> \o x) = 1 + Len(x) /\ (<<h>> \o x)[1] = h
    BY <1>0, <1>1, ConcatProperties
  <2>2. PICK z \in Seq(S) : z = <<h>> \o x /\ z[1] = h /\ Len(z) = 1 + Len(x)
    BY <2>1
  <2>3. Within(d, Len(u), z)
    BY <2>2, Between
  <2>4. 1 \in 1..Len(z)
    BY <1>0, <2>2
  <2> QED BY <2>2, <2>3, <2>4 DEF Within
<1>4. PICK w : w = u \o <<h>>
  OBVIOUS
<1>5. d = (w \o x) \o v
  BY <1>2, <1>4
<1>6. /\ Len(d) = Len(u) + Len(x) + 1 + Len(v)
      /\ SubSeq(d, Len(u) + 2, Len(u) + Len(x) + 1) = x
  BY <1>4, <1>5, BehindFirst, SMTT(60)
<1> QED BY <1>3, <1>6

\* d starts with s and goes on.
More(S, s, d) == \E more \in Seq(S) : more # <<>> /\ d = s \o more

Triple(d, s, t, u) == d = (s \o t) \o u

LEMMA GoesOn ==
    ASSUME NEW S, NEW s \in Seq(S), NEW t \in Seq(S), NEW u \in Seq(S), u # <<>>,
           NEW d, Triple(d, s, t, u)
    PROVE  More(S, s, d)
<1>1. d = s \o (t \o u)
  BY Associative, SMTT(60) DEF Triple
<1>2. t \o u \in Seq(S) /\ Len(t \o u) = Len(t) + Len(u)
  BY ConcatProperties
<1>3. t \o u # <<>>
  BY ConcatEqualIffEmpty
<1> QED BY <1>1, <1>2, <1>3 DEF More

LEMMA SubSeqType ==
    ASSUME NEW S, NEW s \in Seq(S), NEW i \in Int, NEW j \in Int, i >= 1, j <= Len(s)
    PROVE  SubSeq(s, i, j) \in Seq(S)
<1>1. \A k \in i..j : k \in 1..Len(s)
  BY LenProperties
<1>2. \A k \in i..j : s[k] \in S
  BY <1>1, ElementOfSeq
<1> QED BY <1>2, SubSeqProperties

-----------------------------------------------------------------------------
(* Where the parts stand in their concatenation.                            *)

\* Part m of parts stands in d behind the first e[m - 1] elements.
Layout(d, parts, e) ==
    /\ e \in [0..Len(parts) -> Nat]
    /\ e[0] = 0
    /\ e[Len(parts)] = Len(d)
    /\ \A m \in 0..Len(parts) : e[m] <= Len(d)
    /\ \A m \in 1..Len(parts) :
          /\ e[m] = e[m - 1] + Len(parts[m])
          /\ \A k \in 1..Len(parts[m]) : d[e[m - 1] + k] = parts[m][k]

\* d2 and parts2 are d and parts with one part, x, more.
OnePart(S, d, parts, x, d2, parts2) ==
    /\ d \in Seq(S) /\ parts \in Seq(Seq(S)) /\ x \in Seq(S)
    /\ d2 = d \o x /\ parts2 = Append(parts, x)

LEMMA LayoutNext ==
    ASSUME NEW S, NEW d, NEW parts, NEW x, NEW d2, NEW parts2, OnePart(S, d, parts, x, d2, parts2),
           NEW e, Layout(d, parts, e)
    PROVE  \E f : Layout(d2, parts2, f)
<1>0. d \in Seq(S) /\ parts \in Seq(Seq(S)) /\ x \in Seq(S) /\ d2 = d \o x /\ parts2 = Append(parts, x)
  BY DEF OnePart
<1>1. PICK n \in Nat : n = Len(parts)
  BY <1>0, LenProperties
<1>2. PICK N \in Nat : N = n + 1
  OBVIOUS
<1>3. PICK l \in Nat, r \in Nat : l = Len(d) /\ r = Len(x)
  BY <1>0, LenProperties
<1>4. Len(d2) = l + r /\ \A i \in 1..(l + r) : d2[i] = IF i <= l THEN d[i] ELSE x[i - l]
  BY <1>0, <1>3, ConcatProperties
<1>5. Len(parts2) = N /\ parts2[N] = x /\ \A m \in 1..n : parts2[m] = parts[m]
  BY <1>0, <1>1, <1>2, AppendProperties
<1>6. /\ e \in [0..n -> Nat] /\ e[0] = 0 /\ e[n] = l /\ \A m \in 0..n : e[m] <= l
      /\ \A m \in 1..n : /\ e[m] = e[m - 1] + Len(parts[m])
                         /\ \A k \in 1..Len(parts[m]) : d[e[m - 1] + k] = parts[m][k]
  BY <1>1, <1>3 DEF Layout
<1>7. PICK f : f = [m \in 0..N |-> IF m = N THEN l + r ELSE e[m]]
  OBVIOUS
<1>8. \A m \in 0..N : m = N \/ m \in 0..n
  BY <1>2
<1>9. f \in [0..N -> Nat]
  <2>1. l + r \in Nat
    BY <1>3
  <2>2. \A m \in 0..N : (IF m = N THEN l + r ELSE e[m]) \in Nat
    BY <1>6, <1>8, <2>1
  <2> QED BY <1>7, <2>2
<1>10. (\A m \in 0..n : f[m] = e[m]) /\ f[N] = l + r
  <2>1. N \in 0..N /\ \A m \in 0..n : m \in 0..N /\ m # N
    BY <1>2
  <2> QED BY <1>7, <2>1
<1>11. f[0] = 0 /\ \A m \in 0..N : f[m] <= Len(d2)
  <2>1. 0 \in 0..n
    BY <1>1
  <2>2. f[0] = 0
    BY <1>6, <1>10, <2>1
  <2>3. \A m \in 0..n : e[m] <= l + r
    BY <1>3, <1>6
  <2>4. \A m \in 0..N : f[m] <= l + r
    BY <1>3, <1>8, <1>10, <2>3
  <2> QED BY <1>4, <2>2, <2>4
<1>12. ASSUME NEW m \in 1..N
       PROVE  /\ f[m] = f[m - 1] + Len(parts2[m])
              /\ \A k \in 1..Len(parts2[m]) : d2[f[m - 1] + k] = parts2[m][k]
  <2>1. CASE m = N
    <3>1. m - 1 = n /\ n \in 0..n
      BY <1>2, <2>1
    <3>2. f[m - 1] = l /\ f[m] = l + r /\ parts2[m] = x
      BY <1>5, <1>6, <1>10, <2>1, <3>1
    <3>3. ASSUME NEW k \in 1..r PROVE d2[l + k] = x[k]
      <4>1. PICK i : i = l + k
        OBVIOUS
      <4>2. i \in 1..(l + r) /\ ~(i <= l) /\ i - l = k
        BY <4>1
      <4> QED BY <1>4, <4>1, <4>2
    <3> QED BY <1>3, <3>2, <3>3
  <2>2. CASE m # N
    <3>1. m \in 1..n /\ m \in 0..n /\ m - 1 \in 0..n
      BY <1>2, <2>2
    <3>2. f[m] = e[m] /\ f[m - 1] = e[m - 1] /\ parts2[m] = parts[m]
      BY <1>5, <1>10, <3>1
    <3>3. PICK p : p = parts[m]
      OBVIOUS
    <3>4. PICK b \in Nat, c \in Nat : b = e[m - 1] /\ c = e[m] /\ c <= l /\ c = b + Len(p)
      BY <1>6, <3>1, <3>3
    <3>5. ASSUME NEW k \in 1..Len(p) PROVE d2[b + k] = p[k]
      <4>1. PICK i : i = b + k
        OBVIOUS
      <4>2. p \in Seq(S)
        BY <1>0, <1>1, <3>1, <3>3, ElementOfSeq
      <4>3. i \in 1..(l + r) /\ i <= l
        <5>1. PICK a \in Nat : a = Len(p)
          BY <4>2, LenProperties
        <5>2. k \in 1..a /\ b + a <= l
          BY <3>4, <5>1
        <5> QED BY <4>1, <5>2
      <4>4. d2[i] = d[i]
        BY <1>4, <4>3
      <4>5. d[b + k] = p[k]
        BY <1>6, <3>1, <3>3, <3>4
      <4> QED BY <4>1, <4>4, <4>5
    <3> QED BY <1>6, <3>1, <3>2, <3>3, <3>4, <3>5
  <2> QED BY <2>1, <2>2
<1>13. f[N] = Len(d2)
  BY <1>4, <1>10
<1>14. Layout(d2, parts2, f)
  BY <1>5, <1>9, <1>11, <1>12, <1>13 DEF Layout
<1> QED BY <1>14

LEMMA LayoutExists ==
    ASSUME NEW S, NEW parts \in Seq(Seq(S))
    PROVE  \E e : Layout(FlattenSeq(parts), parts, e)
<1> DEFINE P(n) == \A p \in Seq(Seq(S)) : Len(p) = n => \E e : Layout(FlattenSeq(p), p, e)
<1>1. P(0)
  <2> SUFFICES ASSUME NEW p \in Seq(Seq(S)), Len(p) = 0
               PROVE  \E e : Layout(FlattenSeq(p), p, e)
    OBVIOUS
  <2>1. p = <<>>
    OBVIOUS
  <2>2. FlattenSeq(p) = <<>>
    BY <2>1, FlattenEmpty
  <2>3. PICK d : d = FlattenSeq(p) /\ Len(d) = 0
    BY <2>2
  <2>4. PICK e : e = [m \in 0..0 |-> 0]
    OBVIOUS
  <2>5. e \in [0..Len(p) -> Nat] /\ e[0] = 0
    BY <2>4
  <2>6. Layout(d, p, e)
    BY <2>3, <2>4, <2>5 DEF Layout
  <2> QED BY <2>3, <2>6
<1>2. ASSUME NEW n \in Nat, P(n) PROVE P(n + 1)
  <2> SUFFICES ASSUME NEW p \in Seq(Seq(S)), Len(p) = n + 1
               PROVE  \E e : Layout(FlattenSeq(p), p, e)
    OBVIOUS
  <2>0. p # <<>>
    OBVIOUS
  <2>1. PICK front \in Seq(Seq(S)), last \in Seq(S) : p = Append(front, last)
    BY <2>0, SequenceEmptyOrAppend
  <2>2. Len(front) = n
    BY <2>1
  <2>3. PICK e : Layout(FlattenSeq(front), front, e)
    BY <1>2, <2>2
  <2>4. FlattenSeq(p) = FlattenSeq(front) \o last /\ FlattenSeq(front) \in Seq(S)
    BY <2>1, FlattenAppend, FlattenType
  <2>5. PICK d : d = FlattenSeq(front)
    OBVIOUS
  <2>6. PICK d2 : d2 = FlattenSeq(p)
    OBVIOUS
  <2>7. OnePart(S, d, front, last, d2, p)
    BY <2>1, <2>4, <2>5, <2>6 DEF OnePart
  <2>8. Layout(d, front, e)
    BY <2>3, <2>5
  <2>9. \E f : Layout(d2, p, f)
    BY <2>7, <2>8, LayoutNext
  <2> QED BY <2>6, <2>9
<1>3. \A n \in Nat : P(n)
  <2> HIDE DEF P
  <2> DEFINE T == {n \in Nat : P(n)}
  <2>1. T \subseteq Nat /\ 0 \in T /\ \A n \in T : n + 1 \in T
    BY <1>1, <1>2
  <2>2. T = Nat
    <3> HIDE DEF T
    <3> QED BY <2>1, SetInduction
  <2> QED BY <2>2
<1>4. Len(parts) \in Nat
  OBVIOUS
<1> QED BY <1>3, <1>4

\* The place behind m parts and q elements of the next, which has one or two.
Pairs(parts) == \A m \in 1..Len(parts) : Len(parts[m]) \in {1, 2}

At(d, parts, e, m, q, j) ==
    /\ Layout(d, parts, e)
    /\ m \in 0..Len(parts)
    /\ q \in {0, 1}
    /\ j = e[m] + 1 + q
    /\ q = 1 => m < Len(parts) /\ Len(parts[m + 1]) = 2

LEMMA AtType ==
    ASSUME NEW S, NEW d \in Seq(S), NEW parts \in Seq(Seq(S)), NEW e, NEW m, NEW q, NEW j,
           At(d, parts, e, m, q, j)
    PROVE  m \in Nat /\ q \in Nat /\ j \in Nat
<1>1. PICK n \in Nat : n = Len(parts)
  BY LenProperties
<1>2. e \in [0..n -> Nat] /\ m \in 0..n /\ q \in {0, 1}
  BY <1>1 DEF At, Layout
<1>3. PICK b \in Nat : b = e[m]
  BY <1>2
<1>4. q \in Nat /\ j = b + 1 + q
  BY <1>2, <1>3 DEF At
<1>5. b + 1 + q \in Nat
  BY <1>4
<1> QED BY <1>2, <1>4, <1>5

\* j is a place before the end: element j and the place behind it.
Goes(d, parts, e, m, q, j) ==
    /\ m < Len(parts)
    /\ d[j] = parts[m + 1][q + 1]
    /\ IF q + 1 = Len(parts[m + 1]) THEN At(d, parts, e, m + 1, 0, j + 1)
                                    ELSE q = 0 /\ At(d, parts, e, m, 1, j + 1)

LEMMA AtNext ==
    ASSUME NEW S, NEW d \in Seq(S), NEW parts \in Seq(Seq(S)), Pairs(parts), NEW e,
           NEW m \in Nat, NEW q \in Nat, NEW j \in Nat, At(d, parts, e, m, q, j)
    PROVE  /\ j <= Len(d) => Goes(d, parts, e, m, q, j)
           /\ j > Len(d) => m = Len(parts) /\ q = 0 /\ j = Len(d) + 1
<1>1. PICK n \in Nat, l \in Nat : n = Len(parts) /\ l = Len(d)
  BY LenProperties
<1>2. /\ e \in [0..n -> Nat] /\ e[n] = l /\ m \in 0..n /\ q \in {0, 1}
      /\ \A i \in 0..n : e[i] <= l
      /\ \A i \in 1..n : /\ e[i] = e[i - 1] + Len(parts[i])
                         /\ \A k \in 1..Len(parts[i]) : d[e[i - 1] + k] = parts[i][k]
  BY <1>1 DEF At, Layout
<1>q. q = 0 \/ q = 1
  BY DEF At
<1>3. PICK b \in Nat : b = e[m] /\ j = b + 1 + q
  BY <1>2 DEF At
<1>4. CASE m < n
  <2>1. PICK M \in 1..n : M = m + 1 /\ M - 1 = m /\ M \in 0..n
    BY <1>2, <1>4
  <2>2. PICK w \in Nat : w = Len(parts[M])
    BY <1>1, <2>1 DEF Pairs
  <2>w. w = 1 \/ w = 2
    BY <1>1, <2>2 DEF Pairs
  <2>3. e[M] = b + w /\ e[M] <= l /\ \A k \in 1..w : d[b + k] = parts[M][k]
    BY <1>2, <1>3, <2>1, <2>2
  <2>4. q = 1 => w = 2
    BY <2>1, <2>2 DEF At
  <2>5. j <= l
    <3>1. b + w <= l
      BY <2>3
    <3>2. q < w
      BY <1>q, <2>w, <2>4
    <3>3. q \in Nat
      BY <1>q
    <3>4. b \in Nat /\ w \in Nat /\ l \in Nat /\ j = b + 1 + q
      BY <1>1, <1>3, <2>2
    <3>5. b + 1 + q <= l
      BY <3>1, <3>2, <3>3, <3>4
    <3> QED BY <3>4, <3>5
  <2>6. d[j] = parts[M][q + 1]
    <3>1. PICK k \in 1..w : k = q + 1 /\ j = b + k
      BY <1>q, <1>3, <2>w, <2>4
    <3> QED BY <2>3, <3>1
  <2>7. CASE q + 1 = w
    <3>1. j + 1 = e[M] + 1 + 0
      <4>1. j + 1 = b + w + 1 + 0
        BY <1>q, <1>3, <2>w, <2>7
      <4> QED BY <2>3, <4>1
    <3>2. At(d, parts, e, M, 0, j + 1)
      BY <1>1, <2>1, <3>1 DEF At
    <3>3. Goes(d, parts, e, m, q, j)
      BY <1>1, <1>4, <2>1, <2>2, <2>6, <2>7, <3>2 DEF Goes
    <3> QED BY <1>1, <1>3, <2>5, <3>3
  <2>8. CASE q + 1 # w
    <3>1. q = 0 /\ w = 2
      BY <1>q, <2>w, <2>4, <2>8
    <3>2. j + 1 = e[m] + 1 + 1
      BY <1>3, <3>1
    <3>3. At(d, parts, e, m, 1, j + 1)
      BY <1>1, <1>4, <2>1, <2>2, <3>1, <3>2 DEF At
    <3>4. Goes(d, parts, e, m, q, j)
      BY <1>1, <1>4, <2>1, <2>2, <2>6, <2>8, <3>1, <3>3 DEF Goes
    <3> QED BY <1>1, <1>3, <2>5, <3>4
  <2> QED BY <2>7, <2>8
<1>5. CASE ~(m < n)
  <2>1. m = n /\ q = 0
    BY <1>1, <1>2, <1>5 DEF At
  <2>2. j = l + 1
    BY <1>2, <1>3, <2>1
  <2> QED BY <1>1, <2>1, <2>2
<1> QED BY <1>4, <1>5

LEMMA AtStart ==
    ASSUME NEW d, NEW parts, NEW e, Layout(d, parts, e), Len(parts) \in Nat
    PROVE  At(d, parts, e, 0, 0, 1)
BY DEF At, Layout

-----------------------------------------------------------------------------
(* CRC-16/HDLC: types.                                                      *)

Word == 0..CRC16_INIT

LEMMA WordIs ==
    ASSUME NEW n
    PROVE  n \in Word <=> n \in Int /\ n >= 0 /\ n <= 65535
<1>1. CRC16_INIT \in Int
  BY SMT DEF CRC16_INIT
<1>2. n \in Word <=> n \in Int /\ n >= 0 /\ n <= CRC16_INIT
  BY <1>1, SMT DEF Word
<1> QED BY <1>2, SMT DEF CRC16_INIT

LEMMA HighLow ==
    ASSUME NEW n \in Word
    PROVE  High(n) \in Byte /\ Low(n) \in Byte
<1>1. n \in Int /\ n >= 0 /\ n <= 65535
  BY WordIs, SMT
<1>2. n \div 256 \in Int /\ 256 * (n \div 256) <= n /\ n < 256 * (n \div 256) + 256 /\ n % 256 \in 0..255
  BY <1>1, SMT
<1> QED BY <1>1, <1>2, SMT DEF Byte, High, Low

LEMMA BytesMakeWord ==
    ASSUME NEW x \in Byte, NEW y \in Byte
    PROVE  x * 256 + y \in Word
<1>1. x * 256 + y \in Int /\ x * 256 + y >= 0 /\ x * 256 + y <= 65535
  BY SMT DEF Byte
<1> QED BY <1>1, WordIs, SMT

LEMMA ByteIsWord ==
    ASSUME NEW x \in Byte
    PROVE  x \in Word
<1>1. x \in Int /\ x >= 0 /\ x <= 65535
  BY SMT DEF Byte
<1> QED BY <1>1, WordIs, SMT

LEMMA XorHalfByteType ==
    ASSUME NEW x \in 0..15, NEW y \in 0..15
    PROVE  XorHalfByte[x][y] \in 0..15
<1> DEFINE Xor(bit) == IF Has(x, bit) <=> Has(y, bit) THEN 0 ELSE bit
<1>1. XorHalfByte[x][y] = Xor(1) + Xor(2) + Xor(4) + Xor(8)
  BY DEF XorHalfByte
<1>2. Xor(1) \in {0, 1} /\ Xor(2) \in {0, 2} /\ Xor(4) \in {0, 4} /\ Xor(8) \in {0, 8}
  OBVIOUS
<1> HIDE DEF Xor
<1> QED BY <1>1, <1>2

LEMMA XorByteType ==
    ASSUME NEW x \in Byte, NEW y \in Byte
    PROVE  XorByte(x, y) \in Byte
<1>1. ASSUME NEW n \in Byte PROVE n \div 16 \in 0..15 /\ n % 16 \in 0..15
  <2>1. n \div 16 \in Int /\ 16 * (n \div 16) <= n /\ n < 16 * (n \div 16) + 16 /\ n % 16 \in 0..15
    BY SMT DEF Byte
  <2> QED BY <2>1, SMT DEF Byte
<1>2. XorHalfByte[x \div 16][y \div 16] \in 0..15 /\ XorHalfByte[x % 16][y % 16] \in 0..15
  BY <1>1, XorHalfByteType
<1> QED BY <1>2, SMT DEF XorByte, Byte

LEMMA Xor16Type ==
    ASSUME NEW x \in Word, NEW y \in Word
    PROVE  Xor16(x, y) \in Word
<1>1. XorByte(High(x), High(y)) \in Byte /\ XorByte(Low(x), Low(y)) \in Byte
  BY HighLow, XorByteType
<1> QED BY <1>1, BytesMakeWord DEF Xor16

LEMMA FlipType ==
    ASSUME NEW n \in Word, NEW bit \in {8, 1024, 32768}
    PROVE  Flip(n, bit) \in Word
<1>1. CASE bit = 8
  <2>1. n \in Int /\ n >= 0 /\ n <= 65535
    BY WordIs, SMT
  <2>2. PICK q \in Int : q = n \div 8 /\ 8 * q <= n /\ n < 8 * q + 8
    BY <2>1, SMT
  <2>3. CASE q % 2 = 1
    <3>1. q # 0
      BY <2>3, SMT
    <3>2. n - 8 >= 0 /\ n - 8 <= 65535 /\ n - 8 \in Int
      BY <2>1, <2>2, <3>1, SMT
    <3>3. Flip(n, bit) = n - 8
      BY <1>1, <2>2, <2>3, SMT DEF Flip, Has
    <3> QED BY <3>2, <3>3, WordIs, SMT
  <2>4. CASE q % 2 # 1
    <3>1. q # 8191
      BY <2>4, SMT
    <3>2. n + 8 >= 0 /\ n + 8 <= 65535 /\ n + 8 \in Int
      BY <2>1, <2>2, <3>1, SMT
    <3>3. Flip(n, bit) = n + 8
      BY <1>1, <2>2, <2>4, SMT DEF Flip, Has
    <3> QED BY <3>2, <3>3, WordIs, SMT
  <2> QED BY <2>3, <2>4
<1>2. CASE bit = 1024
  <2>1. n \in Int /\ n >= 0 /\ n <= 65535
    BY WordIs, SMT
  <2>2. PICK q \in Int : q = n \div 1024 /\ 1024 * q <= n /\ n < 1024 * q + 1024
    BY <2>1, SMT
  <2>3. CASE q % 2 = 1
    <3>1. q # 0
      BY <2>3, SMT
    <3>2. n - 1024 >= 0 /\ n - 1024 <= 65535 /\ n - 1024 \in Int
      BY <2>1, <2>2, <3>1, SMT
    <3>3. Flip(n, bit) = n - 1024
      BY <1>2, <2>2, <2>3, SMT DEF Flip, Has
    <3> QED BY <3>2, <3>3, WordIs, SMT
  <2>4. CASE q % 2 # 1
    <3>1. q # 63
      BY <2>4, SMT
    <3>2. n + 1024 >= 0 /\ n + 1024 <= 65535 /\ n + 1024 \in Int
      BY <2>1, <2>2, <3>1, SMT
    <3>3. Flip(n, bit) = n + 1024
      BY <1>2, <2>2, <2>4, SMT DEF Flip, Has
    <3> QED BY <3>2, <3>3, WordIs, SMT
  <2> QED BY <2>3, <2>4
<1>3. CASE bit = 32768
  <2>1. n \in Int /\ n >= 0 /\ n <= 65535
    BY WordIs, SMT
  <2>2. PICK q \in Int : q = n \div 32768 /\ 32768 * q <= n /\ n < 32768 * q + 32768
    BY <2>1, SMT
  <2>3. CASE q % 2 = 1
    <3>1. q # 0
      BY <2>3, SMT
    <3>2. n - 32768 >= 0 /\ n - 32768 <= 65535 /\ n - 32768 \in Int
      BY <2>1, <2>2, <3>1, SMT
    <3>3. Flip(n, bit) = n - 32768
      BY <1>3, <2>2, <2>3, SMT DEF Flip, Has
    <3> QED BY <3>2, <3>3, WordIs, SMT
  <2>4. CASE q % 2 # 1
    <3>1. q # 1
      BY <2>4, SMT
    <3>2. n + 32768 >= 0 /\ n + 32768 <= 65535 /\ n + 32768 \in Int
      BY <2>1, <2>2, <3>1, SMT
    <3>3. Flip(n, bit) = n + 32768
      BY <1>3, <2>2, <2>4, SMT DEF Flip, Has
    <3> QED BY <3>2, <3>3, WordIs, SMT
  <2> QED BY <2>3, <2>4
<1> QED BY <1>1, <1>2, <1>3, SMT

LEMMA ShiftedOnceType ==
    ASSUME NEW n \in Word
    PROVE  ShiftedOnce(n) \in Word
<1>1. n \div 2 \in Word
  <2>1. n \in Int /\ n >= 0 /\ n <= 65535
    BY WordIs, SMT
  <2>2. n \div 2 \in Int /\ 2 * (n \div 2) <= n /\ n < 2 * (n \div 2) + 2
    BY <2>1, SMT
  <2>3. n \div 2 \in Int /\ n \div 2 >= 0 /\ n \div 2 <= 65535
    BY <2>1, <2>2, SMT
  <2> QED BY <2>3, WordIs, SMT
<1>2. Flip(Flip(Flip(n \div 2, 32768), 1024), 8) \in Word
  BY <1>1, FlipType, SMT
<1> QED BY <1>1, <1>2, SMT DEF ShiftedOnce

\* The eight shifts of a byte, one after the other.
Eight(f, n) == f[0] = n /\ \A k \in 1..8 : f[k] = ShiftedOnce(f[k - 1])

LEMMA ShiftedSteps ==
    ASSUME NEW n \in Word
    PROVE  \E f \in [0..8 -> Word] : Eight(f, n) /\ Shifted(n) = f[8]
<1> DEFINE Shifts(f) == f = [k \in 0..8 |-> IF k = 0 THEN n ELSE ShiftedOnce(f[k - 1])]
           step == [k \in 1..8 |-> [x \in Word |-> ShiftedOnce(x)]]
<1>1. step \in [1..8 -> [Word -> Word]]
  BY ShiftedOnceType
<1>2. PICK f \in [0..8 -> Word] : Recursion(f, 8, n, step)
  <2> HIDE DEF step
  <2> QED BY <1>1, RecursionExists
<1>3. Eight(f, n)
  <2>1. \A k \in 1..8 : f[k] = ShiftedOnce(f[k - 1])
    <3> SUFFICES ASSUME NEW k \in 1..8 PROVE f[k] = ShiftedOnce(f[k - 1])
      OBVIOUS
    <3>1. k \in 0..8 /\ k # 0 /\ k - 1 \in 0..8
      OBVIOUS
    <3>2. f[k] = step[k][f[k - 1]] /\ f[k - 1] \in Word
      BY <1>2, <3>1 DEF Recursion
    <3> QED BY <3>1, <3>2
  <2>2. f[0] = n
    BY <1>2 DEF Recursion
  <2> QED BY <2>1, <2>2 DEF Eight
<1>4. Shifts(f)
  <2>1. \A k \in 0..8 : f[k] = IF k = 0 THEN n ELSE ShiftedOnce(f[k - 1])
    BY <1>3 DEF Eight
  <2> QED BY <1>2, <2>1
<1>5. Shifted(n) = (CHOOSE g : Shifts(g))[8]
  BY DEF Shifted
<1>6. PICK g : Shifts(g) /\ Shifted(n) = g[8]
  BY <1>4, <1>5
<1>7. \A k \in 0..8 : g[k] = f[k]
  <2>1. Alike(g, f, 8)
    BY <1>4, <1>6 DEF Alike
  <2> QED BY <2>1, SameSteps
<1> QED BY <1>3, <1>6, <1>7

LEMMA ShiftedType ==
    ASSUME NEW n \in Word
    PROVE  Shifted(n) \in Word
<1>1. PICK f \in [0..8 -> Word] : Shifted(n) = f[8]
  BY ShiftedSteps
<1> QED BY <1>1

LEMMA TableUpdateType ==
    ASSUME NEW n \in Word, NEW c \in Byte
    PROVE  TableUpdate(n, c) \in Word
<1>1. High(n) \in Word /\ XorByte(Low(n), c) \in Byte
  BY HighLow, XorByteType, ByteIsWord
<1>2. crc16_table[XorByte(Low(n), c)] \in Word
  <2>1. \A b \in Byte : crc16_table[b] = Shifted(b)
    BY DEF crc16_table, Byte
  <2> QED BY <1>1, <2>1, ShiftedType, ByteIsWord
<1> QED BY <1>1, <1>2, Xor16Type DEF TableUpdate

-----------------------------------------------------------------------------
(* The bits of a word.                                                      *)

\* The bits of a word, and the number they make.
Bit == {0, 1}
Bits == [0..15 -> Bit]
Half(v, k) == v[k] + 2 * v[k + 1] + 4 * v[k + 2] + 8 * v[k + 3]
Value(v) == Half(v, 0) + 16 * Half(v, 4) + 256 * (Half(v, 8) + 16 * Half(v, 12))

Differ(a, b) == IF a = b THEN 0 ELSE 1
Differing(v, w) == [k \in 0..15 |-> Differ(v[k], w[k])]

LEMMA BitsAre ==
    ASSUME NEW v \in Bits
    PROVE  /\ v[0] \in Bit /\ v[1] \in Bit /\ v[2] \in Bit /\ v[3] \in Bit
           /\ v[4] \in Bit /\ v[5] \in Bit /\ v[6] \in Bit /\ v[7] \in Bit
           /\ v[8] \in Bit /\ v[9] \in Bit /\ v[10] \in Bit /\ v[11] \in Bit
           /\ v[12] \in Bit /\ v[13] \in Bit /\ v[14] \in Bit /\ v[15] \in Bit
BY DEF Bits

LEMMA Quarter ==
    ASSUME NEW a \in Bit, NEW b \in Bit, NEW c \in Bit, NEW d \in Bit
    PROVE  /\ a + 2 * b + 4 * c + 8 * d \in 0..15
           /\ Has(a + 2 * b + 4 * c + 8 * d, 1) <=> a = 1
           /\ Has(a + 2 * b + 4 * c + 8 * d, 2) <=> b = 1
           /\ Has(a + 2 * b + 4 * c + 8 * d, 4) <=> c = 1
           /\ Has(a + 2 * b + 4 * c + 8 * d, 8) <=> d = 1
<1> DEFINE x == a + 2 * b + 4 * c + 8 * d
<1>1. x \in 0..15
  BY SMT DEF Bit
<1>2. x \div 1 = a + 2 * (b + 2 * c + 4 * d) /\ x \div 2 = b + 2 * (c + 2 * d)
  BY SMT DEF Bit
<1>3. x \div 4 = c + 2 * d /\ x \div 8 = d
  BY SMT DEF Bit
<1>4. ASSUME NEW p \in Bit, NEW q \in Nat PROVE (p + 2 * q) % 2 = p
  BY SMT DEF Bit
<1>5. b + 2 * c + 4 * d \in Nat /\ c + 2 * d \in Nat /\ 0 \in Nat
  BY SMT DEF Bit
<1>6. (x \div 1) % 2 = a /\ (x \div 2) % 2 = b /\ (x \div 4) % 2 = c
  <2>1. (a + 2 * (b + 2 * c + 4 * d)) % 2 = a
    BY <1>4, <1>5
  <2>2. (b + 2 * (c + 2 * d)) % 2 = b
    BY <1>4, <1>5
  <2>3. (c + 2 * d) % 2 = c
    BY <1>4 DEF Bit
  <2> QED BY <1>2, <1>3, <2>1, <2>2, <2>3
<1>7. (x \div 8) % 2 = d
  BY <1>3, SMT DEF Bit
<1> QED BY <1>1, <1>6, <1>7 DEF Has

LEMMA QuarterXor ==
    ASSUME NEW v \in Bits, NEW w \in Bits, NEW k \in {0, 4, 8, 12}
    PROVE  XorHalfByte[Half(v, k)][Half(w, k)] =
               Differ(v[k], w[k]) + 2 * Differ(v[k + 1], w[k + 1])
               + 4 * Differ(v[k + 2], w[k + 2]) + 8 * Differ(v[k + 3], w[k + 3])
<1>1. PICK a, b, c, d \in Bit : a = v[k] /\ b = v[k + 1] /\ c = v[k + 2] /\ d = v[k + 3]
  BY BitsAre
<1>2. PICK p, q, r, s \in Bit : p = w[k] /\ q = w[k + 1] /\ r = w[k + 2] /\ s = w[k + 3]
  BY BitsAre
<1>3. PICK x \in 0..15 : x = a + 2 * b + 4 * c + 8 * d
  BY Quarter
<1>4. PICK y \in 0..15 : y = p + 2 * q + 4 * r + 8 * s
  BY Quarter
<1> DEFINE Xor(bit) == IF Has(x, bit) <=> Has(y, bit) THEN 0 ELSE bit
<1>5. XorHalfByte[x][y] = Xor(1) + Xor(2) + Xor(4) + Xor(8)
  BY DEF XorHalfByte
<1>6. /\ Has(x, 1) <=> a = 1
      /\ Has(x, 2) <=> b = 1
      /\ Has(x, 4) <=> c = 1
      /\ Has(x, 8) <=> d = 1
  BY <1>3, Quarter
<1>7. /\ Has(y, 1) <=> p = 1
      /\ Has(y, 2) <=> q = 1
      /\ Has(y, 4) <=> r = 1
      /\ Has(y, 8) <=> s = 1
  BY <1>4, Quarter
<1>8. Xor(1) = Differ(a, p) /\ Xor(2) = 2 * Differ(b, q)
  BY <1>6, <1>7 DEF Bit, Differ
<1>9. Xor(4) = 4 * Differ(c, r) /\ Xor(8) = 8 * Differ(d, s)
  BY <1>6, <1>7 DEF Bit, Differ
<1>10. Half(v, k) = x /\ Half(w, k) = y
  BY <1>1, <1>2, <1>3, <1>4 DEF Half
<1> HIDE DEF Xor
<1> QED BY <1>1, <1>2, <1>5, <1>8, <1>9, <1>10

LEMMA QuarterIs ==
    ASSUME NEW v \in Bits, NEW k \in {0, 4, 8, 12}
    PROVE  Half(v, k) \in 0..15
<1>1. v[k] \in Bit /\ v[k + 1] \in Bit /\ v[k + 2] \in Bit /\ v[k + 3] \in Bit
  BY BitsAre
<1> QED BY <1>1, Quarter DEF Half

LEMMA BytesOfValue ==
    ASSUME NEW v \in Bits
    PROVE  /\ Value(v) \in Word
           /\ High(Value(v)) = Half(v, 8) + 16 * Half(v, 12)
           /\ Low(Value(v)) = Half(v, 0) + 16 * Half(v, 4)
<1>1. PICK a \in 0..15, b \in 0..15, c \in 0..15, d \in 0..15 :
          a = Half(v, 0) /\ b = Half(v, 4) /\ c = Half(v, 8) /\ d = Half(v, 12)
  BY QuarterIs
<1>2. PICK n : n = a + 16 * b + 256 * (c + 16 * d)
  OBVIOUS
<1>3. n \in Int /\ n >= 0 /\ n <= 65535
  BY <1>2, SMT
<1>4. n \div 256 = c + 16 * d /\ n % 256 = a + 16 * b
  BY <1>2, SMT
<1>5. Value(v) = n
  BY <1>1, <1>2 DEF Value
<1>6. High(n) = c + 16 * d /\ Low(n) = a + 16 * b
  BY <1>4 DEF High, Low
<1>7. n \in Word
  BY <1>3, WordIs
<1> QED BY <1>1, <1>5, <1>6, <1>7

LEMMA HalvesOfByte ==
    ASSUME NEW a \in 0..15, NEW b \in 0..15
    PROVE  (a + 16 * b) \div 16 = b /\ (a + 16 * b) % 16 = a
BY SMT

LEMMA DifferingBits ==
    ASSUME NEW v \in Bits, NEW w \in Bits
    PROVE  /\ Differing(v, w) \in Bits
           /\ \A k \in {0, 4, 8, 12} : Half(Differing(v, w), k) = XorHalfByte[Half(v, k)][Half(w, k)]
<1>1. Differing(v, w) \in Bits
  BY DEF Differing, Differ, Bits, Bit
<1>2. ASSUME NEW k \in {0, 4, 8, 12}
      PROVE  Half(Differing(v, w), k) = XorHalfByte[Half(v, k)][Half(w, k)]
  <2>3. \A i \in 0..15 : Differing(v, w)[i] = Differ(v[i], w[i])
    BY DEF Differing
  <2>4. k \in 0..15 /\ k + 1 \in 0..15 /\ k + 2 \in 0..15 /\ k + 3 \in 0..15
    OBVIOUS
  <2>5. Half(Differing(v, w), k) = Differ(v[k], w[k]) + 2 * Differ(v[k + 1], w[k + 1])
            + 4 * Differ(v[k + 2], w[k + 2]) + 8 * Differ(v[k + 3], w[k + 3])
    BY <2>3, <2>4 DEF Half
  <2> QED BY <2>5, QuarterXor
<1> QED BY <1>1, <1>2

LEMMA XorIsDiffering ==
    ASSUME NEW v \in Bits, NEW w \in Bits
    PROVE  Xor16(Value(v), Value(w)) = Value(Differing(v, w))
<1> DEFINE d == Differing(v, w)
<1>1. ASSUME NEW k \in {0, 8}
      PROVE  XorByte(Half(v, k) + 16 * Half(v, k + 4), Half(w, k) + 16 * Half(w, k + 4)) =
                 Half(d, k) + 16 * Half(d, k + 4)
  <2>1. /\ Half(v, k) \in 0..15 /\ Half(v, k + 4) \in 0..15
        /\ Half(w, k) \in 0..15 /\ Half(w, k + 4) \in 0..15
    BY QuarterIs
  <2>2. XorByte(Half(v, k) + 16 * Half(v, k + 4), Half(w, k) + 16 * Half(w, k + 4)) =
            XorHalfByte[Half(v, k + 4)][Half(w, k + 4)] * 16 + XorHalfByte[Half(v, k)][Half(w, k)]
    BY <2>1, HalvesOfByte DEF XorByte
  <2>3. d \in Bits /\ k \in {0, 4, 8, 12} /\ k + 4 \in {0, 4, 8, 12}
    BY DifferingBits
  <2>4. Half(d, k) \in 0..15 /\ Half(d, k + 4) \in 0..15
    BY <2>3, QuarterIs
  <2>5. Half(d, k) = XorHalfByte[Half(v, k)][Half(w, k)] /\ Half(d, k + 4) = XorHalfByte[Half(v, k + 4)][Half(w, k + 4)]
    BY <2>3, DifferingBits
  <2> QED
    <3> HIDE DEF d
    <3> QED BY <2>2, <2>4, <2>5
<1>2. XorByte(Low(Value(v)), Low(Value(w))) = Half(d, 0) + 16 * Half(d, 4)
  BY <1>1, BytesOfValue
<1>3. XorByte(High(Value(v)), High(Value(w))) = Half(d, 8) + 16 * Half(d, 12)
  BY <1>1, BytesOfValue
<1>4. /\ Half(d, 0) \in 0..15 /\ Half(d, 4) \in 0..15
      /\ Half(d, 8) \in 0..15 /\ Half(d, 12) \in 0..15
  BY DifferingBits, QuarterIs
<1> HIDE DEF d
<1>5. Xor16(Value(v), Value(w)) = Value(d)
  BY <1>2, <1>3, <1>4, SMTT(60) DEF Xor16, Value
<1> QED BY <1>5 DEF d

LEMMA HalfBits ==
    ASSUME NEW n \in 0..15
    PROVE  \E a, b, c, d \in Bit : n = a + 2 * b + 4 * c + 8 * d
<1>1. n % 2 \in Bit /\ (n \div 2) % 2 \in Bit /\ (n \div 4) % 2 \in Bit /\ (n \div 8) % 2 \in Bit
  BY SMT DEF Bit
<1>2. n = (n % 2) + 2 * ((n \div 2) % 2) + 4 * ((n \div 4) % 2) + 8 * ((n \div 8) % 2)
  BY SMT
<1> QED BY <1>1, <1>2

LEMMA WordHasBits ==
    ASSUME NEW n \in Word
    PROVE  \E v \in Bits : n = Value(v)
<1>a. n \in Int /\ n >= 0 /\ n <= 65535
  BY WordIs
<1>b. PICK x \in Int, p \in 0..15 : n = p + 16 * x
  <2>1. n \div 16 \in Int /\ n % 16 \in 0..15 /\ n = (n % 16) + 16 * (n \div 16)
    BY <1>a, SMT
  <2> QED BY <2>1
<1>c. PICK y \in Int, q \in 0..15 : x = q + 16 * y
  <2>1. x \div 16 \in Int /\ x % 16 \in 0..15 /\ x = (x % 16) + 16 * (x \div 16)
    BY SMT
  <2> QED BY <2>1
<1>d. PICK s \in Int, r \in 0..15 : y = r + 16 * s
  <2>1. y \div 16 \in Int /\ y % 16 \in 0..15 /\ y = (y % 16) + 16 * (y \div 16)
    BY SMT
  <2> QED BY <2>1
<1>e. s \in 0..15
  BY <1>a, <1>b, <1>c, <1>d, SMT
<1>1. n = p + 16 * q + 256 * (r + 16 * s)
  BY <1>b, <1>c, <1>d, <1>e, SMT
<1>2. PICK a0, a1, a2, a3 \in Bit : p = a0 + 2 * a1 + 4 * a2 + 8 * a3
  BY HalfBits
<1>3. PICK b0, b1, b2, b3 \in Bit : q = b0 + 2 * b1 + 4 * b2 + 8 * b3
  BY HalfBits
<1>4. PICK c0, c1, c2, c3 \in Bit : r = c0 + 2 * c1 + 4 * c2 + 8 * c3
  BY HalfBits
<1>5. PICK d0, d1, d2, d3 \in Bit : s = d0 + 2 * d1 + 4 * d2 + 8 * d3
  BY <1>e, HalfBits
<1>6. PICK v : v = [k \in 0..15 |-> CASE k = 0 -> a0 [] k = 1 -> a1 [] k = 2 -> a2 [] k = 3 -> a3
                                      [] k = 4 -> b0 [] k = 5 -> b1 [] k = 6 -> b2 [] k = 7 -> b3
                                      [] k = 8 -> c0 [] k = 9 -> c1 [] k = 10 -> c2 [] k = 11 -> c3
                                      [] k = 12 -> d0 [] k = 13 -> d1 [] k = 14 -> d2 [] k = 15 -> d3]
  OBVIOUS
<1>7. /\ v[0] = a0 /\ v[1] = a1 /\ v[2] = a2 /\ v[3] = a3
      /\ v[4] = b0 /\ v[5] = b1 /\ v[6] = b2 /\ v[7] = b3
      /\ v[8] = c0 /\ v[9] = c1 /\ v[10] = c2 /\ v[11] = c3
      /\ v[12] = d0 /\ v[13] = d1 /\ v[14] = d2 /\ v[15] = d3
  BY <1>6
<1>8. v \in Bits
  <2>1. \A k \in 0..15 : v[k] \in Bit
    BY <1>7
  <2>2. DOMAIN v = 0..15 /\ v = [k \in 0..15 |-> v[k]]
    BY <1>6
  <2> QED BY <2>1, <2>2 DEF Bits
<1>9. Half(v, 0) = p /\ Half(v, 4) = q /\ Half(v, 8) = r /\ Half(v, 12) = s
  BY <1>2, <1>3, <1>4, <1>5, <1>7 DEF Half
<1>10. Value(v) = n
  BY <1>1, <1>9 DEF Value
<1> QED BY <1>8, <1>10

\* Two numbers whose bits differ are two.
LEMMA SameDigit ==
    ASSUME NEW a \in 0..15, NEW p \in 0..15, NEW x \in Nat, NEW y \in Nat,
           a + 16 * x = p + 16 * y
    PROVE  a = p /\ x = y
BY SMT

LEMMA BitsOfValue ==
    ASSUME NEW v \in Bits, NEW w \in Bits, Value(v) = Value(w)
    PROVE  v = w
<1>1. \A k \in {0, 4, 8, 12} : Half(v, k) = Half(w, k)
  <2>1. \A k \in {0, 4, 8, 12} : Half(v, k) \in 0..15 /\ Half(w, k) \in 0..15
    BY QuarterIs
  <2>2. PICK a, b, c, d \in 0..15 : a = Half(v, 0) /\ b = Half(v, 4) /\ c = Half(v, 8) /\ d = Half(v, 12)
    BY <2>1
  <2>3. PICK p, q, r, s \in 0..15 : p = Half(w, 0) /\ q = Half(w, 4) /\ r = Half(w, 8) /\ s = Half(w, 12)
    BY <2>1
  <2>4. a + 16 * b + 256 * (c + 16 * d) = p + 16 * q + 256 * (r + 16 * s)
    BY <2>2, <2>3 DEF Value
  <2>5. a = p /\ b = q /\ c = r /\ d = s
    <3>1. PICK x \in Nat, y \in Nat : x = c + 16 * d /\ y = r + 16 * s
      OBVIOUS
    <3>2. PICK x2 \in Nat, y2 \in Nat : x2 = b + 16 * x /\ y2 = q + 16 * y
      OBVIOUS
    <3>3. a + 16 * x2 = p + 16 * y2
      BY <2>4, <3>1, <3>2
    <3>4. a = p /\ x2 = y2
      BY <3>3, SameDigit
    <3>5. b = q /\ x = y
      BY <3>2, <3>4, SameDigit
    <3>6. c = r /\ d = s
      BY <3>1, <3>5, SameDigit
    <3> QED BY <3>4, <3>5, <3>6
  <2> QED BY <2>2, <2>3, <2>5
<1>2. \A k \in {0, 4, 8, 12} : v[k] = w[k] /\ v[k + 1] = w[k + 1] /\ v[k + 2] = w[k + 2] /\ v[k + 3] = w[k + 3]
  <2> SUFFICES ASSUME NEW k \in {0, 4, 8, 12}
               PROVE  v[k] = w[k] /\ v[k + 1] = w[k + 1] /\ v[k + 2] = w[k + 2] /\ v[k + 3] = w[k + 3]
    OBVIOUS
  <2>1. v[k] \in Bit /\ v[k + 1] \in Bit /\ v[k + 2] \in Bit /\ v[k + 3] \in Bit
    BY BitsAre
  <2>2. w[k] \in Bit /\ w[k + 1] \in Bit /\ w[k + 2] \in Bit /\ w[k + 3] \in Bit
    BY BitsAre
  <2>3. v[k] + 2 * v[k + 1] + 4 * v[k + 2] + 8 * v[k + 3] = w[k] + 2 * w[k + 1] + 4 * w[k + 2] + 8 * w[k + 3]
    BY <1>1 DEF Half
  <2>4. PICK a, b, c, d \in Bit : a = v[k] /\ b = v[k + 1] /\ c = v[k + 2] /\ d = v[k + 3]
    BY <2>1
  <2>5. PICK p, q, r, s \in Bit : p = w[k] /\ q = w[k + 1] /\ r = w[k + 2] /\ s = w[k + 3]
    BY <2>2
  <2>6. a = p /\ b = q /\ c = r /\ d = s
    <3>1. a + 2 * b + 4 * c + 8 * d = p + 2 * q + 4 * r + 8 * s
      BY <2>3, <2>4, <2>5
    <3> QED BY <3>1, SMT DEF Bit
  <2> QED BY <2>4, <2>5, <2>6
<1>3. \A i \in 0..15 : v[i] = w[i]
  BY <1>2
<1> QED BY <1>3 DEF Bits

-----------------------------------------------------------------------------
(* A shift.                                                                 *)

ShiftedBits(v) ==
    [k \in 0..15 |-> IF k = 15 THEN v[0]
                     ELSE IF k = 3 \/ k = 10 THEN Differ(v[k + 1], v[0])
                     ELSE v[k + 1]]

\* The numbers in which a bit is flipped.
LEMMA FlipBit ==
    ASSUME NEW low \in Nat, NEW b \in Bit, NEW high \in Nat, NEW bit \in Nat \ {0}, low < bit,
           bit \in {8, 1024, 32768}
    PROVE  Flip(low + bit * (b + 2 * high), bit) = low + bit * ((1 - b) + 2 * high)
<1>1. CASE bit = 8
  <2>1. (low + 8 * (b + 2 * high)) \div 8 = b + 2 * high
    BY <1>1, SMT DEF Bit
  <2>2. (b + 2 * high) % 2 = b
    BY SMT DEF Bit
  <2> QED BY <1>1, <2>1, <2>2, SMT DEF Flip, Has, Bit
<1>2. CASE bit = 1024
  <2>1. (low + 1024 * (b + 2 * high)) \div 1024 = b + 2 * high
    BY <1>2, SMT DEF Bit
  <2>2. (b + 2 * high) % 2 = b
    BY SMT DEF Bit
  <2> QED BY <1>2, <2>1, <2>2, SMT DEF Flip, Has, Bit
<1>3. CASE bit = 32768
  <2>1. (low + 32768 * (b + 2 * high)) \div 32768 = b + 2 * high
    BY <1>3, SMT DEF Bit
  <2>2. (b + 2 * high) % 2 = b
    BY SMT DEF Bit
  <2> QED BY <1>3, <2>1, <2>2, SMT DEF Flip, Has, Bit
<1> QED BY <1>1, <1>2, <1>3

LEMMA ShiftIsShifted ==
    ASSUME NEW v \in Bits
    PROVE  ShiftedBits(v) \in Bits /\ ShiftedOnce(Value(v)) = Value(ShiftedBits(v))
<1>0. ShiftedBits(v) \in Bits
  BY DEF ShiftedBits, Differ, Bits, Bit
<1>1. PICK a0, a1, a2, a3, b0, b1, b2, b3 \in Bit :
          /\ a0 = v[0] /\ a1 = v[1] /\ a2 = v[2] /\ a3 = v[3]
          /\ b0 = v[4] /\ b1 = v[5] /\ b2 = v[6] /\ b3 = v[7]
  BY BitsAre
<1>2. PICK c0, c1, c2, c3, d0, d1, d2, d3 \in Bit :
          /\ c0 = v[8] /\ c1 = v[9] /\ c2 = v[10] /\ c3 = v[11]
          /\ d0 = v[12] /\ d1 = v[13] /\ d2 = v[14] /\ d3 = v[15]
  BY BitsAre
<1>3. PICK low3 \in 0..7 : low3 = a1 + 2 * a2 + 4 * a3
  BY SMT DEF Bit
<1>4. PICK mid \in 0..63 : mid = b1 + 2 * b2 + 4 * b3 + 8 * c0 + 16 * c1 + 32 * c2
  BY SMT DEF Bit
<1>5. PICK top \in 0..15 : top = d0 + 2 * d1 + 4 * d2 + 8 * d3
  BY SMT DEF Bit
<1>6. PICK half : half = low3 + 8 * (b0 + 2 * (mid + 64 * (c3 + 2 * top)))
  OBVIOUS
<1>7. half \in Nat /\ half < 32768
  <2>1. PICK u \in 0..31 : u = c3 + 2 * top
    BY SMT DEF Bit
  <2>2. PICK x \in 0..2047 : x = mid + 64 * u
    BY SMT
  <2>3. PICK y \in 0..4095 : y = b0 + 2 * x
    BY SMT DEF Bit
  <2>4. half = low3 + 8 * y
    BY <1>6, <2>1, <2>2, <2>3
  <2>5. low3 \in Nat /\ low3 <= 7 /\ y \in Nat /\ y <= 4095
    OBVIOUS
  <2> QED BY <2>4, <2>5, SMT
<1>8. Value(v) = a0 + 2 * half
  <2>1. Half(v, 0) = a0 + 2 * a1 + 4 * a2 + 8 * a3 /\ Half(v, 4) = b0 + 2 * b1 + 4 * b2 + 8 * b3
    BY <1>1 DEF Half
  <2>2. Half(v, 8) = c0 + 2 * c1 + 4 * c2 + 8 * c3 /\ Half(v, 12) = d0 + 2 * d1 + 4 * d2 + 8 * d3
    BY <1>2 DEF Half
  <2> QED BY <1>3, <1>4, <1>5, <1>6, <2>1, <2>2 DEF Value, Bit
<1>9. (a0 + 2 * half) \div 2 = half /\ ((a0 + 2 * half) \div 1) % 2 = a0
  BY <1>7, SMT DEF Bit
<1>10. PICK w \in Bits : w = ShiftedBits(v)
  BY <1>0
<1>11. /\ w[0] = a1 /\ w[1] = a2 /\ w[2] = a3 /\ w[3] = Differ(b0, a0)
       /\ w[4] = b1 /\ w[5] = b2 /\ w[6] = b3 /\ w[7] = c0
       /\ w[8] = c1 /\ w[9] = c2 /\ w[10] = Differ(c3, a0) /\ w[11] = d0
       /\ w[12] = d1 /\ w[13] = d2 /\ w[14] = d3 /\ w[15] = a0
  BY <1>1, <1>2, <1>10 DEF ShiftedBits
<1>12. PICK e \in Bit, f \in Bit : e = Differ(b0, a0) /\ f = Differ(c3, a0)
  BY DEF Differ, Bit
<1>13. Value(w) = low3 + 8 * (e + 2 * (mid + 64 * (f + 2 * (top + 16 * a0))))
  <2>1. Half(w, 0) = a1 + 2 * a2 + 4 * a3 + 8 * e /\ Half(w, 4) = b1 + 2 * b2 + 4 * b3 + 8 * c0
    BY <1>11, <1>12 DEF Half
  <2>2. Half(w, 8) = c1 + 2 * c2 + 4 * f + 8 * d0 /\ Half(w, 12) = d1 + 2 * d2 + 4 * d3 + 8 * a0
    BY <1>11, <1>12 DEF Half
  <2> QED BY <1>3, <1>4, <1>5, <2>1, <2>2 DEF Value, Bit
<1>14. Has(a0 + 2 * half, 1) <=> a0 = 1
  BY <1>9 DEF Has
<1>15. CASE a0 = 0
  <2>1. ShiftedOnce(Value(v)) = half
    BY <1>8, <1>9, <1>14, <1>15 DEF ShiftedOnce
  <2>2. e = b0 /\ f = c3
    BY <1>12, <1>15 DEF Differ, Bit
  <2> QED BY <1>0, <1>6, <1>10, <1>13, <1>15, <2>1, <2>2, SMT DEF Bit
<1>16. CASE a0 = 1
  <2>1. e = 1 - b0 /\ f = 1 - c3
    BY <1>12, <1>16 DEF Differ, Bit
  <2>2. Flip(half, 32768) = half + 32768
    <3>1. half = half + 32768 * (0 + 2 * 0) /\ half \in Nat /\ half < 32768
      BY <1>7
    <3>2. PICK b \in Bit, h \in Nat : b = 0 /\ h = 0
      BY DEF Bit
    <3>3. Flip(half + 32768 * (b + 2 * h), 32768) = half + 32768 * ((1 - b) + 2 * h)
      BY <3>1, FlipBit
    <3> QED BY <3>1, <3>2, <3>3
  <2>3. Flip(half + 32768, 1024) = low3 + 8 * (b0 + 2 * (mid + 64 * (f + 2 * (top + 16))))
    <3>1. PICK l \in Nat : l = low3 + 8 * (b0 + 2 * mid) /\ l < 1024
      BY SMT DEF Bit
    <3>2. PICK h \in Nat : h = top + 16
      OBVIOUS
    <3>3. half + 32768 = l + 1024 * (c3 + 2 * h)
      BY <1>6, <3>1, <3>2, SMT DEF Bit
    <3>4. Flip(l + 1024 * (c3 + 2 * h), 1024) = l + 1024 * ((1 - c3) + 2 * h)
      BY <3>1, FlipBit
    <3> QED BY <2>1, <3>1, <3>2, <3>3, <3>4, SMT DEF Bit
  <2>4. PICK n : n = low3 + 8 * (b0 + 2 * (mid + 64 * (f + 2 * (top + 16))))
    OBVIOUS
  <2>5. Flip(n, 8) = low3 + 8 * (e + 2 * (mid + 64 * (f + 2 * (top + 16))))
    <3>1. PICK h \in Nat : h = mid + 64 * (f + 2 * (top + 16))
      BY SMT DEF Bit
    <3>2. low3 \in Nat /\ low3 < 8
      OBVIOUS
    <3>3. Flip(low3 + 8 * (b0 + 2 * h), 8) = low3 + 8 * ((1 - b0) + 2 * h)
      BY <3>2, FlipBit
    <3> QED BY <2>1, <2>4, <3>1, <3>3
  <2>6. ShiftedOnce(Value(v)) = Flip(Flip(Flip(half, 32768), 1024), 8)
    BY <1>8, <1>9, <1>14, <1>16 DEF ShiftedOnce
  <2>7. ShiftedOnce(Value(v)) = Flip(n, 8)
    BY <2>2, <2>3, <2>4, <2>6
  <2> QED BY <1>0, <1>10, <1>13, <1>16, <2>5, <2>7, SMT
<1> QED BY <1>15, <1>16 DEF Bit

-----------------------------------------------------------------------------
(* The exclusive or of words.                                               *)

LEMMA XorShares ==
    ASSUME NEW a \in Word, NEW b \in Word
    PROVE  Xor16(a, b) = Xor16(b, a)
<1>1. PICK v \in Bits, w \in Bits : a = Value(v) /\ b = Value(w)
  BY WordHasBits
<1>2. Differing(v, w) = Differing(w, v)
  BY DEF Differing, Differ
<1> QED BY <1>1, <1>2, XorIsDiffering

LEMMA XorAssociative ==
    ASSUME NEW a \in Word, NEW b \in Word, NEW c \in Word
    PROVE  Xor16(Xor16(a, b), c) = Xor16(a, Xor16(b, c))
<1>1. PICK u \in Bits, v \in Bits, w \in Bits : a = Value(u) /\ b = Value(v) /\ c = Value(w)
  BY WordHasBits
<1>2. \A k \in 0..15 : u[k] \in Bit /\ v[k] \in Bit /\ w[k] \in Bit
  BY DEF Bits
<1>3. Differing(Differing(u, v), w) = Differing(u, Differing(v, w))
  <2>1. \A k \in 0..15 : Differ(Differ(u[k], v[k]), w[k]) = Differ(u[k], Differ(v[k], w[k]))
    BY <1>2 DEF Differ, Bit
  <2> QED BY <2>1 DEF Differing
<1>4. Differing(u, v) \in Bits /\ Differing(v, w) \in Bits
  BY DifferingBits
<1> QED BY <1>1, <1>3, <1>4, XorIsDiffering

\* Only equal words have no bit in which they differ.
LEMMA XorZero ==
    ASSUME NEW a \in Word, NEW b \in Word
    PROVE  /\ Xor16(a, a) = 0
           /\ Xor16(a, 0) = a
           /\ Xor16(a, b) = 0 => a = b
<1>1. PICK v \in Bits, w \in Bits : a = Value(v) /\ b = Value(w)
  BY WordHasBits
<1>2. PICK z \in Bits : z = [k \in 0..15 |-> 0]
  BY DEF Bits, Bit
<1>3. Value(z) = 0
  BY <1>2 DEF Value, Half
<1>4. \A k \in 0..15 : v[k] \in Bit /\ w[k] \in Bit
  BY DEF Bits
<1>5. Differing(v, v) = z
  BY <1>2 DEF Differing, Differ
<1>6. Differing(v, z) = v
  <2>1. \A k \in 0..15 : Differ(v[k], z[k]) = v[k]
    BY <1>2, <1>4 DEF Differ, Bit
  <2> QED BY <2>1 DEF Differing, Bits
<1>7. ASSUME Differing(v, w) = z PROVE v = w
  <2>1. \A k \in 0..15 : Differ(v[k], w[k]) = 0
    BY <1>2, <1>7 DEF Differing
  <2>2. \A k \in 0..15 : v[k] = w[k]
    BY <2>1 DEF Differ
  <2> QED BY <2>2 DEF Bits
<1>8. Xor16(a, b) = 0 => Differing(v, w) = z
  BY <1>1, <1>3, XorIsDiffering, DifferingBits, BitsOfValue
<1> QED BY <1>1, <1>3, <1>5, <1>6, <1>7, <1>8, XorIsDiffering

LEMMA XorCancels ==
    ASSUME NEW a \in Word, NEW b \in Word, NEW c \in Word, Xor16(a, b) = Xor16(a, c)
    PROVE  b = c
<1>1. Xor16(a, Xor16(a, b)) = Xor16(a, Xor16(a, c))
  OBVIOUS
<1>2. Xor16(Xor16(a, a), b) = Xor16(Xor16(a, a), c)
  BY <1>1, XorAssociative
<1>3. 0 \in Word
  BY WordIs
<1>4. Xor16(0, b) = Xor16(0, c)
  BY <1>2, XorZero
<1> QED BY <1>3, <1>4, XorShares, XorZero

LEMMA ShiftXor ==
    ASSUME NEW a \in Word, NEW b \in Word
    PROVE  ShiftedOnce(Xor16(a, b)) = Xor16(ShiftedOnce(a), ShiftedOnce(b))
<1>1. PICK v \in Bits, w \in Bits : a = Value(v) /\ b = Value(w)
  BY WordHasBits
<1>2. \A k \in 0..15 : v[k] \in Bit /\ w[k] \in Bit
  BY DEF Bits
<1>3. ShiftedBits(Differing(v, w)) = Differing(ShiftedBits(v), ShiftedBits(w))
  <2>1. \A i, j \in 0..15 :
            Differ(Differ(v[i], w[i]), Differ(v[j], w[j])) = Differ(Differ(v[i], v[j]), Differ(w[i], w[j]))
    BY <1>2 DEF Differ, Bit
  <2>2. \A k \in 0..15 : ShiftedBits(Differing(v, w))[k] = Differing(ShiftedBits(v), ShiftedBits(w))[k]
    <3> SUFFICES ASSUME NEW k \in 0..15
                 PROVE  ShiftedBits(Differing(v, w))[k] = Differing(ShiftedBits(v), ShiftedBits(w))[k]
      OBVIOUS
    <3>1. CASE k = 15
      BY <3>1 DEF ShiftedBits, Differing
    <3>2. CASE k # 15 /\ (k = 3 \/ k = 10)
      <4>1. k + 1 \in 0..15 /\ 0 \in 0..15
        BY <3>2
      <4>2. ShiftedBits(Differing(v, w))[k] = Differ(Differ(v[k + 1], w[k + 1]), Differ(v[0], w[0]))
        BY <3>2, <4>1 DEF ShiftedBits, Differing
      <4>3. Differing(ShiftedBits(v), ShiftedBits(w))[k] = Differ(Differ(v[k + 1], v[0]), Differ(w[k + 1], w[0]))
        BY <3>2, <4>1 DEF ShiftedBits, Differing
      <4> QED BY <2>1, <4>1, <4>2, <4>3
    <3>3. CASE k # 15 /\ k # 3 /\ k # 10
      <4>1. k + 1 \in 0..15
        BY <3>3
      <4> QED BY <3>3, <4>1 DEF ShiftedBits, Differing
    <3> QED BY <3>1, <3>2, <3>3
  <2> QED BY <2>2 DEF ShiftedBits, Differing
<1>4. Differing(v, w) \in Bits /\ ShiftedBits(v) \in Bits /\ ShiftedBits(w) \in Bits
  BY DifferingBits, ShiftIsShifted
<1> QED BY <1>1, <1>3, <1>4, XorIsDiffering, ShiftIsShifted

LEMMA ShiftLosesNothing ==
    ASSUME NEW a \in Word, NEW b \in Word, ShiftedOnce(a) = ShiftedOnce(b)
    PROVE  a = b
<1>1. PICK v \in Bits, w \in Bits : a = Value(v) /\ b = Value(w)
  BY WordHasBits
<1>2. ShiftedBits(v) = ShiftedBits(w)
  BY <1>1, ShiftIsShifted, BitsOfValue
<1>3. v[0] = w[0]
  <2>1. ShiftedBits(v)[15] = v[0] /\ ShiftedBits(w)[15] = w[0]
    BY DEF ShiftedBits
  <2> QED BY <1>2, <2>1
<1>4. \A k \in 0..15 : v[k] \in Bit /\ w[k] \in Bit
  BY DEF Bits
<1>5. ASSUME NEW k \in 1..15 PROVE v[k] = w[k]
  <2>1. k - 1 \in 0..14 /\ (k - 1) + 1 = k /\ k - 1 # 15
    OBVIOUS
  <2>2. CASE k - 1 = 3 \/ k - 1 = 10
    <3>1. ShiftedBits(v)[k - 1] = Differ(v[k], v[0]) /\ ShiftedBits(w)[k - 1] = Differ(w[k], w[0])
      BY <2>1, <2>2 DEF ShiftedBits
    <3>2. Differ(v[k], v[0]) = Differ(w[k], v[0])
      BY <1>2, <1>3, <3>1
    <3> QED BY <1>4, <3>2 DEF Differ, Bit
  <2>3. CASE ~(k - 1 = 3 \/ k - 1 = 10)
    <3>1. ShiftedBits(v)[k - 1] = v[k] /\ ShiftedBits(w)[k - 1] = w[k]
      BY <2>1, <2>3 DEF ShiftedBits
    <3> QED BY <1>2, <3>1
  <2> QED BY <2>2, <2>3
<1>6. \A k \in 0..15 : v[k] = w[k]
  BY <1>3, <1>5
<1>7. v = w
  BY <1>6 DEF Bits
<1> QED BY <1>1, <1>7

\* Without the polynomial a shift is a halving, and it is without it below 32768.
LEMMA ShiftOfEven ==
    ASSUME NEW m \in Word, NEW n \in Nat, m = 2 * n
    PROVE  ShiftedOnce(m) = n
<1>1. m \div 2 = n /\ (m \div 1) % 2 = 0
  BY SMT
<1> QED BY <1>1 DEF ShiftedOnce, Has

LEMMA ShiftBelow ==
    ASSUME NEW n \in Word, ShiftedOnce(n) < 32768
    PROVE  n = 2 * ShiftedOnce(n)
<1>1. PICK s : s = ShiftedOnce(n)
  OBVIOUS
<1>2. s \in Int /\ s >= 0 /\ s < 32768
  BY <1>1, ShiftedOnceType, WordIs
<1>3. s \in Nat
  BY <1>2
<1>4. PICK m : m = 2 * s
  OBVIOUS
<1>5. m \in Word
  <2>1. m \in Int /\ m >= 0 /\ m <= 65535
    BY <1>2, <1>4, SMT
  <2> QED BY <2>1, WordIs
<1>6. ShiftedOnce(m) = s
  BY <1>3, <1>4, <1>5, ShiftOfEven
<1> QED BY <1>1, <1>4, <1>5, <1>6, ShiftLosesNothing

-----------------------------------------------------------------------------
(* The eight shifts of a byte.                                              *)

LEMMA ShiftedXor ==
    ASSUME NEW a \in Word, NEW b \in Word
    PROVE  Shifted(Xor16(a, b)) = Xor16(Shifted(a), Shifted(b))
<1>1. PICK c \in Word : c = Xor16(a, b)
  BY Xor16Type
<1>2. PICK f \in [0..8 -> Word] : Eight(f, a) /\ Shifted(a) = f[8]
  BY ShiftedSteps
<1>3. PICK g \in [0..8 -> Word] : Eight(g, b) /\ Shifted(b) = g[8]
  BY ShiftedSteps
<1>4. PICK h \in [0..8 -> Word] : Eight(h, c) /\ Shifted(c) = h[8]
  BY ShiftedSteps
<1>5. PICK x : x = [k \in 0..8 |-> Xor16(f[k], g[k])]
  OBVIOUS
<1>6. Alike(h, x, 8)
  <2>1. h[0] = x[0]
    BY <1>1, <1>2, <1>3, <1>4, <1>5 DEF Eight
  <2>2. ASSUME NEW k \in 1..8, h[k - 1] = x[k - 1] PROVE h[k] = x[k]
    <3>1. k \in 0..8 /\ k - 1 \in 0..8
      OBVIOUS
    <3>2. f[k - 1] \in Word /\ g[k - 1] \in Word
      BY <3>1
    <3>3. x[k] = Xor16(ShiftedOnce(f[k - 1]), ShiftedOnce(g[k - 1]))
      BY <1>2, <1>3, <1>5, <3>1 DEF Eight
    <3>4. h[k] = ShiftedOnce(Xor16(f[k - 1], g[k - 1]))
      BY <1>4, <1>5, <2>2, <3>1 DEF Eight
    <3> QED BY <3>2, <3>3, <3>4, ShiftXor
  <2> QED BY <2>1, <2>2 DEF Alike
<1>7. h[8] = x[8]
  BY <1>6, SameSteps
<1> QED BY <1>1, <1>2, <1>3, <1>4, <1>5, <1>7

LEMMA ShiftedLosesNothing ==
    ASSUME NEW a \in Word, NEW b \in Word, Shifted(a) = Shifted(b)
    PROVE  a = b
<1>1. PICK f \in [0..8 -> Word] : Eight(f, a) /\ Shifted(a) = f[8]
  BY ShiftedSteps
<1>2. PICK g \in [0..8 -> Word] : Eight(g, b) /\ Shifted(b) = g[8]
  BY ShiftedSteps
<1>3. ASSUME NEW k \in 1..8, f[k] = g[k] PROVE f[k - 1] = g[k - 1]
  <2>1. f[k - 1] \in Word /\ g[k - 1] \in Word
    OBVIOUS
  <2> QED BY <1>1, <1>2, <1>3, <2>1, ShiftLosesNothing DEF Eight
<1>4. f[7] = g[7]
  <2>0. f[8] = g[8]
    BY <1>1, <1>2, Zenon
  <2>1. 8 \in 1..8 /\ 8 - 1 = 7 /\ f[8] = g[8]
    BY <2>0
  <2>2. f[8 - 1] = g[8 - 1]
    BY <1>3, <2>1
  <2> QED BY <2>1, <2>2
<1>5. f[6] = g[6]
  <2>1. 7 \in 1..8 /\ 7 - 1 = 6 /\ f[7] = g[7]
    BY <1>4
  <2>2. f[7 - 1] = g[7 - 1]
    BY <1>3, <2>1
  <2> QED BY <2>1, <2>2
<1>6. f[5] = g[5]
  <2>1. 6 \in 1..8 /\ 6 - 1 = 5 /\ f[6] = g[6]
    BY <1>5
  <2>2. f[6 - 1] = g[6 - 1]
    BY <1>3, <2>1
  <2> QED BY <2>1, <2>2
<1>7. f[4] = g[4]
  <2>1. 5 \in 1..8 /\ 5 - 1 = 4 /\ f[5] = g[5]
    BY <1>6
  <2>2. f[5 - 1] = g[5 - 1]
    BY <1>3, <2>1
  <2> QED BY <2>1, <2>2
<1>8. f[3] = g[3]
  <2>1. 4 \in 1..8 /\ 4 - 1 = 3 /\ f[4] = g[4]
    BY <1>7
  <2>2. f[4 - 1] = g[4 - 1]
    BY <1>3, <2>1
  <2> QED BY <2>1, <2>2
<1>9. f[2] = g[2]
  <2>1. 3 \in 1..8 /\ 3 - 1 = 2 /\ f[3] = g[3]
    BY <1>8
  <2>2. f[3 - 1] = g[3 - 1]
    BY <1>3, <2>1
  <2> QED BY <2>1, <2>2
<1>10. f[1] = g[1]
  <2>1. 2 \in 1..8 /\ 2 - 1 = 1 /\ f[2] = g[2]
    BY <1>9
  <2>2. f[2 - 1] = g[2 - 1]
    BY <1>3, <2>1
  <2> QED BY <2>1, <2>2
<1>11. f[0] = g[0]
  <2>1. 1 \in 1..8 /\ 1 - 1 = 0 /\ f[1] = g[1]
    BY <1>10
  <2>2. f[1 - 1] = g[1 - 1]
    BY <1>3, <2>1
  <2> QED BY <2>1, <2>2
<1> QED BY <1>1, <1>2, <1>11 DEF Eight

\* A byte shifted in from the high byte.
LEMMA ShiftedHigh ==
    ASSUME NEW h \in Byte
    PROVE  256 * h \in Word /\ Shifted(256 * h) = h
<1>0. PICK n \in Word : n = 256 * h
  BY WordIs DEF Byte
<1>1. PICK f \in [0..8 -> Word] : Eight(f, n) /\ Shifted(n) = f[8]
  BY ShiftedSteps
<1>2. ASSUME NEW k \in 1..8, NEW x \in Nat, f[k - 1] = 2 * x PROVE f[k] = x
  <2>1. f[k - 1] \in Word /\ f[k] = ShiftedOnce(f[k - 1])
    BY <1>1 DEF Eight
  <2> QED BY <1>2, <2>1, ShiftOfEven
<1>3. f[1] = 128 * h
  <2>1. PICK x \in Nat : x = 128 * h
    BY DEF Byte
  <2>2. 1 \in 1..8 /\ 1 - 1 = 0 /\ f[0] = 2 * x
    BY <1>0, <1>1, <2>1 DEF Byte, Eight
  <2>3. f[1] = x
    BY <1>2, <2>2
  <2> QED BY <2>1, <2>3
<1>4. f[2] = 64 * h
  <2>1. PICK x \in Nat : x = 64 * h
    BY DEF Byte
  <2>2. 2 \in 1..8 /\ 2 - 1 = 1 /\ f[1] = 2 * x
    BY <1>3, <2>1 DEF Byte
  <2>3. f[2] = x
    BY <1>2, <2>2
  <2> QED BY <2>1, <2>3
<1>5. f[3] = 32 * h
  <2>1. PICK x \in Nat : x = 32 * h
    BY DEF Byte
  <2>2. 3 \in 1..8 /\ 3 - 1 = 2 /\ f[2] = 2 * x
    BY <1>4, <2>1 DEF Byte
  <2>3. f[3] = x
    BY <1>2, <2>2
  <2> QED BY <2>1, <2>3
<1>6. f[4] = 16 * h
  <2>1. PICK x \in Nat : x = 16 * h
    BY DEF Byte
  <2>2. 4 \in 1..8 /\ 4 - 1 = 3 /\ f[3] = 2 * x
    BY <1>5, <2>1 DEF Byte
  <2>3. f[4] = x
    BY <1>2, <2>2
  <2> QED BY <2>1, <2>3
<1>7. f[5] = 8 * h
  <2>1. PICK x \in Nat : x = 8 * h
    BY DEF Byte
  <2>2. 5 \in 1..8 /\ 5 - 1 = 4 /\ f[4] = 2 * x
    BY <1>6, <2>1 DEF Byte
  <2>3. f[5] = x
    BY <1>2, <2>2
  <2> QED BY <2>1, <2>3
<1>8. f[6] = 4 * h
  <2>1. PICK x \in Nat : x = 4 * h
    BY DEF Byte
  <2>2. 6 \in 1..8 /\ 6 - 1 = 5 /\ f[5] = 2 * x
    BY <1>7, <2>1 DEF Byte
  <2>3. f[6] = x
    BY <1>2, <2>2
  <2> QED BY <2>1, <2>3
<1>9. f[7] = 2 * h
  <2>1. PICK x \in Nat : x = 2 * h
    BY DEF Byte
  <2>2. 7 \in 1..8 /\ 7 - 1 = 6 /\ f[6] = 2 * x
    BY <1>8, <2>1 DEF Byte
  <2>3. f[7] = x
    BY <1>2, <2>2
  <2> QED BY <2>1, <2>3
<1>10. f[8] = 1 * h
  <2>1. PICK x \in Nat : x = 1 * h
    BY DEF Byte
  <2>2. 8 \in 1..8 /\ 8 - 1 = 7 /\ f[7] = 2 * x
    BY <1>9, <2>1 DEF Byte
  <2>3. f[8] = x
    BY <1>2, <2>2
  <2> QED BY <2>1, <2>3
<1> QED BY <1>0, <1>1, <1>10 DEF Byte

\* Shifting a byte reaches the high byte, unless it is zero.
LEMMA ShiftedByte ==
    ASSUME NEW n \in Byte, Shifted(n) \in Byte
    PROVE  n = 0
<1>1. n \in Word
  BY ByteIsWord
<1>2. PICK h \in Byte : h = Shifted(n)
  OBVIOUS
<1>3. PICK m \in Word : m = 256 * h /\ Shifted(m) = h
  BY ShiftedHigh
<1>4. m = n
  BY <1>1, <1>2, <1>3, ShiftedLosesNothing
<1> QED BY <1>3, <1>4 DEF Byte

-----------------------------------------------------------------------------
(* The two builds of crc16_hdlc_update agree.                               *)

LEMMA XorByteIsXor ==
    ASSUME NEW x \in Byte, NEW y \in Byte
    PROVE  Xor16(x, y) = XorByte(x, y)
<1>1. High(x) = 0 /\ High(y) = 0 /\ Low(x) = x /\ Low(y) = y
  BY SMT DEF High, Low, Byte
<1>2. Xor16(0, 0) = 0
  BY XorZero, WordIs
<1>3. High(0) = 0 /\ Low(0) = 0
  BY SMT DEF High, Low
<1>4. XorByte(x, y) \in Byte /\ XorByte(0, 0) \in Byte
  <2>1. 0 \in Byte
    BY DEF Byte
  <2> QED BY <2>1, XorByteType
<1>5. XorByte(0, 0) = 0
  <2>1. Xor16(0, 0) = XorByte(0, 0) * 256 + XorByte(0, 0)
    BY <1>3 DEF Xor16
  <2> QED BY <1>2, <1>4, <2>1 DEF Byte
<1>6. Xor16(x, y) = XorByte(0, 0) * 256 + XorByte(x, y)
  BY <1>1 DEF Xor16
<1> QED BY <1>4, <1>5, <1>6 DEF Byte

\* A word is its high byte, in its place, and its low byte.
LEMMA WordSplits ==
    ASSUME NEW n \in Word
    PROVE  /\ High(n) \in Byte /\ Low(n) \in Byte /\ 256 * High(n) \in Word
           /\ n = 256 * High(n) + Low(n)
           /\ n = Xor16(256 * High(n), Low(n))
<1>1. High(n) \in Byte /\ Low(n) \in Byte
  BY HighLow
<1>2. n \in Int /\ n >= 0 /\ n <= 65535
  BY WordIs
<1>3. n = 256 * High(n) + Low(n)
  BY <1>2, SMT DEF High, Low
<1>4. PICK h \in Byte, l \in Byte : h = High(n) /\ l = Low(n)
  BY <1>1
<1>5. PICK m \in Word : m = 256 * h
  BY ShiftedHigh
<1>6. High(m) = h /\ Low(m) = 0
  BY <1>5, SMT DEF High, Low, Byte
<1>7. High(l) = 0 /\ Low(l) = l
  BY SMT DEF High, Low, Byte
<1>8. 0 \in Byte
  BY DEF Byte
<1>9. XorByte(h, 0) = h /\ XorByte(0, l) = l
  BY <1>8, XorByteIsXor, XorZero, XorShares, ByteIsWord
<1>10. Xor16(m, l) = h * 256 + l
  BY <1>6, <1>7, <1>9 DEF Xor16
<1> QED BY <1>1, <1>3, <1>4, <1>5, <1>10 DEF Byte

\* The update with the lookup table, which the C++ code uses where there is room
\* for it, is the update bit by bit, which Python uses.
THEOREM TableUpdateIsBitwise ==
    \A crc \in Word, byte \in Byte : TableUpdate(crc, byte) = BitwiseUpdate(crc, byte)
<1> SUFFICES ASSUME NEW crc \in Word, NEW byte \in Byte
             PROVE  TableUpdate(crc, byte) = BitwiseUpdate(crc, byte)
  OBVIOUS
<1>1. PICK h \in Byte, l \in Byte : h = High(crc) /\ l = Low(crc)
  BY WordSplits
<1>2. PICK m \in Word : m = 256 * h /\ crc = Xor16(m, l) /\ Shifted(m) = h
  BY <1>1, WordSplits, ShiftedHigh
<1>3. PICK k \in Byte : k = XorByte(l, byte)
  BY XorByteType
<1>4. /\ h \in Word /\ l \in Word /\ byte \in Word /\ k \in Word
      /\ k = Xor16(l, byte)
  BY <1>3, ByteIsWord, XorByteIsXor
<1>5. Xor16(crc, byte) = Xor16(m, k)
  BY <1>2, <1>4, XorAssociative
<1>6. BitwiseUpdate(crc, byte) = Xor16(h, Shifted(k))
  BY <1>2, <1>4, <1>5, ShiftedXor DEF BitwiseUpdate
<1>7. crc16_table[k] = Shifted(k)
  BY DEF crc16_table, Byte
<1> QED BY <1>1, <1>3, <1>6, <1>7 DEF TableUpdate

-----------------------------------------------------------------------------
(* The residue.                                                             *)

LEMMA UpdateType ==
    ASSUME NEW crc \in Word, NEW byte \in Byte
    PROVE  BitwiseUpdate(crc, byte) \in Word
BY ByteIsWord, Xor16Type, ShiftedType DEF BitwiseUpdate

LEMMA UpdateSameByte ==
    ASSUME NEW crc \in Word, NEW x \in Byte, NEW y \in Byte,
           BitwiseUpdate(crc, x) = BitwiseUpdate(crc, y)
    PROVE  x = y
<1>1. x \in Word /\ y \in Word /\ Xor16(crc, x) \in Word /\ Xor16(crc, y) \in Word
  BY ByteIsWord, Xor16Type
<1>2. Xor16(crc, x) = Xor16(crc, y)
  BY <1>1, ShiftedLosesNothing DEF BitwiseUpdate
<1> QED BY <1>1, <1>2, XorCancels

LEMMA UpdateSameState ==
    ASSUME NEW c \in Word, NEW d \in Word, NEW byte \in Byte,
           BitwiseUpdate(c, byte) = BitwiseUpdate(d, byte)
    PROVE  c = d
<1>1. byte \in Word /\ Xor16(c, byte) \in Word /\ Xor16(d, byte) \in Word
  BY ByteIsWord, Xor16Type
<1>2. Xor16(c, byte) = Xor16(d, byte)
  BY <1>1, ShiftedLosesNothing DEF BitwiseUpdate
<1>3. Xor16(byte, c) = Xor16(byte, d)
  BY <1>1, <1>2, XorShares
<1> QED BY <1>1, <1>3, XorCancels

\* Two bytes are all it takes to reach a state, and only one pair reaches it.
LEMMA OnePair ==
    ASSUME NEW c \in Word, NEW a \in Byte, NEW b \in Byte, NEW x \in Byte, NEW y \in Byte,
           BitwiseUpdate(BitwiseUpdate(c, a), b) = BitwiseUpdate(BitwiseUpdate(c, x), y)
    PROVE  a = x /\ b = y
<1>1. a \in Word /\ b \in Word /\ x \in Word /\ y \in Word
  BY ByteIsWord
<1>2. PICK s \in Word, t \in Word : s = BitwiseUpdate(c, a) /\ t = BitwiseUpdate(c, x)
  BY UpdateType
<1>3. Xor16(s, b) = Xor16(t, y)
  BY <1>1, <1>2, Xor16Type, ShiftedLosesNothing DEF BitwiseUpdate
\* What differs in the states is what differs in the second bytes,
<1>4. Xor16(s, t) = Xor16(b, y)
  <2>1. Xor16(Xor16(s, b), Xor16(t, b)) = Xor16(s, t)
    <3>1. Xor16(t, b) \in Word /\ Xor16(b, t) \in Word
      BY <1>1, Xor16Type
    <3>2. Xor16(Xor16(s, b), Xor16(b, t)) = Xor16(s, Xor16(b, Xor16(b, t)))
      BY <1>1, <3>1, XorAssociative
    <3>3. Xor16(b, Xor16(b, t)) = Xor16(Xor16(b, b), t)
      BY <1>1, XorAssociative
    <3>4. Xor16(Xor16(b, b), t) = t
      <4>1. 0 \in Word /\ Xor16(b, b) = 0
        BY <1>1, XorZero, WordIs
      <4> QED BY <4>1, XorShares, XorZero
    <3> QED BY <1>1, <3>2, <3>3, <3>4, XorShares
  <2>2. Xor16(Xor16(t, y), Xor16(t, b)) = Xor16(b, y)
    <3>1. Xor16(y, t) \in Word /\ Xor16(t, b) \in Word
      BY <1>1, Xor16Type
    <3>2. Xor16(Xor16(y, t), Xor16(t, b)) = Xor16(y, Xor16(t, Xor16(t, b)))
      BY <1>1, <3>1, XorAssociative
    <3>3. Xor16(t, Xor16(t, b)) = Xor16(Xor16(t, t), b)
      BY <1>1, XorAssociative
    <3>4. Xor16(Xor16(t, t), b) = b
      <4>1. 0 \in Word /\ Xor16(t, t) = 0
        BY XorZero, WordIs
      <4> QED BY <1>1, <4>1, XorShares, XorZero
    <3> QED BY <1>1, <3>2, <3>3, <3>4, XorShares
  <2> QED BY <1>3, <2>1, <2>2
\* a byte, and the eight shifts of what differs in the first.
<1>5. Xor16(s, t) = Shifted(Xor16(a, x))
  <2>1. Xor16(c, a) \in Word /\ Xor16(c, x) \in Word /\ Xor16(a, c) \in Word
    BY <1>1, Xor16Type
  <2>2. Xor16(s, t) = Shifted(Xor16(Xor16(c, a), Xor16(c, x)))
    BY <1>2, <2>1, ShiftedXor DEF BitwiseUpdate
  <2>3. Xor16(Xor16(a, c), Xor16(c, x)) = Xor16(a, Xor16(c, Xor16(c, x)))
    BY <1>1, <2>1, XorAssociative
  <2>4. Xor16(c, Xor16(c, x)) = Xor16(Xor16(c, c), x)
    BY <1>1, XorAssociative
  <2>5. Xor16(Xor16(c, c), x) = x
    <3>1. 0 \in Word /\ Xor16(c, c) = 0
      BY XorZero, WordIs
    <3> QED BY <1>1, <3>1, XorShares, XorZero
  <2> QED BY <1>1, <2>2, <2>3, <2>4, <2>5, XorShares
<1>6. Xor16(b, y) \in Byte /\ Xor16(a, x) \in Byte
  BY XorByteIsXor, XorByteType
<1>7. Xor16(a, x) = 0
  BY <1>4, <1>5, <1>6, ShiftedByte
<1>8. a = x
  BY <1>1, <1>7, XorZero
<1>9. Xor16(s, b) = Xor16(s, y)
  BY <1>2, <1>3, <1>8
<1> QED BY <1>1, <1>8, <1>9, XorCancels

LEMMA AllOnesShifted == Shifted(255) = 3960
<1>0. 255 \in Word
  BY WordIs
<1>1. PICK f \in [0..8 -> Word] : Eight(f, 255) /\ Shifted(255) = f[8]
  BY <1>0, ShiftedSteps
<1>2. f[1] = 33911
  <2>1. ShiftedOnce(255) = 33911
    BY SMT DEF ShiftedOnce, Flip, Has
  <2>2. f[1] = ShiftedOnce(f[0])
    BY <1>1, SMT DEF Eight
  <2> QED BY <1>1, <2>1, <2>2 DEF Eight
<1>3. f[2] = 50739
  <2>1. ShiftedOnce(33911) = 50739
    BY SMT DEF ShiftedOnce, Flip, Has
  <2>2. f[2] = ShiftedOnce(f[1])
    BY <1>1, SMT DEF Eight
  <2> QED BY <1>2, <2>1, <2>2
<1>4. f[3] = 59153
  <2>1. ShiftedOnce(50739) = 59153
    BY SMT DEF ShiftedOnce, Flip, Has
  <2>2. f[3] = ShiftedOnce(f[2])
    BY <1>1, SMT DEF Eight
  <2> QED BY <1>3, <2>1, <2>2
<1>5. f[4] = 63360
  <2>1. ShiftedOnce(59153) = 63360
    BY SMT DEF ShiftedOnce, Flip, Has
  <2>2. f[4] = ShiftedOnce(f[3])
    BY <1>1, SMT DEF Eight
  <2> QED BY <1>4, <2>1, <2>2
<1>6. f[5] = 31680
  <2>1. ShiftedOnce(63360) = 31680
    BY SMT DEF ShiftedOnce, Flip, Has
  <2>2. f[5] = ShiftedOnce(f[4])
    BY <1>1, SMT DEF Eight
  <2> QED BY <1>5, <2>1, <2>2
<1>7. f[6] = 15840
  <2>1. ShiftedOnce(31680) = 15840
    BY SMT DEF ShiftedOnce, Flip, Has
  <2>2. f[6] = ShiftedOnce(f[5])
    BY <1>1, SMT DEF Eight
  <2> QED BY <1>6, <2>1, <2>2
<1>8. f[7] = 7920
  <2>1. ShiftedOnce(15840) = 7920
    BY SMT DEF ShiftedOnce, Flip, Has
  <2>2. f[7] = ShiftedOnce(f[6])
    BY <1>1, SMT DEF Eight
  <2> QED BY <1>7, <2>1, <2>2
<1>9. f[8] = 3960
  <2>1. ShiftedOnce(7920) = 3960
    BY SMT DEF ShiftedOnce, Flip, Has
  <2>2. f[8] = ShiftedOnce(f[7])
    BY <1>1, SMT DEF Eight
  <2> QED BY <1>8, <2>1, <2>2
<1> QED BY <1>1, <1>9

LEMMA GoodShifted == Shifted(3975) = 61624
<1>0. 3975 \in Word
  BY WordIs
<1>1. PICK f \in [0..8 -> Word] : Eight(f, 3975) /\ Shifted(3975) = f[8]
  BY <1>0, ShiftedSteps
<1>2. f[1] = 33739
  <2>1. ShiftedOnce(3975) = 33739
    BY SMT DEF ShiftedOnce, Flip, Has
  <2>2. f[1] = ShiftedOnce(f[0])
    BY <1>1, SMT DEF Eight
  <2> QED BY <1>1, <2>1, <2>2 DEF Eight
<1>3. f[2] = 50669
  <2>1. ShiftedOnce(33739) = 50669
    BY SMT DEF ShiftedOnce, Flip, Has
  <2>2. f[2] = ShiftedOnce(f[1])
    BY <1>1, SMT DEF Eight
  <2> QED BY <1>2, <2>1, <2>2
<1>4. f[3] = 59134
  <2>1. ShiftedOnce(50669) = 59134
    BY SMT DEF ShiftedOnce, Flip, Has
  <2>2. f[3] = ShiftedOnce(f[2])
    BY <1>1, SMT DEF Eight
  <2> QED BY <1>3, <2>1, <2>2
<1>5. f[4] = 29567
  <2>1. ShiftedOnce(59134) = 29567
    BY SMT DEF ShiftedOnce, Flip, Has
  <2>2. f[4] = ShiftedOnce(f[3])
    BY <1>1, SMT DEF Eight
  <2> QED BY <1>4, <2>1, <2>2
<1>6. f[5] = 48567
  <2>1. ShiftedOnce(29567) = 48567
    BY SMT DEF ShiftedOnce, Flip, Has
  <2>2. f[5] = ShiftedOnce(f[4])
    BY <1>1, SMT DEF Eight
  <2> QED BY <1>5, <2>1, <2>2
<1>7. f[6] = 56019
  <2>1. ShiftedOnce(48567) = 56019
    BY SMT DEF ShiftedOnce, Flip, Has
  <2>2. f[6] = ShiftedOnce(f[5])
    BY <1>1, SMT DEF Eight
  <2> QED BY <1>6, <2>1, <2>2
<1>8. f[7] = 59745
  <2>1. ShiftedOnce(56019) = 59745
    BY SMT DEF ShiftedOnce, Flip, Has
  <2>2. f[7] = ShiftedOnce(f[6])
    BY <1>1, SMT DEF Eight
  <2> QED BY <1>7, <2>1, <2>2
<1>9. f[8] = 61624
  <2>1. ShiftedOnce(59745) = 61624
    BY SMT DEF ShiftedOnce, Flip, Has
  <2>2. f[8] = ShiftedOnce(f[7])
    BY <1>1, SMT DEF Eight
  <2> QED BY <1>8, <2>1, <2>2
<1> QED BY <1>1, <1>9


LEMMA OnesXor == Xor16(3960, 255) = 3975
<1>1. High(3960) = 15 /\ Low(3960) = 120 /\ High(255) = 0 /\ Low(255) = 255
  BY SMT DEF High, Low
<1>2. XorByte(15, 0) = 15
  <2>1. 15 \in Byte /\ 0 \in Byte
    BY DEF Byte
  <2> QED BY <2>1, XorByteIsXor, XorZero, ByteIsWord
<1>3. XorByte(120, 255) = 135
  <2>1. 120 \div 16 = 7 /\ 120 % 16 = 8 /\ 255 \div 16 = 15 /\ 255 % 16 = 15
    BY SMT
  <2>2. XorHalfByte[7][15] = 8 /\ XorHalfByte[8][15] = 7
    BY SMT DEF XorHalfByte, Has
  <2> QED BY <2>1, <2>2 DEF XorByte
<1> QED BY <1>1, <1>2, <1>3 DEF Xor16

LEMMA XorComplement ==
    ASSUME NEW n \in Byte
    PROVE  255 - n \in Byte /\ Xor16(n, 255 - n) = 255
<1>1. PICK x \in 0..15, y \in 0..15 : n = x + 16 * y
  <2>1. n \div 16 \in 0..15 /\ n % 16 \in 0..15 /\ n = (n % 16) + 16 * (n \div 16)
    BY SMT DEF Byte
  <2> QED BY <2>1
<1>2. PICK m \in Byte : m = 255 - n
  BY DEF Byte
<1>3. m = (15 - x) + 16 * (15 - y) /\ 15 - x \in 0..15 /\ 15 - y \in 0..15
  BY <1>1, <1>2
<1>4. n \div 16 = y /\ n % 16 = x
  BY <1>1, HalvesOfByte
<1>5. m \div 16 = 15 - y /\ m % 16 = 15 - x
  BY <1>3, HalvesOfByte
<1>6. ASSUME NEW z \in 0..15 PROVE XorHalfByte[z][15 - z] = 15
  <2>1. PICK a, b, c, d \in Bit : z = a + 2 * b + 4 * c + 8 * d
    BY HalfBits
  <2>2. PICK p, q, r, s \in Bit : p = 1 - a /\ q = 1 - b /\ r = 1 - c /\ s = 1 - d
    BY DEF Bit
  <2>3. PICK w \in 0..15 : w = 15 - z /\ w = p + 2 * q + 4 * r + 8 * s
    BY <2>1, <2>2 DEF Bit
  <2> DEFINE Xor(bit) == IF Has(z, bit) <=> Has(w, bit) THEN 0 ELSE bit
  <2>4. XorHalfByte[z][w] = Xor(1) + Xor(2) + Xor(4) + Xor(8)
    BY DEF XorHalfByte
  <2>5. /\ Has(z, 1) <=> a = 1
        /\ Has(z, 2) <=> b = 1
        /\ Has(z, 4) <=> c = 1
        /\ Has(z, 8) <=> d = 1
    BY <2>1, Quarter
  <2>6. /\ Has(w, 1) <=> p = 1
        /\ Has(w, 2) <=> q = 1
        /\ Has(w, 4) <=> r = 1
        /\ Has(w, 8) <=> s = 1
    BY <2>3, Quarter
  <2>7. Xor(1) = 1 /\ Xor(2) = 2
    BY <2>2, <2>5, <2>6 DEF Bit
  <2>8. Xor(4) = 4 /\ Xor(8) = 8
    BY <2>2, <2>5, <2>6 DEF Bit
  <2> HIDE DEF Xor
  <2> QED BY <2>3, <2>4, <2>7, <2>8
<1>7. XorByte(n, m) = 255
  BY <1>4, <1>5, <1>6 DEF XorByte
<1> QED BY <1>2, <1>7, XorByteIsXor

\* A frame with its checksum behind it is good, whatever is in it.
LEMMA ChecksumIsGood ==
    ASSUME NEW c \in Word, NEW a \in Byte, NEW b \in Byte, a = 255 - Low(c), b = 255 - High(c)
    PROVE  BitwiseUpdate(BitwiseUpdate(c, a), b) = 61624
<1>1. PICK h \in Byte, l \in Byte : h = High(c) /\ l = Low(c)
  BY WordSplits
<1>2. PICK m \in Word : m = 256 * h /\ c = Xor16(m, l) /\ Shifted(m) = h
  BY <1>1, WordSplits, ShiftedHigh
<1>3. /\ h \in Word /\ l \in Word /\ a \in Word /\ b \in Word
      /\ 255 \in Word /\ 3960 \in Word
  BY ByteIsWord, WordIs
<1>4. Xor16(l, a) = 255 /\ Xor16(h, b) = 255
  BY <1>1, XorComplement
<1>5. Xor16(c, a) = Xor16(m, 255)
  BY <1>2, <1>3, <1>4, XorAssociative
<1>6. BitwiseUpdate(c, a) = Xor16(h, 3960)
  BY <1>2, <1>3, <1>5, ShiftedXor, AllOnesShifted DEF BitwiseUpdate
<1>7. Xor16(Xor16(h, 3960), b) = 3975
  <2>1. Xor16(h, 3960) = Xor16(3960, h)
    BY <1>3, XorShares
  <2>2. Xor16(Xor16(3960, h), b) = Xor16(3960, Xor16(h, b))
    BY <1>3, XorAssociative
  <2> QED BY <1>4, <2>1, <2>2, OnesXor
<1> QED BY <1>6, <1>7, GoodShifted DEF BitwiseUpdate

\* The states of the checksum as it goes through data.
CrcSteps(f, data) ==
    f[0] = CRC16_INIT /\ \A i \in 1..Len(data) : f[i] = BitwiseUpdate(f[i - 1], data[i])

LEMMA CrcStates ==
    ASSUME NEW data \in Seq(Byte)
    PROVE  \E f \in [0..Len(data) -> Word] : CrcSteps(f, data) /\ Crc16(data) = 65535 - f[Len(data)]
<1> DEFINE n == Len(data)
           Sums(f) == f = [i \in 0..n |-> IF i = 0 THEN CRC16_INIT ELSE TableUpdate(f[i - 1], data[i])]
           step == [i \in 1..n |-> [x \in Word |-> TableUpdate(x, data[i])]]
<1>0. n \in Nat
  OBVIOUS
<1>1. step \in [1..n -> [Word -> Word]]
  <2>1. \A i \in 1..n : data[i] \in Byte
    OBVIOUS
  <2> QED BY <2>1, TableUpdateType
<1>2. PICK f \in [0..n -> Word] : Recursion(f, n, CRC16_INIT, step)
  <2> HIDE DEF step, n
  <2>1. CRC16_INIT \in Word
    BY WordIs, SMT DEF CRC16_INIT
  <2> QED BY <1>0, <1>1, <2>1, RecursionExists
<1>3. Sums(f) /\ CrcSteps(f, data)
  <2>0. f[0] = CRC16_INIT
    BY <1>2 DEF Recursion
  <2>1. \A i \in 1..n : f[i] = TableUpdate(f[i - 1], data[i]) /\ f[i] = BitwiseUpdate(f[i - 1], data[i])
    <3> SUFFICES ASSUME NEW i \in 1..n
                 PROVE  f[i] = TableUpdate(f[i - 1], data[i]) /\ f[i] = BitwiseUpdate(f[i - 1], data[i])
      OBVIOUS
    <3>1. i \in 0..n /\ i - 1 \in 0..n /\ i # 0 /\ data[i] \in Byte
      OBVIOUS
    <3>2. f[i] = step[i][f[i - 1]] /\ f[i - 1] \in Word
      BY <1>2, <3>1 DEF Recursion
    <3>3. f[i] = TableUpdate(f[i - 1], data[i])
      BY <3>1, <3>2
    <3> QED BY <3>1, <3>2, <3>3, TableUpdateIsBitwise
  <2>2. \A i \in 0..n : f[i] = IF i = 0 THEN CRC16_INIT ELSE TableUpdate(f[i - 1], data[i])
    BY <2>0, <2>1
  <2>3. Sums(f)
    BY <1>2, <2>2
  <2>4. CrcSteps(f, data)
    BY <2>0, <2>1 DEF CrcSteps
  <2> QED BY <2>3, <2>4
<1>4. PICK g : g = CHOOSE h : Sums(h)
  OBVIOUS
<1>5. Sums(g)
  BY <1>3, <1>4
<1>6. \A i \in 0..n : g[i] = f[i]
  <2>1. 0 \in 0..n /\ \A i \in 1..n : i \in 0..n /\ i # 0
    BY <1>0
  <2>2. g[0] = CRC16_INIT /\ \A i \in 1..n : g[i] = TableUpdate(g[i - 1], data[i])
    BY <1>5, <2>1
  <2>3. f[0] = CRC16_INIT /\ \A i \in 1..n : f[i] = TableUpdate(f[i - 1], data[i])
    BY <1>3, <2>1
  <2> HIDE DEF n
  <2>4. Alike(g, f, n)
    BY <2>2, <2>3 DEF Alike
  <2> QED BY <1>0, <2>4, SameSteps
<1>7. Crc16(data) = 65535 - g[n]
  BY <1>4, SMT DEF Crc16
<1>8. n \in 0..n
  BY <1>0
<1>9. Crc16(data) = 65535 - f[n]
  <2> HIDE DEF n
  <2> QED BY <1>6, <1>7, <1>8
<1>10. f \in [0..Len(data) -> Word] /\ CrcSteps(f, data) /\ Crc16(data) = 65535 - f[Len(data)]
  BY <1>2, <1>3, <1>9
<1> QED BY <1>10

LEMMA Crc16Type ==
    ASSUME NEW data \in Seq(Byte)
    PROVE  Crc16(data) \in Word
<1>1. PICK f \in [0..Len(data) -> Word] : Crc16(data) = 65535 - f[Len(data)]
  BY CrcStates
<1>2. PICK c \in Word : c = f[Len(data)]
  <2>1. Len(data) \in 0..Len(data)
    OBVIOUS
  <2> QED BY <2>1
<1>3. c \in Int /\ c >= 0 /\ c <= 65535
  BY WordIs
<1>4. 65535 - c \in Word
  BY <1>3, WordIs
<1> QED BY <1>1, <1>2, <1>4

LEMMA Crc16BytesType ==
    ASSUME NEW data \in Seq(Byte)
    PROVE  Crc16Bytes(data) \in Seq(Byte) /\ Len(Crc16Bytes(data)) = 2
<1>1. Low(Crc16(data)) \in Byte /\ High(Crc16(data)) \in Byte
  BY Crc16Type, HighLow
<1>2. PICK a \in Byte, b \in Byte : Crc16Bytes(data) = <<a, b>>
  BY <1>1 DEF Crc16Bytes
<1> QED BY <1>2

LEMMA WordOfBytes ==
    ASSUME NEW x \in Byte, NEW y \in Byte, NEW w, w = 256 * y + x
    PROVE  High(w) = y /\ Low(w) = x
BY SMT DEF Byte, High, Low

\* HdlcLink compares the last two bytes of a frame with the checksum of the others
\* where _deliver looks at the residue of the whole frame: it is the same test, for
\* every frame.
THEOREM ResidueIsChecksum ==
    \A data \in Seq(Byte), a, b \in Byte :
        ResidueGood(data \o <<a, b>>) <=> <<a, b>> = Crc16Bytes(data)
<1> SUFFICES ASSUME NEW data \in Seq(Byte), NEW a \in Byte, NEW b \in Byte
             PROVE  ResidueGood(data \o <<a, b>>) <=> <<a, b>> = Crc16Bytes(data)
  OBVIOUS
<1>1. PICK n \in Nat : n = Len(data)
  OBVIOUS
<1>2. PICK frame \in Seq(Byte) : /\ frame = data \o <<a, b>>
                                 /\ Len(frame) = n + 2
                                 /\ \A i \in 1..n : frame[i] = data[i]
                                 /\ frame[n + 1] = a
                                 /\ frame[n + 2] = b
  <2>0. <<a, b>> \in Seq(Byte) /\ Len(<<a, b>>) = 2 /\ <<a, b>>[1] = a /\ <<a, b>>[2] = b
    OBVIOUS
  <2>1. PICK tail \in Seq(Byte) : tail = <<a, b>> /\ Len(tail) = 2 /\ tail[1] = a /\ tail[2] = b
    BY <2>0
  <2>2. PICK all \in Seq(Byte) : all = data \o tail /\ Len(all) = Len(data) + Len(tail)
    BY ConcatProperties
  <2>3. \A i \in 1..Len(all) : all[i] = IF i <= Len(data) THEN data[i] ELSE tail[i - Len(data)]
    BY <2>2, ConcatProperties
  <2>4. all[n + 1] = a /\ all[n + 2] = b
    BY <1>1, <2>1, <2>2, <2>3
  <2>5. \A i \in 1..n : all[i] = data[i]
    BY <1>1, <2>1, <2>2, <2>3
  <2> QED BY <1>1, <2>1, <2>2, <2>4, <2>5
<1>3. PICK f \in [0..n -> Word] : CrcSteps(f, data) /\ Crc16(data) = 65535 - f[n]
  BY <1>1, CrcStates
<1>4. PICK m \in Nat : m = Len(frame) /\ m = n + 2
  BY <1>2
<1>g. PICK g \in [0..m -> Word] : CrcSteps(g, frame) /\ Crc16(frame) = 65535 - g[m]
  BY <1>4, CrcStates, SMTT(60)
<1>5. f[n] = g[n]
  <2>1. f[0] = g[0]
    BY <1>3, <1>g DEF CrcSteps
  <2>2. ASSUME NEW i \in 1..n, f[i - 1] = g[i - 1] PROVE f[i] = g[i]
    <3>1. f[i] = BitwiseUpdate(f[i - 1], data[i])
      BY <1>1, <1>3 DEF CrcSteps
    <3>2. i \in 1..m /\ frame[i] = data[i]
      BY <1>2, <1>4
    <3>3. g[i] = BitwiseUpdate(g[i - 1], frame[i])
      BY <1>2, <1>4, <1>g, <3>2 DEF CrcSteps
    <3> QED BY <2>2, <3>1, <3>2, <3>3
  <2>3. Alike(f, g, n)
    BY <2>1, <2>2 DEF Alike
  <2> QED BY <2>3, SameSteps
<1>6. PICK c \in Word : c = f[n]
  OBVIOUS
<1>7. g[n + 2] = BitwiseUpdate(BitwiseUpdate(c, a), b)
  <2>1. n + 1 \in 1..m /\ n + 2 \in 1..m /\ (n + 1) - 1 = n /\ (n + 2) - 1 = n + 1
    BY <1>4
  <2>0. \A i \in 1..m : g[i] = BitwiseUpdate(g[i - 1], frame[i])
    BY <1>4, <1>g DEF CrcSteps
  <2>2. g[n + 1] = BitwiseUpdate(g[n], frame[n + 1])
    BY <2>0, <2>1
  <2>3. g[n + 2] = BitwiseUpdate(g[n + 1], frame[n + 2])
    BY <2>0, <2>1
  <2> QED BY <1>2, <1>5, <1>6, <2>2, <2>3
\* x and y are the bytes of the checksum of data.
<1>8. PICK x \in Byte, y \in Byte : x = 255 - Low(c) /\ y = 255 - High(c)
  <2>1. Low(c) \in Byte /\ High(c) \in Byte
    BY HighLow
  <2>2. PICK l \in Byte, h \in Byte : l = Low(c) /\ h = High(c)
    BY <2>1
  <2>3. 255 - l \in Byte /\ 255 - h \in Byte
    BY DEF Byte
  <2> QED BY <2>2, <2>3
<1>9. Crc16Bytes(data) = <<x, y>>
  <2>1. Crc16(data) = 65535 - c
    BY <1>3, <1>6
  <2>2. PICK h \in Byte, l \in Byte : h = High(c) /\ l = Low(c) /\ c = 256 * h + l
    BY WordSplits
  <2>3. 65535 - c = 256 * (255 - h) + (255 - l)
    BY <2>2 DEF Byte
  <2>4. Low(65535 - c) = 255 - l /\ High(65535 - c) = 255 - h
    <3>0. 255 - l \in Byte /\ 255 - h \in Byte
      BY DEF Byte
    <3>1. PICK x2 \in Byte, y2 \in Byte : x2 = 255 - l /\ y2 = 255 - h
      BY <3>0
    <3>2. PICK w : w = 256 * y2 + x2
      OBVIOUS
    <3>3. High(w) = y2 /\ Low(w) = x2
      BY <3>2, WordOfBytes
    <3> QED BY <2>3, <3>1, <3>2, <3>3
  <2> QED BY <1>8, <2>1, <2>2, <2>4 DEF Crc16Bytes
<1>10. BitwiseUpdate(BitwiseUpdate(c, x), y) = 61624
  BY <1>8, ChecksumIsGood
<1>11. ResidueGood(frame) <=> g[n + 2] = 61624
  <2>1. g[n + 2] \in Word
    BY <1>4, <1>g
  <2>2. g[n + 2] \in Int
    BY <2>1, WordIs
  <2> QED BY <1>4, <1>g, <2>2 DEF ResidueGood, CRC16_GOOD
<1>12. g[n + 2] = 61624 <=> a = x /\ b = y
  <2>1. ASSUME g[n + 2] = 61624 PROVE a = x /\ b = y
    <3>1. BitwiseUpdate(BitwiseUpdate(c, a), b) = BitwiseUpdate(BitwiseUpdate(c, x), y)
      BY <1>7, <1>10, <2>1
    <3> QED BY <3>1, OnePair
  <2>2. a = x /\ b = y => g[n + 2] = 61624
    BY <1>7, <1>10
  <2> QED BY <2>1, <2>2
<1>13. <<a, b>> = <<x, y>> <=> a = x /\ b = y
  OBVIOUS
<1>14. frame = data \o <<a, b>>
  BY <1>2
<1>15. ResidueGood(data \o <<a, b>>) <=> a = x /\ b = y
  BY <1>11, <1>12, <1>14
<1> QED BY <1>9, <1>13, <1>15

\* Whatever two neighbouring bytes of a good frame are changed into, the residue is
\* no longer that of a good frame.
THEOREM BurstDetected ==
    \A s, t \in Seq(Byte), i \in Nat :
        /\ Len(s) = Len(t) /\ s # t
        /\ \A k \in 1..Len(s) : k \notin {i, i + 1} => s[k] = t[k]
        /\ ResidueGood(s)
        => ~ResidueGood(t)
<1> SUFFICES ASSUME NEW s \in Seq(Byte), NEW t \in Seq(Byte), NEW i \in Nat,
                    Len(s) = Len(t), ResidueGood(s), ResidueGood(t),
                    \A k \in 1..Len(s) : k \notin {i, i + 1} => s[k] = t[k]
             PROVE  s = t
  OBVIOUS
<1>1. PICK n \in Nat : n = Len(s) /\ n = Len(t)
  OBVIOUS
<1>2. PICK f \in [0..n -> Word] : CrcSteps(f, s) /\ Crc16(s) = 65535 - f[n]
  BY <1>1, CrcStates
<1>3. PICK g \in [0..n -> Word] : CrcSteps(g, t) /\ Crc16(t) = 65535 - g[n]
  BY <1>1, CrcStates
<1>4. f[n] = g[n]
  <2>1. f[n] \in Word /\ g[n] \in Word
    BY <1>2, <1>3
  <2>2. f[n] \in Int /\ g[n] \in Int
    BY <2>1, WordIs
  <2> QED BY <1>2, <1>3, <2>2 DEF ResidueGood
<1>5. ASSUME NEW k \in 1..n
      PROVE  /\ f[k] = BitwiseUpdate(f[k - 1], s[k]) /\ g[k] = BitwiseUpdate(g[k - 1], t[k])
             /\ f[k - 1] \in Word /\ g[k - 1] \in Word /\ s[k] \in Byte /\ t[k] \in Byte
  <2>1. k - 1 \in 0..n
    OBVIOUS
  <2> QED BY <1>1, <1>2, <1>3, <2>1 DEF CrcSteps
\* Forward, the states agree up to byte i - 1; backward, from byte i + 1 on.
<1>6. \A k \in 0..n : k < i => f[k] = g[k]
  <2> DEFINE T == {k \in Nat : k < i => f[k] = g[k]}
  <2>1. 0 \in T
    BY <1>2, <1>3 DEF CrcSteps
  <2>2. ASSUME NEW k \in 1..n, k - 1 \in T PROVE k \in T
    <3> SUFFICES ASSUME k < i PROVE f[k] = g[k]
      OBVIOUS
    <3>1. k - 1 \in Nat /\ k - 1 < i /\ k \notin {i, i + 1}
      OBVIOUS
    <3>2. f[k - 1] = g[k - 1]
      BY <2>2, <3>1
    <3>3. s[k] = t[k]
      BY <1>1, <3>1
    <3> QED BY <1>5, <3>2, <3>3
  <2>3. \A k \in 0..n : k \in T
    <3> HIDE DEF T
    <3> QED BY <2>1, <2>2, Steps
  <2> QED BY <2>3
<1>7. \A k \in 0..n : k >= i + 1 => f[k] = g[k]
  <2> DEFINE T == {m \in Nat : n - m >= i + 1 => f[n - m] = g[n - m]}
  <2>1. 0 \in T
    BY <1>4
  <2>2. ASSUME NEW m \in 1..n, m - 1 \in T PROVE m \in T
    <3> SUFFICES ASSUME n - m >= i + 1 PROVE f[n - m] = g[n - m]
      OBVIOUS
    <3>1. PICK k \in 1..n : k = n - (m - 1)
      OBVIOUS
    <3>2. k - 1 = n - m /\ f[k] = g[k] /\ s[k] = t[k]
      BY <1>1, <2>2, <3>1, SMTT(60)
    <3>3. f[k - 1] = g[k - 1]
      BY <1>5, <3>2, UpdateSameState
    <3> QED BY <3>2, <3>3
  <2>3. \A m \in 0..n : m \in T
    <3> HIDE DEF T
    <3> QED BY <2>1, <2>2, Steps
  <2>4. ASSUME NEW k \in 0..n, k >= i + 1 PROVE f[k] = g[k]
    <3>1. n - k \in 0..n /\ n - (n - k) = k
      OBVIOUS
    <3> QED BY <2>3, <2>4, <3>1
  <2> QED BY <2>4
<1>8. \A k \in 1..n : s[k] = t[k]
  <2>1. CASE i >= 1 /\ i + 1 <= n
    <3>1. i \in 1..n /\ i + 1 \in 1..n /\ i - 1 \in 0..n /\ (i + 1) - 1 = i
      BY <2>1
    <3>2. f[i - 1] = g[i - 1] /\ f[i + 1] = g[i + 1]
      <4>1. i - 1 < i /\ i + 1 \in 0..n /\ i + 1 >= i + 1
        BY <2>1
      <4>2. f[i - 1] = g[i - 1]
        BY <1>6, <3>1, <4>1
      <4>3. f[i + 1] = g[i + 1]
        BY <1>7, <4>1
      <4> QED BY <4>2, <4>3
    <3>3. /\ f[i + 1] = BitwiseUpdate(BitwiseUpdate(f[i - 1], s[i]), s[i + 1])
          /\ g[i + 1] = BitwiseUpdate(BitwiseUpdate(g[i - 1], t[i]), t[i + 1])
      BY <1>5, <3>1
    <3>4. PICK c \in Word : c = f[i - 1]
      BY <3>1
    <3>5. /\ s[i] \in Byte /\ s[i + 1] \in Byte /\ t[i] \in Byte /\ t[i + 1] \in Byte
      BY <1>5, <3>1
    <3>6. PICK a, b, x, y \in Byte : a = s[i] /\ b = s[i + 1] /\ x = t[i] /\ y = t[i + 1]
      BY <3>5
    <3>7. BitwiseUpdate(BitwiseUpdate(c, a), b) = BitwiseUpdate(BitwiseUpdate(c, x), y)
      BY <3>2, <3>3, <3>4, <3>6
    <3>8. a = x /\ b = y
      BY <3>7, OnePair
    <3>9. s[i] = t[i] /\ s[i + 1] = t[i + 1]
      BY <3>6, <3>8
    <3> QED BY <1>1, <3>9
  <2>2. CASE i = 0
    <3> SUFFICES ASSUME NEW k \in 1..n, k = 1 PROVE s[k] = t[k]
      BY <1>1, <2>2
    <3>1. 0 \in 0..n /\ 1 \in 0..n /\ 1 - 1 = 0
      OBVIOUS
    <3>2. f[0] = g[0]
      BY <1>2, <1>3 DEF CrcSteps
    <3>3. f[1] = g[1]
      BY <1>7, <2>2, <3>1
    <3> QED BY <1>5, <3>1, <3>2, <3>3, UpdateSameByte
  <2>3. CASE i = n
    <3> SUFFICES ASSUME n >= 1 PROVE s[n] = t[n]
      BY <1>1, <2>3
    <3>1. n \in 1..n /\ n - 1 \in 0..n /\ n - 1 < i
      BY <2>3
    <3>2. f[n - 1] = g[n - 1]
      BY <1>6, <3>1
    <3> QED BY <1>4, <1>5, <3>1, <3>2, UpdateSameByte
  <2>4. CASE i > n
    BY <1>1, <2>4
  <2> QED BY <2>1, <2>2, <2>3, <2>4
<1> QED BY <1>1, <1>8

-----------------------------------------------------------------------------
(* COBS: what cobs_encode makes of a payload, cobs_decode turns back.       *)

NonZero == 1..255

LEMMA NonZeroIs ==
    ASSUME NEW n
    PROVE  n \in NonZero <=> n \in Int /\ n >= 1 /\ n <= 255
BY DEF NonZero

LEMMA FullBlockIs == FullBlock \in Int /\ FullBlock >= 2 /\ FullBlock <= 255
BY FullBlockAssumption

\* The record that cobs_encode has after each byte.
Encoding(f, payload) ==
    f = [i \in 0..Len(payload) |-> IF i = 0 THEN NoBlocks ELSE Extended(f[i - 1], payload[i])]

EncodeBlocks(f, payload) == f[Len(payload)].closed \o Block(f[Len(payload)].open)

Blocks == [closed : Seq(Nat), open : Seq(Byte)]

LEMMA BlockType ==
    ASSUME NEW x \in Seq(Nat)
    PROVE  Block(x) \in Seq(Nat) /\ Len(Block(x)) = Len(x) + 1 /\ Block(x) # <<>>
<1>1. <<Len(x) + 1>> \in Seq(Nat) /\ Len(<<Len(x) + 1>>) = 1
  OBVIOUS
<1>2. Block(x) \in Seq(Nat) /\ Len(Block(x)) = Len(x) + 1
  BY <1>1 DEF Block
<1> QED BY <1>2

LEMMA ExtendedType ==
    ASSUME NEW b \in Blocks, NEW c \in Byte
    PROVE  Extended(b, c) \in Blocks
<1>1. b.closed \in Seq(Nat) /\ b.open \in Seq(Byte) /\ b = [closed |-> b.closed, open |-> b.open]
  BY DEF Blocks
<1>2. PICK open : open = Append(b.open, c)
  OBVIOUS
<1>3. open \in Seq(Byte) /\ open \in Seq(Nat) /\ b.open \in Seq(Nat)
  <2>1. open \in Seq(Byte)
    BY <1>1, <1>2
  <2>2. ASSUME NEW s \in Seq(Byte) PROVE s \in Seq(Nat)
    <3>1. Byte \subseteq Nat
      BY DEF Byte
    <3> QED BY <3>1, SeqMonotonic
  <2> QED BY <1>1, <2>1, <2>2
<1>4. b.closed \o Block(b.open) \in Seq(Nat) /\ b.closed \o Block(open) \in Seq(Nat)
  BY <1>1, <1>3, BlockType
<1>5. <<>> \in Seq(Byte)
  OBVIOUS
<1>6. CASE c = 0
  <2>1. Extended(b, c) = [closed |-> b.closed \o Block(b.open), open |-> <<>>]
    BY <1>6 DEF Extended
  <2> QED BY <1>4, <1>5, <2>1 DEF Blocks
<1>7. CASE c # 0 /\ Len(open) + 1 = FullBlock
  <2>1. Extended(b, c) = [closed |-> b.closed \o Block(open), open |-> <<>>]
    BY <1>2, <1>7 DEF Extended
  <2> QED BY <1>4, <1>5, <2>1 DEF Blocks
<1>8. CASE c # 0 /\ Len(open) + 1 # FullBlock
  <2>1. Extended(b, c) = [b EXCEPT !.open = open]
    BY <1>2, <1>8 DEF Extended
  <2>2. [b EXCEPT !.open = open] = [closed |-> b.closed, open |-> open]
    BY <1>1
  <2> QED BY <1>1, <1>3, <2>1, <2>2 DEF Blocks
<1> QED BY <1>6, <1>7, <1>8

LEMMA EncodingExists ==
    ASSUME NEW payload \in Seq(Byte)
    PROVE  \E f \in [0..Len(payload) -> Blocks] :
              Encoding(f, payload) /\ cobs_encode(payload) = EncodeBlocks(f, payload)
<1> DEFINE n == Len(payload)
           step == [i \in 1..n |-> [b \in Blocks |-> Extended(b, payload[i])]]
<1>0. n \in Nat /\ n \in 0..n
  OBVIOUS
<1>1. step \in [1..n -> [Blocks -> Blocks]]
  <2>1. \A i \in 1..n : payload[i] \in Byte
    OBVIOUS
  <2> QED BY <2>1, ExtendedType
<1>2. NoBlocks \in Blocks
  BY DEF NoBlocks, Blocks
<1>3. PICK f \in [0..n -> Blocks] : Recursion(f, n, NoBlocks, step)
  <2> HIDE DEF step, n
  <2> QED BY <1>0, <1>1, <1>2, RecursionExists
<1>4. Encoding(f, payload)
  <2>1. \A i \in 0..n : f[i] = IF i = 0 THEN NoBlocks ELSE Extended(f[i - 1], payload[i])
    <3> SUFFICES ASSUME NEW i \in 0..n, i # 0 PROVE f[i] = Extended(f[i - 1], payload[i])
      BY <1>3 DEF Recursion
    <3>1. i - 1 \in 0..n /\ i \in 1..n
      OBVIOUS
    <3>2. f[i] = step[i][f[i - 1]] /\ f[i - 1] \in Blocks
      BY <1>3, <3>1 DEF Recursion
    <3> QED BY <3>1, <3>2
  <2> QED BY <1>3, <2>1 DEF Encoding
<1>5. PICK g : g = CHOOSE h : Encoding(h, payload)
  OBVIOUS
<1>6. Encoding(g, payload)
  BY <1>4, <1>5
<1>7. cobs_encode(payload) = EncodeBlocks(g, payload)
  BY <1>5 DEF cobs_encode, EncodeBlocks, Encoding
<1>8. \A i \in 0..n : g[i] = f[i]
  <2>1. Alike(g, f, n)
    BY <1>4, <1>6 DEF Alike, Encoding
  <2> HIDE DEF n
  <2> QED BY <1>0, <2>1, SameSteps
<1>9. g = f
  BY <1>4, <1>6, <1>8 DEF Encoding
<1> QED BY <1>3, <1>4, <1>7, <1>9

\* What holds after i bytes: the open block is short and ends the bytes so far.
Opened(b, payload, i) ==
    /\ b.closed \in Seq(NonZero)
    /\ b.open \in Seq(NonZero)
    /\ Len(b.open) + 1 < FullBlock
    /\ Len(b.open) <= i
    /\ \A k \in 1..Len(b.open) : b.open[k] = payload[(i - Len(b.open)) + k]

LEMMA OpenedStep ==
    ASSUME NEW payload \in Seq(Byte), NEW i \in 1..Len(payload), NEW b \in Blocks,
           Opened(b, payload, i - 1)
    PROVE  Opened(Extended(b, payload[i]), payload, i)
<1>1. PICK c \in Byte : c = payload[i]
  OBVIOUS
<1>2. PICK open : open = Append(b.open, c)
  OBVIOUS
<1>3. b.open \in Seq(NonZero) /\ b.closed \in Seq(NonZero) /\ Len(b.open) + 1 < FullBlock /\ Len(b.open) \in Nat
  BY DEF Opened
<1>4. Len(open) = Len(b.open) + 1
  BY <1>2, <1>3
<1>5. Block(b.open) \in Seq(NonZero)
  <2>1. Len(b.open) + 1 \in NonZero
    <3>1. PICK m \in Int : m = Len(b.open) + 1 /\ m >= 1 /\ m <= 255
      BY <1>3, FullBlockIs
    <3> QED BY <3>1, NonZeroIs
  <2>2. <<Len(b.open) + 1>> \in Seq(NonZero)
    BY <2>1
  <2> QED BY <1>3, <2>2 DEF Block
<1>6. CASE c = 0
  <2>1. Extended(b, c) = [closed |-> b.closed \o Block(b.open), open |-> <<>>]
    BY <1>6 DEF Extended
  <2>2. b.closed \o Block(b.open) \in Seq(NonZero)
    BY <1>3, <1>5
  <2> QED BY <1>1, <2>1, <2>2, FullBlockIs DEF Opened
<1>7. CASE c # 0
  <2>1. c \in NonZero /\ open \in Seq(NonZero)
    BY <1>2, <1>3, <1>7 DEF NonZero, Byte
  <2>2. CASE Len(open) + 1 = FullBlock
    <3>1. Extended(b, c) = [closed |-> b.closed \o Block(open), open |-> <<>>]
      BY <1>2, <1>7, <2>2 DEF Extended
    <3>2. Block(open) \in Seq(NonZero)
      <4>1. Len(open) + 1 \in NonZero
        <5>1. PICK m \in Int : m = Len(open) + 1 /\ m >= 1 /\ m <= 255
          BY <1>3, <1>4, <2>2, FullBlockIs
        <5> QED BY <5>1, NonZeroIs
      <4>2. <<Len(open) + 1>> \in Seq(NonZero)
        BY <4>1
      <4> QED BY <2>1, <4>2 DEF Block
    <3>3. b.closed \o Block(open) \in Seq(NonZero)
      BY <1>3, <3>2
    <3> QED BY <1>1, <3>1, <3>3, FullBlockIs DEF Opened
  <2>3. CASE Len(open) + 1 # FullBlock
    <3>1. Extended(b, c) = [b EXCEPT !.open = open]
      BY <1>2, <1>7, <2>3 DEF Extended
    <3>2. b = [closed |-> b.closed, open |-> b.open]
      BY DEF Blocks
    <3>3. Extended(b, c).closed = b.closed /\ Extended(b, c).open = open
      BY <3>1, <3>2
    <3>4. \A k \in 1..Len(open) : open[k] = payload[(i - Len(open)) + k]
      <4> SUFFICES ASSUME NEW k \in 1..Len(open) PROVE open[k] = payload[(i - Len(open)) + k]
        OBVIOUS
      <4>1. CASE k = Len(open)
        <5>1. open[k] = c
          BY <1>2, <1>3, <1>4, <4>1
        <5>2. (i - Len(open)) + k = i
          BY <4>1
        <5> QED BY <1>1, <5>1, <5>2
      <4>2. CASE k # Len(open)
        <5>1. k \in 1..Len(b.open) /\ open[k] = b.open[k]
          BY <1>2, <1>3, <1>4, <4>2
        <5>2. b.open[k] = payload[((i - 1) - Len(b.open)) + k]
          BY <5>1 DEF Opened
        <5>3. ((i - 1) - Len(b.open)) + k = (i - Len(open)) + k
          BY <1>3, <1>4
        <5> QED BY <5>1, <5>2, <5>3
      <4> QED BY <4>1, <4>2
    <3>5. Len(open) + 1 < FullBlock /\ Len(open) <= i
      <4>1. Len(b.open) <= i - 1
        BY DEF Opened
      <4> QED BY <1>3, <1>4, <2>3, <4>1, FullBlockIs
    <3> QED BY <1>1, <1>3, <2>1, <3>3, <3>4, <3>5 DEF Opened
  <2> QED BY <2>2, <2>3
<1> QED BY <1>6, <1>7

LEMMA OpenedAlways ==
    ASSUME NEW payload \in Seq(Byte), NEW f \in [0..Len(payload) -> Blocks], Encoding(f, payload)
    PROVE  \A i \in 0..Len(payload) : Opened(f[i], payload, i)
<1> DEFINE n == Len(payload)
           T == {i \in Nat : Opened(f[i], payload, i)}
<1>0. n \in Nat
  OBVIOUS
<1>1. 0 \in T
  <2>1. f[0] = NoBlocks
    BY <1>0 DEF Encoding
  <2>2. NoBlocks.closed = <<>> /\ NoBlocks.open = <<>>
    BY DEF NoBlocks
  <2> QED BY <2>1, <2>2, FullBlockIs DEF Opened
<1>2. \A i \in 1..n : i - 1 \in T => i \in T
  <2> SUFFICES ASSUME NEW i \in 1..n, i - 1 \in T PROVE i \in T
    OBVIOUS
  <2>0. i \in 0..n /\ i # 0 /\ i - 1 \in 0..n
    OBVIOUS
  <2>1. f[i] = Extended(f[i - 1], payload[i]) /\ f[i - 1] \in Blocks
    BY <2>0 DEF Encoding
  <2> QED BY <2>1, OpenedStep
<1>3. \A i \in 0..n : i \in T
  <2> HIDE DEF T, n
  <2> QED BY <1>0, <1>1, <1>2, Steps
<1> QED BY <1>3

LEMMA CobsEncodeType ==
    ASSUME NEW payload \in Seq(Byte)
    PROVE  cobs_encode(payload) \in Seq(NonZero) /\ cobs_encode(payload) # <<>>
<1>1. PICK f \in [0..Len(payload) -> Blocks] :
          Encoding(f, payload) /\ cobs_encode(payload) = EncodeBlocks(f, payload)
  BY EncodingExists
<1>2. Len(payload) \in 0..Len(payload)
  OBVIOUS
<1>3. PICK b : b = f[Len(payload)] /\ Opened(b, payload, Len(payload))
  BY <1>1, <1>2, OpenedAlways
<1>4. Block(b.open) \in Seq(NonZero) /\ Block(b.open) # <<>>
  <2>1. Len(b.open) + 1 \in NonZero
    <3>1. b.open \in Seq(NonZero) /\ Len(b.open) + 1 < FullBlock /\ Len(b.open) \in Nat
      BY <1>3 DEF Opened
    <3>2. PICK m \in Int : m = Len(b.open) + 1 /\ m >= 1 /\ m <= 255
      BY <3>1, FullBlockIs
    <3> QED BY <3>2, NonZeroIs
  <2>2. <<Len(b.open) + 1>> \in Seq(NonZero) /\ Len(<<Len(b.open) + 1>>) = 1
    BY <2>1
  <2>3. b.open \in Seq(NonZero)
    BY <1>3 DEF Opened
  <2> QED BY <2>2, <2>3 DEF Block
<1>5. b.closed \in Seq(NonZero)
  BY <1>3 DEF Opened
<1>6. cobs_encode(payload) = b.closed \o Block(b.open)
  BY <1>1, <1>3 DEF EncodeBlocks
<1> QED BY <1>4, <1>5, <1>6

-----------------------------------------------------------------------------
(* cobs_decode.                                                            *)

\* What cobs_decode makes of the data from position i, f being that function.
DecodedFrom(f, data, i) ==
    LET end == i + data[i]
        separator == IF data[i] < FullBlock /\ end <= Len(data) THEN <<0>> ELSE <<>>
    IN  IF i > Len(data) THEN [ok |-> TRUE, bytes |-> <<>>]
        ELSE IF end > Len(data) + 1 \/ ~f[end].ok THEN NoFrame
        ELSE [ok |-> TRUE,
              bytes |-> SubSeq(data, i + 1, end - 1) \o separator \o f[end].bytes]

Decoding(f, data) == f = [i \in 1..(Len(data) + 1) |-> DecodedFrom(f, data, i)]

Decoded == [ok : BOOLEAN, bytes : Seq(Byte)]

LEMMA DecodedFromType ==
    ASSUME NEW data \in Seq(NonZero), NEW f, NEW i \in 1..(Len(data) + 1),
           \A j \in (i + 1)..(Len(data) + 1) : f[j] \in Decoded
    PROVE  DecodedFrom(f, data, i) \in Decoded
<1>0. <<>> \in Seq(Byte) /\ <<0>> \in Seq(Byte)
  <2>1. 0 \in Byte
    BY DEF Byte
  <2> QED BY <2>1
<1>1. CASE i > Len(data)
  <2>1. DecodedFrom(f, data, i) = [ok |-> TRUE, bytes |-> <<>>]
    BY <1>1 DEF DecodedFrom
  <2> QED BY <1>0, <2>1 DEF Decoded
<1>2. CASE ~(i > Len(data))
  <2>1. PICK end : end = i + data[i]
    OBVIOUS
  <2>2. data[i] \in Int /\ data[i] >= 1
    <3>1. data[i] \in NonZero
      BY <1>2
    <3> QED BY <3>1, NonZeroIs
  <2>3. CASE end > Len(data) + 1 \/ ~f[end].ok
    <3>1. DecodedFrom(f, data, i) = NoFrame
      BY <1>2, <2>1, <2>3 DEF DecodedFrom
    <3> QED BY <1>0, <3>1 DEF Decoded, NoFrame
  <2>4. CASE ~(end > Len(data) + 1 \/ ~f[end].ok)
    <3>1. PICK separator \in {<<>>, <<0>>} :
             DecodedFrom(f, data, i) =
                [ok |-> TRUE, bytes |-> SubSeq(data, i + 1, end - 1) \o separator \o f[end].bytes]
      BY <1>2, <2>1, <2>4 DEF DecodedFrom
    <3>2. end \in (i + 1)..(Len(data) + 1)
      BY <1>2, <2>1, <2>2, <2>4
    <3>3. f[end].bytes \in Seq(Byte)
      BY <3>2 DEF Decoded
    <3>4. SubSeq(data, i + 1, end - 1) \in Seq(Byte)
      <4>1. SubSeq(data, i + 1, end - 1) \in Seq(NonZero)
        BY <1>2, <3>2
      <4>2. NonZero \subseteq Byte
        BY DEF NonZero, Byte
      <4> QED BY <4>1, <4>2, SeqMonotonic
    <3>5. SubSeq(data, i + 1, end - 1) \o separator \o f[end].bytes \in Seq(Byte)
      <4>1. separator \in Seq(Byte)
        BY <1>0
      <4>2. SubSeq(data, i + 1, end - 1) \o separator \in Seq(Byte)
        BY <3>4, <4>1
      <4> QED BY <3>3, <4>2
    <3> QED BY <3>1, <3>5 DEF Decoded
  <2> QED BY <2>3, <2>4
<1> QED BY <1>1, <1>2

LEMMA SameDecodedFrom ==
    ASSUME NEW data \in Seq(NonZero), NEW f, NEW g, NEW i \in 1..(Len(data) + 1),
           \A j \in (i + 1)..(Len(data) + 1) : f[j] = g[j]
    PROVE  DecodedFrom(f, data, i) = DecodedFrom(g, data, i)
<1>1. CASE i > Len(data)
  BY <1>1 DEF DecodedFrom
<1>2. CASE ~(i > Len(data))
  <2>1. PICK end : end = i + data[i]
    OBVIOUS
  <2>2. data[i] \in Int /\ data[i] >= 1
    <3>1. data[i] \in NonZero
      BY <1>2
    <3> QED BY <3>1, NonZeroIs
  <2>3. end > Len(data) + 1 \/ f[end] = g[end]
    BY <1>2, <2>1, <2>2
  <2> QED BY <1>2, <2>1, <2>3 DEF DecodedFrom
<1> QED BY <1>1, <1>2

LEMMA DecodingExists ==
    ASSUME NEW data \in Seq(NonZero)
    PROVE  \E f \in [1..(Len(data) + 1) -> Decoded] : Decoding(f, data)
<1> DEFINE n == Len(data)
           DecodedDownTo(f, j) == \A i \in j..(n + 1) : f[i] = DecodedFrom(f, data, i)
           T == {m \in Nat :
                    \E f \in [((n + 1) - m)..(n + 1) -> Decoded] : DecodedDownTo(f, (n + 1) - m)}
<1>0. n \in Nat
  OBVIOUS
<1>1. 0 \in T
  <2>1. PICK x : x = DecodedFrom(<<>>, data, n + 1)
    OBVIOUS
  <2>2. x \in Decoded
    <3>1. n + 1 \in 1..(n + 1) /\ \A j \in ((n + 1) + 1)..(n + 1) : FALSE
      BY <1>0
    <3> QED BY <2>1, <3>1, DecodedFromType
  <2> DEFINE f == [i \in (n + 1)..(n + 1) |-> x]
  <2>3. f \in [(n + 1)..(n + 1) -> Decoded] /\ f[n + 1] = x
    BY <1>0, <2>2
  <2> HIDE DEF f
  <2>4. DecodedFrom(f, data, n + 1) = x
    <3>1. n + 1 \in 1..(n + 1) /\ \A j \in ((n + 1) + 1)..(n + 1) : FALSE
      BY <1>0
    <3> QED BY <2>1, <3>1, SameDecodedFrom
  <2>5. DecodedDownTo(f, n + 1)
    <3>1. \A i \in (n + 1)..(n + 1) : i = n + 1
      BY <1>0
    <3> HIDE DEF n
    <3> QED BY <2>3, <2>4, <3>1
  <2>6. (n + 1) - 0 = n + 1
    BY <1>0
  <2> HIDE DEF n
  <2> QED BY <2>3, <2>5, <2>6
<1>2. ASSUME NEW m \in 1..n, m - 1 \in T PROVE m \in T
  <2>1. PICK j : j = (n + 1) - m
    OBVIOUS
  <2>2. j \in 1..n /\ (n + 1) - (m - 1) = j + 1 /\ m \in Nat
    BY <1>0, <2>1
  <2>3. PICK f \in [(j + 1)..(n + 1) -> Decoded] : DecodedDownTo(f, j + 1)
    BY <1>2, <2>2
  <2>4. PICK x : x = DecodedFrom(f, data, j)
    OBVIOUS
  <2>5. x \in Decoded
    <3>1. j \in 1..(n + 1) /\ \A k \in (j + 1)..(n + 1) : f[k] \in Decoded
      BY <2>2, <2>3
    <3> QED BY <2>4, <3>1, DecodedFromType
  <2> DEFINE g == [i \in j..(n + 1) |-> IF i = j THEN x ELSE f[i]]
  <2>6. g \in [j..(n + 1) -> Decoded]
    <3>1. \A i \in j..(n + 1) : i = j \/ i \in (j + 1)..(n + 1)
      BY <1>0, <2>2
    <3> HIDE DEF n
    <3> QED BY <2>3, <2>5, <3>1
  <2>7. g[j] = x /\ \A i \in (j + 1)..(n + 1) : g[i] = f[i]
    BY <1>0, <2>2
  <2> HIDE DEF g
  <2>8. ASSUME NEW i \in j..(n + 1) PROVE g[i] = DecodedFrom(g, data, i)
    <3>1. i \in 1..(n + 1) /\ \A k \in (i + 1)..(n + 1) : k \in (j + 1)..(n + 1)
      BY <1>0, <2>2
    <3>2. DecodedFrom(g, data, i) = DecodedFrom(f, data, i)
      BY <2>7, <3>1, SameDecodedFrom
    <3>3. CASE i = j
      BY <2>4, <2>7, <3>2, <3>3
    <3>4. CASE i # j
      <4>1. i \in (j + 1)..(n + 1)
        BY <1>0, <2>2, <3>4
      <4> QED BY <2>3, <2>7, <3>2, <4>1
    <3> QED BY <3>3, <3>4
  <2>9. DecodedDownTo(g, j)
    BY <2>8
  <2> HIDE DEF n, DecodedDownTo
  <2> QED BY <2>1, <2>2, <2>6, <2>9
<1>3. n \in T
  <2>1. n \in 0..n
    BY <1>0
  <2>2. \A m \in 1..n : m - 1 \in T => m \in T
    BY <1>2
  <2> HIDE DEF T, n
  <2> QED BY <1>0, <1>1, <2>1, <2>2, Steps
<1>4. (n + 1) - n = 1
  BY <1>0
<1>5. PICK f \in [1..(n + 1) -> Decoded] : DecodedDownTo(f, 1)
  BY <1>3, <1>4
<1>6. f = [i \in 1..(n + 1) |-> DecodedFrom(f, data, i)]
  BY <1>5
<1> QED BY <1>6 DEF Decoding

LEMMA DecodingType ==
    ASSUME NEW data \in Seq(NonZero), NEW f, Decoding(f, data)
    PROVE  f[1] \in Decoded
<1> DEFINE n == Len(data)
           T == {m \in Nat : \A i \in 1..(n + 1) : i >= (n + 1) - m => f[i] \in Decoded}
<1>0. n \in Nat
  OBVIOUS
<1>1. \A i \in 1..(n + 1) : f[i] = DecodedFrom(f, data, i)
  BY DEF Decoding
<1>2. 0 \in T
  <2> SUFFICES ASSUME NEW i \in 1..(n + 1), i >= (n + 1) - 0 PROVE f[i] \in Decoded
    OBVIOUS
  <2>1. \A j \in (i + 1)..(n + 1) : FALSE
    BY <1>0
  <2>2. DecodedFrom(f, data, i) \in Decoded
    BY <2>1, DecodedFromType
  <2> QED BY <1>1, <2>2
<1>3. ASSUME NEW m \in T PROVE m + 1 \in T
  <2> SUFFICES ASSUME NEW i \in 1..(n + 1), i >= (n + 1) - (m + 1) PROVE f[i] \in Decoded
    OBVIOUS
  <2>1. \A j \in (i + 1)..(n + 1) : j \in 1..(n + 1) /\ j >= (n + 1) - m
    BY <1>0
  <2>2. \A j \in (i + 1)..(n + 1) : f[j] \in Decoded
    BY <2>1
  <2>3. DecodedFrom(f, data, i) \in Decoded
    BY <2>2, DecodedFromType
  <2> QED BY <1>1, <2>3
<1>4. T = Nat
  <2> HIDE DEF T
  <2>1. T \subseteq Nat
    BY DEF T
  <2> QED BY <1>2, <1>3, <2>1, SetInduction
<1>5. n \in T
  <2> HIDE DEF T, n
  <2> QED BY <1>0, <1>4
<1>6. 1 \in 1..(n + 1) /\ 1 >= (n + 1) - n
  BY <1>0
<1> QED BY <1>5, <1>6

LEMMA CobsDecodeIs ==
    ASSUME NEW data \in Seq(NonZero)
    PROVE  \E f : Decoding(f, data) /\ cobs_decode(data) = f[1]
<1>1. cobs_decode(data) = (CHOOSE f : Decoding(f, data))[1]
  BY DEF cobs_decode, Decoding, DecodedFrom
<1>2. \E f : Decoding(f, data)
  BY DecodingExists
<1> QED BY <1>1, <1>2

LEMMA CobsDecodeType ==
    ASSUME NEW data \in Seq(NonZero)
    PROVE  cobs_decode(data) \in Decoded
BY CobsDecodeIs, DecodingType


-----------------------------------------------------------------------------
(* Decoding what was encoded.                                              *)

\* The data holds a block with content x behind u and in front of rest.
HasBlock(data, u, x, rest) == data = (u \o Block(x)) \o rest

BlockFrom(data, p, x, rest) ==
    /\ p \in 1..Len(data)
    /\ data[p] = Len(x) + 1
    /\ SubSeq(data, p + 1, p + Len(x)) = x
    /\ Len(data) = p + Len(x) + Len(rest)

LEMMA BlockAt ==
    ASSUME NEW u \in Seq(Nat), NEW x \in Seq(Nat), NEW rest \in Seq(Nat), NEW data,
           HasBlock(data, u, x, rest), NEW p, p = Len(u) + 1
    PROVE  BlockFrom(data, p, x, rest)
<1>0. Len(u) \in Nat /\ Len(x) \in Nat /\ Len(rest) \in Nat
  BY LenProperties
<1>1. PICK h \in Nat : h = Len(x) + 1
  BY <1>0
<1>2. data = (u \o (<<h>> \o x)) \o rest
  BY <1>1 DEF Block, HasBlock
<1>3. /\ Len(data) = Len(u) + Len(x) + 1 + Len(rest)
      /\ data[Len(u) + 1] = h
      /\ SubSeq(data, Len(u) + 2, Len(u) + Len(x) + 1) = x
  BY <1>2, Behind
<1>4. p + 1 = Len(u) + 2 /\ p + Len(x) = Len(u) + Len(x) + 1 /\ p \in 1..Len(data)
  BY <1>0, <1>3
<1>5. Len(data) = p + Len(x) + Len(rest)
  BY <1>0, <1>3
<1> QED BY <1>1, <1>3, <1>4, <1>5 DEF BlockFrom

\* What f makes of the data from position p.
ReadsAs(f, p, bytes) == f[p] = [ok |-> TRUE, bytes |-> bytes]

Separator(x, rest) == IF Len(x) + 1 < FullBlock /\ rest # <<>> THEN <<0>> ELSE <<>>

\* Decoding one block.
LEMMA BlockDecodes ==
    ASSUME NEW data \in Seq(NonZero), NEW f, Decoding(f, data),
           NEW u \in Seq(Nat), NEW x \in Seq(Nat), NEW rest \in Seq(Nat),
           HasBlock(data, u, x, rest),
           NEW p, p = Len(u) + 1, NEW end, end = Len(u) + Len(x) + 2,
           NEW tail \in Seq(Byte), ReadsAs(f, end, tail)
    PROVE  ReadsAs(f, p, x \o Separator(x, rest) \o tail)
<1>0. Len(u) \in Nat /\ Len(x) \in Nat /\ Len(rest) \in Nat /\ Len(data) \in Nat
  BY LenProperties
<1>00. rest # <<>> <=> Len(rest) > 0
  OBVIOUS
<1>1. BlockFrom(data, p, x, rest)
  BY BlockAt
<1>2. /\ p \in 1..Len(data)
      /\ data[p] = Len(x) + 1
      /\ SubSeq(data, p + 1, p + Len(x)) = x
      /\ Len(data) = p + Len(x) + Len(rest)
  BY <1>1 DEF BlockFrom
<1>3. end = p + data[p]
  BY <1>0, <1>2
<1>4. end \in Int /\ end - 1 = p + Len(x) /\ end <= Len(data) + 1
  BY <1>0, <1>2, <1>3
<1>5. end <= Len(data) <=> rest # <<>>
  BY <1>0, <1>00, <1>2, <1>4
<1>6. f[p] = DecodedFrom(f, data, p)
  <2>1. p \in 1..(Len(data) + 1)
    BY <1>0, <1>2
  <2> QED BY <2>1 DEF Decoding
<1>7. f[end].ok /\ f[end].bytes = tail
  BY DEF ReadsAs
<1>8. PICK separator : separator = Separator(x, rest)
  OBVIOUS
<1>9. DecodedFrom(f, data, p) =
         [ok |-> TRUE, bytes |-> SubSeq(data, p + 1, end - 1) \o separator \o f[end].bytes]
  <2>1. ~(p > Len(data)) /\ ~(end > Len(data) + 1)
    BY <1>0, <1>2, <1>4
  <2>2. separator = IF data[p] < FullBlock /\ end <= Len(data) THEN <<0>> ELSE <<>>
    BY <1>2, <1>5, <1>8 DEF Separator
  <2> QED BY <1>3, <1>7, <2>1, <2>2 DEF DecodedFrom
<1> QED BY <1>2, <1>4, <1>6, <1>7, <1>8, <1>9 DEF ReadsAs

\* t is the payload's bytes after the first k.
After(payload, k, t) == t = SubSeq(payload, k + 1, Len(payload))

\* The block with content x decodes to the payload's bytes k + 1 to i.
Spells(payload, k, i, x, rest) == x \o Separator(x, rest) = SubSeq(payload, k + 1, i)

\* Decoding a block that holds the payload's bytes k + 1 to i, with what follows
\* it decoded.
LEMMA BlockReads ==
    ASSUME NEW payload \in Seq(Byte), NEW i \in 1..Len(payload), NEW k \in 0..(i - 1),
           NEW data \in Seq(NonZero), NEW f, Decoding(f, data),
           NEW u \in Seq(Nat), NEW x \in Seq(Nat), NEW rest \in Seq(Nat),
           HasBlock(data, u, x, rest), Spells(payload, k, i, x, rest),
           NEW p, p = Len(u) + 1, NEW end, end = Len(u) + Len(x) + 2,
           NEW after, After(payload, i, after), ReadsAs(f, end, after),
           NEW all, After(payload, k, all)
    PROVE  ReadsAs(f, p, all)
<1>0. Len(payload) \in Nat
  BY LenProperties
<1>1. PICK tail \in Seq(Byte) : tail = SubSeq(payload, i + 1, Len(payload))
  <2>1. i + 1 \in Int /\ i + 1 >= 1 /\ Len(payload) \in Int /\ Len(payload) <= Len(payload)
    BY <1>0
  <2>2. SubSeq(payload, i + 1, Len(payload)) \in Seq(Byte)
    BY <2>1, SubSeqType
  <2> QED BY <2>2
<1>2. ReadsAs(f, end, tail)
  BY <1>1 DEF After
<1>3. ReadsAs(f, p, x \o Separator(x, rest) \o tail)
  BY <1>2, BlockDecodes
<1>4. PICK m : m = k + 1
  OBVIOUS
<1>5. m \in 1..(Len(payload) + 1) /\ i \in (m - 1)..Len(payload) /\ Len(payload) \in i..Len(payload)
  BY <1>0, <1>4
<1>6. SubSeq(payload, m, i) \o SubSeq(payload, i + 1, Len(payload)) = SubSeq(payload, m, Len(payload))
  BY <1>5, ConcatAdjacentSubSeq
<1> QED BY <1>1, <1>3, <1>4, <1>6 DEF After, Spells

\* The data goes on behind u, and from there on it decodes to the payload's bytes
\* after the first k.
Readable(f, data, u, payload, k) ==
    /\ More(Nat, u, data)
    /\ ReadsAs(f, Len(u) + 1, SubSeq(payload, k + 1, Len(payload)))

LEMMA ReadableBefore ==
    ASSUME NEW payload \in Seq(Byte), NEW i \in 1..Len(payload), NEW k \in 0..(i - 1),
           NEW data \in Seq(NonZero), NEW f, Decoding(f, data),
           NEW u \in Seq(Nat), NEW x \in Seq(Nat), NEW v, v = u \o Block(x),
           Readable(f, data, v, payload, i),
           NEW sep, sep = IF Len(x) + 1 < FullBlock THEN << 0 >> ELSE <<>>,
           x \o sep = SubSeq(payload, k + 1, i)
    PROVE  Readable(f, data, u, payload, k)
<1>1. PICK rest \in Seq(Nat) : rest # <<>> /\ data = v \o rest
  BY DEF Readable, More
<1>2. HasBlock(data, u, x, rest)
  BY <1>1 DEF HasBlock
<1>3. Separator(x, rest) = sep
  BY <1>1 DEF Separator
<1>4. PICK b \in Seq(Nat) : b = Block(x) /\ Len(b) = Len(x) + 1
  BY BlockType
<1>5. Len(u) \in Nat /\ Len(x) \in Nat /\ Len(rest) \in Nat /\ Len(b) \in Nat
  BY LenProperties
<1>6. Len(v) = Len(u) + Len(b)
  BY <1>4, ConcatProperties
<1>7. PICK p : p = Len(u) + 1
  OBVIOUS
<1>8. PICK end : end = Len(u) + Len(x) + 2
  OBVIOUS
<1>9. Len(v) + 1 = end
  BY <1>4, <1>5, <1>6, <1>8
<1>10. ReadsAs(f, end, SubSeq(payload, i + 1, Len(payload)))
  BY <1>9 DEF Readable
<1>11. ReadsAs(f, p, SubSeq(payload, k + 1, Len(payload)))
  <2>1. Spells(payload, k, i, x, rest)
    BY <1>3 DEF Spells
  <2>2. PICK after : After(payload, i, after) /\ ReadsAs(f, end, after)
    BY <1>10 DEF After
  <2>3. PICK all : After(payload, k, all)
    BY DEF After
  <2>4. ReadsAs(f, p, all)
    BY <1>2, <1>7, <1>8, <2>1, <2>2, <2>3, BlockReads
  <2> QED BY <2>3, <2>4 DEF After
<1>12. More(Nat, u, data)
  <2>1. Triple(data, u, b, rest)
    BY <1>1, <1>4 DEF Triple
  <2>2. rest # <<>>
    BY <1>1
  <2> QED BY <2>1, <2>2, GoesOn
<1> QED BY <1>7, <1>11, <1>12 DEF Readable

LEMMA OpenedBytes ==
    ASSUME NEW payload \in Seq(Byte), NEW i \in 1..Len(payload), NEW b \in Blocks,
           Opened(b, payload, i - 1), NEW k \in Int, k + Len(b.open) = i - 1
    PROVE  /\ k \in 0..(i - 1) /\ Len(b.open) + 1 < FullBlock
           /\ b.closed \in Seq(Nat) /\ b.open \in Seq(Nat)
           /\ Append(b.open, payload[i]) \in Seq(Nat)
           /\ Len(Append(b.open, payload[i])) = Len(b.open) + 1
           /\ Append(b.open, payload[i]) = SubSeq(payload, k + 1, i)
<1>0. Len(payload) \in Nat /\ i \in Int /\ 1 <= i /\ i <= Len(payload) /\ payload[i] \in Byte
  BY LenProperties
<1>1. PICK x \in Seq(Byte) : x = b.open
  BY DEF Blocks
<1>2. Len(x) \in Nat /\ Len(x) + 1 < FullBlock /\ Len(x) <= i - 1 /\ b.closed \in Seq(Nat)
  BY <1>1 DEF Opened, Blocks
<1>3. k \in Nat /\ k + Len(x) = i - 1
  BY <1>0, <1>1, <1>2
<1>4. PICK y \in Seq(Byte) : y = Append(x, payload[i])
  BY <1>0, AppendProperties
<1>5. Len(y) = Len(x) + 1 /\ y[Len(x) + 1] = payload[i] /\ \A j \in 1..Len(x) : y[j] = x[j]
  BY <1>0, <1>4, AppendProperties
<1>6. \A j \in 1..Len(x) : x[j] = payload[k + j]
  <2>1. \A j \in 1..Len(x) : x[j] = payload[((i - 1) - Len(x)) + j]
    BY <1>1 DEF Opened
  <2>2. (i - 1) - Len(x) = k
    BY <1>0, <1>2, <1>3
  <2> QED BY <2>1, <2>2
<1>7. Within(payload, k, y)
  <2>1. k + Len(y) <= Len(payload)
    BY <1>0, <1>2, <1>3, <1>5
  <2>2. ASSUME NEW j \in 1..Len(y) PROVE payload[k + j] = y[j]
    <3>1. CASE j = Len(x) + 1
      <4>1. k + j = i
        BY <1>0, <1>2, <1>3, <3>1
      <4> QED BY <1>5, <3>1, <4>1
    <3>2. CASE j # Len(x) + 1
      <4>1. j \in 1..Len(x)
        BY <1>2, <1>5, <3>2
      <4> QED BY <1>5, <1>6, <4>1
    <3> QED BY <3>1, <3>2
  <2> QED BY <2>1, <2>2 DEF Within
<1>8. SubSeq(payload, k + 1, k + Len(y)) = y
  BY <1>3, <1>7, SameAs, SMT
<1>9. k + Len(y) = i
  BY <1>0, <1>2, <1>3, <1>5
<1>10. x \in Seq(Nat) /\ y \in Seq(Nat)
  <2>1. Byte \subseteq Nat
    BY DEF Byte
  <2> QED BY <2>1, SeqMonotonic
<1>11. k \in 0..(i - 1)
  BY <1>0, <1>2, <1>3
<1> QED BY <1>1, <1>2, <1>4, <1>5, <1>8, <1>9, <1>10, <1>11

LEMMA ReadableStep ==
    ASSUME NEW payload \in Seq(Byte), NEW i \in 1..Len(payload), NEW b \in Blocks, NEW c \in Blocks,
           Opened(b, payload, i - 1), c = Extended(b, payload[i]),
           NEW data \in Seq(NonZero), NEW f, Decoding(f, data),
           Readable(f, data, c.closed, payload, i - Len(c.open))
    PROVE  Readable(f, data, b.closed, payload, (i - 1) - Len(b.open))
<1>0. PICK o \in Nat : o = Len(b.open)
  BY DEF Blocks
<1>1. PICK k \in Int : k + Len(b.open) = i - 1 /\ k = (i - 1) - Len(b.open)
  <2>1. PICK k \in Int : k = (i - 1) - o
    OBVIOUS
  <2>2. k + o = i - 1
    BY <2>1
  <2> QED BY <1>0, <2>1, <2>2
<1>2. PICK u : u = b.closed
  OBVIOUS
<1>3. PICK x : x = b.open
  OBVIOUS
<1>4. PICK y : y = Append(x, payload[i])
  OBVIOUS
<1>5. /\ k \in 0..(i - 1) /\ Len(x) + 1 < FullBlock
      /\ u \in Seq(Nat) /\ x \in Seq(Nat) /\ y \in Seq(Nat)
      /\ Len(y) = Len(x) + 1
      /\ y = SubSeq(payload, k + 1, i)
  BY <1>1, <1>2, <1>3, <1>4, OpenedBytes
<1>6. CASE payload[i] = 0
  <2>1. c.closed = u \o Block(x) /\ c.open = <<>>
    BY <1>2, <1>3, <1>6 DEF Extended
  <2>2. i - Len(c.open) = i
    BY <2>1
  <2>3. x \o <<0>> = y
    <3>1. 0 \in Nat
      OBVIOUS
    <3> QED BY <1>4, <1>5, <1>6, <3>1, AppendIsConcat
  <2>4. PICK sep : sep = <<0>>
    OBVIOUS
  <2>5. sep = IF Len(x) + 1 < FullBlock THEN <<0>> ELSE <<>>
    BY <1>5, <2>4
  <2>6. PICK v : v = u \o Block(x) /\ Readable(f, data, v, payload, i)
    BY <2>1, <2>2
  <2>7. Readable(f, data, u, payload, k)
    BY <1>5, <2>3, <2>4, <2>5, <2>6, ReadableBefore
  <2> QED BY <1>1, <1>2, <2>7
<1>7. CASE payload[i] # 0 /\ Len(y) + 1 = FullBlock
  <2>1. c.closed = u \o Block(y) /\ c.open = <<>>
    BY <1>2, <1>3, <1>4, <1>7 DEF Extended
  <2>2. i - Len(c.open) = i
    BY <2>1
  <2>3. PICK sep : sep = <<>>
    OBVIOUS
  <2>4. y \o sep = y
    BY <1>5, <2>3
  <2>5. sep = IF Len(y) + 1 < FullBlock THEN <<0>> ELSE <<>>
    BY <1>7, <2>3, FullBlockIs
  <2>6. PICK v : v = u \o Block(y) /\ Readable(f, data, v, payload, i)
    BY <2>1, <2>2
  <2>7. Readable(f, data, u, payload, k)
    BY <1>5, <2>4, <2>5, <2>6, ReadableBefore
  <2> QED BY <1>1, <1>2, <2>7
<1>8. CASE payload[i] # 0 /\ Len(y) + 1 # FullBlock
  <2>1. c = [b EXCEPT !.open = y]
    BY <1>3, <1>4, <1>8 DEF Extended
  <2>2. c.closed = b.closed /\ c.open = y
    BY <2>1 DEF Blocks
  <2>3. Len(y) = Len(x) + 1 /\ Len(x) \in Nat
    BY <1>0, <1>3, <1>5
  <2>4. i - Len(c.open) = (i - 1) - Len(b.open)
    BY <1>3, <2>2, <2>3
  <2> QED BY <2>2, <2>4
<1> QED BY <1>6, <1>7, <1>8

\* COBS: what the encoder makes of a payload the decoder turns back, whatever the
\* payload's bytes, zeros and length and the length of a full block.
THEOREM CobsRoundTrip ==
    ASSUME NEW payload \in Seq(Byte)
    PROVE  cobs_decode(cobs_encode(payload)) = [ok |-> TRUE, bytes |-> payload]
<1>0. PICK n \in Nat : n = Len(payload)
  BY LenProperties
<1>1. PICK data \in Seq(NonZero) : data = cobs_encode(payload)
  BY CobsEncodeType
<1>2. PICK f : Decoding(f, data) /\ cobs_decode(data) = f[1]
  BY CobsDecodeIs
<1>3. PICK g \in [0..n -> Blocks] : Encoding(g, payload) /\ data = EncodeBlocks(g, payload)
  BY <1>0, <1>1, EncodingExists
<1>4. \A i \in 0..n : Opened(g[i], payload, i)
  BY <1>0, <1>3, OpenedAlways
<1>5. /\ g[0] = NoBlocks
      /\ \A i \in 1..n : g[i - 1] \in Blocks /\ g[i] \in Blocks /\ g[i] = Extended(g[i - 1], payload[i])
  <2>1. \A i \in 0..n : g[i] = IF i = 0 THEN NoBlocks ELSE Extended(g[i - 1], payload[i])
    BY <1>0, <1>3 DEF Encoding
  <2>2. \A i \in 1..n : i \in 0..n /\ i - 1 \in 0..n /\ i # 0
    BY <1>0
  <2>3. 0 \in 0..n
    BY <1>0
  <2> QED BY <2>1, <2>2, <2>3
<1> DEFINE R(i) == Readable(f, data, g[i].closed, payload, i - Len(g[i].open))
           T == {m \in Nat : R(n - m)}
<1>6. 0 \in T
  <2>0. PICK b \in Blocks : b = g[n] /\ Opened(b, payload, n)
    <3>1. n \in 0..n
      OBVIOUS
    <3> QED BY <1>3, <1>4, <3>1
  <2>1. PICK u \in Seq(Nat) : u = b.closed
    BY DEF Blocks
  <2>2. PICK x \in Seq(Byte) : x = b.open
    BY DEF Blocks
  <2>3. x \in Seq(Nat)
    <3>1. Byte \subseteq Nat
      BY DEF Byte
    <3> QED BY <3>1, SeqMonotonic
  <2>4. data = u \o Block(x) /\ Block(x) \in Seq(Nat) /\ Block(x) # <<>> /\ Len(Block(x)) = Len(x) + 1
    BY <1>0, <1>3, <2>0, <2>1, <2>2, <2>3, BlockType DEF EncodeBlocks
  <2>5. HasBlock(data, u, x, <<>>)
    <3>1. u \o Block(x) \in Seq(Nat)
      BY <2>4, ConcatProperties
    <3>2. (u \o Block(x)) \o <<>> = u \o Block(x)
      BY <3>1, ConcatEmptySeq
    <3> QED BY <2>4, <3>2 DEF HasBlock
  <2>6. PICK p : p = Len(u) + 1
    OBVIOUS
  <2>7. PICK end : end = Len(u) + Len(x) + 2
    OBVIOUS
  <2>8. <<>> \in Seq(Nat) /\ <<>> \in Seq(Byte) /\ Separator(x, <<>>) = <<>>
    BY DEF Separator
  <2>9. ReadsAs(f, end, <<>>)
    <3>0. Len(u) \in Nat /\ Len(x) \in Nat
      BY LenProperties
    <3>1. Len(data) = Len(u) + (Len(x) + 1)
      <4>1. PICK bl \in Seq(Nat) : bl = Block(x) /\ Len(bl) = Len(x) + 1
        BY <2>4
      <4>2. Len(u \o bl) = Len(u) + Len(bl)
        BY <2>4, ConcatProperties
      <4> QED BY <2>4, <4>1, <4>2
    <3>2. end \in 1..(Len(data) + 1) /\ end > Len(data)
      BY <2>7, <3>0, <3>1
    <3>3. f[end] = DecodedFrom(f, data, end)
      BY <1>2, <3>2 DEF Decoding
    <3> QED BY <3>2, <3>3 DEF DecodedFrom, ReadsAs
  <2>10. ReadsAs(f, p, x \o Separator(x, <<>>) \o <<>>)
    BY <1>2, <2>3, <2>5, <2>6, <2>7, <2>8, <2>9, BlockDecodes
  <2>11. x \o Separator(x, <<>>) \o <<>> = x
    BY <2>8
  <2>12. PICK k : k = n - Len(x)
    OBVIOUS
  <2>13. x = SubSeq(payload, k + 1, n)
    <3>1. /\ Len(x) <= n /\ Len(x) \in Nat
          /\ \A j \in 1..Len(x) : x[j] = payload[(n - Len(x)) + j]
      <4>1. /\ Len(b.open) <= n
            /\ \A j \in 1..Len(b.open) : b.open[j] = payload[(n - Len(b.open)) + j]
        BY <2>0 DEF Opened
      <4>2. Len(x) <= n /\ Len(x) \in Nat
        BY <2>2, <4>1
      <4> QED BY <2>2, <4>1, <4>2
    <3>2. k \in Nat /\ k + Len(x) = n
      BY <2>12, <3>1
    <3>3. Within(payload, k, x)
      BY <1>0, <2>12, <3>1, <3>2 DEF Within
    <3>4. SubSeq(payload, k + 1, k + Len(x)) = x
      BY <3>2, <3>3, SameAs
    <3> QED BY <3>2, <3>4
  <2>14. Readable(f, data, u, payload, k)
    BY <1>0, <2>4, <2>6, <2>10, <2>11, <2>13 DEF Readable, More
  <2>15. n - 0 = n
    BY <1>0
  <2> QED BY <2>0, <2>1, <2>2, <2>12, <2>14, <2>15
<1>7. ASSUME NEW m \in 1..n, m - 1 \in T PROVE m \in T
  <2>1. PICK i \in 1..n : i = (n + 1) - m
    OBVIOUS
  <2>2. n - (m - 1) = i /\ n - m = i - 1 /\ m \in Nat
    BY <1>0, <2>1
  <2>3. R(i)
    BY <1>7, <2>2
  <2>4. g[i - 1] \in Blocks /\ g[i] \in Blocks /\ g[i] = Extended(g[i - 1], payload[i])
    BY <1>5
  <2>5. Opened(g[i - 1], payload, i - 1)
    <3>1. i - 1 \in 0..n
      BY <1>0
    <3> QED BY <1>4, <3>1
  <2>6. R(i - 1)
    BY <1>0, <1>2, <2>3, <2>4, <2>5, ReadableStep
  <2> HIDE DEF R
  <2> QED BY <2>2, <2>6
<1>8. n \in T
  <2>1. n \in 0..n
    BY <1>0
  <2> HIDE DEF T
  <2> QED BY <1>0, <1>6, <1>7, <2>1, Steps
<1>9. R(0)
  <2>1. n - n = 0
    BY <1>0
  <2> HIDE DEF R
  <2> QED BY <1>8, <2>1
<1>10. g[0].closed = <<>> /\ g[0].open = <<>>
  BY <1>5 DEF NoBlocks
<1>11. Readable(f, data, <<>>, payload, 0)
  <2>0. Len(g[0].open) = 0
    BY <1>10
  <2>1. 0 - Len(g[0].open) = 0
    BY <2>0
  <2> QED BY <1>9, <1>10, <2>1
<1>12. f[1] = [ok |-> TRUE, bytes |-> SubSeq(payload, 1, Len(payload))]
  BY <1>11 DEF Readable, ReadsAs
<1> QED BY <1>1, <1>2, <1>12, SubSeqFull

-----------------------------------------------------------------------------
(* Subsequences.                                                           *)

LEMMA SubsequenceOfItself ==
    ASSUME NEW S, NEW s \in Seq(S)
    PROVE  IsSubsequence(s, s)
<1>1. [i \in 1..Len(s) |-> i] \in [1..Len(s) -> 1..Len(s)]
  OBVIOUS
<1> QED BY <1>1 DEF IsSubsequence

LEMMA SubsequenceOfLonger ==
    ASSUME NEW S, NEW s \in Seq(S), NEW t \in Seq(S), NEW x \in S, IsSubsequence(s, t)
    PROVE  IsSubsequence(s, Append(t, x))
<1>0. Len(t) \in Nat /\ Len(s) \in Nat
  BY LenProperties
<1>1. PICK place \in [1..Len(s) -> 1..Len(t)] :
          /\ \A i \in 1..Len(s) : s[i] = t[place[i]]
          /\ \A i, j \in 1..Len(s) : i < j => place[i] < place[j]
  BY DEF IsSubsequence
<1>2. PICK u : u = Append(t, x)
  OBVIOUS
<1>3. Len(u) = Len(t) + 1 /\ \A i \in 1..Len(t) : u[i] = t[i]
  BY <1>2, AppendProperties
<1>4. place \in [1..Len(s) -> 1..Len(u)]
  <2>1. 1..Len(t) \subseteq 1..Len(u)
    BY <1>0, <1>3
  <2> QED BY <1>1, <2>1
<1>5. \A i \in 1..Len(s) : s[i] = u[place[i]]
  BY <1>1, <1>3
<1>6. IsSubsequence(s, u)
  BY <1>1, <1>4, <1>5 DEF IsSubsequence
<1> QED BY <1>2, <1>6

LEMMA BothLonger ==
    ASSUME NEW S, NEW s \in Seq(S), NEW t \in Seq(S), NEW x \in S, IsSubsequence(s, t)
    PROVE  IsSubsequence(Append(s, x), Append(t, x))
<1>0. Len(t) \in Nat /\ Len(s) \in Nat
  BY LenProperties
<1>1. PICK place \in [1..Len(s) -> 1..Len(t)] :
          /\ \A i \in 1..Len(s) : s[i] = t[place[i]]
          /\ \A i, j \in 1..Len(s) : i < j => place[i] < place[j]
  BY DEF IsSubsequence
<1>2. PICK u : u = Append(t, x)
  OBVIOUS
<1>3. Len(u) = Len(t) + 1 /\ (\A i \in 1..Len(t) : u[i] = t[i]) /\ u[Len(t) + 1] = x
  BY <1>2, AppendProperties
<1>4. PICK v : v = Append(s, x)
  OBVIOUS
<1>5. Len(v) = Len(s) + 1 /\ (\A i \in 1..Len(s) : v[i] = s[i]) /\ v[Len(s) + 1] = x
  BY <1>4, AppendProperties
<1>6. PICK to : to = [i \in 1..Len(v) |-> IF i = Len(v) THEN Len(u) ELSE place[i]]
  OBVIOUS
<1>7. \A i \in 1..Len(v) : i = Len(v) \/ i \in 1..Len(s)
  BY <1>0, <1>5
<1>8. to \in [1..Len(v) -> 1..Len(u)]
  <2>1. Len(u) \in 1..Len(u) /\ 1..Len(t) \subseteq 1..Len(u)
    BY <1>0, <1>3
  <2>2. \A i \in 1..Len(v) : to[i] \in 1..Len(u)
    BY <1>1, <1>6, <1>7, <2>1
  <2> QED BY <1>6, <2>2
<1>9. \A i \in 1..Len(v) : v[i] = u[to[i]]
  <2> TAKE i \in 1..Len(v)
  <2>1. CASE i = Len(v)
    BY <1>3, <1>5, <1>6, <2>1
  <2>2. CASE i # Len(v)
    <3>1. i \in 1..Len(s) /\ to[i] = place[i]
      BY <1>6, <1>7, <2>2
    <3>2. place[i] \in 1..Len(t)
      BY <1>1, <3>1
    <3> QED BY <1>1, <1>3, <1>5, <3>1, <3>2
  <2> QED BY <2>1, <2>2
<1>10. ASSUME NEW i \in 1..Len(v), NEW j \in 1..Len(v), i < j PROVE to[i] < to[j]
  <2>1. i # Len(v) /\ i \in 1..Len(s) /\ to[i] = place[i] /\ place[i] \in 1..Len(t)
    <3>1. i # Len(v)
      BY <1>0, <1>5, <1>10
    <3> QED BY <1>1, <1>6, <1>7, <3>1
  <2>2. CASE j = Len(v)
    <3>1. to[j] = Len(u)
      BY <1>6, <2>2
    <3> QED BY <1>0, <1>3, <2>1, <3>1
  <2>3. CASE j # Len(v)
    <3>1. j \in 1..Len(s) /\ to[j] = place[j]
      BY <1>6, <1>7, <2>3
    <3> QED BY <1>1, <1>10, <2>1, <3>1
  <2> QED BY <2>2, <2>3
<1>11. IsSubsequence(v, u)
  BY <1>8, <1>9, <1>10 DEF IsSubsequence
<1> QED BY <1>2, <1>4, <1>11

-----------------------------------------------------------------------------
(* The payloads of the first n frames that are in F.                        *)

Parts(s, F, n) == [f \in 1..n |-> IF f \in F THEN <<s[f]>> ELSE <<>>]

Chosen(s, F, n) == FlattenSeq(Parts(s, F, n))

LEMMA PartsType ==
    ASSUME NEW S, NEW s \in Seq(S), NEW F, NEW n \in 0..Len(s)
    PROVE  Parts(s, F, n) \in Seq(Seq(S)) /\ Len(Parts(s, F, n)) = n
<1>0. Len(s) \in Nat /\ n \in Nat
  BY LenProperties
<1>1. \A f \in 1..n : Parts(s, F, n)[f] \in Seq(S)
  <2> TAKE f \in 1..n
  <2>1. f \in 1..Len(s)
    BY <1>0
  <2>2. s[f] \in S
    BY <2>1
  <2>3. <<s[f]>> \in Seq(S) /\ <<>> \in Seq(S)
    BY <2>2
  <2> QED BY <2>3 DEF Parts
<1>2. PICK p : p = Parts(s, F, n)
  OBVIOUS
<1>3. p = [f \in 1..n |-> p[f]]
  BY <1>2 DEF Parts
<1>4. \A f \in 1..n : p[f] \in Seq(S)
  BY <1>1, <1>2
<1>5. p \in [1..n -> Seq(S)]
  BY <1>3, <1>4
<1>6. p \in Seq(Seq(S)) /\ Len(p) = n
  BY <1>0, <1>5
<1> QED BY <1>2, <1>6

LEMMA ChosenType ==
    ASSUME NEW S, NEW s \in Seq(S), NEW F, NEW n \in 0..Len(s)
    PROVE  Chosen(s, F, n) \in Seq(S)
BY PartsType, FlattenType DEF Chosen

LEMMA ChosenNone ==
    ASSUME NEW s, NEW F
    PROVE  Chosen(s, F, 0) = <<>>
<1>1. Parts(s, F, 0) = <<>>
  BY DEF Parts
<1> QED BY <1>1, FlattenEmpty DEF Chosen

\* n is the number before m.
LEMMA ChosenNext ==
    ASSUME NEW S, NEW s \in Seq(S), NEW F, NEW m \in 1..Len(s), NEW n \in 0..Len(s), m = n + 1
    PROVE  Chosen(s, F, m) = IF m \in F THEN Append(Chosen(s, F, n), s[m]) ELSE Chosen(s, F, n)
<1>0. n \in Nat /\ m \in Nat
  BY LenProperties
<1>1. PICK p \in Seq(Seq(S)) : p = Parts(s, F, n) /\ Len(p) = n
  BY PartsType
<1>2. PICK x : x = IF m \in F THEN <<s[m]>> ELSE <<>>
  OBVIOUS
<1>3. x \in Seq(S)
  <2>1. s[m] \in S
    BY ElementOfSeq
  <2>2. <<s[m]>> \in Seq(S) /\ <<>> \in Seq(S)
    BY <2>1
  <2> QED BY <1>2, <2>2
<1>4. Parts(s, F, m) = Append(p, x)
  <2>1. PICK q : q = Append(p, x)
    OBVIOUS
  <2>2. /\ q \in Seq(Seq(S)) /\ Len(q) = n + 1 /\ q[n + 1] = x
        /\ \A f \in 1..n : q[f] = p[f]
    BY <1>1, <1>3, <2>1, AppendProperties
  <2>3. PICK r \in Seq(Seq(S)) : r = Parts(s, F, m) /\ Len(r) = m
    <3>1. m \in 0..Len(s)
      BY <1>0
    <3> QED BY <3>1, PartsType
  <2>4. ASSUME NEW f \in 1..Len(r) PROVE r[f] = q[f]
    <3>1. r[f] = IF f \in F THEN <<s[f]>> ELSE <<>>
      BY <2>3 DEF Parts
    <3>2. CASE f = m
      BY <1>2, <2>2, <3>1, <3>2
    <3>3. CASE f # m
      <4>1. f \in 1..n
        BY <1>0, <2>3, <3>3
      <4>2. p[f] = IF f \in F THEN <<s[f]>> ELSE <<>>
        BY <1>1, <4>1 DEF Parts
      <4> QED BY <2>2, <3>1, <4>1, <4>2
    <3> QED BY <3>2, <3>3
  <2>5. Len(r) = Len(q)
    BY <2>2, <2>3
  <2>6. r = q
    BY <2>2, <2>3, <2>4, <2>5, SeqEqual
  <2> QED BY <2>1, <2>3, <2>6
<1>5. Chosen(s, F, m) = FlattenSeq(p) \o x
  BY <1>1, <1>3, <1>4, FlattenAppend DEF Chosen
<1>6. PICK c \in Seq(S) : c = FlattenSeq(p)
  BY <1>1, FlattenType
<1>7. Chosen(s, F, n) = c
  BY <1>1, <1>6 DEF Chosen
<1>8. CASE m \in F
  <2>1. s[m] \in S
    BY ElementOfSeq
  <2>2. c \o <<s[m]>> = Append(c, s[m])
    BY <1>6, <2>1, AppendIsConcat
  <2> QED BY <1>2, <1>5, <1>6, <1>7, <1>8, <2>2
<1>9. CASE m \notin F
  <2>1. c \o <<>> = c
    BY ConcatEmptySeq
  <2> QED BY <1>2, <1>5, <1>6, <1>7, <1>9, <2>1
<1> QED BY <1>8, <1>9

\* The first n frames of s in F are those of t in G.
SameChoice(s, F, t, G, n) ==
    \A f \in 1..n : (f \in F <=> f \in G) /\ (f \in F => s[f] = t[f])

LEMMA ChosenSame ==
    ASSUME NEW s, NEW F, NEW t, NEW G, NEW n, SameChoice(s, F, t, G, n)
    PROVE  Chosen(s, F, n) = Chosen(t, G, n)
<1>1. \A f \in 1..n : (IF f \in F THEN <<s[f]>> ELSE <<>>) = (IF f \in G THEN <<t[f]>> ELSE <<>>)
  BY DEF SameChoice
<1>2. Parts(s, F, n) = Parts(t, G, n)
  BY <1>1 DEF Parts
<1> QED BY <1>2 DEF Chosen

LEMMA ChosenPrefix ==
    ASSUME NEW S, NEW s \in Seq(S), NEW F, NEW m \in 0..Len(s)
    PROVE  IsSubsequence(Chosen(s, F, m), Chosen(s, F, Len(s)))
<1>0. Len(s) \in Nat
  BY LenProperties
<1> DEFINE T == {n \in Nat : m <= n => IsSubsequence(Chosen(s, F, m), Chosen(s, F, n))}
<1>1. ASSUME NEW n \in 0..Len(s), n = m PROVE IsSubsequence(Chosen(s, F, m), Chosen(s, F, n))
  <2>1. Chosen(s, F, m) \in Seq(S)
    BY ChosenType
  <2> QED BY <1>1, <2>1, SubsequenceOfItself
<1>2. 0 \in T
  <2>1. 0 \in 0..Len(s) /\ (m <= 0 => 0 = m)
    BY <1>0
  <2> QED BY <1>1, <2>1
<1>3. ASSUME NEW i \in 1..Len(s), i - 1 \in T PROVE i \in T
  <2>1. PICK n \in 0..Len(s) : n = i - 1 /\ i = n + 1
    BY <1>0
  <2> SUFFICES ASSUME m <= i PROVE IsSubsequence(Chosen(s, F, m), Chosen(s, F, i))
    BY <1>0
  <2>2. CASE i = m
    <3>1. i \in 0..Len(s)
      BY <1>0
    <3> QED BY <1>1, <2>2, <3>1
  <2>3. CASE i # m
    <3>1. m <= n
      BY <1>0, <2>1, <2>3
    <3>2. IsSubsequence(Chosen(s, F, m), Chosen(s, F, n))
      BY <1>3, <2>1, <3>1
    <3>3. Chosen(s, F, i) = IF i \in F THEN Append(Chosen(s, F, n), s[i]) ELSE Chosen(s, F, n)
      BY <2>1, ChosenNext
    <3>4. Chosen(s, F, m) \in Seq(S) /\ Chosen(s, F, n) \in Seq(S) /\ s[i] \in S
      BY ChosenType, ElementOfSeq
    <3>5. IsSubsequence(Chosen(s, F, m), Append(Chosen(s, F, n), s[i]))
      BY <3>2, <3>4, SubsequenceOfLonger
    <3> QED BY <3>2, <3>3, <3>5
  <2> QED BY <2>2, <2>3
<1>4. Len(s) \in T
  <2>1. Len(s) \in 0..Len(s)
    BY <1>0
  <2> HIDE DEF T
  <2> QED BY <1>0, <1>2, <1>3, <2>1, Steps
<1>5. m <= Len(s)
  BY <1>0
<1> QED BY <1>4, <1>5

-----------------------------------------------------------------------------
(* Where the receiver stands: j bytes of frame g are off the line, and all   *)
(* of the frames before it.                                                *)

Entry(enc, f, k) == [byte |-> enc[f][k + 1], frame |-> f]

\* The place after byte k + 1 of frame f.
NextFrame(enc, f, k) == IF k + 1 = Len(enc[f]) THEN f + 1 ELSE f
NextPlace(enc, f, k) == IF k + 1 = Len(enc[f]) THEN 0 ELSE k + 1

\* The bytes of line l, one after the other, from the places fs[i], ps[i].
Walk(l, enc, fs, ps) ==
    /\ \A i \in 1..Len(l) :
          /\ fs[i - 1] \in 1..Len(enc)
          /\ ps[i - 1] \in Nat
          /\ ps[i - 1] + 1 \in 1..Len(enc[fs[i - 1]])
          /\ l[i] = Entry(enc, fs[i - 1], ps[i - 1])
          /\ fs[i] = NextFrame(enc, fs[i - 1], ps[i - 1])
          /\ ps[i] = NextPlace(enc, fs[i - 1], ps[i - 1])
    /\ fs[Len(l)] = Len(enc) + 1
    /\ ps[Len(l)] = 0

\* The line l holds what follows the first j bytes of frame g.
Reading(l, enc, g, j) == \E fs, ps : fs[0] = g /\ ps[0] = j /\ Walk(l, enc, fs, ps)

LEMMA ReadingNothing == ASSUME NEW enc, enc = <<>> PROVE Reading(<<>>, enc, 1, 0)
<1>1. PICK fs, ps : fs = [i \in {0} |-> 1] /\ ps = [i \in {0} |-> 0]
  OBVIOUS
<1>2. fs[0] = 1 /\ ps[0] = 0 /\ Len(enc) = 0
  BY <1>1
<1>3. Walk(<<>>, enc, fs, ps)
  BY <1>2 DEF Walk
<1> QED BY <1>2, <1>3 DEF Reading

LEMMA ReadingEnd ==
    ASSUME NEW enc, NEW g, NEW j, Reading(<<>>, enc, g, j)
    PROVE  g = Len(enc) + 1 /\ j = 0
<1>1. PICK fs, ps : fs[0] = g /\ ps[0] = j /\ Walk(<<>>, enc, fs, ps)
  BY DEF Reading
<1> QED BY <1>1 DEF Walk

\* The next byte is byte j + 1 of frame g.
Next1(l, enc, g, j) ==
    /\ g \in 1..Len(enc)
    /\ j \in Nat
    /\ j + 1 \in 1..Len(enc[g])
    /\ Head(l) = Entry(enc, g, j)
    /\ Reading(Tail(l), enc, NextFrame(enc, g, j), NextPlace(enc, g, j))

LEMMA ReadingOn ==
    ASSUME NEW S, NEW l \in Seq(S), l # <<>>, NEW enc, NEW g, NEW j, Reading(l, enc, g, j)
    PROVE  Next1(l, enc, g, j)
<1>1. PICK fs, ps : fs[0] = g /\ ps[0] = j /\ Walk(l, enc, fs, ps)
  BY DEF Reading
<1>2. PICK n \in Nat : n = Len(l) /\ n >= 1
  <2>1. Len(l) \in Nat /\ Len(l) # 0
    BY LenProperties, EmptySeq
  <2> QED BY <2>1
<1>3. PICK t \in Seq(S) : t = Tail(l) /\ Len(t) = n - 1 /\ \A i \in 1..(n - 1) : t[i] = l[i + 1]
  <2>1. PICK t \in Seq(S) : t = Tail(l)
    BY HeadTailProperties
  <2>2. Len(t) = n - 1 /\ \A i \in 1..Len(t) : t[i] = l[i + 1]
    BY <1>2, <2>1, HeadTailProperties
  <2> QED BY <2>1, <2>2
<1>4. Head(l) = l[1]
  OBVIOUS
<1>5. /\ g \in 1..Len(enc) /\ j \in Nat /\ j + 1 \in 1..Len(enc[g]) /\ l[1] = Entry(enc, g, j)
      /\ fs[1] = NextFrame(enc, g, j) /\ ps[1] = NextPlace(enc, g, j)
  <2>1. 1 \in 1..Len(l) /\ 1 - 1 = 0
    BY <1>2
  <2> QED BY <1>1, <2>1 DEF Walk
<1>6. PICK gs, qs : gs = [i \in 0..(n - 1) |-> fs[i + 1]] /\ qs = [i \in 0..(n - 1) |-> ps[i + 1]]
  OBVIOUS
<1>7. Walk(t, enc, gs, qs)
  <2>1. ASSUME NEW i \in 1..Len(t)
        PROVE  /\ gs[i - 1] \in 1..Len(enc)
               /\ qs[i - 1] \in Nat
               /\ qs[i - 1] + 1 \in 1..Len(enc[gs[i - 1]])
               /\ t[i] = Entry(enc, gs[i - 1], qs[i - 1])
               /\ gs[i] = NextFrame(enc, gs[i - 1], qs[i - 1])
               /\ qs[i] = NextPlace(enc, gs[i - 1], qs[i - 1])
    <3>1. PICK k \in 1..Len(l) : k = i + 1 /\ k - 1 = i
      BY <1>2, <1>3
    <3>2. /\ fs[k - 1] \in 1..Len(enc) /\ ps[k - 1] \in Nat /\ ps[k - 1] + 1 \in 1..Len(enc[fs[k - 1]])
          /\ l[k] = Entry(enc, fs[k - 1], ps[k - 1])
          /\ fs[k] = NextFrame(enc, fs[k - 1], ps[k - 1])
          /\ ps[k] = NextPlace(enc, fs[k - 1], ps[k - 1])
      BY <1>1 DEF Walk
    <3>3. i - 1 \in 0..(n - 1) /\ i \in 0..(n - 1) /\ (i - 1) + 1 = k - 1 /\ i + 1 = k
      BY <1>2, <1>3, <3>1
    <3>4. gs[i - 1] = fs[k - 1] /\ qs[i - 1] = ps[k - 1] /\ gs[i] = fs[k] /\ qs[i] = ps[k]
      BY <1>6, <3>3
    <3>5. t[i] = l[k]
      BY <1>3, <3>1
    <3> QED BY <3>2, <3>4, <3>5
  <2>2. gs[Len(t)] = Len(enc) + 1 /\ qs[Len(t)] = 0
    <3>1. n - 1 \in 0..(n - 1) /\ (n - 1) + 1 = n
      BY <1>2
    <3>2. gs[n - 1] = fs[n] /\ qs[n - 1] = ps[n]
      BY <1>6, <3>1
    <3> QED BY <1>1, <1>2, <1>3, <3>2 DEF Walk
  <2> QED BY <2>1, <2>2 DEF Walk
<1>8. gs[0] = NextFrame(enc, g, j) /\ qs[0] = NextPlace(enc, g, j)
  <2>1. 0 \in 0..(n - 1) /\ 0 + 1 = 1
    BY <1>2
  <2> QED BY <1>5, <1>6, <2>1
<1>9. Reading(t, enc, NextFrame(enc, g, j), NextPlace(enc, g, j))
  BY <1>7, <1>8 DEF Reading
<1> QED BY <1>3, <1>4, <1>5, <1>9 DEF Next1

\* enc2 is enc with the frame e behind it, and l2 the line l with its bytes.
PutBehind(l, enc, e, l2, enc2) ==
    /\ enc2 = Append(enc, e)
    /\ l2 = l \o Tagged(e, Len(enc) + 1)

LEMMA ReadingPut ==
    ASSUME NEW B, NEW S, NEW l \in Seq(S), NEW enc \in Seq(Seq(B)), NEW e \in Seq(B), e # <<>>,
           Tagged(e, Len(enc) + 1) \in Seq(S),
           NEW l2, NEW enc2, PutBehind(l, enc, e, l2, enc2), NEW g, NEW j, Reading(l, enc, g, j)
    PROVE  Reading(l2, enc2, g, j)
<1>1. PICK fs, ps : fs[0] = g /\ ps[0] = j /\ Walk(l, enc, fs, ps)
  BY DEF Reading
<1>2. PICK n \in Nat : n = Len(l)
  BY LenProperties
<1>3. PICK m \in Nat : m = Len(e) /\ m >= 1
  <2>1. Len(e) \in Nat /\ Len(e) # 0
    BY LenProperties, EmptySeq
  <2> QED BY <2>1
<1>4. PICK N \in Nat : N = Len(enc)
  BY LenProperties
<1>5. PICK M \in Nat : M = N + 1
  OBVIOUS
<1>6. /\ Len(enc2) = M /\ enc2[M] = e /\ \A f \in 1..N : enc2[f] = enc[f]
  BY <1>4, <1>5, AppendProperties DEF PutBehind
<1>7. PICK t \in Seq(S) : t = Tagged(e, M) /\ Len(t) = m /\ \A i \in 1..m : t[i] = [byte |-> e[i], frame |-> M]
  <2>1. PICK t \in Seq(S) : t = Tagged(e, M)
    BY <1>4, <1>5
  <2>2. t = [i \in 1..m |-> [byte |-> e[i], frame |-> M]]
    BY <1>3, <2>1 DEF Tagged
  <2>3. Len(t) = m
    BY <1>3, <2>1, <2>2
  <2> QED BY <2>1, <2>2, <2>3
<1>8. l2 = l \o t
  BY <1>4, <1>5, <1>7 DEF PutBehind
<1>9. Len(l2) = n + m /\ \A i \in 1..(n + m) : l2[i] = IF i <= n THEN l[i] ELSE t[i - n]
  BY <1>2, <1>7, <1>8, ConcatProperties
<1>10. PICK gs, qs :
          /\ gs = [i \in 0..(n + m) |-> IF i <= n THEN fs[i] ELSE IF i = n + m THEN M + 1 ELSE M]
          /\ qs = [i \in 0..(n + m) |-> IF i <= n THEN ps[i] ELSE IF i = n + m THEN 0 ELSE i - n]
  OBVIOUS
<1>11. fs[n] = M /\ ps[n] = 0
  BY <1>1, <1>2, <1>4, <1>5 DEF Walk
<1>12. ASSUME NEW i \in 1..(n + m), i <= n
       PROVE  /\ gs[i - 1] = fs[i - 1] /\ qs[i - 1] = ps[i - 1] /\ gs[i] = fs[i] /\ qs[i] = ps[i]
              /\ l2[i] = l[i] /\ i \in 1..n
  <2>1. i - 1 \in 0..(n + m) /\ i \in 0..(n + m) /\ i - 1 <= n /\ i \in 1..n
    BY <1>12
  <2> QED BY <1>9, <1>10, <1>12, <2>1
<1>13. ASSUME NEW i \in 1..(n + m), ~(i <= n)
       PROVE  /\ gs[i - 1] = M /\ qs[i - 1] = i - 1 - n
              /\ gs[i] = (IF i = n + m THEN M + 1 ELSE M)
              /\ qs[i] = (IF i = n + m THEN 0 ELSE i - n)
              /\ l2[i] = t[i - n] /\ i - n \in 1..m
  <2>1. i - 1 \in 0..(n + m) /\ i \in 0..(n + m) /\ i - 1 # n + m /\ (i - 1 <= n => i - 1 = n) /\ i - n \in 1..m
    BY <1>13
  <2>2. gs[i - 1] = M /\ qs[i - 1] = i - 1 - n
    <3>1. CASE i - 1 = n
      <4>1. i - 1 <= n /\ i - 1 - n = 0
        BY <3>1
      <4> QED BY <1>10, <1>11, <2>1, <3>1, <4>1
    <3>2. CASE i - 1 # n
      BY <1>10, <2>1, <3>2
    <3> QED BY <3>1, <3>2
  <2> QED BY <1>9, <1>10, <1>13, <2>1, <2>2
<1>14. ASSUME NEW i \in 1..(n + m)
       PROVE  /\ gs[i - 1] \in 1..M
              /\ qs[i - 1] \in Nat
              /\ qs[i - 1] + 1 \in 1..Len(enc2[gs[i - 1]])
              /\ l2[i] = Entry(enc2, gs[i - 1], qs[i - 1])
              /\ gs[i] = NextFrame(enc2, gs[i - 1], qs[i - 1])
              /\ qs[i] = NextPlace(enc2, gs[i - 1], qs[i - 1])
  <2>1. CASE i <= n
    <3>1. PICK f, k : f = fs[i - 1] /\ k = ps[i - 1]
      OBVIOUS
    <3>2. /\ f \in 1..N /\ k \in Nat /\ k + 1 \in 1..Len(enc[f])
          /\ l[i] = Entry(enc, f, k) /\ fs[i] = NextFrame(enc, f, k) /\ ps[i] = NextPlace(enc, f, k)
      BY <1>1, <1>2, <1>4, <1>12, <2>1, <3>1 DEF Walk
    <3>3. enc2[f] = enc[f]
      BY <1>6, <3>2
    <3>4. f \in 1..M
      BY <1>5, <3>2
    <3>5. gs[i - 1] = f /\ qs[i - 1] = k /\ gs[i] = fs[i] /\ qs[i] = ps[i] /\ l2[i] = l[i]
      BY <1>12, <2>1, <3>1
    <3> QED BY <3>2, <3>3, <3>4, <3>5 DEF Entry, NextFrame, NextPlace
  <2>2. CASE ~(i <= n)
    <3>1. PICK k \in Nat : k = i - 1 - n /\ k + 1 = i - n /\ k + 1 \in 1..m
      BY <1>13, <2>2
    <3>2. /\ gs[i - 1] = M /\ qs[i - 1] = k
          /\ gs[i] = (IF i = n + m THEN M + 1 ELSE M)
          /\ qs[i] = (IF i = n + m THEN 0 ELSE k + 1)
          /\ l2[i] = t[k + 1]
      BY <1>13, <2>2, <3>1
    <3>3. i = n + m <=> k + 1 = m
      BY <3>1
    <3>4. t[k + 1] = [byte |-> e[k + 1], frame |-> M]
      BY <1>7, <3>1
    <3>5. M \in 1..M
      BY <1>5
    <3> QED BY <1>3, <1>6, <3>1, <3>2, <3>3, <3>4, <3>5 DEF Entry, NextFrame, NextPlace
  <2> QED BY <2>1, <2>2
<1>15. gs[n + m] = M + 1 /\ qs[n + m] = 0
  <2>1. n + m \in 0..(n + m) /\ ~(n + m <= n)
    BY <1>3
  <2> QED BY <1>10, <2>1
<1>16. Walk(l2, enc2, gs, qs)
  BY <1>6, <1>9, <1>14, <1>15 DEF Walk
<1>17. gs[0] = g /\ qs[0] = j
  <2>1. 0 \in 0..(n + m) /\ 0 <= n
    OBVIOUS
  <2> QED BY <1>1, <1>10, <2>1
<1> QED BY <1>16, <1>17 DEF Reading

-----------------------------------------------------------------------------
(* What the encoders return.                                               *)

LEMMA BytesOf ==
    ASSUME NEW c
    PROVE  c \in Byte <=> c \in Int /\ c >= 0 /\ c <= 255
BY DEF Byte

LEMMA ToggleType ==
    ASSUME NEW c \in Byte
    PROVE  Hdlc!Toggle(c) \in Byte
<1>1. c \in Int /\ c >= 0 /\ c <= 255
  BY BytesOf
<1>2. PICK q \in Int : q = c \div 32 /\ 32 * q <= c /\ c < 32 * q + 32
  BY <1>1
<1>3. q \in 0..7
  BY <1>1, <1>2
<1>4. PICK t : t = Hdlc!Toggle(c)
  OBVIOUS
<1>5. CASE q % 2 = 1
  <2>1. t = c - 32
    BY <1>2, <1>4, <1>5 DEF Hdlc!Toggle
  <2>2. q # 0
    BY <1>5
  <2>3. t \in Int /\ t >= 0 /\ t <= 255
    BY <1>1, <1>2, <1>3, <2>1, <2>2
  <2> QED BY <1>4, <2>3, BytesOf
<1>6. CASE q % 2 # 1
  <2>1. t = c + 32
    BY <1>2, <1>4, <1>6 DEF Hdlc!Toggle
  <2>2. q # 7
    BY <1>6
  <2>3. t \in Int /\ t >= 0 /\ t <= 255
    BY <1>1, <1>2, <1>3, <2>1, <2>2
  <2> QED BY <1>4, <2>3, BytesOf
<1> QED BY <1>5, <1>6

LEMMA OneByte == ASSUME NEW c \in Byte PROVE <<c>> \in Seq(Byte) /\ <<c>> # <<>> /\ Len(<<c>>) = 1
OBVIOUS

LEMMA TwoBytes ==
    ASSUME NEW c \in Byte, NEW d \in Byte
    PROVE <<c, d>> \in Seq(Byte) /\ Len(<<c, d>>) = 2
OBVIOUS

LEMMA HdlcStuffedType ==
    ASSUME NEW c \in Byte
    PROVE  Hdlc!Stuffed(c) \in Seq(Byte)
<1>1. Hdlc!ESC \in Byte
  BY DEF Hdlc!ESC, Byte
<1>2. <<Hdlc!ESC, Hdlc!Toggle(c)>> \in Seq(Byte) /\ <<c>> \in Seq(Byte)
  BY <1>1, ToggleType, OneByte, TwoBytes
<1> QED BY <1>2 DEF Hdlc!Stuffed

LEMMA SlipStuffedType ==
    ASSUME NEW c \in Byte
    PROVE  Slip!Stuffed(c) \in Seq(Byte)
<1>1. Slip!ESC \in Byte /\ Slip!ESC_END \in Byte /\ Slip!ESC_ESC \in Byte
  BY DEF Slip!ESC, Slip!ESC_END, Slip!ESC_ESC, Byte
<1>2. /\ <<Slip!ESC, Slip!ESC_END>> \in Seq(Byte) /\ <<Slip!ESC, Slip!ESC_ESC>> \in Seq(Byte)
      /\ <<c>> \in Seq(Byte)
  BY <1>1, OneByte, TwoBytes
<1> QED BY <1>2 DEF Slip!Stuffed

Content(payload) == payload \o Crc16Bytes(payload)

LEMMA ContentType ==
    ASSUME NEW payload \in Seq(Byte)
    PROVE  Content(payload) \in Seq(Byte) /\ Len(Content(payload)) = Len(payload) + 2
<1>1. PICK crc \in Seq(Byte) : crc = Crc16Bytes(payload) /\ Len(crc) = 2
  BY Crc16BytesType
<1>2. payload \o crc \in Seq(Byte) /\ Len(payload \o crc) = Len(payload) + Len(crc)
  BY ConcatProperties
<1> QED BY <1>1, <1>2 DEF Content

HdlcParts(payload) == [i \in 1..Len(Content(payload)) |-> Hdlc!Stuffed(Content(payload)[i])]
SlipParts(payload) == [i \in 1..Len(payload) |-> Slip!Stuffed(payload[i])]

LEMMA HdlcPartsType ==
    ASSUME NEW payload \in Seq(Byte)
    PROVE  HdlcParts(payload) \in Seq(Seq(Byte)) /\ Len(HdlcParts(payload)) = Len(Content(payload))
<1>1. PICK s \in Seq(Byte) : s = Content(payload)
  BY ContentType
<1>2. PICK n \in Nat : n = Len(s)
  BY LenProperties
<1>3. \A i \in 1..n : Hdlc!Stuffed(s[i]) \in Seq(Byte)
  BY <1>2, ElementOfSeq, HdlcStuffedType
<1>4. PICK p : p = [i \in 1..n |-> Hdlc!Stuffed(s[i])]
  OBVIOUS
<1>5. p \in Seq(Seq(Byte)) /\ Len(p) = n
  BY <1>3, <1>4
<1> QED BY <1>1, <1>2, <1>4, <1>5 DEF HdlcParts

LEMMA SlipPartsType ==
    ASSUME NEW payload \in Seq(Byte)
    PROVE  SlipParts(payload) \in Seq(Seq(Byte)) /\ Len(SlipParts(payload)) = Len(payload)
<1>2. PICK n \in Nat : n = Len(payload)
  BY LenProperties
<1>3. \A i \in 1..n : Slip!Stuffed(payload[i]) \in Seq(Byte)
  BY <1>2, ElementOfSeq, SlipStuffedType
<1>4. PICK p : p = [i \in 1..n |-> Slip!Stuffed(payload[i])]
  OBVIOUS
<1>5. p \in Seq(Seq(Byte)) /\ Len(p) = n
  BY <1>3, <1>4
<1> QED BY <1>2, <1>4, <1>5 DEF SlipParts

LEMMA HdlcEncodeIs ==
    ASSUME NEW payload \in Seq(Byte)
    PROVE  Hdlc!Encode(payload) = <<Hdlc!FLAG>> \o FlattenSeq(HdlcParts(payload)) \o <<Hdlc!FLAG>>
BY DEF Hdlc!Encode, HdlcParts, Content, Hdlc!FlattenSeq, FlattenSeq

LEMMA SlipEncodeIs ==
    ASSUME NEW payload \in Seq(Byte)
    PROVE  Slip!Encode(payload) = <<Slip!END_BYTE>> \o FlattenSeq(SlipParts(payload)) \o <<Slip!END_BYTE>>
BY DEF Slip!Encode, SlipParts, Slip!FlattenSeq, FlattenSeq

\* A frame: a delimiter, its inside and a delimiter.
Delimited(frame, delimiter, inside) == frame = <<delimiter>> \o inside \o <<delimiter>>

LEMMA DelimitedType ==
    ASSUME NEW delimiter \in Byte, NEW inside \in Seq(Byte), NEW frame, Delimited(frame, delimiter, inside)
    PROVE  /\ frame \in Seq(Byte) /\ frame # <<>> /\ Len(frame) = Len(inside) + 2
           /\ frame[1] = delimiter /\ frame[Len(inside) + 2] = delimiter
           /\ \A i \in 1..Len(inside) : frame[i + 1] = inside[i]
<1>0. Len(inside) \in Nat
  BY LenProperties
<1>1. PICK d \in Seq(Byte) : d = <<delimiter>> /\ Len(d) = 1 /\ d[1] = delimiter
  BY OneByte
<1>2. PICK x \in Seq(Byte) :
          /\ x = d \o inside /\ Len(x) = 1 + Len(inside)
          /\ \A i \in 1..(1 + Len(inside)) : x[i] = IF i <= 1 THEN d[i] ELSE inside[i - 1]
  <2>1. PICK x \in Seq(Byte) : x = d \o inside
    BY ConcatProperties
  <2>2. Len(x) = 1 + Len(inside)
        /\ \A i \in 1..(1 + Len(inside)) : x[i] = IF i <= 1 THEN d[i] ELSE inside[i - 1]
    BY <1>1, <2>1, ConcatProperties
  <2> QED BY <2>1, <2>2
<1>3. /\ frame \in Seq(Byte) /\ Len(frame) = Len(x) + 1
      /\ \A i \in 1..(Len(x) + 1) : frame[i] = IF i <= Len(x) THEN x[i] ELSE d[i - Len(x)]
  <2>1. frame = x \o d
    BY <1>1, <1>2 DEF Delimited
  <2> QED BY <1>1, <2>1, ConcatProperties
<1>4. Len(frame) = Len(inside) + 2
  BY <1>0, <1>2, <1>3
<1>5. frame[1] = delimiter
  <2>1. 1 \in 1..(Len(x) + 1) /\ 1 <= Len(x) /\ 1 \in 1..(1 + Len(inside))
    BY <1>0, <1>2
  <2>2. frame[1] = x[1] /\ x[1] = d[1]
    BY <1>2, <1>3, <2>1
  <2> QED BY <1>1, <2>2
<1>6. frame[Len(inside) + 2] = delimiter
  <2>1. PICK i : i = Len(inside) + 2
    OBVIOUS
  <2>2. i \in 1..(Len(x) + 1) /\ ~(i <= Len(x)) /\ i - Len(x) = 1
    BY <1>0, <1>2, <2>1
  <2> QED BY <1>1, <1>3, <2>1, <2>2
<1>7. ASSUME NEW i \in 1..Len(inside) PROVE frame[i + 1] = inside[i]
  <2>1. PICK k : k = i + 1
    OBVIOUS
  <2>2. k \in 1..(Len(x) + 1) /\ k <= Len(x) /\ k \in 1..(1 + Len(inside)) /\ ~(k <= 1) /\ k - 1 = i
    BY <1>0, <1>2, <2>1
  <2> QED BY <1>2, <1>3, <2>1, <2>2
<1>8. frame # <<>>
  BY <1>0, <1>4
<1> QED BY <1>3, <1>4, <1>5, <1>6, <1>7, <1>8

LEMMA HdlcEncodeType ==
    ASSUME NEW payload \in Seq(Byte)
    PROVE  Hdlc!Encode(payload) \in Seq(Byte) /\ Hdlc!Encode(payload) # <<>>
<1>1. FlattenSeq(HdlcParts(payload)) \in Seq(Byte)
  BY HdlcPartsType, FlattenType
<1>2. Hdlc!FLAG \in Byte
  BY DEF Hdlc!FLAG, Byte
<1>3. Delimited(Hdlc!Encode(payload), Hdlc!FLAG, FlattenSeq(HdlcParts(payload)))
  BY HdlcEncodeIs DEF Delimited
<1> QED BY <1>1, <1>2, <1>3, DelimitedType

LEMMA SlipEncodeType ==
    ASSUME NEW payload \in Seq(Byte)
    PROVE  Slip!Encode(payload) \in Seq(Byte) /\ Slip!Encode(payload) # <<>>
<1>1. FlattenSeq(SlipParts(payload)) \in Seq(Byte)
  BY SlipPartsType, FlattenType
<1>2. Slip!END_BYTE \in Byte
  BY DEF Slip!END_BYTE, Byte
<1>3. Delimited(Slip!Encode(payload), Slip!END_BYTE, FlattenSeq(SlipParts(payload)))
  BY SlipEncodeIs DEF Delimited
<1> QED BY <1>1, <1>2, <1>3, DelimitedType

LEMMA CobsFrameType ==
    ASSUME NEW payload \in Seq(Byte)
    PROVE  /\ Encode(payload) \in Seq(Byte) /\ Encode(payload) # <<>>
           /\ Len(Encode(payload)) = Len(cobs_encode(payload)) + 1
           /\ Encode(payload)[Len(cobs_encode(payload)) + 1] = 0
           /\ \A i \in 1..Len(cobs_encode(payload)) : Encode(payload)[i] = cobs_encode(payload)[i]
<1>1. PICK e \in Seq(Byte) : e = cobs_encode(payload)
  <2>1. NonZero \subseteq Byte
    BY DEF NonZero, Byte
  <2> QED BY <2>1, CobsEncodeType, SeqMonotonic
<1>2. 0 \in Byte
  BY DEF Byte
<1>3. Encode(payload) = Append(e, 0)
  BY <1>1, <1>2, AppendIsConcat DEF Encode
<1>4. PICK f \in Seq(Byte) : f = Append(e, 0)
  BY <1>2, AppendProperties
<1>5. Len(f) = Len(e) + 1 /\ f[Len(e) + 1] = 0 /\ \A i \in 1..Len(e) : f[i] = e[i]
  BY <1>2, <1>4, AppendProperties
<1>6. f # <<>>
  BY <1>5, LenProperties, EmptySeq
<1> QED BY <1>1, <1>3, <1>4, <1>5, <1>6

-----------------------------------------------------------------------------
(* One shape for the steps of the three framings.                           *)

\* The encoding of a payload, and whether the framer has room for it.
Framed(payload) ==
    CASE framing = "cobs" -> Encode(payload)
      [] framing = "hdlc" -> Hdlc!Encode(payload)
      [] OTHER            -> Slip!Encode(payload)

\* The framer's process_byte and reset.
Reads(c) ==
    \/ framing = "cobs" /\ ProcessByte(c) /\ UNCHANGED <<hdlc_vars, slip_vars>>
    \/ framing = "hdlc" /\ Hdlc!ProcessByte(c) /\ UNCHANGED <<cobs_vars, slip_vars>>
    \/ framing = "slip" /\ Slip!ProcessByte(c) /\ UNCHANGED <<cobs_vars, hdlc_vars>>

Resets ==
    \/ framing = "cobs" /\ raw' = <<>> /\ error' = FALSE /\ UNCHANGED <<hdlc_vars, slip_vars>>
    \/ /\ framing = "hdlc" /\ hdlc_state' = "IDLE" /\ hdlc_buf' = <<>> /\ overflowed' = FALSE
       /\ UNCHANGED <<flow_control, cobs_vars, slip_vars>>
    \/ /\ framing = "slip" /\ slip_buf' = <<>> /\ slip_error' = FALSE /\ slip_escape' = FALSE
       /\ UNCHANGED <<cobs_vars, hdlc_vars>>

Rests == UNCHANGED <<cobs_vars, hdlc_vars, slip_vars>>

\* What noise spoils when it takes the next byte, adds the byte c or resets.
TakingHits == IF framing = "cobs" THEN TakenHits ELSE {Head(line).frame}
AddingHits(c) ==
    CASE framing = "cobs" -> InsertHits(c)
      [] framing = "hdlc" -> Hdlc!InsertHits(c)
      [] OTHER            -> IF MidFrame THEN {at} ELSE {}
ResetHits == IF MidFrame THEN {at} ELSE {}

Writing == \E piece \in Seq(Byte) : Write(piece) /\ Rests
Dropping == Discard /\ UNCHANGED <<line_vars, delivered>> /\ Rests
Putting ==
    \E payload \in Seq(Byte) :
        PutFrame(payload, Framed) /\ (Discard \/ UNCHANGED writer_vars) /\ Rests
Receiving == Taken /\ Reads(Head(line).byte) /\ UNCHANGED <<damaged, noise>>
Changing == \E c \in Byte : Taken /\ Reads(c) /\ Noise(TakingHits)
Adding == \E c \in Byte : Reads(c) /\ Noise(AddingHits(c)) /\ UNCHANGED <<writer_vars, line, sent, at>>
Losing == Taken /\ Noise(TakingHits) /\ UNCHANGED delivered /\ Rests
Resetting == Resets /\ Noise(ResetHits) /\ UNCHANGED <<writer_vars, line, sent, at, delivered>>
Tuning ==
    /\ framing = "hdlc" /\ sent = <<>> /\ flow_control' \in BOOLEAN
    /\ UNCHANGED <<link_vars, hdlc_state, hdlc_buf, overflowed, cobs_vars, slip_vars>>

Moves ==
    \/ Writing \/ Dropping \/ Putting \/ Receiving \/ Changing \/ Adding \/ Losing
    \/ Resetting \/ Tuning

LEMMA InputsType ==
    /\ Pieces \subseteq Seq(Byte) /\ Payloads \subseteq Seq(Byte) /\ NoiseBytes \subseteq Byte
    /\ HdlcPieces \subseteq Seq(Byte) /\ HdlcPayloads \subseteq Seq(Byte) /\ HdlcNoise \subseteq Byte
    /\ SlipPieces \subseteq Seq(Byte) /\ SlipPayloads \subseteq Seq(Byte) /\ SlipNoise \subseteq Byte
BY BytesAssumption, FramingsAssumption

LEMMA CobsMoves ==
    ASSUME framing = "cobs", w_buf \in Seq(Byte), Next, UNCHANGED <<hdlc_vars, slip_vars>>
    PROVE  Moves
<1> USE DEF framer_vars, cobs_vars, Rests
<1>1. CASE \E piece \in Pieces : Write(piece) /\ UNCHANGED framer_vars
  <2>1. Writing
    BY <1>1, InputsType DEF Writing
  <2> QED BY <2>1 DEF Moves
<1>2. CASE EndFrame(Encode) /\ UNCHANGED framer_vars
  <2>1. CASE w_overflow
    BY <1>2, <2>1 DEF EndFrame, Dropping, Moves
  <2>2. CASE ~w_overflow
    <3>1. Framed(w_buf) = Encode(w_buf)
      BY DEF Framed
    <3>2. PutFrame(w_buf, Framed) /\ Discard
      BY <1>2, <2>2, <3>1 DEF EndFrame, PutFrame
    <3>3. Putting
      BY <1>2, <3>2 DEF Putting
    <3> QED BY <3>3 DEF Moves
  <2> QED BY <2>1, <2>2
<1>3. CASE \E payload \in Payloads : EncodeAndSend(payload, Encode) /\ UNCHANGED framer_vars
  <2>1. PICK payload \in Payloads : EncodeAndSend(payload, Encode) /\ UNCHANGED framer_vars
    BY <1>3
  <2>2. Framed(payload) = Encode(payload) /\ payload \in Seq(Byte)
    BY InputsType DEF Framed
  <2>3. PutFrame(payload, Framed) /\ UNCHANGED writer_vars
    BY <2>1, <2>2 DEF EncodeAndSend, PutFrame
  <2>4. Putting
    BY <2>1, <2>2, <2>3 DEF Putting
  <2> QED BY <2>4 DEF Moves
<1>4. CASE Arriving
  <2>1. Receiving
    BY <1>4 DEF Arriving, Arrive, Receiving, Reads
  <2> QED BY <2>1 DEF Moves
<1>5. CASE \E c \in NoiseBytes : line # <<>> /\ Change(c, TakenHits, ProcessByte)
  <2>1. Changing
    BY <1>5, InputsType DEF Change, Changing, Reads, TakingHits
  <2> QED BY <2>1 DEF Moves
<1>6. CASE \E c \in NoiseBytes : Insert(c, InsertHits(c), ProcessByte)
  <2>1. Adding
    BY <1>6, InputsType DEF Insert, Adding, Reads, AddingHits
  <2> QED BY <2>1 DEF Moves
<1>7. CASE Lose(TakenHits) /\ UNCHANGED framer_vars
  <2>1. Losing
    BY <1>7 DEF Lose, Losing, TakingHits
  <2> QED BY <2>1 DEF Moves
<1>8. CASE Reset
  <2>1. Resetting
    BY <1>8 DEF Reset, Resetting, Resets, ResetHits
  <2> QED BY <2>1 DEF Moves
<1> QED BY <1>1, <1>2, <1>3, <1>4, <1>5, <1>6, <1>7, <1>8 DEF Next, Sending, Send, Noisy

LEMMA HdlcMoves ==
    ASSUME framing = "hdlc", w_buf \in Seq(Byte), Hdlc!Next, UNCHANGED <<cobs_vars, slip_vars>>
    PROVE  Moves
<1> USE DEF Hdlc!framer_vars, cobs_vars, hdlc_vars, Rests
<1>a. Hdlc!Taken <=> Taken
  BY DEF Hdlc!Taken, Taken, Hdlc!writer_vars, writer_vars
<1>b. \A hit : Hdlc!Noise(hit) <=> Noise(hit)
  BY DEF Hdlc!Noise, Noise
<1>c. \A payload : Hdlc!PutFrame(payload, Hdlc!Encode) => PutFrame(payload, Framed)
  <2>1. \A payload : Framed(payload) = Hdlc!Encode(payload)
    BY DEF Framed
  <2> QED BY <2>1 DEF Hdlc!PutFrame, PutFrame, Hdlc!Tagged, Tagged
<1>1. CASE \E piece \in HdlcPieces : Hdlc!Write(piece) /\ UNCHANGED Hdlc!framer_vars
  <2>1. \A piece : Hdlc!Write(piece) <=> Write(piece)
    BY DEF Hdlc!Write, Write, Hdlc!Stored, Stored, Hdlc!line_vars, line_vars
  <2>2. Writing
    BY <1>1, <2>1, InputsType DEF Writing
  <2> QED BY <2>2 DEF Moves
<1>2. CASE Hdlc!EndFrame(Hdlc!Encode) /\ UNCHANGED Hdlc!framer_vars
  <2>0. Discard
    BY <1>2 DEF Hdlc!EndFrame, Hdlc!Discard, Discard
  <2>1. CASE w_overflow
    <3>1. UNCHANGED <<line_vars, delivered>>
      BY <1>2, <2>1 DEF Hdlc!EndFrame, Hdlc!line_vars, line_vars
    <3> QED BY <1>2, <2>0, <3>1 DEF Dropping, Moves
  <2>2. CASE ~w_overflow
    <3>1. Hdlc!PutFrame(w_buf, Hdlc!Encode)
      BY <1>2, <2>2 DEF Hdlc!EndFrame
    <3>2. Putting
      BY <1>2, <1>c, <2>0, <3>1 DEF Putting
    <3> QED BY <3>2 DEF Moves
  <2> QED BY <2>1, <2>2
<1>3. CASE \E payload \in HdlcPayloads : Hdlc!EncodeAndSend(payload, Hdlc!Encode) /\ UNCHANGED Hdlc!framer_vars
  <2>1. PICK payload \in HdlcPayloads : Hdlc!EncodeAndSend(payload, Hdlc!Encode) /\ UNCHANGED Hdlc!framer_vars
    BY <1>3
  <2>2. PutFrame(payload, Framed) /\ UNCHANGED writer_vars
    BY <1>c, <2>1 DEF Hdlc!EncodeAndSend, Hdlc!writer_vars, writer_vars
  <2>3. Putting
    BY <2>1, <2>2, InputsType DEF Putting
  <2> QED BY <2>3 DEF Moves
<1>4. CASE Hdlc!Arriving
  <2>1. Receiving
    BY <1>4, <1>a DEF Hdlc!Arriving, Hdlc!Arrive, Receiving, Reads
  <2> QED BY <2>1 DEF Moves
<1>5. CASE \E c \in HdlcNoise : Hdlc!Change(c, {Head(line).frame}, Hdlc!ProcessByte)
  <2>1. Changing
    BY <1>5, <1>a, <1>b, InputsType DEF Hdlc!Change, Changing, Reads, TakingHits
  <2> QED BY <2>1 DEF Moves
<1>6. CASE \E c \in HdlcNoise : Hdlc!Insert(c, Hdlc!InsertHits(c), Hdlc!ProcessByte)
  <2>1. Adding
    BY <1>6, <1>b, InputsType DEF Hdlc!Insert, Adding, Reads, AddingHits, Hdlc!writer_vars, writer_vars
  <2> QED BY <2>1 DEF Moves
<1>7. CASE Hdlc!Lose({Head(line).frame}) /\ UNCHANGED Hdlc!framer_vars
  <2>1. Losing
    BY <1>7, <1>a, <1>b DEF Hdlc!Lose, Losing, TakingHits
  <2> QED BY <2>1 DEF Moves
<1>8. CASE Hdlc!Reset
  <2>1. Hdlc!MidFrame <=> MidFrame
    BY DEF Hdlc!MidFrame, MidFrame
  <2>2. Resetting
    BY <1>8, <1>b, <2>1 DEF Hdlc!Reset, Hdlc!ClearBuf, Resetting, Resets, ResetHits, Hdlc!writer_vars, writer_vars
  <2> QED BY <2>2 DEF Moves
<1>9. CASE \E enable \in BOOLEAN : Hdlc!SetFlowControl(enable)
  <2>1. Tuning
    BY <1>9 DEF Hdlc!SetFlowControl, Tuning, Hdlc!link_vars, Hdlc!writer_vars, Hdlc!line_vars,
                link_vars, writer_vars, line_vars
  <2> QED BY <2>1 DEF Moves
<1> QED BY <1>1, <1>2, <1>3, <1>4, <1>5, <1>6, <1>7, <1>8, <1>9 DEF Hdlc!Next, Hdlc!Sending, Hdlc!Send, Hdlc!Noisy

LEMMA SlipMoves ==
    ASSUME framing = "slip", w_buf \in Seq(Byte), Slip!Next, UNCHANGED <<cobs_vars, hdlc_vars>>
    PROVE  Moves
<1> USE DEF Slip!framer_vars, cobs_vars, slip_vars, Rests
<1>a. Slip!Taken <=> Taken
  BY DEF Slip!Taken, Taken, Slip!writer_vars, writer_vars
<1>b. \A hit : Slip!Noise(hit) <=> Noise(hit)
  BY DEF Slip!Noise, Noise
<1>c. \A payload : Slip!PutFrame(payload, Slip!Encode) => PutFrame(payload, Framed)
  <2>1. \A payload : Framed(payload) = Slip!Encode(payload)
    BY DEF Framed
  <2> QED BY <2>1 DEF Slip!PutFrame, PutFrame, Slip!Tagged, Tagged
<1>d. Slip!MidFrame <=> MidFrame
  BY DEF Slip!MidFrame, MidFrame
<1>1. CASE \E piece \in SlipPieces : Slip!Write(piece) /\ UNCHANGED Slip!framer_vars
  <2>1. \A piece : Slip!Write(piece) <=> Write(piece)
    BY DEF Slip!Write, Write, Slip!Stored, Stored, Slip!line_vars, line_vars
  <2>2. Writing
    BY <1>1, <2>1, InputsType DEF Writing
  <2> QED BY <2>2 DEF Moves
<1>2. CASE Slip!EndFrame(Slip!Encode) /\ UNCHANGED Slip!framer_vars
  <2>0. Discard
    BY <1>2 DEF Slip!EndFrame, Slip!Discard, Discard
  <2>1. CASE w_overflow
    <3>1. UNCHANGED <<line_vars, delivered>>
      BY <1>2, <2>1 DEF Slip!EndFrame, Slip!line_vars, line_vars
    <3> QED BY <1>2, <2>0, <3>1 DEF Dropping, Moves
  <2>2. CASE ~w_overflow
    <3>1. Slip!PutFrame(w_buf, Slip!Encode)
      BY <1>2, <2>2 DEF Slip!EndFrame
    <3>2. Putting
      BY <1>2, <1>c, <2>0, <3>1 DEF Putting
    <3> QED BY <3>2 DEF Moves
  <2> QED BY <2>1, <2>2
<1>3. CASE \E payload \in SlipPayloads : Slip!EncodeAndSend(payload, Slip!Encode) /\ UNCHANGED Slip!framer_vars
  <2>1. PICK payload \in SlipPayloads : Slip!EncodeAndSend(payload, Slip!Encode) /\ UNCHANGED Slip!framer_vars
    BY <1>3
  <2>2. PutFrame(payload, Framed) /\ UNCHANGED writer_vars
    BY <1>c, <2>1 DEF Slip!EncodeAndSend, Slip!writer_vars, writer_vars
  <2>3. Putting
    BY <2>1, <2>2, InputsType DEF Putting
  <2> QED BY <2>3 DEF Moves
<1>4. CASE Slip!Arriving
  <2>1. Receiving
    BY <1>4, <1>a DEF Slip!Arriving, Slip!Arrive, Receiving, Reads
  <2> QED BY <2>1 DEF Moves
<1>5. CASE \E c \in SlipNoise : Slip!Change(c, {Head(line).frame}, Slip!ProcessByte)
  <2>1. Changing
    BY <1>5, <1>a, <1>b, InputsType DEF Slip!Change, Changing, Reads, TakingHits
  <2> QED BY <2>1 DEF Moves
<1>6. CASE \E c \in SlipNoise : Slip!Insert(c, IF Slip!MidFrame THEN {at} ELSE {}, Slip!ProcessByte)
  <2>1. Adding
    BY <1>6, <1>b, <1>d, InputsType DEF Slip!Insert, Adding, Reads, AddingHits, Slip!writer_vars, writer_vars
  <2> QED BY <2>1 DEF Moves
<1>7. CASE Slip!Lose({Head(line).frame}) /\ UNCHANGED Slip!framer_vars
  <2>1. Losing
    BY <1>7, <1>a, <1>b DEF Slip!Lose, Losing, TakingHits
  <2> QED BY <2>1 DEF Moves
<1>8. CASE Slip!Reset
  <2>2. Resetting
    BY <1>8, <1>b, <1>d DEF Slip!Reset, Resetting, Resets, ResetHits, Slip!writer_vars, writer_vars
  <2> QED BY <2>2 DEF Moves
<1> QED BY <1>1, <1>2, <1>3, <1>4, <1>5, <1>6, <1>7, <1>8 DEF Slip!Next, Slip!Sending, Slip!Send, Slip!Noisy

LEMMA AllMoves ==
    ASSUME w_buf \in Seq(Byte), FramingsNext
    PROVE  Moves /\ UNCHANGED framing
BY CobsMoves, HdlcMoves, SlipMoves DEF FramingsNext

-----------------------------------------------------------------------------
(* Types.                                                                  *)

Sent == [byte : Byte, frame : Nat]

LEMMA FramedType ==
    ASSUME NEW payload \in Seq(Byte)
    PROVE  Framed(payload) \in Seq(Byte) /\ Framed(payload) # <<>>
BY CobsFrameType, HdlcEncodeType, SlipEncodeType DEF Framed

LEMMA TaggedType ==
    ASSUME NEW bytes \in Seq(Byte), NEW f \in Nat
    PROVE  Tagged(bytes, f) \in Seq(Sent)
<1>1. PICK n \in Nat : n = Len(bytes)
  BY LenProperties
<1>2. \A i \in 1..n : [byte |-> bytes[i], frame |-> f] \in Sent
  BY <1>1, ElementOfSeq DEF Sent
<1>3. PICK t : t = [i \in 1..n |-> [byte |-> bytes[i], frame |-> f]]
  OBVIOUS
<1>4. t \in Seq(Sent)
  BY <1>2, <1>3
<1> QED BY <1>1, <1>3, <1>4 DEF Tagged

LEMMA EmptyOf == \A S : <<>> \in Seq(S)
OBVIOUS

\* The variables of each framer.  COBS stores no zero: it ends the frame.
CobsType == raw \in Seq(NonZero) /\ Len(raw) <= BufSize + 1 /\ error \in BOOLEAN
HdlcType ==
    /\ hdlc_state \in {"IDLE", "IN_FRAME", "ESCAPE", "ERROR"}
    /\ hdlc_buf \in Seq(Byte) /\ Len(hdlc_buf) <= BufSize
    /\ flow_control \in BOOLEAN /\ overflowed \in BOOLEAN
SlipType ==
    /\ slip_buf \in Seq(Byte) /\ Len(slip_buf) <= BufSize
    /\ slip_error \in BOOLEAN /\ slip_escape \in BOOLEAN

FramersType == CobsType /\ HdlcType /\ SlipType

TypeInv ==
    /\ LinkTypeOK
    /\ FramersType
    /\ WholeOrDropped
    /\ framing \in {"cobs", "hdlc", "slip"}

LEMMA TypeInvImplies == TypeInv => FramingsTypeOK /\ FramingsWholeOrDropped
<1> SUFFICES ASSUME TypeInv PROVE FramingsTypeOK /\ FramingsWholeOrDropped
  OBVIOUS
<1>1. raw \in Seq(Byte)
  <2>1. NonZero \subseteq Byte
    BY DEF NonZero, Byte
  <2> QED BY <2>1, SeqMonotonic DEF TypeInv, FramersType, CobsType
<1>2. TypeOK
  BY <1>1 DEF TypeOK, TypeInv, FramersType, CobsType
<1>3. Hdlc!TypeOK
  BY DEF Hdlc!TypeOK, Hdlc!LinkTypeOK, Hdlc!States, Hdlc!Byte, TypeInv, LinkTypeOK, FramersType, HdlcType, Byte
<1>4. Slip!TypeOK
  BY DEF Slip!TypeOK, Slip!LinkTypeOK, Slip!Byte, TypeInv, LinkTypeOK, FramersType, SlipType, Byte
<1> QED BY <1>2, <1>3, <1>4 DEF FramingsTypeOK, FramingsWholeOrDropped, TypeInv

LEMMA TypeInit == FramingsInit => TypeInv
<1> SUFFICES ASSUME FramingsInit PROVE TypeInv
  OBVIOUS
<1>0. Len(<<>>) = 0 /\ 0 <= BufSize /\ 0 <= BufSize + 1
  BY BufSizeAssumption
<1>1. LinkTypeOK
  BY <1>0, EmptyOf DEF FramingsInit, Init, LinkInit, LinkTypeOK
<1>2. CobsType
  BY <1>0, EmptyOf DEF FramingsInit, Init, CobsType
<1>3. HdlcType
  BY <1>0, EmptyOf DEF FramingsInit, Hdlc!Init, HdlcType
<1>4. SlipType
  BY <1>0, EmptyOf DEF FramingsInit, Slip!Init, SlipType
<1>5. WholeOrDropped /\ framing \in {"cobs", "hdlc", "slip"}
  BY DEF FramingsInit, Init, LinkInit, WholeOrDropped
<1> QED BY <1>1, <1>2, <1>3, <1>4, <1>5 DEF TypeInv, FramersType

\* What the framer passes on is one more payload, or nothing.
Grows == delivered' = delivered \/ \E x \in Seq(Byte) : delivered' = Append(delivered, x)

LEMMA CobsReadsType ==
    ASSUME CobsType, NEW c \in Byte, ProcessByte(c)
    PROVE  CobsType' /\ Grows
<1>0. BufSize \in Nat /\ Len(raw) \in Nat
  BY BufSizeAssumption, LenProperties DEF CobsType
<1>1. CASE c = 0 /\ EndOfFrame
  <2>1. raw' = <<>> /\ error' = FALSE
    BY <1>1 DEF EndOfFrame
  <2>2. CobsType'
    <3>1. raw' \in Seq(NonZero) /\ Len(raw') = 0
      BY <2>1, EmptyOf
    <3>2. 0 <= BufSize + 1
      BY <1>0
    <3> QED BY <2>1, <3>1, <3>2 DEF CobsType
  <2>3. Grows
    <3>1. CASE raw # <<>> /\ ~error /\ cobs_decode(raw).ok
      <4>1. PICK d : d = cobs_decode(raw)
        OBVIOUS
      <4>2. d \in Decoded
        BY <4>1, CobsDecodeType DEF CobsType
      <4>3. d.bytes \in Seq(Byte)
        BY <4>2 DEF Decoded
      <4>4. delivered' = Append(delivered, d.bytes)
        BY <1>1, <3>1, <4>1 DEF EndOfFrame
      <4> QED BY <4>3, <4>4 DEF Grows
    <3>2. CASE ~(raw # <<>> /\ ~error /\ cobs_decode(raw).ok)
      BY <1>1, <3>2 DEF EndOfFrame, Grows
    <3> QED BY <3>1, <3>2
  <2> QED BY <2>2, <2>3
<1>2. CASE c # 0 /\ Store(c) /\ UNCHANGED delivered
  <2>1. c \in NonZero
    BY <1>2, BytesOf, NonZeroIs
  <2>2. CASE Len(raw) < BufSize + 1
    <3>1. raw' = Append(raw, c) /\ error' = error
      BY <1>2, <2>2 DEF Store
    <3>2. raw' \in Seq(NonZero) /\ Len(raw') = Len(raw) + 1
      BY <2>1, <3>1, AppendProperties DEF CobsType
    <3> QED BY <1>0, <1>2, <2>2, <3>1, <3>2 DEF CobsType, Grows
  <2>3. CASE ~(Len(raw) < BufSize + 1)
    BY <1>2, <2>3 DEF Store, CobsType, Grows
  <2> QED BY <2>2, <2>3
<1> QED BY <1>1, <1>2 DEF ProcessByte

LEMMA HdlcDeliverGrows ==
    ASSUME HdlcType, Hdlc!Deliver
    PROVE  Grows
<1>1. CASE delivered' = delivered
  BY <1>1 DEF Grows
<1>2. CASE delivered' # delivered
  <2>1. PICK n \in Nat : n = Len(hdlc_buf)
    BY LenProperties DEF HdlcType
  <2>2. n >= 2 /\ delivered' = Append(delivered, SubSeq(hdlc_buf, 1, n - 2))
    BY <1>2, <2>1 DEF Hdlc!Deliver
  <2>3. SubSeq(hdlc_buf, 1, n - 2) \in Seq(Byte)
    <3>1. PICK m \in Int : m = n - 2 /\ m <= n
      BY <2>1
    <3> QED BY <2>1, <3>1, SubSeqType DEF HdlcType
  <2> QED BY <2>2, <2>3 DEF Grows
<1> QED BY <1>1, <1>2

LEMMA HdlcStoreType ==
    ASSUME HdlcType, NEW c \in Byte, NEW s1 \in {"IN_FRAME", "ERROR"}, NEW s2 \in {"IN_FRAME", "ERROR"},
           Hdlc!Store(c, s1, s2), UNCHANGED flow_control
    PROVE  HdlcType'
<1>0. BufSize \in Nat /\ Len(hdlc_buf) \in Nat
  BY BufSizeAssumption, LenProperties DEF HdlcType
<1>1. CASE Len(hdlc_buf) < BufSize
  <2>1. hdlc_buf' = Append(hdlc_buf, c) /\ hdlc_state' = s1 /\ overflowed' = overflowed
    BY <1>1 DEF Hdlc!Store
  <2>2. hdlc_buf' \in Seq(Byte) /\ Len(hdlc_buf') = Len(hdlc_buf) + 1
    BY <2>1, AppendProperties DEF HdlcType
  <2> QED BY <1>0, <1>1, <2>1, <2>2 DEF HdlcType
<1>2. CASE ~(Len(hdlc_buf) < BufSize)
  BY <1>2 DEF Hdlc!Store, HdlcType
<1> QED BY <1>1, <1>2

LEMMA HdlcReadsType ==
    ASSUME HdlcType, NEW c \in Byte, Hdlc!ProcessByte(c)
    PROVE  HdlcType' /\ Grows
<1>0. flow_control' = flow_control /\ BufSize \in Nat
  BY BufSizeAssumption DEF Hdlc!ProcessByte
<1>e. Hdlc!ClearBuf => hdlc_buf' \in Seq(Byte) /\ Len(hdlc_buf') <= BufSize /\ overflowed' \in BOOLEAN
  <2> SUFFICES ASSUME Hdlc!ClearBuf
               PROVE  hdlc_buf' \in Seq(Byte) /\ Len(hdlc_buf') <= BufSize /\ overflowed' \in BOOLEAN
    OBVIOUS
  <2>1. hdlc_buf' = <<>> /\ overflowed' = FALSE
    BY DEF Hdlc!ClearBuf
  <2>2. hdlc_buf' \in Seq(Byte) /\ Len(hdlc_buf') = 0
    BY <2>1, EmptyOf
  <2>3. 0 <= BufSize
    BY <1>0
  <2> QED BY <2>1, <2>2, <2>3
<1>1. CASE UNCHANGED <<hdlc_state, hdlc_buf, overflowed, delivered>>
  BY <1>0, <1>1 DEF HdlcType, Grows
<1>2. CASE UNCHANGED delivered /\ (IF c = Hdlc!FLAG THEN Hdlc!ClearBuf /\ hdlc_state' = "IN_FRAME"
                                   ELSE UNCHANGED <<hdlc_state, hdlc_buf, overflowed>>)
  BY <1>0, <1>e, <1>2 DEF HdlcType, Grows
<1>3. CASE Hdlc!Deliver /\ Hdlc!ClearBuf /\ UNCHANGED hdlc_state
  <2>1. HdlcType'
    BY <1>0, <1>e, <1>3 DEF HdlcType
  <2> QED BY <1>3, <2>1, HdlcDeliverGrows
<1>4. CASE hdlc_state' = "ESCAPE" /\ UNCHANGED <<hdlc_buf, overflowed, delivered>>
  BY <1>0, <1>4 DEF HdlcType, Grows
<1>5. CASE Hdlc!Store(c, "IN_FRAME", "ERROR") /\ UNCHANGED delivered
  BY <1>0, <1>5, HdlcStoreType DEF Grows
<1>6. CASE Hdlc!ClearBuf /\ hdlc_state' = "IN_FRAME" /\ UNCHANGED delivered
  BY <1>0, <1>e, <1>6 DEF HdlcType, Grows
<1>7. CASE Hdlc!Store(Hdlc!Toggle(c), "IN_FRAME", "IN_FRAME") /\ UNCHANGED delivered
  <2>1. HdlcType'
    BY <1>0, <1>7, ToggleType, HdlcStoreType
  <2> QED BY <1>7, <2>1 DEF Grows
<1> QED BY <1>1, <1>2, <1>3, <1>4, <1>5, <1>6, <1>7 DEF Hdlc!ProcessByte

LEMMA SlipStoreType ==
    ASSUME SlipType, NEW c \in Byte, Slip!Store(c), slip_escape' \in BOOLEAN
    PROVE  SlipType'
<1>0. BufSize \in Nat /\ Len(slip_buf) \in Nat
  BY BufSizeAssumption, LenProperties DEF SlipType
<1>1. CASE Len(slip_buf) < BufSize
  <2>1. slip_buf' = Append(slip_buf, c) /\ slip_error' = slip_error
    BY <1>1 DEF Slip!Store
  <2>2. slip_buf' \in Seq(Byte) /\ Len(slip_buf') = Len(slip_buf) + 1
    BY <2>1, AppendProperties DEF SlipType
  <2> QED BY <1>0, <1>1, <2>1, <2>2 DEF SlipType
<1>2. CASE ~(Len(slip_buf) < BufSize)
  BY <1>2 DEF Slip!Store, SlipType
<1> QED BY <1>1, <1>2

LEMMA SlipReadsType ==
    ASSUME SlipType, NEW c \in Byte, Slip!ProcessByte(c)
    PROVE  SlipType' /\ Grows
<1>0. BufSize \in Nat
  BY BufSizeAssumption
<1>1. CASE Slip!EndOfFrame
  <2>1. slip_buf' = <<>> /\ slip_error' = FALSE /\ slip_escape' = FALSE
    BY <1>1 DEF Slip!EndOfFrame
  <2>2. SlipType'
    <3>1. slip_buf' \in Seq(Byte) /\ Len(slip_buf') = 0
      BY <2>1, EmptyOf
    <3>2. 0 <= BufSize
      BY <1>0
    <3> QED BY <2>1, <3>1, <3>2 DEF SlipType
  <2>3. Grows
    BY <1>1 DEF Slip!EndOfFrame, Grows, SlipType
  <2> QED BY <2>2, <2>3
<1>2. CASE slip_escape' = TRUE /\ UNCHANGED <<slip_buf, slip_error, delivered>>
  BY <1>2 DEF SlipType, Grows
<1>3. CASE /\ c \in DOMAIN Slip!Unescaped /\ slip_escape' = FALSE
           /\ Slip!Store(Slip!Unescaped[c]) /\ UNCHANGED delivered
  <2>1. Slip!Unescaped[c] \in Byte
    BY <1>3 DEF Slip!Unescaped, Slip!END_BYTE, Slip!ESC, Byte
  <2>2. SlipType'
    BY <1>3, <2>1, SlipStoreType
  <2> QED BY <1>3, <2>2 DEF Grows
<1>4. CASE slip_escape' = FALSE /\ slip_error' = TRUE /\ UNCHANGED <<slip_buf, delivered>>
  BY <1>4 DEF SlipType, Grows
<1>5. CASE Slip!Store(c) /\ UNCHANGED <<slip_escape, delivered>>
  <2>1. SlipType'
    BY <1>5, SlipStoreType DEF SlipType
  <2> QED BY <1>5, <2>1 DEF Grows
<1> QED BY <1>1, <1>2, <1>3, <1>4, <1>5 DEF Slip!ProcessByte

LEMMA RestsType ==
    ASSUME FramersType, Rests
    PROVE  FramersType'
BY DEF FramersType, CobsType, HdlcType, SlipType, Rests, cobs_vars, hdlc_vars, slip_vars

LEMMA ReadsType ==
    ASSUME FramersType, NEW c \in Byte, Reads(c)
    PROVE  FramersType' /\ Grows
<1>1. CASE ProcessByte(c) /\ UNCHANGED <<hdlc_vars, slip_vars>>
  <2>1. CobsType' /\ Grows
    BY <1>1, CobsReadsType DEF FramersType
  <2>2. HdlcType' /\ SlipType'
    BY <1>1 DEF FramersType, HdlcType, SlipType, hdlc_vars, slip_vars
  <2> QED BY <2>1, <2>2 DEF FramersType
<1>2. CASE Hdlc!ProcessByte(c) /\ UNCHANGED <<cobs_vars, slip_vars>>
  <2>1. HdlcType' /\ Grows
    BY <1>2, HdlcReadsType DEF FramersType
  <2>2. CobsType' /\ SlipType'
    BY <1>2 DEF FramersType, CobsType, SlipType, cobs_vars, slip_vars
  <2> QED BY <2>1, <2>2 DEF FramersType
<1>3. CASE Slip!ProcessByte(c) /\ UNCHANGED <<cobs_vars, hdlc_vars>>
  <2>1. SlipType' /\ Grows
    BY <1>3, SlipReadsType DEF FramersType
  <2>2. CobsType' /\ HdlcType'
    BY <1>3 DEF FramersType, CobsType, HdlcType, cobs_vars, hdlc_vars
  <2> QED BY <2>1, <2>2 DEF FramersType
<1> QED BY <1>1, <1>2, <1>3 DEF Reads

LEMMA ResetsType ==
    ASSUME FramersType, Resets
    PROVE  FramersType'
<1>0. Len(<<>>) = 0 /\ 0 <= BufSize /\ 0 <= BufSize + 1
  BY BufSizeAssumption
<1> QED BY <1>0, EmptyOf DEF FramersType, CobsType, HdlcType, SlipType, Resets, cobs_vars, hdlc_vars, slip_vars

-----------------------------------------------------------------------------
(* The types, and the writer's all or nothing, step by step.                *)

LEMMA TakenType ==
    ASSUME LinkTypeOK, Taken
    PROVE  /\ line # <<>> /\ Head(line) \in Sent
           /\ line' \in Seq(Sent) /\ at' \in Nat
<1>1. line \in Seq(Sent) /\ line # <<>>
  BY DEF LinkTypeOK, Taken, Sent
<1>2. Head(line) \in Sent /\ Tail(line) \in Seq(Sent)
  BY <1>1, HeadTailProperties
<1>3. Head(line).frame \in Nat
  BY <1>2 DEF Sent
<1> QED BY <1>1, <1>2, <1>3 DEF Taken

LEMMA LineHits ==
    ASSUME LinkTypeOK, line # <<>>
    PROVE  TakingHits \subseteq Nat
<1>1. line \in Seq(Sent)
  BY DEF LinkTypeOK, Sent
<1>2. Head(line) \in Sent
  BY <1>1, HeadTailProperties
<1>3. PICK f \in Nat : f = Head(line).frame /\ f + 1 \in Nat
  BY <1>2 DEF Sent
<1> QED BY <1>3 DEF TakingHits, TakenHits

LEMMA PlaceHits ==
    ASSUME LinkTypeOK, NEW c
    PROVE  AddingHits(c) \subseteq Nat /\ ResetHits \subseteq Nat
<1>1. at \in Nat /\ at + 1 \in Nat
  BY DEF LinkTypeOK
<1>2. ResetHits \subseteq Nat
  BY <1>1 DEF ResetHits
<1>3. AddingHits(c) \subseteq Nat
  BY <1>1 DEF AddingHits, InsertHits, Hdlc!InsertHits
<1> QED BY <1>2, <1>3

LEMMA NoiseType ==
    ASSUME LinkTypeOK, NEW hit \in SUBSET Nat, Noise(hit)
    PROVE  damaged' \subseteq Nat /\ noise' \in Nat
BY DEF LinkTypeOK, Noise

LEMMA GrowsType ==
    ASSUME LinkTypeOK, Grows
    PROVE  delivered' \in Seq(Seq(Byte))
<1>1. delivered \in Seq(Seq(Byte))
  BY DEF LinkTypeOK
<1>2. CASE delivered' = delivered
  BY <1>1, <1>2
<1>3. CASE \E x \in Seq(Byte) : delivered' = Append(delivered, x)
  BY <1>1, <1>3, AppendProperties
<1> QED BY <1>2, <1>3 DEF Grows

LEMMA StoredType ==
    ASSUME NEW piece \in Seq(Byte), NEW room \in Nat
    PROVE  /\ Stored(piece, room) \in Seq(Byte)
           /\ Len(Stored(piece, room)) <= room
           /\ Len(piece) <= room => Stored(piece, room) = piece
<1>0. Len(piece) \in Nat
  BY LenProperties
<1>1. CASE Len(piece) < room
  BY <1>1 DEF Stored
<1>2. CASE ~(Len(piece) < room)
  <2>1. Stored(piece, room) = SubSeq(piece, 1, room)
    BY <1>2 DEF Stored
  <2>2. SubSeq(piece, 1, room) \in Seq(Byte)
    <3>1. room \in Int /\ room <= Len(piece)
      BY <1>0, <1>2
    <3> QED BY <3>1, SubSeqType
  <2>3. Len(SubSeq(piece, 1, room)) = room
    <3>1. \A k \in 1..room : k \in 1..Len(piece)
      BY <1>0, <1>2
    <3>2. \A k \in 1..room : piece[k] \in Byte
      BY <3>1, ElementOfSeq
    <3>3. Len(SubSeq(piece, 1, room)) = IF 1 <= room THEN room - 1 + 1 ELSE 0
      BY <3>2, SubSeqProperties
    <3> QED BY <3>3
  <2>4. Len(piece) <= room => SubSeq(piece, 1, room) = piece
    <3>1. Len(piece) <= room => room = Len(piece)
      BY <1>0, <1>2
    <3> QED BY <3>1, SubSeqFull
  <2> QED BY <2>1, <2>2, <2>3, <2>4
<1> QED BY <1>1, <1>2

LEMMA WriteType ==
    ASSUME LinkTypeOK, WholeOrDropped, NEW piece \in Seq(Byte), Write(piece)
    PROVE  LinkTypeOK' /\ WholeOrDropped'
<1>0. /\ w_buf \in Seq(Byte) /\ intended \in Seq(Byte) /\ w_overflow \in BOOLEAN
      /\ Len(w_buf) \in Nat /\ Len(w_buf) <= BufSize /\ Len(piece) \in Nat /\ Len(intended) \in Nat
      /\ BufSize \in Nat
  BY BufSizeAssumption, LenProperties DEF LinkTypeOK
<1>1. PICK room \in Nat : room = BufSize - Len(w_buf)
  <2>1. PICK n \in Nat : n = Len(w_buf)
    BY <1>0
  <2>2. BufSize - n \in Nat
    BY <1>0, <2>1
  <2> QED BY <2>1, <2>2
<1>2. PICK s \in Seq(Byte) : s = Stored(piece, room)
  BY StoredType
<1>3. Len(s) \in Nat /\ Len(s) <= room /\ (Len(piece) <= room => s = piece)
  BY <1>2, StoredType, LenProperties
<1>4. /\ w_buf' = w_buf \o s /\ (w_overflow' <=> (w_overflow \/ Len(piece) > room))
      /\ w_overflow' \in BOOLEAN
      /\ intended' = intended \o piece
  BY <1>1, <1>2 DEF Write
<1>5. w_buf' \in Seq(Byte) /\ Len(w_buf') = Len(w_buf) + Len(s)
  BY <1>0, <1>4, ConcatProperties
<1>6. intended' \in Seq(Byte) /\ Len(intended') = Len(intended) + Len(piece)
  BY <1>0, <1>4, ConcatProperties
<1>7. Len(w_buf') <= BufSize
  BY <1>0, <1>1, <1>3, <1>5
<1>8. LinkTypeOK'
  BY <1>4, <1>5, <1>6, <1>7 DEF LinkTypeOK, Write, line_vars
<1>9. WholeOrDropped'
  <2>1. CASE w_overflow'
    <3>1. Len(intended') > BufSize
      <4>1. CASE w_overflow
        <5>1. Len(intended) > BufSize
          BY <4>1 DEF WholeOrDropped
        <5> QED BY <1>0, <1>6, <5>1
      <4>2. CASE ~w_overflow
        <5>1. w_buf = intended /\ Len(piece) > room
          BY <1>4, <2>1, <4>2 DEF WholeOrDropped
        <5>2. Len(intended) + Len(piece) > BufSize
          BY <1>0, <1>1, <5>1
        <5> QED BY <1>6, <5>2
      <4> QED BY <4>1, <4>2
    <3> QED BY <2>1, <3>1 DEF WholeOrDropped
  <2>2. CASE ~w_overflow'
    <3>1. ~w_overflow /\ ~(Len(piece) > room)
      BY <1>4, <2>2
    <3>2. Len(piece) <= room /\ w_buf = intended
      BY <1>0, <3>1 DEF WholeOrDropped
    <3>3. w_buf' = intended'
      BY <1>3, <1>4, <3>2
    <3> QED BY <2>2, <3>3 DEF WholeOrDropped
  <2> QED BY <2>1, <2>2
<1> QED BY <1>8, <1>9

LEMMA DiscardType ==
    ASSUME Discard
    PROVE  /\ w_buf' \in Seq(Byte) /\ Len(w_buf') <= BufSize /\ w_overflow' \in BOOLEAN
           /\ intended' \in Seq(Byte) /\ WholeOrDropped'
<1>1. w_buf' = <<>> /\ intended' = <<>> /\ w_overflow' = FALSE
  BY DEF Discard
<1>2. w_buf' \in Seq(Byte) /\ intended' \in Seq(Byte) /\ Len(w_buf') = 0
  BY <1>1, EmptyOf
<1>3. 0 <= BufSize
  BY BufSizeAssumption
<1> QED BY <1>1, <1>2, <1>3 DEF WholeOrDropped

LEMMA PutType ==
    ASSUME LinkTypeOK, NEW payload \in Seq(Byte), PutFrame(payload, Framed)
    PROVE  /\ line' \in Seq(Sent) /\ sent' \in Seq(Seq(Byte))
           /\ UNCHANGED <<at, damaged, noise, delivered>>
<1>1. line \in Seq(Sent) /\ sent \in Seq(Seq(Byte)) /\ Len(sent) + 1 \in Nat
  BY LenProperties DEF LinkTypeOK, Sent
<1>2. PICK t \in Seq(Sent) : t = Tagged(Framed(payload), Len(sent) + 1)
  BY <1>1, FramedType, TaggedType
<1>3. line' = line \o t /\ sent' = Append(sent, payload)
  BY <1>2 DEF PutFrame
<1>4. line' \in Seq(Sent)
  BY <1>1, <1>3, ConcatProperties
<1>5. sent' \in Seq(Seq(Byte))
  BY <1>1, <1>3, AppendProperties
<1> QED BY <1>4, <1>5 DEF PutFrame

LEMMA TypeStep ==
    ASSUME TypeInv, FramingsNext
    PROVE  TypeInv'
<1>1. LinkTypeOK /\ FramersType /\ WholeOrDropped /\ framing \in {"cobs", "hdlc", "slip"}
  BY DEF TypeInv
<1>2. Moves /\ UNCHANGED framing
  <2>1. w_buf \in Seq(Byte)
    BY <1>1 DEF LinkTypeOK
  <2> QED BY <2>1, AllMoves
<1> DEFINE Kept == LinkTypeOK' /\ FramersType' /\ WholeOrDropped'
<1>w. ASSUME UNCHANGED writer_vars
      PROVE  /\ w_buf' \in Seq(Byte) /\ Len(w_buf') <= BufSize /\ w_overflow' \in BOOLEAN
             /\ intended' \in Seq(Byte) /\ WholeOrDropped'
  BY <1>1, <1>w DEF LinkTypeOK, WholeOrDropped, writer_vars
<1>3. ASSUME Writing PROVE Kept
  <2>1. PICK piece \in Seq(Byte) : Write(piece) /\ Rests
    BY <1>3 DEF Writing
  <2> QED BY <1>1, <2>1, WriteType, RestsType
<1>4. ASSUME Dropping PROVE Kept
  <2>1. Discard /\ Rests /\ UNCHANGED <<line_vars, delivered>>
    BY <1>4 DEF Dropping
  <2>2. LinkTypeOK'
    BY <1>1, <2>1, DiscardType DEF LinkTypeOK, line_vars
  <2> QED BY <1>1, <2>1, <2>2, DiscardType, RestsType
<1>5. ASSUME Putting PROVE Kept
  <2>1. PICK payload \in Seq(Byte) : PutFrame(payload, Framed) /\ (Discard \/ UNCHANGED writer_vars) /\ Rests
    BY <1>5 DEF Putting
  <2>2. /\ line' \in Seq(Sent) /\ sent' \in Seq(Seq(Byte))
        /\ UNCHANGED <<at, damaged, noise, delivered>>
    BY <1>1, <2>1, PutType
  <2>3. /\ w_buf' \in Seq(Byte) /\ Len(w_buf') <= BufSize /\ w_overflow' \in BOOLEAN
        /\ intended' \in Seq(Byte) /\ WholeOrDropped'
    BY <1>w, <2>1, DiscardType
  <2>4. LinkTypeOK'
    BY <1>1, <2>2, <2>3 DEF LinkTypeOK, Sent
  <2> QED BY <1>1, <2>1, <2>3, <2>4, RestsType
<1>6. ASSUME Receiving PROVE Kept
  <2>1. Taken /\ Reads(Head(line).byte) /\ UNCHANGED <<damaged, noise>>
    BY <1>6 DEF Receiving
  <2>2. Head(line).byte \in Byte
    BY <1>1, <2>1, TakenType DEF Sent
  <2>3. FramersType' /\ delivered' \in Seq(Seq(Byte))
    BY <1>1, <2>1, <2>2, ReadsType, GrowsType
  <2>4. line' \in Seq(Sent) /\ at' \in Nat /\ UNCHANGED <<writer_vars, sent>>
    BY <1>1, <2>1, TakenType DEF Taken
  <2>5. LinkTypeOK' /\ WholeOrDropped'
    BY <1>1, <1>w, <2>1, <2>3, <2>4 DEF LinkTypeOK, Sent
  <2> QED BY <2>3, <2>5
<1>7. ASSUME Changing PROVE Kept
  <2>1. PICK c \in Byte : Taken /\ Reads(c) /\ Noise(TakingHits)
    BY <1>7 DEF Changing
  <2>3. FramersType' /\ delivered' \in Seq(Seq(Byte))
    BY <1>1, <2>1, ReadsType, GrowsType
  <2>4. line # <<>> /\ line' \in Seq(Sent) /\ at' \in Nat /\ UNCHANGED <<writer_vars, sent>>
    BY <1>1, <2>1, TakenType DEF Taken
  <2>5. damaged' \subseteq Nat /\ noise' \in Nat
    BY <1>1, <2>1, <2>4, LineHits, NoiseType
  <2>6. LinkTypeOK' /\ WholeOrDropped'
    BY <1>1, <1>w, <2>1, <2>3, <2>4, <2>5 DEF LinkTypeOK, Sent
  <2> QED BY <2>3, <2>6
<1>8. ASSUME Adding PROVE Kept
  <2>1. PICK c \in Byte : Reads(c) /\ Noise(AddingHits(c)) /\ UNCHANGED <<writer_vars, line, sent, at>>
    BY <1>8 DEF Adding
  <2>3. FramersType' /\ delivered' \in Seq(Seq(Byte))
    BY <1>1, <2>1, ReadsType, GrowsType
  <2>5. damaged' \subseteq Nat /\ noise' \in Nat
    BY <1>1, <2>1, PlaceHits, NoiseType
  <2>6. LinkTypeOK' /\ WholeOrDropped'
    BY <1>1, <1>w, <2>1, <2>3, <2>5 DEF LinkTypeOK
  <2> QED BY <2>3, <2>6
<1>9. ASSUME Losing PROVE Kept
  <2>1. Taken /\ Noise(TakingHits) /\ UNCHANGED delivered /\ Rests
    BY <1>9 DEF Losing
  <2>4. line # <<>> /\ line' \in Seq(Sent) /\ at' \in Nat /\ UNCHANGED <<writer_vars, sent>>
    BY <1>1, <2>1, TakenType DEF Taken
  <2>5. damaged' \subseteq Nat /\ noise' \in Nat
    BY <1>1, <2>1, <2>4, LineHits, NoiseType
  <2>6. LinkTypeOK' /\ WholeOrDropped'
    BY <1>1, <1>w, <2>1, <2>4, <2>5 DEF LinkTypeOK, Sent
  <2> QED BY <1>1, <2>1, <2>6, RestsType
<1>10. ASSUME Resetting PROVE Kept
  <2>1. Resets /\ Noise(ResetHits) /\ UNCHANGED <<writer_vars, line, sent, at, delivered>>
    BY <1>10 DEF Resetting
  <2>5. damaged' \subseteq Nat /\ noise' \in Nat
    BY <1>1, <2>1, PlaceHits, NoiseType
  <2>6. LinkTypeOK' /\ WholeOrDropped'
    BY <1>1, <1>w, <2>1, <2>5 DEF LinkTypeOK
  <2> QED BY <1>1, <2>1, <2>6, ResetsType
<1>11. ASSUME Tuning PROVE Kept
  <2>1. /\ UNCHANGED <<link_vars, hdlc_state, hdlc_buf, overflowed, cobs_vars, slip_vars>>
        /\ flow_control' \in BOOLEAN
    BY <1>11 DEF Tuning
  <2>2. FramersType'
    BY <1>1, <2>1 DEF FramersType, CobsType, HdlcType, SlipType, cobs_vars, slip_vars
  <2>3. LinkTypeOK' /\ WholeOrDropped'
    BY <1>1, <2>1 DEF LinkTypeOK, WholeOrDropped, link_vars, writer_vars, line_vars
  <2> QED BY <2>2, <2>3
<1>12. Kept
  <2> HIDE DEF Kept
  <2> QED BY <1>2, <1>3, <1>4, <1>5, <1>6, <1>7, <1>8, <1>9, <1>10, <1>11 DEF Moves
<1>13. framing' \in {"cobs", "hdlc", "slip"}
  BY <1>1, <1>2
<1> QED BY <1>12, <1>13 DEF TypeInv

LEMMA TypeStays ==
    ASSUME TypeInv, [FramingsNext]_framings_vars
    PROVE  TypeInv'
<1>1. CASE FramingsNext
  BY <1>1, TypeStep
<1>2. CASE UNCHANGED framings_vars
  <2>1. LinkTypeOK /\ FramersType /\ WholeOrDropped /\ framing \in {"cobs", "hdlc", "slip"}
    BY DEF TypeInv
  <2>2. LinkTypeOK' /\ WholeOrDropped' /\ framing' \in {"cobs", "hdlc", "slip"}
    BY <1>2, <2>1 DEF LinkTypeOK, WholeOrDropped, framings_vars, vars, link_vars, writer_vars, line_vars
  <2>3. FramersType'
    BY <1>2, <2>1 DEF FramersType, CobsType, HdlcType, SlipType, framings_vars, vars, framer_vars,
                      hdlc_vars, slip_vars
  <2> QED BY <2>2, <2>3 DEF TypeInv
<1> QED BY <1>1, <1>2

LEMMA TypeAlways == FramingsSpec => []TypeInv
BY TypeInit, TypeStays, PTL DEF FramingsSpec

\* The variables of the writer, the line and the three framers are well typed: no framer
\* stores more than its buffer holds, whatever bytes arrive.
THEOREM FramingsTypes == FramingsSpec => []FramingsTypeOK
BY TypeInvImplies, TypeAlways, PTL

\* The device's writer frames all it was given or nothing, whatever the sizes of the
\* pieces it is given and of its buffer.
THEOREM WholeFramesOrNone == FramingsSpec => []FramingsWholeOrDropped
BY TypeInvImplies, TypeAlways, PTL

-----------------------------------------------------------------------------
(* COBS: a frame read byte by byte.                                        *)

\* The framer has read the first j bytes of the payload's frame, and nothing else.
CobsHolds(payload, j) ==
    /\ Len(raw) = (IF j <= BufSize + 1 THEN j ELSE BufSize + 1)
    /\ \A i \in 1..Len(raw) : raw[i] = Encode(payload)[i]
    /\ IF j <= BufSize + 1 THEN ~error ELSE error

CobsClean == raw = <<>> /\ error = FALSE

LEMMA CobsCleanHolds ==
    ASSUME NEW payload, CobsClean
    PROVE  CobsHolds(payload, 0)
<1>1. BufSize \in Nat
  BY BufSizeAssumption
<1>2. Len(raw) = 0 /\ error = FALSE
  BY DEF CobsClean
<1>3. 0 <= BufSize + 1
  BY <1>1
<1>4. \A i \in 1..Len(raw) : raw[i] = Encode(payload)[i]
  BY <1>2
<1> QED BY <1>2, <1>3, <1>4 DEF CobsHolds

LEMMA CobsEnds ==
    ASSUME ProcessByte(0)
    PROVE  CobsClean'
BY DEF ProcessByte, EndOfFrame, CobsClean

LEMMA CobsByte ==
    ASSUME CobsType, NEW payload \in Seq(Byte), NEW e \in Seq(Byte), e = Encode(payload),
           NEW j \in Nat, NEW k \in Nat, k = j + 1, k < Len(e), CobsHolds(payload, j),
           ProcessByte(e[k])
    PROVE  CobsHolds(payload, k)' /\ UNCHANGED delivered
<1>0. BufSize \in Nat /\ Len(raw) \in Nat /\ raw \in Seq(NonZero) /\ error \in BOOLEAN
  BY BufSizeAssumption, LenProperties DEF CobsType
<1>1. PICK x \in Seq(NonZero) : x = cobs_encode(payload)
  BY CobsEncodeType
<1>2. Len(e) = Len(x) + 1 /\ \A i \in 1..Len(x) : e[i] = x[i]
  BY <1>1, CobsFrameType
<1>3. k \in 1..Len(x)
  BY <1>2, LenProperties
<1>4. PICK c \in NonZero : c = e[k] /\ c # 0
  <2>1. x[k] \in NonZero
    BY <1>3, ElementOfSeq
  <2>2. x[k] # 0
    BY <2>1, NonZeroIs
  <2> QED BY <1>2, <1>3, <2>1, <2>2
<1>5. Store(c) /\ UNCHANGED delivered
  BY <1>4 DEF ProcessByte
<1>6. CASE Len(raw) < BufSize + 1
  <2>1. raw' = Append(raw, c) /\ error' = error
    BY <1>5, <1>6 DEF Store
  <2>2. Len(raw) = j /\ j <= BufSize + 1 /\ k <= BufSize + 1
    BY <1>0, <1>6 DEF CobsHolds
  <2>3. Len(raw') = k /\ raw'[k] = c /\ \A i \in 1..j : raw'[i] = raw[i]
    BY <1>0, <2>1, <2>2, AppendProperties
  <2>4. \A i \in 1..Len(raw') : raw'[i] = Encode(payload)[i]
    <3> TAKE i \in 1..Len(raw')
    <3>1. CASE i = k
      BY <1>4, <2>3, <3>1
    <3>2. CASE i # k
      <4>1. i \in 1..j
        BY <2>3, <3>2
      <4> QED BY <2>2, <2>3, <4>1 DEF CobsHolds
    <3> QED BY <3>1, <3>2
  <2>5. ~error'
    BY <2>1, <2>2 DEF CobsHolds
  <2> QED BY <1>5, <2>2, <2>3, <2>4, <2>5 DEF CobsHolds
<1>7. CASE ~(Len(raw) < BufSize + 1)
  <2>1. raw' = raw /\ error' = TRUE
    BY <1>5, <1>7 DEF Store
  <2>2. Len(raw) = BufSize + 1 /\ ~(k <= BufSize + 1)
    BY <1>0, <1>7 DEF CobsHolds
  <2>3. Len(raw') = BufSize + 1 /\ error'
    BY <2>1, <2>2
  <2>4. \A i \in 1..Len(raw') : raw'[i] = Encode(payload)[i]
    BY <2>1 DEF CobsHolds
  <2> QED BY <1>5, <2>2, <2>3, <2>4 DEF CobsHolds
<1> QED BY <1>6, <1>7

LEMMA CobsLast ==
    ASSUME CobsType, NEW payload \in Seq(Byte), NEW e \in Seq(Byte), e = Encode(payload),
           NEW j \in Nat, NEW k \in Nat, k = j + 1, k = Len(e), CobsHolds(payload, j),
           ProcessByte(e[k])
    PROVE  /\ CobsClean'
           /\ delivered' = IF Carried(payload) THEN Append(delivered, payload) ELSE delivered
<1>0. BufSize \in Nat /\ Len(raw) \in Nat /\ raw \in Seq(NonZero)
  BY BufSizeAssumption, LenProperties DEF CobsType
<1>1. PICK x \in Seq(NonZero) : x = cobs_encode(payload) /\ x # <<>>
  BY CobsEncodeType
<1>2. Len(e) = Len(x) + 1 /\ e[Len(x) + 1] = 0 /\ (\A i \in 1..Len(x) : e[i] = x[i]) /\ Len(x) \in Nat
  BY <1>1, CobsFrameType, LenProperties
<1>3. j = Len(x) /\ e[k] = 0
  BY <1>2
<1>4. EndOfFrame
  BY <1>3 DEF ProcessByte
<1>5. Carried(payload) <=> j <= BufSize + 1
  BY <1>1, <1>3 DEF Carried
<1>6. CobsClean'
  BY <1>3, CobsEnds
<1>7. CASE Carried(payload)
  <2>1. Len(raw) = Len(x)
    BY <1>0, <1>3, <1>5, <1>7 DEF CobsHolds
  <2>2. \A i \in 1..Len(x) : raw[i] = x[i]
    BY <1>2, <2>1 DEF CobsHolds
  <2>3. raw = x
    BY <1>0, <2>1, <2>2, SeqEqual
  <2>4. ~error
    BY <1>5, <1>7 DEF CobsHolds
  <2>5. cobs_decode(raw).ok /\ cobs_decode(raw).bytes = payload
    BY <1>1, <2>3, CobsRoundTrip
  <2>6. delivered' = Append(delivered, payload)
    BY <1>1, <1>4, <2>3, <2>4, <2>5 DEF EndOfFrame
  <2> QED BY <1>6, <1>7, <2>6
<1>8. CASE ~Carried(payload)
  <2>2. error
    BY <1>5, <1>8 DEF CobsHolds
  <2>3. delivered' = delivered
    BY <1>4, <2>2 DEF EndOfFrame
  <2> QED BY <1>6, <1>8, <2>3
<1> QED BY <1>7, <1>8

-----------------------------------------------------------------------------
(* SLIP: a frame read byte by byte.                                        *)

\* What a framer with room for n bytes stores of x.
Keeps(store, x, m, n) ==
    /\ Len(store) = (IF m <= n THEN m ELSE n)
    /\ \A i \in 1..Len(store) : store[i] = x[i]

LEMMA KeepsNext ==
    ASSUME NEW S, NEW store \in Seq(S), NEW x, NEW m \in Nat, NEW n \in Nat, Keeps(store, x, m, n),
           m < n, NEW k, k = m + 1, NEW c \in S, c = x[k], NEW more, more = Append(store, c)
    PROVE  Keeps(more, x, k, n)
<1>1. Len(store) = m /\ k <= n
  BY DEF Keeps
<1>2. Len(more) = k /\ more[k] = c /\ \A i \in 1..m : more[i] = store[i]
  BY <1>1, AppendProperties
<1>3. \A i \in 1..Len(more) : more[i] = x[i]
  <2> TAKE i \in 1..Len(more)
  <2>1. CASE i = k
    BY <1>2, <2>1
  <2>2. CASE i # k
    <3>1. i \in 1..m
      BY <1>2, <2>2
    <3> QED BY <1>1, <1>2, <3>1 DEF Keeps
  <2> QED BY <2>1, <2>2
<1> QED BY <1>1, <1>2, <1>3 DEF Keeps

SlipUpto(payload, m) ==
    /\ Keeps(slip_buf, payload, m, BufSize)
    /\ IF m <= BufSize THEN ~slip_error ELSE slip_error

SlipInside(payload) == FlattenSeq(SlipParts(payload))

\* The framer has read the first j bytes of the payload's frame, j > 0: m bytes of
\* the payload and, when q = 1, an ESC.
SlipPlace(payload, e, m, q, j) ==
    /\ At(SlipInside(payload), SlipParts(payload), e, m, q, j)
    /\ IF q = 1 THEN slip_escape ELSE ~slip_escape
    /\ SlipUpto(payload, m)

SlipHolds(payload, j) == \E e, m, q : SlipPlace(payload, e, m, q, j)

SlipClean == slip_buf = <<>> /\ ~slip_error /\ ~slip_escape

Special(c) == c \in {Slip!END_BYTE, Slip!ESC}

LEMMA SlipCodes ==
    ASSUME NEW c \in Byte
    PROVE  IF Special(c)
           THEN \E d \in Byte : /\ Slip!Stuffed(c) = <<Slip!ESC, d>> /\ ~Special(d)
                                /\ d \in DOMAIN Slip!Unescaped /\ Slip!Unescaped[d] = c
           ELSE Slip!Stuffed(c) = <<c>>
<1> USE DEF Special, Slip!END_BYTE, Slip!ESC, Slip!ESC_END, Slip!ESC_ESC
<1>1. CASE c = 192
  <2>1. 220 \in Byte /\ Slip!Stuffed(c) = <<219, 220>>
    BY <1>1 DEF Slip!Stuffed, Byte
  <2>2. 220 \in DOMAIN Slip!Unescaped /\ Slip!Unescaped[220] = 192
    BY DEF Slip!Unescaped
  <2> QED BY <1>1, <2>1, <2>2
<1>2. CASE c = 219
  <2>1. 221 \in Byte /\ Slip!Stuffed(c) = <<219, 221>>
    BY <1>2 DEF Slip!Stuffed, Byte
  <2>2. 221 \in DOMAIN Slip!Unescaped /\ Slip!Unescaped[221] = 219
    BY DEF Slip!Unescaped
  <2> QED BY <1>2, <2>1, <2>2
<1>3. CASE c # 192 /\ c # 219
  BY <1>3 DEF Slip!Stuffed
<1> QED BY <1>1, <1>2, <1>3

LEMMA SlipPairs ==
    ASSUME NEW payload \in Seq(Byte)
    PROVE  Pairs(SlipParts(payload))
<1>1. Len(SlipParts(payload)) = Len(payload) /\ Len(payload) \in Nat
  BY SlipPartsType, LenProperties
<1>2. ASSUME NEW m \in 1..Len(payload) PROVE Len(SlipParts(payload)[m]) \in {1, 2}
  <2>1. SlipParts(payload)[m] = Slip!Stuffed(payload[m])
    BY DEF SlipParts
  <2>2. payload[m] \in Byte
    BY ElementOfSeq
  <2>3. PICK c \in Byte : c = payload[m]
    BY <2>2
  <2>4. Len(Slip!Stuffed(c)) \in {1, 2}
    <3>1. CASE Special(c)
      <4>1. PICK d \in Byte : Slip!Stuffed(c) = <<Slip!ESC, d>>
        BY <3>1, SlipCodes
      <4> QED BY <4>1
    <3>2. CASE ~Special(c)
      <4>1. Slip!Stuffed(c) = <<c>>
        BY <3>2, SlipCodes
      <4> QED BY <4>1
    <3> QED BY <3>1, <3>2
  <2> QED BY <2>1, <2>3, <2>4
<1> QED BY <1>1, <1>2 DEF Pairs

LEMMA SlipStores ==
    ASSUME SlipType, NEW payload \in Seq(Byte), NEW m \in Nat, SlipUpto(payload, m),
           NEW k \in 1..Len(payload), k = m + 1, Slip!Store(payload[k])
    PROVE  SlipUpto(payload, k)'
<1>0. BufSize \in Nat /\ slip_buf \in Seq(Byte) /\ Len(slip_buf) \in Nat
  BY BufSizeAssumption, LenProperties DEF SlipType
<1>1. PICK c \in Byte : c = payload[k]
  BY ElementOfSeq
<1>2. Keeps(slip_buf, payload, m, BufSize)
  BY DEF SlipUpto
<1>3. CASE m < BufSize
  <2>1. Len(slip_buf) = m /\ m <= BufSize /\ k <= BufSize
    BY <1>0, <1>2, <1>3 DEF Keeps
  <2>2. slip_buf' = Append(slip_buf, c) /\ slip_error' = slip_error
    BY <1>1, <1>3, <2>1 DEF Slip!Store
  <2>3. PICK more : more = Append(slip_buf, c)
    OBVIOUS
  <2>4. Keeps(more, payload, k, BufSize)
    BY <1>0, <1>1, <1>2, <1>3, <2>3, KeepsNext
  <2>5. ~slip_error'
    BY <2>1, <2>2 DEF SlipUpto
  <2>6. Keeps(slip_buf, payload, k, BufSize)'
    BY <2>2, <2>3, <2>4 DEF Keeps
  <2> QED BY <2>1, <2>5, <2>6 DEF SlipUpto
<1>4. CASE ~(m < BufSize)
  <2>1. Len(slip_buf) = BufSize /\ ~(k <= BufSize)
    BY <1>0, <1>2, <1>4 DEF Keeps
  <2>2. slip_buf' = slip_buf /\ slip_error'
    BY <1>0, <2>1 DEF Slip!Store
  <2>3. Keeps(slip_buf, payload, k, BufSize)
    BY <1>2, <2>1 DEF Keeps
  <2>4. Keeps(slip_buf, payload, k, BufSize)'
    BY <2>2, <2>3 DEF Keeps
  <2> QED BY <2>1, <2>2, <2>4 DEF SlipUpto
<1> QED BY <1>3, <1>4

LEMMA SlipEnds ==
    ASSUME Slip!ProcessByte(Slip!END_BYTE)
    PROVE  SlipClean' /\ (SlipClean => UNCHANGED delivered)
<1>1. Slip!EndOfFrame
  BY DEF Slip!ProcessByte, Slip!END_BYTE, Slip!ESC
<1> QED BY <1>1 DEF Slip!EndOfFrame, SlipClean

LEMMA SlipFirst ==
    ASSUME NEW payload \in Seq(Byte), Slip!ProcessByte(Slip!END_BYTE)
    PROVE  SlipHolds(payload, 1)'
<1>1. SlipClean'
  BY SlipEnds
<1>2. PICK e : Layout(SlipInside(payload), SlipParts(payload), e)
  BY SlipPartsType, LayoutExists DEF SlipInside
<1>3. At(SlipInside(payload), SlipParts(payload), e, 0, 0, 1)
  BY <1>2, SlipPartsType, LenProperties, AtStart
<1>4. SlipUpto(payload, 0)'
  <2>1. 0 <= BufSize
    BY BufSizeAssumption
  <2>2. Len(slip_buf') = 0 /\ ~slip_error'
    BY <1>1 DEF SlipClean
  <2> QED BY <2>1, <2>2 DEF SlipUpto, Keeps
<1>5. SlipPlace(payload, e, 0, 0, 1)'
  BY <1>1, <1>3, <1>4 DEF SlipPlace, SlipClean
<1> QED BY <1>5 DEF SlipHolds

\* A byte of the inside of the frame; the frame's own byte k is byte j of the inside.
LEMMA SlipByte ==
    ASSUME SlipType, NEW payload \in Seq(Byte), NEW j \in Nat, j <= Len(SlipInside(payload)),
           SlipHolds(payload, j), Slip!ProcessByte(SlipInside(payload)[j])
    PROVE  SlipHolds(payload, j + 1)' /\ UNCHANGED delivered
<1>1. PICK parts \in Seq(Seq(Byte)), d \in Seq(Byte) :
          parts = SlipParts(payload) /\ d = SlipInside(payload) /\ Pairs(parts)
  <2>1. SlipInside(payload) \in Seq(Byte)
    BY SlipPartsType, FlattenType DEF SlipInside
  <2> QED BY <2>1, SlipPartsType, SlipPairs
<1>2. PICK e, m, q : SlipPlace(payload, e, m, q, j)
  BY DEF SlipHolds
<1>3. At(d, parts, e, m, q, j)
  BY <1>1, <1>2 DEF SlipPlace
<1>4. m \in Nat /\ q \in Nat
  BY <1>3, AtType
<1>5. Goes(d, parts, e, m, q, j)
  BY <1>1, <1>3, <1>4, AtNext
<1>6. PICK k \in 1..Len(payload) : k = m + 1
  <2>1. Len(parts) = Len(payload) /\ Len(payload) \in Nat
    BY <1>1, SlipPartsType, LenProperties
  <2> QED BY <1>4, <1>5, <2>1 DEF Goes
<1>7. PICK c \in Byte : c = payload[k]
  BY ElementOfSeq
<1>8. parts[k] = Slip!Stuffed(c)
  BY <1>1, <1>7 DEF SlipParts
<1>9. d[j] = parts[k][q + 1] /\ Slip!ProcessByte(d[j])
  BY <1>1, <1>5, <1>6 DEF Goes
<1>10. q = 0 \/ q = 1
  BY <1>3 DEF At
<1>s. ASSUME Slip!Store(c), slip_escape' = FALSE, UNCHANGED delivered, q + 1 = Len(parts[k])
      PROVE  SlipHolds(payload, j + 1)' /\ UNCHANGED delivered
  <2>1. SlipUpto(payload, k)'
    BY <1>2, <1>4, <1>6, <1>7, <1>s, SlipStores DEF SlipPlace
  <2>2. At(d, parts, e, k, 0, j + 1)
    BY <1>5, <1>6, <1>s DEF Goes
  <2>3. SlipPlace(payload, e, k, 0, j + 1)'
    BY <1>1, <1>s, <2>1, <2>2 DEF SlipPlace
  <2> QED BY <1>s, <2>3 DEF SlipHolds
<1>11. CASE ~Special(c)
  <2>1. parts[k] = <<c>> /\ Len(parts[k]) = 1
    BY <1>8, <1>11, SlipCodes
  <2>2. q = 0
    BY <1>6, <1>10, <2>1, <1>3 DEF At
  <2>3. d[j] = c /\ q + 1 = Len(parts[k])
    BY <1>9, <2>1, <2>2
  <2>4. ~slip_escape
    BY <1>2, <2>2 DEF SlipPlace
  <2>5. Slip!Store(c) /\ UNCHANGED <<slip_escape, delivered>>
    BY <1>9, <1>11, <2>3, <2>4 DEF Slip!ProcessByte, Special
  <2>6. slip_escape' = FALSE
    BY <2>4, <2>5 DEF SlipType
  <2> QED BY <1>s, <2>3, <2>5, <2>6
<1>12. CASE Special(c)
  <2>1. PICK u \in Byte : /\ parts[k] = <<Slip!ESC, u>> /\ ~Special(u)
                          /\ u \in DOMAIN Slip!Unescaped /\ Slip!Unescaped[u] = c
    BY <1>8, <1>12, SlipCodes
  <2>2. Len(parts[k]) = 2 /\ parts[k][1] = Slip!ESC /\ parts[k][2] = u
    BY <2>1
  <2>3. CASE q = 0
    <3>1. d[j] = Slip!ESC
      BY <1>9, <2>2, <2>3
    <3>2. slip_escape' = TRUE /\ UNCHANGED <<slip_buf, slip_error, delivered>>
      BY <1>9, <3>1 DEF Slip!ProcessByte, Slip!ESC, Slip!END_BYTE
    <3>3. At(d, parts, e, m, 1, j + 1)
      BY <1>5, <1>6, <2>2, <2>3 DEF Goes
    <3>4. SlipUpto(payload, m)'
      BY <1>2, <3>2 DEF SlipPlace, SlipUpto, Keeps
    <3>5. SlipPlace(payload, e, m, 1, j + 1)'
      BY <1>1, <3>2, <3>3, <3>4 DEF SlipPlace
    <3> QED BY <3>2, <3>5 DEF SlipHolds
  <2>4. CASE q = 1
    <3>1. d[j] = u /\ q + 1 = Len(parts[k])
      BY <1>9, <2>2, <2>4
    <3>2. slip_escape
      BY <1>2, <2>4 DEF SlipPlace
    <3>3. slip_escape' = FALSE /\ Slip!Store(c) /\ UNCHANGED delivered
      BY <1>9, <2>1, <3>1, <3>2 DEF Slip!ProcessByte, Special
    <3> QED BY <1>s, <3>1, <3>3
  <2> QED BY <1>10, <2>3, <2>4
<1> QED BY <1>11, <1>12

\* The END at the end of the frame.
LEMMA SlipLast ==
    ASSUME SlipType, NEW payload \in Seq(Byte), NEW j \in Nat, j = Len(SlipInside(payload)) + 1,
           SlipHolds(payload, j), Slip!ProcessByte(Slip!END_BYTE)
    PROVE  /\ SlipClean'
           /\ delivered' = IF Slip!Carried(payload) THEN Append(delivered, payload) ELSE delivered
<1>0. BufSize \in Nat /\ slip_buf \in Seq(Byte) /\ Len(payload) \in Nat
  BY BufSizeAssumption, LenProperties DEF SlipType
<1>1. PICK parts \in Seq(Seq(Byte)), d \in Seq(Byte) :
          parts = SlipParts(payload) /\ d = SlipInside(payload) /\ Pairs(parts)
  <2>1. SlipInside(payload) \in Seq(Byte)
    BY SlipPartsType, FlattenType DEF SlipInside
  <2> QED BY <2>1, SlipPartsType, SlipPairs
<1>2. PICK e, m, q : SlipPlace(payload, e, m, q, j)
  BY DEF SlipHolds
<1>3. At(d, parts, e, m, q, j)
  BY <1>1, <1>2 DEF SlipPlace
<1>4. m \in Nat /\ q \in Nat
  BY <1>3, AtType
<1>5. m = Len(payload)
  <2>1. j > Len(d)
    BY <1>1, LenProperties
  <2>2. m = Len(parts)
    BY <1>1, <1>3, <1>4, <2>1, AtNext
  <2> QED BY <1>1, <2>2, SlipPartsType
<1>6. SlipUpto(payload, m)
  BY <1>2 DEF SlipPlace
<1>7. Slip!EndOfFrame
  BY DEF Slip!ProcessByte, Slip!END_BYTE, Slip!ESC
<1>8. SlipClean'
  BY SlipEnds
<1>9. CASE m <= BufSize
  <2>1. Len(slip_buf) = Len(payload) /\ ~slip_error
    BY <1>5, <1>6, <1>9 DEF SlipUpto, Keeps
  <2>2. slip_buf = payload
    <3>1. \A i \in 1..Len(payload) : slip_buf[i] = payload[i]
      BY <1>6, <2>1 DEF SlipUpto, Keeps
    <3> QED BY <1>0, <2>1, <3>1, SeqEqual
  <2>3. Slip!Carried(payload) <=> payload # <<>>
    <3>1. payload # <<>> <=> Len(payload) # 0
      BY EmptySeq
    <3> QED BY <1>0, <1>5, <1>9, <3>1 DEF Slip!Carried
  <2> QED BY <1>7, <1>8, <2>1, <2>2, <2>3 DEF Slip!EndOfFrame
<1>10. CASE ~(m <= BufSize)
  <2>1. slip_error
    BY <1>6, <1>10 DEF SlipUpto
  <2>2. ~Slip!Carried(payload)
    BY <1>0, <1>5, <1>10 DEF Slip!Carried
  <2> QED BY <1>7, <1>8, <2>1, <2>2 DEF Slip!EndOfFrame
<1> QED BY <1>9, <1>10

-----------------------------------------------------------------------------
(* HDLC: a frame read byte by byte.                                        *)

HdlcInside(payload) == FlattenSeq(HdlcParts(payload))

\* The framer has read the first j bytes of the payload's frame, j > 0: m bytes of
\* the payload and its checksum and, when q = 1, an ESC.
HdlcPlace(payload, e, m, q, j) ==
    /\ At(HdlcInside(payload), HdlcParts(payload), e, m, q, j)
    /\ hdlc_state = IF q = 1 THEN "ESCAPE" ELSE "IN_FRAME"
    /\ Keeps(hdlc_buf, Content(payload), m, BufSize)

HdlcHolds(payload, j) == \E e, m, q : HdlcPlace(payload, e, m, q, j)

Escaped(c) == c \in {Hdlc!FLAG, Hdlc!ESC}

LEMMA HdlcCodes ==
    ASSUME NEW c \in Byte
    PROVE  IF Escaped(c)
           THEN \E d \in Byte : Hdlc!Stuffed(c) = <<Hdlc!ESC, d>> /\ d # Hdlc!FLAG /\ Hdlc!Toggle(d) = c
           ELSE Hdlc!Stuffed(c) = <<c>>
<1> USE DEF Escaped, Hdlc!FLAG, Hdlc!ESC
<1>1. CASE c = 126
  <2>1. Hdlc!Toggle(126) = 94 /\ Hdlc!Toggle(94) = 126
    BY DEF Hdlc!Toggle
  <2>2. 94 \in Byte /\ Hdlc!Stuffed(c) = <<125, 94>>
    BY <1>1, <2>1 DEF Hdlc!Stuffed, Byte
  <2> QED BY <1>1, <2>1, <2>2
<1>2. CASE c = 125
  <2>1. Hdlc!Toggle(125) = 93 /\ Hdlc!Toggle(93) = 125
    BY DEF Hdlc!Toggle
  <2>2. 93 \in Byte /\ Hdlc!Stuffed(c) = <<125, 93>>
    BY <1>2, <2>1 DEF Hdlc!Stuffed, Byte
  <2> QED BY <1>2, <2>1, <2>2
<1>3. CASE c # 126 /\ c # 125
  BY <1>3 DEF Hdlc!Stuffed
<1> QED BY <1>1, <1>2, <1>3

LEMMA HdlcPairs ==
    ASSUME NEW payload \in Seq(Byte)
    PROVE  Pairs(HdlcParts(payload))
<1>1. PICK s \in Seq(Byte) : s = Content(payload)
  BY ContentType
<1>2. Len(HdlcParts(payload)) = Len(s) /\ Len(s) \in Nat
  BY <1>1, HdlcPartsType, LenProperties
<1>3. ASSUME NEW m \in 1..Len(s) PROVE Len(HdlcParts(payload)[m]) \in {1, 2}
  <2>1. HdlcParts(payload)[m] = Hdlc!Stuffed(s[m])
    BY <1>1 DEF HdlcParts
  <2>2. s[m] \in Byte
    BY ElementOfSeq
  <2>3. PICK c \in Byte : c = s[m]
    BY <2>2
  <2>4. Len(Hdlc!Stuffed(c)) \in {1, 2}
    <3>1. CASE Escaped(c)
      <4>1. PICK d \in Byte : Hdlc!Stuffed(c) = <<Hdlc!ESC, d>>
        BY <3>1, HdlcCodes
      <4> QED BY <4>1
    <3>2. CASE ~Escaped(c)
      <4>1. Hdlc!Stuffed(c) = <<c>>
        BY <3>2, HdlcCodes
      <4> QED BY <4>1
    <3> QED BY <3>1, <3>2
  <2> QED BY <2>1, <2>3, <2>4
<1> QED BY <1>2, <1>3 DEF Pairs

LEMMA HdlcFlag ==
    ASSUME HdlcType
    PROVE  ~Hdlc!FlowByte(Hdlc!FLAG) /\ Hdlc!FLAG # Hdlc!ESC
BY DEF Hdlc!FlowByte, Hdlc!FLAG, Hdlc!XON, Hdlc!XOFF, Hdlc!ESC

\* A FLAG opens a frame in every state.
LEMMA HdlcOpens ==
    ASSUME HdlcType, Hdlc!ProcessByte(Hdlc!FLAG)
    PROVE  hdlc_state' = "IN_FRAME" /\ hdlc_buf' = <<>> /\ Grows
<1>1. Grows
  <2>1. Hdlc!FLAG \in Byte
    BY DEF Hdlc!FLAG, Byte
  <2> QED BY <2>1, HdlcReadsType
<1>2. Hdlc!ClearBuf /\ hdlc_state' = "IN_FRAME"
  <2>1. CASE hdlc_state \in {"IDLE", "ERROR"}
    BY <2>1, HdlcFlag DEF Hdlc!ProcessByte
  <2>2. CASE hdlc_state = "IN_FRAME"
    BY <2>2, HdlcFlag DEF Hdlc!ProcessByte
  <2>3. CASE hdlc_state = "ESCAPE"
    BY <2>3, HdlcFlag DEF Hdlc!ProcessByte
  <2> QED BY <2>1, <2>2, <2>3 DEF HdlcType
<1> QED BY <1>1, <1>2 DEF Hdlc!ClearBuf

LEMMA HdlcFirst ==
    ASSUME HdlcType, NEW payload \in Seq(Byte), Hdlc!ProcessByte(Hdlc!FLAG)
    PROVE  HdlcHolds(payload, 1)' /\ Grows
<1>1. hdlc_state' = "IN_FRAME" /\ hdlc_buf' = <<>> /\ Grows
  BY HdlcOpens
<1>2. PICK e : Layout(HdlcInside(payload), HdlcParts(payload), e)
  BY HdlcPartsType, LayoutExists DEF HdlcInside
<1>3. At(HdlcInside(payload), HdlcParts(payload), e, 0, 0, 1)
  <2>1. Len(HdlcParts(payload)) \in Nat
    BY HdlcPartsType, LenProperties
  <2> QED BY <1>2, <2>1, AtStart
<1>4. Keeps(hdlc_buf, Content(payload), 0, BufSize)'
  <2>1. 0 <= BufSize
    BY BufSizeAssumption
  <2>2. Len(hdlc_buf') = 0
    BY <1>1
  <2> QED BY <2>1, <2>2 DEF Keeps
<1>5. HdlcPlace(payload, e, 0, 0, 1)'
  BY <1>1, <1>3, <1>4 DEF HdlcPlace
<1> QED BY <1>1, <1>5 DEF HdlcHolds

\* No byte of the frame's inside is taken for flow control.
LEMMA HdlcNoFlow ==
    ASSUME HdlcType, NEW payload \in Seq(Byte), Hdlc!Carried(payload),
           NEW k \in 1..Len(Hdlc!Encode(payload))
    PROVE  ~Hdlc!FlowByte(Hdlc!Encode(payload)[k])
<1>1. PICK e \in Seq(Byte) : e = Hdlc!Encode(payload)
  BY HdlcEncodeType
<1>2. e[k] \in Hdlc!Range(e)
  <2>1. k \in DOMAIN e
    BY <1>1
  <2> QED BY <2>1 DEF Hdlc!Range
<1>3. flow_control => Hdlc!Range(e) \cap {Hdlc!XON, Hdlc!XOFF} = {}
  BY <1>1 DEF Hdlc!Carried
<1> QED BY <1>1, <1>2, <1>3 DEF Hdlc!FlowByte

\* A byte of the inside of a frame.
LEMMA HdlcByte ==
    ASSUME HdlcType, NEW payload \in Seq(Byte), Hdlc!Carried(payload),
           NEW j \in Nat, j <= Len(HdlcInside(payload)),
           NEW b, b = HdlcInside(payload)[j], ~Hdlc!FlowByte(b),
           HdlcHolds(payload, j), Hdlc!ProcessByte(b)
    PROVE  HdlcHolds(payload, j + 1)' /\ UNCHANGED delivered
<1>0. BufSize \in Nat /\ hdlc_buf \in Seq(Byte) /\ Len(hdlc_buf) \in Nat
  BY BufSizeAssumption, LenProperties DEF HdlcType
<1>1. PICK parts \in Seq(Seq(Byte)), d \in Seq(Byte), s \in Seq(Byte) :
          /\ parts = HdlcParts(payload) /\ d = HdlcInside(payload) /\ s = Content(payload)
          /\ Pairs(parts) /\ Len(parts) = Len(s)
  <2>1. HdlcInside(payload) \in Seq(Byte)
    BY HdlcPartsType, FlattenType DEF HdlcInside
  <2>2. HdlcParts(payload) \in Seq(Seq(Byte)) /\ Content(payload) \in Seq(Byte)
    BY HdlcPartsType, ContentType
  <2> QED BY <2>1, <2>2, HdlcPartsType, HdlcPairs
<1>2. PICK e, m, q : HdlcPlace(payload, e, m, q, j)
  BY DEF HdlcHolds
<1>3. At(d, parts, e, m, q, j)
  BY <1>1, <1>2 DEF HdlcPlace
<1>4. m \in Nat /\ q \in Nat
  BY <1>3, AtType
<1>5. Goes(d, parts, e, m, q, j)
  BY <1>1, <1>3, <1>4, AtNext
<1>n. Len(s) \in Nat /\ Len(s) <= BufSize
  <2>1. Len(s) = Len(payload) + 2 /\ Len(payload) + 2 <= BufSize
    BY <1>1, ContentType DEF Hdlc!Carried
  <2> QED BY <2>1, LenProperties
<1>6. PICK k \in 1..Len(s) : k = m + 1
  <2>1. m < Len(s)
    BY <1>1, <1>5 DEF Goes
  <2> QED BY <1>4, <1>n, <2>1
<1>m. m < BufSize
  <2>1. PICK n \in Nat : n = Len(s) /\ n <= BufSize
    BY <1>n
  <2>2. k \in 1..n /\ k = m + 1
    BY <1>6, <2>1
  <2> QED BY <1>0, <1>4, <2>1, <2>2
<1>7. PICK c \in Byte : c = s[k]
  BY ElementOfSeq
<1>8. parts[k] = Hdlc!Stuffed(c)
  BY <1>1, <1>7 DEF HdlcParts
<1>9. b = parts[k][q + 1]
  BY <1>1, <1>5, <1>6 DEF Goes
<1>10. q = 0 \/ q = 1
  BY <1>3 DEF At
<1>k. Keeps(hdlc_buf, s, m, BufSize)
  BY <1>1, <1>2 DEF HdlcPlace
<1>s. ASSUME NEW next, Hdlc!Store(c, "IN_FRAME", next), UNCHANGED delivered, q + 1 = Len(parts[k])
      PROVE  HdlcHolds(payload, j + 1)' /\ UNCHANGED delivered
  <2>1. Len(hdlc_buf) < BufSize
    BY <1>4, <1>k, <1>m DEF Keeps
  <2>2. hdlc_buf' = Append(hdlc_buf, c) /\ hdlc_state' = "IN_FRAME"
    BY <1>s, <2>1 DEF Hdlc!Store
  <2>3. PICK more : more = Append(hdlc_buf, c)
    OBVIOUS
  <2>4. Keeps(more, s, k, BufSize)
    BY <1>0, <1>4, <1>6, <1>7, <1>k, <1>m, <2>3, KeepsNext
  <2>5. Keeps(hdlc_buf, s, k, BufSize)'
    BY <2>2, <2>3, <2>4 DEF Keeps
  <2>6. At(d, parts, e, k, 0, j + 1)
    BY <1>5, <1>6, <1>s DEF Goes
  <2>7. HdlcPlace(payload, e, k, 0, j + 1)'
    BY <1>1, <2>2, <2>5, <2>6 DEF HdlcPlace
  <2> QED BY <1>s, <2>7 DEF HdlcHolds
<1>11. CASE ~Escaped(c)
  <2>1. parts[k] = <<c>> /\ Len(parts[k]) = 1
    BY <1>8, <1>11, HdlcCodes
  <2>2. q = 0
    BY <1>6, <1>10, <2>1, <1>3 DEF At
  <2>3. b = c /\ q + 1 = Len(parts[k])
    BY <1>9, <2>1, <2>2
  <2>4. hdlc_state = "IN_FRAME"
    BY <1>2, <2>2 DEF HdlcPlace
  <2>5. Hdlc!Store(c, "IN_FRAME", "ERROR") /\ UNCHANGED delivered
    BY <1>11, <2>3, <2>4 DEF Hdlc!ProcessByte, Escaped
  <2> QED BY <1>s, <2>3, <2>5
<1>12. CASE Escaped(c)
  <2>1. PICK u \in Byte : parts[k] = <<Hdlc!ESC, u>> /\ u # Hdlc!FLAG /\ Hdlc!Toggle(u) = c
    BY <1>8, <1>12, HdlcCodes
  <2>2. Len(parts[k]) = 2 /\ parts[k][1] = Hdlc!ESC /\ parts[k][2] = u
    BY <2>1
  <2>3. CASE q = 0
    <3>1. b = Hdlc!ESC /\ hdlc_state = "IN_FRAME"
      BY <1>2, <1>9, <2>2, <2>3 DEF HdlcPlace
    <3>2. hdlc_state' = "ESCAPE" /\ UNCHANGED <<hdlc_buf, overflowed, delivered>>
      BY <3>1, HdlcFlag DEF Hdlc!ProcessByte
    <3>3. At(d, parts, e, m, 1, j + 1)
      BY <1>5, <1>6, <2>2, <2>3 DEF Goes
    <3>4. Keeps(hdlc_buf, s, m, BufSize)'
      BY <1>k, <3>2 DEF Keeps
    <3>5. HdlcPlace(payload, e, m, 1, j + 1)'
      BY <1>1, <3>2, <3>3, <3>4 DEF HdlcPlace
    <3> QED BY <3>2, <3>5 DEF HdlcHolds
  <2>4. CASE q = 1
    <3>1. b = u /\ q + 1 = Len(parts[k])
      BY <1>9, <2>2, <2>4
    <3>2. hdlc_state = "ESCAPE"
      BY <1>2, <2>4 DEF HdlcPlace
    <3>3. Hdlc!Store(c, "IN_FRAME", "IN_FRAME") /\ UNCHANGED delivered
      BY <2>1, <3>1, <3>2 DEF Hdlc!ProcessByte
    <3> QED BY <1>s, <3>1, <3>3
  <2> QED BY <1>10, <2>3, <2>4
<1> QED BY <1>11, <1>12

\* The FLAG at the end of a frame.
LEMMA HdlcLast ==
    ASSUME HdlcType, NEW payload \in Seq(Byte), Hdlc!Carried(payload),
           NEW j \in Nat, j = Len(HdlcInside(payload)) + 1,
           HdlcHolds(payload, j), Hdlc!ProcessByte(Hdlc!FLAG)
    PROVE  delivered' = Append(delivered, payload)
<1>0. BufSize \in Nat /\ hdlc_buf \in Seq(Byte) /\ Len(hdlc_buf) \in Nat
  BY BufSizeAssumption, LenProperties DEF HdlcType
<1>1. PICK parts \in Seq(Seq(Byte)), d \in Seq(Byte), s \in Seq(Byte) :
          /\ parts = HdlcParts(payload) /\ d = HdlcInside(payload) /\ s = Content(payload)
          /\ Pairs(parts) /\ Len(parts) = Len(s)
  <2>1. HdlcInside(payload) \in Seq(Byte)
    BY HdlcPartsType, FlattenType DEF HdlcInside
  <2>2. HdlcParts(payload) \in Seq(Seq(Byte)) /\ Content(payload) \in Seq(Byte)
    BY HdlcPartsType, ContentType
  <2> QED BY <2>1, <2>2, HdlcPartsType, HdlcPairs
<1>2. PICK e, m, q : HdlcPlace(payload, e, m, q, j)
  BY DEF HdlcHolds
<1>3. At(d, parts, e, m, q, j)
  BY <1>1, <1>2 DEF HdlcPlace
<1>4. m \in Nat /\ q \in Nat
  BY <1>3, AtType
<1>5. m = Len(s) /\ q = 0
  <2>1. j > Len(d)
    BY <1>1, LenProperties
  <2> QED BY <1>1, <1>3, <1>4, <2>1, AtNext
<1>n. PICK n \in Nat, p \in Nat : n = Len(s) /\ p = Len(payload) /\ n = p + 2 /\ n <= BufSize
  <2>1. Len(s) = Len(payload) + 2 /\ Len(payload) + 2 <= BufSize /\ Len(payload) \in Nat
    BY <1>1, ContentType, LenProperties DEF Hdlc!Carried
  <2> QED BY <2>1
<1>6. Keeps(hdlc_buf, s, m, BufSize) /\ hdlc_state = "IN_FRAME"
  BY <1>1, <1>2, <1>5 DEF HdlcPlace
<1>7. Len(hdlc_buf) = n /\ \A i \in 1..n : hdlc_buf[i] = s[i]
  BY <1>5, <1>6, <1>n DEF Keeps
<1>8. hdlc_buf = s
  BY <1>0, <1>7, <1>n, SeqEqual
<1>9. PICK crc \in Seq(Byte) : crc = Crc16Bytes(payload) /\ Len(crc) = 2
  BY Crc16BytesType
<1>10. s = payload \o crc
  BY <1>1, <1>9 DEF Content
<1>11. \A i \in 1..n : s[i] = IF i <= p THEN payload[i] ELSE crc[i - p]
  <2>1. \A i \in 1..(p + 2) : (payload \o crc)[i] = IF i <= p THEN payload[i] ELSE crc[i - p]
    <3>1. \A i \in 1..(Len(payload) + Len(crc)) :
              (payload \o crc)[i] = IF i <= Len(payload) THEN payload[i] ELSE crc[i - Len(payload)]
      BY ConcatProperties
    <3> QED BY <1>9, <1>n, <3>1
  <2> QED BY <1>10, <1>n, <2>1
<1>12. SubSeq(s, 1, n - 2) = payload
  <2>1. n - 2 = p
    BY <1>n
  <2>2. PICK x : x = SubSeq(s, 1, p)
    OBVIOUS
  <2>3. x \in Seq(Byte) /\ Len(x) = p /\ \A i \in 1..p : x[i] = s[i]
    <3>1. \A i \in 1..p : s[i] \in Byte
      <4>1. \A i \in 1..p : i \in 1..Len(s)
        BY <1>n
      <4> QED BY <4>1, ElementOfSeq
    <3>2. Len(x) = (IF 1 <= p THEN p - 1 + 1 ELSE 0) /\ x \in Seq(Byte)
          /\ \A i \in 1..(p - 1 + 1) : x[i] = s[1 + i - 1]
      BY <2>2, <3>1, SubSeqProperties
    <3> QED BY <3>2
  <2>4. \A i \in 1..p : x[i] = payload[i]
    <3>1. \A i \in 1..p : i \in 1..n /\ i <= p
      BY <1>n
    <3> QED BY <1>11, <2>3, <3>1
  <2>5. x = payload
    BY <1>n, <2>3, <2>4, SeqEqual
  <2> QED BY <2>1, <2>2, <2>5
<1>13. SubSeq(s, n - 1, n) = crc
  <2>1. PICK a \in Nat : a = n - 1 /\ a = p + 1
    BY <1>n
  <2>2. PICK x : x = SubSeq(s, a, n)
    OBVIOUS
  <2>3. x \in Seq(Byte) /\ Len(x) = 2 /\ x[1] = s[a] /\ x[2] = s[n]
    <3>1. \A i \in a..n : s[i] \in Byte
      <4>1. \A i \in a..n : i \in 1..Len(s)
        BY <1>n, <2>1
      <4> QED BY <4>1, ElementOfSeq
    <3>2. Len(x) = (IF a <= n THEN n - a + 1 ELSE 0) /\ x \in Seq(Byte)
          /\ \A i \in 1..(n - a + 1) : x[i] = s[a + i - 1]
      BY <2>2, <3>1, SubSeqProperties, SMTT(60)
    <3>3. a <= n /\ n - a + 1 = 2 /\ a + 1 - 1 = a /\ a + 2 - 1 = n
      BY <1>n, <2>1
    <3>4. 1 \in 1..(n - a + 1) /\ 2 \in 1..(n - a + 1)
      BY <3>3
    <3>5. x[1] = s[a + 1 - 1] /\ x[2] = s[a + 2 - 1]
      BY <3>2, <3>4
    <3> QED BY <3>2, <3>3, <3>5
  <2>4. s[a] = crc[1] /\ s[n] = crc[2]
    <3>1. a \in 1..n /\ ~(a <= p) /\ a - p = 1 /\ n \in 1..n /\ ~(n <= p) /\ n - p = 2
      BY <1>n, <2>1
    <3> QED BY <1>11, <3>1
  <2>5. \A i \in 1..2 : x[i] = crc[i]
    <3>1. \A i \in 1..2 : i = 1 \/ i = 2
      OBVIOUS
    <3> QED BY <2>3, <2>4, <3>1
  <2>6. x = crc
    BY <1>9, <2>3, <2>5, SeqEqual
  <2> QED BY <2>1, <2>2, <2>6
<1>14. Hdlc!Deliver
  BY <1>6, HdlcFlag DEF Hdlc!ProcessByte
<1>15. n >= 2
  BY <1>n
<1> QED BY <1>7, <1>8, <1>9, <1>12, <1>13, <1>14, <1>15 DEF Hdlc!Deliver

-----------------------------------------------------------------------------
(* What has arrived of the first frames, for any two lists.                 *)

\* d holds the payloads s[f], f < g and f in F, in order and with others between them.
Got(s, F, g, d) == IsSubsequence(Chosen(s, F, g - 1), d)

\* d holds those payloads and no others.
Exactly(s, F, g, d) == d = Chosen(s, F, g - 1)

OneMore(S, d, d2) == d2 = d \/ \E x \in S : d2 = Append(d, x)

LEMMA GotStays ==
    ASSUME NEW S, NEW s \in Seq(S), NEW F, NEW t, NEW G, NEW d \in Seq(S), NEW d2, OneMore(S, d, d2),
           NEW g \in Nat, g - 1 \in 0..Len(s), SameChoice(s, F, t, G, g - 1), Got(s, F, g, d)
    PROVE  Got(t, G, g, d2)
<1>1. PICK n \in 0..Len(s) : n = g - 1
  OBVIOUS
<1>2. PICK c \in Seq(S) : c = Chosen(s, F, n)
  BY ChosenType
<1>3. c = Chosen(t, G, n)
  BY <1>1, <1>2, ChosenSame
<1>4. IsSubsequence(c, d)
  BY <1>1, <1>2 DEF Got
<1>5. IsSubsequence(c, d2)
  BY <1>4, SubsequenceOfLonger DEF OneMore
<1> QED BY <1>1, <1>3, <1>5 DEF Got

LEMMA GotMore ==
    ASSUME NEW S, NEW s \in Seq(S), NEW F, NEW d \in Seq(S), NEW d2, OneMore(S, d, d2),
           NEW g \in 1..Len(s), NEW k, k = g + 1, g \in F => d2 = Append(d, s[g]), Got(s, F, g, d)
    PROVE  Got(s, F, k, d2)
<1>1. PICK n \in 0..Len(s) : n = g - 1 /\ g = n + 1 /\ k - 1 = g
  BY LenProperties
<1>2. PICK c \in Seq(S) : c = Chosen(s, F, n)
  BY ChosenType
<1>3. IsSubsequence(c, d)
  BY <1>1, <1>2 DEF Got
<1>4. Chosen(s, F, g) = IF g \in F THEN Append(c, s[g]) ELSE c
  BY <1>1, <1>2, ChosenNext
<1>5. CASE g \in F
  <2>1. s[g] \in S
    BY ElementOfSeq
  <2>2. IsSubsequence(Append(c, s[g]), Append(d, s[g]))
    BY <1>3, <2>1, BothLonger
  <2> QED BY <1>1, <1>4, <1>5, <2>2 DEF Got
<1>6. CASE g \notin F
  <2>1. IsSubsequence(c, d2)
    BY <1>3, SubsequenceOfLonger DEF OneMore
  <2> QED BY <1>1, <1>4, <1>6, <2>1 DEF Got
<1> QED BY <1>5, <1>6

LEMMA ExactlyStays ==
    ASSUME NEW s, NEW F, NEW t, NEW G, NEW d, NEW g, SameChoice(s, F, t, G, g - 1), Exactly(s, F, g, d)
    PROVE  Exactly(t, G, g, d)
BY ChosenSame DEF Exactly

LEMMA ExactlyMore ==
    ASSUME NEW S, NEW s \in Seq(S), NEW F, NEW d, NEW d2, NEW g \in 1..Len(s), NEW k, k = g + 1,
           d2 = (IF g \in F THEN Append(d, s[g]) ELSE d), Exactly(s, F, g, d)
    PROVE  Exactly(s, F, k, d2)
<1>1. PICK n \in 0..Len(s) : n = g - 1 /\ g = n + 1 /\ k - 1 = g
  BY LenProperties
<1>2. Chosen(s, F, g) = IF g \in F THEN Append(Chosen(s, F, n), s[g]) ELSE Chosen(s, F, n)
  BY <1>1, ChosenNext
<1> QED BY <1>1, <1>2 DEF Exactly

-----------------------------------------------------------------------------
(* The invariant behind FramingsCarry.                                     *)

\* The frames on the line since the start.
Frames == [f \in 1..Len(sent) |-> Framed(sent[f])]

\* The framer has room for the payload.
Fits(payload) ==
    CASE framing = "cobs" -> Carried(payload)
      [] framing = "hdlc" -> Hdlc!Carried(payload)
      [] OTHER            -> Slip!Carried(payload)

\* The first j bytes of frame g are off the line, and all of the frames before it.
LinkAt(g, j) ==
    /\ g \in Nat /\ g >= 1
    /\ j \in Nat
    /\ Reading(line, Frames, g, j)
    /\ at = IF j = 0 THEN g - 1 ELSE g

\* The framer has read these j bytes of the payload's frame, and can read the rest.
HoldsAt(payload, j) ==
    CASE framing = "cobs" -> CobsHolds(payload, j)
      [] framing = "hdlc" -> Hdlc!Carried(payload) => HdlcHolds(payload, j)
      [] OTHER            -> SlipHolds(payload, j)

\* Frame g can begin: HDLC and SLIP frames bring a delimiter of their own.
Opens == framing = "cobs" => CobsClean

\* And no byte of noise is in front of it that SLIP would deliver.
Quiet == framing = "slip" => SlipClean

Holds(g, j) ==
    /\ g \notin damaged => IF j = 0 THEN Opens ELSE HoldsAt(sent[g], j)
    /\ noise = 0 /\ j = 0 => Quiet

Room == {f \in 1..Len(sent) : Fits(sent[f])}
Due == {f \in 1..Len(sent) : f \notin damaged /\ Fits(sent[f])}

Arrived(g) ==
    /\ Got(sent, Due, g, delivered)
    /\ framing # "hdlc" /\ noise = 0 => damaged = {} /\ Exactly(sent, Room, g, delivered)

Place(g, j) == LinkAt(g, j) /\ Holds(g, j) /\ Arrived(g)

CarryInv == TypeInv /\ \E g, j : Place(g, j)

-----------------------------------------------------------------------------
(* A byte of an undamaged frame.                                           *)

\* The inside of the payload's frame in HDLC or SLIP.
LEMMA HdlcFrame ==
    ASSUME NEW payload \in Seq(Byte)
    PROVE  /\ HdlcInside(payload) \in Seq(Byte)
           /\ Hdlc!Encode(payload) \in Seq(Byte)
           /\ Len(Hdlc!Encode(payload)) = Len(HdlcInside(payload)) + 2
           /\ Hdlc!Encode(payload)[1] = Hdlc!FLAG
           /\ Hdlc!Encode(payload)[Len(HdlcInside(payload)) + 2] = Hdlc!FLAG
           /\ \A i \in 1..Len(HdlcInside(payload)) : Hdlc!Encode(payload)[i + 1] = HdlcInside(payload)[i]
<1>1. HdlcInside(payload) \in Seq(Byte)
  BY HdlcPartsType, FlattenType DEF HdlcInside
<1>2. Hdlc!FLAG \in Byte
  BY DEF Hdlc!FLAG, Byte
<1>3. Delimited(Hdlc!Encode(payload), Hdlc!FLAG, HdlcInside(payload))
  BY HdlcEncodeIs DEF Delimited, HdlcInside
<1> QED BY <1>1, <1>2, <1>3, DelimitedType

LEMMA SlipFrame ==
    ASSUME NEW payload \in Seq(Byte)
    PROVE  /\ SlipInside(payload) \in Seq(Byte)
           /\ Slip!Encode(payload) \in Seq(Byte)
           /\ Len(Slip!Encode(payload)) = Len(SlipInside(payload)) + 2
           /\ Slip!Encode(payload)[1] = Slip!END_BYTE
           /\ Slip!Encode(payload)[Len(SlipInside(payload)) + 2] = Slip!END_BYTE
           /\ \A i \in 1..Len(SlipInside(payload)) : Slip!Encode(payload)[i + 1] = SlipInside(payload)[i]
<1>1. SlipInside(payload) \in Seq(Byte)
  BY SlipPartsType, FlattenType DEF SlipInside
<1>2. Slip!END_BYTE \in Byte
  BY DEF Slip!END_BYTE, Byte
<1>3. Delimited(Slip!Encode(payload), Slip!END_BYTE, SlipInside(payload))
  BY SlipEncodeIs DEF Delimited, SlipInside
<1> QED BY <1>1, <1>2, <1>3, DelimitedType

\* The framer stands at byte k of the payload's frame e, and its next byte is c.
Meets(payload, e, j, k, c) ==
    /\ e = Framed(payload)
    /\ k = j + 1 /\ c = e[k]
    /\ Reads(c)

Begun(payload, j) == IF j = 0 THEN Opens ELSE HoldsAt(payload, j)

\* A byte before the last.
LEMMA InnerByte ==
    ASSUME FramersType, framing \in {"cobs", "hdlc", "slip"}, NEW payload \in Seq(Byte),
           NEW e \in Seq(Byte), NEW j \in Nat, NEW k \in Nat, NEW c \in Byte,
           Meets(payload, e, j, k, c), k < Len(e), Begun(payload, j), UNCHANGED framing
    PROVE  /\ HoldsAt(payload, k)' /\ Grows
           /\ framing # "hdlc" /\ (j = 0 => Quiet) => UNCHANGED delivered
<1>0. e = Framed(payload) /\ k = j + 1 /\ c = e[k] /\ Reads(c)
  BY DEF Meets
<1>g. Grows
  BY <1>0, ReadsType
<1>1. CASE framing = "cobs"
  <2>1. e = Encode(payload) /\ ProcessByte(e[k]) /\ CobsType
    BY <1>0, <1>1 DEF Framed, Reads, FramersType
  <2>2. CobsHolds(payload, j)
    <3>1. CASE j = 0
      BY <1>1, <3>1, CobsCleanHolds DEF Begun, Opens
    <3>2. CASE j # 0
      BY <1>1, <3>2 DEF Begun, HoldsAt
    <3> QED BY <3>1, <3>2
  <2>3. CobsHolds(payload, k)' /\ UNCHANGED delivered
    BY <1>0, <2>1, <2>2, CobsByte
  <2> QED BY <1>1, <1>g, <2>3 DEF HoldsAt
<1>2. CASE framing = "slip"
  <2>1. e = Slip!Encode(payload) /\ Slip!ProcessByte(e[k]) /\ SlipType
    BY <1>0, <1>2 DEF Framed, Reads, FramersType
  <2>2. PICK n \in Nat : n = Len(SlipInside(payload)) /\ Len(e) = n + 2
    BY <2>1, SlipFrame, LenProperties
  <2>3. CASE j = 0
    <3>1. Slip!ProcessByte(Slip!END_BYTE) /\ k = 1
      BY <1>0, <2>1, <2>3, SlipFrame
    <3>2. SlipHolds(payload, 1)'
      BY <3>1, SlipFirst
    <3>3. SlipClean => UNCHANGED delivered
      BY <3>1, SlipEnds
    <3> QED BY <1>2, <1>g, <2>3, <3>1, <3>2, <3>3 DEF HoldsAt, Quiet
  <2>4. CASE j # 0
    <3>1. j \in 1..n
      BY <1>0, <2>2, <2>4
    <3>2. e[k] = SlipInside(payload)[j]
      BY <1>0, <2>1, <2>2, <3>1, SlipFrame
    <3>3. SlipHolds(payload, j)
      BY <1>2, <2>4 DEF Begun, HoldsAt
    <3>4. j <= Len(SlipInside(payload))
      BY <2>2, <3>1
    <3>5. SlipHolds(payload, j + 1)' /\ UNCHANGED delivered
      BY <2>1, <3>2, <3>3, <3>4, SlipByte
    <3> QED BY <1>0, <1>2, <1>g, <3>5 DEF HoldsAt
  <2> QED BY <2>3, <2>4
<1>3. CASE framing = "hdlc"
  <2>1. e = Hdlc!Encode(payload) /\ Hdlc!ProcessByte(e[k]) /\ HdlcType
    BY <1>0, <1>3 DEF Framed, Reads, FramersType
  <2>2. PICK n \in Nat : n = Len(HdlcInside(payload)) /\ Len(e) = n + 2
    BY <2>1, HdlcFrame, LenProperties
  <2>3. CASE j = 0
    <3>1. Hdlc!ProcessByte(Hdlc!FLAG) /\ k = 1
      BY <1>0, <2>1, <2>3, HdlcFrame
    <3>2. HdlcHolds(payload, 1)'
      BY <2>1, <3>1, HdlcFirst
    <3> QED BY <1>3, <1>g, <3>1, <3>2 DEF HoldsAt
  <2>4. CASE j # 0
    <3>1. j \in 1..n /\ k \in 1..Len(e)
      BY <1>0, <2>2, <2>4
    <3>2. e[k] = HdlcInside(payload)[j]
      BY <1>0, <2>1, <2>2, <3>1, HdlcFrame
    <3>3. j <= Len(HdlcInside(payload))
      BY <2>2, <3>1
    <3>4. Hdlc!Carried(payload)' => Hdlc!Carried(payload)
      <4>1. UNCHANGED flow_control
        BY <2>1 DEF Hdlc!ProcessByte
      <4> QED BY <4>1 DEF Hdlc!Carried
    <3>5. ASSUME Hdlc!Carried(payload) PROVE HdlcHolds(payload, k)'
      <4>1. HdlcHolds(payload, j)
        BY <1>3, <2>4, <3>5 DEF Begun, HoldsAt
      <4>2. ~Hdlc!FlowByte(c)
        BY <1>0, <2>1, <3>1, <3>5, HdlcNoFlow
      <4>3. HdlcHolds(payload, j + 1)'
        BY <1>0, <2>1, <3>2, <3>3, <3>5, <4>1, <4>2, HdlcByte
      <4> QED BY <1>0, <4>3
    <3>6. Hdlc!Carried(payload)' => HdlcHolds(payload, k)'
      BY <3>4, <3>5
    <3> QED BY <1>3, <1>g, <3>6 DEF HoldsAt
  <2> QED BY <2>3, <2>4
<1> QED BY <1>1, <1>2, <1>3

\* The last byte, of any frame.
LEMMA EndByte ==
    ASSUME framing \in {"cobs", "hdlc", "slip"}, NEW payload \in Seq(Byte),
           NEW e \in Seq(Byte), NEW j \in Nat, NEW k \in Nat, NEW c \in Byte,
           Meets(payload, e, j, k, c), k = Len(e), UNCHANGED framing
    PROVE  Opens' /\ Quiet'
<1>0. e = Framed(payload) /\ k = j + 1 /\ c = e[k] /\ Reads(c)
  BY DEF Meets
<1>1. CASE framing = "cobs"
  <2>1. e = Encode(payload) /\ ProcessByte(e[k])
    BY <1>0, <1>1 DEF Framed, Reads
  <2>2. e[k] = 0
    BY <2>1, CobsFrameType
  <2>3. CobsClean'
    BY <2>1, <2>2, CobsEnds
  <2> QED BY <1>1, <2>3 DEF Opens, Quiet
<1>2. CASE framing = "slip"
  <2>1. e = Slip!Encode(payload) /\ Slip!ProcessByte(e[k])
    BY <1>0, <1>2 DEF Framed, Reads
  <2>2. e[k] = Slip!END_BYTE
    BY <2>1, SlipFrame
  <2>3. SlipClean'
    BY <2>1, <2>2, SlipEnds
  <2> QED BY <1>2, <2>3 DEF Opens, Quiet
<1>3. CASE framing = "hdlc"
  BY <1>3 DEF Opens, Quiet
<1> QED BY <1>1, <1>2, <1>3

\* The last byte, of an undamaged frame.
LEMMA LastByte ==
    ASSUME FramersType, framing \in {"cobs", "hdlc", "slip"}, NEW payload \in Seq(Byte),
           NEW e \in Seq(Byte), NEW j \in Nat, NEW k \in Nat, NEW c \in Byte,
           Meets(payload, e, j, k, c), k = Len(e), Begun(payload, j)
    PROVE  /\ Fits(payload) => delivered' = Append(delivered, payload)
           /\ framing # "hdlc" /\ ~Fits(payload) => UNCHANGED delivered
<1>0. e = Framed(payload) /\ k = j + 1 /\ c = e[k] /\ Reads(c)
  BY DEF Meets
<1>1. CASE framing = "cobs"
  <2>1. e = Encode(payload) /\ ProcessByte(e[k]) /\ CobsType
    BY <1>0, <1>1 DEF Framed, Reads, FramersType
  <2>2. CobsHolds(payload, j)
    <3>1. CASE j = 0
      BY <1>1, <3>1, CobsCleanHolds DEF Begun, Opens
    <3>2. CASE j # 0
      BY <1>1, <3>2 DEF Begun, HoldsAt
    <3> QED BY <3>1, <3>2
  <2>3. delivered' = IF Carried(payload) THEN Append(delivered, payload) ELSE delivered
    BY <1>0, <2>1, <2>2, CobsLast
  <2> QED BY <1>1, <2>3 DEF Fits
<1>2. CASE framing = "slip"
  <2>1. e = Slip!Encode(payload) /\ Slip!ProcessByte(e[k]) /\ SlipType
    BY <1>0, <1>2 DEF Framed, Reads, FramersType
  <2>2. PICK n \in Nat : n = Len(SlipInside(payload)) /\ Len(e) = n + 2
    BY <2>1, SlipFrame, LenProperties
  <2>3. j = n + 1
    BY <1>0, <2>2
  <2>4. SlipHolds(payload, j)
    BY <1>2, <2>3 DEF Begun, HoldsAt
  <2>5. Slip!ProcessByte(Slip!END_BYTE)
    BY <2>1, SlipFrame
  <2>6. delivered' = IF Slip!Carried(payload) THEN Append(delivered, payload) ELSE delivered
    BY <2>1, <2>2, <2>3, <2>4, <2>5, SlipLast
  <2> QED BY <1>2, <2>6 DEF Fits
<1>3. CASE framing = "hdlc"
  <2>1. e = Hdlc!Encode(payload) /\ Hdlc!ProcessByte(e[k]) /\ HdlcType
    BY <1>0, <1>3 DEF Framed, Reads, FramersType
  <2>2. PICK n \in Nat : n = Len(HdlcInside(payload)) /\ Len(e) = n + 2
    BY <2>1, HdlcFrame, LenProperties
  <2>3. j = n + 1
    BY <1>0, <2>2
  <2>4. Hdlc!ProcessByte(Hdlc!FLAG)
    BY <2>1, HdlcFrame
  <2>5. ASSUME Hdlc!Carried(payload) PROVE delivered' = Append(delivered, payload)
    <3>1. HdlcHolds(payload, j)
      BY <1>3, <2>3, <2>5 DEF Begun, HoldsAt
    <3> QED BY <2>1, <2>2, <2>3, <2>4, <2>5, <3>1, HdlcLast
  <2> QED BY <1>3, <2>5 DEF Fits
<1> QED BY <1>1, <1>2, <1>3

-----------------------------------------------------------------------------
(* The receiver's place and what has arrived, step by step.                *)

LEMMA FramesType ==
    ASSUME LinkTypeOK
    PROVE  /\ Frames \in Seq(Seq(Byte)) /\ Len(Frames) = Len(sent) /\ Len(sent) \in Nat
           /\ \A f \in 1..Len(sent) : sent[f] \in Seq(Byte) /\ Frames[f] = Framed(sent[f])
<1>1. PICK n \in Nat : n = Len(sent)
  BY LenProperties DEF LinkTypeOK
<1>2. \A f \in 1..n : sent[f] \in Seq(Byte)
  BY <1>1, ElementOfSeq DEF LinkTypeOK
<1>3. \A f \in 1..n : Framed(sent[f]) \in Seq(Byte)
  BY <1>2, FramedType
<1>4. PICK p : p = [f \in 1..n |-> Framed(sent[f])]
  OBVIOUS
<1>5. p \in Seq(Seq(Byte)) /\ Len(p) = n
  BY <1>3, <1>4
<1>6. p = Frames
  BY <1>1, <1>4 DEF Frames
<1>7. \A f \in 1..n : Frames[f] = Framed(sent[f])
  BY <1>4, <1>6
<1> QED BY <1>1, <1>2, <1>5, <1>6, <1>7

LEMMA LineSeq ==
    ASSUME LinkTypeOK
    PROVE  line \in Seq(Sent)
BY DEF LinkTypeOK, Sent

\* The next byte is byte k of the payload p's frame e.
Facing(g, j, k, p, e) ==
    /\ line # <<>>
    /\ g \in 1..Len(sent) /\ p = sent[g] /\ p \in Seq(Byte)
    /\ e = Frames[g] /\ e = Framed(p) /\ e \in Seq(Byte)
    /\ j \in Nat /\ k = j + 1 /\ k \in Nat /\ k <= Len(e) /\ Len(e) \in Nat
    /\ Head(line).frame = g /\ Head(line).byte = e[k]

LEMMA FacingNext ==
    ASSUME LinkTypeOK, line # <<>>, NEW g, NEW j, LinkAt(g, j)
    PROVE  \E k, p, e : Facing(g, j, k, p, e)
<1>1. Next1(line, Frames, g, j)
  BY LineSeq, ReadingOn DEF LinkAt
<1>2. g \in 1..Len(Frames) /\ j \in Nat /\ j + 1 \in 1..Len(Frames[g]) /\ Head(line) = Entry(Frames, g, j)
  BY <1>1 DEF Next1
<1>3. g \in 1..Len(sent)
  BY <1>2, FramesType
<1>4. PICK p \in Seq(Byte) : p = sent[g]
  BY <1>3, FramesType
<1>5. PICK e \in Seq(Byte) : e = Frames[g] /\ e = Framed(p)
  BY <1>3, <1>4, FramesType, FramedType
<1>6. PICK k \in Nat : k = j + 1
  BY <1>2
<1>7. k <= Len(e) /\ Len(e) \in Nat
  BY <1>2, <1>5, <1>6, LenProperties
<1>8. Head(line).frame = g /\ Head(line).byte = e[k]
  BY <1>2, <1>5, <1>6 DEF Entry
<1>9. Facing(g, j, k, p, e)
  BY <1>2, <1>3, <1>4, <1>5, <1>6, <1>7, <1>8 DEF Facing
<1> QED BY <1>9

\* Before the end of the line j > 0 exactly when a frame is half read.
LEMMA PlaceIs ==
    ASSUME LinkTypeOK, NEW g, NEW j, LinkAt(g, j)
    PROVE  /\ g \in Nat /\ g \in 1..(Len(sent) + 1) /\ j \in Nat
           /\ (j > 0 => g \in 1..Len(sent) /\ MidFrame /\ at = g)
           /\ (j = 0 => ~MidFrame /\ at = g - 1)
<1>1. Len(sent) \in Nat /\ Len(Frames) = Len(sent)
  BY FramesType
<1>2. CASE line = <<>>
  <2>1. g = Len(Frames) + 1 /\ j = 0
    BY <1>2, ReadingEnd DEF LinkAt
  <2> QED BY <1>1, <1>2, <2>1 DEF MidFrame, LinkAt
<1>3. CASE line # <<>>
  <2>1. PICK k, p, e : Facing(g, j, k, p, e)
    BY <1>3, FacingNext
  <2>2. g \in 1..Len(sent) /\ j \in Nat /\ Head(line).frame = g
    BY <2>1 DEF Facing
  <2>3. g \in Nat /\ g \in 1..(Len(sent) + 1)
    BY <1>1, <2>2
  <2>4. j > 0 => MidFrame /\ at = g
    BY <1>3, <2>2 DEF MidFrame, LinkAt
  <2>5. j = 0 => ~MidFrame /\ at = g - 1
    <3>1. j = 0 => at = g - 1
      BY DEF LinkAt
    <3>2. g # g - 1
      BY <2>3
    <3> QED BY <2>2, <3>1, <3>2 DEF MidFrame
  <2> QED BY <2>2, <2>3, <2>4, <2>5
<1> QED BY <1>2, <1>3

LEMMA FramesSame == ASSUME UNCHANGED <<framing, sent>> PROVE Frames' = Frames
BY DEF Frames, Framed

LEMMA AtSame ==
    ASSUME UNCHANGED <<framing, sent, line, at>>, NEW g, NEW j, LinkAt(g, j)
    PROVE  LinkAt(g, j)'
BY FramesSame DEF LinkAt

\* A byte is taken off the line.
LEMMA AtTaken ==
    ASSUME LinkTypeOK, NEW g, NEW j, LinkAt(g, j), Taken, UNCHANGED framing,
           NEW k, NEW p, NEW e, Facing(g, j, k, p, e)
    PROVE  IF k = Len(e) THEN LinkAt(g + 1, 0)' ELSE LinkAt(g, k)'
<1>0. line' = Tail(line) /\ at' = Head(line).frame /\ UNCHANGED sent /\ line # <<>>
  BY DEF Taken
<1>1. Frames' = Frames
  BY <1>0, FramesSame
<1>2. Next1(line, Frames, g, j)
  BY <1>0, LineSeq, ReadingOn DEF LinkAt
<1>3. g \in Nat /\ g >= 1 /\ k \in Nat /\ k # 0 /\ k = j + 1 /\ e = Frames[g] /\ at' = g
  <2>1. k # 0
    BY DEF Facing
  <2> QED BY <1>0, <2>1 DEF Facing, LinkAt
<1>4. CASE k = Len(e)
  <2>1. NextFrame(Frames, g, j) = g + 1 /\ NextPlace(Frames, g, j) = 0
    BY <1>3, <1>4 DEF NextFrame, NextPlace
  <2>2. Reading(line', Frames', g + 1, 0)
    BY <1>0, <1>1, <1>2, <2>1 DEF Next1
  <2>3. g + 1 \in Nat /\ g + 1 >= 1 /\ at' = (g + 1) - 1
    BY <1>3
  <2> QED BY <1>4, <2>2, <2>3 DEF LinkAt
<1>5. CASE k # Len(e)
  <2>1. NextFrame(Frames, g, j) = g /\ NextPlace(Frames, g, j) = k
    BY <1>3, <1>5 DEF NextFrame, NextPlace
  <2>2. Reading(line', Frames', g, k)
    BY <1>0, <1>1, <1>2, <2>1 DEF Next1
  <2> QED BY <1>3, <1>5, <2>2 DEF LinkAt
<1> QED BY <1>4, <1>5

\* Noise in front of a frame's last byte can spoil the next frame too.
LEMMA LastHits ==
    ASSUME LinkTypeOK, NEW g, NEW j, LinkAt(g, j), NEW k, NEW p, NEW e, Facing(g, j, k, p, e)
    PROVE  /\ g \in TakingHits
           /\ \A f \in TakingHits : f = g \/ f = g + 1
           /\ framing = "cobs" /\ k = Len(e) => g + 1 \in TakingHits
<1>0. Head(line).frame = g /\ line # <<>> /\ g \in Nat
  BY DEF Facing, LinkAt
<1>1. g \in TakingHits /\ \A f \in TakingHits : f = g \/ f = g + 1
  BY <1>0 DEF TakingHits, TakenHits
<1>2. ASSUME framing = "cobs", k = Len(e) PROVE g + 1 \in TakingHits
  <2>1. AtDelimiter
    <3>1. PICK n \in Nat : n = Len(line) /\ n >= 1
      <4>1. Len(line) \in Nat /\ Len(line) # 0
        BY <1>0, LineSeq, LenProperties, EmptySeq
      <4> QED BY <4>1
    <3>2. CASE n = 1
      BY <3>1, <3>2 DEF AtDelimiter
    <3>3. CASE n # 1
      <4>1. PICK l \in Seq(Sent) : l = Tail(line) /\ Len(l) = n - 1 /\ \A i \in 1..(n - 1) : l[i] = line[i + 1]
        <5>1. PICK l \in Seq(Sent) : l = Tail(line)
          BY <1>0, LineSeq, HeadTailProperties
        <5>2. Len(l) = n - 1 /\ \A i \in 1..Len(l) : l[i] = line[i + 1]
          BY <1>0, <3>1, <5>1, LineSeq, HeadTailProperties
        <5> QED BY <5>1, <5>2
      <4>2. l # <<>>
        BY <3>1, <3>3, <4>1
      <4>3. Next1(line, Frames, g, j)
        BY <1>0, LineSeq, ReadingOn DEF LinkAt
      <4>4. NextFrame(Frames, g, j) = g + 1
        BY <1>2 DEF NextFrame, Facing
      <4>5. PICK i : Reading(l, Frames, g + 1, i)
        BY <4>1, <4>3, <4>4 DEF Next1
      <4>6. Next1(l, Frames, g + 1, i)
        BY <4>2, <4>5, ReadingOn
      <4>7. Head(l).frame = g + 1
        BY <4>6 DEF Next1, Entry
      <4>8. Head(l) = line[2]
        <5>1. 1 \in 1..(n - 1)
          BY <3>1, <3>3
        <5>2. l[1] = line[1 + 1]
          BY <4>1, <5>1
        <5> QED BY <5>2
      <4>9. Head(line) = line[1]
        OBVIOUS
      <4>10. line[2].frame # line[1].frame
        BY <1>0, <4>7, <4>8, <4>9
      <4> QED BY <4>10 DEF AtDelimiter
    <3> QED BY <3>2, <3>3
  <2> QED BY <1>0, <1>2, <2>1 DEF TakingHits, TakenHits
<1> QED BY <1>1, <1>2

\* Only frames from g on are spoilt by the step.
Spares(g) ==
    /\ damaged \subseteq damaged'
    /\ \A f \in damaged' : f \in damaged \/ ~(f < g)

\* The payloads, what noise did and the settings are those of before.
Same == UNCHANGED <<framing, flow_control, sent>>

LEMMA GrowsOne ==
    ASSUME Grows
    PROVE  OneMore(Seq(Byte), delivered, delivered')
BY DEF Grows, OneMore

LEMMA DueSame ==
    ASSUME LinkTypeOK, Same, NEW g \in Nat, g \in 1..(Len(sent) + 1), Spares(g)
    PROVE  /\ SameChoice(sent, Due, sent, Due', g - 1)
           /\ SameChoice(sent, Room, sent, Room', g - 1)
<1>1. Len(sent) \in Nat
  BY FramesType
<1>2. \A f : Fits(sent[f])' <=> Fits(sent[f])
  BY DEF Same, Fits, Carried, Hdlc!Carried, Slip!Carried
<1>3. Room' = Room
  BY <1>2 DEF Room, Same
<1>4. ASSUME NEW f \in 1..(g - 1) PROVE f \in Due <=> f \in Due'
  <2>1. f < g
    OBVIOUS
  <2>2. f \in damaged <=> f \in damaged'
    BY <2>1 DEF Spares
  <2> QED BY <1>2, <2>2 DEF Due, Same
<1> QED BY <1>3, <1>4 DEF SameChoice

\* Either nothing disturbs the step, or noise is counted.
LEMMA ArrivedStays ==
    ASSUME LinkTypeOK, Same, NEW g \in Nat, g \in 1..(Len(sent) + 1), Spares(g), Grows, Arrived(g),
           \/ noise' # 0 \/ framing = "hdlc"
           \/ UNCHANGED <<noise, damaged, delivered>>
    PROVE  Arrived(g)'
<1>0. sent \in Seq(Seq(Byte)) /\ delivered \in Seq(Seq(Byte)) /\ Len(sent) \in Nat
  BY FramesType DEF LinkTypeOK
<1>1. g - 1 \in 0..Len(sent)
  BY <1>0
<1>2. Got(sent, Due', g, delivered')
  <2>1. Got(sent, Due, g, delivered)
    BY DEF Arrived
  <2> QED BY <1>0, <1>1, <2>1, DueSame, GrowsOne, GotStays
<1>3. Got(sent, Due, g, delivered)'
  BY <1>2 DEF Same, Got
<1>4. ASSUME framing' # "hdlc", noise' = 0
      PROVE  damaged' = {} /\ Exactly(sent, Room, g, delivered)'
  <2>1. UNCHANGED <<noise, damaged, delivered>> /\ framing # "hdlc" /\ noise = 0
    BY <1>4 DEF Same
  <2>2. damaged = {} /\ Exactly(sent, Room, g, delivered)
    BY <2>1 DEF Arrived
  <2>3. Exactly(sent, Room', g, delivered)
    BY <2>2, DueSame, ExactlyStays
  <2> QED BY <2>1, <2>2, <2>3 DEF Same, Exactly
<1> QED BY <1>3, <1>4 DEF Arrived

\* Frame g is read to its end.
LEMMA ArrivedNext ==
    ASSUME LinkTypeOK, Same, NEW g \in Nat, g \in 1..Len(sent), Spares(g), Grows, Arrived(g),
           g \notin damaged' /\ Fits(sent[g]) => delivered' = Append(delivered, sent[g]),
           \/ noise' # 0 \/ framing = "hdlc"
           \/ /\ UNCHANGED <<noise, damaged>>
              /\ damaged = {} => delivered' = IF Fits(sent[g]) THEN Append(delivered, sent[g]) ELSE delivered
    PROVE  Arrived(g + 1)'
<1>0. sent \in Seq(Seq(Byte)) /\ delivered \in Seq(Seq(Byte)) /\ Len(sent) \in Nat
  BY FramesType DEF LinkTypeOK
<1>1. g - 1 \in 0..Len(sent) /\ g \in 1..(Len(sent) + 1)
  BY <1>0
<1>e. OneMore(Seq(Byte), delivered, delivered) /\ OneMore(Seq(Byte), delivered, delivered')
  BY GrowsOne DEF OneMore
<1>f. Fits(sent[g])' <=> Fits(sent[g])
  BY DEF Same, Fits, Carried, Hdlc!Carried, Slip!Carried
<1>2. Got(sent, Due', g + 1, delivered')
  <2>1. Got(sent, Due, g, delivered)
    BY DEF Arrived
  <2>2. SameChoice(sent, Due, sent, Due', g - 1)
    BY <1>1, DueSame
  <2>3. Got(sent, Due', g, delivered)
    BY <1>0, <1>1, <1>e, <2>1, <2>2, GotStays
  <2>4. g \in Due' => delivered' = Append(delivered, sent[g])
    BY <1>f DEF Due, Same
  <2> QED BY <1>0, <1>e, <2>3, <2>4, GotMore
<1>3. Got(sent, Due, g + 1, delivered)'
  BY <1>2 DEF Same, Got
<1>4. ASSUME framing' # "hdlc", noise' = 0
      PROVE  damaged' = {} /\ Exactly(sent, Room, g + 1, delivered)'
  <2>1. UNCHANGED <<noise, damaged>> /\ framing # "hdlc" /\ noise = 0
    BY <1>4 DEF Same
  <2>2. damaged = {} /\ Exactly(sent, Room, g, delivered)
    BY <2>1 DEF Arrived
  <2>3. delivered' = IF Fits(sent[g]) THEN Append(delivered, sent[g]) ELSE delivered
    BY <1>4, <2>1, <2>2
  <2>4. SameChoice(sent, Room, sent, Room', g - 1)
    BY <1>1, DueSame
  <2>5. Exactly(sent, Room', g, delivered)
    BY <2>2, <2>4, ExactlyStays
  <2>6. g \in Room' <=> Fits(sent[g])
    BY <1>f DEF Room, Same
  <2>7. Exactly(sent, Room', g + 1, delivered')
    BY <1>0, <2>3, <2>5, <2>6, ExactlyMore
  <2> QED BY <2>1, <2>2, <2>7 DEF Same, Exactly
<1> QED BY <1>3, <1>4 DEF Arrived

-----------------------------------------------------------------------------
(* The moves.                                                              *)

\* What every move that keeps the settings and the frames does.
LEMMA ReadsSame ==
    ASSUME NEW c, Reads(c)
    PROVE  UNCHANGED flow_control
BY DEF Reads, Hdlc!ProcessByte, hdlc_vars

LEMMA NoiseSpares ==
    ASSUME NEW hit, Noise(hit), NEW g \in Nat, \A f \in hit : ~(f < g), noise \in Nat
    PROVE  Spares(g) /\ hit \subseteq damaged' /\ noise' # 0
BY DEF Noise, Spares

LEMMA HeadByte ==
    ASSUME LinkTypeOK, line # <<>>
    PROVE  Head(line).byte \in Byte
<1>1. Head(line) \in Sent
  BY LineSeq, HeadTailProperties
<1> QED BY <1>1 DEF Sent

\* A byte arrives as it was sent.
LEMMA CarryReceiving ==
    ASSUME TypeInv, NEW g, NEW j, Place(g, j), Receiving, UNCHANGED framing
    PROVE  \E h, i : Place(h, i)'
<1>0. LinkTypeOK /\ FramersType /\ framing \in {"cobs", "hdlc", "slip"} /\ line # <<>>
  BY DEF TypeInv, Receiving, Taken
<1>1. LinkAt(g, j) /\ Holds(g, j) /\ Arrived(g)
  BY DEF Place
<1>2. PICK k, p, e : Facing(g, j, k, p, e)
  BY <1>0, <1>1, FacingNext
<1>3. /\ g \in 1..Len(sent) /\ p = sent[g] /\ p \in Seq(Byte) /\ e = Framed(p) /\ e \in Seq(Byte)
      /\ j \in Nat /\ k = j + 1 /\ k \in Nat /\ k <= Len(e) /\ Len(e) \in Nat
      /\ Head(line).byte = e[k]
  BY <1>2 DEF Facing
<1>4. PICK c \in Byte : c = Head(line).byte /\ Reads(c)
  BY <1>0, HeadByte DEF Receiving
<1>5. Taken /\ UNCHANGED <<damaged, noise, sent>>
  BY DEF Receiving, Taken
<1>6. Same /\ Spares(g) /\ Grows
  <2>1. Same
    BY <1>4, <1>5, ReadsSame DEF Same
  <2>2. Spares(g)
    BY <1>5 DEF Spares
  <2> QED BY <1>0, <1>4, <2>1, <2>2, ReadsType
<1>7. Meets(p, e, j, k, c)
  BY <1>3, <1>4 DEF Meets
<1>8. g \notin damaged => Begun(p, j)
  BY <1>1, <1>3 DEF Holds, Begun
<1>9. IF k = Len(e) THEN LinkAt(g + 1, 0)' ELSE LinkAt(g, k)'
  BY <1>0, <1>1, <1>2, <1>5, AtTaken
<1>10. g \in Nat /\ g \in 1..(Len(sent) + 1)
  BY <1>0, <1>1, PlaceIs
<1>11. noise = 0 /\ framing # "hdlc" => damaged = {}
  BY <1>1 DEF Arrived
<1>12. CASE k = Len(e)
  <2>1. Opens' /\ Quiet'
    BY <1>0, <1>3, <1>7, <1>12, EndByte
  <2>2. g \notin damaged => /\ Fits(p) => delivered' = Append(delivered, p)
                            /\ framing # "hdlc" /\ ~Fits(p) => UNCHANGED delivered
    BY <1>0, <1>3, <1>7, <1>8, <1>12, LastByte
  <2>3. g \notin damaged' /\ Fits(sent[g]) => delivered' = Append(delivered, sent[g])
    BY <1>3, <1>5, <2>2
  <2>4. \/ noise' # 0 \/ framing = "hdlc"
        \/ /\ UNCHANGED <<noise, damaged>>
           /\ damaged = {} => delivered' = IF Fits(sent[g]) THEN Append(delivered, sent[g]) ELSE delivered
    BY <1>3, <1>5, <2>2
  <2>5. Arrived(g + 1)'
    BY <1>0, <1>1, <1>3, <1>6, <1>10, <2>3, <2>4, ArrivedNext
  <2>6. Holds(g + 1, 0)'
    BY <2>1 DEF Holds
  <2> QED BY <1>9, <1>12, <2>5, <2>6 DEF Place
<1>13. CASE k # Len(e)
  <2>1. k < Len(e) /\ k # 0
    BY <1>3, <1>13
  <2>2. g \notin damaged => /\ HoldsAt(p, k)'
                            /\ framing # "hdlc" /\ (j = 0 => Quiet) => UNCHANGED delivered
    BY <1>0, <1>3, <1>7, <1>8, <2>1, InnerByte
  <2>3. Holds(g, k)'
    <3>1. g \notin damaged' => HoldsAt(sent[g], k)'
      BY <1>3, <1>5, <2>2 DEF HoldsAt
    <3> QED BY <2>1, <3>1 DEF Holds
  <2>4. \/ noise' # 0 \/ framing = "hdlc"
        \/ UNCHANGED <<noise, damaged, delivered>>
    <3>1. noise = 0 /\ j = 0 => Quiet
      BY <1>1 DEF Holds
    <3> QED BY <1>5, <1>11, <2>2, <3>1
  <2>5. Arrived(g)'
    BY <1>0, <1>1, <1>6, <1>10, <2>4, ArrivedStays
  <2> QED BY <1>9, <1>13, <2>3, <2>5 DEF Place
<1> QED BY <1>12, <1>13

\* A byte is lost, or another one arrives in its place.
LEMMA CarrySpoilt ==
    ASSUME TypeInv, NEW g, NEW j, Place(g, j), Taken, Noise(TakingHits), Grows,
           UNCHANGED <<framing, flow_control>>
    PROVE  \E h, i : Place(h, i)'
<1>0. LinkTypeOK /\ line # <<>> /\ noise \in Nat
  BY DEF TypeInv, LinkTypeOK, Taken
<1>1. LinkAt(g, j) /\ Holds(g, j) /\ Arrived(g)
  BY DEF Place
<1>2. PICK k, p, e : Facing(g, j, k, p, e)
  BY <1>0, <1>1, FacingNext
<1>3. g \in 1..Len(sent) /\ k \in Nat /\ j \in Nat /\ k = j + 1
  BY <1>2 DEF Facing
<1>4. g \in Nat /\ g \in 1..(Len(sent) + 1)
  BY <1>0, <1>1, PlaceIs
<1>5. /\ g \in TakingHits /\ \A f \in TakingHits : f = g \/ f = g + 1
      /\ framing = "cobs" /\ k = Len(e) => g + 1 \in TakingHits
  BY <1>0, <1>1, <1>2, LastHits
<1>6. Spares(g) /\ TakingHits \subseteq damaged' /\ noise' # 0
  <2>1. \A f \in TakingHits : ~(f < g)
    BY <1>4, <1>5
  <2> QED BY <1>0, <1>4, <2>1, NoiseSpares
<1>7. Same
  BY DEF Same, Taken
<1>8. IF k = Len(e) THEN LinkAt(g + 1, 0)' ELSE LinkAt(g, k)'
  BY <1>0, <1>1, <1>2, AtTaken
<1>9. CASE k = Len(e)
  <2>1. Holds(g + 1, 0)'
    <3>1. g + 1 \notin damaged' => framing' # "cobs"
      BY <1>5, <1>6, <1>9
    <3> QED BY <1>6, <3>1 DEF Holds, Opens
  <2>2. Arrived(g + 1)'
    BY <1>0, <1>1, <1>3, <1>4, <1>5, <1>6, <1>7, ArrivedNext
  <2> QED BY <1>8, <1>9, <2>1, <2>2 DEF Place
<1>10. CASE k # Len(e)
  <2>1. Holds(g, k)'
    BY <1>5, <1>6 DEF Holds
  <2>2. Arrived(g)'
    BY <1>0, <1>1, <1>4, <1>6, <1>7, ArrivedStays
  <2> QED BY <1>8, <1>10, <2>1, <2>2 DEF Place
<1> QED BY <1>9, <1>10

\* Noise adds a byte, or the host resets the framer.
LEMMA CarryBetween ==
    ASSUME TypeInv, NEW g, NEW j, Place(g, j), NEW hit, Noise(hit), Grows,
           \A f \in hit : ~(f < g), Same, UNCHANGED <<line, at>>,
           g \notin damaged' => IF j = 0 THEN Opens' ELSE HoldsAt(sent[g], j)'
    PROVE  Place(g, j)'
<1>0. LinkTypeOK /\ noise \in Nat
  BY DEF TypeInv, LinkTypeOK
<1>1. LinkAt(g, j) /\ Arrived(g)
  BY DEF Place
<1>2. g \in Nat /\ g \in 1..(Len(sent) + 1)
  BY <1>0, <1>1, PlaceIs
<1>3. Spares(g) /\ noise' # 0
  BY <1>0, <1>2, NoiseSpares
<1>4. LinkAt(g, j)'
  BY <1>1, AtSame DEF Same
<1>5. Arrived(g)'
  BY <1>0, <1>1, <1>2, <1>3, ArrivedStays
<1>6. Holds(g, j)'
  BY <1>3 DEF Holds
<1> QED BY <1>4, <1>5, <1>6 DEF Place

LEMMA CarryAdding ==
    ASSUME TypeInv, NEW g, NEW j, Place(g, j), Adding, UNCHANGED framing
    PROVE  Place(g, j)'
<1>0. LinkTypeOK /\ FramersType /\ framing \in {"cobs", "hdlc", "slip"}
  BY DEF TypeInv
<1>1. LinkAt(g, j) /\ Holds(g, j)
  BY DEF Place
<1>2. PICK c \in Byte : Reads(c) /\ Noise(AddingHits(c)) /\ UNCHANGED <<writer_vars, line, sent, at>>
  BY DEF Adding
<1>3. Grows /\ Same
  BY <1>0, <1>2, ReadsType, ReadsSame DEF Same
<1>4. /\ g \in Nat /\ j \in Nat
      /\ (j > 0 => g \in 1..Len(sent) /\ MidFrame /\ at = g)
      /\ (j = 0 => ~MidFrame /\ at = g - 1)
  BY <1>0, <1>1, PlaceIs
<1>5. (j > 0 => MidFrame /\ at = g) /\ (j = 0 => ~MidFrame /\ at + 1 = g)
  BY <1>4
<1>6. \A f \in AddingHits(c) : f = g
  BY <1>4, <1>5 DEF AddingHits, InsertHits, Hdlc!InsertHits, Hdlc!MidFrame, MidFrame
<1>7. \A f \in AddingHits(c) : ~(f < g)
  BY <1>4, <1>6
<1>8. AddingHits(c) \subseteq damaged'
  BY <1>2 DEF Noise
<1>9. ASSUME g \notin damaged' PROVE IF j = 0 THEN Opens' ELSE HoldsAt(sent[g], j)'
  <2>1. g \notin AddingHits(c)
    BY <1>8, <1>9
  <2>2. CASE framing = "cobs"
    <3>1. j = 0 /\ c = 0
      <4>1. ~MidFrame /\ c = 0
        BY <1>5, <1>4, <2>1, <2>2 DEF AddingHits, InsertHits
      <4> QED BY <1>4, <4>1
    <3>2. ProcessByte(0)
      BY <1>2, <2>2, <3>1 DEF Reads
    <3>3. CobsClean'
      BY <3>2, CobsEnds
    <3> QED BY <3>1, <3>3 DEF Opens
  <2>3. CASE framing = "slip"
    <3>1. j = 0
      <4>1. ~MidFrame
        BY <1>5, <1>4, <2>1, <2>3 DEF AddingHits
      <4> QED BY <1>4, <4>1
    <3> QED BY <2>3, <3>1 DEF Opens
  <2>4. CASE framing = "hdlc"
    <3>1. CASE j = 0
      BY <2>4, <3>1 DEF Opens
    <3>2. CASE j # 0
      <4>1. Hdlc!FlowByte(c) /\ Hdlc!ProcessByte(c)
        <5>1. j > 0 /\ MidFrame /\ at = g
          BY <1>4, <3>2
        <5> QED BY <1>2, <2>1, <2>4, <5>1 DEF AddingHits, Hdlc!InsertHits, Hdlc!MidFrame, MidFrame, Reads
      <4>2. UNCHANGED <<hdlc_state, hdlc_buf, flow_control>>
        BY <4>1 DEF Hdlc!ProcessByte
      <4>3. g \notin damaged
        BY <1>2, <1>9 DEF Noise
      <4>4. HoldsAt(sent[g], j)
        BY <1>1, <3>2, <4>3 DEF Holds
      <4>5. Hdlc!Carried(sent[g]) => HdlcHolds(sent[g], j)
        BY <2>4, <4>4 DEF HoldsAt
      <4>6. Hdlc!Carried(sent[g])' => HdlcHolds(sent[g], j)'
        BY <1>2, <4>2, <4>5 DEF Hdlc!Carried, HdlcHolds, HdlcPlace, Keeps
      <4> QED BY <2>4, <3>2, <4>6 DEF HoldsAt
    <3> QED BY <3>1, <3>2
  <2> QED BY <1>0, <2>2, <2>3, <2>4
<1> QED BY <1>2, <1>3, <1>7, <1>9, CarryBetween

LEMMA CarryResetting ==
    ASSUME TypeInv, NEW g, NEW j, Place(g, j), Resetting, UNCHANGED framing
    PROVE  Place(g, j)'
<1>0. LinkTypeOK /\ framing \in {"cobs", "hdlc", "slip"}
  BY DEF TypeInv
<1>1. LinkAt(g, j)
  BY DEF Place
<1>2. Resets /\ Noise(ResetHits) /\ UNCHANGED <<writer_vars, line, sent, at, delivered>>
  BY DEF Resetting
<1>3. Grows /\ Same
  <2>1. UNCHANGED flow_control
    BY <1>2 DEF Resets, hdlc_vars
  <2> QED BY <1>2, <2>1 DEF Grows, Same
<1>4. /\ g \in Nat /\ j \in Nat
      /\ (j > 0 => MidFrame /\ at = g)
      /\ (j = 0 => ~MidFrame)
  BY <1>0, <1>1, PlaceIs
<1>5. j = 0 \/ j > 0
  BY <1>4
<1>6. \A f \in ResetHits : ~(f < g)
  <2>1. \A f \in ResetHits : f = g
    BY <1>4, <1>5 DEF ResetHits
  <2> QED BY <1>4, <2>1
<1>7. ASSUME g \notin damaged' PROVE IF j = 0 THEN Opens' ELSE HoldsAt(sent[g], j)'
  <2>1. g \notin ResetHits
    BY <1>2, <1>7 DEF Noise
  <2>2. j = 0
    BY <1>4, <1>5, <2>1 DEF ResetHits
  <2>3. Opens'
    BY <1>2 DEF Opens, CobsClean, Resets
  <2> QED BY <2>2, <2>3
<1> QED BY <1>2, <1>3, <1>6, <1>7, CarryBetween

\* Nothing but the writer moves.
LEMMA CarryStill ==
    ASSUME NEW g, NEW j, Place(g, j), UNCHANGED <<line_vars, delivered, framing>>, Rests
    PROVE  Place(g, j)'
<1>1. UNCHANGED <<line, sent, at, damaged, noise, delivered, framing>>
  BY DEF line_vars
<1>2. UNCHANGED <<raw, error, hdlc_state, hdlc_buf, flow_control, slip_buf, slip_error, slip_escape>>
  BY DEF Rests, cobs_vars, hdlc_vars, slip_vars
<1>3. LinkAt(g, j)'
  BY <1>1, AtSame DEF Place
<1>4. Opens' = Opens /\ Quiet' = Quiet
  BY <1>1, <1>2 DEF Opens, Quiet, CobsClean, SlipClean
<1>5. HoldsAt(sent[g], j)' = HoldsAt(sent[g], j)
  BY <1>1, <1>2 DEF HoldsAt, CobsHolds, Hdlc!Carried, HdlcHolds, HdlcPlace, SlipHolds, SlipPlace,
                    SlipUpto, Keeps
<1>6. Holds(g, j)'
  BY <1>1, <1>4, <1>5 DEF Place, Holds
<1>7. Room' = Room /\ Due' = Due
  BY <1>1, <1>2 DEF Room, Due, Fits, Carried, Hdlc!Carried, Slip!Carried
<1>8. Arrived(g)'
  BY <1>1, <1>7 DEF Place, Arrived, Got, Exactly
<1> QED BY <1>3, <1>6, <1>8 DEF Place

\* A frame goes on the line behind the others.
LEMMA CarryPutting ==
    ASSUME TypeInv, NEW g, NEW j, Place(g, j), Putting, UNCHANGED framing
    PROVE  Place(g, j)'
<1>0. LinkTypeOK /\ sent \in Seq(Seq(Byte)) /\ delivered \in Seq(Seq(Byte)) /\ line \in Seq(Sent)
  BY LineSeq DEF TypeInv, LinkTypeOK
<1>1. LinkAt(g, j) /\ Holds(g, j) /\ Arrived(g)
  BY DEF Place
<1>2. PICK p \in Seq(Byte) : PutFrame(p, Framed) /\ Rests
  BY DEF Putting
<1>3. UNCHANGED <<at, damaged, noise, delivered, framing>>
  BY <1>2 DEF PutFrame
<1>4. UNCHANGED <<raw, error, hdlc_state, hdlc_buf, flow_control, slip_buf, slip_error, slip_escape>>
  BY <1>2 DEF Rests, cobs_vars, hdlc_vars, slip_vars
<1>5. PICK n \in Nat : n = Len(sent) /\ Len(Frames) = n
  BY <1>0, FramesType
<1>6. PICK m \in Nat : m = n + 1
  OBVIOUS
<1>7. /\ sent' = Append(sent, p) /\ Len(sent') = m /\ sent'[m] = p
      /\ \A f \in 1..n : sent'[f] = sent[f]
  <2>1. sent' = Append(sent, p)
    BY <1>2 DEF PutFrame
  <2> QED BY <1>0, <1>5, <1>6, <2>1, AppendProperties
<1>8. PICK e \in Seq(Byte) : e = Framed(p) /\ e # <<>>
  BY FramedType
<1>9. Frames' = Append(Frames, e)
  <2>1. Frames \in Seq(Seq(Byte)) /\ \A f \in 1..n : Frames[f] = Framed(sent[f])
    BY <1>0, <1>5, FramesType
  <2>2. PICK more : more = Append(Frames, e)
    OBVIOUS
  <2>3. /\ more \in Seq(Seq(Byte)) /\ Len(more) = m /\ more[m] = e
        /\ \A f \in 1..n : more[f] = Frames[f]
    BY <1>5, <1>6, <2>1, <2>2, AppendProperties
  <2>4. Frames' = [f \in 1..m |-> Framed(sent'[f])]
    BY <1>3, <1>7 DEF Frames, Framed
  <2>5. PICK now : now = Frames'
    OBVIOUS
  <2>6. now \in Seq(Seq(Byte)) /\ Len(now) = m
    <3>1. \A f \in 1..m : Framed(sent'[f]) \in Seq(Byte)
      <4>1. \A f \in 1..m : f = m \/ f \in 1..n
        BY <1>6
      <4>2. \A f \in 1..n : sent[f] \in Seq(Byte)
        BY <1>0, <1>5, FramesType
      <4> QED BY <1>7, <4>1, <4>2, FramedType
    <3> QED BY <2>4, <2>5, <3>1
  <2>7. ASSUME NEW f \in 1..m PROVE now[f] = more[f]
    <3>1. now[f] = Framed(sent'[f])
      BY <2>4, <2>5
    <3>2. CASE f = m
      BY <1>7, <1>8, <2>3, <3>1, <3>2
    <3>3. CASE f # m
      <4>1. f \in 1..n
        BY <1>6, <3>3
      <4> QED BY <1>7, <2>1, <2>3, <3>1, <4>1
    <3> QED BY <3>2, <3>3
  <2>8. now = more
    BY <2>3, <2>6, <2>7, SeqEqual
  <2> QED BY <2>2, <2>5, <2>8
<1>10. line' = line \o Tagged(e, Len(Frames) + 1)
  BY <1>2, <1>5, <1>8 DEF PutFrame
<1>11. Reading(line', Frames', g, j)
  <2>1. PICK l2, enc2 : l2 = line' /\ enc2 = Frames'
    OBVIOUS
  <2>2. PutBehind(line, Frames, e, l2, enc2)
    BY <1>9, <1>10, <2>1 DEF PutBehind
  <2>3. Frames \in Seq(Seq(Byte)) /\ Tagged(e, Len(Frames) + 1) \in Seq(Sent)
    <3>1. Len(Frames) + 1 \in Nat
      BY <1>5
    <3> QED BY <1>0, <3>1, FramesType, TaggedType
  <2>4. Reading(line, Frames, g, j)
    BY <1>1 DEF LinkAt
  <2>5. Reading(l2, enc2, g, j)
    BY <1>0, <1>8, <2>2, <2>3, <2>4, ReadingPut
  <2> QED BY <2>1, <2>5
<1>12. LinkAt(g, j)'
  BY <1>1, <1>3, <1>11 DEF LinkAt
<1>13. g \in Nat /\ j \in Nat /\ g - 1 \in 0..n /\ (j > 0 => g \in 1..n)
  <2>1. g \in Nat /\ g \in 1..(n + 1) /\ j \in Nat /\ (j > 0 => g \in 1..n)
    BY <1>0, <1>1, <1>5, PlaceIs
  <2> QED BY <2>1
<1>14. Holds(g, j)'
  <2>1. Opens' = Opens /\ Quiet' = Quiet
    BY <1>3, <1>4 DEF Opens, Quiet, CobsClean, SlipClean
  <2>2. ASSUME j # 0, HoldsAt(sent[g], j) PROVE HoldsAt(sent[g], j)'
    <3>1. sent'[g] = sent[g]
      <4>1. g \in 1..n
        <5>1. j > 0
          BY <1>13, <2>2
        <5> QED BY <1>13, <5>1
      <4> QED BY <1>7, <4>1
    <3>2. HoldsAt(sent[g], j)' = HoldsAt(sent[g], j)
      BY <1>3, <1>4, <3>1 DEF HoldsAt, CobsHolds, Hdlc!Carried, HdlcHolds, HdlcPlace, SlipHolds,
                              SlipPlace, SlipUpto, Keeps
    <3> QED BY <2>2, <3>2
  <2> QED BY <1>1, <1>3, <2>1, <2>2 DEF Holds
<1>15. SameChoice(sent, Due, sent', Due', g - 1) /\ SameChoice(sent, Room, sent', Room', g - 1)
  <2>1. ASSUME NEW f \in 1..(g - 1)
        PROVE  sent'[f] = sent[f] /\ (f \in Due <=> f \in Due') /\ (f \in Room <=> f \in Room')
    <3>1. f \in 1..n /\ f \in 1..m
      BY <1>6, <1>13
    <3>2. sent'[f] = sent[f]
      BY <1>7, <3>1
    <3>3. Fits(sent[f])' <=> Fits(sent[f])
      BY <1>3, <1>4, <3>2 DEF Fits, Carried, Hdlc!Carried, Slip!Carried
    <3> QED BY <1>3, <1>5, <1>7, <3>1, <3>2, <3>3 DEF Due, Room
  <2> QED BY <2>1 DEF SameChoice
<1>16. Got(sent, Due, g, delivered)'
  <2>1. Got(sent, Due, g, delivered) /\ OneMore(Seq(Byte), delivered, delivered)
    BY <1>1 DEF Arrived, OneMore
  <2>2. Got(sent', Due', g, delivered)
    BY <1>0, <1>5, <1>13, <1>15, <2>1, GotStays
  <2> QED BY <1>3, <2>2 DEF Got
<1>17. Arrived(g)'
  <2>1. ASSUME framing # "hdlc", noise = 0
        PROVE  damaged' = {} /\ Exactly(sent, Room, g, delivered)'
    <3>1. damaged = {} /\ Exactly(sent, Room, g, delivered)
      BY <1>1, <2>1 DEF Arrived
    <3>2. Exactly(sent', Room', g, delivered)
      BY <1>15, <3>1, ExactlyStays
    <3> QED BY <1>3, <3>1, <3>2 DEF Exactly
  <2> QED BY <1>3, <1>16, <2>1 DEF Arrived
<1> QED BY <1>12, <1>14, <1>17 DEF Place

\* Flow control is set before the first frame.
LEMMA CarryTuning ==
    ASSUME TypeInv, NEW g, NEW j, Place(g, j), Tuning, UNCHANGED framing
    PROVE  Place(g, j)'
<1>0. LinkTypeOK
  BY DEF TypeInv
<1>1. LinkAt(g, j)
  BY DEF Place
<1>2. /\ framing = "hdlc" /\ sent = <<>>
      /\ UNCHANGED <<line, sent, at, damaged, noise, delivered, framing>>
  BY DEF Tuning, link_vars, line_vars
<1>3. g \in Nat /\ j \in Nat /\ g = 1 /\ j = 0
  <2>1. Len(sent) = 0
    BY <1>2
  <2>2. g \in Nat /\ g \in 1..(0 + 1) /\ j \in Nat /\ (j > 0 => g \in 1..0)
    BY <1>0, <1>1, <2>1, PlaceIs
  <2> QED BY <2>2
<1>4. LinkAt(g, j)'
  BY <1>1, <1>2, AtSame
<1>5. Holds(g, j)'
  BY <1>2, <1>3 DEF Holds, Opens, Quiet
<1>6. \A s, F, G, d : Got(s, F, 1, d) => Got(s, G, 1, d)
  <2>1. 1 - 1 = 0
    OBVIOUS
  <2> QED BY <2>1, ChosenNone DEF Got
<1>7. Arrived(g)'
  BY <1>2, <1>3, <1>6 DEF Place, Arrived, Got
<1> QED BY <1>4, <1>5, <1>7 DEF Place

LEMMA CarryInit == FramingsInit => CarryInv
<1> SUFFICES ASSUME FramingsInit PROVE CarryInv
  OBVIOUS
<1>1. /\ line = <<>> /\ sent = <<>> /\ at = 0 /\ damaged = {} /\ noise = 0 /\ delivered = <<>>
      /\ raw = <<>> /\ error = FALSE /\ slip_buf = <<>> /\ slip_error = FALSE /\ slip_escape = FALSE
  BY DEF FramingsInit, Init, LinkInit, Slip!Init
<1>2. LinkAt(1, 0)
  <2>1. Frames = <<>>
    BY <1>1 DEF Frames
  <2>2. Reading(line, Frames, 1, 0)
    BY <1>1, <2>1, ReadingNothing
  <2> QED BY <1>1, <2>2 DEF LinkAt
<1>3. Holds(1, 0)
  BY <1>1 DEF Holds, Opens, Quiet, CobsClean, SlipClean
<1>4. Arrived(1)
  <2>1. \A F : Chosen(sent, F, 1 - 1) = <<>>
    <3>1. 1 - 1 = 0
      OBVIOUS
    <3> QED BY <3>1, ChosenNone
  <2>2. IsSubsequence(<<>>, <<>>)
    <3>1. PICK s \in Seq(Byte) : s = <<>>
      BY EmptyOf
    <3> QED BY <3>1, SubsequenceOfItself
  <2> QED BY <1>1, <2>1, <2>2 DEF Arrived, Got, Exactly
<1> QED BY <1>2, <1>3, <1>4, TypeInit DEF CarryInv, Place

LEMMA CarryStep ==
    ASSUME CarryInv, [FramingsNext]_framings_vars
    PROVE  CarryInv'
<1>1. PICK g, j : TypeInv /\ Place(g, j)
  BY DEF CarryInv
<1>2. TypeInv'
  BY <1>1, TypeStays
<1>3. CASE UNCHANGED framings_vars
  <2>1. UNCHANGED <<line_vars, delivered, framing>> /\ Rests
    BY <1>3 DEF framings_vars, vars, link_vars, framer_vars, hdlc_vars, slip_vars, cobs_vars, Rests
  <2>2. Place(g, j)'
    BY <1>1, <2>1, CarryStill
  <2> QED BY <1>2, <2>2 DEF CarryInv
<1>4. CASE FramingsNext
  <2>0. Moves /\ UNCHANGED framing
    <3>1. w_buf \in Seq(Byte)
      BY <1>1 DEF TypeInv, LinkTypeOK
    <3> QED BY <1>4, <3>1, AllMoves
  <2> DEFINE Kept == \E h, i : Place(h, i)'
  <2>1. ASSUME Writing PROVE Kept
    <3>1. UNCHANGED <<line_vars, delivered>> /\ Rests
      BY <2>1 DEF Writing, Write
    <3>2. Place(g, j)'
      BY <1>1, <2>0, <3>1, CarryStill
    <3> QED BY <3>2
  <2>2. ASSUME Dropping PROVE Kept
    <3>1. UNCHANGED <<line_vars, delivered>> /\ Rests
      BY <2>2 DEF Dropping
    <3>2. Place(g, j)'
      BY <1>1, <2>0, <3>1, CarryStill
    <3> QED BY <3>2
  <2>3. ASSUME Putting PROVE Kept
    <3>1. Place(g, j)'
      BY <1>1, <2>0, <2>3, CarryPutting
    <3> QED BY <3>1
  <2>4. ASSUME Receiving PROVE Kept
    BY <1>1, <2>0, <2>4, CarryReceiving
  <2>5. ASSUME Changing PROVE Kept
    <3>1. PICK c \in Byte : Taken /\ Reads(c) /\ Noise(TakingHits)
      BY <2>5 DEF Changing
    <3>2. Grows /\ UNCHANGED flow_control
      BY <1>1, <3>1, ReadsType, ReadsSame DEF TypeInv
    <3> QED BY <1>1, <2>0, <3>1, <3>2, CarrySpoilt
  <2>6. ASSUME Adding PROVE Kept
    <3>1. Place(g, j)'
      BY <1>1, <2>0, <2>6, CarryAdding
    <3> QED BY <3>1
  <2>7. ASSUME Losing PROVE Kept
    <3>1. Taken /\ Noise(TakingHits) /\ Grows /\ UNCHANGED flow_control
      BY <2>7 DEF Losing, Rests, hdlc_vars, Grows
    <3> QED BY <1>1, <2>0, <3>1, CarrySpoilt
  <2>8. ASSUME Resetting PROVE Kept
    <3>1. Place(g, j)'
      BY <1>1, <2>0, <2>8, CarryResetting
    <3> QED BY <3>1
  <2>9. ASSUME Tuning PROVE Kept
    <3>1. Place(g, j)'
      BY <1>1, <2>0, <2>9, CarryTuning
    <3> QED BY <3>1
  <2>10. Kept
    <3> HIDE DEF Kept
    <3> QED BY <2>0, <2>1, <2>2, <2>3, <2>4, <2>5, <2>6, <2>7, <2>8, <2>9 DEF Moves
  <2> QED BY <1>2, <2>10 DEF CarryInv
<1> QED BY <1>3, <1>4

-----------------------------------------------------------------------------
(* What the invariant says when the line is empty.                          *)

LEMMA MustIs ==
    ASSUME LinkTypeOK
    PROVE  /\ framing = "cobs" => /\ MustArrive(Carried) = Chosen(sent, Due, Len(sent))
                                 /\ CanArrive(Carried) = Chosen(sent, Room, Len(sent))
           /\ framing = "slip" => /\ Slip!MustArrive(Slip!Carried) = Chosen(sent, Due, Len(sent))
                                 /\ Slip!CanArrive(Slip!Carried) = Chosen(sent, Room, Len(sent))
           /\ framing = "hdlc" => Hdlc!MustArrive(Hdlc!Carried) = Chosen(sent, Due, Len(sent))
<1>1. ASSUME framing = "cobs"
      PROVE  /\ Due = {f \in 1..Len(sent) : f \notin damaged /\ Carried(sent[f])}
             /\ Room = {f \in 1..Len(sent) : Carried(sent[f])}
  BY <1>1 DEF Due, Room, Fits
<1>2. ASSUME framing = "slip"
      PROVE  /\ Due = {f \in 1..Len(sent) : f \notin damaged /\ Slip!Carried(sent[f])}
             /\ Room = {f \in 1..Len(sent) : Slip!Carried(sent[f])}
  BY <1>2 DEF Due, Room, Fits
<1>3. ASSUME framing = "hdlc"
      PROVE  Due = {f \in 1..Len(sent) : f \notin damaged /\ Hdlc!Carried(sent[f])}
  BY <1>3 DEF Due, Fits
<1>4. /\ \A F : SentIn(F) = Chosen(sent, F, Len(sent))
      /\ \A F : Slip!SentIn(F) = Chosen(sent, F, Len(sent))
      /\ \A F : Hdlc!SentIn(F) = Chosen(sent, F, Len(sent))
  BY DEF SentIn, Slip!SentIn, Hdlc!SentIn, Chosen, Parts, FlattenSeq, Slip!FlattenSeq, Hdlc!FlattenSeq
<1>5. DOMAIN sent = 1..Len(sent)
  BY DEF LinkTypeOK
<1>6. ASSUME framing = "cobs"
      PROVE  /\ MustArrive(Carried) = Chosen(sent, Due, Len(sent))
             /\ CanArrive(Carried) = Chosen(sent, Room, Len(sent))
  <2>1. MustArrive(Carried) = SentIn(Due)
    BY <1>1, <1>5, <1>6 DEF MustArrive
  <2>2. CanArrive(Carried) = SentIn(Room)
    BY <1>1, <1>5, <1>6 DEF CanArrive
  <2> QED BY <1>4, <2>1, <2>2
<1>7. ASSUME framing = "slip"
      PROVE  /\ Slip!MustArrive(Slip!Carried) = Chosen(sent, Due, Len(sent))
             /\ Slip!CanArrive(Slip!Carried) = Chosen(sent, Room, Len(sent))
  <2>1. Slip!MustArrive(Slip!Carried) = Slip!SentIn(Due)
    BY <1>2, <1>5, <1>7 DEF Slip!MustArrive
  <2>2. Slip!CanArrive(Slip!Carried) = Slip!SentIn(Room)
    BY <1>2, <1>5, <1>7 DEF Slip!CanArrive
  <2> QED BY <1>4, <2>1, <2>2
<1>8. ASSUME framing = "hdlc" PROVE Hdlc!MustArrive(Hdlc!Carried) = Chosen(sent, Due, Len(sent))
  <2>1. Hdlc!MustArrive(Hdlc!Carried) = Hdlc!SentIn(Due)
    BY <1>3, <1>5, <1>8 DEF Hdlc!MustArrive
  <2> QED BY <1>4, <2>1
<1> QED BY <1>6, <1>7, <1>8

LEMMA CarryImplies == CarryInv => FramingsCarry
<1> SUFFICES ASSUME CarryInv PROVE FramingsCarry
  OBVIOUS
<1>1. PICK g, j : TypeInv /\ LinkAt(g, j) /\ Arrived(g)
  BY DEF CarryInv, Place
<1>0. LinkTypeOK /\ sent \in Seq(Seq(Byte)) /\ Len(sent) \in Nat
  BY <1>1, FramesType DEF TypeInv, LinkTypeOK
<1>2. g - 1 \in 0..Len(sent)
  <2>1. g \in Nat /\ g \in 1..(Len(sent) + 1)
    BY <1>0, <1>1, PlaceIs
  <2> QED BY <1>0, <2>1
<1>3. line = <<>> => g - 1 = Len(sent)
  <2> SUFFICES ASSUME line = <<>> PROVE g - 1 = Len(sent)
    OBVIOUS
  <2>1. g = Len(Frames) + 1
    BY <1>1, ReadingEnd DEF LinkAt
  <2>2. Len(Frames) = Len(sent)
    BY <1>0, FramesType
  <2> QED BY <1>0, <2>1, <2>2
<1>4. line = <<>> => IsSubsequence(Chosen(sent, Due, Len(sent)), delivered)
  BY <1>1, <1>3 DEF Arrived, Got
<1>5. framing # "hdlc" /\ noise = 0 =>
        /\ IsSubsequence(delivered, Chosen(sent, Room, Len(sent)))
        /\ line = <<>> => delivered = Chosen(sent, Room, Len(sent))
  <2> SUFFICES ASSUME framing # "hdlc", noise = 0
               PROVE  /\ IsSubsequence(delivered, Chosen(sent, Room, Len(sent)))
                      /\ line = <<>> => delivered = Chosen(sent, Room, Len(sent))
    OBVIOUS
  <2>1. delivered = Chosen(sent, Room, g - 1)
    BY <1>1 DEF Arrived, Exactly
  <2>2. IsSubsequence(Chosen(sent, Room, g - 1), Chosen(sent, Room, Len(sent)))
    BY <1>0, <1>2, ChosenPrefix
  <2> QED BY <1>3, <2>1, <2>2
<1>6. CASE framing = "cobs"
  <2>1. UntouchedDelivered /\ RoundTrip
    BY <1>4, <1>5, <1>0, <1>6, MustIs DEF UntouchedDelivered, RoundTrip
  <2> QED BY <1>6, <2>1 DEF FramingsCarry
<1>s. \A x, y : /\ Slip!IsSubsequence(x, y) <=> IsSubsequence(x, y)
                /\ Hdlc!IsSubsequence(x, y) <=> IsSubsequence(x, y)
  BY DEF Slip!IsSubsequence, Hdlc!IsSubsequence, IsSubsequence
<1>7. CASE framing = "slip"
  <2>1. Slip!UntouchedDelivered /\ Slip!RoundTrip
    BY <1>s, <1>4, <1>5, <1>0, <1>7, MustIs DEF Slip!UntouchedDelivered, Slip!RoundTrip
  <2> QED BY <1>7, <2>1 DEF FramingsCarry
<1>8. CASE framing = "hdlc"
  <2>1. Hdlc!UntouchedDelivered
    BY <1>s, <1>4, <1>0, <1>8, MustIs DEF Hdlc!UntouchedDelivered
  <2> QED BY <1>8, <2>1 DEF FramingsCarry
<1>9. framing \in {"cobs", "hdlc", "slip"}
  BY <1>1 DEF TypeInv
<1> QED BY <1>6, <1>7, <1>8, <1>9

\* Noise costs no frame but those it touches, and without noise SLIP and COBS deliver
\* exactly the payloads they have room for, once each and in order.
THEOREM FramingsCarryAll == FramingsSpec => []FramingsCarry
<1>1. FramingsInit => CarryInv
  BY CarryInit
<1>2. CarryInv /\ [FramingsNext]_framings_vars => CarryInv'
  BY CarryStep
<1>3. CarryInv => FramingsCarry
  BY CarryImplies
<1> QED BY <1>1, <1>2, <1>3, PTL DEF FramingsSpec

=============================================================================
