------------------------ MODULE MessageLink_proofs ------------------------
(***************************************************************************)
(* MessageLink is a channel of whole messages, for all lines, payloads,    *)
(* chunks, buffer sizes and restarts, in Python and C++.                   *)
(*                                                                         *)
(* The invariant relates the place where the reader stands to the messages *)
(* not yet parsed, whose images are what lies ahead of it in the chunk and *)
(* on the wire.                                                            *)
(***************************************************************************)
EXTENDS MessageLink, Flattening_proofs

-----------------------------------------------------------------------------
(* Varints.                                                                *)

\* Division by the radix.
LEMMA Division ==
    ASSUME NEW n \in Nat
    PROVE  /\ n \div Radix \in Nat
           /\ LowBits(n) \in 0..(Radix - 1)
           /\ n = LowBits(n) + Radix * (n \div Radix)
           /\ n >= Radix => n \div Radix < n
           /\ n < Radix => n \div Radix = 0 /\ LowBits(n) = n
<1> USE RadixAssumption DEF RadixAssumption
<1>1. n \div Radix \in Nat
  OBVIOUS
<1>2. LowBits(n) \in 0..(Radix - 1) /\ n = LowBits(n) + Radix * (n \div Radix)
  BY DEF LowBits
<1>3. n >= Radix => n \div Radix < n
  <2> SUFFICES ASSUME n >= Radix, n \div Radix >= n PROVE FALSE
    BY <1>1
  <2>1. Radix * (n \div Radix) >= 2 * (n \div Radix)
    BY <1>1
  <2> QED BY <1>1, <1>2, <2>1
<1>4. n < Radix => n \div Radix = 0
  <2> SUFFICES ASSUME n < Radix, n \div Radix >= 1 PROVE FALSE
    BY <1>1
  <2>1. Radix * (n \div Radix) >= Radix
    BY <1>1
  <2> QED BY <1>1, <1>2, <2>1
<1>5. n < Radix => LowBits(n) = n
  BY <1>2, <1>4
<1> QED BY <1>1, <1>2, <1>3, <1>4, <1>5

LEMMA QuotientUnique ==
    ASSUME NEW n \in Nat, NEW q \in Nat, NEW r \in 0..(Radix - 1), n = r + Radix * q
    PROVE  n \div Radix = q /\ LowBits(n) = r
<1> USE RadixAssumption DEF RadixAssumption
<1> DEFINE p == n \div Radix
<1>1. p \in Nat /\ LowBits(n) \in 0..(Radix - 1) /\ n = LowBits(n) + Radix * p
  BY Division
<1> HIDE DEF p
<1>2. ~(p < q)
  <2> SUFFICES ASSUME p + 1 <= q PROVE FALSE
    BY <1>1
  <2>1. Radix * (p + 1) <= Radix * q
    BY <1>1
  <2>2. Radix * (p + 1) = Radix * p + Radix
    BY <1>1
  <2> QED BY <1>1, <2>1, <2>2
<1>3. ~(q < p)
  <2> SUFFICES ASSUME q + 1 <= p PROVE FALSE
    BY <1>1
  <2>1. Radix * (q + 1) <= Radix * p
    BY <1>1
  <2>2. Radix * (q + 1) = Radix * q + Radix
    BY <1>1
  <2> QED BY <1>1, <2>1, <2>2
<1>4. p = q
  BY <1>1, <1>2, <1>3
<1> QED BY <1>1, <1>4 DEF p

\* The two kinds of varint bytes.
LEMMA VarintBytes ==
    ASSUME NEW b \in 0..(Radix - 1)
    PROVE  /\ b + Radix \in Byte /\ Continues(b + Radix) /\ LowBits(b + Radix) = b
           /\ b \in Byte /\ ~Continues(b) /\ LowBits(b) = b
<1> USE RadixAssumption DEF RadixAssumption, Byte
<1>1. (b + Radix) \div Radix = 1 /\ LowBits(b + Radix) = b
  <2>1. b + Radix = b + Radix * 1 /\ b + Radix \in Nat
    OBVIOUS
  <2> QED BY <2>1, QuotientUnique
<1>2. b \div Radix = 0 /\ LowBits(b) = b
  BY Division
<1> QED BY <1>1, <1>2 DEF Continues

\* What EncodeVarint does at n, if f does it below n.
Encoded(f, n) == IF n >= Radix THEN <<LowBits(n) + Radix>> \o f[n \div Radix] ELSE <<n>>

LEMMA EncodedType ==
    ASSUME NEW n \in Nat, NEW f, n >= Radix => f[n \div Radix] \in Seq(Byte)
    PROVE  Encoded(f, n) \in Seq(Byte)
<1>1. CASE n >= Radix
  <2>1. LowBits(n) + Radix \in Byte
    BY Division, VarintBytes
  <2> QED BY <1>1, <2>1 DEF Encoded
<1>2. CASE ~(n >= Radix)
  <2>1. n \in Byte
    BY <1>2, RadixAssumption DEF Byte, RadixAssumption
  <2> QED BY <1>2, <2>1 DEF Encoded
<1> QED BY <1>1, <1>2

LEMMA EncodingTo ==
    ASSUME NEW m \in Nat
    PROVE  \E f \in [0..m -> Seq(Byte)] : \A i \in 0..m : f[i] = Encoded(f, i)
<1> USE RadixAssumption DEF RadixAssumption
<1> DEFINE P(k) == \E f \in [0..k -> Seq(Byte)] : \A i \in 0..k : f[i] = Encoded(f, i)
<1>1. P(0)
  <2> DEFINE g == [i \in 0..0 |-> <<0>>]
  <2>1. g \in [0..0 -> Seq(Byte)] /\ g[0] = Encoded(g, 0)
    BY DEF Encoded, Byte
  <2>2. \A i \in 0..0 : i = 0
    OBVIOUS
  <2> HIDE DEF g
  <2> QED BY <2>1, <2>2
<1>2. ASSUME NEW k \in Nat, P(k) PROVE P(k + 1)
  <2>1. PICK f \in [0..k -> Seq(Byte)] : \A i \in 0..k : f[i] = Encoded(f, i)
    BY <1>2
  <2> DEFINE g == [i \in 0..(k + 1) |-> IF i = k + 1 THEN Encoded(f, k + 1) ELSE f[i]]
  <2>2. ASSUME NEW i \in 0..(k + 1), i >= Radix PROVE i \div Radix \in 0..k
    <3>1. i \in Nat
      OBVIOUS
    <3>2. i \div Radix \in Nat /\ i \div Radix < i
      BY <2>2, <3>1, Division
    <3> QED BY <3>2
  <2>3. Encoded(f, k + 1) \in Seq(Byte)
    <3>1. k + 1 \in Nat /\ k + 1 \in 0..(k + 1)
      OBVIOUS
    <3>2. k + 1 >= Radix => f[(k + 1) \div Radix] \in Seq(Byte)
      BY <2>2, <3>1
    <3> QED BY <3>1, <3>2, EncodedType
  <2>4. g \in [0..(k + 1) -> Seq(Byte)]
    BY <2>3
  <2>5. g[k + 1] = Encoded(f, k + 1) /\ \A i \in 0..k : g[i] = f[i]
    OBVIOUS
  <2> HIDE DEF g
  <2>6. ASSUME NEW i \in 0..(k + 1) PROVE g[i] = Encoded(g, i)
    <3>1. i >= Radix => g[i \div Radix] = f[i \div Radix]
      BY <2>2, <2>5
    <3>2. Encoded(g, i) = Encoded(f, i)
      BY <3>1 DEF Encoded
    <3>3. i = k + 1 \/ i \in 0..k
      OBVIOUS
    <3> QED BY <2>1, <2>5, <3>2, <3>3
  <2> QED BY <2>4, <2>6
<1>3. \A k \in Nat : P(k)
  <2> HIDE DEF P
  <2> DEFINE T == {k \in Nat : P(k)}
  <2>1. T \subseteq Nat /\ 0 \in T /\ \A k \in T : k + 1 \in T
    BY <1>1, <1>2
  <2>2. T = Nat
    <3> HIDE DEF T
    <3> QED BY <2>1, SetInduction
  <2> QED BY <2>2
<1> QED BY <1>3

LEMMA EncodingUnique ==
    ASSUME NEW f, NEW g, NEW m \in Nat,
           \A i \in 0..m : f[i] = Encoded(f, i), \A i \in 0..m : g[i] = Encoded(g, i)
    PROVE  \A i \in 0..m : f[i] = g[i]
<1> USE RadixAssumption DEF RadixAssumption
<1> DEFINE T == {i \in 0..m : f[i] # g[i]}
<1> SUFFICES ASSUME T # {} PROVE FALSE
  OBVIOUS
<1>0. T \subseteq Nat
  OBVIOUS
<1>1. PICK i \in T : \A j \in T : ~(j < i)
  <2> HIDE DEF T
  <2> QED BY <1>0, LeastOf
<1>2. i \in 0..m /\ f[i] # g[i] /\ i \in Nat
  BY <1>1
<1>3. i >= Radix => f[i \div Radix] = g[i \div Radix]
  <2> SUFFICES ASSUME i >= Radix PROVE f[i \div Radix] = g[i \div Radix]
    OBVIOUS
  <2>1. i \div Radix \in Nat /\ i \div Radix < i
    BY <1>2, Division
  <2>2. i \div Radix \in 0..m /\ i \div Radix \notin T
    BY <1>1, <1>2, <2>1
  <2> QED BY <2>2
<1>4. Encoded(f, i) = Encoded(g, i)
  BY <1>3 DEF Encoded
<1> QED BY <1>2, <1>4

LEMMA VarintUnfold ==
    ASSUME NEW n \in Nat
    PROVE  /\ EncodeVarint[n] = Encoded(EncodeVarint, n)
           /\ EncodeVarint[n] \in Seq(Byte) /\ Len(EncodeVarint[n]) >= 1
<1> DEFINE Below(m) == CHOOSE f \in [0..m -> Seq(Byte)] : \A i \in 0..m : f[i] = Encoded(f, i)
           F == [m \in Nat |-> Below(m)[m]]
<1>1. \A m \in Nat : /\ Below(m) \in [0..m -> Seq(Byte)]
                     /\ \A i \in 0..m : Below(m)[i] = Encoded(Below(m), i)
  BY EncodingTo
<1> HIDE DEF Below
<1>2. \A m \in Nat : \A i \in 0..m : Below(m)[i] = F[i]
  <2> SUFFICES ASSUME NEW m \in Nat, NEW i \in 0..m PROVE Below(m)[i] = F[i]
    OBVIOUS
  <2>1. i \in Nat /\ \A j \in 0..i : j \in 0..m
    OBVIOUS
  <2>2. \A j \in 0..i : Below(m)[j] = Encoded(Below(m), j)
    BY <1>1, <2>1
  <2>3. \A j \in 0..i : Below(i)[j] = Encoded(Below(i), j)
    BY <1>1, <2>1
  <2>4. \A j \in 0..i : Below(m)[j] = Below(i)[j]
    BY <2>1, <2>2, <2>3, EncodingUnique
  <2> QED BY <2>1, <2>4
<1>3. \A m \in Nat : F[m] = Encoded(F, m)
  <2> SUFFICES ASSUME NEW m \in Nat PROVE F[m] = Encoded(F, m)
    OBVIOUS
  <2>1. F[m] = Encoded(Below(m), m)
    BY <1>1
  <2>2. m >= Radix => m \div Radix \in 0..m
    BY Division, RadixAssumption DEF RadixAssumption
  <2> HIDE DEF F
  <2>3. m >= Radix => Below(m)[m \div Radix] = F[m \div Radix]
    BY <1>2, <2>2
  <2> QED BY <2>1, <2>3 DEF Encoded
<1>4. F = [m \in Nat |-> IF m >= Radix THEN <<LowBits(m) + Radix>> \o F[m \div Radix] ELSE <<m>>]
  BY <1>3 DEF Encoded
<1> HIDE DEF F
<1>5. EncodeVarint = [m \in Nat |-> IF m >= Radix THEN <<LowBits(m) + Radix>> \o EncodeVarint[m \div Radix]
                                    ELSE <<m>>]
  BY <1>4 DEF EncodeVarint
<1>6. \A m \in Nat : EncodeVarint[m] = Encoded(EncodeVarint, m)
  BY <1>5 DEF Encoded
<1>7. EncodeVarint[n] = F[n]
  <2>1. \A i \in 0..n : EncodeVarint[i] = Encoded(EncodeVarint, i) /\ F[i] = Encoded(F, i)
    BY <1>3, <1>6
  <2>2. \A i \in 0..n : EncodeVarint[i] = F[i]
    BY <2>1, EncodingUnique
  <2> QED BY <2>2
<1>8. F[n] \in Seq(Byte)
  <2>1. n \in 0..n
    OBVIOUS
  <2>2. Below(n)[n] \in Seq(Byte)
    BY <1>1, <2>1
  <2> QED BY <1>2, <2>1, <2>2
<1>9. EncodeVarint[n] # <<>>
  <2>1. CASE n >= Radix
    <3>1. n \div Radix \in 0..n /\ n \div Radix \in Nat
      BY <2>1, Division
    <3>2. Below(n)[n \div Radix] \in Seq(Byte)
      BY <1>1, <3>1
    <3>3. EncodeVarint[n \div Radix] \in Seq(Byte)
      <4>1. \A i \in 0..n : EncodeVarint[i] = Encoded(EncodeVarint, i) /\ F[i] = Encoded(F, i)
        BY <1>3, <1>6
      <4> QED BY <1>2, <3>1, <3>2, <4>1, EncodingUnique
    <3>4. EncodeVarint[n] = <<LowBits(n) + Radix>> \o EncodeVarint[n \div Radix]
      BY <1>6, <2>1 DEF Encoded
    <3>5. LowBits(n) + Radix \in Byte
      BY Division, VarintBytes
    <3> QED BY <3>3, <3>4, <3>5
  <2>2. CASE ~(n >= Radix)
    <3>1. EncodeVarint[n] = <<n>>
      BY <1>6, <2>2 DEF Encoded
    <3> QED BY <3>1
  <2> QED BY <2>1, <2>2
<1> QED BY <1>6, <1>7, <1>8, <1>9

-----------------------------------------------------------------------------
(* Consuming the front of the bytes ahead.                                 *)

LEMMA BytesAssociative ==
    \A x, y, z \in Seq(Byte) : (x \o y) \o z = x \o (y \o z)
BY ConcatAssociative

LEMMA SplitAt ==
    ASSUME NEW S, NEW s \in Seq(S), NEW k \in 0..Len(s)
    PROVE  /\ SubSeq(s, 1, k) \in Seq(S) /\ Len(SubSeq(s, 1, k)) = k
           /\ SubSeq(s, k + 1, Len(s)) \in Seq(S) /\ Len(SubSeq(s, k + 1, Len(s))) = Len(s) - k
           /\ s = SubSeq(s, 1, k) \o SubSeq(s, k + 1, Len(s))
<1>1. Len(s) \in Nat /\ \A i \in 1..Len(s) : s[i] \in S
  BY ElementOfSeq
<1>2. SubSeq(s, 1, k) \in Seq(S) /\ Len(SubSeq(s, 1, k)) = k
  BY <1>1, SubSeqProperties
<1>3. SubSeq(s, k + 1, Len(s)) \in Seq(S) /\ Len(SubSeq(s, k + 1, Len(s))) = Len(s) - k
  BY <1>1, SubSeqProperties
<1>4. s = SubSeq(s, 1, k) \o SubSeq(s, k + 1, Len(s))
  <2>1. SubSeq(s, 1, k) \o SubSeq(s, k + 1, Len(s)) = SubSeq(s, 1, Len(s))
    <3>1. Len(s) \in Nat /\ 1 \in 1..(Len(s) + 1) /\ k \in (1 - 1)..Len(s) /\ Len(s) \in k..Len(s)
      BY <1>1
    <3> QED BY <3>1, ConcatAdjacentSubSeq
  <2> QED BY <2>1, SubSeqFull
<1> QED BY <1>2, <1>3, <1>4

\* Two splits of the same sequence; folded, it guides the provers.
Joined(x, v, y, w) == x \o v = y \o w

LEMMA EqualFronts ==
    ASSUME NEW x \in Seq(Byte), NEW y \in Seq(Byte), NEW v \in Seq(Byte), NEW w \in Seq(Byte),
           Joined(x, v, y, w), Len(x) = Len(y)
    PROVE  x = y /\ v = w
<1> USE DEF Joined
<1>0. Len(x) \in Nat /\ Len(v) \in Nat /\ Len(w) \in Nat
  OBVIOUS
<1>1. \A i \in 1..Len(x) : (x \o v)[i] = x[i] /\ (y \o w)[i] = y[i]
  BY <1>0, ConcatProperties
<1>2. x = y
  BY <1>0, <1>1, SeqEqual
<1>3. Len(v) = Len(w)
  <2>1. Len(x \o v) = Len(x) + Len(v) /\ Len(x \o w) = Len(x) + Len(w)
    BY ConcatProperties
  <2> QED BY <1>0, <1>2, <2>1
<1>4. \A i \in 1..Len(v) : v[i] = w[i]
  <2> SUFFICES ASSUME NEW i \in 1..Len(v) PROVE v[i] = w[i]
    OBVIOUS
  <2>1. (x \o v)[i + Len(x)] = v[i] /\ (x \o w)[i + Len(x)] = w[i]
    BY <1>0, <1>3
  <2> QED BY <1>2, <2>1
<1> QED BY <1>0, <1>2, <1>3, <1>4, SeqEqual

LEMMA SplitFront ==
    ASSUME NEW d \in Seq(Byte), NEW w \in Seq(Byte), NEW k \in Nat, k <= Len(d)
    PROVE  /\ SubSeq(d, 1, k) \in Seq(Byte) /\ Len(SubSeq(d, 1, k)) = k
           /\ SubSeq(d, k + 1, Len(d)) \o w \in Seq(Byte)
           /\ d \o w = SubSeq(d, 1, k) \o (SubSeq(d, k + 1, Len(d)) \o w)
<1>1. k \in 0..Len(d)
  OBVIOUS
<1>2. /\ SubSeq(d, 1, k) \in Seq(Byte) /\ Len(SubSeq(d, 1, k)) = k
      /\ SubSeq(d, k + 1, Len(d)) \in Seq(Byte)
      /\ d = SubSeq(d, 1, k) \o SubSeq(d, k + 1, Len(d))
  BY <1>1, SplitAt, ZenonT(60)
<1>3. SubSeq(d, 1, k) \in Seq(Byte) /\ SubSeq(d, k + 1, Len(d)) \in Seq(Byte)
  BY <1>2
<1>4. SubSeq(d, k + 1, Len(d)) \o w \in Seq(Byte)
  BY <1>3
<1>5. (SubSeq(d, 1, k) \o SubSeq(d, k + 1, Len(d))) \o w = SubSeq(d, 1, k) \o (SubSeq(d, k + 1, Len(d)) \o w)
  BY <1>3, BytesAssociative
<1> QED BY <1>2, <1>4, <1>5

\* The first k bytes of d and r are the same, and so is what follows them.
SameFront(d, w, r, f, k) ==
    /\ SubSeq(d, 1, k) = SubSeq(r, 1, k)
    /\ SubSeq(d, k + 1, Len(d)) \o w = SubSeq(r, k + 1, Len(r)) \o f

\* The first k bytes of the chunk are those of the message.
LEMMA Consume ==
    ASSUME NEW d \in Seq(Byte), NEW w \in Seq(Byte), NEW r \in Seq(Byte), NEW f \in Seq(Byte),
           NEW k \in Nat, k <= Len(d), k <= Len(r)
    PROVE  Joined(d, w, r, f) => SameFront(d, w, r, f, k)
<1> DEFINE Split == Joined(SubSeq(d, 1, k), SubSeq(d, k + 1, Len(d)) \o w,
                           SubSeq(r, 1, k), SubSeq(r, k + 1, Len(r)) \o f)
<1>1. /\ SubSeq(d, 1, k) \in Seq(Byte) /\ Len(SubSeq(d, 1, k)) = k
      /\ SubSeq(d, k + 1, Len(d)) \o w \in Seq(Byte)
      /\ d \o w = SubSeq(d, 1, k) \o (SubSeq(d, k + 1, Len(d)) \o w)
  BY SplitFront
<1>2. /\ SubSeq(r, 1, k) \in Seq(Byte) /\ Len(SubSeq(r, 1, k)) = k
      /\ SubSeq(r, k + 1, Len(r)) \o f \in Seq(Byte)
      /\ r \o f = SubSeq(r, 1, k) \o (SubSeq(r, k + 1, Len(r)) \o f)
  BY SplitFront
<1>3. Joined(d, w, r, f) => Split
  BY <1>1, <1>2 DEF Joined
<1>4. /\ SubSeq(d, 1, k) \in Seq(Byte) /\ SubSeq(r, 1, k) \in Seq(Byte)
      /\ SubSeq(d, k + 1, Len(d)) \o w \in Seq(Byte) /\ SubSeq(r, k + 1, Len(r)) \o f \in Seq(Byte)
      /\ Len(SubSeq(d, 1, k)) = Len(SubSeq(r, 1, k))
  BY <1>1, <1>2
<1>5. Split => SubSeq(d, 1, k) = SubSeq(r, 1, k)
  BY <1>4, EqualFronts
<1>6. Split => SubSeq(d, k + 1, Len(d)) \o w = SubSeq(r, k + 1, Len(r)) \o f
  <2>1. PICK v \in Seq(Byte), z \in Seq(Byte) :
            v = SubSeq(d, k + 1, Len(d)) \o w /\ z = SubSeq(r, k + 1, Len(r)) \o f
    BY <1>4
  <2>2. v \in Seq(Byte) /\ z \in Seq(Byte)
    BY <2>1
  <2>3. Joined(SubSeq(d, 1, k), v, SubSeq(r, 1, k), z) => v = z
    BY <1>4, <2>2, EqualFronts
  <2> QED BY <2>1, <2>3
<1> HIDE DEF Split
<1> QED BY <1>3, <1>5, <1>6 DEF SameFront

\* The next byte of the chunk is that of the message.
LEMMA ConsumeByte ==
    ASSUME NEW d \in Seq(Byte), NEW w \in Seq(Byte), NEW b \in Seq(Byte), NEW f \in Seq(Byte),
           Len(b) = 1, d # <<>>, Joined(d, w, b, f)
    PROVE  Head(d) = b[1] /\ Tail(d) \in Seq(Byte) /\ Tail(d) \o w = f
<1>1. d = <<Head(d)>> \o Tail(d) /\ Head(d) \in Byte /\ Tail(d) \in Seq(Byte)
  OBVIOUS
<1>2. <<Head(d)>> \o (Tail(d) \o w) = b \o f
  <2>1. (<<Head(d)>> \o Tail(d)) \o w = <<Head(d)>> \o (Tail(d) \o w)
    <3>1. <<Head(d)>> \in Seq(Byte)
      BY <1>1
    <3> QED BY <1>1, <3>1, BytesAssociative
  <2> QED BY <1>1, <2>1 DEF Joined
<1>3. <<Head(d)>> \in Seq(Byte) /\ Tail(d) \o w \in Seq(Byte) /\ Len(<<Head(d)>>) = Len(b)
  BY <1>1
<1>4. <<Head(d)>> = b /\ Tail(d) \o w = f
  <2>1. Joined(<<Head(d)>>, Tail(d) \o w, b, f)
    BY <1>2 DEF Joined
  <2> QED BY <1>3, <2>1, EqualFronts
<1>5. <<Head(d)>>[1] = Head(d)
  OBVIOUS
<1> QED BY <1>1, <1>4, <1>5

-----------------------------------------------------------------------------
(* A chunk and what is left of a message, one of which is in front of the  *)
(* other.                                                                  *)

LEMMA SameAt ==
    ASSUME NEW d \in Seq(Byte), NEW w \in Seq(Byte), NEW r \in Seq(Byte), NEW f \in Seq(Byte),
           d \o w = r \o f, NEW i \in 1..Len(d), i <= Len(r)
    PROVE  d[i] = r[i]
<1>1. Len(d) \in Nat /\ Len(r) \in Nat /\ Len(w) \in Nat /\ Len(f) \in Nat
  OBVIOUS
<1>2. (d \o w)[i] = d[i]
  BY <1>1, ConcatProperties
<1>3. (r \o f)[i] = r[i]
  BY <1>1, ConcatProperties
<1> QED BY <1>2, <1>3

\* The chunk d, with w behind it, reaches to the end of r or beyond.
Covers(d, w, r, f) ==
    /\ SubSeq(d, 1, Len(r)) = r
    /\ SubSeq(d, Len(r) + 1, Len(d)) \in Seq(Byte)
    /\ SubSeq(d, Len(r) + 1, Len(d)) \o w = f

LEMMA WholeOf ==
    ASSUME NEW d \in Seq(Byte), NEW w \in Seq(Byte), NEW r \in Seq(Byte), NEW f \in Seq(Byte),
           Len(r) <= Len(d)
    PROVE  Joined(d, w, r, f) => Covers(d, w, r, f)
<1>1. Len(r) <= Len(r) /\ Len(r) \in 0..Len(d) /\ Len(r) \in Nat
  OBVIOUS
<1>2. Joined(d, w, r, f) => SameFront(d, w, r, f, Len(r))
  BY <1>1, Consume
<1>3. SubSeq(r, 1, Len(r)) = r
  BY SubSeqFull
<1>4. SubSeq(r, Len(r) + 1, Len(r)) = <<>>
  BY <1>1, SubSeqEmpty
<1>5. <<>> \o f = f
  OBVIOUS
<1>6. SubSeq(d, Len(r) + 1, Len(d)) \in Seq(Byte)
  BY <1>1, SplitAt
<1> QED BY <1>2, <1>3, <1>4, <1>5, <1>6 DEF SameFront, Covers

\* The chunk is part of what is left.
WithinRest(d, w, r, f) == \E z \in Seq(Byte) : r = d \o z /\ w = z \o f

LEMMA PartOf ==
    ASSUME NEW d \in Seq(Byte), NEW w \in Seq(Byte), NEW r \in Seq(Byte), NEW f \in Seq(Byte),
           Len(d) <= Len(r)
    PROVE  Joined(d, w, r, f) => WithinRest(d, w, r, f)
<1>1. Joined(r, f, d, w) => Covers(r, f, d, w)
  BY WholeOf
<1>2. r = SubSeq(r, 1, Len(d)) \o SubSeq(r, Len(d) + 1, Len(r))
  <2>1. Len(d) \in 0..Len(r)
    OBVIOUS
  <2> QED BY <2>1, SplitAt
<1>3. Joined(d, w, r, f) => Joined(r, f, d, w)
  BY DEF Joined
<1> QED BY <1>1, <1>2, <1>3 DEF Covers, WithinRest

LEMMA BytesAssociative4 ==
    \A x, y, z, f \in Seq(Byte) : ((x \o y) \o z) \o f = x \o ((y \o z) \o f)
<1> SUFFICES ASSUME NEW x \in Seq(Byte), NEW y \in Seq(Byte), NEW z \in Seq(Byte), NEW f \in Seq(Byte)
             PROVE  ((x \o y) \o z) \o f = x \o ((y \o z) \o f)
  OBVIOUS
<1>1. (x \o y) \o z = x \o (y \o z)
  BY BytesAssociative
<1>2. y \o z \in Seq(Byte)
  OBVIOUS
<1>3. (x \o (y \o z)) \o f = x \o ((y \o z) \o f)
  BY <1>2, BytesAssociative, SMTT(60)
<1> QED BY <1>1, <1>3

LEMMA LineWire ==
    ASSUME NEW b \in Seq(Byte)
    PROVE  /\ <<LF>> \in Seq(Byte) /\ Len(<<LF>>) = 1
           /\ b \o <<LF>> \in Seq(Byte) /\ Len(b \o <<LF>>) = Len(b) + 1
           /\ \A i \in 1..Len(b) : (b \o <<LF>>)[i] = b[i]
           /\ (b \o <<LF>>)[Len(b) + 1] = LF
<1>1. LF \in Byte
  BY DEF LF, Byte
<1>2. b \o <<LF>> = Append(b, LF)
  BY <1>1, AppendIsConcat
<1>3. /\ Append(b, LF) \in Seq(Byte) /\ Len(Append(b, LF)) = Len(b) + 1
      /\ \A i \in 1..Len(b) : Append(b, LF)[i] = b[i]
      /\ Append(b, LF)[Len(b) + 1] = LF
  BY <1>1, AppendProperties
<1>4. <<LF>> \in Seq(Byte) /\ Len(<<LF>>) = 1
  BY <1>1
<1> QED BY <1>2, <1>3, <1>4

-----------------------------------------------------------------------------
(* The bytes of a line.                                                    *)

BytesOf(line) == [i \in 1..Len(line) |-> line[i][1]]

LEMMA AsciiFacts ==
    ASSUME NEW ch \in Ascii
    PROVE  ch \in Seq(Byte) /\ ch = <<ch[1]>> /\ ch[1] \in Byte /\ ch[1] < 128 /\ ~Delimiter(ch[1])
<1>1. PICK c \in (0..127) \ {LF, SOH} : ch = <<c>>
  BY DEF Ascii
<1>2. ch[1] = c
  BY <1>1
<1>3. c \in Byte /\ c < 128 /\ ~Delimiter(c)
  BY DEF Byte, Delimiter
<1> QED BY <1>1, <1>2, <1>3

LEMMA LineBytes ==
    ASSUME NEW line \in Seq(Ascii)
    PROVE  /\ EncodeUtf8(line) = BytesOf(line)
           /\ BytesOf(line) \in Seq(Byte) /\ Len(BytesOf(line)) = Len(line)
           /\ \A i \in 1..Len(line) : BytesOf(line)[i] < 128 /\ ~Delimiter(BytesOf(line)[i])
           /\ DecodeUtf8(BytesOf(line)) = line
           /\ line \in Seq(Seq(Byte))
<1>0. Len(line) \in Nat
  OBVIOUS
<1>1. \A i \in 1..Len(line) : line[i] \in Ascii
  OBVIOUS
<1>2. \A i \in 1..Len(line) : line[i] \in Seq(Byte) /\ line[i] = <<line[i][1]>> /\ line[i][1] \in Byte
                              /\ line[i][1] < 128 /\ ~Delimiter(line[i][1])
  BY <1>1, AsciiFacts
<1>3. /\ BytesOf(line) \in Seq(Byte) /\ Len(BytesOf(line)) = Len(line)
      /\ \A i \in 1..Len(line) : BytesOf(line)[i] = line[i][1]
  BY <1>0, <1>2 DEF BytesOf
<1>4. line = [i \in 1..Len(line) |-> line[i]]
  OBVIOUS
<1>5. line \in Seq(Seq(Byte))
  BY <1>0, <1>2, <1>4
<1>6. line = [i \in 1..Len(BytesOf(line)) |-> <<BytesOf(line)[i]>>]
  BY <1>2, <1>3, <1>4
<1>7. EncodeUtf8(line) = BytesOf(line)
  BY <1>3, <1>6, FlattenSingletons DEF EncodeUtf8
<1>8. DecodeUtf8(BytesOf(line)) = line
  <2>1. \A i \in 1..Len(line) : DecodedAt(BytesOf(line), i) = << <<BytesOf(line)[i]>> >>
    BY <1>2, <1>3 DEF DecodedAt
  <2>2. [i \in 1..Len(BytesOf(line)) |-> DecodedAt(BytesOf(line), i)] = [i \in 1..Len(line) |-> <<line[i]>>]
    BY <1>2, <1>3, <2>1
  <2> QED BY <2>2, <1>5, FlattenSingletons DEF DecodeUtf8
<1> QED BY <1>2, <1>3, <1>5, <1>7, <1>8

LEMMA BytesOfConcat ==
    ASSUME NEW x \in Seq(Ascii), NEW y \in Seq(Ascii)
    PROVE  BytesOf(x \o y) = BytesOf(x) \o BytesOf(y)
<1>1. /\ Len(x) \in Nat /\ Len(y) \in Nat /\ Len(x \o y) = Len(x) + Len(y)
      /\ \A i \in 1..(Len(x) + Len(y)) : (x \o y)[i] = IF i <= Len(x) THEN x[i] ELSE y[i - Len(x)]
  BY ConcatProperties
<1>2. /\ BytesOf(x) \in Seq(Byte) /\ BytesOf(y) \in Seq(Byte)
      /\ Len(BytesOf(x)) = Len(x) /\ Len(BytesOf(y)) = Len(y)
  BY LineBytes
<1>3. x \o y \in Seq(Ascii)
  OBVIOUS
<1>4. BytesOf(x \o y) \in Seq(Byte) /\ Len(BytesOf(x \o y)) = Len(x) + Len(y)
  BY <1>1, <1>3, LineBytes
<1>5. \A i \in 1..(Len(x) + Len(y)) : BytesOf(x \o y)[i] = (BytesOf(x) \o BytesOf(y))[i]
  <2> SUFFICES ASSUME NEW i \in 1..(Len(x) + Len(y))
               PROVE  BytesOf(x \o y)[i] = (BytesOf(x) \o BytesOf(y))[i]
    OBVIOUS
  <2>1. BytesOf(x \o y)[i] = (x \o y)[i][1]
    BY <1>1 DEF BytesOf
  <2>2. (BytesOf(x) \o BytesOf(y))[i] = IF i <= Len(x) THEN BytesOf(x)[i] ELSE BytesOf(y)[i - Len(x)]
    BY <1>2
  <2>3. CASE i <= Len(x)
    BY <1>1, <2>1, <2>2, <2>3 DEF BytesOf
  <2>4. CASE ~(i <= Len(x))
    <3>1. i - Len(x) \in 1..Len(y)
      BY <1>1, <2>4
    <3> QED BY <1>1, <2>1, <2>2, <2>4, <3>1 DEF BytesOf
  <2> QED BY <2>3, <2>4
<1>6. /\ BytesOf(x) \o BytesOf(y) \in Seq(Byte)
      /\ Len(BytesOf(x) \o BytesOf(y)) = Len(x) + Len(y)
  BY <1>2, SMTT(60)
<1> QED BY <1>1, <1>4, <1>5, <1>6, SeqEqual

\* The first delimiter of the chunk is the newline that ends the line.
LEMMA NewlineAt ==
    ASSUME NEW d \in Seq(Byte), NEW w \in Seq(Byte), NEW f \in Seq(Byte), NEW b \in Seq(Byte),
           \A i \in 1..Len(b) : ~Delimiter(b[i]),
           d \o w = (b \o <<LF>>) \o f
    PROVE  /\ Len(d) > Len(b) => d[Len(b) + 1] = LF
           /\ \A i \in 1..Len(d) : i <= Len(b) => ~Delimiter(d[i])
<1>1. PICK r \in Seq(Byte) : r = b \o <<LF>>
  BY LineWire
<1>2. /\ Len(r) = Len(b) + 1 /\ r[Len(b) + 1] = LF /\ Len(b) \in Nat
      /\ \A i \in 1..Len(b) : r[i] = b[i]
  BY <1>1, LineWire
<1>3. d \o w = r \o f
  BY <1>1
<1>4. \A i \in 1..Len(d) : i <= Len(r) => d[i] = r[i]
  BY <1>1, <1>3, SameAt
<1>5. Len(d) > Len(b) => Len(b) + 1 \in 1..Len(d) /\ Len(b) + 1 <= Len(r)
  BY <1>2
<1>6. ASSUME NEW i \in 1..Len(d), i <= Len(b) PROVE ~Delimiter(d[i])
  <2>1. i \in 1..Len(b) /\ i <= Len(r)
    BY <1>2, <1>6
  <2> QED BY <1>2, <1>4, <2>1
<1> QED BY <1>2, <1>4, <1>5, <1>6

\* The rest of a line, todo, in front of f, begins with d.
LineAhead(d, w, todo, f) == d \o w = (BytesOf(todo) \o <<LF>>) \o f

\* The newline of the line is at k + 1.
LineEndsAt(d, w, todo, f, k) ==
    /\ d[k + 1] = LF
    /\ SubSeq(d, 1, k) = BytesOf(todo)
    /\ SubSeq(d, k + 2, Len(d)) \in Seq(Byte) /\ SubSeq(d, k + 2, Len(d)) \o w = f

LEMMA LineEnds ==
    ASSUME NEW d \in Seq(Byte), NEW w \in Seq(Byte), NEW f \in Seq(Byte), NEW todo \in Seq(Ascii),
           LineAhead(d, w, todo, f), NEW k \in 0..(Len(d) - 1),
           Delimiter(d[k + 1]), \A j \in 1..k : ~Delimiter(d[j])
    PROVE  LineEndsAt(d, w, todo, f, k)
<1>0. d \o w = (BytesOf(todo) \o <<LF>>) \o f
  BY DEF LineAhead
<1>1. PICK b \in Seq(Byte) : /\ b = BytesOf(todo) /\ Len(b) = Len(todo)
                             /\ \A i \in 1..Len(b) : ~Delimiter(b[i])
  BY LineBytes
<1>2. /\ Len(d) > Len(b) => d[Len(b) + 1] = LF
      /\ \A i \in 1..Len(d) : i <= Len(b) => ~Delimiter(d[i])
  BY <1>0, <1>1, NewlineAt
<1>3. Len(b) \in Nat /\ Len(d) \in Nat /\ Delimiter(LF)
  BY <1>1 DEF Delimiter
<1>4. k = Len(b)
  <2>1. ~(k < Len(b))
    <3>1. k + 1 \in 1..Len(d) /\ (k < Len(b) => k + 1 <= Len(b))
      BY <1>3
    <3> QED BY <1>2, <3>1
  <2>2. ~(k > Len(b))
    <3>1. k > Len(b) => Len(b) + 1 \in 1..k /\ Len(d) > Len(b)
      BY <1>3
    <3> QED BY <1>2, <1>3, <3>1
  <2> QED BY <1>3, <2>1, <2>2
<1>5. d[k + 1] = LF
  BY <1>2, <1>3, <1>4
<1>6. /\ SubSeq(d, k + 2, Len(d)) \in Seq(Byte) /\ SubSeq(d, k + 2, Len(d)) \o w = f
  <2>1. PICK r \in Seq(Byte) : r = b \o <<LF>> /\ Len(r) = k + 1
    BY <1>1, <1>4, LineWire
  <2>2. Joined(d, w, r, f) /\ k + 1 <= Len(d) /\ (k + 1) + 1 = k + 2
    BY <1>0, <1>1, <2>1 DEF Joined
  <2>3. r \in Seq(Byte) /\ Len(r) <= Len(d)
    BY <2>1, <2>2
  <2>4. Covers(d, w, r, f)
    BY <2>2, <2>3, WholeOf
  <2> QED BY <2>1, <2>2, <2>4 DEF Covers
<1>7. SubSeq(d, 1, k) = b
  <2>1. <<LF>> \in Seq(Byte) /\ b \in Seq(Byte)
    BY <1>1, LineWire
  <2>2. (b \o <<LF>>) \o f = b \o (<<LF>> \o f)
    BY <2>1, BytesAssociative
  <2>3. <<LF>> \o f \in Seq(Byte)
    BY <2>1
  <2>4. Len(b) <= Len(d)
    BY <1>3, <1>4
  <2>5. Joined(d, w, b, <<LF>> \o f) => Covers(d, w, b, <<LF>> \o f)
    BY <2>1, <2>3, <2>4, WholeOf
  <2> QED BY <1>0, <1>1, <1>4, <2>2, <2>5 DEF Joined, Covers
<1> QED BY <1>1, <1>5, <1>6, <1>7 DEF LineEndsAt

LEMMA LineSplit ==
    ASSUME NEW part \in Seq(Ascii), NEW later \in Seq(Ascii), NEW f \in Seq(Byte)
    PROVE  ((BytesOf(part) \o BytesOf(later)) \o <<LF>>) \o f = BytesOf(part) \o ((BytesOf(later) \o <<LF>>) \o f)
<1>1. BytesOf(part) \in Seq(Byte) /\ BytesOf(later) \in Seq(Byte) /\ <<LF>> \in Seq(Byte)
  BY LineBytes, LineWire
<1> QED BY <1>1, BytesAssociative4, SMTT(60)

LineSplitAt(d, w, part, later, f) == d = BytesOf(part) /\ w = (BytesOf(later) \o <<LF>>) \o f

\* A chunk without delimiter is a part of the line.
LEMMA LineContinues ==
    ASSUME NEW d \in Seq(Byte), NEW w \in Seq(Byte), NEW f \in Seq(Byte), NEW todo \in Seq(Ascii),
           LineAhead(d, w, todo, f), \A j \in 1..Len(d) : ~Delimiter(d[j])
    PROVE  \E part, later \in Seq(Ascii) : todo = part \o later /\ LineSplitAt(d, w, part, later, f)
<1>0. d \o w = (BytesOf(todo) \o <<LF>>) \o f
  BY DEF LineAhead
<1> DEFINE n == Len(d)
           part == SubSeq(todo, 1, n)
           later == SubSeq(todo, n + 1, Len(todo))
<1>1. /\ BytesOf(todo) \in Seq(Byte) /\ Len(BytesOf(todo)) = Len(todo)
      /\ \A i \in 1..Len(BytesOf(todo)) : ~Delimiter(BytesOf(todo)[i])
  BY LineBytes
<1>2. n \in 0..Len(todo)
  <2>1. n > Len(todo) => d[Len(todo) + 1] = LF
    BY <1>0, <1>1, NewlineAt
  <2>2. Len(todo) \in Nat /\ n \in Nat /\ Delimiter(LF)
    BY DEF Delimiter
  <2>3. n > Len(todo) => Len(todo) + 1 \in 1..Len(d)
    BY <2>2
  <2> QED BY <2>1, <2>2, <2>3
<1>3. part \in Seq(Ascii) /\ later \in Seq(Ascii) /\ todo = part \o later /\ Len(part) = n
  BY <1>2, SplitAt
<1> HIDE DEF part, later
<1>4. /\ BytesOf(part) \in Seq(Byte) /\ BytesOf(later) \in Seq(Byte) /\ Len(BytesOf(part)) = n
      /\ BytesOf(todo) = BytesOf(part) \o BytesOf(later)
  <2>1. BytesOf(part \o later) = BytesOf(part) \o BytesOf(later)
    BY <1>3, BytesOfConcat
  <2>2. BytesOf(part) \in Seq(Byte) /\ BytesOf(later) \in Seq(Byte) /\ Len(BytesOf(part)) = Len(part)
    BY <1>3, LineBytes
  <2> QED BY <1>3, <2>1, <2>2
<1> DEFINE rest == (BytesOf(later) \o <<LF>>) \o f
<1>5. rest \in Seq(Byte)
  <2>1. BytesOf(later) \o <<LF>> \in Seq(Byte)
    BY <1>4, LineWire
  <2> QED BY <2>1
<1>6. d \o w = BytesOf(part) \o rest
  <2>2. ((BytesOf(part) \o BytesOf(later)) \o <<LF>>) \o f = BytesOf(part) \o ((BytesOf(later) \o <<LF>>) \o f)
    BY <1>3, LineSplit
  <2> QED BY <1>0, <1>4, <2>2
<1> HIDE DEF rest
<1>7. d = BytesOf(part) /\ w = rest
  <2>1. Joined(d, w, BytesOf(part), rest)
    BY <1>6 DEF Joined
  <2>2. BytesOf(part) \in Seq(Byte) /\ Len(d) = Len(BytesOf(part))
    BY <1>4
  <2> QED BY <1>5, <2>1, <2>2, EqualFronts
<1> QED BY <1>3, <1>7 DEF rest, LineSplitAt

-----------------------------------------------------------------------------
(* The messages and their bytes.                                           *)

Messages == {Text(line) : line \in Lines} \cup {Binary(payload) : payload \in Payloads}

Image(m) == IF m.kind = "text" THEN WireText(m.body) ELSE WireBinary(m.body)

\* The bytes of a sequence of messages.
Images(ms) == FlattenSeq([k \in 1..Len(ms) |-> Image(ms[k])])

IsText(m) ==
    /\ m.kind = "text" /\ m = Text(m.body)
    /\ m.body \in Seq(Ascii) /\ m.body \in Seq(Seq(Byte)) /\ StripCR(m.body) = m.body

IsBinary(m) ==
    /\ m.kind = "binary" /\ m = Binary(m.body)
    /\ m.body \in Seq(Byte) /\ Len(EncodeVarint[Len(m.body)]) <= VarintMaxBytes

LEMMA LastOfLine ==
    ASSUME NEW line \in Lines
    PROVE  IsText(Text(line))
<1>1. line \in Seq(Ascii) /\ (line # <<>> => Last(line) # <<CR>>)
  BY LinesAssumption DEF LinesAssumption
<1>2. StripCR(line) = line
  BY <1>1 DEF StripCR
<1>3. line \in Seq(Seq(Byte))
  BY <1>1, LineBytes
<1> QED BY <1>1, <1>2, <1>3 DEF IsText, Text

LEMMA MessageKinds ==
    ASSUME NEW m \in Messages
    PROVE  (IsText(m) \/ IsBinary(m)) /\ m \in Message
<1>1. CASE \E line \in Lines : m = Text(line)
  <2>1. IsText(m)
    BY <1>1, LastOfLine
  <2> QED BY <2>1 DEF IsText, Message, Text
<1>2. CASE \E payload \in Payloads : m = Binary(payload)
  <2>1. PICK payload \in Payloads : m = Binary(payload)
    BY <1>2
  <2>2. payload \in Seq(Byte) /\ Len(EncodeVarint[Len(payload)]) <= VarintMaxBytes
    BY PayloadsAssumption DEF PayloadsAssumption
  <2>3. m.kind = "binary" /\ m.body = payload
    BY <2>1 DEF Binary
  <2>4. IsBinary(m)
    BY <2>1, <2>2, <2>3 DEF IsBinary
  <2> QED BY <2>2, <2>3, <2>4 DEF Message, Binary, IsBinary
<1> QED BY <1>1, <1>2 DEF Messages

LEMMA ImageType ==
    ASSUME NEW m \in Messages
    PROVE  Image(m) \in Seq(Byte)
<1>1. CASE IsText(m)
  <2>1. EncodeUtf8(m.body) \in Seq(Byte)
    BY <1>1, LineBytes DEF IsText
  <2>2. LF \in Byte
    BY DEF LF, Byte
  <2> QED BY <1>1, <2>1, <2>2 DEF Image, WireText, IsText
<1>2. CASE IsBinary(m)
  <2>1. Len(m.body) \in Nat /\ m.body \in Seq(Byte)
    BY <1>2 DEF IsBinary
  <2>2. EncodeVarint[Len(m.body)] \in Seq(Byte)
    BY <2>1, VarintUnfold
  <2>3. SOH \in Byte /\ BINARY_PROTOCOL_V1 \in Byte
    BY DEF SOH, BINARY_PROTOCOL_V1, Byte
  <2> QED BY <1>2, <2>1, <2>2, <2>3 DEF Image, WireBinary, BinaryHeader, IsBinary
<1> QED BY <1>1, <1>2, MessageKinds

LEMMA ImagesFacts ==
    ASSUME NEW ms \in Seq(Messages), NEW m \in Messages
    PROVE  /\ Images(<<>>) = <<>>
           /\ Images(ms) \in Seq(Byte)
           /\ Images(Append(ms, m)) = Images(ms) \o Image(m)
           /\ Images(<<m>> \o ms) = Image(m) \o Images(ms)
<1> DEFINE Parts(t) == [k \in 1..Len(t) |-> Image(t[k])]
<1>0. Len(ms) \in Nat /\ \A k \in 1..Len(ms) : ms[k] \in Messages
  OBVIOUS
<1>1. Parts(ms) \in Seq(Seq(Byte)) /\ Image(m) \in Seq(Byte)
  BY <1>0, ImageType
<1>2. Parts(<<>>) = <<>>
  OBVIOUS
<1>3. Parts(Append(ms, m)) = Append(Parts(ms), Image(m))
  <2>1. /\ Append(ms, m) \in Seq(Messages) /\ Len(Append(ms, m)) = Len(ms) + 1
        /\ \A k \in 1..Len(ms) : Append(ms, m)[k] = ms[k]
        /\ Append(ms, m)[Len(ms) + 1] = m
    BY AppendProperties
  <2>2. Parts(Append(ms, m)) = [k \in 1..(Len(ms) + 1) |-> IF k = Len(ms) + 1 THEN Image(m) ELSE Image(ms[k])]
    BY <1>0, <2>1
  <2>3. Append(Parts(ms), Image(m)) = [k \in 1..(Len(ms) + 1) |-> IF k = Len(ms) + 1 THEN Image(m) ELSE Image(ms[k])]
    BY <1>0, <1>1
  <2> QED BY <2>2, <2>3
<1>4. Parts(<<m>> \o ms) = <<Image(m)>> \o Parts(ms)
  <2>1. /\ <<m>> \in Seq(Messages) /\ Len(<<m>> \o ms) = 1 + Len(ms)
        /\ \A k \in 1..(1 + Len(ms)) : (<<m>> \o ms)[k] = IF k = 1 THEN m ELSE ms[k - 1]
    BY <1>0
  <2>2. Parts(<<m>> \o ms) = [k \in 1..(1 + Len(ms)) |-> IF k = 1 THEN Image(m) ELSE Image(ms[k - 1])]
    BY <1>0, <2>1
  <2>3. <<Image(m)>> \o Parts(ms) = [k \in 1..(1 + Len(ms)) |-> IF k = 1 THEN Image(m) ELSE Image(ms[k - 1])]
    BY <1>0, <1>1
  <2> QED BY <2>2, <2>3
<1> HIDE DEF Parts
<1>5. \A t : Images(t) = FlattenSeq(Parts(t))
  BY DEF Images, Parts
<1>6. Images(<<>>) = <<>>
  BY <1>2, <1>5, FlattenEmpty
<1>7. Images(ms) \in Seq(Byte)
  BY <1>1, <1>5, FlattenType
<1>8. Images(Append(ms, m)) = Images(ms) \o Image(m)
  <2>1. FlattenSeq(Append(Parts(ms), Image(m))) = FlattenSeq(Parts(ms)) \o Image(m)
    BY <1>1, FlattenAppend
  <2> QED BY <1>3, <1>5, <2>1
<1>9. Images(<<m>> \o ms) = Image(m) \o Images(ms)
  <2>1. FlattenSeq(<<Image(m)>> \o Parts(ms)) = Image(m) \o FlattenSeq(Parts(ms))
    BY <1>1, FlattenCons
  <2> QED BY <1>4, <1>5, <2>1
<1> QED BY <1>6, <1>7, <1>8, <1>9

-----------------------------------------------------------------------------
(* The buffers of the C++ handler.                                         *)

LEMMA CutFacts ==
    ASSUME NEW s \in Seq(Byte), NEW n \in Nat
    PROVE  /\ Cut(s, n) \in Seq(Byte) /\ Len(Cut(s, n)) <= n
           /\ Len(s) <= n => Cut(s, n) = s
           /\ \E t \in Seq(Byte) : s = Cut(s, n) \o t /\ (t # <<>> => Len(Cut(s, n)) = n)
<1> DEFINE k == IF Len(s) < n THEN Len(s) ELSE n
<1>1. k \in 0..Len(s) /\ k <= n /\ (Len(s) <= n => k = Len(s)) /\ (k < Len(s) => k = n)
  OBVIOUS
<1> HIDE DEF k
<1>2. /\ SubSeq(s, 1, k) \in Seq(Byte) /\ Len(SubSeq(s, 1, k)) = k
      /\ SubSeq(s, k + 1, Len(s)) \in Seq(Byte) /\ Len(SubSeq(s, k + 1, Len(s))) = Len(s) - k
      /\ s = SubSeq(s, 1, k) \o SubSeq(s, k + 1, Len(s))
  BY <1>1, SplitAt
<1>3. Cut(s, n) = SubSeq(s, 1, k)
  BY DEF Cut, k
<1>4. Len(s) <= n => SubSeq(s, 1, k) = s
  BY <1>1, SubSeqFull
<1>5. SubSeq(s, k + 1, Len(s)) # <<>> => k = n
  BY <1>1, <1>2
<1> QED BY <1>1, <1>2, <1>3, <1>4, <1>5

\* Cutting what was received so far, and again with the next chunk, is cutting once.
LEMMA CutTwice ==
    ASSUME NEW s \in Seq(Byte), NEW u \in Seq(Byte), NEW n \in Nat
    PROVE  Cut(Cut(s, n) \o u, n) = Cut(s \o u, n)
<1>1. PICK t \in Seq(Byte) : s = Cut(s, n) \o t /\ (t # <<>> => Len(Cut(s, n)) = n)
  BY CutFacts
<1>2. PICK c \in Seq(Byte) : c = Cut(s, n)
  BY CutFacts
<1>3. CASE t = <<>>
  <2>1. c \o t = c
    BY <1>3
  <2> QED BY <1>1, <1>2, <2>1
<1>4. CASE t # <<>>
  <2>1. Len(c) = n
    BY <1>1, <1>2, <1>4
  <2>2. \A v \in Seq(Byte) : Cut(c \o v, n) = c
    <3> SUFFICES ASSUME NEW v \in Seq(Byte) PROVE Cut(c \o v, n) = c
      OBVIOUS
    <3>0. c \o v \in Seq(Byte)
      OBVIOUS
    <3>1. PICK w \in Seq(Byte) : c \o v = Cut(c \o v, n) \o w /\ (w # <<>> => Len(Cut(c \o v, n)) = n)
      BY <3>0, CutFacts
    <3>2. PICK e \in Seq(Byte) : e = Cut(c \o v, n)
      BY <3>0, CutFacts
    <3>3. Len(e) = n
      <4>1. Len(e) <= n
        BY <3>0, <3>2, CutFacts
      <4>2. CASE w = <<>>
        <5>1. Len(c \o v) >= n
          BY <2>1
        <5>2. c \o v = e
          BY <3>1, <3>2, <4>2
        <5> QED BY <4>1, <5>1, <5>2
      <4> QED BY <3>1, <3>2, <4>2
    <3>4. c \o v = e \o w /\ Len(c) = Len(e)
      BY <2>1, <3>1, <3>2, <3>3
    <3>5. c = e
      BY <3>4, EqualFronts DEF Joined
    <3> QED BY <3>2, <3>5
  <2>3. s \o u = c \o (t \o u)
    <3>1. (c \o t) \o u = c \o (t \o u)
      BY BytesAssociative
    <3> QED BY <1>1, <1>2, <3>1
  <2>4. t \o u \in Seq(Byte)
    OBVIOUS
  <2> QED BY <1>2, <2>2, <2>3, <2>4
<1> QED BY <1>3, <1>4

\* What the C++ handler makes of a message m, when its text buffer already holds
\* the bytes in front.
View(m, in_front) ==
    IF m.kind = "binary" THEN Binary(Cut(m.body, BinaryBufSize))
    ELSE [kind |-> "text", body |-> CppLine(in_front \o EncodeUtf8(m.body))]

FirstTextOf(p) == SelectInSeq(p, LAMBDA m : m.kind = "text")

\* What a restart left in the text buffer is there until the first text of p.
Left(p, st) == IF FirstTextOf(p) = 0 THEN st ELSE <<>>

Views(p, st) == [k \in 1..Len(p) |-> View(p[k], IF k = FirstTextOf(p) THEN st ELSE <<>>)]

LEMMA FirstTextFacts ==
    ASSUME NEW p \in Seq(Message)
    PROVE  \/ /\ FirstTextOf(p) = 0
              /\ \A k \in 1..Len(p) : p[k].kind # "text"
           \/ /\ FirstTextOf(p) \in 1..Len(p)
              /\ p[FirstTextOf(p)].kind = "text"
              /\ \A k \in 1..Len(p) : k < FirstTextOf(p) => p[k].kind # "text"
<1> DEFINE I == {k \in 1..Len(p) : p[k].kind = "text"}
<1>1. FirstTextOf(p) = IF I # {} THEN Min(I) ELSE 0
  BY DEF FirstTextOf, SelectInSeq
<1>2. CASE I = {}
  BY <1>1, <1>2
<1>3. CASE I # {}
  <2>1. I \subseteq Nat
    OBVIOUS
  <2>2. PICK i \in I : \A j \in I : ~(j < i)
    <3> HIDE DEF I
    <3> QED BY <1>3, <2>1, LeastOf
  <2>3. i \in I /\ \A j \in I : i <= j
    BY <2>1, <2>2
  <2>4. Min(I) \in I /\ \A j \in I : Min(I) <= j
    <3> HIDE DEF I
    <3> QED BY <2>3 DEF Min
  <2>5. FirstTextOf(p) = Min(I)
    BY <1>1, <1>3
  <2> HIDE DEF I
  <2>6. FirstTextOf(p) \in I /\ \A j \in I : FirstTextOf(p) <= j
    BY <2>4, <2>5
  <2> QED BY <2>6 DEF I
<1> QED BY <1>2, <1>3

LEMMA FirstTextIs ==
    ASSUME NEW p \in Seq(Message), NEW k \in 1..Len(p), p[k].kind = "text",
           \A j \in 1..Len(p) : j < k => p[j].kind # "text"
    PROVE  FirstTextOf(p) = k
BY FirstTextFacts

LEMMA FirstTextNone ==
    ASSUME NEW p \in Seq(Message), \A j \in 1..Len(p) : p[j].kind # "text"
    PROVE  FirstTextOf(p) = 0
BY FirstTextFacts

LEMMA ViewsAppend ==
    ASSUME NEW p \in Seq(Message), NEW m \in Message, NEW st
    PROVE  /\ Views(Append(p, m), st) = Append(Views(p, st), View(m, Left(p, st)))
           /\ Left(Append(p, m), st) = IF m.kind = "text" THEN <<>> ELSE Left(p, st)
<1> DEFINE q == Append(p, m)
<1>1. /\ q \in Seq(Message) /\ Len(p) \in Nat /\ Len(q) = Len(p) + 1
      /\ \A k \in 1..Len(p) : q[k] = p[k]
      /\ q[Len(p) + 1] = m
  BY AppendProperties
<1> HIDE DEF q
<1>2. CASE FirstTextOf(p) # 0
  <2>1. /\ FirstTextOf(p) \in 1..Len(p) /\ p[FirstTextOf(p)].kind = "text"
        /\ \A k \in 1..Len(p) : k < FirstTextOf(p) => p[k].kind # "text"
    BY <1>2, FirstTextFacts
  <2>2. /\ FirstTextOf(p) \in 1..Len(q) /\ q[FirstTextOf(p)].kind = "text"
        /\ \A k \in 1..Len(q) : k < FirstTextOf(p) => q[k].kind # "text"
    BY <1>1, <2>1
  <2>3. FirstTextOf(q) = FirstTextOf(p)
    BY <1>1, <2>2, FirstTextIs
  <2>4. FirstTextOf(q) # 0 /\ FirstTextOf(q) # Len(p) + 1
    BY <1>1, <1>2, <2>1, <2>3
  <2>5. Views(q, st) = Append(Views(p, st), View(m, <<>>))
    BY <1>1, <2>3, <2>4 DEF Views
  <2> QED BY <1>2, <2>4, <2>5 DEF Left, q
<1>3. CASE FirstTextOf(p) = 0
  <2>1. \A k \in 1..Len(p) : p[k].kind # "text"
    BY <1>3, FirstTextFacts
  <2>2. CASE m.kind = "text"
    <3>1. FirstTextOf(q) = Len(p) + 1
      BY <1>1, <2>1, <2>2, FirstTextIs
    <3>2. Views(q, st) = Append(Views(p, st), View(m, st))
      BY <1>1, <1>3, <3>1 DEF Views
    <3> QED BY <1>1, <1>3, <2>2, <3>1, <3>2 DEF Left, q
  <2>3. CASE m.kind # "text"
    <3>1. FirstTextOf(q) = 0
      BY <1>1, <2>1, <2>3, FirstTextNone
    <3>2. View(m, <<>>) = View(m, st)
      BY <2>3 DEF View, Message
    <3>3. Views(q, st) = Append(Views(p, st), View(m, <<>>))
      BY <1>1, <1>3, <3>1 DEF Views
    <3> QED BY <1>1, <1>3, <2>3, <3>1, <3>2, <3>3 DEF Left, q
  <2> QED BY <2>2, <2>3
<1> QED BY <1>2, <1>3

LEMMA CppLineTwice ==
    ASSUME NEW s \in Seq(Byte), NEW u \in Seq(Byte)
    PROVE  CppLine(Cut(s, TextBufSize) \o u) = CppLine(s \o u)
<1>1. Cut(Cut(s, TextBufSize) \o u, TextBufSize) = Cut(s \o u, TextBufSize)
  BY CutTwice, BufferSizes DEF BufferSizes
<1> QED BY <1>1 DEF CppLine

-----------------------------------------------------------------------------
(* The inductive invariant.                                                *)

Ahead == data \o wire

\* Between two messages the bytes ahead are those of the messages not yet parsed.
Between(rest) == state = "IDLE" /\ text_buf = <<>> /\ Ahead = Images(rest)

\* Inside a message m they begin with what is left of m.
InText(m, rest) ==
    /\ state = "TEXT" /\ m.kind = "text"
    /\ \E done, todo \in Seq(Ascii) :
        /\ m.body = done \o todo
        /\ text_buf = done
        /\ Ahead = (BytesOf(todo) \o <<LF>>) \o Images(rest)

InVersion(m, rest) ==
    /\ state = "VERSION" /\ m.kind = "binary" /\ text_buf = <<>>
    /\ Ahead = <<BINARY_PROTOCOL_V1>> \o ((EncodeVarint[Len(m.body)] \o m.body) \o Images(rest))

InLength(m, rest) ==
    /\ state = "LENGTH" /\ m.kind = "binary" /\ text_buf = <<>>
    /\ \E v \in Nat :
        /\ Ahead = EncodeVarint[v] \o (m.body \o Images(rest))
        /\ varint_value + v * varint_scale = Len(m.body)
        /\ varint_bytes_read + Len(EncodeVarint[v]) <= VarintMaxBytes

InPayload(m, rest) ==
    /\ state = "PAYLOAD" /\ m.kind = "binary" /\ text_buf = <<>>
    /\ \E todo \in Seq(Byte) :
        /\ todo # <<>> /\ m.body = binary_buf \o todo
        /\ payload_remaining = Len(todo)
        /\ Ahead = todo \o Images(rest)

Within(m, rest) == InText(m, rest) \/ InVersion(m, rest) \/ InLength(m, rest) \/ InPayload(m, rest)

StreamInv ==
    \E rest \in Seq(Messages) :
        \/ sent = Parsed \o rest /\ Between(rest)
        \/ \E m \in Messages : sent = Parsed \o (<<m>> \o rest) /\ Within(m, rest)

\* A message being streamed: what was written and what is still unwritten.
Streamed(m) == out \o unwritten = IF m.kind = "text" THEN BytesOf(m.body) ELSE WireBinary(m.body)

WriterInv == in_message => writing \in Messages /\ Streamed(writing)

CppInv ==
    /\ cpp_messages = Views(Parsed, stale)
    /\ cpp_text = Cut(Left(Parsed, stale) \o EncodeUtf8(text_buf), TextBufSize)
    /\ state = "PAYLOAD" => cpp_binary = Cut(binary_buf, BinaryBufSize)
    /\ stale \in Seq(Byte) /\ Len(stale) <= TextBufSize

Inv == TypeOK /\ StreamInv /\ WriterInv /\ CppInv

-----------------------------------------------------------------------------
(* What is left of the message that is being parsed.                       *)

\* In front of a message the bytes ahead are its own.
LEMMA NextMessage ==
    ASSUME NEW rest \in Seq(Messages), NEW a \in Seq(Byte), a # <<>>, a = Images(rest)
    PROVE  \E m \in Messages, later \in Seq(Messages) :
                rest = <<m>> \o later /\ a = Image(m) \o Images(later)
<1>1. rest # <<>>
  <2> SUFFICES ASSUME rest = <<>> PROVE FALSE
    OBVIOUS
  <2>1. Images(<<>>) = <<>>
    BY FlattenEmpty DEF Images
  <2> QED BY <2>1
<1>2. Head(rest) \in Messages /\ Tail(rest) \in Seq(Messages) /\ rest = <<Head(rest)>> \o Tail(rest)
  BY <1>1
<1>3. Images(<<Head(rest)>> \o Tail(rest)) = Image(Head(rest)) \o Images(Tail(rest))
  BY <1>2, ImagesFacts
<1> QED BY <1>2, <1>3

\* The first byte of a message tells its kind.
LEMMA TextImage ==
    ASSUME NEW m \in Messages, m.kind = "text", NEW f \in Seq(Byte)
    PROVE  /\ BytesOf(m.body) \in Seq(Byte)
           /\ Image(m) = BytesOf(m.body) \o <<LF>>
           /\ m.body = <<>> => Image(m) \o f = <<LF>> \o f
           /\ Image(m) \o f # <<>> /\ Head(Image(m) \o f) # SOH
           /\ m.body # <<>> => Head(Image(m) \o f) # LF
<1>0. m.body \in Seq(Ascii) /\ LF \in Byte
  BY MessageKinds DEF IsText, IsBinary, LF, Byte
<1>1. /\ BytesOf(m.body) \in Seq(Byte) /\ Len(BytesOf(m.body)) = Len(m.body)
      /\ \A i \in 1..Len(m.body) : ~Delimiter(BytesOf(m.body)[i])
      /\ Image(m) = BytesOf(m.body) \o <<LF>>
  BY <1>0, LineBytes DEF Image, WireText
<1>2. Image(m) \o f = BytesOf(m.body) \o (<<LF>> \o f)
  <2>1. <<LF>> \in Seq(Byte)
    BY <1>0
  <2> QED BY <1>1, <2>1, BytesAssociative
<1>3. Len(BytesOf(m.body) \o (<<LF>> \o f)) >= 1
  BY <1>0, <1>1
<1>4. CASE m.body = <<>>
  <2>1. BytesOf(m.body) = <<>>
    BY <1>1, <1>4
  <2>2. Image(m) \o f = <<LF>> \o f
    BY <1>0, <1>2, <2>1
  <2>3. Head(<<LF>> \o f) = LF
    BY <1>0
  <2> QED BY <1>1, <1>3, <1>4, <2>2, <2>3 DEF LF, SOH
<1>5. CASE m.body # <<>>
  <2>1. Len(BytesOf(m.body)) >= 1 /\ 1 \in 1..Len(m.body)
    BY <1>0, <1>1, <1>5
  <2>2. Head(BytesOf(m.body) \o (<<LF>> \o f)) = BytesOf(m.body)[1]
    <3>1. <<LF>> \o f \in Seq(Byte)
      BY <1>0
    <3> HIDE DEF BytesOf
    <3> QED BY <1>1, <2>1, <3>1
  <2>3. ~Delimiter(BytesOf(m.body)[1])
    BY <1>1, <2>1
  <2> QED BY <1>1, <1>2, <1>3, <1>5, <2>2, <2>3 DEF Delimiter
<1> QED BY <1>4, <1>5

LEMMA BinaryImage ==
    ASSUME NEW m \in Messages, m.kind = "binary", NEW f \in Seq(Byte)
    PROVE  /\ IsBinary(m) /\ EncodeVarint[Len(m.body)] \in Seq(Byte)
           /\ Image(m) \o f = <<SOH>> \o (<<BINARY_PROTOCOL_V1>> \o ((EncodeVarint[Len(m.body)] \o m.body) \o f))
           /\ <<BINARY_PROTOCOL_V1>> \o ((EncodeVarint[Len(m.body)] \o m.body) \o f) \in Seq(Byte)
           /\ Head(Image(m) \o f) = SOH
<1>1. IsBinary(m) /\ m.body \in Seq(Byte) /\ Len(m.body) \in Nat
  BY MessageKinds DEF IsBinary, IsText
<1>2. PICK e \in Seq(Byte) : e = EncodeVarint[Len(m.body)]
  BY <1>1, VarintUnfold
<1>3. PICK b \in Seq(Byte) : b = m.body
  BY <1>1
<1>4. <<SOH>> \in Seq(Byte) /\ <<BINARY_PROTOCOL_V1>> \in Seq(Byte)
  BY DEF SOH, BINARY_PROTOCOL_V1, Byte
<1>5. <<SOH, BINARY_PROTOCOL_V1>> = <<SOH>> \o <<BINARY_PROTOCOL_V1>>
  <2>1. <<SOH, BINARY_PROTOCOL_V1>> = Append(<<SOH>>, BINARY_PROTOCOL_V1)
    OBVIOUS
  <2>2. BINARY_PROTOCOL_V1 \in Byte
    BY DEF BINARY_PROTOCOL_V1, Byte
  <2> QED BY <1>4, <2>1, <2>2, AppendIsConcat
<1>6. Image(m) = ((<<SOH>> \o <<BINARY_PROTOCOL_V1>>) \o e) \o b
  BY <1>1, <1>2, <1>3, <1>5 DEF Image, WireBinary, BinaryHeader, IsBinary
<1>7. \A x, y \in Seq(Byte) : (((x \o y) \o e) \o b) \o f = x \o (y \o ((e \o b) \o f))
  <2> SUFFICES ASSUME NEW x \in Seq(Byte), NEW y \in Seq(Byte)
               PROVE  (((x \o y) \o e) \o b) \o f = x \o (y \o ((e \o b) \o f))
    OBVIOUS
  <2>1. ((x \o y) \o e) \o b = (x \o y) \o (e \o b)
    BY BytesAssociative, SMTT(60)
  <2>2. ((x \o y) \o (e \o b)) \o f = (x \o y) \o ((e \o b) \o f)
    <3>0. x \o y \in Seq(Byte) /\ e \o b \in Seq(Byte)
      OBVIOUS
    <3>1. PICK p \in Seq(Byte), q \in Seq(Byte) : p = x \o y /\ q = e \o b
      BY <3>0
    <3>2. (p \o q) \o f = p \o (q \o f)
      BY BytesAssociative, SMTT(60)
    <3> QED BY <3>1, <3>2
  <2>3. (x \o y) \o ((e \o b) \o f) = x \o (y \o ((e \o b) \o f))
    <3>1. (e \o b) \o f \in Seq(Byte)
      OBVIOUS
    <3> QED BY <3>1, BytesAssociative, SMTT(60)
  <2> QED BY <2>1, <2>2, <2>3
<1>8. Image(m) \o f = <<SOH>> \o (<<BINARY_PROTOCOL_V1>> \o ((e \o b) \o f))
  BY <1>4, <1>6, <1>7
<1>9. <<BINARY_PROTOCOL_V1>> \o ((e \o b) \o f) \in Seq(Byte)
  <2>1. (e \o b) \o f \in Seq(Byte)
    OBVIOUS
  <2> QED BY <1>4, <2>1
<1>10. Head(Image(m) \o f) = SOH
  <2>1. PICK t \in Seq(Byte) : t = <<BINARY_PROTOCOL_V1>> \o ((e \o b) \o f)
    BY <1>9
  <2>2. SOH \in Byte
    BY DEF SOH, Byte
  <2> QED BY <1>8, <2>1, <2>2
<1> QED BY <1>1, <1>2, <1>3, <1>8, <1>9, <1>10

-----------------------------------------------------------------------------
(* The messages parsed, and the C++ handler's view of them.                *)

HostTypes ==
    /\ ReaderTypeOK
    /\ cpp_text \in Seq(Byte) /\ Len(cpp_text) <= TextBufSize
    /\ cpp_binary \in Seq(Byte) /\ Len(cpp_binary) <= BinaryBufSize

LEMMA TypeFacts ==
    ASSUME Inv
    PROVE  /\ HostTypes
           /\ data \in Seq(Byte) /\ wire \in Seq(Byte) /\ Ahead \in Seq(Byte)
           /\ messages \in Seq(Message) /\ got \in Seq(Message) /\ Parsed \in Seq(Message)
           /\ binary_buf \in Seq(Byte)
           /\ varint_value \in Nat /\ varint_scale \in Nat /\ varint_bytes_read \in Nat
BY DEF Inv, TypeOK, ReaderTypeOK, ParserTypeOK, HostTypes, Ahead, Parsed

\* A message parsed is the next one sent.
LEMMA ParsedGrows ==
    ASSUME Inv, NEW m \in Messages, messages' = Append(messages, m), UNCHANGED <<got, sent>>
    PROVE  /\ messages' \in Seq(Message) /\ Parsed' = Append(Parsed, m)
           /\ \A rest \in Seq(Messages) :
                sent = Parsed \o (<<m>> \o rest) => sent' = Parsed' \o rest
<1>0. messages \in Seq(Message) /\ got \in Seq(Message) /\ Parsed \in Seq(Message) /\ m \in Message
  BY TypeFacts, MessageKinds
<1>1. messages' \in Seq(Message) /\ messages' = messages \o <<m>> /\ <<m>> \in Seq(Message)
  BY <1>0, AppendIsConcat
<1>2. Parsed' = got \o (messages \o <<m>>)
  BY <1>1 DEF Parsed
<1>3. got \o (messages \o <<m>>) = (got \o messages) \o <<m>>
  BY <1>0, <1>1, ConcatAssociative
<1>4. Parsed' = Parsed \o <<m>>
  BY <1>2, <1>3 DEF Parsed
<1>5. Parsed' = Append(Parsed, m)
  BY <1>0, <1>4, AppendIsConcat
<1>6. ASSUME NEW rest \in Seq(Messages), sent = Parsed \o (<<m>> \o rest)
      PROVE  sent' = Parsed' \o rest
  <2>1. rest \in Seq(Message)
    <3>1. Messages \subseteq Message
      BY MessageKinds
    <3> QED BY <3>1
  <2>2. (Parsed \o <<m>>) \o rest = Parsed \o (<<m>> \o rest)
    BY <1>0, <1>1, <2>1, ConcatAssociative
  <2> QED BY <1>4, <1>6, <2>2
<1> QED BY <1>1, <1>5, <1>6

LEMMA ParsedStays ==
    ASSUME UNCHANGED <<messages, got>>
    PROVE  Parsed' = Parsed
BY DEF Parsed

LEMMA CppTypes ==
    ASSUME HostTypes, NEW bytes \in Seq(Byte), NEW ends \in BOOLEAN,
           CppText(bytes, ends) \/ CppBinary(bytes, ends)
    PROVE  /\ cpp_text' \in Seq(Byte) /\ Len(cpp_text') <= TextBufSize
           /\ cpp_binary' \in Seq(Byte) /\ Len(cpp_binary') <= BinaryBufSize
<1> USE BufferSizes DEF BufferSizes
<1>1. cpp_text \o bytes \in Seq(Byte)
  BY DEF HostTypes
<1>2. /\ Cut(cpp_text \o bytes, TextBufSize) \in Seq(Byte)
      /\ Len(Cut(cpp_text \o bytes, TextBufSize)) <= TextBufSize
  BY <1>1, CutFacts
<1>3. Cut(bytes, BinaryBufSize) \in Seq(Byte) /\ Len(Cut(bytes, BinaryBufSize)) <= BinaryBufSize
  BY CutFacts
<1>4. <<>> \in Seq(Byte) /\ Len(<<>>) = 0
  OBVIOUS
<1>5. CASE CppText(bytes, ends)
  BY <1>2, <1>4, <1>5 DEF HostTypes, CppText
<1>6. CASE CppBinary(bytes, ends)
  BY <1>3, <1>4, <1>6 DEF HostTypes, CppBinary
<1> QED BY <1>5, <1>6

LEMMA LeftFacts ==
    ASSUME Inv
    PROVE  Left(Parsed, stale) \in Seq(Byte)
BY DEF Left, Inv, CppInv

\* The whole of a text line has arrived.
LEMMA CppTextEnds ==
    ASSUME Inv, NEW m \in Messages, m.kind = "text", NEW done \in Seq(Ascii), NEW todo \in Seq(Ascii),
           m.body = done \o todo, text_buf = done, messages' = Append(messages, m),
           UNCHANGED <<got, sent, stale>>, text_buf' = <<>>, state' # "PAYLOAD",
           CppText(BytesOf(todo), TRUE)
    PROVE  CppInv'
<1> DEFINE left == Left(Parsed, stale)
<1>0. m \in Message /\ Parsed \in Seq(Message) /\ left \in Seq(Byte) /\ m.body \in Seq(Ascii)
  BY MessageKinds, TypeFacts, LeftFacts DEF IsText, IsBinary
<1>1. Parsed' = Append(Parsed, m)
  BY ParsedGrows
<1>2. BytesOf(done) \in Seq(Byte) /\ EncodeUtf8(done) = BytesOf(done) /\ BytesOf(todo) \in Seq(Byte)
  BY LineBytes
<1>3. EncodeUtf8(m.body) = BytesOf(done) \o BytesOf(todo)
  <2>1. EncodeUtf8(m.body) = BytesOf(m.body)
    BY <1>0, LineBytes
  <2>2. BytesOf(done \o todo) = BytesOf(done) \o BytesOf(todo)
    BY BytesOfConcat
  <2> QED BY <2>1, <2>2
<1>4. CppLine(cpp_text \o BytesOf(todo)) = CppLine(left \o EncodeUtf8(m.body))
  <2>1. cpp_text = Cut(left \o BytesOf(done), TextBufSize)
    BY <1>2 DEF Inv, CppInv
  <2>2. left \o BytesOf(done) \in Seq(Byte)
    BY <1>0, <1>2
  <2>3. CppLine(cpp_text \o BytesOf(todo)) = CppLine((left \o BytesOf(done)) \o BytesOf(todo))
    BY <1>2, <2>1, <2>2, CppLineTwice
  <2>4. (left \o BytesOf(done)) \o BytesOf(todo) = left \o (BytesOf(done) \o BytesOf(todo))
    BY <1>0, <1>2, BytesAssociative
  <2> QED BY <1>3, <2>3, <2>4
<1>5. cpp_messages' = Append(Views(Parsed, stale), View(m, left))
  BY <1>4 DEF CppText, View, Inv, CppInv
<1>6. Views(Append(Parsed, m), stale) = Append(Views(Parsed, stale), View(m, left))
      /\ Left(Append(Parsed, m), stale) = <<>>
  BY <1>0, ViewsAppend
<1> HIDE DEF left
<1>7. cpp_messages' = Views(Parsed', stale') /\ Left(Parsed', stale') = <<>>
  BY <1>1, <1>5, <1>6
<1>8. cpp_text' = Cut(<<>> \o EncodeUtf8(<<>>), TextBufSize)
  <2>1. cpp_text' = <<>>
    BY DEF CppText
  <2>2. EncodeUtf8(<<>>) = <<>>
    BY FlattenEmpty DEF EncodeUtf8
  <2>3. <<>> \o <<>> = <<>> /\ <<>> \in Seq(Byte) /\ Len(<<>>) = 0
    OBVIOUS
  <2>4. Cut(<<>>, TextBufSize) = <<>>
    <3>1. TextBufSize \in Nat /\ Len(<<>>) <= TextBufSize
      BY <2>3, BufferSizes DEF BufferSizes
    <3> QED BY <2>3, <3>1, CutFacts
  <2> QED BY <2>1, <2>2, <2>3, <2>4
<1> QED BY <1>7, <1>8 DEF CppInv, Inv

\* A part of a text line has arrived.
LEMMA CppTextContinues ==
    ASSUME Inv, NEW done \in Seq(Ascii), NEW part \in Seq(Ascii),
           text_buf = done, text_buf' = done \o part,
           UNCHANGED <<messages, got, stale>>, state' # "PAYLOAD",
           CppText(BytesOf(part), FALSE)
    PROVE  CppInv'
<1> DEFINE left == Left(Parsed, stale)
<1>0. left \in Seq(Byte)
  BY LeftFacts
<1>1. Parsed' = Parsed
  BY ParsedStays
<1>2. BytesOf(done) \in Seq(Byte) /\ EncodeUtf8(done) = BytesOf(done) /\ BytesOf(part) \in Seq(Byte)
  BY LineBytes
<1>3. EncodeUtf8(done \o part) = BytesOf(done) \o BytesOf(part)
  <2>1. done \o part \in Seq(Ascii)
    OBVIOUS
  <2> QED BY <2>1, LineBytes, BytesOfConcat
<1>4. cpp_text' = Cut(left \o EncodeUtf8(done \o part), TextBufSize)
  <2>1. cpp_text = Cut(left \o BytesOf(done), TextBufSize) /\ cpp_text' = Cut(cpp_text \o BytesOf(part), TextBufSize)
    BY <1>2 DEF Inv, CppInv, CppText
  <2>2. left \o BytesOf(done) \in Seq(Byte) /\ TextBufSize \in Nat
    BY <1>0, <1>2, BufferSizes DEF BufferSizes
  <2>3. cpp_text' = Cut((left \o BytesOf(done)) \o BytesOf(part), TextBufSize)
    BY <1>2, <2>1, <2>2, CutTwice
  <2>4. (left \o BytesOf(done)) \o BytesOf(part) = left \o (BytesOf(done) \o BytesOf(part))
    BY <1>0, <1>2, BytesAssociative
  <2> QED BY <1>3, <2>3, <2>4
<1>5. cpp_messages' = cpp_messages
  BY DEF CppText
<1> QED BY <1>1, <1>4, <1>5 DEF CppInv, Inv

\* Nothing is said to the handler.
LEMMA CppStays ==
    ASSUME Inv, UNCHANGED <<messages, got, stale, text_buf, cpp_vars>>,
           state' = "PAYLOAD" => state = "PAYLOAD" /\ UNCHANGED binary_buf
    PROVE  CppInv'
BY ParsedStays DEF CppInv, Inv, cpp_vars

\* A payload begins or goes on.
LEMMA CppBinaryContinues ==
    ASSUME Inv, UNCHANGED <<messages, got, stale, text_buf>>, NEW bytes \in Seq(Byte),
           CppBinary(bytes, FALSE), Cut(bytes, BinaryBufSize) = Cut(binary_buf', BinaryBufSize)
    PROVE  CppInv'
BY ParsedStays DEF CppInv, Inv, CppBinary

\* The whole of a payload has arrived.
LEMMA CppBinaryEnds ==
    ASSUME Inv, NEW m \in Messages, m.kind = "binary", messages' = Append(messages, m),
           UNCHANGED <<got, sent, stale, text_buf>>, state' # "PAYLOAD", NEW bytes \in Seq(Byte),
           CppBinary(bytes, TRUE), Cut(bytes, BinaryBufSize) = Cut(m.body, BinaryBufSize)
    PROVE  CppInv'
<1> DEFINE left == Left(Parsed, stale)
<1>0. m \in Message /\ Parsed \in Seq(Message)
  BY MessageKinds, TypeFacts
<1>1. Parsed' = Append(Parsed, m)
  BY ParsedGrows
<1>2. cpp_messages' = Append(Views(Parsed, stale), View(m, left))
  BY DEF CppBinary, View, Inv, CppInv
<1>3. Views(Append(Parsed, m), stale) = Append(Views(Parsed, stale), View(m, left))
      /\ Left(Append(Parsed, m), stale) = left
  BY <1>0, ViewsAppend
<1>4. cpp_messages' = Views(Parsed', stale') /\ Left(Parsed', stale') = Left(Parsed, stale)
  BY <1>1, <1>2, <1>3
<1>5. cpp_text' = cpp_text
  BY DEF CppBinary
<1> QED BY <1>4, <1>5 DEF CppInv, Inv

-----------------------------------------------------------------------------
(* Each branch of the loop of feed keeps the invariant, and parses nothing *)
(* but the next message sent.                                              *)

ParsesNext ==
    \E m \in Messages, rest \in Seq(Messages) :
        messages' = Append(messages, m) /\ sent = Parsed \o (<<m>> \o rest)

FeedStep == HostTypes' /\ StreamInv' /\ CppInv' /\ (UNCHANGED messages \/ ParsesNext)

Static == Callbacks /\ UNCHANGED <<wire, sent, got, stale>>

\* At the beginning of a message.
LEMMA IdleFront ==
    ASSUME Inv, data # <<>>, state = "IDLE"
    PROVE  \E m \in Messages, rest \in Seq(Messages) :
            /\ sent = Parsed \o (<<m>> \o rest) /\ text_buf = <<>>
            /\ data \o wire = Image(m) \o Images(rest) /\ Image(m) \in Seq(Byte) /\ Images(rest) \in Seq(Byte)
            /\ Head(data) = Head(Image(m) \o Images(rest))
<1>1. PICK rest \in Seq(Messages) : sent = Parsed \o rest /\ text_buf = <<>> /\ Ahead = Images(rest)
  BY DEF Inv, StreamInv, Between, Within, InText, InVersion, InLength, InPayload
<1>2. data \in Seq(Byte) /\ wire \in Seq(Byte) /\ Ahead \in Seq(Byte)
  BY TypeFacts
<1>3. Ahead # <<>> /\ Head(Ahead) = Head(data)
  BY <1>2 DEF Ahead
<1>4. PICK m \in Messages, later \in Seq(Messages) :
            rest = <<m>> \o later /\ Ahead = Image(m) \o Images(later)
  BY <1>1, <1>2, <1>3, NextMessage
<1>5. Image(m) \in Seq(Byte) /\ Images(later) \in Seq(Byte)
  BY ImageType, ImagesFacts
<1> QED BY <1>1, <1>3, <1>4, <1>5 DEF Ahead

LEMMA IdleSOHStep ==
    ASSUME Inv, IdleSOH, Static
    PROVE  FeedStep
<1>0. /\ data # <<>> /\ state = "IDLE" /\ Head(data) = SOH
      /\ state' = "VERSION" /\ data' = Tail(data)
      /\ UNCHANGED <<varint_vars, payload_remaining, handler_vars, wire, sent, got, stale>>
      /\ Callbacks
  BY DEF IdleSOH, Static
<1>1. PICK m \in Messages, rest \in Seq(Messages) :
            /\ sent = Parsed \o (<<m>> \o rest) /\ text_buf = <<>>
            /\ data \o wire = Image(m) \o Images(rest) /\ Images(rest) \in Seq(Byte)
            /\ Head(data) = Head(Image(m) \o Images(rest))
  BY <1>0, IdleFront
<1>2. m.kind = "binary"
  <2>1. m.kind # "text"
    BY <1>0, <1>1, TextImage
  <2> QED BY <2>1, MessageKinds DEF IsText, IsBinary
<1>3. PICK f \in Seq(Byte) : f = <<BINARY_PROTOCOL_V1>> \o ((EncodeVarint[Len(m.body)] \o m.body) \o Images(rest))
  BY <1>1, <1>2, BinaryImage
<1>4. data \o wire = <<SOH>> \o f
  BY <1>1, <1>2, <1>3, BinaryImage
<1>5. data \in Seq(Byte) /\ wire \in Seq(Byte) /\ SOH \in Byte
  BY TypeFacts DEF SOH, Byte
<1>6. Tail(data) \in Seq(Byte) /\ Tail(data) \o wire = f
  <2>1. <<SOH>> \in Seq(Byte) /\ Len(<<SOH>>) = 1
    BY <1>5
  <2>2. Joined(data, wire, <<SOH>>, f)
    BY <1>4 DEF Joined
  <2> QED BY <1>0, <1>5, <2>1, <2>2, ConsumeByte
<1>7. UNCHANGED <<messages, text_buf, binary_buf>>
  BY <1>0 DEF handler_vars
<1>8. ~AtText /\ Len(messages') = Len(messages)
  BY <1>0, <1>7 DEF AtText, Delimiter
<1>9. UNCHANGED cpp_vars
  <2>1. messages \in Seq(Message)
    BY TypeFacts
  <2>2. ~(Len(messages') > Len(messages))
    BY <1>8, <2>1
  <2> QED BY <1>0, <1>8, <2>2 DEF Callbacks
<1>10. HostTypes'
  BY <1>0, <1>6, <1>7, <1>9, TypeFacts DEF HostTypes, ReaderTypeOK, ParserTypeOK, States, varint_vars, cpp_vars
<1>11. InVersion(m, rest)'
  BY <1>0, <1>1, <1>2, <1>3, <1>6, <1>7 DEF InVersion, Ahead
<1>12. StreamInv'
  <2>1. sent' = Parsed' \o (<<m>> \o rest)
    BY <1>0, <1>1, <1>7, ParsedStays
  <2> QED BY <1>11, <2>1 DEF StreamInv, Within
<1>13. CppInv'
  BY <1>0, <1>7, <1>9, CppStays
<1> QED BY <1>7, <1>10, <1>12, <1>13 DEF FeedStep

LEMMA IdleNewlineStep ==
    ASSUME Inv, IdleNewline, Static
    PROVE  FeedStep
<1>0. /\ data # <<>> /\ state = "IDLE" /\ Head(data) = LF
      /\ TextEnd(<<>>) /\ data' = Tail(data)
      /\ UNCHANGED <<parser_vars, wire, sent, got, stale>>
      /\ Callbacks
  BY DEF IdleNewline, Static
<1>1. PICK m \in Messages, rest \in Seq(Messages) :
            /\ sent = Parsed \o (<<m>> \o rest) /\ text_buf = <<>>
            /\ data \o wire = Image(m) \o Images(rest) /\ Images(rest) \in Seq(Byte)
            /\ Head(data) = Head(Image(m) \o Images(rest))
  BY <1>0, IdleFront
<1>2. m.kind = "text"
  <2>1. m.kind # "binary"
    <3>1. m.kind = "binary" => Head(Image(m) \o Images(rest)) = SOH
      BY <1>1, BinaryImage
    <3> QED BY <1>0, <1>1, <3>1 DEF SOH, LF
  <2> QED BY <2>1, MessageKinds DEF IsText, IsBinary
<1>3. m.body = <<>> /\ data \o wire = <<LF>> \o Images(rest) /\ m = Text(<<>>)
  BY <1>0, <1>1, <1>2, TextImage, MessageKinds DEF IsText, IsBinary
<1>4. data \in Seq(Byte) /\ wire \in Seq(Byte) /\ LF \in Byte
  BY TypeFacts DEF LF, Byte
<1>5. Tail(data) \in Seq(Byte) /\ Tail(data) \o wire = Images(rest)
  <2>1. <<LF>> \in Seq(Byte) /\ Len(<<LF>>) = 1
    BY <1>4
  <2>2. Joined(data, wire, <<LF>>, Images(rest))
    BY <1>3 DEF Joined
  <2> QED BY <1>0, <1>1, <1>4, <2>1, <2>2, ConsumeByte
<1>6. /\ <<>> \in Seq(Ascii) /\ BytesOf(<<>>) = <<>>
      /\ DecodeUtf8(<<>>) = <<>> /\ <<>> \o <<>> = <<>>
  <2>1. <<>> \in Seq(Ascii) /\ <<>> \o <<>> = <<>>
    OBVIOUS
  <2>2. BytesOf(<<>>) = <<>>
    BY DEF BytesOf
  <2>3. DecodeUtf8(BytesOf(<<>>)) = <<>>
    BY <2>1, LineBytes
  <2> QED BY <2>1, <2>2, <2>3
<1>7. messages' = Append(messages, m) /\ text_buf' = <<>> /\ UNCHANGED binary_buf
  <2>1. StripCR(<<>>) = <<>>
    BY DEF StripCR
  <2> QED BY <1>1, <1>3, <1>6, <2>1, <1>0 DEF TextEnd
<1>8. messages' \in Seq(Message) /\ sent' = Parsed' \o rest
  BY <1>0, <1>1, <1>7, ParsedGrows
<1>9. CppText(<<>>, TRUE)
  <2>1. Len(messages') > Len(messages)
    BY <1>7, TypeFacts
  <2>2. ~AtText
    BY <1>0 DEF AtText, Delimiter
  <2> QED BY <1>0, <2>1, <2>2 DEF Callbacks
<1>10. HostTypes'
  <2>1. /\ cpp_text' \in Seq(Byte) /\ Len(cpp_text') <= TextBufSize
        /\ cpp_binary' \in Seq(Byte) /\ Len(cpp_binary') <= BinaryBufSize
    <3>1. HostTypes /\ <<>> \in Seq(Byte)
      BY TypeFacts
    <3> QED BY <1>9, <3>1, CppTypes
  <2> QED BY <1>0, <1>5, <1>7, <1>8, <2>1, TypeFacts DEF HostTypes, ReaderTypeOK, ParserTypeOK, States, parser_vars
<1>11. Between(rest)'
  BY <1>0, <1>5, <1>7 DEF Between, Ahead, parser_vars
<1>12. CppInv'
  <2>1. state' # "PAYLOAD" /\ m.body = <<>> \o <<>> /\ CppText(BytesOf(<<>>), TRUE)
    BY <1>0, <1>3, <1>6, <1>9 DEF parser_vars
  <2> QED BY <1>1, <1>2, <1>6, <1>7, <1>0, <2>1, CppTextEnds
<1>13. StreamInv'
  BY <1>8, <1>11 DEF StreamInv
<1> QED BY <1>1, <1>7, <1>10, <1>12, <1>13 DEF FeedStep, ParsesNext

\* The first delimiter of a chunk, as the C++ handler finds it.
LEMMA DelimiterAt ==
    ASSUME NEW d \in Seq(Byte)
    PROVE  /\ \A k \in 0..(Len(d) - 1) :
                Delimiter(d[k + 1]) /\ (\A j \in 1..k : ~Delimiter(d[j])) => SelectInSeq(d, Delimiter) = k + 1
           /\ (\A j \in 1..Len(d) : ~Delimiter(d[j])) => SelectInSeq(d, Delimiter) = 0
<1> DEFINE I == {i \in 1..Len(d) : Delimiter(d[i])}
<1>1. SelectInSeq(d, Delimiter) = IF I # {} THEN Min(I) ELSE 0
  BY DEF SelectInSeq
<1>2. (\A j \in 1..Len(d) : ~Delimiter(d[j])) => SelectInSeq(d, Delimiter) = 0
  BY <1>1
<1>3. ASSUME NEW k \in 0..(Len(d) - 1), Delimiter(d[k + 1]), \A j \in 1..k : ~Delimiter(d[j])
      PROVE  SelectInSeq(d, Delimiter) = k + 1
  <2>1. k + 1 \in I
    BY <1>3
  <2>2. \A j \in I : k + 1 <= j
    BY <1>3
  <2>3. I \subseteq Int
    OBVIOUS
  <2> HIDE DEF I
  <2>4. Min(I) \in I /\ \A j \in I : Min(I) <= j
    BY <2>1, <2>2 DEF Min
  <2>5. Min(I) = k + 1
    <3>1. Min(I) \in Int /\ k + 1 \in Int
      BY <2>1, <2>3, <2>4
    <3>2. Min(I) <= k + 1 /\ k + 1 <= Min(I)
      BY <2>1, <2>2, <2>4
    <3> QED BY <3>1, <3>2
  <2> QED BY <1>1, <2>1, <2>5
<1> QED BY <1>2, <1>3

\* In a text line, or in front of one.
LEMMA TextFront ==
    ASSUME Inv, AtText
    PROVE  \E m \in Messages, rest \in Seq(Messages), done, todo \in Seq(Ascii) :
            /\ sent = Parsed \o (<<m>> \o rest) /\ m.kind = "text"
            /\ m.body = done \o todo /\ text_buf = done
            /\ LineAhead(data, wire, todo, Images(rest))
<1>1. CASE state = "TEXT"
  <2>1. PICK m \in Messages, rest \in Seq(Messages) : sent = Parsed \o (<<m>> \o rest) /\ InText(m, rest)
    BY <1>1 DEF Inv, StreamInv, Between, Within, InVersion, InLength, InPayload
  <2> QED BY <2>1 DEF InText, Ahead, LineAhead
<1>2. CASE state # "TEXT"
  <2>0. state = "IDLE" /\ data # <<>> /\ ~Delimiter(Head(data))
    BY <1>2 DEF AtText
  <2>1. PICK m \in Messages, rest \in Seq(Messages) :
            /\ sent = Parsed \o (<<m>> \o rest) /\ text_buf = <<>>
            /\ data \o wire = Image(m) \o Images(rest) /\ Images(rest) \in Seq(Byte)
            /\ Head(data) = Head(Image(m) \o Images(rest))
    BY <2>0, IdleFront
  <2>2. m.kind = "text"
    <3>1. m.kind = "binary" => Head(Image(m) \o Images(rest)) = SOH
      BY <2>1, BinaryImage
    <3> QED BY <2>0, <2>1, <3>1, MessageKinds DEF IsText, IsBinary, Delimiter
  <2>3. Image(m) = BytesOf(m.body) \o <<LF>>
    BY <2>1, <2>2, TextImage
  <2>4. m.body \in Seq(Ascii) /\ <<>> \in Seq(Ascii) /\ m.body = <<>> \o m.body
    BY <2>2, MessageKinds DEF IsText, IsBinary
  <2> QED BY <2>1, <2>2, <2>3, <2>4 DEF LineAhead
<1> QED BY <1>1, <1>2

LEMMA FeedTextDelimiterStep ==
    ASSUME Inv, FeedTextDelimiter, Static
    PROVE  FeedStep
<1>0. /\ AtText /\ state \in {"IDLE", "TEXT"} /\ Callbacks
      /\ UNCHANGED <<varint_vars, payload_remaining, wire, sent, got, stale>>
  BY DEF FeedTextDelimiter, Static, AtText
<1>1. PICK k \in 0..(Len(data) - 1) :
        /\ Delimiter(data[k + 1]) /\ \A j \in 1..k : ~Delimiter(data[j])
        /\ TextEnd(SubSeq(data, 1, k)) /\ state' = AfterText(data[k + 1])
        /\ data' = SubSeq(data, k + 2, Len(data))
  BY DEF FeedTextDelimiter
<1>2. PICK m \in Messages, rest \in Seq(Messages), done \in Seq(Ascii), todo \in Seq(Ascii) :
        /\ sent = Parsed \o (<<m>> \o rest) /\ m.kind = "text"
        /\ m.body = done \o todo /\ text_buf = done
        /\ LineAhead(data, wire, todo, Images(rest))
  BY <1>0, TextFront
<1>3. data \in Seq(Byte) /\ wire \in Seq(Byte) /\ Images(rest) \in Seq(Byte)
  BY <1>2, TypeFacts, ImagesFacts
<1>4. /\ data[k + 1] = LF /\ SubSeq(data, 1, k) = BytesOf(todo)
      /\ SubSeq(data, k + 2, Len(data)) \in Seq(Byte) /\ SubSeq(data, k + 2, Len(data)) \o wire = Images(rest)
  <2>1. k \in 0..(Len(data) - 1) /\ Delimiter(data[k + 1]) /\ \A j \in 1..k : ~Delimiter(data[j])
    BY <1>1
  <2>2. todo \in Seq(Ascii) /\ LineAhead(data, wire, todo, Images(rest))
    BY <1>2
  <2>3. LineEndsAt(data, wire, todo, Images(rest), k)
    BY <1>3, <2>1, <2>2, LineEnds
  <2> QED BY <2>3 DEF LineEndsAt
<1>5. state' = "IDLE" /\ data' \in Seq(Byte) /\ data' \o wire = Images(rest) /\ TextEnd(BytesOf(todo))
  BY <1>1, <1>4 DEF AfterText
<1>6. messages' = Append(messages, m) /\ text_buf' = <<>> /\ UNCHANGED binary_buf
  <2>1. DecodeUtf8(BytesOf(todo)) = todo
    BY <1>2, LineBytes
  <2>2. StripCR(m.body) = m.body /\ m = Text(m.body)
    BY <1>2, MessageKinds DEF IsText, IsBinary
  <2> QED BY <1>2, <1>5, <2>1, <2>2 DEF TextEnd
<1>7. messages' \in Seq(Message) /\ sent' = Parsed' \o rest
  BY <1>0, <1>2, <1>6, ParsedGrows
<1>8. CppText(BytesOf(todo), TRUE)
  <2>1. Len(messages') > Len(messages)
    BY <1>6, TypeFacts
  <2>2. SelectInSeq(data, Delimiter) = k + 1
    BY <1>1, <1>3, DelimiterAt
  <2>3. k + 1 # 0 /\ (k + 1) - 1 = k
    BY <1>1
  <2>4. CppText(SubSeq(data, 1, (k + 1) - 1), TRUE)
    BY <1>0, <2>1, <2>2, <2>3 DEF Callbacks
  <2> QED BY <1>4, <2>3, <2>4
<1>9. HostTypes'
  <2>1. /\ cpp_text' \in Seq(Byte) /\ Len(cpp_text') <= TextBufSize
        /\ cpp_binary' \in Seq(Byte) /\ Len(cpp_binary') <= BinaryBufSize
    <3>1. HostTypes /\ BytesOf(todo) \in Seq(Byte)
      BY <1>2, TypeFacts, LineBytes
    <3> QED BY <1>8, <3>1, CppTypes
  <2> QED BY <1>0, <1>5, <1>6, <1>7, <2>1, TypeFacts DEF HostTypes, ReaderTypeOK, ParserTypeOK, States, varint_vars
<1>10. Between(rest)'
  BY <1>0, <1>5, <1>6 DEF Between, Ahead
<1>11. CppInv'
  <2>1. state' # "PAYLOAD"
    BY <1>5
  <2> QED BY <1>0, <1>2, <1>6, <1>8, <2>1, CppTextEnds
<1>12. StreamInv'
  BY <1>2, <1>7, <1>10 DEF StreamInv
<1> QED BY <1>2, <1>6, <1>9, <1>11, <1>12 DEF FeedStep, ParsesNext

LEMMA FeedTextPartialStep ==
    ASSUME Inv, FeedTextPartial, Static
    PROVE  FeedStep
<1>0. /\ AtText /\ state \in {"IDLE", "TEXT"} /\ Callbacks
      /\ \A j \in 1..Len(data) : ~Delimiter(data[j])
      /\ TextData(data) /\ state' = "TEXT" /\ data' = <<>>
      /\ UNCHANGED <<varint_vars, payload_remaining, wire, sent, got, stale>>
  BY DEF FeedTextPartial, Static, AtText
<1>1. PICK m \in Messages, rest \in Seq(Messages), done \in Seq(Ascii), todo \in Seq(Ascii) :
        /\ sent = Parsed \o (<<m>> \o rest) /\ m.kind = "text"
        /\ m.body = done \o todo /\ text_buf = done
        /\ LineAhead(data, wire, todo, Images(rest))
  BY <1>0, TextFront
<1>2. data \in Seq(Byte) /\ wire \in Seq(Byte) /\ Images(rest) \in Seq(Byte)
  BY <1>1, TypeFacts, ImagesFacts
<1>3. PICK part \in Seq(Ascii), later \in Seq(Ascii) :
        /\ todo = part \o later /\ data = BytesOf(part)
        /\ wire = (BytesOf(later) \o <<LF>>) \o Images(rest)
  <2>1. todo \in Seq(Ascii) /\ LineAhead(data, wire, todo, Images(rest))
    BY <1>1
  <2>2. \E part, later \in Seq(Ascii) : todo = part \o later /\ LineSplitAt(data, wire, part, later, Images(rest))
    BY <1>0, <1>2, <2>1, LineContinues
  <2> QED BY <2>2 DEF LineSplitAt
<1>4. /\ done \o part \in Seq(Ascii) /\ done \o part \in Seq(Seq(Byte))
      /\ m.body = (done \o part) \o later /\ text_buf' = done \o part
      /\ UNCHANGED <<messages, binary_buf>>
  <2>0. done \in Seq(Ascii) /\ part \in Seq(Ascii) /\ later \in Seq(Ascii)
    BY <1>1, <1>3
  <2>1. done \o (part \o later) = (done \o part) \o later
    BY <2>0, ConcatAssociative, SMTT(60)
  <2>2. done \o part \in Seq(Ascii)
    BY <2>0
  <2>3. done \o part \in Seq(Seq(Byte))
    BY <2>2, LineBytes
  <2>4. DecodeUtf8(BytesOf(part)) = part
    BY <2>0, LineBytes
  <2> QED BY <1>0, <1>1, <1>3, <2>1, <2>2, <2>3, <2>4 DEF TextData
<1>5. CppText(BytesOf(part), FALSE)
  <2>1. (Len(messages') > Len(messages)) = FALSE
    BY <1>4, TypeFacts
  <2>2. SelectInSeq(data, Delimiter) = 0
    BY <1>0, <1>2, DelimiterAt
  <2>3. CppText(data, FALSE)
    BY <1>0, <2>1, <2>2 DEF Callbacks
  <2> QED BY <1>3, <2>3
<1>6. HostTypes'
  <2>1. /\ cpp_text' \in Seq(Byte) /\ Len(cpp_text') <= TextBufSize
        /\ cpp_binary' \in Seq(Byte) /\ Len(cpp_binary') <= BinaryBufSize
    <3>1. HostTypes /\ BytesOf(part) \in Seq(Byte)
      BY <1>3, TypeFacts, LineBytes
    <3> QED BY <1>5, <3>1, CppTypes
  <2>2. data' \in Seq(Byte)
    BY <1>0
  <2> QED BY <1>0, <1>4, <2>1, <2>2, TypeFacts DEF HostTypes, ReaderTypeOK, ParserTypeOK, States, varint_vars
<1>7. InText(m, rest)'
  <2>1. (data \o wire)' = (BytesOf(later) \o <<LF>>) \o Images(rest)
    <3>1. (data \o wire)' = <<>> \o wire
      BY <1>0
    <3>2. <<>> \o wire = wire
      BY <1>2
    <3> QED BY <1>3, <3>1, <3>2
  <2> QED BY <1>0, <1>1, <1>3, <1>4, <2>1 DEF InText, Ahead
<1>8. StreamInv'
  <2>1. sent' = Parsed' \o (<<m>> \o rest)
    BY <1>0, <1>1, <1>4, ParsedStays
  <2> QED BY <1>1, <1>7, <2>1 DEF StreamInv, Within
<1>9. CppInv'
  <2>1. state' # "PAYLOAD"
    BY <1>0
  <2> QED BY <1>0, <1>1, <1>3, <1>4, <1>5, <2>1, CppTextContinues
<1> QED BY <1>4, <1>6, <1>8, <1>9 DEF FeedStep

LEMMA VersionFront ==
    ASSUME Inv, data # <<>>, state = "VERSION"
    PROVE  \E m \in Messages, rest \in Seq(Messages) :
            /\ sent = Parsed \o (<<m>> \o rest) /\ m.kind = "binary" /\ text_buf = <<>>
            /\ Head(data) = BINARY_PROTOCOL_V1 /\ Tail(data) \in Seq(Byte)
            /\ Tail(data) \o wire = (EncodeVarint[Len(m.body)] \o m.body) \o Images(rest)
<1>1. PICK m \in Messages, rest \in Seq(Messages) : sent = Parsed \o (<<m>> \o rest) /\ InVersion(m, rest)
  BY DEF Inv, StreamInv, Between, Within, InText, InLength, InPayload
<1>2. m.kind = "binary" /\ text_buf = <<>>
  BY <1>1 DEF InVersion
<1>3. (EncodeVarint[Len(m.body)] \o m.body) \o Images(rest) \in Seq(Byte)
  <2>1. m.body \in Seq(Byte) /\ EncodeVarint[Len(m.body)] \in Seq(Byte)
    BY <1>2, MessageKinds, VarintUnfold DEF IsText, IsBinary
  <2>2. Images(rest) \in Seq(Byte)
    BY <1>1, ImagesFacts
  <2>3. EncodeVarint[Len(m.body)] \o m.body \in Seq(Byte)
    BY <2>1
  <2> QED BY <2>2, <2>3
<1>4. PICK f \in Seq(Byte) : f = (EncodeVarint[Len(m.body)] \o m.body) \o Images(rest)
  BY <1>3
<1>5. Joined(data, wire, <<BINARY_PROTOCOL_V1>>, f)
  BY <1>1, <1>4 DEF InVersion, Ahead, Joined
<1>6. data \in Seq(Byte) /\ wire \in Seq(Byte) /\ BINARY_PROTOCOL_V1 \in Byte
  BY TypeFacts DEF BINARY_PROTOCOL_V1, Byte
<1>7. Head(data) = <<BINARY_PROTOCOL_V1>>[1] /\ Tail(data) \in Seq(Byte) /\ Tail(data) \o wire = f
  <2>1. <<BINARY_PROTOCOL_V1>> \in Seq(Byte) /\ Len(<<BINARY_PROTOCOL_V1>>) = 1
    BY <1>6
  <2>2. f \in Seq(Byte)
    BY <1>4
  <2> QED BY <1>5, <1>6, <2>1, <2>2, ConsumeByte
<1> QED BY <1>1, <1>2, <1>4, <1>7

\* Every message sent has the version that the reader knows.
LEMMA VersionUnknownStep ==
    ASSUME Inv, VersionUnknown, Static
    PROVE  FeedStep
BY VersionFront DEF VersionUnknown

LEMMA VersionKnownStep ==
    ASSUME Inv, VersionKnown, Static
    PROVE  FeedStep
<1>0. /\ data # <<>> /\ state = "VERSION" /\ Head(data) = BINARY_PROTOCOL_V1
      /\ state' = "LENGTH" /\ varint_value' = 0 /\ varint_scale' = 1 /\ varint_bytes_read' = 0
      /\ data' = Tail(data)
      /\ UNCHANGED <<payload_remaining, text_buf, binary_buf, messages, wire, sent, got, stale>>
      /\ Callbacks
  BY DEF VersionKnown, Static, handler_vars
<1>1. PICK m \in Messages, rest \in Seq(Messages) :
            /\ sent = Parsed \o (<<m>> \o rest) /\ m.kind = "binary" /\ text_buf = <<>>
            /\ Tail(data) \in Seq(Byte)
            /\ Tail(data) \o wire = (EncodeVarint[Len(m.body)] \o m.body) \o Images(rest)
  BY <1>0, VersionFront
<1>2. UNCHANGED cpp_vars
  BY <1>0 DEF Callbacks
<1>3. HostTypes'
  <2>1. 0 \in 0..VarintMaxBytes
    BY VarintMaxAssumption DEF VarintMaxAssumption
  <2> QED BY <1>0, <1>1, <1>2, <2>1, TypeFacts DEF HostTypes, ReaderTypeOK, ParserTypeOK, States, cpp_vars
<1>4. InLength(m, rest)'
  <2>1. m.body \in Seq(Byte) /\ Len(m.body) \in Nat /\ Len(EncodeVarint[Len(m.body)]) <= VarintMaxBytes
    BY <1>1, MessageKinds DEF IsText, IsBinary
  <2>2. EncodeVarint[Len(m.body)] \in Seq(Byte) /\ Images(rest) \in Seq(Byte)
    BY <1>1, <2>1, VarintUnfold, ImagesFacts
  <2>3. data' \o wire' = EncodeVarint[Len(m.body)] \o (m.body \o Images(rest))
    BY <1>0, <1>1, <2>1, <2>2, BytesAssociative
  <2>4. varint_value' + Len(m.body) * varint_scale' = Len(m.body)
    BY <1>0, <2>1
  <2>5. varint_bytes_read' + Len(EncodeVarint[Len(m.body)]) <= VarintMaxBytes
    BY <1>0, <2>1, <2>2
  <2> QED BY <1>0, <1>1, <2>1, <2>3, <2>4, <2>5 DEF InLength, Ahead
<1>5. StreamInv'
  <2>1. sent' = Parsed' \o (<<m>> \o rest)
    BY <1>0, <1>1, ParsedStays
  <2> QED BY <1>1, <1>4, <2>1 DEF StreamInv, Within
<1>6. CppInv'
  BY <1>0, <1>2, CppStays
<1> QED BY <1>0, <1>3, <1>5, <1>6 DEF FeedStep

\* A byte that is not the last of what is left of the length, v, is consumed.
VarintGoesOn(d, w, v, g, q) ==
    /\ LowBits(Head(d)) = LowBits(v)
    /\ Tail(d) \o w = EncodeVarint[q] \o g
    /\ Len(EncodeVarint[v]) = 1 + Len(EncodeVarint[q])

LEMMA VarintFront ==
    ASSUME NEW d \in Seq(Byte), NEW w \in Seq(Byte), NEW g \in Seq(Byte), NEW v \in Nat,
           d # <<>>, Joined(d, w, EncodeVarint[v], g)
    PROVE  /\ Tail(d) \in Seq(Byte) /\ Len(EncodeVarint[v]) >= 1
           /\ Continues(Head(d)) => VarintGoesOn(d, w, v, g, v \div Radix)
           /\ ~Continues(Head(d)) => LowBits(Head(d)) = v /\ Tail(d) \o w = g
<1>0. Len(EncodeVarint[v]) >= 1 /\ LowBits(v) \in 0..(Radix - 1) /\ v \div Radix \in Nat
  BY VarintUnfold, Division
<1>1. CASE v >= Radix
  <2>1. PICK z \in Seq(Byte) : z = EncodeVarint[v \div Radix]
    BY <1>0, VarintUnfold
  <2>2. /\ LowBits(v) + Radix \in Byte /\ Continues(LowBits(v) + Radix)
        /\ LowBits(LowBits(v) + Radix) = LowBits(v)
    BY <1>0, VarintBytes
  <2>3. PICK b \in Seq(Byte) : b = <<LowBits(v) + Radix>> /\ Len(b) = 1 /\ b[1] = LowBits(v) + Radix
    <3>1. <<LowBits(v) + Radix>> \in Seq(Byte)
      BY <2>2
    <3> QED BY <3>1
  <2>4. EncodeVarint[v] = b \o z
    BY <1>1, <2>1, <2>3, VarintUnfold DEF Encoded
  <2>5. (b \o z) \o g = b \o (z \o g)
    BY <2>1, <2>3, BytesAssociative
  <2>6. Joined(d, w, b, z \o g)
    BY <2>4, <2>5 DEF Joined
  <2>7. z \o g \in Seq(Byte)
    BY <2>1
  <2>8. Head(d) = b[1] /\ Tail(d) \in Seq(Byte) /\ Tail(d) \o w = z \o g
    BY <2>3, <2>6, <2>7, ConsumeByte
  <2>9. Len(b \o z) = 1 + Len(z)
    BY <2>1, <2>3, ConcatProperties
  <2> QED BY <1>0, <2>1, <2>2, <2>3, <2>4, <2>8, <2>9 DEF VarintGoesOn
<1>2. CASE ~(v >= Radix)
  <2>1. v \in 0..(Radix - 1) /\ v \in Byte /\ ~Continues(v) /\ LowBits(v) = v
    <3>1. v \in 0..(Radix - 1)
      BY <1>2, RadixAssumption DEF RadixAssumption
    <3> QED BY <3>1, VarintBytes
  <2>2. EncodeVarint[v] = <<v>>
    BY <1>2, VarintUnfold DEF Encoded
  <2>3. PICK b \in Seq(Byte) : b = <<v>> /\ Len(b) = 1 /\ b[1] = v
    <3>1. <<v>> \in Seq(Byte)
      BY <2>1
    <3> QED BY <3>1
  <2>4. Joined(d, w, b, g)
    BY <2>2, <2>3
  <2>5. Head(d) = b[1] /\ Tail(d) \in Seq(Byte) /\ Tail(d) \o w = g
    BY <2>3, <2>4, ConsumeByte
  <2> QED BY <1>0, <2>1, <2>3, <2>5
<1> QED BY <1>1, <1>2

LEMMA LengthFront ==
    ASSUME Inv, data # <<>>, state = "LENGTH"
    PROVE  \E m \in Messages, rest \in Seq(Messages), v \in Nat :
            /\ sent = Parsed \o (<<m>> \o rest) /\ m.kind = "binary" /\ text_buf = <<>>
            /\ m.body \in Seq(Byte) /\ m = Binary(m.body) /\ Images(rest) \in Seq(Byte)
            /\ m.body \o Images(rest) \in Seq(Byte)
            /\ Joined(data, wire, EncodeVarint[v], m.body \o Images(rest))
            /\ varint_value + v * varint_scale = Len(m.body)
            /\ varint_bytes_read + Len(EncodeVarint[v]) <= VarintMaxBytes
<1>1. PICK m \in Messages, rest \in Seq(Messages) : sent = Parsed \o (<<m>> \o rest) /\ InLength(m, rest)
  BY DEF Inv, StreamInv, Between, Within, InText, InVersion, InPayload
<1>2. m.kind = "binary" /\ text_buf = <<>>
  BY <1>1 DEF InLength
<1>3. m.body \in Seq(Byte) /\ m = Binary(m.body) /\ Images(rest) \in Seq(Byte)
  BY <1>1, <1>2, MessageKinds, ImagesFacts DEF IsText, IsBinary
<1>4. m.body \o Images(rest) \in Seq(Byte)
  BY <1>3
<1>5. PICK v \in Nat :
        /\ Ahead = EncodeVarint[v] \o (m.body \o Images(rest))
        /\ varint_value + v * varint_scale = Len(m.body)
        /\ varint_bytes_read + Len(EncodeVarint[v]) <= VarintMaxBytes
  BY <1>1 DEF InLength
<1>6. Joined(data, wire, EncodeVarint[v], m.body \o Images(rest))
  BY <1>5 DEF Joined, Ahead
<1> QED BY <1>1, <1>2, <1>3, <1>4, <1>5, <1>6

\* The next seven bits of the length, with what is left of it.
LEMMA VarintAdds ==
    ASSUME NEW a \in Nat, NEW v \in Nat, NEW s \in Nat, NEW l \in Nat, NEW q \in Nat, NEW r \in Nat,
           v = l + r * q
    PROVE  a + l * s \in Nat /\ s * r \in Nat /\ (a + l * s) + q * (s * r) = a + v * s
<1>1. (l + r * q) * s = l * s + q * (s * r)
  OBVIOUS
<1>2. l * s \in Nat /\ s * r \in Nat
  OBVIOUS
<1>3. q * (s * r) \in Nat
  BY <1>2
<1> QED BY <1>1, <1>2, <1>3

LEMMA LengthMoreStep ==
    ASSUME Inv, LengthMore, Static
    PROVE  FeedStep
<1>0. /\ data # <<>> /\ state = "LENGTH" /\ Continues(Head(data))
      /\ varint_value' = varint_value + LowBits(Head(data)) * varint_scale
      /\ varint_scale' = varint_scale * Radix
      /\ varint_bytes_read' = varint_bytes_read + 1
      /\ state' = IF TooLong(varint_bytes_read') THEN "IDLE" ELSE "LENGTH"
      /\ data' = Tail(data)
      /\ UNCHANGED <<payload_remaining, text_buf, binary_buf, messages, wire, sent, got, stale>>
      /\ Callbacks
  BY DEF LengthMore, VarintByte, Static, handler_vars
<1>1. PICK m \in Messages, rest \in Seq(Messages), v \in Nat :
        /\ sent = Parsed \o (<<m>> \o rest) /\ m.kind = "binary" /\ text_buf = <<>>
        /\ m.body \in Seq(Byte) /\ m.body \o Images(rest) \in Seq(Byte)
        /\ Joined(data, wire, EncodeVarint[v], m.body \o Images(rest))
        /\ varint_value + v * varint_scale = Len(m.body)
        /\ varint_bytes_read + Len(EncodeVarint[v]) <= VarintMaxBytes
  BY <1>0, LengthFront
<1>2. PICK q \in Nat, l \in Nat : q = v \div Radix /\ l = LowBits(v) /\ v = l + Radix * q
  BY <1>1, Division
<1>3. /\ Tail(data) \in Seq(Byte) /\ LowBits(Head(data)) = l
      /\ Tail(data) \o wire = EncodeVarint[q] \o (m.body \o Images(rest))
      /\ Len(EncodeVarint[v]) = 1 + Len(EncodeVarint[q])
  <2>1. PICK g \in Seq(Byte) : g = m.body \o Images(rest)
    BY <1>1
  <2>2. data \in Seq(Byte) /\ wire \in Seq(Byte) /\ g \in Seq(Byte) /\ v \in Nat
    BY <1>1, <2>1, TypeFacts
  <2>3. Joined(data, wire, EncodeVarint[v], g)
    BY <1>1, <2>1
  <2>4. Tail(data) \in Seq(Byte) /\ VarintGoesOn(data, wire, v, g, v \div Radix)
    BY <1>0, <2>2, <2>3, VarintFront
  <2>5. VarintGoesOn(data, wire, v, g, q)
    BY <1>2, <2>4
  <2> QED BY <1>2, <2>1, <2>4, <2>5 DEF VarintGoesOn
<1>4. varint_value' \in Nat /\ varint_scale' \in Nat /\ varint_value' + q * varint_scale' = Len(m.body)
  <2>1. Radix \in Nat
    BY RadixAssumption DEF RadixAssumption
  <2>2. varint_value \in Nat /\ varint_scale \in Nat
    BY TypeFacts
  <2>3. /\ varint_value + l * varint_scale \in Nat /\ varint_scale * Radix \in Nat
        /\ (varint_value + l * varint_scale) + q * (varint_scale * Radix) = varint_value + v * varint_scale
    <3>1. v \in Nat /\ l \in Nat /\ q \in Nat /\ v = l + Radix * q
      BY <1>1, <1>2
    <3> QED BY <2>1, <2>2, <3>1, VarintAdds
  <2>4. varint_value' = varint_value + l * varint_scale /\ varint_scale' = varint_scale * Radix
    BY <1>0, <1>3
  <2>5. varint_value + v * varint_scale = Len(m.body)
    BY <1>1
  <2> QED BY <2>3, <2>4, <2>5
<1>5. /\ varint_bytes_read' \in 0..VarintMaxBytes /\ varint_bytes_read' < VarintMaxBytes
      /\ varint_bytes_read' + Len(EncodeVarint[q]) <= VarintMaxBytes
  <2>1. PICK n \in Nat : n = Len(EncodeVarint[q]) /\ n >= 1
    <3>1. EncodeVarint[q] \in Seq(Byte) /\ Len(EncodeVarint[q]) >= 1
      BY <1>2, VarintUnfold
    <3>2. Len(EncodeVarint[q]) \in Nat
      BY <3>1
    <3> QED BY <3>1, <3>2
  <2>2. varint_bytes_read \in Nat /\ VarintMaxBytes \in Nat
    BY TypeFacts, VarintMaxAssumption DEF VarintMaxAssumption
  <2>3. varint_bytes_read' = varint_bytes_read + 1 /\ varint_bytes_read + (1 + n) <= VarintMaxBytes
    BY <1>0, <1>1, <1>3, <2>1
  <2>4. varint_bytes_read' \in 0..VarintMaxBytes /\ varint_bytes_read' < VarintMaxBytes
        /\ varint_bytes_read' + n <= VarintMaxBytes
    <3>1. n \in Nat /\ n >= 1
      BY <2>1
    <3> QED BY <2>2, <2>3, <3>1
  <2> QED BY <2>1, <2>4
<1>6. state' = "LENGTH"
  <2>1. ~(varint_bytes_read' >= VarintMaxBytes)
    BY <1>5, VarintMaxAssumption DEF VarintMaxAssumption
  <2> QED BY <1>0, <2>1 DEF TooLong
<1>7. UNCHANGED cpp_vars
  BY <1>0, <1>6 DEF Callbacks
<1>8. HostTypes'
  BY <1>0, <1>3, <1>4, <1>5, <1>6, <1>7, TypeFacts DEF HostTypes, ReaderTypeOK, ParserTypeOK, States, cpp_vars
<1>9. InLength(m, rest)'
  <2>1. data' \o wire' = EncodeVarint[q] \o (m.body \o Images(rest))
    BY <1>0, <1>3
  <2> QED BY <1>0, <1>1, <1>2, <1>4, <1>5, <1>6, <2>1 DEF InLength, Ahead
<1>10. StreamInv'
  <2>1. sent' = Parsed' \o (<<m>> \o rest)
    BY <1>0, <1>1, ParsedStays
  <2> QED BY <1>1, <1>9, <2>1 DEF StreamInv, Within
<1>11. CppInv'
  BY <1>0, <1>6, <1>7, CppStays
<1> QED BY <1>0, <1>8, <1>10, <1>11 DEF FeedStep

LEMMA LengthDoneStep ==
    ASSUME Inv, LengthDone, Static
    PROVE  FeedStep
<1>0. /\ data # <<>> /\ state = "LENGTH" /\ ~Continues(Head(data))
      /\ varint_value' = varint_value + LowBits(Head(data)) * varint_scale
      /\ varint_scale' = varint_scale * Radix
      /\ varint_bytes_read' = varint_bytes_read + 1
      /\ binary_buf' = <<>>
      /\ varint_value' = 0 => /\ state' = "IDLE" /\ messages' = Append(messages, Binary(<<>>))
                              /\ UNCHANGED payload_remaining
      /\ varint_value' # 0 => /\ state' = "PAYLOAD" /\ payload_remaining' = varint_value'
                              /\ UNCHANGED messages
      /\ data' = Tail(data)
      /\ UNCHANGED <<text_buf, wire, sent, got, stale>>
      /\ Callbacks
  BY DEF LengthDone, VarintByte, Static
<1>1. PICK m \in Messages, rest \in Seq(Messages), v \in Nat :
        /\ sent = Parsed \o (<<m>> \o rest) /\ m.kind = "binary" /\ text_buf = <<>>
        /\ m.body \in Seq(Byte) /\ m = Binary(m.body) /\ Images(rest) \in Seq(Byte)
        /\ m.body \o Images(rest) \in Seq(Byte)
        /\ Joined(data, wire, EncodeVarint[v], m.body \o Images(rest))
        /\ varint_value + v * varint_scale = Len(m.body)
        /\ varint_bytes_read + Len(EncodeVarint[v]) <= VarintMaxBytes
  BY <1>0, LengthFront
<1>2. /\ Tail(data) \in Seq(Byte) /\ LowBits(Head(data)) = v
      /\ Tail(data) \o wire = m.body \o Images(rest)
      /\ Len(EncodeVarint[v]) >= 1
  <2>1. PICK g \in Seq(Byte) : g = m.body \o Images(rest)
    BY <1>1
  <2>2. data \in Seq(Byte) /\ wire \in Seq(Byte) /\ g \in Seq(Byte) /\ v \in Nat
    BY <1>1, <2>1, TypeFacts
  <2>3. Joined(data, wire, EncodeVarint[v], g)
    BY <1>1, <2>1
  <2>4. /\ Tail(data) \in Seq(Byte) /\ LowBits(Head(data)) = v
        /\ Tail(data) \o wire = g /\ Len(EncodeVarint[v]) >= 1
    BY <1>0, <2>2, <2>3, VarintFront
  <2> QED BY <2>1, <2>4
<1>3. varint_value' = Len(m.body) /\ Len(m.body) \in Nat
  BY <1>0, <1>1, <1>2
<1>4. varint_scale' \in Nat /\ varint_bytes_read' \in 0..VarintMaxBytes
  <2>1. EncodeVarint[v] \in Seq(Byte)
    BY <1>1, VarintUnfold
  <2>2. PICK n \in Nat : n = Len(EncodeVarint[v])
    BY <2>1
  <2>3. n >= 1 /\ varint_bytes_read + n <= VarintMaxBytes /\ varint_bytes_read' = varint_bytes_read + 1
    BY <1>0, <1>1, <1>2, <2>2
  <2>4. /\ varint_bytes_read \in Nat /\ VarintMaxBytes \in Nat /\ varint_scale \in Nat /\ Radix \in Nat
        /\ varint_scale' = varint_scale * Radix
    BY <1>0, TypeFacts, RadixAssumption, VarintMaxAssumption DEF RadixAssumption, VarintMaxAssumption
  <2> QED BY <2>2, <2>3, <2>4
<1>5. <<>> \in Seq(Byte)
  OBVIOUS
<1>6. data' \in Seq(Byte) /\ data' \o wire' = m.body \o Images(rest)
  BY <1>0, <1>2
<1>7. CASE varint_value' = 0
  <2>1. m.body = <<>> /\ m = Binary(<<>>) /\ <<>> \o Images(rest) = Images(rest)
    <3>1. Len(m.body) = 0
      BY <1>3, <1>7
    <3>2. m.body = <<>>
      BY <1>1, <3>1
    <3>3. <<>> \o Images(rest) = Images(rest)
      BY <1>1
    <3> QED BY <1>1, <3>2, <3>3
  <2>2. state' = "IDLE" /\ messages' = Append(messages, m) /\ UNCHANGED payload_remaining
    BY <1>0, <1>7, <2>1
  <2>3. messages' \in Seq(Message) /\ sent' = Parsed' \o rest
    BY <1>0, <1>1, <2>2, ParsedGrows
  <2>4. CppBinary(<<>>, TRUE)
    <3>1. Len(messages') > Len(messages)
      BY <2>2, TypeFacts
    <3> QED BY <1>0, <3>1 DEF Callbacks, AtBinaryStart
  <2>5. HostTypes'
    <3>1. /\ cpp_text' \in Seq(Byte) /\ Len(cpp_text') <= TextBufSize
          /\ cpp_binary' \in Seq(Byte) /\ Len(cpp_binary') <= BinaryBufSize
      BY <1>5, <2>4, TypeFacts, CppTypes
    <3> QED BY <1>0, <1>3, <1>4, <1>5, <1>6, <2>2, <2>3, <3>1, TypeFacts
            DEF HostTypes, ReaderTypeOK, ParserTypeOK, States
  <2>6. Between(rest)'
    BY <1>0, <1>1, <1>6, <2>1, <2>2 DEF Between, Ahead
  <2>7. CppInv'
    <3>1. state' # "PAYLOAD" /\ Cut(<<>>, BinaryBufSize) = Cut(m.body, BinaryBufSize)
      BY <2>1, <2>2
    <3> QED BY <1>0, <1>1, <1>5, <2>2, <2>4, <3>1, CppBinaryEnds
  <2>8. StreamInv'
    BY <1>1, <2>3, <2>6 DEF StreamInv
  <2> QED BY <1>1, <2>2, <2>5, <2>7, <2>8 DEF FeedStep, ParsesNext
<1>8. CASE varint_value' # 0
  <2>1. m.body # <<>> /\ <<>> \o m.body = m.body
    BY <1>1, <1>3, <1>8
  <2>2. state' = "PAYLOAD" /\ payload_remaining' = Len(m.body) /\ UNCHANGED messages
    BY <1>0, <1>3, <1>8
  <2>4. CppBinary(<<>>, FALSE)
    <3>1. (Len(messages') > Len(messages)) = FALSE
      BY <2>2, TypeFacts
    <3> QED BY <1>0, <3>1 DEF Callbacks, AtBinaryStart
  <2>5. HostTypes'
    <3>1. /\ cpp_text' \in Seq(Byte) /\ Len(cpp_text') <= TextBufSize
          /\ cpp_binary' \in Seq(Byte) /\ Len(cpp_binary') <= BinaryBufSize
      BY <1>5, <2>4, TypeFacts, CppTypes
    <3> QED BY <1>0, <1>3, <1>4, <1>5, <1>6, <2>2, <3>1, TypeFacts
            DEF HostTypes, ReaderTypeOK, ParserTypeOK, States
  <2>6. InPayload(m, rest)'
    BY <1>0, <1>1, <1>6, <2>1, <2>2 DEF InPayload, Ahead
  <2>7. CppInv'
    <3>1. Cut(<<>>, BinaryBufSize) = Cut(binary_buf', BinaryBufSize)
      BY <1>0
    <3> QED BY <1>0, <1>5, <2>2, <2>4, <3>1, CppBinaryContinues
  <2>8. StreamInv'
    <3>1. sent' = Parsed' \o (<<m>> \o rest)
      BY <1>0, <1>1, <2>2, ParsedStays
    <3> QED BY <1>1, <2>6, <3>1 DEF StreamInv, Within
  <2> QED BY <2>2, <2>5, <2>7, <2>8 DEF FeedStep
<1> QED BY <1>7, <1>8

\* What was collected of the payload is cut to the C++ buffer either way.
LEMMA CutCollected ==
    ASSUME NEW c \in Seq(Byte), NEW b \in Seq(Byte), NEW u \in Seq(Byte), c = Cut(b, BinaryBufSize)
    PROVE  c \o u \in Seq(Byte) /\ Cut(c \o u, BinaryBufSize) = Cut(b \o u, BinaryBufSize)
<1>1. BinaryBufSize \in Nat
  BY BufferSizes DEF BufferSizes
<1> QED BY <1>1, CutTwice

LEMMA PayloadFront ==
    ASSUME Inv, data # <<>>, state = "PAYLOAD"
    PROVE  \E m \in Messages, rest \in Seq(Messages), todo \in Seq(Byte) :
            /\ sent = Parsed \o (<<m>> \o rest) /\ m.kind = "binary" /\ text_buf = <<>>
            /\ m = Binary(m.body) /\ m.body = binary_buf \o todo /\ Images(rest) \in Seq(Byte)
            /\ todo # <<>> /\ payload_remaining = Len(todo)
            /\ Joined(data, wire, todo, Images(rest))
            /\ cpp_binary = Cut(binary_buf, BinaryBufSize)
<1>1. PICK m \in Messages, rest \in Seq(Messages) : sent = Parsed \o (<<m>> \o rest) /\ InPayload(m, rest)
  BY DEF Inv, StreamInv, Between, Within, InText, InVersion, InLength
<1>2. m.kind = "binary" /\ text_buf = <<>>
  BY <1>1 DEF InPayload
<1>3. m = Binary(m.body) /\ Images(rest) \in Seq(Byte)
  BY <1>1, <1>2, MessageKinds, ImagesFacts DEF IsText, IsBinary
<1>4. PICK todo \in Seq(Byte) :
        /\ todo # <<>> /\ m.body = binary_buf \o todo
        /\ payload_remaining = Len(todo)
        /\ Ahead = todo \o Images(rest)
  BY <1>1 DEF InPayload
<1>5. Joined(data, wire, todo, Images(rest))
  BY <1>4 DEF Joined, Ahead
<1>6. cpp_binary = Cut(binary_buf, BinaryBufSize)
  BY DEF Inv, CppInv
<1> QED BY <1>1, <1>2, <1>3, <1>4, <1>5, <1>6

LEMMA FeedPayloadStep ==
    ASSUME Inv, FeedPayload, Static
    PROVE  FeedStep
<1>0. /\ data # <<>> /\ state = "PAYLOAD"
      /\ payload_remaining' = payload_remaining - PayloadTake
      /\ PayloadTake = payload_remaining => BinaryEnd(SubSeq(data, 1, PayloadTake)) /\ state' = "IDLE"
      /\ PayloadTake # payload_remaining => /\ binary_buf' = binary_buf \o SubSeq(data, 1, PayloadTake)
                                            /\ UNCHANGED <<state, text_buf, messages>>
      /\ data' = SubSeq(data, PayloadTake + 1, Len(data))
      /\ UNCHANGED <<varint_value, varint_scale, varint_bytes_read, wire, sent, got, stale>>
      /\ CppBinary(cpp_binary \o SubSeq(data, 1, PayloadTake), Len(messages') > Len(messages))
  BY DEF FeedPayload, Collected, varint_vars, Static, Callbacks
<1>1. PICK m \in Messages, rest \in Seq(Messages), todo \in Seq(Byte) :
        /\ sent = Parsed \o (<<m>> \o rest) /\ m.kind = "binary" /\ text_buf = <<>>
        /\ m = Binary(m.body) /\ m.body = binary_buf \o todo /\ Images(rest) \in Seq(Byte)
        /\ todo # <<>> /\ payload_remaining = Len(todo)
        /\ Joined(data, wire, todo, Images(rest))
        /\ cpp_binary = Cut(binary_buf, BinaryBufSize)
  BY <1>0, PayloadFront
<1>2. /\ data \in Seq(Byte) /\ wire \in Seq(Byte) /\ todo \in Seq(Byte) /\ Images(rest) \in Seq(Byte)
      /\ Len(data) \in Nat /\ Len(todo) \in Nat
  BY <1>1, TypeFacts
<1>3. binary_buf \in Seq(Byte) /\ cpp_binary \in Seq(Byte) /\ <<>> \in Seq(Byte)
  BY TypeFacts DEF HostTypes
<1>4. CASE Len(todo) <= Len(data)
  <2>1. PayloadTake = Len(todo)
    BY <1>1, <1>2, <1>4 DEF PayloadTake
  <2>2. /\ SubSeq(data, 1, Len(todo)) = todo
        /\ SubSeq(data, Len(todo) + 1, Len(data)) \in Seq(Byte)
        /\ SubSeq(data, Len(todo) + 1, Len(data)) \o wire = Images(rest)
    <3>1. Covers(data, wire, todo, Images(rest))
      BY <1>1, <1>2, <1>4, WholeOf
    <3> QED BY <3>1 DEF Covers
  <2>3. BinaryEnd(todo) /\ state' = "IDLE"
    BY <1>0, <1>1, <2>1, <2>2
  <2>4. messages' = Append(messages, m) /\ binary_buf' = <<>> /\ text_buf' = text_buf
    BY <1>1, <2>3 DEF BinaryEnd
  <2>5. messages' \in Seq(Message) /\ sent' = Parsed' \o rest
    BY <1>0, <1>1, <2>4, ParsedGrows
  <2>6. data' \in Seq(Byte) /\ data' \o wire = Images(rest)
    BY <1>0, <2>1, <2>2
  <2>7. payload_remaining' \in Nat
    BY <1>0, <1>1, <1>2, <2>1
  <2>8. CppBinary(cpp_binary \o todo, TRUE)
    <3>1. (Len(messages') > Len(messages)) = TRUE
      BY <2>4, TypeFacts
    <3> QED BY <1>0, <2>1, <2>2, <3>1
  <2>9. cpp_binary \o todo \in Seq(Byte) /\ Cut(cpp_binary \o todo, BinaryBufSize) = Cut(m.body, BinaryBufSize)
    BY <1>1, <1>2, <1>3, CutCollected
  <2>10. HostTypes'
    <3>1. /\ cpp_text' \in Seq(Byte) /\ Len(cpp_text') <= TextBufSize
          /\ cpp_binary' \in Seq(Byte) /\ Len(cpp_binary') <= BinaryBufSize
      BY <2>8, <2>9, TypeFacts, CppTypes
    <3> QED BY <1>0, <1>3, <2>3, <2>4, <2>5, <2>6, <2>7, <3>1, TypeFacts
            DEF HostTypes, ReaderTypeOK, ParserTypeOK, States
  <2>11. Between(rest)'
    BY <1>0, <1>1, <2>3, <2>4, <2>6 DEF Between, Ahead
  <2>12. CppInv'
    <3>1. state' # "PAYLOAD"
      BY <2>3
    <3> QED BY <1>0, <1>1, <2>4, <2>8, <2>9, <3>1, CppBinaryEnds
  <2>13. StreamInv'
    BY <1>1, <2>5, <2>11 DEF StreamInv
  <2> QED BY <1>1, <2>4, <2>10, <2>12, <2>13 DEF FeedStep, ParsesNext
<1>5. CASE ~(Len(todo) <= Len(data))
  <2>1. PayloadTake = Len(data) /\ PayloadTake # payload_remaining
    BY <1>1, <1>2, <1>5 DEF PayloadTake
  <2>2. SubSeq(data, 1, Len(data)) = data /\ SubSeq(data, Len(data) + 1, Len(data)) = <<>>
    BY <1>2, SubSeqFull, SubSeqEmpty
  <2>3. /\ binary_buf' = binary_buf \o data /\ data' = <<>>
        /\ payload_remaining' = Len(todo) - Len(data)
        /\ UNCHANGED <<state, text_buf, messages>>
    BY <1>0, <1>1, <2>1, <2>2
  <2>4. PICK z \in Seq(Byte) : todo = data \o z /\ wire = z \o Images(rest)
    <3>1. Len(data) <= Len(todo)
      BY <1>2, <1>5
    <3>2. WithinRest(data, wire, todo, Images(rest))
      BY <1>1, <1>2, <3>1, PartOf
    <3> QED BY <3>2 DEF WithinRest
  <2>5. z # <<>> /\ payload_remaining' = Len(z) /\ Len(z) \in Nat
    <3>1. Len(todo) = Len(data) + Len(z) /\ Len(z) \in Nat
      BY <1>2, <2>4, ConcatProperties
    <3>2. Len(z) > 0
      BY <1>2, <1>5, <3>1
    <3> QED BY <1>2, <2>3, <3>1, <3>2
  <2>6. binary_buf \o data \in Seq(Byte) /\ m.body = (binary_buf \o data) \o z
    <3>1. binary_buf \in Seq(Byte) /\ data \in Seq(Byte) /\ z \in Seq(Byte)
      BY <1>2, <1>3, <2>4
    <3>2. (binary_buf \o data) \o z = binary_buf \o (data \o z)
      BY <3>1, BytesAssociative
    <3>3. binary_buf \o data \in Seq(Byte)
      BY <3>1
    <3> QED BY <1>1, <2>4, <3>2, <3>3
  <2>7. CppBinary(cpp_binary \o data, FALSE)
    <3>1. (Len(messages') > Len(messages)) = FALSE
      BY <2>3, TypeFacts
    <3> QED BY <1>0, <2>1, <2>2, <3>1
  <2>8. cpp_binary \o data \in Seq(Byte) /\ Cut(cpp_binary \o data, BinaryBufSize) = Cut(binary_buf', BinaryBufSize)
    BY <1>1, <1>2, <1>3, <2>3, CutCollected
  <2>9. HostTypes'
    <3>1. /\ cpp_text' \in Seq(Byte) /\ Len(cpp_text') <= TextBufSize
          /\ cpp_binary' \in Seq(Byte) /\ Len(cpp_binary') <= BinaryBufSize
      BY <2>7, <2>8, TypeFacts, CppTypes
    <3>2. data' \in Seq(Byte) /\ binary_buf' \in Seq(Byte) /\ payload_remaining' \in Nat
      BY <1>3, <2>3, <2>5, <2>6
    <3> QED BY <1>0, <2>3, <3>1, <3>2, TypeFacts DEF HostTypes, ReaderTypeOK, ParserTypeOK, States
  <2>10. InPayload(m, rest)'
    <3>1. data' \o wire' = z \o Images(rest)
      <4>1. <<>> \o wire = wire
        BY <1>2
      <4> QED BY <1>0, <2>3, <2>4, <4>1
    <3>2. z \in Seq(Byte)
      BY <2>4
    <3> QED BY <1>0, <1>1, <2>3, <2>5, <2>6, <3>1, <3>2 DEF InPayload, Ahead
  <2>11. StreamInv'
    <3>1. sent' = Parsed' \o (<<m>> \o rest)
      BY <1>0, <1>1, <2>3, ParsedStays
    <3> QED BY <1>1, <2>10, <3>1 DEF StreamInv, Within
  <2>12. CppInv'
    BY <1>0, <2>3, <2>7, <2>8, CppBinaryContinues
  <2> QED BY <2>3, <2>9, <2>11, <2>12 DEF FeedStep
<1> QED BY <1>4, <1>5

-----------------------------------------------------------------------------
(* The steps of the host.                                                  *)

LEMMA FeedIterationStep ==
    ASSUME Inv, FeedIteration
    PROVE  FeedStep
<1>1. FeedLoop /\ Static
  BY DEF FeedIteration, Static
<1> QED BY <1>1, IdleSOHStep, IdleNewlineStep, FeedTextDelimiterStep, FeedTextPartialStep, VersionKnownStep,
           VersionUnknownStep, LengthMoreStep, LengthDoneStep, FeedPayloadStep DEF FeedLoop

\* Nothing is parsed.
LEMMA StreamStays ==
    ASSUME Inv, UNCHANGED <<parser_vars, text_buf, binary_buf, sent>>, Parsed' = Parsed, Ahead' = Ahead
    PROVE  StreamInv'
<1>0. UNCHANGED <<state, varint_value, varint_scale, varint_bytes_read, payload_remaining, text_buf, binary_buf, sent>>
  BY DEF parser_vars
<1>1. PICK rest \in Seq(Messages) :
        \/ sent = Parsed \o rest /\ Between(rest)
        \/ \E m \in Messages : sent = Parsed \o (<<m>> \o rest) /\ Within(m, rest)
  BY DEF Inv, StreamInv
<1>2. CASE sent = Parsed \o rest /\ Between(rest)
  <2>1. Between(rest)'
    BY <1>0, <1>2 DEF Between
  <2>2. sent' = Parsed' \o rest
    BY <1>0, <1>2
  <2> QED BY <2>1, <2>2 DEF StreamInv
<1>3. ASSUME NEW m \in Messages, sent = Parsed \o (<<m>> \o rest) /\ Within(m, rest)
      PROVE  StreamInv'
  <2>1. InText(m, rest) => InText(m, rest)'
    BY <1>0 DEF InText
  <2>2. InVersion(m, rest) => InVersion(m, rest)'
    BY <1>0 DEF InVersion
  <2>3. InLength(m, rest) => InLength(m, rest)'
    BY <1>0 DEF InLength
  <2>4. InPayload(m, rest) => InPayload(m, rest)'
    BY <1>0 DEF InPayload
  <2>5. Within(m, rest)'
    BY <1>3, <2>1, <2>2, <2>3, <2>4 DEF Within
  <2>6. sent' = Parsed' \o (<<m>> \o rest)
    BY <1>0, <1>3
  <2> QED BY <2>5, <2>6 DEF StreamInv
<1> QED BY <1>1, <1>2, <1>3

LEMMA CppUntouched ==
    ASSUME Inv, UNCHANGED <<cpp_vars, state, text_buf, binary_buf, stale>>, Parsed' = Parsed
    PROVE  CppInv'
BY DEF Inv, CppInv, cpp_vars

LEMMA ReadAndFeedStep ==
    ASSUME Inv, NEW n \in 1..Len(wire), ReadAndFeed(n)
    PROVE  Inv'
<1>0. /\ data = <<>> /\ data' = SubSeq(wire, 1, n) /\ wire' = SubSeq(wire, n + 1, Len(wire))
      /\ UNCHANGED <<parser_vars, text_buf, binary_buf, messages, cpp_vars, writer_vars, sent, got, stale, restarts>>
  BY DEF ReadAndFeed, Feed, handler_vars
<1>1. wire \in Seq(Byte)
  BY TypeFacts
<1>2. /\ data' \in Seq(Byte) /\ wire' \in Seq(Byte) /\ wire = data' \o wire'
  <2>1. n \in 0..Len(wire)
    BY <1>1
  <2> QED BY <1>0, <1>1, <2>1, SplitAt
<1>3. Ahead' = Ahead
  <2>1. <<>> \o wire = wire
    BY <1>1
  <2> QED BY <1>0, <1>2, <2>1 DEF Ahead
<1>4. Parsed' = Parsed
  BY <1>0, ParsedStays
<1>5. StreamInv'
  BY <1>0, <1>3, <1>4, StreamStays
<1>6. CppInv'
  BY <1>0, <1>4, CppUntouched DEF parser_vars
<1>7. TypeOK'
  BY <1>0, <1>2 DEF Inv, TypeOK, ReaderTypeOK, ParserTypeOK, parser_vars, cpp_vars, writer_vars
<1>8. WriterInv'
  BY <1>0 DEF Inv, WriterInv, Streamed, writer_vars
<1> QED BY <1>5, <1>6, <1>7, <1>8 DEF Inv

LEMMA DrainMessagesStep ==
    ASSUME Inv, DrainMessages
    PROVE  Inv'
<1>0. /\ messages' = <<>> /\ got' = got \o messages
      /\ UNCHANGED <<data, parser_vars, text_buf, binary_buf, cpp_vars, writer_vars, wire, sent, stale, restarts>>
  BY DEF DrainMessages, Drain
<1>1. messages \in Seq(Message) /\ got \in Seq(Message) /\ Parsed \in Seq(Message)
  BY TypeFacts
<1>2. Ahead' = Ahead
  BY <1>0 DEF Ahead
<1>3. Parsed' = Parsed /\ got' \in Seq(Message) /\ messages' \in Seq(Message)
  <2>1. Parsed \o <<>> = Parsed
    BY <1>1
  <2> QED BY <1>0, <1>1, <2>1 DEF Parsed
<1>4. StreamInv'
  BY <1>0, <1>2, <1>3, StreamStays
<1>5. CppInv'
  BY <1>0, <1>3, CppUntouched DEF parser_vars
<1>6. TypeOK'
  BY <1>0, <1>3 DEF Inv, TypeOK, ReaderTypeOK, ParserTypeOK, parser_vars, cpp_vars, writer_vars
<1>7. WriterInv'
  BY <1>0 DEF Inv, WriterInv, Streamed, writer_vars
<1> QED BY <1>4, <1>5, <1>6, <1>7 DEF Inv

LEMMA NothingStarted ==
    ASSUME NEW st \in Seq(Byte), Len(st) <= TextBufSize
    PROVE  /\ Views(<<>>, st) = <<>>
           /\ Cut(Left(<<>>, st) \o EncodeUtf8(<<>>), TextBufSize) = st
           /\ Images(<<>>) = <<>>
<1>1. FirstTextOf(<<>>) = 0
  <2>1. PICK p \in Seq(Message) : p = <<>> /\ Len(p) = 0
    <3>1. <<>> \in Seq(Message) /\ Len(<<>>) = 0
      OBVIOUS
    <3> QED BY <3>1
  <2>2. \A j \in 1..Len(p) : p[j].kind # "text"
    BY <2>1
  <2>3. FirstTextOf(p) = 0
    BY <2>1, <2>2, FirstTextNone
  <2> QED BY <2>1, <2>3
<1>2. Views(<<>>, st) = <<>>
  BY DEF Views
<1>3. Left(<<>>, st) \o EncodeUtf8(<<>>) = st
  <2>1. EncodeUtf8(<<>>) = <<>> /\ st \o <<>> = st
    BY FlattenEmpty DEF EncodeUtf8
  <2> QED BY <1>1, <2>1 DEF Left
<1>4. Cut(st, TextBufSize) = st
  BY CutFacts, BufferSizes DEF BufferSizes
<1>5. Images(<<>>) = <<>>
  BY FlattenEmpty DEF Images
<1> QED BY <1>2, <1>3, <1>4, <1>5

LEMMA RestartStep ==
    ASSUME Inv, Restart
    PROVE  Inv'
<1>0. /\ restarts < MaxRestarts /\ restarts' = restarts + 1
      /\ data = <<>> /\ data' = <<>> /\ state' = "IDLE" /\ varint_value' = 0 /\ varint_scale' = 1
      /\ varint_bytes_read' = 0 /\ payload_remaining' = 0
      /\ text_buf' = <<>> /\ binary_buf' = <<>> /\ messages' = <<>>
      /\ cpp_messages' = <<>> /\ stale' = cpp_text /\ UNCHANGED <<cpp_text, cpp_binary>>
      /\ wire' = <<>> /\ out' = <<>> /\ in_message' = FALSE /\ writing' = NoMessage
      /\ unwritten' = <<>> /\ sent' = <<>> /\ got' = <<>>
  BY DEF Restart, Reset, ResetHandler
<1>1. cpp_text \in Seq(Byte) /\ Len(cpp_text) <= TextBufSize
  BY TypeFacts DEF HostTypes
<1>2. Parsed' = <<>> /\ <<>> \o <<>> = <<>>
  <2>1. <<>> \o <<>> = <<>>
    OBVIOUS
  <2> QED BY <1>0, <2>1 DEF Parsed
<1>3. /\ Views(<<>>, cpp_text) = <<>> /\ Images(<<>>) = <<>>
      /\ Cut(Left(<<>>, cpp_text) \o EncodeUtf8(<<>>), TextBufSize) = cpp_text
  BY <1>1, NothingStarted
<1>4. StreamInv'
  <2>1. Ahead' = <<>>
    BY <1>0, <1>2 DEF Ahead
  <2>2. Between(<<>>)'
    BY <1>0, <1>3, <2>1 DEF Between
  <2>3. <<>> \in Seq(Messages) /\ sent' = Parsed' \o <<>>
    BY <1>0, <1>2
  <2> QED BY <2>2, <2>3 DEF StreamInv
<1>5. CppInv'
  BY <1>0, <1>1, <1>2, <1>3 DEF CppInv
<1>6. TypeOK'
  <2>1. restarts + 1 \in 0..MaxRestarts
    BY <1>0, BoundsAssumption DEF Inv, TypeOK, BoundsAssumption
  <2>2. NoMessage \in Message /\ <<>> \in Seq(Byte) /\ <<>> \in Seq(Message) /\ <<>> \in Seq(Seq(Byte))
    BY DEF NoMessage, Text, Message
  <2>3. 0 \in 0..VarintMaxBytes
    BY VarintMaxAssumption DEF VarintMaxAssumption
  <2>4. cpp_binary \in Seq(Byte) /\ Len(cpp_binary) <= BinaryBufSize
    BY TypeFacts DEF HostTypes
  <2> QED BY <1>0, <1>1, <2>1, <2>2, <2>3, <2>4 DEF TypeOK, ReaderTypeOK, ParserTypeOK, States
<1>7. WriterInv'
  BY <1>0 DEF WriterInv
<1> QED BY <1>4, <1>5, <1>6, <1>7 DEF Inv

\* What is appended comes behind the last part.
Appended(x, y, z, f) == (x \o (y \o z)) \o f = x \o (y \o (z \o f))

LEMMA DeepAppend ==
    ASSUME NEW x \in Seq(Byte), NEW y \in Seq(Byte), NEW z \in Seq(Byte), NEW f \in Seq(Byte)
    PROVE  Appended(x, y, z, f)
<1>1. (y \o z) \o f = y \o (z \o f)
  BY BytesAssociative
<1>2. y \o z \in Seq(Byte)
  OBVIOUS
<1>3. (x \o (y \o z)) \o f = x \o ((y \o z) \o f)
  BY <1>2, BytesAssociative, SMTT(60)
<1> QED BY <1>1, <1>3 DEF Appended

LEMMA AppendBehind ==
    ASSUME NEW p \in Seq(Message), NEW r \in Seq(Message), NEW m \in Message
    PROVE  Append(p \o r, m) = p \o Append(r, m)
<1>1. p \o r \in Seq(Message) /\ <<m>> \in Seq(Message)
  OBVIOUS
<1>2. Append(p \o r, m) = (p \o r) \o <<m>> /\ Append(r, m) = r \o <<m>>
  BY <1>1, AppendIsConcat
<1>3. (p \o r) \o <<m>> = p \o (r \o <<m>>)
  BY <1>1, ConcatAssociative
<1> QED BY <1>2, <1>3

-----------------------------------------------------------------------------
(* The steps of the device.                                                *)

\* The bytes of one more message come last, whatever the reader is in.
LEMMA AheadGrows ==
    ASSUME NEW rest \in Seq(Messages), NEW m \in Messages
    PROVE  /\ Append(rest, m) \in Seq(Messages)
           /\ \A x \in Seq(Byte) : (x \o Images(rest)) \o Image(m) = x \o Images(Append(rest, m))
           /\ \A x, y \in Seq(Byte) : (x \o (y \o Images(rest))) \o Image(m) = x \o (y \o Images(Append(rest, m)))
           /\ Images(rest) \in Seq(Byte) /\ Images(rest) \o Image(m) = Images(Append(rest, m))
<1>1. Images(rest) \in Seq(Byte) /\ Image(m) \in Seq(Byte)
  BY ImagesFacts, ImageType
<1>2. Images(rest) \o Image(m) = Images(Append(rest, m))
  BY ImagesFacts
<1>3. PICK z \in Seq(Byte), f \in Seq(Byte) : z = Images(rest) /\ f = Image(m)
  BY <1>1
<1>4. \A x \in Seq(Byte) : (x \o z) \o f = x \o (z \o f)
  BY <1>3, BytesAssociative
<1>5. ASSUME NEW x \in Seq(Byte), NEW y \in Seq(Byte)
      PROVE  (x \o (y \o z)) \o f = x \o (y \o (z \o f))
  <2>1. z \in Seq(Byte) /\ f \in Seq(Byte)
    BY <1>3
  <2>2. Appended(x, y, z, f)
    BY <2>1, DeepAppend
  <2> QED BY <2>2 DEF Appended
<1>6. Append(rest, m) \in Seq(Messages)
  OBVIOUS
<1>7. z \o f = Images(Append(rest, m))
  BY <1>2, <1>3
<1>8. \A x \in Seq(Byte) : (x \o z) \o f = x \o Images(Append(rest, m))
  BY <1>4, <1>7
<1>9. \A x, y \in Seq(Byte) : (x \o (y \o z)) \o f = x \o (y \o Images(Append(rest, m)))
  BY <1>5, <1>7
<1> QED BY <1>1, <1>2, <1>3, <1>6, <1>8, <1>9

LEMMA WithinGrows ==
    ASSUME Inv, NEW rest \in Seq(Messages), NEW m \in Messages, NEW n \in Messages,
           UNCHANGED <<parser_vars, text_buf, binary_buf>>, Ahead' = Ahead \o Image(m)
    PROVE  /\ Between(rest) => Between(Append(rest, m))'
           /\ Within(n, rest) => Within(n, Append(rest, m))'
<1>0. UNCHANGED <<state, varint_value, varint_scale, varint_bytes_read, payload_remaining, text_buf, binary_buf>>
  BY DEF parser_vars
<1>1. /\ \A x \in Seq(Byte) : (x \o Images(rest)) \o Image(m) = x \o Images(Append(rest, m))
      /\ \A x, y \in Seq(Byte) : (x \o (y \o Images(rest))) \o Image(m) = x \o (y \o Images(Append(rest, m)))
      /\ Images(rest) \o Image(m) = Images(Append(rest, m))
  BY AheadGrows
<1>2. Between(rest) => Between(Append(rest, m))'
  BY <1>0, <1>1 DEF Between
<1>3. InText(n, rest) => InText(n, Append(rest, m))'
  <2> SUFFICES ASSUME InText(n, rest) PROVE InText(n, Append(rest, m))'
    OBVIOUS
  <2>1. PICK done \in Seq(Ascii), todo \in Seq(Ascii) :
            /\ n.body = done \o todo /\ text_buf = done
            /\ Ahead = (BytesOf(todo) \o <<LF>>) \o Images(rest)
    BY DEF InText
  <2>2. BytesOf(todo) \o <<LF>> \in Seq(Byte)
    BY <2>1, LineBytes, LineWire
  <2>3. Ahead' = (BytesOf(todo) \o <<LF>>) \o Images(Append(rest, m))
    BY <1>1, <2>1, <2>2
  <2> QED BY <1>0, <2>1, <2>3 DEF InText
<1>4. InVersion(n, rest) => InVersion(n, Append(rest, m))'
  <2> SUFFICES ASSUME InVersion(n, rest) PROVE InVersion(n, Append(rest, m))'
    OBVIOUS
  <2>1. EncodeVarint[Len(n.body)] \in Seq(Byte) /\ n.body \in Seq(Byte)
    BY MessageKinds, VarintUnfold DEF InVersion, IsText, IsBinary
  <2>2. PICK e \in Seq(Byte), v \in Seq(Byte) : e = EncodeVarint[Len(n.body)] \o n.body /\ v = <<BINARY_PROTOCOL_V1>>
    <3>1. EncodeVarint[Len(n.body)] \o n.body \in Seq(Byte)
      BY <2>1
    <3>2. <<BINARY_PROTOCOL_V1>> \in Seq(Byte)
      BY DEF BINARY_PROTOCOL_V1, Byte
    <3> QED BY <3>1, <3>2
  <2>3. e \in Seq(Byte) /\ v \in Seq(Byte) /\ Ahead = v \o (e \o Images(rest))
    BY <2>2 DEF InVersion
  <2>4. Ahead' = v \o (e \o Images(Append(rest, m)))
    BY <1>1, <2>3
  <2> QED BY <1>0, <2>2, <2>4 DEF InVersion
<1>5. InLength(n, rest) => InLength(n, Append(rest, m))'
  <2> SUFFICES ASSUME InLength(n, rest) PROVE InLength(n, Append(rest, m))'
    OBVIOUS
  <2>1. PICK v \in Nat :
          /\ Ahead = EncodeVarint[v] \o (n.body \o Images(rest))
          /\ varint_value + v * varint_scale = Len(n.body)
          /\ varint_bytes_read + Len(EncodeVarint[v]) <= VarintMaxBytes
    BY DEF InLength
  <2>2. EncodeVarint[v] \in Seq(Byte) /\ n.body \in Seq(Byte)
    BY <2>1, MessageKinds, VarintUnfold DEF InLength, IsText, IsBinary
  <2>3. Ahead' = EncodeVarint[v] \o (n.body \o Images(Append(rest, m)))
    BY <1>1, <2>1, <2>2
  <2> QED BY <1>0, <2>1, <2>3 DEF InLength
<1>6. InPayload(n, rest) => InPayload(n, Append(rest, m))'
  <2> SUFFICES ASSUME InPayload(n, rest) PROVE InPayload(n, Append(rest, m))'
    OBVIOUS
  <2>1. PICK todo \in Seq(Byte) :
          /\ todo # <<>> /\ n.body = binary_buf \o todo
          /\ payload_remaining = Len(todo)
          /\ Ahead = todo \o Images(rest)
    BY DEF InPayload
  <2>2. Ahead' = todo \o Images(Append(rest, m))
    BY <1>1, <2>1
  <2> QED BY <1>0, <2>1, <2>2 DEF InPayload
<1> QED BY <1>2, <1>3, <1>4, <1>5, <1>6 DEF Within

LEMMA SendStep ==
    ASSUME Inv, NEW m \in Messages, UNCHANGED <<host_vars, got, stale>>,
           sent' = Append(sent, m), wire' = wire \o Image(m)
    PROVE  /\ StreamInv' /\ CppInv'
           /\ sent' \in Seq(Message) /\ wire' \in Seq(Byte)
<1>0. UNCHANGED <<data, parser_vars, state, text_buf, binary_buf, messages, cpp_vars>>
  BY DEF host_vars, reader_vars, handler_vars, parser_vars
<1>1. data \in Seq(Byte) /\ wire \in Seq(Byte) /\ Image(m) \in Seq(Byte) /\ Parsed \in Seq(Message) /\ m \in Message
  BY TypeFacts, ImageType, MessageKinds
<1>2. Ahead' = Ahead \o Image(m) /\ wire' \in Seq(Byte)
  <2>1. (data \o wire) \o Image(m) = data \o (wire \o Image(m))
    BY <1>1, BytesAssociative
  <2>2. wire \o Image(m) \in Seq(Byte)
    BY <1>1
  <2> QED BY <1>0, <2>1, <2>2 DEF Ahead
<1>3. Parsed' = Parsed
  BY <1>0, ParsedStays
<1>4. Messages \subseteq Message
  BY MessageKinds
<1>5. PICK rest \in Seq(Messages) :
        \/ sent = Parsed \o rest /\ Between(rest)
        \/ \E n \in Messages : sent = Parsed \o (<<n>> \o rest) /\ Within(n, rest)
  BY DEF Inv, StreamInv
<1>6. Append(rest, m) \in Seq(Messages) /\ rest \in Seq(Message)
  BY <1>4, <1>5
<1>7. \A p \in Seq(Message) : Append(p \o rest, m) = p \o Append(rest, m)
  BY <1>1, <1>6, AppendBehind
<1>8. StreamInv'
  <2>1. CASE sent = Parsed \o rest /\ Between(rest)
    <3>1. sent' = Parsed' \o Append(rest, m)
      BY <1>1, <1>3, <1>7, <2>1
    <3>2. Between(Append(rest, m))'
      BY <1>0, <1>2, <1>5, <2>1, WithinGrows
    <3> QED BY <1>6, <3>1, <3>2 DEF StreamInv
  <2>2. ASSUME NEW n \in Messages, sent = Parsed \o (<<n>> \o rest) /\ Within(n, rest)
        PROVE  StreamInv'
    <3>1. sent' = Parsed' \o (<<n>> \o Append(rest, m))
      <4>1. <<n>> \in Seq(Message) /\ <<n>> \o rest \in Seq(Message)
        BY <1>4, <1>6
      <4>2. Append(<<n>> \o rest, m) = <<n>> \o Append(rest, m)
        BY <1>7, <4>1
      <4>3. Append(Parsed \o (<<n>> \o rest), m) = Parsed \o Append(<<n>> \o rest, m)
        BY <1>1, <4>1, AppendBehind
      <4> QED BY <1>3, <2>2, <4>2, <4>3
    <3>2. Within(n, Append(rest, m))'
      BY <1>0, <1>2, <1>5, <2>2, WithinGrows
    <3> QED BY <1>6, <3>1, <3>2 DEF StreamInv
  <2> QED BY <1>5, <2>1, <2>2
<1>9. CppInv'
  BY <1>0, <1>3, CppUntouched
<1>10. sent' \in Seq(Message)
  BY <1>1 DEF Inv, TypeOK
<1> QED BY <1>2, <1>8, <1>9, <1>10

\* The first message not yet parsed.
LEMMA NextSent ==
    ASSUME NEW p \in Seq(Message), NEW rest \in Seq(Messages), NEW m \in Messages
    PROVE  /\ Len(p) < Len(p \o (<<m>> \o rest))
           /\ (p \o (<<m>> \o rest))[Len(p) + 1] = m
<1>1. PICK r \in Seq(Message) : r = <<m>> \o rest /\ Len(r) >= 1 /\ r[1] = m
  <2>1. Messages \subseteq Message
    BY MessageKinds
  <2>2. rest \in Seq(Message) /\ m \in Message
    BY <2>1
  <2>3. <<m>> \o rest \in Seq(Message) /\ Len(<<m>> \o rest) >= 1 /\ (<<m>> \o rest)[1] = m
    BY <2>2
  <2> QED BY <2>3
<1>2. Len(p) \in Nat /\ Len(r) \in Nat /\ Len(p \o r) = Len(p) + Len(r)
  BY <1>1, ConcatProperties
<1>3. (p \o r)[Len(p) + 1] = r[1]
  <2>1. 1 \in 1..Len(r) /\ Len(p) + 1 \in 1..(Len(p) + Len(r))
    BY <1>1, <1>2
  <2>2. (p \o r)[Len(p) + 1] = r[(Len(p) + 1) - Len(p)]
    BY <1>1, <1>2, <2>1, ConcatProperties
  <2> QED BY <1>2, <2>2
<1> QED BY <1>1, <1>2, <1>3

LEMMA MessagesOf ==
    /\ \A line \in Lines : Text(line) \in Messages /\ Image(Text(line)) = WireText(line)
                           /\ EncodeUtf8(line) = BytesOf(line) /\ EncodeUtf8(line) \in Seq(Byte)
    /\ \A payload \in Payloads : /\ Binary(payload) \in Messages /\ Image(Binary(payload)) = WireBinary(payload)
                                 /\ payload \in Seq(Byte) /\ BinaryHeader(Len(payload)) \in Seq(Byte)
<1>1. ASSUME NEW line \in Lines
      PROVE  /\ Text(line) \in Messages /\ Image(Text(line)) = WireText(line)
             /\ EncodeUtf8(line) = BytesOf(line) /\ EncodeUtf8(line) \in Seq(Byte)
  <2>1. line \in Seq(Ascii)
    BY LinesAssumption DEF LinesAssumption
  <2> QED BY <2>1, LineBytes DEF Messages, Image, Text
<1>2. ASSUME NEW payload \in Payloads
      PROVE  /\ Binary(payload) \in Messages /\ Image(Binary(payload)) = WireBinary(payload)
             /\ payload \in Seq(Byte) /\ BinaryHeader(Len(payload)) \in Seq(Byte)
  <2>1. payload \in Seq(Byte) /\ Len(payload) \in Nat
    BY PayloadsAssumption DEF PayloadsAssumption
  <2>2. BinaryHeader(Len(payload)) \in Seq(Byte)
    <3>1. EncodeVarint[Len(payload)] \in Seq(Byte)
      BY <2>1, VarintUnfold
    <3>2. <<SOH, BINARY_PROTOCOL_V1>> \in Seq(Byte)
      BY DEF SOH, BINARY_PROTOCOL_V1, Byte
    <3> QED BY <3>1, <3>2 DEF BinaryHeader
  <2> QED BY <2>1, <2>2 DEF Messages, Image, Binary
<1> QED BY <1>1, <1>2

\* What the device's steps leave alone.
LEMMA HostUntouched ==
    ASSUME Inv, UNCHANGED host_vars
    PROVE  /\ UNCHANGED <<data, parser_vars, state, text_buf, binary_buf, messages, cpp_vars>>
           /\ ReaderTypeOK'
           /\ cpp_text' \in Seq(Byte) /\ Len(cpp_text') <= TextBufSize
           /\ cpp_binary' \in Seq(Byte) /\ Len(cpp_binary') <= BinaryBufSize
BY TypeFacts DEF HostTypes, ReaderTypeOK, ParserTypeOK, host_vars, reader_vars, handler_vars, parser_vars, cpp_vars

LEMMA WriteWholeStep ==
    ASSUME Inv, NEW m \in Messages, UNCHANGED <<host_vars, writer_vars, got, stale, restarts>>,
           sent' = Append(sent, m), wire' = wire \o Image(m)
    PROVE  Inv'
<1>1. StreamInv' /\ CppInv' /\ sent' \in Seq(Message) /\ wire' \in Seq(Byte)
  BY SendStep
<1>2. TypeOK'
  BY <1>1, HostUntouched DEF Inv, TypeOK, writer_vars
<1>3. WriterInv'
  BY DEF Inv, WriterInv, Streamed, writer_vars
<1> QED BY <1>1, <1>2, <1>3 DEF Inv

\* A message that is being streamed is not on the wire yet.
LEMMA QuietStep ==
    ASSUME Inv, UNCHANGED <<host_vars, wire, sent, got, stale, restarts>>,
           out' \in Seq(Byte), unwritten' \in Seq(Byte), in_message' \in BOOLEAN, writing' \in Message, WriterInv'
    PROVE  Inv'
<1>1. UNCHANGED <<data, parser_vars, state, text_buf, binary_buf, messages, cpp_vars>>
  BY HostUntouched
<1>2. Parsed' = Parsed /\ Ahead' = Ahead
  BY <1>1, ParsedStays DEF Ahead
<1>3. StreamInv' /\ CppInv'
  BY <1>1, <1>2, StreamStays, CppUntouched
<1>4. TypeOK'
  BY HostUntouched DEF Inv, TypeOK
<1> QED BY <1>3, <1>4 DEF Inv

LEMMA BeginTextStep ==
    ASSUME Inv, NEW line \in Lines, BeginText(line)
    PROVE  Inv'
<1>0. /\ in_message' = TRUE /\ out' = <<>> /\ writing' = Text(line) /\ unwritten' = EncodeUtf8(line)
      /\ UNCHANGED <<host_vars, wire, sent, got, stale, restarts>>
  BY DEF BeginText
<1>1. Text(line) \in Messages /\ EncodeUtf8(line) = BytesOf(line) /\ EncodeUtf8(line) \in Seq(Byte)
  BY MessagesOf
<1>2. WriterInv'
  <2>1. <<>> \o EncodeUtf8(line) = EncodeUtf8(line)
    BY <1>1
  <2> QED BY <1>0, <1>1, <2>1 DEF WriterInv, Streamed, Text
<1>3. Text(line) \in Message
  BY <1>1, MessageKinds
<1> QED BY <1>0, <1>1, <1>2, <1>3, QuietStep

LEMMA BeginBinaryStep ==
    ASSUME Inv, NEW payload \in Payloads, BeginBinary(payload)
    PROVE  Inv'
<1>0. /\ in_message' = TRUE /\ out' = BinaryHeader(Len(payload)) /\ writing' = Binary(payload)
      /\ unwritten' = payload
      /\ UNCHANGED <<host_vars, wire, sent, got, stale, restarts>>
  BY DEF BeginBinary
<1>1. Binary(payload) \in Messages /\ payload \in Seq(Byte) /\ BinaryHeader(Len(payload)) \in Seq(Byte)
  BY MessagesOf
<1>2. WriterInv'
  BY <1>0, <1>1 DEF WriterInv, Streamed, Binary, WireBinary
<1>3. Binary(payload) \in Message
  BY <1>1, MessageKinds
<1> QED BY <1>0, <1>1, <1>2, <1>3, QuietStep

LEMMA WriteStep ==
    ASSUME Inv, NEW n \in 1..Len(unwritten), Write(n)
    PROVE  Inv'
<1>0. /\ in_message /\ out' = out \o SubSeq(unwritten, 1, n)
      /\ unwritten' = SubSeq(unwritten, n + 1, Len(unwritten))
      /\ UNCHANGED <<host_vars, in_message, writing, wire, sent, got, stale, restarts>>
  BY DEF Write
<1>1. out \in Seq(Byte) /\ unwritten \in Seq(Byte) /\ in_message \in BOOLEAN /\ writing \in Message
  BY DEF Inv, TypeOK
<1>2. PICK x \in Seq(Byte), y \in Seq(Byte) :
        x = SubSeq(unwritten, 1, n) /\ y = SubSeq(unwritten, n + 1, Len(unwritten)) /\ unwritten = x \o y
  <2>1. n \in 0..Len(unwritten)
    BY <1>1
  <2>2. /\ SubSeq(unwritten, 1, n) \in Seq(Byte) /\ SubSeq(unwritten, n + 1, Len(unwritten)) \in Seq(Byte)
        /\ unwritten = SubSeq(unwritten, 1, n) \o SubSeq(unwritten, n + 1, Len(unwritten))
    BY <1>1, <2>1, SplitAt
  <2> QED BY <2>2
<1>3. out' \in Seq(Byte) /\ unwritten' \in Seq(Byte) /\ out' \o unwritten' = out \o unwritten
  <2>1. x \in Seq(Byte) /\ y \in Seq(Byte)
    BY <1>2
  <2>2. (out \o x) \o y = out \o (x \o y)
    BY <1>1, <2>1, BytesAssociative
  <2>3. out \o x \in Seq(Byte)
    BY <1>1, <2>1
  <2> QED BY <1>0, <1>2, <2>1, <2>2, <2>3
<1>4. WriterInv'
  BY <1>0, <1>3 DEF Inv, WriterInv, Streamed
<1> QED BY <1>0, <1>1, <1>3, <1>4, QuietStep

\* end() puts the whole message on the wire, with the newline of a text.
LEMMA EndImage ==
    ASSUME Inv, in_message, unwritten = <<>>
    PROVE  writing \in Messages /\ out \in Seq(Byte) /\ wire \o out \o Terminator = wire \o Image(writing)
<1>1. writing \in Messages /\ Streamed(writing) /\ out \in Seq(Byte) /\ wire \in Seq(Byte)
  BY DEF Inv, WriterInv, TypeOK
<1>2. out = IF writing.kind = "text" THEN BytesOf(writing.body) ELSE WireBinary(writing.body)
  <2>1. out \o <<>> = out
    BY <1>1
  <2> QED BY <1>1, <2>1 DEF Streamed
<1>3. CASE writing.kind = "text"
  <2>1. writing.body \in Seq(Ascii)
    BY <1>1, <1>3, MessageKinds DEF IsText, IsBinary
  <2>2. /\ BytesOf(writing.body) \in Seq(Byte) /\ Image(writing) = BytesOf(writing.body) \o <<LF>>
        /\ Len(BytesOf(writing.body)) = Len(writing.body)
        /\ \A i \in 1..Len(writing.body) : ~Delimiter(BytesOf(writing.body)[i])
    BY <1>3, <2>1, LineBytes DEF Image, WireText
  <2>3. Terminator = <<LF>>
    <3>1. out # <<>> => 1 \in 1..Len(out)
      BY <1>1
    <3>2. out # <<>> => ~Delimiter(out[1])
      BY <1>2, <1>3, <2>2, <3>1
    <3> QED BY <3>2 DEF Terminator, Delimiter
  <2>4. <<LF>> \in Seq(Byte)
    BY <2>2, LineWire
  <2>5. (wire \o out) \o <<LF>> = wire \o (out \o <<LF>>)
    BY <1>1, <2>4, BytesAssociative
  <2> QED BY <1>1, <1>2, <1>3, <2>2, <2>3, <2>5
<1>4. CASE writing.kind # "text"
  <2>1. writing.kind = "binary"
    BY <1>1, <1>4, MessageKinds DEF IsText, IsBinary
  <2>2. Image(writing) = out
    BY <1>2, <1>4 DEF Image
  <2>3. out # <<>> /\ out[1] = SOH
    <3>1. /\ Image(writing) \o <<>> = <<SOH>> \o (<<BINARY_PROTOCOL_V1>> \o ((EncodeVarint[Len(writing.body)] \o writing.body) \o <<>>))
          /\ <<BINARY_PROTOCOL_V1>> \o ((EncodeVarint[Len(writing.body)] \o writing.body) \o <<>>) \in Seq(Byte)
      <4>1. <<>> \in Seq(Byte)
        OBVIOUS
      <4> QED BY <1>1, <2>1, <4>1, BinaryImage
    <3>2. PICK z \in Seq(Byte) : out = <<SOH>> \o z
      <4>1. out \o <<>> = out
        BY <1>1
      <4> QED BY <2>2, <3>1, <4>1
    <3>3. SOH \in Byte
      BY DEF SOH, Byte
    <3> QED BY <3>2, <3>3
  <2>4. Terminator = <<>> /\ (wire \o out) \o <<>> = wire \o out
    <3>1. wire \o out \in Seq(Byte)
      BY <1>1
    <3> QED BY <2>3, <3>1 DEF Terminator
  <2> QED BY <1>1, <2>2, <2>4
<1> QED BY <1>3, <1>4

LEMMA EndStep ==
    ASSUME Inv, End
    PROVE  Inv'
<1>0. /\ in_message /\ unwritten = <<>> /\ in_message' = FALSE
      /\ wire' = wire \o out \o Terminator /\ out' = <<>> /\ sent' = Append(sent, writing)
      /\ writing' = NoMessage
      /\ UNCHANGED <<host_vars, unwritten, got, stale, restarts>>
  BY DEF End
<1>1. writing \in Messages /\ wire' = wire \o Image(writing)
  BY <1>0, EndImage
<1>2. StreamInv' /\ CppInv' /\ sent' \in Seq(Message) /\ wire' \in Seq(Byte)
  BY <1>0, <1>1, SendStep
<1>3. TypeOK'
  <2>1. NoMessage \in Message /\ <<>> \in Seq(Byte)
    BY DEF NoMessage, Text, Message
  <2> QED BY <1>0, <1>2, <2>1, HostUntouched DEF Inv, TypeOK
<1>4. WriterInv'
  BY <1>0 DEF WriterInv
<1> QED BY <1>2, <1>3, <1>4 DEF Inv

-----------------------------------------------------------------------------
(* The invariant.                                                          *)

LEMMA FeedIterationInv ==
    ASSUME Inv, FeedIteration
    PROVE  Inv'
<1>0. UNCHANGED <<writer_vars, wire, sent, got, stale, restarts>>
  BY DEF FeedIteration
<1>1. FeedStep
  BY FeedIterationStep
<1>2. TypeOK'
  BY <1>0, <1>1 DEF FeedStep, HostTypes, Inv, TypeOK, writer_vars
<1>3. WriterInv'
  BY <1>0 DEF Inv, WriterInv, Streamed, writer_vars
<1> QED BY <1>1, <1>2, <1>3 DEF FeedStep, Inv

LEMMA WriteTextStep ==
    ASSUME Inv, NEW line \in Lines, WriteText(line)
    PROVE  Inv'
BY MessagesOf, WriteWholeStep DEF WriteText

LEMMA WriteBinaryStep ==
    ASSUME Inv, NEW payload \in Payloads, WriteBinary(payload)
    PROVE  Inv'
BY MessagesOf, WriteWholeStep DEF WriteBinary

LEMMA InitInv ==
    ASSUME Init
    PROVE  Inv
<1>0. /\ data = <<>> /\ state = "IDLE" /\ varint_value = 0 /\ varint_scale = 1 /\ varint_bytes_read = 0
      /\ payload_remaining = 0 /\ text_buf = <<>> /\ binary_buf = <<>> /\ messages = <<>>
      /\ cpp_text = <<>> /\ cpp_binary = <<>> /\ cpp_messages = <<>> /\ stale = <<>>
      /\ out = <<>> /\ in_message = FALSE /\ writing = NoMessage /\ unwritten = <<>>
      /\ wire = <<>> /\ sent = <<>> /\ got = <<>> /\ restarts = 0
  BY DEF Init, ReaderInit, CppInit
<1>1. /\ TextBufSize \in Nat /\ BinaryBufSize \in Nat /\ 0 \in 0..VarintMaxBytes /\ 0 \in 0..MaxRestarts
  BY BufferSizes, VarintMaxAssumption, BoundsAssumption DEF BufferSizes, VarintMaxAssumption, BoundsAssumption
<1>2. /\ <<>> \in Seq(Byte) /\ Len(<<>>) = 0 /\ <<>> \in Seq(Messages) /\ <<>> \in Seq(Message)
      /\ <<>> \in Seq(Seq(Byte)) /\ <<>> \o <<>> = <<>>
  OBVIOUS
<1>3. Parsed = <<>> /\ Ahead = <<>>
  BY <1>0, <1>2 DEF Parsed, Ahead
<1>4. Views(<<>>, <<>>) = <<>> /\ Images(<<>>) = <<>> /\ Cut(Left(<<>>, <<>>) \o EncodeUtf8(<<>>), TextBufSize) = <<>>
  <2>1. Len(<<>>) <= TextBufSize
    BY <1>1, <1>2
  <2> QED BY <1>2, <2>1, NothingStarted
<1>5. TypeOK
  <2>1. NoMessage \in Message
    BY DEF NoMessage, Text, Message
  <2>2. Len(<<>>) <= TextBufSize /\ Len(<<>>) <= BinaryBufSize
    BY <1>1, <1>2
  <2> QED BY <1>0, <1>1, <1>2, <2>1, <2>2 DEF TypeOK, ReaderTypeOK, ParserTypeOK, States
<1>6. StreamInv
  <2>1. Between(<<>>)
    BY <1>0, <1>3, <1>4 DEF Between
  <2>2. sent = Parsed \o <<>>
    BY <1>0, <1>2, <1>3
  <2> QED BY <1>2, <2>1, <2>2 DEF StreamInv
<1>7. CppInv
  <2>1. Len(<<>>) <= TextBufSize
    BY <1>1, <1>2
  <2> QED BY <1>0, <1>2, <1>3, <1>4, <2>1 DEF CppInv
<1>8. WriterInv
  BY <1>0 DEF WriterInv
<1> QED BY <1>5, <1>6, <1>7, <1>8 DEF Inv

LEMMA NextInv ==
    ASSUME Inv, [Next]_vars
    PROVE  Inv'
<1>1. CASE Device
  BY <1>1, WriteTextStep, WriteBinaryStep, BeginTextStep, BeginBinaryStep, WriteStep, EndStep DEF Device
<1>2. CASE HostRead
  BY <1>2, ReadAndFeedStep DEF HostRead
<1>3. CASE FeedIteration
  BY <1>3, FeedIterationInv
<1>4. CASE DrainMessages
  BY <1>4, DrainMessagesStep
<1>5. CASE Restart
  BY <1>5, RestartStep
<1>6. CASE UNCHANGED vars
  <2>1. /\ UNCHANGED <<host_vars, wire, sent, got, stale, restarts>>
        /\ UNCHANGED <<out, in_message, writing, unwritten>>
    BY <1>6 DEF vars, writer_vars
  <2>2. WriterInv'
    BY <2>1 DEF Inv, WriterInv, Streamed
  <2>3. out' \in Seq(Byte) /\ unwritten' \in Seq(Byte) /\ in_message' \in BOOLEAN /\ writing' \in Message
    BY <2>1 DEF Inv, TypeOK
  <2> QED BY <2>1, <2>2, <2>3, QuietStep
<1> QED BY <1>1, <1>2, <1>3, <1>4, <1>5, <1>6 DEF Next

\* In every reachable state what was parsed is a prefix of what was sent; the reader
\* is between two messages or inside the next one, at the place its state, buffers
\* and counters say; and the bytes ahead of it are exactly the rest (the loop of
\* feed, its callbacks and MessageWriter together).
THEOREM Invariant == Spec => []Inv
<1>1. Init => Inv
  BY InitInv
<1>2. Inv /\ [Next]_vars => Inv'
  BY NextInv
<1> QED BY <1>1, <1>2, PTL DEF Spec

\* Every variable of the writer, the wire and both handlers keeps its type, the
\* fixed buffers of the C++ handler their size, and the varint counter its limit.
THEOREM TypeCorrect == Spec => []TypeOK
<1>1. Inv => TypeOK
  BY DEF Inv
<1> QED BY <1>1, Invariant, PTL

\* A reader that has consumed all that was sent is between two messages: feed is
\* never left waiting, inside a message, for bytes that will not come.
THEOREM AlwaysInSync == Spec => []InSync
<1>1. Inv => InSync
  <2> SUFFICES ASSUME Inv, data = <<>>, wire = <<>>, state # "IDLE" PROVE FALSE
    BY DEF InSync
  <2>1. Ahead = <<>>
    BY DEF Ahead
  <2>2. PICK m \in Messages, rest \in Seq(Messages) : Within(m, rest)
    BY DEF Inv, StreamInv, Between
  <2>3. Images(rest) \in Seq(Byte)
    BY <2>2, ImagesFacts
  <2>4. \A x \in Seq(Byte) : x # <<>> => x \o Images(rest) # <<>>
    BY <2>3
  <2>5. ~InText(m, rest)
    <3>1. \A todo \in Seq(Ascii) : BytesOf(todo) \o <<LF>> \in Seq(Byte) /\ Len(BytesOf(todo) \o <<LF>>) = Len(BytesOf(todo)) + 1
                                   /\ Len(BytesOf(todo)) \in Nat
      <4>1. \A b \in Seq(Byte) : b \o <<LF>> \in Seq(Byte) /\ Len(b \o <<LF>>) = Len(b) + 1 /\ Len(b) \in Nat
        BY LineWire
      <4> QED BY <4>1, LineBytes
    <3>2. \A todo \in Seq(Ascii) : BytesOf(todo) \o <<LF>> # <<>>
      <4> SUFFICES ASSUME NEW todo \in Seq(Ascii), BytesOf(todo) \o <<LF>> = <<>> PROVE FALSE
        OBVIOUS
      <4>1. Len(<<>>) = Len(BytesOf(todo)) + 1 /\ Len(BytesOf(todo)) \in Nat
        BY <3>1
      <4> QED BY <4>1
    <3> QED BY <2>1, <2>4, <3>1, <3>2 DEF InText
  <2>6. ~InPayload(m, rest)
    BY <2>1, <2>4 DEF InPayload
  <2>7. \A x \in Seq(Byte), y \in Seq(Byte) : x # <<>> => x \o y # <<>>
    OBVIOUS
  <2>8. ~InLength(m, rest)
    <3> SUFFICES ASSUME NEW v \in Nat, <<>> = EncodeVarint[v] \o (m.body \o Images(rest)), m.kind = "binary"
                 PROVE  FALSE
      BY <2>1 DEF InLength
    <3>1. EncodeVarint[v] \in Seq(Byte) /\ EncodeVarint[v] # <<>>
      BY VarintUnfold
    <3>2. m.body \o Images(rest) \in Seq(Byte)
      <4>1. m.body \in Seq(Byte)
        BY <2>2, MessageKinds DEF IsText, IsBinary
      <4> QED BY <2>3, <4>1
    <3> QED BY <2>7, <3>1, <3>2
  <2>9. ~InVersion(m, rest)
    <3> SUFFICES ASSUME m.kind = "binary",
                        <<>> = <<BINARY_PROTOCOL_V1>> \o ((EncodeVarint[Len(m.body)] \o m.body) \o Images(rest))
                 PROVE  FALSE
      BY <2>1 DEF InVersion
    <3>1. <<BINARY_PROTOCOL_V1>> \in Seq(Byte) /\ <<BINARY_PROTOCOL_V1>> # <<>>
      BY DEF BINARY_PROTOCOL_V1, Byte
    <3>2. (EncodeVarint[Len(m.body)] \o m.body) \o Images(rest) \in Seq(Byte)
      <4>1. m.body \in Seq(Byte) /\ EncodeVarint[Len(m.body)] \in Seq(Byte)
        BY <2>2, MessageKinds, VarintUnfold DEF IsText, IsBinary
      <4>2. EncodeVarint[Len(m.body)] \o m.body \in Seq(Byte)
        BY <4>1
      <4> QED BY <2>3, <4>2
    <3> QED BY <2>7, <3>1, <3>2
  <2> QED BY <2>2, <2>5, <2>6, <2>8, <2>9 DEF Within
<1> QED BY <1>1, Invariant, PTL

\* The C++ handler delivers the messages that the Python one does, each cut to its
\* buffer, and nothing of an earlier payload; only what a restart left of a text
\* comes in front of the first text after it.
THEOREM AlwaysBufferedAsParsed == Spec => []BufferedAsParsed
<1>1. Inv => BufferedAsParsed
  BY DEF Inv, CppInv, Views, View, BufferedAsParsed, CppView, FirstText, FirstTextOf
<1> QED BY <1>1, Invariant, PTL

\* The steps of the link are steps of the reliable channel of whole messages: feed
\* delivers nothing but the next message sent, whole and once; the rest, but for
\* sends and restarts, changes nothing that the channel has.
THEOREM ChannelSafety == Spec => Channel!Init /\ [][Channel!Next]_(Channel!vars)
<1>1. Init => Channel!Init
  <2>1. <<>> \o <<>> = <<>>
    OBVIOUS
  <2> QED BY <2>1 DEF Init, ReaderInit, Channel!Init
<1>2. Inv /\ [Next]_vars => [Channel!Next]_(Channel!vars)
  <2> SUFFICES ASSUME Inv, [Next]_vars PROVE [Channel!Next]_(Channel!vars)
    OBVIOUS
  <2>1. \A m \in Messages : sent' = Append(sent, m) /\ Parsed' = Parsed => Channel!Next
    BY DEF Channel!Next, Channel!Send, Messages, Parsed
  <2>2. sent' = sent /\ Parsed' = Parsed => UNCHANGED Channel!vars
    BY DEF Channel!vars, Parsed
  <2>3. UNCHANGED host_vars /\ UNCHANGED got => Parsed' = Parsed
    BY ParsedStays DEF host_vars, reader_vars, handler_vars
  <2>4. CASE Device
    <3>1. ASSUME NEW line \in Lines, WriteText(line) PROVE Channel!Next
      BY <2>1, <2>3, <3>1, MessagesOf DEF WriteText
    <3>2. ASSUME NEW line \in Lines, BeginText(line) PROVE UNCHANGED Channel!vars
      BY <2>2, <2>3, <3>2 DEF BeginText
    <3>3. ASSUME NEW payload \in Payloads, WriteBinary(payload) PROVE Channel!Next
      BY <2>1, <2>3, <3>3, MessagesOf DEF WriteBinary
    <3>4. ASSUME NEW payload \in Payloads, BeginBinary(payload) PROVE UNCHANGED Channel!vars
      BY <2>2, <2>3, <3>4 DEF BeginBinary
    <3>5. ASSUME NEW n \in 1..Len(unwritten), Write(n) PROVE UNCHANGED Channel!vars
      BY <2>2, <2>3, <3>5 DEF Write
    <3>6. CASE End
      <4>1. writing \in Messages
        BY <3>6, EndImage DEF End
      <4> QED BY <2>1, <2>3, <3>6, <4>1 DEF End
    <3> QED BY <2>4, <3>1, <3>2, <3>3, <3>4, <3>5, <3>6 DEF Device
  <2>5. CASE HostRead
    <3>1. PICK n \in 1..Len(wire) : ReadAndFeed(n)
      BY <2>5 DEF HostRead
    <3>2. UNCHANGED <<messages, got, sent>>
      BY <3>1 DEF ReadAndFeed, Feed, handler_vars
    <3> QED BY <2>2, <3>2, ParsedStays
  <2>6. CASE FeedIteration
    <3>1. FeedStep /\ UNCHANGED <<got, sent>>
      BY <2>6, FeedIterationStep DEF FeedIteration
    <3>2. CASE UNCHANGED messages
      BY <2>2, <3>1, <3>2, ParsedStays
    <3>3. CASE ParsesNext
      <4>1. PICK m \in Messages, rest \in Seq(Messages) :
                messages' = Append(messages, m) /\ sent = Parsed \o (<<m>> \o rest)
        BY <3>3 DEF ParsesNext
      <4>2. Parsed' = Append(Parsed, m)
        BY <3>1, <4>1, ParsedGrows
      <4>3. Len(Parsed) < Len(sent) /\ sent[Len(Parsed) + 1] = m
        BY <4>1, TypeFacts, NextSent
      <4> QED BY <3>1, <4>2, <4>3 DEF Channel!Next, Channel!Deliver, Parsed
    <3> QED BY <3>1, <3>2, <3>3 DEF FeedStep
  <2>7. CASE DrainMessages
    <3>1. messages' = <<>> /\ got' = got \o messages /\ sent' = sent
      BY <2>7 DEF DrainMessages, Drain
    <3>2. Parsed' = Parsed
      <4>1. Parsed \o <<>> = Parsed
        BY TypeFacts
      <4> QED BY <3>1, <4>1 DEF Parsed
    <3> QED BY <2>2, <3>1, <3>2
  <2>8. CASE Restart
    <3>1. sent' = <<>> /\ got' = <<>> /\ messages' = <<>>
      BY <2>8 DEF Restart, Reset, ResetHandler
    <3>2. <<>> \o <<>> = <<>>
      OBVIOUS
    <3> QED BY <3>1, <3>2 DEF Channel!Next, Channel!Restart
  <2>9. CASE UNCHANGED vars
    BY <2>2, <2>3, <2>9 DEF vars
  <2> QED BY <2>4, <2>5, <2>6, <2>7, <2>8, <2>9 DEF Next
<1> QED BY <1>1, <1>2, Invariant, PTL DEF Spec
=============================================================================
