-------------------------- MODULE Flattening_proofs --------------------------
(***************************************************************************)
(* Facts about lists that the proofs about the components share: induction *)
(* over the numbers below a bound, recursion on the positions of a         *)
(* sequence, and FlattenSeq of a longer sequence.                          *)
(***************************************************************************)
EXTENDS Integers, Sequences, SequencesExt, SequenceTheorems, WellFoundedInduction, TLAPS

-----------------------------------------------------------------------------
(* Induction.                                                              *)

LEMMA LeastOf ==
    ASSUME NEW T, T \subseteq Nat, T # {}
    PROVE  \E m \in T : \A n \in T : ~(n < m)
<1> DEFINE R == OpToRel(<, Nat)
<1>1. IsWellFoundedOn(R, Nat)
  BY NatLessThanWellFounded
<1>3. \A x, y \in Nat : x < y => <<x, y>> \in R
  BY DEF OpToRel
<1> HIDE DEF R
<1>2. \E m \in T : \A n \in T : <<n, m>> \notin R
  BY <1>1, WFMin
<1> QED BY <1>2, <1>3

LEMMA SetInduction ==
    ASSUME NEW T, T \subseteq Nat, 0 \in T, \A n \in T : n + 1 \in T
    PROVE  T = Nat
<1> SUFFICES ASSUME Nat \ T # {} PROVE FALSE
  OBVIOUS
<1>1. PICK m \in Nat \ T : \A n \in Nat \ T : ~(n < m)
  BY LeastOf
<1>2. m - 1 \in Nat /\ m - 1 < m
  BY <1>1
<1>3. m - 1 \in T
  BY <1>1, <1>2
<1> QED BY <1>1, <1>2, <1>3

-----------------------------------------------------------------------------
(* Recursion on the positions of a sequence.                               *)

LEMMA Steps ==
    ASSUME NEW T, NEW n \in Nat, 0 \in T, \A i \in 1..n : i - 1 \in T => i \in T
    PROVE  \A i \in 0..n : i \in T
<1> DEFINE U == {i \in Nat : i <= n => i \in T}
<1>1. U \subseteq Nat /\ 0 \in U
  OBVIOUS
<1>2. \A i \in U : i + 1 \in U
  <2> SUFFICES ASSUME NEW i \in U, i + 1 <= n PROVE i + 1 \in T
    OBVIOUS
  <2>1. i \in T /\ i + 1 \in 1..n /\ (i + 1) - 1 = i
    OBVIOUS
  <2> QED BY <2>1
<1>3. U = Nat
  <2> HIDE DEF U
  <2> QED BY <1>1, <1>2, SetInduction
<1> QED BY <1>3

\* f is the recursion that starts with `first` and takes step[i] at i.
Recursion(f, n, first, step) ==
    f = [i \in 0..n |-> IF i = 0 THEN first ELSE step[i][f[i - 1]]]

LEMMA RecursionExists ==
    ASSUME NEW S, NEW n \in Nat, NEW first \in S, NEW step \in [1..n -> [S -> S]]
    PROVE  \E f \in [0..n -> S] : Recursion(f, n, first, step)
<1> DEFINE To(f, m) == f[0] = first /\ \A i \in 1..m : f[i] = step[i][f[i - 1]]
           T == {m \in Nat : \E f \in [0..m -> S] : To(f, m)}
<1>1. 0 \in T
  <2>1. [i \in 0..0 |-> first] \in [0..0 -> S] /\ To([i \in 0..0 |-> first], 0)
    OBVIOUS
  <2> QED BY <2>1
<1>2. ASSUME NEW m \in 1..n, m - 1 \in T PROVE m \in T
  <2>1. PICK f \in [0..(m - 1) -> S] : To(f, m - 1)
    BY <1>2
  <2> DEFINE g == [i \in 0..m |-> IF i = m THEN step[m][f[m - 1]] ELSE f[i]]
  <2>2. m - 1 \in 0..(m - 1) /\ f[m - 1] \in S
    OBVIOUS
  <2>3. step[m][f[m - 1]] \in S
    BY <2>2
  <2>4. \A i \in 0..m : i = m \/ i \in 0..(m - 1)
    OBVIOUS
  <2>5. g \in [0..m -> S]
    BY <2>3, <2>4
  <2>6. \A i \in 0..(m - 1) : g[i] = f[i]
    OBVIOUS
  <2>7. g[0] = first
    BY <2>1, <2>6
  <2>8. ASSUME NEW i \in 1..m PROVE g[i] = step[i][g[i - 1]]
    <3>1. i - 1 \in 0..(m - 1) /\ g[i - 1] = f[i - 1]
      BY <2>6
    <3>2. CASE i = m
      BY <3>1, <3>2
    <3>3. CASE i # m
      <4>1. i \in 1..(m - 1) /\ i \in 0..(m - 1)
        BY <3>3
      <4>2. f[i] = step[i][f[i - 1]] /\ g[i] = f[i]
        BY <2>1, <2>6, <4>1
      <4> QED BY <3>1, <4>2
    <3> QED BY <3>2, <3>3
  <2> HIDE DEF g
  <2> QED BY <2>5, <2>7, <2>8
<1>3. n \in T
  <2>1. n \in 0..n
    OBVIOUS
  <2>2. \A i \in 1..n : i - 1 \in T => i \in T
    BY <1>2
  <2> HIDE DEF T
  <2> QED BY <1>1, <2>1, <2>2, Steps
<1>4. PICK f \in [0..n -> S] : To(f, n)
  BY <1>3
<1>5. f = [i \in 0..n |-> IF i = 0 THEN first ELSE step[i][f[i - 1]]]
  <2>1. \A i \in 0..n : f[i] = IF i = 0 THEN first ELSE step[i][f[i - 1]]
    BY <1>4
  <2> QED BY <2>1
<1> QED BY <1>5 DEF Recursion

\* f and g start alike and, where they are alike, go on alike.
Alike(f, g, n) == f[0] = g[0] /\ \A i \in 1..n : f[i - 1] = g[i - 1] => f[i] = g[i]

LEMMA SameSteps ==
    ASSUME NEW f, NEW g, NEW n \in Nat, Alike(f, g, n)
    PROVE  \A i \in 0..n : f[i] = g[i]
<1> DEFINE T == {i \in Nat : f[i] = g[i]}
<1>1. 0 \in T /\ \A i \in 1..n : i - 1 \in T => i \in T
  BY DEF Alike
<1>2. \A i \in 0..n : i \in T
  <2> HIDE DEF T
  <2> QED BY <1>1, Steps
<1> QED BY <1>2

-----------------------------------------------------------------------------
(* Flattening.                                                             *)

\* f[i] is the concatenation of the first i elements of s.
Accumulates(f, s) ==
    f = [i \in 1..Len(s) |-> IF i = 1 THEN s[i] ELSE f[i - 1] \o s[i]]

LEMMA AccumulationExists ==
    ASSUME NEW S, NEW s \in Seq(Seq(S))
    PROVE  \E f \in [1..Len(s) -> Seq(S)] : Accumulates(f, s)
<1> DEFINE To(f, m) == \A i \in 1..m : f[i] = IF i = 1 THEN s[i] ELSE f[i - 1] \o s[i]
           P(m) == m <= Len(s) => \E f \in [1..m -> Seq(S)] : To(f, m)
<1>1. P(0)
  <2>1. [i \in 1..0 |-> <<>>] \in [1..0 -> Seq(S)] /\ To([i \in 1..0 |-> <<>>], 0)
    OBVIOUS
  <2> QED BY <2>1
<1>2. ASSUME NEW m \in Nat, P(m) PROVE P(m + 1)
  <2> SUFFICES ASSUME m + 1 <= Len(s)
               PROVE  \E f \in [1..(m + 1) -> Seq(S)] : To(f, m + 1)
    OBVIOUS
  <2>0. m <= Len(s)
    OBVIOUS
  <2>1. PICK f \in [1..m -> Seq(S)] : To(f, m)
    BY <1>2, <2>0
  <2> DEFINE next == IF m + 1 = 1 THEN s[m + 1] ELSE f[m] \o s[m + 1]
             g == [i \in 1..(m + 1) |-> IF i = m + 1 THEN next ELSE f[i]]
  <2>2. s[m + 1] \in Seq(S) /\ next \in Seq(S)
    OBVIOUS
  <2>3. g \in [1..(m + 1) -> Seq(S)]
    BY <2>2
  <2>4. ASSUME NEW i \in 1..(m + 1) PROVE g[i] = IF i = 1 THEN s[i] ELSE g[i - 1] \o s[i]
    <3>1. CASE i = m + 1
      BY <3>1
    <3>2. CASE i \in 1..m
      <4>0. i # m + 1 /\ i - 1 # m + 1 /\ (i # 1 => i - 1 \in 1..(m + 1))
        BY <3>2
      <4>1. g[i] = f[i] /\ (i # 1 => g[i - 1] = f[i - 1])
        BY <4>0
      <4> QED BY <2>1, <3>2, <4>1
    <3> QED BY <3>1, <3>2
  <2> QED BY <2>3, <2>4
<1>3. \A m \in Nat : P(m)
  <2> HIDE DEF P
  <2> DEFINE T == {m \in Nat : P(m)}
  <2>1. T \subseteq Nat /\ 0 \in T /\ \A m \in T : m + 1 \in T
    BY <1>1, <1>2
  <2>2. T = Nat
    <3> HIDE DEF T
    <3> QED BY <2>1, SetInduction
  <2> QED BY <2>2
<1>4. Len(s) \in Nat /\ Len(s) <= Len(s)
  OBVIOUS
<1>5. PICK f \in [1..Len(s) -> Seq(S)] : To(f, Len(s))
  BY <1>3, <1>4
<1>6. f = [i \in 1..Len(s) |-> IF i = 1 THEN s[i] ELSE f[i - 1] \o s[i]]
  BY <1>5
<1> QED BY <1>6 DEF Accumulates

\* Two accumulations agree as far as their sequences do.
LEMMA AccumulationUnique ==
    ASSUME NEW f, NEW s, NEW g, NEW t, NEW n \in Nat, Accumulates(f, s), Accumulates(g, t),
           n <= Len(s), n <= Len(t), Len(s) \in Nat, Len(t) \in Nat, \A i \in 1..n : s[i] = t[i]
    PROVE  \A i \in 1..n : f[i] = g[i]
<1> DEFINE T == {m \in Nat : m \in 1..n => f[m] = g[m]}
<1>1. 0 \in T
  OBVIOUS
<1>2. \A m \in T : m + 1 \in T
  <2> SUFFICES ASSUME NEW m \in T, m + 1 \in 1..n PROVE f[m + 1] = g[m + 1]
    OBVIOUS
  <2>1. /\ f[m + 1] = IF m + 1 = 1 THEN s[m + 1] ELSE f[(m + 1) - 1] \o s[m + 1]
        /\ g[m + 1] = IF m + 1 = 1 THEN t[m + 1] ELSE g[(m + 1) - 1] \o t[m + 1]
    <3>1. m + 1 \in 1..Len(s) /\ m + 1 \in 1..Len(t)
      OBVIOUS
    <3> QED BY <3>1 DEF Accumulates
  <2>2. s[m + 1] = t[m + 1] /\ (m + 1) - 1 = m
    OBVIOUS
  <2>3. m + 1 # 1 => f[m] = g[m]
    OBVIOUS
  <2> QED BY <2>1, <2>2, <2>3
<1>3. T = Nat
  <2> HIDE DEF T
  <2>1. T \subseteq Nat
    BY DEF T
  <2> QED BY <1>1, <1>2, <2>1, SetInduction
<1> QED BY <1>3

LEMMA FlattenAccumulates ==
    ASSUME NEW S, NEW s \in Seq(Seq(S)), s # <<>>
    PROVE  \E f \in [1..Len(s) -> Seq(S)] : Accumulates(f, s) /\ FlattenSeq(s) = f[Len(s)]
<1>0. Len(s) \in Nat /\ Len(s) # 0
  OBVIOUS
<1>1. PICK f \in [1..Len(s) -> Seq(S)] : Accumulates(f, s)
  BY AccumulationExists
<1>2. PICK g : Accumulates(g, s) /\ FlattenSeq(s) = g[Len(s)]
  BY <1>0, <1>1 DEF FlattenSeq, Accumulates
<1>3. \A i \in 1..Len(s) : f[i] = g[i]
  <2>1. Len(s) <= Len(s) /\ \A i \in 1..Len(s) : s[i] = s[i]
    BY <1>0
  <2> QED BY <1>0, <1>1, <1>2, <2>1, AccumulationUnique
<1>4. Len(s) \in 1..Len(s)
  BY <1>0
<1> QED BY <1>1, <1>2, <1>3, <1>4

LEMMA FlattenType ==
    ASSUME NEW S, NEW s \in Seq(Seq(S))
    PROVE  FlattenSeq(s) \in Seq(S)
<1>0. Len(s) \in Nat
  OBVIOUS
<1>1. CASE s = <<>>
  BY <1>1 DEF FlattenSeq
<1>2. CASE s # <<>>
  <2>1. PICK f \in [1..Len(s) -> Seq(S)] : FlattenSeq(s) = f[Len(s)]
    BY <1>2, FlattenAccumulates
  <2>2. Len(s) \in 1..Len(s)
    BY <1>0, <1>2
  <2> QED BY <2>1, <2>2
<1> QED BY <1>1, <1>2

LEMMA FlattenEmpty == FlattenSeq(<<>>) = <<>>
BY DEF FlattenSeq

LEMMA FlattenAppend ==
    ASSUME NEW S, NEW s \in Seq(Seq(S)), NEW x \in Seq(S)
    PROVE  FlattenSeq(Append(s, x)) = FlattenSeq(s) \o x
<1> DEFINE t == Append(s, x)
<1>1. /\ t \in Seq(Seq(S)) /\ Len(t) = Len(s) + 1 /\ Len(s) \in Nat /\ t # <<>>
      /\ \A i \in 1..Len(s) : t[i] = s[i]
      /\ t[Len(s) + 1] = x
  BY AppendProperties
<1> HIDE DEF t
<1>2. PICK g \in [1..Len(t) -> Seq(S)] : Accumulates(g, t) /\ FlattenSeq(t) = g[Len(t)]
  BY <1>1, FlattenAccumulates
<1>3. FlattenSeq(t) = IF Len(t) = 1 THEN t[Len(t)] ELSE g[Len(t) - 1] \o t[Len(t)]
  <2>1. Len(t) \in 1..Len(t)
    BY <1>1
  <2> QED BY <1>2, <2>1 DEF Accumulates
<1>4. CASE s = <<>>
  <2>1. FlattenSeq(s) = <<>> /\ Len(t) = 1
    BY <1>1, <1>4, FlattenEmpty
  <2>2. FlattenSeq(t) = x
    BY <1>1, <1>3, <2>1
  <2> QED BY <2>1, <2>2 DEF t
<1>5. CASE s # <<>>
  <2>1. PICK f \in [1..Len(s) -> Seq(S)] : Accumulates(f, s) /\ FlattenSeq(s) = f[Len(s)]
    BY <1>5, FlattenAccumulates
  <2>2. Len(s) \in 1..Len(s)
    BY <1>1, <1>5
  <2>3. \A i \in 1..Len(s) : f[i] = g[i]
    <3>1. Len(s) <= Len(s) /\ Len(s) <= Len(t) /\ Len(t) \in Nat /\ \A i \in 1..Len(s) : s[i] = t[i]
      BY <1>1
    <3>2. Len(s) \in Nat /\ Accumulates(f, s) /\ Accumulates(g, t)
      BY <1>1, <1>2, <2>1
    <3> QED BY <3>1, <3>2, AccumulationUnique
  <2>4. Len(t) # 1 /\ Len(t) - 1 = Len(s)
    BY <1>1, <2>2
  <2> QED BY <1>1, <1>3, <2>1, <2>2, <2>3, <2>4 DEF t
<1> QED BY <1>4, <1>5

LEMMA FlattenOne ==
    ASSUME NEW S, NEW x \in Seq(S)
    PROVE  FlattenSeq(<<x>>) = x
<1>1. <<>> \in Seq(Seq(S)) /\ <<x>> = Append(<<>>, x)
  OBVIOUS
<1>2. FlattenSeq(<<x>>) = FlattenSeq(<<>>) \o x
  BY <1>1, FlattenAppend
<1> QED BY <1>2, FlattenEmpty

LEMMA FlattenConcat ==
    ASSUME NEW S, NEW s \in Seq(Seq(S)), NEW t \in Seq(Seq(S))
    PROVE  FlattenSeq(s \o t) = FlattenSeq(s) \o FlattenSeq(t)
<1> DEFINE P(n) == \A u \in Seq(Seq(S)) :
                    Len(u) = n => FlattenSeq(s \o u) = FlattenSeq(s) \o FlattenSeq(u)
<1>0. FlattenSeq(s) \in Seq(S)
  BY FlattenType
<1>1. P(0)
  <2> SUFFICES ASSUME NEW u \in Seq(Seq(S)), Len(u) = 0
               PROVE  FlattenSeq(s \o u) = FlattenSeq(s) \o FlattenSeq(u)
    OBVIOUS
  <2>1. u = <<>> /\ s \o u = s
    OBVIOUS
  <2>2. FlattenSeq(u) = <<>>
    BY <2>1, FlattenEmpty
  <2>3. FlattenSeq(s) \o <<>> = FlattenSeq(s)
    BY <1>0
  <2> QED BY <2>1, <2>2, <2>3
<1>2. ASSUME NEW n \in Nat, P(n) PROVE P(n + 1)
  <2> SUFFICES ASSUME NEW u \in Seq(Seq(S)), Len(u) = n + 1
               PROVE  FlattenSeq(s \o u) = FlattenSeq(s) \o FlattenSeq(u)
    OBVIOUS
  <2>0. u # <<>>
    OBVIOUS
  <2>1. PICK front \in Seq(Seq(S)), last \in Seq(S) : u = Append(front, last)
    BY <2>0, SequenceEmptyOrAppend
  <2>2. Len(front) = n
    BY <2>1
  <2>3. FlattenSeq(s \o front) = FlattenSeq(s) \o FlattenSeq(front)
    BY <1>2, <2>2
  <2>4. s \o u = Append(s \o front, last) /\ s \o front \in Seq(Seq(S))
    BY <2>1
  <2>5. FlattenSeq(s \o u) = (FlattenSeq(s) \o FlattenSeq(front)) \o last
    BY <2>3, <2>4, FlattenAppend
  <2>6. FlattenSeq(u) = FlattenSeq(front) \o last /\ FlattenSeq(front) \in Seq(S)
    BY <2>1, FlattenAppend, FlattenType
  <2>7. (FlattenSeq(s) \o FlattenSeq(front)) \o last = FlattenSeq(s) \o (FlattenSeq(front) \o last)
    BY <1>0, <2>6, ConcatAssociative, SMTT(60)
  <2> QED BY <2>5, <2>6, <2>7
<1>3. \A n \in Nat : P(n)
  <2> HIDE DEF P
  <2> DEFINE T == {n \in Nat : P(n)}
  <2>1. T \subseteq Nat /\ 0 \in T /\ \A n \in T : n + 1 \in T
    BY <1>1, <1>2
  <2>2. T = Nat
    <3> HIDE DEF T
    <3> QED BY <2>1, SetInduction
  <2> QED BY <2>2
<1>4. Len(t) \in Nat
  OBVIOUS
<1> QED BY <1>3, <1>4

LEMMA FlattenCons ==
    ASSUME NEW S, NEW x \in Seq(S), NEW s \in Seq(Seq(S))
    PROVE  FlattenSeq(<<x>> \o s) = x \o FlattenSeq(s)
<1>1. <<x>> \in Seq(Seq(S))
  OBVIOUS
<1>2. FlattenSeq(<<x>> \o s) = FlattenSeq(<<x>>) \o FlattenSeq(s)
  BY <1>1, FlattenConcat
<1>3. FlattenSeq(<<x>>) = x
  BY FlattenOne
<1> QED BY <1>2, <1>3

\* A sequence is the flattening of its one-element pieces.
LEMMA FlattenSingletons ==
    ASSUME NEW S, NEW s \in Seq(S)
    PROVE  FlattenSeq([i \in 1..Len(s) |-> <<s[i]>>]) = s
<1> DEFINE Pieces(t) == [i \in 1..Len(t) |-> <<t[i]>>]
           P(n) == \A t \in Seq(S) : Len(t) = n => FlattenSeq(Pieces(t)) = t
<1>1. P(0)
  <2> SUFFICES ASSUME NEW t \in Seq(S), Len(t) = 0 PROVE FlattenSeq(Pieces(t)) = t
    OBVIOUS
  <2>1. t = <<>> /\ Pieces(t) = <<>>
    OBVIOUS
  <2> QED BY <2>1, FlattenEmpty
<1>2. ASSUME NEW n \in Nat, P(n) PROVE P(n + 1)
  <2> SUFFICES ASSUME NEW t \in Seq(S), Len(t) = n + 1
               PROVE  FlattenSeq(Pieces(t)) = t
    OBVIOUS
  <2>0. t # <<>>
    OBVIOUS
  <2>1. PICK front \in Seq(S), last \in S : t = Append(front, last)
    BY <2>0, SequenceEmptyOrAppend
  <2>2. Len(front) = n
    BY <2>1
  <2>3. FlattenSeq(Pieces(front)) = front
    BY <1>2, <2>2
  <2>4. /\ Pieces(front) \in Seq(Seq(S)) /\ <<last>> \in Seq(S)
        /\ Pieces(t) = Append(Pieces(front), <<last>>)
    BY <2>1
  <2> HIDE DEF Pieces
  <2>5. FlattenSeq(Pieces(t)) = front \o <<last>>
    BY <2>3, <2>4, FlattenAppend
  <2>6. t = front \o <<last>>
    BY <2>1, AppendIsConcat
  <2> QED BY <2>5, <2>6
<1>3. \A n \in Nat : P(n)
  <2> HIDE DEF P
  <2> DEFINE T == {n \in Nat : P(n)}
  <2>1. T \subseteq Nat /\ 0 \in T /\ \A n \in T : n + 1 \in T
    BY <1>1, <1>2
  <2>2. T = Nat
    <3> HIDE DEF T
    <3> QED BY <2>1, SetInduction
  <2> QED BY <2>2
<1>4. Len(s) \in Nat
  OBVIOUS
<1> QED BY <1>3, <1>4

LEMMA PartsAssociative ==
    ASSUME NEW S, NEW x \in Seq(Seq(S)), NEW y \in Seq(Seq(S)), NEW z \in Seq(Seq(S))
    PROVE  (x \o y) \o z = x \o (y \o z)
BY ConcatAssociative

\* f is the recursion that yields at each position i and goes on at a later one, next[i].
Onward(f, n, next, yields) ==
    f = [i \in 1..(n + 1) |->
            IF i > n THEN <<>> ELSE IF next[i] = 0 THEN <<>> ELSE yields[i] \o f[next[i]]]

Forward(next, n) == \A i \in 1..n : next[i] = 0 \/ next[i] \in (i + 1)..(n + 1)

LEMMA OnwardExists ==
    ASSUME NEW S, NEW n \in Nat, NEW next, Forward(next, n), NEW yields \in [1..n -> Seq(S)]
    PROVE  \E f \in [1..(n + 1) -> Seq(S)] : Onward(f, n, next, yields)
<1> DEFINE At(f, i) == IF i > n THEN <<>> ELSE IF next[i] = 0 THEN <<>> ELSE yields[i] \o f[next[i]]
           From(f, j) == \A i \in j..(n + 1) : f[i] = At(f, i)
           T == {m \in Nat : \E f \in [((n + 1) - m)..(n + 1) -> Seq(S)] : From(f, (n + 1) - m)}
<1>0. <<>> \in Seq(S)
  OBVIOUS
<1>1. 0 \in T
  <2> DEFINE f == [i \in (n + 1)..(n + 1) |-> <<>>]
  <2>1. f \in [(n + 1)..(n + 1) -> Seq(S)]
    BY <1>0
  <2>2. From(f, n + 1)
    <3>1. \A i \in (n + 1)..(n + 1) : i > n /\ f[i] = <<>>
      OBVIOUS
    <3> HIDE DEF f
    <3> QED BY <3>1
  <2>3. (n + 1) - 0 = n + 1
    OBVIOUS
  <2> HIDE DEF f
  <2> QED BY <2>1, <2>2, <2>3
<1>2. ASSUME NEW m \in 1..n, m - 1 \in T PROVE m \in T
  <2> DEFINE j == (n + 1) - m
  <2>0. j \in 1..n /\ (n + 1) - (m - 1) = j + 1 /\ m \in Nat
    OBVIOUS
  <2>1. PICK f \in [(j + 1)..(n + 1) -> Seq(S)] : From(f, j + 1)
    BY <1>2, <2>0
  <2> HIDE DEF j
  <2> DEFINE x == IF next[j] = 0 THEN <<>> ELSE yields[j] \o f[next[j]]
  <2>2. x \in Seq(S)
    <3>1. CASE next[j] = 0
      BY <1>0, <3>1
    <3>2. CASE next[j] # 0
      <4>1. next[j] \in (j + 1)..(n + 1)
        BY <2>0, <3>2 DEF Forward
      <4>2. f[next[j]] \in Seq(S) /\ yields[j] \in Seq(S)
        BY <2>0, <2>1, <4>1
      <4> QED BY <3>2, <4>2
    <3> QED BY <3>1, <3>2
  <2> DEFINE g == [i \in j..(n + 1) |-> IF i = j THEN x ELSE f[i]]
  <2>3. g \in [j..(n + 1) -> Seq(S)]
    <3>1. \A i \in j..(n + 1) : i = j \/ i \in (j + 1)..(n + 1)
      BY <2>0
    <3> HIDE DEF x
    <3> QED BY <2>2, <3>1
  <2>4. \A i \in (j + 1)..(n + 1) : g[i] = f[i]
    BY <2>0
  <2>5. g[j] = x
    BY <2>0
  <2> HIDE DEF g
  <2>6. ASSUME NEW i \in j..(n + 1) PROVE g[i] = At(g, i)
    <3>1. CASE i = j
      <4>1. next[j] # 0 => g[next[j]] = f[next[j]]
        BY <2>0, <2>4 DEF Forward
      <4>2. ~(j > n)
        BY <2>0
      <4> QED BY <2>5, <3>1, <4>1, <4>2
    <3>2. CASE i # j
      <4>1. i \in (j + 1)..(n + 1)
        BY <2>0, <3>2
      <4>2. g[i] = f[i] /\ f[i] = At(f, i)
        BY <2>1, <2>4, <4>1
      <4>3. ~(i > n) /\ next[i] # 0 => g[next[i]] = f[next[i]]
        <5> SUFFICES ASSUME ~(i > n), next[i] # 0 PROVE g[next[i]] = f[next[i]]
          OBVIOUS
        <5>1. i \in 1..n
          BY <2>0, <4>1
        <5>2. next[i] \in (i + 1)..(n + 1)
          BY <5>1 DEF Forward
        <5>3. next[i] \in (j + 1)..(n + 1)
          BY <2>0, <4>1, <5>2
        <5> QED BY <2>4, <5>3
      <4> QED BY <4>2, <4>3
    <3> QED BY <3>1, <3>2
  <2> QED BY <2>0, <2>3, <2>6 DEF j
<1>3. n \in T
  <2>1. n \in 0..n
    OBVIOUS
  <2>2. \A m \in 1..n : m - 1 \in T => m \in T
    BY <1>2
  <2> HIDE DEF T
  <2> QED BY <1>1, <2>1, <2>2, Steps
<1>4. (n + 1) - n = 1
  OBVIOUS
<1>5. PICK f \in [1..(n + 1) -> Seq(S)] : From(f, 1)
  BY <1>3, <1>4
<1>6. f = [i \in 1..(n + 1) |-> At(f, i)]
  BY <1>5
<1> QED BY <1>6 DEF Onward

LEMMA OnwardType ==
    ASSUME NEW S, NEW n \in Nat, NEW next, Forward(next, n), NEW yields \in [1..n -> Seq(S)],
           NEW f, Onward(f, n, next, yields), NEW k \in 1..(n + 1)
    PROVE  f[k] \in Seq(S)
<1> DEFINE T == {m \in Nat : \A i \in 1..(n + 1) : i >= (n + 1) - m => f[i] \in Seq(S)}
<1>0. <<>> \in Seq(S)
  OBVIOUS
<1>1. \A i \in 1..(n + 1) :
          f[i] = IF i > n THEN <<>> ELSE IF next[i] = 0 THEN <<>> ELSE yields[i] \o f[next[i]]
  BY DEF Onward
<1>2. 0 \in T
  <2> SUFFICES ASSUME NEW i \in 1..(n + 1), i >= (n + 1) - 0 PROVE f[i] \in Seq(S)
    OBVIOUS
  <2>1. i > n
    OBVIOUS
  <2>2. f[i] = <<>>
    BY <1>1, <2>1
  <2> QED BY <1>0, <2>2
<1>3. ASSUME NEW m \in T PROVE m + 1 \in T
  <2> SUFFICES ASSUME NEW i \in 1..(n + 1), i >= (n + 1) - (m + 1) PROVE f[i] \in Seq(S)
    OBVIOUS
  <2>1. CASE i > n \/ next[i] = 0
    <3>1. f[i] = <<>>
      BY <1>1, <2>1
    <3> QED BY <1>0, <3>1
  <2>2. CASE ~(i > n) /\ next[i] # 0
    <3>1. i \in 1..n
      BY <2>2
    <3>2. next[i] \in (i + 1)..(n + 1)
      BY <2>2, <3>1 DEF Forward
    <3>3. next[i] \in 1..(n + 1) /\ next[i] >= (n + 1) - m
      BY <3>1, <3>2
    <3>4. f[next[i]] \in Seq(S) /\ yields[i] \in Seq(S)
      BY <3>1, <3>3
    <3>5. f[i] = yields[i] \o f[next[i]]
      BY <1>1, <2>2
    <3> QED BY <3>4, <3>5
  <2> QED BY <2>1, <2>2
<1>4. T = Nat
  <2> HIDE DEF T
  <2>1. T \subseteq Nat
    BY DEF T
  <2> QED BY <1>2, <1>3, <2>1, SetInduction
<1>5. n \in T
  <2> HIDE DEF T
  <2> QED BY <1>4
<1>6. k >= (n + 1) - n
  OBVIOUS
<1> QED BY <1>5, <1>6

=============================================================================
