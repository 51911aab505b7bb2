--------------------------- MODULE InductionLemmas ---------------------------
(***************************************************************************)
(* Induction and recursion on natural numbers, stated with sets and        *)
(* functions instead of operators, so that the provers can use them.       *)
(***************************************************************************)
EXTENDS Naturals, SequencesExt, SequenceTheorems, WellFoundedInduction, TLAPS

LEMMA LeastNumber ==
  ASSUME NEW T \in SUBSET Nat, T # {}
  PROVE  \E n \in T : \A m \in T : n <= m
<1>1. IsWellFoundedOn(OpToRel(<, Nat), Nat)
  BY NatLessThanWellFounded
<1>2. PICK n \in T : \A m \in T : ~ (<<m, n>> \in OpToRel(<, Nat))
  BY <1>1, WFMin
<1>3. \A m \in T : ~ (m < n)
  BY <1>2 DEF OpToRel
<1>. QED
  BY <1>3

\* What holds of 0, and of n + 1 when it holds of n, holds up to m.
LEMMA Induction ==
  ASSUME NEW m \in Nat, NEW S, 0 \in S, \A n \in 0 .. m : n \in S /\ n < m => n + 1 \in S
  PROVE  0 .. m \subseteq S
<1>. DEFINE T == (0 .. m) \ S
<1>. SUFFICES ASSUME T # {} PROVE FALSE
  OBVIOUS
<1>0. T \in SUBSET Nat
  OBVIOUS
<1>. HIDE DEF T
<1>1. PICK n \in T : \A k \in T : n <= k
  BY <1>0, LeastNumber
<1>. USE DEF T
<1>2. n # 0 /\ n \in 0 .. m /\ n \notin S
  OBVIOUS
<1>3. n - 1 \in 0 .. m /\ n - 1 < m /\ n - 1 + 1 = n
  BY <1>2
<1>4. n - 1 \in S
  BY <1>1, <1>3
<1>. QED
  BY <1>2, <1>3, <1>4

\* The values of g follow one another: F[i] gives value i from the one before.
Follows(g, m, a, F) == g[0] = a /\ \A i \in 1 .. m : g[i] = F[i][g[i-1]]

\* A function on 0 .. m can be defined from its first value, and each value
\* from the one before.
LEMMA Recursion ==
  ASSUME NEW m \in Nat, NEW S, NEW a \in S, NEW F \in [0 .. m -> [S -> S]]
  PROVE  \E g \in [0 .. m -> S] : Follows(g, m, a, F)
<1>. DEFINE Defined(n, g) == g[0] = a /\ \A i \in 1 .. n : g[i] = F[i][g[i-1]]
            N == {n \in 0 .. m : \E g \in [0 .. n -> S] : Defined(n, g)}
<1>1. 0 \in N
  <2>. DEFINE g == [i \in 0 .. 0 |-> a]
  <2>1. g \in [0 .. 0 -> S] /\ Defined(0, g)
    OBVIOUS
  <2>. HIDE DEF g, Defined
  <2>. QED
    BY <2>1
<1>2. ASSUME NEW n \in 0 .. m, n \in N, n < m PROVE n + 1 \in N
  <2>1. PICK g \in [0 .. n -> S] : Defined(n, g)
    BY <1>2
  <2>2. g[n] \in S /\ n + 1 \in 0 .. m
    BY <1>2
  <2>3. F[n + 1][g[n]] \in S
    BY <2>2
  <2>. DEFINE h == [i \in 0 .. n + 1 |-> IF i = n + 1 THEN F[n + 1][g[n]] ELSE g[i]]
  <2>4. h \in [0 .. n + 1 -> S]
    BY <2>3
  <2>5. /\ \A i \in 0 .. n : h[i] = g[i]
        /\ h[n + 1] = F[n + 1][g[n]]
    OBVIOUS
  <2>. HIDE DEF h
  <2>6. \A i \in 1 .. n + 1 : h[i] = F[i][h[i-1]]
    <3>. SUFFICES ASSUME NEW i \in 1 .. n + 1 PROVE h[i] = F[i][h[i-1]]
      OBVIOUS
    <3>1. CASE i = n + 1
      BY <2>5, <3>1
    <3>2. CASE i # n + 1
      <4>1. i \in 1 .. n /\ i - 1 \in 0 .. n /\ i \in 0 .. n
        BY <3>2
      <4>2. g[i] = F[i][g[i-1]]
        BY <2>1, <4>1
      <4>3. h[i] = g[i] /\ h[i-1] = g[i-1]
        BY <2>5, <4>1
      <4>. QED
        BY <4>2, <4>3
    <3>. QED
      BY <3>1, <3>2
  <2>7. Defined(n + 1, h)
    BY <2>1, <2>5, <2>6
  <2>. QED
    BY <2>2, <2>4, <2>7
<1>. HIDE DEF N
<1>3. 0 .. m \subseteq N
  BY <1>1, <1>2, Induction
<1>. USE DEF N
<1>4. PICK g \in [0 .. m -> S] : Defined(m, g)
  <2>1. m \in N
    BY <1>3
  <2>. QED
    BY <2>1
<1>. QED
  BY <1>4 DEF Follows

-----------------------------------------------------------------------------
(* Functions that, at some points, have the value they have at another     *)
(* point, nearer to the end: R gives the rank of a point.                  *)

\* J[d] is the point that follows d, except where the function is known.
Descends(J, D, known, R, m) ==
  \A d \in D \ known : R[J[d]] < R[d]

\* g has the value V where it is known, or the value of the point that follows.
Chases(g, D, known, V, J) ==
  \A d \in D : g[d] = IF d \in known THEN V[d] ELSE g[J[d]]

\* N holds the points where the function is known, and a point when it holds
\* the one that follows.
Closed(N, D, known, J) ==
  \A d \in D : d \in known \/ J[d] \in N => d \in N

LEMMA RankedInduction ==
  ASSUME NEW D, NEW m \in Nat, NEW R \in [D -> 0 .. m], NEW known, NEW J \in [D -> D],
         Descends(J, D, known, R, m),
         NEW N, Closed(N, D, known, J)
  PROVE  D \subseteq N
<1>. SUFFICES ASSUME D \ N # {} PROVE FALSE
  OBVIOUS
<1>. DEFINE T == {R[d] : d \in D \ N}
<1>1. T \in SUBSET Nat /\ T # {}
  OBVIOUS
<1>. HIDE DEF T
<1>2. PICK n \in T : \A k \in T : n <= k
  BY <1>1, LeastNumber
<1>3. PICK d \in D \ N : R[d] = n
  BY <1>2 DEF T
<1>4. d \notin known /\ J[d] \in D \ N
  BY DEF Closed
<1>5. R[J[d]] < R[d] /\ R[J[d]] \in T /\ R[J[d]] \in Nat /\ R[d] \in Nat
  BY <1>4 DEF Descends, T
<1>. QED
  BY <1>2, <1>3, <1>5

\* Such a function exists.
LEMMA RankedRecursion ==
  ASSUME NEW D, NEW m \in Nat, NEW R \in [D -> 0 .. m], NEW known, NEW J \in [D -> D],
         Descends(J, D, known, R, m),
         NEW S, NEW V \in [D -> S]
  PROVE  \E g \in [D -> S] : Chases(g, D, known, V, J)
<1>. DEFINE next(g) == [d \in D |-> IF d \in known THEN V[d] ELSE g[J[d]]]
            Good(g, n) == \A d \in D : R[d] <= n =>
                            g[d] = IF d \in known THEN V[d] ELSE g[J[d]]
            N == {n \in 0 .. m : \E g \in [D -> S] : Good(g, n)}
<1>1. ASSUME NEW g \in [D -> S] PROVE next(g) \in [D -> S]
  OBVIOUS
<1>2. 0 \in N
  <2>1. next(V) \in [D -> S]
    BY <1>1
  <2>2. ASSUME NEW d \in D, R[d] <= 0 PROVE d \in known
    <3>1. R[d] = 0 /\ R[J[d]] \in Nat
      BY <2>2
    <3>. QED
      BY <3>1 DEF Descends
  <2>3. Good(next(V), 0)
    BY <2>2
  <2>. HIDE DEF Good, next
  <2>. QED
    BY <2>1, <2>3
<1>3. ASSUME NEW n \in 0 .. m, n \in N, n < m PROVE n + 1 \in N
  <2>1. PICK g \in [D -> S] : Good(g, n)
    BY <1>3
  <2>2. ASSUME NEW d \in D, R[d] <= n + 1, d \notin known PROVE next(g)[J[d]] = g[J[d]]
    <3>1. J[d] \in D /\ R[J[d]] <= n
      BY <2>2 DEF Descends
    <3>. QED
      BY <2>1, <3>1
  <2>3. Good(next(g), n + 1)
    BY <2>2
  <2>4. next(g) \in [D -> S]
    BY <1>1
  <2>. HIDE DEF Good, next
  <2>. QED
    BY <1>3, <2>3, <2>4
<1>. HIDE DEF N
<1>4. 0 .. m \subseteq N
  BY <1>2, <1>3, Induction
<1>5. m \in N
  BY <1>4
<1>6. PICK g \in [D -> S] : Good(g, m)
  BY <1>5 DEF N
<1>. QED
  BY <1>6 DEF Chases

-----------------------------------------------------------------------------
(* Sequences put one after the other.                                        *)

\* c[i] is made of the first i sequences of ss.
Concats(c, ss) == c[0] = <<>> /\ \A i \in 1 .. Len(ss) : c[i] = c[i-1] \o ss[i]

\* There is only one such function.
LEMMA ConcatsUnique ==
  ASSUME NEW ss, Len(ss) \in Nat, NEW c, NEW d, Concats(c, ss), Concats(d, ss)
  PROVE  \A i \in 0 .. Len(ss) : c[i] = d[i]
<1>. DEFINE n == Len(ss)
            N == {i \in 0 .. n : c[i] = d[i]}
<1>1. n \in Nat /\ 0 \in N
  BY DEF Concats
<1>2. ASSUME NEW i \in 0 .. n, i \in N, i < n PROVE i + 1 \in N
  <2>. DEFINE k == i + 1
  <2>1. k \in 1 .. n /\ k \in 0 .. n /\ k - 1 = i
    BY <1>1, <1>2
  <2>. HIDE DEF k
  <2>2. c[k] = c[i] \o ss[k] /\ d[k] = d[i] \o ss[k] /\ c[i] = d[i]
    BY <1>2, <2>1 DEF Concats
  <2>3. k \in N
    BY <2>1, <2>2
  <2>. QED
    BY <2>3 DEF k
<1>. HIDE DEF N, n
<1>3. 0 .. n \subseteq N
  BY <1>1, <1>2, Induction
<1>. QED
  BY <1>3 DEF N, n

\* And it gives FlattenSeq its value.
LEMMA Flattened ==
  ASSUME NEW S, NEW ss \in Seq(Seq(S))
  PROVE  \E c \in [0 .. Len(ss) -> Seq(S)] : Concats(c, ss) /\ FlattenSeq(ss) = c[Len(ss)]
<1>. DEFINE n == Len(ss)
            T == Seq(S)
            F == [i \in 0 .. n |-> [x \in T |-> IF i \in 1 .. n THEN x \o ss[i] ELSE x]]
            body(g, i) == IF i = 1 THEN ss[i] ELSE g[i-1] \o ss[i]
            c == CHOOSE g : g = [i \in 1 .. n |-> body(g, i)]
<1>1. n \in Nat /\ (\A i \in 1 .. n : ss[i] \in T) /\ <<>> \in T
  OBVIOUS
<1>2. \A x, y \in T : x \o y \in T
  BY ConcatProperties
<1>. HIDE DEF c, n, T
<1>3. F \in [0 .. n -> [T -> T]]
  BY <1>1, <1>2
<1>4. ASSUME NEW i \in 1 .. n, NEW x \in T PROVE F[i][x] = x \o ss[i]
  <2>1. i \in 0 .. n
    BY <1>1
  <2>2. F[i] = [y \in T |-> IF i \in 1 .. n THEN y \o ss[i] ELSE y]
    BY <2>1
  <2>. HIDE DEF F
  <2>. QED
    BY <2>2
<1>. HIDE DEF F
<1>5. PICK g \in [0 .. n -> T] : Follows(g, n, <<>>, F)
  BY <1>1, <1>3, Recursion
<1>6. g[0] = <<>> /\ \A i \in 1 .. n : g[i] = g[i-1] \o ss[i]
  <2>1. g[0] = <<>> /\ \A i \in 1 .. n : g[i] = F[i][g[i-1]]
    BY <1>5 DEF Follows
  <2>2. \A i \in 1 .. n : g[i-1] \in T
    BY <1>1
  <2>. QED
    BY <1>4, <2>1, <2>2
<1>7. Concats(g, ss)
  BY <1>6 DEF Concats, n
<1>8. CASE n = 0
  <2>1. ss = <<>> /\ FlattenSeq(ss) = ss
    BY <1>8 DEF FlattenSeq, n
  <2>2. g[n] = <<>>
    BY <1>6, <1>8
  <2>. QED
    BY <1>5, <1>7, <2>1, <2>2 DEF n, T
<1>9. CASE n # 0
  <2>1. FlattenSeq(ss) = c[n]
    BY <1>9 DEF FlattenSeq, c, n
  <2>2. 1 \in 1 .. n /\ n \in 1 .. n
    BY <1>1, <1>9
  <2>. DEFINE h == [i \in 1 .. n |-> g[i]]
  <2>3. ASSUME NEW i \in 1 .. n PROVE h[i] = body(h, i)
    <3>1. h[i] = g[i-1] \o ss[i]
      BY <1>6
    <3>2. CASE i = 1
      <4>0. i - 1 = 0
        BY <3>2
      <4>1. h[i] = g[0] \o ss[i]
        BY <3>1, <4>0
      <4>2. <<>> \o ss[i] = ss[i]
        BY <1>1, ConcatEmptySeq DEF T
      <4>. QED
        BY <1>6, <3>2, <4>1, <4>2
    <3>3. CASE i # 1
      <4>. DEFINE k == i - 1
      <4>1. k \in 1 .. n
        BY <1>1, <3>3
      <4>. HIDE DEF k
      <4>2. h[k] = g[k]
        BY <4>1
      <4>. QED
        BY <3>1, <3>3, <4>2 DEF k
    <3>. QED
      BY <3>2, <3>3
  <2>4. \A i \in 1 .. n : c[i] = body(c, i)
    <3>. HIDE DEF body
    <3>1. h = [i \in 1 .. n |-> h[i]]
      OBVIOUS
    <3>. HIDE DEF h
    <3>2. h = [i \in 1 .. n |-> body(h, i)]
      BY <2>3, <3>1
    <3>3. c = [i \in 1 .. n |-> body(c, i)]
      BY <3>2 DEF c
    <3>. QED
      BY <3>3
  <2>. DEFINE d == [i \in 0 .. n |-> IF i = 0 THEN <<>> ELSE c[i]]
  <2>5. ASSUME NEW i \in 1 .. n PROVE d[i] = d[i-1] \o ss[i]
    <3>1. d[i] = body(c, i) /\ i \in Nat /\ i # 0
      BY <1>1, <2>4
    <3>2. CASE i = 1
      <4>1. <<>> \o ss[i] = ss[i]
        BY <1>1, ConcatEmptySeq DEF T
      <4>2. d[i-1] = <<>>
        BY <1>1, <3>2
      <4>. QED
        BY <3>1, <3>2, <4>1, <4>2
    <3>3. CASE i # 1
      <4>1. i - 1 \in 0 .. n /\ i - 1 # 0
        BY <1>1, <3>3
      <4>2. d[i-1] = c[i-1]
        BY <4>1
      <4>. QED
        BY <3>1, <3>3, <4>2
    <3>. QED
      BY <3>2, <3>3
  <2>6. Concats(d, ss) /\ d[n] = c[n]
    <3>1. d[0] = <<>> /\ d[n] = c[n]
      BY <1>1, <1>9
    <3>. HIDE DEF d
    <3>. QED
      BY <2>5, <3>1 DEF Concats, n
  <2>. HIDE DEF d
  <2>7. d[n] = g[n]
    BY <1>1, <1>7, <2>6, ConcatsUnique DEF n
  <2>. QED
    BY <1>7, <2>1, <2>6, <2>7 DEF n, T
<1>. QED
  BY <1>8, <1>9
=============================================================================
