--------------------------- MODULE LineEditProofs ---------------------------
(***************************************************************************)
(* The line editor never leaves the memory of the line, keeps its folds in *)
(* order and the cursor out of them, keeps line breaks out of sight, shows *)
(* the line and its cursor as they are, inserts pastes as they were sent,  *)
(* and implements a text with a cursor.                                    *)
(***************************************************************************)
EXTENDS LineEdit, InductionLemmas

-----------------------------------------------------------------------------
(* The lengths of the grapheme clusters: a cluster is not empty, it is in    *)
(* the text, and all the positions in it are inside a cluster.               *)

\* A joiner follows a character, and there is no flag.
Plain(text) ==
  /\ JoinersFollow(text)
  /\ \A i, j \in DOMAIN text : {text[i], text[j]} \subseteq Regional => i = j

\* q and p are the ends of a cluster, as far as it is known: no cluster ends
\* between them.
Joined(text, q, p) == \A d \in q + 1 .. p - 1 : Inside(text, d)

LEMMA PlainInside ==
  ASSUME NEW C, NEW text \in Seq(C), Plain(text), NEW here \in 1 .. Len(text),
         text[here] # Joiner, text[here + 1] \notin Extending
  PROVE  ~Inside(text, here)
<1>. SUFFICES ASSUME here < Len(text), text[here + 1] \in Regional, HalfFlag(text, here)
              PROVE FALSE
  BY DEF Inside
<1>1. PICK i \in 1 .. here : text[i] \in Regional
  BY DEF HalfFlag
<1>2. i \in DOMAIN text /\ here + 1 \in DOMAIN text /\ i # here + 1
  OBVIOUS
<1>. QED
  BY <1>1, <1>2 DEF Plain

\* The cluster that ends at here.
LEMMA PrevFacts ==
  ASSUME NEW C, NEW text \in Seq(C), NEW here \in 1 .. Len(text)
  PROVE  LET q == here - utf8PrevCharLen(text, here) IN
         /\ utf8PrevCharLen(text, here) \in 1 .. here
         /\ q \in 0 .. here - 1 /\ Joined(text, q, here)
         /\ Plain(text) => q = 0 \/ ~Inside(text, q)
         /\ q = 0 \/ text[q] # Joiner \/ text[q+1] \in Regional
<1>. DEFINE m == Len(text)
            D == 0 .. m
            c == Starts(text)
            known == {i \in D : \/ i = 0
                                \/ text[i] = Joiner /\ i = 1
                                \/ text[i] # Joiner /\ text[i+1] \notin Extending}
            V == [i \in D |-> IF i = 0 \/ text[i] = Joiner THEN 0
                              ELSE IF {text[i], text[i+1]} \subseteq Regional THEN i - 1
                              ELSE i]
            J == [i \in D |-> IF i \in known THEN i
                              ELSE IF text[i] = Joiner THEN i - 2 ELSE i - 1]
            R == [i \in D |-> i]
            P(i) == /\ c[i] \in 0 .. i /\ \A d \in c[i] + 1 .. i : Inside(text, d)
                    /\ Plain(text) => c[i] = 0 \/ ~Inside(text, c[i])
                    /\ c[i] = 0 \/ text[c[i]] # Joiner \/ text[c[i]+1] \in Regional
            N == {i \in D : i < m => P(i)}
<1>1. m \in Nat /\ DOMAIN text = 1 .. m
  OBVIOUS
<1>2. utf8PrevCharLen(text, here) = here - c[here - 1]
  <2>1. here # 0
    BY <1>1
  <2>. QED
    BY <2>1 DEF utf8PrevCharLen
<1>3. R \in [D -> 0 .. m] /\ V \in [D -> Nat]
  BY <1>1
<1>4. J \in [D -> D] /\ \A i \in D \ known : R[J[i]] < R[i]
  BY <1>1
<1>5. ASSUME NEW g, NEW i \in D
      PROVE  Start(text, g, i) = IF i \in known THEN V[i] ELSE g[J[i]]
  BY <1>1, <1>5, GraphemesAssumption DEF Start
<1>. HIDE DEF c, m, J, V, R
<1>6. Descends(J, D, known, R, m)
  BY <1>4 DEF Descends
<1>7. PICK g \in [D -> Nat] : Chases(g, D, known, V, J)
  <2>. HIDE DEF D, known
  <2>. QED
    BY <1>1, <1>3, <1>4, <1>6, RankedRecursion
<1>8. \A i \in D : g[i] = Start(text, g, i)
  <2>. HIDE DEF known
  <2>. QED
    BY <1>5, <1>7 DEF Chases
<1>9. \A i \in D : c[i] = Start(text, c, i)
  <2>1. g = [i \in D |-> g[i]]
    OBVIOUS
  <2>2. g = [i \in D |-> Start(text, g, i)]
    BY <1>8, <2>1
  <2>3. c = [i \in D |-> Start(text, c, i)]
    BY <2>2 DEF c, m, Starts
  <2>. QED
    BY <2>3
<1>10. \A i \in D : c[i] = IF i \in known THEN V[i] ELSE c[J[i]]
  <2>. HIDE DEF known
  <2>. QED
    BY <1>5, <1>9
<1>11. ASSUME NEW i \in D, i \in known \/ J[i] \in N PROVE i \in N
  <2>. SUFFICES ASSUME i < m PROVE P(i)
    OBVIOUS
  <2>1. CASE i \in known
    <3>1. c[i] = V[i]
      BY <1>10, <2>1
    <3>2. CASE i = 0 \/ text[i] = Joiner
      <4>1. c[i] = 0 /\ i \in 0 .. 1 /\ (i = 1 => text[i] = Joiner)
        BY <1>1, <2>1, <3>1, <3>2 DEF V
      <4>2. \A d \in 1 .. i : Inside(text, d)
        BY <1>1, <4>1 DEF Inside, m
      <4>. QED
        BY <4>1, <4>2
    <3>3. CASE ~(i = 0 \/ text[i] = Joiner) /\ {text[i], text[i+1]} \subseteq Regional
      <4>1. c[i] = i - 1 /\ i > 0
        BY <1>1, <3>1, <3>3 DEF V
      <4>2. Inside(text, i)
        <5>1. text[i] \in Regional /\ text[i+1] \in Regional
          BY <3>3
        <5>2. HalfFlag(text, i)
          BY <1>1, <4>1, <5>1 DEF HalfFlag
        <5>. QED
          BY <1>1, <4>1, <5>1, <5>2 DEF Inside, m
      <4>3. ~Plain(text)
        <5>1. i \in 1 .. m /\ i + 1 \in 1 .. m /\ i # i + 1
          BY <1>1, <4>1
        <5>. QED
          BY <1>1, <3>3, <5>1 DEF Plain
      <4>4. text[c[i]+1] \in Regional
        BY <1>1, <3>3, <4>1
      <4>. QED
        BY <1>1, <4>1, <4>2, <4>3, <4>4
    <3>4. CASE ~(i = 0 \/ text[i] = Joiner) /\ ~({text[i], text[i+1]} \subseteq Regional)
      <4>1. c[i] = i /\ i > 0 /\ text[i+1] \notin Extending
        BY <1>1, <2>1, <3>1, <3>4 DEF V
      <4>2. Plain(text) => ~Inside(text, i)
        BY <1>1, <3>4, <4>1, PlainInside DEF m
      <4>3. text[c[i]] # Joiner
        BY <3>4, <4>1
      <4>. QED
        BY <1>1, <4>1, <4>2, <4>3
    <3>. QED
      BY <3>2, <3>3, <3>4
  <2>2. CASE i \notin known
    <3>1. c[i] = c[J[i]] /\ J[i] \in N /\ J[i] < i /\ J[i] \in D
      BY <1>1, <1>4, <1>10, <1>11, <2>2 DEF R
    <3>2. P(J[i])
      <4>1. J[i] < m /\ J[i] \in Nat
        BY <1>1, <3>1
      <4>. HIDE DEF P
      <4>. QED
        BY <3>1, <4>1
    <3>3. \A d \in J[i] + 1 .. i : Inside(text, d)
      <4>1. CASE text[i] = Joiner
        <5>1. J[i] = i - 2 /\ i - 1 \in Nat /\ i > 1
          BY <1>1, <2>2, <4>1 DEF J
        <5>2. Inside(text, i) /\ Inside(text, i - 1)
          BY <1>1, <4>1, <5>1, GraphemesAssumption DEF Inside, m
        <5>. QED
          BY <5>1, <5>2
      <4>2. CASE text[i] # Joiner
        <5>1. J[i] = i - 1 /\ i > 0 /\ text[i+1] \in Extending
          BY <1>1, <2>2, <4>2 DEF J
        <5>2. Inside(text, i)
          BY <1>1, <5>1 DEF Inside, m
        <5>. QED
          BY <5>1, <5>2
      <4>. QED
        BY <4>1, <4>2
    <3>4. \A d \in c[i] + 1 .. i : Inside(text, d)
      BY <3>1, <3>2, <3>3
    <3>. QED
      BY <3>1, <3>2, <3>4
  <2>. QED
    BY <2>1, <2>2
<1>12. D \subseteq N
  <2>. HIDE DEF N, known, D
  <2>1. Closed(N, D, known, J)
    BY <1>11 DEF Closed
  <2>. QED
    BY <1>1, <1>3, <1>4, <1>6, <2>1, RankedInduction
<1>13. here - 1 \in D /\ here - 1 < m
  BY <1>1 DEF m
<1>14. P(here - 1)
  <2>. HIDE DEF P
  <2>. QED
    BY <1>12, <1>13
<1>. DEFINE q == c[here - 1]
<1>15. q \in 0 .. here - 1 /\ Joined(text, q, here)
  BY <1>14 DEF Joined
<1>16. /\ Plain(text) => q = 0 \/ ~Inside(text, q)
       /\ q = 0 \/ text[q] # Joiner \/ text[q+1] \in Regional
  BY <1>14
<1>17. utf8PrevCharLen(text, here) = here - q
  BY <1>2
<1>. HIDE DEF q, P
<1>18. here \in Nat /\ here - (here - q) = q /\ here - q \in 1 .. here
  BY <1>15
<1>. QED
  BY <1>15, <1>16, <1>17, <1>18

\* One more character, or two.
LEMMA PastFacts ==
  ASSUME NEW C, NEW text \in Seq(C), NEW i \in 0 .. Len(text), i < Len(text),
         text[i+1] \in Extending
  PROVE  /\ Past(text, i) \in i + 1 .. Len(text)
         /\ i > 0 => \A d \in i .. Past(text, i) - 1 : Inside(text, d)
         /\ HalfFlag(text, i) => HalfFlag(text, Past(text, i))
         /\ JoinersFollow(text) => Past(text, i) = Len(text) \/ text[Past(text, i)] # Joiner
<1>1. Len(text) \in Nat /\ DOMAIN text = 1 .. Len(text)
  OBVIOUS
<1>2. CASE text[i+1] = Joiner /\ i + 1 < Len(text)
  <2>1. Past(text, i) = i + 2 /\ i + 2 \in i + 1 .. Len(text)
    BY <1>1, <1>2 DEF Past
  <2>2. Inside(text, i + 1) /\ (i > 0 => Inside(text, i))
    BY <1>1, <1>2 DEF Inside
  <2>3. ASSUME HalfFlag(text, i) PROVE HalfFlag(text, i + 2)
    <3>1. PICK k \in 1 .. i :
            /\ text[k] \in Regional
            /\ \A j \in k + 1 .. i : text[j] \in Extending \/ text[j-1] = Joiner
      BY <2>3 DEF HalfFlag
    <3>2. \A j \in k + 1 .. i + 2 : text[j] \in Extending \/ text[j-1] = Joiner
      BY <1>1, <1>2, <3>1
    <3>. QED
      BY <3>1, <3>2 DEF HalfFlag
  <2>4. JoinersFollow(text) => text[i+2] # Joiner
    <3>1. i + 2 \in DOMAIN text /\ i + 2 - 1 = i + 1 /\ text[i+1] = Joiner
      BY <1>1, <1>2
    <3>2. ASSUME JoinersFollow(text) PROVE text[i+2] # Joiner
      <4>1. \A k \in DOMAIN text : text[k] = Joiner => text[k-1] # Joiner
        BY <3>2 DEF JoinersFollow
      <4>. DEFINE k == i + 2
      <4>2. k \in DOMAIN text /\ text[k-1] = Joiner
        BY <3>1
      <4>. HIDE DEF k
      <4>3. text[k] # Joiner
        BY <4>1, <4>2
      <4>. QED
        BY <4>3 DEF k
    <3>. QED
      BY <3>2
  <2>. QED
    BY <2>1, <2>2, <2>3, <2>4
<1>3. CASE ~(text[i+1] = Joiner /\ i + 1 < Len(text))
  <2>1. Past(text, i) = i + 1 /\ i + 1 \in i + 1 .. Len(text)
    BY <1>1, <1>3 DEF Past
  <2>2. i > 0 => Inside(text, i)
    BY <1>1 DEF Inside
  <2>3. ASSUME HalfFlag(text, i) PROVE HalfFlag(text, i + 1)
    <3>1. PICK k \in 1 .. i :
            /\ text[k] \in Regional
            /\ \A j \in k + 1 .. i : text[j] \in Extending \/ text[j-1] = Joiner
      BY <2>3 DEF HalfFlag
    <3>2. \A j \in k + 1 .. i + 1 : text[j] \in Extending \/ text[j-1] = Joiner
      BY <1>1, <3>1
    <3>. QED
      BY <3>1, <3>2 DEF HalfFlag
  <2>4. i + 1 = Len(text) \/ text[i+1] # Joiner
    <3>. SUFFICES ASSUME text[i+1] = Joiner PROVE i + 1 = Len(text)
      OBVIOUS
    <3>. DEFINE m == Len(text)
    <3>1. ~ (i + 1 < m) /\ m \in Nat /\ i \in Nat /\ i < m
      BY <1>1, <1>3
    <3>. HIDE DEF m
    <3>2. i + 1 = m
      BY <3>1
    <3>. QED
      BY <3>2 DEF m
  <2>5. i > 0 => \A d \in i .. i : Inside(text, d)
    BY <1>1, <2>2
  <2>6. i + 1 - 1 = i
    BY <1>1
  <2>. QED
    BY <2>1, <2>3, <2>4, <2>5, <2>6
<1>. QED
  BY <1>2, <1>3

\* What is said of the end e of a cluster that goes at least to i.
Ends(text, i, e) ==
  /\ e \in i .. Len(text)
  /\ i > 0 => \A d \in i .. e - 1 : Inside(text, d)
  /\ Plain(text) /\ i > 0 /\ text[i] # Joiner => e = Len(text) \/ ~Inside(text, e)
  /\ JoinersFollow(text) /\ i > 0 /\ text[i] # Joiner => e = Len(text) \/ text[e] # Joiner

\* The cluster goes on.
LEMMA EndsPast ==
  ASSUME NEW C, NEW text \in Seq(C), NEW i \in 0 .. Len(text), i < Len(text),
         text[i+1] \in Extending, NEW e, Ends(text, Past(text, i), e)
  PROVE  Ends(text, i, e)
<1>. DEFINE n == Past(text, i)
<1>1. n \in i + 1 .. Len(text) /\ n \in Nat /\ Len(text) \in Nat
  BY PastFacts
<1>2. i > 0 => \A d \in i .. n - 1 : Inside(text, d)
  BY PastFacts
<1>3. JoinersFollow(text) => n = Len(text) \/ text[n] # Joiner
  BY PastFacts
<1>4. Plain(text) => JoinersFollow(text)
  BY DEF Plain
<1>. HIDE DEF n
<1>5. Ends(text, n, e)
  BY DEF n
<1>. QED
  BY <1>1, <1>2, <1>3, <1>4, <1>5 DEF Ends

LEMMA ClusterEndFacts ==
  ASSUME NEW C, NEW text \in Seq(C), NEW here \in 0 .. Len(text)
  PROVE  Ends(text, here, ClusterEnd(text, here))
<1>. DEFINE m == Len(text)
            D == 0 .. m
            body(g, i) == IF i < Len(text) /\ text[i+1] \in Extending
                          THEN g[Past(text, i)] ELSE i
            c == CHOOSE g : g = [i \in 0 .. Len(text) |-> body(g, i)]
            known == {i \in D : ~(i < m /\ text[i+1] \in Extending)}
            V == [i \in D |-> i]
            J == [i \in D |-> IF i \in known THEN i ELSE Past(text, i)]
            R == [i \in D |-> m - i]
            N == {i \in D : Ends(text, i, c[i])}
<1>1. m \in Nat /\ DOMAIN text = 1 .. m
  OBVIOUS
<1>2. ClusterEnd(text, here) = c[here]
  BY DEF ClusterEnd
<1>3. R \in [D -> 0 .. m] /\ V \in [D -> Nat]
  BY <1>1
<1>4. J \in [D -> D] /\ \A i \in D \ known : R[J[i]] < R[i]
  <2>1. ASSUME NEW i \in D, i \notin known PROVE Past(text, i) \in i + 1 .. m
    BY <2>1, PastFacts
  <2>. QED
    BY <1>1, <2>1
<1>5. ASSUME NEW g, NEW i \in D
      PROVE  body(g, i) = IF i \in known THEN V[i] ELSE g[J[i]]
  BY <1>1, <1>5
<1>. HIDE DEF c, m, J, V, R
<1>6. Descends(J, D, known, R, m)
  BY <1>4 DEF Descends
<1>7. PICK g \in [D -> Nat] : Chases(g, D, known, V, J)
  <2>. HIDE DEF D, known
  <2>. QED
    BY <1>1, <1>3, <1>4, <1>6, RankedRecursion
<1>8. \A i \in D : g[i] = body(g, i)
  <2>. HIDE DEF body, known
  <2>. QED
    BY <1>5, <1>7 DEF Chases
<1>9. \A i \in D : c[i] = body(c, i)
  <2>. HIDE DEF body
  <2>1. g = [i \in D |-> g[i]]
    OBVIOUS
  <2>2. g = [i \in D |-> body(g, i)]
    BY <1>8, <2>1
  <2>3. c = [i \in D |-> body(c, i)]
    BY <2>2 DEF c, m
  <2>. QED
    BY <2>3
<1>10. ASSUME NEW i \in D, i \in known \/ J[i] \in N PROVE i \in N
  <2>1. CASE i \in known
    <3>1. c[i] = i
      BY <1>9, <2>1 DEF m
    <3>2. i = m \/ text[i+1] \notin Extending
      BY <1>1, <2>1
    <3>3. ASSUME Plain(text), i > 0, text[i] # Joiner PROVE i = m \/ ~Inside(text, i)
      <4>1. i \in 1 .. Len(text)
        BY <3>3 DEF m
      <4>. QED
        BY <3>2, <3>3, <4>1, PlainInside
    <3>4. i \in i .. m /\ \A d \in i .. i - 1 : Inside(text, d)
      BY <1>1
    <3>5. Ends(text, i, i)
      BY <3>3, <3>4 DEF Ends, m
    <3>. QED
      BY <3>1, <3>5
  <2>2. CASE i \notin known
    <3>1. i < m /\ text[i+1] \in Extending /\ J[i] = Past(text, i) /\ J[i] \in N
      BY <1>10, <2>2 DEF J
    <3>2. c[i] = c[J[i]]
      BY <1>9, <3>1 DEF m
    <3>3. Ends(text, Past(text, i), c[i])
      BY <3>1, <3>2
    <3>. QED
      BY <3>1, <3>3, EndsPast DEF m
  <2>. QED
    BY <2>1, <2>2
<1>11. D \subseteq N
  <2>. HIDE DEF N, known, D
  <2>1. Closed(N, D, known, J)
    BY <1>10 DEF Closed
  <2>. QED
    BY <1>1, <1>3, <1>4, <1>6, <2>1, RankedInduction
<1>12. here \in D
  BY DEF m
<1>. QED
  BY <1>2, <1>11, <1>12

LEMMA FlagEndFacts ==
  ASSUME NEW C, NEW text \in Seq(C), NEW here \in 0 .. Len(text), HalfFlag(text, here)
  PROVE  Ends(text, here, FlagEnd(text, here))
<1>. DEFINE m == Len(text)
            D == 0 .. m
            body(g, i) == CASE i < Len(text) /\ text[i+1] \in Extending -> g[Past(text, i)]
                            [] i < Len(text) /\ text[i+1] \in Regional ->
                                 ClusterEnd(text, i + 1)
                            [] OTHER -> i
            c == CHOOSE g : g = [i \in 0 .. Len(text) |-> body(g, i)]
            known == {i \in D : ~(i < m /\ text[i+1] \in Extending)}
            V == [i \in D |-> IF i < m /\ text[i+1] \in Regional
                              THEN ClusterEnd(text, i + 1) ELSE i]
            J == [i \in D |-> IF i \in known THEN i ELSE Past(text, i)]
            R == [i \in D |-> m - i]
            N == {i \in D : HalfFlag(text, i) => Ends(text, i, c[i])}
<1>1. m \in Nat /\ DOMAIN text = 1 .. m
  OBVIOUS
<1>2. FlagEnd(text, here) = c[here]
  BY DEF FlagEnd
<1>3. R \in [D -> 0 .. m] /\ V \in [D -> Nat]
  <2>1. ASSUME NEW i \in D, i < m PROVE ClusterEnd(text, i + 1) \in Nat
    <3>1. i + 1 \in 0 .. Len(text) /\ i + 1 \in Nat
      BY <1>1, <2>1
    <3>2. Ends(text, i + 1, ClusterEnd(text, i + 1))
      BY <3>1, ClusterEndFacts
    <3>. QED
      BY <1>1, <3>1, <3>2 DEF Ends
  <2>. QED
    BY <1>1, <2>1
<1>4. J \in [D -> D] /\ \A i \in D \ known : R[J[i]] < R[i]
  <2>1. ASSUME NEW i \in D, i \notin known PROVE Past(text, i) \in i + 1 .. m
    BY <2>1, PastFacts
  <2>. QED
    BY <1>1, <2>1
<1>5. ASSUME NEW g, NEW i \in D
      PROVE  body(g, i) = IF i \in known THEN V[i] ELSE g[J[i]]
  BY <1>1, <1>5, GraphemesAssumption
<1>. HIDE DEF c, m, J, V, R
<1>6. Descends(J, D, known, R, m)
  BY <1>4 DEF Descends
<1>7. PICK g \in [D -> Nat] : Chases(g, D, known, V, J)
  <2>. HIDE DEF D, known
  <2>. QED
    BY <1>1, <1>3, <1>4, <1>6, RankedRecursion
<1>8. \A i \in D : g[i] = body(g, i)
  <2>. HIDE DEF body, known
  <2>. QED
    BY <1>5, <1>7 DEF Chases
<1>9. \A i \in D : c[i] = body(c, i)
  <2>. HIDE DEF body
  <2>1. g = [i \in D |-> g[i]]
    OBVIOUS
  <2>2. g = [i \in D |-> body(g, i)]
    BY <1>8, <2>1
  <2>3. c = [i \in D |-> body(c, i)]
    BY <2>2 DEF c, m
  <2>. QED
    BY <2>3
<1>10. \A i \in D : c[i] = IF i \in known THEN V[i] ELSE c[J[i]]
  <2>. HIDE DEF body, known
  <2>. QED
    BY <1>5, <1>9
<1>11. ASSUME NEW i \in D, i \in known \/ J[i] \in N PROVE i \in N
  <2>. SUFFICES ASSUME HalfFlag(text, i) PROVE Ends(text, i, c[i])
    OBVIOUS
  <2>0. i > 0
    BY <1>1 DEF HalfFlag
  <2>1. CASE i \in known /\ ~(i < m /\ text[i+1] \in Regional)
    <3>1. c[i] = i
      BY <1>10, <2>1 DEF V
    <3>2. ~Inside(text, i)  \/ text[i] = Joiner
      BY <1>1, <2>1 DEF Inside, m
    <3>3. i \in i .. m /\ \A d \in i .. i - 1 : Inside(text, d)
      BY <1>1
    <3>4. Ends(text, i, i)
      BY <3>2, <3>3 DEF Ends, m
    <3>. QED
      BY <3>1, <3>4
  <2>2. CASE i < m /\ text[i+1] \in Regional
    <3>0. i \in known
      BY <2>2, GraphemesAssumption
    <3>1. c[i] = ClusterEnd(text, i + 1)
      BY <1>10, <2>2, <3>0 DEF V
    <3>2. i + 1 \in 0 .. Len(text) /\ i + 1 \in Nat /\ i + 1 > 0
      BY <1>1, <2>2 DEF m
    <3>3. Ends(text, i + 1, c[i])
      BY <3>1, <3>2, ClusterEndFacts
    <3>4. Inside(text, i)
      BY <1>1, <2>0, <2>2 DEF Inside, m
    <3>5. ~Plain(text)
      <4>1. PICK k \in 1 .. i : text[k] \in Regional
        BY DEF HalfFlag
      <4>2. k \in DOMAIN text /\ i + 1 \in DOMAIN text /\ k # i + 1
        BY <1>1, <2>2
      <4>. QED
        BY <2>2, <4>1, <4>2 DEF Plain
    <3>6. text[i+1] # Joiner
      BY <2>2, GraphemesAssumption
    <3>. QED
      BY <1>1, <3>2, <3>3, <3>4, <3>5, <3>6 DEF Ends
  <2>3. CASE i \notin known
    <3>1. i < m /\ text[i+1] \in Extending /\ J[i] = Past(text, i) /\ J[i] \in N
      BY <1>11, <2>3 DEF J
    <3>2. c[i] = c[J[i]]
      BY <1>10, <2>3
    <3>3. HalfFlag(text, Past(text, i))
      BY <3>1, PastFacts DEF m
    <3>4. Ends(text, Past(text, i), c[i])
      BY <3>1, <3>2, <3>3
    <3>. QED
      BY <3>1, <3>4, EndsPast DEF m
  <2>. QED
    BY <2>1, <2>2, <2>3
<1>12. D \subseteq N
  <2>. HIDE DEF N, known, D
  <2>1. Closed(N, D, known, J)
    BY <1>11 DEF Closed
  <2>. QED
    BY <1>1, <1>3, <1>4, <1>6, <2>1, RankedInduction
<1>13. here \in D
  BY DEF m
<1>. QED
  BY <1>2, <1>12, <1>13

\* The cluster that starts at here.
LEMMA NextFacts ==
  ASSUME NEW C, NEW text \in Seq(C), NEW here \in 0 .. Len(text) - 1
  PROVE  LET e == here + utf8NextCharLen(text, here) IN
         /\ utf8NextCharLen(text, here) \in Nat
         /\ e \in here + 1 .. Len(text) /\ Joined(text, here, e)
         /\ Plain(text) /\ (here = 0 \/ ~Inside(text, here)) =>
              e = Len(text) \/ ~Inside(text, e)
         /\ JoinersFollow(text) /\ (here = 0 \/ ~Inside(text, here)) =>
              e = Len(text) \/ text[e] # Joiner
<1>. DEFINE end == IF text[here+1] \in Regional THEN FlagEnd(text, here + 1)
                   ELSE ClusterEnd(text, here + 1)
<1>1. /\ Len(text) \in Nat /\ here \in Nat /\ here < Len(text) /\ here + 1 > 0
      /\ here + 1 \in 0 .. Len(text) /\ DOMAIN text = 1 .. Len(text)
  OBVIOUS
<1>2. utf8NextCharLen(text, here) = end - here
  BY <1>1 DEF utf8NextCharLen
<1>3. Ends(text, here + 1, end)
  <2>1. CASE text[here+1] \in Regional
    <3>1. HalfFlag(text, here + 1)
      BY <1>1, <2>1 DEF HalfFlag
    <3>. QED
      BY <1>1, <2>1, <3>1, FlagEndFacts
  <2>2. CASE text[here+1] \notin Regional
    <3>1. here + 1 \in 0 .. Len(text)
      BY <1>1
    <3>2. Ends(text, here + 1, ClusterEnd(text, here + 1))
      BY <3>1, ClusterEndFacts
    <3>. QED
      BY <2>2, <3>2
  <2>. QED
    BY <2>1, <2>2
<1>. DEFINE next == here + 1
            Stop == here = 0 \/ ~Inside(text, here)
<1>. HIDE DEF end
<1>4. /\ end \in next .. Len(text)
      /\ \A d \in next .. end - 1 : Inside(text, d)
      /\ Plain(text) /\ text[next] # Joiner => end = Len(text) \/ ~Inside(text, end)
      /\ JoinersFollow(text) /\ text[next] # Joiner => end = Len(text) \/ text[end] # Joiner
  <2>1. next > 0
    BY <1>1
  <2>2. Ends(text, next, end)
    BY <1>3
  <2>. HIDE DEF next
  <2>. QED
    BY <2>1, <2>2 DEF Ends
<1>5. end - here \in Nat /\ here + (end - here) = end
  <2>1. end \in here + 1 .. Len(text)
    BY <1>4
  <2>. QED
    BY <1>1, <2>1
<1>6. ASSUME JoinersFollow(text), Stop PROVE text[next] # Joiner
  <2>1. CASE here = 0
    <3>1. \A k \in DOMAIN text : text[k] = Joiner => k > 1
      BY <1>6 DEF JoinersFollow
    <3>2. here + 1 \in DOMAIN text /\ ~(here + 1 > 1)
      BY <1>1, <2>1
    <3>. QED
      BY <3>1, <3>2
  <2>2. CASE here # 0
    <3>1. 0 < here /\ here < Len(text) /\ text[here+1] \notin Extending
      BY <1>1, <1>6, <2>2 DEF Inside
    <3>. QED
      BY <3>1, GraphemesAssumption
  <2>. QED
    BY <2>1, <2>2
<1>7. Plain(text) /\ Stop => end = Len(text) \/ ~Inside(text, end)
  <2>1. Plain(text) => JoinersFollow(text)
    BY DEF Plain
  <2>. HIDE DEF next, Stop
  <2>. QED
    BY <1>4, <1>6, <2>1
<1>8. JoinersFollow(text) /\ Stop => end = Len(text) \/ text[end] # Joiner
  <2>. HIDE DEF next, Stop
  <2>. QED
    BY <1>4, <1>6
<1>9. Joined(text, here, end)
  BY <1>4 DEF Joined
<1>. QED
  BY <1>2, <1>4, <1>5, <1>7, <1>8, <1>9

-----------------------------------------------------------------------------
(* Going right, then left. *)

\* The positions where the cursor stops, going right.
LEMMA BoundariesFacts ==
  ASSUME NEW C, NEW text \in Seq(C)
  PROVE  /\ Boundaries(text) \subseteq 0 .. Len(text)
         /\ Plain(text) => \A p \in Boundaries(text) : ~Inside(text, p)
         /\ \A p \in Boundaries(text) \ {0} :
              \E q \in Boundaries(text) :
                q # Len(text) /\ p = q + utf8NextCharLen(text, q)
<1>. DEFINE m == Len(text)
            next(p) == p + utf8NextCharLen(text, p)
            body(g, k) == IF k = 0 THEN 0 ELSE next(g[k-1])
            c == CHOOSE g : g = [k \in 0 .. Len(text) |-> body(g, k)]
            S == 0 .. m
            F == [k \in 0 .. m |-> [p \in S |-> next(p)]]
            Stop(p) == p \in S /\ (Plain(text) => ~Inside(text, p))
<1>1. m \in Nat /\ 0 \in S
  OBVIOUS
<1>2. Boundaries(text) = {c[k] : k \in 0 .. m}
  BY DEF Boundaries
<1>3. ASSUME NEW p \in S, p = m PROVE next(p) = p
  BY <1>3 DEF utf8NextCharLen
<1>4. ASSUME NEW p \in S PROVE next(p) \in S /\ (Stop(p) => Stop(next(p)))
  <2>1. CASE p = m
    BY <1>3, <2>1
  <2>2. CASE p # m
    <3>1. p \in 0 .. Len(text) - 1
      BY <1>1, <2>2
    <3>2. /\ next(p) \in p + 1 .. Len(text)
          /\ Plain(text) /\ (p = 0 \/ ~Inside(text, p)) =>
               next(p) = Len(text) \/ ~Inside(text, next(p))
      BY <3>1, NextFacts
    <3>3. ~Inside(text, Len(text))
      BY DEF Inside
    <3>. QED
      BY <1>1, <3>1, <3>2, <3>3
  <2>. QED
    BY <2>1, <2>2
<1>. HIDE DEF c, m, S, next, Stop
<1>5. F \in [0 .. m -> [S -> S]] /\ \A k \in 1 .. m, p \in S : F[k][p] = next(p)
  BY <1>1, <1>4
<1>. HIDE DEF F
<1>6. PICK g \in [0 .. m -> S] : Follows(g, m, 0, F)
  BY <1>1, <1>5, Recursion
<1>7. ASSUME NEW k \in 0 .. m PROVE g[k] = body(g, k)
  <2>1. CASE k = 0
    BY <1>6, <2>1 DEF Follows
  <2>2. CASE k # 0
    <3>1. k \in 1 .. m /\ g[k-1] \in S
      BY <1>1, <2>2
    <3>. QED
      BY <1>5, <1>6, <2>2, <3>1 DEF Follows
  <2>. QED
    BY <2>1, <2>2
<1>8. \A k \in 0 .. m : c[k] = body(c, k)
  <2>. HIDE DEF body
  <2>1. g = [k \in 0 .. m |-> g[k]]
    OBVIOUS
  <2>2. g = [k \in 0 .. m |-> body(g, k)]
    BY <1>7, <2>1
  <2>3. c = [k \in 0 .. m |-> body(c, k)]
    BY <2>2 DEF c, m
  <2>. QED
    BY <2>3
<1>. DEFINE N == {k \in 0 .. m : c[k] \in S /\ Stop(c[k])}
<1>9. 0 \in N
  <2>1. c[0] = 0 /\ ~Inside(text, 0)
    BY <1>1, <1>8 DEF Inside
  <2>. QED
    BY <1>1, <2>1 DEF Stop
<1>10. ASSUME NEW k \in 0 .. m, k \in N, k < m PROVE k + 1 \in N
  <2>1. k + 1 \in 1 .. m /\ k + 1 - 1 = k /\ k + 1 # 0 /\ k + 1 \in 0 .. m
    BY <1>1, <1>10
  <2>2. c[k+1] = next(c[k])
    BY <1>8, <2>1
  <2>. QED
    BY <1>4, <1>10, <2>1, <2>2
<1>. HIDE DEF N
<1>11. 0 .. m \subseteq N
  BY <1>1, <1>9, <1>10, Induction
<1>12. \A k \in 0 .. m : c[k] \in S /\ Stop(c[k])
  BY <1>11 DEF N
<1>13. Boundaries(text) \subseteq 0 .. Len(text)
  BY <1>2, <1>12 DEF S, m
<1>14. Plain(text) => \A p \in Boundaries(text) : ~Inside(text, p)
  BY <1>2, <1>12 DEF Stop
<1>15. ASSUME NEW p \in Boundaries(text) \ {0}
       PROVE  \E q \in Boundaries(text) :
                q # Len(text) /\ p = q + utf8NextCharLen(text, q)
  <2>. DEFINE K == {k \in 0 .. m : c[k] = p}
  <2>1. K \in SUBSET Nat /\ K # {}
    BY <1>2
  <2>2. PICK k \in K : \A j \in K : k <= j
    <3>. HIDE DEF K
    <3>. QED
      BY <2>1, LeastNumber
  <2>3. k \in 0 .. m /\ c[k] = p /\ k # 0
    BY <1>8
  <2>4. k - 1 \in 0 .. m /\ k - 1 < k
    BY <1>1, <2>3
  <2>5. c[k-1] # p
    BY <2>2, <2>4
  <2>6. p = next(c[k-1])
    BY <1>8, <2>3
  <2>7. c[k-1] \in S /\ c[k-1] # m
    BY <1>3, <1>12, <2>4, <2>5, <2>6
  <2>. QED
    BY <1>2, <2>4, <2>6, <2>7 DEF next, m
<1>. QED
  BY <1>13, <1>14, <1>15

\* The cursor goes back to where it comes from.
LEMMA WalkBack ==
  ASSUME NEW C, NEW text \in Seq(C), Plain(text), NEW p \in Boundaries(text) \ {0}
  PROVE  LET q == p - utf8PrevCharLen(text, p) IN
         q \in Boundaries(text) /\ q < p /\ \A r \in Boundaries(text) : r <= q \/ p <= r
<1>. DEFINE q == p - utf8PrevCharLen(text, p)
<1>1. /\ Boundaries(text) \subseteq 0 .. Len(text)
      /\ \A r \in Boundaries(text) : ~Inside(text, r)
  BY BoundariesFacts
<1>2. PICK b \in Boundaries(text) : b # Len(text) /\ p = b + utf8NextCharLen(text, b)
  BY BoundariesFacts
<1>3. p \in 1 .. Len(text) /\ b \in 0 .. Len(text) - 1
  BY <1>1, <1>2
<1>4. b < p /\ Joined(text, b, p)
  BY <1>2, <1>3, NextFacts
<1>5. q \in 0 .. p - 1 /\ Joined(text, q, p) /\ ~Inside(text, q)
  <2>1. ~Inside(text, 0)
    BY DEF Inside
  <2>. QED
    BY <1>3, <2>1, PrevFacts
<1>. HIDE DEF q
<1>6. q = b
  <2>1. ~ (q < b)
    BY <1>1, <1>3, <1>4, <1>5 DEF Joined
  <2>2. ~ (b < q)
    BY <1>3, <1>4, <1>5 DEF Joined
  <2>. QED
    BY <1>3, <1>5, <2>1, <2>2
<1>7. ASSUME NEW r \in Boundaries(text) PROVE r <= q \/ p <= r
  <2>1. r \in 0 .. Len(text) /\ ~Inside(text, r)
    BY <1>1
  <2>. QED
    BY <1>3, <1>5, <2>1 DEF Joined
<1>8. q \in Boundaries(text) /\ q < p
  BY <1>3, <1>5, <1>6
<1>. QED
  BY <1>7, <1>8 DEF q

-----------------------------------------------------------------------------
(* The line editor.                                                          *)

Char == (UNION {ToSet(text) : text \in Recalled}) \cup ToSet(PasteEnd)
          \cup Typed \cup Pasted \cup {NewLine}

Fold == [start : Nat, end : Nat]

\* Every fold is before the next ones: what the order of WellPlaced says of
\* neighbours is said of all the folds.
Ordered(fs) ==
  /\ \A j \in 1 .. Len(fs) : fs[j].start < fs[j].end
  /\ \A j \in 1 .. Len(fs) : \A k \in j + 1 .. Len(fs) : fs[j].end <= fs[k].start

\* The folds are in a text of length n.
Fits(fs, n) == \A j \in 1 .. Len(fs) : fs[j].end <= n

-----------------------------------------------------------------------------
(* Folds. *)

LEMMA ToSetFacts ==
  ASSUME NEW S, NEW s \in Seq(S)
  PROVE  /\ ToSet(s) = {s[j] : j \in 1 .. Len(s)}
         /\ \A j \in 1 .. Len(s) : s[j] \in ToSet(s)
         /\ \A x \in ToSet(s) : x \in S /\ \E j \in 1 .. Len(s) : x = s[j]
<1>1. DOMAIN s = 1 .. Len(s)
  OBVIOUS
<1>. QED
  BY <1>1 DEF ToSet

\* g is made of folds of fs, in the same order: I gives their places in fs.
Picks(g, fs, F, n, I) ==
  /\ g \in Seq(Fold) /\ Len(g) <= n /\ I \in [1 .. Len(g) -> 1 .. n]
  /\ \A j \in 1 .. Len(g) : g[j] = fs[I[j]] /\ g[j] \in F
  /\ \A j \in 1 .. Len(g) : \A k \in j + 1 .. Len(g) : I[j] < I[k]
  /\ \A j \in 1 .. n : fs[j] \in F => \E k \in 1 .. Len(g) : I[k] = j

LEMMA PicksStep ==
  ASSUME NEW fs \in Seq(Fold), NEW F, NEW n \in 1 .. Len(fs), NEW g, NEW I,
         Picks(g, fs, F, n - 1, I)
  PROVE  /\ fs[n] \in F =>
              \E H : Picks(Append(g, fs[n]), fs, F, n, H)
         /\ fs[n] \notin F => Picks(g, fs, F, n, I)
<1>. DEFINE l == Len(g)
<1>1. /\ g \in Seq(Fold) /\ l \in Nat /\ n \in Nat /\ n > 0 /\ l <= n - 1
      /\ I \in [1 .. l -> 1 .. n - 1]
      /\ \A j \in 1 .. l : g[j] = fs[I[j]] /\ g[j] \in F
      /\ \A j \in 1 .. l : \A k \in j + 1 .. l : I[j] < I[k]
      /\ \A j \in 1 .. n - 1 : fs[j] \in F => \E k \in 1 .. l : I[k] = j
  BY DEF Picks
<1>. HIDE DEF l
<1>2. ASSUME fs[n] \in F PROVE \E H : Picks(Append(g, fs[n]), fs, F, n, H)
  <2>. DEFINE H == [j \in 1 .. l + 1 |-> IF j = l + 1 THEN n ELSE I[j]]
              h == Append(g, fs[n])
  <2>1. /\ h \in Seq(Fold) /\ Len(h) = l + 1 /\ h[l+1] = fs[n]
        /\ \A j \in 1 .. l : h[j] = g[j]
    BY <1>1 DEF l
  <2>2. /\ H \in [1 .. l + 1 -> 1 .. n] /\ H[l+1] = n
        /\ \A j \in 1 .. l : H[j] = I[j] /\ H[j] \in 1 .. n - 1
    BY <1>1
  <2>. HIDE DEF H, h
  <2>3. ASSUME NEW j \in 1 .. l + 1 PROVE h[j] = fs[H[j]] /\ h[j] \in F
    <3>1. CASE j = l + 1
      BY <1>2, <2>1, <2>2, <3>1
    <3>2. CASE j # l + 1
      <4>1. j \in 1 .. l
        BY <1>1, <3>2
      <4>. QED
        BY <1>1, <2>1, <2>2, <4>1
    <3>. QED
      BY <3>1, <3>2
  <2>4. ASSUME NEW j \in 1 .. l + 1, NEW k \in j + 1 .. l + 1 PROVE H[j] < H[k]
    <3>0. j \in 1 .. l
      BY <1>1
    <3>1. CASE k = l + 1
      BY <1>1, <2>2, <3>0, <3>1
    <3>2. CASE k # l + 1
      <4>1. k \in j + 1 .. l /\ k \in 1 .. l
        BY <1>1, <3>0, <3>2
      <4>. QED
        BY <1>1, <2>2, <3>0, <4>1
    <3>. QED
      BY <3>1, <3>2
  <2>5. ASSUME NEW j \in 1 .. n, fs[j] \in F PROVE \E k \in 1 .. l + 1 : H[k] = j
    <3>1. CASE j = n
      BY <1>1, <2>2, <3>1
    <3>2. CASE j # n
      <4>1. j \in 1 .. n - 1
        BY <1>1, <3>2
      <4>2. PICK k \in 1 .. l : I[k] = j
        BY <1>1, <2>5, <4>1
      <4>3. k \in 1 .. l + 1 /\ H[k] = j
        BY <1>1, <2>2, <4>2
      <4>. QED
        BY <4>3
    <3>. QED
      BY <3>1, <3>2
  <2>6. Picks(h, fs, F, n, H)
    BY <1>1, <2>1, <2>2, <2>3, <2>4, <2>5 DEF Picks
  <2>. QED
    BY <2>6 DEF h
<1>3. ASSUME fs[n] \notin F PROVE Picks(g, fs, F, n, I)
  <2>1. I \in [1 .. l -> 1 .. n]
    BY <1>1
  <2>2. \A j \in 1 .. n : fs[j] \in F => \E k \in 1 .. l : I[k] = j
    <3>1. \A j \in 1 .. n : fs[j] \in F => j \in 1 .. n - 1
      BY <1>1, <1>3
    <3>. QED
      BY <1>1, <3>1
  <2>. QED
    BY <1>1, <2>1, <2>2 DEF Picks, l
<1>. QED
  BY <1>2, <1>3

LEMMA KeptPicks ==
  ASSUME NEW fs \in Seq(Fold), NEW W
  PROVE  \E I : Picks(Kept(fs, W), fs, W, Len(fs), I)
<1>. DEFINE body(g, j) == CASE j = 0 -> <<>>
                            [] j > 0 /\ fs[j] \in W -> Append(g[j-1], fs[j])
                            [] OTHER -> g[j-1]
            c == CHOOSE g : g = [j \in 0 .. Len(fs) |-> body(g, j)]
            m == Len(fs)
            S == Seq(Fold)
            next(g, j) == IF fs[j] \in W THEN Append(g, fs[j]) ELSE g
            F == [j \in 0 .. m |-> [g \in S |-> IF j > 0 THEN next(g, j) ELSE g]]
<1>1. Kept(fs, W) = c[m]
  BY DEF Kept
<1>2. m \in Nat /\ <<>> \in S
  OBVIOUS
<1>3. \A j \in 1 .. m, g \in S : next(g, j) \in S
  OBVIOUS
<1>. HIDE DEF c, m, S, next
<1>4. F \in [0 .. m -> [S -> S]] /\ \A j \in 1 .. m, g \in S : F[j][g] = next(g, j)
  BY <1>2, <1>3
<1>. HIDE DEF F
<1>5. PICK g \in [0 .. m -> S] : Follows(g, m, <<>>, F)
  BY <1>2, <1>4, Recursion
<1>6. ASSUME NEW j \in 0 .. m PROVE g[j] = body(g, j)
  <2>1. CASE j = 0
    BY <1>5, <2>1 DEF Follows
  <2>2. CASE j # 0
    <3>1. j \in 1 .. m /\ g[j-1] \in S
      BY <1>2, <2>2
    <3>2. g[j] = next(g[j-1], j)
      BY <1>4, <1>5, <3>1 DEF Follows
    <3>. QED
      BY <1>2, <2>2, <3>2 DEF next
  <2>. QED
    BY <2>1, <2>2
<1>7. \A j \in 0 .. m : c[j] = body(c, j)
  <2>. HIDE DEF body
  <2>1. g = [j \in 0 .. m |-> g[j]]
    OBVIOUS
  <2>2. g = [j \in 0 .. m |-> body(g, j)]
    BY <1>6, <2>1
  <2>3. c = [j \in 0 .. m |-> body(c, j)]
    BY <2>2 DEF c, m
  <2>. QED
    BY <2>3
<1>. DEFINE N == {j \in 0 .. m : \E I : Picks(c[j], fs, W, j, I)}
<1>8. 0 \in N
  <2>1. c[0] = <<>>
    BY <1>2, <1>7
  <2>2. Picks(<<>>, fs, W, 0, [j \in 1 .. 0 |-> 0])
    <3>1. <<>> \in Seq(Fold) /\ Len(<<>>) = 0
      OBVIOUS
    <3>2. [j \in 1 .. 0 |-> 0] \in [1 .. 0 -> 1 .. 0]
      OBVIOUS
    <3>. QED
      BY <3>1, <3>2 DEF Picks
  <2>. QED
    BY <1>2, <2>1, <2>2
<1>9. ASSUME NEW j \in 0 .. m, j \in N, j < m PROVE j + 1 \in N
  <2>1. /\ j + 1 \in 1 .. Len(fs) /\ j + 1 - 1 = j /\ j + 1 # 0 /\ j + 1 \in 0 .. m
        /\ j + 1 > 0
    BY <1>2, <1>9 DEF m
  <2>2. c[j+1] = next(c[j], j + 1)
    <3>1. c[j+1] = body(c, j + 1)
      <4>. HIDE DEF body
      <4>. QED
        BY <1>7, <2>1
    <3>. QED
      BY <2>1, <3>1 DEF next
  <2>3. PICK I : Picks(c[j], fs, W, j, I)
    BY <1>9
  <2>. DEFINE k == j + 1
              h == c[j]
  <2>4. k \in 1 .. Len(fs) /\ Picks(h, fs, W, k - 1, I)
    BY <2>1, <2>3
  <2>5. /\ fs[j+1] \in W => \E H : Picks(Append(c[j], fs[j+1]), fs, W, j + 1, H)
        /\ fs[j+1] \notin W => Picks(c[j], fs, W, j + 1, I)
    <3>. HIDE DEF k, h
    <3>1. /\ fs[k] \in W => \E H : Picks(Append(h, fs[k]), fs, W, k, H)
          /\ fs[k] \notin W => Picks(h, fs, W, k, I)
      BY <2>4, PicksStep
    <3>. QED
      BY <3>1 DEF k, h
  <2>6. \E H : Picks(c[j+1], fs, W, j + 1, H)
    BY <2>2, <2>5 DEF next
  <2>. QED
    BY <2>1, <2>6
<1>. HIDE DEF N
<1>10. 0 .. m \subseteq N
  BY <1>2, <1>8, <1>9, Induction
<1>11. \E I : Picks(c[m], fs, W, m, I)
  BY <1>2, <1>10 DEF N
<1>. QED
  BY <1>1, <1>11 DEF m

\* Kept keeps the folds it has to keep, in their order.
LEMMA KeptFacts ==
  ASSUME NEW fs \in Seq(Fold), NEW W
  PROVE  LET g == Kept(fs, W) IN
         /\ g \in Seq(Fold) /\ Len(g) <= Len(fs)
         /\ \A j \in 1 .. Len(g) : g[j] \in W /\ \E k \in 1 .. Len(fs) : g[j] = fs[k]
         /\ \A k \in 1 .. Len(fs) : fs[k] \in W => \E j \in 1 .. Len(g) : g[j] = fs[k]
         /\ Ordered(fs) => Ordered(g)
<1>. DEFINE g == Kept(fs, W)
<1>. HIDE DEF g
<1>1. PICK I : Picks(g, fs, W, Len(fs), I)
  BY KeptPicks DEF g
<1>2. /\ g \in Seq(Fold) /\ Len(g) <= Len(fs) /\ I \in [1 .. Len(g) -> 1 .. Len(fs)]
      /\ \A j \in 1 .. Len(g) : g[j] = fs[I[j]] /\ g[j] \in W
      /\ \A j \in 1 .. Len(g) : \A k \in j + 1 .. Len(g) : I[j] < I[k]
      /\ \A j \in 1 .. Len(fs) : fs[j] \in W => \E k \in 1 .. Len(g) : I[k] = j
  BY <1>1 DEF Picks
<1>3. ASSUME NEW k \in 1 .. Len(fs), fs[k] \in W PROVE \E j \in 1 .. Len(g) : g[j] = fs[k]
  BY <1>2, <1>3
<1>4. ASSUME Ordered(fs) PROVE Ordered(g)
  <2>1. ASSUME NEW j \in 1 .. Len(g) PROVE g[j].start < g[j].end
    BY <1>2, <1>4 DEF Ordered
  <2>2. ASSUME NEW j \in 1 .. Len(g), NEW k \in j + 1 .. Len(g)
        PROVE  g[j].end <= g[k].start
    <3>1. k \in 1 .. Len(g) /\ I[j] < I[k] /\ I[j] \in 1 .. Len(fs) /\ I[k] \in 1 .. Len(fs)
      BY <1>2
    <3>2. I[k] \in I[j] + 1 .. Len(fs)
      BY <3>1
    <3>3. fs[I[j]].end <= fs[I[k]].start
      BY <1>4, <3>1, <3>2 DEF Ordered
    <3>. QED
      BY <1>2, <3>1, <3>3
  <2>. QED
    BY <2>1, <2>2 DEF Ordered
<1>. QED
  BY <1>2, <1>3, <1>4 DEF g
LEMMA FoldFacts ==
  ASSUME NEW fs \in Seq(Fold)
  PROVE  /\ Len(fs) \in Nat
         /\ \A j \in 1 .. Len(fs) : /\ fs[j] \in Fold
                                   /\ fs[j].start \in Nat /\ fs[j].end \in Nat
<1>1. \A f \in Fold : f.start \in Nat /\ f.end \in Nat
  BY DEF Fold
<1>2. Len(fs) \in Nat /\ \A j \in 1 .. Len(fs) : fs[j] \in Fold
  OBVIOUS
<1>. QED
  BY <1>1, <1>2

LEMMA Concatenation ==
  ASSUME NEW S, NEW a \in Seq(S), NEW b \in Seq(S),
         NEW n \in Nat, NEW r \in Nat, Len(a) = n, Len(b) = r
  PROVE  /\ a \o b \in Seq(S) /\ Len(a \o b) = n + r
         /\ \A j \in 1 .. n : (a \o b)[j] = a[j]
         /\ \A j \in n + 1 .. n + r : (a \o b)[j] = b[j - n]
  OBVIOUS

\* g is s with x after its first at elements.
Inserted(g, s, x, at, m, S) ==
  /\ g \in Seq(S) /\ Len(g) = m + 1 /\ g[at+1] = x
  /\ \A j \in 1 .. at : g[j] = s[j]
  /\ \A j \in at + 2 .. m + 1 : g[j] = s[j-1]

LEMMA Insertion ==
  ASSUME NEW S, NEW s \in Seq(S), NEW x \in S, NEW m \in Nat, m = Len(s), NEW at \in 0 .. m
  PROVE  Inserted(SubSeq(s, 1, at) \o <<x>> \o SubSeq(s, at + 1, m), s, x, at, m, S)
<1>. DEFINE a == SubSeq(s, 1, at)
            p == a \o <<x>>
            k == at + 1
            r == m - at
            b == SubSeq(s, k, m)
            g == p \o b
<1>1. a \in Seq(S) /\ Len(a) = at /\ \A j \in 1 .. at : a[j] = s[j]
  OBVIOUS
<1>2. b \in Seq(S) /\ Len(b) = r /\ r \in Nat /\ k + r = m + 1 /\ \A j \in 1 .. r : b[j] = s[at + j]
  OBVIOUS
<1>. HIDE DEF a, b, r
<1>3. p \in Seq(S) /\ Len(p) = k /\ p[k] = x /\ (\A j \in 1 .. at : p[j] = a[j]) /\ k \in Nat
  BY <1>1
<1>. HIDE DEF p, k
<1>4. /\ g \in Seq(S) /\ Len(g) = k + r
      /\ \A j \in 1 .. k : g[j] = p[j]
      /\ \A j \in k + 1 .. k + r : g[j] = b[j - k]
  BY <1>2, <1>3, Concatenation
<1>. HIDE DEF g
<1>5. g[k] = x /\ \A j \in 1 .. at : g[j] = s[j]
  BY <1>1, <1>3, <1>4 DEF k
<1>6. ASSUME NEW j \in at + 2 .. m + 1 PROVE g[j] = s[j-1]
  <2>1. j \in k + 1 .. k + r /\ j - k \in 1 .. r /\ at + (j - k) = j - 1
    BY <1>2, <1>3 DEF k
  <2>. QED
    BY <1>2, <1>4, <2>1
<1>. QED
  BY <1>2, <1>4, <1>5, <1>6 DEF g, p, a, b, k, Inserted

\* Where linenoiseFoldAdd puts a fold: there is such a place.
LEMMA FoldPlace ==
  ASSUME NEW fs \in Seq(Fold), NEW start \in Nat
  PROVE  \E j \in 0 .. Len(fs) : /\ j = 0 \/ fs[j].start <= start
                                 /\ \A k \in j + 1 .. Len(fs) : start < fs[k].start
<1>. DEFINE m == Len(fs)
            T == {j \in 0 .. m : \A k \in j + 1 .. m : start < fs[k].start}
<1>1. m \in Nat /\ (\A j \in 1 .. m : fs[j].start \in Nat)
  BY FoldFacts
<1>. HIDE DEF m
<1>2. T \in SUBSET Nat /\ m \in T
  BY <1>1
<1>3. PICK j \in T : \A n \in T : j <= n
  BY <1>2, LeastNumber
<1>4. j \in 0 .. m /\ (\A k \in j + 1 .. m : start < fs[k].start)
  BY <1>3
<1>5. ASSUME j # 0, ~ (fs[j].start <= start) PROVE FALSE
  <2>1. j - 1 \in 0 .. m /\ j \in 1 .. m
    BY <1>1, <1>4, <1>5
  <2>2. ASSUME NEW k \in j - 1 + 1 .. m PROVE start < fs[k].start
    <3>1. CASE k = j
      BY <1>1, <1>5, <2>1, <3>1
    <3>2. CASE k # j
      <4>1. k \in j + 1 .. m
        BY <1>1, <2>1, <3>2
      <4>. QED
        BY <1>4, <4>1
    <3>. QED
      BY <3>1, <3>2
  <2>3. j - 1 \in T
    BY <2>1, <2>2
  <2>4. j <= j - 1
    BY <1>3, <2>3
  <2>. QED
    BY <1>1, <2>1, <2>4
<1>. HIDE DEF T
<1>6. \E i \in 0 .. m : (i = 0 \/ fs[i].start <= start) /\ (\A k \in i + 1 .. m : start < fs[k].start)
  BY <1>4, <1>5
<1>. QED
  BY <1>6 DEF m

\* A new fold that meets no other one is put in its place.
LEMMA FoldAddFacts ==
  ASSUME NEW fs \in Seq(Fold), NEW start \in Nat, NEW end \in Nat,
         Ordered(fs), Len(fs) <= MaxFolds,
         \A j \in 1 .. Len(fs) : fs[j].end <= start \/ end <= fs[j].start
  PROVE  LET g == linenoiseFoldAdd(fs, start, end) IN
         /\ g \in Seq(Fold) /\ Len(g) <= MaxFolds /\ Ordered(g)
         /\ \A j \in 1 .. Len(g) : \/ g[j] = Range2(start, end)
                                   \/ \E k \in 1 .. Len(fs) : g[j] = fs[k]
         /\ \A k \in 1 .. Len(fs) : \E j \in 1 .. Len(g) : g[j] = fs[k]
         /\ start < end /\ Len(fs) < MaxFolds =>
              \E j \in 1 .. Len(g) : g[j] = Range2(start, end)
<1>. DEFINE x == Range2(start, end)
            Place(j) == /\ j = 0 \/ fs[j].start <= start
                        /\ \A k \in j + 1 .. Len(fs) : start < fs[k].start
            at == CHOOSE j \in 0 .. Len(fs) : Place(j)
            g  == SubSeq(fs, 1, at) \o <<x>> \o SubSeq(fs, at + 1, Len(fs))
            m  == Len(fs)
<1>1. CASE start >= end \/ Len(fs) = MaxFolds
  <2>1. linenoiseFoldAdd(fs, start, end) = fs
    BY <1>1 DEF linenoiseFoldAdd
  <2>2. ~ (start < end /\ Len(fs) < MaxFolds)
    BY <1>1, FoldFacts, FoldsAssumption
  <2>. QED
    BY <2>1, <2>2
<1>2. CASE ~ (start >= end \/ Len(fs) = MaxFolds)
  <2>1. linenoiseFoldAdd(fs, start, end) = g
    BY <1>2 DEF linenoiseFoldAdd
  <2>2. at \in 0 .. m /\ Place(at)
    <3>1. \E j \in 0 .. Len(fs) : Place(j)
      BY FoldPlace
    <3>. HIDE DEF Place
    <3>. QED
      BY <3>1
  <2>3. /\ x \in Fold /\ x.start = start /\ x.end = end /\ start < end
        /\ m \in Nat /\ m + 1 <= MaxFolds
    BY <1>2, FoldsAssumption DEF Fold, Range2
  <2>4. \A j \in 1 .. m : fs[j] \in Fold /\ fs[j].start \in Nat /\ fs[j].end \in Nat
    BY FoldFacts
  <2>. HIDE DEF at, x
  <2>5. /\ g \in Seq(Fold) /\ Len(g) = m + 1 /\ g[at+1] = x
        /\ \A j \in 1 .. at : g[j] = fs[j]
        /\ \A j \in at + 2 .. m + 1 : g[j] = fs[j-1]
    <3>1. at \in 0 .. m /\ m = Len(fs)
      BY <2>2
    <3>2. g = SubSeq(fs, 1, at) \o <<x>> \o SubSeq(fs, at + 1, m)
      OBVIOUS
    <3>. HIDE DEF m, g, Place
    <3>3. Inserted(SubSeq(fs, 1, at) \o <<x>> \o SubSeq(fs, at + 1, m), fs, x, at, m, Fold)
      BY <2>3, <3>1, Insertion
    <3>4. Inserted(g, fs, x, at, m, Fold)
      BY <3>2, <3>3
    <3>. QED
      BY <3>4 DEF Inserted
  <2>6. \A j \in 1 .. m : \A k \in j + 1 .. m : fs[j].end <= fs[k].start
    BY DEF Ordered
  <2>7. \A j \in 1 .. m : fs[j].start < fs[j].end
    BY DEF Ordered
  <2>8. ASSUME NEW j \in 1 .. at PROVE fs[j].end <= start
    <3>1. j \in 1 .. m /\ at \in 1 .. m /\ fs[at].start <= start
      BY <2>2, <2>3
    <3>2. fs[at].end <= start
      BY <2>3, <2>4, <3>1
    <3>3. CASE j # at
      <4>1. at \in j + 1 .. m
        BY <2>3, <3>1, <3>3
      <4>2. fs[j].end <= fs[at].start
        BY <2>6, <3>1, <4>1
      <4>. QED
        BY <2>4, <3>1, <4>2
    <3>. QED
      BY <3>2, <3>3
  <2>9. ASSUME NEW j \in at + 1 .. m PROVE end <= fs[j].start
    <3>1. j \in 1 .. m /\ start < fs[j].start
      BY <2>2, <2>3
    <3>. QED
      BY <2>4, <2>7, <3>1
  <2>. HIDE DEF g, m, Place
  <2>10. ASSUME NEW j \in 1 .. m + 1
         PROVE  /\ j <= at => g[j] = fs[j] /\ j \in 1 .. m
                /\ j = at + 1 => g[j] = x
                /\ j > at + 1 => g[j] = fs[j-1] /\ j - 1 \in 1 .. m
                /\ j <= at \/ j = at + 1 \/ j > at + 1
    BY <2>2, <2>3, <2>5
  <2>11. ASSUME NEW j \in 1 .. m + 1 PROVE g[j].start < g[j].end
    BY <2>3, <2>7, <2>10
  <2>12. ASSUME NEW j \in 1 .. m + 1, NEW k \in j + 1 .. m + 1
         PROVE  g[j].end <= g[k].start
    <3>1. j < k /\ k \in 1 .. m + 1 /\ at \in Nat /\ j \in Nat /\ k \in Nat
      BY <2>2, <2>3
    <3>2. CASE j <= at /\ k <= at
      <4>1. k \in j + 1 .. m /\ j \in 1 .. m
        BY <2>2, <2>3, <3>1, <3>2
      <4>. QED
        BY <2>6, <2>10, <3>1, <3>2, <4>1
    <3>3. CASE j <= at /\ k = at + 1
      BY <2>3, <2>8, <2>10, <3>1, <3>3
    <3>4. CASE j <= at /\ k > at + 1
      <4>1. k - 1 \in at + 1 .. m /\ k - 1 \in 1 .. m /\ j \in 1 .. at /\ j \in 1 .. m
        BY <2>2, <2>3, <3>1, <3>4
      <4>2. fs[j].end <= start /\ end <= fs[k-1].start
        BY <2>8, <2>9, <4>1
      <4>3. fs[j].end <= fs[k-1].start
        BY <2>3, <2>4, <4>1, <4>2
      <4>. QED
        BY <2>10, <3>1, <3>4, <4>3
    <3>5. CASE j = at + 1
      <4>1. k - 1 \in at + 1 .. m /\ k > at + 1
        BY <2>2, <2>3, <3>1, <3>5
      <4>2. end <= fs[k-1].start
        BY <2>9, <4>1
      <4>. QED
        BY <2>3, <2>10, <3>1, <3>5, <4>1, <4>2
    <3>6. CASE j > at + 1
      <4>1. j - 1 \in 1 .. m /\ k - 1 \in j - 1 + 1 .. m /\ k > at + 1
        BY <2>2, <2>3, <3>1, <3>6
      <4>2. fs[j-1].end <= fs[k-1].start
        BY <2>6, <4>1
      <4>. QED
        BY <2>10, <3>1, <3>6, <4>1, <4>2
    <3>. QED
      BY <3>1, <3>2, <3>3, <3>4, <3>5, <3>6
  <2>13. Ordered(g)
    BY <2>5, <2>11, <2>12 DEF Ordered
  <2>14. \A j \in 1 .. Len(g) : g[j] = x \/ \E k \in 1 .. m : g[j] = fs[k]
    BY <2>5, <2>10
  <2>15. ASSUME NEW k \in 1 .. m PROVE \E j \in 1 .. Len(g) : g[j] = fs[k]
    <3>1. CASE k <= at
      <4>1. k \in 1 .. at /\ k \in 1 .. Len(g)
        BY <2>2, <2>3, <2>5, <3>1
      <4>. QED
        BY <2>5, <4>1
    <3>2. CASE ~ (k <= at)
      <4>1. k + 1 \in at + 2 .. m + 1 /\ k + 1 \in 1 .. Len(g) /\ k + 1 - 1 = k
        BY <2>2, <2>3, <2>5, <3>2
      <4>2. g[k+1] = fs[k]
        BY <2>5, <4>1
      <4>. QED
        BY <4>1, <4>2
    <3>. QED
      BY <3>1, <3>2
  <2>16. at + 1 \in 1 .. Len(g)
    BY <2>2, <2>3, <2>5
  <2>. QED
    BY <2>1, <2>3, <2>5, <2>13, <2>14, <2>15, <2>16 DEF m, x
<1>. QED
  BY <1>1, <1>2
\* The folds that are left after an insertion: before or after the new text.
LEMMA AdjustInsertFacts ==
  ASSUME NEW fs \in Seq(Fold), Ordered(fs), NEW at \in Nat, NEW n \in Nat, NEW m \in Nat,
         Fits(fs, m), at <= m
  PROVE  LET g == linenoiseAdjustFoldsAfterInsert(fs, at, n) IN
         /\ g \in Seq(Fold) /\ Len(g) <= Len(fs) /\ Ordered(g) /\ Fits(g, m + n)
         /\ \A j \in 1 .. Len(g) : g[j].end <= at \/ at + n <= g[j].start
         /\ \A i \in 1 .. Len(fs) :
              ~ (fs[i].start < at /\ at < fs[i].end) =>
                \E j \in 1 .. Len(g) :
                  IF at <= fs[i].start
                  THEN g[j].start = fs[i].start + n /\ g[j].end = fs[i].end + n
                  ELSE g[j].start = fs[i].start /\ g[j].end = fs[i].end
<1>. DEFINE W == {f \in ToSet(fs) : ~ (f.start < at /\ at < f.end)}
            k == Kept(fs, W)
            l == Len(k)
            new(f) == IF at <= f.start THEN Shift(f, n) ELSE f
            g == [j \in DOMAIN k |-> new(k[j])]
<1>1. linenoiseAdjustFoldsAfterInsert(fs, at, n) = g
  BY DEF linenoiseAdjustFoldsAfterInsert
<1>2. /\ k \in Seq(Fold) /\ l <= Len(fs) /\ Ordered(k) /\ l \in Nat
      /\ \A j \in 1 .. l : k[j] \in W /\ \E i \in 1 .. Len(fs) : k[j] = fs[i]
  <2>. HIDE DEF W
  <2>. QED
    BY KeptFacts, FoldFacts
<1>3. \A f \in W : ~ (f.start < at /\ at < f.end)
  OBVIOUS
<1>9. ASSUME NEW i \in 1 .. Len(fs), ~ (fs[i].start < at /\ at < fs[i].end)
      PROVE  \E j \in 1 .. l : k[j] = fs[i]
  <2>1. fs[i] \in W
    BY <1>9, ToSetFacts
  <2>. HIDE DEF W
  <2>. QED
    BY <2>1, KeptFacts
<1>. HIDE DEF W, k
<1>4. ASSUME NEW j \in 1 .. l
      PROVE  /\ k[j] \in Fold /\ k[j].start \in Nat /\ k[j].end \in Nat
             /\ k[j].end <= m /\ k[j].start < k[j].end
             /\ ~ (k[j].start < at /\ at < k[j].end)
             /\ new(k[j]) \in Fold
             /\ at <= k[j].start =>
                  new(k[j]).start = k[j].start + n /\ new(k[j]).end = k[j].end + n
             /\ ~ (at <= k[j].start) => new(k[j]) = k[j]
  <2>1. k[j] \in Fold /\ k[j].start \in Nat /\ k[j].end \in Nat
    BY <1>2, FoldFacts
  <2>2. k[j].end <= m
    BY <1>2 DEF Fits
  <2>3. k[j].start < k[j].end
    BY <1>2 DEF Ordered
  <2>4. ~ (k[j].start < at /\ at < k[j].end)
    BY <1>2, <1>3
  <2>. DEFINE f == k[j]
  <2>. HIDE DEF f
  <2>5. f \in Fold /\ f.start \in Nat /\ f.end \in Nat
    BY <2>1 DEF f
  <2>6. /\ Shift(f, n) \in Fold /\ Shift(f, n).start = f.start + n
        /\ Shift(f, n).end = f.end + n
    BY <2>5 DEF Shift, Range2, Fold
  <2>7. /\ new(f) \in Fold
        /\ at <= f.start => new(f).start = f.start + n /\ new(f).end = f.end + n
        /\ ~ (at <= f.start) => new(f) = f
    BY <2>5, <2>6
  <2>. QED
    BY <2>1, <2>2, <2>3, <2>4, <2>7 DEF f
<1>. HIDE DEF new
<1>5. g \in Seq(Fold) /\ Len(g) = l /\ \A j \in 1 .. l : g[j] = new(k[j])
  <2>1. DOMAIN k = 1 .. l /\ \A j \in 1 .. l : new(k[j]) \in Fold
    BY <1>2, <1>4
  <2>. HIDE DEF l
  <2>2. g \in [1 .. l -> Fold] /\ \A j \in 1 .. l : g[j] = new(k[j])
    BY <2>1
  <2>. HIDE DEF g
  <2>. QED
    BY <1>2, <2>2
<1>. HIDE DEF g, l
<1>6. ASSUME NEW j \in 1 .. l
      PROVE  /\ at <= k[j].start => g[j].start = k[j].start + n /\ g[j].end = k[j].end + n
             /\ ~ (at <= k[j].start) => g[j].start = k[j].start /\ g[j].end = k[j].end
             /\ k[j].start \in Nat /\ k[j].end \in Nat
             /\ k[j].end <= m /\ k[j].start < k[j].end
             /\ ~ (k[j].start < at /\ at < k[j].end)
  BY <1>4, <1>5
<1>7. ASSUME NEW j \in 1 .. l
      PROVE  /\ g[j].start < g[j].end /\ g[j].end <= m + n
             /\ g[j].end <= at \/ at + n <= g[j].start
  <2>1. CASE at <= k[j].start
    <3>. DEFINE a == k[j].start
                b == k[j].end
    <3>1. /\ g[j].start = a + n /\ g[j].end = b + n
          /\ a \in Nat /\ b \in Nat /\ b <= m /\ a < b /\ at <= a
      BY <1>6, <2>1
    <3>. HIDE DEF a, b
    <3>2. a + n < b + n /\ b + n <= m + n /\ at + n <= a + n
      BY <3>1
    <3>. QED
      BY <3>1, <3>2
  <2>2. CASE ~ (at <= k[j].start)
    BY <1>6, <2>2
  <2>. QED
    BY <2>1, <2>2
<1>8. ASSUME NEW j \in 1 .. l, NEW i \in j + 1 .. l PROVE g[j].end <= g[i].start
  <2>1. i \in 1 .. l /\ k[j].end <= k[i].start
    <3>1. i \in 1 .. l
      BY <1>2
    <3>. QED
      BY <1>2, <3>1, SMTT(30) DEF Ordered, l
  <2>2. CASE at <= k[j].start
    <3>1. at <= k[i].start
      BY <1>6, <2>1, <2>2
    <3>. QED
      BY <1>6, <2>1, <2>2, <3>1
  <2>3. CASE ~ (at <= k[j].start) /\ at <= k[i].start
    BY <1>6, <2>1, <2>3
  <2>4. CASE ~ (at <= k[j].start) /\ ~ (at <= k[i].start)
    BY <1>6, <2>1, <2>4
  <2>. QED
    BY <2>2, <2>3, <2>4
<1>10. ASSUME NEW i \in 1 .. Len(fs), ~ (fs[i].start < at /\ at < fs[i].end)
       PROVE  \E j \in 1 .. Len(g) :
                IF at <= fs[i].start
                THEN g[j].start = fs[i].start + n /\ g[j].end = fs[i].end + n
                ELSE g[j].start = fs[i].start /\ g[j].end = fs[i].end
  <2>1. PICK j \in 1 .. l : k[j] = fs[i]
    BY <1>9, <1>10
  <2>. QED
    BY <1>5, <1>6, <2>1
<1>11. g \in Seq(Fold) /\ Len(g) <= Len(fs) /\ Len(g) = l
  BY <1>2, <1>5
<1>12. Ordered(g) /\ Fits(g, m + n)
  BY <1>7, <1>8, <1>11 DEF Ordered, Fits
<1>. QED
  BY <1>1, <1>7, <1>10, <1>11, <1>12 DEF g

\* The folds that are left after a deletion: before or after its place.
LEMMA AdjustDeleteFacts ==
  ASSUME NEW fs \in Seq(Fold), Ordered(fs), NEW at \in Nat, NEW n \in Nat, NEW m \in Nat,
         Fits(fs, m), at + n <= m
  PROVE  LET g == linenoiseAdjustFoldsAfterDelete(fs, at, n) IN
         /\ g \in Seq(Fold) /\ Len(g) <= Len(fs) /\ Ordered(g) /\ Fits(g, m - n)
         /\ \A j \in 1 .. Len(g) : g[j].end <= at \/ at <= g[j].start
         /\ \A i \in 1 .. Len(fs) :
              at + n <= fs[i].start \/ at >= fs[i].end =>
                \E j \in 1 .. Len(g) :
                  IF at + n <= fs[i].start
                  THEN g[j].start = fs[i].start - n /\ g[j].end = fs[i].end - n
                  ELSE g[j].start = fs[i].start /\ g[j].end = fs[i].end
<1>. DEFINE W == {f \in ToSet(fs) : at + n <= f.start \/ at >= f.end}
            k == Kept(fs, W)
            l == Len(k)
            new(f) == IF at + n <= f.start THEN Range2(f.start - n, f.end - n) ELSE f
            g == [j \in DOMAIN k |-> new(k[j])]
<1>1. linenoiseAdjustFoldsAfterDelete(fs, at, n) = g
  BY DEF linenoiseAdjustFoldsAfterDelete
<1>2. /\ k \in Seq(Fold) /\ l <= Len(fs) /\ Ordered(k) /\ l \in Nat
      /\ \A j \in 1 .. l : k[j] \in W /\ \E i \in 1 .. Len(fs) : k[j] = fs[i]
  <2>. HIDE DEF W
  <2>. QED
    BY KeptFacts, FoldFacts
<1>3. \A f \in W : at + n <= f.start \/ at >= f.end
  OBVIOUS
<1>9. ASSUME NEW i \in 1 .. Len(fs), at + n <= fs[i].start \/ at >= fs[i].end
      PROVE  \E j \in 1 .. l : k[j] = fs[i]
  <2>1. fs[i] \in W
    BY <1>9, ToSetFacts
  <2>. HIDE DEF W
  <2>. QED
    BY <2>1, KeptFacts
<1>. HIDE DEF W, k
<1>4. ASSUME NEW j \in 1 .. l
      PROVE  /\ k[j] \in Fold /\ k[j].start \in Nat /\ k[j].end \in Nat
             /\ k[j].end <= m /\ k[j].start < k[j].end
             /\ at + n <= k[j].start \/ at >= k[j].end
             /\ new(k[j]) \in Fold
             /\ at + n <= k[j].start =>
                  new(k[j]).start = k[j].start - n /\ new(k[j]).end = k[j].end - n
             /\ ~ (at + n <= k[j].start) => new(k[j]) = k[j]
  <2>1. k[j] \in Fold /\ k[j].start \in Nat /\ k[j].end \in Nat
    BY <1>2, FoldFacts
  <2>2. k[j].end <= m
    BY <1>2 DEF Fits
  <2>3. k[j].start < k[j].end
    BY <1>2 DEF Ordered
  <2>4. at + n <= k[j].start \/ at >= k[j].end
    BY <1>2, <1>3
  <2>. DEFINE f == k[j]
              r == Range2(f.start - n, f.end - n)
  <2>. HIDE DEF f
  <2>5. f \in Fold /\ f.start \in Nat /\ f.end \in Nat /\ f.start < f.end
    BY <2>1, <2>3 DEF f
  <2>6. at + n <= f.start => r \in Fold /\ r.start = f.start - n /\ r.end = f.end - n
    BY <2>5 DEF Range2, Fold
  <2>7. /\ new(f) \in Fold
        /\ at + n <= f.start => new(f).start = f.start - n /\ new(f).end = f.end - n
        /\ ~ (at + n <= f.start) => new(f) = f
    BY <2>5, <2>6
  <2>. QED
    BY <2>1, <2>2, <2>3, <2>4, <2>7 DEF f
<1>. HIDE DEF new
<1>5. g \in Seq(Fold) /\ Len(g) = l /\ \A j \in 1 .. l : g[j] = new(k[j])
  <2>1. DOMAIN k = 1 .. l /\ \A j \in 1 .. l : new(k[j]) \in Fold
    BY <1>2, <1>4
  <2>. HIDE DEF l
  <2>2. g \in [1 .. l -> Fold] /\ \A j \in 1 .. l : g[j] = new(k[j])
    BY <2>1
  <2>. HIDE DEF g
  <2>. QED
    BY <1>2, <2>2
<1>. HIDE DEF g, l
<1>6. ASSUME NEW j \in 1 .. l
      PROVE  /\ at + n <= k[j].start => g[j].start = k[j].start - n /\ g[j].end = k[j].end - n
             /\ ~ (at + n <= k[j].start) => g[j].start = k[j].start /\ g[j].end = k[j].end
             /\ k[j].start \in Nat /\ k[j].end \in Nat
             /\ k[j].end <= m /\ k[j].start < k[j].end
             /\ at + n <= k[j].start \/ at >= k[j].end
  BY <1>4, <1>5
<1>7. ASSUME NEW j \in 1 .. l
      PROVE  /\ g[j].start < g[j].end /\ g[j].end <= m - n
             /\ g[j].end <= at \/ at <= g[j].start
  <2>1. CASE at + n <= k[j].start
    <3>. DEFINE a == k[j].start
                b == k[j].end
    <3>1. /\ g[j].start = a - n /\ g[j].end = b - n
          /\ a \in Nat /\ b \in Nat /\ b <= m /\ a < b /\ at + n <= a
      BY <1>6, <2>1
    <3>. HIDE DEF a, b
    <3>2. a - n < b - n /\ b - n <= m - n /\ at <= a - n
      BY <3>1
    <3>. QED
      BY <3>1, <3>2
  <2>2. CASE ~ (at + n <= k[j].start)
    BY <1>6, <2>2
  <2>. QED
    BY <2>1, <2>2
<1>8. ASSUME NEW j \in 1 .. l, NEW i \in j + 1 .. l PROVE g[j].end <= g[i].start
  <2>1. i \in 1 .. l /\ k[j].end <= k[i].start
    <3>1. i \in 1 .. l
      BY <1>2
    <3>. QED
      BY <1>2, <3>1 DEF Ordered, l
  <2>2. CASE at + n <= k[j].start
    <3>. DEFINE a == k[j].start
                b == k[j].end
                c == k[i].start
    <3>1. /\ a \in Nat /\ b \in Nat /\ c \in Nat /\ a < b /\ b <= c /\ at + n <= a
          /\ g[j].end = b - n
      BY <1>6, <2>1, <2>2
    <3>2. at + n <= c => g[i].start = c - n
      BY <1>6, <2>1
    <3>. HIDE DEF a, b, c
    <3>3. at + n <= c
      BY <3>1
    <3>4. b - n <= c - n
      BY <3>1
    <3>. QED
      BY <3>1, <3>2, <3>3, <3>4
  <2>3. CASE ~ (at + n <= k[j].start) /\ at + n <= k[i].start
    <3>. DEFINE b == k[j].end
                c == k[i].start
    <3>1. /\ b \in Nat /\ c \in Nat /\ b <= at /\ at + n <= c
          /\ g[j].end = b /\ g[i].start = c - n
      BY <1>6, <2>1, <2>3
    <3>. HIDE DEF b, c
    <3>2. at <= c - n
      BY <3>1
    <3>. QED
      BY <3>1, <3>2
  <2>4. CASE ~ (at + n <= k[j].start) /\ ~ (at + n <= k[i].start)
    BY <1>6, <2>1, <2>4
  <2>. QED
    BY <2>2, <2>3, <2>4
<1>10. ASSUME NEW i \in 1 .. Len(fs), at + n <= fs[i].start \/ at >= fs[i].end
       PROVE  \E j \in 1 .. Len(g) :
                IF at + n <= fs[i].start
                THEN g[j].start = fs[i].start - n /\ g[j].end = fs[i].end - n
                ELSE g[j].start = fs[i].start /\ g[j].end = fs[i].end
  <2>1. PICK j \in 1 .. l : k[j] = fs[i]
    BY <1>9, <1>10
  <2>. QED
    BY <1>5, <1>6, <2>1
<1>11. g \in Seq(Fold) /\ Len(g) <= Len(fs) /\ Len(g) = l
  BY <1>2, <1>5
<1>12. Ordered(g) /\ Fits(g, m - n)
  BY <1>7, <1>8, <1>11 DEF Ordered, Fits
<1>. QED
  BY <1>1, <1>7, <1>10, <1>11, <1>12 DEF g

\* What is said of all the folds implies what WellPlaced says.
LEMMA OrderedIsWellPlaced ==
  ASSUME NEW fs \in Seq(Fold), NEW text, Ordered(fs), Fits(fs, Len(text))
  PROVE  WellPlaced(text, fs)
<1>1. Len(fs) \in Nat /\ \A j \in 1 .. Len(fs) : fs[j].start \in Nat /\ fs[j].end \in Nat
  BY FoldFacts
<1>2. ASSUME NEW f \in ToSet(fs)
      PROVE  0 <= f.start /\ f.start < f.end /\ f.end <= Len(text)
  <2>1. PICK j \in 1 .. Len(fs) : f = fs[j]
    BY ToSetFacts
  <2>2. fs[j].start < fs[j].end
    BY DEF Ordered
  <2>3. fs[j].end <= Len(text)
    BY DEF Fits
  <2>. QED
    BY <1>1, <2>1, <2>2, <2>3
<1>3. ASSUME NEW j \in 1 .. Len(fs) - 1 PROVE fs[j].end <= fs[j+1].start
  <2>1. j \in 1 .. Len(fs) /\ j + 1 \in j + 1 .. Len(fs)
    BY <1>1
  <2>. QED
    BY <2>1 DEF Ordered
<1>. QED
  BY <1>2, <1>3 DEF WellPlaced
-----------------------------------------------------------------------------
(* Moves. *)

\* A fold that p is in has a cluster across one of its ends.
OutOf(text, fs, p) ==
  \A j \in 1 .. Len(fs) :
    fs[j].start < p /\ p < fs[j].end => Inside(text, fs[j].start) \/ Inside(text, fs[j].end)

\* The folds that Kept selects among those used for rendering.
LEMMA RenderFolds ==
  ASSUME NEW text, NEW fs \in Seq(Fold), Ordered(fs), Fits(fs, Len(text)), NEW W
  PROVE  LET here == Kept(linenoiseGetRenderFolds(text, fs), W) IN
         /\ here \in Seq(Fold)
         /\ here # <<>> => \E k \in 1 .. Len(fs) : Head(here) = fs[k] /\ fs[k] \in W
         /\ here = <<>> => \A k \in 1 .. Len(fs) : fs[k] \notin W
<1>. DEFINE V == {f \in ToSet(fs) : f.start < f.end /\ f.end <= Len(text)}
            r == Kept(fs, V)
            here == Kept(r, W)
<1>1. linenoiseGetRenderFolds(text, fs) = r
  BY DEF linenoiseGetRenderFolds
<1>2. \A k \in 1 .. Len(fs) : fs[k] \in V
  BY ToSetFacts DEF Ordered, Fits
<1>. HIDE DEF V
<1>3. /\ r \in Seq(Fold)
      /\ \A j \in 1 .. Len(r) : \E k \in 1 .. Len(fs) : r[j] = fs[k]
      /\ \A k \in 1 .. Len(fs) : fs[k] \in V => \E j \in 1 .. Len(r) : r[j] = fs[k]
  BY KeptFacts
<1>. HIDE DEF r
<1>4. /\ here \in Seq(Fold)
      /\ \A j \in 1 .. Len(here) : here[j] \in W /\ \E k \in 1 .. Len(r) : here[j] = r[k]
      /\ \A k \in 1 .. Len(r) : r[k] \in W => \E j \in 1 .. Len(here) : here[j] = r[k]
  BY <1>3, KeptFacts
<1>. HIDE DEF here
<1>5. ASSUME here # <<>>
      PROVE  \E k \in 1 .. Len(fs) : Head(here) = fs[k] /\ fs[k] \in W
  <2>1. 1 \in 1 .. Len(here) /\ Head(here) = here[1]
    BY <1>4, <1>5
  <2>2. here[1] \in W /\ \E k \in 1 .. Len(r) : here[1] = r[k]
    BY <1>4, <2>1
  <2>. QED
    BY <1>3, <2>1, <2>2
<1>6. ASSUME here = <<>>, NEW k \in 1 .. Len(fs), fs[k] \in W PROVE FALSE
  <2>1. PICK j \in 1 .. Len(r) : r[j] = fs[k]
    BY <1>2, <1>3
  <2>2. PICK i \in 1 .. Len(here) : here[i] = r[j]
    BY <1>4, <1>6, <2>1
  <2>3. Len(here) = 0
    BY <1>6
  <2>. QED
    BY <2>2, <2>3
<1>. QED
  BY <1>1, <1>4, <1>5, <1>6 DEF here

\* Going right: to the end of the fold that starts here, or of the cluster.
LEMMA NextLenFacts ==
  ASSUME NEW C, NEW text \in Seq(C), NEW fs \in Seq(Fold), Ordered(fs),
         Fits(fs, Len(text)), NEW p \in 0 .. Len(text) - 1
  PROVE  LET e == p + linenoiseEditNextLen(text, fs, p) IN
         /\ linenoiseEditNextLen(text, fs, p) \in Nat
         /\ e \in p + 1 .. Len(text)
         /\ OutOf(text, fs, p) => OutOf(text, fs, e)
         /\ /\ \A j \in 1 .. Len(fs) : ~Inside(text, fs[j].end)
            /\ JoinersFollow(text) /\ (p = 0 \/ ~Inside(text, p))
            => e = Len(text) \/ text[e] # Joiner
<1>. DEFINE W == {f \in ToSet(fs) : f.start = p}
            here == Kept(linenoiseGetRenderFolds(text, fs), W)
            n == Len(text)
            next == linenoiseEditNextLen(text, fs, p)
            e == p + next
<1>1. next = IF here # <<>> THEN Head(here).end - p ELSE utf8NextCharLen(text, p)
  BY DEF linenoiseEditNextLen
<1>2. /\ here # <<>> => \E k \in 1 .. Len(fs) : Head(here) = fs[k] /\ fs[k] \in W
      /\ here = <<>> => \A k \in 1 .. Len(fs) : fs[k] \notin W
  <2>. HIDE DEF W
  <2>. QED
    BY RenderFolds
<1>3. \A k \in 1 .. Len(fs) : fs[k] \in W <=> fs[k].start = p
  BY ToSetFacts
<1>. HIDE DEF here, W, next
<1>4. /\ n \in Nat /\ p \in Nat /\ p < n
      /\ \A k \in 1 .. Len(fs) : /\ fs[k].start \in Nat /\ fs[k].end \in Nat
                                 /\ fs[k].start < fs[k].end /\ fs[k].end <= n
  BY FoldFacts DEF Ordered, Fits
<1>5. CASE here # <<>>
  <2>1. PICK k \in 1 .. Len(fs) : Head(here) = fs[k] /\ fs[k].start = p
    BY <1>2, <1>3, <1>5
  <2>2. next = fs[k].end - p
    BY <1>1, <1>5, <2>1
  <2>3. next \in Nat /\ e = fs[k].end /\ e \in p + 1 .. n
    BY <1>4, <2>1, <2>2
  <2>4. ASSUME NEW j \in 1 .. Len(fs), fs[j].start < e, e < fs[j].end PROVE FALSE
    <3>0. Len(fs) \in Nat /\ j \in Nat /\ k \in Nat
      BY FoldFacts
    <3>1. CASE j = k
      BY <1>4, <2>3, <2>4, <3>1
    <3>2. CASE j < k
      <4>1. k \in j + 1 .. Len(fs)
        BY <3>0, <3>2
      <4>2. fs[j].end <= fs[k].start
        BY <4>1 DEF Ordered
      <4>. QED
        BY <1>4, <2>3, <2>4, <4>2
    <3>3. CASE k < j
      <4>1. j \in k + 1 .. Len(fs)
        BY <3>0, <3>3
      <4>2. fs[k].end <= fs[j].start
        BY <4>1 DEF Ordered
      <4>. QED
        BY <1>4, <2>3, <2>4, <4>2
    <3>. QED
      BY <3>0, <3>1, <3>2, <3>3
  <2>5. OutOf(text, fs, e)
    BY <2>4 DEF OutOf
  <2>6. ~Inside(text, fs[k].end) => e = n \/ text[e] # Joiner
    BY <1>4, <2>3 DEF Inside
  <2>. QED
    BY <2>3, <2>5, <2>6 DEF next
<1>6. CASE here = <<>>
  <2>1. next = utf8NextCharLen(text, p)
    BY <1>1, <1>6
  <2>2. /\ next \in Nat /\ e \in p + 1 .. n
        /\ \A d \in p + 1 .. e - 1 : Inside(text, d)
        /\ JoinersFollow(text) /\ (p = 0 \/ ~Inside(text, p)) => e = n \/ text[e] # Joiner
    BY <2>1, NextFacts DEF Joined
  <2>3. ASSUME OutOf(text, fs, p), NEW j \in 1 .. Len(fs), fs[j].start < e, e < fs[j].end
        PROVE  Inside(text, fs[j].start) \/ Inside(text, fs[j].end)
    <3>0. fs[j].start # p
      BY <1>2, <1>3, <1>6
    <3>1. CASE fs[j].start < p
      <4>1. p < fs[j].end
        BY <1>4, <2>2, <2>3
      <4>. QED
        BY <2>3, <3>1, <4>1 DEF OutOf
    <3>2. CASE p < fs[j].start
      <4>1. fs[j].start \in p + 1 .. e - 1
        BY <1>4, <2>2, <2>3, <3>2
      <4>. QED
        BY <2>2, <4>1
    <3>. QED
      BY <1>4, <3>0, <3>1, <3>2
  <2>4. OutOf(text, fs, p) => OutOf(text, fs, e)
    BY <2>3 DEF OutOf
  <2>. QED
    BY <2>2, <2>4 DEF next
<1>. QED
  BY <1>5, <1>6

\* Going left: to the start of the fold that ends here, or of the cluster.
LEMMA PrevLenFacts ==
  ASSUME NEW C, NEW text \in Seq(C), NEW fs \in Seq(Fold), Ordered(fs),
         Fits(fs, Len(text)), NEW p \in 1 .. Len(text)
  PROVE  LET q == p - linenoiseEditPrevLen(text, fs, p) IN
         /\ linenoiseEditPrevLen(text, fs, p) \in 1 .. p
         /\ q \in 0 .. p - 1
         /\ OutOf(text, fs, p) => OutOf(text, fs, q)
         /\ (\A j \in 1 .. Len(fs) : ~Inside(text, fs[j].start)) =>
              q = 0 \/ text[q] # Joiner \/ text[q+1] \in Regional
<1>. DEFINE W == {f \in ToSet(fs) : f.end = p}
            here == Kept(linenoiseGetRenderFolds(text, fs), W)
            n == Len(text)
            prev == linenoiseEditPrevLen(text, fs, p)
            q == p - prev
<1>1. prev = IF here # <<>> THEN p - Head(here).start ELSE utf8PrevCharLen(text, p)
  BY DEF linenoiseEditPrevLen
<1>2. /\ here # <<>> => \E k \in 1 .. Len(fs) : Head(here) = fs[k] /\ fs[k] \in W
      /\ here = <<>> => \A k \in 1 .. Len(fs) : fs[k] \notin W
  <2>. HIDE DEF W
  <2>. QED
    BY RenderFolds
<1>3. \A k \in 1 .. Len(fs) : fs[k] \in W <=> fs[k].end = p
  BY ToSetFacts
<1>. HIDE DEF here, W, prev
<1>4. /\ n \in Nat /\ p \in Nat /\ 0 < p /\ p <= n
      /\ \A k \in 1 .. Len(fs) : /\ fs[k].start \in Nat /\ fs[k].end \in Nat
                                 /\ fs[k].start < fs[k].end /\ fs[k].end <= n
  BY FoldFacts DEF Ordered, Fits
<1>5. CASE here # <<>>
  <2>1. PICK k \in 1 .. Len(fs) : Head(here) = fs[k] /\ fs[k].end = p
    BY <1>2, <1>3, <1>5
  <2>2. prev = p - fs[k].start
    BY <1>1, <1>5, <2>1
  <2>3. prev \in 1 .. p /\ q = fs[k].start /\ q \in 0 .. p - 1
    BY <1>4, <2>1, <2>2
  <2>4. ASSUME NEW j \in 1 .. Len(fs), fs[j].start < q, q < fs[j].end PROVE FALSE
    <3>0. Len(fs) \in Nat /\ j \in Nat /\ k \in Nat
      BY FoldFacts
    <3>1. CASE j = k
      BY <1>4, <2>3, <2>4, <3>1
    <3>2. CASE j < k
      <4>1. k \in j + 1 .. Len(fs)
        BY <3>0, <3>2
      <4>2. fs[j].end <= fs[k].start
        BY <4>1 DEF Ordered
      <4>. QED
        BY <1>4, <2>3, <2>4, <4>2
    <3>3. CASE k < j
      <4>1. j \in k + 1 .. Len(fs)
        BY <3>0, <3>3
      <4>2. fs[k].end <= fs[j].start
        BY <4>1 DEF Ordered
      <4>. QED
        BY <1>4, <2>1, <2>3, <2>4, <4>2
    <3>. QED
      BY <3>0, <3>1, <3>2, <3>3
  <2>5. OutOf(text, fs, q)
    BY <2>4 DEF OutOf
  <2>6. ~Inside(text, fs[k].start) => q = 0 \/ text[q] # Joiner
    BY <1>4, <2>3 DEF Inside
  <2>. QED
    BY <2>3, <2>5, <2>6 DEF prev
<1>6. CASE here = <<>>
  <2>1. prev = utf8PrevCharLen(text, p)
    BY <1>1, <1>6
  <2>2. /\ prev \in 1 .. p /\ q \in 0 .. p - 1
        /\ \A d \in q + 1 .. p - 1 : Inside(text, d)
        /\ q = 0 \/ text[q] # Joiner \/ text[q+1] \in Regional
    BY <2>1, PrevFacts DEF Joined
  <2>3. ASSUME OutOf(text, fs, p), NEW j \in 1 .. Len(fs), fs[j].start < q, q < fs[j].end
        PROVE  Inside(text, fs[j].start) \/ Inside(text, fs[j].end)
    <3>0. fs[j].end # p
      BY <1>2, <1>3, <1>6
    <3>1. CASE p < fs[j].end
      <4>1. fs[j].start < p
        BY <1>4, <2>2, <2>3
      <4>. QED
        BY <2>3, <3>1, <4>1 DEF OutOf
    <3>2. CASE fs[j].end < p
      <4>1. fs[j].end \in q + 1 .. p - 1
        BY <1>4, <2>2, <2>3, <3>2
      <4>. QED
        BY <2>2, <4>1
    <3>. QED
      BY <1>4, <3>0, <3>1, <3>2
  <2>4. OutOf(text, fs, p) => OutOf(text, fs, q)
    BY <2>3 DEF OutOf
  <2>. QED
    BY <2>2, <2>4 DEF prev
<1>. QED
  BY <1>5, <1>6
-----------------------------------------------------------------------------
(* What is computed by loops. *)

\* The fold of a line of the history is in the line, and hides its line breaks,
\* but those that a joiner makes a part of a cluster.
LEMMA HistoryFoldFacts ==
  ASSUME NEW C, NEW text \in Seq(C)
  PROVE  LET f == linenoiseBuildHistoryFold(text) IN
         /\ f.start \in Nat /\ f.end \in 0 .. Len(text)
         /\ \A i \in 1 .. Len(text) :
              text[i] = NewLine => \/ f.start < i /\ i <= f.end
                                   \/ i > 1 /\ text[i-1] = Joiner
<1>. DEFINE f == linenoiseBuildHistoryFold(text)
            m == FoldContext
            len == Len(text)
            S == 0 .. len
            next(p) == p + utf8NextCharLen(text, p)
            prev(p) == p - utf8PrevCharLen(text, p)
            rbody(g, k) == IF k = 0 THEN 0 ELSE next(g[k-1])
            lbody(g, k) == IF k = 0 THEN Len(text) ELSE prev(g[k-1])
            right == CHOOSE g : g = [k \in 0 .. FoldContext |-> rbody(g, k)]
            left  == CHOOSE g : g = [k \in 0 .. FoldContext |-> lbody(g, k)]
            F == [k \in 0 .. m |-> [p \in S |-> next(p)]]
            G == [k \in 0 .. m |-> [p \in S |-> prev(p)]]
            breaksLeft  == \E k \in 0 .. FoldContext - 1 :
                             right[k] < Len(text) /\ text[right[k] + 1] = NewLine
            breaksRight == \E k \in 1 .. FoldContext :
                             left[k-1] > 0 /\ text[left[k] + 1] = NewLine
            start == IF breaksLeft THEN 0 ELSE right[FoldContext]
            end   == IF breaksRight THEN Len(text) ELSE left[FoldContext]
<1>1. f = Range2(0, Len(text)) \/ f = Range2(start, end)
  BY DEF linenoiseBuildHistoryFold
<1>2. m \in Nat /\ len \in Nat /\ 0 \in S /\ len \in S
  BY FoldsAssumption
<1>3. ASSUME NEW p \in S
      PROVE  /\ next(p) \in S /\ Joined(text, p, next(p))
             /\ p < len => p < next(p)
  <2>1. CASE p = len
    <3>1. next(p) = p
      BY <2>1 DEF utf8NextCharLen
    <3>. QED
      BY <1>2, <2>1, <3>1 DEF Joined
  <2>2. CASE p # len
    <3>1. p \in 0 .. Len(text) - 1
      BY <1>2, <2>2
    <3>2. next(p) \in p + 1 .. Len(text) /\ Joined(text, p, next(p))
      BY <3>1, NextFacts
    <3>. QED
      BY <3>1, <3>2
  <2>. QED
    BY <2>1, <2>2
<1>4. ASSUME NEW p \in S
      PROVE  /\ prev(p) \in S /\ Joined(text, prev(p), p)
             /\ p > 0 => prev(p) < p
  <2>1. CASE p = 0
    <3>1. prev(p) = p
      BY <2>1 DEF utf8PrevCharLen
    <3>. QED
      BY <1>2, <2>1, <3>1 DEF Joined
  <2>2. CASE p # 0
    <3>1. p \in 1 .. Len(text)
      BY <1>2, <2>2
    <3>2. prev(p) \in 0 .. p - 1 /\ Joined(text, prev(p), p)
      BY <3>1, PrevFacts
    <3>. QED
      BY <3>1, <3>2
  <2>. QED
    BY <2>1, <2>2
<1>. HIDE DEF f, m, S, next, prev, right, left
<1>5. /\ F \in [0 .. m -> [S -> S]] /\ \A k \in 1 .. m, p \in S : F[k][p] = next(p)
      /\ G \in [0 .. m -> [S -> S]] /\ \A k \in 1 .. m, p \in S : G[k][p] = prev(p)
  BY <1>2, <1>3, <1>4
<1>. HIDE DEF F, G
<1>6. \A k \in 0 .. m : right[k] \in S /\ right[k] = rbody(right, k)
  <2>1. PICK g \in [0 .. m -> S] : Follows(g, m, 0, F)
    BY <1>2, <1>5, Recursion
  <2>2. ASSUME NEW k \in 0 .. m PROVE g[k] = rbody(g, k)
    <3>1. CASE k = 0
      BY <2>1, <3>1 DEF Follows
    <3>2. CASE k # 0
      <4>1. k \in 1 .. m /\ g[k-1] \in S
        BY <1>2, <3>2
      <4>. QED
        BY <1>5, <2>1, <3>2, <4>1 DEF Follows
    <3>. QED
      BY <3>1, <3>2
  <2>3. \A k \in 0 .. m : right[k] = rbody(right, k)
    <3>. HIDE DEF rbody
    <3>1. g = [k \in 0 .. m |-> g[k]]
      OBVIOUS
    <3>2. g = [k \in 0 .. m |-> rbody(g, k)]
      BY <2>2, <3>1
    <3>3. right = [k \in 0 .. m |-> rbody(right, k)]
      BY <3>2 DEF right, m
    <3>. QED
      BY <3>3
  <2>. DEFINE N == {k \in 0 .. m : right[k] \in S}
  <2>4. 0 \in N
    BY <1>2, <2>3
  <2>5. ASSUME NEW k \in 0 .. m, k \in N, k < m PROVE k + 1 \in N
    <3>1. k + 1 - 1 = k /\ k + 1 # 0 /\ k + 1 \in 0 .. m
      BY <1>2, <2>5
    <3>2. right[k+1] = next(right[k])
      BY <2>3, <3>1
    <3>. QED
      BY <1>3, <2>5, <3>1, <3>2
  <2>. HIDE DEF N
  <2>6. 0 .. m \subseteq N
    BY <1>2, <2>4, <2>5, Induction
  <2>. QED
    BY <2>3, <2>6 DEF N
<1>7. \A k \in 0 .. m : left[k] \in S /\ left[k] = lbody(left, k)
  <2>1. PICK g \in [0 .. m -> S] : Follows(g, m, Len(text), G)
    BY <1>2, <1>5, Recursion
  <2>2. ASSUME NEW k \in 0 .. m PROVE g[k] = lbody(g, k)
    <3>1. CASE k = 0
      BY <2>1, <3>1 DEF Follows
    <3>2. CASE k # 0
      <4>1. k \in 1 .. m /\ g[k-1] \in S
        BY <1>2, <3>2
      <4>. QED
        BY <1>5, <2>1, <3>2, <4>1 DEF Follows
    <3>. QED
      BY <3>1, <3>2
  <2>3. \A k \in 0 .. m : left[k] = lbody(left, k)
    <3>. HIDE DEF lbody
    <3>1. g = [k \in 0 .. m |-> g[k]]
      OBVIOUS
    <3>2. g = [k \in 0 .. m |-> lbody(g, k)]
      BY <2>2, <3>1
    <3>3. left = [k \in 0 .. m |-> lbody(left, k)]
      BY <3>2 DEF left, m
    <3>. QED
      BY <3>3
  <2>. DEFINE N == {k \in 0 .. m : left[k] \in S}
  <2>4. 0 \in N
    BY <1>2, <2>3
  <2>5. ASSUME NEW k \in 0 .. m, k \in N, k < m PROVE k + 1 \in N
    <3>1. k + 1 - 1 = k /\ k + 1 # 0 /\ k + 1 \in 0 .. m
      BY <1>2, <2>5
    <3>2. left[k+1] = prev(left[k])
      BY <2>3, <3>1
    <3>. QED
      BY <1>4, <2>5, <3>1, <3>2
  <2>. HIDE DEF N
  <2>6. 0 .. m \subseteq N
    BY <1>2, <2>4, <2>5, Induction
  <2>. QED
    BY <2>3, <2>6 DEF N
<1>8. start \in S /\ end \in S
  BY <1>2, <1>6, <1>7 DEF m
<1>9. ASSUME NEW i \in 1 .. len, text[i] = NewLine, ~ (i > 1 /\ text[i-1] = Joiner)
      PROVE  start < i /\ i <= end
  <2>0. i \in Nat /\ 0 < i /\ i <= len
    BY <1>2
  <2>1. 1 < i => ~Inside(text, i - 1)
    <3>1. i - 1 + 1 = i
      BY <2>0
    <3>. QED
      BY <1>9, <2>0, <3>1, FoldsAssumption DEF Inside
  <2>2. ASSUME ~breaksLeft PROVE right[m] < i
    <3>. DEFINE N == {k \in 0 .. m : right[k] < i}
    <3>1. 0 \in N
      BY <1>2, <1>6, <2>0
    <3>2. ASSUME NEW k \in 0 .. m, k \in N, k < m PROVE k + 1 \in N
      <4>1. k + 1 - 1 = k /\ k + 1 # 0 /\ k + 1 \in 0 .. m /\ k \in 0 .. FoldContext - 1
        BY <1>2, <3>2 DEF m
      <4>2. right[k+1] = next(right[k]) /\ right[k] \in 0 .. len /\ right[k] < i
        BY <1>6, <3>2, <4>1 DEF S
      <4>3. right[k] # i - 1
        BY <1>9, <2>0, <2>2, <4>1, <4>2
      <4>4. /\ right[k+1] \in 0 .. len
            /\ \A d \in right[k] + 1 .. right[k+1] - 1 : Inside(text, d)
        BY <1>3, <1>6, <4>1, <4>2 DEF S, Joined
      <4>5. i - 1 \notin right[k] + 1 .. right[k+1] - 1
        BY <2>0, <2>1, <4>2, <4>3, <4>4
      <4>6. right[k+1] < i
        BY <2>0, <4>2, <4>3, <4>4, <4>5
      <4>. QED
        BY <4>1, <4>6
    <3>. HIDE DEF N
    <3>3. 0 .. m \subseteq N
      BY <1>2, <3>1, <3>2, Induction
    <3>. QED
      BY <1>2, <3>3 DEF N
  <2>3. ASSUME ~breaksRight PROVE i <= left[m]
    <3>. DEFINE N == {k \in 0 .. m : i <= left[k]}
    <3>1. 0 \in N
      BY <1>2, <1>7, <2>0
    <3>2. ASSUME NEW k \in 0 .. m, k \in N, k < m PROVE k + 1 \in N
      <4>1. k + 1 - 1 = k /\ k + 1 # 0 /\ k + 1 \in 0 .. m /\ k + 1 \in 1 .. FoldContext
        BY <1>2, <3>2 DEF m
      <4>2. left[k+1] = prev(left[k]) /\ left[k] \in 0 .. len /\ i <= left[k]
        BY <1>7, <3>2, <4>1 DEF S
      <4>3. /\ left[k+1] \in 0 .. len
            /\ \A d \in left[k+1] + 1 .. left[k] - 1 : Inside(text, d)
        BY <1>4, <1>7, <4>1, <4>2 DEF S, Joined
      <4>4. left[k+1] # i - 1
        BY <1>9, <2>0, <2>3, <4>1, <4>2
      <4>5. i - 1 \notin left[k+1] + 1 .. left[k] - 1
        BY <2>0, <2>1, <4>2, <4>3
      <4>6. i <= left[k+1]
        BY <2>0, <4>2, <4>3, <4>4, <4>5
      <4>. QED
        BY <4>1, <4>6
    <3>. HIDE DEF N
    <3>3. 0 .. m \subseteq N
      BY <1>2, <3>1, <3>2, Induction
    <3>. QED
      BY <1>2, <3>3 DEF N
  <2>. QED
    BY <2>0, <2>2, <2>3 DEF m
<1>10. ASSUME NEW i \in 1 .. len, text[i] = NewLine
       PROVE  (f.start < i /\ i <= f.end) \/ (i > 1 /\ text[i-1] = Joiner)
  <2>. HIDE DEF start, end
  <2>. QED
    BY <1>1, <1>2, <1>9, <1>10 DEF Range2
<1>11. f.start \in Nat /\ f.end \in 0 .. len
  <2>. HIDE DEF start, end
  <2>. QED
    BY <1>1, <1>2, <1>8 DEF S, Range2
<1>. QED
  BY <1>10, <1>11 DEF f

\* A size is doubled until it is enough: it does not exceed max.
LEMMA GrownFacts ==
  ASSUME NEW max \in Nat, NEW size \in 1 .. max, NEW needed \in Nat, needed <= max
  PROVE  Grown(size, needed, max) \in needed .. max
<1>. DEFINE D == 1 .. max
            body(g, n) == IF n >= needed THEN n
                          ELSE IF n > max \div 2 THEN max ELSE g[2 * n]
            c == CHOOSE g : g = [n \in 1 .. max |-> body(g, n)]
            known == {n \in D : n >= needed \/ n > max \div 2}
            V == [n \in D |-> IF n >= needed THEN n ELSE max]
            J == [n \in D |-> IF n \in known THEN n ELSE 2 * n]
            R == [n \in D |-> max - n]
            N == {n \in D : c[n] \in needed .. max}
<1>1. Grown(size, needed, max) = c[size]
  BY DEF Grown
<1>. HIDE DEF c
<1>2. ASSUME NEW n \in D \ known PROVE 2 * n \in D /\ n < 2 * n
  BY <1>2
<1>3. /\ J \in [D -> D] /\ R \in [D -> 0 .. max] /\ V \in [D -> D]
      /\ \A n \in known : V[n] \in needed .. max
  <2>. HIDE DEF known
  <2>1. J \in [D -> D]
    BY <1>2
  <2>. USE DEF known
  <2>2. R \in [D -> 0 .. max] /\ V \in [D -> D]
    OBVIOUS
  <2>3. \A n \in known : V[n] \in needed .. max
    OBVIOUS
  <2>. QED
    BY <2>1, <2>2, <2>3
<1>4. Descends(J, D, known, R, max)
  <2>1. ASSUME NEW n \in D \ known PROVE R[J[n]] < R[n]
    <3>1. J[n] = 2 * n /\ J[n] \in D /\ n < 2 * n
      BY <1>2
    <3>. QED
      BY <3>1
  <2>. QED
    BY <2>1 DEF Descends
<1>5. PICK g \in [D -> D] : Chases(g, D, known, V, J)
  <2>. HIDE DEF D, known, V, J, R
  <2>. QED
    BY <1>3, <1>4, RankedRecursion
<1>6. ASSUME NEW n \in D PROVE g[n] = body(g, n)
  <2>1. g[n] = IF n \in known THEN V[n] ELSE g[J[n]]
    BY <1>5 DEF Chases
  <2>2. CASE n >= needed
    BY <2>1, <2>2
  <2>3. CASE ~ (n >= needed) /\ n > max \div 2
    BY <2>1, <2>3
  <2>4. CASE ~ (n >= needed) /\ ~ (n > max \div 2)
    BY <2>1, <2>4
  <2>. QED
    BY <2>2, <2>3, <2>4
<1>7. \A n \in D : c[n] = body(c, n)
  <2>. HIDE DEF body
  <2>1. g = [n \in D |-> g[n]]
    OBVIOUS
  <2>2. g = [n \in D |-> body(g, n)]
    BY <1>6, <2>1
  <2>3. c = [n \in D |-> body(c, n)]
    BY <2>2 DEF c
  <2>. QED
    BY <2>3
<1>8. Closed(N, D, known, J)
  <2>1. ASSUME NEW n \in D, n \in known PROVE n \in N
    <3>1. c[n] = IF n >= needed THEN n ELSE max
      <4>1. n >= needed \/ n > max \div 2
        BY <2>1
      <4>2. c[n] = body(c, n)
        <5>. HIDE DEF body
        <5>. QED
          BY <1>7
      <4>. QED
        BY <4>1, <4>2
    <3>. HIDE DEF body, known
    <3>. QED
      BY <3>1
  <2>2. ASSUME NEW n \in D, n \notin known, J[n] \in N PROVE n \in N
    <3>1. J[n] = 2 * n /\ c[n] = c[2 * n]
      BY <1>7, <2>2
    <3>. QED
      BY <2>2, <3>1
  <2>. QED
    BY <2>1, <2>2 DEF Closed
<1>9. D \subseteq N
  <2>. HIDE DEF D, known, J, R, N
  <2>. QED
    BY <1>3, <1>4, <1>8, RankedInduction
<1>. QED
  BY <1>1, <1>9
\* The moves to the left from p, as long as the position is in Q.
GoesBack(g, Q) ==
  \A p \in 0 .. Len(buf) : g[p] = IF p \in Q THEN g[p - PrevLen(p)] ELSE p

LEMMA GoesBackFacts ==
  ASSUME buf \in Seq(Char), fold \in Seq(Fold), Ordered(fold), Fits(fold, Len(buf)),
         NEW Q, Q \subseteq 1 .. Len(buf)
  PROVE  /\ \E g \in [0 .. Len(buf) -> 0 .. Len(buf)] : GoesBack(g, Q)
         /\ \A g : GoesBack(g, Q) =>
              \A p \in 0 .. Len(buf) :
                g[p] \in 0 .. p /\ (OutOf(buf, fold, p) => OutOf(buf, fold, g[p]))
<1>. DEFINE m == Len(buf)
            D == 0 .. m
            known == D \ Q
            V == [p \in D |-> p]
            J == [p \in D |-> IF p \in Q THEN p - PrevLen(p) ELSE p]
            R == [p \in D |-> p]
<1>1. m \in Nat
  OBVIOUS
<1>2. ASSUME NEW p \in Q
      PROVE  /\ p \in D /\ p - PrevLen(p) \in 0 .. p - 1
             /\ OutOf(buf, fold, p) => OutOf(buf, fold, p - PrevLen(p))
  <2>1. p \in 1 .. Len(buf)
    OBVIOUS
  <2>. QED
    BY <2>1, PrevLenFacts DEF PrevLen
<1>. HIDE DEF m
<1>3. ASSUME NEW p \in Q
      PROVE  /\ p \in D /\ p \in Nat /\ J[p] = p - PrevLen(p)
             /\ J[p] \in 0 .. p - 1 /\ J[p] \in D
             /\ OutOf(buf, fold, p) => OutOf(buf, fold, J[p])
  BY <1>1, <1>2
<1>4. V \in [D -> D] /\ R \in [D -> 0 .. m]
  OBVIOUS
<1>5. \A p \in D : p \notin Q => J[p] = p
  OBVIOUS
<1>6. J \in [D -> D]
  <2>1. ASSUME NEW p \in D PROVE (IF p \in Q THEN p - PrevLen(p) ELSE p) \in D
    BY <1>3, <2>1
  <2>. QED
    BY <2>1
<1>. HIDE DEF J
<1>7. Descends(J, D, known, R, m)
  <2>1. ASSUME NEW p \in D \ known PROVE R[J[p]] < R[p]
    <3>1. p \in Q /\ J[p] \in D /\ J[p] < p
      BY <1>1, <1>3
    <3>. QED
      BY <3>1
  <2>. QED
    BY <2>1 DEF Descends
<1>8. \E g \in [0 .. Len(buf) -> 0 .. Len(buf)] : GoesBack(g, Q)
  <2>1. PICK g \in [D -> D] : Chases(g, D, known, V, J)
    <3>. HIDE DEF D, known, V, R
    <3>. QED
      BY <1>1, <1>4, <1>6, <1>7, RankedRecursion
  <2>2. ASSUME NEW p \in D PROVE g[p] = IF p \in Q THEN g[p - PrevLen(p)] ELSE p
    BY <1>3, <2>1 DEF Chases
  <2>3. GoesBack(g, Q)
    BY <2>2 DEF GoesBack, m
  <2>. QED
    BY <2>3 DEF m
<1>9. ASSUME NEW g, GoesBack(g, Q), NEW p \in 0 .. Len(buf)
      PROVE  g[p] \in 0 .. p /\ (OutOf(buf, fold, p) => OutOf(buf, fold, g[p]))
  <2>. DEFINE N == {i \in D : /\ g[i] \in 0 .. i
                              /\ OutOf(buf, fold, i) => OutOf(buf, fold, g[i])}
  <2>0. \A i \in D : g[i] = IF i \in Q THEN g[i - PrevLen(i)] ELSE i
    BY <1>9 DEF GoesBack, m
  <2>1. ASSUME NEW i \in D, i \in known \/ J[i] \in N PROVE i \in N
    <3>1. CASE i \notin Q
      BY <1>1, <2>0, <3>1
    <3>2. CASE i \in Q
      <4>1. /\ J[i] \in 0 .. i - 1 /\ g[i] = g[J[i]] /\ i \in Nat
            /\ OutOf(buf, fold, i) => OutOf(buf, fold, J[i])
        BY <1>3, <2>0, <3>2
      <4>2. g[J[i]] \in 0 .. J[i] /\ (OutOf(buf, fold, J[i]) => OutOf(buf, fold, g[J[i]]))
        BY <2>1, <3>2
      <4>. QED
        BY <4>1, <4>2
    <3>. QED
      BY <3>1, <3>2
  <2>2. Closed(N, D, known, J)
    BY <2>1 DEF Closed
  <2>. HIDE DEF D, known, R, N
  <2>3. D \subseteq N
    BY <1>1, <1>4, <1>6, <1>7, <2>2, RankedInduction
  <2>. QED
    BY <2>3 DEF N, D, m
<1>. QED
  BY <1>8, <1>9

\* The word before the cursor starts before it.
LEMMA WordStartFacts ==
  ASSUME buf \in Seq(Char), fold \in Seq(Fold), Ordered(fold), Fits(fold, Len(buf)),
         pos \in 0 .. Len(buf)
  PROVE  /\ WordStart \in 0 .. pos
         /\ OutOf(buf, fold, pos) => OutOf(buf, fold, WordStart)
<1>. DEFINE D == 0 .. Len(buf)
            sbody(g, p) == IF p > 0 /\ buf[p] = Space THEN g[p - PrevLen(p)] ELSE p
            wbody(g, p) == IF p > 0 /\ buf[p] # Space THEN g[p - PrevLen(p)] ELSE p
            spaces == CHOOSE g : g = [p \in 0 .. Len(buf) |-> sbody(g, p)]
            word   == CHOOSE g : g = [p \in 0 .. Len(buf) |-> wbody(g, p)]
            SQ == {p \in 1 .. Len(buf) : buf[p] = Space}
            WQ == {p \in 1 .. Len(buf) : buf[p] # Space}
<1>1. WordStart = word[spaces[pos]]
  BY DEF WordStart
<1>2. Len(buf) \in Nat
  OBVIOUS
<1>3. \A p \in D : p \in SQ <=> p > 0 /\ buf[p] = Space
  BY <1>2
<1>4. \A p \in D : p \in WQ <=> p > 0 /\ buf[p] # Space
  BY <1>2
<1>. HIDE DEF spaces, word, SQ, WQ
<1>5. /\ \E g \in [D -> D] : GoesBack(g, SQ)
      /\ \A g : GoesBack(g, SQ) =>
           \A p \in D : g[p] \in 0 .. p /\ (OutOf(buf, fold, p) => OutOf(buf, fold, g[p]))
  <2>1. SQ \subseteq 1 .. Len(buf)
    BY DEF SQ
  <2>. QED
    BY <2>1, GoesBackFacts
<1>6. /\ \E g \in [D -> D] : GoesBack(g, WQ)
      /\ \A g : GoesBack(g, WQ) =>
           \A p \in D : g[p] \in 0 .. p /\ (OutOf(buf, fold, p) => OutOf(buf, fold, g[p]))
  <2>1. WQ \subseteq 1 .. Len(buf)
    BY DEF WQ
  <2>. QED
    BY <2>1, GoesBackFacts
<1>7. GoesBack(spaces, SQ)
  <2>1. PICK g \in [D -> D] : GoesBack(g, SQ)
    BY <1>5
  <2>2. ASSUME NEW p \in D PROVE g[p] = sbody(g, p)
    BY <1>3, <2>1 DEF GoesBack
  <2>3. \A p \in D : spaces[p] = sbody(spaces, p)
    <3>. HIDE DEF sbody
    <3>1. g = [p \in D |-> g[p]]
      OBVIOUS
    <3>2. g = [p \in D |-> sbody(g, p)]
      BY <2>2, <3>1
    <3>3. spaces = [p \in D |-> sbody(spaces, p)]
      BY <3>2 DEF spaces
    <3>. QED
      BY <3>3
  <2>. QED
    BY <1>3, <2>3 DEF GoesBack
<1>8. GoesBack(word, WQ)
  <2>1. PICK g \in [D -> D] : GoesBack(g, WQ)
    BY <1>6
  <2>2. ASSUME NEW p \in D PROVE g[p] = wbody(g, p)
    BY <1>4, <2>1 DEF GoesBack
  <2>3. \A p \in D : word[p] = wbody(word, p)
    <3>. HIDE DEF wbody
    <3>1. g = [p \in D |-> g[p]]
      OBVIOUS
    <3>2. g = [p \in D |-> wbody(g, p)]
      BY <2>2, <3>1
    <3>3. word = [p \in D |-> wbody(word, p)]
      BY <3>2 DEF word
    <3>. QED
      BY <3>3
  <2>. QED
    BY <1>4, <2>3 DEF GoesBack
<1>9. /\ spaces[pos] \in 0 .. pos
      /\ OutOf(buf, fold, pos) => OutOf(buf, fold, spaces[pos])
  BY <1>5, <1>7
<1>10. spaces[pos] \in D
  BY <1>9
<1>11. /\ word[spaces[pos]] \in 0 .. spaces[pos]
       /\ OutOf(buf, fold, spaces[pos]) => OutOf(buf, fold, word[spaces[pos]])
  BY <1>6, <1>8, <1>10
<1>. QED
  BY <1>1, <1>2, <1>9, <1>11

\* Line breaks are normalized in place: the text does not grow.
LEMMA NormalizedFacts ==
  ASSUME NEW text \in Seq(Char)
  PROVE  Normalized(text) \in Seq(Char) /\ Len(Normalized(text)) <= Len(text)
<1>. DEFINE m == Len(text)
            S == Seq(Char)
            body(g, i) ==
              CASE i = 0 -> <<>>
                [] i > 0 /\ text[i] = NewLine /\ i > 1 /\ text[i-1] = Return -> g[i-1]
                [] i > 0 /\ text[i] = Return -> Append(g[i-1], NewLine)
                [] OTHER -> Append(g[i-1], text[i])
            c == CHOOSE g : g = [i \in 0 .. Len(text) |-> body(g, i)]
            next(s, i) ==
              IF text[i] = NewLine /\ i > 1 /\ text[i-1] = Return THEN s
              ELSE IF text[i] = Return THEN Append(s, NewLine) ELSE Append(s, text[i])
            F == [i \in 0 .. m |-> [s \in S |-> IF i > 0 THEN next(s, i) ELSE s]]
<1>1. Normalized(text) = c[m]
  BY DEF Normalized
<1>2. m \in Nat /\ <<>> \in S
  OBVIOUS
<1>3. ASSUME NEW i \in 1 .. m, NEW s \in S
      PROVE  next(s, i) \in S /\ Len(next(s, i)) <= Len(s) + 1 /\ Len(s) \in Nat
  <2>1. NewLine \in Char /\ text[i] \in Char
    BY DEF Char
  <2>2. ASSUME NEW x \in Char PROVE Append(s, x) \in S /\ Len(Append(s, x)) = Len(s) + 1
    OBVIOUS
  <2>3. Len(s) \in Nat
    OBVIOUS
  <2>. HIDE DEF S
  <2>4. CASE text[i] = NewLine /\ i > 1 /\ text[i-1] = Return
    BY <2>3, <2>4
  <2>5. CASE ~ (text[i] = NewLine /\ i > 1 /\ text[i-1] = Return) /\ text[i] = Return
    BY <2>1, <2>2, <2>3, <2>5
  <2>6. CASE ~ (text[i] = NewLine /\ i > 1 /\ text[i-1] = Return) /\ text[i] # Return
    BY <2>1, <2>2, <2>3, <2>6
  <2>. QED
    BY <2>4, <2>5, <2>6
<1>. HIDE DEF c, m, S, next
<1>4. F \in [0 .. m -> [S -> S]] /\ \A i \in 1 .. m, s \in S : F[i][s] = next(s, i)
  BY <1>2, <1>3
<1>. HIDE DEF F
<1>5. PICK g \in [0 .. m -> S] : Follows(g, m, <<>>, F)
  BY <1>2, <1>4, Recursion
<1>6. ASSUME NEW i \in 1 .. m, NEW h PROVE body(h, i) = next(h[i-1], i)
  <2>1. i > 0 /\ i # 0
    BY <1>2
  <2>2. CASE text[i] = NewLine /\ i > 1 /\ text[i-1] = Return
    BY <2>1, <2>2, LineEditAssumption DEF next
  <2>3. CASE ~ (text[i] = NewLine /\ i > 1 /\ text[i-1] = Return) /\ text[i] = Return
    BY <2>1, <2>3 DEF next
  <2>4. CASE ~ (text[i] = NewLine /\ i > 1 /\ text[i-1] = Return) /\ text[i] # Return
    BY <2>1, <2>4 DEF next
  <2>. QED
    BY <2>2, <2>3, <2>4
<1>7. ASSUME NEW h PROVE body(h, 0) = <<>>
  OBVIOUS
<1>. HIDE DEF body
<1>8. ASSUME NEW i \in 0 .. m PROVE g[i] = body(g, i)
  <2>1. CASE i = 0
    BY <1>5, <1>7, <2>1 DEF Follows
  <2>2. CASE i # 0
    <3>1. i \in 1 .. m /\ g[i-1] \in S
      BY <1>2, <2>2
    <3>. QED
      BY <1>4, <1>5, <1>6, <3>1 DEF Follows
  <2>. QED
    BY <2>1, <2>2
<1>9. \A i \in 0 .. m : c[i] = body(c, i)
  <2>1. g = [i \in 0 .. m |-> g[i]]
    OBVIOUS
  <2>2. g = [i \in 0 .. m |-> body(g, i)]
    BY <1>8, <2>1
  <2>3. c = [i \in 0 .. m |-> body(c, i)]
    BY <2>2 DEF c, m
  <2>. QED
    BY <2>3
<1>. DEFINE N == {i \in 0 .. m : c[i] \in S /\ Len(c[i]) <= i}
<1>10. 0 \in N
  <2>1. c[0] = <<>> /\ Len(<<>>) <= 0
    BY <1>2, <1>7, <1>9
  <2>. QED
    BY <1>2, <2>1
<1>11. ASSUME NEW i \in 0 .. m, i \in N, i < m PROVE i + 1 \in N
  <2>1. i + 1 \in 1 .. m /\ i + 1 - 1 = i /\ i + 1 \in 0 .. m
    BY <1>2, <1>11
  <2>2. c[i+1] = next(c[i], i + 1)
    BY <1>6, <1>9, <2>1
  <2>3. c[i] \in S /\ Len(c[i]) <= i
    BY <1>11
  <2>4. /\ next(c[i], i + 1) \in S /\ Len(next(c[i], i + 1)) <= Len(c[i]) + 1
        /\ Len(c[i]) \in Nat
    BY <1>3, <2>1, <2>3
  <2>5. Len(next(c[i], i + 1)) <= i + 1
    <3>1. Len(next(c[i], i + 1)) \in Nat
      BY <2>4 DEF S
    <3>. QED
      BY <2>3, <2>4, <3>1
  <2>. QED
    BY <2>1, <2>2, <2>4, <2>5
<1>. HIDE DEF N
<1>12. 0 .. m \subseteq N
  BY <1>2, <1>10, <1>11, Induction
<1>. QED
  BY <1>1, <1>2, <1>12 DEF N, S, m
-----------------------------------------------------------------------------
(* The inductive invariant. *)

PasteRecord == [text : Seq(Char), match : Nat, cap : 0 .. MaxLine, overflowed : BOOLEAN]

\* The variables have their types, the cursor is in the line.
TypeOK ==
  /\ buf \in Seq(Char) /\ pos \in 0 .. Len(buf) /\ buflen \in 1 .. MaxLine
  /\ mode \in {"edit", "paste", "closed", "line", "interrupted", "eof", "nil"}
  /\ paste \in PasteRecord /\ sent \in Seq(Char)

\* The folds are in the line and in order, and the cursor is out of them.
FoldsAt(text, fs, p) ==
  /\ fs \in Seq(Fold) /\ Len(fs) <= MaxFolds
  /\ Ordered(fs) /\ Fits(fs, Len(text)) /\ OutOf(text, fs, p)

\* There is room for the line and for the paste.
Room(text, p, size) ==
  /\ Len(text) + Len(p.text) <= size
  /\ Len(p.text) <= p.cap /\ p.match < Len(PasteEnd)

\* What has been read of a paste is what the terminal has sent, or the terminal
\* has sent more than max characters.
Reading(p, s, max) ==
  /\ Len(p.text) <= max
  /\ ~p.overflowed => s = p.text \o SubSeq(PasteEnd, 1, p.match)
  /\ p.overflowed => Len(s) > max + p.match

IInv ==
  /\ TypeOK /\ FoldsAt(buf, fold, pos)
  /\ Room(buf, paste, buflen) /\ Reading(paste, sent, MaxPaste)
  /\ mode # "paste" => paste = NoPaste /\ sent = <<>>

LEMMA Idle ==
  ASSUME NEW text, NEW size \in Nat, Len(text) \in Nat, Len(text) <= size, NEW max \in Nat
  PROVE  NoPaste \in PasteRecord /\ Room(text, NoPaste, size) /\ Reading(NoPaste, <<>>, max)
<1>1. /\ NoPaste.text = <<>> /\ NoPaste.match = 0 /\ NoPaste.cap = 0
      /\ NoPaste.overflowed = FALSE /\ Len(<<>>) = 0
  BY DEF NoPaste
<1>2. /\ PasteEnd \in Seq(ToSet(PasteEnd)) /\ PasteEnd # <<>>
  BY LineEditAssumption
<1>3. 0 < Len(PasteEnd) /\ <<>> \o SubSeq(PasteEnd, 1, 0) = <<>>
  BY <1>2
<1>4. NoPaste \in PasteRecord
  BY LineEditAssumption DEF NoPaste, PasteRecord
<1>5. Room(text, NoPaste, size)
  BY <1>1, <1>3 DEF Room
<1>6. Reading(NoPaste, <<>>, max)
  BY <1>1, <1>3 DEF Reading
<1>. QED
  BY <1>4, <1>5, <1>6

\* After an action that is not the reading of a paste.
LEMMA Settled ==
  ASSUME buf' \in Seq(Char), pos' \in 0 .. Len(buf'), buflen' \in 1 .. MaxLine,
         Len(buf') <= buflen', FoldsAt(buf', fold', pos'),
         mode' \in {"edit", "paste", "closed", "line", "interrupted", "eof", "nil"},
         paste' = NoPaste, sent' = <<>>
  PROVE  IInv'
<1>1. Len(buf') \in Nat /\ buflen' \in Nat /\ MaxLine \in Nat
  BY LineEditAssumption
<1>2. MaxPaste' \in Nat
  BY <1>1 DEF MaxPaste
<1>3. /\ NoPaste \in PasteRecord /\ Room(buf', NoPaste, buflen')
      /\ Reading(NoPaste, <<>>, MaxPaste')
  BY <1>1, <1>2, Idle
<1>4. <<>> \in Seq(Char)
  OBVIOUS
<1>5. TypeOK'
  BY <1>3, <1>4 DEF TypeOK
<1>6. Room(buf', paste', buflen') /\ Reading(paste', sent', MaxPaste')
  BY <1>3
<1>. QED
  BY <1>5, <1>6 DEF IInv

\* What IInv says of the line.
LEMMA LineFacts ==
  ASSUME IInv
  PROVE  /\ buf \in Seq(Char) /\ Len(buf) \in Nat /\ pos \in 0 .. Len(buf)
         /\ buflen \in 1 .. MaxLine /\ Len(buf) <= buflen /\ Len(buf) + Len(paste.text) <= buflen
         /\ fold \in Seq(Fold) /\ Len(fold) <= MaxFolds /\ Ordered(fold)
         /\ Fits(fold, Len(buf)) /\ OutOf(buf, fold, pos)
         /\ Len(paste.text) \in Nat /\ MaxPaste \in 0 .. MaxLine
<1>1. /\ buf \in Seq(Char) /\ Len(buf) \in Nat /\ pos \in 0 .. Len(buf)
      /\ buflen \in 1 .. MaxLine /\ MaxLine \in Nat
  BY LineEditAssumption DEF IInv, TypeOK
<1>2. paste.text \in Seq(Char)
  BY DEF IInv, TypeOK, PasteRecord
<1>3. Len(paste.text) \in Nat
  BY <1>2
<1>4. Len(buf) + Len(paste.text) <= buflen
  BY DEF IInv, Room
<1>5. Len(buf) <= buflen /\ Len(buf) <= MaxLine
  BY <1>1, <1>3, <1>4
<1>6. MaxPaste \in 0 .. MaxLine
  BY <1>1, <1>5 DEF MaxPaste
<1>. QED
  BY <1>1, <1>3, <1>4, <1>5, <1>6 DEF IInv, FoldsAt

\* A position that has all the folds before or after it is out of them.
LEMMA NoFoldAround ==
  ASSUME NEW text, NEW fs \in Seq(Fold), NEW p \in Nat,
         \A j \in 1 .. Len(fs) : fs[j].end <= p \/ p <= fs[j].start
  PROVE  OutOf(text, fs, p)
<1>1. ASSUME NEW j \in 1 .. Len(fs) PROVE ~ (fs[j].start < p /\ p < fs[j].end)
  BY FoldFacts
<1>. QED
  BY <1>1 DEF OutOf

LEMMA CutFacts ==
  ASSUME IInv, NEW start \in Nat, NEW end \in start .. Len(buf), Cut(start, end)
  PROVE  /\ buf' \in Seq(Char) /\ Len(buf') = Len(buf) - (end - start)
         /\ start \in 0 .. Len(buf') /\ FoldsAt(buf', fold', start)
<1>1. /\ buf \in Seq(Char) /\ Len(buf) \in Nat /\ fold \in Seq(Fold) /\ Len(fold) <= MaxFolds
      /\ Ordered(fold) /\ Fits(fold, Len(buf))
  BY LineFacts
<1>. DEFINE a == SubSeq(buf, 1, start)
            b == SubSeq(buf, end + 1, Len(buf))
            n == Len(a)
            r == Len(b)
<1>2. a \in Seq(Char) /\ n = start /\ n \in Nat
  BY <1>1
<1>3. b \in Seq(Char) /\ r = Len(buf) - end /\ r \in Nat
  BY <1>1
<1>4. buf' = a \o b
  BY DEF Cut
<1>. DEFINE m == Len(buf)
            d == end - start
            g == linenoiseAdjustFoldsAfterDelete(fold, start, d)
<1>5. fold' = g
  BY DEF Cut
<1>6. m \in Nat /\ d \in Nat /\ start + d <= m /\ start <= m - d
  BY <1>1
<1>. HIDE DEF a, b, d
<1>7. a \o b \in Seq(Char) /\ Len(a \o b) = n + r
  BY <1>2, <1>3
<1>. HIDE DEF n, r, m
<1>8. Len(buf') = m - d /\ buf' \in Seq(Char) /\ start \in 0 .. m - d
  BY <1>2, <1>3, <1>4, <1>6, <1>7 DEF m, d
<1>9. /\ g \in Seq(Fold) /\ Len(g) <= Len(fold) /\ Ordered(g) /\ Fits(g, m - d)
      /\ \A j \in 1 .. Len(g) : g[j].end <= start \/ start <= g[j].start
  BY <1>1, <1>6, AdjustDeleteFacts DEF m
<1>. HIDE DEF g
<1>10. OutOf(buf', g, start)
  BY <1>9, NoFoldAround
<1>11. Len(g) <= MaxFolds
  <2>1. Len(g) \in Nat /\ Len(fold) \in Nat /\ MaxFolds \in Nat
    BY <1>1, <1>9, FoldFacts, FoldsAssumption
  <2>. QED
    BY <1>1, <1>9, <2>1
<1>. QED
  BY <1>5, <1>8, <1>9, <1>10, <1>11 DEF FoldsAt, m, d

LEMMA InsertFacts ==
  ASSUME IInv, NEW text \in Seq(Char), linenoiseEditInsertNoRefresh(text)
  PROVE  /\ buf' \in Seq(Char) /\ Len(buf') = Len(buf) + Len(text)
         /\ pos' = pos + Len(text) /\ pos' \in 0 .. Len(buf')
<1>. DEFINE l == Len(buf)
            n == Len(text)
            ab == Before \o text
<1>1. /\ buf \in Seq(Char) /\ l \in Nat /\ pos \in 0 .. l
      /\ n \in Nat
  BY LineFacts
<1>2. Before \in Seq(Char) /\ Len(Before) = pos
  BY <1>1 DEF Before
<1>3. After \in Seq(Char) /\ Len(After) = l - pos
  BY <1>1 DEF After
<1>. HIDE DEF n, l
<1>4. ab \in Seq(Char) /\ Len(ab) = pos + n
  BY <1>2 DEF n
<1>5. buf' = ab \o After /\ pos' = pos + n
  BY DEF linenoiseEditInsertNoRefresh, n
<1>. HIDE DEF ab
<1>6. ab \o After \in Seq(Char) /\ Len(ab \o After) = Len(ab) + Len(After)
  BY <1>3, <1>4
<1>7. Len(buf') = l + n
  BY <1>1, <1>3, <1>4, <1>5, <1>6
<1>. QED
  BY <1>1, <1>5, <1>6, <1>7 DEF l, n

\* The folds that are left, and where they are, when n characters are inserted.
LEMMA InsertFolds ==
  ASSUME IInv, NEW n \in Nat
  PROVE  LET g == linenoiseAdjustFoldsAfterInsert(fold, pos, n) IN
         /\ g \in Seq(Fold) /\ Len(g) <= MaxFolds /\ Ordered(g) /\ Fits(g, Len(buf) + n)
         /\ \A j \in 1 .. Len(g) : g[j].end <= pos \/ pos + n <= g[j].start
<1>. DEFINE g == linenoiseAdjustFoldsAfterInsert(fold, pos, n)
<1>1. /\ Len(buf) \in Nat /\ pos \in Nat /\ pos <= Len(buf) /\ fold \in Seq(Fold)
      /\ Len(fold) <= MaxFolds /\ Ordered(fold) /\ Fits(fold, Len(buf))
  BY LineFacts
<1>2. /\ g \in Seq(Fold) /\ Len(g) <= Len(fold) /\ Ordered(g) /\ Fits(g, Len(buf) + n)
      /\ \A j \in 1 .. Len(g) : g[j].end <= pos \/ pos + n <= g[j].start
  BY <1>1, AdjustInsertFacts
<1>. HIDE DEF g
<1>3. Len(g) \in Nat /\ Len(fold) \in Nat /\ MaxFolds \in Nat
  BY <1>1, <1>2, FoldFacts, FoldsAssumption
<1>4. Len(g) <= MaxFolds
  BY <1>1, <1>2, <1>3
<1>. QED
  BY <1>2, <1>4 DEF g

\* Both sides of what has been inserted are out of the folds that are left.
LEMMA AfterInsert ==
  ASSUME NEW text, NEW fs \in Seq(Fold), NEW p \in Nat, NEW n \in Nat,
         \A j \in 1 .. Len(fs) : fs[j].end <= p \/ p + n <= fs[j].start
  PROVE  OutOf(text, fs, p + n)
<1>1. ASSUME NEW j \in 1 .. Len(fs) PROVE fs[j].end <= p + n \/ p + n <= fs[j].start
  <2>1. fs[j].start \in Nat /\ fs[j].end \in Nat
    BY FoldFacts
  <2>. QED
    BY <2>1
<1>. QED
  BY <1>1, NoFoldAround
-----------------------------------------------------------------------------
(* The keys. *)

\* The memory of the line, when it has to hold needed characters.
LEMMA GrowFacts ==
  ASSUME IInv, NEW needed \in Nat, linenoiseEditGrow(needed)
  PROVE  buflen' \in 1 .. MaxLine /\ needed <= buflen'
<1>1. buflen \in 1 .. MaxLine /\ MaxLine \in Nat /\ needed <= MaxLine
  BY LineFacts, LineEditAssumption DEF linenoiseEditGrow
<1>2. Grown(buflen, needed, MaxLine) \in needed .. MaxLine
  BY <1>1, GrownFacts
<1>3. CASE needed <= buflen
  BY <1>1, <1>3 DEF linenoiseEditGrow
<1>4. CASE ~ (needed <= buflen)
  BY <1>1, <1>2, <1>4 DEF linenoiseEditGrow
<1>. QED
  BY <1>3, <1>4

\* The actions that do not read a paste keep NoPaste.
LEMMA EditingFacts ==
  ASSUME IInv, Editing
  PROVE  paste' = NoPaste /\ sent' = <<>> /\ mode = "edit"
BY DEF IInv, Editing

LEMMA MoveKeeps ==
  ASSUME IInv, Editing, mode' = mode, UNCHANGED <<buf, fold, buflen>>,
         pos' \in 0 .. Len(buf), OutOf(buf, fold, pos')
  PROVE  IInv'
<1>1. FoldsAt(buf', fold', pos')
  BY DEF IInv, FoldsAt
<1>. QED
  BY <1>1, LineFacts, EditingFacts, Settled

LEMMA KeyInsert == ASSUME IInv, linenoiseEditInsert PROVE IInv'
<1>1. PICK c \in Typed :
        \/ /\ linenoiseEditGrow(Len(buf) + 1)
           /\ linenoiseEditInsertNoRefresh(<<c>>)
           /\ fold' = linenoiseAdjustFoldsAfterInsert(fold, pos, 1)
        \/ UNCHANGED <<buf, pos, fold, buflen>>
  BY DEF linenoiseEditInsert
<1>2. Editing /\ mode' = mode /\ Len(buf) \in Nat /\ pos \in Nat
  BY LineFacts DEF linenoiseEditInsert
<1>3. CASE UNCHANGED <<buf, pos, fold, buflen>>
  BY <1>2, <1>3, LineFacts, MoveKeeps
<1>4. CASE /\ linenoiseEditGrow(Len(buf) + 1)
           /\ linenoiseEditInsertNoRefresh(<<c>>)
           /\ fold' = linenoiseAdjustFoldsAfterInsert(fold, pos, 1)
  <2>1. <<c>> \in Seq(Char) /\ Len(<<c>>) = 1
    BY DEF Char
  <2>2. /\ buf' \in Seq(Char) /\ Len(buf') = Len(buf) + 1
        /\ pos' = pos + 1 /\ pos' \in 0 .. Len(buf')
    BY <1>4, <2>1, InsertFacts
  <2>3. /\ fold' \in Seq(Fold) /\ Len(fold') <= MaxFolds /\ Ordered(fold')
        /\ Fits(fold', Len(buf) + 1)
        /\ \A j \in 1 .. Len(fold') : fold'[j].end <= pos \/ pos + 1 <= fold'[j].start
    BY <1>4, InsertFolds
  <2>4. OutOf(buf', fold', pos')
    BY <1>2, <2>2, <2>3, AfterInsert
  <2>5. FoldsAt(buf', fold', pos')
    BY <2>2, <2>3, <2>4 DEF FoldsAt
  <2>6. buflen' \in 1 .. MaxLine /\ Len(buf') <= buflen'
    BY <1>2, <1>4, <2>2, GrowFacts
  <2>7. mode' = "edit"
    BY <1>2, EditingFacts
  <2>. QED
    BY <1>2, <2>2, <2>5, <2>6, <2>7, EditingFacts, Settled
<1>. QED
  BY <1>1, <1>3, <1>4

LEMMA KeyLeft == ASSUME IInv, linenoiseEditMoveLeft PROVE IInv'
<1>1. /\ buf \in Seq(Char) /\ fold \in Seq(Fold) /\ Ordered(fold) /\ Fits(fold, Len(buf))
      /\ OutOf(buf, fold, pos)
  BY LineFacts
<1>2. pos \in 1 .. Len(buf)
  BY LineFacts DEF linenoiseEditMoveLeft
<1>3. pos' \in 0 .. pos - 1 /\ OutOf(buf, fold, pos')
  BY <1>1, <1>2, PrevLenFacts DEF linenoiseEditMoveLeft, PrevLen
<1>4. pos' \in 0 .. Len(buf)
  BY <1>2, <1>3
<1>. QED
  BY <1>3, <1>4, MoveKeeps DEF linenoiseEditMoveLeft

LEMMA KeyRight == ASSUME IInv, linenoiseEditMoveRight PROVE IInv'
<1>1. /\ buf \in Seq(Char) /\ fold \in Seq(Fold) /\ Ordered(fold) /\ Fits(fold, Len(buf))
      /\ OutOf(buf, fold, pos)
  BY LineFacts
<1>2. pos \in 0 .. Len(buf) - 1
  BY LineFacts DEF linenoiseEditMoveRight
<1>3. pos' \in pos + 1 .. Len(buf) /\ OutOf(buf, fold, pos')
  BY <1>1, <1>2, NextLenFacts DEF linenoiseEditMoveRight, NextLen
<1>4. pos' \in 0 .. Len(buf)
  BY <1>2, <1>3
<1>. QED
  BY <1>3, <1>4, MoveKeeps DEF linenoiseEditMoveRight

\* No fold goes beyond the ends of the line.
LEMMA EndsOutOf ==
  ASSUME NEW text, NEW fs \in Seq(Fold), Len(text) \in Nat, Fits(fs, Len(text))
  PROVE  OutOf(text, fs, 0) /\ OutOf(text, fs, Len(text))
<1>1. \A j \in 1 .. Len(fs) : 0 <= fs[j].start /\ fs[j].end <= Len(text)
  BY FoldFacts DEF Fits
<1>. QED
  BY <1>1, NoFoldAround

LEMMA KeyHomeEnd == ASSUME IInv, MoveHomeEnd PROVE IInv'
<1>1. /\ Len(buf) \in Nat /\ fold \in Seq(Fold) /\ Fits(fold, Len(buf))
  BY LineFacts
<1>2. OutOf(buf, fold, 0) /\ OutOf(buf, fold, Len(buf))
  BY <1>1, EndsOutOf
<1>3. pos' \in 0 .. Len(buf) /\ OutOf(buf, fold, pos')
  BY <1>1, <1>2 DEF MoveHomeEnd
<1>. QED
  BY <1>3, MoveKeeps DEF MoveHomeEnd

\* A deletion that leaves the cursor where it happens.
LEMMA CutKeeps ==
  ASSUME IInv, Editing, UNCHANGED <<buflen, mode>>,
         NEW start \in Nat, NEW end \in start .. Len(buf), Cut(start, end), pos' = start
  PROVE  IInv'
<1>1. /\ buf' \in Seq(Char) /\ Len(buf') = Len(buf) - (end - start)
      /\ start \in 0 .. Len(buf') /\ FoldsAt(buf', fold', start)
  BY CutFacts
<1>2. Len(buf) \in Nat /\ buflen \in 1 .. MaxLine /\ Len(buf) <= buflen /\ MaxLine \in Nat
  BY LineFacts, LineEditAssumption
<1>3. Len(buf') <= buflen'
  BY <1>1, <1>2
<1>. QED
  BY <1>1, <1>2, <1>3, EditingFacts, Settled

LEMMA KeyDelete == ASSUME IInv, linenoiseEditDelete PROVE IInv'
<1>1. /\ buf \in Seq(Char) /\ fold \in Seq(Fold) /\ Ordered(fold) /\ Fits(fold, Len(buf))
  BY LineFacts
<1>2. pos \in 0 .. Len(buf) - 1
  BY LineFacts DEF linenoiseEditDelete
<1>3. pos + NextLen(pos) \in pos + 1 .. Len(buf)
  BY <1>1, <1>2, NextLenFacts DEF NextLen
<1>4. pos + NextLen(pos) \in pos .. Len(buf) /\ pos \in Nat
  BY <1>2, <1>3
<1>. QED
  BY <1>4, CutKeeps DEF linenoiseEditDelete

LEMMA KeyBackspace == ASSUME IInv, linenoiseEditBackspace PROVE IInv'
<1>1. /\ buf \in Seq(Char) /\ fold \in Seq(Fold) /\ Ordered(fold) /\ Fits(fold, Len(buf))
  BY LineFacts
<1>2. pos \in 1 .. Len(buf)
  BY LineFacts DEF linenoiseEditBackspace
<1>. DEFINE q == pos - PrevLen(pos)
<1>3. q \in 0 .. pos - 1
  BY <1>1, <1>2, PrevLenFacts DEF PrevLen
<1>4. Editing /\ UNCHANGED <<buflen, mode>> /\ Cut(q, pos) /\ pos' = q
  BY DEF linenoiseEditBackspace
<1>. HIDE DEF q
<1>5. q \in Nat /\ pos \in q .. Len(buf)
  BY <1>2, <1>3
<1>. QED
  BY <1>4, <1>5, CutKeeps

LEMMA KeyDeletePrevWord == ASSUME IInv, linenoiseEditDeletePrevWord PROVE IInv'
<1>1. WordStart \in 0 .. pos /\ pos \in 0 .. Len(buf)
  BY LineFacts, WordStartFacts
<1>2. WordStart \in Nat /\ pos \in WordStart .. Len(buf)
  BY <1>1
<1>. QED
  BY <1>2, CutKeeps DEF linenoiseEditDeletePrevWord

LEMMA KeyDeleteToEnd == ASSUME IInv, DeleteToEnd PROVE IInv'
<1>1. pos \in Nat /\ Len(buf) \in pos .. Len(buf)
  BY LineFacts
<1>. QED
  BY <1>1, CutKeeps DEF DeleteToEnd

LEMMA NoFolds ==
  ASSUME NEW text, Len(text) \in Nat, NEW p
  PROVE  FoldsAt(text, <<>>, p)
<1>1. <<>> \in Seq(Fold) /\ Len(<<>>) = 0 /\ MaxFolds \in Nat
  BY FoldsAssumption
<1>. QED
  BY <1>1 DEF FoldsAt, Ordered, Fits, OutOf

LEMMA KeyDeleteLine == ASSUME IInv, DeleteLine PROVE IInv'
<1>1. <<>> \in Seq(Char) /\ Len(<<>>) = 0
  OBVIOUS
<1>2. /\ buf' = <<>> /\ pos' = 0 /\ fold' = <<>> /\ Editing /\ UNCHANGED <<buflen, mode>>
  BY DEF DeleteLine
<1>3. FoldsAt(buf', fold', pos')
  BY <1>1, <1>2, NoFolds
<1>4. buflen' \in 1 .. MaxLine /\ MaxLine \in Nat
  BY <1>2, LineFacts, LineEditAssumption
<1>5. buf' \in Seq(Char) /\ pos' \in 0 .. Len(buf') /\ Len(buf') <= buflen'
  BY <1>1, <1>2, <1>4
<1>6. mode' = "edit"
  BY <1>2, EditingFacts
<1>. QED
  BY <1>2, <1>3, <1>4, <1>5, <1>6, EditingFacts, Settled

LEMMA KeyEnter == ASSUME IInv, Enter PROVE IInv'
<1>1. /\ buf \in Seq(Char) /\ Len(buf) \in Nat /\ fold \in Seq(Fold) /\ Fits(fold, Len(buf))
      /\ buflen \in 1 .. MaxLine /\ Len(buf) <= buflen
  BY LineFacts
<1>2. OutOf(buf, fold, Len(buf))
  BY <1>1, EndsOutOf
<1>3. /\ UNCHANGED <<buf, fold, buflen>> /\ pos' = Len(buf) /\ mode' = "line" /\ Editing
  BY DEF Enter
<1>4. FoldsAt(buf', fold', pos')
  BY <1>2, <1>3 DEF IInv, FoldsAt
<1>. QED
  BY <1>1, <1>3, <1>4, EditingFacts, Settled

LEMMA KeyGiveUp == ASSUME IInv, GiveUp PROVE IInv'
<1>1. /\ UNCHANGED <<paste, sent, buf, pos, fold, buflen>> /\ mode # "paste"
      /\ mode' \in {"interrupted", "eof", "nil"}
  BY DEF GiveUp
<1>2. paste' = NoPaste /\ sent' = <<>> /\ FoldsAt(buf', fold', pos')
  BY <1>1 DEF IInv, FoldsAt
<1>. QED
  BY <1>1, <1>2, LineFacts, Settled
\* The places of the parts that ctrl-t swaps.
LEMMA SwapFacts ==
  ASSUME IInv, SwapChars
  PROVE  LET prevlen == PrevLen(pos)
             currlen == NextLen(pos)
             start   == pos - prevlen
         IN  /\ prevlen \in 1 .. pos /\ start \in 0 .. pos - 1
             /\ currlen \in Nat /\ pos + currlen \in pos + 1 .. Len(buf)
             /\ start + (prevlen + currlen) = pos + currlen
<1>1. /\ buf \in Seq(Char) /\ fold \in Seq(Fold) /\ Ordered(fold) /\ Fits(fold, Len(buf))
      /\ Len(buf) \in Nat /\ pos \in 0 .. Len(buf)
  BY LineFacts
<1>2. pos \in 1 .. Len(buf) /\ pos \in 0 .. Len(buf) - 1
  BY <1>1 DEF SwapChars
<1>3. PrevLen(pos) \in 1 .. pos /\ pos - PrevLen(pos) \in 0 .. pos - 1
  BY <1>1, <1>2, PrevLenFacts DEF PrevLen
<1>4. NextLen(pos) \in Nat /\ pos + NextLen(pos) \in pos + 1 .. Len(buf)
  BY <1>1, <1>2, NextLenFacts DEF NextLen
<1>5. pos - PrevLen(pos) + (PrevLen(pos) + NextLen(pos)) = pos + NextLen(pos)
  BY <1>2, <1>3, <1>4
<1>. QED
  BY <1>3, <1>4, <1>5

LEMMA KeySwap == ASSUME IInv, SwapChars PROVE IInv'
<1>. DEFINE prevlen == PrevLen(pos)
            currlen == NextLen(pos)
            start   == pos - prevlen
            end     == pos + currlen
            l       == Len(buf)
<1>1. /\ prevlen \in 1 .. pos /\ start \in 0 .. pos - 1 /\ currlen \in Nat
      /\ end \in pos + 1 .. l /\ start + (prevlen + currlen) = end
  BY SwapFacts
<1>2. /\ Editing /\ UNCHANGED <<fold, buflen, mode>> /\ pos' = end
      /\ ~ linenoiseRangeOverlapsFold(fold, start, prevlen + currlen)
      /\ buf' = SubSeq(buf, 1, start) \o SubSeq(buf, pos + 1, end)
                  \o SubSeq(buf, start + 1, pos) \o SubSeq(buf, end + 1, l)
  BY DEF SwapChars
<1>3. /\ buf \in Seq(Char) /\ l \in Nat /\ pos \in 0 .. l /\ l <= buflen
      /\ fold \in Seq(Fold) /\ Ordered(fold) /\ Fits(fold, l) /\ Len(fold) <= MaxFolds
      /\ buflen \in 1 .. MaxLine
  BY LineFacts
<1>. HIDE DEF prevlen, currlen, start, end
<1>4. buf' \in Seq(Char) /\ Len(buf') = l
  <2>. DEFINE a == SubSeq(buf, 1, start)
              b == SubSeq(buf, pos + 1, end)
              c == SubSeq(buf, start + 1, pos)
              d == SubSeq(buf, end + 1, l)
  <2>1. a \in Seq(Char) /\ Len(a) = start
    BY <1>1, <1>3
  <2>2. b \in Seq(Char) /\ Len(b) = end - pos
    BY <1>1, <1>3
  <2>3. c \in Seq(Char) /\ Len(c) = pos - start
    BY <1>1, <1>3
  <2>4. d \in Seq(Char) /\ Len(d) = l - end
    BY <1>1, <1>3
  <2>5. buf' = a \o b \o c \o d
    BY <1>2
  <2>. HIDE DEF a, b, c, d, l
  <2>6. buf' \in Seq(Char) /\ Len(buf') = Len(a) + Len(b) + Len(c) + Len(d)
    <3>. DEFINE p == a \o b
                q == p \o c
                r == q \o d
    <3>1. p \in Seq(Char) /\ Len(p) = Len(a) + Len(b)
      BY <2>1, <2>2
    <3>2. buf' = r
      BY <2>5
    <3>. HIDE DEF p
    <3>3. q \in Seq(Char) /\ Len(q) = Len(p) + Len(c)
      BY <2>3, <3>1
    <3>. HIDE DEF q
    <3>4. r \in Seq(Char) /\ Len(r) = Len(q) + Len(d)
      BY <2>4, <3>3
    <3>. HIDE DEF r
    <3>. QED
      BY <3>1, <3>2, <3>3, <3>4
  <2>7. Len(buf') = start + (end - pos) + (pos - start) + (l - end)
    BY <2>1, <2>2, <2>3, <2>4, <2>6
  <2>8. start + (end - pos) + (pos - start) + (l - end) = l
    BY <1>1, <1>3
  <2>. QED
    BY <2>6, <2>7, <2>8
<1>. HIDE DEF l
<1>5. ASSUME NEW j \in 1 .. Len(fold) PROVE fold[j].end <= end \/ end <= fold[j].start
  <2>1. fold[j].start \in Nat /\ fold[j].end \in Nat /\ fold[j] \in ToSet(fold)
    BY <1>3, FoldFacts, ToSetFacts
  <2>2. ~ (end > fold[j].start /\ start < fold[j].end)
    BY <1>1, <1>2, <2>1 DEF linenoiseRangeOverlapsFold
  <2>. QED
    BY <1>1, <1>3, <2>1, <2>2
<1>6. OutOf(buf', fold, end)
  <2>1. end \in Nat
    BY <1>1, <1>3
  <2>. QED
    BY <1>3, <1>5, <2>1, NoFoldAround
<1>7. FoldsAt(buf', fold', pos')
  BY <1>2, <1>3, <1>4, <1>6 DEF FoldsAt
<1>8. pos' \in 0 .. Len(buf') /\ buflen' \in 1 .. MaxLine /\ Len(buf') <= buflen'
  BY <1>1, <1>2, <1>3, <1>4
<1>9. mode' = "edit"
  BY <1>2, EditingFacts
<1>. QED
  BY <1>2, <1>4, <1>7, <1>8, <1>9, EditingFacts, Settled

\* The fold of a line that is recalled.
LEMMA RecalledFolds ==
  ASSUME NEW text \in Seq(Char)
  PROVE  LET f == linenoiseBuildHistoryFold(text) IN
         FoldsAt(text, linenoiseFoldAdd(<<>>, f.start, f.end), Len(text))
<1>. DEFINE f == linenoiseBuildHistoryFold(text)
            g == linenoiseFoldAdd(<<>>, f.start, f.end)
<1>1. f.start \in Nat /\ f.end \in 0 .. Len(text)
  BY HistoryFoldFacts
<1>2. Len(text) \in Nat /\ f.end \in Nat
  BY <1>1
<1>. HIDE DEF f
<1>3. <<>> \in Seq(Fold) /\ Len(<<>>) = 0 /\ Len(<<>>) <= MaxFolds /\ Ordered(<<>>)
  BY FoldsAssumption DEF Ordered
<1>4. \A j \in 1 .. Len(<<>>) : <<>>[j].end <= f.start \/ f.end <= <<>>[j].start
  BY <1>3
<1>5. /\ g \in Seq(Fold) /\ Len(g) <= MaxFolds /\ Ordered(g)
      /\ \A j \in 1 .. Len(g) : \/ g[j] = Range2(f.start, f.end)
                                \/ \E k \in 1 .. Len(<<>>) : g[j] = <<>>[k]
  <2>. DEFINE fs == <<>>
  <2>1. fs \in Seq(Fold) /\ Ordered(fs) /\ Len(fs) <= MaxFolds
    BY <1>3
  <2>2. \A j \in 1 .. Len(fs) : fs[j].end <= f.start \/ f.end <= fs[j].start
    BY <1>4
  <2>. HIDE DEF fs
  <2>3. LET h == linenoiseFoldAdd(fs, f.start, f.end) IN
        /\ h \in Seq(Fold) /\ Len(h) <= MaxFolds /\ Ordered(h)
        /\ \A j \in 1 .. Len(h) : \/ h[j] = Range2(f.start, f.end)
                                  \/ \E k \in 1 .. Len(fs) : h[j] = fs[k]
    BY <1>1, <1>2, <2>1, <2>2, FoldAddFacts
  <2>. QED
    BY <2>3 DEF fs
<1>. HIDE DEF g
<1>6. Fits(g, Len(text))
  <2>1. ASSUME NEW j \in 1 .. Len(g) PROVE g[j].end <= Len(text)
    <3>1. g[j] = Range2(f.start, f.end)
      BY <1>3, <1>5
    <3>. QED
      BY <1>1, <1>2, <3>1 DEF Range2
  <2>. QED
    BY <2>1 DEF Fits
<1>7. OutOf(text, g, Len(text))
  BY <1>2, <1>5, <1>6, EndsOutOf
<1>8. FoldsAt(text, g, Len(text))
  BY <1>5, <1>6, <1>7 DEF FoldsAt
<1>. QED
  BY <1>8 DEF f, g

LEMMA KeyHistoryNext == ASSUME IInv, linenoiseEditHistoryNext PROVE IInv'
<1>1. PICK text \in Recalled :
        \/ linenoiseEditGrow(Len(text)) /\ buf' = text
        \/ Len(text) > MaxLine /\ buf' = SubSeq(text, 1, buflen) /\ UNCHANGED buflen
  BY DEF linenoiseEditHistoryNext
<1>2. /\ Editing /\ mode' = mode /\ pos' = Len(buf')
      /\ fold' = IF shouldFoldText(buf')
                 THEN LET f == linenoiseBuildHistoryFold(buf')
                      IN  linenoiseFoldAdd(<<>>, f.start, f.end)
                 ELSE <<>>
  BY DEF linenoiseEditHistoryNext
<1>3. text \in Seq(Char) /\ Len(text) \in Nat
  <2>1. text \in Seq(ToSet(text))
    BY LineEditAssumption
  <2>2. ToSet(text) \subseteq Char
    BY DEF Char
  <2>3. Len(text) \in Nat /\ \A j \in 1 .. Len(text) : text[j] \in Char
    BY <2>1, <2>2
  <2>. HIDE DEF Char
  <2>. QED
    BY <2>1, <2>3
<1>4. buflen \in 1 .. MaxLine /\ MaxLine \in Nat
  BY LineFacts, LineEditAssumption
<1>5. buf' \in Seq(Char) /\ Len(buf') <= buflen' /\ buflen' \in 1 .. MaxLine
  <2>1. CASE linenoiseEditGrow(Len(text)) /\ buf' = text
    BY <1>3, <2>1, GrowFacts
  <2>2. CASE Len(text) > MaxLine /\ buf' = SubSeq(text, 1, buflen) /\ UNCHANGED buflen
    <3>1. buflen <= Len(text)
      BY <1>3, <1>4, <2>2
    <3>2. SubSeq(text, 1, buflen) \in Seq(Char) /\ Len(SubSeq(text, 1, buflen)) = buflen
      BY <1>3, <1>4, <3>1
    <3>. QED
      BY <1>4, <2>2, <3>2
  <2>. QED
    BY <1>1, <2>1, <2>2
<1>6. Len(buf') \in Nat
  BY <1>5
<1>7. FoldsAt(buf', fold', pos')
  <2>. DEFINE t == buf'
  <2>. HIDE DEF t
  <2>0. t \in Seq(Char) /\ Len(t) \in Nat
    BY <1>5, <1>6 DEF t
  <2>1. LET f == linenoiseBuildHistoryFold(t) IN
        FoldsAt(t, linenoiseFoldAdd(<<>>, f.start, f.end), Len(t))
    BY <2>0, RecalledFolds
  <2>2. FoldsAt(t, <<>>, Len(t))
    BY <2>0, NoFolds
  <2>. QED
    BY <1>2, <2>1, <2>2 DEF t
<1>8. pos' \in 0 .. Len(buf')
  BY <1>2, <1>6
<1>9. mode' = "edit"
  BY <1>2, EditingFacts
<1>. QED
  BY <1>2, <1>5, <1>7, <1>8, <1>9, EditingFacts, Settled
-----------------------------------------------------------------------------
(* Pastes. *)

LEMMA KeyStartPaste == ASSUME IInv, StartPaste PROVE IInv'
<1>1. /\ paste' = NoPaste /\ sent' = <<>> /\ mode' = "paste"
      /\ UNCHANGED <<buf, pos, fold, buflen>>
  BY DEF StartPaste
<1>2. FoldsAt(buf', fold', pos')
  BY <1>1 DEF IInv, FoldsAt
<1>. QED
  BY <1>1, <1>2, LineFacts, Settled

\* The room of a paste that has been read.
Fitting(p, max) ==
  p \in PasteRecord /\ Len(p.text) <= max /\ Len(p.text) <= p.cap

LEMMA AppendFacts ==
  ASSUME MaxPaste \in 0 .. MaxLine, NEW p, Fitting(p, MaxPaste), NEW text \in Seq(Char)
  PROVE  LET r == pasteBufferAppend(p, text) IN
         /\ Fitting(r, MaxPaste) /\ r.match = p.match
         /\ p.overflowed => r.overflowed
         /\ ~p.overflowed /\ r.overflowed => Len(p.text) + Len(text) > MaxPaste
         /\ ~r.overflowed => r.text = p.text \o text
<1>. DEFINE n == Len(text)
            l == Len(p.text)
            needed == l + n
            new == p.text \o text
            size == IF p.cap = 0 THEN InitialPaste ELSE p.cap
            cap == IF p.cap >= needed THEN p.cap ELSE Grown(size, needed, MaxLine)
            r == pasteBufferAppend(p, text)
<1>1. /\ p \in PasteRecord /\ p.text \in Seq(Char) /\ p.match \in Nat
      /\ p.cap \in 0 .. MaxLine /\ p.overflowed \in BOOLEAN
      /\ l <= MaxPaste /\ l <= p.cap
  BY DEF Fitting, PasteRecord
<1>2. n \in Nat /\ l \in Nat /\ MaxLine \in Nat /\ InitialPaste \in 1 .. MaxLine
  BY <1>1, LineEditAssumption
<1>3. new \in Seq(Char) /\ Len(new) = needed
  BY <1>1
<1>4. /\ p.overflowed => r = p
      /\ ~p.overflowed /\ needed > MaxPaste => r = [p EXCEPT !.overflowed = TRUE]
      /\ ~p.overflowed /\ ~(needed > MaxPaste) => r = [p EXCEPT !.text = new, !.cap = cap]
  BY DEF pasteBufferAppend
<1>. HIDE DEF n, l, new, r
<1>5. CASE p.overflowed
  BY <1>1, <1>4, <1>5 DEF Fitting, l, r
<1>6. CASE ~p.overflowed /\ needed > MaxPaste
  <2>1. /\ r \in PasteRecord /\ r.text = p.text /\ r.match = p.match /\ r.cap = p.cap
        /\ r.overflowed = TRUE
    BY <1>1, <1>4, <1>6 DEF PasteRecord
  <2>. QED
    BY <1>1, <1>6, <2>1 DEF Fitting, l, n, r
<1>7. CASE ~p.overflowed /\ ~(needed > MaxPaste)
  <2>1. cap \in needed .. MaxLine
    <3>1. CASE p.cap >= needed
      BY <1>1, <1>2, <3>1
    <3>2. CASE ~ (p.cap >= needed)
      <4>1. size \in 1 .. MaxLine
        BY <1>1, <1>2
      <4>2. needed \in Nat /\ needed <= MaxLine
        BY <1>2, <1>7
      <4>. HIDE DEF size, needed
      <4>. QED
        BY <1>2, <3>2, <4>1, <4>2, GrownFacts
    <3>. QED
      BY <3>1, <3>2
  <2>2. cap \in 0 .. MaxLine /\ needed <= cap
    BY <1>2, <2>1
  <2>. HIDE DEF cap
  <2>3. /\ r \in PasteRecord /\ r.text = new /\ r.match = p.match /\ r.cap = cap
        /\ r.overflowed = FALSE
    BY <1>1, <1>3, <1>4, <1>7, <2>2 DEF PasteRecord
  <2>4. needed <= MaxPaste
    BY <1>2, <1>7
  <2>. QED
    BY <1>3, <1>7, <2>2, <2>3, <2>4 DEF Fitting, new, r
<1>. QED
  BY <1>5, <1>6, <1>7 DEF r, n, l

\* One more element of PasteEnd.
LEMMA PasteEndFacts ==
  /\ PasteEnd \in Seq(Char) /\ Len(PasteEnd) \in Nat /\ 0 < Len(PasteEnd)
  /\ \A k \in Nat : k <= Len(PasteEnd) => /\ SubSeq(PasteEnd, 1, k) \in Seq(Char)
                                          /\ Len(SubSeq(PasteEnd, 1, k)) = k
  /\ \A k \in Nat : k < Len(PasteEnd) =>
       SubSeq(PasteEnd, 1, k + 1) = Append(SubSeq(PasteEnd, 1, k), PasteEnd[k+1])
  /\ SubSeq(PasteEnd, 1, 1) = <<PasteEnd[1]>>
<1>1. PasteEnd \in Seq(ToSet(PasteEnd)) /\ PasteEnd # <<>>
  BY LineEditAssumption
<1>2. ToSet(PasteEnd) \subseteq Char
  BY DEF Char
<1>3. PasteEnd \in Seq(Char)
  <2>1. Len(PasteEnd) \in Nat /\ \A j \in 1 .. Len(PasteEnd) : PasteEnd[j] \in Char
    BY <1>1, <1>2
  <2>. HIDE DEF Char
  <2>. QED
    BY <1>1, <2>1
<1>4. Len(PasteEnd) \in Nat /\ 0 < Len(PasteEnd)
  BY <1>1, <1>3
<1>5. ASSUME NEW k \in Nat, k <= Len(PasteEnd)
      PROVE  SubSeq(PasteEnd, 1, k) \in Seq(Char) /\ Len(SubSeq(PasteEnd, 1, k)) = k
  BY <1>3, <1>5
<1>6. ASSUME NEW k \in Nat, k < Len(PasteEnd)
      PROVE  SubSeq(PasteEnd, 1, k + 1) = Append(SubSeq(PasteEnd, 1, k), PasteEnd[k+1])
  BY <1>3, <1>6
<1>7. SubSeq(PasteEnd, 1, 1) = <<PasteEnd[1]>>
  <2>. DEFINE t == SubSeq(PasteEnd, 1, 1)
  <2>1. t \in Seq(Char) /\ Len(t) = 1 /\ t[1] = PasteEnd[1]
    BY <1>3, <1>4
  <2>. HIDE DEF t
  <2>2. t = <<t[1]>>
    BY <2>1
  <2>. QED
    BY <2>1, <2>2 DEF t
<1>. QED
  BY <1>3, <1>4, <1>5, <1>6, <1>7

\* What has been read follows what is sent.
LEMMA PasteCharFacts ==
  ASSUME IInv, NEW c \in Pasted,
         ~ (c = PasteEnd[paste.match + 1] /\ paste.match + 1 = Len(PasteEnd))
  PROVE  LET r == PasteChar(c) IN
         /\ Fitting(r, MaxPaste) /\ r.match < Len(PasteEnd)
         /\ Reading(r, Append(sent, c), MaxPaste)
<1>. DEFINE m == paste.match
            l == Len(PasteEnd)
            part == SubSeq(PasteEnd, 1, m)
            rest == pasteBufferAppend(paste, part)
            r == PasteChar(c)
            s == Append(sent, c)
            n == Len(sent)
            max == MaxPaste
<1>1. /\ paste \in PasteRecord /\ paste.text \in Seq(Char) /\ m \in Nat
      /\ paste.overflowed \in BOOLEAN /\ sent \in Seq(Char) /\ c \in Char
  BY DEF IInv, TypeOK, PasteRecord, Char
<1>2. /\ m < l /\ Len(paste.text) <= max /\ Len(paste.text) <= paste.cap
      /\ ~paste.overflowed => sent = paste.text \o part
      /\ paste.overflowed => n > max + m
  BY DEF IInv, Room, Reading
<1>3. max \in 0 .. MaxLine /\ max \in Nat /\ MaxLine \in Nat
  <2>1. max \in 0 .. MaxLine /\ MaxLine \in Nat
    BY LineFacts, LineEditAssumption
  <2>. HIDE DEF max
  <2>. QED
    BY <2>1
<1>4. /\ PasteEnd \in Seq(Char) /\ l \in Nat /\ 0 < l
      /\ part \in Seq(Char) /\ Len(part) = m
      /\ SubSeq(PasteEnd, 1, m + 1) = Append(part, PasteEnd[m+1])
  <2>1. PasteEnd \in Seq(Char) /\ l \in Nat /\ 0 < l
    BY PasteEndFacts
  <2>2. m <= l
    BY <1>1, <1>2, <2>1
  <2>. HIDE DEF m
  <2>3. part \in Seq(Char) /\ Len(part) = m
    BY <1>1, <2>2, PasteEndFacts
  <2>4. SubSeq(PasteEnd, 1, m + 1) = Append(part, PasteEnd[m+1])
    BY <1>1, <1>2, PasteEndFacts
  <2>. QED
    BY <2>1, <2>3, <2>4
<1>5. n \in Nat /\ s \in Seq(Char) /\ Len(s) = n + 1
  BY <1>1
<1>6. Fitting(paste, max)
  BY <1>1, <1>2 DEF Fitting
<1>7. ~paste.overflowed => n = Len(paste.text) + m /\ Len(paste.text) \in Nat
  <2>1. Len(paste.text) \in Nat /\ Len(paste.text \o part) = Len(paste.text) + Len(part)
    BY <1>1, <1>4
  <2>. QED
    BY <1>2, <1>4, <2>1
<1>8. /\ r = IF c = PasteEnd[m + 1] THEN [paste EXCEPT !.match = m + 1]
             ELSE IF c = PasteEnd[1] THEN [rest EXCEPT !.match = 1]
             ELSE pasteBufferAppend([rest EXCEPT !.match = 0], <<c>>)
      /\ ~ (c = PasteEnd[m + 1] /\ m + 1 = l)
  BY DEF PasteChar
<1>. HIDE DEF m, l, part, rest, r, n, max
<1>9. /\ Fitting(rest, max) /\ rest.match = m
      /\ rest.overflowed => n > max
      /\ ~rest.overflowed => rest.text = sent
      /\ rest \in PasteRecord /\ rest.text \in Seq(Char) /\ rest.overflowed \in BOOLEAN
      /\ rest.cap \in 0 .. MaxLine /\ Len(rest.text) <= max /\ Len(rest.text) <= rest.cap
  <2>1. /\ Fitting(rest, max) /\ rest.match = paste.match
        /\ paste.overflowed => rest.overflowed
        /\ ~paste.overflowed /\ rest.overflowed => Len(paste.text) + Len(part) > max
        /\ ~rest.overflowed => rest.text = paste.text \o part
    BY <1>3, <1>4, <1>6, AppendFacts DEF rest, max
  <2>2. rest.overflowed => n > max
    <3>1. CASE paste.overflowed
      BY <1>1, <1>2, <1>3, <1>5, <3>1
    <3>2. CASE ~paste.overflowed
      BY <1>4, <1>7, <2>1, <3>2
    <3>. QED
      BY <3>1, <3>2
  <2>3. ~rest.overflowed => rest.text = sent
    BY <1>2, <2>1
  <2>. QED
    BY <2>1, <2>2, <2>3 DEF Fitting, PasteRecord, m
<1>10. CASE c = PasteEnd[m + 1]
  <2>1. /\ r.text = paste.text /\ r.match = m + 1 /\ r.cap = paste.cap
        /\ r.overflowed = paste.overflowed /\ r \in PasteRecord
    BY <1>1, <1>8, <1>10 DEF PasteRecord
  <2>2. m + 1 < l
    BY <1>1, <1>2, <1>4, <1>8, <1>10
  <2>3. ASSUME ~r.overflowed PROVE s = r.text \o SubSeq(PasteEnd, 1, r.match)
    <3>1. SubSeq(PasteEnd, 1, r.match) = Append(part, c)
      BY <1>4, <1>10, <2>1
    <3>2. sent = paste.text \o part
      BY <1>2, <2>1, <2>3
    <3>3. Append(paste.text \o part, c) = paste.text \o Append(part, c)
      <4>. DEFINE a == paste.text
      <4>1. a \in Seq(Char) /\ part \in Seq(Char) /\ c \in Char
        BY <1>1, <1>4
      <4>. HIDE DEF a
      <4>2. Append(a \o part, c) = a \o Append(part, c)
        BY <4>1
      <4>. QED
        BY <4>2 DEF a
    <3>. QED
      BY <2>1, <3>1, <3>2, <3>3
  <2>4. ASSUME r.overflowed PROVE Len(s) > max + r.match
    BY <1>1, <1>2, <1>3, <1>5, <2>1, <2>4
  <2>5. Fitting(r, max)
    BY <1>2, <2>1 DEF Fitting
  <2>6. Reading(r, s, max)
    BY <1>2, <2>1, <2>3, <2>4 DEF Reading
  <2>. QED
    BY <2>1, <2>2, <2>5, <2>6 DEF r, max, l
<1>11. CASE c # PasteEnd[m + 1] /\ c = PasteEnd[1]
  <2>1. /\ r.text = rest.text /\ r.match = 1 /\ r.cap = rest.cap
        /\ r.overflowed = rest.overflowed /\ r \in PasteRecord
    BY <1>8, <1>9, <1>11 DEF PasteRecord
  <2>2. 1 < l
    <3>1. m # 0
      BY <1>1, <1>11
    <3>. QED
      BY <1>1, <1>2, <1>4, <3>1
  <2>3. ASSUME ~r.overflowed PROVE s = r.text \o SubSeq(PasteEnd, 1, r.match)
    <3>1. SubSeq(PasteEnd, 1, 1) = <<c>>
      BY <1>11, PasteEndFacts
    <3>2. Append(sent, c) = sent \o <<c>>
      BY <1>1
    <3>. QED
      BY <1>9, <2>1, <2>3, <3>1, <3>2
  <2>4. ASSUME r.overflowed PROVE Len(s) > max + r.match
    BY <1>3, <1>5, <1>9, <2>1, <2>4
  <2>5. Fitting(r, max)
    BY <1>9, <2>1 DEF Fitting
  <2>6. Reading(r, s, max)
    BY <1>9, <2>1, <2>3, <2>4 DEF Reading
  <2>. QED
    BY <2>1, <2>2, <2>5, <2>6 DEF r, max, l
<1>12. CASE c # PasteEnd[m + 1] /\ c # PasteEnd[1]
  <2>. DEFINE p == [rest EXCEPT !.match = 0]
              t == <<c>>
  <2>1. /\ p.text = rest.text /\ p.match = 0 /\ p.cap = rest.cap
        /\ p.overflowed = rest.overflowed /\ p \in PasteRecord
    BY <1>9 DEF PasteRecord
  <2>2. t \in Seq(Char) /\ Len(t) = 1
    BY <1>1
  <2>3. r = pasteBufferAppend(p, t)
    BY <1>8, <1>12
  <2>. HIDE DEF p, t
  <2>4. Fitting(p, max)
    BY <1>9, <2>1 DEF Fitting
  <2>5. /\ Fitting(r, max) /\ r.match = p.match
        /\ p.overflowed => r.overflowed
        /\ ~p.overflowed /\ r.overflowed => Len(p.text) + Len(t) > max
        /\ ~r.overflowed => r.text = p.text \o t
    BY <1>3, <2>2, <2>3, <2>4, AppendFacts DEF max
  <2>6. /\ Len(r.text) <= max /\ r.match = 0
    BY <2>1, <2>5 DEF Fitting
  <2>7. ASSUME ~r.overflowed PROVE s = r.text \o SubSeq(PasteEnd, 1, r.match)
    <3>1. r.text = sent \o t
      BY <1>9, <2>1, <2>5, <2>7
    <3>2. SubSeq(PasteEnd, 1, 0) = <<>>
      BY <1>4
    <3>3. sent \o <<c>> = Append(sent, c) /\ Append(sent, c) \o <<>> = Append(sent, c)
      BY <1>1
    <3>. QED
      BY <2>6, <3>1, <3>2, <3>3 DEF t
  <2>8. ASSUME r.overflowed PROVE Len(s) > max + r.match
    <3>1. CASE p.overflowed
      BY <1>3, <1>5, <1>9, <2>1, <2>6, <3>1
    <3>2. CASE ~p.overflowed
      <4>1. Len(p.text) = n
        BY <1>9, <2>1, <3>2 DEF n
      <4>2. n + 1 > max
        BY <2>2, <2>5, <2>8, <3>2, <4>1
      <4>. QED
        BY <1>3, <1>5, <2>6, <4>2
    <3>. QED
      BY <3>1, <3>2
  <2>9. Reading(r, s, max)
    BY <2>6, <2>7, <2>8 DEF Reading
  <2>. QED
    BY <1>4, <2>5, <2>6, <2>9 DEF r, max, l
<1>. QED
  BY <1>10, <1>11, <1>12

LEMMA KeyReadPaste == ASSUME IInv, ReadPaste PROVE IInv'
<1>1. PICK c \in Pasted :
        /\ ~ (c = PasteEnd[paste.match + 1] /\ paste.match + 1 = Len(PasteEnd))
        /\ paste' = PasteChar(c)
        /\ sent' = Append(sent, c)
        /\ linenoiseEditGrow(Len(buf) + Len(paste'.text))
  BY DEF ReadPaste
<1>2. UNCHANGED <<buf, pos, fold, mode>> /\ mode = "paste"
  BY DEF ReadPaste
<1>3. /\ Fitting(paste', MaxPaste) /\ paste'.match < Len(PasteEnd)
      /\ Reading(paste', sent', MaxPaste)
  BY <1>1, PasteCharFacts
<1>4. /\ paste' \in PasteRecord /\ paste'.text \in Seq(Char) /\ Len(paste'.text) <= paste'.cap
  BY <1>3 DEF Fitting, PasteRecord
<1>5. Len(buf) \in Nat /\ Len(paste'.text) \in Nat
  BY <1>4, LineFacts
<1>6. buflen' \in 1 .. MaxLine /\ Len(buf) + Len(paste'.text) <= buflen'
  BY <1>1, <1>5, GrowFacts
<1>7. sent' \in Seq(Char)
  BY <1>1 DEF IInv, TypeOK, Char
<1>8. TypeOK'
  BY <1>2, <1>4, <1>6, <1>7 DEF IInv, TypeOK
<1>9. FoldsAt(buf', fold', pos')
  BY <1>2 DEF IInv, FoldsAt
<1>10. Room(buf', paste', buflen')
  BY <1>2, <1>3, <1>4, <1>6 DEF Room
<1>11. MaxPaste' = MaxPaste
  BY <1>2 DEF MaxPaste
<1>. QED
  BY <1>2, <1>3, <1>8, <1>9, <1>10, <1>11 DEF IInv
LEMMA InsertPasteKeeps ==
  ASSUME IInv, InsertPaste, UNCHANGED buflen, paste' = NoPaste, sent' = <<>>,
         mode' \in {"edit", "closed"}
  PROVE  IInv'
<1>1. /\ Len(buf) \in Nat /\ pos \in Nat /\ buflen \in 1 .. MaxLine /\ MaxLine \in Nat
      /\ buf \in Seq(Char) /\ pos \in 0 .. Len(buf) /\ Len(buf) <= buflen
      /\ Len(buf) + Len(paste.text) <= buflen /\ Len(paste.text) \in Nat
  BY LineFacts, LineEditAssumption
<1>2. CASE UNCHANGED <<buf, pos, fold>>
  <2>1. FoldsAt(buf', fold', pos')
    BY <1>2 DEF IInv, FoldsAt
  <2>. QED
    BY <1>1, <1>2, <2>1, Settled
<1>3. CASE ~ UNCHANGED <<buf, pos, fold>>
  <2>. DEFINE text == Normalized(paste.text)
              n == Len(text)
              adjusted == linenoiseAdjustFoldsAfterInsert(fold, pos, n)
              g == linenoiseFoldAdd(adjusted, pos, pos + n)
  <2>1. /\ linenoiseEditInsertNoRefresh(text)
        /\ fold' = IF shouldFoldText(text) THEN g ELSE adjusted
    BY <1>3 DEF InsertPaste
  <2>2. paste.text \in Seq(Char)
    BY DEF IInv, TypeOK, PasteRecord
  <2>3. text \in Seq(Char) /\ n <= Len(paste.text)
    BY <2>2, NormalizedFacts
  <2>. HIDE DEF text
  <2>4. n \in Nat
    BY <2>3
  <2>5. /\ buf' \in Seq(Char) /\ Len(buf') = Len(buf) + n
        /\ pos' = pos + n /\ pos' \in 0 .. Len(buf')
    BY <2>1, <2>3, InsertFacts
  <2>. HIDE DEF n
  <2>6. /\ adjusted \in Seq(Fold) /\ Len(adjusted) <= MaxFolds /\ Ordered(adjusted)
        /\ Fits(adjusted, Len(buf) + n)
        /\ \A j \in 1 .. Len(adjusted) : adjusted[j].end <= pos \/ pos + n <= adjusted[j].start
    BY <2>4, InsertFolds
  <2>. HIDE DEF adjusted
  <2>7. OutOf(buf', adjusted, pos + n)
    BY <1>1, <2>4, <2>6, AfterInsert
  <2>. DEFINE end == pos + n
  <2>8. /\ g \in Seq(Fold) /\ Len(g) <= MaxFolds /\ Ordered(g)
        /\ \A j \in 1 .. Len(g) : \/ g[j] = Range2(pos, end)
                                  \/ \E k \in 1 .. Len(adjusted) : g[j] = adjusted[k]
    <3>1. end \in Nat
      BY <1>1, <2>4
    <3>2. \A j \in 1 .. Len(adjusted) : adjusted[j].end <= pos \/ end <= adjusted[j].start
      BY <2>6
    <3>. HIDE DEF end
    <3>3. LET h == linenoiseFoldAdd(adjusted, pos, end) IN
          /\ h \in Seq(Fold) /\ Len(h) <= MaxFolds /\ Ordered(h)
          /\ \A j \in 1 .. Len(h) : \/ h[j] = Range2(pos, end)
                                    \/ \E k \in 1 .. Len(adjusted) : h[j] = adjusted[k]
      BY <1>1, <2>6, <3>1, <3>2, FoldAddFacts
    <3>. QED
      BY <3>3 DEF end
  <2>. HIDE DEF g
  <2>9. ASSUME NEW j \in 1 .. Len(g)
        PROVE  g[j].end <= Len(buf) + n /\ (g[j].end <= end \/ end <= g[j].start)
    <3>1. CASE g[j] = Range2(pos, end)
      BY <1>1, <2>4, <3>1 DEF Range2
    <3>2. CASE \E k \in 1 .. Len(adjusted) : g[j] = adjusted[k]
      <4>1. PICK k \in 1 .. Len(adjusted) : g[j] = adjusted[k]
        BY <3>2
      <4>2. /\ adjusted[k].end <= Len(buf) + n
            /\ adjusted[k].end <= pos \/ pos + n <= adjusted[k].start
            /\ adjusted[k].end \in Nat
        BY <2>6, FoldFacts DEF Fits
      <4>3. adjusted[k].end <= pos => adjusted[k].end <= end
        BY <1>1, <2>4, <4>2
      <4>. QED
        BY <4>1, <4>2, <4>3
    <3>. QED
      BY <2>8, <3>1, <3>2
  <2>10. OutOf(buf', g, end)
    <3>1. end \in Nat
      BY <1>1, <2>4
    <3>2. g \in Seq(Fold) /\ \A j \in 1 .. Len(g) : g[j].end <= end \/ end <= g[j].start
      BY <2>8, <2>9
    <3>. HIDE DEF end
    <3>. QED
      BY <3>1, <3>2, NoFoldAround
  <2>11. Fits(g, Len(buf) + n)
    BY <2>9 DEF Fits
  <2>12. FoldsAt(buf', fold', pos')
    <3>1. FoldsAt(buf', adjusted, pos')
      BY <2>5, <2>6, <2>7 DEF FoldsAt
    <3>2. FoldsAt(buf', g, pos')
      BY <2>5, <2>8, <2>10, <2>11 DEF FoldsAt
    <3>. QED
      BY <2>1, <3>1, <3>2
  <2>13. Len(buf') <= buflen'
    BY <1>1, <2>3, <2>4, <2>5 DEF n
  <2>. QED
    BY <1>1, <2>5, <2>12, <2>13, Settled
<1>. QED
  BY <1>2, <1>3

LEMMA Inductive == ASSUME IInv, [Next]_vars PROVE IInv'
<1>1. CASE FinishPaste
  BY <1>1, InsertPasteKeeps DEF FinishPaste
<1>2. CASE ClosePaste
  BY <1>2, InsertPasteKeeps DEF ClosePaste
<1>3. CASE UNCHANGED vars
  <2>1. TypeOK'
    BY <1>3 DEF vars, IInv, TypeOK
  <2>2. FoldsAt(buf', fold', pos') /\ Room(buf', paste', buflen')
    BY <1>3 DEF vars, IInv
  <2>3. Reading(paste', sent', MaxPaste')
    <3>1. MaxPaste' = MaxPaste
      BY <1>3 DEF vars, MaxPaste
    <3>. QED
      BY <1>3, <3>1 DEF vars, IInv
  <2>. QED
    BY <1>3, <2>1, <2>2, <2>3 DEF vars, IInv
<1>. QED
  BY <1>1, <1>2, <1>3, KeyInsert, KeyLeft, KeyRight, KeyHomeEnd, KeyDelete, KeyBackspace,
     KeyDeletePrevWord, KeySwap, KeyDeleteLine, KeyDeleteToEnd, KeyHistoryNext, KeyEnter,
     KeyGiveUp, KeyStartPaste, KeyReadPaste DEF Next

LEMMA InitInv == Init => IInv
<1>. SUFFICES ASSUME Init PROVE IInv
  OBVIOUS
<1>1. <<>> \in Seq(Char) /\ Len(<<>>) = 0 /\ Len(<<>>) \in Nat
  OBVIOUS
<1>2. buflen \in 1 .. MaxLine /\ buflen \in Nat /\ MaxLine \in Nat
  BY LineEditAssumption DEF Init
<1>3. buf = <<>> /\ pos = 0 /\ fold = <<>> /\ mode = "edit" /\ paste = NoPaste /\ sent = <<>>
  BY DEF Init
<1>4. MaxPaste \in Nat
  BY <1>1, <1>2, <1>3 DEF MaxPaste
<1>5. /\ NoPaste \in PasteRecord /\ Room(buf, NoPaste, buflen)
      /\ Reading(NoPaste, <<>>, MaxPaste)
  BY <1>1, <1>2, <1>3, <1>4, Idle
<1>6. TypeOK
  BY <1>1, <1>2, <1>3, <1>5 DEF TypeOK
<1>7. FoldsAt(buf, fold, pos)
  BY <1>1, <1>3, NoFolds
<1>. QED
  BY <1>3, <1>5, <1>6, <1>7 DEF IInv

LEMMA Invariance == Spec => []IInv
  BY InitInv, Inductive, PTL DEF Spec
-----------------------------------------------------------------------------
(* Line breaks. *)

\* Position p is not in a fold.
Clear(p) == \A j \in 1 .. Len(fold) : fold[j].end <= p \/ p <= fold[j].start

\* The hypothesis of NewlinesStayFolded.
Tidy ==
  /\ NewlinesFolded /\ FoldsBetweenClusters /\ JoinersFollow(buf)
  /\ ~InFold(fold, pos) /\ ~Inside(buf, pos)

LEMMA HiddenFacts ==
  ASSUME NEW fs \in Seq(Fold), NEW i
  PROVE  Hidden(fs, i) <=> \E j \in 1 .. Len(fs) : fs[j].start < i /\ i <= fs[j].end
BY ToSetFacts DEF Hidden

\* A line break of the line is in a fold, or after a joiner.
LEMMA LineBreakFacts ==
  ASSUME IInv, NewlinesFolded, NEW i \in 1 .. Len(buf), buf[i] = NewLine
  PROVE  \/ \E k \in 1 .. Len(fold) : fold[k].start < i /\ i <= fold[k].end
         \/ i > 1 /\ buf[i-1] = Joiner
<1>1. fold \in Seq(Fold) /\ i \in DOMAIN buf
  BY LineFacts
<1>2. Hidden(fold, i) \/ (i > 1 /\ buf[i-1] = Joiner)
  BY <1>1 DEF NewlinesFolded
<1>. QED
  BY <1>1, <1>2, HiddenFacts

\* The line breaks are folded when each of them is in a fold or after a joiner.
LEMMA AllFolded ==
  ASSUME buf' \in Seq(Char), fold' \in Seq(Fold),
         \A i \in 1 .. Len(buf') :
           buf'[i] = NewLine =>
             \/ \E k \in 1 .. Len(fold') : fold'[k].start < i /\ i <= fold'[k].end
             \/ i > 1 /\ buf'[i-1] = Joiner
  PROVE  NewlinesFolded'
<1>1. DOMAIN buf' = 1 .. Len(buf')
  OBVIOUS
<1>2. ASSUME NEW i \in 1 .. Len(buf'), buf'[i] = NewLine
      PROVE  Hidden(fold', i) \/ (i > 1 /\ buf'[i-1] = Joiner)
  BY <1>2, HiddenFacts
<1>. QED
  BY <1>1, <1>2 DEF NewlinesFolded

\* When no end of a fold is inside of a cluster, to be out of the folds as far
\* as clusters go is to be out of them.
LEMMA TidyFacts ==
  ASSUME IInv, Tidy
  PROVE  /\ \A p \in Nat : OutOf(buf, fold, p) => Clear(p)
         /\ Clear(pos)
         /\ \A j \in 1 .. Len(fold) : ~Inside(buf, fold[j].start) /\ ~Inside(buf, fold[j].end)
<1>1. fold \in Seq(Fold) /\ pos \in Nat
  BY LineFacts
<1>2. ASSUME NEW j \in 1 .. Len(fold)
      PROVE  ~Inside(buf, fold[j].start) /\ ~Inside(buf, fold[j].end)
  BY <1>1, ToSetFacts DEF Tidy, FoldsBetweenClusters
<1>3. ASSUME NEW p \in Nat, OutOf(buf, fold, p) PROVE Clear(p)
  <2>1. ASSUME NEW j \in 1 .. Len(fold) PROVE fold[j].end <= p \/ p <= fold[j].start
    BY <1>1, <1>2, <1>3, FoldFacts DEF OutOf
  <2>. QED
    BY <2>1 DEF Clear
<1>4. Clear(pos)
  BY <1>1, <1>3, LineFacts
<1>. QED
  BY <1>2, <1>3, <1>4

\* t is a, of length n, followed by b, of length r.
Appended(t, a, b, n, r, S) ==
  /\ t \in Seq(S) /\ Len(t) = n + r
  /\ \A j \in 1 .. n : t[j] = a[j]
  /\ \A j \in n + 1 .. n + r : t[j] = b[j - n]

LEMMA Appending ==
  ASSUME NEW S, NEW a \in Seq(S), NEW b \in Seq(S),
         NEW n \in Nat, NEW r \in Nat, Len(a) = n, Len(b) = r
  PROVE  Appended(a \o b, a, b, n, r, S)
  BY DEF Appended

\* t is s without the d elements after the first start ones.
Without(t, s, start, d, S) ==
  /\ t \in Seq(S)
  /\ \A i \in 1 .. start : t[i] = s[i]
  /\ \A i \in start + 1 .. Len(s) - d : t[i] = s[i+d]

LEMMA Splice ==
  ASSUME NEW S, NEW s \in Seq(S), NEW start \in Nat, NEW end \in Nat,
         start <= end, end <= Len(s)
  PROVE  Without(SubSeq(s, 1, start) \o SubSeq(s, end + 1, Len(s)), s, start, end - start, S)
<1>. DEFINE a == SubSeq(s, 1, start)
            b == SubSeq(s, end + 1, Len(s))
            t == a \o b
            r == Len(s) - end
            d == end - start
<1>1. r \in Nat /\ d \in Nat /\ end + r = Len(s) /\ start + d = end
  OBVIOUS
<1>2. a \in Seq(S) /\ Len(a) = start /\ \A i \in 1 .. start : a[i] = s[i]
  OBVIOUS
<1>3. b \in Seq(S) /\ Len(b) = r /\ \A i \in 1 .. r : b[i] = s[end + i]
  OBVIOUS
<1>. HIDE DEF a, b, r, d
<1>4. Appended(t, a, b, start, r, S)
  BY <1>1, <1>2, <1>3, Appending
<1>. HIDE DEF t
<1>5. ASSUME NEW i \in start + 1 .. Len(s) - d PROVE t[i] = s[i+d]
  <2>1. i \in start + 1 .. start + r /\ i - start \in 1 .. r /\ end + (i - start) = i + d
    BY <1>1
  <2>. QED
    BY <1>3, <1>4, <2>1 DEF Appended
<1>6. t \in Seq(S) /\ \A i \in 1 .. start : t[i] = s[i]
  BY <1>2, <1>4 DEF Appended
<1>7. Without(t, s, start, d, S)
  BY <1>5, <1>6 DEF Without
<1>. QED
  BY <1>7 DEF t, a, b, d

LEMMA Shifted ==
  ASSUME NEW a \in Nat, NEW b \in Nat, NEW o \in Nat, NEW d \in Nat, a < o, o <= b
  PROVE  /\ a - d < o - d /\ o - d <= b - d
         /\ a + d < o + d /\ o + d <= b + d
  OBVIOUS

\* A deletion between two positions that are out of the folds.
LEMMA CutStaysFolded ==
  ASSUME IInv, NewlinesFolded, NEW start \in Nat, NEW end \in start .. Len(buf),
         Cut(start, end), Clear(start), Clear(end),
         end = 0 \/ end = Len(buf) \/ buf[end] # Joiner
  PROVE  NewlinesFolded'
<1>1. /\ buf \in Seq(Char) /\ Len(buf) \in Nat /\ fold \in Seq(Fold)
      /\ Ordered(fold) /\ Fits(fold, Len(buf))
  BY LineFacts
<1>2. buf' \in Seq(Char) /\ Len(buf') = Len(buf) - (end - start) /\ fold' \in Seq(Fold)
  BY CutFacts DEF FoldsAt
<1>. DEFINE d == end - start
            l == Len(buf)
<1>3. d \in Nat /\ start + d = end /\ end \in Nat /\ end <= l /\ start + d <= l
  BY <1>1
<1>4. /\ \A i \in 1 .. start : buf'[i] = buf[i]
      /\ \A i \in start + 1 .. l - d : buf'[i] = buf[i+d]
  <2>1. buf' = SubSeq(buf, 1, start) \o SubSeq(buf, end + 1, Len(buf))
    BY DEF Cut
  <2>2. end \in Nat /\ start <= end /\ end <= Len(buf)
    BY <1>1
  <2>3. Without(buf', buf, start, end - start, Char)
    BY <1>1, <2>1, <2>2, Splice
  <2>. QED
    BY <2>3 DEF Without
<1>5. \A k \in 1 .. Len(fold) :
        start + d <= fold[k].start \/ start >= fold[k].end =>
          \E j \in 1 .. Len(fold') :
            IF start + d <= fold[k].start
            THEN fold'[j].start = fold[k].start - d /\ fold'[j].end = fold[k].end - d
            ELSE fold'[j].start = fold[k].start /\ fold'[j].end = fold[k].end
  <2>. DEFINE g == linenoiseAdjustFoldsAfterDelete(fold, start, d)
  <2>1. fold' = g
    BY DEF Cut
  <2>. HIDE DEF d
  <2>2. \A k \in 1 .. Len(fold) :
          start + d <= fold[k].start \/ start >= fold[k].end =>
            \E j \in 1 .. Len(g) :
              IF start + d <= fold[k].start
              THEN g[j].start = fold[k].start - d /\ g[j].end = fold[k].end - d
              ELSE g[j].start = fold[k].start /\ g[j].end = fold[k].end
    BY <1>1, <1>3, AdjustDeleteFacts
  <2>. HIDE DEF g
  <2>. QED
    BY <2>1, <2>2
<1>. HIDE DEF d, l
<1>6. ASSUME NEW i \in 1 .. Len(buf'), buf'[i] = NewLine
      PROVE  \/ \E k \in 1 .. Len(fold') : fold'[k].start < i /\ i <= fold'[k].end
             \/ i > 1 /\ buf'[i-1] = Joiner
  <2>0. i \in Nat /\ 0 < i /\ Len(buf') = l - d /\ i <= l - d /\ l \in Nat
    BY <1>1, <1>2, <1>3 DEF l, d
  <2>1. CASE i <= start
    <3>1. i \in 1 .. start /\ i \in 1 .. Len(buf) /\ buf[i] = NewLine
      BY <1>3, <1>4, <1>6, <2>0, <2>1 DEF l
    <3>2. CASE i > 1 /\ buf[i-1] = Joiner
      <4>1. i - 1 \in 1 .. start
        BY <2>0, <2>1, <3>2
      <4>. QED
        BY <1>4, <3>2, <4>1
    <3>3. ASSUME NEW k \in 1 .. Len(fold), fold[k].start < i, i <= fold[k].end
          PROVE  \E j \in 1 .. Len(fold') : fold'[j].start < i /\ i <= fold'[j].end
      <4>1. fold[k].start \in Nat /\ fold[k].end \in Nat
        BY <1>1, FoldFacts
      <4>2. start >= fold[k].end /\ ~ (start + d <= fold[k].start)
        BY <1>3, <2>0, <2>1, <3>3, <4>1 DEF Clear
      <4>3. PICK j \in 1 .. Len(fold') :
              fold'[j].start = fold[k].start /\ fold'[j].end = fold[k].end
        BY <1>5, <4>2
      <4>. QED
        BY <3>3, <4>3
    <3>. QED
      BY <3>1, <3>2, <3>3, LineBreakFacts
  <2>2. CASE start < i
    <3>. DEFINE o == i + d
    <3>1. i \in start + 1 .. l - d /\ o \in 1 .. Len(buf)
      BY <1>3, <2>0, <2>2 DEF l
    <3>2. buf[o] = NewLine
      BY <1>4, <1>6, <3>1
    <3>0. o \in Nat /\ i = o - d /\ o - 1 = i - 1 + d
      BY <1>3, <2>0
    <3>. HIDE DEF o
    <3>3. CASE o > 1 /\ buf[o-1] = Joiner
      <4>1. i - 1 # start
        <5>1. i - 1 = start => o - 1 = end /\ end # 0 /\ end # Len(buf)
          BY <1>3, <2>0, <3>0, <3>1, <3>3
        <5>. QED
          BY <3>3, <5>1
      <4>2. i - 1 \in start + 1 .. l - d /\ i > 1
        BY <1>3, <2>0, <2>2, <4>1
      <4>. QED
        BY <1>4, <3>0, <3>3, <4>2
    <3>4. ASSUME NEW k \in 1 .. Len(fold), fold[k].start < o, o <= fold[k].end
          PROVE  \E j \in 1 .. Len(fold') : fold'[j].start < i /\ i <= fold'[j].end
      <4>1. fold[k].start \in Nat /\ fold[k].end \in Nat
        BY <1>1, FoldFacts
      <4>2. start + d <= fold[k].start
        BY <1>3, <2>0, <2>2, <3>0, <3>4, <4>1 DEF Clear
      <4>3. PICK j \in 1 .. Len(fold') :
              fold'[j].start = fold[k].start - d /\ fold'[j].end = fold[k].end - d
        BY <1>5, <4>2
      <4>4. fold[k].start - d < i /\ i <= fold[k].end - d
        BY <1>3, <3>0, <3>4, <4>1, Shifted
      <4>. QED
        BY <4>3, <4>4
    <3>. QED
      BY <3>1, <3>2, <3>3, <3>4, LineBreakFacts
  <2>. QED
    BY <2>0, <2>1, <2>2
<1>. QED
  BY <1>2, <1>6, AllFolded

\* The folds that an insertion of n characters at a position does not split.
Keeps(g, fs, at, n) ==
  \A k \in 1 .. Len(fs) :
    ~ (fs[k].start < at /\ at < fs[k].end) =>
      \E j \in 1 .. Len(g) :
        IF at <= fs[k].start
        THEN g[j].start = fs[k].start + n /\ g[j].end = fs[k].end + n
        ELSE g[j].start = fs[k].start /\ g[j].end = fs[k].end

LEMMA InsertKeeps ==
  ASSUME NEW fs \in Seq(Fold), Ordered(fs), NEW at \in Nat, NEW n \in Nat, NEW m \in Nat,
         Fits(fs, m), at <= m
  PROVE  Keeps(linenoiseAdjustFoldsAfterInsert(fs, at, n), fs, at, n)
<1>. DEFINE g == linenoiseAdjustFoldsAfterInsert(fs, at, n)
<1>1. \A k \in 1 .. Len(fs) :
        ~ (fs[k].start < at /\ at < fs[k].end) =>
          \E j \in 1 .. Len(g) :
            IF at <= fs[k].start
            THEN g[j].start = fs[k].start + n /\ g[j].end = fs[k].end + n
            ELSE g[j].start = fs[k].start /\ g[j].end = fs[k].end
  BY AdjustInsertFacts
<1>. QED
  BY <1>1 DEF Keeps

\* An insertion at a position that is out of the folds and of the clusters.
LEMMA InsertStaysFolded ==
  ASSUME IInv, NewlinesFolded, Clear(pos), ~Inside(buf, pos),
         NEW text \in Seq(Char), linenoiseEditInsertNoRefresh(text), fold' \in Seq(Fold),
         LET adjusted == linenoiseAdjustFoldsAfterInsert(fold, pos, Len(text)) IN
           \A j \in 1 .. Len(adjusted) : \E k \in 1 .. Len(fold') : fold'[k] = adjusted[j],
         \/ \A i \in 1 .. Len(text) : text[i] # NewLine
         \/ \E k \in 1 .. Len(fold') : fold'[k] = Range2(pos, pos + Len(text))
  PROVE  NewlinesFolded'
<1>1. /\ buf \in Seq(Char) /\ Len(buf) \in Nat /\ fold \in Seq(Fold)
      /\ Ordered(fold) /\ Fits(fold, Len(buf)) /\ pos \in Nat /\ pos <= Len(buf)
  BY LineFacts
<1>. DEFINE n == Len(text)
            l == Len(buf)
            adjusted == linenoiseAdjustFoldsAfterInsert(fold, pos, n)
<1>2. buf' \in Seq(Char) /\ Len(buf') = l + n /\ n \in Nat
  BY InsertFacts
<1>3. /\ \A i \in 1 .. pos : buf'[i] = buf[i]
      /\ \A i \in pos + 1 .. pos + n : buf'[i] = text[i - pos]
      /\ \A i \in pos + n + 1 .. l + n : buf'[i] = buf[i - n]
  <2>. DEFINE a == Before
              b == After
              r == l - pos
              c == a \o text
              q == pos + n
  <2>1. a \in Seq(Char) /\ Len(a) = pos /\ \A i \in 1 .. pos : a[i] = buf[i]
    BY <1>1 DEF Before
  <2>2. /\ b \in Seq(Char) /\ Len(b) = r /\ r \in Nat
        /\ \A i \in 1 .. r : b[i] = buf[pos + i]
    BY <1>1 DEF After
  <2>. DEFINE g == c \o b
  <2>3. buf' = g
    BY DEF linenoiseEditInsertNoRefresh
  <2>. HIDE DEF a, b, n
  <2>4. Appended(c, a, text, pos, n, Char)
    BY <1>1, <1>2, <2>1, Appending DEF n
  <2>5. q \in Nat /\ c \in Seq(Char) /\ Len(c) = q
    BY <1>1, <1>2, <2>4 DEF Appended
  <2>. HIDE DEF c, r, q
  <2>6. Appended(g, c, b, q, r, Char)
    BY <2>2, <2>5, Appending
  <2>. HIDE DEF g
  <2>7. ASSUME NEW i \in 1 .. q PROVE buf'[i] = c[i]
    BY <2>3, <2>6 DEF Appended
  <2>8. ASSUME NEW i \in 1 .. pos PROVE buf'[i] = buf[i]
    <3>1. i \in 1 .. q
      BY <1>1, <1>2 DEF q
    <3>. QED
      BY <2>1, <2>4, <2>7, <3>1 DEF Appended
  <2>9. ASSUME NEW i \in pos + 1 .. pos + n PROVE buf'[i] = text[i - pos]
    <3>1. i \in 1 .. q
      BY <1>1, <1>2 DEF q
    <3>. QED
      BY <2>4, <2>7, <3>1 DEF Appended
  <2>10. ASSUME NEW i \in pos + n + 1 .. l + n PROVE buf'[i] = buf[i - n]
    <3>1. i \in q + 1 .. q + r /\ i - q \in 1 .. r /\ pos + (i - q) = i - n
      BY <1>1, <1>2 DEF r, q
    <3>. QED
      BY <2>2, <2>3, <2>6, <3>1 DEF Appended
  <2>. QED
    BY <2>8, <2>9, <2>10
<1>4. Keeps(adjusted, fold, pos, n)
  BY <1>1, <1>2, InsertKeeps
<1>5. /\ \A j \in 1 .. Len(adjusted) : \E k \in 1 .. Len(fold') : fold'[k] = adjusted[j]
      /\ \/ \A i \in 1 .. n : text[i] # NewLine
         \/ \E k \in 1 .. Len(fold') : fold'[k] = Range2(pos, pos + n)
  OBVIOUS
<1>. HIDE DEF n, l, adjusted
<1>6. ASSUME NEW i \in 1 .. Len(buf'), buf'[i] = NewLine
      PROVE  \/ \E k \in 1 .. Len(fold') : fold'[k].start < i /\ i <= fold'[k].end
             \/ i > 1 /\ buf'[i-1] = Joiner
  <2>0. i \in Nat /\ 0 < i /\ i <= l + n /\ l \in Nat /\ pos <= l
    BY <1>1, <1>2 DEF l
  <2>1. CASE i <= pos
    <3>1. i \in 1 .. pos /\ i \in 1 .. Len(buf) /\ buf[i] = NewLine
      BY <1>1, <1>3, <1>6, <2>0, <2>1
    <3>2. CASE i > 1 /\ buf[i-1] = Joiner
      <4>1. i - 1 \in 1 .. pos
        BY <1>1, <2>0, <2>1, <3>2
      <4>. QED
        BY <1>3, <3>2, <4>1
    <3>3. ASSUME NEW k \in 1 .. Len(fold), fold[k].start < i, i <= fold[k].end
          PROVE  \E j \in 1 .. Len(fold') : fold'[j].start < i /\ i <= fold'[j].end
      <4>1. fold[k].start \in Nat /\ fold[k].end \in Nat
        BY <1>1, FoldFacts
      <4>2. ~ (pos <= fold[k].start) /\ ~ (fold[k].start < pos /\ pos < fold[k].end)
        BY <1>1, <2>0, <2>1, <3>3, <4>1 DEF Clear
      <4>3. PICK j \in 1 .. Len(adjusted) :
              adjusted[j].start = fold[k].start /\ adjusted[j].end = fold[k].end
        BY <1>4, <4>2 DEF Keeps
      <4>. QED
        BY <1>5, <3>3, <4>3
    <3>. QED
      BY <3>1, <3>2, <3>3, LineBreakFacts
  <2>2. CASE pos < i /\ i <= pos + n
    <3>1. i \in pos + 1 .. pos + n /\ i - pos \in 1 .. n
      BY <1>1, <1>2, <2>0, <2>2
    <3>2. PICK k \in 1 .. Len(fold') : fold'[k] = Range2(pos, pos + n)
      BY <1>3, <1>5, <1>6, <3>1
    <3>3. fold'[k].start = pos /\ fold'[k].end = pos + n
      BY <3>2 DEF Range2
    <3>. QED
      BY <2>2, <3>3
  <2>3. CASE pos + n < i
    <3>. DEFINE o == i - n
    <3>1. i \in pos + n + 1 .. l + n /\ o \in 1 .. Len(buf)
      BY <1>1, <1>2, <2>0, <2>3 DEF l
    <3>2. buf[o] = NewLine
      BY <1>3, <1>6, <3>1
    <3>0. o \in Nat /\ i = o + n /\ i - 1 - n = o - 1 /\ pos < o
      BY <1>1, <1>2, <2>0, <2>3
    <3>. HIDE DEF o
    <3>3. CASE o > 1 /\ buf[o-1] = Joiner
      <4>1. o - 1 # pos
        <5>1. o - 1 = pos => 0 < pos /\ pos < Len(buf)
          BY <1>1, <3>0, <3>1, <3>3
        <5>. QED
          BY <3>3, <5>1 DEF Inside
      <4>2. i - 1 \in pos + n + 1 .. l + n /\ i > 1
        BY <1>1, <1>2, <2>0, <3>0, <4>1
      <4>. QED
        BY <1>3, <3>0, <3>3, <4>2
    <3>4. ASSUME NEW k \in 1 .. Len(fold), fold[k].start < o, o <= fold[k].end
          PROVE  \E j \in 1 .. Len(fold') : fold'[j].start < i /\ i <= fold'[j].end
      <4>1. fold[k].start \in Nat /\ fold[k].end \in Nat
        BY <1>1, FoldFacts
      <4>2. pos <= fold[k].start /\ ~ (fold[k].start < pos /\ pos < fold[k].end)
        BY <1>1, <3>0, <3>4, <4>1 DEF Clear
      <4>3. PICK j \in 1 .. Len(adjusted) :
              adjusted[j].start = fold[k].start + n /\ adjusted[j].end = fold[k].end + n
        BY <1>4, <4>2 DEF Keeps
      <4>4. fold[k].start + n < i /\ i <= fold[k].end + n
        BY <1>2, <3>0, <3>4, <4>1, Shifted
      <4>. QED
        BY <1>5, <4>3, <4>4
    <3>. QED
      BY <3>1, <3>2, <3>3, <3>4, LineBreakFacts
  <2>. QED
    BY <1>1, <1>2, <2>0, <2>1, <2>2, <2>3
<1>. QED
  BY <1>2, <1>6, AllFolded

\* t is s with its elements i + 1 .. j and j + 1 .. k swapped.
Swapped(t, s, i, j, k, S) ==
  /\ t \in Seq(S) /\ Len(t) = Len(s)
  /\ \A h \in 1 .. i : t[h] = s[h]
  /\ \A h \in i + 1 .. i + (k - j) : t[h] = s[h - i + j]
  /\ \A h \in i + (k - j) + 1 .. k : t[h] = s[h - (k - j)]
  /\ \A h \in k + 1 .. Len(s) : t[h] = s[h]

LEMMA Swapping ==
  ASSUME NEW S, NEW s \in Seq(S), NEW i \in Nat, NEW j \in Nat, NEW k \in Nat,
         i <= j, j <= k, k <= Len(s)
  PROVE  Swapped(SubSeq(s, 1, i) \o SubSeq(s, j + 1, k) \o SubSeq(s, i + 1, j)
                   \o SubSeq(s, k + 1, Len(s)), s, i, j, k, S)
<1>. DEFINE a == SubSeq(s, 1, i)
            b == SubSeq(s, j + 1, k)
            c == SubSeq(s, i + 1, j)
            d == SubSeq(s, k + 1, Len(s))
            p == a \o b
            q == p \o c
            t == q \o d
            x == k - j
            y == j - i
            z == Len(s) - k
            m == i + x
<1>1. /\ x \in Nat /\ y \in Nat /\ z \in Nat /\ m \in Nat
      /\ j + x = k /\ i + y = j /\ k + z = Len(s) /\ m = i + x /\ m + y = k
  OBVIOUS
<1>2. a \in Seq(S) /\ Len(a) = i /\ \A h \in 1 .. i : a[h] = s[h]
  OBVIOUS
<1>3. b \in Seq(S) /\ Len(b) = x /\ \A h \in 1 .. x : b[h] = s[j + h]
  OBVIOUS
<1>4. c \in Seq(S) /\ Len(c) = y /\ \A h \in 1 .. y : c[h] = s[i + h]
  OBVIOUS
<1>5. d \in Seq(S) /\ Len(d) = z /\ \A h \in 1 .. z : d[h] = s[k + h]
  OBVIOUS
<1>. HIDE DEF a, b, c, d, x, y, z
<1>6. Appended(p, a, b, i, x, S)
  BY <1>1, <1>2, <1>3, Appending
<1>7. p \in Seq(S) /\ Len(p) = m
  BY <1>6 DEF Appended
<1>. HIDE DEF p, m
<1>8. Appended(q, p, c, m, y, S)
  BY <1>1, <1>4, <1>7, Appending
<1>9. q \in Seq(S) /\ Len(q) = k
  BY <1>1, <1>8 DEF Appended
<1>. HIDE DEF q
<1>10. Appended(t, q, d, k, z, S)
  BY <1>1, <1>5, <1>9, Appending
<1>. HIDE DEF t
<1>11. t \in Seq(S) /\ Len(t) = Len(s)
  BY <1>1, <1>10 DEF Appended
<1>12. ASSUME NEW h \in 1 .. i PROVE t[h] = s[h]
  <2>1. h \in 1 .. m /\ h \in 1 .. k
    BY <1>1
  <2>. QED
    BY <1>2, <1>6, <1>8, <1>10, <2>1 DEF Appended
<1>13. ASSUME NEW h \in i + 1 .. i + x PROVE t[h] = s[h - i + j]
  <2>1. h \in 1 .. m /\ h \in 1 .. k /\ h - i \in 1 .. x /\ j + (h - i) = h - i + j
    BY <1>1
  <2>2. t[h] = b[h - i]
    BY <1>6, <1>8, <1>10, <2>1 DEF Appended
  <2>. QED
    BY <1>3, <2>1, <2>2
<1>14. ASSUME NEW h \in i + x + 1 .. k PROVE t[h] = s[h - x]
  <2>1. h \in m + 1 .. m + y /\ h \in 1 .. k /\ h - m \in 1 .. y /\ i + (h - m) = h - x
    BY <1>1
  <2>2. t[h] = c[h - m]
    BY <1>8, <1>10, <2>1 DEF Appended
  <2>. QED
    BY <1>4, <2>1, <2>2
<1>15. ASSUME NEW h \in k + 1 .. Len(s) PROVE t[h] = s[h]
  <2>1. h \in k + 1 .. k + z /\ h - k \in 1 .. z /\ k + (h - k) = h
    BY <1>1
  <2>2. t[h] = d[h - k]
    BY <1>10, <2>1 DEF Appended
  <2>. QED
    BY <1>5, <2>1, <2>2
<1>16. Swapped(t, s, i, j, k, S)
  BY <1>11, <1>12, <1>13, <1>14, <1>15 DEF Swapped, x
<1>. QED
  BY <1>16 DEF t, q, p, a, b, c, d

\* The line breaks around the cursor that ctrl-t moves are not in folds: they
\* are in the clusters of joiners.
LEMMA SwapStaysFolded == ASSUME IInv, Tidy, SwapChars PROVE NewlinesFolded'
<1>. DEFINE start == pos - PrevLen(pos)
            n     == NextLen(pos)
            end   == pos + n
            l     == Len(buf)
<1>1. /\ start \in 0 .. pos - 1 /\ n \in Nat /\ end \in pos + 1 .. l
      /\ start + (PrevLen(pos) + n) = end
  BY SwapFacts
<1>2. /\ buf \in Seq(Char) /\ l \in Nat /\ pos \in 0 .. l /\ fold \in Seq(Fold)
      /\ Ordered(fold) /\ Fits(fold, l)
  BY LineFacts
<1>3. /\ \A j \in 1 .. Len(fold) : ~Inside(buf, fold[j].start) /\ ~Inside(buf, fold[j].end)
      /\ NewlinesFolded /\ JoinersFollow(buf) /\ ~Inside(buf, pos)
  BY TidyFacts DEF Tidy
<1>4. start = 0 \/ buf[start] # Joiner \/ buf[start+1] \in Regional
  <2>1. pos \in 1 .. Len(buf)
    BY <1>1, <1>2
  <2>. QED
    BY <1>2, <1>3, <2>1, PrevLenFacts DEF PrevLen
<1>5. end = l \/ buf[end] # Joiner
  <2>1. pos \in 0 .. Len(buf) - 1
    BY <1>1, <1>2
  <2>. QED
    BY <1>2, <1>3, <2>1, NextLenFacts DEF NextLen
<1>6. /\ fold' = fold /\ ~ linenoiseRangeOverlapsFold(fold, start, PrevLen(pos) + n)
      /\ buf' = SubSeq(buf, 1, start) \o SubSeq(buf, pos + 1, end)
                  \o SubSeq(buf, start + 1, pos) \o SubSeq(buf, end + 1, l)
  BY DEF SwapChars
<1>. HIDE DEF start, n, end
<1>7. /\ start \in Nat /\ pos \in Nat /\ end \in Nat
      /\ start < pos /\ pos < end /\ end <= l
  BY <1>1, <1>2
<1>8. Swapped(buf', buf, start, pos, end, Char)
  BY <1>2, <1>6, <1>7, Swapping
<1>. DEFINE x == end - pos
<1>9. /\ buf' \in Seq(Char) /\ Len(buf') = l
      /\ \A h \in 1 .. start : buf'[h] = buf[h]
      /\ \A h \in start + 1 .. start + x : buf'[h] = buf[h - start + pos]
      /\ \A h \in start + x + 1 .. end : buf'[h] = buf[h - x]
      /\ \A h \in end + 1 .. l : buf'[h] = buf[h]
  BY <1>8 DEF Swapped
<1>. HIDE DEF l
<1>10. ASSUME NEW k \in 1 .. Len(fold)
       PROVE  /\ fold[k].start \in Nat /\ fold[k].end \in Nat
              /\ fold[k].end <= start \/ end <= fold[k].start
  <2>1. fold[k].start \in Nat /\ fold[k].end \in Nat /\ fold[k] \in ToSet(fold)
    BY <1>2, FoldFacts, ToSetFacts
  <2>2. ~ (end > fold[k].start /\ start < fold[k].end)
    BY <1>1, <1>6, <2>1 DEF linenoiseRangeOverlapsFold
  <2>. QED
    BY <1>7, <2>1, <2>2
<1>11. ASSUME NEW o \in start + 1 .. end, buf[o] = NewLine
       PROVE  o > 1 /\ buf[o-1] = Joiner
  <2>1. o \in 1 .. Len(buf) /\ o \in Nat
    BY <1>2, <1>7 DEF l
  <2>2. ASSUME NEW k \in 1 .. Len(fold), fold[k].start < o, o <= fold[k].end PROVE FALSE
    BY <1>7, <1>10, <2>1, <2>2
  <2>. QED
    BY <1>3, <1>11, <2>1, <2>2, LineBreakFacts
<1>12. ASSUME NEW i \in 1 .. Len(buf'), buf'[i] = NewLine
       PROVE  \/ \E k \in 1 .. Len(fold') : fold'[k].start < i /\ i <= fold'[k].end
              \/ i > 1 /\ buf'[i-1] = Joiner
  <2>0. i \in Nat /\ 0 < i /\ i <= l /\ l \in Nat /\ x \in Nat
    BY <1>2, <1>7, <1>9
  <2>1. CASE i <= start \/ end < i
    <3>1. buf[i] = NewLine /\ i \in 1 .. Len(buf)
      <4>1. i \in 1 .. start \/ i \in end + 1 .. l
        BY <1>7, <2>0, <2>1
      <4>. QED
        BY <1>9, <1>12, <2>0, <4>1 DEF l
    <3>2. CASE i > 1 /\ buf[i-1] = Joiner
      <4>1. i - 1 # end
        <5>1. i - 1 = end => end # l
          BY <1>7, <2>0
        <5>. QED
          BY <1>5, <3>2, <5>1
      <4>2. i - 1 \in 1 .. start \/ i - 1 \in end + 1 .. l
        BY <1>7, <2>0, <2>1, <3>2, <4>1
      <4>. QED
        BY <1>9, <3>2, <4>2
    <3>. QED
      BY <1>6, <3>1, <3>2, <1>3, LineBreakFacts
  <2>2. CASE start < i /\ i <= start + x
    <3>. DEFINE o == i - start + pos
    <3>1. /\ i \in start + 1 .. start + x /\ o \in start + 1 .. end
          /\ o - 1 = (i - 1) - start + pos /\ o \in Nat
      BY <1>7, <2>0, <2>2
    <3>. HIDE DEF o
    <3>2. buf[o] = NewLine
      BY <1>9, <1>12, <3>1 DEF o
    <3>3. o > 1 /\ buf[o-1] = Joiner
      BY <1>11, <3>1, <3>2
    <3>4. i - 1 # start
      <4>1. i - 1 = start => o - 1 = pos /\ 0 < pos /\ pos < Len(buf)
        BY <1>7, <3>1 DEF l
      <4>. QED
        BY <1>3, <3>3, <4>1 DEF Inside
    <3>5. i - 1 \in start + 1 .. start + x /\ i > 1
      BY <1>7, <2>0, <2>2, <3>4
    <3>. QED
      BY <1>9, <3>1, <3>3, <3>5
  <2>3. CASE start + x < i /\ i <= end
    <3>. DEFINE o == i - x
    <3>1. /\ i \in start + x + 1 .. end /\ o \in start + 1 .. end
          /\ o - 1 = i - 1 - x /\ o \in Nat
      BY <1>7, <2>0, <2>3
    <3>2. buf[o] = NewLine
      BY <1>9, <1>12, <3>1
    <3>. HIDE DEF o
    <3>3. o > 1 /\ buf[o-1] = Joiner
      BY <1>11, <3>1, <3>2
    <3>4. o - 1 # start
      <4>1. o - 1 = start => start # 0 /\ o = start + 1
        BY <1>7, <3>1, <3>3
      <4>. QED
        BY <1>4, <3>2, <3>3, <4>1, FoldsAssumption
    <3>5. i - 1 \in start + x + 1 .. end /\ i > 1
      BY <1>7, <2>0, <2>3, <3>1, <3>4
    <3>. QED
      BY <1>9, <3>1, <3>3, <3>5
  <2>. QED
    BY <1>7, <2>0, <2>1, <2>2, <2>3
<1>. QED
  BY <1>2, <1>6, <1>9, <1>12, AllFolded

\* When one fold is left, the fold that is added is in the list.
LEMMA AddsFold ==
  ASSUME NEW fs \in Seq(Fold), NEW start \in Nat, NEW end \in Nat,
         Ordered(fs), Len(fs) <= MaxFolds,
         \A j \in 1 .. Len(fs) : fs[j].end <= start \/ end <= fs[j].start,
         start < end, Len(fs) < MaxFolds
  PROVE  LET g == linenoiseFoldAdd(fs, start, end) IN
         \E j \in 1 .. Len(g) : g[j] = Range2(start, end)
BY FoldAddFacts

\* The fold of a line that had none.
LEMMA FirstFold ==
  ASSUME NEW start \in Nat, NEW end \in Nat, start < end
  PROVE  LET g == linenoiseFoldAdd(<<>>, start, end) IN
         \E j \in 1 .. Len(g) : g[j] = Range2(start, end)
<1>. DEFINE fs == <<>>
            g == linenoiseFoldAdd(fs, start, end)
<1>1. /\ fs \in Seq(Fold) /\ Len(fs) = 0 /\ Ordered(fs)
      /\ Len(fs) < MaxFolds /\ Len(fs) <= MaxFolds
  BY FoldsAssumption DEF Ordered
<1>. HIDE DEF fs
<1>2. \A j \in 1 .. Len(fs) : fs[j].end <= start \/ end <= fs[j].start
  BY <1>1
<1>3. \E j \in 1 .. Len(g) : g[j] = Range2(start, end)
  BY <1>1, <1>2, AddsFold
<1>. QED
  BY <1>3 DEF fs

\* A line of the history is folded when it has line breaks.
LEMMA RecalledStaysFolded == ASSUME IInv, linenoiseEditHistoryNext PROVE NewlinesFolded'
<1>. DEFINE text == buf'
            f == linenoiseBuildHistoryFold(text)
            none == <<>>
            g == linenoiseFoldAdd(none, f.start, f.end)
<1>1. fold' = IF shouldFoldText(text) THEN g ELSE none
  BY DEF linenoiseEditHistoryNext
<1>2. buf' \in Seq(Char) /\ fold' \in Seq(Fold)
  BY KeyHistoryNext, Inductive DEF IInv, TypeOK, FoldsAt
<1>. HIDE DEF text
<1>3. text \in Seq(Char)
  BY <1>2 DEF text
<1>4. f.start \in Nat /\ f.end \in Nat
  BY <1>3, HistoryFoldFacts
<1>5. \A i \in 1 .. Len(text) :
        text[i] = NewLine => (f.start < i /\ i <= f.end) \/ (i > 1 /\ text[i-1] = Joiner)
  BY <1>3, HistoryFoldFacts
<1>. HIDE DEF f
<1>6. f.start < f.end => \E j \in 1 .. Len(g) : g[j] = Range2(f.start, f.end)
  BY <1>4, FirstFold
<1>7. ASSUME NEW i \in 1 .. Len(text), text[i] = NewLine
      PROVE  \/ \E k \in 1 .. Len(fold') : fold'[k].start < i /\ i <= fold'[k].end
             \/ i > 1 /\ text[i-1] = Joiner
  <2>1. shouldFoldText(text)
    BY <1>3, <1>7, ToSetFacts DEF shouldFoldText
  <2>2. CASE f.start < i /\ i <= f.end
    <3>1. PICK k \in 1 .. Len(g) : g[k] = Range2(f.start, f.end)
      BY <1>4, <1>6, <2>2
    <3>2. g[k].start < i /\ i <= g[k].end
      BY <2>2, <3>1 DEF Range2
    <3>. QED
      BY <1>1, <2>1, <3>2
  <2>. QED
    BY <1>7, <1>5, <2>2
<1>. QED
  BY <1>2, <1>7, AllFolded DEF text

\* A paste with line breaks gets a fold of its own: there is one left.
LEMMA PasteStaysFolded ==
  ASSUME IInv, Tidy, InsertPaste, IInv' PROVE NewlinesFolded'
<1>1. CASE UNCHANGED <<buf, pos, fold>>
  BY <1>1 DEF Tidy, NewlinesFolded
<1>2. CASE ~ UNCHANGED <<buf, pos, fold>>
  <2>. DEFINE text == Normalized(paste.text)
              n == Len(text)
              end == pos + n
              adjusted == linenoiseAdjustFoldsAfterInsert(fold, pos, n)
              g == linenoiseFoldAdd(adjusted, pos, end)
  <2>1. /\ linenoiseEditInsertNoRefresh(text) /\ paste.text # <<>>
        /\ fold' = IF shouldFoldText(text) THEN g ELSE adjusted
    BY <1>2 DEF InsertPaste
  <2>2. paste.text \in Seq(Char)
    BY DEF IInv, TypeOK, PasteRecord
  <2>3. text \in Seq(Char) /\ n \in Nat
    BY <2>2, NormalizedFacts
  <2>4. /\ fold \in Seq(Fold) /\ Len(fold) <= MaxFolds /\ pos \in Nat /\ Ordered(fold)
        /\ Fits(fold, Len(buf)) /\ Len(buf) \in Nat /\ pos <= Len(buf)
    BY LineFacts
  <2>. HIDE DEF text
  <2>5. Len(fold) < MaxFolds
    <3>1. Len(paste.text) # 0
      BY <2>1, <2>2
    <3>2. Len(paste.text) <= MaxPaste /\ Len(paste.text) \in Nat
      BY <2>2 DEF IInv, Reading
    <3>3. Len(fold) # MaxFolds
      BY <3>1, <3>2 DEF MaxPaste
    <3>. QED
      BY <2>4, <3>3, FoldFacts, FoldsAssumption
  <2>. HIDE DEF n
  <2>6. /\ adjusted \in Seq(Fold) /\ Len(adjusted) <= MaxFolds /\ Ordered(adjusted)
        /\ \A j \in 1 .. Len(adjusted) : adjusted[j].end <= pos \/ end <= adjusted[j].start
    BY <2>3, InsertFolds
  <2>7. Len(adjusted) < MaxFolds
    <3>1. Len(adjusted) <= Len(fold)
      BY <2>3, <2>4, AdjustInsertFacts
    <3>. QED
      BY <2>4, <2>5, <2>6, <3>1, FoldFacts, FoldsAssumption
  <2>8. end \in Nat /\ (n > 0 => pos < end)
    BY <2>3, <2>4
  <2>. HIDE DEF adjusted, end
  <2>9. /\ \A k \in 1 .. Len(adjusted) : \E j \in 1 .. Len(g) : g[j] = adjusted[k]
        /\ n > 0 => \E j \in 1 .. Len(g) : g[j] = Range2(pos, end)
    BY <2>4, <2>6, <2>7, <2>8, FoldAddFacts
  <2>. HIDE DEF g
  <2>10. \A j \in 1 .. Len(adjusted) : \E k \in 1 .. Len(fold') : fold'[k] = adjusted[j]
    BY <2>1, <2>9
  <2>11. \/ \A i \in 1 .. n : text[i] # NewLine
         \/ \E k \in 1 .. Len(fold') : fold'[k] = Range2(pos, end)
    <3>1. ASSUME NEW i \in 1 .. n, text[i] = NewLine
          PROVE  \E k \in 1 .. Len(fold') : fold'[k] = Range2(pos, end)
      <4>1. shouldFoldText(text)
        BY <2>3, <3>1, ToSetFacts DEF shouldFoldText, n
      <4>2. n > 0
        BY <2>3
      <4>. QED
        BY <2>1, <2>9, <4>1, <4>2
    <3>. QED
      BY <3>1
  <2>12. fold' \in Seq(Fold) /\ NewlinesFolded /\ Clear(pos) /\ ~Inside(buf, pos)
    BY TidyFacts DEF IInv, FoldsAt, Tidy
  <2>. QED
    BY <2>1, <2>3, <2>10, <2>11, <2>12, InsertStaysFolded DEF n, end, adjusted
<1>. QED
  BY <1>1, <1>2

\* A cut that a move from the cursor gives, or at the ends of the line.
LEMMA CutAtCursor ==
  ASSUME IInv, Tidy, NEW start \in 0 .. pos, OutOf(buf, fold, start), Cut(start, pos)
  PROVE  NewlinesFolded'
<1>1. pos \in 0 .. Len(buf) /\ Len(buf) \in Nat
  BY LineFacts
<1>2. start \in Nat /\ pos \in start .. Len(buf)
  BY <1>1
<1>3. Clear(start) /\ Clear(pos) /\ NewlinesFolded
  BY <1>2, TidyFacts DEF Tidy
<1>4. pos = 0 \/ pos = Len(buf) \/ buf[pos] # Joiner
  BY <1>1 DEF Tidy, Inside
<1>. QED
  BY <1>2, <1>3, <1>4, CutStaysFolded

LEMMA StepStaysFolded == ASSUME IInv, Tidy, [Next]_vars PROVE NewlinesFolded'
<1>0. /\ buf \in Seq(Char) /\ Len(buf) \in Nat /\ pos \in 0 .. Len(buf) /\ pos \in Nat
      /\ fold \in Seq(Fold) /\ Ordered(fold) /\ Fits(fold, Len(buf)) /\ OutOf(buf, fold, pos)
  BY LineFacts
<1>1. CASE UNCHANGED <<buf, fold>>
  BY <1>1 DEF Tidy, NewlinesFolded
<1>2. CASE linenoiseEditInsert
  <2>1. PICK c \in Typed :
          \/ /\ linenoiseEditInsertNoRefresh(<<c>>)
             /\ fold' = linenoiseAdjustFoldsAfterInsert(fold, pos, 1)
          \/ UNCHANGED <<buf, fold>>
    BY <1>2 DEF linenoiseEditInsert
  <2>2. CASE /\ linenoiseEditInsertNoRefresh(<<c>>)
             /\ fold' = linenoiseAdjustFoldsAfterInsert(fold, pos, 1)
    <3>. DEFINE text == <<c>>
    <3>1. /\ text \in Seq(Char) /\ Len(text) = 1
          /\ \A i \in 1 .. Len(text) : text[i] # NewLine
      BY LineEditAssumption DEF Char
    <3>. HIDE DEF text
    <3>2. /\ fold' \in Seq(Fold) /\ NewlinesFolded /\ Clear(pos) /\ ~Inside(buf, pos)
      BY Inductive, TidyFacts DEF IInv, FoldsAt, Tidy
    <3>3. linenoiseEditInsertNoRefresh(text)
      BY <2>2 DEF text
    <3>4. LET adjusted == linenoiseAdjustFoldsAfterInsert(fold, pos, Len(text)) IN
            \A j \in 1 .. Len(adjusted) : \E k \in 1 .. Len(fold') : fold'[k] = adjusted[j]
      BY <2>2, <3>1
    <3>. QED
      BY <3>1, <3>2, <3>3, <3>4, InsertStaysFolded
  <2>. QED
    BY <1>1, <2>1, <2>2
<1>3. CASE linenoiseEditDelete
  <2>. DEFINE end == pos + NextLen(pos)
  <2>1. pos \in 0 .. Len(buf) - 1 /\ Cut(pos, end)
    BY <1>0, <1>3 DEF linenoiseEditDelete
  <2>2. /\ \A j \in 1 .. Len(fold) : ~Inside(buf, fold[j].end)
        /\ JoinersFollow(buf) /\ ~Inside(buf, pos) /\ NewlinesFolded /\ Clear(pos)
    BY TidyFacts DEF Tidy
  <2>3. /\ end \in pos + 1 .. Len(buf) /\ OutOf(buf, fold, end)
        /\ end = Len(buf) \/ buf[end] # Joiner
    BY <1>0, <2>1, <2>2, NextLenFacts DEF NextLen
  <2>. HIDE DEF end
  <2>4. end \in pos .. Len(buf) /\ end \in Nat
    BY <1>0, <2>3
  <2>5. Clear(end)
    BY <2>3, <2>4, TidyFacts
  <2>. QED
    BY <1>0, <2>1, <2>2, <2>3, <2>4, <2>5, CutStaysFolded
<1>4. CASE linenoiseEditBackspace
  <2>. DEFINE q == pos - PrevLen(pos)
  <2>1. pos \in 1 .. Len(buf) /\ Cut(q, pos)
    BY <1>0, <1>4 DEF linenoiseEditBackspace
  <2>2. q \in 0 .. pos - 1 /\ OutOf(buf, fold, q)
    BY <1>0, <2>1, PrevLenFacts DEF PrevLen
  <2>. HIDE DEF q
  <2>3. q \in 0 .. pos
    BY <1>0, <2>2
  <2>. QED
    BY <2>1, <2>2, <2>3, CutAtCursor
<1>5. CASE linenoiseEditDeletePrevWord
  <2>1. WordStart \in 0 .. pos /\ OutOf(buf, fold, WordStart)
    BY <1>0, WordStartFacts
  <2>. QED
    BY <1>5, <2>1, CutAtCursor DEF linenoiseEditDeletePrevWord
<1>6. CASE DeleteToEnd
  <2>1. Cut(pos, Len(buf)) /\ Len(buf) \in pos .. Len(buf)
    BY <1>0, <1>6 DEF DeleteToEnd
  <2>2. OutOf(buf, fold, Len(buf))
    BY <1>0, EndsOutOf
  <2>3. Clear(pos) /\ Clear(Len(buf)) /\ NewlinesFolded
    BY <1>0, <2>2, TidyFacts DEF Tidy
  <2>. QED
    BY <1>0, <2>1, <2>3, CutStaysFolded
<1>7. CASE DeleteLine
  BY <1>7 DEF DeleteLine, NewlinesFolded
<1>8. CASE FinishPaste \/ ClosePaste
  BY <1>8, Inductive, PasteStaysFolded DEF FinishPaste, ClosePaste
<1>9. CASE \/ linenoiseEditMoveLeft \/ linenoiseEditMoveRight \/ MoveHomeEnd \/ Enter
           \/ GiveUp \/ StartPaste \/ ReadPaste \/ UNCHANGED vars
  <2>1. UNCHANGED <<buf, fold>>
    BY <1>9 DEF linenoiseEditMoveLeft, linenoiseEditMoveRight, MoveHomeEnd, Enter, GiveUp,
       StartPaste, ReadPaste, vars
  <2>. QED
    BY <1>1, <2>1
<1>. QED
  BY <1>2, <1>3, <1>4, <1>5, <1>6, <1>7, <1>8, <1>9, SwapStaysFolded, RecalledStaysFolded
     DEF Next

\* A sequence is made of what is before a position and of what is after it.
LEMMA SplitLine ==
  ASSUME NEW C, NEW s \in Seq(C), NEW p \in 0 .. Len(s)
  PROVE  SubSeq(s, 1, p) \o SubSeq(s, p + 1, Len(s)) = s
<1>. DEFINE a == SubSeq(s, 1, p)
            b == SubSeq(s, p + 1, Len(s))
            m == Len(s)
            t == a \o b
            r == m - p
<1>1. m \in Nat /\ p \in Nat /\ r \in Nat /\ p + r = m
  OBVIOUS
<1>2. a \in Seq(C) /\ Len(a) = p /\ \A i \in 1 .. p : a[i] = s[i]
  OBVIOUS
<1>3. b \in Seq(C) /\ Len(b) = r /\ \A i \in 1 .. r : b[i] = s[p + i]
  OBVIOUS
<1>. HIDE DEF a, b, r
<1>4. /\ t \in Seq(C) /\ Len(t) = p + r
      /\ \A i \in 1 .. p : t[i] = a[i]
      /\ \A i \in p + 1 .. p + r : t[i] = b[i - p]
  <2>1. a \in Seq(C) /\ b \in Seq(C) /\ Len(a) = p /\ Len(b) = r /\ p \in Nat /\ r \in Nat
    BY <1>1, <1>2, <1>3
  <2>2. t \in Seq(C) /\ Len(t) = p + r
    BY <2>1
  <2>3. \A i \in 1 .. p : t[i] = a[i]
    BY <2>1
  <2>4. \A i \in p + 1 .. p + r : t[i] = b[i - p]
    BY <2>1
  <2>. QED
    BY <2>2, <2>3, <2>4
<1>. HIDE DEF t, m
<1>5. ASSUME NEW i \in 1 .. m PROVE t[i] = s[i]
  <2>1. CASE i <= p
    BY <1>1, <1>2, <1>4, <2>1
  <2>2. CASE ~ (i <= p)
    <3>1. i - p \in 1 .. r /\ p + (i - p) = i /\ i \in p + 1 .. p + r
      BY <1>1, <2>2
    <3>. QED
      BY <1>3, <1>4, <3>1
  <2>. QED
    BY <2>1, <2>2
<1>6. t = s
  BY <1>1, <1>4, <1>5 DEF m
<1>. QED
  BY <1>6 DEF t, a, b

\* What is after a position is a suffix of what is after a position before it.
LEMMA SuffixFacts ==
  ASSUME NEW C, NEW s \in Seq(C), NEW p \in 0 .. Len(s), NEW e \in p .. Len(s)
  PROVE  IsSuffix(SubSeq(s, e + 1, Len(s)), SubSeq(s, p + 1, Len(s)))
<1>. DEFINE m == Len(s)
            x == SubSeq(s, e + 1, Len(s))
            y == SubSeq(s, p + 1, Len(s))
            rx == Reverse(x)
            ry == Reverse(y)
<1>1. m \in Nat /\ p \in Nat /\ e \in Nat /\ p <= e /\ e <= m
  OBVIOUS
<1>2. x \in Seq(C) /\ Len(x) = m - e /\ \A i \in 1 .. m - e : x[i] = s[e + i]
  OBVIOUS
<1>3. y \in Seq(C) /\ Len(y) = m - p /\ \A i \in 1 .. m - p : y[i] = s[p + i]
  OBVIOUS
<1>. HIDE DEF m, x, y
<1>4. rx \in Seq(C) /\ Len(rx) = m - e /\ \A i \in 1 .. m - e : rx[i] = s[m - i + 1]
  <2>1. ASSUME NEW i \in 1 .. m - e PROVE m - e - i + 1 \in 1 .. m - e /\ e + (m - e - i + 1) = m - i + 1
    BY <1>1
  <2>2. rx \in Seq(C) /\ Len(rx) = m - e /\ \A i \in 1 .. m - e : rx[i] = x[m - e - i + 1]
    BY <1>1, <1>2 DEF Reverse
  <2>. QED
    BY <1>2, <2>1, <2>2
<1>5. ry \in Seq(C) /\ Len(ry) = m - p /\ \A i \in 1 .. m - p : ry[i] = s[m - i + 1]
  <2>1. ASSUME NEW i \in 1 .. m - p PROVE m - p - i + 1 \in 1 .. m - p /\ p + (m - p - i + 1) = m - i + 1
    BY <1>1
  <2>2. ry \in Seq(C) /\ Len(ry) = m - p /\ \A i \in 1 .. m - p : ry[i] = y[m - p - i + 1]
    BY <1>1, <1>3 DEF Reverse
  <2>. QED
    BY <1>3, <2>1, <2>2
<1>. HIDE DEF rx, ry
<1>. DEFINE k == m - e
<1>6. k \in Nat /\ k <= m - p
  BY <1>1
<1>7. \A i \in 1 .. k : rx[i] = ry[i]
  BY <1>1, <1>4, <1>5
<1>. HIDE DEF k
<1>8. SubSeq(rx, 1, k) = SubSeq(ry, 1, k)
  <2>. DEFINE u == SubSeq(rx, 1, k)
              v == SubSeq(ry, 1, k)
  <2>1. u \in Seq(C) /\ Len(u) = k /\ \A i \in 1 .. k : u[i] = rx[i]
    BY <1>4, <1>6 DEF k
  <2>2. v \in Seq(C) /\ Len(v) = k /\ \A i \in 1 .. k : v[i] = ry[i]
    BY <1>5, <1>6
  <2>. HIDE DEF u, v
  <2>3. u = v
    BY <1>7, <2>1, <2>2
  <2>. QED
    BY <2>3 DEF u, v
<1>9. Len(rx) = k /\ Len(ry) = m - p
  BY <1>4, <1>5 DEF k
<1>. QED
  BY <1>6, <1>8, <1>9 DEF IsSuffix, IsPrefix, rx, ry, x, y

-----------------------------------------------------------------------------
(* The line on the terminal. *)

\* What is shown of the character i, with the folds of F: a marker for the
\* first one of a fold, nothing for the others.
Cell(text, F, i) ==
  CASE \E f \in F : f.start = i - 1 -> <<Marker>>
    [] (\E f \in F : f.start < i /\ i <= f.end) /\ (\A f \in F : f.start # i - 1) -> <<>>
    [] OTHER -> <<text[i]>>

\* g[i] is what is shown of the first i characters, looking at each one.
Shows(g, text, F, T) ==
  /\ g \in [0 .. Len(text) -> Seq(T)] /\ g[0] = <<>>
  /\ \A i \in 1 .. Len(text) : g[i] = g[i-1] \o Cell(text, F, i)

LEMMA CellFacts ==
  ASSUME NEW text, NEW F, NEW i
  PROVE  /\ (\E f \in F : f.start = i - 1) => Cell(text, F, i) = <<Marker>>
         /\ (\A f \in F : f.start # i - 1) /\ (\E f \in F : f.start < i /\ i <= f.end)
              => Cell(text, F, i) = <<>>
         /\ (\A f \in F : f.start # i - 1) /\ (\A f \in F : ~(f.start < i /\ i <= f.end))
              => Cell(text, F, i) = <<text[i]>>
BY DEF Cell

LEMMA ShownFacts ==
  ASSUME NEW C, NEW text \in Seq(C), NEW F, NEW T, C \subseteq T, Marker \in T
  PROVE  LET shown[i \in 0 .. Len(text)] ==
               IF i = 0 THEN <<>> ELSE shown[i-1] \o Cell(text, F, i)
         IN  Shows(shown, text, F, T)
<1>. DEFINE m == Len(text)
            S == Seq(T)
            body(g, i) == IF i = 0 THEN <<>> ELSE g[i-1] \o Cell(text, F, i)
            c == CHOOSE g : g = [i \in 0 .. Len(text) |-> body(g, i)]
            G == [i \in 0 .. m |-> [s \in S |-> IF i > 0 THEN s \o Cell(text, F, i) ELSE s]]
<1>1. m \in Nat /\ <<>> \in S /\ \A i \in 1 .. m : text[i] \in T
  OBVIOUS
<1>2. ASSUME NEW i \in 1 .. m PROVE Cell(text, F, i) \in S
  <2>1. <<Marker>> \in S /\ <<>> \in S /\ <<text[i]>> \in S
    BY <1>1
  <2>. HIDE DEF S
  <2>. QED
    BY <2>1, CellFacts
<1>3. ASSUME NEW a \in S, NEW b \in S PROVE a \o b \in S
  OBVIOUS
<1>. HIDE DEF m, S, c
<1>4. G \in [0 .. m -> [S -> S]] /\ \A i \in 1 .. m, s \in S : G[i][s] = s \o Cell(text, F, i)
  BY <1>1, <1>2, <1>3
<1>. HIDE DEF G
<1>5. PICK g \in [0 .. m -> S] : Follows(g, m, <<>>, G)
  BY <1>1, <1>4, Recursion
<1>6. ASSUME NEW i \in 0 .. m PROVE g[i] = body(g, i)
  <2>1. CASE i = 0
    BY <1>5, <2>1 DEF Follows
  <2>2. CASE i # 0
    <3>1. i \in 1 .. m /\ g[i-1] \in S
      BY <1>1, <2>2
    <3>. QED
      BY <1>4, <1>5, <2>2, <3>1 DEF Follows
  <2>. QED
    BY <2>1, <2>2
<1>7. c = [i \in 0 .. m |-> body(c, i)]
  <2>. HIDE DEF body
  <2>1. g = [i \in 0 .. m |-> g[i]]
    OBVIOUS
  <2>2. g = [i \in 0 .. m |-> body(g, i)]
    BY <1>6, <2>1
  <2>. QED
    BY <2>2 DEF c, m
<1>8. c[0] = <<>> /\ \A i \in 1 .. m : c[i] = c[i-1] \o Cell(text, F, i)
  <2>1. \A i \in 0 .. m : c[i] = body(c, i)
    <3>. HIDE DEF body
    <3>. QED
      BY <1>7
  <2>2. 0 \in 0 .. m /\ \A i \in 1 .. m : i \in 0 .. m /\ i # 0
    BY <1>1
  <2>. QED
    BY <2>1, <2>2
<1>. DEFINE N == {i \in 0 .. m : c[i] \in S}
<1>9. 0 \in N
  BY <1>1, <1>8
<1>10. ASSUME NEW i \in 0 .. m, i \in N, i < m PROVE i + 1 \in N
  <2>. DEFINE k == i + 1
  <2>1. k \in 1 .. m /\ k - 1 = i /\ k \in 0 .. m
    BY <1>1, <1>10
  <2>. HIDE DEF k
  <2>2. c[k] = c[i] \o Cell(text, F, k)
    BY <1>8, <2>1
  <2>3. c[k] \in S
    BY <1>2, <1>3, <1>10, <2>1, <2>2
  <2>. QED
    BY <2>1, <2>3 DEF k
<1>. HIDE DEF N
<1>11. 0 .. m \subseteq N
  BY <1>1, <1>9, <1>10, Induction
<1>12. c \in [0 .. m -> S]
  <2>. HIDE DEF body
  <2>1. \A i \in 0 .. m : c[i] \in S
    BY <1>11 DEF N
  <2>. QED
    BY <1>7, <2>1
<1>13. Shows(c, text, F, T)
  BY <1>8, <1>12 DEF Shows, m, S
<1>. QED
  BY <1>13 DEF c

LEMMA NextShown ==
  ASSUME NEW text, Len(text) \in Nat, NEW F, NEW T, NEW g, Shows(g, text, F, T),
         NEW i \in 1 .. Len(text), NEW h, h = i - 1
  PROVE  g[i] = g[h] \o Cell(text, F, i) /\ g[h] \in Seq(T) /\ g[i] \in Seq(T)
<1>1. h \in 0 .. Len(text) /\ i \in 0 .. Len(text)
  OBVIOUS
<1>2. g[i] = g[i-1] \o Cell(text, F, i)
  BY DEF Shows
<1>3. g \in [0 .. Len(text) -> Seq(T)]
  BY DEF Shows
<1>4. g[h] \in Seq(T) /\ g[i] \in Seq(T)
  BY <1>1, <1>3
<1>. QED
  BY <1>2, <1>4

LEMMA SameSequence ==
  ASSUME NEW T, NEW a \in Seq(T), NEW b \in Seq(T), NEW n \in Nat, Len(a) = n, Len(b) = n,
         \A j \in 1 .. n : a[j] = b[j]
  PROVE  a = b
  OBVIOUS

\* s followed by a part of the text that goes from b to k.
Grows(s, text, a, b, k) ==
  (s \o SubSeq(text, a + 1, b)) \o <<text[k]>> = s \o SubSeq(text, a + 1, k)

LEMMA OneMore ==
  ASSUME NEW T, NEW s \in Seq(T), NEW text \in Seq(T), NEW a \in Nat, NEW b \in Nat,
         a <= b, b < Len(text), NEW k, k = b + 1
  PROVE  Grows(s, text, a, b, k)
<1>. DEFINE q == SubSeq(text, a + 1, b)
            r == SubSeq(text, a + 1, k)
            x == text[k]
            d == b - a
            n == Len(s)
<1>1. q \in Seq(T) /\ Len(q) = d /\ d \in Nat /\ \A j \in 1 .. d : q[j] = text[a + j]
  OBVIOUS
<1>2. r \in Seq(T) /\ Len(r) = d + 1 /\ \A j \in 1 .. d + 1 : r[j] = text[a + j]
  OBVIOUS
<1>3. x \in T /\ a + (d + 1) = k /\ n \in Nat
  OBVIOUS
<1>4. r[d + 1] = x
  BY <1>1, <1>2, <1>3
<1>. HIDE DEF q, r, x, d, n
<1>5. r = q \o <<x>>
  <2>. DEFINE y == <<x>>
              z == q \o y
  <2>1. y \in Seq(T) /\ Len(y) = 1 /\ y[1] = x
    BY <1>3
  <2>. HIDE DEF y
  <2>2. Appended(z, q, y, d, 1, T)
    BY <1>1, <2>1, Appending
  <2>. HIDE DEF z
  <2>3. z \in Seq(T) /\ Len(z) = d + 1 /\ \A j \in 1 .. d : z[j] = q[j]
    BY <2>2 DEF Appended
  <2>4. z[d + 1] = y[d + 1 - d]
    BY <1>1, <2>2 DEF Appended
  <2>5. z[d + 1] = x
    BY <1>1, <2>1, <2>4
  <2>6. ASSUME NEW j \in 1 .. d + 1 PROVE r[j] = z[j]
    <3>1. CASE j = d + 1
      BY <1>4, <2>5, <3>1
    <3>2. CASE j # d + 1
      <4>1. j \in 1 .. d
        BY <1>1, <3>2
      <4>. QED
        BY <1>1, <1>2, <2>3, <4>1
    <3>. QED
      BY <3>1, <3>2
  <2>7. r = z
    BY <1>1, <1>2, <2>3, <2>6, SameSequence
  <2>. QED
    BY <2>7 DEF z, y
<1>6. (s \o q) \o <<x>> = s \o (q \o <<x>>)
  BY <1>1, <1>3
<1>. QED
  BY <1>5, <1>6 DEF q, r, x, Grows

\* The text from a to b is shown as it is.
AsIs(g, text, a, b) ==
  g[b] = g[a] \o SubSeq(text, a + 1, b) /\ Len(g[b]) = Len(g[a]) + (b - a)

\* Characters that are out of the folds are shown as they are.
LEMMA GapShown ==
  ASSUME NEW T, NEW text \in Seq(T), NEW F, NEW g, Shows(g, text, F, T),
         NEW a \in 0 .. Len(text), NEW b \in a .. Len(text),
         \A i \in a + 1 .. b : Cell(text, F, i) = <<text[i]>>
  PROVE  AsIs(g, text, a, b)
<1>. DEFINE m == b - a
            Q(d) == g[a + d] = g[a] \o SubSeq(text, a + 1, a + d)
            N == {d \in 0 .. m : Q(d)}
<1>1. m \in Nat /\ a \in Nat /\ b \in Nat /\ a + m = b /\ b <= Len(text) /\ Len(text) \in Nat
  OBVIOUS
<1>2. \A i \in 0 .. Len(text) : g[i] \in Seq(T)
  BY DEF Shows
<1>3. 0 \in N
  <2>1. g[a] \in Seq(T)
    BY <1>2
  <2>2. SubSeq(text, a + 1, a + 0) = <<>> /\ a + 0 = a
    BY <1>1
  <2>3. g[a] \o <<>> = g[a]
    BY <2>1
  <2>4. Q(0)
    BY <2>2, <2>3
  <2>. HIDE DEF Q
  <2>. QED
    BY <1>1, <2>4
<1>4. ASSUME NEW d \in 0 .. m, d \in N, d < m PROVE d + 1 \in N
  <2>. DEFINE e == a + d
              k == e + 1
  <2>1. /\ e \in Nat /\ a <= e /\ e < Len(text) /\ k \in a + 1 .. b
        /\ k \in 1 .. Len(text) /\ e = k - 1 /\ k = e + 1 /\ a + (d + 1) = k /\ d + 1 \in 0 .. m
    BY <1>1, <1>4
  <2>2. g[e] = g[a] \o SubSeq(text, a + 1, e)
    BY <1>4
  <2>3. g[a] \in Seq(T)
    BY <1>2
  <2>. HIDE DEF e, k
  <2>4. Grows(g[a], text, a, e, k)
    BY <1>1, <2>1, <2>3, OneMore
  <2>5. g[k] = g[e] \o Cell(text, F, k)
    BY <1>1, <2>1, NextShown
  <2>6. g[k] = g[a] \o SubSeq(text, a + 1, k)
    BY <2>1, <2>2, <2>4, <2>5 DEF Grows
  <2>7. Q(d + 1)
    BY <2>1, <2>6
  <2>. HIDE DEF Q
  <2>. QED
    BY <2>1, <2>7
<1>. HIDE DEF N
<1>5. 0 .. m \subseteq N
  BY <1>1, <1>3, <1>4, Induction
<1>6. g[b] = g[a] \o SubSeq(text, a + 1, b)
  <2>1. m \in N
    BY <1>1, <1>5
  <2>. QED
    BY <1>1, <2>1 DEF N
<1>. DEFINE h == g[a]
            q == SubSeq(text, a + 1, b)
<1>7. Len(q) = m /\ q \in Seq(T)
  BY <1>1
<1>8. h \in Seq(T) /\ Len(h) \in Nat
  BY <1>2
<1>. HIDE DEF q, h, m
<1>9. Len(h \o q) = Len(h) + m
  BY <1>1, <1>7, <1>8, Concatenation
<1>. QED
  BY <1>6, <1>9 DEF h, q, m, AsIs

\* A fold is shown as its marker.
LEMMA FoldShown ==
  ASSUME NEW T, NEW text \in Seq(T), NEW F, NEW g, Shows(g, text, F, T),
         NEW f \in F, f.start \in Nat, f.end \in f.start + 1 .. Len(text),
         \A h \in F : h.start \notin f.start + 1 .. f.end - 1
  PROVE  \A i \in f.start + 1 .. f.end : g[i] = Append(g[f.start], Marker)
<1>. DEFINE a == f.start
            m == f.end - a - 1
            w == Append(g[a], Marker)
            N == {d \in 0 .. m : g[a + 1 + d] = w}
<1>1. /\ m \in Nat /\ a \in Nat /\ f.end = a + 1 + m /\ f.end <= Len(text) /\ Len(text) \in Nat
      /\ a + 1 \in 1 .. Len(text) /\ a + 1 - 1 = a /\ a \in 0 .. Len(text)
  OBVIOUS
<1>. HIDE DEF m, a
<1>2. 0 \in N
  <2>. DEFINE k == a + 1
  <2>1. k \in 1 .. Len(text) /\ a = k - 1 /\ k + 0 = k
    BY <1>1
  <2>. HIDE DEF k
  <2>2. g[k] = g[a] \o Cell(text, F, k) /\ g[a] \in Seq(T)
    BY <1>1, <2>1, NextShown
  <2>3. Cell(text, F, k) = <<Marker>>
    BY <2>1, CellFacts DEF a
  <2>4. g[a] \o <<Marker>> = w
    BY <2>2
  <2>5. g[k + 0] = w
    BY <2>1, <2>2, <2>3, <2>4
  <2>. HIDE DEF w
  <2>. QED
    BY <1>1, <2>5 DEF k
<1>3. ASSUME NEW d \in 0 .. m, d \in N, d < m PROVE d + 1 \in N
  <2>. DEFINE e == a + 1 + d
              k == e + 1
  <2>1. /\ e \in a + 1 .. f.end - 1 /\ k \in 1 .. Len(text) /\ e = k - 1
        /\ a < k /\ k <= f.end /\ a + 1 + (d + 1) = k /\ d + 1 \in 0 .. m
    BY <1>1, <1>3
  <2>2. g[e] = w
    BY <1>3
  <2>. HIDE DEF k, e, w
  <2>3. g[k] = g[e] \o Cell(text, F, k) /\ g[e] \in Seq(T)
    BY <1>1, <2>1, NextShown
  <2>4. \A h \in F : h.start # k - 1
    BY <2>1 DEF a
  <2>5. Cell(text, F, k) = <<>>
    BY <2>1, <2>4, CellFacts DEF a
  <2>6. g[e] \o <<>> = g[e]
    BY <2>3
  <2>7. g[k] = w
    BY <2>2, <2>3, <2>5, <2>6
  <2>. QED
    BY <2>1, <2>7
<1>. HIDE DEF N, w
<1>4. 0 .. m \subseteq N
  BY <1>1, <1>2, <1>3, Induction
<1>5. ASSUME NEW i \in a + 1 .. f.end PROVE g[i] = w
  <2>1. i - (a + 1) \in 0 .. m /\ a + 1 + (i - (a + 1)) = i
    BY <1>1
  <2>. QED
    BY <1>4, <2>1 DEF N
<1>. QED
  BY <1>5 DEF w, a

\* Where the loop of linenoiseRenderBuffer is after each fold.
Turn(T) == [out : Seq(T), src : Nat, pos : Int, found : BOOLEAN]

FirstTurn == [out |-> <<>>, src |-> 0, pos |-> 0, found |-> FALSE]

\* What one turn of the loop does to r.
Turned(n, text, p, r, f) ==
  /\ n.out = Append(r.out \o SubSeq(text, r.src + 1, f.start), Marker)
  /\ n.src = f.end
  /\ n.found <=> r.found \/ p <= f.end
  /\ r.found => n.pos = r.pos
  /\ ~r.found /\ p <= f.start => n.pos = Len(r.out) + (p - r.src)
  /\ ~r.found /\ f.start < p /\ p <= f.end => n.pos = Len(n.out)

LEMMA TurnFacts ==
  ASSUME NEW T, Marker \in T, NEW text \in Seq(T), NEW p \in Nat, NEW r \in Turn(T),
         NEW f \in Fold, f.end <= Len(text), f.start < f.end
  PROVE  RenderFold(text, p, r, f) \in Turn(T) /\ Turned(RenderFold(text, p, r, f), text, p, r, f)
<1>. DEFINE q == SubSeq(text, r.src + 1, f.start)
            dst == Append(r.out \o q, Marker)
            at == CASE r.found -> r.pos
                    [] ~r.found /\ p <= f.start -> Len(r.out) + (p - r.src)
                    [] ~r.found /\ f.start < p /\ p <= f.end -> Len(dst)
                    [] OTHER -> 0
            n == [out |-> dst, src |-> f.end, pos |-> at, found |-> r.found \/ p <= f.end]
<1>1. /\ r.out \in Seq(T) /\ r.src \in Nat /\ r.pos \in Int /\ r.found \in BOOLEAN
      /\ f.start \in Nat /\ f.end \in Nat
  BY DEF Turn, Fold
<1>2. q \in Seq(T)
  BY <1>1
<1>. HIDE DEF q
<1>3. dst \in Seq(T) /\ Len(dst) \in Nat /\ Len(r.out) \in Nat
  <2>1. r.out \o q \in Seq(T)
    BY <1>1, <1>2
  <2>. QED
    BY <1>1, <2>1
<1>. HIDE DEF dst
<1>4. /\ r.found => at = r.pos
      /\ ~r.found /\ p <= f.start => at = Len(r.out) + (p - r.src)
      /\ ~r.found /\ f.start < p /\ p <= f.end => at = Len(dst)
      /\ ~r.found /\ f.end < p => at = 0
  BY <1>1
<1>5. at \in Int
  <2>1. Len(r.out) + (p - r.src) \in Int /\ Len(dst) \in Int /\ 0 \in Int
    BY <1>1, <1>3
  <2>2. r.found \/ p <= f.start \/ (f.start < p /\ p <= f.end) \/ f.end < p
    BY <1>1
  <2>. HIDE DEF at
  <2>. QED
    BY <1>1, <1>4, <2>1, <2>2
<1>6. RenderFold(text, p, r, f) = n
  BY DEF RenderFold, dst, q
<1>. HIDE DEF at
<1>7. n \in Turn(T)
  BY <1>1, <1>3, <1>5 DEF Turn
<1>8. Turned(n, text, p, r, f)
  BY <1>4 DEF Turned, dst, q
<1>. QED
  BY <1>6, <1>7, <1>8

\* done[k] is where the loop is after k folds.
Loops(done, text, p, folds, T) ==
  /\ done \in [0 .. Len(folds) -> Turn(T)] /\ done[0] = FirstTurn
  /\ \A k \in 1 .. Len(folds) : done[k] = RenderFold(text, p, done[k-1], folds[k])

LEMMA LoopFacts ==
  ASSUME NEW T, Marker \in T, NEW text \in Seq(T), NEW p \in Nat,
         NEW folds \in Seq(Fold), Ordered(folds), Fits(folds, Len(text))
  PROVE  LET done[k \in 0 .. Len(folds)] ==
               IF k = 0 THEN [out |-> <<>>, src |-> 0, pos |-> 0, found |-> FALSE]
               ELSE RenderFold(text, p, done[k-1], folds[k])
         IN  Loops(done, text, p, folds, T)
<1>. DEFINE m == Len(folds)
            S == Turn(T)
            body(g, k) == IF k = 0 THEN [out |-> <<>>, src |-> 0, pos |-> 0, found |-> FALSE]
                          ELSE RenderFold(text, p, g[k-1], folds[k])
            c == CHOOSE g : g = [k \in 0 .. Len(folds) |-> body(g, k)]
            G == [k \in 0 .. m |-> [s \in S |-> IF k > 0 THEN RenderFold(text, p, s, folds[k])
                                                ELSE s]]
<1>1. m \in Nat /\ FirstTurn \in S
  <2>1. <<>> \in Seq(T)
    OBVIOUS
  <2>. QED
    BY <2>1 DEF FirstTurn, Turn
<1>2. ASSUME NEW k \in 1 .. m, NEW s \in S PROVE RenderFold(text, p, s, folds[k]) \in S
  <2>1. folds[k] \in Fold
    OBVIOUS
  <2>2. folds[k].start < folds[k].end /\ folds[k].end <= Len(text)
    BY DEF Ordered, Fits
  <2>. QED
    BY <2>1, <2>2, TurnFacts
<1>. HIDE DEF m, S, c
<1>3. G \in [0 .. m -> [S -> S]]
      /\ \A k \in 1 .. m, s \in S : G[k][s] = RenderFold(text, p, s, folds[k])
  BY <1>1, <1>2
<1>. HIDE DEF G
<1>4. PICK g \in [0 .. m -> S] : Follows(g, m, FirstTurn, G)
  BY <1>1, <1>3, Recursion
<1>5. ASSUME NEW k \in 0 .. m PROVE g[k] = body(g, k)
  <2>1. CASE k = 0
    BY <1>4, <2>1 DEF Follows, FirstTurn
  <2>2. CASE k # 0
    <3>1. k \in 1 .. m /\ g[k-1] \in S
      BY <1>1, <2>2
    <3>. QED
      BY <1>3, <1>4, <2>2, <3>1 DEF Follows
  <2>. QED
    BY <2>1, <2>2
<1>6. c = [k \in 0 .. m |-> body(c, k)]
  <2>. HIDE DEF body
  <2>1. g = [k \in 0 .. m |-> g[k]]
    OBVIOUS
  <2>2. g = [k \in 0 .. m |-> body(g, k)]
    BY <1>5, <2>1
  <2>. QED
    BY <2>2 DEF c, m
<1>7. c[0] = FirstTurn /\ \A k \in 1 .. m : c[k] = RenderFold(text, p, c[k-1], folds[k])
  <2>1. \A k \in 0 .. m : c[k] = body(c, k)
    <3>. HIDE DEF body
    <3>. QED
      BY <1>6
  <2>2. 0 \in 0 .. m /\ \A k \in 1 .. m : k \in 0 .. m /\ k # 0
    BY <1>1
  <2>. QED
    BY <2>1, <2>2 DEF FirstTurn
<1>. DEFINE N == {k \in 0 .. m : c[k] \in S}
<1>8. 0 \in N
  BY <1>1, <1>7
<1>9. ASSUME NEW i \in 0 .. m, i \in N, i < m PROVE i + 1 \in N
  <2>. DEFINE k == i + 1
  <2>1. k \in 1 .. m /\ k - 1 = i /\ k \in 0 .. m
    BY <1>1, <1>9
  <2>. HIDE DEF k
  <2>2. c[k] = RenderFold(text, p, c[i], folds[k])
    BY <1>7, <2>1
  <2>3. c[k] \in S
    BY <1>2, <1>9, <2>1, <2>2
  <2>. QED
    BY <2>1, <2>3 DEF k
<1>. HIDE DEF N
<1>10. 0 .. m \subseteq N
  BY <1>1, <1>8, <1>9, Induction
<1>11. c \in [0 .. m -> S]
  <2>. HIDE DEF body
  <2>1. \A k \in 0 .. m : c[k] \in S
    BY <1>10 DEF N
  <2>. QED
    BY <1>6, <2>1
<1>12. Loops(c, text, p, folds, T)
  BY <1>7, <1>11 DEF Loops, m, S
<1>. QED
  BY <1>12 DEF c

\* The characters between the fold k and the next one are out of the folds.
LEMMA GapCells ==
  ASSUME NEW text, NEW folds \in Seq(Fold), Ordered(folds), NEW k \in 0 .. Len(folds),
         NEW src \in Nat, src = IF k = 0 THEN 0 ELSE folds[k].end,
         NEW i \in Nat, src < i, k < Len(folds) => i <= folds[k+1].start
  PROVE  Cell(text, ToSet(folds), i) = <<text[i]>>
<1>0. Len(folds) \in Nat /\ k \in Nat /\ k <= Len(folds)
  OBVIOUS
<1>1. \A j \in 1 .. Len(folds) : folds[j].start \in Nat /\ folds[j].end \in Nat
  BY FoldFacts
<1>2. ASSUME NEW j \in 1 .. Len(folds), j <= k PROVE folds[j].start < folds[j].end /\ folds[j].end <= src
  <2>1. k \in 1 .. Len(folds) /\ src = folds[k].end
    BY <1>0, <1>2
  <2>2. folds[j].start < folds[j].end /\ folds[k].start < folds[k].end
    BY <2>1 DEF Ordered
  <2>3. CASE j = k
    BY <2>1, <2>2, <2>3
  <2>4. CASE j # k
    <3>1. k \in j + 1 .. Len(folds)
      BY <1>0, <1>2, <2>4
    <3>2. folds[j].end <= folds[k].start
      BY <3>1 DEF Ordered
    <3>. QED
      BY <1>1, <2>1, <2>2, <3>2
  <2>. QED
    BY <2>3, <2>4
<1>3. ASSUME NEW j \in 1 .. Len(folds), ~(j <= k) PROVE i <= folds[j].start
  <2>1. k + 1 \in 1 .. Len(folds) /\ k < Len(folds)
    BY <1>0, <1>3
  <2>2. folds[k+1].start < folds[k+1].end
    BY <2>1 DEF Ordered
  <2>3. CASE j = k + 1
    BY <2>1, <2>3
  <2>4. CASE j # k + 1
    <3>1. j \in k + 1 + 1 .. Len(folds)
      BY <1>0, <1>3, <2>4
    <3>2. folds[k+1].end <= folds[j].start
      BY <2>1, <3>1 DEF Ordered
    <3>. QED
      BY <1>1, <2>1, <2>2, <3>2
  <2>. QED
    BY <2>3, <2>4
<1>4. ASSUME NEW h \in ToSet(folds) PROVE h.start # i - 1 /\ ~(h.start < i /\ i <= h.end)
  <2>1. PICK j \in 1 .. Len(folds) : h = folds[j]
    BY ToSetFacts
  <2>2. CASE j <= k
    BY <1>1, <1>2, <2>1, <2>2
  <2>3. CASE ~(j <= k)
    BY <1>1, <1>3, <2>1, <2>3
  <2>. QED
    BY <2>2, <2>3
<1>. QED
  BY <1>4, CellFacts

\* After k folds, r.out is what is shown of the text before r.src, and the
\* cursor is after it, or has its place.
Rendered(r, k, text, p, folds, g) ==
  /\ r.src = IF k = 0 THEN 0 ELSE folds[k].end
  /\ r.src \in 0 .. Len(text) /\ r.out = g[r.src]
  /\ r.found => r.pos = Len(g[p])
  /\ ~r.found => r.src <= p

LEMMA TurnRenders ==
  ASSUME NEW T, Marker \in T, NEW text \in Seq(T), NEW p \in 0 .. Len(text),
         NEW folds \in Seq(Fold), Ordered(folds), Fits(folds, Len(text)),
         NEW g, Shows(g, text, ToSet(folds), T),
         NEW k \in 0 .. Len(folds) - 1, NEW r, NEW n, NEW j, j = k + 1,
         Turned(n, text, p, r, folds[j]), Rendered(r, k, text, p, folds, g)
  PROVE  Rendered(n, j, text, p, folds, g)
<1>. DEFINE F == ToSet(folds)
            f == folds[j]
            m == Len(text)
<1>1. /\ k \in 0 .. Len(folds) /\ k \in Nat /\ k < Len(folds) /\ Len(folds) \in Nat
      /\ j \in 1 .. Len(folds) /\ j # 0 /\ m \in Nat /\ p \in Nat /\ p <= m
  OBVIOUS
<1>2. /\ f.start \in Nat /\ f.end \in Nat /\ f.start < f.end /\ f.end <= m /\ f \in F
  BY <1>1, FoldFacts, ToSetFacts DEF Ordered, Fits
<1>3. /\ r.src = IF k = 0 THEN 0 ELSE folds[k].end
      /\ r.src \in Nat /\ r.src <= m /\ r.out = g[r.src]
      /\ r.found => r.pos = Len(g[p])
      /\ ~r.found => r.src <= p
  BY DEF Rendered
<1>4. r.src <= f.start
  <2>1. CASE k = 0
    BY <1>2, <1>3, <2>1
  <2>2. CASE k # 0
    <3>1. k \in 1 .. Len(folds) /\ j \in k + 1 .. Len(folds)
      BY <1>1, <2>2
    <3>2. folds[k].end <= folds[j].start
      BY <3>1 DEF Ordered
    <3>. QED
      BY <1>3, <2>2, <3>2
  <2>. QED
    BY <2>1, <2>2
<1>5. ASSUME NEW i \in r.src + 1 .. f.start PROVE Cell(text, F, i) = <<text[i]>>
  <2>1. i \in Nat /\ r.src < i /\ i <= folds[k+1].start
    BY <1>2, <1>3
  <2>. QED
    BY <1>1, <1>3, <2>1, GapCells
<1>6. ASSUME NEW b \in r.src .. f.start PROVE AsIs(g, text, r.src, b)
  <2>1. r.src \in 0 .. Len(text) /\ b \in r.src .. Len(text)
    BY <1>1, <1>2, <1>3
  <2>2. ASSUME NEW i \in r.src + 1 .. b PROVE Cell(text, ToSet(folds), i) = <<text[i]>>
    <3>1. i \in r.src + 1 .. f.start
      BY <1>1, <1>2, <1>3
    <3>. QED
      BY <1>5, <3>1
  <2>. HIDE DEF f, F
  <2>. QED
    BY <2>1, <2>2, GapShown
<1>7. \A i \in f.start + 1 .. f.end : g[i] = Append(g[f.start], Marker)
  <2>1. ASSUME NEW h \in F PROVE h.start \notin f.start + 1 .. f.end - 1
    <3>1. PICK i \in 1 .. Len(folds) : h = folds[i]
      BY ToSetFacts
    <3>2. h.start \in Nat /\ h.end \in Nat /\ h.start < h.end
      BY <3>1, FoldFacts DEF Ordered
    <3>3. CASE i < j
      <4>1. j \in i + 1 .. Len(folds)
        BY <1>1, <3>3
      <4>2. h.end <= f.start
        BY <3>1, <4>1 DEF Ordered
      <4>. QED
        BY <1>2, <3>2, <4>2
    <3>4. CASE i = j
      BY <1>2, <3>1, <3>4
    <3>5. CASE j < i
      <4>1. i \in j + 1 .. Len(folds)
        BY <1>1, <3>5
      <4>2. f.end <= h.start
        BY <1>1, <3>1, <4>1 DEF Ordered
      <4>. QED
        BY <1>2, <3>2, <4>2
    <3>. QED
      BY <1>1, <3>3, <3>4, <3>5
  <2>2. f.end \in f.start + 1 .. Len(text)
    BY <1>1, <1>2
  <2>. HIDE DEF f, F
  <2>. QED
    BY <1>2, <2>1, <2>2, FoldShown DEF F
<1>8. /\ n.out = Append(r.out \o SubSeq(text, r.src + 1, f.start), Marker)
      /\ n.src = f.end
      /\ n.found <=> r.found \/ p <= f.end
      /\ r.found => n.pos = r.pos
      /\ ~r.found /\ p <= f.start => n.pos = Len(r.out) + (p - r.src)
      /\ ~r.found /\ f.start < p /\ p <= f.end => n.pos = Len(n.out)
  BY DEF Turned
<1>. HIDE DEF f, m
<1>9. n.out = g[f.end] /\ n.out = Append(g[f.start], Marker)
  <2>1. f.start \in r.src .. f.start /\ f.end \in f.start + 1 .. f.end
    BY <1>2, <1>3, <1>4
  <2>2. g[f.start] = r.out \o SubSeq(text, r.src + 1, f.start)
    BY <1>3, <1>6, <2>1 DEF AsIs
  <2>3. g[f.end] = Append(g[f.start], Marker)
    BY <1>7, <2>1
  <2>. QED
    BY <1>8, <2>2, <2>3
<1>10. ASSUME n.found PROVE n.pos = Len(g[p])
  <2>1. CASE r.found
    BY <1>3, <1>8, <2>1
  <2>2. CASE ~r.found /\ p <= f.start
    <3>1. p \in r.src .. f.start
      BY <1>1, <1>2, <1>3, <2>2
    <3>2. Len(g[p]) = Len(g[r.src]) + (p - r.src)
      BY <1>6, <3>1 DEF AsIs
    <3>. QED
      BY <1>3, <1>8, <2>2, <3>2
  <2>3. CASE ~r.found /\ ~(p <= f.start)
    <3>1. p <= f.end /\ f.start < p
      BY <1>1, <1>2, <1>8, <1>10, <2>3
    <3>2. p \in f.start + 1 .. f.end
      BY <1>1, <1>2, <3>1
    <3>3. g[p] = n.out
      BY <1>7, <1>9, <3>2
    <3>. QED
      BY <1>8, <2>3, <3>1, <3>3
  <2>. QED
    BY <2>1, <2>2, <2>3
<1>11. ~n.found => n.src <= p
  BY <1>1, <1>2, <1>8
<1>12. n.src \in 0 .. Len(text)
  BY <1>1, <1>2, <1>8 DEF m
<1>13. n.src = folds[j].end
  BY <1>8 DEF f
<1>. QED
  BY <1>1, <1>8, <1>9, <1>10, <1>11, <1>12, <1>13 DEF Rendered

\* The line and the cursor are those that g shows, when the loop ends with r.
Drawn(r, text, p, g) ==
  /\ r.out \o SubSeq(text, r.src + 1, Len(text)) = g[Len(text)]
  /\ (IF r.found THEN r.pos ELSE Len(r.out) + (p - r.src)) = Len(g[p])

\* The loop over the folds does the same as looking at each character.
LEMMA LoopRenders ==
  ASSUME NEW T, Marker \in T, NEW text \in Seq(T), NEW p \in 0 .. Len(text),
         NEW folds \in Seq(Fold), Ordered(folds), Fits(folds, Len(text)),
         NEW g, Shows(g, text, ToSet(folds), T),
         NEW done, Loops(done, text, p, folds, T)
  PROVE  Drawn(done[Len(folds)], text, p, g)
<1>. DEFINE l == Len(folds)
            m == Len(text)
            Q(k) == Rendered(done[k], k, text, p, folds, g)
            N == {k \in 0 .. l : Q(k)}
<1>1. l \in Nat /\ m \in Nat /\ p \in Nat /\ p <= m
  OBVIOUS
<1>2. 0 \in N
  <2>1. done[0] = FirstTurn /\ g[0] = <<>>
    BY DEF Loops, Shows
  <2>2. /\ FirstTurn.src = 0 /\ FirstTurn.out = <<>> /\ FirstTurn.found = FALSE
        /\ 0 \in 0 .. Len(text)
    BY <1>1 DEF FirstTurn
  <2>3. Q(0)
    BY <1>1, <2>1, <2>2 DEF Rendered
  <2>. HIDE DEF Q
  <2>. QED
    BY <1>1, <2>3
<1>3. ASSUME NEW k \in 0 .. l, k \in N, k < l PROVE k + 1 \in N
  <2>. DEFINE j == k + 1
  <2>1. j \in 1 .. l /\ j - 1 = k /\ k \in 0 .. Len(folds) - 1 /\ j \in 0 .. l
    BY <1>1, <1>3
  <2>2. Q(k)
    BY <1>3
  <2>3. done[j] = RenderFold(text, p, done[k], folds[j]) /\ done[k] \in Turn(T)
    <3>. HIDE DEF j
    <3>. QED
      BY <2>1 DEF Loops
  <2>4. folds[j] \in Fold /\ folds[j].end <= Len(text) /\ folds[j].start < folds[j].end
    <3>. HIDE DEF j
    <3>. QED
      BY <2>1, FoldFacts DEF Ordered, Fits
  <2>5. Turned(done[j], text, p, done[k], folds[j])
    BY <1>1, <2>3, <2>4, TurnFacts
  <2>6. Q(j)
    BY <2>1, <2>2, <2>5, TurnRenders
  <2>. HIDE DEF Q
  <2>. QED
    BY <2>1, <2>6
<1>. HIDE DEF N
<1>4. 0 .. l \subseteq N
  BY <1>1, <1>2, <1>3, Induction
<1>. DEFINE r == done[l]
            src == r.src
<1>5. Rendered(r, l, text, p, folds, g)
  <2>1. l \in N
    BY <1>1, <1>4
  <2>. QED
    BY <2>1 DEF N
<1>. HIDE DEF r, N
<1>6. /\ src = (IF l = 0 THEN 0 ELSE folds[l].end) /\ src \in 0 .. m
      /\ r.out = g[src] /\ (r.found => r.pos = Len(g[p])) /\ (~r.found => src <= p)
  BY <1>5 DEF Rendered
<1>. HIDE DEF src
<1>7. ASSUME NEW b \in src .. m PROVE AsIs(g, text, src, b)
  <2>1. ASSUME NEW i \in src + 1 .. b PROVE Cell(text, ToSet(folds), i) = <<text[i]>>
    <3>1. i \in Nat /\ src < i /\ src \in Nat /\ l \in 0 .. Len(folds) /\ ~(l < Len(folds))
      BY <1>1, <1>6
    <3>. QED
      BY <1>6, <3>1, GapCells
  <2>. QED
    BY <1>6, <2>1, GapShown
<1>8. r.out \o SubSeq(text, src + 1, m) = g[m]
  <2>1. m \in src .. m
    BY <1>1, <1>6
  <2>. QED
    BY <1>6, <1>7, <2>1 DEF AsIs
<1>9. (IF r.found THEN r.pos ELSE Len(r.out) + (p - src)) = Len(g[p])
  <2>1. CASE r.found
    BY <1>6, <2>1
  <2>2. CASE ~r.found
    <3>1. p \in src .. m
      BY <1>1, <1>6, <2>2
    <3>. QED
      BY <1>6, <1>7, <2>2, <3>1 DEF AsIs
  <2>. QED
    BY <2>1, <2>2
<1>. QED
  BY <1>8, <1>9 DEF r, src, Drawn

\* linenoiseGetRenderFolds gives all the folds.
LEMMA AllRendered ==
  ASSUME NEW text, NEW fs \in Seq(Fold), Ordered(fs), Fits(fs, Len(text))
  PROVE  LET folds == linenoiseGetRenderFolds(text, fs) IN
         /\ folds \in Seq(Fold) /\ Ordered(folds) /\ Fits(folds, Len(text))
         /\ ToSet(folds) = ToSet(fs)
<1>. DEFINE W == {f \in ToSet(fs) : f.start < f.end /\ f.end <= Len(text)}
            r == Kept(fs, W)
<1>1. linenoiseGetRenderFolds(text, fs) = r
  BY DEF linenoiseGetRenderFolds
<1>2. \A k \in 1 .. Len(fs) : fs[k] \in W
  BY ToSetFacts DEF Ordered, Fits
<1>3. \A f \in W : f.end <= Len(text)
  OBVIOUS
<1>. HIDE DEF W
<1>4. /\ r \in Seq(Fold) /\ Len(r) <= Len(fs)
      /\ \A j \in 1 .. Len(r) : r[j] \in W /\ \E k \in 1 .. Len(fs) : r[j] = fs[k]
      /\ \A k \in 1 .. Len(fs) : fs[k] \in W => \E j \in 1 .. Len(r) : r[j] = fs[k]
      /\ Ordered(fs) => Ordered(r)
  BY KeptFacts
<1>. HIDE DEF r
<1>5. Fits(r, Len(text))
  BY <1>3, <1>4 DEF Fits
<1>6. ToSet(r) = ToSet(fs)
  <2>1. ToSet(r) = {r[j] : j \in 1 .. Len(r)} /\ ToSet(fs) = {fs[j] : j \in 1 .. Len(fs)}
    BY <1>4, ToSetFacts
  <2>. QED
    BY <1>2, <1>4, <2>1
<1>. QED
  BY <1>1, <1>4, <1>5, <1>6

-----------------------------------------------------------------------------
(* The theorems. *)

\* The line and the paste are sequences of characters, the cursor is in the
\* line, which is never longer than MaxLine: what linenoiseEditFeed reads and
\* writes of struct linenoiseState.
THEOREM TypeCorrect == Spec => []TypeOK
<1>1. IInv => TypeOK
  BY DEF IInv
<1>. QED
  BY <1>1, Invariance, PTL

\* linenoise copies memory between positions of the line: after any sequence
\* of keys and pastes these positions are in the line, the line is in its
\* memory and the folds are ranges of the line, in order.
THEOREM LineInMemory == Spec => []PositionsAreSafe
<1>1. ASSUME IInv PROVE PositionsAreSafe
  <2>1. /\ buf \in Seq(Char) /\ pos \in 0 .. Len(buf) /\ buflen <= MaxLine
        /\ fold \in Seq(Fold) /\ Ordered(fold) /\ Fits(fold, Len(buf)) /\ Len(fold) <= MaxFolds
    BY <1>1, LineFacts, LineEditAssumption
  <2>2. WellPlaced(buf, fold)
    BY <2>1, OrderedIsWellPlaced
  <2>3. /\ Len(buf) + Len(paste.text) <= buflen /\ Len(paste.text) <= paste.cap
        /\ paste.match < Len(PasteEnd) /\ (sent # <<>> => mode = "paste")
    BY <1>1 DEF IInv, Room
  <2>. QED
    BY <2>1, <2>2, <2>3 DEF PositionsAreSafe
<1>. QED
  BY <1>1, Invariance, PTL

\* The cursor goes over a fold in one move, whatever the clusters of the line
\* and whatever has been inserted, deleted or swapped around the folds.
THEOREM CursorOutOfFolds == Spec => []CursorStaysOutOfFolds
<1>1. ASSUME IInv, FoldsBetweenClusters PROVE ~InFold(fold, pos)
  <2>1. fold \in Seq(Fold) /\ OutOf(buf, fold, pos)
    BY <1>1, LineFacts
  <2>2. ASSUME NEW f \in ToSet(fold), f.start < pos, pos < f.end PROVE FALSE
    <3>1. PICK j \in 1 .. Len(fold) : f = fold[j]
      BY <2>1, ToSetFacts
    <3>2. Inside(buf, f.start) \/ Inside(buf, f.end)
      BY <2>1, <2>2, <3>1 DEF OutOf
    <3>. QED
      BY <1>1, <3>2 DEF FoldsBetweenClusters
  <2>. QED
    BY <2>2 DEF InFold
<1>2. IInv => CursorStaysOutOfFolds
  BY <1>1 DEF CursorStaysOutOfFolds
<1>. QED
  BY <1>2, Invariance, PTL

\* The loop of linenoiseRenderBuffer over the folds shows the line with one
\* marker for each fold, and the cursor after what is shown of the text before it.
THEOREM LineIsShown == Spec => []RenderShowsLine
<1>1. ASSUME IInv PROVE RenderShowsLine
  <2>. DEFINE T == Char \cup {Marker}
              folds == linenoiseGetRenderFolds(buf, fold)
              shown[i \in 0 .. Len(buf)] ==
                IF i = 0 THEN <<>> ELSE shown[i-1] \o Cell(buf, ToSet(fold), i)
              done[k \in 0 .. Len(folds)] ==
                IF k = 0 THEN [out |-> <<>>, src |-> 0, pos |-> 0, found |-> FALSE]
                ELSE RenderFold(buf, pos, done[k-1], folds[k])
              r == done[Len(folds)]
  <2>1. /\ buf \in Seq(Char) /\ pos \in 0 .. Len(buf) /\ pos \in Nat
        /\ fold \in Seq(Fold) /\ Ordered(fold) /\ Fits(fold, Len(buf))
    BY <1>1, LineFacts
  <2>2. buf \in Seq(T) /\ Char \subseteq T /\ Marker \in T
    BY <2>1
  <2>3. folds \in Seq(Fold) /\ Ordered(folds) /\ Fits(folds, Len(buf)) /\ ToSet(folds) = ToSet(fold)
    BY <2>1, AllRendered
  <2>4. Shows(shown, buf, ToSet(folds), T)
    <3>1. Shows(shown, buf, ToSet(fold), T)
      BY <2>1, <2>2, ShownFacts
    <3>. HIDE DEF shown
    <3>. QED
      BY <2>3, <3>1
  <2>. HIDE DEF folds
  <2>5. Loops(done, buf, pos, folds, T)
    BY <2>1, <2>2, <2>3, LoopFacts
  <2>. HIDE DEF shown, done
  <2>6. Drawn(r, buf, pos, shown)
    BY <2>1, <2>2, <2>3, <2>4, <2>5, LoopRenders
  <2>7. linenoiseRenderBuffer(buf, fold, pos)
          = [text |-> r.out \o SubSeq(buf, r.src + 1, Len(buf)),
             pos  |-> IF r.found THEN r.pos ELSE Len(r.out) + (pos - r.src)]
    BY DEF linenoiseRenderBuffer, done, folds
  <2>8. linenoiseRenderBuffer(buf, fold, pos) = [text |-> shown[Len(buf)], pos |-> Len(shown[pos])]
    BY <2>6, <2>7 DEF Drawn
  <2>. QED
    BY <2>8 DEF RenderShowsLine, shown, Cell, Hidden
<1>. QED
  BY <1>1, Invariance, PTL

\* Every key of linenoiseEditFeed keeps the line breaks of the line in folds.
THEOREM NewlinesAreFolded == Spec => NewlinesStayFolded
<1>. DEFINE A == /\ NewlinesFolded /\ FoldsBetweenClusters /\ JoinersFollow(buf)
                 /\ ~InFold(fold, pos) /\ ~Inside(buf, pos)
                 => NewlinesFolded'
<1>1. ASSUME IInv, [Next]_vars PROVE [A]_vars
  BY <1>1, StepStaysFolded DEF Tidy
<1>. HIDE DEF A
<1>2. Spec => [][A]_vars
  BY <1>1, Invariance, PTL DEF Spec
<1>. QED
  BY <1>2 DEF NewlinesStayFolded, A

\* utf8PrevCharLen finds from their ends the clusters that utf8NextCharLen
\* finds from their starts, in any line without flags and stray joiners.
THEOREM WalksAlwaysAgree == Spec => []WalksAgree
<1>1. ASSUME IInv PROVE WalksAgree
  <2>1. buf \in Seq(Char)
    BY <1>1, LineFacts
  <2>2. ASSUME Plain(buf), NEW p \in Boundaries(buf) \ {0}
        PROVE  LET q == p - utf8PrevCharLen(buf, p)
               IN  q \in Boundaries(buf) /\ q < p /\ \A r \in Boundaries(buf) : r <= q \/ p <= r
    BY <2>1, <2>2, WalkBack
  <2>. QED
    BY <2>2 DEF WalksAgree, Plain
<1>. QED
  BY <1>1, Invariance, PTL

\* What linenoiseEditPaste inserts is the text that the terminal sent, with
\* any part of the end sequence it contains, or nothing.
THEOREM PasteIsWhatWasSent == Spec => PasteIsTheText
<1>. DEFINE text == SubSeq(sent, 1, Len(sent) - (Len(PasteEnd) - 1))
            A == mode = "paste" /\ mode' = "edit" => PastedLine(text)
<1>1. ASSUME IInv, FinishPaste PROVE PastedLine(text)
  <2>. DEFINE m == paste.match
              t == paste.text
              max == MaxPaste
  <2>1. /\ paste \in PasteRecord /\ t \in Seq(Char) /\ m \in Nat
        /\ paste.overflowed \in BOOLEAN /\ sent \in Seq(Char)
    BY <1>1 DEF IInv, TypeOK, PasteRecord
  <2>2. /\ Len(t) <= max /\ m < Len(PasteEnd)
        /\ ~paste.overflowed => sent = t \o SubSeq(PasteEnd, 1, m)
        /\ paste.overflowed => Len(sent) > max + m
    BY <1>1 DEF IInv, Room, Reading
  <2>3. max \in Nat /\ buf \in Seq(Char) /\ pos \in 0 .. Len(buf)
    <3>1. max \in 0 .. MaxLine /\ MaxLine \in Nat /\ buf \in Seq(Char) /\ pos \in 0 .. Len(buf)
      BY <1>1, LineFacts, LineEditAssumption
    <3>. HIDE DEF max
    <3>. QED
      BY <3>1
  <2>4. Len(PasteEnd) - 1 = m
    BY <1>1, <2>1, PasteEndFacts DEF FinishPaste
  <2>5. text = SubSeq(sent, 1, Len(sent) - m)
    BY <2>4
  <2>6. /\ paste.overflowed \/ t = <<>> => buf' = buf
        /\ ~paste.overflowed /\ t # <<>> => buf' = Before \o Normalized(t) \o After
    BY <1>1 DEF FinishPaste, InsertPaste, linenoiseEditInsertNoRefresh
  <2>. HIDE DEF text, m, t, max
  <2>7. CASE paste.overflowed
    <3>. DEFINE n == Len(sent)
    <3>1. n \in Nat /\ n > max + m /\ n - m \in 0 .. n
      <4>1. n \in Nat /\ n > max + m
        BY <2>1, <2>2, <2>7
      <4>. HIDE DEF n
      <4>. QED
        BY <2>1, <2>3, <4>1
    <3>2. Len(SubSeq(sent, 1, n - m)) = n - m
      BY <2>1, <3>1
    <3>. HIDE DEF n
    <3>3. Len(text) > max
      BY <2>1, <2>3, <2>5, <3>1, <3>2 DEF n
    <3>. QED
      BY <2>6, <2>7, <3>3 DEF PastedLine, max
  <2>8. CASE ~paste.overflowed
    <3>. DEFINE e == SubSeq(PasteEnd, 1, m)
    <3>1. e \in Seq(Char) /\ Len(e) = m
      BY <2>1, <2>2, PasteEndFacts
    <3>2. sent = t \o e
      BY <2>2, <2>8
    <3>. HIDE DEF e
    <3>3. Len(t) \in Nat /\ Len(sent) = Len(t) + m
      <4>1. t \in Seq(Char) /\ e \in Seq(Char)
        BY <2>1, <3>1
      <4>2. Len(t) \in Nat /\ Len(t \o e) = Len(t) + Len(e)
        BY <4>1
      <4>. QED
        BY <3>1, <3>2, <4>2
    <3>4. Len(sent) - m = Len(t)
      BY <2>1, <3>3
    <3>5. text = t
      <4>1. t \in Seq(Char)
        BY <2>1
      <4>2. SubSeq(t \o e, 1, Len(t)) = t
        BY <3>1, <4>1
      <4>. QED
        BY <2>5, <3>2, <3>4, <4>2
    <3>6. ~ (Len(text) > max)
      BY <2>2, <2>3, <3>3, <3>5
    <3>7. buf' = Before \o Normalized(text) \o After
      <4>1. CASE t # <<>>
        BY <2>6, <2>8, <3>5, <4>1
      <4>2. CASE t = <<>>
        <5>. DEFINE w == Normalized(t)
        <5>1. t \in Seq(Char) /\ Len(t) = 0
          BY <2>1, <4>2
        <5>2. w \in Seq(Char) /\ Len(w) <= 0
          BY <5>1, NormalizedFacts
        <5>. HIDE DEF w
        <5>3. w = <<>>
          BY <5>2
        <5>4. Before \in Seq(Char) /\ Before \o <<>> = Before
          BY <2>3 DEF Before
        <5>5. Before \o After = buf
          BY <2>3, SplitLine DEF Before, After
        <5>. QED
          BY <2>6, <3>5, <4>2, <5>3, <5>4, <5>5 DEF w
      <4>. QED
        BY <4>1, <4>2
    <3>. QED
      BY <3>6, <3>7 DEF PastedLine, max
  <2>. QED
    BY <2>7, <2>8
<1>. HIDE DEF text
<1>2. ASSUME [Next]_vars, mode = "paste", mode' = "edit" PROVE FinishPaste
  BY <1>2 DEF Next, vars, Editing, linenoiseEditInsert, linenoiseEditMoveLeft,
     linenoiseEditMoveRight, MoveHomeEnd, linenoiseEditDelete, linenoiseEditBackspace,
     linenoiseEditDeletePrevWord, SwapChars, DeleteLine, DeleteToEnd,
     linenoiseEditHistoryNext, Enter, GiveUp, StartPaste, ReadPaste, ClosePaste
<1>3. ASSUME IInv, [Next]_vars PROVE [A]_vars
  BY <1>1, <1>2, <1>3
<1>. HIDE DEF A
<1>4. Spec => [][A]_vars
  BY <1>3, Invariance, PTL DEF Spec
<1>. QED
  BY <1>4 DEF PasteIsTheText, A, text
-----------------------------------------------------------------------------
(* The refinement of TextLine. *)

L == Before
R == After
Open == mode \in {"edit", "paste", "closed"}

LEMMA BothSides ==
  ASSUME IInv
  PROVE  /\ L \in Seq(Char) /\ Len(L) = pos /\ R \in Seq(Char) /\ Len(R) = Len(buf) - pos
         /\ L \o R = buf
<1>1. buf \in Seq(Char) /\ pos \in 0 .. Len(buf)
  BY LineFacts
<1>2. L \in Seq(Char) /\ Len(L) = pos
  BY <1>1 DEF L, Before
<1>3. R \in Seq(Char) /\ Len(R) = Len(buf) - pos
  BY <1>1 DEF R, After
<1>4. L \o R = buf
  BY <1>1, SplitLine DEF L, R, Before, After
<1>. QED
  BY <1>2, <1>3, <1>4

\* When the line is cut at the cursor after a step.
LEMMA NextSides ==
  ASSUME NEW a \in Seq(Char), NEW b \in Seq(Char), buf' = a \o b, pos' = Len(a)
  PROVE  L' = a /\ R' = b
<1>1. SubSeq(a \o b, 1, Len(a)) = a
  OBVIOUS
<1>2. SubSeq(a \o b, Len(a) + 1, Len(a \o b)) = b
  OBVIOUS
<1>. QED
  BY <1>1, <1>2 DEF L, R, Before, After

LEMMA SamePrefix ==
  ASSUME NEW s, NEW t
  PROVE  (Text!IsPrefix(s, t) <=> IsPrefix(s, t)) /\ (Text!IsSuffix(s, t) <=> IsSuffix(s, t))
<1>1. ASSUME NEW x, NEW y PROVE Text!IsPrefix(x, y) <=> IsPrefix(x, y)
  BY DEF Text!IsPrefix, IsPrefix
<1>2. ASSUME NEW x PROVE Text!Reverse(x) = Reverse(x)
  BY DEF Text!Reverse, Reverse
<1>. QED
  BY <1>1, <1>2 DEF Text!IsSuffix, IsSuffix

\* Text is inserted at the cursor.
LEMMA InsertStep ==
  ASSUME IInv, NEW text \in Seq(Char), linenoiseEditInsertNoRefresh(text), Open, Open'
  PROVE  Text!Next
<1>. DEFINE a == L \o text
<1>1. L \in Seq(Char) /\ Len(L) = pos /\ R \in Seq(Char)
  BY BothSides
<1>2. a \in Seq(Char) /\ Len(a) = Len(L) + Len(text) /\ IsPrefix(L, a)
  BY <1>1 DEF IsPrefix
<1>3. buf' = a \o R /\ pos' = pos + Len(text)
  BY DEF linenoiseEditInsertNoRefresh, L, R
<1>. HIDE DEF a
<1>4. L' = a /\ R' = R
  BY <1>1, <1>2, <1>3, NextSides
<1>5. Text!IsPrefix(L, L')
  BY <1>2, <1>4, SamePrefix
<1>. QED
  BY <1>4, <1>5 DEF Text!Next, Text!Insert, L, R, Open

\* Text before or after the cursor is deleted.
LEMMA CutStep ==
  ASSUME IInv, NEW start \in Nat, NEW end \in start .. Len(buf), Cut(start, end),
         pos' = start, pos = start \/ pos = end, Open, Open'
  PROVE  Text!Next
<1>. DEFINE a == SubSeq(buf, 1, start)
            b == SubSeq(buf, end + 1, Len(buf))
<1>1. buf \in Seq(Char) /\ Len(buf) \in Nat /\ pos \in 0 .. Len(buf)
  BY LineFacts
<1>2. a \in Seq(Char) /\ b \in Seq(Char) /\ Len(a) = start
  BY <1>1
<1>3. buf' = a \o b
  BY DEF Cut
<1>. HIDE DEF a, b
<1>4. L' = a /\ R' = b
  BY <1>2, <1>3, NextSides
<1>. USE DEF a, b
<1>5. CASE pos = start
  <2>1. L' = L
    BY <1>4, <1>5 DEF L, Before
  <2>2. start \in 0 .. Len(buf) /\ end \in start .. Len(buf)
    BY <1>1
  <2>3. IsSuffix(b, R)
    BY <1>1, <1>5, <2>2, SuffixFacts DEF R, After
  <2>4. Text!IsSuffix(R', R)
    BY <1>4, <2>3, SamePrefix
  <2>. QED
    BY <2>1, <2>4 DEF Text!Next, Text!Delete, L, R, Open
<1>6. CASE pos = end
  <2>1. R' = R
    BY <1>4, <1>6 DEF R, After
  <2>2. IsPrefix(a, L)
    BY <1>1, <1>6 DEF L, Before, IsPrefix
  <2>3. Text!IsPrefix(L', L)
    BY <1>4, <2>2, SamePrefix
  <2>. QED
    BY <2>1, <2>3 DEF Text!Next, Text!Delete, L, R, Open
<1>. QED
  BY <1>5, <1>6

\* The cursor moves, or the line is given with all its text.
LEMMA MoveStep ==
  ASSUME IInv, IInv', buf' = buf, Open
  PROVE  Text!Next
<1>1. L \o R = buf /\ (L \o R)' = buf'
  <2>1. L' \o R' = buf'
    <3>1. buf' \in Seq(Char) /\ pos' \in 0 .. Len(buf')
      BY DEF IInv, TypeOK
    <3>. QED
      BY <3>1, SplitLine DEF L, R, Before, After
  <2>. QED
    BY <2>1, BothSides
<1>2. CASE Open'
  BY <1>1, <1>2 DEF Text!Next, Text!Move, L, R, Open
<1>3. CASE ~Open'
  BY <1>1, <1>3 DEF Text!Next, Text!Close, L, R, Open
<1>. QED
  BY <1>2, <1>3

LEMMA SwapStep ==
  ASSUME IInv, SwapChars, Open, Open'
  PROVE  Text!Next
<1>. DEFINE start == pos - PrevLen(pos)
            n     == NextLen(pos)
            end   == pos + n
            m     == Len(buf)
            b == SubSeq(buf, pos + 1, end)
            c == SubSeq(buf, start + 1, pos)
            a == SubSeq(buf, 1, start) \o b \o c
            d == SubSeq(buf, end + 1, m)
<1>1. /\ start \in 0 .. pos - 1 /\ n \in Nat /\ end \in pos + 1 .. m
  BY SwapFacts
<1>2. buf \in Seq(Char) /\ m \in Nat /\ pos \in 0 .. m
  BY LineFacts
<1>3. pos' = end /\ buf' = a \o d
  BY DEF SwapChars
<1>. HIDE DEF start, n, end
<1>4. a \in Seq(Char) /\ Len(a) = end /\ d \in Seq(Char)
  <2>. DEFINE x == SubSeq(buf, 1, start)
              y == x \o b
  <2>1. x \in Seq(Char) /\ Len(x) = start
    BY <1>1, <1>2
  <2>2. b \in Seq(Char) /\ Len(b) = end - pos
    BY <1>1, <1>2
  <2>3. c \in Seq(Char) /\ Len(c) = pos - start
    BY <1>1, <1>2
  <2>4. d \in Seq(Char)
    BY <1>1, <1>2
  <2>5. a = y \o c
    OBVIOUS
  <2>. HIDE DEF x, b, c, d, a
  <2>6. y \in Seq(Char) /\ Len(y) = Len(x) + Len(b)
    BY <2>1, <2>2
  <2>. HIDE DEF y
  <2>7. y \o c \in Seq(Char) /\ Len(y \o c) = Len(y) + Len(c)
    BY <2>3, <2>6
  <2>8. start + (end - pos) + (pos - start) = end
    BY <1>1, <1>2 DEF end
  <2>. QED
    BY <2>1, <2>2, <2>3, <2>4, <2>5, <2>6, <2>7, <2>8
<1>5. L' = a /\ R' = d
  <2>. HIDE DEF a, d
  <2>. QED
    BY <1>3, <1>4, NextSides
<1>6. /\ Len(L) = pos /\ Len(R) = m - pos
      /\ SubSeq(L, 1, start) = SubSeq(buf, 1, start)
      /\ SubSeq(L, start + 1, pos) = c
      /\ SubSeq(R, 1, n) = b
      /\ SubSeq(R, n + 1, m - pos) = d
  <2>1. Len(L) = pos /\ Len(R) = m - pos
    BY BothSides
  <2>2. start \in 0 .. m /\ pos \in start .. m
    BY <1>1, <1>2
  <2>3. /\ SubSeq(SubSeq(buf, 1, pos), 1, start) = SubSeq(buf, 1, start)
        /\ SubSeq(SubSeq(buf, 1, pos), start + 1, pos) = SubSeq(buf, start + 1, pos)
    BY <1>2, <2>2
  <2>4. pos + n <= Len(buf)
    BY <1>1 DEF end
  <2>5. /\ SubSeq(SubSeq(buf, pos + 1, Len(buf)), 1, n) = SubSeq(buf, pos + 1, pos + n)
        /\ SubSeq(SubSeq(buf, pos + 1, Len(buf)), n + 1, Len(buf) - pos)
             = SubSeq(buf, pos + n + 1, Len(buf))
    BY <1>1, <1>2, <2>4
  <2>. QED
    BY <2>1, <2>3, <2>5 DEF L, R, Before, After, end
<1>7. start \in 0 .. Len(L) - 1 /\ n \in 1 .. Len(R)
  BY <1>1, <1>2, <1>6 DEF end
<1>8. /\ L' = SubSeq(L, 1, start) \o SubSeq(R, 1, n) \o SubSeq(L, start + 1, Len(L))
      /\ R' = SubSeq(R, n + 1, Len(R))
  BY <1>5, <1>6
<1>9. \E i \in 0 .. Len(L) - 1, j \in 1 .. Len(R) :
        /\ L' = SubSeq(L, 1, i) \o SubSeq(R, 1, j) \o SubSeq(L, i + 1, Len(L))
        /\ R' = SubSeq(R, j + 1, Len(R))
  BY <1>7, <1>8
<1>. QED
  BY <1>9 DEF Text!Next, Text!Swap, L, R, Open

\* The line is erased, or replaced by the start of a line of the history.
LEMMA ReplaceStep ==
  ASSUME IInv', pos' = Len(buf'), Open, Open',
         buf' = <<>> \/ \E text \in Recalled : IsPrefix(buf', text)
  PROVE  Text!Next
<1>1. buf' \in Seq(Char)
  BY DEF IInv, TypeOK
<1>2. L' = buf' /\ R' = <<>>
  <2>. DEFINE b == buf'
  <2>1. SubSeq(b, 1, Len(b)) = b /\ SubSeq(b, Len(b) + 1, Len(b)) = <<>>
    <3>. HIDE DEF b
    <3>1. b \in Seq(Char)
      BY <1>1 DEF b
    <3>. QED
      BY <3>1
  <2>. QED
    BY <2>1 DEF L, R, Before, After
<1>3. L' = <<>> \/ \E text \in Recalled : Text!IsPrefix(L', text)
  BY <1>2, SamePrefix
<1>. QED
  BY <1>2, <1>3 DEF Text!Next, Text!Replace, L, R, Open

\* Every step of the editor is a step of TextLine, or does not change the text,
\* the cursor and whether the line is open.
LEMMA StepRefines ==
  ASSUME IInv, IInv', [Next]_vars
  PROVE  [Text!Next]_(Text!vars)
<1>. DEFINE Same == L' = L /\ R' = R /\ Open' = Open
<1>1. ASSUME Same PROVE [Text!Next]_(Text!vars)
  BY <1>1 DEF Text!vars, L, R, Open
<1>2. ASSUME UNCHANGED <<buf, pos, mode>> PROVE Same
  BY <1>2 DEF L, R, Open, Before, After
<1>. HIDE DEF Same
<1>3. ASSUME Editing, mode' = mode PROVE Open /\ Open'
  BY <1>3 DEF Editing, Open
<1>4. CASE linenoiseEditInsert
  <2>1. PICK c \in Typed : linenoiseEditInsertNoRefresh(<<c>>) \/ UNCHANGED <<buf, pos>>
    BY <1>4 DEF linenoiseEditInsert
  <2>2. Editing /\ mode' = mode
    BY <1>4 DEF linenoiseEditInsert
  <2>3. <<c>> \in Seq(Char)
    BY DEF Char
  <2>. QED
    BY <1>1, <1>2, <1>3, <2>1, <2>2, <2>3, InsertStep
<1>5. CASE linenoiseEditMoveLeft \/ linenoiseEditMoveRight \/ MoveHomeEnd \/ Enter
  <2>1. Editing /\ buf' = buf
    BY <1>5 DEF linenoiseEditMoveLeft, linenoiseEditMoveRight, MoveHomeEnd, Enter
  <2>. QED
    BY <2>1, MoveStep DEF Editing, Open
<1>6. CASE GiveUp
  BY <1>6, MoveStep DEF GiveUp, Open
<1>7. CASE linenoiseEditDelete
  <2>1. /\ buf \in Seq(Char) /\ fold \in Seq(Fold) /\ Ordered(fold) /\ Fits(fold, Len(buf))
        /\ pos \in 0 .. Len(buf) - 1
    BY <1>7, LineFacts DEF linenoiseEditDelete
  <2>2. pos + NextLen(pos) \in pos + 1 .. Len(buf)
    BY <2>1, NextLenFacts DEF NextLen
  <2>3. pos + NextLen(pos) \in pos .. Len(buf) /\ pos \in Nat
    BY <2>1, <2>2
  <2>4. Editing /\ mode' = mode /\ Cut(pos, pos + NextLen(pos)) /\ pos' = pos
    BY <1>7 DEF linenoiseEditDelete
  <2>. QED
    BY <1>3, <2>3, <2>4, CutStep
<1>8. CASE linenoiseEditBackspace
  <2>. DEFINE q == pos - PrevLen(pos)
  <2>1. /\ buf \in Seq(Char) /\ fold \in Seq(Fold) /\ Ordered(fold) /\ Fits(fold, Len(buf))
        /\ pos \in 1 .. Len(buf)
    BY <1>8, LineFacts DEF linenoiseEditBackspace
  <2>2. q \in 0 .. pos - 1
    BY <2>1, PrevLenFacts DEF PrevLen
  <2>3. Editing /\ mode' = mode /\ Cut(q, pos) /\ pos' = q
    BY <1>8 DEF linenoiseEditBackspace
  <2>. HIDE DEF q
  <2>4. q \in Nat /\ pos \in q .. Len(buf)
    BY <2>1, <2>2
  <2>. QED
    BY <1>3, <2>3, <2>4, CutStep
<1>9. CASE linenoiseEditDeletePrevWord
  <2>1. WordStart \in 0 .. pos /\ pos \in 0 .. Len(buf)
    BY LineFacts, WordStartFacts
  <2>2. WordStart \in Nat /\ pos \in WordStart .. Len(buf)
    BY <2>1
  <2>3. Editing /\ mode' = mode /\ Cut(WordStart, pos) /\ pos' = WordStart
    BY <1>9 DEF linenoiseEditDeletePrevWord
  <2>. QED
    BY <1>3, <2>2, <2>3, CutStep
<1>10. CASE SwapChars
  <2>1. Editing /\ mode' = mode
    BY <1>10 DEF SwapChars
  <2>. QED
    BY <1>3, <1>10, <2>1, SwapStep
<1>11. CASE DeleteLine
  <2>1. Editing /\ mode' = mode /\ buf' = <<>> /\ pos' = 0
    BY <1>11 DEF DeleteLine
  <2>2. Len(<<>>) = 0
    OBVIOUS
  <2>. QED
    BY <1>3, <2>1, <2>2, ReplaceStep
<1>12. CASE DeleteToEnd
  <2>1. Editing /\ mode' = mode /\ Cut(pos, Len(buf)) /\ pos' = pos
    BY <1>12 DEF DeleteToEnd
  <2>2. pos \in Nat /\ Len(buf) \in pos .. Len(buf)
    BY LineFacts
  <2>. QED
    BY <1>3, <2>1, <2>2, CutStep
<1>13. CASE linenoiseEditHistoryNext
  <2>1. PICK text \in Recalled :
          buf' = text \/ (Len(text) > MaxLine /\ buf' = SubSeq(text, 1, buflen))
    BY <1>13 DEF linenoiseEditHistoryNext
  <2>2. Editing /\ mode' = mode /\ pos' = Len(buf')
    BY <1>13 DEF linenoiseEditHistoryNext
  <2>3. text \in Seq(ToSet(text))
    BY LineEditAssumption
  <2>4. IsPrefix(buf', text)
    <3>1. CASE buf' = text
      BY <2>3, <3>1 DEF IsPrefix
    <3>2. CASE Len(text) > MaxLine /\ buf' = SubSeq(text, 1, buflen)
      <4>1. buflen \in 0 .. Len(text)
        BY <2>3, <3>2, LineFacts, LineEditAssumption
      <4>. DEFINE S == ToSet(text)
      <4>. HIDE DEF S
      <4>2. text \in Seq(S)
        BY <2>3 DEF S
      <4>3. IsPrefix(SubSeq(text, 1, buflen), text)
        BY <4>1, <4>2 DEF IsPrefix
      <4>. QED
        BY <3>2, <4>3
    <3>. QED
      BY <2>1, <3>1, <3>2
  <2>. QED
    BY <1>3, <2>2, <2>4, ReplaceStep
<1>14. CASE StartPaste
  <2>1. Same
    BY <1>14 DEF StartPaste, Same, L, R, Open, Before, After
  <2>. QED
    BY <1>1, <2>1
<1>15. CASE ReadPaste
  BY <1>1, <1>2, <1>15 DEF ReadPaste
<1>16. CASE FinishPaste \/ ClosePaste
  <2>1. InsertPaste /\ Open /\ Open'
    BY <1>16 DEF FinishPaste, ClosePaste, Open
  <2>2. CASE UNCHANGED <<buf, pos>>
    BY <1>1, <2>1, <2>2 DEF Same, L, R, Open, Before, After
  <2>3. CASE ~ UNCHANGED <<buf, pos>>
    <3>1. linenoiseEditInsertNoRefresh(Normalized(paste.text))
      BY <2>1, <2>3 DEF InsertPaste
    <3>2. Normalized(paste.text) \in Seq(Char)
      BY NormalizedFacts DEF IInv, TypeOK, PasteRecord
    <3>. QED
      BY <2>1, <3>1, <3>2, InsertStep
  <2>. QED
    BY <2>2, <2>3
<1>17. CASE UNCHANGED vars
  BY <1>1, <1>2, <1>17 DEF vars
<1>. QED
  BY <1>4, <1>5, <1>6, <1>7, <1>8, <1>9, <1>10, <1>11, <1>12, <1>13, <1>14, <1>15, <1>16,
     <1>17 DEF Next

\* For every line, history and terminal the editor is a text with a cursor:
\* keys that move do not change the text, keys that delete take a part of it on
\* one side of the cursor, and what is inserted is put at the cursor.
THEOREM Refinement == Spec => ImplementsTextLine
<1>1. ASSUME Init PROVE Text!Init
  <2>1. buf = <<>> /\ pos = 0 /\ mode = "edit"
    BY <1>1 DEF Init
  <2>2. SubSeq(<<>>, 1, 0) = <<>> /\ SubSeq(<<>>, 0 + 1, Len(<<>>)) = <<>>
    OBVIOUS
  <2>. QED
    BY <2>1, <2>2 DEF Text!Init, Before, After
<1>2. IInv /\ IInv' /\ [Next]_vars => [Text!Next]_(Text!vars)
  BY StepRefines
<1>. QED
  BY <1>1, <1>2, Invariance, PTL DEF Spec, ImplementsTextLine, Text!Spec
=============================================================================
