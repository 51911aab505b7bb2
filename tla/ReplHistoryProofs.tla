------------------------- MODULE ReplHistoryProofs -------------------------
(***************************************************************************)
(* The history of the REPL: linenoise never leaves its array of entries,   *)
(* going through the history changes nothing but entries that are too      *)
(* long, and the file holds what was saved last.                           *)
(***************************************************************************)
EXTENDS ReplHistory, InductionLemmas

Char  == (UNION {ToSet(l) : l \in Line}) \cup {LineFeed, Return}
Entry == Seq(Char)

TypeOK ==
  /\ file \in Seq(Entry)
  /\ backend \in [Session -> {"readline", "linenoise"}]
  /\ pc \in [Session -> {"off", "free", "load", "read", "add", "save", "editing",
                         "writing", "none"}]
  /\ hist \in [Session -> Seq(Entry)]
  /\ max \in [Session -> Nat \ {0}]
  /\ dirty \in [Session -> BOOLEAN]
  /\ line \in [Session -> Entry]
  /\ buflen \in [Session -> InitialBuflen .. MaxLine]
  /\ index \in [Session -> Nat]
  /\ touched \in [Session -> BOOLEAN]
  /\ saved \in Seq(Entry)
  /\ torn \in BOOLEAN

\* The history fits, and the edited line has an entry.
HistoryOK(s) ==
  /\ Len(hist[s]) <= max[s]
  /\ pc[s] = "editing" => index[s] + 1 <= Len(hist[s])

\* The line is what the entry that is shown has given, until it is edited.
Recalls(s) ==
  pc[s] = "editing" /\ ~touched[s] /\ index[s] > 0 =>
    Recalled(hist[s][Len(hist[s]) - index[s]], line[s])

\* A save that nothing disturbs is alone to write in an empty file.
FileOK ==
  \/ torn
  \/ Writers = {} /\ file = saved
  \/ \E s \in Session : Writers = {s} /\ file = <<>>

IInv ==
  /\ TypeOK
  /\ \A s \in Session : HistoryOK(s) /\ Recalls(s)
  /\ FileOK

-----------------------------------------------------------------------------
(* Lines. *)

LEMMA LinesAreEntries == Line \subseteq Entry /\ <<>> \in Entry
<1>1. ASSUME NEW l \in Line PROVE l \in Entry
  <2>1. l \in Seq(ToSet(l)) /\ ToSet(l) \subseteq Char
    BY HistoryAssumption DEF Char
  <2>. QED
    BY <2>1 DEF Entry
<1>. QED
  BY <1>1, HistoryAssumption

LEMMA Conversions ==
  ASSUME NEW l \in Entry
  PROVE  Stored(l) \in Entry /\ Restored(l) \in Entry
<1>1. LineFeed \in Char /\ Return \in Char
  BY DEF Char
<1>2. DOMAIN l = 1 .. Len(l) /\ Len(l) \in Nat /\ \A i \in 1 .. Len(l) : l[i] \in Char
  BY DEF Entry
<1>3. Stored(l) = [i \in 1 .. Len(l) |-> IF l[i] = LineFeed THEN Return ELSE l[i]]
  BY <1>2 DEF Stored
<1>4. Restored(l) = [i \in 1 .. Len(l) |-> IF l[i] = Return THEN LineFeed ELSE l[i]]
  BY <1>2 DEF Restored
<1>. QED
  BY <1>1, <1>2, <1>3, <1>4 DEF Entry

LEMMA LatestFacts ==
  ASSUME NEW h \in Seq(Entry), NEW n \in Nat \ {0}
  PROVE  /\ Latest(h, n) \in Seq(Entry) /\ Len(Latest(h, n)) <= n
         /\ h # <<>> => Latest(h, n) # <<>>
<1>1. Len(h) \in Nat
  OBVIOUS
<1>2. CASE Len(h) <= n
  BY <1>2 DEF Latest
<1>3. CASE Len(h) > n
  <2>1. Latest(h, n) = SubSeq(h, Len(h) - n + 1, Len(h))
    BY <1>1, <1>3 DEF Latest
  <2>2. Len(h) - n + 1 \in 1 .. Len(h)
    BY <1>1, <1>3
  <2>. DEFINE g == SubSeq(h, Len(h) - n + 1, Len(h))
  <2>3. g \in Seq(Entry) /\ Len(g) = n
    BY <1>1, <1>3, <2>2
  <2>4. g # <<>>
    BY <2>3
  <2>. QED
    BY <2>1, <2>3, <2>4
<1>. QED
  BY <1>1, <1>2, <1>3

LEMMA AppendFacts ==
  ASSUME NEW h \in Seq(Entry), NEW l \in Entry, NEW n \in Nat \ {0}
  PROVE  /\ add_history(h, n, l) \in Seq(Entry) /\ Len(add_history(h, n, l)) <= n
         /\ add_history(h, n, l) # <<>>
<1>1. Append(h, l) \in Seq(Entry) /\ Len(Append(h, l)) = Len(h) + 1 /\ Len(h) \in Nat
  OBVIOUS
<1>2. Append(h, l) # <<>>
  BY <1>1
<1>. QED
  BY <1>1, <1>2, LatestFacts DEF add_history

LEMMA AddFacts ==
  ASSUME NEW h \in Seq(Entry), NEW l \in Entry, NEW n \in Nat \ {0}, Len(h) <= n
  PROVE  LET g == linenoiseHistoryAdd(h, n, l) IN
         g \in Seq(Entry) /\ Len(g) <= n /\ g # <<>>
BY AppendFacts DEF linenoiseHistoryAdd, add_history

\* readline.add keeps lines.
LEMMA CleanedFacts ==
  ASSUME NEW h \in Seq(Entry), NEW l \in Entry
  PROVE  Cleaned(h, l) \in Seq(Entry)
<1>. DEFINE oldest == IF Len(h) > HistorySearch + 1 THEN Len(h) - HistorySearch ELSE 1
            clean(g, i) == CASE i = 0 -> <<>>
                             [] i > oldest /\ h[i] = l -> g[i-1]
                             [] OTHER -> Append(g[i-1], h[i])
            c == CHOOSE g : g = [i \in 0 .. Len(h) |-> clean(g, i)]
<1>1. Cleaned(h, l) = c[Len(h)]
  BY DEF Cleaned
<1>2. Len(h) \in Nat /\ oldest \in Nat
  BY HistoryAssumption
<1>. HIDE DEF oldest, c
<1>. DEFINE S == Seq(Entry)
            next(g, i) == IF i > oldest /\ h[i] = l THEN g ELSE Append(g, h[i])
            F == [i \in 0 .. Len(h) |-> [g \in S |-> IF i > 0 THEN next(g, i) ELSE g]]
<1>3. \A i \in 1 .. Len(h), g \in S : next(g, i) \in S
  OBVIOUS
<1>. HIDE DEF S, next
<1>4. F \in [0 .. Len(h) -> [S -> S]]
  BY <1>2, <1>3
<1>5. \A i \in 1 .. Len(h), g \in S : F[i][g] = next(g, i)
  BY <1>2
<1>6. <<>> \in S
  BY DEF S
<1>. HIDE DEF F
<1>7. PICK g \in [0 .. Len(h) -> S] : Follows(g, Len(h), <<>>, F)
  BY <1>2, <1>4, <1>6, Recursion
<1>8. ASSUME NEW i \in 0 .. Len(h) PROVE g[i] = clean(g, i)
  <2>1. CASE i = 0
    BY <1>2, <1>7, <2>1 DEF Follows
  <2>2. CASE i # 0
    <3>1. i \in 1 .. Len(h) /\ g[i-1] \in S
      BY <2>2
    <3>2. g[i] = next(g[i-1], i)
      BY <1>5, <1>7, <2>2, <3>1 DEF Follows
    <3>. QED
      BY <1>2, <2>2, <3>2 DEF next
  <2>. QED
    BY <2>1, <2>2
<1>9. \A i \in 0 .. Len(h) : c[i] = clean(c, i)
  <2>. HIDE DEF clean
  <2>1. g = [i \in 0 .. Len(h) |-> g[i]]
    OBVIOUS
  <2>2. g = [i \in 0 .. Len(h) |-> clean(g, i)]
    BY <1>8, <2>1
  <2>3. c = [i \in 0 .. Len(h) |-> clean(c, i)]
    BY <2>2 DEF c
  <2>. QED
    BY <2>3
<1>. DEFINE N == {i \in 0 .. Len(h) : c[i] \in S}
<1>10. 0 \in N
  BY <1>2, <1>6, <1>9
<1>11. ASSUME NEW i \in 0 .. Len(h), i \in N, i < Len(h) PROVE i + 1 \in N
  <2>1. i + 1 \in 1 .. Len(h) /\ i + 1 - 1 = i /\ i + 1 # 0 /\ c[i] \in S
    BY <1>11
  <2>2. c[i+1] = clean(c, i + 1)
    <3>. HIDE DEF clean
    <3>. QED
      BY <1>9, <2>1
  <2>3. c[i+1] = next(c[i], i + 1)
    BY <1>2, <2>1, <2>2 DEF next
  <2>4. c[i+1] \in S
    BY <1>3, <2>1, <2>3
  <2>. QED
    BY <2>1, <2>4
<1>. HIDE DEF N
<1>12. 0 .. Len(h) \subseteq N
  BY <1>2, <1>10, <1>11, Induction
<1>13. c[Len(h)] \in S
  BY <1>2, <1>12 DEF N
<1>. QED
  BY <1>1, <1>13 DEF S

LEMMA LoadFacts ==
  ASSUME TypeOK, NEW h \in Seq(Entry), NEW n \in Nat \ {0}, Len(h) <= n
  PROVE  linenoiseHistoryLoad(h, n) \in Seq(Entry) /\ Len(linenoiseHistoryLoad(h, n)) <= n
<1>. DEFINE next(g, i) == linenoiseHistoryAdd(g, n, Restored(file[i]))
            load(g, i) == IF i = 0 THEN h ELSE next(g[i-1], i)
            c == CHOOSE g : g = [i \in 0 .. Len(file) |-> load(g, i)]
            m == Len(file)
            S == {g \in Seq(Entry) : Len(g) <= n}
            F == [i \in 0 .. m |-> [g \in S |-> IF i > 0 THEN next(g, i) ELSE g]]
<1>1. linenoiseHistoryLoad(h, n) = c[m]
  BY DEF linenoiseHistoryLoad
<1>2. m \in Nat /\ h \in S /\ \A i \in 1 .. m : file[i] \in Entry
  BY DEF TypeOK
<1>3. ASSUME NEW i \in 1 .. m, NEW g \in S PROVE next(g, i) \in S
  <2>1. Restored(file[i]) \in Entry
    BY <1>2, Conversions
  <2>. QED
    BY <2>1, AddFacts
<1>. HIDE DEF c, m, S, next
<1>4. F \in [0 .. m -> [S -> S]]
  BY <1>2, <1>3
<1>5. \A i \in 1 .. m, g \in S : F[i][g] = next(g, i)
  BY <1>2
<1>. HIDE DEF F
<1>6. PICK g \in [0 .. m -> S] : Follows(g, m, h, F)
  BY <1>2, <1>4, Recursion
<1>7. ASSUME NEW i \in 0 .. m PROVE g[i] = load(g, i)
  <2>1. CASE i = 0
    BY <1>6, <2>1 DEF Follows
  <2>2. CASE i # 0
    <3>1. i \in 1 .. m /\ g[i-1] \in S
      BY <1>2, <2>2
    <3>. QED
      BY <1>5, <1>6, <2>2, <3>1 DEF Follows
  <2>. QED
    BY <2>1, <2>2
<1>8. \A i \in 0 .. m : c[i] = load(c, i)
  <2>. HIDE DEF load
  <2>1. g = [i \in 0 .. m |-> g[i]]
    OBVIOUS
  <2>2. g = [i \in 0 .. m |-> load(g, i)]
    BY <1>7, <2>1
  <2>3. c = [i \in 0 .. m |-> load(c, i)]
    BY <2>2 DEF c, m
  <2>. QED
    BY <2>3
<1>. DEFINE N == {i \in 0 .. m : c[i] \in S}
<1>9. 0 \in N
  BY <1>2, <1>8
<1>10. ASSUME NEW i \in 0 .. m, i \in N, i < m PROVE i + 1 \in N
  <2>1. i + 1 \in 1 .. m /\ i + 1 - 1 = i /\ i + 1 # 0 /\ c[i] \in S /\ i + 1 \in 0 .. m
    BY <1>2, <1>10
  <2>2. c[i+1] = next(c[i], i + 1)
    BY <1>8, <2>1
  <2>3. c[i+1] \in S
    BY <1>3, <2>1, <2>2
  <2>. QED
    BY <2>1, <2>3
<1>. HIDE DEF N
<1>11. 0 .. m \subseteq N
  BY <1>2, <1>9, <1>10, Induction
<1>12. c[m] \in S
  BY <1>2, <1>11 DEF N
<1>. QED
  BY <1>1, <1>12 DEF S

LEMMA ReadFacts ==
  ASSUME TypeOK, NEW h \in Seq(Entry), NEW n \in Nat \ {0}, Len(h) <= n
  PROVE  read_history(h, n) \in Seq(Entry) /\ Len(read_history(h, n)) <= n
<1>. DEFINE next(g, i) == IF file[i] = <<>> THEN g ELSE add_history(g, n, file[i])
            load(g, i) == CASE i = 0 -> h
                            [] i > 0 /\ file[i] = <<>> -> g[i-1]
                            [] OTHER -> add_history(g[i-1], n, file[i])
            c == CHOOSE g : g = [i \in 0 .. Len(file) |-> load(g, i)]
            m == Len(file)
            S == {g \in Seq(Entry) : Len(g) <= n}
            F == [i \in 0 .. m |-> [g \in S |-> IF i > 0 THEN next(g, i) ELSE g]]
<1>1. read_history(h, n) = c[m]
  BY DEF read_history
<1>2. m \in Nat /\ h \in S /\ \A i \in 1 .. m : file[i] \in Entry
  BY DEF TypeOK
<1>3. ASSUME NEW i \in 1 .. m, NEW g \in S PROVE next(g, i) \in S
  <2>1. file[i] \in Entry
    BY <1>2
  <2>. QED
    BY <2>1, AppendFacts
<1>. HIDE DEF c, m, S, next
<1>4. F \in [0 .. m -> [S -> S]]
  BY <1>2, <1>3
<1>5. \A i \in 1 .. m, g \in S : F[i][g] = next(g, i)
  BY <1>2
<1>. HIDE DEF F
<1>6. PICK g \in [0 .. m -> S] : Follows(g, m, h, F)
  BY <1>2, <1>4, Recursion
<1>7. ASSUME NEW i \in 0 .. m PROVE g[i] = load(g, i)
  <2>1. CASE i = 0
    BY <1>6, <2>1 DEF Follows
  <2>2. CASE i # 0
    <3>1. i \in 1 .. m /\ g[i-1] \in S
      BY <1>2, <2>2
    <3>. QED
      BY <1>5, <1>6, <2>2, <3>1 DEF Follows, next
  <2>. QED
    BY <2>1, <2>2
<1>8. \A i \in 0 .. m : c[i] = load(c, i)
  <2>. HIDE DEF load
  <2>1. g = [i \in 0 .. m |-> g[i]]
    OBVIOUS
  <2>2. g = [i \in 0 .. m |-> load(g, i)]
    BY <1>7, <2>1
  <2>3. c = [i \in 0 .. m |-> load(c, i)]
    BY <2>2 DEF c, m
  <2>. QED
    BY <2>3
<1>. DEFINE N == {i \in 0 .. m : c[i] \in S}
<1>9. 0 \in N
  BY <1>2, <1>8
<1>10. ASSUME NEW i \in 0 .. m, i \in N, i < m PROVE i + 1 \in N
  <2>1. i + 1 \in 1 .. m /\ i + 1 - 1 = i /\ i + 1 # 0 /\ c[i] \in S /\ i + 1 \in 0 .. m
    BY <1>2, <1>10
  <2>2. c[i+1] = next(c[i], i + 1)
    <3>1. c[i+1] = load(c, i + 1)
      <4>. HIDE DEF load
      <4>. QED
        BY <1>8, <2>1
    <3>. QED
      BY <2>1, <3>1 DEF next
  <2>3. c[i+1] \in S
    BY <1>3, <2>1, <2>2
  <2>. QED
    BY <2>1, <2>3
<1>. HIDE DEF N
<1>11. 0 .. m \subseteq N
  BY <1>2, <1>9, <1>10, Induction
<1>12. c[m] \in S
  BY <1>2, <1>11 DEF N
<1>. QED
  BY <1>1, <1>12 DEF S

\* The entry of the edited line is removed.
LEMMA FrontFacts ==
  ASSUME NEW h \in Seq(Entry), Len(h) > 0
  PROVE  Front(h) \in Seq(Entry) /\ Len(Front(h)) = Len(h) - 1
<1>. DEFINE k == Len(h) - 1
<1>1. k \in Nat /\ k <= Len(h)
  OBVIOUS
<1>2. Front(h) = SubSeq(h, 1, k)
  BY DEF Front
<1>. HIDE DEF k
<1>3. SubSeq(h, 1, k) \in Seq(Entry) /\ Len(SubSeq(h, 1, k)) = k
  BY <1>1
<1>. QED
  BY <1>2, <1>3 DEF k

\* The buffer holds a text, unless the text is longer than any line.
LEMMA GrowFacts ==
  ASSUME NEW b \in InitialBuflen .. MaxLine, NEW n \in Nat
  PROVE  /\ Grow(b, n) \in InitialBuflen .. MaxLine
         /\ n <= MaxLine => n <= Grow(b, n)
<1>1. InitialBuflen \in Nat /\ MaxLine \in Nat /\ b \in Nat
  BY HistoryAssumption
<1>2. CASE n <= b \/ n > MaxLine
  BY <1>1, <1>2 DEF Grow
<1>3. CASE ~ (n <= b \/ n > MaxLine)
  <2>. DEFINE P(m) == m = MaxLine \/ \E k \in 0 .. n : m = b * 2^k
              T == {m \in n .. MaxLine : P(m)}
  <2>1. Grow(b, n) = Min(T)
    BY <1>3 DEF Grow
  <2>2. P(MaxLine)
    OBVIOUS
  <2>. HIDE DEF P
  <2>3. T \in SUBSET Nat /\ T \subseteq n .. MaxLine /\ MaxLine \in T
    BY <1>1, <1>3, <2>2
  <2>. HIDE DEF T
  <2>4. \E m \in T : \A k \in T : m <= k
    BY <2>3, LeastNumber
  <2>5. Min(T) \in T
    BY <2>4, Zenon DEF Min
  <2>6. Grow(b, n) \in n .. MaxLine
    BY <2>1, <2>3, <2>5
  <2>. QED
    BY <1>1, <1>3, <2>6
<1>. QED
  BY <1>2, <1>3

\* An entry is shown as it is, or cut.
LEMMA RecallFacts ==
  ASSUME TypeOK, NEW s \in Session, NEW e \in Entry, Recall(s, e)
  PROVE  /\ line' \in [Session -> Entry] /\ Recalled(e, line'[s])
         /\ buflen' \in [Session -> InitialBuflen .. MaxLine]
<1>. DEFINE n == Grow(buflen[s], Len(e))
            l == IF Len(e) <= n THEN e ELSE SubSeq(e, 1, n)
<1>1. /\ InitialBuflen \in Nat /\ MaxLine \in Nat /\ Len(e) \in Nat
      /\ buflen[s] \in InitialBuflen .. MaxLine
  BY HistoryAssumption DEF Entry, TypeOK
<1>2. n \in InitialBuflen .. MaxLine /\ (Len(e) <= MaxLine => Len(e) <= n)
  BY <1>1, GrowFacts
<1>3. buflen' = [buflen EXCEPT ![s] = n] /\ line' = [line EXCEPT ![s] = l]
  BY DEF Recall
<1>. HIDE DEF n
<1>4. l \in Entry /\ Recalled(e, l)
  <2>1. CASE Len(e) <= n
    BY <2>1 DEF Recalled
  <2>2. CASE Len(e) > n
    <3>1. l = SubSeq(e, 1, n) /\ Len(e) > MaxLine /\ n \in Nat /\ n <= Len(e)
      BY <1>1, <1>2, <2>2
    <3>. HIDE DEF l
    <3>2. l \in Entry /\ Len(l) = n /\ \A i \in 1 .. n : l[i] = e[i]
      BY <3>1 DEF Entry
    <3>3. SubSeq(l, 1, n) = l
      BY <3>1, <3>2 DEF Entry
    <3>4. IsPrefix(l, e)
      BY <3>1, <3>2, <3>3 DEF IsPrefix
    <3>. QED
      BY <1>1, <1>2, <3>1, <3>2, <3>4 DEF Recalled
  <2>. QED
    BY <1>1, <1>2, <2>1, <2>2
<1>. HIDE DEF l
<1>. QED
  BY <1>2, <1>3, <1>4 DEF TypeOK

-----------------------------------------------------------------------------
(* Steps of a session. *)

Act(s) ==
  Launch(s) \/ Step(s) \/ Read(s) \/ readline_history_set_len(s) \/ Kill(s)

Saves(s) == write_history(s) \/ OpenFile(s) \/ WriteFile(s) \/ Kill(s)

\* A session changes no variable of another one.
LEMMA OtherSessions ==
  ASSUME TypeOK, NEW s \in Session, Act(s), NEW t \in Session, t # s
  PROVE  /\ pc'[t] = pc[t] /\ hist'[t] = hist[t] /\ max'[t] = max[t]
         /\ line'[t] = line[t] /\ index'[t] = index[t] /\ touched'[t] = touched[t]
<1>1. CASE Launch(s)
  BY <1>1 DEF Launch, Done, TypeOK
<1>2. CASE Step(s)
  <2>1. CASE Exit(s)
    BY <2>1 DEF Exit, Off, Forget, TypeOK
  <2>2. CASE readline_history_load(s)
    BY <2>2 DEF readline_history_load, Done, TypeOK
  <2>3. CASE readline_history_add(s)
    BY <2>3 DEF readline_history_add, Done, TypeOK
  <2>4. CASE SaveNothing(s) \/ write_history(s) \/ OpenFile(s) \/ WriteFile(s)
    BY <2>4 DEF SaveNothing, write_history, OpenFile, WriteFile, Done, TypeOK
  <2>. QED
    BY <1>2, <2>1, <2>2, <2>3, <2>4 DEF Step
<1>3. CASE Read(s)
  <2>1. CASE readline_read(s)
    BY <2>1 DEF readline_read, Done, TypeOK
  <2>2. CASE linenoiseEditStart(s)
    BY <2>2 DEF linenoiseEditStart, Forget, TypeOK
  <2>3. CASE Edit(s)
    BY <2>3 DEF Edit, TypeOK
  <2>4. CASE linenoiseEditHistoryNext(s)
    BY <2>4 DEF linenoiseEditHistoryNext, Recall, TypeOK
  <2>5. CASE Enter(s)
    BY <2>5 DEF Enter, Done, Forget, TypeOK
  <2>6. CASE NoLine(s)
    BY <2>6 DEF NoLine, Done, Forget, TypeOK
  <2>. QED
    BY <1>3, <2>1, <2>2, <2>3, <2>4, <2>5, <2>6 DEF Read
<1>4. CASE readline_history_set_len(s)
  BY <1>4 DEF readline_history_set_len, TypeOK
<1>5. CASE Kill(s)
  BY <1>5 DEF Kill, Off, Forget, TypeOK
<1>. QED
  BY <1>1, <1>2, <1>3, <1>4, <1>5 DEF Act


\* The next call of a session.
LEMMA DoneFacts ==
  ASSUME TypeOK, NEW s \in Session,
         NEW op \in {"load", "read", "add", "save", "none"}, Done(s, op)
  PROVE  /\ pc' \in [Session -> {"off", "free", "load", "read", "add", "save", "editing",
                                 "writing", "none"}]
         /\ pc'[s] \notin {"editing", "writing"}
BY DEF Done, TypeOK

LEMMA OffFacts ==
  ASSUME TypeOK, NEW s \in Session, Off(s)
  PROVE  /\ pc' \in [Session -> {"off", "free", "load", "read", "add", "save", "editing",
                                 "writing", "none"}]
         /\ hist' \in [Session -> Seq(Entry)] /\ max' \in [Session -> Nat \ {0}]
         /\ dirty' \in [Session -> BOOLEAN] /\ line' \in [Session -> Entry]
         /\ buflen' \in [Session -> InitialBuflen .. MaxLine]
         /\ index' \in [Session -> Nat] /\ touched' \in [Session -> BOOLEAN]
         /\ pc'[s] = "off" /\ hist'[s] = <<>> /\ max'[s] \in Nat \ {0}
<1>1. /\ <<>> \in Seq(Entry) /\ <<>> \in Entry /\ HistoryLen \in Nat \ {0}
      /\ InitialBuflen \in InitialBuflen .. MaxLine
  BY LinesAreEntries, HistoryAssumption
<1>2. pc'[s] = "off" /\ hist'[s] = <<>> /\ max'[s] = HistoryLen
  BY DEF Off, TypeOK
<1>. QED
  BY <1>1, <1>2 DEF Off, Forget, TypeOK

\* The session does not edit a line: its history has to fit, and that is all.
LEMMA NotEditing ==
  ASSUME NEW s \in Session, pc'[s] # "editing", Len(hist'[s]) <= max'[s]
  PROVE  HistoryOK(s)' /\ Recalls(s)'
BY DEF HistoryOK, Recalls

Good(s) == TypeOK' /\ HistoryOK(s)' /\ Recalls(s)'

LEMMA HistGood ==
  ASSUME TypeOK, NEW s \in Session, HistoryOK(s),
         NEW h \in Seq(Entry), Len(h) <= max[s], hist' = [hist EXCEPT ![s] = h],
         NEW op \in {"load", "read", "add", "save", "none"}, Done(s, op),
         UNCHANGED <<file, backend, max, line, buflen, index, touched, saved, torn>>,
         dirty' \in [Session -> BOOLEAN]
  PROVE  Good(s)
<1>1. pc'[s] # "editing" /\ hist'[s] = h /\ max'[s] = max[s]
  BY DoneFacts DEF TypeOK
<1>2. TypeOK'
  BY DoneFacts DEF TypeOK
<1>. QED
  BY <1>1, <1>2, NotEditing DEF Good

LEMMA LoadGood ==
  ASSUME TypeOK, NEW s \in Session, HistoryOK(s), readline_history_load(s)
  PROVE  Good(s)
<1>. DEFINE h == IF backend[s] = "readline" THEN read_history(hist[s], max[s])
                 ELSE linenoiseHistoryLoad(hist[s], max[s])
<1>1. hist[s] \in Seq(Entry) /\ max[s] \in Nat \ {0} /\ Len(hist[s]) <= max[s]
  BY DEF TypeOK, HistoryOK
<1>2. h \in Seq(Entry) /\ Len(h) <= max[s]
  BY <1>1, LoadFacts, ReadFacts
<1>3. /\ hist' = [hist EXCEPT ![s] = h] /\ Done(s, "read")
      /\ UNCHANGED <<file, backend, max, line, buflen, index, touched, saved, torn>>
      /\ dirty' \in [Session -> BOOLEAN]
  BY DEF readline_history_load, TypeOK
<1>. HIDE DEF h
<1>. QED
  BY <1>2, <1>3, HistGood

LEMMA AddGood ==
  ASSUME TypeOK, NEW s \in Session, HistoryOK(s), readline_history_add(s)
  PROVE  Good(s)
<1>1. /\ hist[s] \in Seq(Entry) /\ max[s] \in Nat \ {0} /\ Len(hist[s]) <= max[s]
      /\ line[s] \in Entry
  BY DEF TypeOK, HistoryOK
<1>2. PICK l \in IF s \in Script THEN Line ELSE {line[s]} :
        \/ /\ hist' = [hist EXCEPT ![s] = linenoiseHistoryAdd(@, max[s], l)]
           /\ dirty' = [dirty EXCEPT ![s] = TRUE]
        \/ /\ hist' = [hist EXCEPT ![s] = add_history(Cleaned(@, l), max[s], l)]
           /\ dirty' = [dirty EXCEPT ![s] = TRUE]
        \/ UNCHANGED <<hist, dirty>>
  BY DEF readline_history_add
<1>3. l \in Entry
  BY <1>1, <1>2, LinesAreEntries
<1>4. dirty' \in [Session -> BOOLEAN]
  BY <1>2 DEF TypeOK
<1>5. /\ Done(s, "save")
      /\ UNCHANGED <<file, backend, max, line, buflen, index, touched, saved, torn>>
  BY DEF readline_history_add
<1>6. CASE hist' = [hist EXCEPT ![s] = linenoiseHistoryAdd(@, max[s], l)]
  <2>. DEFINE h == linenoiseHistoryAdd(hist[s], max[s], l)
  <2>1. h \in Seq(Entry) /\ Len(h) <= max[s]
    BY <1>1, <1>3, AddFacts
  <2>2. hist' = [hist EXCEPT ![s] = h]
    BY <1>6
  <2>. HIDE DEF h
  <2>. QED
    BY <1>4, <1>5, <2>1, <2>2, HistGood
<1>7. CASE hist' = [hist EXCEPT ![s] = add_history(Cleaned(@, l), max[s], l)]
  <2>. DEFINE h == add_history(Cleaned(hist[s], l), max[s], l)
  <2>1. h \in Seq(Entry) /\ Len(h) <= max[s]
    BY <1>1, <1>3, CleanedFacts, AppendFacts
  <2>2. hist' = [hist EXCEPT ![s] = h]
    BY <1>7
  <2>. HIDE DEF h
  <2>. QED
    BY <1>4, <1>5, <2>1, <2>2, HistGood
<1>8. CASE UNCHANGED hist
  <2>1. hist' = [hist EXCEPT ![s] = hist[s]]
    BY <1>8 DEF TypeOK
  <2>. QED
    BY <1>1, <1>4, <1>5, <2>1, HistGood
<1>. QED
  BY <1>2, <1>6, <1>7, <1>8

LEMMA SetLenGood ==
  ASSUME TypeOK, NEW s \in Session, HistoryOK(s), readline_history_set_len(s)
  PROVE  Good(s)
<1>1. PICK n \in Lengths : /\ max' = [max EXCEPT ![s] = n]
                           /\ hist' = [hist EXCEPT ![s] = Latest(@, n)]
  BY DEF readline_history_set_len
<1>2. n \in Nat \ {0} /\ hist[s] \in Seq(Entry)
  BY HistoryAssumption DEF TypeOK
<1>. DEFINE h == Latest(hist[s], n)
<1>3. h \in Seq(Entry) /\ Len(h) <= n
  BY <1>2, LatestFacts
<1>4. hist' = [hist EXCEPT ![s] = h]
  BY <1>1
<1>. HIDE DEF h
<1>5. /\ pc[s] = "free"
      /\ UNCHANGED <<file, backend, pc, dirty, line, buflen, index, touched, saved, torn>>
  BY DEF readline_history_set_len
<1>6. TypeOK'
  BY <1>1, <1>2, <1>3, <1>4, <1>5 DEF TypeOK
<1>7. pc'[s] # "editing" /\ hist'[s] = h /\ max'[s] = n
  BY <1>1, <1>4, <1>5 DEF TypeOK
<1>. QED
  BY <1>3, <1>6, <1>7, NotEditing DEF Good

-----------------------------------------------------------------------------
(* Saves. *)

LEMMA StoredFacts ==
  ASSUME TypeOK, NEW s \in Session
  PROVE  /\ StoredHistory(s) \in Seq(Entry)
         /\ Len(StoredHistory(s)) = Len(hist[s])
<1>1. hist[s] \in Seq(Entry)
  BY DEF TypeOK
<1>2. DOMAIN hist[s] = 1 .. Len(hist[s]) /\ Len(hist[s]) \in Nat
  BY <1>1
<1>3. \A i \in 1 .. Len(hist[s]) : Stored(hist[s][i]) \in Entry
  BY <1>1, Conversions
<1>4. StoredHistory(s) = [i \in 1 .. Len(hist[s]) |-> Stored(hist[s][i])]
  BY <1>2 DEF StoredHistory
<1>. HIDE DEF Entry
<1>. QED
  BY <1>2, <1>3, <1>4

LEMMA OverwriteFacts ==
  ASSUME NEW old \in Seq(Entry), NEW new \in Seq(Entry)
  PROVE  Overwrite(old, new) \in Seq(Entry) /\ (old = <<>> => Overwrite(old, new) = new)
<1>. DEFINE a == Len(new) + 1
            rest == SubSeq(old, a, Len(old))
<1>1. a \in Nat \ {0}
  OBVIOUS
<1>2. Overwrite(old, new) = new \o rest
  BY DEF Overwrite
<1>. HIDE DEF a
<1>3. rest \in Seq(Entry) /\ (old = <<>> => rest = <<>>)
  BY <1>1
<1>. HIDE DEF rest
<1>. QED
  BY <1>2, <1>3

LEMMA SaveGood ==
  ASSUME TypeOK, NEW s \in Session, HistoryOK(s),
         SaveNothing(s) \/ write_history(s) \/ OpenFile(s) \/ WriteFile(s)
  PROVE  Good(s)
<1>1. /\ hist' = hist /\ max' = max /\ line' = line /\ index' = index
      /\ buflen' = buflen /\ touched' = touched /\ backend' = backend
  BY DEF SaveNothing, write_history, OpenFile, WriteFile
<1>2. /\ pc' \in [Session -> {"off", "free", "load", "read", "add", "save", "editing",
                              "writing", "none"}]
      /\ pc'[s] # "editing"
  BY DoneFacts DEF SaveNothing, write_history, OpenFile, WriteFile, TypeOK
<1>3. dirty' \in [Session -> BOOLEAN] /\ torn' \in BOOLEAN
  BY DEF SaveNothing, write_history, OpenFile, WriteFile, TypeOK
<1>4. file' \in Seq(Entry) /\ saved' \in Seq(Entry)
  <2>1. CASE SaveNothing(s)
    BY <2>1 DEF SaveNothing, TypeOK
  <2>2. CASE write_history(s)
    <3>1. file' = hist[s] /\ saved' = hist[s]
      BY <2>2 DEF write_history
    <3>. QED
      BY <3>1 DEF TypeOK
  <2>3. CASE OpenFile(s)
    <3>1. <<>> \in Seq(Entry) /\ file' = <<>> /\ saved' = <<>>
      BY <2>3 DEF OpenFile
    <3>. QED
      BY <3>1 DEF TypeOK
  <2>4. CASE WriteFile(s)
    <3>1. /\ file' = Overwrite(file, StoredHistory(s)) /\ saved' = StoredHistory(s)
          /\ file \in Seq(Entry) /\ StoredHistory(s) \in Seq(Entry)
      BY <2>4, StoredFacts DEF WriteFile, TypeOK
    <3>. QED
      BY <3>1, OverwriteFacts
  <2>. QED
    BY <2>1, <2>2, <2>3, <2>4
<1>5. TypeOK'
  BY <1>1, <1>2, <1>3, <1>4 DEF TypeOK
<1>6. Len(hist'[s]) <= max'[s]
  BY <1>1 DEF HistoryOK
<1>. QED
  BY <1>2, <1>5, <1>6, NotEditing DEF Good

LEMMA OffGood ==
  ASSUME TypeOK, NEW s \in Session, Launch(s) \/ Exit(s) \/ Kill(s), HistoryOK(s)
  PROVE  Good(s)
<1>1. CASE Launch(s)
  <2>1. hist' = [hist EXCEPT ![s] = hist[s]]
    BY <1>1 DEF Launch, TypeOK
  <2>. QED
    BY <1>1, <2>1, HistGood DEF Launch, TypeOK, HistoryOK
<1>2. CASE Exit(s) \/ Kill(s)
  <2>1. Off(s) /\ backend' = backend
    BY <1>2 DEF Exit, Kill
  <2>2. file' \in Seq(Entry) /\ saved' \in Seq(Entry) /\ torn' \in BOOLEAN
    <3>1. CASE UNCHANGED <<file, saved, torn>>
      BY <3>1 DEF TypeOK
    <3>2. CASE /\ saved' = <<>> /\ torn' = TRUE
               /\ \E n \in 0 .. Len(hist[s]) :
                    file' = Overwrite(file, SubSeq(StoredHistory(s), 1, n))
      <4>1. PICK n \in 0 .. Len(hist[s]) :
              file' = Overwrite(file, SubSeq(StoredHistory(s), 1, n))
        BY <3>2
      <4>2. n \in Nat /\ n <= Len(StoredHistory(s)) /\ StoredHistory(s) \in Seq(Entry)
        BY StoredFacts DEF TypeOK
      <4>3. SubSeq(StoredHistory(s), 1, n) \in Seq(Entry)
        BY <4>2
      <4>4. file' \in Seq(Entry)
        BY <4>1, <4>3, OverwriteFacts DEF TypeOK
      <4>5. <<>> \in Seq(Entry)
        OBVIOUS
      <4>. QED
        BY <3>2, <4>4, <4>5
    <3>. QED
      BY <1>2, <3>1, <3>2 DEF Exit, Kill
  <2>3. TypeOK'
    BY <2>1, <2>2, OffFacts DEF TypeOK
  <2>4. pc'[s] # "editing" /\ Len(hist'[s]) <= max'[s]
    <3>1. pc'[s] = "off" /\ hist'[s] = <<>> /\ max'[s] \in Nat
      BY <2>1, OffFacts
    <3>. QED
      BY <3>1
  <2>. QED
    BY <2>3, <2>4, NotEditing DEF Good
<1>. QED
  BY <1>1, <1>2

-----------------------------------------------------------------------------
(* Reads. *)

LEMMA StartGood ==
  ASSUME TypeOK, NEW s \in Session, HistoryOK(s),
         readline_read(s) \/ linenoiseEditStart(s)
  PROVE  Good(s)
<1>1. CASE readline_read(s)
  <2>1. PICK l \in Line : line' = IF s \in Script THEN line ELSE [line EXCEPT ![s] = l]
    BY <1>1 DEF readline_read
  <2>2. line' \in [Session -> Entry]
    BY <2>1, LinesAreEntries DEF TypeOK
  <2>3. /\ Done(s, "add")
        /\ UNCHANGED <<file, backend, hist, max, dirty, buflen, index, touched, saved, torn>>
    BY <1>1 DEF readline_read
  <2>4. TypeOK' /\ pc'[s] # "editing"
    BY <2>2, <2>3, DoneFacts DEF TypeOK
  <2>5. Len(hist'[s]) <= max'[s]
    BY <2>3 DEF HistoryOK
  <2>. QED
    BY <2>4, <2>5, NotEditing DEF Good
<1>2. CASE linenoiseEditStart(s)
  <2>. DEFINE h == linenoiseHistoryAdd(hist[s], max[s], <<>>)
  <2>1. hist[s] \in Seq(Entry) /\ max[s] \in Nat \ {0} /\ Len(hist[s]) <= max[s]
    BY DEF TypeOK, HistoryOK
  <2>2. h \in Seq(Entry) /\ Len(h) <= max[s] /\ h # <<>>
    BY <2>1, AddFacts, LinesAreEntries
  <2>3. /\ hist' = [hist EXCEPT ![s] = h] /\ pc' = [pc EXCEPT ![s] = "editing"]
        /\ line' = [line EXCEPT ![s] = <<>>] /\ Forget(s)
        /\ UNCHANGED <<file, backend, max, dirty, saved, torn>>
    BY <1>2 DEF linenoiseEditStart
  <2>. HIDE DEF h
  <2>4. TypeOK'
    BY <2>2, <2>3, LinesAreEntries, HistoryAssumption DEF TypeOK, Forget
  <2>5. hist'[s] = h /\ max'[s] = max[s] /\ index'[s] = 0
    BY <2>3 DEF TypeOK, Forget
  <2>6. Len(h) \in Nat /\ Len(h) > 0
    BY <2>2
  <2>. QED
    BY <2>2, <2>4, <2>5, <2>6 DEF Good, HistoryOK, Recalls
<1>. QED
  BY <1>1, <1>2

LEMMA EditGood ==
  ASSUME TypeOK, NEW s \in Session, HistoryOK(s), Edit(s)
  PROVE  Good(s) /\ hist' = hist
<1>1. PICK l \in Line : /\ line' = [line EXCEPT ![s] = l]
                        /\ buflen' = [buflen EXCEPT ![s] = Grow(@, Len(l))]
  BY DEF Edit
<1>2. /\ touched' = [touched EXCEPT ![s] = touched[s] \/ index[s] > 0]
      /\ UNCHANGED <<file, backend, pc, hist, max, dirty, index, saved, torn>>
  BY DEF Edit
<1>3. (touched[s] \/ index[s] > 0) \in BOOLEAN
  BY DEF TypeOK
<1>4. touched' \in [Session -> BOOLEAN]
  BY <1>2, <1>3 DEF TypeOK
<1>5. TypeOK'
  <2>1. l \in Entry
    BY LinesAreEntries
  <2>2. Len(l) \in Nat /\ buflen[s] \in InitialBuflen .. MaxLine
    BY <2>1 DEF Entry, TypeOK
  <2>3. Grow(buflen[s], Len(l)) \in InitialBuflen .. MaxLine
    BY <2>2, GrowFacts
  <2>4. buflen' \in [Session -> InitialBuflen .. MaxLine]
    BY <1>1, <2>3 DEF TypeOK
  <2>. QED
    BY <1>1, <1>2, <1>4, <2>1, <2>4 DEF TypeOK
<1>6. HistoryOK(s)'
  BY <1>2 DEF HistoryOK
<1>7. Recalls(s)'
  BY <1>2 DEF Recalls, TypeOK
<1>. QED
  BY <1>2, <1>5, <1>6, <1>7 DEF Good

\* The line goes back where it comes from, and another entry is shown.
LEMMA WalkGood ==
  ASSUME TypeOK, NEW s \in Session, HistoryOK(s), Recalls(s),
         linenoiseEditHistoryNext(s)
  PROVE  /\ Good(s)
         /\ ~touched[s] =>
              \A i \in 1 .. Len(hist[s]) - 1 : Recalled(hist[s][i], hist'[s][i])
<1>. DEFINE n == Len(hist[s])
            h == [hist[s] EXCEPT ![n - index[s]] = line[s]]
<1>1. /\ hist[s] \in Seq(Entry) /\ line[s] \in Entry /\ index[s] \in Nat /\ n \in Nat
      /\ pc[s] = "editing" /\ n > 1 /\ index[s] + 1 <= n /\ n <= max[s]
      /\ touched[s] \in BOOLEAN
  BY DEF TypeOK, linenoiseEditHistoryNext, HistoryOK
<1>2. h \in Seq(Entry) /\ Len(h) = n
  BY <1>1
<1>3. \A i \in 1 .. n : h[i] = IF i = n - index[s] THEN line[s] ELSE hist[s][i]
  BY <1>1
<1>4. /\ hist' = [hist EXCEPT ![s] = h]
      /\ \/ /\ index[s] + 1 < Len(h)
            /\ index' = [index EXCEPT ![s] = index[s] + 1]
            /\ Recall(s, h[Len(h) - index[s] - 1])
         \/ /\ index[s] > 0
            /\ index' = [index EXCEPT ![s] = index[s] - 1]
            /\ Recall(s, h[Len(h) - index[s] + 1])
         \/ index[s] \in {0, Len(h) - 1} /\ UNCHANGED <<line, buflen, index>>
      /\ UNCHANGED <<file, backend, pc, max, dirty, touched, saved, torn>>
  BY DEF linenoiseEditHistoryNext
<1>5. n - index[s] \in 1 .. n
  BY <1>1
<1>. HIDE DEF n, h
<1>6. hist'[s] = h /\ max'[s] = max[s] /\ pc'[s] = "editing" /\ touched'[s] = touched[s]
  BY <1>1, <1>4 DEF TypeOK
<1>7. /\ index' \in [Session -> Nat] /\ line' \in [Session -> Entry]
      /\ buflen' \in [Session -> InitialBuflen .. MaxLine]
      /\ index'[s] \in Nat /\ index'[s] + 1 <= n
      /\ index'[s] > 0 => Recalled(h[n - index'[s]], line'[s])
  <2>1. CASE /\ index[s] + 1 < Len(h)
             /\ index' = [index EXCEPT ![s] = index[s] + 1]
             /\ Recall(s, h[Len(h) - index[s] - 1])
    <3>1. index'[s] = index[s] + 1 /\ Recall(s, h[n - index[s] - 1])
      BY <1>2, <2>1 DEF TypeOK
    <3>2. index[s] + 1 < n
      BY <1>2, <2>1
    <3>3. n - index[s] - 1 \in 1 .. n /\ n - (index[s] + 1) = n - index[s] - 1
      BY <1>1, <3>2
    <3>4. h[n - index[s] - 1] \in Entry
      BY <1>2, <3>3
    <3>5. index' \in [Session -> Nat]
      BY <1>1, <2>1 DEF TypeOK
    <3>6. /\ line' \in [Session -> Entry] /\ Recalled(h[n - index[s] - 1], line'[s])
          /\ buflen' \in [Session -> InitialBuflen .. MaxLine]
      BY <3>1, <3>4, RecallFacts
    <3>. QED
      BY <1>1, <3>1, <3>2, <3>3, <3>5, <3>6
  <2>2. CASE /\ index[s] > 0
             /\ index' = [index EXCEPT ![s] = index[s] - 1]
             /\ Recall(s, h[Len(h) - index[s] + 1])
    <3>1. index'[s] = index[s] - 1 /\ Recall(s, h[n - index[s] + 1])
      BY <1>2, <2>2 DEF TypeOK
    <3>2. n - index[s] + 1 \in 1 .. n /\ n - (index[s] - 1) = n - index[s] + 1
      BY <1>1, <1>2, <2>2
    <3>3. h[n - index[s] + 1] \in Entry /\ index[s] - 1 \in Nat
      BY <1>1, <1>2, <2>2, <3>2
    <3>4. index' \in [Session -> Nat]
      BY <2>2, <3>3 DEF TypeOK
    <3>5. /\ line' \in [Session -> Entry] /\ Recalled(h[n - index[s] + 1], line'[s])
          /\ buflen' \in [Session -> InitialBuflen .. MaxLine]
      BY <3>1, <3>3, RecallFacts
    <3>. QED
      BY <1>1, <3>1, <3>2, <3>3, <3>4, <3>5
  <2>3. CASE UNCHANGED <<line, buflen, index>>
    <3>1. h[n - index[s]] = line[s]
      BY <1>3, <1>5
    <3>2. line' = line /\ buflen' = buflen /\ index' = index
      BY <2>3
    <3>3. Recalled(h[n - index[s]], line[s])
      BY <3>1 DEF Recalled
    <3>. QED
      BY <1>1, <3>2, <3>3 DEF TypeOK
  <2>. QED
    BY <1>4, <2>1, <2>2, <2>3
<1>8. TypeOK'
  BY <1>2, <1>4, <1>7 DEF TypeOK
<1>9. HistoryOK(s)' /\ Recalls(s)'
  BY <1>1, <1>2, <1>6, <1>7 DEF HistoryOK, Recalls
<1>10. ASSUME ~touched[s], NEW i \in 1 .. n - 1
       PROVE  Recalled(hist[s][i], hist'[s][i])
  <2>1. i \in 1 .. n
    BY <1>1
  <2>2. CASE i = n - index[s]
    <3>1. index[s] > 0
      BY <1>1, <2>2
    <3>2. Recalled(hist[s][n - index[s]], line[s])
      BY <1>1, <1>10, <3>1 DEF Recalls, n
    <3>. QED
      BY <1>3, <1>6, <2>1, <2>2, <3>2
  <2>3. CASE i # n - index[s]
    <3>1. hist'[s][i] = hist[s][i]
      BY <1>3, <1>6, <2>1, <2>3
    <3>. QED
      BY <3>1 DEF Recalled
  <2>. QED
    BY <2>2, <2>3
<1>. QED
  BY <1>8, <1>9, <1>10 DEF Good, n

LEMMA EndGood ==
  ASSUME TypeOK, NEW s \in Session, HistoryOK(s), Enter(s) \/ NoLine(s)
  PROVE  Good(s)
<1>1. \/ pc[s] = "editing" /\ hist' = [hist EXCEPT ![s] = Front(hist[s])]
      \/ UNCHANGED hist
  BY DEF Enter, NoLine
<1>2. /\ Done(s, "add") \/ Done(s, "none")
      /\ Forget(s) /\ UNCHANGED <<file, backend, max, dirty, saved, torn>>
  BY DEF Enter, NoLine
<1>3. line' \in [Session -> Entry]
  BY LinesAreEntries DEF Enter, NoLine, TypeOK
<1>4. hist[s] \in Seq(Entry) /\ max[s] \in Nat /\ Len(hist[s]) <= max[s] /\ Len(hist[s]) \in Nat
  BY DEF TypeOK, HistoryOK
<1>5. hist' \in [Session -> Seq(Entry)] /\ Len(hist'[s]) <= max[s]
  <2>1. CASE pc[s] = "editing" /\ hist' = [hist EXCEPT ![s] = Front(hist[s])]
    <3>1. Len(hist[s]) > 0
      BY <1>4, <2>1 DEF HistoryOK, TypeOK
    <3>2. Front(hist[s]) \in Seq(Entry) /\ Len(Front(hist[s])) = Len(hist[s]) - 1
      BY <1>4, <3>1, FrontFacts
    <3>3. hist'[s] = Front(hist[s]) /\ hist' \in [Session -> Seq(Entry)]
      BY <2>1, <3>2 DEF TypeOK
    <3>. QED
      BY <1>4, <3>2, <3>3
  <2>2. CASE UNCHANGED hist
    BY <1>4, <2>2 DEF TypeOK
  <2>. QED
    BY <1>1, <2>1, <2>2
<1>6. TypeOK' /\ pc'[s] # "editing"
  <2>1. /\ index' \in [Session -> Nat] /\ touched' \in [Session -> BOOLEAN]
        /\ buflen' \in [Session -> InitialBuflen .. MaxLine]
    BY <1>2, HistoryAssumption DEF Forget, TypeOK
  <2>2. /\ pc' \in [Session -> {"off", "free", "load", "read", "add", "save", "editing",
                                "writing", "none"}]
        /\ pc'[s] # "editing"
    BY <1>2, DoneFacts
  <2>. QED
    BY <1>2, <1>3, <1>5, <2>1, <2>2 DEF TypeOK
<1>. QED
  BY <1>2, <1>5, <1>6, NotEditing DEF Good

LEMMA ActGood ==
  ASSUME TypeOK, NEW s \in Session, HistoryOK(s), Recalls(s), Act(s)
  PROVE  Good(s)
BY LoadGood, AddGood, SetLenGood, SaveGood, OffGood, StartGood, EditGood, WalkGood,
   EndGood DEF Act, Step, Read

-----------------------------------------------------------------------------
(* The file. *)

\* Nobody starts or ends a save.
LEMMA NoSave ==
  ASSUME TypeOK, FileOK, NEW s \in Session, pc[s] # "writing", pc'[s] # "writing",
         \A t \in Session : t # s => pc'[t] = pc[t],
         UNCHANGED <<file, saved, torn>>
  PROVE  FileOK'
<1>1. Writers' = Writers
  BY DEF Writers
<1>. QED
  BY <1>1 DEF FileOK

LEMMA SaveFile ==
  ASSUME TypeOK, FileOK, NEW s \in Session, Saves(s),
         \A t \in Session : t # s => pc'[t] = pc[t]
  PROVE  FileOK'
<1>1. Writers \subseteq Writers' \cup {s} /\ Writers' \subseteq Writers \cup {s}
  BY DEF Writers
<1>2. CASE write_history(s)
  <2>1. pc'[s] # "writing" /\ pc[s] # "writing"
    BY <1>2, DoneFacts DEF write_history, Calls
  <2>2. Writers' = Writers
    BY <1>1, <2>1 DEF Writers
  <2>3. file' = saved' /\ torn' = (Writers # {})
    BY <1>2 DEF write_history
  <2>. QED
    BY <2>2, <2>3 DEF FileOK
<1>3. CASE OpenFile(s)
  <2>1. pc'[s] = "writing" /\ file' = <<>> /\ torn' = (Writers # {})
    BY <1>3 DEF OpenFile, TypeOK
  <2>2. s \in Writers'
    BY <2>1 DEF Writers
  <2>. QED
    BY <1>1, <2>1, <2>2 DEF FileOK
<1>4. CASE WriteFile(s)
  <2>1. s \in Writers /\ torn' = torn
    BY <1>4 DEF WriteFile, Writers
  <2>2. pc'[s] # "writing"
    BY <1>4, DoneFacts DEF WriteFile
  <2>3. CASE torn
    BY <2>1, <2>3 DEF FileOK
  <2>4. CASE ~torn
    <3>1. Writers = {s} /\ file = <<>>
      BY <2>1, <2>4 DEF FileOK
    <3>2. Writers' = {}
      BY <1>1, <2>2, <3>1 DEF Writers
    <3>3. file \in Seq(Entry) /\ StoredHistory(s) \in Seq(Entry)
      BY StoredFacts DEF TypeOK
    <3>4. file' = Overwrite(file, StoredHistory(s)) /\ saved' = StoredHistory(s)
      BY <1>4 DEF WriteFile
    <3>5. file' = saved'
      BY <3>1, <3>3, <3>4, OverwriteFacts
    <3>. QED
      BY <3>2, <3>5 DEF FileOK
  <2>. QED
    BY <2>3, <2>4
<1>5. CASE Kill(s)
  <2>1. pc'[s] = "off"
    BY <1>5 DEF Kill, Off, TypeOK
  <2>2. CASE pc[s] # "writing" /\ UNCHANGED <<file, saved, torn>>
    BY <2>1, <2>2, NoSave
  <2>3. CASE torn' = TRUE
    BY <2>3 DEF FileOK
  <2>. QED
    BY <1>5, <2>2, <2>3 DEF Kill
<1>. QED
  BY <1>2, <1>3, <1>4, <1>5 DEF Saves

LEMMA ActFile ==
  ASSUME TypeOK, FileOK, NEW s \in Session, Act(s)
  PROVE  FileOK'
<1>1. \A t \in Session : t # s => pc'[t] = pc[t]
  BY OtherSessions
<1>2. CASE Saves(s)
  BY <1>1, <1>2, SaveFile
<1>3. CASE ~Saves(s)
  <2>1. UNCHANGED <<file, saved, torn>>
    BY <1>3 DEF Saves, Act, Step, Read, Launch, readline_history_load,
                readline_history_add, SaveNothing, Exit, readline_read,
                linenoiseEditStart, Edit, linenoiseEditHistoryNext, Enter, NoLine,
                readline_history_set_len
  <2>2. pc[s] # "writing"
    BY <1>3 DEF Saves, Act, Step, Read, Launch, readline_history_load,
                readline_history_add, SaveNothing, Exit, readline_read,
                linenoiseEditStart, Edit, linenoiseEditHistoryNext, Enter, NoLine,
                readline_history_set_len, Calls
  <2>3. pc'[s] # "writing"
    BY <1>3, <2>2, DoneFacts
       DEF Saves, Act, Step, Read, Launch, readline_history_load,
           readline_history_add, SaveNothing, Exit, Off, readline_read,
           linenoiseEditStart, Edit, linenoiseEditHistoryNext, Enter, NoLine,
           readline_history_set_len, TypeOK
  <2>. QED
    BY <1>1, <2>1, <2>2, <2>3, NoSave
<1>. QED
  BY <1>2, <1>3

-----------------------------------------------------------------------------

LEMMA NextActs == Next => \E s \in Session : Act(s)
BY DEF Next, Act

LEMMA InitInv == Init => IInv
<1>. SUFFICES ASSUME Init PROVE IInv
  OBVIOUS
<1>1. <<>> \in Seq(Entry) /\ <<>> \in Entry
  BY LinesAreEntries
<1>2. /\ backend \in [Session -> {"readline", "linenoise"}] /\ HistoryLen \in Nat \ {0}
      /\ InitialBuflen \in InitialBuflen .. MaxLine
  BY HistoryAssumption DEF Init
<1>3. TypeOK
  BY <1>1, <1>2 DEF Init, TypeOK
<1>4. ASSUME NEW s \in Session PROVE HistoryOK(s) /\ Recalls(s)
  <2>1. hist[s] = <<>> /\ max[s] = HistoryLen /\ pc[s] = "off"
    BY DEF Init
  <2>2. Len(hist[s]) = 0
    BY <2>1
  <2>. QED
    BY <1>2, <2>1, <2>2 DEF HistoryOK, Recalls
<1>5. Writers = {} /\ file = saved
  BY DEF Init, Writers
<1>. QED
  BY <1>3, <1>4, <1>5 DEF IInv, FileOK

LEMMA InvStep ==
  ASSUME IInv, [Next]_vars
  PROVE  IInv'
<1>1. CASE UNCHANGED vars
  BY <1>1 DEF IInv, vars, TypeOK, HistoryOK, Recalls, FileOK, Writers
<1>2. CASE Next
  <2>1. PICK s \in Session : Act(s)
    BY <1>2, NextActs
  <2>2. Good(s) /\ FileOK'
    BY <2>1, ActGood, ActFile DEF IInv
  <2>3. ASSUME NEW t \in Session PROVE HistoryOK(t)' /\ Recalls(t)'
    <3>1. CASE t = s
      BY <2>2, <3>1 DEF Good
    <3>2. CASE t # s
      <4>1. /\ pc'[t] = pc[t] /\ hist'[t] = hist[t] /\ max'[t] = max[t]
            /\ line'[t] = line[t] /\ index'[t] = index[t] /\ touched'[t] = touched[t]
        BY <2>1, <3>2, OtherSessions DEF IInv
      <4>2. HistoryOK(t) /\ Recalls(t)
        BY DEF IInv
      <4>. QED
        BY <4>1, <4>2 DEF HistoryOK, Recalls
    <3>. QED
      BY <3>1, <3>2
  <2>. QED
    BY <2>2, <2>3 DEF IInv, Good
<1>. QED
  BY <1>1, <1>2

LEMMA Invariance == Spec => []IInv
<1>1. IInv /\ [Next]_vars => IInv'
  BY InvStep
<1>. QED
  BY <1>1, InitInv, PTL DEF Spec

\* Every variable keeps its type: entries are lines of the characters that can
\* be typed, or that the file gives.
THEOREM TypeCorrect == Spec => []TypeOK
<1>1. IInv => TypeOK
  BY DEF IInv
<1>. QED
  BY <1>1, Invariance, PTL

\* Whatever is loaded, added, limited or recalled before, linenoise reads and
\* writes entries of its history that exist.
THEOREM IndexIsSafe == Spec => []HistoryIndexSafe
<1>1. ASSUME IInv PROVE HistoryIndexSafe
  <2>1. ASSUME NEW s \in Session
        PROVE  /\ Len(hist[s]) <= max[s]
               /\ pc[s] = "editing" => index[s] \in 0 .. Len(hist[s]) - 1
    <3>1. index[s] \in Nat /\ Len(hist[s]) \in Nat /\ HistoryOK(s)
      BY <1>1 DEF IInv, TypeOK
    <3>. QED
      BY <3>1 DEF HistoryOK
  <2>. QED
    BY <2>1 DEF HistoryIndexSafe
<1>. QED
  BY <1>1, Invariance, PTL

\* The file holds what the last save has written, if nothing disturbed it.
THEOREM SaveIsWhatFileHolds == Spec => []FileIsLastSave
<1>1. ASSUME IInv PROVE FileIsLastSave
  BY <1>1 DEF IInv, FileOK, FileIsLastSave
<1>. QED
  BY <1>1, Invariance, PTL

\* Going up and down in the history changes none of its entries but the ones
\* that are longer than any line, of which it may lose the end.
THEOREM NavigationKeeps == Spec => NavigationKeepsEntries
<1>. DEFINE A == \A s \in Session :
                   pc[s] = "editing" /\ pc'[s] = "editing" /\ ~touched[s] =>
                     \A i \in 1 .. Len(hist[s]) - 1 : Recalled(hist[s][i], hist'[s][i])
<1>1. ASSUME IInv, [Next]_vars PROVE [A]_vars
  <2>1. SUFFICES ASSUME Next PROVE A
    BY <1>1
  <2>2. PICK s \in Session : Act(s)
    BY <2>1, NextActs
  <2>3. ASSUME NEW t \in Session, pc[t] = "editing", pc'[t] = "editing", ~touched[t],
               NEW i \in 1 .. Len(hist[t]) - 1
        PROVE  Recalled(hist[t][i], hist'[t][i])
    <3>1. CASE t # s
      BY <1>1, <2>2, <3>1, OtherSessions DEF IInv, Recalled
    <3>2. CASE t = s
      <4>1. Edit(s) \/ linenoiseEditHistoryNext(s)
        BY <1>1, <2>2, <2>3, <3>2, DoneFacts
           DEF IInv, TypeOK, Act, Step, Read, Launch, readline_history_load,
               readline_history_add, SaveNothing, write_history, OpenFile, WriteFile,
               Exit, Kill, Off, readline_read, linenoiseEditStart, Enter, NoLine,
               readline_history_set_len, Calls
      <4>2. CASE Edit(s)
        BY <1>1, <3>2, <4>2, EditGood DEF IInv, Recalled
      <4>3. CASE linenoiseEditHistoryNext(s)
        BY <1>1, <2>3, <3>2, <4>3, WalkGood DEF IInv
      <4>. QED
        BY <4>1, <4>2, <4>3
    <3>. QED
      BY <3>1, <3>2
  <2>. QED
    BY <2>3
<1>. HIDE DEF A
<1>2. Spec => [][A]_vars
  BY <1>1, Invariance, PTL DEF Spec
<1>. QED
  BY <1>2 DEF NavigationKeepsEntries, A
=============================================================================
