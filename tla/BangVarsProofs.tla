--------------------------- MODULE BangVarsProofs ---------------------------
(***************************************************************************)
(* Variables of a build script: vars % s expands what Ninja would, reports *)
(* recursive definitions only, and the version required is enough.         *)
(***************************************************************************)
EXTENDS BangVars, InductionLemmas, FiniteSetTheorems

-----------------------------------------------------------------------------
(* Substitutions: h gives the sequence each token is replaced with.          *)

Meaning == [Token -> Seq(Token)]

Mapped(h, s) == [i \in DOMAIN s |-> h[s[i]]]

Eval(h, s) == FlattenSeq(Mapped(h, s))

\* e[i] is what the first i tokens of s are replaced with.
Replaces(e, h, s) == e[0] = <<>> /\ \A i \in 1 .. Len(s) : e[i] = e[i-1] \o h[s[i]]

LEMMA MappedFacts ==
  ASSUME NEW h \in Meaning, NEW s \in Seq(Token)
  PROVE  /\ Mapped(h, s) \in Seq(Seq(Token)) /\ Len(Mapped(h, s)) = Len(s)
         /\ \A e : Concats(e, Mapped(h, s)) <=> Replaces(e, h, s)
<1>1. /\ Mapped(h, s) \in Seq(Seq(Token)) /\ Len(Mapped(h, s)) = Len(s)
      /\ \A i \in 1 .. Len(s) : Mapped(h, s)[i] = h[s[i]]
  BY DEF Mapped, Meaning
<1>. QED
  BY <1>1 DEF Concats, Replaces

LEMMA EvalIs ==
  ASSUME NEW h \in Meaning, NEW s \in Seq(Token)
  PROVE  \E c \in [0 .. Len(s) -> Seq(Token)] : Replaces(c, h, s) /\ Eval(h, s) = c[Len(s)]
<1>. DEFINE ss == Mapped(h, s)
<1>1. /\ ss \in Seq(Seq(Token)) /\ Len(ss) = Len(s)
      /\ \A e : Concats(e, ss) <=> Replaces(e, h, s)
  BY MappedFacts
<1>2. Eval(h, s) = FlattenSeq(ss)
  BY DEF Eval
<1>. HIDE DEF ss
<1>3. PICK c \in [0 .. Len(ss) -> Seq(Token)] : Concats(c, ss) /\ FlattenSeq(ss) = c[Len(ss)]
  BY <1>1, Flattened
<1>. QED
  BY <1>1, <1>2, <1>3

LEMMA EvalUnique ==
  ASSUME NEW h \in Meaning, NEW s \in Seq(Token), NEW e, Replaces(e, h, s)
  PROVE  Eval(h, s) = e[Len(s)]
<1>. DEFINE ss == Mapped(h, s)
<1>1. /\ Len(ss) = Len(s) /\ Concats(e, ss)
      /\ \A d : Concats(d, ss) <=> Replaces(d, h, s)
  BY MappedFacts
<1>. HIDE DEF ss
<1>2. PICK c \in [0 .. Len(s) -> Seq(Token)] : Replaces(c, h, s) /\ Eval(h, s) = c[Len(s)]
  BY EvalIs
<1>3. Concats(c, ss) /\ Len(ss) \in Nat /\ Len(ss) \in 0 .. Len(ss)
  BY <1>1, <1>2
<1>4. \A i \in 0 .. Len(ss) : c[i] = e[i]
  BY <1>1, <1>3, ConcatsUnique
<1>. QED
  BY <1>1, <1>2, <1>3, <1>4

LEMMA EvalType ==
  ASSUME NEW h \in Meaning, NEW s \in Seq(Token)
  PROVE  Eval(h, s) \in Seq(Token)
<1>1. PICK c \in [0 .. Len(s) -> Seq(Token)] : Replaces(c, h, s) /\ Eval(h, s) = c[Len(s)]
  BY EvalIs
<1>2. Len(s) \in 0 .. Len(s)
  OBVIOUS
<1>. QED
  BY <1>1, <1>2

LEMMA Associative ==
  ASSUME NEW x \in Seq(Token), NEW y \in Seq(Token), NEW z \in Seq(Token)
  PROVE  (x \o y) \o z = x \o (y \o z)
BY ConcatAssociative

LEMMA EvalConcat ==
  ASSUME NEW h \in Meaning, NEW s \in Seq(Token), NEW t \in Seq(Token)
  PROVE  Eval(h, s \o t) = Eval(h, s) \o Eval(h, t)
<1>. DEFINE m == Len(s)
            n == Len(t)
            st == s \o t
            T == Seq(Token)
<1>1. m \in Nat /\ n \in Nat /\ m \in 0 .. m /\ n \in 0 .. n
  OBVIOUS
<1>2. /\ st \in T /\ Len(st) = m + n
      /\ \A i \in 1 .. m : st[i] = s[i]
      /\ \A i \in 1 .. n : st[m + i] = t[i]
  BY ConcatProperties
<1>3. \A i \in 1 .. n : h[t[i]] \in T
  BY DEF Meaning
<1>4. PICK a \in [0 .. m -> T] : Replaces(a, h, s) /\ Eval(h, s) = a[m]
  BY EvalIs
<1>5. PICK b \in [0 .. n -> T] : Replaces(b, h, t) /\ Eval(h, t) = b[n]
  BY EvalIs
<1>. HIDE DEF m, n, st
<1>6. \A x, y, z \in T : (x \o y) \o z = x \o (y \o z)
  BY Associative
<1>7. \A x \in T : x \o <<>> = x
  BY ConcatEmptySeq
<1>. HIDE DEF T
<1>. DEFINE d == [i \in 0 .. m + n |-> IF i <= m THEN a[i] ELSE a[m] \o b[i - m]]
<1>8. /\ a[m] \in T /\ (\A i \in 0 .. n : b[i] \in T)
      /\ a[0] = <<>> /\ \A i \in 1 .. m : a[i] = a[i-1] \o h[s[i]]
      /\ b[0] = <<>> /\ \A i \in 1 .. n : b[i] = b[i-1] \o h[t[i]]
  BY <1>1, <1>4, <1>5 DEF Replaces, m, n
<1>9. /\ \A i \in 0 .. m : d[i] = a[i]
      /\ \A i \in 0 .. m + n : ~ (i <= m) => d[i] = a[m] \o b[i - m]
  BY <1>1
<1>. HIDE DEF d
<1>10. ASSUME NEW i \in 0 .. n PROVE d[m + i] = a[m] \o b[i]
  <2>1. m + i \in 0 .. m + n /\ m + i - m = i /\ (m + i <= m <=> i = 0)
    BY <1>1
  <2>2. CASE i = 0
    <3>1. d[m + i] = a[m] /\ a[m] \o <<>> = a[m]
      BY <1>1, <1>7, <1>8, <1>9, <2>2
    <3>. QED
      BY <1>8, <2>2, <3>1
  <2>3. CASE i # 0
    <3>. DEFINE k == m + i
    <3>1. k \in 0 .. m + n /\ k - m = i /\ ~ (k <= m)
      BY <1>1, <2>3
    <3>. HIDE DEF k
    <3>2. d[k] = a[m] \o b[k - m]
      BY <1>9, <3>1
    <3>3. d[k] = a[m] \o b[i]
      BY <3>1, <3>2
    <3>. QED
      BY <3>3 DEF k
  <2>. QED
    BY <2>2, <2>3
<1>11. ASSUME NEW i \in 1 .. m + n PROVE d[i] = d[i-1] \o h[st[i]]
  <2>1. CASE i <= m
    <3>1. i \in 1 .. m /\ i \in 0 .. m /\ i - 1 \in 0 .. m
      BY <1>1, <2>1
    <3>. QED
      BY <1>2, <1>8, <1>9, <3>1
  <2>2. CASE ~ (i <= m)
    <3>. DEFINE j == i - m
    <3>1. j \in 1 .. n /\ j \in 0 .. n /\ j - 1 \in 0 .. n /\ m + j = i /\ m + (j - 1) = i - 1
      BY <1>1, <2>2
    <3>. HIDE DEF j
    <3>2. d[i] = a[m] \o b[j] /\ d[i-1] = a[m] \o b[j-1] /\ st[i] = t[j]
      <4>1. d[m + j] = a[m] \o b[j] /\ d[m + (j - 1)] = a[m] \o b[j-1]
        BY <1>10, <3>1
      <4>2. st[m + j] = t[j]
        BY <1>2, <3>1
      <4>. QED
        BY <3>1, <4>1, <4>2
    <3>3. b[j] = b[j-1] \o h[t[j]]
      BY <1>8, <3>1
    <3>4. (a[m] \o b[j-1]) \o h[t[j]] = a[m] \o (b[j-1] \o h[t[j]])
      BY <1>3, <1>6, <1>8, <3>1
    <3>. QED
      BY <3>2, <3>3, <3>4
  <2>. QED
    BY <2>1, <2>2
<1>12. Replaces(d, h, st)
  <2>1. d[0] = <<>>
    BY <1>1, <1>8, <1>9
  <2>. QED
    BY <1>2, <1>11, <2>1 DEF Replaces
<1>13. Eval(h, st) = d[m + n]
  BY <1>2, <1>12, EvalUnique DEF T
<1>14. d[m + n] = a[m] \o b[n]
  BY <1>1, <1>10
<1>. QED
  BY <1>4, <1>5, <1>13, <1>14 DEF st

LEMMA EvalOne ==
  ASSUME NEW h \in Meaning, NEW tok \in Token
  PROVE  Eval(h, <<tok>>) = h[tok]
<1>. DEFINE s == <<tok>>
<1>1. s \in Seq(Token) /\ Len(s) = 1 /\ s[1] = tok
  OBVIOUS
<1>. HIDE DEF s
<1>2. PICK c \in [0 .. Len(s) -> Seq(Token)] : Replaces(c, h, s) /\ Eval(h, s) = c[Len(s)]
  BY <1>1, EvalIs
<1>3. c[1] = c[0] \o h[tok] /\ c[0] = <<>>
  <2>1. 1 \in 1 .. Len(s) /\ 1 - 1 = 0
    BY <1>1
  <2>. QED
    BY <1>1, <1>2, <2>1 DEF Replaces
<1>4. <<>> \o h[tok] = h[tok]
  BY ConcatEmptySeq DEF Meaning
<1>. QED
  BY <1>1, <1>2, <1>3, <1>4 DEF s

\* Substituting with p, then with h.
LEMMA EvalEval ==
  ASSUME NEW h \in Meaning, NEW p \in Meaning, NEW s \in Seq(Token),
         \A tok \in Token : Eval(h, p[tok]) = h[tok]
  PROVE  Eval(h, Eval(p, s)) = Eval(h, s)
<1>. DEFINE n == Len(s)
<1>1. n \in Nat /\ \A i \in 1 .. n : s[i] \in Token
  OBVIOUS
<1>2. \A i \in 1 .. n : p[s[i]] \in Seq(Token)
  BY <1>1 DEF Meaning
<1>3. PICK c \in [0 .. n -> Seq(Token)] : Replaces(c, p, s) /\ Eval(p, s) = c[n]
  BY EvalIs
<1>4. c[0] = <<>> /\ \A i \in 1 .. n : c[i] = c[i-1] \o p[s[i]]
  BY <1>3 DEF Replaces
<1>. HIDE DEF n
<1>. DEFINE e == [i \in 0 .. n |-> Eval(h, c[i])]
<1>5. ASSUME NEW i \in 1 .. n PROVE e[i] = e[i-1] \o h[s[i]]
  <2>1. i \in 0 .. n /\ i - 1 \in 0 .. n
    BY <1>1
  <2>. DEFINE x == c[i-1]
              y == p[s[i]]
  <2>2. c[i] = x \o y /\ x \in Seq(Token) /\ y \in Seq(Token)
    BY <1>2, <1>4, <2>1
  <2>3. Eval(h, y) = h[s[i]]
    BY <1>1
  <2>4. e[i] = Eval(h, c[i]) /\ e[i-1] = Eval(h, x)
    BY <2>1
  <2>. HIDE DEF x, y, e
  <2>5. Eval(h, x \o y) = Eval(h, x) \o Eval(h, y)
    BY <2>2, EvalConcat
  <2>. QED
    BY <2>2, <2>3, <2>4, <2>5
<1>6. e[n] = Eval(h, c[n]) /\ e[0] = Eval(h, c[0])
  BY <1>1
<1>. HIDE DEF e
<1>7. Eval(h, <<>>) = <<>>
  BY DEF Eval, Mapped, FlattenSeq
<1>8. Replaces(e, h, s)
  BY <1>4, <1>5, <1>6, <1>7 DEF Replaces, n
<1>9. Eval(h, s) = e[n]
  BY <1>8, EvalUnique DEF n
<1>. QED
  BY <1>3, <1>6, <1>9

\* Tokens that are replaced with themselves.
LEMMA EvalSame ==
  ASSUME NEW h \in Meaning, NEW s \in Seq(Token), \A i \in 1 .. Len(s) : h[s[i]] = <<s[i]>>
  PROVE  Eval(h, s) = s
<1>. DEFINE n == Len(s)
            d == [i \in 0 .. n |-> SubSeq(s, 1, i)]
<1>1. n \in Nat
  OBVIOUS
<1>2. ASSUME NEW i \in 1 .. n PROVE d[i] = d[i-1] \o h[s[i]]
  <2>1. i \in 0 .. n /\ i - 1 \in 0 .. n
    BY <1>1
  <2>. DEFINE x == SubSeq(s, 1, i - 1)
  <2>2. SubSeq(s, 1, i) = Append(x, s[i]) /\ x \in Seq(Token) /\ s[i] \in Token
    BY <1>1
  <2>. HIDE DEF x
  <2>3. Append(x, s[i]) = x \o <<s[i]>>
    BY <2>2, AppendIsConcat
  <2>. QED
    BY <2>1, <2>2, <2>3 DEF x
<1>3. d[0] = <<>> /\ d[n] = s
  <2>1. SubSeq(s, 1, 0) = <<>> /\ SubSeq(s, 1, n) = s /\ 0 \in 0 .. n /\ n \in 0 .. n
    BY <1>1
  <2>. QED
    BY <2>1
<1>. HIDE DEF d
<1>4. Replaces(d, h, s)
  BY <1>2, <1>3 DEF Replaces
<1>. QED
  BY <1>3, <1>4, EvalUnique

\* Where the tokens come from.
LEMMA EvalTokens ==
  ASSUME NEW h \in Meaning, NEW s \in Seq(Token), NEW tok \in ToSet(Eval(h, s))
  PROVE  \E i \in 1 .. Len(s) : tok \in ToSet(h[s[i]])
<1>. DEFINE n == Len(s)
<1>1. n \in Nat /\ \A i \in 1 .. n : h[s[i]] \in Seq(Token)
  BY DEF Meaning
<1>2. PICK c \in [0 .. n -> Seq(Token)] : Replaces(c, h, s) /\ Eval(h, s) = c[n]
  BY EvalIs
<1>3. c[0] = <<>> /\ \A i \in 1 .. n : c[i] = c[i-1] \o h[s[i]]
  BY <1>2 DEF Replaces
<1>. HIDE DEF n
<1>. DEFINE From(k) == \A x \in ToSet(c[k]) : \E i \in 1 .. k : x \in ToSet(h[s[i]])
            N == {k \in 0 .. n : From(k)}
<1>4. 0 \in N
  BY <1>1, <1>3 DEF ToSet
<1>5. ASSUME NEW k \in 0 .. n, k \in N, k < n PROVE k + 1 \in N
  <2>. DEFINE j == k + 1
  <2>1. j \in 1 .. n /\ j \in 0 .. n /\ j - 1 = k /\ j \in 1 .. j /\ 1 .. k \subseteq 1 .. j
    BY <1>1, <1>5
  <2>. HIDE DEF j
  <2>2. c[j] = c[k] \o h[s[j]] /\ c[k] \in Seq(Token) /\ h[s[j]] \in Seq(Token)
    BY <1>1, <1>3, <2>1
  <2>3. \A x \in ToSet(c[j]) : x \in ToSet(c[k]) \/ x \in ToSet(h[s[j]])
    BY <2>2 DEF ToSet
  <2>4. From(k)
    BY <1>5
  <2>. HIDE DEF N
  <2>5. From(j)
    BY <2>1, <2>3, <2>4
  <2>6. j \in N
    BY <2>1, <2>5 DEF N
  <2>. QED
    BY <2>6 DEF j
<1>. HIDE DEF N
<1>6. 0 .. n \subseteq N
  BY <1>1, <1>4, <1>5, Induction
<1>7. From(n)
  BY <1>1, <1>6 DEF N
<1>. QED
  BY <1>2, <1>7 DEF n

LEMMA EvalAgree ==
  ASSUME NEW h, NEW g, NEW s \in Seq(Token), \A i \in 1 .. Len(s) : h[s[i]] = g[s[i]]
  PROVE  Eval(h, s) = Eval(g, s)
<1>1. Mapped(h, s) = Mapped(g, s)
  BY DEF Mapped
<1>. QED
  BY <1>1 DEF Eval

-----------------------------------------------------------------------------
(* The invariant. *)

Names == Name \cup {builddir}

Values == Value \cup {DefaultBuilddir}

Definition == [name : Name, value : Value]

TypeOK ==
  /\ phase \in {"script", "failed", "done"}
  /\ overridden_builddir \in Value \cup {NoValue}
  /\ builddir_token \in Values
  /\ curried \subseteq Names
  /\ vars \in [DOMAIN vars -> Value] /\ DOMAIN vars \subseteq Name
  /\ nbvars \in Nat
  /\ file \in Seq(Definition)
  /\ answer = NoAnswer \/ answer \in [s : Query, toks : Seq(Token) \cup {NoValue},
                                      dir : Values \cup {NoValue}]
  /\ asked \subseteq Version

\* The value of builddir is the one in the file.
DirOK == overridden_builddir # NoValue => builddir_token = overridden_builddir

\* Every variable was defined in the file, and they are counted.
VarsOK ==
  /\ \A n \in DOMAIN vars :
       \E i \in DOMAIN file : file[i] = [name |-> n, value |-> vars[n]]
  /\ IsFiniteSet(DOMAIN vars) /\ Cardinality(DOMAIN vars) <= nbvars

\* h gives the variables of the file the meaning their definitions have.
Models(h, dir) ==
  /\ Eval(h, dir) = h[ref(builddir)]
  /\ \A i \in DOMAIN file : Eval(h, file[i].value) = h[ref(file[i].name)]

\* An answer means the same as the question, whatever is defined later.
AnswerOK ==
  answer.toks # NoValue =>
    \A h \in Meaning : Models(h, answer.dir) => Eval(h, answer.s) = Eval(h, answer.toks)

\* A question without an answer has ended the script.
FailOK ==
  \A s \in Query :
    answer.s = s /\ answer.toks = NoValue => phase = "failed" /\ Stable(s) = {}

IInv == TypeOK /\ DirOK /\ VarsOK /\ AnswerOK /\ FailOK /\ VersionIsEnough

-----------------------------------------------------------------------------
(* Tokens and values. *)

LEMMA TokenFacts ==
  ASSUME NEW tok \in Token
  PROVE  IsRef(tok) => tok = ref(tok.name) /\ tok.name \in Names
<1>1. CASE \E w \in Word : tok = word(w)
  BY <1>1 DEF word, IsRef
<1>2. CASE \E n \in Names : tok = ref(n)
  BY <1>2 DEF ref
<1>. QED
  BY <1>1, <1>2 DEF Token, Names

LEMMA RefToken ==
  ASSUME NEW n \in Names
  PROVE  ref(n) \in Token /\ IsRef(ref(n)) /\ ref(n).name = n
BY DEF ref, Token, Names, IsRef

LEMMA NoValueFacts == NoValue \notin Seq(Token)
<1>. SUFFICES ASSUME NoValue \in Seq(Token) PROVE FALSE
  OBVIOUS
<1>1. [kind |-> "none"] \in Token
  <2>1. NoValue[1] = [kind |-> "none"] /\ 1 \in 1 .. Len(NoValue)
    BY DEF NoValue
  <2>. QED
    BY <2>1
<1>2. CASE \E w \in Word : [kind |-> "none"] = word(w)
  BY <1>2 DEF word
<1>3. CASE \E n \in Names : [kind |-> "none"] = ref(n)
  BY <1>3 DEF ref
<1>. QED
  BY <1>1, <1>2, <1>3 DEF Token, Names

LEMMA ValueFacts ==
  /\ Values \subseteq Seq(Token) /\ Value \subseteq Values /\ Query \subseteq Seq(Token)
  /\ NoValue \notin Values /\ NoValue \notin Query
BY VarsAssumption, NoValueFacts DEF Values

\* The names s refers to are those of its tokens.
LEMMA RefsFacts ==
  ASSUME NEW s \in Seq(Token)
  PROVE  /\ Refs(s) \subseteq Names
         /\ \A n : n \in Refs(s) <=> n \in Names /\ ref(n) \in ToSet(s)
<1>1. \A tok \in ToSet(s) : tok \in Token
  BY DEF ToSet
<1>2. \A n \in Refs(s) : n \in Names /\ ref(n) \in ToSet(s)
  BY <1>1, TokenFacts DEF Refs
<1>3. \A n \in Names : ref(n) \in ToSet(s) => n \in Refs(s)
  BY RefToken DEF Refs
<1>. QED
  BY <1>2, <1>3

\* One replacement.
Subst ==
  [tok \in Token |->
     IF IsRef(tok) /\ tok.name \in Defined THEN ValueOf(tok.name) ELSE <<tok>>]

LEMMA ValueOfFacts ==
  ASSUME TypeOK, DirOK
  PROVE  /\ ValueOf(builddir) = builddir_token /\ builddir \in Defined
         /\ \A n \in DOMAIN vars : ValueOf(n) = vars[n] /\ n # builddir
         /\ \A n \in Defined : ValueOf(n) \in Seq(Token) /\ n \in Names
<1>1. ValueOf(builddir) = builddir_token /\ builddir_token \in Seq(Token)
  BY ValueFacts DEF TypeOK, DirOK, ValueOf
<1>2. \A n \in DOMAIN vars : n # builddir /\ n \in Names
  BY VarsAssumption DEF TypeOK, Names
<1>3. \A n \in DOMAIN vars : ValueOf(n) = vars[n] /\ vars[n] \in Seq(Token)
  BY <1>2, ValueFacts DEF TypeOK, ValueOf
<1>. QED
  BY <1>1, <1>2, <1>3 DEF Defined, Names

LEMMA GsubFacts ==
  ASSUME TypeOK, DirOK
  PROVE  Subst \in Meaning /\ \A s \in Seq(Token) : gsub(s) = Eval(Subst, s)
<1>1. Subst \in Meaning
  <2>1. ASSUME NEW tok \in Token, IsRef(tok), tok.name \in Defined
        PROVE  ValueOf(tok.name) \in Seq(Token)
    BY <2>1, ValueOfFacts
  <2>2. \A tok \in Token : <<tok>> \in Seq(Token)
    OBVIOUS
  <2>. QED
    BY <2>1, <2>2 DEF Subst, Meaning
<1>2. ASSUME NEW s \in Seq(Token) PROVE gsub(s) = Eval(Subst, s)
  <2>1. \A i \in DOMAIN s : s[i] \in Token
    OBVIOUS
  <2>2. \A i \in DOMAIN s : Subst[s[i]] = IF IsRef(s[i]) /\ s[i].name \in Defined
                                          THEN ValueOf(s[i].name) ELSE <<s[i]>>
    BY <2>1 DEF Subst
  <2>. QED
    BY <2>2 DEF gsub, Eval, Mapped
<1>. QED
  BY <1>1, <1>2

LEMMA RoundsFacts ==
  ASSUME TypeOK, DirOK, NEW s \in Seq(Token)
  PROVE  /\ max_iterations \in Nat /\ max_iterations = nbvars + 2
         /\ Rounds(s) \in [0 .. max_iterations -> Seq(Token)] /\ Rounds(s)[0] = s
         /\ \A i \in 1 .. max_iterations : Rounds(s)[i] = Eval(Subst, Rounds(s)[i-1])
<1>. DEFINE m == max_iterations
            T == Seq(Token)
            F == [i \in 0 .. m |-> [x \in T |-> Eval(Subst, x)]]
            body(g, i) == IF i = 0 THEN s ELSE gsub(g[i-1])
            r == CHOOSE g : g = [i \in 0 .. m |-> body(g, i)]
<1>1. m \in Nat /\ m = nbvars + 2
  BY DEF max_iterations, TypeOK
<1>2. \A x \in T : Eval(Subst, x) \in T /\ gsub(x) = Eval(Subst, x)
  BY GsubFacts, EvalType
<1>3. Rounds(s) = r
  BY DEF Rounds
<1>. HIDE DEF m, T, r
<1>4. F \in [0 .. m -> [T -> T]] /\ \A i \in 0 .. m, x \in T : F[i][x] = Eval(Subst, x)
  BY <1>2
<1>. HIDE DEF F
<1>5. PICK g \in [0 .. m -> T] : Follows(g, m, s, F)
  BY <1>1, <1>4, Recursion DEF T
<1>6. ASSUME NEW i \in 0 .. m PROVE g[i] = body(g, i)
  <2>1. CASE i = 0
    BY <1>5, <2>1 DEF Follows
  <2>2. CASE i # 0
    <3>. DEFINE j == i - 1
    <3>1. i \in 1 .. m /\ j \in 0 .. m
      BY <1>1, <2>2
    <3>2. g[i] = F[i][g[j]] /\ g[j] \in T
      BY <1>5, <3>1 DEF Follows
    <3>. HIDE DEF j
    <3>3. g[i] = gsub(g[j])
      BY <1>2, <1>4, <3>2
    <3>. QED
      BY <2>2, <3>3 DEF j
  <2>. QED
    BY <2>1, <2>2
<1>7. r = [i \in 0 .. m |-> body(r, i)]
  <2>. HIDE DEF body
  <2>1. g = [i \in 0 .. m |-> body(g, i)]
    BY <1>6
  <2>. QED
    BY <2>1 DEF r
<1>. DEFINE N == {i \in 0 .. m : r[i] \in T}
<1>8. r[0] = s
  BY <1>1, <1>7
<1>9. ASSUME NEW i \in 1 .. m PROVE r[i] = gsub(r[i-1])
  <2>1. i \in 0 .. m /\ i # 0
    BY <1>1
  <2>2. r[i] = body(r, i)
    <3>. HIDE DEF body
    <3>. QED
      BY <1>7, <2>1
  <2>. QED
    BY <2>1, <2>2
<1>10. 0 \in N
  BY <1>1, <1>8 DEF T
<1>11. ASSUME NEW i \in 0 .. m, i \in N, i < m PROVE i + 1 \in N
  <2>. DEFINE j == i + 1
  <2>1. j \in 1 .. m /\ j \in 0 .. m /\ j - 1 = i /\ r[i] \in T
    BY <1>1, <1>11
  <2>. HIDE DEF j
  <2>2. r[j] = gsub(r[i])
    BY <1>9, <2>1
  <2>3. r[j] \in T
    BY <1>2, <2>1, <2>2
  <2>. QED
    BY <2>1, <2>3 DEF j
<1>. HIDE DEF N
<1>12. 0 .. m \subseteq N
  BY <1>1, <1>10, <1>11, Induction
<1>13. \A i \in 0 .. m : r[i] \in T
  BY <1>12 DEF N
<1>14. ASSUME NEW i \in 1 .. m PROVE r[i] = Eval(Subst, r[i-1])
  <2>1. i - 1 \in 0 .. m
    BY <1>1
  <2>. QED
    BY <1>2, <1>9, <1>13, <2>1
<1>15. r = [i \in 0 .. m |-> r[i]]
  BY <1>7
<1>16. r \in [0 .. m -> T]
  BY <1>13, <1>15
<1>. QED
  BY <1>1, <1>3, <1>8, <1>14, <1>16 DEF m, T

\* The least iteration that changes nothing.
LEMMA FirstStable ==
  ASSUME TypeOK, DirOK, NEW s \in Seq(Token), Stable(s) # {}
  PROVE  LET i == CHOOSE k \in Stable(s) : \A j \in Stable(s) : k <= j
         IN  i \in 1 .. max_iterations /\ i \in 0 .. max_iterations
<1>1. max_iterations \in Nat
  BY RoundsFacts
<1>2. Stable(s) \in SUBSET Nat /\ Stable(s) \subseteq 1 .. max_iterations
  BY <1>1 DEF Stable
<1>3. \E k \in Stable(s) : \A j \in Stable(s) : k <= j
  BY <1>2, LeastNumber
<1>4. 1 .. max_iterations \subseteq 0 .. max_iterations
  BY <1>1
<1>. QED
  BY <1>2, <1>3, <1>4

-----------------------------------------------------------------------------
(* Answers. *)

\* In a model of the file, the replacements do not change the meaning.
LEMMA SameMeaning ==
  ASSUME TypeOK, DirOK, VarsOK, NEW h \in Meaning, Models(h, builddir_token),
         NEW s \in Seq(Token), NEW i \in 0 .. max_iterations
  PROVE  Eval(h, Rounds(s)[i]) = Eval(h, s)
<1>. DEFINE m == max_iterations
            r == Rounds(s)
            N == {k \in 0 .. m : Eval(h, r[k]) = Eval(h, s)}
<1>1. /\ m \in Nat /\ r \in [0 .. m -> Seq(Token)] /\ r[0] = s
      /\ \A k \in 1 .. m : r[k] = Eval(Subst, r[k-1])
  BY RoundsFacts
<1>2. ASSUME NEW tok \in Token PROVE Eval(h, Subst[tok]) = h[tok]
  <2>1. CASE IsRef(tok) /\ tok.name \in Defined
    <3>. DEFINE n == tok.name
    <3>1. Subst[tok] = ValueOf(n) /\ tok = ref(n)
      BY <2>1, TokenFacts DEF Subst
    <3>2. CASE n = builddir
      BY <3>1, <3>2, ValueOfFacts DEF Models
    <3>3. CASE n # builddir
      <4>1. n \in DOMAIN vars
        BY <2>1, <3>3 DEF Defined
      <4>2. PICK k \in DOMAIN file : file[k] = [name |-> n, value |-> vars[n]]
        BY <4>1 DEF VarsOK
      <4>3. Eval(h, file[k].value) = h[ref(file[k].name)]
        BY DEF Models
      <4>4. ValueOf(n) = vars[n]
        BY <4>1, ValueOfFacts
      <4>. QED
        BY <3>1, <4>2, <4>3, <4>4
    <3>. QED
      BY <3>2, <3>3
  <2>2. CASE ~ (IsRef(tok) /\ tok.name \in Defined)
    BY <2>2, EvalOne DEF Subst
  <2>. QED
    BY <2>1, <2>2
<1>. HIDE DEF m, r
<1>3. 0 \in N
  BY <1>1
<1>4. ASSUME NEW k \in 0 .. m, k \in N, k < m PROVE k + 1 \in N
  <2>. DEFINE j == k + 1
  <2>1. j \in 1 .. m /\ j \in 0 .. m /\ j - 1 = k /\ r[k] \in Seq(Token)
    BY <1>1, <1>4
  <2>2. Eval(h, r[k]) = Eval(h, s)
    BY <1>4
  <2>. HIDE DEF j
  <2>3. r[j] = Eval(Subst, r[k])
    BY <1>1, <2>1
  <2>4. Eval(h, Eval(Subst, r[k])) = Eval(h, r[k])
    BY <1>2, <2>1, EvalEval, GsubFacts
  <2>5. j \in N
    BY <2>1, <2>2, <2>3, <2>4
  <2>. QED
    BY <2>5 DEF j
<1>. HIDE DEF N
<1>5. 0 .. m \subseteq N
  BY <1>1, <1>3, <1>4, Induction
<1>. QED
  BY <1>5 DEF N, m, r

\* The replacements depend on the variables only.
LEMMA StableSame ==
  ASSUME UNCHANGED <<overridden_builddir, builddir_token, vars, nbvars>>, NEW s
  PROVE  Stable(s)' = Stable(s)
BY DEF Stable, Rounds, max_iterations, gsub, Defined, ValueOf

LEMMA InitInv == Init => TypeOK /\ DirOK /\ VarsOK /\ AnswerOK /\ FailOK
<1>. SUFFICES ASSUME Init PROVE TypeOK /\ DirOK /\ VarsOK /\ AnswerOK /\ FailOK
  OBVIOUS
<1>1. TypeOK
  BY VarsAssumption DEF Init, TypeOK, Values, Definition
<1>2. DirOK
  BY DEF Init, DirOK
<1>3. VarsOK
  <2>1. DOMAIN vars = {} /\ nbvars = 0
    BY DEF Init
  <2>. QED
    BY <2>1, FS_EmptySet DEF VarsOK
<1>4. AnswerOK /\ FailOK
  BY ValueFacts DEF Init, AnswerOK, FailOK, NoAnswer
<1>. QED
  BY <1>1, <1>2, <1>3, <1>4

\* Nothing that a call of vars % s reads changes, and it is not called.
Quiet == UNCHANGED <<overridden_builddir, builddir_token, vars, nbvars, file, answer>>

\* A script that goes on has no question without an answer.
LEMMA QuietStep ==
  ASSUME TypeOK, DirOK, VarsOK, AnswerOK, FailOK, Quiet, phase = "script" \/ phase' = phase
  PROVE  DirOK' /\ VarsOK' /\ AnswerOK' /\ FailOK'
<1>1. DirOK' /\ VarsOK'
  BY DEF Quiet, DirOK, VarsOK
<1>2. AnswerOK'
  BY DEF Quiet, AnswerOK, Models
<1>3. FailOK'
  <2>1. CASE phase' = phase
    BY <2>1, StableSame DEF Quiet, FailOK
  <2>2. CASE phase = "script"
    BY <2>2 DEF Quiet, FailOK
  <2>. QED
    BY <2>1, <2>2
<1>. QED
  BY <1>1, <1>2, <1>3

LEMMA DefineBuilddirStep ==
  ASSUME TypeOK, DirOK, VarsOK, AnswerOK, FailOK, NEW value \in Value, DefineBuilddir(value)
  PROVE  TypeOK' /\ DirOK' /\ VarsOK' /\ AnswerOK' /\ FailOK'
<1>1. TypeOK' /\ DirOK'
  BY ValueFacts DEF DefineBuilddir, TypeOK, DirOK
<1>2. VarsOK'
  BY DEF DefineBuilddir, VarsOK
<1>3. AnswerOK'
  BY DEF DefineBuilddir, AnswerOK, Models
<1>4. FailOK'
  BY DEF DefineBuilddir, FailOK
<1>. QED
  BY <1>1, <1>2, <1>3, <1>4

LEMMA DefineStep ==
  ASSUME TypeOK, DirOK, VarsOK, AnswerOK, FailOK, NEW n \in Name, NEW value \in Value,
         Define(n, value)
  PROVE  TypeOK' /\ DirOK' /\ VarsOK' /\ AnswerOK' /\ FailOK'
<1>. DEFINE d == [name |-> n, value |-> value]
<1>1. /\ phase = "script" /\ file' = Append(file, d) /\ nbvars' = nbvars + 1
      /\ vars' = [m \in DOMAIN vars \cup {n} |-> IF m = n THEN value ELSE vars[m]]
      /\ UNCHANGED <<phase, overridden_builddir, builddir_token, curried, answer, version, asked>>
  BY DEF Define
<1>2. DOMAIN vars' = DOMAIN vars \cup {n}
  BY <1>1
<1>3. TypeOK'
  <2>1. vars' \in [DOMAIN vars' -> Value] /\ DOMAIN vars' \subseteq Name
    BY <1>1, <1>2 DEF TypeOK
  <2>2. file' \in Seq(Definition)
    BY <1>1 DEF TypeOK, Definition
  <2>. QED
    BY <1>1, <2>1, <2>2 DEF TypeOK
<1>4. DirOK'
  BY <1>1 DEF DirOK
<1>5. VarsOK'
  <2>1. ASSUME NEW m \in DOMAIN vars'
        PROVE  \E i \in DOMAIN file' : file'[i] = [name |-> m, value |-> vars'[m]]
    <3>1. /\ Len(file) + 1 \in DOMAIN file' /\ file'[Len(file) + 1] = d
          /\ \A i \in DOMAIN file : i \in DOMAIN file' /\ file'[i] = file[i]
      BY <1>1 DEF TypeOK
    <3>2. CASE m = n
      BY <1>1, <2>1, <3>1, <3>2
    <3>3. CASE m # n
      <4>1. m \in DOMAIN vars /\ vars'[m] = vars[m]
        BY <1>1, <2>1, <3>3
      <4>2. PICK i \in DOMAIN file : file[i] = [name |-> m, value |-> vars[m]]
        BY <4>1 DEF VarsOK
      <4>. QED
        BY <3>1, <4>1, <4>2
    <3>. QED
      BY <3>2, <3>3
  <2>2. IsFiniteSet(DOMAIN vars') /\ Cardinality(DOMAIN vars') <= nbvars'
    <3>1. /\ IsFiniteSet(DOMAIN vars) /\ Cardinality(DOMAIN vars) <= nbvars
          /\ nbvars \in Nat
      BY DEF VarsOK, TypeOK
    <3>2. /\ IsFiniteSet(DOMAIN vars \cup {n}) /\ Cardinality(DOMAIN vars) \in Nat
          /\ \/ Cardinality(DOMAIN vars \cup {n}) = Cardinality(DOMAIN vars)
             \/ Cardinality(DOMAIN vars \cup {n}) = Cardinality(DOMAIN vars) + 1
      BY <3>1, FS_AddElement, FS_CardinalityType
    <3>. QED
      BY <1>1, <1>2, <3>1, <3>2
  <2>. QED
    BY <2>1, <2>2 DEF VarsOK
<1>6. AnswerOK'
  <2>. SUFFICES ASSUME answer.toks # NoValue, NEW h \in Meaning, Models(h, answer.dir)'
                PROVE  Eval(h, answer.s) = Eval(h, answer.toks)
    BY <1>1 DEF AnswerOK
  <2>. DEFINE dir == answer.dir
  <2>1. answer' = answer
    BY <1>1
  <2>2. Models(h, dir)
    <3>1. \A i \in DOMAIN file : i \in DOMAIN file' /\ file'[i] = file[i]
      BY <1>1 DEF TypeOK
    <3>. QED
      BY <2>1, <3>1 DEF Models
  <2>. QED
    BY <2>2 DEF AnswerOK
<1>7. FailOK'
  BY <1>1 DEF FailOK
<1>. QED
  BY <1>3, <1>4, <1>5, <1>6, <1>7

LEMMA ExpandStep ==
  ASSUME TypeOK, DirOK, VarsOK, AnswerOK, FailOK, NEW s \in Query, Expand(s)
  PROVE  TypeOK' /\ DirOK' /\ VarsOK' /\ AnswerOK' /\ FailOK'
<1>. DEFINE i == CHOOSE k \in Stable(s) : \A j \in Stable(s) : k <= j
<1>1. /\ phase = "script"
      /\ UNCHANGED <<overridden_builddir, builddir_token, curried, vars, nbvars, file,
                     version, asked>>
  BY DEF Expand, Fail
<1>2. s \in Seq(Token) /\ s # NoValue /\ builddir_token # NoValue
  BY ValueFacts DEF TypeOK
<1>3. DirOK' /\ VarsOK'
  BY <1>1 DEF DirOK, VarsOK
<1>4. Stable(s)' = Stable(s)
  BY <1>1, StableSame
<1>5. CASE Stable(s) # {}
  <2>1. phase' = phase /\ answer' = [s |-> s, toks |-> Rounds(s)[i], dir |-> builddir_token]
    BY <1>5 DEF Expand
  <2>2. i \in 0 .. max_iterations
    BY <1>2, <1>5, FirstStable
  <2>. HIDE DEF i
  <2>. DEFINE toks == Rounds(s)[i]
  <2>3. toks \in Seq(Token)
    BY <1>2, <2>2, RoundsFacts
  <2>4. answer'.s = s /\ answer'.toks = toks /\ answer'.dir = builddir_token /\ toks # NoValue
    BY <2>1, <2>3, NoValueFacts
  <2>5. \A h \in Meaning : Models(h, builddir_token) => Eval(h, toks) = Eval(h, s)
    BY <1>2, <2>2, SameMeaning
  <2>. HIDE DEF toks
  <2>6. AnswerOK'
    <3>. SUFFICES ASSUME NEW h \in Meaning, Models(h, answer.dir)'
                  PROVE  Eval(h, answer'.s) = Eval(h, answer'.toks)
      BY DEF AnswerOK
    <3>1. Models(h, builddir_token)
      BY <1>1, <2>4 DEF Models
    <3>. QED
      BY <2>4, <2>5, <3>1
  <2>7. FailOK'
    BY <2>4 DEF FailOK
  <2>8. answer' \in [s : Query, toks : Seq(Token) \cup {NoValue}, dir : Values \cup {NoValue}]
    BY <2>1, <2>3 DEF TypeOK, toks
  <2>9. TypeOK'
    BY <1>1, <2>1, <2>8 DEF TypeOK
  <2>. QED
    BY <1>3, <2>6, <2>7, <2>9
<1>6. CASE Stable(s) = {}
  <2>1. phase' = "failed" /\ answer' = [NoAnswer EXCEPT !.s = s]
    BY <1>6 DEF Expand, Fail
  <2>2. answer' = [s |-> s, toks |-> NoValue, dir |-> NoValue]
    BY <2>1 DEF NoAnswer
  <2>3. AnswerOK'
    BY <2>2 DEF AnswerOK
  <2>4. FailOK'
    <3>1. answer'.s = s
      BY <2>2
    <3>. QED
      BY <1>4, <1>6, <2>1, <3>1 DEF FailOK
  <2>5. answer' \in [s : Query, toks : Seq(Token) \cup {NoValue}, dir : Values \cup {NoValue}]
    BY <2>2
  <2>6. TypeOK'
    BY <1>1, <2>1, <2>5 DEF TypeOK
  <2>. QED
    BY <1>3, <2>3, <2>4, <2>6
<1>. QED
  BY <1>5, <1>6

-----------------------------------------------------------------------------
(* Versions. *)

Versions == Version \cup {DefaultVersion}

LEMMA NumberType ==
  ASSUME NEW v \in Versions, NEW i \in Nat \ {0}
  PROVE  Number(v, i) \in Nat /\ (i \in DOMAIN v => Number(v, i) = v[i])
<1>1. v \in Seq(Nat)
  BY VarsAssumption DEF Versions
<1>2. CASE i <= Len(v)
  BY <1>1, <1>2 DEF Number
<1>3. CASE ~ (i <= Len(v))
  BY <1>1, <1>3 DEF Number
<1>. QED
  BY <1>2, <1>3

\* The same, on all the places.
LEMMA AtLeastIs ==
  ASSUME NEW v \in Versions, NEW w \in Versions
  PROVE  AtLeast(v, w) <=>
           \A i \in Nat \ {0} :
             Number(v, i) < Number(w, i) => \E j \in 1 .. i - 1 : Number(v, j) > Number(w, j)
<1>1. w \in Seq(Nat)
  BY VarsAssumption DEF Versions
<1>2. \A i \in DOMAIN w : i \in Nat \ {0} /\ Number(w, i) = w[i] /\ 1 .. i - 1 \subseteq DOMAIN w
  BY <1>1 DEF Number
<1>3. ASSUME NEW i \in Nat \ {0}, Number(v, i) < Number(w, i) PROVE i \in DOMAIN w
  <2>1. Number(v, i) \in Nat
    BY NumberType
  <2>. QED
    BY <1>1, <1>3, <2>1 DEF Number
<1>. QED
  BY <1>2, <1>3 DEF AtLeast

LEMMA AtLeastTransitive ==
  ASSUME NEW u \in Versions, NEW v \in Versions, NEW w \in Versions,
         AtLeast(u, v), AtLeast(v, w)
  PROVE  AtLeast(u, w)
<1>. SUFFICES ASSUME NEW i \in Nat \ {0}, Number(u, i) < Number(w, i)
              PROVE  \E j \in 1 .. i - 1 : Number(u, j) > Number(w, j)
  BY AtLeastIs
<1>. DEFINE T == {k \in Nat \ {0} : Number(u, k) # Number(v, k) \/ Number(v, k) # Number(w, k)}
<1>1. \A k \in Nat \ {0} : Number(u, k) \in Nat /\ Number(v, k) \in Nat /\ Number(w, k) \in Nat
  BY NumberType
<1>2. T \in SUBSET Nat /\ i \in T
  BY <1>1
<1>3. PICK k \in T : \A j \in T : k <= j
  BY <1>2, LeastNumber
<1>4. k \in Nat \ {0} /\ k <= i
  BY <1>2, <1>3
<1>5. \A j \in 1 .. k - 1 : Number(u, j) = Number(v, j) /\ Number(v, j) = Number(w, j)
  <2>1. ASSUME NEW j \in 1 .. k - 1 PROVE j \notin T /\ j \in Nat \ {0}
    BY <1>3, <1>4
  <2>. QED
    BY <2>1
<1>6. ~ (Number(u, k) < Number(v, k)) /\ ~ (Number(v, k) < Number(w, k))
  <2>1. \A j \in 1 .. k - 1 : ~ (Number(u, j) > Number(v, j)) /\ ~ (Number(v, j) > Number(w, j))
    <3>1. \A j \in 1 .. k - 1 : j \in Nat \ {0}
      BY <1>4
    <3>. QED
      BY <1>1, <1>5, <3>1
  <2>. QED
    BY <1>4, <2>1, AtLeastIs
<1>7. Number(u, k) # Number(v, k) \/ Number(v, k) # Number(w, k)
  BY <1>3
<1>8. Number(u, k) > Number(w, k)
  BY <1>1, <1>4, <1>6, <1>7
<1>9. k # i
  BY <1>1, <1>8
<1>. QED
  BY <1>4, <1>8, <1>9

\* ninja_required_version takes the greater of two versions.
LEMMA GreaterFacts ==
  ASSUME NEW new \in Versions, NEW current \in Versions
  PROVE  IF Greater(new, current) THEN AtLeast(new, current) ELSE AtLeast(current, new)
<1>. DEFINE a(i) == Number(new, i)
            b(i) == Number(current, i)
<1>0. new \in Seq(Nat) /\ current \in Seq(Nat)
  BY VarsAssumption DEF Versions
<1>1. \A i \in Nat \ {0} : a(i) \in Nat /\ b(i) \in Nat
  BY NumberType
<1>2. \A i \in DOMAIN new : i \in Nat \ {0} /\ new[i] = a(i) /\ 1 .. i - 1 \subseteq DOMAIN new
  BY <1>0 DEF Number
<1>3. Greater(new, current) <=>
        \E i \in DOMAIN new : a(i) > b(i) /\ \A j \in 1 .. i - 1 : a(j) = b(j)
  BY <1>2 DEF Greater, Number
<1>. HIDE DEF a, b
<1>4. ASSUME Greater(new, current) PROVE AtLeast(new, current)
  <2>1. PICK k \in DOMAIN new : a(k) > b(k) /\ \A j \in 1 .. k - 1 : a(j) = b(j)
    BY <1>3, <1>4
  <2>2. ASSUME NEW i \in Nat \ {0}, a(i) < b(i) PROVE \E j \in 1 .. i - 1 : a(j) > b(j)
    <3>1. k \in Nat \ {0}
      BY <1>2
    <3>2. k # i /\ ~ (i \in 1 .. k - 1)
      BY <1>1, <2>1, <2>2, <3>1
    <3>3. k \in 1 .. i - 1
      BY <3>1, <3>2
    <3>. QED
      BY <2>1, <3>3
  <2>. QED
    BY <2>2, AtLeastIs DEF a, b
<1>5. ASSUME ~Greater(new, current) PROVE AtLeast(current, new)
  <2>. SUFFICES ASSUME NEW i \in Nat \ {0}, b(i) < a(i), ~ \E j \in 1 .. i - 1 : b(j) > a(j)
                PROVE  FALSE
    BY AtLeastIs DEF a, b
  <2>. DEFINE T == {k \in Nat \ {0} : b(k) < a(k)}
  <2>1. T \in SUBSET Nat /\ i \in T
    OBVIOUS
  <2>. HIDE DEF T
  <2>2. PICK k \in T : \A j \in T : k <= j
    BY <2>1, LeastNumber
  <2>3. k \in Nat \ {0} /\ b(k) < a(k) /\ k <= i
    BY <2>1, <2>2 DEF T
  <2>4. ASSUME NEW j \in 1 .. k - 1 PROVE a(j) = b(j)
    <3>1. j \in Nat \ {0} /\ j < k /\ j \in 1 .. i - 1
      BY <2>3
    <3>2. j \notin T
      BY <2>2, <2>3, <3>1
    <3>3. ~ (b(j) < a(j)) /\ ~ (b(j) > a(j))
      BY <3>1, <3>2 DEF T
    <3>. QED
      BY <1>1, <3>1, <3>3
  <2>5. k \in DOMAIN new
    <3>1. a(k) # 0
      BY <1>1, <2>3
    <3>. QED
      BY <1>0, <2>3, <3>1 DEF a, Number
  <2>6. a(k) > b(k)
    BY <1>1, <2>3
  <2>. QED
    BY <1>3, <1>5, <2>4, <2>5, <2>6
<1>. QED
  BY <1>4, <1>5

LEMMA AtLeastItself ==
  ASSUME NEW v \in Versions
  PROVE  AtLeast(v, v)
<1>1. \A i \in Nat \ {0} : ~ (Number(v, i) < Number(v, i))
  BY NumberType
<1>. QED
  BY <1>1, AtLeastIs

LEMMA RequireVersionStep ==
  ASSUME TypeOK, VersionIsEnough, NEW v \in Version, RequireVersion(v)
  PROVE  VersionIsEnough'
<1>. DEFINE A == asked \cup {DefaultVersion}
<1>1. /\ version' = (IF Greater(v, version) THEN v ELSE version) /\ asked' = asked \cup {v}
      /\ A \subseteq Versions /\ v \in Versions /\ version \in A
      /\ \A w \in A : AtLeast(version, w)
  BY DEF RequireVersion, VersionIsEnough, TypeOK, Versions
<1>2. asked' \cup {DefaultVersion} = A \cup {v}
  BY <1>1
<1>. HIDE DEF A
<1>3. version \in Versions
  BY <1>1
<1>4. version' \in A \cup {v} /\ AtLeast(version', version) /\ AtLeast(version', v)
  <2>1. CASE Greater(v, version)
    BY <1>1, <1>3, <2>1, GreaterFacts, AtLeastItself
  <2>2. CASE ~Greater(v, version)
    BY <1>1, <1>3, <2>2, GreaterFacts, AtLeastItself
  <2>. QED
    BY <2>1, <2>2
<1>5. ASSUME NEW w \in A \cup {v} PROVE AtLeast(version', w)
  <2>1. version' \in Versions /\ w \in Versions
    BY <1>1, <1>4
  <2>2. CASE w = v
    BY <1>4, <2>2
  <2>3. CASE w \in A
    BY <1>1, <1>3, <1>4, <2>1, <2>3, AtLeastTransitive
  <2>. QED
    BY <2>2, <2>3
<1>. QED
  BY <1>2, <1>4, <1>5 DEF VersionIsEnough

-----------------------------------------------------------------------------

LEMMA Invariance == Spec => []IInv
<1>1. Init => IInv
  <2>. SUFFICES ASSUME Init PROVE VersionIsEnough
    BY InitInv DEF IInv
  <2>1. DefaultVersion \in Versions /\ version = DefaultVersion /\ asked = {}
    BY DEF Init, Versions
  <2>. QED
    BY <2>1, AtLeastItself DEF VersionIsEnough
<1>2. IInv /\ [Next]_all => IInv'
  <2>. SUFFICES ASSUME IInv, [Next]_all PROVE IInv'
    OBVIOUS
  <2>0. TypeOK /\ DirOK /\ VarsOK /\ AnswerOK /\ FailOK /\ VersionIsEnough
    BY DEF IInv
  <2>1. ASSUME NEW n \in Names, VarName(n) PROVE IInv'
    <3>1. Quiet /\ phase = "script" /\ version' = version /\ asked' = asked
      BY <2>1 DEF VarName, Fail, Quiet
    <3>2. DirOK' /\ VarsOK' /\ AnswerOK' /\ FailOK'
      BY <2>0, <3>1, QuietStep
    <3>3. TypeOK'
      BY <2>0, <2>1 DEF VarName, Fail, TypeOK
    <3>4. VersionIsEnough'
      BY <2>0, <3>1 DEF VersionIsEnough
    <3>. QED
      BY <3>2, <3>3, <3>4 DEF IInv
  <2>2. ASSUME NEW value \in Value, DefineBuilddir(value) PROVE IInv'
    <3>1. VersionIsEnough'
      BY <2>0, <2>2 DEF DefineBuilddir, VersionIsEnough
    <3>. QED
      BY <2>0, <2>2, <3>1, DefineBuilddirStep DEF IInv
  <2>3. ASSUME NEW n \in Name, NEW value \in Value, Define(n, value) PROVE IInv'
    <3>1. VersionIsEnough'
      BY <2>0, <2>3 DEF Define, VersionIsEnough
    <3>. QED
      BY <2>0, <2>3, <3>1, DefineStep DEF IInv
  <2>4. ASSUME NEW s \in Query, Expand(s) PROVE IInv'
    <3>1. VersionIsEnough'
      BY <2>0, <2>4 DEF Expand, Fail, VersionIsEnough
    <3>. QED
      BY <2>0, <2>4, <3>1, ExpandStep DEF IInv
  <2>5. ASSUME NEW v \in Version, RequireVersion(v) PROVE IInv'
    <3>1. Quiet /\ phase' = phase
      BY <2>5 DEF RequireVersion, Quiet
    <3>2. DirOK' /\ VarsOK' /\ AnswerOK' /\ FailOK'
      BY <2>0, <3>1, QuietStep
    <3>3. TypeOK'
      BY <2>0, <2>5 DEF RequireVersion, TypeOK
    <3>4. VersionIsEnough'
      BY <2>0, <2>5, RequireVersionStep
    <3>. QED
      BY <3>2, <3>3, <3>4 DEF IInv
  <2>6. ASSUME Finish \/ Exited \/ UNCHANGED all PROVE IInv'
    <3>1. /\ Quiet /\ (phase = "script" \/ phase' = phase)
          /\ version' = version /\ asked' = asked /\ curried' = curried
          /\ (phase' = phase \/ phase' = "done")
      BY <2>6 DEF Finish, Exited, all, Quiet
    <3>2. DirOK' /\ VarsOK' /\ AnswerOK' /\ FailOK'
      BY <2>0, <3>1, QuietStep
    <3>3. TypeOK'
      BY <2>0, <3>1 DEF Quiet, TypeOK
    <3>4. VersionIsEnough'
      BY <2>0, <3>1 DEF VersionIsEnough
    <3>. QED
      BY <3>2, <3>3, <3>4 DEF IInv
  <2>. QED
    BY <2>1, <2>2, <2>3, <2>4, <2>5, <2>6 DEF Next, Names
<1>. QED
  BY <1>1, <1>2, PTL DEF Spec

\* Whatever versions the script asks for, and in whatever order, the one that
\* is written in the file is one of them, and none is above it.
THEOREM RequiredVersionIsEnough == Spec => []VersionIsEnough
<1>1. IInv => VersionIsEnough
  BY DEF IInv
<1>. QED
  BY <1>1, Invariance, PTL

-----------------------------------------------------------------------------
(* What Ninja reads. *)

Envs == UNION {[D -> Seq(Token)] : D \in SUBSET Names}

\* The meaning of tokens once env has been read.
Of(env) ==
  [tok \in Token |-> IF ~IsRef(tok) THEN <<tok>>
                     ELSE IF tok.name \in DOMAIN env THEN env[tok.name] ELSE <<>>]

LEMMA OfFacts ==
  ASSUME NEW env \in Envs
  PROVE  /\ Of(env) \in Meaning
         /\ \A s \in Seq(Token) : NinjaEval(s, env) = Eval(Of(env), s)
         /\ \A n \in DOMAIN env : Of(env)[ref(n)] = env[n]
<1>1. PICK D \in SUBSET Names : env \in [D -> Seq(Token)]
  BY DEF Envs
<1>2. \A tok \in Token : <<tok>> \in Seq(Token)
  OBVIOUS
<1>3. Of(env) \in Meaning
  BY <1>1, <1>2 DEF Of, Meaning
<1>4. ASSUME NEW s \in Seq(Token) PROVE NinjaEval(s, env) = Eval(Of(env), s)
  <2>1. \A i \in DOMAIN s : s[i] \in Token
    OBVIOUS
  <2>2. \A i \in DOMAIN s :
          Of(env)[s[i]] = IF ~IsRef(s[i]) THEN <<s[i]>>
                          ELSE IF s[i].name \in DOMAIN env THEN env[s[i].name] ELSE <<>>
    BY <2>1 DEF Of
  <2>. QED
    BY <2>2 DEF NinjaEval, Eval, Mapped
<1>5. ASSUME NEW n \in DOMAIN env PROVE Of(env)[ref(n)] = env[n]
  BY <1>1, RefToken DEF Of
<1>. QED
  BY <1>3, <1>4, <1>5

AnyDefinition == [name : Names, value : Seq(Token)]

LEMMA ReadFacts ==
  ASSUME NEW env \in Envs, NEW d \in AnyDefinition
  PROVE  /\ Read(env, d) \in Envs /\ DOMAIN Read(env, d) = DOMAIN env \cup {d.name}
         /\ Read(env, d)[d.name] = Eval(Of(env), d.value)
         /\ \A n \in DOMAIN env \ {d.name} : Read(env, d)[n] = env[n]
<1>0. d.name \in Names /\ d.value \in Seq(Token)
  BY DEF AnyDefinition
<1>1. PICK D \in SUBSET Names : env \in [D -> Seq(Token)]
  BY DEF Envs
<1>2. NinjaEval(d.value, env) = Eval(Of(env), d.value) /\ Eval(Of(env), d.value) \in Seq(Token)
  BY <1>0, OfFacts, EvalType
<1>3. DOMAIN env \cup {d.name} \in SUBSET Names
  BY <1>0, <1>1
<1>. DEFINE r == Read(env, d)
<1>4. r = [m \in DOMAIN env \cup {d.name} |->
             IF m = d.name THEN Eval(Of(env), d.value) ELSE env[m]]
  BY <1>2 DEF Read
<1>. HIDE DEF r
<1>5. DOMAIN r = DOMAIN env \cup {d.name} /\ r[d.name] = Eval(Of(env), d.value)
      /\ \A n \in DOMAIN env \ {d.name} : r[n] = env[n]
  BY <1>4
<1>6. \A m \in DOMAIN env \cup {d.name} : r[m] \in Seq(Token)
  BY <1>1, <1>2, <1>5
<1>7. r \in [DOMAIN env \cup {d.name} -> Seq(Token)]
  BY <1>4, <1>5, <1>6
<1>8. r \in Envs
  BY <1>3, <1>7 DEF Envs
<1>. QED
  BY <1>5, <1>8 DEF r

\* The definitions Ninja reads.
Definitions == <<[name |-> builddir, value |-> builddir_token]>> \o file

LEMMA DefinitionsFacts ==
  ASSUME TypeOK
  PROVE  /\ Definitions \in Seq(AnyDefinition)
         /\ \A i \in 1 .. Len(Definitions) : Definitions[i] \in AnyDefinition
         /\ Len(Definitions) = Len(file) + 1 /\ Len(file) \in Nat
         /\ Definitions[1].name = builddir /\ Definitions[1].value = builddir_token
         /\ \A i \in DOMAIN file : /\ i \in Nat /\ i + 1 \in 1 .. Len(Definitions)
                                  /\ Definitions[i+1] = file[i] /\ file[i].name \in Name
<1>. DEFINE b == [name |-> builddir, value |-> builddir_token]
<1>1. b \in AnyDefinition /\ b.name = builddir /\ b.value = builddir_token
  BY ValueFacts DEF TypeOK, Names, AnyDefinition
<1>2. \A d \in Definition : d \in AnyDefinition /\ d.name \in Name
  BY ValueFacts DEF Definition, Names, AnyDefinition
<1>3. file \in Seq(Definition) /\ Len(file) \in Nat /\ DOMAIN file = 1 .. Len(file)
      /\ \A i \in DOMAIN file : file[i] \in Definition
  BY DEF TypeOK
<1>4. file \in Seq(AnyDefinition)
  BY <1>2, <1>3
<1>. HIDE DEF b
<1>5. <<b>> \in Seq(AnyDefinition) /\ Len(<<b>>) = 1 /\ <<b>>[1] = b
  BY <1>1
<1>6. Definitions = <<b>> \o file
  BY DEF Definitions, b
<1>7. /\ Definitions \in Seq(AnyDefinition) /\ Len(Definitions) = 1 + Len(file)
      /\ Definitions[1] = b
      /\ \A i \in 1 .. Len(file) : Definitions[i+1] = file[i]
  BY <1>3, <1>4, <1>5, <1>6, ConcatProperties
<1>. QED
  BY <1>1, <1>2, <1>3, <1>7

\* env[k] is what Ninja knows after k definitions.
LEMMA EnvFacts ==
  ASSUME TypeOK
  PROVE  \E env \in [0 .. Len(Definitions) -> Envs] :
           /\ env[0] = <<>> /\ NinjaEnv = env[Len(Definitions)]
           /\ \A k \in 1 .. Len(Definitions) : env[k] = Read(env[k-1], Definitions[k])
<1>. DEFINE m == Len(Definitions)
            F == [k \in 0 .. m |->
                    [x \in Envs |-> IF k = 0 THEN x ELSE Read(x, Definitions[k])]]
            body(g, k) == IF k = 0 THEN <<>> ELSE Read(g[k-1], Definitions[k])
            e == CHOOSE g : g = [k \in 0 .. m |-> body(g, k)]
<1>1. m \in Nat /\ \A k \in 1 .. m : Definitions[k] \in AnyDefinition
  BY DefinitionsFacts
<1>2. NinjaEnv = e[m]
  BY DEF NinjaEnv, Definitions
<1>. HIDE DEF m, e
<1>3. \A k \in 1 .. m, x \in Envs : Read(x, Definitions[k]) \in Envs
  BY <1>1, ReadFacts
<1>4. <<>> \in Envs
  <2>1. <<>> \in [{} -> Seq(Token)]
    OBVIOUS
  <2>. QED
    BY <2>1 DEF Envs
<1>5. /\ F \in [0 .. m -> [Envs -> Envs]]
      /\ \A k \in 1 .. m, x \in Envs : F[k][x] = Read(x, Definitions[k])
  <2>1. \A k \in 0 .. m : k = 0 \/ k \in 1 .. m
    BY <1>1
  <2>2. F \in [0 .. m -> [Envs -> Envs]]
    BY <1>3, <2>1
  <2>3. ASSUME NEW k \in 1 .. m, NEW x \in Envs PROVE F[k][x] = Read(x, Definitions[k])
    <3>1. k \in 0 .. m /\ k # 0
      BY <1>1
    <3>. QED
      BY <3>1
  <2>. QED
    BY <2>2, <2>3
<1>. HIDE DEF F
<1>6. PICK g \in [0 .. m -> Envs] : Follows(g, m, <<>>, F)
  BY <1>1, <1>4, <1>5, Recursion
<1>7. ASSUME NEW k \in 0 .. m PROVE g[k] = body(g, k)
  <2>1. CASE k = 0
    BY <1>6, <2>1 DEF Follows
  <2>2. CASE k # 0
    <3>. DEFINE j == k - 1
    <3>1. k \in 1 .. m /\ j \in 0 .. m
      BY <1>1, <2>2
    <3>2. g[k] = F[k][g[j]] /\ g[j] \in Envs
      BY <1>6, <3>1 DEF Follows
    <3>. HIDE DEF j
    <3>3. g[k] = Read(g[j], Definitions[k])
      BY <1>5, <3>1, <3>2
    <3>. QED
      BY <2>2, <3>3 DEF j
  <2>. QED
    BY <2>1, <2>2
<1>8. e = [k \in 0 .. m |-> body(e, k)]
  <2>. HIDE DEF body
  <2>1. g = [k \in 0 .. m |-> body(g, k)]
    BY <1>7
  <2>. QED
    BY <2>1 DEF e
<1>9. e[0] = <<>>
  BY <1>1, <1>8
<1>10. ASSUME NEW k \in 1 .. m PROVE e[k] = Read(e[k-1], Definitions[k])
  <2>1. k \in 0 .. m /\ k # 0
    BY <1>1
  <2>2. e[k] = body(e, k)
    <3>. HIDE DEF body
    <3>. QED
      BY <1>8, <2>1
  <2>. QED
    BY <2>1, <2>2
<1>. DEFINE N == {k \in 0 .. m : e[k] \in Envs}
<1>11. 0 \in N
  BY <1>1, <1>4, <1>9
<1>12. ASSUME NEW k \in 0 .. m, k \in N, k < m PROVE k + 1 \in N
  <2>. DEFINE j == k + 1
  <2>1. j \in 1 .. m /\ j \in 0 .. m /\ j - 1 = k /\ e[k] \in Envs
    BY <1>1, <1>12
  <2>. HIDE DEF j
  <2>2. e[j] \in Envs
    BY <1>3, <1>10, <2>1
  <2>. QED
    BY <2>1, <2>2 DEF j
<1>. HIDE DEF N
<1>13. 0 .. m \subseteq N
  BY <1>1, <1>11, <1>12, Induction
<1>14. e \in [0 .. m -> Envs]
  <2>1. \A k \in 0 .. m : e[k] \in Envs
    BY <1>13 DEF N
  <2>2. e = [k \in 0 .. m |-> e[k]]
    BY <1>8
  <2>. QED
    BY <2>1, <2>2
<1>. QED
  BY <1>2, <1>9, <1>10, <1>14 DEF m

\* A definition refers to those before it, and has a name of its own.
LEMMA InOrderFacts ==
  ASSUME TypeOK, InOrder, NEW i \in 1 .. Len(Definitions)
  PROVE  /\ Refs(Definitions[i].value) \subseteq {Definitions[j].name : j \in 1 .. i - 1}
         /\ \A j \in 1 .. i - 1 : Definitions[j].name # Definitions[i].name
<1>1. /\ Len(Definitions) = Len(file) + 1 /\ Len(file) \in Nat
      /\ Definitions[1].name = builddir /\ Definitions[1].value = builddir_token
      /\ \A j \in DOMAIN file : Definitions[j+1] = file[j] /\ file[j].name \in Name
  BY DefinitionsFacts
<1>2. CASE i = 1
  BY <1>1, <1>2 DEF InOrder
<1>3. CASE i # 1
  <2>. DEFINE k == i - 1
  <2>0. DOMAIN file = 1 .. Len(file)
    BY DEF TypeOK
  <2>1. k \in DOMAIN file /\ k + 1 = i /\ k \in Nat /\ k >= 1
    BY <1>1, <1>3, <2>0
  <2>2. Definitions[i] = file[k]
    BY <1>1, <2>1
  <2>. HIDE DEF k
  <2>3. /\ Refs(file[k].value) \subseteq {builddir} \cup {file[j].name : j \in 1 .. k - 1}
        /\ \A j \in 1 .. k - 1 : file[j].name # file[k].name
    BY <2>1 DEF InOrder
  <2>4. ASSUME NEW j \in 1 .. k - 1
        PROVE  /\ j \in DOMAIN file /\ j + 1 \in 1 .. i - 1
               /\ Definitions[j+1].name = file[j].name
    <3>1. j + 1 \in 1 .. i - 1 /\ j \in 1 .. Len(file)
      BY <1>1, <2>0, <2>1
    <3>. QED
      BY <1>1, <2>0, <3>1
  <2>5. 1 \in 1 .. i - 1
    BY <2>1
  <2>6. Refs(Definitions[i].value) \subseteq {Definitions[j].name : j \in 1 .. i - 1}
    <3>. DEFINE R == {Definitions[j].name : j \in 1 .. i - 1}
    <3>1. builddir \in R
      BY <1>1, <2>5
    <3>2. \A j \in 1 .. k - 1 : file[j].name \in R
      BY <2>4
    <3>. HIDE DEF R
    <3>. QED
      BY <2>2, <2>3, <3>1, <3>2 DEF R
  <2>7. ASSUME NEW j \in 1 .. i - 1 PROVE Definitions[j].name # Definitions[i].name
    <3>1. CASE j = 1
      <4>1. file[k].name # builddir
        BY <1>1, <2>1, VarsAssumption
      <4>. QED
        BY <1>1, <2>2, <3>1, <4>1
    <3>2. CASE j # 1
      <4>. DEFINE l == j - 1
      <4>1. l \in 1 .. k - 1 /\ l + 1 = j
        BY <2>1, <3>2
      <4>. HIDE DEF l
      <4>. QED
        BY <2>2, <2>3, <2>4, <4>1
    <3>. QED
      BY <3>1, <3>2
  <2>. QED
    BY <2>6, <2>7
<1>. QED
  BY <1>2, <1>3

\* When the definitions are in order, Ninja gives each variable the meaning
\* its definition has at the end.
LEMMA NinjaModels ==
  ASSUME TypeOK, InOrder
  PROVE  Of(NinjaEnv) \in Meaning /\ Models(Of(NinjaEnv), builddir_token)
<1>. DEFINE m == Len(Definitions)
            defs == Definitions
<1>1. PICK env \in [0 .. m -> Envs] :
        /\ env[0] = <<>> /\ NinjaEnv = env[m]
        /\ \A k \in 1 .. m : env[k] = Read(env[k-1], defs[k])
  BY EnvFacts
<1>2. /\ m \in Nat /\ m = Len(file) + 1 /\ Len(file) \in Nat
      /\ \A k \in 1 .. m : defs[k] \in AnyDefinition
  BY DefinitionsFacts
<1>. DEFINE Known(k) ==
              /\ DOMAIN env[k] = {defs[i].name : i \in 1 .. k}
              /\ \A i \in 1 .. k : env[k][defs[i].name] = Eval(Of(env[k]), defs[i].value)
            N == {k \in 0 .. m : Known(k)}
<1>3. 0 \in N
  <2>1. DOMAIN env[0] = {} /\ 1 .. 0 = {}
    BY <1>1
  <2>. QED
    BY <1>2, <2>1
<1>4. ASSUME NEW k \in 0 .. m, k \in N, k < m PROVE k + 1 \in N
  <2>. DEFINE j == k + 1
              old == env[k]
              new == env[j]
              d == defs[j]
  <2>0. Known(k)
    BY <1>4
  <2>1. /\ j \in 1 .. m /\ j \in 0 .. m /\ j - 1 = k /\ k \in Nat
        /\ \A i \in 1 .. j : i \in 1 .. m /\ (i = j \/ i \in 1 .. k)
        /\ \A i \in 1 .. k : i \in 1 .. j
    BY <1>2, <1>4
  <2>. HIDE DEF m, j, Known
  <2>2. new = Read(old, d) /\ old \in Envs /\ new \in Envs
    BY <1>1, <2>1
  <2>3. d \in AnyDefinition
    BY <1>2, <2>1
  <2>. HIDE DEF old, new, d
  <2>4. /\ DOMAIN new = DOMAIN old \cup {d.name}
        /\ new[d.name] = Eval(Of(old), d.value)
        /\ \A n \in DOMAIN old \ {d.name} : new[n] = old[n]
    BY <2>2, <2>3, ReadFacts
  <2>5. /\ DOMAIN old = {defs[i].name : i \in 1 .. k}
        /\ \A i \in 1 .. k : old[defs[i].name] = Eval(Of(old), defs[i].value)
    BY <2>0 DEF Known, old
  <2>6. ASSUME NEW i \in 1 .. j
        PROVE  /\ Refs(defs[i].value) \subseteq DOMAIN old
               /\ \A l \in 1 .. i - 1 : defs[l].name # defs[i].name
    <3>1. i \in 1 .. Len(Definitions)
      BY <2>1 DEF m
    <3>2. /\ Refs(defs[i].value) \subseteq {defs[l].name : l \in 1 .. i - 1}
          /\ \A l \in 1 .. i - 1 : defs[l].name # defs[i].name
      BY <3>1, InOrderFacts
    <3>3. 1 .. i - 1 \subseteq 1 .. k
      BY <2>1
    <3>. QED
      BY <2>5, <3>2, <3>3
  <2>7. d.name \notin DOMAIN old
    <3>1. \A l \in 1 .. j - 1 : defs[l].name # d.name
      BY <2>1, <2>6 DEF d
    <3>. QED
      BY <2>1, <2>5, <3>1
  <2>8. ASSUME NEW i \in 1 .. j PROVE Eval(Of(new), defs[i].value) = Eval(Of(old), defs[i].value)
    <3>. DEFINE v == defs[i].value
    <3>1. v \in Seq(Token) /\ Refs(v) \subseteq DOMAIN old
      BY <1>2, <2>1, <2>6 DEF AnyDefinition
    <3>. HIDE DEF v
    <3>2. ASSUME NEW l \in 1 .. Len(v) PROVE Of(new)[v[l]] = Of(old)[v[l]]
      <4>1. v[l] \in Token /\ v[l] \in ToSet(v)
        BY <3>1 DEF ToSet
      <4>2. CASE IsRef(v[l])
        <5>1. v[l].name \in DOMAIN old
          BY <3>1, <4>1, <4>2 DEF Refs
        <5>2. v[l].name \in DOMAIN new /\ new[v[l].name] = old[v[l].name]
          BY <2>4, <2>7, <5>1
        <5>. QED
          BY <4>1, <4>2, <5>1, <5>2 DEF Of
      <4>3. CASE ~IsRef(v[l])
        BY <4>1, <4>3 DEF Of
      <4>. QED
        BY <4>2, <4>3
    <3>3. Eval(Of(new), v) = Eval(Of(old), v)
      BY <3>1, <3>2, EvalAgree
    <3>. QED
      BY <3>3 DEF v
  <2>9. ASSUME NEW i \in 1 .. j PROVE new[defs[i].name] = Eval(Of(new), defs[i].value)
    <3>1. CASE i = j
      BY <2>4, <2>8, <3>1 DEF d
    <3>2. CASE i # j
      <4>1. i \in 1 .. k
        BY <2>1, <3>2
      <4>2. defs[i].name \in DOMAIN old \ {d.name}
        BY <2>5, <2>7, <4>1
      <4>. QED
        BY <2>4, <2>5, <2>8, <4>1, <4>2
    <3>. QED
      BY <3>1, <3>2
  <2>10. DOMAIN new = {defs[i].name : i \in 1 .. j}
    <3>1. {defs[i].name : i \in 1 .. j} = {defs[i].name : i \in 1 .. k} \cup {d.name}
      <4>1. j \in 1 .. j
        BY <2>1
      <4>. QED
        BY <2>1, <4>1 DEF d
    <3>. QED
      BY <2>4, <2>5, <3>1
  <2>11. Known(j)
    BY <2>9, <2>10 DEF Known, new
  <2>. QED
    BY <2>1, <2>11 DEF j
<1>. HIDE DEF N, m, Known
<1>5. 0 .. m \subseteq N
  BY <1>2, <1>3, <1>4, Induction
<1>6. Known(m) /\ NinjaEnv \in Envs
  <2>1. m \in 0 .. m
    BY <1>2
  <2>. QED
    BY <1>1, <1>5, <2>1 DEF N
<1>7. ASSUME NEW i \in 1 .. m
      PROVE  Eval(Of(NinjaEnv), defs[i].value) = Of(NinjaEnv)[ref(defs[i].name)]
  <2>1. defs[i].name \in DOMAIN NinjaEnv
        /\ NinjaEnv[defs[i].name] = Eval(Of(NinjaEnv), defs[i].value)
    BY <1>1, <1>6 DEF Known
  <2>. QED
    BY <1>6, <2>1, OfFacts
<1>8. Models(Of(NinjaEnv), builddir_token)
  <2>1. defs[1].name = builddir /\ defs[1].value = builddir_token
        /\ \A i \in DOMAIN file : defs[i+1] = file[i] /\ i + 1 \in 1 .. m
    BY DefinitionsFacts DEF m
  <2>2. 1 \in 1 .. m
    BY <1>2
  <2>. HIDE DEF defs
  <2>. QED
    BY <1>7, <2>1, <2>2 DEF Models
<1>. QED
  BY <1>6, <1>8, OfFacts

\* When definitions are in order, an answer without references, given with
\* the builddir of the file, is what Ninja makes of the question once it has
\* read the whole file, whatever was defined after the call.
THEOREM ExpansionsAgree == Spec => []ExpandAgreesWithNinja
<1>1. ASSUME IInv PROVE ExpandAgreesWithNinja
  <2>. SUFFICES ASSUME phase = "done", InOrder, answer.s # NoValue, Refs(answer.toks) = {},
                       answer.dir = builddir_token
                PROVE  answer.toks = NinjaEval(answer.s, NinjaEnv)
    BY DEF ExpandAgreesWithNinja
  <2>. DEFINE h == Of(NinjaEnv)
              toks == answer.toks
              s == answer.s
  <2>1. TypeOK /\ AnswerOK /\ FailOK
    BY <1>1 DEF IInv
  <2>2. s \in Query /\ toks \in Seq(Token) \cup {NoValue}
    BY <2>1 DEF TypeOK, NoAnswer
  <2>3. toks \in Seq(Token) /\ toks # NoValue
    BY <2>1, <2>2, NoValueFacts DEF FailOK
  <2>4. h \in Meaning /\ Models(h, builddir_token)
    BY <2>1, NinjaModels
  <2>5. NinjaEnv \in Envs
    <3>1. PICK env \in [0 .. Len(Definitions) -> Envs] : NinjaEnv = env[Len(Definitions)]
      BY <2>1, EnvFacts
    <3>2. Len(Definitions) \in 0 .. Len(Definitions)
      BY <2>1, DefinitionsFacts
    <3>. QED
      BY <3>1, <3>2
  <2>6. s \in Seq(Token)
    BY <2>2, ValueFacts
  <2>7. NinjaEval(s, NinjaEnv) = Eval(h, s)
    BY <2>5, <2>6, OfFacts
  <2>. HIDE DEF h, toks
  <2>8. Eval(h, s) = Eval(h, toks)
    BY <2>1, <2>3, <2>4 DEF AnswerOK, toks
  <2>9. ASSUME NEW i \in 1 .. Len(toks) PROVE h[toks[i]] = <<toks[i]>>
    <3>1. toks[i] \in Token /\ toks[i] \in ToSet(toks)
      BY <2>3 DEF ToSet
    <3>2. ~IsRef(toks[i])
      <4>1. Refs(toks) = {}
        BY DEF toks
      <4>. QED
        BY <3>1, <4>1 DEF Refs
    <3>. QED
      BY <3>1, <3>2 DEF h, Of
  <2>10. Eval(h, toks) = toks
    BY <2>3, <2>4, <2>9, EvalSame
  <2>. QED
    BY <2>7, <2>8, <2>10 DEF toks
<1>. QED
  BY <1>1, Invariance, PTL

-----------------------------------------------------------------------------
(* Recursive definitions. *)

LEMMA ReachableFacts ==
  ASSUME TypeOK, DirOK, NEW s \in Seq(Token)
  PROVE  /\ Reachable(s) \subseteq Names /\ Refs(s) \subseteq Reachable(s)
         /\ \A p \in Reachable(s) \cap Defined : Refs(ValueOf(p)) \subseteq Reachable(s)
<1>1. Reachable(s) = {n \in Names : \A N \in SUBSET Names :
                        Refs(s) \subseteq N /\ ClosedByValues(N) => n \in N}
  BY DEF Reachable, Names
<1>2. Refs(s) \subseteq Reachable(s)
  BY <1>1, RefsFacts
<1>3. ASSUME NEW p \in Reachable(s) \cap Defined, NEW n \in Refs(ValueOf(p))
      PROVE  n \in Reachable(s)
  <2>1. n \in Names
    BY <1>3, ValueOfFacts, RefsFacts
  <2>2. ASSUME NEW N \in SUBSET Names, Refs(s) \subseteq N, ClosedByValues(N) PROVE n \in N
    BY <1>1, <1>3, <2>2 DEF ClosedByValues
  <2>. QED
    BY <1>1, <2>1, <2>2
<1>. QED
  BY <1>1, <1>2, <1>3

\* The variables s needs and whose values need n.
Above(s, n) == {m \in Defined \cap Reachable(s) : n \in Reachable(ValueOf(m))}

Recursive(s) == \E n \in Reachable(s) \cap Defined : n \in Reachable(ValueOf(n))

\* Going down from a variable adds it to those above.
LEMMA Deeper ==
  ASSUME TypeOK, DirOK, IsFiniteSet(Defined), NEW s \in Seq(Token), ~Recursive(s),
         NEW p \in Reachable(s) \cap Defined, NEW n \in Refs(ValueOf(p))
  PROVE  /\ n \in Reachable(s) /\ IsFiniteSet(Above(s, n)) /\ IsFiniteSet(Above(s, p))
         /\ Cardinality(Above(s, p)) \in Nat /\ Cardinality(Above(s, n)) \in Nat
         /\ Cardinality(Above(s, n)) >= Cardinality(Above(s, p)) + 1
<1>1. n \in Reachable(s)
  BY ReachableFacts
<1>2. ASSUME NEW m \in Above(s, p) PROVE m \in Above(s, n)
  <2>1. m \in Defined \cap Reachable(s) /\ p \in Reachable(ValueOf(m))
    BY DEF Above
  <2>2. ValueOf(m) \in Seq(Token)
    BY <2>1, ValueOfFacts
  <2>3. n \in Reachable(ValueOf(m))
    BY <2>1, <2>2, ReachableFacts
  <2>. QED
    BY <2>1, <2>3 DEF Above
<1>3. p \in Above(s, n)
  <2>1. ValueOf(p) \in Seq(Token)
    BY ValueOfFacts
  <2>2. n \in Reachable(ValueOf(p))
    BY <2>1, ReachableFacts
  <2>. QED
    BY <2>2 DEF Above
<1>4. p \notin Above(s, p)
  BY DEF Above, Recursive
<1>5. IsFiniteSet(Above(s, p)) /\ IsFiniteSet(Above(s, n))
  <2>1. Above(s, p) \subseteq Defined /\ Above(s, n) \subseteq Defined
    BY DEF Above
  <2>. QED
    BY <2>1, FS_Subset
<1>6. /\ IsFiniteSet(Above(s, p) \cup {p})
      /\ Cardinality(Above(s, p) \cup {p}) = Cardinality(Above(s, p)) + 1
  BY <1>4, <1>5, FS_AddElement
<1>7. Above(s, p) \cup {p} \subseteq Above(s, n)
  BY <1>2, <1>3
<1>8. Cardinality(Above(s, p) \cup {p}) <= Cardinality(Above(s, n))
  BY <1>5, <1>7, FS_Subset
<1>9. Cardinality(Above(s, p)) \in Nat /\ Cardinality(Above(s, n)) \in Nat
  BY <1>5, FS_CardinalityType
<1>. QED
  BY <1>1, <1>5, <1>6, <1>8, <1>9

\* After i iterations, a variable that is still to be replaced has i variables
\* above it.
LEMMA Chain ==
  ASSUME TypeOK, DirOK, IsFiniteSet(Defined), NEW s \in Seq(Token), ~Recursive(s),
         NEW i \in 0 .. max_iterations, NEW n \in Refs(Rounds(s)[i]) \cap Defined
  PROVE  n \in Reachable(s) /\ Cardinality(Above(s, n)) >= i
<1>. DEFINE m == max_iterations
            r == Rounds(s)
            Below(k) == \A q \in Refs(r[k]) \cap Defined :
                          q \in Reachable(s) /\ Cardinality(Above(s, q)) >= k
            N == {k \in 0 .. m : Below(k)}
<1>1. /\ m \in Nat /\ r \in [0 .. m -> Seq(Token)] /\ r[0] = s
      /\ \A k \in 1 .. m : r[k] = Eval(Subst, r[k-1])
  BY RoundsFacts
<1>. HIDE DEF m, r
<1>2. 0 \in N
  <2>1. ASSUME NEW q \in Refs(s) \cap Defined
        PROVE  q \in Reachable(s) /\ Cardinality(Above(s, q)) >= 0
    <3>1. IsFiniteSet(Above(s, q))
      <4>1. Above(s, q) \subseteq Defined
        BY DEF Above
      <4>. QED
        BY <4>1, FS_Subset
    <3>2. Cardinality(Above(s, q)) \in Nat
      BY <3>1, FS_CardinalityType
    <3>3. q \in Reachable(s)
      BY ReachableFacts
    <3>. QED
      BY <3>2, <3>3
  <2>. QED
    BY <1>1, <2>1
<1>3. ASSUME NEW k \in 0 .. m, k \in N, k < m PROVE k + 1 \in N
  <2>. DEFINE j == k + 1
  <2>1. j \in 1 .. m /\ j \in 0 .. m /\ j - 1 = k /\ k \in Nat /\ r[k] \in Seq(Token)
    BY <1>1, <1>3
  <2>2. Below(k)
    BY <1>3
  <2>. HIDE DEF N
  <2>3. ASSUME NEW q \in Refs(r[j]) \cap Defined
        PROVE  q \in Reachable(s) /\ Cardinality(Above(s, q)) >= j
    <3>. HIDE DEF j
    <3>1. r[j] = Eval(Subst, r[k]) /\ r[j] \in Seq(Token)
      BY <1>1, <2>1
    <3>2. q \in Names /\ ref(q) \in ToSet(r[j])
      BY <3>1, RefsFacts
    <3>3. PICK l \in 1 .. Len(r[k]) : ref(q) \in ToSet(Subst[r[k][l]])
      BY <2>1, <3>1, <3>2, EvalTokens, GsubFacts
    <3>. DEFINE tok == r[k][l]
    <3>4. tok \in Token /\ tok \in ToSet(r[k])
      BY <2>1 DEF ToSet
    <3>. HIDE DEF tok
    <3>5. ref(q) \in ToSet(Subst[tok])
      BY <3>3 DEF tok
    <3>6. IsRef(tok) /\ tok.name \in Defined
      <4>. SUFFICES ASSUME ~ (IsRef(tok) /\ tok.name \in Defined) PROVE FALSE
        OBVIOUS
      <4>1. Subst[tok] = <<tok>>
        BY <3>4 DEF Subst
      <4>2. ref(q) = tok
        BY <3>5, <4>1 DEF ToSet
      <4>. QED
        BY <3>2, <4>2, RefToken
    <3>. DEFINE p == tok.name
    <3>7. Subst[tok] = ValueOf(p) /\ ValueOf(p) \in Seq(Token)
      BY <3>4, <3>6, ValueOfFacts DEF Subst
    <3>8. p \in Refs(r[k]) \cap Defined
      BY <3>4, <3>6 DEF Refs
    <3>. HIDE DEF p
    <3>9. q \in Refs(ValueOf(p))
      BY <3>2, <3>5, <3>7, RefsFacts
    <3>10. p \in Reachable(s) \cap Defined /\ Cardinality(Above(s, p)) >= k
      BY <2>2, <3>8
    <3>11. /\ q \in Reachable(s)
           /\ Cardinality(Above(s, p)) \in Nat /\ Cardinality(Above(s, q)) \in Nat
           /\ Cardinality(Above(s, q)) >= Cardinality(Above(s, p)) + 1
      BY <3>9, <3>10, Deeper
    <3>. QED
      BY <2>1, <3>10, <3>11 DEF j
  <2>4. Below(j)
    BY <2>3
  <2>. HIDE DEF Below, j
  <2>5. j \in N
    BY <2>1, <2>4 DEF N
  <2>. QED
    BY <2>5 DEF j
<1>. HIDE DEF N
<1>4. 0 .. m \subseteq N
  BY <1>1, <1>2, <1>3, Induction
<1>5. Below(i)
  BY <1>4 DEF N, m
<1>. QED
  BY <1>5 DEF r

\* As many iterations as expand allows change a string only when a variable it
\* needs is recursive.
LEMMA EnoughIterations ==
  ASSUME TypeOK, DirOK, VarsOK, NEW s \in Seq(Token), Stable(s) = {}
  PROVE  Recursive(s)
<1>. SUFFICES ASSUME ~Recursive(s) PROVE FALSE
  OBVIOUS
<1>. DEFINE m == max_iterations
            k == m - 1
            x == Rounds(s)[k]
<1>1. /\ m \in Nat /\ m = nbvars + 2 /\ nbvars \in Nat
      /\ Rounds(s) \in [0 .. m -> Seq(Token)]
      /\ \A i \in 1 .. m : Rounds(s)[i] = Eval(Subst, Rounds(s)[i-1])
  BY RoundsFacts DEF TypeOK
<1>2. m \in 1 .. m /\ k \in 0 .. m /\ k = nbvars + 1
  BY <1>1
<1>3. x \in Seq(Token) /\ Eval(Subst, x) # x
  BY <1>1, <1>2 DEF Stable
<1>. HIDE DEF m, x
<1>4. IsFiniteSet(Defined) /\ Cardinality(Defined) \in Nat /\ Cardinality(Defined) <= nbvars + 1
  <2>1. /\ IsFiniteSet(DOMAIN vars) /\ Cardinality(DOMAIN vars) <= nbvars
        /\ Defined = DOMAIN vars \cup {builddir}
    BY DEF VarsOK, Defined
  <2>2. /\ IsFiniteSet(Defined) /\ Cardinality(DOMAIN vars) \in Nat
        /\ \/ Cardinality(Defined) = Cardinality(DOMAIN vars)
           \/ Cardinality(Defined) = Cardinality(DOMAIN vars) + 1
    BY <2>1, FS_AddElement, FS_CardinalityType
  <2>. QED
    BY <1>1, <2>1, <2>2
<1>5. PICK n \in Refs(x) : n \in Defined
  <2>. SUFFICES ASSUME \A n \in Refs(x) : n \notin Defined PROVE FALSE
    OBVIOUS
  <2>1. ASSUME NEW i \in 1 .. Len(x) PROVE Subst[x[i]] = <<x[i]>>
    <3>1. x[i] \in Token /\ x[i] \in ToSet(x)
      BY <1>3 DEF ToSet
    <3>2. ~ (IsRef(x[i]) /\ x[i].name \in Defined)
      BY <3>1 DEF Refs
    <3>. QED
      BY <3>1, <3>2 DEF Subst
  <2>2. Eval(Subst, x) = x
    BY <1>3, <2>1, EvalSame, GsubFacts
  <2>. QED
    BY <1>3, <2>2
<1>6. n \in Reachable(s) /\ Cardinality(Above(s, n)) >= k
  BY <1>2, <1>4, <1>5, Chain DEF m, x
<1>7. n \notin Above(s, n) /\ Above(s, n) \cup {n} \subseteq Defined
  BY <1>5, <1>6 DEF Above, Recursive
<1>8. IsFiniteSet(Above(s, n))
  BY <1>4, <1>7, FS_Subset
<1>9. /\ Cardinality(Above(s, n) \cup {n}) = Cardinality(Above(s, n)) + 1
      /\ Cardinality(Above(s, n)) \in Nat
  BY <1>7, <1>8, FS_AddElement, FS_CardinalityType
<1>10. Cardinality(Above(s, n) \cup {n}) <= Cardinality(Defined)
  BY <1>4, <1>7, FS_Subset
<1>. QED
  BY <1>1, <1>2, <1>4, <1>6, <1>9, <1>10

\* expand never reports a recursive definition when there is none: a variable
\* still to be replaced at the last iteration would have more variables above
\* it than the file defines.
THEOREM FailuresAreRecursive == Spec => []FailsOnlyOnRecursion
<1>1. ASSUME IInv PROVE FailsOnlyOnRecursion
  <2>. SUFFICES ASSUME phase = "failed", answer.s # NoValue, answer.toks = NoValue
                PROVE  Recursive(answer.s)
    BY DEF FailsOnlyOnRecursion, Recursive
  <2>1. TypeOK /\ DirOK /\ VarsOK /\ FailOK
    BY <1>1 DEF IInv
  <2>2. answer.s \in Query
    BY <2>1 DEF TypeOK, NoAnswer
  <2>3. Stable(answer.s) = {}
    BY <2>1, <2>2 DEF FailOK
  <2>. QED
    BY <2>1, <2>2, <2>3, EnoughIterations, ValueFacts
<1>. QED
  BY <1>1, Invariance, PTL
=============================================================================
