-------------------------- MODULE FsMkdirsProofs --------------------------
(***************************************************************************)
(* Processes that make the same directories together with mkdirs get them. *)
(*                                                                         *)
(* A process whose mkdir fails gives up, though the directory is there:    *)
(* another one has made it.  The proof follows the process that has made   *)
(* the deepest directory: no one can make it fail.                         *)
(***************************************************************************)
EXTENDS FsMkdirs, TLAPS

TypeOK ==
  /\ kind \in [Path -> {"none", "file", "dir"}]
  /\ calls \in [Proc -> Seq(Path)]
  /\ pc \in [Proc -> {"stat", "return", "mkdir"}]
  /\ ret \in [Proc -> BOOLEAN]
  /\ \A p \in Proc : pc[p] # "return" => calls[p] # <<>>

\* The file system only gains directories.
KindsAreKept ==
  /\ \A path \in Made : kind[path] = "dir"
  /\ \A path \in Path : kind[path] = "file" => path \in Files

\* The process does not know yet whether call i of its stack has to make its
\* path: only the innermost call, before stat.
Unknown(p, i) == i = 1 /\ pc[p] = "stat"

\* The stack of p goes from Want[p] up to its parents, without a cycle.
StackOK(p) ==
  LET s == calls[p] IN
  /\ s # <<>> => s[Len(s)] = Want[p]
  /\ \A i \in 1 .. Len(s) : s[i] \in Above(p)
  /\ \A i \in 1 .. Len(s) : ~Unknown(p, i) => s[i] \notin Made
  /\ \A i \in 1 .. Len(s) : i > 1 => Parent[s[i]] = s[i-1]
  /\ \A i, j \in 1 .. Len(s) : i < j => s[i] # s[j]

\* Two stacks for one directory have the same paths at the same distance from
\* it.
StacksAgree(p, q) ==
  Want[p] = Want[q] =>
    \A i \in 1 .. Len(calls[p]), j \in 1 .. Len(calls[q]) :
      Len(calls[p]) - i = Len(calls[q]) - j => calls[p][i] = calls[q][j]

\* The last call that has returned true has left something at its path.
CalleeOK(p) ==
  pc[p] = "mkdir" \/ (pc[p] = "return" /\ ret[p]) =>
    LET callee == IF calls[p] = <<>> THEN Want[p] ELSE Parent[Head(calls[p])]
    IN  kind[callee] # "none"

\* Process p has not failed, and no one has made what it has to make.
OnTheWay(p) ==
  /\ pc[p] = "return" => ret[p]
  /\ \A i \in 1 .. Len(calls[p]) : ~Unknown(p, i) => kind[calls[p][i]] = "none"

SomeoneIsOnTheWay ==
  \A p \in Proc :
    Independent(p) => \E q \in Proc : Want[q] = Want[p] /\ OnTheWay(q)

IInv ==
  /\ TypeOK
  /\ KindsAreKept
  /\ \A p \in Proc : StackOK(p) /\ CalleeOK(p)
  /\ \A p, q \in Proc : StacksAgree(p, q)
  /\ SomeoneIsOnTheWay

-----------------------------------------------------------------------------
(* Paths and stacks. *)

LEMMA AboveIsClosed ==
  ASSUME NEW p \in Proc
  PROVE  /\ Want[p] \in Above(p)
         /\ \A path \in Above(p) : path \in Path /\ Parent[path] \in Above(p)
<1>1. Want[p] \in Path /\ Parent \in [Path -> Path]
  BY PathAssumption
<1>2. Want[p] \in Above(p)
  BY <1>1 DEF Above
<1>3. ASSUME NEW path \in Above(p)
      PROVE  path \in Path /\ Parent[path] \in Above(p)
  <2>1. path \in Path /\ Parent[path] \in Path
    BY <1>1, <1>3 DEF Above
  <2>2. ASSUME NEW S \in SUBSET Path, Want[p] \in S, \A x \in S : Parent[x] \in S
        PROVE  Parent[path] \in S
    BY <1>3, <2>2, Zenon DEF Above
  <2>. QED
    BY <2>1, <2>2, Zenon DEF Above
<1>. QED
  BY <1>2, <1>3

\* The directory of the innermost path is not on the stack yet: the recursion
\* of mkdirs has no cycle.
LEMMA NoCycle ==
  ASSUME NEW s \in Seq(Path), s # <<>>,
         \A i \in 1 .. Len(s) : s[i] \notin Made,
         \A i \in 1 .. Len(s) : i > 1 => Parent[s[i]] = s[i-1]
  PROVE  \A j \in 1 .. Len(s) : Parent[s[1]] # s[j]
<1>. SUFFICES ASSUME NEW j \in 1 .. Len(s), Parent[s[1]] = s[j]
              PROVE  FALSE
  OBVIOUS
<1>. DEFINE S == {s[i] : i \in 1 .. j}
<1>1. s[1] \in S /\ s[j] \in S
  OBVIOUS
<1>2. S \in SUBSET (Path \ Made)
  OBVIOUS
<1>3. \A path \in S : Parent[path] \in S
  <2>. SUFFICES ASSUME NEW i \in 1 .. j PROVE Parent[s[i]] \in S
    OBVIOUS
  <2>1. CASE i = 1
    BY <2>1, <1>1
  <2>2. CASE i # 1
    <3>1. i \in 1 .. Len(s) /\ i > 1 /\ i - 1 \in 1 .. j
      BY <2>2
    <3>2. Parent[s[i]] = s[i-1]
      BY <3>1
    <3>. QED
      BY <3>1, <3>2
  <2>. QED
    BY <2>1, <2>2
<1>4. S # {}
  BY <1>1
<1>. HIDE DEF S
<1>. QED
  BY <1>2, <1>3, <1>4, RootAssumption

LEMMA TailFacts ==
  ASSUME NEW s \in Seq(Path), s # <<>>
  PROVE  /\ Tail(s) \in Seq(Path) /\ Len(Tail(s)) = Len(s) - 1
         /\ \A i \in 1 .. Len(Tail(s)) : Tail(s)[i] = s[i+1] /\ i + 1 \in 1 .. Len(s)
         /\ Head(s) = s[1] /\ 1 \in 1 .. Len(s) /\ Head(s) \in Path
         /\ Tail(s) # <<>> => Len(s) > 1
         /\ Tail(s) = <<>> => Len(s) = 1
<1>1. Tail(s) \in Seq(Path) /\ Len(Tail(s)) = Len(s) - 1
  OBVIOUS
<1>2. Len(s) \in Nat /\ Len(s) > 0
  OBVIOUS
<1>3. \A i \in 1 .. Len(Tail(s)) : Tail(s)[i] = s[i+1] /\ i + 1 \in 1 .. Len(s)
  OBVIOUS
<1>4. Head(s) = s[1] /\ 1 \in 1 .. Len(s) /\ Head(s) \in Path
  OBVIOUS
<1>5. Tail(s) # <<>> => Len(Tail(s)) > 0
  BY <1>1
<1>6. Tail(s) = <<>> => Len(Tail(s)) = 0
  BY <1>1
<1>. QED
  BY <1>1, <1>2, <1>3, <1>4, <1>5, <1>6

LEMMA PushFacts ==
  ASSUME NEW s \in Seq(Path), NEW x \in Path
  PROVE  LET t == <<x>> \o s IN
         /\ t \in Seq(Path) /\ t # <<>>
         /\ Len(t) = Len(s) + 1
         /\ t[1] = x
         /\ \A i \in 1 .. Len(t) : i > 1 => t[i] = s[i-1] /\ i - 1 \in 1 .. Len(s)
<1>1. <<x>> \in Seq(Path) /\ Len(<<x>>) = 1 /\ <<x>>[1] = x
  OBVIOUS
<1>. QED
  BY <1>1

-----------------------------------------------------------------------------
(* The steps of a process: it pushes a call, ends one, or goes on.          *)

\* Nothing changes but the call of p.
OnlyStackOf(p, s, l) ==
  /\ calls' = [calls EXCEPT ![p] = s]
  /\ pc' = [pc EXCEPT ![p] = l]

Descend(p) ==
  /\ pc[p] = "stat" /\ kind[Head(calls[p])] = "none"
  /\ OnlyStackOf(p, <<Parent[Head(calls[p])]>> \o calls[p], "stat")
  /\ UNCHANGED <<kind, ret>>

Found(p) ==
  /\ pc[p] = "stat" /\ kind[Head(calls[p])] # "none"
  /\ OnlyStackOf(p, Tail(calls[p]), "return")
  /\ ret' = [ret EXCEPT ![p] = TRUE] /\ UNCHANGED kind

GoOn(p) ==
  /\ pc[p] = "return" /\ ret[p] /\ calls[p] # <<>>
  /\ OnlyStackOf(p, calls[p], "mkdir")
  /\ UNCHANGED <<kind, ret>>

GiveUp(p) ==
  /\ pc[p] = "return" /\ ~ret[p] /\ calls[p] # <<>>
  /\ OnlyStackOf(p, Tail(calls[p]), "return")
  /\ UNCHANGED <<kind, ret>>

CanMake(path) == kind[path] = "none" /\ kind[Parent[path]] = "dir"

Makes(p) ==
  /\ pc[p] = "mkdir" /\ CanMake(Head(calls[p]))
  /\ OnlyStackOf(p, Tail(calls[p]), "return")
  /\ kind' = [kind EXCEPT ![Head(calls[p])] = "dir"]
  /\ ret' = [ret EXCEPT ![p] = TRUE]

Fails(p) ==
  /\ pc[p] = "mkdir" /\ ~CanMake(Head(calls[p]))
  /\ OnlyStackOf(p, Tail(calls[p]), "return")
  /\ ret' = [ret EXCEPT ![p] = FALSE] /\ UNCHANGED kind

LEMMA StepCases ==
  ASSUME NEW p \in Proc, TypeOK, Step(p)
  PROVE  Descend(p) \/ Found(p) \/ GoOn(p) \/ GiveUp(p) \/ Makes(p) \/ Fails(p)
<1>1. ASSUME Stat(p) PROVE Descend(p) \/ Found(p)
  BY <1>1 DEF Stat, Descend, Found, OnlyStackOf, Exists, Goto, TypeOK
<1>2. ASSUME Return(p) PROVE GoOn(p) \/ GiveUp(p)
  BY <1>2 DEF Return, GoOn, GiveUp, OnlyStackOf, Goto, TypeOK
<1>3. ASSUME Mkdir(p) PROVE Makes(p) \/ Fails(p)
  <2>. DEFINE path == Head(calls[p])
              ok   == ~Exists(path) /\ kind[Parent[path]] = "dir"
  <2>1. ok <=> CanMake(path)
    BY DEF CanMake, Exists
  <2>2. /\ pc[p] = "mkdir" /\ OnlyStackOf(p, Tail(calls[p]), "return")
        /\ kind' = IF ok THEN [kind EXCEPT ![path] = "dir"] ELSE kind
        /\ ret' = [ret EXCEPT ![p] = ok]
    BY <1>3, Zenon DEF Mkdir, OnlyStackOf, Goto
  <2>. HIDE DEF ok
  <2>3. CASE CanMake(path)
    <3>1. ok = TRUE
      BY <2>1, <2>3 DEF ok
    <3>. QED
      BY <2>2, <2>3, <3>1, Zenon DEF Makes
  <2>4. CASE ~CanMake(path)
    <3>1. ok = FALSE
      BY <2>1, <2>4 DEF ok
    <3>. QED
      BY <2>2, <2>4, <3>1, Zenon DEF Fails
  <2>. QED
    BY <2>3, <2>4
<1>. QED
  BY <1>1, <1>2, <1>3 DEF Step

-----------------------------------------------------------------------------
(* Type correctness. *)

LEMMA TypeStep ==
  ASSUME TypeOK, NEW p \in Proc, Step(p)
  PROVE  TypeOK'
<1>1. calls[p] \in Seq(Path)
  BY DEF TypeOK
<1>2. ASSUME NEW s \in Seq(Path), NEW l \in {"stat", "return", "mkdir"},
             OnlyStackOf(p, s, l), l # "return" => s # <<>>,
             UNCHANGED ret \/ \E b \in BOOLEAN : ret' = [ret EXCEPT ![p] = b],
             UNCHANGED kind \/ \E path \in Path : kind' = [kind EXCEPT ![path] = "dir"]
      PROVE  TypeOK'
  <2>1. calls' \in [Proc -> Seq(Path)] /\ pc' \in [Proc -> {"stat", "return", "mkdir"}]
    BY <1>2 DEF OnlyStackOf, TypeOK
  <2>2. ret' \in [Proc -> BOOLEAN]
    BY <1>2 DEF TypeOK
  <2>3. kind' \in [Path -> {"none", "file", "dir"}]
    BY <1>2 DEF TypeOK
  <2>4. \A q \in Proc : pc'[q] # "return" => calls'[q] # <<>>
    BY <1>2 DEF OnlyStackOf, TypeOK
  <2>. QED
    BY <2>1, <2>2, <2>3, <2>4 DEF TypeOK
<1>3. ASSUME calls[p] # <<>>
      PROVE  Tail(calls[p]) \in Seq(Path) /\ Head(calls[p]) \in Path
  BY <1>1, <1>3, TailFacts
<1>4. CASE Descend(p)
  <2>1. calls[p] # <<>>
    BY <1>4 DEF Descend, TypeOK
  <2>2. Parent[Head(calls[p])] \in Path
    BY <1>3, <2>1, PathAssumption
  <2>3. LET t == <<Parent[Head(calls[p])]>> \o calls[p] IN t \in Seq(Path) /\ t # <<>>
    BY <1>1, <2>2, PushFacts
  <2>. QED
    BY <1>2, <1>4, <2>3 DEF Descend
<1>5. CASE Found(p)
  <2>1. calls[p] # <<>>
    BY <1>5 DEF Found, TypeOK
  <2>. QED
    BY <1>2, <1>3, <1>5, <2>1 DEF Found
<1>6. CASE GoOn(p)
  BY <1>1, <1>2, <1>6 DEF GoOn
<1>7. CASE GiveUp(p)
  BY <1>2, <1>3, <1>7 DEF GiveUp
<1>8. CASE Makes(p)
  <2>1. calls[p] # <<>>
    BY <1>8 DEF Makes, TypeOK
  <2>. QED
    BY <1>2, <1>3, <1>8, <2>1 DEF Makes
<1>9. CASE Fails(p)
  <2>1. calls[p] # <<>>
    BY <1>9 DEF Fails, TypeOK
  <2>. QED
    BY <1>2, <1>3, <1>9, <2>1 DEF Fails
<1>. QED
  BY <1>4, <1>5, <1>6, <1>7, <1>8, <1>9, StepCases

-----------------------------------------------------------------------------
(* Stacks. *)

LEMMA InitInv == Init => IInv
<1>. SUFFICES ASSUME Init PROVE IInv
  OBVIOUS
<1>1. \A p \in Proc : /\ Want[p] \in Path /\ calls[p] = <<Want[p]>>
                      /\ pc[p] = "stat" /\ ret[p] = FALSE
  BY PathAssumption DEF Init
<1>2. \A p \in Proc : /\ calls[p] \in Seq(Path) /\ calls[p] # <<>>
                      /\ Len(calls[p]) = 1 /\ calls[p][1] = Want[p]
  <2>1. \A x \in Path : <<x>> \in Seq(Path) /\ <<x>> # <<>> /\ Len(<<x>>) = 1 /\ <<x>>[1] = x
    OBVIOUS
  <2>2. ASSUME NEW p \in Proc
        PROVE  calls[p] \in Seq(Path) /\ calls[p] # <<>> /\ Len(calls[p]) = 1 /\ calls[p][1] = Want[p]
    <3>1. calls[p] = <<Want[p]>> /\ Want[p] \in Path
      BY <1>1
    <3>. QED
      BY <2>1, <3>1, Zenon
  <2>. QED
    BY <2>2, Zenon
<1>3. TypeOK
  <2>1. calls \in [Proc -> Seq(Path)]
    BY <1>2 DEF Init
  <2>. QED
    BY <1>1, <1>2, <2>1 DEF Init, TypeOK
<1>4. KindsAreKept
  BY PathAssumption DEF Init, KindsAreKept
<1>5. ASSUME NEW p \in Proc PROVE StackOK(p) /\ CalleeOK(p) /\ OnTheWay(p)
  <2>1. Want[p] \in Above(p)
    BY AboveIsClosed
  <2>2. \A i \in 1 .. Len(calls[p]) : i = 1 /\ Unknown(p, i)
    <3>1. Len(calls[p]) = 1 /\ pc[p] = "stat"
      BY <1>1, <1>2
    <3>. QED
      BY <3>1 DEF Unknown
  <2>. QED
    BY <1>1, <1>2, <2>1, <2>2 DEF StackOK, CalleeOK, OnTheWay
<1>6. \A p, q \in Proc : StacksAgree(p, q)
  BY <1>2 DEF StacksAgree
<1>. QED
  BY <1>3, <1>4, <1>5, <1>6 DEF IInv, SomeoneIsOnTheWay

\* A step of another process leaves the stack as it is.
LEMMA OtherStacks ==
  ASSUME TypeOK, NEW p \in Proc, Step(p), NEW q \in Proc, q # p
  PROVE  calls'[q] = calls[q] /\ pc'[q] = pc[q] /\ ret'[q] = ret[q]
<1>1. calls'[q] = calls[q] /\ pc'[q] = pc[q]
  BY StepCases DEF Descend, Found, GoOn, GiveUp, Makes, Fails, OnlyStackOf, TypeOK
<1>2. ret'[q] = ret[q]
  BY StepCases DEF Descend, Found, GoOn, GiveUp, Makes, Fails, TypeOK
<1>. QED
  BY <1>1, <1>2

\* What a step of p does to its own stack.
LEMMA OwnStack ==
  ASSUME TypeOK, NEW p \in Proc, Step(p)
  PROVE  \/ /\ pc[p] = "stat" /\ kind[calls[p][1]] = "none" /\ calls[p] # <<>>
            /\ calls'[p] = <<Parent[calls[p][1]]>> \o calls[p] /\ pc'[p] = "stat"
            /\ kind' = kind
         \/ /\ pc[p] = "return" /\ ret[p] /\ calls[p] # <<>> /\ calls'[p] = calls[p]
            /\ pc'[p] = "mkdir" /\ kind' = kind /\ ret'[p] = ret[p]
         \/ /\ calls[p] # <<>> /\ calls'[p] = Tail(calls[p]) /\ pc'[p] = "return"
<1>1. calls[p] \in Seq(Path) /\ (pc[p] # "return" => calls[p] # <<>>)
  BY DEF TypeOK
<1>2. calls[p] # <<>> => Head(calls[p]) = calls[p][1]
  BY <1>1, TailFacts
<1>3. \A s, l : OnlyStackOf(p, s, l) => calls'[p] = s /\ pc'[p] = l
  BY DEF OnlyStackOf, TypeOK
<1>. QED
  BY <1>1, <1>2, <1>3, StepCases DEF Descend, Found, GoOn, GiveUp, Makes, Fails

LEMMA StackStep ==
  ASSUME TypeOK, KindsAreKept, NEW p \in Proc, Step(p), NEW q \in Proc, StackOK(q)
  PROVE  StackOK(q)'
<1>1. CASE q # p
  <2>1. calls'[q] = calls[q] /\ pc'[q] = pc[q]
    BY <1>1, OtherStacks
  <2>. QED
    BY <2>1 DEF StackOK, Unknown
<1>2. CASE q = p
  <2>. DEFINE s == calls[p]
              t == calls'[p]
  <2>0. s \in Seq(Path)
    BY DEF TypeOK
  <2>1. /\ s # <<>> => s[Len(s)] = Want[p]
        /\ \A i \in 1 .. Len(s) : s[i] \in Above(p)
        /\ \A i \in 1 .. Len(s) : ~(i = 1 /\ pc[p] = "stat") => s[i] \notin Made
        /\ \A i \in 1 .. Len(s) : i > 1 => Parent[s[i]] = s[i-1]
        /\ \A i, j \in 1 .. Len(s) : i < j => s[i] # s[j]
    BY <1>2 DEF StackOK, Unknown
  <2>2. ASSUME /\ t # <<>> => t[Len(t)] = Want[p]
               /\ \A i \in 1 .. Len(t) : t[i] \in Above(p)
               /\ \A i \in 1 .. Len(t) : ~(i = 1 /\ pc'[p] = "stat") => t[i] \notin Made
               /\ \A i \in 1 .. Len(t) : i > 1 => Parent[t[i]] = t[i-1]
               /\ \A i, j \in 1 .. Len(t) : i < j => t[i] # t[j]
        PROVE  StackOK(q)'
    BY <1>2, <2>2 DEF StackOK, Unknown
  <2>. HIDE DEF t
  <2>3. CASE /\ pc[p] = "stat" /\ kind[s[1]] = "none" /\ s # <<>>
             /\ t = <<Parent[s[1]]>> \o s /\ pc'[p] = "stat"
    <3>1. 1 \in 1 .. Len(s) /\ s[1] \in Above(p) /\ s[1] \in Path /\ Parent[s[1]] \in Above(p)
      BY <2>0, <2>1, <2>3, AboveIsClosed
    <3>2. Parent[s[1]] \in Path
      BY <3>1, AboveIsClosed
    <3>3. /\ Len(t) = Len(s) + 1 /\ t[1] = Parent[s[1]]
          /\ \A i \in 1 .. Len(t) : i > 1 => t[i] = s[i-1] /\ i - 1 \in 1 .. Len(s)
      BY <2>0, <2>3, <3>2, PushFacts
    <3>4. \A i \in 1 .. Len(s) : s[i] \notin Made
      BY <2>1, <2>3 DEF KindsAreKept
    <3>5. \A j \in 1 .. Len(s) : Parent[s[1]] # s[j]
      BY <2>0, <2>1, <2>3, <3>4, NoCycle
    <3>6. Len(s) \in Nat /\ Len(s) > 0
      BY <2>0, <2>3
    <3>7. t[Len(t)] = Want[p]
      BY <2>1, <2>3, <3>3, <3>6
    <3>8. \A i \in 1 .. Len(t) : t[i] \in Above(p)
      BY <2>1, <3>1, <3>3, <3>6
    <3>9. \A i \in 1 .. Len(t) : i > 1 => t[i] \notin Made
      BY <3>3, <3>4
    <3>10. \A i \in 1 .. Len(t) : i > 1 => Parent[t[i]] = t[i-1]
      <4>. SUFFICES ASSUME NEW i \in 1 .. Len(t), i > 1 PROVE Parent[t[i]] = t[i-1]
        OBVIOUS
      <4>1. CASE i = 2
        BY <3>3, <3>6, <4>1
      <4>2. CASE i > 2
        <5>1. t[i] = s[i-1] /\ t[i-1] = s[i-1-1] /\ i - 1 \in 1 .. Len(s) /\ i - 1 > 1
          BY <3>3, <3>6, <4>2
        <5>. QED
          BY <2>1, <5>1
      <4>. QED
        BY <4>1, <4>2
    <3>11. \A i, j \in 1 .. Len(t) : i < j => t[i] # t[j]
      <4>. SUFFICES ASSUME NEW i \in 1 .. Len(t), NEW j \in 1 .. Len(t), i < j
                    PROVE  t[i] # t[j]
        OBVIOUS
      <4>1. t[j] = s[j-1] /\ j - 1 \in 1 .. Len(s)
        BY <3>3, <3>6
      <4>2. CASE i = 1
        BY <3>3, <3>5, <4>1, <4>2
      <4>3. CASE i > 1
        <5>1. t[i] = s[i-1] /\ i - 1 \in 1 .. Len(s) /\ i - 1 < j - 1
          BY <3>3, <3>6, <4>3
        <5>. QED
          BY <2>1, <4>1, <5>1
      <4>. QED
        BY <4>2, <4>3
    <3>. QED
      BY <2>2, <2>3, <3>7, <3>8, <3>9, <3>10, <3>11
  <2>4. CASE pc[p] = "return" /\ t = s /\ pc'[p] = "mkdir"
    BY <2>1, <2>2, <2>4
  <2>5. CASE s # <<>> /\ t = Tail(s) /\ pc'[p] = "return"
    <3>1. /\ t \in Seq(Path) /\ Len(t) = Len(s) - 1
          /\ \A i \in 1 .. Len(t) : t[i] = s[i+1] /\ i + 1 \in 1 .. Len(s)
      BY <2>0, <2>5, TailFacts
    <3>2. Len(s) \in Nat /\ Len(s) > 0 /\ (t # <<>> => Len(t) > 0)
      BY <2>0, <2>5, <3>1
    <3>3. t # <<>> => t[Len(t)] = Want[p]
      BY <2>1, <2>5, <3>1, <3>2
    <3>4. \A i \in 1 .. Len(t) : t[i] \in Above(p) /\ t[i] \notin Made
      BY <2>1, <3>1
    <3>5. \A i \in 1 .. Len(t) : i > 1 => Parent[t[i]] = t[i-1]
      <4>. SUFFICES ASSUME NEW i \in 1 .. Len(t), i > 1 PROVE Parent[t[i]] = t[i-1]
        OBVIOUS
      <4>1. t[i] = s[i+1] /\ t[i-1] = s[i+1-1] /\ i + 1 \in 1 .. Len(s) /\ i + 1 > 1
        BY <3>1, <3>2
      <4>. QED
        BY <2>1, <4>1
    <3>6. \A i, j \in 1 .. Len(t) : i < j => t[i] # t[j]
      <4>. SUFFICES ASSUME NEW i \in 1 .. Len(t), NEW j \in 1 .. Len(t), i < j
                    PROVE  t[i] # t[j]
        OBVIOUS
      <4>1. t[i] = s[i+1] /\ t[j] = s[j+1] /\ i + 1 < j + 1
        BY <3>1
      <4>2. i + 1 \in 1 .. Len(s) /\ j + 1 \in 1 .. Len(s)
        BY <3>1
      <4>. QED
        BY <2>1, <4>1, <4>2
    <3>. QED
      BY <2>2, <3>3, <3>4, <3>5, <3>6
  <2>. QED
    BY <2>3, <2>4, <2>5, OwnStack DEF t
<1>. QED
  BY <1>1, <1>2

\* Two stacks have the same paths at the same distance from their ends.
Agree(s, u) ==
  \A i \in 1 .. Len(s), j \in 1 .. Len(u) : Len(s) - i = Len(u) - j => s[i] = u[j]

LEMMA AgreePop ==
  ASSUME NEW s \in Seq(Path), s # <<>>, NEW u \in Seq(Path), Agree(s, u)
  PROVE  Agree(Tail(s), u)
<1>1. /\ Len(Tail(s)) = Len(s) - 1 /\ Len(s) \in Nat /\ Len(u) \in Nat
      /\ \A i \in 1 .. Len(Tail(s)) : Tail(s)[i] = s[i+1] /\ i + 1 \in 1 .. Len(s)
  BY TailFacts
<1>2. ASSUME NEW i \in 1 .. Len(Tail(s)), NEW j \in 1 .. Len(u),
             Len(Tail(s)) - i = Len(u) - j
      PROVE  Tail(s)[i] = u[j]
  <2>1. Tail(s)[i] = s[i+1] /\ i + 1 \in 1 .. Len(s)
    BY <1>1
  <2>2. Len(s) - (i + 1) = Len(u) - j
    BY <1>1, <1>2
  <2>. QED
    BY <2>1, <2>2 DEF Agree
<1>. QED
  BY <1>2 DEF Agree

LEMMA AgreePush ==
  ASSUME NEW s \in Seq(Path), s # <<>>, NEW u \in Seq(Path), Agree(s, u),
         Parent[s[1]] \in Path,
         \A i \in 1 .. Len(u) : i > 1 => Parent[u[i]] = u[i-1]
  PROVE  Agree(<<Parent[s[1]]>> \o s, u)
<1>. DEFINE t == <<Parent[s[1]]>> \o s
<1>1. /\ Len(t) = Len(s) + 1 /\ t[1] = Parent[s[1]]
      /\ \A i \in 1 .. Len(t) : i > 1 => t[i] = s[i-1] /\ i - 1 \in 1 .. Len(s)
  BY PushFacts
<1>2. Len(s) \in Nat /\ Len(s) > 0 /\ Len(u) \in Nat
  OBVIOUS
<1>. HIDE DEF t
<1>3. ASSUME NEW i \in 1 .. Len(t), NEW j \in 1 .. Len(u), Len(t) - i = Len(u) - j
      PROVE  t[i] = u[j]
  <2>1. CASE i = 1
    <3>1. j + 1 \in 1 .. Len(u) /\ j + 1 > 1 /\ 1 \in 1 .. Len(s)
          /\ Len(s) - 1 = Len(u) - (j + 1)
      BY <1>1, <1>2, <1>3, <2>1
    <3>2. s[1] = u[j+1]
      BY <3>1 DEF Agree
    <3>3. Parent[u[j+1]] = u[j+1-1] /\ j + 1 - 1 = j
      BY <3>1
    <3>. QED
      BY <1>1, <2>1, <3>2, <3>3
  <2>2. CASE i > 1
    <3>1. t[i] = s[i-1] /\ i - 1 \in 1 .. Len(s) /\ Len(s) - (i - 1) = Len(u) - j
      BY <1>1, <1>2, <1>3, <2>2
    <3>. QED
      BY <3>1 DEF Agree
  <2>. QED
    BY <2>1, <2>2
<1>. QED
  BY <1>3 DEF Agree, t

LEMMA AgreeStep ==
  ASSUME TypeOK, NEW r \in Proc, Step(r),
         \A p \in Proc : StackOK(p), \A p, q \in Proc : StacksAgree(p, q)
  PROVE  \A p, q \in Proc : StacksAgree(p, q)'
<1>1. \A p, q \in Proc : StacksAgree(p, q) <=> (Want[p] = Want[q] => Agree(calls[p], calls[q]))
  BY DEF StacksAgree, Agree
<1>2. \A p, q \in Proc : StacksAgree(p, q)' <=> (Want[p] = Want[q] => Agree(calls'[p], calls'[q]))
  BY DEF StacksAgree, Agree
<1>3. \A s, u : Agree(s, u) => Agree(u, s)
  BY DEF Agree
<1>4. \A p \in Proc : calls[p] \in Seq(Path)
  BY DEF TypeOK
<1>5. ASSUME NEW q \in Proc, Want[r] = Want[q], q # r
      PROVE  Agree(calls'[r], calls[q])
  <2>1. Agree(calls[r], calls[q])
    BY <1>1, <1>5
  <2>2. \A i \in 1 .. Len(calls[q]) : i > 1 => Parent[calls[q][i]] = calls[q][i-1]
    BY DEF StackOK
  <2>3. CASE calls[r] # <<>> /\ calls'[r] = Tail(calls[r])
    BY <1>4, <2>1, <2>3, AgreePop
  <2>4. CASE calls[r] # <<>> /\ calls'[r] = <<Parent[calls[r][1]]>> \o calls[r]
    <3>1. Head(calls[r]) \in Path /\ Head(calls[r]) = calls[r][1]
      BY <1>4, <2>4, TailFacts
    <3>2. Parent[calls[r][1]] \in Path
      BY <3>1, PathAssumption
    <3>. QED
      BY <1>4, <2>1, <2>2, <2>4, <3>2, AgreePush
  <2>5. CASE calls'[r] = calls[r]
    BY <2>1, <2>5
  <2>. QED
    BY <2>3, <2>4, <2>5, OwnStack
<1>6. \A q \in Proc : q # r => calls'[q] = calls[q]
  BY OtherStacks
<1>7. \A p \in Proc : Agree(calls'[p], calls'[p])
  <2>. SUFFICES ASSUME NEW p \in Proc PROVE Agree(calls'[p], calls'[p])
    OBVIOUS
  <2>1. Len(calls'[p]) \in Nat
    BY TypeStep DEF TypeOK
  <2>. QED
    BY <2>1 DEF Agree
<1>8. ASSUME NEW p \in Proc, NEW q \in Proc, Want[p] = Want[q]
      PROVE  Agree(calls'[p], calls'[q])
  BY <1>1, <1>3, <1>5, <1>6, <1>7, <1>8
<1>. QED
  BY <1>2, <1>8

-----------------------------------------------------------------------------
(* The file system. *)

\* Only mkdir changes it: it makes the innermost path of the process.
LEMMA KindStep ==
  ASSUME TypeOK, NEW r \in Proc, Step(r), NEW path \in Path
  PROVE  \/ kind'[path] = kind[path]
         \/ /\ pc[r] = "mkdir" /\ calls[r] # <<>> /\ path = calls[r][1]
            /\ kind[path] = "none" /\ kind'[path] = "dir"
            /\ calls'[r] = Tail(calls[r]) /\ pc'[r] = "return" /\ ret'[r]
<1>1. CASE Makes(r)
  <2>1. calls[r] \in Seq(Path) /\ calls[r] # <<>> /\ pc[r] = "mkdir"
    BY <1>1 DEF Makes, TypeOK
  <2>2. Head(calls[r]) = calls[r][1]
    BY <2>1, TailFacts
  <2>3. ret'[r] /\ calls'[r] = Tail(calls[r]) /\ pc'[r] = "return"
    BY <1>1 DEF Makes, OnlyStackOf, TypeOK
  <2>4. kind' = [kind EXCEPT ![calls[r][1]] = "dir"] /\ kind[calls[r][1]] = "none"
    BY <1>1, <2>2 DEF Makes, CanMake
  <2>5. kind \in [Path -> {"none", "file", "dir"}]
    BY DEF TypeOK
  <2>. QED
    BY <2>1, <2>3, <2>4, <2>5
<1>2. CASE ~Makes(r)
  <2>1. kind' = kind
    BY <1>2, StepCases DEF Descend, Found, GoOn, GiveUp, Fails
  <2>. QED
    BY <2>1
<1>. QED
  BY <1>1, <1>2

LEMMA KindsStep ==
  ASSUME TypeOK, KindsAreKept, NEW r \in Proc, Step(r)
  PROVE  KindsAreKept'
<1>1. \A path \in Path : kind[path] # "none" => kind'[path] = kind[path]
  BY KindStep
<1>2. \A path \in Path : kind'[path] = "file" => kind[path] = "file"
  BY KindStep
<1>. QED
  BY <1>1, <1>2, PathAssumption DEF KindsAreKept

\* The path of the call that ends is the callee of the next one.
LEMMA CalleeAfterPop ==
  ASSUME NEW s \in Seq(Path), s # <<>>, NEW w, s[Len(s)] = w,
         \A i \in 1 .. Len(s) : i > 1 => Parent[s[i]] = s[i-1]
  PROVE  (IF Tail(s) = <<>> THEN w ELSE Parent[Head(Tail(s))]) = s[1]
<1>1. CASE Tail(s) = <<>>
  BY <1>1, TailFacts
<1>2. CASE Tail(s) # <<>>
  <2>1. Len(s) > 1 /\ Len(s) \in Nat /\ Tail(s) \in Seq(Path)
    BY <1>2, TailFacts
  <2>2. 1 \in 1 .. Len(Tail(s)) /\ Head(Tail(s)) = Tail(s)[1]
    BY <1>2, <2>1, TailFacts
  <2>3. Tail(s)[1] = s[2]
    BY <2>2, TailFacts
  <2>4. 2 \in 1 .. Len(s) /\ 2 > 1 /\ 2 - 1 = 1
    BY <2>1
  <2>5. Parent[s[2]] = s[1]
    BY <2>4
  <2>. QED
    BY <1>2, <2>2, <2>3, <2>5
<1>. QED
  BY <1>1, <1>2

callee(p) == IF calls[p] = <<>> THEN Want[p] ELSE Parent[Head(calls[p])]

LEMMA CalleeStep ==
  ASSUME TypeOK, NEW r \in Proc, Step(r), NEW q \in Proc, StackOK(q), CalleeOK(q)
  PROVE  CalleeOK(q)'
<1>1. callee(q) \in Path
  BY TailFacts, PathAssumption DEF callee, TypeOK
<1>2. CASE q # r
  <2>1. callee(q)' = callee(q) /\ pc'[q] = pc[q] /\ ret'[q] = ret[q]
    BY <1>2, OtherStacks DEF callee
  <2>2. kind[callee(q)] # "none" => kind'[callee(q)] # "none"
    BY <1>1, KindStep
  <2>. QED
    BY <2>1, <2>2 DEF CalleeOK, callee
<1>3. CASE q = r
  <2>0. calls[r] \in Seq(Path)
    BY DEF TypeOK
  <2>1. calls[r] # <<>> =>
          (IF Tail(calls[r]) = <<>> THEN Want[r] ELSE Parent[Head(Tail(calls[r]))]) = calls[r][1]
          /\ Head(calls[r]) = calls[r][1] /\ Head(calls[r]) \in Path
    BY <1>3, <2>0, CalleeAfterPop, TailFacts DEF StackOK
  <2>2. \A s, l : OnlyStackOf(r, s, l) => calls'[r] = s /\ pc'[r] = l
    BY DEF OnlyStackOf, TypeOK
  <2>3. CASE Descend(r)
    BY <1>3, <2>2, <2>3 DEF Descend, CalleeOK
  <2>4. CASE Found(r)
    <3>1. calls[r] # <<>> /\ kind'[calls[r][1]] # "none"
      BY <2>1, <2>4 DEF Found, TypeOK
    <3>2. calls'[r] = Tail(calls[r])
      BY <2>2, <2>4 DEF Found
    <3>. QED
      BY <1>3, <2>1, <3>1, <3>2 DEF CalleeOK
  <2>5. CASE GoOn(r)
    <3>1. callee(r)' = callee(r) /\ pc[r] = "return" /\ ret[r] /\ kind' = kind
      BY <2>2, <2>5 DEF GoOn, callee
    <3>. QED
      BY <1>3, <3>1 DEF CalleeOK, callee
  <2>6. CASE GiveUp(r)
    <3>1. pc'[r] = "return" /\ ~ret'[r]
      BY <2>2, <2>6 DEF GiveUp
    <3>. QED
      BY <1>3, <3>1 DEF CalleeOK
  <2>7. CASE Makes(r)
    <3>1. calls[r] # <<>>
      BY <2>7 DEF Makes, TypeOK
    <3>2. kind'[calls[r][1]] = "dir" /\ calls'[r] = Tail(calls[r])
      BY <2>1, <2>2, <2>7, <3>1 DEF Makes, TypeOK
    <3>. QED
      BY <1>3, <2>1, <3>1, <3>2 DEF CalleeOK
  <2>8. CASE Fails(r)
    <3>1. pc'[r] = "return" /\ ~ret'[r]
      BY <2>2, <2>8 DEF Fails, TypeOK
    <3>. QED
      BY <1>3, <3>1 DEF CalleeOK
  <2>. QED
    BY <2>3, <2>4, <2>5, <2>6, <2>7, <2>8, StepCases
<1>. QED
  BY <1>2, <1>3

-----------------------------------------------------------------------------
(* Someone goes on. *)

\* A process on its way that takes a step stays on it: its mkdir cannot fail.
LEMMA OwnWay ==
  ASSUME TypeOK, KindsAreKept, NEW r \in Proc, Step(r), StackOK(r), CalleeOK(r),
         OnTheWay(r), Above(r) \cap Files = {}
  PROVE  OnTheWay(r)'
<1>. DEFINE s == calls[r]
            t == calls'[r]
<1>0. s \in Seq(Path) /\ (pc[r] # "return" => s # <<>>)
  BY DEF TypeOK
<1>1. \A i \in 1 .. Len(s) : ~(i = 1 /\ pc[r] = "stat") => kind[s[i]] = "none"
  BY DEF OnTheWay, Unknown
<1>2. ASSUME pc'[r] = "return" => ret'[r],
             \A i \in 1 .. Len(t) : ~(i = 1 /\ pc'[r] = "stat") => kind'[t[i]] = "none"
      PROVE  OnTheWay(r)'
  BY <1>2 DEF OnTheWay, Unknown
<1>3. \A x, l : OnlyStackOf(r, x, l) => t = x /\ pc'[r] = l
  BY DEF OnlyStackOf, TypeOK
<1>4. s # <<>> => /\ Head(s) = s[1] /\ 1 \in 1 .. Len(s) /\ s[1] \in Above(r)
                  /\ s[1] \in Path
  BY <1>0, TailFacts, AboveIsClosed DEF StackOK
<1>5. s # <<>> => \A i \in 1 .. Len(Tail(s)) :
                    /\ Tail(s)[i] = s[i+1] /\ i + 1 \in 1 .. Len(s) /\ i + 1 # 1
                    /\ Tail(s)[i] # s[1] /\ Tail(s)[i] \in Path
                    /\ kind[Tail(s)[i]] = "none"
  <2>. SUFFICES ASSUME s # <<>>, NEW i \in 1 .. Len(Tail(s))
                PROVE  /\ Tail(s)[i] = s[i+1] /\ i + 1 \in 1 .. Len(s) /\ i + 1 # 1
                       /\ Tail(s)[i] # s[1] /\ Tail(s)[i] \in Path
                       /\ kind[Tail(s)[i]] = "none"
    OBVIOUS
  <2>1. Tail(s)[i] = s[i+1] /\ i + 1 \in 1 .. Len(s) /\ 1 \in 1 .. Len(s)
    BY <1>0, TailFacts
  <2>2. 1 < i + 1 /\ i + 1 # 1
    OBVIOUS
  <2>3. s[1] # s[i+1] /\ s[i+1] \in Path
    BY <1>0, <2>1, <2>2 DEF StackOK
  <2>. QED
    BY <1>1, <2>1, <2>2, <2>3
<1>. HIDE DEF s, t
<1>6. CASE Descend(r)
  <2>1. pc[r] = "stat" /\ s # <<>> /\ kind' = kind /\ kind[s[1]] = "none"
    BY <1>0, <1>4, <1>6 DEF Descend, s
  <2>2. t = <<Parent[s[1]]>> \o s /\ pc'[r] = "stat"
    BY <1>3, <1>4, <1>6, <2>1 DEF Descend, s
  <2>3. Parent[s[1]] \in Path
    BY <1>4, <2>1, PathAssumption
  <2>4. \A i \in 1 .. Len(t) : i > 1 => t[i] = s[i-1] /\ i - 1 \in 1 .. Len(s)
    BY <1>0, <2>2, <2>3, PushFacts
  <2>5. \A i \in 1 .. Len(s) : kind[s[i]] = "none"
    BY <1>1, <2>1
  <2>6. \A i \in 1 .. Len(t) : i # 1 => kind'[t[i]] = "none"
    BY <2>1, <2>4, <2>5
  <2>. QED
    BY <1>2, <2>2, <2>6
<1>7. CASE Found(r)
  <2>1. s # <<>> /\ kind' = kind /\ ret'[r]
    BY <1>0, <1>7 DEF Found, TypeOK
  <2>2. t = Tail(s)
    BY <1>3, <1>7 DEF Found, s
  <2>. QED
    BY <1>2, <1>5, <2>1, <2>2
<1>8. CASE GoOn(r)
  <2>1. pc[r] = "return" /\ kind' = kind /\ t = s /\ pc'[r] = "mkdir"
    BY <1>3, <1>8 DEF GoOn, s
  <2>. QED
    BY <1>1, <1>2, <2>1
<1>9. CASE GiveUp(r)
  BY <1>9 DEF GiveUp, OnTheWay
<1>10. CASE Makes(r)
  <2>1. s # <<>> /\ ret'[r]
    BY <1>0, <1>10 DEF Makes, TypeOK
  <2>2. t = Tail(s)
    BY <1>3, <1>10 DEF Makes, s
  <2>3. \A path \in Path : path # s[1] => kind'[path] = kind[path]
    BY KindStep DEF s
  <2>. QED
    BY <1>2, <1>5, <2>1, <2>2, <2>3
<1>11. CASE Fails(r)
  <2>1. pc[r] = "mkdir" /\ s # <<>> /\ ~CanMake(s[1])
    BY <1>0, <1>4, <1>11 DEF Fails, s
  <2>2. kind[s[1]] = "none"
    BY <1>1, <1>4, <2>1
  <2>3. kind[Parent[s[1]]] # "none"
    BY <1>4, <2>1 DEF CalleeOK, s
  <2>4. Parent[s[1]] \in Path /\ Parent[s[1]] \notin Files
    BY <1>4, <2>1, AboveIsClosed
  <2>5. kind[Parent[s[1]]] = "dir"
    BY <2>3, <2>4 DEF KindsAreKept, TypeOK
  <2>. QED
    BY <2>1, <2>2, <2>5 DEF CanMake
<1>. QED
  BY <1>6, <1>7, <1>8, <1>9, <1>10, <1>11, StepCases

\* Equal paths are at the same distance from the end of two stacks that agree.
LEMMA SameDistance ==
  ASSUME NEW s \in Seq(Path), NEW u \in Seq(Path), Agree(s, u),
         \A i, j \in 1 .. Len(s) : i < j => s[i] # s[j],
         \A i, j \in 1 .. Len(u) : i < j => u[i] # u[j],
         NEW i \in 1 .. Len(s), NEW j \in 1 .. Len(u), s[i] = u[j]
  PROVE  Len(s) - i = Len(u) - j
<1>1. Len(s) \in Nat /\ Len(u) \in Nat
  OBVIOUS
<1>2. CASE Len(u) - j < Len(s) - i
  <2>. DEFINE m == Len(s) - Len(u) + j
  <2>1. m \in 1 .. Len(s) /\ i < m /\ Len(s) - m = Len(u) - j
    BY <1>1, <1>2
  <2>. HIDE DEF m
  <2>2. s[m] = u[j]
    BY <2>1 DEF Agree
  <2>. QED
    BY <2>1, <2>2
<1>3. CASE Len(s) - i < Len(u) - j
  <2>. DEFINE m == Len(u) - Len(s) + i
  <2>1. m \in 1 .. Len(u) /\ j < m /\ Len(u) - m = Len(s) - i
    BY <1>1, <1>3
  <2>. HIDE DEF m
  <2>2. s[i] = u[m]
    BY <2>1 DEF Agree
  <2>. QED
    BY <2>1, <2>2
<1>4. \/ Len(u) - j < Len(s) - i
      \/ Len(s) - i < Len(u) - j
      \/ Len(s) - i = Len(u) - j
  BY <1>1
<1>. QED
  BY <1>2, <1>3, <1>4, Zenon

\* A process that makes what another one, on its way to the same directory,
\* was to make, is on its way.
LEMMA TakesOver ==
  ASSUME TypeOK, NEW r \in Proc, Step(r), NEW q \in Proc,
         StackOK(r), StackOK(q), OnTheWay(q), Agree(calls[r], calls[q]),
         NEW i \in 1 .. Len(calls[q]), ~Unknown(q, i), kind'[calls[q][i]] # "none"
  PROVE  OnTheWay(r)'
<1>. DEFINE s == calls[r]
            u == calls[q]
<1>0. s \in Seq(Path) /\ u \in Seq(Path) /\ u[i] \in Path
  BY DEF TypeOK
<1>1. kind[u[i]] = "none"
  BY DEF OnTheWay
<1>2. /\ s # <<>> /\ u[i] = s[1] /\ calls'[r] = Tail(s) /\ pc'[r] = "return" /\ ret'[r]
  BY <1>0, <1>1, KindStep
<1>3. \A path \in Path : path # s[1] => kind'[path] = kind[path]
  BY KindStep
<1>4. /\ \A j, k \in 1 .. Len(s) : j < k => s[j] # s[k]
      /\ \A j, k \in 1 .. Len(u) : j < k => u[j] # u[k]
      /\ \A k \in 1 .. Len(u) : k # 1 => kind[u[k]] = "none"
  BY DEF StackOK, OnTheWay, Unknown
<1>5. Agree(s, u)
  OBVIOUS
<1>6. i \in 1 .. Len(u)
  OBVIOUS
<1>. HIDE DEF s, u
<1>7. 1 \in 1 .. Len(s) /\ Len(s) \in Nat /\ Len(u) \in Nat
  BY <1>0, <1>2
<1>8. Len(s) - 1 = Len(u) - i
  BY <1>0, <1>2, <1>4, <1>5, <1>6, <1>7, SameDistance
<1>9. ASSUME NEW k \in 1 .. Len(Tail(s)) PROVE kind'[Tail(s)[k]] = "none"
  <2>1. Tail(s)[k] = s[k+1] /\ k + 1 \in 1 .. Len(s) /\ 1 < k + 1
    BY <1>0, <1>2, TailFacts
  <2>2. i + k \in 1 .. Len(u) /\ i + k # 1 /\ Len(s) - (k + 1) = Len(u) - (i + k)
    BY <1>6, <1>7, <1>8, <2>1
  <2>3. s[k+1] = u[i+k]
    BY <1>5, <2>1, <2>2 DEF Agree
  <2>4. kind[u[i+k]] = "none" /\ s[k+1] # s[1] /\ s[k+1] \in Path
    BY <1>0, <1>4, <1>7, <2>1, <2>2
  <2>. QED
    BY <1>3, <2>1, <2>3, <2>4
<1>. QED
  BY <1>2, <1>9 DEF OnTheWay

LEMMA SomeoneStep ==
  ASSUME IInv, NEW r \in Proc, Step(r)
  PROVE  SomeoneIsOnTheWay'
<1>. SUFFICES ASSUME NEW p \in Proc, Independent(p)
              PROVE  \E q \in Proc : Want[q] = Want[p] /\ OnTheWay(q)'
  BY DEF SomeoneIsOnTheWay, Independent, Above
<1>1. PICK q \in Proc : Want[q] = Want[p] /\ OnTheWay(q)
  BY DEF IInv, SomeoneIsOnTheWay
<1>0. Above(q) = Above(p)
  BY <1>1 DEF Above
<1>2. CASE q = r
  <2>1. Above(r) \cap Files = {}
    BY <1>0, <1>2 DEF Independent
  <2>2. OnTheWay(r)'
    BY <1>1, <1>2, <2>1, OwnWay DEF IInv
  <2>. QED
    BY <1>1, <1>2, <2>2
<1>3. CASE q # r
  <2>1. calls'[q] = calls[q] /\ pc'[q] = pc[q] /\ ret'[q] = ret[q]
    BY <1>3, OtherStacks DEF IInv
  <2>2. CASE \A i \in 1 .. Len(calls[q]) : ~Unknown(q, i) => kind'[calls[q][i]] = "none"
    <3>1. OnTheWay(q)'
      BY <1>1, <2>1, <2>2 DEF OnTheWay, Unknown
    <3>. QED
      BY <1>1, <3>1
  <2>3. CASE \E i \in 1 .. Len(calls[q]) : ~Unknown(q, i) /\ kind'[calls[q][i]] # "none"
    <3>1. PICK i \in 1 .. Len(calls[q]) : ~Unknown(q, i) /\ kind'[calls[q][i]] # "none"
      BY <2>3
    <3>2. calls[q][i] \in Above(q) /\ calls[q][i] \notin Made /\ kind[calls[q][i]] = "none"
      BY <1>1, <3>1 DEF IInv, StackOK, OnTheWay
    <3>3. calls[q][i] \in Path
      BY <3>2, AboveIsClosed
    <3>4. calls[q][i] = calls[r][1] /\ calls[r] # <<>> /\ pc[r] = "mkdir"
      BY <3>1, <3>2, <3>3, KindStep DEF IInv
    <3>5. 1 \in 1 .. Len(calls[r])
      BY <3>4 DEF IInv, TypeOK
    <3>6. calls[r][1] \in Above(r)
      BY <3>5 DEF IInv, StackOK
    <3>7. Want[r] = Want[q]
      BY <1>0, <1>1, <3>2, <3>4, <3>6 DEF Independent
    <3>8. Agree(calls[r], calls[q])
      BY <3>7 DEF IInv, StacksAgree, Agree
    <3>9. OnTheWay(r)'
      BY <1>1, <3>1, <3>8, TakesOver DEF IInv
    <3>. QED
      BY <1>1, <3>7, <3>9
  <2>. QED
    BY <2>2, <2>3
<1>. QED
  BY <1>2, <1>3

-----------------------------------------------------------------------------
(* The theorems. *)

LEMMA Invariance == Spec => []IInv
<1>1. IInv /\ [Next]_vars => IInv'
  <2>. SUFFICES ASSUME IInv, [Next]_vars PROVE IInv'
    OBVIOUS
  <2>1. CASE UNCHANGED vars
    <3>1. kind' = kind /\ calls' = calls /\ pc' = pc /\ ret' = ret
      BY <2>1 DEF vars
    <3>2. TypeOK' /\ KindsAreKept'
      BY <3>1 DEF IInv, TypeOK, KindsAreKept
    <3>3. \A p \in Proc : StackOK(p)' /\ CalleeOK(p)'
      BY <3>1 DEF IInv, StackOK, CalleeOK, Unknown
    <3>4. \A p, q \in Proc : StacksAgree(p, q)'
      <4>1. \A p, q \in Proc : Want[p] = Want[q] => Agree(calls[p], calls[q])
        BY DEF IInv, StacksAgree, Agree
      <4>2. \A p, q \in Proc : Want[p] = Want[q] => Agree(calls'[p], calls'[q])
        BY <3>1, <4>1
      <4>. QED
        BY <4>2 DEF StacksAgree, Agree
    <3>5. SomeoneIsOnTheWay'
      BY <3>1 DEF IInv, SomeoneIsOnTheWay, OnTheWay, Unknown
    <3>. QED
      BY <3>2, <3>3, <3>4, <3>5 DEF IInv
  <2>2. ASSUME NEW r \in Proc, Step(r) PROVE IInv'
    <3>1. TypeOK' /\ KindsAreKept'
      BY <2>2, TypeStep, KindsStep DEF IInv
    <3>2. \A q \in Proc : StackOK(q)' /\ CalleeOK(q)'
      BY <2>2, StackStep, CalleeStep DEF IInv
    <3>3. \A p, q \in Proc : StacksAgree(p, q)'
      BY <2>2, AgreeStep DEF IInv
    <3>4. SomeoneIsOnTheWay'
      BY <2>2, SomeoneStep
    <3>. QED
      BY <3>1, <3>2, <3>3, <3>4 DEF IInv
  <2>. QED
    BY <2>1, <2>2 DEF Next
<1>. QED
  BY <1>1, InitInv, PTL DEF Spec

\* Every state of mkdirs is well typed: a process that calls stat or mkdir has
\* a path to give it.
THEOREM TypeCorrect == Spec => []TypeOK
<1>1. IInv => TypeOK
  BY DEF IInv
<1>. QED
  BY <1>1, Invariance, PTL

\* Processes that make the same directory together get it, however their calls
\* of stat and mkdir interleave, and at least one is told so.
THEOREM SamePathGetsMade == Spec => []SamePathIsMade
<1>1. ASSUME IInv PROVE SamePathIsMade
  <2>. SUFFICES ASSUME NEW p \in Proc, Independent(p),
                       \A q \in Proc : Want[q] = Want[p] => Returned(q)
                PROVE  /\ kind[Want[p]] = "dir"
                       /\ \E q \in Proc : Want[q] = Want[p] /\ ret[q]
    BY DEF SamePathIsMade
  <2>1. PICK q \in Proc : Want[q] = Want[p] /\ OnTheWay(q)
    BY <1>1 DEF IInv, SomeoneIsOnTheWay
  <2>2. pc[q] = "return" /\ calls[q] = <<>> /\ ret[q]
    BY <2>1 DEF Returned, OnTheWay
  <2>3. kind[Want[q]] # "none"
    BY <1>1, <2>2 DEF IInv, CalleeOK
  <2>4. Want[q] \in Path /\ Want[q] \notin Files
    BY <2>1, AboveIsClosed DEF Independent
  <2>5. kind[Want[q]] = "dir"
    BY <1>1, <2>3, <2>4 DEF IInv, TypeOK, KindsAreKept
  <2>. QED
    BY <2>1, <2>2, <2>5
<1>. QED
  BY <1>1, Invariance, PTL
=============================================================================
