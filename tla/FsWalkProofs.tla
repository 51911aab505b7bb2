---------------------------- MODULE FsWalkProofs ----------------------------
(***************************************************************************)
(* walk lists each directory once, finds everything, and rmdir removes     *)
(* exactly what a directory without surprise contains.                     *)
(*                                                                         *)
(* Links and directories stay while a directory is walked, so that a path, *)
(* once found, leads to the same directory all the time: stat on it is a   *)
(* matter of its last name (StatOfPath).                                   *)
(***************************************************************************)
EXTENDS FsWalk, TLAPS

Path == Seq(Node \ {Top}) \ {<<>>}

\* The entries that paths name, and what they lead to.
Named(S) == {Last(path) : path \in S}
Led(S) == {Followed(Last(path)) : path \in S}

\* Each name is in the directory the previous one leads to, and the last one
\* leads to a directory.
Valid(path) ==
  /\ path \in Path
  /\ \A i \in DOMAIN path : tree.parent[path[i]] = Where(path, i)
  /\ Followed(Last(path)) \in Dir

\* The nodes that exist until rmdir removes them.
Stable == (Node \ Fresh) \ Doomed

Walking == pc \in {"inode", "dir", "stat"}

\* The directory being visited.
Current == Followed(Last(dir))

TypeOK ==
  /\ tree \in Trees /\ live \in SUBSET Node
  /\ op \in {"walk", "rmdir"} /\ cross \in BOOLEAN /\ (op = "rmdir" => ~cross)
  /\ pc \in {"inode", "dir", "stat", "rm", "end"}
  /\ dirs \in Seq(Path) /\ dir \in Path \cup {<<>>} /\ names \in SUBSET Node
  /\ seen \in SUBSET Dir
  /\ acc_files \in Seq(Path) /\ acc_dirs \in Seq(Path) /\ list \in Seq(Path)
  /\ result \in BOOLEAN /\ walks \in [Dir -> Nat]

PathsOK ==
  /\ Walking \/ op = "walk" => Stable \subseteq live
  /\ ~Walking => dirs = <<>>
  /\ pc = "rm" => op = "rmdir"
  /\ \A path \in ToSet(dirs) : Valid(path)
  /\ pc \in {"dir", "stat"} => Valid(dir)
  /\ pc = "stat" => \A n \in names : n # Top /\ tree.parent[n] = Current

BaseInv == TypeOK /\ PathsOK

-----------------------------------------------------------------------------
(* Sequences. *)

LEMMA ToSetFacts ==
  ASSUME NEW S, NEW s \in Seq(S)
  PROVE  /\ ToSet(s) = {s[j] : j \in 1 .. Len(s)}
         /\ \A j \in 1 .. Len(s) : s[j] \in ToSet(s)
         /\ \A x \in ToSet(s) : x \in S /\ \E j \in 1 .. Len(s) : x = s[j]
<1>1. DOMAIN s = 1 .. Len(s)
  OBVIOUS
<1>. QED
  BY <1>1 DEF ToSet

LEMMA AppendFacts ==
  ASSUME NEW S, NEW s \in Seq(S), NEW e \in S
  PROVE  /\ Append(s, e) \in Seq(S) /\ Append(s, e) # <<>>
         /\ Len(Append(s, e)) = Len(s) + 1
         /\ \A i \in 1 .. Len(s) : Append(s, e)[i] = s[i]
         /\ Append(s, e)[Len(s) + 1] = e
         /\ Last(Append(s, e)) = e /\ Front(Append(s, e)) = s
         /\ ToSet(Append(s, e)) = ToSet(s) \cup {e}
<1>. DEFINE t == Append(s, e)
<1>1. /\ t \in Seq(S) /\ t # <<>> /\ Len(t) = Len(s) + 1 /\ Len(s) \in Nat
      /\ \A i \in 1 .. Len(s) : t[i] = s[i]
      /\ t[Len(s) + 1] = e
  OBVIOUS
<1>. HIDE DEF t
<1>2. Last(t) = e
  BY <1>1 DEF Last
<1>3. Front(t) = s
  BY <1>1 DEF Front
<1>4. ToSet(t) = ToSet(s) \cup {e}
  BY <1>1, ToSetFacts
<1>. QED
  BY <1>1, <1>2, <1>3, <1>4 DEF t

LEMMA FrontFacts ==
  ASSUME NEW S, NEW s \in Seq(S), s # <<>>
  PROVE  /\ Front(s) \in Seq(S) /\ Len(Front(s)) = Len(s) - 1 /\ Len(s) \in Nat \ {0}
         /\ \A i \in 1 .. Len(s) - 1 : Front(s)[i] = s[i]
         /\ Last(s) = s[Len(s)] /\ Last(s) \in S
         /\ ToSet(s) = ToSet(Front(s)) \cup {Last(s)}
<1>1. /\ Front(s) \in Seq(S) /\ Len(Front(s)) = Len(s) - 1 /\ Len(s) \in Nat \ {0}
      /\ \A i \in 1 .. Len(s) - 1 : Front(s)[i] = s[i]
  <2>1. Len(s) \in Nat \ {0}
    OBVIOUS
  <2>. DEFINE k == Len(s) - 1
  <2>2. k \in Nat /\ k <= Len(s)
    BY <2>1
  <2>3. Front(s) = SubSeq(s, 1, k)
    BY DEF Front
  <2>. HIDE DEF k
  <2>4. SubSeq(s, 1, k) \in Seq(S) /\ Len(SubSeq(s, 1, k)) = k
    BY <2>2
  <2>5. \A i \in 1 .. k : SubSeq(s, 1, k)[i] = s[i]
    BY <2>2
  <2>. QED
    BY <2>1, <2>3, <2>4, <2>5 DEF k
<1>2. Last(s) = s[Len(s)] /\ Last(s) \in S
  BY <1>1 DEF Last
<1>3. ToSet(s) = ToSet(Front(s)) \cup {Last(s)}
  <2>. DEFINE f == Front(s)
  <2>1. f \in Seq(S) /\ Len(f) = Len(s) - 1 /\ \A i \in 1 .. Len(s) - 1 : f[i] = s[i]
    BY <1>1
  <2>. HIDE DEF f
  <2>2. /\ ToSet(s) = {s[j] : j \in 1 .. Len(s)}
        /\ ToSet(f) = {f[j] : j \in 1 .. Len(f)}
    BY <2>1, ToSetFacts
  <2>3. \A j \in 1 .. Len(s) : j # Len(s) => j \in 1 .. Len(f) /\ f[j] = s[j]
    BY <1>1, <2>1
  <2>4. \A j \in 1 .. Len(f) : j \in 1 .. Len(s) /\ f[j] = s[j]
    BY <1>1, <2>1
  <2>5. Len(s) \in 1 .. Len(s)
    BY <1>1
  <2>. QED
    BY <1>2, <2>2, <2>3, <2>4, <2>5 DEF f
<1>. QED
  BY <1>1, <1>2, <1>3

LEMMA EmptyToSet == ToSet(<<>>) = {}
  BY DEF ToSet

-----------------------------------------------------------------------------
(* Paths and what they lead to. *)

LEMMA StableFacts == Dir \cup Link \subseteq Stable /\ Stable \subseteq Node
  BY WalkAssumption DEF Stable, Node

LEMMA TreeFacts ==
  ASSUME tree \in Trees
  PROVE  /\ \A n \in Node \ {Top} : tree.parent[n] \in Dir
         /\ \A n \in Node : Followed(n) \in Dir \cup File \cup {Nothing}
         /\ \A n \in Node : Followed(n) \in Dir => n \in Dir \cup Link
         /\ \A n \in Dir \cup File : Followed(n) = n
         /\ tree.parent[Root] = Top
         /\ Root \in Node \ {Top} /\ Top \in Dir
  BY WalkAssumption DEF Followed, Node

LEMMA PathFacts ==
  ASSUME NEW path \in Path
  PROVE  /\ path \in Seq(Node \ {Top}) /\ path # <<>>
         /\ Len(path) \in Nat \ {0} /\ DOMAIN path = 1 .. Len(path)
         /\ Last(path) = path[Len(path)] /\ Last(path) \in Node \ {Top}
         /\ \A i \in 1 .. Len(path) : path[i] \in Node \ {Top}
<1>1. path \in Seq(Node \ {Top}) /\ path # <<>>
  BY DEF Path
<1>. HIDE DEF Node
<1>. QED
  BY <1>1, FrontFacts

LEMMA StatOfPath ==
  ASSUME tree \in Trees, NEW path, Valid(path), Stable \subseteq live
  PROVE  stat(path) = Followed(Last(path)) /\ Resolved(path) /\ stat(path) \in Dir
<1>1. /\ path \in Path /\ Followed(Last(path)) \in Dir
      /\ \A i \in DOMAIN path : tree.parent[path[i]] = Where(path, i)
  BY DEF Valid
<1>2. /\ Len(path) \in Nat \ {0} /\ DOMAIN path = 1 .. Len(path)
      /\ Last(path) = path[Len(path)]
      /\ \A i \in 1 .. Len(path) : path[i] \in Node \ {Top}
  BY <1>1, PathFacts
<1>3. Where(path, Len(path) + 1) = Followed(Last(path))
  BY <1>2 DEF Where
<1>4. ASSUME NEW i \in 1 .. Len(path)
      PROVE  {path[i], Followed(path[i])} \subseteq live
  <2>1. Followed(path[i]) \in Dir
    <3>1. CASE i = Len(path)
      BY <1>1, <1>2, <3>1
    <3>2. CASE i # Len(path)
      <4>0. Len(path) \in Nat
        BY <1>2
      <4>1. i + 1 \in 1 .. Len(path) /\ i + 1 # 1 /\ (i + 1) - 1 = i
        BY <3>2, <4>0
      <4>2. Where(path, i + 1) = Followed(path[i])
        BY <4>1 DEF Where
      <4>3. tree.parent[path[i + 1]] = Followed(path[i])
        BY <1>1, <1>2, <4>1, <4>2
      <4>. QED
        BY <1>2, <4>1, <4>3, TreeFacts
    <3>. QED
      BY <3>1, <3>2
  <2>2. path[i] \in Dir \cup Link
    BY <1>2, <2>1, TreeFacts
  <2>. QED
    BY <2>1, <2>2, StableFacts
<1>5. Resolved(path)
  BY <1>1, <1>2, <1>4 DEF Resolved
<1>. QED
  BY <1>1, <1>3, <1>5 DEF stat

\* The path of an entry of the directory a path leads to.
LEMMA StatOfName ==
  ASSUME tree \in Trees, NEW path, Valid(path), Stable \subseteq live,
         NEW n \in Node \ {Top}, tree.parent[n] = Followed(Last(path))
  PROVE  LET name == Append(path, n) IN
         /\ name \in Path /\ Last(name) = n /\ Front(name) = path
         /\ Len(name) = Len(path) + 1
         /\ stat(name) = IF {n, Followed(n)} \subseteq live THEN Followed(n) ELSE Nothing
         /\ Followed(n) \in Dir => Valid(name) /\ stat(name) = Followed(n)
<1>. DEFINE name == Append(path, n)
<1>1. /\ path \in Path /\ path \in Seq(Node \ {Top})
      /\ Len(path) \in Nat \ {0} /\ DOMAIN path = 1 .. Len(path)
      /\ Last(path) = path[Len(path)]
      /\ \A i \in DOMAIN path : tree.parent[path[i]] = Where(path, i)
  BY PathFacts DEF Valid
<1>2. /\ name \in Seq(Node \ {Top}) /\ name # <<>>
      /\ Len(name) = Len(path) + 1
      /\ \A i \in 1 .. Len(path) : name[i] = path[i]
      /\ name[Len(path) + 1] = n
      /\ Last(name) = n /\ Front(name) = path
  BY <1>1, AppendFacts
<1>. HIDE DEF name
<1>3. name \in Path /\ DOMAIN name = 1 .. Len(path) + 1
  BY <1>2 DEF Path
<1>4. ASSUME NEW i \in 1 .. Len(path) + 1
      PROVE  Where(name, i) = IF i = Len(path) + 1 THEN Followed(Last(path)) ELSE Where(path, i)
  <2>1. i # 1 => i - 1 \in 1 .. Len(path)
    BY <1>1
  <2>. QED
    BY <1>1, <1>2, <2>1 DEF Where
<1>5. Where(name, Len(name) + 1) = Followed(n)
  <2>1. Len(name) + 1 # 1 /\ (Len(name) + 1) - 1 = Len(path) + 1
    BY <1>1, <1>2
  <2>. QED
    BY <1>2, <2>1 DEF Where
<1>6. \A i \in DOMAIN name : tree.parent[name[i]] = Where(name, i)
  <2>. SUFFICES ASSUME NEW i \in 1 .. Len(path) + 1 PROVE tree.parent[name[i]] = Where(name, i)
    BY <1>3
  <2>1. CASE i = Len(path) + 1
    BY <1>2, <1>4, <2>1
  <2>2. CASE i # Len(path) + 1
    <3>1. i \in 1 .. Len(path)
      BY <1>1, <2>2
    <3>. QED
      BY <1>1, <1>2, <1>4, <2>2, <3>1
  <2>. QED
    BY <2>1, <2>2
<1>7. Resolved(name) <=> {n, Followed(n)} \subseteq live
  <2>1. \A i \in 1 .. Len(path) : {path[i], Followed(path[i])} \subseteq live
    BY <1>1, StatOfPath DEF Resolved
  <2>2. ASSUME {n, Followed(n)} \subseteq live, NEW i \in 1 .. Len(path) + 1
        PROVE  {name[i], Followed(name[i])} \subseteq live
    <3>1. CASE i = Len(path) + 1
      BY <1>2, <2>2, <3>1
    <3>2. CASE i # Len(path) + 1
      <4>1. i \in 1 .. Len(path)
        BY <1>1, <3>2
      <4>. QED
        BY <1>2, <2>1, <4>1
    <3>. QED
      BY <3>1, <3>2
  <2>3. Len(path) + 1 \in DOMAIN name
    BY <1>1, <1>3
  <2>. QED
    BY <1>2, <1>3, <1>6, <2>2, <2>3 DEF Resolved
<1>8. stat(name) = IF {n, Followed(n)} \subseteq live THEN Followed(n) ELSE Nothing
  BY <1>5, <1>7 DEF stat
<1>9. ASSUME Followed(n) \in Dir PROVE Valid(name) /\ stat(name) = Followed(n)
  <2>1. Valid(name)
    BY <1>2, <1>3, <1>6, <1>9 DEF Valid
  <2>. QED
    BY <1>2, <2>1, StatOfPath
<1>. QED
  BY <1>2, <1>3, <1>8, <1>9 DEF name

-----------------------------------------------------------------------------
(* The types of the variables, and the paths on the stack.                 *)

LEMMA RootPath ==
  ASSUME tree \in Trees
  PROVE  <<Root>> \in Path /\ Valid(<<Root>>) /\ Last(<<Root>>) = Root /\ Len(<<Root>>) = 1
<1>1. <<Root>> \in Path
  BY TreeFacts DEF Path
<1>2. Last(<<Root>>) = Root /\ Len(<<Root>>) = 1 /\ DOMAIN <<Root>> = {1} /\ <<Root>>[1] = Root
  BY DEF Last
<1>3. Where(<<Root>>, 1) = Top
  BY DEF Where
<1>4. tree.parent[Root] = Top /\ Followed(Root) = Root /\ Root \in Dir
  BY TreeFacts, WalkAssumption
<1>. QED
  BY <1>1, <1>2, <1>3, <1>4 DEF Valid

LEMMA BaseInit == Init => BaseInv
<1>. SUFFICES ASSUME Init PROVE BaseInv
  OBVIOUS
<1>1. <<Root>> \in Path /\ Valid(<<Root>>)
  BY RootPath DEF Init
<1>2. dirs \in Seq(Path) /\ ToSet(dirs) = {<<Root>>}
  <2>1. dirs = <<<<Root>>>>
    BY DEF Init
  <2>. DEFINE p == <<Root>>
  <2>2. p \in Path /\ dirs = <<p>>
    BY <1>1, <2>1
  <2>. HIDE DEF p
  <2>3. dirs \in Seq(Path) /\ ToSet(dirs) = {p}
    BY <2>2 DEF ToSet
  <2>. QED
    BY <2>3 DEF p
<1>3. Stable \subseteq live
  BY DEF Init, Stable
<1>4. TypeOK
  <2>1. /\ tree \in Trees /\ live \in SUBSET Node
        /\ op \in {"walk", "rmdir"} /\ cross \in BOOLEAN /\ (op = "rmdir" => ~cross)
        /\ pc = "inode" /\ dir = <<>> /\ names = {} /\ seen = {} /\ result = FALSE
    BY DEF Init
  <2>2. acc_files \in Seq(Path) /\ acc_dirs \in Seq(Path) /\ list \in Seq(Path)
    BY DEF Init
  <2>3. walks \in [Dir -> Nat]
    BY DEF Init
  <2>. QED
    BY <1>2, <2>1, <2>2, <2>3 DEF TypeOK
<1>5. pc = "inode"
  BY DEF Init
<1>. QED
  BY <1>1, <1>2, <1>3, <1>4, <1>5 DEF BaseInv, PathsOK, Walking

\* The path on top of the stack leads to a directory.
LEMMA TopOfStack ==
  ASSUME BaseInv, pc = "inode", dirs # <<>>
  PROVE  LET path == Last(dirs) IN
         /\ Front(dirs) \in Seq(Path)
         /\ ToSet(dirs) = ToSet(Front(dirs)) \cup {path}
         /\ path \in Path /\ Valid(path)
         /\ stat(path) = Followed(Last(path)) /\ stat(path) \in Dir
<1>1. dirs \in Seq(Path) /\ tree \in Trees /\ Stable \subseteq live
  BY DEF BaseInv, TypeOK, PathsOK, Walking
<1>2. /\ Front(dirs) \in Seq(Path) /\ Last(dirs) \in Path
      /\ ToSet(dirs) = ToSet(Front(dirs)) \cup {Last(dirs)}
  BY <1>1, FrontFacts
<1>3. Valid(Last(dirs))
  BY <1>2 DEF BaseInv, PathsOK
<1>. QED
  BY <1>1, <1>2, <1>3, StatOfPath

LEMMA BaseInode == ASSUME BaseInv, Inode PROVE BaseInv'
<1>1. /\ Front(dirs) \in Seq(Path)
      /\ ToSet(dirs) = ToSet(Front(dirs)) \cup {Last(dirs)}
      /\ Last(dirs) \in Path /\ Valid(Last(dirs))
      /\ stat(Last(dirs)) \in Dir
  BY TopOfStack DEF Inode
<1>2. pc' \in {"inode", "dir"} /\ (pc' = "dir" => dir' = Last(dirs))
  BY DEF Inode
<1>3. seen' \in SUBSET Dir
  <2>1. CASE already_seen(stat(Last(dirs)))
    BY <2>1 DEF already_seen, BaseInv, TypeOK
  <2>2. CASE first_seen(stat(Last(dirs)))
    BY <1>1, <2>2 DEF first_seen, BaseInv, TypeOK
  <2>. QED
    BY <2>1, <2>2 DEF Inode
<1>4. TypeOK'
  BY <1>1, <1>2, <1>3 DEF BaseInv, TypeOK, Inode, fs
<1>5. PathsOK'
  BY <1>1, <1>2 DEF BaseInv, PathsOK, Walking, Inode, fs, Valid, Where, Followed
<1>. QED
  BY <1>4, <1>5 DEF BaseInv

\* What a directory that is visited contains.
LEMMA ChildrenOfCurrent ==
  ASSUME BaseInv, pc \in {"dir", "stat"}
  PROVE  /\ tree \in Trees /\ Stable \subseteq live /\ Valid(dir)
         /\ stat(dir) = Current /\ Current \in Dir
         /\ fs_dir(dir) = {n \in live : n # Top /\ tree.parent[n] = Current}
<1>1. tree \in Trees /\ Stable \subseteq live /\ Valid(dir)
  BY DEF BaseInv, TypeOK, PathsOK, Walking
<1>2. stat(dir) = Current /\ Current \in Dir
  BY <1>1, StatOfPath DEF Current
<1>. QED
  BY <1>1, <1>2 DEF fs_dir, Children

LEMMA BaseListDir == ASSUME BaseInv, ListDir PROVE BaseInv'
<1>1. /\ Stable \subseteq live /\ Valid(dir) /\ stat(dir) = Current
      /\ names' = {n \in live : n # Top /\ tree.parent[n] = Current}
  BY ChildrenOfCurrent DEF ListDir
<1>2. walks' \in [Dir -> Nat]
  BY DEF BaseInv, TypeOK, ListDir
<1>3. pc' \in {"inode", "stat"}
  BY DEF ListDir
<1>4. TypeOK'
  BY <1>1, <1>2, <1>3 DEF BaseInv, TypeOK, ListDir, fs
<1>5. PathsOK'
  BY <1>1, <1>3 DEF BaseInv, PathsOK, Walking, ListDir, fs, Valid, Where, Followed, Current
<1>. QED
  BY <1>4, <1>5 DEF BaseInv

\* stat on a name of the directory.
LEMMA StatFacts ==
  ASSUME BaseInv, NEW n \in Node, Stat(n)
  PROVE  LET name == Append(dir, n) IN
         /\ n \in Node \ {Top} /\ tree.parent[n] = Current /\ Current \in Dir
         /\ dir \in Path /\ Valid(dir) /\ tree \in Trees /\ Stable \subseteq live
         /\ name \in Path /\ Last(name) = n /\ Front(name) = dir
         /\ Len(name) = Len(dir) + 1
         /\ stat(name) = IF {n, Followed(n)} \subseteq live THEN Followed(n) ELSE Nothing
         /\ \/ /\ Followed(n) \in Dir /\ stat(name) = Followed(n) /\ Valid(name)
               /\ dirs' = Append(dirs, name) /\ acc_dirs' = Append(acc_dirs, name)
               /\ dirs' \in Seq(Path) /\ acc_dirs' \in Seq(Path)
               /\ ToSet(dirs') = ToSet(dirs) \cup {name}
               /\ ToSet(acc_dirs') = ToSet(acc_dirs) \cup {name}
               /\ UNCHANGED acc_files
            \/ /\ Followed(n) \in File /\ stat(name) = Followed(n)
               /\ acc_files' = Append(acc_files, name)
               /\ acc_files' \in Seq(Path)
               /\ ToSet(acc_files') = ToSet(acc_files) \cup {name}
               /\ UNCHANGED <<dirs, acc_dirs>>
            \/ /\ Followed(n) \notin Dir /\ ~ ({n, Followed(n)} \subseteq live)
               /\ UNCHANGED <<dirs, acc_dirs, acc_files>>
<1>. DEFINE name == Append(dir, n)
<1>1. /\ tree \in Trees /\ Stable \subseteq live /\ Valid(dir) /\ Current \in Dir
      /\ live \subseteq Node
      /\ dirs \in Seq(Path) /\ acc_dirs \in Seq(Path) /\ acc_files \in Seq(Path)
  BY ChildrenOfCurrent DEF Stat, BaseInv, TypeOK
<1>2. n \in Node \ {Top} /\ tree.parent[n] = Current
  BY DEF Stat, BaseInv, PathsOK
<1>3. /\ name \in Path /\ Last(name) = n /\ Front(name) = dir
      /\ Len(name) = Len(dir) + 1
      /\ stat(name) = IF {n, Followed(n)} \subseteq live THEN Followed(n) ELSE Nothing
      /\ Followed(n) \in Dir => Valid(name) /\ stat(name) = Followed(n)
  BY <1>1, <1>2, StatOfName DEF Current
<1>4. dir \in Path
  BY <1>1 DEF Valid
<1>5. Nothing \notin Node /\ Dir \subseteq Node /\ File \subseteq Node /\ Dir \cap File = {}
  BY WalkAssumption DEF Node
<1>6. \/ /\ stat(name) \in Dir
         /\ dirs' = Append(dirs, name) /\ acc_dirs' = Append(acc_dirs, name)
         /\ UNCHANGED acc_files
      \/ /\ stat(name) \in File
         /\ acc_files' = Append(acc_files, name) /\ UNCHANGED <<dirs, acc_dirs>>
      \/ /\ stat(name) = Nothing
         /\ UNCHANGED <<dirs, acc_dirs, acc_files>>
  BY DEF Stat
<1>. HIDE DEF name
<1>7. CASE /\ stat(name) \in Dir
           /\ dirs' = Append(dirs, name) /\ acc_dirs' = Append(acc_dirs, name)
           /\ UNCHANGED acc_files
  <2>1. Followed(n) \in Dir
    BY <1>3, <1>5, <1>7
  <2>2. /\ dirs' \in Seq(Path) /\ acc_dirs' \in Seq(Path)
        /\ ToSet(dirs') = ToSet(dirs) \cup {name}
        /\ ToSet(acc_dirs') = ToSet(acc_dirs) \cup {name}
    BY <1>1, <1>3, <1>7, AppendFacts
  <2>. QED
    BY <1>1, <1>2, <1>3, <1>4, <1>7, <2>1, <2>2 DEF name
<1>8. CASE /\ stat(name) \in File
           /\ acc_files' = Append(acc_files, name) /\ UNCHANGED <<dirs, acc_dirs>>
  <2>1. Followed(n) \in File /\ stat(name) = Followed(n)
    BY <1>3, <1>5, <1>8
  <2>2. /\ acc_files' \in Seq(Path)
        /\ ToSet(acc_files') = ToSet(acc_files) \cup {name}
    BY <1>1, <1>3, <1>8, AppendFacts
  <2>. QED
    BY <1>1, <1>2, <1>3, <1>4, <1>8, <2>1, <2>2 DEF name
<1>9. CASE /\ stat(name) = Nothing
           /\ UNCHANGED <<dirs, acc_dirs, acc_files>>
  <2>1. Followed(n) \notin Dir
    BY <1>3, <1>5, <1>9
  <2>2. ~ ({n, Followed(n)} \subseteq live)
    BY <1>1, <1>3, <1>5, <1>9
  <2>. QED
    BY <1>1, <1>2, <1>3, <1>4, <1>9, <2>1, <2>2 DEF name
<1>. QED
  BY <1>6, <1>7, <1>8, <1>9

LEMMA BaseStat == ASSUME BaseInv, NEW n \in Node, Stat(n) PROVE BaseInv'
<1>1. /\ dirs' \in Seq(Path) /\ acc_dirs' \in Seq(Path) /\ acc_files' \in Seq(Path)
      /\ \A path \in ToSet(dirs') : Valid(path)
  <2>1. \A path \in ToSet(dirs) : Valid(path)
    BY DEF BaseInv, PathsOK
  <2>2. dirs \in Seq(Path) /\ acc_dirs \in Seq(Path) /\ acc_files \in Seq(Path)
    BY DEF BaseInv, TypeOK
  <2>. QED
    BY <2>1, <2>2, StatFacts
<1>2. pc' \in {"inode", "stat"} /\ pc = "stat" /\ names' = names \ {n}
  BY DEF Stat
<1>3. TypeOK'
  BY <1>1, <1>2 DEF BaseInv, TypeOK, Stat, fs
<1>4. PathsOK'
  BY <1>1, <1>2 DEF BaseInv, PathsOK, Walking, Stat, fs, Valid, Where, Followed, Current
<1>. QED
  BY <1>3, <1>4 DEF BaseInv

LEMMA ReverseFacts ==
  ASSUME NEW S, NEW s \in Seq(S)
  PROVE  /\ Reverse(s) \in Seq(S) /\ Len(Reverse(s)) = Len(s)
         /\ \A i \in 1 .. Len(s) : Reverse(s)[i] = s[(Len(s) - i) + 1]
<1>1. Len(s) \in Nat /\ \A i \in 1 .. Len(s) : s[i] \in S
  OBVIOUS
<1>. DEFINE k == Len(s)
            r == [i \in 1 .. k |-> s[(k - i) + 1]]
<1>2. Reverse(s) = r
  BY DEF Reverse
<1>. HIDE DEF k
<1>3. r \in [1 .. k -> S]
  BY <1>1 DEF k
<1>4. r \in Seq(S) /\ Len(r) = k
  BY <1>1, <1>3 DEF k
<1>5. \A i \in 1 .. k : r[i] = s[(k - i) + 1]
  OBVIOUS
<1>. HIDE DEF r
<1>. QED
  BY <1>2, <1>4, <1>5 DEF k

LEMMA BaseEndOfWalk == ASSUME BaseInv, EndOfWalk PROVE BaseInv'
<1>1. acc_files \in Seq(Path) /\ acc_dirs \in Seq(Path)
  BY DEF BaseInv, TypeOK
<1>2. Reverse(acc_dirs) \in Seq(Path)
  BY <1>1, ReverseFacts
<1>3. \A s, t \in Seq(Path) : s \o t \in Seq(Path)
  OBVIOUS
<1>4. list' \in Seq(Path)
  BY <1>1, <1>2, <1>3 DEF EndOfWalk
<1>5. dirs' = <<>> /\ pc = "inode" /\ (pc' = "end" \/ (pc' = "rm" /\ op = "rmdir"))
  BY DEF EndOfWalk
<1>6. TypeOK'
  BY <1>4, <1>5 DEF BaseInv, TypeOK, EndOfWalk, fs
<1>7. PathsOK'
  BY <1>5, EmptyToSet DEF BaseInv, PathsOK, Walking, EndOfWalk, fs
<1>. QED
  BY <1>6, <1>7 DEF BaseInv

LEMMA BaseRemoveNext == ASSUME BaseInv, RemoveNext PROVE BaseInv'
<1>1. list \in Seq(Path) /\ list # <<>> /\ list' = Tail(list)
  BY DEF RemoveNext, BaseInv, TypeOK
<1>2. list' \in Seq(Path)
  BY <1>1
<1>3. live' \in SUBSET Node /\ UNCHANGED tree
  BY DEF RemoveNext, fs_remove, BaseInv, TypeOK
<1>4. dirs' = <<>> /\ pc = "rm" /\ pc' = "rm" /\ op = "rmdir" /\ op' = "rmdir"
  BY DEF RemoveNext, BaseInv, PathsOK, Walking
<1>5. TypeOK'
  BY <1>2, <1>3, <1>4 DEF BaseInv, TypeOK, RemoveNext
<1>6. PathsOK'
  BY <1>4, EmptyToSet DEF PathsOK, Walking
<1>. QED
  BY <1>5, <1>6 DEF BaseInv

LEMMA BaseRemoveRoot == ASSUME BaseInv, RemoveRoot PROVE BaseInv'
<1>1. live' \in SUBSET Node /\ UNCHANGED tree
  BY DEF RemoveRoot, fs_remove, BaseInv, TypeOK
<1>2. result' \in BOOLEAN
  BY DEF RemoveRoot, Removable
<1>3. dirs' = <<>> /\ pc = "rm" /\ pc' = "end" /\ op = "rmdir" /\ op' = "rmdir"
  BY DEF RemoveRoot, BaseInv, PathsOK, Walking
<1>4. TypeOK'
  BY <1>1, <1>2, <1>3 DEF BaseInv, TypeOK, RemoveRoot
<1>5. PathsOK'
  BY <1>3, EmptyToSet DEF PathsOK, Walking
<1>. QED
  BY <1>4, <1>5 DEF BaseInv

\* What the other processes leave alone.
Program == <<tree, op, cross, pc, dirs, dir, names, devs, seen, acc_files,
             acc_dirs, list, result, walks>>

LEMMA OthersFacts ==
  ASSUME BaseInv, NEW n \in Node, Make(n) \/ Delete(n)
  PROVE  /\ UNCHANGED Program /\ pc # "end" /\ live' \in SUBSET Node
         /\ \/ n \in Fresh /\ live' = live \cup {n}
            \/ n \in Doomed /\ live' = live \ {n}
         /\ Stable \subseteq live => Stable \subseteq live'
<1>1. /\ UNCHANGED Program /\ pc # "end" /\ live \in SUBSET Node
      /\ \/ n \in Fresh /\ live' = live \cup {n}
         \/ n \in Doomed /\ live' = live \ {n}
  BY DEF Make, Delete, Program, BaseInv, TypeOK
<1>. QED
  BY <1>1 DEF Stable

LEMMA BaseOthers == ASSUME BaseInv, NEW n \in Node, Make(n) \/ Delete(n) PROVE BaseInv'
<1>1. /\ UNCHANGED Program /\ live' \in SUBSET Node
      /\ Stable \subseteq live => Stable \subseteq live'
  BY OthersFacts
<1>2. TypeOK'
  BY <1>1 DEF BaseInv, TypeOK, Program
<1>3. PathsOK'
  BY <1>1 DEF BaseInv, PathsOK, Walking, Program, Valid, Where, Followed, Current
<1>. QED
  BY <1>2, <1>3 DEF BaseInv

LEMMA BaseIdle == ASSUME BaseInv, UNCHANGED vars PROVE BaseInv'
<1>1. UNCHANGED Program /\ UNCHANGED live
  BY DEF vars, Program
<1>2. TypeOK'
  BY <1>1 DEF BaseInv, TypeOK, Program
<1>3. PathsOK'
  BY <1>1 DEF BaseInv, PathsOK, Walking, Program, Valid, Where, Followed, Current
<1>. QED
  BY <1>2, <1>3 DEF BaseInv

LEMMA BaseStep == ASSUME BaseInv, [Next]_vars PROVE BaseInv'
<1>1. CASE Inode
  BY <1>1, BaseInode
<1>2. CASE ListDir
  BY <1>2, BaseListDir
<1>3. CASE \E n \in Node : Stat(n)
  BY <1>3, BaseStat
<1>4. CASE EndOfWalk
  BY <1>4, BaseEndOfWalk
<1>5. CASE RemoveNext
  BY <1>5, BaseRemoveNext
<1>6. CASE RemoveRoot
  BY <1>6, BaseRemoveRoot
<1>7. CASE \E n \in Node : Make(n) \/ Delete(n)
  BY <1>7, BaseOthers
<1>8. CASE UNCHANGED vars
  BY <1>8, BaseIdle
<1>. QED
  BY <1>1, <1>2, <1>3, <1>4, <1>5, <1>6, <1>7, <1>8 DEF Next, Step

\* The variables keep their types.
THEOREM TypeCorrect == Spec => []TypeOK
<1>1. BaseInv => TypeOK
  BY DEF BaseInv
<1>. QED
  BY BaseInit, BaseStep, <1>1, PTL DEF Spec

-----------------------------------------------------------------------------
(* How many times directories are listed.                                  *)

\* The directories that mark their device but not their inode: on the device
\* of Root, Root only.
Unmarked(d) == tree.dev[d] \in devs /\ (tree.dev[d] = tree.dev[Root] => d = Root)

\* A directory is listed, or is going to be, once when it marks its device and
\* once when it marks its inode.
CountsOK ==
  /\ (dirs = <<<<Root>>>> /\ pc = "inode") \/ tree.dev[Root] \in devs
  /\ \A d \in Dir :
       walks[d] + (IF pc = "dir" /\ d = Current THEN 1 ELSE 0)
         <= (IF d \in seen THEN 1 ELSE 0) + (IF Unmarked(d) THEN 1 ELSE 0)

LEMMA CountsInit == ASSUME Init PROVE CountsOK
<1>1. \A d \in Dir : walks[d] = 0
  BY DEF Init
<1>2. pc = "inode" /\ dirs = <<<<Root>>>>
  BY DEF Init
<1>. QED
  BY <1>1, <1>2 DEF CountsOK

\* The directory that is going to be visited.
LEMMA InodeFacts ==
  ASSUME BaseInv, Inode
  PROVE  LET n == stat(Last(dirs)) IN
         /\ n \in Dir /\ n # Nothing /\ pc = "inode" /\ dirs # <<>> /\ dirs' = Front(dirs)
         /\ n = Followed(Last(Last(dirs))) /\ Valid(Last(dirs))
         /\ dirs' \in Seq(Path) /\ ToSet(dirs) = ToSet(dirs') \cup {Last(dirs)}
         /\ \/ already_seen(n) /\ UNCHANGED <<pc, dir>>
            \/ first_seen(n) /\ pc' = "dir" /\ dir' = Last(dirs) /\ Current' = n
         /\ UNCHANGED <<fs, op, cross, names, acc_files, acc_dirs, list, result, walks>>
<1>1. LET n == stat(Last(dirs)) IN
         /\ n \in Dir /\ pc = "inode" /\ dirs # <<>> /\ dirs' = Front(dirs)
         /\ n = Followed(Last(Last(dirs))) /\ Valid(Last(dirs))
         /\ dirs' \in Seq(Path) /\ ToSet(dirs) = ToSet(dirs') \cup {Last(dirs)}
  BY TopOfStack DEF Inode
<1>2. Nothing \notin Dir
  BY WalkAssumption DEF Node
<1>3. ASSUME dir' = Last(dirs), UNCHANGED fs PROVE Current' = stat(Last(dirs))
  BY <1>1, <1>3 DEF Current, Followed, fs
<1>. QED
  BY <1>1, <1>2, <1>3 DEF Inode

LEMMA CountsInode == ASSUME BaseInv, CountsOK, Inode PROVE CountsOK'
<1>0. PICK n \in Dir : n = stat(Last(dirs))
  BY InodeFacts
<1>1. /\ n \in Dir /\ n # Nothing /\ pc = "inode" /\ UNCHANGED <<tree, walks>>
      /\ n = Followed(Last(Last(dirs)))
      /\ \/ already_seen(n) /\ UNCHANGED <<pc, dir>>
         \/ first_seen(n) /\ pc' = "dir" /\ dir' = Last(dirs) /\ Current' = n
  BY <1>0, InodeFacts DEF fs
<1>2. walks \in [Dir -> Nat] /\ tree \in Trees
  BY DEF BaseInv, TypeOK
<1>3. ASSUME dirs = <<<<Root>>>> PROVE n = Root
  <2>1. Last(dirs) = <<Root>> /\ Last(<<Root>>) = Root
    BY <1>3 DEF Last
  <2>. QED
    BY <1>1, <1>2, <2>1, TreeFacts, WalkAssumption
<1>4. n = Root \/ tree.dev[Root] \in devs
  BY <1>3 DEF CountsOK
<1>5. \A d \in Dir : walks[d] <= (IF d \in seen THEN 1 ELSE 0) + (IF Unmarked(d) THEN 1 ELSE 0)
  <2>1. \A d \in Dir : walks[d] \in Nat
    BY <1>2
  <2>. QED
    BY <1>1, <2>1 DEF CountsOK
<1>6. CASE already_seen(n) /\ UNCHANGED <<pc, dir>>
  <2>1. UNCHANGED <<devs, seen>> /\ tree.dev[Root] \in devs
    BY <1>1, <1>4, <1>6 DEF already_seen
  <2>. QED
    BY <1>1, <1>5, <1>6, <2>1 DEF CountsOK, Unmarked
<1>7. CASE /\ first_seen(n) /\ pc' = "dir" /\ Current' = n
  <2>1. CASE /\ tree.dev[n] \notin devs
             /\ devs' = devs \cup {tree.dev[n]} /\ UNCHANGED seen
    <3>1. tree.dev[Root] \in devs'
      BY <1>4, <2>1
    <3>2. ~Unmarked(n) /\ Unmarked(n)'
      <4>1. tree.dev[n] = tree.dev[Root] => n = Root
        BY <1>4, <2>1
      <4>. QED
        BY <1>1, <2>1, <4>1 DEF Unmarked
    <3>3. \A d \in Dir : Unmarked(d) => Unmarked(d)'
      BY <1>1, <2>1 DEF Unmarked
    <3>. QED
      BY <1>1, <1>2, <1>5, <1>7, <2>1, <3>1, <3>2, <3>3 DEF CountsOK
  <2>2. CASE /\ tree.dev[n] \in devs /\ n \notin seen
             /\ seen' = seen \cup {n} /\ UNCHANGED devs
    <3>1. tree.dev[Root] \in devs
      BY <1>4, <2>2
    <3>2. \A d \in Dir : Unmarked(d)' <=> Unmarked(d)
      BY <1>1, <2>2 DEF Unmarked
    <3>. QED
      BY <1>1, <1>2, <1>5, <1>7, <2>2, <3>1, <3>2 DEF CountsOK
  <2>. QED
    BY <1>7, <2>1, <2>2 DEF first_seen
<1>. QED
  BY <1>1, <1>6, <1>7

LEMMA CountsListDir == ASSUME BaseInv, CountsOK, ListDir PROVE CountsOK'
<1>1. stat(dir) = Current /\ pc = "dir" /\ pc' # "dir"
  BY ChildrenOfCurrent DEF ListDir
<1>2. \A d \in Dir : walks'[d] = walks[d] + IF d = Current THEN 1 ELSE 0
  BY <1>1 DEF ListDir
<1>3. UNCHANGED <<tree, devs, seen>>
  BY DEF ListDir, fs
<1>4. tree.dev[Root] \in devs
  BY <1>1 DEF CountsOK
<1>5. \A d \in Dir : Unmarked(d)' <=> Unmarked(d)
  BY <1>3 DEF Unmarked
<1>6. \A d \in Dir : walks[d] \in Nat
  BY DEF BaseInv, TypeOK
<1>. QED
  BY <1>1, <1>2, <1>3, <1>4, <1>5, <1>6 DEF CountsOK

\* Once devices are marked, the count is a matter of the steps above.
LEMMA CountsRest ==
  ASSUME CountsOK, UNCHANGED <<tree, devs, seen, walks>>,
         \/ pc # "dir" /\ pc' # "dir"
         \/ UNCHANGED <<pc, dir>>,
         \/ UNCHANGED <<pc, dirs>>
         \/ pc # "inode" \/ dirs = <<>>
  PROVE  CountsOK'
<1>1. \A d \in Dir : Unmarked(d)' <=> Unmarked(d)
  BY DEF Unmarked
<1>2. \A d \in Dir : (pc' = "dir" /\ d = Current') <=> (pc = "dir" /\ d = Current)
  BY DEF Current, Followed
<1>3. (dirs' = <<<<Root>>>> /\ pc' = "inode") \/ tree'.dev[Root] \in devs'
  BY DEF CountsOK
<1>. QED
  BY <1>1, <1>2, <1>3 DEF CountsOK

LEMMA CountsStep == ASSUME BaseInv, CountsOK, [Next]_vars PROVE CountsOK'
<1>1. CASE Inode
  BY <1>1, CountsInode
<1>2. CASE ListDir
  BY <1>2, CountsListDir
<1>3. CASE \E n \in Node : Stat(n)
  BY <1>3, CountsRest DEF Stat, fs
<1>4. CASE EndOfWalk
  BY <1>4, CountsRest DEF EndOfWalk, fs
<1>5. CASE RemoveNext
  BY <1>5, CountsRest DEF RemoveNext, fs_remove
<1>6. CASE RemoveRoot
  BY <1>6, CountsRest DEF RemoveRoot, fs_remove
<1>7. CASE \E n \in Node : Make(n) \/ Delete(n)
  BY <1>7, CountsRest DEF Make, Delete
<1>8. CASE UNCHANGED vars
  BY <1>8, CountsRest DEF vars, fs
<1>. QED
  BY <1>1, <1>2, <1>3, <1>4, <1>5, <1>6, <1>7, <1>8 DEF Next, Step

\* No directory is listed twice, but for the first one of another device, and
\* Root.
THEOREM WalkListsOnce == Spec => []WalkedOnce
<1>1. BaseInv /\ CountsOK => WalkedOnce
  <2>. SUFFICES ASSUME BaseInv, CountsOK, NEW d \in Dir
                PROVE  /\ walks[d] <= 2
                       /\ walks[d] = 2 /\ tree.dev[d] = tree.dev[Root] => d = Root
    BY DEF WalkedOnce
  <2>1. walks[d] \in Nat
    BY DEF BaseInv, TypeOK
  <2>2. walks[d] <= (IF d \in seen THEN 1 ELSE 0) + (IF Unmarked(d) THEN 1 ELSE 0)
    BY <2>1 DEF CountsOK
  <2>. QED
    BY <2>1, <2>2 DEF Unmarked
<1>2. Init => CountsOK
  BY CountsInit
<1>3. BaseInv /\ CountsOK /\ [Next]_vars => CountsOK'
  BY CountsStep
<1>. QED
  BY BaseInit, BaseStep, <1>1, <1>2, <1>3, PTL DEF Spec

-----------------------------------------------------------------------------
(* What a walk finds.                                                      *)

LEMMA VisitedIsClosed ==
  ASSUME NEW S
  PROVE  /\ Root \in Visited(S)
         /\ \A n \in S \ {Top} :
              /\ tree.parent[n] \in Visited(S) /\ Followed(n) \in Dir \cap S
              /\ cross \/ tree.dev[Followed(n)] = tree.dev[Root]
              => Followed(n) \in Visited(S)
  BY WalkAssumption DEF Visited, FromRoot

LEMMA VisitedIsLeast ==
  ASSUME NEW S, NEW D \in SUBSET Dir, Root \in D,
         \A n \in S \ {Top} :
           /\ tree.parent[n] \in D /\ Followed(n) \in Dir \cap S
           /\ cross \/ tree.dev[Followed(n)] = tree.dev[Root]
           => Followed(n) \in D
  PROVE  Visited(S) \subseteq D
  BY DEF Visited, FromRoot

LEMMA VisitedStays ==
  ASSUME NEW S, UNCHANGED <<tree, cross>>
  PROVE  Visited(S)' = Visited(S) /\ Found(S)' = Found(S)
<1>1. Visited(S)' = Visited(S)
  BY DEF Visited, FromRoot, Followed
<1>. QED
  BY <1>1 DEF Found, Followed

\* Only entries of the directories that are reached are found.
FoundOnly ==
  /\ \A path \in ToSet(acc_files) \cup ToSet(acc_dirs) : Last(path) \in Found(Node)
  /\ \A path \in ToSet(dirs) : Last(path) \in Found(Node) \cup {Root}
  /\ pc \in {"dir", "stat"} => Current \in Visited(Node)

LEMMA FoundOnlyInit == ASSUME Init PROVE FoundOnly
<1>1. pc = "inode" /\ ToSet(acc_files) = {} /\ ToSet(acc_dirs) = {}
  BY EmptyToSet DEF Init
<1>2. ToSet(dirs) = {<<Root>>} /\ Last(<<Root>>) = Root
  BY DEF Init, ToSet, Last
<1>. QED
  BY <1>1, <1>2 DEF FoundOnly

LEMMA FoundOnlyInode == ASSUME BaseInv, FoundOnly, Inode PROVE FoundOnly'
<1>0. PICK n \in Dir : n = stat(Last(dirs))
  BY InodeFacts
<1>1. /\ n # Nothing /\ n = Followed(Last(Last(dirs)))
      /\ ToSet(dirs) = ToSet(dirs') \cup {Last(dirs)}
      /\ \/ UNCHANGED <<pc, dir>>
         \/ first_seen(n) /\ pc' = "dir" /\ Current' = n
      /\ pc = "inode" /\ UNCHANGED <<tree, cross, acc_files, acc_dirs>>
  BY <1>0, InodeFacts DEF fs
<1>2. Visited(Node)' = Visited(Node) /\ Found(Node)' = Found(Node)
  BY <1>1, VisitedStays
<1>3. tree \in Trees
  BY DEF BaseInv, TypeOK
<1>4. ASSUME first_seen(n) PROVE n \in Visited(Node)
  <2>1. cross \/ tree.dev[n] = tree.dev[Root]
    BY <1>4 DEF first_seen
  <2>2. Last(Last(dirs)) \in Found(Node) \cup {Root}
    BY <1>1 DEF FoundOnly
  <2>3. CASE Last(Last(dirs)) = Root
    BY <1>1, <1>3, <2>3, TreeFacts, WalkAssumption, VisitedIsClosed
  <2>4. CASE Last(Last(dirs)) \in Found(Node)
    <3>1. /\ Last(Last(dirs)) \in Node \ {Top}
          /\ tree.parent[Last(Last(dirs))] \in Visited(Node)
          /\ n \in Node
      BY <1>1, <2>4 DEF Found
    <3>. QED
      BY <1>1, <2>1, <3>1, VisitedIsClosed
  <2>. QED
    BY <2>2, <2>3, <2>4
<1>. QED
  BY <1>1, <1>2, <1>4 DEF FoundOnly

LEMMA FoundOnlyStat == ASSUME BaseInv, FoundOnly, NEW n \in Node, Stat(n) PROVE FoundOnly'
<1>1. /\ UNCHANGED <<tree, cross, dir>> /\ pc = "stat" /\ pc' \in {"inode", "stat"}
  BY DEF Stat, fs
<1>2. Visited(Node)' = Visited(Node) /\ Found(Node)' = Found(Node) /\ Current' = Current
  BY <1>1, VisitedStays DEF Current, Followed
<1>3. n \in Node \ {Top} /\ tree.parent[n] \in Visited(Node) /\ Last(Append(dir, n)) = n
  BY <1>1, StatFacts DEF FoundOnly
<1>4. Followed(n) \in Dir \cup File => n \in Found(Node)
  BY <1>3 DEF Found, Node
<1>5. \/ /\ Followed(n) \in Dir /\ UNCHANGED acc_files
         /\ ToSet(dirs') = ToSet(dirs) \cup {Append(dir, n)}
         /\ ToSet(acc_dirs') = ToSet(acc_dirs) \cup {Append(dir, n)}
      \/ /\ Followed(n) \in File /\ UNCHANGED <<dirs, acc_dirs>>
         /\ ToSet(acc_files') = ToSet(acc_files) \cup {Append(dir, n)}
      \/ UNCHANGED <<dirs, acc_dirs, acc_files>>
  BY StatFacts
<1>6. /\ \A path \in ToSet(acc_files') \cup ToSet(acc_dirs') : Last(path) \in Found(Node)
      /\ \A path \in ToSet(dirs') : Last(path) \in Found(Node) \cup {Root}
  BY <1>3, <1>4, <1>5 DEF FoundOnly
<1>. QED
  BY <1>1, <1>2, <1>6 DEF FoundOnly

LEMMA FoundOnlyRest ==
  ASSUME FoundOnly, UNCHANGED <<tree, cross, dirs, acc_files, acc_dirs>>,
         \/ pc' \notin {"dir", "stat"}
         \/ pc \in {"dir", "stat"} /\ UNCHANGED dir
  PROVE  FoundOnly'
<1>1. Visited(Node)' = Visited(Node) /\ Found(Node)' = Found(Node)
  BY VisitedStays
<1>2. UNCHANGED dir => Current' = Current
  BY DEF Current, Followed
<1>. QED
  BY <1>1, <1>2 DEF FoundOnly

LEMMA FoundOnlyStep == ASSUME BaseInv, FoundOnly, [Next]_vars PROVE FoundOnly'
<1>1. CASE Inode
  BY <1>1, FoundOnlyInode
<1>2. CASE ListDir
  BY <1>2, FoundOnlyRest DEF ListDir, fs
<1>3. CASE \E n \in Node : Stat(n)
  BY <1>3, FoundOnlyStat
<1>4. CASE EndOfWalk
  BY <1>4, FoundOnlyRest DEF EndOfWalk, fs
<1>5. CASE RemoveNext
  BY <1>5, FoundOnlyRest DEF RemoveNext, fs_remove
<1>6. CASE RemoveRoot
  BY <1>6, FoundOnlyRest DEF RemoveRoot, fs_remove
<1>7. CASE \E n \in Node : Make(n) \/ Delete(n)
  BY <1>7, FoundOnlyRest DEF Make, Delete
<1>8. CASE UNCHANGED vars
  BY <1>8, FoundOnlyRest DEF vars, fs
<1>. QED
  BY <1>1, <1>2, <1>3, <1>4, <1>5, <1>6, <1>7, <1>8 DEF Next, Step

-----------------------------------------------------------------------------
(* Nothing is forgotten.                                                   *)

\* What has been found, the directories it leads to, and those still to visit.
Accumulated == {Last(path) : path \in ToSet(acc_dirs) \cup ToSet(acc_files)}
Reached == {Root} \cup {Followed(Last(path)) : path \in ToSet(acc_dirs)}
Pending == {Followed(Last(path)) : path \in ToSet(dirs)}

\* The node exists since the beginning, and leads to itself or to a node that
\* stays.
Lasting(n) ==
  /\ n \notin Fresh /\ (n \in Doomed => n \in live)
  /\ Followed(n) = n \/ Followed(n) \in Stable

FoundAll ==
  /\ \A n \in Node \ {Top} :
       walks[tree.parent[n]] > 0 /\ Lasting(n) =>
         n \in Accumulated \/ (pc = "stat" /\ n \in names)
  /\ \A d \in Reached :
       cross \/ tree.dev[d] = tree.dev[Root] =>
         walks[d] > 0 \/ (pc = "dir" /\ d = Current) \/ d \in Pending
  /\ \A d \in seen : walks[d] > 0 \/ (pc = "dir" /\ d = Current)
  /\ \A path \in ToSet(acc_dirs) : Followed(Last(path)) \in Dir
  /\ \A path \in ToSet(acc_files) : Followed(Last(path)) \in File

LEMMA FoundAllInit == ASSUME Init PROVE FoundAll
<1>1. /\ ToSet(acc_files) = {} /\ ToSet(acc_dirs) = {} /\ seen = {}
      /\ walks = [d \in Dir |-> 0] /\ tree \in Trees
  BY EmptyToSet DEF Init
<1>2. ToSet(dirs) = {<<Root>>} /\ Last(<<Root>>) = Root
  BY DEF Init, ToSet, Last
<1>3. \A n \in Node \ {Top} : ~ (walks[tree.parent[n]] > 0)
  <2>1. \A d \in Dir : walks[d] = 0
    BY <1>1
  <2>. QED
    BY <1>1, <2>1, TreeFacts
<1>4. Root \in Pending /\ Reached = {Root}
  <2>1. Followed(Root) = Root
    BY <1>1, TreeFacts, WalkAssumption
  <2>2. Pending = {Followed(Root)}
    BY <1>2 DEF Pending
  <2>. QED
    BY <1>1, <2>1, <2>2 DEF Reached
<1>. QED
  BY <1>1, <1>3, <1>4 DEF FoundAll

LEMMA FoundAllInode == ASSUME BaseInv, FoundAll, Inode PROVE FoundAll'
<1>0. PICK n \in Dir : n = stat(Last(dirs))
  BY InodeFacts
<1>1. /\ n # Nothing /\ n = Followed(Last(Last(dirs)))
      /\ ToSet(dirs) = ToSet(dirs') \cup {Last(dirs)}
      /\ \/ already_seen(n) /\ UNCHANGED <<pc, dir>>
         \/ first_seen(n) /\ pc' = "dir" /\ Current' = n
      /\ pc = "inode"
      /\ UNCHANGED <<tree, live, cross, names, acc_files, acc_dirs, walks>>
  BY <1>0, InodeFacts DEF fs
<1>2. Accumulated' = Accumulated /\ Reached' = Reached /\ \A m \in Node : Lasting(m)' <=> Lasting(m)
  BY <1>1 DEF Accumulated, Reached, Lasting, Followed
<1>3. Pending = Pending' \cup {n}
  <2>1. Pending' = {Followed(Last(path)) : path \in ToSet(dirs')}
    BY <1>1 DEF Pending, Followed
  <2>. QED
    BY <1>1, <2>1 DEF Pending
<1>4. \A m \in Node \ {Top} : walks'[tree'.parent[m]] > 0 /\ Lasting(m)' => m \in Accumulated'
  BY <1>1, <1>2 DEF FoundAll
<1>5. \A d \in seen : walks[d] > 0
  BY <1>1 DEF FoundAll
<1>6. CASE already_seen(n) /\ UNCHANGED <<pc, dir>>
  <2>1. /\ UNCHANGED seen
        /\ (tree.dev[n] # tree.dev[Root] /\ ~cross) \/ n \in seen
    BY <1>1, <1>6 DEF already_seen
  <2>2. cross \/ tree.dev[n] = tree.dev[Root] => walks[n] > 0
    BY <1>5, <2>1
  <2>3. \A d \in Reached : cross \/ tree.dev[d] = tree.dev[Root] => walks[d] > 0 \/ d \in Pending'
    BY <1>1, <1>3, <2>2 DEF FoundAll
  <2>. QED
    BY <1>1, <1>2, <1>4, <1>5, <2>1, <2>3 DEF FoundAll, Followed
<1>7. CASE first_seen(n) /\ pc' = "dir" /\ Current' = n
  <2>1. seen' \subseteq seen \cup {n}
    BY <1>7 DEF first_seen
  <2>2. \A d \in Reached : cross \/ tree.dev[d] = tree.dev[Root] =>
          walks[d] > 0 \/ d = n \/ d \in Pending'
    BY <1>1, <1>3 DEF FoundAll
  <2>. QED
    BY <1>1, <1>2, <1>4, <1>5, <1>7, <2>1, <2>2 DEF FoundAll, Followed
<1>. QED
  BY <1>1, <1>6, <1>7

LEMMA FoundAllListDir == ASSUME BaseInv, FoundAll, ListDir PROVE FoundAll'
<1>1. /\ pc = "dir" /\ stat(dir) = Current /\ Current \in Dir
      /\ Stable \subseteq live /\ tree \in Trees
      /\ names' = {n \in live : n # Top /\ tree.parent[n] = Current}
      /\ pc' = IF names' = {} THEN "inode" ELSE "stat"
      /\ UNCHANGED <<tree, live, cross, dirs, seen, acc_files, acc_dirs>>
  BY ChildrenOfCurrent DEF ListDir, fs
<1>2. \A d \in Dir : walks[d] \in Nat /\ walks'[d] = walks[d] + IF d = Current THEN 1 ELSE 0
  BY <1>1 DEF ListDir, BaseInv, TypeOK
<1>3. walks'[Current] > 0 /\ \A d \in Dir : walks[d] > 0 => walks'[d] > 0
  BY <1>1, <1>2
<1>4. \A d \in Dir : walks'[d] > 0 => walks[d] > 0 \/ d = Current
  BY <1>1, <1>2
<1>5. /\ Accumulated' = Accumulated /\ Reached' = Reached /\ Pending' = Pending
      /\ \A m \in Node : Lasting(m)' <=> Lasting(m)
  BY <1>1 DEF Accumulated, Reached, Pending, Lasting, Followed
<1>6. ASSUME NEW n \in Node \ {Top}, walks'[tree.parent[n]] > 0, Lasting(n)
      PROVE  n \in Accumulated \/ (pc' = "stat" /\ n \in names')
  <2>1. CASE walks[tree.parent[n]] > 0
    BY <1>1, <1>6, <2>1 DEF FoundAll
  <2>2. CASE tree.parent[n] = Current
    <3>1. n \in live
      BY <1>1, <1>6 DEF Lasting, Stable
    <3>. QED
      BY <1>1, <2>2, <3>1
  <2>. QED
    BY <1>1, <1>4, <1>6, <2>1, <2>2, TreeFacts
<1>7. Reached \subseteq Dir /\ seen \subseteq Dir
  BY WalkAssumption DEF FoundAll, Reached, BaseInv, TypeOK
<1>8. \A d \in Reached :
       cross \/ tree.dev[d] = tree.dev[Root] => walks'[d] > 0 \/ d \in Pending
  BY <1>1, <1>3, <1>7 DEF FoundAll
<1>9. \A d \in seen : walks'[d] > 0
  BY <1>1, <1>3, <1>7 DEF FoundAll
<1>. QED
  BY <1>1, <1>5, <1>6, <1>8, <1>9 DEF FoundAll, Followed

LEMMA FoundAllStat == ASSUME BaseInv, FoundAll, NEW n \in Node, Stat(n) PROVE FoundAll'
<1>1. /\ pc = "stat" /\ names' = names \ {n}
      /\ pc' = IF names' = {} THEN "inode" ELSE "stat"
      /\ UNCHANGED <<tree, live, cross, dir, seen, walks>>
  BY DEF Stat, fs
<1>2. /\ tree \in Trees /\ live \subseteq Node /\ Stable \subseteq live
      /\ n \in Node \ {Top} /\ Last(Append(dir, n)) = n
  BY StatFacts DEF BaseInv, TypeOK
<1>3. \A m \in Node : Lasting(m)' <=> Lasting(m)
  BY <1>1 DEF Lasting, Followed
<1>4. /\ Accumulated' = {Last(path) : path \in ToSet(acc_dirs') \cup ToSet(acc_files')}
      /\ Reached' = {Root} \cup {Followed(Last(path)) : path \in ToSet(acc_dirs')}
      /\ Pending' = {Followed(Last(path)) : path \in ToSet(dirs')}
  BY <1>1 DEF Accumulated, Reached, Pending, Followed
<1>5. \/ /\ Followed(n) \in Dir /\ UNCHANGED acc_files
         /\ ToSet(dirs') = ToSet(dirs) \cup {Append(dir, n)}
         /\ ToSet(acc_dirs') = ToSet(acc_dirs) \cup {Append(dir, n)}
      \/ /\ Followed(n) \in File /\ UNCHANGED <<dirs, acc_dirs>>
         /\ ToSet(acc_files') = ToSet(acc_files) \cup {Append(dir, n)}
      \/ /\ ~ ({n, Followed(n)} \subseteq live)
         /\ UNCHANGED <<dirs, acc_dirs, acc_files>>
  BY StatFacts
<1>6. Accumulated \subseteq Accumulated'
  BY <1>4, <1>5 DEF Accumulated
<1>7. Lasting(n) => n \in Accumulated'
  <2>1. Lasting(n) => {n, Followed(n)} \subseteq live
    BY <1>2 DEF Lasting, Stable
  <2>. QED
    BY <1>2, <1>4, <1>5, <2>1
<1>8. \A m \in Node \ {Top} : walks[tree.parent[m]] > 0 /\ Lasting(m) =>
        m \in Accumulated' \/ (pc' = "stat" /\ m \in names')
  BY <1>1, <1>6, <1>7 DEF FoundAll
<1>9. \A d \in Reached' : d \in Reached \/ d \in Pending'
  BY <1>2, <1>4, <1>5 DEF Reached
<1>10. Pending \subseteq Pending'
  BY <1>4, <1>5 DEF Pending
<1>11. \A d \in Reached' :
       cross \/ tree.dev[d] = tree.dev[Root] => walks[d] > 0 \/ d \in Pending'
  BY <1>1, <1>9, <1>10 DEF FoundAll
<1>12. \A d \in seen : walks[d] > 0
  BY <1>1 DEF FoundAll
<1>13. /\ \A path \in ToSet(acc_dirs') : Followed(Last(path)) \in Dir
       /\ \A path \in ToSet(acc_files') : Followed(Last(path)) \in File
  BY <1>2, <1>5 DEF FoundAll
<1>. QED
  BY <1>1, <1>3, <1>8, <1>11, <1>12, <1>13 DEF FoundAll, Followed

\* The other steps find nothing; what no longer exists does not last.
LEMMA FoundAllRest ==
  ASSUME BaseInv, FoundAll,
         UNCHANGED <<tree, cross, dirs, dir, names, seen, acc_files, acc_dirs, walks>>,
         UNCHANGED pc \/ (pc \in {"inode", "rm"} /\ pc' \in {"rm", "end"}),
         live' \ Fresh \subseteq live
  PROVE  FoundAll'
<1>1. /\ Accumulated' = Accumulated /\ Reached' = Reached /\ Pending' = Pending
      /\ Current' = Current
  BY DEF Accumulated, Reached, Pending, Current, Followed
<1>2. \A m \in Node : Lasting(m)' => Lasting(m)
  BY DEF Lasting, Followed
<1>. QED
  BY <1>1, <1>2 DEF FoundAll, Followed

LEMMA FoundAllStep == ASSUME BaseInv, FoundAll, [Next]_vars PROVE FoundAll'
<1>1. CASE Inode
  BY <1>1, FoundAllInode
<1>2. CASE ListDir
  BY <1>2, FoundAllListDir
<1>3. CASE \E n \in Node : Stat(n)
  BY <1>3, FoundAllStat
<1>4. CASE EndOfWalk
  BY <1>4, FoundAllRest DEF EndOfWalk, fs
<1>5. CASE RemoveNext
  BY <1>5, FoundAllRest DEF RemoveNext, fs_remove
<1>6. CASE RemoveRoot
  BY <1>6, FoundAllRest DEF RemoveRoot, fs_remove
<1>7. CASE \E n \in Node : Make(n) \/ Delete(n)
  BY <1>7, FoundAllRest DEF Make, Delete
<1>8. CASE UNCHANGED vars
  BY <1>8, FoundAllRest DEF vars, fs
<1>. QED
  BY <1>1, <1>2, <1>3, <1>4, <1>5, <1>6, <1>7, <1>8 DEF Next, Step

\* At the end of a walk the list is what has been found.
ListedOK == pc = "end" /\ op = "walk" => ToSet(list) = ToSet(acc_dirs) \cup ToSet(acc_files)

LEMMA ConcatSet ==
  ASSUME NEW S, NEW s \in Seq(S), NEW t \in Seq(S)
  PROVE  ToSet(s \o t) = ToSet(s) \cup ToSet(t)
<1>. DEFINE u == s \o t
<1>1. /\ u \in Seq(S) /\ Len(u) = Len(s) + Len(t) /\ Len(s) \in Nat /\ Len(t) \in Nat
      /\ \A i \in 1 .. Len(s) : u[i] = s[i]
      /\ \A i \in 1 .. Len(t) : u[Len(s) + i] = t[i]
  OBVIOUS
<1>. HIDE DEF u
<1>2. \A i \in 1 .. Len(u) : i \notin 1 .. Len(s) => i - Len(s) \in 1 .. Len(t) /\ Len(s) + (i - Len(s)) = i
  BY <1>1
<1>3. \A i \in 1 .. Len(s) : i \in 1 .. Len(u)
  BY <1>1
<1>4. \A i \in 1 .. Len(t) : Len(s) + i \in 1 .. Len(u)
  BY <1>1
<1>5. /\ ToSet(s) = {s[i] : i \in 1 .. Len(s)} /\ ToSet(t) = {t[i] : i \in 1 .. Len(t)}
      /\ ToSet(u) = {u[i] : i \in 1 .. Len(u)}
  BY <1>1, ToSetFacts
<1>6. ToSet(u) \subseteq ToSet(s) \cup ToSet(t)
  <2>. SUFFICES ASSUME NEW i \in 1 .. Len(u) PROVE u[i] \in ToSet(s) \cup ToSet(t)
    BY <1>5
  <2>1. CASE i \in 1 .. Len(s)
    BY <1>1, <1>5, <2>1
  <2>2. CASE i \notin 1 .. Len(s)
    <3>1. i - Len(s) \in 1 .. Len(t) /\ u[i] = t[i - Len(s)]
      BY <1>1, <1>2, <2>2
    <3>. QED
      BY <1>5, <3>1
  <2>. QED
    BY <2>1, <2>2
<1>7. ToSet(s) \subseteq ToSet(u) /\ ToSet(t) \subseteq ToSet(u)
  BY <1>1, <1>3, <1>4, <1>5
<1>. QED
  BY <1>6, <1>7 DEF u

LEMMA ListedStep == ASSUME BaseInv, ListedOK, [Next]_vars PROVE ListedOK'
<1>1. CASE EndOfWalk
  <2>1. acc_dirs \in Seq(Path) /\ acc_files \in Seq(Path)
    BY DEF BaseInv, TypeOK
  <2>2. ToSet(acc_dirs \o acc_files) = ToSet(acc_dirs) \cup ToSet(acc_files)
    BY <2>1, ConcatSet
  <2>. QED
    BY <1>1, <2>2 DEF EndOfWalk, ListedOK
<1>2. CASE Inode
  BY <1>2 DEF Inode, ListedOK
<1>3. CASE ListDir
  BY <1>3 DEF ListDir, ListedOK
<1>4. CASE \E n \in Node : Stat(n)
  BY <1>4 DEF Stat, ListedOK
<1>5. CASE RemoveNext
  BY <1>5 DEF RemoveNext, ListedOK
<1>6. CASE RemoveRoot
  BY <1>6 DEF RemoveRoot, ListedOK, BaseInv, PathsOK
<1>7. CASE \E n \in Node : Make(n) \/ Delete(n)
  BY <1>7 DEF Make, Delete, ListedOK
<1>8. CASE UNCHANGED vars
  BY <1>8 DEF vars, ListedOK
<1>. QED
  BY <1>1, <1>2, <1>3, <1>4, <1>5, <1>6, <1>7, <1>8 DEF Next, Step

\* walk finds every entry that exists all the time in the directories it must
\* visit, and nothing else than entries of directories that can be reached.
THEOREM WalkFindsAll == Spec => []WalkIsComplete
<1>1. BaseInv /\ FoundOnly /\ FoundAll /\ ListedOK => WalkIsComplete
  <2>. SUFFICES ASSUME BaseInv, FoundOnly, FoundAll, ListedOK, pc = "end", op = "walk"
                PROVE  Found(Stable) \subseteq Accumulated /\ Accumulated \subseteq Found(Node)
    BY DEF WalkIsComplete, ListedOK, Stable, Accumulated
  <2>1. Accumulated \subseteq Found(Node)
    BY DEF FoundOnly, Accumulated
  <2>2. tree \in Trees /\ Pending = {}
    BY EmptyToSet DEF BaseInv, TypeOK, PathsOK, Walking, Pending
  <2>3. \A n \in Stable \ {Top} :
          walks[tree.parent[n]] > 0 /\ Followed(n) \in Stable => n \in Accumulated
    BY DEF FoundAll, Lasting, Stable
  <2>4. \A d \in Reached : cross \/ tree.dev[d] = tree.dev[Root] => walks[d] > 0
    BY <2>2 DEF FoundAll
  <2>. DEFINE V == {d \in Dir : walks[d] > 0}
  <2>5. Root \in V
    BY <2>4, WalkAssumption DEF Reached
  <2>6. ASSUME NEW n \in Stable \ {Top}, tree.parent[n] \in V, Followed(n) \in Dir \cap Stable,
               cross \/ tree.dev[Followed(n)] = tree.dev[Root]
        PROVE  Followed(n) \in V
    <3>1. n \in Accumulated
      BY <2>3, <2>6
    <3>2. PICK path \in ToSet(acc_dirs) \cup ToSet(acc_files) : n = Last(path)
      BY <3>1 DEF Accumulated
    <3>3. path \in ToSet(acc_dirs)
      BY <2>6, <3>2, WalkAssumption DEF FoundAll
    <3>4. Followed(n) \in Reached
      BY <3>2, <3>3 DEF Reached
    <3>. QED
      BY <2>4, <2>6, <3>4
  <2>. HIDE DEF V
  <2>7. Visited(Stable) \subseteq V
    <3>1. V \in SUBSET Dir
      BY DEF V
    <3>. QED
      BY <2>5, <2>6, <3>1, VisitedIsLeast
  <2>8. Found(Stable) \subseteq Accumulated
    BY <2>3, <2>7 DEF Found, V
  <2>. QED
    BY <2>1, <2>8
<1>2. Init => FoundOnly /\ FoundAll /\ ListedOK
  BY FoundOnlyInit, FoundAllInit DEF Init, ListedOK
<1>3. BaseInv /\ FoundOnly /\ FoundAll /\ ListedOK /\ [Next]_vars =>
        FoundOnly' /\ FoundAll' /\ ListedOK'
  BY FoundOnlyStep, FoundAllStep, ListedStep
<1>. QED
  BY BaseInit, BaseStep, <1>1, <1>2, <1>3, PTL DEF Spec

-----------------------------------------------------------------------------
(* Walks of directories without surprise.                                  *)

\* The directories under Root, and Root.
Within == FromRoot(LAMBDA E : \A d \in Dir \ {Top} : tree.parent[d] \in E => d \in E)

LEMMA WithinFacts ==
  ASSUME tree \in Trees
  PROVE  /\ Root \in Within /\ Within \subseteq Dir \ {Top}
         /\ \A d \in Dir \ {Top} : tree.parent[d] \in Within => d \in Within
         /\ Content = {Root} \cup {n \in Node \ {Top} : tree.parent[n] \in Within}
<1>1. Root \in Within /\ \A d \in Dir \ {Top} : tree.parent[d] \in Within => d \in Within
  BY WalkAssumption DEF Within, FromRoot
<1>2. Within \subseteq Dir \ {Top}
  <2>. DEFINE E == Dir \ {Top}
  <2>1. E \in SUBSET Dir /\ Root \in E /\ \A d \in Dir \ {Top} : tree.parent[d] \in E => d \in E
    BY WalkAssumption
  <2>. HIDE DEF E
  <2>2. Within \subseteq E
    BY <2>1 DEF Within, FromRoot
  <2>. QED
    BY <2>2 DEF E
<1>3. Content = {Root} \cup {n \in Node \ {Top} : tree.parent[n] \in Within}
  BY DEF Content, Within
<1>. QED
  BY <1>1, <1>2, <1>3

LEMMA WithinIsLeast ==
  ASSUME NEW E \in SUBSET Dir, Root \in E,
         \A d \in Dir \ {Top} : tree.parent[d] \in E => d \in E
  PROVE  Within \subseteq E
  BY DEF Within, FromRoot

LEMMA PlainStays ==
  ASSUME UNCHANGED tree
  PROVE  /\ Within' = Within /\ Content' = Content /\ (PlainTree' <=> PlainTree)
         /\ \A path : Valid(path)' <=> Valid(path)
<1>1. Within' = Within /\ Content' = Content
  BY DEF Within, Content, FromRoot
<1>2. PlainTree' <=> PlainTree
  BY <1>1 DEF PlainTree
<1>3. \A path : Valid(path)' <=> Valid(path)
  BY DEF Valid, Where, Followed
<1>. QED
  BY <1>1, <1>2, <1>3

LEMMA PlainFacts ==
  ASSUME tree \in Trees, PlainTree
  PROVE  /\ \A n \in Content : n \in Node
         /\ \A n \in Content : Followed(n) = n \/ Followed(n) \in File \cap Stable
         /\ \A n \in Content \cap Dir : tree.dev[n] = tree.dev[Root]
         /\ Fresh \cap Doomed = {}
<1>1. \A n \in Content : n \in Node
  BY TreeFacts, WithinFacts
<1>2. \A n \in Content : Followed(n) = n \/ Followed(n) \in File \cap Stable
  BY <1>1 DEF PlainTree, Followed, Stable, Node
<1>. QED
  BY <1>1, <1>2 DEF PlainTree

\* The directories that are above the last name of a path.
Above(path) == {path[i] : i \in 1 .. Len(path) - 1}

LEMMA AboveFacts ==
  ASSUME NEW path \in Path, NEW n \in Node \ {Top}
  PROVE  /\ Above(Append(path, n)) = Above(path) \cup {Last(path)}
         /\ Above(<<n>>) = {}
<1>. DEFINE name == Append(path, n)
<1>1. path \in Seq(Node \ {Top}) /\ Len(path) \in Nat \ {0} /\ Last(path) = path[Len(path)]
  BY PathFacts
<1>2. Len(name) - 1 = Len(path) /\ \A i \in 1 .. Len(path) : name[i] = path[i]
  BY <1>1, AppendFacts
<1>. HIDE DEF name
<1>3. Above(name) = {path[i] : i \in 1 .. Len(path)}
  BY <1>2 DEF Above
<1>4. 1 .. Len(path) = (1 .. Len(path) - 1) \cup {Len(path)}
  BY <1>1
<1>5. Above(name) = Above(path) \cup {Last(path)}
  BY <1>1, <1>3, <1>4 DEF Above
<1>6. Len(<<n>>) - 1 = 0
  OBVIOUS
<1>7. Above(<<n>>) = {}
  BY <1>6 DEF Above
<1>. QED
  BY <1>5, <1>7 DEF name

\* The directories that have been found, and Root.
DirsNamed == {Root} \cup {Last(path) : path \in ToSet(acc_dirs)}

\* A path is the path of a directory that has been found, and a name of that
\* directory, which is listed.
Nested(path) ==
  /\ Front(path) \in Path /\ Valid(Front(path))
  /\ Last(path) \in Content /\ tree.parent[Last(path)] = Last(Front(path))
  /\ walks[Last(Front(path))] > 0
  /\ Above(path) \subseteq DirsNamed

\* Each directory is found once, and listed once: the directories on the stack,
\* and the one that is going to be listed, have not been.
PlainInv ==
  /\ ToSet(dirs) \subseteq ToSet(acc_dirs) \cup {<<Root>>}
  /\ \A i, j \in 1 .. Len(dirs) : i # j => Last(dirs[i]) # Last(dirs[j])
  /\ \A d \in Dir : walks[d] > 0 => d \in DirsNamed
  /\ \A path \in ToSet(dirs) : walks[Last(path)] = 0
  /\ pc \in {"dir", "stat"} => dir \in ToSet(acc_dirs) \cup {<<Root>>}
  /\ pc = "dir" =>
       walks[Last(dir)] = 0 /\ \A path \in ToSet(dirs) : Last(path) # Last(dir)
  /\ pc = "stat" => walks[Last(dir)] > 0 /\ names \cap Accumulated = {}
  /\ \A path \in ToSet(acc_dirs) \cup ToSet(acc_files) : Nested(path)
  /\ \A path \in ToSet(acc_dirs) : Last(path) \in Within \ {Root}
  /\ \A j \in 1 .. Len(acc_dirs) : \A i \in 1 .. j :
       Last(acc_dirs[j]) \notin Above(acc_dirs[i])

LEMMA PlainInit == ASSUME Init PROVE PlainInv
<1>1. /\ ToSet(acc_files) = {} /\ ToSet(acc_dirs) = {} /\ Len(acc_dirs) = 0
      /\ walks = [d \in Dir |-> 0] /\ pc = "inode"
  BY EmptyToSet DEF Init
<1>2. ToSet(dirs) = {<<Root>>} /\ Last(<<Root>>) = Root /\ Len(dirs) = 1
  BY DEF Init, ToSet, Last
<1>3. walks[Root] = 0 /\ \A d \in Dir : ~ (walks[d] > 0)
  <2>1. \A d \in Dir : walks[d] = 0
    BY <1>1
  <2>. QED
    BY <2>1, WalkAssumption
<1>4. \A i, j \in 1 .. Len(dirs) : i = j
  BY <1>2
<1>. QED
  BY <1>1, <1>2, <1>3, <1>4 DEF PlainInv

\* Links do not lead to directories: the directories on the stack are their
\* names.
LEMMA PlainCurrent ==
  ASSUME BaseInv, PlainInv
  PROVE  /\ tree \in Trees
         /\ \A path \in ToSet(dirs) : /\ Last(path) \in Within /\ Last(path) \in DirsNamed
                                      /\ Followed(Last(path)) = Last(path)
         /\ pc \in {"dir", "stat"} =>
              /\ dir \in Path /\ Valid(dir) /\ Current = Last(dir)
              /\ Last(dir) \in Within /\ Last(dir) \in DirsNamed
              /\ Above(dir) \subseteq DirsNamed
<1>1. tree \in Trees
  BY DEF BaseInv, TypeOK
<1>2. Last(<<Root>>) = Root /\ <<Root>> \in Path
  BY <1>1, RootPath
<1>3. \A d \in Within : Followed(d) = d
  BY <1>1, TreeFacts, WithinFacts
<1>4. \A path \in ToSet(acc_dirs) \cup {<<Root>>} : Last(path) \in Within /\ Last(path) \in DirsNamed
  BY <1>1, <1>2, WithinFacts DEF PlainInv, DirsNamed
<1>5. ASSUME pc \in {"dir", "stat"}
      PROVE  /\ dir \in Path /\ Valid(dir) /\ Current = Last(dir)
             /\ Last(dir) \in Within /\ Last(dir) \in DirsNamed
             /\ Above(dir) \subseteq DirsNamed
  <2>1. dir \in ToSet(acc_dirs) \cup {<<Root>>} /\ Valid(dir) /\ dir \in Path
    BY <1>5 DEF PlainInv, BaseInv, PathsOK, Valid
  <2>2. dir = <<Root>> => Above(dir) = {}
    BY <1>1, <1>2, TreeFacts, AboveFacts
  <2>3. dir \in ToSet(acc_dirs) => Above(dir) \subseteq DirsNamed
    BY DEF PlainInv, Nested
  <2>. QED
    BY <1>3, <1>4, <2>1, <2>2, <2>3 DEF Current
<1>6. \A path \in ToSet(dirs) : /\ Last(path) \in Within /\ Last(path) \in DirsNamed
                                /\ Followed(Last(path)) = Last(path)
  BY <1>3, <1>4 DEF PlainInv
<1>. QED
  BY <1>1, <1>5, <1>6

LEMMA PlainInode == ASSUME BaseInv, PlainInv, Inode PROVE PlainInv'
<1>1. /\ dirs \in Seq(Path) /\ dirs # <<>> /\ dirs' = Front(dirs) /\ pc = "inode"
      /\ UNCHANGED <<pc, dir>> \/ (pc' = "dir" /\ dir' = Last(dirs))
      /\ UNCHANGED <<tree, names, acc_files, acc_dirs, walks>>
  BY InodeFacts DEF BaseInv, TypeOK, fs
<1>2. /\ Len(dirs') = Len(dirs) - 1 /\ Len(dirs) \in Nat \ {0}
      /\ \A i \in 1 .. Len(dirs) - 1 : dirs'[i] = dirs[i]
      /\ Last(dirs) = dirs[Len(dirs)] /\ dirs' \in Seq(Path)
      /\ ToSet(dirs) = ToSet(dirs') \cup {Last(dirs)}
  BY <1>1, FrontFacts
<1>3. /\ DirsNamed' = DirsNamed /\ Accumulated' = Accumulated /\ Within' = Within
      /\ \A path : Nested(path)' <=> Nested(path)
  <2>1. DirsNamed' = DirsNamed /\ Accumulated' = Accumulated
    BY <1>1 DEF DirsNamed, Accumulated
  <2>2. \A path : Nested(path)' <=> Nested(path)
    BY <1>1, <2>1, PlainStays DEF Nested
  <2>. QED
    BY <1>1, <2>1, <2>2, PlainStays
<1>4. \A i \in 1 .. Len(dirs') : i \in 1 .. Len(dirs) /\ i # Len(dirs) /\ dirs'[i] = dirs[i]
  BY <1>2
<1>5. \A i, j \in 1 .. Len(dirs') : i # j => Last(dirs'[i]) # Last(dirs'[j])
  BY <1>4 DEF PlainInv
<1>6. \A path \in ToSet(dirs') : Last(path) # Last(Last(dirs))
  <2>. SUFFICES ASSUME NEW path \in ToSet(dirs') PROVE Last(path) # Last(Last(dirs))
    OBVIOUS
  <2>1. PICK i \in 1 .. Len(dirs') : path = dirs'[i]
    BY <1>2, ToSetFacts
  <2>2. Len(dirs) \in 1 .. Len(dirs)
    BY <1>2
  <2>. QED
    BY <1>2, <1>4, <2>1, <2>2 DEF PlainInv
<1>. QED
  BY <1>1, <1>2, <1>3, <1>5, <1>6 DEF PlainInv

LEMMA PlainListDir == ASSUME BaseInv, PlainInv, ListDir PROVE PlainInv'
<1>1. /\ pc = "dir" /\ stat(dir) = Current
      /\ names' = {n \in live : n # Top /\ tree.parent[n] = Current}
      /\ pc' \in {"inode", "stat"}
      /\ UNCHANGED <<tree, live, dirs, dir, acc_files, acc_dirs>>
  BY ChildrenOfCurrent DEF ListDir, fs
<1>2. /\ tree \in Trees /\ Current = Last(dir) /\ Last(dir) \in Dir /\ Last(dir) \in DirsNamed
      /\ \A path \in ToSet(dirs) : Last(path) \in Dir
  BY <1>1, PlainCurrent, WithinFacts
<1>3. \A d \in Dir : walks[d] \in Nat /\ walks'[d] = walks[d] + IF d = Last(dir) THEN 1 ELSE 0
  BY <1>1, <1>2 DEF ListDir, BaseInv, TypeOK
<1>4. /\ walks'[Last(dir)] > 0
      /\ \A d \in Dir : d # Last(dir) => walks'[d] = walks[d]
      /\ \A d \in Dir : walks[d] > 0 => walks'[d] > 0
  BY <1>2, <1>3
<1>5. walks[Last(dir)] = 0 /\ \A path \in ToSet(dirs) : Last(path) # Last(dir)
  BY <1>1 DEF PlainInv
<1>6. DirsNamed' = DirsNamed /\ Accumulated' = Accumulated /\ Within' = Within
  BY <1>1, PlainStays DEF DirsNamed, Accumulated
<1>7. ASSUME NEW path, Nested(path) PROVE Nested(path)'
  <2>1. Last(Front(path)) \in Dir
    <3>1. Last(path) \in Node \ {Top}
      BY <1>2, <1>7, WithinFacts, TreeFacts DEF Nested
    <3>. QED
      BY <1>2, <1>7, <3>1, TreeFacts DEF Nested
  <2>2. walks'[Last(Front(path))] > 0
    BY <1>4, <1>7, <2>1 DEF Nested
  <2>. QED
    BY <1>1, <1>6, <1>7, <2>2, PlainStays DEF Nested
<1>8. names' \cap Accumulated = {}
  <2>. SUFFICES ASSUME NEW n \in names', n \in Accumulated PROVE FALSE
    OBVIOUS
  <2>1. PICK path \in ToSet(acc_dirs) \cup ToSet(acc_files) : n = Last(path)
    BY DEF Accumulated
  <2>2. walks[Last(dir)] > 0
    BY <1>1, <1>2, <2>1 DEF PlainInv, Nested
  <2>. QED
    BY <1>5, <2>2
<1>9. \A d \in Dir : walks'[d] > 0 => d \in DirsNamed
  BY <1>2, <1>4 DEF PlainInv
<1>10. \A path \in ToSet(dirs) : walks'[Last(path)] = 0
  BY <1>2, <1>4, <1>5 DEF PlainInv
<1>11. \A path \in ToSet(acc_dirs) \cup ToSet(acc_files) : Nested(path)'
  BY <1>7 DEF PlainInv
<1>. QED
  BY <1>1, <1>4, <1>6, <1>8, <1>9, <1>10, <1>11 DEF PlainInv

\* The name that is looked at has not been found yet.
LEMMA NewName ==
  ASSUME BaseInv, PlainTree, PlainInv, NEW n \in Node, Stat(n)
  PROVE  /\ n \in Content /\ n \notin Accumulated /\ n \notin DirsNamed
         /\ tree.parent[n] = Last(dir) /\ tree \in Trees
         /\ dir \in Path /\ Valid(dir) /\ walks[Last(dir)] > 0
         /\ Followed(n) \in Dir => n \in Within
         /\ Above(Append(dir, n)) \subseteq DirsNamed
<1>1. pc = "stat" /\ n \in names
  BY DEF Stat
<1>2. /\ tree \in Trees /\ dir \in Path /\ Valid(dir) /\ Current = Last(dir)
      /\ Last(dir) \in Within /\ Last(dir) \in DirsNamed /\ Above(dir) \subseteq DirsNamed
  BY <1>1, PlainCurrent
<1>3. n \in Node \ {Top} /\ tree.parent[n] = Last(dir)
  BY <1>2, StatFacts
<1>4. walks[Last(dir)] > 0 /\ n \notin Accumulated
  BY <1>1 DEF PlainInv
<1>5. n # Root
  BY <1>2, <1>3, TreeFacts, WithinFacts
<1>6. n \notin DirsNamed
  BY <1>4, <1>5 DEF DirsNamed, Accumulated
<1>7. n \in Content
  BY <1>2, <1>3, WithinFacts
<1>8. ASSUME Followed(n) \in Dir PROVE n \in Within
  <2>1. Followed(n) = n
    BY <1>2, <1>7, <1>8, PlainFacts, WalkAssumption
  <2>. QED
    BY <1>2, <1>3, <1>8, <2>1, WithinFacts
<1>9. Above(Append(dir, n)) \subseteq DirsNamed
  <2>1. n \in Node \ {Top} /\ dir \in Path
    BY <1>2, <1>3
  <2>2. Above(Append(dir, n)) = Above(dir) \cup {Last(dir)}
    BY <2>1, AboveFacts
  <2>. QED
    BY <1>2, <2>2
<1>. QED
  BY <1>2, <1>3, <1>4, <1>6, <1>7, <1>8, <1>9

LEMMA PlainStat ==
  ASSUME BaseInv, PlainTree, PlainInv, NEW n \in Node, Stat(n)
  PROVE  PlainInv'
<1>. DEFINE name == Append(dir, n)
<1>1. /\ pc = "stat" /\ pc' \in {"inode", "stat"} /\ n \in names /\ names' = names \ {n}
      /\ UNCHANGED <<tree, live, dir, walks>>
  BY DEF Stat, fs
<1>2. /\ n \in Content /\ n \notin Accumulated /\ n \notin DirsNamed
      /\ tree.parent[n] = Last(dir) /\ tree \in Trees
      /\ dir \in Path /\ Valid(dir) /\ walks[Last(dir)] > 0
      /\ Followed(n) \in Dir => n \in Within
      /\ Above(name) \subseteq DirsNamed
  BY NewName
<1>3. /\ dirs \in Seq(Path) /\ acc_dirs \in Seq(Path) /\ walks \in [Dir -> Nat]
      /\ names \cap Accumulated = {}
  BY <1>1 DEF BaseInv, TypeOK, PlainInv
<1>4. /\ name \in Path /\ Last(name) = n /\ Front(name) = dir
      /\ \/ /\ Followed(n) \in Dir /\ UNCHANGED acc_files
            /\ dirs' = Append(dirs, name) /\ acc_dirs' = Append(acc_dirs, name)
            /\ ToSet(dirs') = ToSet(dirs) \cup {name}
            /\ ToSet(acc_dirs') = ToSet(acc_dirs) \cup {name}
         \/ /\ UNCHANGED <<dirs, acc_dirs>>
            /\ ToSet(acc_files') = ToSet(acc_files) \cup {name}
         \/ UNCHANGED <<dirs, acc_dirs, acc_files>>
  BY StatFacts
<1>. HIDE DEF name
<1>5. Within' = Within /\ Content' = Content /\ \A path : Valid(path)' <=> Valid(path)
  BY <1>1, PlainStays
<1>6. DirsNamed \subseteq DirsNamed'
  BY <1>4 DEF DirsNamed
<1>7. Accumulated' \subseteq Accumulated \cup {n}
  BY <1>4 DEF Accumulated
<1>8. \A path : Nested(path) => Nested(path)'
  BY <1>1, <1>5, <1>6 DEF Nested
<1>9. Nested(name)
  BY <1>2, <1>4 DEF Nested
<1>10. \A path \in ToSet(acc_dirs') \cup ToSet(acc_files') : Nested(path)'
  BY <1>4, <1>8, <1>9 DEF PlainInv
<1>11. names' \cap Accumulated' = {}
  BY <1>1, <1>3, <1>7
<1>12. \A d \in Dir : walks'[d] > 0 => d \in DirsNamed'
  BY <1>1, <1>6 DEF PlainInv
<1>13. dir' \in ToSet(acc_dirs') \cup {<<Root>>}
  BY <1>1, <1>4 DEF PlainInv
<1>14. CASE UNCHANGED <<dirs, acc_dirs>>
  BY <1>1, <1>2, <1>5, <1>10, <1>11, <1>12, <1>13, <1>14 DEF PlainInv
<1>15. CASE /\ Followed(n) \in Dir
            /\ dirs' = Append(dirs, name) /\ acc_dirs' = Append(acc_dirs, name)
            /\ ToSet(dirs') = ToSet(dirs) \cup {name}
            /\ ToSet(acc_dirs') = ToSet(acc_dirs) \cup {name}
  <2>1. ToSet(dirs') \subseteq ToSet(acc_dirs') \cup {<<Root>>}
    BY <1>15 DEF PlainInv
  <2>2. \A path \in ToSet(acc_dirs') : Last(path) \in Within \ {Root}
    BY <1>2, <1>4, <1>15 DEF PlainInv, DirsNamed
  <2>3. \A path \in ToSet(dirs') : walks[Last(path)] = 0
    <3>1. n \in Dir /\ walks[n] \in Nat /\ ~ (walks[n] > 0)
      BY <1>2, <1>3, <1>15, WithinFacts DEF PlainInv
    <3>2. walks[n] = 0
      BY <3>1
    <3>. QED
      BY <1>4, <1>15, <3>2 DEF PlainInv
  <2>4. /\ Len(dirs) \in Nat /\ Len(dirs') = Len(dirs) + 1 /\ dirs'[Len(dirs) + 1] = name
        /\ \A i \in 1 .. Len(dirs) : dirs'[i] = dirs[i]
    BY <1>3, <1>4, <1>15, AppendFacts
  <2>5. \A i \in 1 .. Len(dirs) : Last(dirs[i]) # n
    BY <1>2, <1>3, PlainCurrent, ToSetFacts
  <2>6. \A i \in 1 .. Len(dirs') : i = Len(dirs) + 1 \/ i \in 1 .. Len(dirs)
    BY <2>4
  <2>7. ASSUME NEW i \in 1 .. Len(dirs'), NEW j \in 1 .. Len(dirs'), i # j
        PROVE  Last(dirs'[i]) # Last(dirs'[j])
    <3>1. CASE i \in 1 .. Len(dirs) /\ j \in 1 .. Len(dirs)
      BY <2>4, <2>7, <3>1 DEF PlainInv
    <3>2. CASE i \in 1 .. Len(dirs) /\ j = Len(dirs) + 1
      BY <1>4, <2>4, <2>5, <3>2
    <3>3. CASE i = Len(dirs) + 1 /\ j \in 1 .. Len(dirs)
      BY <1>4, <2>4, <2>5, <3>3
    <3>. QED
      BY <2>6, <2>7, <3>1, <3>2, <3>3
  <2>8. /\ Len(acc_dirs) \in Nat /\ Len(acc_dirs') = Len(acc_dirs) + 1
        /\ acc_dirs'[Len(acc_dirs) + 1] = name
        /\ \A i \in 1 .. Len(acc_dirs) : acc_dirs'[i] = acc_dirs[i] /\ acc_dirs[i] \in ToSet(acc_dirs)
    BY <1>3, <1>4, <1>15, AppendFacts, ToSetFacts
  <2>9. ASSUME NEW j \in 1 .. Len(acc_dirs'), NEW i \in 1 .. j
        PROVE  Last(acc_dirs'[j]) \notin Above(acc_dirs'[i])
    <3>1. CASE j # Len(acc_dirs) + 1
      <4>1. j \in 1 .. Len(acc_dirs) /\ i \in 1 .. Len(acc_dirs)
        BY <2>8, <2>9, <3>1
      <4>. QED
        BY <2>8, <4>1 DEF PlainInv
    <3>2. CASE j = Len(acc_dirs) + 1
      <4>1. Last(acc_dirs'[j]) = n
        BY <1>4, <2>8, <3>2
      <4>2. CASE i = j
        BY <1>2, <2>8, <3>2, <4>1, <4>2
      <4>3. CASE i # j
        <5>1. i \in 1 .. Len(acc_dirs)
          BY <2>8, <2>9, <3>2, <4>3
        <5>2. Above(acc_dirs[i]) \subseteq DirsNamed
          BY <2>8, <5>1 DEF PlainInv, Nested
        <5>. QED
          BY <1>2, <2>8, <4>1, <5>1, <5>2
      <4>. QED
        BY <4>2, <4>3
    <3>. QED
      BY <3>1, <3>2
  <2>. QED
    BY <1>1, <1>2, <1>5, <1>10, <1>11, <1>12, <1>13, <2>1, <2>2, <2>3, <2>7, <2>9 DEF PlainInv
<1>. QED
  BY <1>4, <1>14, <1>15

\* Removing and making files changes nothing of this.
LEMMA PlainRest ==
  ASSUME PlainInv,
         UNCHANGED <<tree, dirs, dir, names, acc_files, acc_dirs, walks>>,
         UNCHANGED pc \/ pc' \in {"rm", "end"}
  PROVE  PlainInv'
<1>1. DirsNamed' = DirsNamed /\ Accumulated' = Accumulated /\ Within' = Within
  BY PlainStays DEF DirsNamed, Accumulated
<1>2. \A path : Nested(path) => Nested(path)'
  BY <1>1, PlainStays DEF Nested
<1>3. \A path \in ToSet(acc_dirs) \cup ToSet(acc_files) : Nested(path)'
  BY <1>2 DEF PlainInv
<1>. QED
  BY <1>1, <1>3 DEF PlainInv

LEMMA TreeStays == ASSUME [Next]_vars PROVE UNCHANGED tree
  BY DEF Next, Step, Inode, ListDir, Stat, EndOfWalk, RemoveNext, RemoveRoot, Make, Delete,
         fs_remove, fs, vars

LEMMA PlainStep == ASSUME BaseInv, PlainTree, PlainInv, [Next]_vars PROVE PlainInv'
<1>1. CASE Inode
  BY <1>1, PlainInode
<1>2. CASE ListDir
  BY <1>2, PlainListDir
<1>3. CASE \E n \in Node : Stat(n)
  BY <1>3, PlainStat
<1>4. CASE EndOfWalk
  BY <1>4, PlainRest DEF EndOfWalk, fs
<1>5. CASE RemoveNext
  BY <1>5, PlainRest DEF RemoveNext, fs_remove
<1>6. CASE RemoveRoot
  BY <1>6, PlainRest DEF RemoveRoot, fs_remove
<1>7. CASE \E n \in Node : Make(n) \/ Delete(n)
  BY <1>7, PlainRest DEF Make, Delete
<1>8. CASE UNCHANGED vars
  BY <1>8, PlainRest DEF vars, fs
<1>. QED
  BY <1>1, <1>2, <1>3, <1>4, <1>5, <1>6, <1>7, <1>8 DEF Next, Step

-----------------------------------------------------------------------------
(* rmdir.                                                                  *)

\* What is left of the list: the last directories found, the deepest ones,
\* before the first ones, after the files.
Remaining ==
  LET D == Len(acc_dirs)
      F == Len(acc_files)
      L == Len(list)
  IN  /\ L <= F + D
      /\ \A i \in 1 .. L : IF i <= L - D THEN list[i] = acc_files[F + D - L + i]
                           ELSE list[i] = acc_dirs[L - i + 1]

\* The elements of the list that have been removed no longer exist, and the
\* directories above the others do.  A file made by another process may keep its
\* directory; it is not removed when only directories are left.
RemovedInv ==
  /\ (Node \ Content) \ (Fresh \cup Doomed) \subseteq live
  /\ pc = "rm" =>
       /\ Remaining /\ Root \in live
       /\ Len(list) >= Len(acc_dirs) => Dir \subseteq live
       /\ \A j \in 1 .. Len(acc_dirs) : j <= Len(list) => Above(acc_dirs[j]) \subseteq live
  /\ pc = "end" => list = <<>>
  /\ pc \in {"rm", "end"} =>
       /\ \A j \in 1 .. Len(acc_files) :
            j <= Len(acc_files) + Len(acc_dirs) - Len(list) =>
              Last(acc_files[j]) \notin live \ Fresh
       /\ live \cap Fresh = {} =>
            \A j \in 1 .. Len(acc_dirs) : j > Len(list) => Last(acc_dirs[j]) \notin live
  /\ pc = "end" /\ live \cap Fresh = {} => Root \notin live

\* The hypotheses of the lemmas below.
Removing == BaseInv /\ FoundAll /\ PlainTree /\ PlainInv /\ op = "rmdir" /\ RemovedInv

LEMMA NamedFacts ==
  ASSUME BaseInv, PlainInv
  PROVE  /\ DirsNamed \subseteq Within /\ Within \subseteq Dir /\ tree \in Trees
         /\ Fresh \cap Dir = {} /\ Doomed \cap Dir = {}
         /\ acc_files \in Seq(Path) /\ acc_dirs \in Seq(Path) /\ list \in Seq(Path)
         /\ Len(acc_files) \in Nat /\ Len(acc_dirs) \in Nat /\ Len(list) \in Nat
         /\ \A j \in 1 .. Len(acc_dirs) : acc_dirs[j] \in ToSet(acc_dirs) /\ Nested(acc_dirs[j])
         /\ \A j \in 1 .. Len(acc_files) : acc_files[j] \in ToSet(acc_files) /\ Nested(acc_files[j])
<1>1. /\ tree \in Trees /\ acc_files \in Seq(Path) /\ acc_dirs \in Seq(Path)
      /\ list \in Seq(Path)
  BY DEF BaseInv, TypeOK
<1>2. Len(acc_files) \in Nat /\ Len(acc_dirs) \in Nat /\ Len(list) \in Nat
  BY <1>1
<1>3. /\ \A j \in 1 .. Len(acc_dirs) : acc_dirs[j] \in ToSet(acc_dirs)
      /\ \A j \in 1 .. Len(acc_files) : acc_files[j] \in ToSet(acc_files)
  BY <1>1, ToSetFacts
<1>4. DirsNamed \subseteq Within /\ Within \subseteq Dir
  BY <1>1, WithinFacts DEF DirsNamed, PlainInv
<1>. QED
  BY <1>1, <1>2, <1>3, <1>4, WalkAssumption DEF PlainInv

LEMMA EndOfWalkRemaining ==
  ASSUME BaseInv, PlainInv, EndOfWalk, op = "rmdir"
  PROVE  Remaining' /\ Len(list') = Len(acc_files) + Len(acc_dirs)
<1>1. /\ acc_files \in Seq(Path) /\ acc_dirs \in Seq(Path)
      /\ UNCHANGED <<acc_files, acc_dirs>> /\ list' = acc_files \o Reverse(acc_dirs)
  BY NamedFacts DEF EndOfWalk
<1>. DEFINE r == Reverse(acc_dirs)
            D == Len(acc_dirs)
            F == Len(acc_files)
<1>2. /\ r \in Seq(Path) /\ Len(r) = D /\ D \in Nat /\ F \in Nat
      /\ \A i \in 1 .. D : r[i] = acc_dirs[(D - i) + 1]
  BY <1>1, ReverseFacts
<1>3. list' = acc_files \o r
  BY <1>1
<1>. HIDE DEF r
<1>4. /\ Len(list') = F + D
      /\ \A i \in 1 .. F : list'[i] = acc_files[i]
      /\ \A i \in 1 .. D : list'[F + i] = r[i]
  BY <1>1, <1>2, <1>3
<1>. HIDE DEF D, F
<1>5. ASSUME NEW i \in 1 .. F + D
      PROVE  IF i <= (F + D) - D THEN list'[i] = acc_files[F + D - (F + D) + i]
             ELSE list'[i] = acc_dirs[(F + D) - i + 1]
  <2>1. CASE i <= F
    <3>1. i \in 1 .. F /\ (F + D) - D = F /\ F + D - (F + D) + i = i
      BY <1>2, <2>1
    <3>. QED
      BY <1>4, <3>1
  <2>2. CASE ~ (i <= F)
    <3>1. /\ i - F \in 1 .. D /\ F + (i - F) = i /\ (F + D) - D = F
          /\ (D - (i - F)) + 1 = (F + D) - i + 1
      BY <1>2, <2>2
    <3>. QED
      BY <1>2, <1>4, <2>2, <3>1
  <2>. QED
    BY <2>1, <2>2
<1>. QED
  BY <1>1, <1>2, <1>4, <1>5 DEF Remaining, D, F

LEMMA RemovedEndOfWalk ==
  ASSUME Removing, EndOfWalk
  PROVE  RemovedInv'
<1>1. /\ pc = "inode" /\ pc' = "rm" /\ Stable \subseteq live
      /\ UNCHANGED <<tree, live, acc_files, acc_dirs>>
  BY DEF Removing, BaseInv, PathsOK, Walking, EndOfWalk, fs
<1>2. Remaining' /\ Len(list') = Len(acc_files) + Len(acc_dirs)
  BY EndOfWalkRemaining DEF Removing
<1>3. /\ DirsNamed \subseteq Dir
      /\ Len(acc_files) \in Nat /\ Len(acc_dirs) \in Nat
      /\ \A j \in 1 .. Len(acc_dirs) : Above(acc_dirs[j]) \subseteq DirsNamed
  BY NamedFacts DEF Removing, Nested
<1>4. Dir \subseteq live /\ Root \in live
  BY <1>1, StableFacts, WalkAssumption
<1>5. Content' = Content
  BY <1>1, PlainStays
<1>6. /\ \A j \in 1 .. Len(acc_files) : ~ (j <= Len(acc_files) + Len(acc_dirs) - Len(list'))
      /\ \A j \in 1 .. Len(acc_dirs) : ~ (j > Len(list'))
  BY <1>2, <1>3
<1>. QED
  BY <1>1, <1>2, <1>3, <1>4, <1>5, <1>6 DEF Removing, RemovedInv

\* stat on a path of directories that exist.
LEMMA StatOfDirs ==
  ASSUME tree \in Trees, NEW path, Valid(path), \A i \in 1 .. Len(path) : path[i] \in Dir \cap live
  PROVE  stat(path) = Last(path)
<1>1. /\ path \in Path /\ Len(path) \in Nat \ {0} /\ DOMAIN path = 1 .. Len(path)
      /\ Last(path) = path[Len(path)]
      /\ \A i \in DOMAIN path : tree.parent[path[i]] = Where(path, i)
  BY PathFacts DEF Valid
<1>2. \A i \in 1 .. Len(path) : Followed(path[i]) = path[i]
  BY TreeFacts
<1>3. Resolved(path)
  BY <1>1, <1>2 DEF Resolved
<1>4. Where(path, Len(path) + 1) = Followed(path[Len(path)])
  BY <1>1 DEF Where
<1>5. Len(path) \in 1 .. Len(path)
  BY <1>1
<1>. QED
  BY <1>1, <1>2, <1>3, <1>4, <1>5 DEF stat

\* An entry whose directories exist is removed, unless it is a directory that is
\* not empty.
LEMMA RemovedEntry ==
  ASSUME Removing, NEW path \in Path, Nested(path), Above(path) \subseteq Dir \cap live
  PROVE  Removable(path) <=>
           Last(path) \in live /\ (Last(path) \in Dir => Children(Last(path)) = {})
<1>1. /\ Front(path) \in Path /\ Valid(Front(path))
      /\ tree.parent[Last(path)] = Last(Front(path))
  BY DEF Nested
<1>2. /\ path \in Seq(Node \ {Top}) /\ path # <<>> /\ Len(path) \in Nat \ {0}
      /\ Last(path) \in Node \ {Top}
  BY PathFacts
<1>3. /\ Len(Front(path)) = Len(path) - 1
      /\ \A i \in 1 .. Len(path) - 1 : Front(path)[i] = path[i]
  BY <1>2, FrontFacts
<1>4. \A i \in 1 .. Len(Front(path)) : Front(path)[i] \in Dir \cap live
  BY <1>3 DEF Above
<1>5. tree \in Trees
  BY DEF Removing, BaseInv, TypeOK
<1>6. stat(Front(path)) = Last(Front(path))
  BY <1>1, <1>4, <1>5, StatOfDirs
<1>7. Last(path) \in Children(stat(Front(path))) <=> Last(path) \in live
  BY <1>1, <1>2, <1>6 DEF Children
<1>. QED
  BY <1>7 DEF Removable

\* When only directories are left, what is still in one of them is a directory
\* to remove.
LEMMA OnlyDirsLeft ==
  ASSUME Removing, pc = "rm", Len(list) <= Len(acc_dirs), live \cap Fresh = {},
         NEW d \in DirsNamed, NEW c \in Children(d)
  PROVE  \E j \in 1 .. Len(acc_dirs) : /\ j <= Len(list) /\ acc_dirs[j] \in ToSet(acc_dirs)
                                       /\ c = Last(acc_dirs[j]) /\ d \in Above(acc_dirs[j])
<1>1. c \in live /\ c # Top /\ tree.parent[c] = d /\ live \subseteq Node /\ tree \in Trees
  BY DEF Children, Removing, BaseInv, TypeOK
<1>2. /\ DirsNamed \subseteq Within /\ Within \subseteq Dir
      /\ acc_files \in Seq(Path) /\ acc_dirs \in Seq(Path)
      /\ Len(acc_files) \in Nat /\ Len(acc_dirs) \in Nat /\ Len(list) \in Nat
      /\ \A j \in 1 .. Len(acc_dirs) : acc_dirs[j] \in ToSet(acc_dirs) /\ Nested(acc_dirs[j])
  BY NamedFacts DEF Removing
<1>3. c \in Content
  BY <1>1, <1>2, WithinFacts
<1>4. Lasting(c)
  BY <1>1, <1>3, PlainFacts DEF Lasting, Removing
<1>5. d \in Reached
  <2>1. \A path \in ToSet(acc_dirs) : Followed(Last(path)) = Last(path)
    BY <1>1, <1>2, TreeFacts DEF DirsNamed
  <2>. QED
    BY <2>1 DEF DirsNamed, Reached
<1>6. tree.dev[d] = tree.dev[Root]
  <2>1. CASE d = Root
    BY <2>1
  <2>2. CASE d # Root
    <3>1. d \in Content /\ d \in Dir
      BY <1>2, <2>2 DEF DirsNamed, Removing, PlainInv, Nested
    <3>. QED
      BY <1>1, <3>1, PlainFacts DEF Removing
  <2>. QED
    BY <2>1, <2>2
<1>7. walks[d] > 0
  <2>1. Pending = {}
    BY EmptyToSet DEF Removing, BaseInv, PathsOK, Walking, Pending
  <2>. QED
    BY <1>5, <1>6, <2>1 DEF Removing, FoundAll
<1>8. c \in Accumulated
  BY <1>1, <1>4, <1>7 DEF Removing, FoundAll
<1>9. PICK path \in ToSet(acc_dirs) \cup ToSet(acc_files) : c = Last(path)
  BY <1>8 DEF Accumulated
<1>10. path \notin ToSet(acc_files)
  <2>. SUFFICES ASSUME path \in ToSet(acc_files) PROVE FALSE
    OBVIOUS
  <2>1. PICK j \in 1 .. Len(acc_files) : path = acc_files[j]
    BY <1>2, ToSetFacts
  <2>2. j <= Len(acc_files) + Len(acc_dirs) - Len(list)
    BY <1>2
  <2>. QED
    BY <1>1, <1>9, <2>1, <2>2 DEF Removing, RemovedInv
<1>11. PICK j \in 1 .. Len(acc_dirs) : path = acc_dirs[j]
  BY <1>2, <1>9, <1>10, ToSetFacts
<1>12. j <= Len(list)
  BY <1>1, <1>2, <1>9, <1>11 DEF Removing, RemovedInv
<1>13. d \in Above(path)
  <2>1. /\ Nested(path) /\ path \in Path
    BY <1>2, <1>9, <1>10, ToSetFacts DEF Removing, PlainInv
  <2>2. Front(path) \in Path /\ d = Last(Front(path))
    BY <1>1, <1>9, <2>1 DEF Nested
  <2>3. path \in Seq(Node \ {Top}) /\ path # <<>>
    BY <2>1, PathFacts
  <2>4. /\ Len(Front(path)) = Len(path) - 1
        /\ \A i \in 1 .. Len(path) - 1 : Front(path)[i] = path[i]
    BY <2>3, FrontFacts
  <2>5. Len(Front(path)) \in Nat \ {0} /\ Last(Front(path)) = Front(path)[Len(Front(path))]
    BY <2>2, PathFacts
  <2>. QED
    BY <2>2, <2>4, <2>5 DEF Above
<1>. QED
  BY <1>2, <1>9, <1>11, <1>12, <1>13

\* The next element of the list.
LEMMA NextRemoved ==
  ASSUME Removing, RemoveNext
  PROVE  /\ Head(list) \in Path /\ Nested(Head(list))
         /\ Len(list) \in Nat \ {0} /\ Len(list') = Len(list) - 1
         /\ IF Len(list) > Len(acc_dirs)
              THEN /\ Head(list) = acc_files[Len(acc_files) + Len(acc_dirs) - Len(list) + 1]
                   /\ Head(list) \in ToSet(acc_files)
              ELSE /\ Head(list) = acc_dirs[Len(list)] /\ Len(list) \in 1 .. Len(acc_dirs)
                   /\ Head(list) \in ToSet(acc_dirs)
         /\ Remaining'
<1>1. /\ acc_files \in Seq(Path) /\ acc_dirs \in Seq(Path) /\ list \in Seq(Path)
      /\ Len(acc_files) \in Nat /\ Len(acc_dirs) \in Nat /\ Len(list) \in Nat
      /\ \A j \in 1 .. Len(acc_dirs) : acc_dirs[j] \in ToSet(acc_dirs) /\ Nested(acc_dirs[j])
      /\ \A j \in 1 .. Len(acc_files) : acc_files[j] \in ToSet(acc_files) /\ Nested(acc_files[j])
  BY NamedFacts DEF Removing
<1>2. /\ pc = "rm" /\ list # <<>> /\ list' = Tail(list) /\ UNCHANGED <<acc_files, acc_dirs>>
  BY DEF RemoveNext
<1>3. /\ Len(list) \in Nat \ {0} /\ Head(list) \in Path /\ Head(list) = list[1]
      /\ Len(list') = Len(list) - 1
      /\ \A i \in 1 .. Len(list) - 1 : list'[i] = list[i + 1]
  BY <1>1, <1>2
<1>. DEFINE D == Len(acc_dirs)
            F == Len(acc_files)
            L == Len(list)
<1>4. /\ L <= F + D
      /\ \A i \in 1 .. L : IF i <= L - D THEN list[i] = acc_files[F + D - L + i]
                           ELSE list[i] = acc_dirs[L - i + 1]
  BY <1>2 DEF Removing, RemovedInv, Remaining
<1>5. D \in Nat /\ F \in Nat /\ L \in Nat \ {0} /\ 1 \in 1 .. L
  BY <1>1, <1>3
<1>. HIDE DEF D, F, L
<1>6. ASSUME L > D
      PROVE  /\ Head(list) = acc_files[F + D - L + 1]
             /\ Head(list) \in ToSet(acc_files) /\ Nested(Head(list))
  <2>1. 1 <= L - D /\ F + D - L + 1 \in 1 .. F
    BY <1>4, <1>5, <1>6
  <2>2. Head(list) = acc_files[F + D - L + 1]
    BY <1>3, <1>4, <1>5, <2>1
  <2>. QED
    BY <1>1, <2>1, <2>2 DEF F
<1>7. ASSUME ~ (L > D)
      PROVE  /\ Head(list) = acc_dirs[L] /\ L \in 1 .. D
             /\ Head(list) \in ToSet(acc_dirs) /\ Nested(Head(list))
  <2>1. ~ (1 <= L - D) /\ L \in 1 .. D /\ L - 1 + 1 = L
    BY <1>5, <1>7
  <2>2. Head(list) = acc_dirs[L]
    BY <1>3, <1>4, <1>5, <2>1
  <2>. QED
    BY <1>1, <2>1, <2>2 DEF D
<1>8. ASSUME NEW i \in 1 .. L - 1
      PROVE  IF i <= (L - 1) - D THEN list'[i] = acc_files[F + D - (L - 1) + i]
             ELSE list'[i] = acc_dirs[(L - 1) - i + 1]
  <2>1. /\ i + 1 \in 1 .. L /\ (i + 1 <= L - D <=> i <= (L - 1) - D)
        /\ F + D - L + (i + 1) = F + D - (L - 1) + i
        /\ L - (i + 1) + 1 = (L - 1) - i + 1
    BY <1>5
  <2>2. list'[i] = list[i + 1]
    BY <1>3 DEF L
  <2>3. IF i + 1 <= L - D THEN list[i + 1] = acc_files[F + D - L + (i + 1)]
        ELSE list[i + 1] = acc_dirs[L - (i + 1) + 1]
    BY <1>4, <2>1
  <2>. QED
    BY <2>1, <2>2, <2>3
<1>9. L - 1 <= F + D
  BY <1>4, <1>5
<1>10. Remaining'
  BY <1>2, <1>3, <1>8, <1>9 DEF Remaining, D, F, L
<1>. QED
  BY <1>3, <1>6, <1>7, <1>10 DEF D, F, L

LEMMA RemovedFile ==
  ASSUME Removing, RemoveNext, Len(list) > Len(acc_dirs)
  PROVE  RemovedInv'
<1>. DEFINE h == Head(list)
            n == Last(Head(list))
<1>1. /\ h \in Path /\ Nested(h) /\ h \in ToSet(acc_files)
      /\ Len(list) \in Nat \ {0} /\ Len(list') = Len(list) - 1
      /\ h = acc_files[Len(acc_files) + Len(acc_dirs) - Len(list) + 1]
      /\ Remaining'
  BY NextRemoved
<1>2. /\ pc = "rm" /\ pc' = "rm" /\ UNCHANGED <<tree, acc_files, acc_dirs>>
      /\ live' = IF Removable(h) THEN live \ {n} ELSE live
  BY DEF RemoveNext, fs_remove
<1>3. /\ DirsNamed \subseteq Dir /\ tree \in Trees /\ Fresh \cap Dir = {}
      /\ Len(acc_files) \in Nat /\ Len(acc_dirs) \in Nat
      /\ \A j \in 1 .. Len(acc_dirs) : Above(acc_dirs[j]) \subseteq DirsNamed
  BY NamedFacts DEF Removing, Nested
<1>4. n \in Content /\ n \notin Dir
  <2>1. Followed(n) \in File
    BY <1>1 DEF Removing, FoundAll
  <2>. QED
    BY <1>1, <1>3, <2>1, TreeFacts, WalkAssumption DEF Nested
<1>. HIDE DEF h, n
<1>5. Dir \subseteq live
  BY <1>1, <1>2, <1>3 DEF Removing, RemovedInv
<1>6. Above(h) \subseteq Dir \cap live
  BY <1>1, <1>3, <1>5 DEF Nested
<1>7. live' = live \ {n}
  <2>1. Removable(h) <=> n \in live
    BY <1>1, <1>4, <1>6, RemovedEntry DEF h, n
  <2>. QED
    BY <1>2, <2>1
<1>8. Dir \subseteq live' /\ Root \in live'
  BY <1>4, <1>5, <1>7, WalkAssumption
<1>9. Content' = Content
  BY <1>2, PlainStays
<1>10. ASSUME NEW j \in 1 .. Len(acc_files), j <= Len(acc_files) + Len(acc_dirs) - Len(list')
       PROVE  Last(acc_files[j]) \notin live' \ Fresh
  <2>1. CASE j = Len(acc_files) + Len(acc_dirs) - Len(list) + 1
    BY <1>1, <1>7, <2>1 DEF h, n
  <2>2. CASE j # Len(acc_files) + Len(acc_dirs) - Len(list) + 1
    <3>1. j <= Len(acc_files) + Len(acc_dirs) - Len(list)
      BY <1>1, <1>3, <1>10, <2>2
    <3>. QED
      BY <1>2, <1>7, <3>1 DEF Removing, RemovedInv
  <2>. QED
    BY <2>1, <2>2
<1>11. \A j \in 1 .. Len(acc_dirs) : ~ (j > Len(list'))
  BY <1>1, <1>3
<1>12. (Node \ Content) \ (Fresh \cup Doomed) \subseteq live'
  BY <1>4, <1>7 DEF Removing, RemovedInv
<1>. QED
  BY <1>1, <1>2, <1>3, <1>8, <1>9, <1>10, <1>11, <1>12 DEF RemovedInv

LEMMA RemovedDir ==
  ASSUME Removing, RemoveNext, ~ (Len(list) > Len(acc_dirs))
  PROVE  RemovedInv'
<1>. DEFINE h == Head(list)
            n == Last(Head(list))
<1>1. /\ h \in Path /\ Nested(h) /\ h \in ToSet(acc_dirs)
      /\ Len(list) \in Nat \ {0} /\ Len(list') = Len(list) - 1
      /\ h = acc_dirs[Len(list)] /\ Len(list) \in 1 .. Len(acc_dirs)
      /\ Remaining'
  BY NextRemoved
<1>2. /\ pc = "rm" /\ pc' = "rm" /\ UNCHANGED <<tree, acc_files, acc_dirs>>
      /\ live' = IF Removable(h) THEN live \ {n} ELSE live
  BY DEF RemoveNext, fs_remove
<1>3. /\ DirsNamed \subseteq Dir /\ tree \in Trees /\ Fresh \cap Dir = {}
      /\ Len(acc_files) \in Nat /\ Len(acc_dirs) \in Nat
      /\ \A j \in 1 .. Len(acc_dirs) : Above(acc_dirs[j]) \subseteq DirsNamed
  BY NamedFacts DEF Removing, Nested
<1>4. n \in Content /\ n \in DirsNamed /\ n # Root
  BY <1>1 DEF Nested, DirsNamed, Removing, PlainInv
<1>. HIDE DEF h, n
<1>5. Above(h) \subseteq Dir \cap live
  BY <1>1, <1>2, <1>3 DEF Removing, RemovedInv
<1>6. live' \subseteq live /\ live \ {n} \subseteq live' /\ Root \in live'
  BY <1>2, <1>4 DEF Removing, RemovedInv
<1>7. ASSUME live \cap Fresh = {} PROVE n \notin live'
  <2>1. Children(n) = {}
    <3>. SUFFICES ASSUME NEW c \in Children(n) PROVE FALSE
      OBVIOUS
    <3>0. Len(list) <= Len(acc_dirs)
      BY <1>1
    <3>1. PICK j \in 1 .. Len(acc_dirs) : j <= Len(list) /\ n \in Above(acc_dirs[j])
      BY <1>2, <1>4, <1>7, <3>0, OnlyDirsLeft
    <3>2. j \in 1 .. Len(list)
      BY <1>1, <3>1
    <3>. QED
      BY <1>1, <3>1, <3>2 DEF Removing, PlainInv, h, n
  <2>2. Removable(h) <=> n \in live
    BY <1>1, <1>5, <2>1, RemovedEntry DEF h, n
  <2>. QED
    BY <1>2, <2>2
<1>8. Content' = Content
  BY <1>2, PlainStays
<1>9. live' \cap Fresh = {} => live \cap Fresh = {}
  BY <1>3, <1>4, <1>6
<1>10. ASSUME NEW j \in 1 .. Len(acc_dirs), j > Len(list'), live' \cap Fresh = {}
       PROVE  Last(acc_dirs[j]) \notin live'
  <2>1. CASE j = Len(list)
    BY <1>1, <1>7, <1>9, <1>10, <2>1 DEF h, n
  <2>2. CASE j # Len(list)
    <3>1. j > Len(list)
      BY <1>1, <1>10, <2>2
    <3>. QED
      BY <1>2, <1>6, <1>9, <1>10, <3>1 DEF Removing, RemovedInv
  <2>. QED
    BY <2>1, <2>2
<1>11. ASSUME NEW j \in 1 .. Len(acc_dirs), j <= Len(list')
       PROVE  Above(acc_dirs[j]) \subseteq live'
  <2>1. j \in 1 .. Len(list) /\ j <= Len(list)
    BY <1>1, <1>11
  <2>2. n \notin Above(acc_dirs[j])
    BY <1>1, <2>1 DEF Removing, PlainInv, h, n
  <2>3. Above(acc_dirs[j]) \subseteq live
    BY <1>2, <2>1 DEF Removing, RemovedInv
  <2>. QED
    BY <1>6, <2>2, <2>3
<1>12. ~ (Len(list') >= Len(acc_dirs))
  BY <1>1, <1>3
<1>13. \A j \in 1 .. Len(acc_files) : Last(acc_files[j]) \notin live' \ Fresh
  <2>1. \A j \in 1 .. Len(acc_files) : j <= Len(acc_files) + Len(acc_dirs) - Len(list)
    BY <1>1, <1>3
  <2>. QED
    BY <1>2, <1>6, <2>1 DEF Removing, RemovedInv
<1>14. (Node \ Content) \ (Fresh \cup Doomed) \subseteq live'
  BY <1>4, <1>6 DEF Removing, RemovedInv
<1>. QED
  BY <1>1, <1>2, <1>6, <1>8, <1>10, <1>11, <1>12, <1>13, <1>14 DEF RemovedInv

LEMMA RemovedRoot ==
  ASSUME Removing, RemoveRoot
  PROVE  RemovedInv'
<1>1. /\ pc = "rm" /\ pc' = "end" /\ list = <<>>
      /\ UNCHANGED <<tree, acc_files, acc_dirs, list>>
      /\ live' = IF Removable(<<Root>>) THEN live \ {Root} ELSE live
  <2>1. Last(<<Root>>) = Root
    BY DEF Last
  <2>. QED
    BY <2>1 DEF RemoveRoot, fs_remove
<1>2. /\ tree \in Trees /\ Fresh \cap Dir = {} /\ Len(acc_dirs) \in Nat /\ Len(list) = 0
  BY <1>1, NamedFacts DEF Removing
<1>3. Root \in live /\ Root \in Dir /\ Root \in Content /\ Root \in DirsNamed
  BY <1>1, <1>2, WalkAssumption, WithinFacts DEF Removing, RemovedInv, DirsNamed
<1>4. ASSUME live \cap Fresh = {} PROVE Root \notin live'
  <2>1. Children(Root) = {}
    BY <1>1, <1>2, <1>3, <1>4, OnlyDirsLeft
  <2>2. stat(Front(<<Root>>)) = Top
    <3>1. Front(<<Root>>) = <<>>
      BY DEF Front
    <3>2. Resolved(<<>>) /\ Where(<<>>, Len(<<>>) + 1) = Top
      BY DEF Resolved, Where
    <3>. QED
      BY <3>1, <3>2 DEF stat
  <2>3. Root \in Children(Top)
    BY <1>2, <1>3, TreeFacts DEF Children
  <2>4. Last(<<Root>>) = Root
    BY DEF Last
  <2>5. Removable(<<Root>>)
    BY <2>1, <2>2, <2>3, <2>4 DEF Removable
  <2>. QED
    BY <1>1, <2>5
<1>5. live' \subseteq live /\ live \ {Root} \subseteq live'
  BY <1>1
<1>6. live' \cap Fresh = {} => live \cap Fresh = {}
  BY <1>2, <1>3, <1>5
<1>7. Content' = Content
  BY <1>1, PlainStays
<1>8. (Node \ Content) \ (Fresh \cup Doomed) \subseteq live'
  BY <1>3, <1>5 DEF Removing, RemovedInv
<1>. QED
  BY <1>1, <1>4, <1>5, <1>6, <1>7, <1>8 DEF Removing, RemovedInv

LEMMA RemovedOthers ==
  ASSUME Removing, NEW n \in Node, Make(n) \/ Delete(n)
  PROVE  RemovedInv'
<1>1. /\ UNCHANGED Program /\ pc # "end"
      /\ \/ n \in Fresh /\ live' = live \cup {n}
         \/ n \in Doomed /\ live' = live \ {n}
  BY OthersFacts DEF Removing
<1>2. UNCHANGED <<tree, op, pc, list, acc_files, acc_dirs>>
  BY <1>1 DEF Program
<1>3. Content' = Content
  BY <1>2, PlainStays
<1>4. /\ DirsNamed \subseteq Dir /\ Fresh \cap Dir = {} /\ Doomed \cap Dir = {}
      /\ Fresh \cap Doomed = {}
      /\ \A j \in 1 .. Len(acc_dirs) : Above(acc_dirs[j]) \subseteq DirsNamed
  BY NamedFacts DEF Removing, Nested, PlainTree
<1>5. Remaining' <=> Remaining
  BY <1>2 DEF Remaining
<1>6. /\ live' \ Fresh \subseteq live
      /\ live' \cap Fresh = {} => live \cap Fresh = {} /\ live' \subseteq live
      /\ \A d \in Dir : d \in live => d \in live'
  BY <1>1, <1>4
<1>7. (Node \ Content) \ (Fresh \cup Doomed) \subseteq live'
  BY <1>1 DEF Removing, RemovedInv
<1>8. \A j \in 1 .. Len(acc_dirs) : Above(acc_dirs[j]) \subseteq live => Above(acc_dirs[j]) \subseteq live'
  BY <1>4, <1>6
<1>9. Root \in live => Root \in live'
  BY <1>6, WalkAssumption
<1>10. Dir \subseteq live => Dir \subseteq live'
  BY <1>6
<1>. QED
  BY <1>1, <1>2, <1>3, <1>5, <1>6, <1>7, <1>8, <1>9, <1>10 DEF Removing, RemovedInv

\* While the directory is walked, nothing is removed.
LEMMA RemovedIdle ==
  ASSUME RemovedInv, UNCHANGED <<tree, live>>,
         \/ pc' \notin {"rm", "end"}
         \/ UNCHANGED <<pc, list, acc_files, acc_dirs>>
  PROVE  RemovedInv'
<1>1. Content' = Content
  BY PlainStays
<1>2. UNCHANGED <<list, acc_files, acc_dirs>> => (Remaining' <=> Remaining)
  BY DEF Remaining
<1>. QED
  BY <1>1, <1>2 DEF RemovedInv

LEMMA RemovedStep == ASSUME Removing, [Next]_vars PROVE RemovedInv'
<1>0. RemovedInv
  BY DEF Removing
<1>1. CASE Inode
  BY <1>0, <1>1, InodeFacts, RemovedIdle DEF fs, Removing
<1>2. CASE ListDir
  <2>1. pc' \notin {"rm", "end"} /\ UNCHANGED <<tree, live>>
    BY <1>2 DEF ListDir, fs
  <2>. QED
    BY <1>0, <2>1, RemovedIdle
<1>3. CASE \E n \in Node : Stat(n)
  <2>1. pc' \notin {"rm", "end"} /\ UNCHANGED <<tree, live>>
    BY <1>3 DEF Stat, fs
  <2>. QED
    BY <1>0, <2>1, RemovedIdle
<1>4. CASE EndOfWalk
  BY <1>4, RemovedEndOfWalk
<1>5. CASE RemoveNext
  BY <1>5, RemovedFile, RemovedDir
<1>6. CASE RemoveRoot
  BY <1>6, RemovedRoot
<1>7. CASE \E n \in Node : Make(n) \/ Delete(n)
  BY <1>7, RemovedOthers
<1>8. CASE UNCHANGED vars
  BY <1>0, <1>8, RemovedIdle DEF vars, fs
<1>. QED
  BY <1>1, <1>2, <1>3, <1>4, <1>5, <1>6, <1>7, <1>8 DEF Next, Step

LEMMA RemovedInit == ASSUME Init PROVE RemovedInv
  BY DEF Init, RemovedInv

LEMMA OpStays == ASSUME [Next]_vars PROVE UNCHANGED op
  BY DEF Next, Step, Inode, ListDir, Stat, EndOfWalk, RemoveNext, RemoveRoot, Make, Delete, vars

RmdirOK == PlainTree => PlainInv /\ (op = "rmdir" => RemovedInv)

\* All the directories under Root have been listed.
LEMMA WithinIsWalked ==
  ASSUME Removing, pc = "end"
  PROVE  \A d \in Within : walks[d] > 0
<1>1. tree \in Trees /\ Pending = {}
  BY EmptyToSet DEF Removing, BaseInv, TypeOK, PathsOK, Walking, Pending
<1>2. \A d \in Reached : tree.dev[d] = tree.dev[Root] => walks[d] > 0
  BY <1>1 DEF Removing, FoundAll
<1>. DEFINE E == {d \in Within : walks[d] > 0}
<1>3. Root \in E /\ E \in SUBSET Dir
  BY <1>1, <1>2, WithinFacts DEF Reached
<1>4. ASSUME NEW d \in Dir \ {Top}, tree.parent[d] \in E PROVE d \in E
  <2>1. d \in Within /\ d \in Content /\ d \in Node \ {Top}
    BY <1>1, <1>4, WithinFacts DEF Node
  <2>2. Followed(d) = d /\ Lasting(d)
    BY <1>1, <1>4, TreeFacts, WalkAssumption DEF Lasting
  <2>3. d \in Accumulated
    BY <1>4, <2>1, <2>2 DEF Removing, FoundAll
  <2>4. PICK path \in ToSet(acc_dirs) \cup ToSet(acc_files) : d = Last(path)
    BY <2>3 DEF Accumulated
  <2>5. path \in ToSet(acc_dirs)
    BY <1>4, <2>2, <2>4, WalkAssumption DEF Removing, FoundAll
  <2>6. d \in Reached
    BY <2>2, <2>4, <2>5 DEF Reached
  <2>7. tree.dev[d] = tree.dev[Root]
    BY <1>1, <1>4, <2>1, PlainFacts DEF Removing
  <2>. QED
    BY <1>2, <2>1, <2>6, <2>7
<1>. HIDE DEF E
<1>5. Within \subseteq E
  BY <1>3, <1>4, WithinIsLeast
<1>. QED
  BY <1>5 DEF E

\* In a directory without surprise, rmdir removes what is there, unless another
\* process makes a file that is not found, and nothing else.
THEOREM PlainRmdir == Spec => []PlainRmdirIsExact
<1>1. BaseInv /\ FoundAll /\ RmdirOK => PlainRmdirIsExact
  <2>. SUFFICES ASSUME BaseInv, FoundAll, RmdirOK, PlainTree, pc = "end", op = "rmdir",
                       live \cap Fresh = {}
                PROVE  live \ Doomed = Node \ (Content \cup Fresh \cup Doomed)
    BY DEF PlainRmdirIsExact, RmdirIsExact
  <2>1. Removing /\ tree \in Trees /\ live \subseteq Node
    BY DEF Removing, RmdirOK, BaseInv, TypeOK
  <2>2. Node \ (Content \cup Fresh \cup Doomed) \subseteq live \ Doomed
    BY DEF RmdirOK, RemovedInv
  <2>3. ASSUME NEW n \in Content, n \in live, n \notin Doomed PROVE FALSE
    <3>1. n # Root
      BY <2>3 DEF RmdirOK, RemovedInv
    <3>2. n \in Node \ {Top} /\ tree.parent[n] \in Within
      BY <2>1, <2>3, <3>1, WithinFacts
    <3>3. walks[tree.parent[n]] > 0
      BY <2>1, <3>2, WithinIsWalked
    <3>4. Lasting(n)
      BY <2>1, <2>3, <3>2, PlainFacts DEF Lasting
    <3>5. n \in Accumulated
      BY <3>2, <3>3, <3>4 DEF FoundAll
    <3>6. PICK path \in ToSet(acc_dirs) \cup ToSet(acc_files) : n = Last(path)
      BY <3>5 DEF Accumulated
    <3>7. /\ acc_files \in Seq(Path) /\ acc_dirs \in Seq(Path)
          /\ Len(acc_files) \in Nat /\ Len(acc_dirs) \in Nat /\ Len(list) = 0
      BY NamedFacts DEF RmdirOK, RemovedInv
    <3>8. CASE path \in ToSet(acc_files)
      <4>1. PICK j \in 1 .. Len(acc_files) : path = acc_files[j]
        BY <3>7, <3>8, ToSetFacts
      <4>2. j <= Len(acc_files) + Len(acc_dirs) - Len(list)
        BY <3>7
      <4>. QED
        BY <2>3, <3>6, <4>1, <4>2 DEF RmdirOK, RemovedInv
    <3>9. CASE path \in ToSet(acc_dirs)
      <4>1. PICK j \in 1 .. Len(acc_dirs) : path = acc_dirs[j]
        BY <3>7, <3>9, ToSetFacts
      <4>2. j > Len(list)
        BY <3>7
      <4>. QED
        BY <2>3, <3>6, <4>1, <4>2 DEF RmdirOK, RemovedInv
    <3>. QED
      BY <3>6, <3>8, <3>9
  <2>. QED
    BY <2>1, <2>2, <2>3
<1>2. Init => FoundAll /\ RmdirOK
  BY FoundAllInit, PlainInit, RemovedInit DEF RmdirOK
<1>3. BaseInv /\ FoundAll /\ RmdirOK /\ [Next]_vars => FoundAll' /\ RmdirOK'
  <2>. SUFFICES ASSUME BaseInv, FoundAll, RmdirOK, [Next]_vars PROVE FoundAll' /\ RmdirOK'
    OBVIOUS
  <2>1. FoundAll'
    BY FoundAllStep
  <2>2. (PlainTree' <=> PlainTree) /\ op' = op
    BY TreeStays, OpStays, PlainStays
  <2>3. PlainTree => PlainInv'
    BY PlainStep DEF RmdirOK
  <2>4. PlainTree /\ op = "rmdir" => RemovedInv'
    BY RemovedStep DEF RmdirOK, Removing
  <2>. QED
    BY <2>1, <2>2, <2>3, <2>4 DEF RmdirOK
<1>. QED
  BY BaseInit, BaseStep, <1>1, <1>2, <1>3, PTL DEF Spec

=============================================================================
