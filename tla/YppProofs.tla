----------------------------- MODULE YppProofs ------------------------------
(***************************************************************************)
(* A run of ypp: configurations are restored, the functions given to       *)
(* atexit are called in order, the tags of the output are replaced, the    *)
(* dependency file is complete, what a run that fails leaves, and the main *)
(* output is the expansion of the input files.                             *)
(***************************************************************************)
EXTENDS YppExpansion, YppImage, InductionLemmas, FiniteSetTheorems

FrameRecord == [kind : {"file", "text", "fun"}, items : Seq(Item)]
FileRecord  == [name : Output, content : Seq(Token)]
DepRecord   == [kind : {"dep"}, ins : SUBSET File, outs : SUBSET Output]
MainRecord  == [kind : {"main"}, content : Seq(Token)]

EvalType ==
  /\ stack \in Seq(FrameRecord) /\ lconf \in Seq(Char)
  /\ input_files \in Seq(File) /\ count \in Nat

OutType == output_contents \in Seq(Token) /\ known_input_files \subseteq File

DeferType ==
  /\ deferred_functions \in Seq(Fn) /\ ntags \in Nat
  /\ visited \in Seq(Nat) /\ ToSet(visited) \subseteq Tags
  /\ DOMAIN results = ToSet(visited)
  /\ \A id \in ToSet(visited) : results[id] \in Seq(Token)

AtexitType ==
  functions \in Seq(Fn) /\ fs \in Seq(Fn) /\ asked \in Seq(Fn) /\ ran \in Seq(Fn)

DiskType ==
  /\ files \in Seq(FileRecord)
  /\ dep \in DepRecord \cup {Absent} /\ main \in MainRecord \cup {Absent}
  /\ DOMAIN saved \subseteq Output

\* The variables have their types, and something is evaluated in three phases
\* only.
TypeOK ==
  /\ content \in [File -> Seq(Item)]
  /\ phase \in Phase /\ failed \in BOOLEAN /\ index \in 0 .. Len(Input)
  /\ EvalType /\ OutType /\ DeferType /\ AtexitType /\ DiskType
  /\ stack # <<>> => phase \in {"files", "atexit", "replace"}
  /\ stack # <<>> /\ phase = "replace" => visited # <<>>

-----------------------------------------------------------------------------
(* Items and frames. *)

LEMMA ItemByOp ==
  ASSUME NEW it \in Item
  PROVE  /\ it.op \in {"include", "read"} => it.file \in File \cup Missing
         /\ it.op = "ypp" => it.file \in File
         /\ it.op = "macro" => it.new \in Char
         /\ it.op \in {"defer", "atexit", "putdefer"} => it.fn \in Fn
         /\ it.op \in {"file", "put", "putbool", "putdefer"} => it.name \in Output
BY DEF Item

LEMMA Bodies ==
  ASSUME NEW fn \in Fn
  PROVE  Body[fn] \in Seq(Item) /\ Frame("fun", Body[fn]) \in FrameRecord
BY ItemAssumption DEF Frame, FrameRecord

LEMMA Documents ==
  ASSUME TypeOK, NEW f \in File, NEW k \in {"file", "text"}
  PROVE  Frame(k, content[f]) \in FrameRecord
BY DEF TypeOK, Frame, FrameRecord

LEMMA TokensAre ==
  /\ text \in Token /\ text.kind # "tag"
  /\ boolean \in Token /\ boolean.kind # "tag"
  /\ \A it \in Item : raw(it) \in Token /\ raw(it).kind # "tag"
  /\ \A n \in Nat : value(n) \in Token /\ value(n).kind # "tag"
  /\ \A id \in Nat \ {0} : tag(id) \in Token /\ tag(id).kind = "tag" /\ tag(id).id = id
BY DEF Token, text, raw, value, tag, boolean

\* What Running says of the innermost document or function.
LEMMA TopFacts ==
  ASSUME EvalType, stack # <<>>
  PROVE  /\ Len(stack) \in Nat \ {0} /\ top = stack[Len(stack)] /\ top \in FrameRecord
         /\ top.items # <<>> =>
              /\ next_item \in Item /\ next_item = top.items[1] /\ 1 \in DOMAIN top.items
              /\ Tail(top.items) \in Seq(Item)
              /\ \A i \in DOMAIN Tail(top.items) :
                   i + 1 \in DOMAIN top.items /\ Tail(top.items)[i] = top.items[i+1]
<1>1. Len(stack) \in Nat \ {0} /\ top = stack[Len(stack)] /\ top \in FrameRecord
  BY DEF EvalType, top, Last
<1>2. top.items \in Seq(Item)
  BY <1>1 DEF FrameRecord
<1>3. ASSUME NEW s \in Seq(Item), s # <<>>
      PROVE  /\ Head(s) \in Item /\ Head(s) = s[1] /\ 1 \in DOMAIN s /\ Tail(s) \in Seq(Item)
             /\ \A i \in DOMAIN Tail(s) : i + 1 \in DOMAIN s /\ Tail(s)[i] = s[i+1]
  BY <1>3
<1>. QED
  BY <1>1, <1>2, <1>3 DEF next_item

LEMMA FrontFacts ==
  ASSUME NEW S, NEW s \in Seq(S), s # <<>>
  PROVE  /\ Front(s) \in Seq(S) /\ Len(Front(s)) = Len(s) - 1
         /\ Len(s) \in Nat \ {0} /\ Last(s) = s[Len(s)] /\ Last(s) \in S
         /\ \A i \in 1 .. Len(s) - 1 : Front(s)[i] = s[i]
<1>1. Len(s) \in Nat \ {0}
  OBVIOUS
<1>. DEFINE k == Len(s) - 1
<1>2. k \in Nat /\ k <= Len(s)
  BY <1>1
<1>3. Front(s) = SubSeq(s, 1, k)
  BY DEF Front
<1>. HIDE DEF k
<1>4. SubSeq(s, 1, k) \in Seq(S) /\ Len(SubSeq(s, 1, k)) = k
  BY <1>2
<1>5. \A i \in 1 .. k : SubSeq(s, 1, k)[i] = s[i]
  BY <1>2
<1>. QED
  BY <1>1, <1>3, <1>4, <1>5 DEF k, Last

\* A sequence whose last element is replaced.
Replaces(t, s, x, S) ==
  /\ t \in Seq(S) /\ Len(t) = Len(s) /\ t[Len(s)] = x
  /\ \A i \in 1 .. Len(s) : i # Len(s) => t[i] = s[i]

LEMMA ReplaceLast ==
  ASSUME NEW S, NEW s \in Seq(S), s # <<>>, NEW x \in S
  PROVE  Replaces(Front(s) \o <<x>>, s, x, S)
<1>. DEFINE n == Len(s)
            f == Front(s)
            t == f \o <<x>>
<1>1. /\ f \in Seq(S) /\ Len(f) = n - 1 /\ n \in Nat \ {0}
      /\ \A i \in 1 .. n - 1 : f[i] = s[i]
  BY FrontFacts
<1>0. t = f \o <<x>>
  OBVIOUS
<1>. HIDE DEF n, f, t
<1>2. t \in Seq(S) /\ Len(t) = n /\ t[n] = x /\ \A i \in 1 .. n - 1 : t[i] = f[i]
  <2>. DEFINE u == <<x>>
  <2>1. u \in Seq(S) /\ Len(u) = 1 /\ u[1] = x
    OBVIOUS
  <2>2. f \in Seq(S) /\ Len(f) = n - 1 /\ n \in Nat \ {0}
    BY <1>1
  <2>3. t = f \o u
    BY <1>0
  <2>. HIDE DEF u
  <2>4. /\ f \o u \in Seq(S) /\ Len(f \o u) = Len(f) + Len(u)
        /\ \A i \in 1 .. Len(f) + Len(u) :
             (f \o u)[i] = IF i <= Len(f) THEN f[i] ELSE u[i - Len(f)]
    BY <2>1, <2>2, ConcatProperties
  <2>5. n \in 1 .. Len(f) + Len(u) /\ ~ (n <= Len(f)) /\ n - Len(f) = 1
    BY <2>1, <2>2
  <2>6. t \in Seq(S) /\ Len(t) = n
    BY <2>1, <2>2, <2>3, <2>4
  <2>7. t[n] = x
    BY <2>1, <2>3, <2>4, <2>5
  <2>8. ASSUME NEW i \in 1 .. n - 1 PROVE t[i] = f[i]
    <3>1. i \in 1 .. Len(f) + Len(u) /\ i <= Len(f)
      BY <2>1, <2>2
    <3>. QED
      BY <2>3, <2>4, <3>1
  <2>. QED
    BY <2>6, <2>7, <2>8
<1>3. \A i \in 1 .. n : i # n => t[i] = s[i]
  BY <1>1, <1>2
<1>. QED
  BY <1>2, <1>3 DEF n, f, t, Replaces

LEMMA AdvancedFacts ==
  ASSUME EvalType, stack # <<>>, top.items # <<>>
  PROVE  /\ Advanced \in Seq(FrameRecord) /\ Len(Advanced) = Len(stack)
         /\ Advanced[Len(stack)] = [top EXCEPT !.items = Tail(top.items)]
         /\ \A i \in 1 .. Len(stack) : i # Len(stack) => Advanced[i] = stack[i]
         /\ \A i \in 1 .. Len(stack) : Advanced[i].kind = stack[i].kind
<1>. DEFINE new == [top EXCEPT !.items = Tail(top.items)]
<1>1. new \in FrameRecord /\ new.kind = top.kind
  BY TopFacts DEF FrameRecord
<1>2. top = stack[Len(stack)] /\ stack \in Seq(FrameRecord)
  BY TopFacts DEF EvalType
<1>. HIDE DEF new
<1>3. /\ Advanced \in Seq(FrameRecord) /\ Len(Advanced) = Len(stack)
      /\ Advanced[Len(stack)] = new
      /\ \A i \in 1 .. Len(stack) : i # Len(stack) => Advanced[i] = stack[i]
  <2>1. stack # <<>> /\ new \in FrameRecord /\ stack \in Seq(FrameRecord)
    BY <1>1, <1>2
  <2>2. Advanced = Front(stack) \o <<new>>
    BY DEF Advanced, new
  <2>3. Replaces(Advanced, stack, new, FrameRecord)
    BY <2>1, <2>2, ReplaceLast
  <2>. QED
    BY <2>3 DEF Replaces
<1>4. \A i \in 1 .. Len(stack) : Advanced[i].kind = stack[i].kind
  BY <1>1, <1>2, <1>3
<1>. QED
  BY <1>3, <1>4 DEF new

-----------------------------------------------------------------------------
(* Type correctness. *)

LEMMA KeepOut == ASSUME OutType, UNCHANGED OutState PROVE OutType'
BY DEF OutType, OutState

LEMMA KeepDefer == ASSUME DeferType, UNCHANGED DeferState PROVE DeferType'
BY DEF DeferType, DeferState, Tags

LEMMA KeepAtexit == ASSUME AtexitType, UNCHANGED AtexitState PROVE AtexitType'
BY DEF AtexitType, AtexitState

LEMMA KeepDisk == ASSUME DiskType, UNCHANGED <<files, DiskState>> PROVE DiskType'
BY DEF DiskType, DiskState

\* The control of the program stays where it is.
LEMMA Settled ==
  ASSUME TypeOK, UNCHANGED <<content, phase, index>>, failed' \in BOOLEAN, EvalType', OutType',
         DeferType', AtexitType', DiskType', UNCHANGED visited, stack # <<>> \/ stack' = <<>>
  PROVE  TypeOK'
BY DEF TypeOK

LEMMA TypeFail == ASSUME TypeOK, Fail, UNCHANGED content PROVE TypeOK'
<1>1. EvalType'
  BY DEF TypeOK, EvalType, Fail, EvalState
<1>2. OutType' /\ DeferType' /\ AtexitType' /\ DiskType'
  BY KeepOut, KeepDefer, KeepAtexit, KeepDisk DEF TypeOK, Fail
<1>3. UNCHANGED <<phase, index, visited, stack>> /\ failed' = TRUE
  BY DEF Fail, DeferState, EvalState
<1>. QED
  BY <1>1, <1>2, <1>3, Settled

\* The next item of the innermost document or function is done.
LEMMA TypeAdvance ==
  ASSUME EvalType, stack # <<>>, top.items # <<>>, stack' = Advanced,
         lconf' \in Seq(Char), input_files' = input_files, count' \in Nat
  PROVE  EvalType'
BY AdvancedFacts DEF EvalType

\* A document or a function is evaluated next.
LEMMA TypePush ==
  ASSUME NEW s \in Seq(FrameRecord), NEW frame \in FrameRecord, stack' = Append(s, frame),
         lconf' \in Seq(Char), input_files' \in Seq(File), count' \in Nat
  PROVE  EvalType'
BY DEF EvalType

LEMMA TypeYield ==
  ASSUME TypeOK, stack # <<>>, NEW toks \in Seq(Token), Yield(toks),
         UNCHANGED <<visited, ntags>>, deferred_functions' \in Seq(Fn),
         Len(deferred_functions) <= Len(deferred_functions')
  PROVE  output_contents' \in Seq(Token) /\ DeferType'
<1>1. /\ OutType /\ DeferType /\ phase \in {"files", "atexit", "replace"}
      /\ phase = "replace" => visited # <<>>
  BY DEF TypeOK
<1>2. ToSet(visited) \subseteq Tags'
  BY <1>1 DEF DeferType, Tags
<1>3. output_contents' \in Seq(Token)
  <2>1. output_contents \o toks \in Seq(Token)
    BY <1>1, ConcatProperties DEF OutType
  <2>. QED
    BY <1>1, <2>1 DEF OutType, Yield
<1>4. /\ DOMAIN results' = DOMAIN results
      /\ \A id \in ToSet(visited) : results'[id] \in Seq(Token)
  <2>1. CASE phase # "replace"
    <3>1. results' = results
      BY <1>1, <2>1 DEF Yield
    <3>. QED
      BY <1>1, <3>1 DEF DeferType
  <2>2. CASE phase = "replace"
    <3>. DEFINE last == Last(visited)
    <3>1. last \in ToSet(visited)
      <4>1. Len(visited) \in DOMAIN visited
        BY <1>1, <2>2 DEF DeferType
      <4>. QED
        BY <4>1 DEF Last, ToSet
    <3>2. results' = [results EXCEPT ![last] = @ \o toks]
      BY <2>2 DEF Yield
    <3>. HIDE DEF last
    <3>3. results[last] \o toks \in Seq(Token)
      BY <1>1, <3>1, ConcatProperties DEF DeferType
    <3>. QED
      BY <1>1, <3>1, <3>2, <3>3 DEF DeferType
  <2>. QED
    BY <2>1, <2>2
<1>. QED
  BY <1>1, <1>2, <1>3, <1>4 DEF DeferType

\* What an expression may use to be evaluated.
LEMMA EvaluatingFacts ==
  ASSUME TypeOK, NEW op, Evaluating(op)
  PROVE  /\ EvalType /\ OutType /\ DeferType /\ AtexitType /\ DiskType
         /\ stack # <<>> /\ top.items # <<>> /\ ~failed /\ Active(next_item)
         /\ next_item \in Item /\ next_item.op = op
BY TopFacts DEF TypeOK, Evaluating, Running

LEMMA TypeText == ASSUME TypeOK, Text, UNCHANGED content PROVE TypeOK'
<1>1. /\ EvalType /\ OutType /\ AtexitType /\ DiskType /\ failed \in BOOLEAN
      /\ stack # <<>> /\ top.items # <<>> /\ DeferType
  BY DEF TypeOK, Text, Running
<1>. DEFINE tok  == IF next_item.op = "text" THEN text ELSE raw(next_item)
            toks == <<tok>>
<1>2. /\ stack' = Advanced /\ Yield(toks)
      /\ UNCHANGED <<phase, failed, index, lconf, input_files, count, known_input_files,
                     deferred_functions, visited, ntags, AtexitState, files, DiskState>>
  BY DEF Text
<1>3. tok \in Token
  BY <1>1, TopFacts, TokensAre
<1>. HIDE DEF tok
<1>4. toks \in Seq(Token)
  BY <1>3
<1>. HIDE DEF toks
<1>5. EvalType'
  BY <1>1, <1>2, TypeAdvance DEF EvalType
<1>6. deferred_functions' \in Seq(Fn) /\ Len(deferred_functions) <= Len(deferred_functions')
  BY <1>1, <1>2 DEF DeferType
<1>7. output_contents' \in Seq(Token) /\ DeferType'
  BY <1>1, <1>2, <1>4, <1>6, TypeYield
<1>8. AtexitType' /\ DiskType'
  BY <1>1, <1>2, KeepAtexit, KeepDisk
<1>. QED
  BY <1>1, <1>2, <1>5, <1>7, <1>8, Settled DEF OutType

LEMMA TypeCount == ASSUME TypeOK, Count, UNCHANGED content PROVE TypeOK'
<1>1. /\ EvalType /\ OutType /\ DeferType /\ AtexitType /\ DiskType /\ failed \in BOOLEAN
      /\ stack # <<>> /\ top.items # <<>>
  BY EvaluatingFacts DEF Count, TypeOK
<1>2. /\ stack' = Advanced /\ count' = count + 1
      /\ UNCHANGED <<phase, failed, index, lconf, input_files, OutState, DeferState,
                     AtexitState, files, DiskState>>
  BY DEF Count
<1>3. EvalType'
  BY <1>1, <1>2, TypeAdvance DEF EvalType
<1>4. OutType' /\ DeferType' /\ AtexitType' /\ DiskType'
  BY <1>1, <1>2, KeepOut, KeepDefer, KeepAtexit, KeepDisk
<1>. QED
  BY <1>1, <1>2, <1>3, <1>4, Settled DEF DeferState

LEMMA TypeShow == ASSUME TypeOK, Show, UNCHANGED content PROVE TypeOK'
<1>1. /\ EvalType /\ OutType /\ DeferType /\ AtexitType /\ DiskType /\ failed \in BOOLEAN
      /\ stack # <<>> /\ top.items # <<>>
  BY EvaluatingFacts DEF Show, TypeOK
<1>. DEFINE toks == <<value(count)>>
<1>2. /\ stack' = Advanced /\ Yield(toks)
      /\ UNCHANGED <<phase, failed, index, lconf, input_files, count, known_input_files,
                     deferred_functions, visited, ntags, AtexitState, files, DiskState>>
  BY DEF Show
<1>4. toks \in Seq(Token)
  BY <1>1, TokensAre DEF EvalType
<1>. HIDE DEF toks
<1>5. EvalType'
  BY <1>1, <1>2, TypeAdvance DEF EvalType
<1>6. deferred_functions' \in Seq(Fn) /\ Len(deferred_functions) <= Len(deferred_functions')
  BY <1>1, <1>2 DEF DeferType
<1>7. output_contents' \in Seq(Token) /\ DeferType'
  BY <1>1, <1>2, <1>4, <1>6, TypeYield
<1>8. AtexitType' /\ DiskType'
  BY <1>1, <1>2, KeepAtexit, KeepDisk
<1>. QED
  BY <1>1, <1>2, <1>5, <1>7, <1>8, Settled DEF OutType

LEMMA TypeInclude == ASSUME TypeOK, Include, UNCHANGED content PROVE TypeOK'
<1>1. /\ EvalType /\ OutType /\ DeferType /\ AtexitType /\ DiskType /\ failed \in BOOLEAN
      /\ stack # <<>> /\ top.items # <<>>
  BY EvaluatingFacts DEF Include, TypeOK
<1>. DEFINE f == next_item.file
<1>2. CASE Fail
  BY <1>2, TypeFail
<1>3. CASE ~Fail
  <2>1. /\ f \in File /\ input_files' = Append(input_files, f)
        /\ known_input_files' = known_input_files \cup {f}
        /\ lconf' = Append(lconf, MainChar)
        /\ stack' = Append(Advanced, Frame("file", content[f]))
        /\ UNCHANGED <<phase, failed, index, count, output_contents, DeferState,
                       AtexitState, files, DiskState>>
    BY <1>3 DEF Include
  <2>. HIDE DEF f
  <2>2. Frame("file", content[f]) \in FrameRecord /\ Advanced \in Seq(FrameRecord)
    BY <1>1, <2>1, Documents, AdvancedFacts
  <2>3. /\ input_files' \in Seq(File) /\ lconf' \in Seq(Char)
        /\ known_input_files' \subseteq File
    BY <1>1, <2>1, ItemAssumption DEF EvalType, OutType
  <2>4. EvalType'
    BY <1>1, <2>1, <2>2, <2>3, TypePush DEF EvalType
  <2>5. OutType' /\ DeferType' /\ AtexitType' /\ DiskType'
    BY <1>1, <2>1, <2>3, KeepDefer, KeepAtexit, KeepDisk DEF OutType
  <2>. QED
    BY <1>1, <2>1, <2>4, <2>5, Settled DEF DeferState
<1>. QED
  BY <1>2, <1>3

LEMMA TypePreprocess == ASSUME TypeOK, Preprocess, UNCHANGED content PROVE TypeOK'
<1>1. /\ EvalType /\ OutType /\ DeferType /\ AtexitType /\ DiskType /\ failed \in BOOLEAN
      /\ stack # <<>> /\ top.items # <<>> /\ next_item.file \in File
  BY EvaluatingFacts, ItemByOp DEF Preprocess, TypeOK
<1>2. CASE Fail
  BY <1>2, TypeFail
<1>3. CASE ~Fail
  <2>1. /\ \/ stack' = Advanced
           \/ stack' = Append(Advanced, Frame("text", content[next_item.file]))
        /\ UNCHANGED <<phase, failed, index, lconf, input_files, count, OutState, DeferState,
                       AtexitState, files, DiskState>>
    BY <1>3 DEF Preprocess
  <2>2. /\ Frame("text", content[next_item.file]) \in FrameRecord
        /\ Advanced \in Seq(FrameRecord)
    BY <1>1, Documents, AdvancedFacts
  <2>3. EvalType'
    <3>1. CASE stack' = Advanced
      BY <1>1, <2>1, <3>1, TypeAdvance DEF EvalType
    <3>2. CASE stack' = Append(Advanced, Frame("text", content[next_item.file]))
      BY <1>1, <2>1, <2>2, <3>2, TypePush DEF EvalType
    <3>. QED
      BY <2>1, <3>1, <3>2
  <2>4. OutType' /\ DeferType' /\ AtexitType' /\ DiskType'
    BY <1>1, <2>1, KeepOut, KeepDefer, KeepAtexit, KeepDisk
  <2>. QED
    BY <1>1, <2>1, <2>3, <2>4, Settled DEF DeferState
<1>. QED
  BY <1>2, <1>3

LEMMA TypeRead == ASSUME TypeOK, Read, UNCHANGED content PROVE TypeOK'
<1>1. /\ EvalType /\ OutType /\ DeferType /\ AtexitType /\ DiskType /\ failed \in BOOLEAN
      /\ stack # <<>> /\ top.items # <<>>
  BY EvaluatingFacts DEF Read, TypeOK
<1>2. CASE Fail
  BY <1>2, TypeFail
<1>3. CASE ~Fail
  <2>. DEFINE f    == next_item.file
              toks == <<text>>
  <2>1. /\ f \in File /\ known_input_files' = known_input_files \cup {f}
        /\ stack' = Advanced /\ Yield(toks)
        /\ UNCHANGED <<phase, failed, index, lconf, input_files, count, deferred_functions,
                       visited, ntags, AtexitState, files, DiskState>>
    BY <1>3 DEF Read
  <2>2. toks \in Seq(Token)
    BY TokensAre
  <2>. HIDE DEF f, toks
  <2>3. EvalType'
    BY <1>1, <2>1, TypeAdvance DEF EvalType
  <2>4. output_contents' \in Seq(Token) /\ DeferType'
    BY <1>1, <2>1, <2>2, TypeYield DEF DeferType
  <2>. QED
    BY <1>1, <2>1, <2>3, <2>4, KeepAtexit, KeepDisk, Settled DEF OutType
<1>. QED
  BY <1>2, <1>3

LEMMA TypeMacro == ASSUME TypeOK, Macro, UNCHANGED content PROVE TypeOK'
<1>1. /\ EvalType /\ OutType /\ DeferType /\ AtexitType /\ DiskType /\ failed \in BOOLEAN
      /\ stack # <<>> /\ top.items # <<>> /\ next_item.new \in Char
  BY EvaluatingFacts, ItemByOp DEF Macro, TypeOK
<1>2. CASE Fail
  BY <1>2, TypeFail
<1>3. CASE ~Fail
  <2>1. /\ lconf # <<>> /\ lconf' = Front(lconf) \o <<next_item.new>>
        /\ stack' = Advanced
        /\ UNCHANGED <<phase, failed, index, input_files, count, OutState, DeferState,
                       AtexitState, files, DiskState>>
    BY <1>3 DEF Macro
  <2>2. lconf' \in Seq(Char)
    <3>1. Replaces(Front(lconf) \o <<next_item.new>>, lconf, next_item.new, Char)
      BY <1>1, <2>1, ReplaceLast DEF EvalType
    <3>. QED
      BY <2>1, <3>1 DEF Replaces
  <2>3. EvalType'
    BY <1>1, <2>1, <2>2, TypeAdvance DEF EvalType
  <2>4. OutType' /\ DeferType' /\ AtexitType' /\ DiskType'
    BY <1>1, <2>1, KeepOut, KeepDefer, KeepAtexit, KeepDisk
  <2>. QED
    BY <1>1, <2>1, <2>3, <2>4, Settled DEF DeferState
<1>. QED
  BY <1>2, <1>3

\* A new tag.
LEMMA TagFacts ==
  ASSUME DeferType, NEW fn \in Fn, MakeTag(fn)
  PROVE  /\ NewTag \in Nat \ {0} /\ deferred_functions' \in Seq(Fn)
         /\ Len(deferred_functions') = Len(deferred_functions) + 1
         /\ NewTag = Len(deferred_functions') /\ Tags \subseteq Tags'
         /\ UNCHANGED <<visited, ntags>>
         /\ deferred_functions'[NewTag] = fn
         /\ \A i \in 1 .. Len(deferred_functions) :
              deferred_functions'[i] = deferred_functions[i]
<1>1. deferred_functions \in Seq(Fn) /\ deferred_functions' = Append(deferred_functions, fn)
  BY DEF DeferType, MakeTag
<1>. QED
  BY <1>1 DEF NewTag, MakeTag, Tags

LEMMA TypeDefer == ASSUME TypeOK, Defer, UNCHANGED content PROVE TypeOK'
<1>1. /\ EvalType /\ OutType /\ DeferType /\ AtexitType /\ DiskType /\ failed \in BOOLEAN
      /\ stack # <<>> /\ top.items # <<>> /\ next_item.fn \in Fn
  BY EvaluatingFacts, ItemByOp DEF Defer, TypeOK
<1>. DEFINE toks == <<tag(NewTag)>>
<1>2. /\ stack' = Advanced /\ Yield(toks) /\ MakeTag(next_item.fn)
      /\ UNCHANGED <<phase, failed, index, lconf, input_files, count, known_input_files,
                     AtexitState, files, DiskState>>
  BY DEF Defer
<1>3. /\ NewTag \in Nat \ {0} /\ deferred_functions' \in Seq(Fn)
      /\ Len(deferred_functions) <= Len(deferred_functions') /\ UNCHANGED <<visited, ntags>>
  BY <1>1, <1>2, TagFacts DEF NewTag
<1>4. toks \in Seq(Token)
  BY <1>3, TokensAre
<1>. HIDE DEF toks
<1>5. EvalType'
  BY <1>1, <1>2, TypeAdvance DEF EvalType
<1>6. output_contents' \in Seq(Token) /\ DeferType'
  BY <1>1, <1>2, <1>3, <1>4, TypeYield
<1>7. AtexitType' /\ DiskType'
  BY <1>1, <1>2, KeepAtexit, KeepDisk
<1>. QED
  BY <1>1, <1>2, <1>3, <1>5, <1>6, <1>7, Settled DEF OutType

LEMMA TypeAtexit == ASSUME TypeOK, Atexit, UNCHANGED content PROVE TypeOK'
<1>1. /\ EvalType /\ OutType /\ DeferType /\ AtexitType /\ DiskType /\ failed \in BOOLEAN
      /\ stack # <<>> /\ top.items # <<>> /\ next_item.fn \in Fn
  BY EvaluatingFacts, ItemByOp DEF Atexit, TypeOK
<1>2. /\ stack' = Advanced
      /\ functions' = Append(functions, next_item.fn) /\ asked' = Append(asked, next_item.fn)
      /\ UNCHANGED <<phase, failed, index, lconf, input_files, count, OutState, DeferState, fs,
                     ran, files, DiskState>>
  BY DEF Atexit
<1>3. EvalType'
  BY <1>1, <1>2, TypeAdvance DEF EvalType
<1>4. AtexitType'
  BY <1>1, <1>2 DEF AtexitType
<1>5. OutType' /\ DeferType' /\ DiskType'
  BY <1>1, <1>2, KeepOut, KeepDefer, KeepDisk
<1>. QED
  BY <1>1, <1>2, <1>3, <1>4, <1>5, Settled DEF DeferState

LEMMA TypeOpenFile == ASSUME TypeOK, OpenFile, UNCHANGED content PROVE TypeOK'
<1>1. /\ EvalType /\ OutType /\ DeferType /\ AtexitType /\ DiskType /\ failed \in BOOLEAN
      /\ stack # <<>> /\ top.items # <<>> /\ next_item.name \in Output
  BY EvaluatingFacts, ItemByOp DEF OpenFile, TypeOK
<1>. DEFINE f == [name |-> next_item.name, content |-> <<>>]
<1>2. /\ stack' = Advanced /\ files' = Append(files, f)
      /\ UNCHANGED <<phase, failed, index, lconf, input_files, count, OutState, DeferState,
                     AtexitState, DiskState>>
  BY DEF OpenFile
<1>3. f \in FileRecord
  BY <1>1 DEF FileRecord
<1>. HIDE DEF f
<1>4. EvalType'
  BY <1>1, <1>2, TypeAdvance DEF EvalType
<1>5. DiskType'
  BY <1>1, <1>2, <1>3 DEF DiskType, DiskState
<1>6. OutType' /\ DeferType' /\ AtexitType'
  BY <1>1, <1>2, KeepOut, KeepDefer, KeepAtexit
<1>. QED
  BY <1>1, <1>2, <1>4, <1>5, <1>6, Settled DEF DeferState

\* Only the content of a file changes.
LEMMA AddFacts ==
  ASSUME files \in Seq(FileRecord), NEW name, NEW tok \in Token, AddTo(name, tok)
  PROVE  /\ files' \in Seq(FileRecord) /\ Len(files') = Len(files)
         /\ \A i \in 1 .. Len(files) : files'[i].name = files[i].name
<1>. DEFINE i == CHOOSE j \in Named(name) : \A k \in Named(name) : k <= j
            more == Append(files[i].content, tok)
            f == [files[i] EXCEPT !.content = more]
<1>1. files' = [files EXCEPT ![i] = f]
  BY DEF AddTo
<1>2. CASE i \in 1 .. Len(files)
  <2>1. files[i] \in FileRecord
    BY <1>2
  <2>2. more \in Seq(Token)
    BY <2>1 DEF FileRecord
  <2>. HIDE DEF i, more
  <2>3. f \in FileRecord /\ f.name = files[i].name
    BY <2>1, <2>2 DEF FileRecord
  <2>. HIDE DEF f
  <2>4. /\ files' \in Seq(FileRecord) /\ Len(files') = Len(files)
        /\ \A j \in 1 .. Len(files) : files'[j] = IF j = i THEN f ELSE files[j]
    BY <1>1, <1>2, <2>3, ExceptSeq
  <2>. QED
    BY <2>3, <2>4
<1>3. CASE i \notin 1 .. Len(files)
  <2>. HIDE DEF f, i, more
  <2>1. files' = files
    BY <1>1, <1>3
  <2>. QED
    BY <2>1
<1>. QED
  BY <1>2, <1>3

LEMMA TypePut == ASSUME TypeOK, Put, UNCHANGED content PROVE TypeOK'
<1>1. /\ EvalType /\ OutType /\ DeferType /\ AtexitType /\ DiskType /\ failed \in BOOLEAN
      /\ stack # <<>> /\ top.items # <<>>
  BY EvaluatingFacts DEF Put, TypeOK
<1>2. CASE Fail
  BY <1>2, TypeFail
<1>3. CASE ~Fail
  <2>1. /\ AddTo(next_item.name, value(count)) /\ stack' = Advanced
        /\ UNCHANGED <<phase, failed, index, lconf, input_files, count, OutState, DeferState,
                       AtexitState, DiskState>>
    BY <1>3 DEF Put
  <2>2. EvalType'
    BY <1>1, <2>1, TypeAdvance DEF EvalType
  <2>3. files' \in Seq(FileRecord)
    BY <1>1, <2>1, AddFacts, TokensAre DEF DiskType, EvalType
  <2>4. DiskType'
    BY <1>1, <2>1, <2>3 DEF DiskType, DiskState
  <2>5. OutType' /\ DeferType' /\ AtexitType'
    BY <1>1, <2>1, KeepOut, KeepDefer, KeepAtexit
  <2>. QED
    BY <1>1, <2>1, <2>2, <2>4, <2>5, Settled DEF DeferState
<1>. QED
  BY <1>2, <1>3

LEMMA TypePutBoolean == ASSUME TypeOK, PutBoolean, UNCHANGED content PROVE TypeOK'
<1>1. /\ EvalType /\ OutType /\ DeferType /\ AtexitType /\ DiskType /\ failed \in BOOLEAN
      /\ stack # <<>> /\ top.items # <<>>
  BY EvaluatingFacts DEF PutBoolean, TypeOK
<1>2. CASE Fail
  BY <1>2, TypeFail
<1>3. CASE ~Fail
  <2>1. /\ AddTo(next_item.name, boolean) /\ stack' = Advanced
        /\ UNCHANGED <<phase, failed, index, lconf, input_files, count, OutState, DeferState,
                       AtexitState, DiskState>>
    BY <1>3 DEF PutBoolean
  <2>2. EvalType'
    BY <1>1, <2>1, TypeAdvance DEF EvalType
  <2>3. files' \in Seq(FileRecord)
    BY <1>1, <2>1, AddFacts, TokensAre DEF DiskType
  <2>4. DiskType'
    BY <1>1, <2>1, <2>3 DEF DiskType, DiskState
  <2>5. OutType' /\ DeferType' /\ AtexitType'
    BY <1>1, <2>1, KeepOut, KeepDefer, KeepAtexit
  <2>. QED
    BY <1>1, <2>1, <2>2, <2>4, <2>5, Settled DEF DeferState
<1>. QED
  BY <1>2, <1>3

LEMMA TypePutDefer == ASSUME TypeOK, PutDefer, UNCHANGED content PROVE TypeOK'
<1>1. /\ EvalType /\ OutType /\ DeferType /\ AtexitType /\ DiskType /\ failed \in BOOLEAN
      /\ stack # <<>> /\ top.items # <<>> /\ next_item.fn \in Fn
  BY EvaluatingFacts, ItemByOp DEF PutDefer, TypeOK
<1>2. CASE Fail
  BY <1>2, TypeFail
<1>3. CASE ~Fail
  <2>1. /\ AddTo(next_item.name, tag(NewTag)) /\ MakeTag(next_item.fn) /\ stack' = Advanced
        /\ UNCHANGED <<phase, failed, index, lconf, input_files, count, OutState, results,
                       AtexitState, DiskState>>
    BY <1>3 DEF PutDefer
  <2>2. EvalType'
    BY <1>1, <2>1, TypeAdvance DEF EvalType
  <2>3. /\ NewTag \in Nat \ {0} /\ deferred_functions' \in Seq(Fn)
        /\ UNCHANGED <<visited, ntags>> /\ Tags \subseteq Tags'
    BY <1>1, <2>1, TagFacts
  <2>4. files' \in Seq(FileRecord)
    BY <1>1, <2>1, <2>3, AddFacts, TokensAre DEF DiskType
  <2>5. DiskType' /\ DeferType'
    BY <1>1, <2>1, <2>3, <2>4 DEF DiskType, DiskState, DeferType
  <2>6. OutType' /\ AtexitType'
    BY <1>1, <2>1, KeepOut, KeepAtexit
  <2>. QED
    BY <1>1, <2>1, <2>2, <2>3, <2>5, <2>6, Settled
<1>. QED
  BY <1>2, <1>3

LEMMA TypeLeave == ASSUME TypeOK, Leave, UNCHANGED content PROVE TypeOK'
<1>1. /\ EvalType /\ OutType /\ DeferType /\ AtexitType /\ DiskType /\ failed \in BOOLEAN
      /\ stack # <<>>
  BY DEF Leave, TypeOK, Running
<1>2. /\ stack' = Front(stack)
      /\ lconf' \in {lconf, Front(lconf)} /\ input_files' \in {input_files, Front(input_files)}
      /\ UNCHANGED <<phase, failed, index, count, OutState, DeferState, AtexitState, files,
                     DiskState>>
  BY DEF Leave
<1>3. ASSUME NEW S, NEW s \in Seq(S) PROVE Front(s) \in Seq(S)
  <2>1. CASE s = <<>>
    BY <2>1, SubSeqEmpty DEF Front
  <2>2. CASE s # <<>>
    BY <2>2, FrontFacts
  <2>. QED
    BY <2>1, <2>2
<1>4. EvalType'
  BY <1>1, <1>2, <1>3 DEF EvalType
<1>5. OutType' /\ DeferType' /\ AtexitType' /\ DiskType'
  BY <1>1, <1>2, KeepOut, KeepDefer, KeepAtexit, KeepDisk
<1>. QED
  BY <1>1, <1>2, <1>4, <1>5, Settled DEF DeferState

LEMMA TypeEvaluate == ASSUME TypeOK, Evaluate, UNCHANGED content PROVE TypeOK'
BY TypeText, TypeCount, TypeShow, TypeInclude, TypePreprocess, TypeRead, TypeMacro,
   TypeDefer, TypeAtexit, TypeOpenFile, TypePut, TypePutBoolean, TypePutDefer, TypeLeave,
   TypeFail
   DEF Evaluate, Error

\* Putting sequences one after the other.
LEMMA FlattenFacts ==
  ASSUME NEW S, NEW ss \in Seq(Seq(S))
  PROVE  FlattenSeq(ss) \in Seq(S)
<1>1. Len(ss) \in Nat
  OBVIOUS
<1>2. PICK c \in [0 .. Len(ss) -> Seq(S)] : FlattenSeq(ss) = c[Len(ss)]
  BY Flattened
<1>. QED
  BY <1>1, <1>2

\* The main program goes on when nothing is evaluated.
LEMMA IdleFacts ==
  ASSUME TypeOK, NEW p, Idle(p)
  PROVE  /\ EvalType /\ OutType /\ DeferType /\ AtexitType /\ DiskType
         /\ stack = <<>> /\ ~failed /\ phase = p /\ index \in 0 .. Len(Input)
         /\ failed \in BOOLEAN
BY DEF TypeOK, Idle

\* Only the phase changes, and what the phase has done.
LEMMA TypePhase ==
  ASSUME TypeOK, stack = <<>>, phase' \in Phase, UNCHANGED <<content, failed, index>>,
         UNCHANGED EvalState, OutType', DeferType', AtexitType', DiskType'
  PROVE  TypeOK'
<1>1. EvalType' /\ stack' = <<>>
  BY DEF TypeOK, EvalType, EvalState
<1>. QED
  BY <1>1 DEF TypeOK

LEMMA TypeProcessFile == ASSUME TypeOK, ProcessFile, UNCHANGED content PROVE TypeOK'
<1>1. /\ EvalType /\ OutType /\ DeferType /\ AtexitType /\ DiskType /\ stack = <<>>
      /\ phase = "files" /\ index \in 0 .. Len(Input) /\ failed \in BOOLEAN
  BY IdleFacts DEF ProcessFile
<1>2. CASE Fail
  BY <1>2, TypeFail
<1>3. CASE ~Fail
  <2>. DEFINE f     == Input[index+1]
              frame == Frame("file", content[f])
  <2>1. /\ f \in File /\ index < Len(Input) /\ index' = index + 1
        /\ input_files' = Append(input_files, f)
        /\ known_input_files' = known_input_files \cup {f}
        /\ lconf' = Append(lconf, MainChar) /\ stack' = <<frame>>
        /\ UNCHANGED <<phase, failed, count, output_contents, DeferState, AtexitState,
                       files, DiskState>>
    BY <1>3 DEF ProcessFile
  <2>2. frame \in FrameRecord
    BY <2>1, Documents
  <2>. HIDE DEF f, frame
  <2>3. stack' \in Seq(FrameRecord)
    BY <2>1, <2>2
  <2>4. EvalType'
    BY <1>1, <2>1, <2>3, ItemAssumption DEF EvalType
  <2>5. OutType' /\ DeferType' /\ AtexitType' /\ DiskType'
    BY <1>1, <2>1, KeepDefer, KeepAtexit, KeepDisk DEF OutType
  <2>6. index' \in 0 .. Len(Input)
    <3>1. Len(Input) \in Nat
      BY ItemAssumption
    <3>. QED
      BY <1>1, <2>1, <3>1
  <2>. QED
    BY <1>1, <2>1, <2>4, <2>5, <2>6 DEF TypeOK
<1>. QED
  BY <1>2, <1>3

LEMMA TypeAtexitCall == ASSUME TypeOK, AtexitCall, UNCHANGED content PROVE TypeOK'
<1>1. /\ EvalType /\ OutType /\ DeferType /\ AtexitType /\ DiskType /\ stack = <<>>
      /\ phase = "atexit" /\ index \in 0 .. Len(Input) /\ failed \in BOOLEAN
  BY IdleFacts DEF AtexitCall
<1>. DEFINE frame == Frame("fun", Body[Head(fs)])
<1>2. /\ fs # <<>> /\ stack' = <<frame>>
      /\ fs' = Tail(fs) /\ ran' = Append(ran, Head(fs))
      /\ UNCHANGED <<phase, failed, index, lconf, input_files, count, OutState, DeferState,
                     functions, asked, files, DiskState>>
  BY DEF AtexitCall
<1>3. Head(fs) \in Fn /\ Tail(fs) \in Seq(Fn)
  BY <1>1, <1>2 DEF AtexitType
<1>4. frame \in FrameRecord
  BY <1>3, Bodies
<1>. HIDE DEF frame
<1>5. stack' \in Seq(FrameRecord)
  BY <1>2, <1>4
<1>6. EvalType'
  BY <1>1, <1>2, <1>5 DEF EvalType
<1>7. OutType' /\ DeferType' /\ DiskType'
  BY <1>1, <1>2, KeepOut, KeepDefer, KeepDisk
<1>8. AtexitType'
  BY <1>1, <1>2, <1>3 DEF AtexitType
<1>. QED
  BY <1>1, <1>2, <1>6, <1>7, <1>8 DEF TypeOK

\* A deferred function is called.
LEMMA VisitFacts ==
  ASSUME DeferType, NEW id \in Tags, CallDeferred(id)
  PROVE  /\ visited' \in Seq(Nat) /\ ToSet(visited') = ToSet(visited) \cup {id}
         /\ visited' # <<>> /\ DOMAIN results' = DOMAIN results \cup {id}
         /\ \A i \in DOMAIN results' : results'[i] = IF i = id THEN <<>> ELSE results[i]
<1>1. /\ visited' = Append(visited, id)
      /\ results' = [i \in DOMAIN results \cup {id} |-> IF i = id THEN <<>> ELSE results[i]]
  BY DEF CallDeferred
<1>2. visited \in Seq(Nat) /\ id \in Nat
  BY DEF DeferType, Tags
<1>3. /\ visited' \in Seq(Nat) /\ Len(visited') = Len(visited) + 1 /\ Len(visited) \in Nat
      /\ visited'[Len(visited)+1] = id /\ \A i \in 1 .. Len(visited) : visited'[i] = visited[i]
  BY <1>1, <1>2
<1>4. DOMAIN visited = 1 .. Len(visited) /\ DOMAIN visited' = 1 .. Len(visited')
  BY <1>2, <1>3
<1>5. ToSet(visited') = ToSet(visited) \cup {id}
  BY <1>3, <1>4 DEF ToSet
<1>. QED
  BY <1>1, <1>3, <1>5

LEMMA TypeCallDeferred ==
  ASSUME TypeOK, NEW id \in Tags, CallDeferred(id), UNCHANGED content
  PROVE  TypeOK'
<1>1. /\ EvalType /\ OutType /\ DeferType /\ AtexitType /\ DiskType /\ stack = <<>>
      /\ phase = "replace" /\ index \in 0 .. Len(Input) /\ failed \in BOOLEAN
  BY IdleFacts DEF CallDeferred
<1>. DEFINE frame == Frame("fun", Body[deferred_functions[id]])
<1>2. /\ stack' = <<frame>>
      /\ UNCHANGED <<phase, failed, index, lconf, input_files, count, OutState,
                     deferred_functions, ntags, AtexitState, files, DiskState>>
  BY DEF CallDeferred
<1>3. deferred_functions[id] \in Fn
  BY <1>1 DEF DeferType, Tags
<1>4. frame \in FrameRecord
  BY <1>3, Bodies
<1>. HIDE DEF frame
<1>5. stack' \in Seq(FrameRecord)
  BY <1>2, <1>4
<1>6. EvalType'
  BY <1>1, <1>2, <1>5 DEF EvalType
<1>7. DeferType' /\ visited' # <<>>
  <2>1. Tags' = Tags
    BY <1>2 DEF Tags
  <2>2. /\ visited' \in Seq(Nat) /\ ToSet(visited') = ToSet(visited) \cup {id}
        /\ visited' # <<>> /\ DOMAIN results' = DOMAIN results \cup {id}
        /\ \A i \in DOMAIN results' : results'[i] = IF i = id THEN <<>> ELSE results[i]
    BY <1>1, VisitFacts
  <2>3. ASSUME NEW i \in DOMAIN results' PROVE results'[i] \in Seq(Token)
    <3>1. results'[i] = IF i = id THEN <<>> ELSE results[i]
      BY <2>2
    <3>2. i # id => i \in ToSet(visited)
      BY <1>1, <2>2 DEF DeferType
    <3>3. i # id => results[i] \in Seq(Token)
      BY <1>1, <3>2 DEF DeferType
    <3>. QED
      BY <3>1, <3>3
  <2>. QED
    BY <1>1, <1>2, <2>1, <2>2, <2>3 DEF DeferType
<1>8. OutType' /\ AtexitType' /\ DiskType'
  BY <1>1, <1>2, KeepOut, KeepAtexit, KeepDisk
<1>. QED
  BY <1>1, <1>2, <1>6, <1>7, <1>8 DEF TypeOK

\* The tokens of the main output, where T is a set of tokens that has all the
\* tokens that are written.
LEMMA MainTokens ==
  ASSUME TypeOK, NEW T, \A i \in DOMAIN output_contents : Replaced(output_contents[i]) \in Seq(T)
  PROVE  FlattenSeq([i \in DOMAIN output_contents |-> Replaced(output_contents[i])]) \in Seq(T)
<1>. DEFINE n == Len(output_contents)
            ss == [i \in 1 .. n |-> Replaced(output_contents[i])]
<1>1. output_contents \in Seq(Token)
  BY DEF TypeOK, OutType
<1>2. DOMAIN output_contents = 1 .. n /\ n \in Nat
  BY <1>1
<1>. HIDE DEF n
<1>3. \A i \in 1 .. n : Replaced(output_contents[i]) \in Seq(T)
  BY <1>2
<1>4. ss \in Seq(Seq(T))
  BY <1>2, <1>3
<1>. HIDE DEF ss
<1>5. FlattenSeq(ss) \in Seq(T)
  BY <1>4, FlattenFacts
<1>. QED
  BY <1>2, <1>5 DEF ss

LEMMA TypeWriteMain == ASSUME TypeOK, WriteMain, UNCHANGED content PROVE TypeOK'
<1>1. /\ OutType /\ DeferType /\ AtexitType /\ DiskType /\ stack = <<>>
  BY IdleFacts DEF WriteMain
<1>2. CASE Fail
  BY <1>2, TypeFail
<1>3. CASE ~Fail
  <2>. DEFINE all == FlattenSeq([i \in DOMAIN output_contents |-> Replaced(output_contents[i])])
  <2>1. /\ phase' = "save" /\ UNCHANGED <<failed, index>>
        /\ main' = [kind |-> "main", content |-> all]
        /\ UNCHANGED <<EvalState, OutState, DeferState, AtexitState, files, dep, saved>>
    BY <1>3 DEF WriteMain, Enter
  <2>2. all \in Seq(Token)
    <3>1. ASSUME NEW i \in DOMAIN output_contents
          PROVE  Replaced(output_contents[i]) \in Seq(Token)
      <4>1. output_contents[i] \in Token
        BY <1>1, <3>1 DEF OutType
      <4>2. <<output_contents[i]>> \in Seq(Token)
        BY <4>1
      <4>. QED
        BY <1>1, <4>2 DEF Replaced, Gives, DeferType
    <3>. QED
      BY <3>1, MainTokens
  <2>. HIDE DEF all
  <2>3. DiskType'
    BY <1>1, <2>1, <2>2 DEF DiskType, MainRecord
  <2>4. OutType' /\ DeferType' /\ AtexitType'
    BY <1>1, <2>1, KeepOut, KeepDefer, KeepAtexit
  <2>5. phase' \in Phase
    BY <2>1 DEF Phase
  <2>. QED
    BY <1>1, <2>1, <2>3, <2>4, <2>5, TypePhase
<1>. QED
  BY <1>2, <1>3

LEMMA TypeSaveFile == ASSUME TypeOK, SaveFile, UNCHANGED content PROVE TypeOK'
<1>1. /\ OutType /\ DeferType /\ AtexitType /\ DiskType /\ stack = <<>>
  BY IdleFacts DEF SaveFile
<1>2. CASE Fail
  BY <1>2, TypeFail
<1>3. CASE ~Fail
  <2>1. /\ files # <<>> /\ files' = Tail(files)
        /\ saved' = [n \in DOMAIN saved \cup {Head(files).name} |->
                       IF n = Head(files).name THEN Head(files).content ELSE saved[n]]
        /\ UNCHANGED <<phase, failed, index, EvalState, OutState, DeferState, AtexitState,
                       dep, main>>
    BY <1>3 DEF SaveFile
  <2>2. Head(files) \in FileRecord /\ Tail(files) \in Seq(FileRecord)
    BY <1>1, <2>1 DEF DiskType
  <2>3. DiskType'
    <3>1. Head(files).name \in Output
      BY <2>2 DEF FileRecord
    <3>. QED
      BY <1>1, <2>1, <2>2, <3>1 DEF DiskType
  <2>4. OutType' /\ DeferType' /\ AtexitType'
    BY <1>1, <2>1, KeepOut, KeepDefer, KeepAtexit
  <2>5. phase' \in Phase
    BY <2>1 DEF TypeOK
  <2>. QED
    BY <1>1, <2>1, <2>3, <2>4, <2>5, TypePhase
<1>. QED
  BY <1>2, <1>3

LEMMA TypeWriteDepFile == ASSUME TypeOK, WriteDepFile, UNCHANGED content PROVE TypeOK'
<1>1. /\ OutType /\ DeferType /\ AtexitType /\ DiskType /\ stack = <<>>
  BY IdleFacts DEF WriteDepFile
<1>. DEFINE outs == {files[i].name : i \in DOMAIN files}
<1>2. /\ phase' = "replace" /\ UNCHANGED <<failed, index>>
      /\ dep' = [kind |-> "dep", ins |-> known_input_files, outs |-> outs]
      /\ ntags' = Len(deferred_functions)
      /\ UNCHANGED <<EvalState, OutState, deferred_functions, visited, results, AtexitState,
                     files, main, saved>>
  BY DEF WriteDepFile, Enter
<1>3. outs \subseteq Output
  <2>1. \A i \in DOMAIN files : files[i] \in FileRecord
    BY <1>1 DEF DiskType
  <2>. QED
    BY <2>1 DEF FileRecord
<1>. HIDE DEF outs
<1>4. DiskType'
  BY <1>1, <1>2, <1>3 DEF DiskType, OutType, DepRecord
<1>5. DeferType'
  BY <1>1, <1>2 DEF DeferType, Tags
<1>6. OutType' /\ AtexitType'
  BY <1>1, <1>2, KeepOut, KeepAtexit
<1>7. phase' \in Phase
  BY <1>2 DEF Phase
<1>. QED
  BY <1>1, <1>2, <1>4, <1>5, <1>6, <1>7, TypePhase

\* The steps of the main program that only change phase or atexit.run.
LEMMA TypeRounds ==
  ASSUME TypeOK, EndOfFiles \/ AtexitRound \/ EndOfAtexit \/ Finish, UNCHANGED content
  PROVE  TypeOK'
<1>1. /\ OutType /\ DeferType /\ AtexitType /\ DiskType /\ stack = <<>>
  BY IdleFacts DEF EndOfFiles, AtexitRound, EndOfAtexit, Finish
<1>2. /\ phase' \in Phase /\ UNCHANGED <<failed, index, EvalState, OutState, DeferState,
                                         files, DiskState>>
  BY DEF EndOfFiles, AtexitRound, EndOfAtexit, Finish, Enter, Phase, TypeOK
<1>3. AtexitType'
  BY <1>1 DEF EndOfFiles, AtexitRound, EndOfAtexit, Finish, AtexitType, AtexitState
<1>4. OutType' /\ DeferType' /\ DiskType'
  BY <1>1, <1>2, KeepOut, KeepDefer, KeepDisk
<1>. QED
  BY <1>1, <1>2, <1>3, <1>4, TypePhase

LEMMA TypeMain == ASSUME TypeOK, Main, UNCHANGED content PROVE TypeOK'
BY TypeProcessFile, TypeAtexitCall, TypeCallDeferred, TypeWriteMain, TypeSaveFile,
   TypeWriteDepFile, TypeRounds DEF Main

LEMMA TypeInit == Init => TypeOK
<1>. SUFFICES ASSUME Init PROVE TypeOK
  OBVIOUS
<1>1. content \in [File -> Seq(Item)] /\ phase \in Phase /\ failed \in BOOLEAN
  BY ItemAssumption DEF Init, Phase
<1>2. index \in 0 .. Len(Input)
  BY ItemAssumption DEF Init
<1>3. EvalType /\ OutType /\ AtexitType
  BY DEF Init, EvalType, OutType, AtexitType
<1>4. DeferType
  BY DEF Init, DeferType, Tags, ToSet
<1>5. DiskType
  BY DEF Init, DiskType
<1>. QED
  BY <1>1, <1>2, <1>3, <1>4, <1>5 DEF Init, TypeOK

LEMMA TypeStep == ASSUME TypeOK, [Next]_vars PROVE TypeOK'
<1>1. CASE UNCHANGED vars
  <2>1. UNCHANGED <<content, phase, failed, index, EvalState, OutState, DeferState,
                    AtexitState, files, DiskState>>
    BY <1>1 DEF vars
  <2>2. OutType' /\ DeferType' /\ AtexitType' /\ DiskType'
    BY <2>1, KeepOut, KeepDefer, KeepAtexit, KeepDisk DEF TypeOK
  <2>3. EvalType' /\ UNCHANGED <<stack, visited>>
    BY <2>1 DEF TypeOK, EvalType, EvalState, DeferState
  <2>. QED
    BY <2>1, <2>2, <2>3 DEF TypeOK
<1>. QED
  BY <1>1, TypeEvaluate, TypeMain DEF Next, Exited

-----------------------------------------------------------------------------
(* What the evaluation of an item changes. *)

\* The next item makes one of these calls.
Consumes(ops) == top.items # <<>> /\ next_item.op \in ops

Names(f) == {f[i].name : i \in DOMAIN f}

\* Nothing is written to the output, or a token; a tag is the new one.
Writes ==
  \/ UNCHANGED <<output_contents, results>>
  \/ \E tok \in Token :
       /\ Yield(<<tok>>)
       /\ tok.kind = "tag" =>
            tok.id = Len(deferred_functions') /\ deferred_functions' # deferred_functions

Asks ==
  \/ UNCHANGED <<functions, asked>>
  \/ /\ Consumes({"atexit"})
     /\ \E fn \in Fn : functions' = Append(functions, fn) /\ asked' = Append(asked, fn)

\* A document or a function is left, an item of it is done, or another
\* document is evaluated.
Moves ==
  \/ UNCHANGED <<stack, lconf, input_files>>
  \/ /\ top.items = <<>> /\ stack' = Front(stack)
     /\ IF top.kind = "file"
        THEN lconf' = Front(lconf) /\ input_files' = Front(input_files)
        ELSE UNCHANGED <<lconf, input_files>>
  \/ /\ top.items # <<>> /\ stack' = Advanced
     /\ Len(lconf') = Len(lconf) /\ UNCHANGED input_files
  \/ /\ Consumes({"include"})
     /\ \E c \in Char : lconf' = Append(lconf, c)
     /\ \E f \in File : input_files' = Append(input_files, f)
     /\ \E frame \in FrameRecord : frame.kind = "file" /\ stack' = Append(Advanced, frame)
  \/ /\ Consumes({"ypp"}) /\ lconf # <<>> /\ UNCHANGED <<lconf, input_files>>
     /\ \E frame \in FrameRecord : frame.kind = "text" /\ stack' = Append(Advanced, frame)

Effects ==
  /\ stack # <<>> /\ ~failed
  /\ UNCHANGED <<phase, visited, ntags, fs, ran, dep, main, saved>>
  /\ Asks /\ Moves /\ Writes
  /\ known_input_files' = known_input_files \/ Consumes({"include", "read"})
  /\ Names(files') = Names(files) \/ Consumes({"file"})
  /\ UNCHANGED deferred_functions \/ \E fn \in Fn : MakeTag(fn)

LEMMA FailEffects == ASSUME stack # <<>>, ~failed, Fail PROVE Effects
<1>1. /\ UNCHANGED <<phase, visited, ntags, fs, ran, dep, main, saved>>
      /\ UNCHANGED <<functions, asked, stack, lconf, input_files, output_contents, results>>
      /\ UNCHANGED <<known_input_files, files, deferred_functions>>
  BY DEF Fail, EvalState, OutState, DeferState, AtexitState, DiskState
<1>. QED
  BY <1>1 DEF Effects, Asks, Moves, Writes

LEMMA AddNames ==
  ASSUME files \in Seq(FileRecord), NEW name, NEW tok \in Token, AddTo(name, tok)
  PROVE  Names(files') = Names(files)
<1>1. /\ files' \in Seq(FileRecord) /\ Len(files') = Len(files)
      /\ \A i \in 1 .. Len(files) : files'[i].name = files[i].name
  BY AddFacts
<1>2. DOMAIN files = 1 .. Len(files) /\ DOMAIN files' = 1 .. Len(files)
  BY <1>1
<1>. QED
  BY <1>1, <1>2 DEF Names

LEMMA EvaluateEffects == ASSUME TypeOK, Evaluate PROVE Effects
<1>0. /\ EvalType /\ DeferType /\ DiskType
      /\ \A op : Evaluating(op) => /\ stack # <<>> /\ ~failed /\ Consumes({op})
                                   /\ next_item \in Item /\ next_item.op = op
  BY EvaluatingFacts DEF TypeOK, Consumes
<1>1. ASSUME NEW op, Evaluating(op), Fail PROVE Effects
  BY <1>0, <1>1, FailEffects
<1>2. CASE Text
  <2>. DEFINE tok == IF next_item.op = "text" THEN text ELSE raw(next_item)
  <2>1. /\ stack # <<>> /\ ~failed /\ top.items # <<>> /\ stack' = Advanced /\ UNCHANGED <<lconf, input_files>> /\ Yield(<<tok>>)
        /\ UNCHANGED <<phase, visited, ntags, fs, ran, dep, main, saved, functions, asked>>
        /\ UNCHANGED <<known_input_files, files, deferred_functions>>
    BY <1>2 DEF Text, Running, AtexitState, DiskState
  <2>2. tok \in Token /\ tok.kind # "tag"
    BY <1>0, <2>1, TopFacts, TokensAre
  <2>. HIDE DEF tok
  <2>. QED
    BY <2>1, <2>2 DEF Effects, Asks, Moves, Writes
<1>3. CASE Count
  <2>1. /\ stack # <<>> /\ ~failed /\ top.items # <<>> /\ stack' = Advanced /\ UNCHANGED <<lconf, input_files>>
        /\ UNCHANGED <<phase, visited, ntags, fs, ran, dep, main, saved, functions, asked>>
        /\ UNCHANGED <<known_input_files, files, deferred_functions, output_contents, results>>
    BY <1>0, <1>3 DEF Count, OutState, DeferState, AtexitState, DiskState, Consumes
  <2>. QED
    BY <2>1 DEF Effects, Asks, Moves, Writes
<1>4. CASE Show
  <2>1. /\ stack # <<>> /\ ~failed /\ top.items # <<>> /\ stack' = Advanced /\ UNCHANGED <<lconf, input_files>>
        /\ Yield(<<value(count)>>)
        /\ UNCHANGED <<phase, visited, ntags, fs, ran, dep, main, saved, functions, asked>>
        /\ UNCHANGED <<known_input_files, files, deferred_functions>>
    BY <1>0, <1>4 DEF Show, AtexitState, DiskState, Consumes
  <2>2. value(count) \in Token /\ value(count).kind # "tag"
    BY <1>0, TokensAre DEF EvalType
  <2>. QED
    BY <2>1, <2>2 DEF Effects, Asks, Moves, Writes
<1>5. CASE Include /\ ~Fail
  <2>. DEFINE f == next_item.file
              frame == Frame("file", content[f])
  <2>1. /\ stack # <<>> /\ ~failed /\ Consumes({"include"}) /\ f \in File
        /\ lconf' = Append(lconf, MainChar) /\ input_files' = Append(input_files, f)
        /\ stack' = Append(Advanced, frame)
        /\ UNCHANGED <<phase, visited, ntags, fs, ran, dep, main, saved, functions, asked>>
        /\ UNCHANGED <<files, deferred_functions, output_contents, results>>
    BY <1>0, <1>5 DEF Include, DeferState, AtexitState, DiskState
  <2>2. Consumes({"include", "read"})
    BY <2>1 DEF Consumes
  <2>3. frame \in FrameRecord /\ frame.kind = "file" /\ MainChar \in Char
    BY <2>1, Documents, ItemAssumption DEF Frame
  <2>. HIDE DEF f, frame
  <2>4. Moves
    BY <2>1, <2>3 DEF Moves
  <2>. QED
    BY <2>1, <2>2, <2>4 DEF Effects, Asks, Writes
<1>6. CASE Preprocess /\ ~Fail
  <2>. DEFINE frame == Frame("text", content[next_item.file])
  <2>1. /\ stack # <<>> /\ ~failed /\ Consumes({"ypp"}) /\ UNCHANGED <<lconf, input_files>>
        /\ stack' = Advanced \/ (lconf # <<>> /\ stack' = Append(Advanced, frame))
        /\ UNCHANGED <<phase, visited, ntags, fs, ran, dep, main, saved, functions, asked>>
        /\ UNCHANGED <<known_input_files, files, deferred_functions, output_contents, results>>
    BY <1>0, <1>6 DEF Preprocess, OutState, DeferState, AtexitState, DiskState
  <2>2. frame \in FrameRecord /\ frame.kind = "text"
    <3>1. next_item.file \in File
      BY <1>0, <1>6, ItemByOp DEF Preprocess
    <3>. QED
      BY <3>1, Documents DEF Frame
  <2>. HIDE DEF frame
  <2>3. Moves
    BY <2>1, <2>2 DEF Moves, Consumes
  <2>. QED
    BY <2>1, <2>3 DEF Effects, Asks, Writes
<1>7. CASE Read /\ ~Fail
  <2>1. /\ stack # <<>> /\ ~failed /\ Consumes({"read"}) /\ stack' = Advanced /\ UNCHANGED <<lconf, input_files>> /\ Yield(<<text>>)
        /\ UNCHANGED <<phase, visited, ntags, fs, ran, dep, main, saved, functions, asked>>
        /\ UNCHANGED <<files, deferred_functions>>
    BY <1>0, <1>7 DEF Read, AtexitState, DiskState
  <2>2. Consumes({"include", "read"})
    BY <2>1 DEF Consumes
  <2>. QED
    BY <2>1, <2>2, TokensAre DEF Effects, Asks, Moves, Writes, Consumes
<1>8. CASE Macro /\ ~Fail
  <2>1. /\ stack # <<>> /\ ~failed /\ top.items # <<>> /\ stack' = Advanced
        /\ lconf # <<>> /\ lconf' = Front(lconf) \o <<next_item.new>> /\ next_item.new \in Char
        /\ UNCHANGED input_files
        /\ UNCHANGED <<phase, visited, ntags, fs, ran, dep, main, saved, functions, asked>>
        /\ UNCHANGED <<known_input_files, files, deferred_functions, output_contents, results>>
    BY <1>0, <1>8, ItemByOp DEF Macro, OutState, DeferState, AtexitState, DiskState, Consumes
  <2>2. Len(lconf') = Len(lconf)
    BY <1>0, <2>1, ReplaceLast DEF Replaces, EvalType
  <2>. QED
    BY <2>1, <2>2 DEF Effects, Asks, Moves, Writes
<1>9. CASE Defer
  <2>1. /\ stack # <<>> /\ ~failed /\ top.items # <<>> /\ stack' = Advanced /\ UNCHANGED <<lconf, input_files>>
        /\ Yield(<<tag(NewTag)>>) /\ MakeTag(next_item.fn) /\ next_item.fn \in Fn
        /\ UNCHANGED <<phase, fs, ran, dep, main, saved, functions, asked>>
        /\ UNCHANGED <<known_input_files, files>>
    BY <1>0, <1>9, ItemByOp DEF Defer, AtexitState, DiskState, Consumes
  <2>2. /\ NewTag \in Nat \ {0} /\ NewTag = Len(deferred_functions')
        /\ deferred_functions' # deferred_functions /\ UNCHANGED <<visited, ntags>>
    BY <1>0, <2>1, TagFacts DEF DeferType
  <2>3. tag(NewTag) \in Token /\ tag(NewTag).id = NewTag
    BY <2>2, TokensAre
  <2>. QED
    BY <2>1, <2>2, <2>3 DEF Effects, Asks, Moves, Writes
<1>10. CASE Atexit
  <2>1. /\ stack # <<>> /\ ~failed /\ top.items # <<>> /\ stack' = Advanced /\ UNCHANGED <<lconf, input_files>>
        /\ Consumes({"atexit"}) /\ next_item.fn \in Fn
        /\ functions' = Append(functions, next_item.fn) /\ asked' = Append(asked, next_item.fn)
        /\ UNCHANGED <<phase, visited, ntags, fs, ran, dep, main, saved>>
        /\ UNCHANGED <<known_input_files, files, deferred_functions, output_contents, results>>
    BY <1>0, <1>10, ItemByOp DEF Atexit, OutState, DeferState, DiskState, Consumes
  <2>. QED
    BY <2>1 DEF Effects, Asks, Moves, Writes
<1>11. CASE OpenFile
  <2>1. /\ stack # <<>> /\ ~failed /\ Consumes({"file"}) /\ top.items # <<>> /\ stack' = Advanced /\ UNCHANGED <<lconf, input_files>>
        /\ UNCHANGED <<phase, visited, ntags, fs, ran, dep, main, saved, functions, asked>>
        /\ UNCHANGED <<known_input_files, deferred_functions, output_contents, results>>
    BY <1>0, <1>11 DEF OpenFile, OutState, DeferState, AtexitState, DiskState, Consumes
  <2>. QED
    BY <2>1 DEF Effects, Asks, Moves, Writes
<1>12. CASE Put /\ ~Fail
  <2>1. /\ stack # <<>> /\ ~failed /\ top.items # <<>> /\ stack' = Advanced /\ UNCHANGED <<lconf, input_files>>
        /\ AddTo(next_item.name, value(count))
        /\ UNCHANGED <<phase, visited, ntags, fs, ran, dep, main, saved, functions, asked>>
        /\ UNCHANGED <<known_input_files, deferred_functions, output_contents, results>>
    BY <1>0, <1>12 DEF Put, OutState, DeferState, AtexitState, DiskState, Consumes
  <2>2. Names(files') = Names(files)
    BY <1>0, <2>1, TokensAre, AddNames DEF EvalType, DiskType
  <2>. QED
    BY <2>1, <2>2 DEF Effects, Asks, Moves, Writes
<1>13. CASE PutDefer /\ ~Fail
  <2>1. /\ stack # <<>> /\ ~failed /\ top.items # <<>> /\ stack' = Advanced /\ UNCHANGED <<lconf, input_files>>
        /\ AddTo(next_item.name, tag(NewTag)) /\ MakeTag(next_item.fn) /\ next_item.fn \in Fn
        /\ UNCHANGED <<phase, fs, ran, dep, main, saved, functions, asked>>
        /\ UNCHANGED <<known_input_files, output_contents, results>>
    BY <1>0, <1>13, ItemByOp DEF PutDefer, OutState, AtexitState, DiskState, Consumes
  <2>2. NewTag \in Nat \ {0} /\ UNCHANGED <<visited, ntags>>
    BY <1>0, <2>1, TagFacts
  <2>3. Names(files') = Names(files)
    BY <1>0, <2>1, <2>2, TokensAre, AddNames DEF DiskType
  <2>. QED
    BY <2>1, <2>2, <2>3 DEF Effects, Asks, Moves, Writes
<1>14. CASE Leave
  <2>1. /\ stack # <<>> /\ ~failed /\ stack' = Front(stack) /\ top.items = <<>>
        /\ IF top.kind = "file"
           THEN lconf' = Front(lconf) /\ input_files' = Front(input_files)
           ELSE UNCHANGED <<lconf, input_files>>
        /\ UNCHANGED <<phase, visited, ntags, fs, ran, dep, main, saved, functions, asked>>
        /\ UNCHANGED <<known_input_files, files, deferred_functions, output_contents, results>>
    BY <1>14 DEF Leave, Running, OutState, DeferState, AtexitState, DiskState
  <2>. QED
    BY <2>1 DEF Effects, Asks, Moves, Writes
<1>15. CASE PutBoolean /\ ~Fail
  <2>1. /\ stack # <<>> /\ ~failed /\ top.items # <<>> /\ stack' = Advanced /\ UNCHANGED <<lconf, input_files>>
        /\ AddTo(next_item.name, boolean)
        /\ UNCHANGED <<phase, visited, ntags, fs, ran, dep, main, saved, functions, asked>>
        /\ UNCHANGED <<known_input_files, deferred_functions, output_contents, results>>
    BY <1>0, <1>15 DEF PutBoolean, OutState, DeferState, AtexitState, DiskState, Consumes
  <2>2. Names(files') = Names(files)
    BY <1>0, <2>1, TokensAre, AddNames DEF DiskType
  <2>. QED
    BY <2>1, <2>2 DEF Effects, Asks, Moves, Writes
<1>. QED
  BY <1>1, <1>2, <1>3, <1>4, <1>5, <1>6, <1>7, <1>8, <1>9, <1>10, <1>11, <1>12, <1>13, <1>14,
     <1>15 DEF Evaluate, Error, Include, Preprocess, Read, Macro, Put, PutBoolean, PutDefer

-----------------------------------------------------------------------------
(* The inductive invariant. *)

\* Nothing is saved before the last two phases, where only a file that cannot be
\* saved fails; the dependency file is written just before the tags are replaced.
SavedOK ==
  /\ phase \in {"files", "atexit", "dep"} => dep = Absent
  /\ phase \notin {"save", "done"} => main = Absent /\ saved = <<>>
  /\ failed /\ phase \in {"save", "done"} =>
       phase = "save" /\ files # <<>> /\ ~Concatenable(Head(files).content)
  /\ \A n \in DOMAIN saved : Concatenable(saved[n])

FileFrames(s) == {i \in DOMAIN s : s[i].kind = "file"}

TextsInFiles(s) ==
  \A i \in DOMAIN s : s[i].kind = "text" => \E j \in FileFrames(s) : j < i

\* One configuration and one input file for each file being expanded; a string
\* given to ypp belongs to a file.
Balanced ==
  /\ Len(lconf) = Cardinality(FileFrames(stack)) /\ Len(input_files) = Len(lconf)
  /\ TextsInFiles(stack)

\* Unless deferred functions include files, only one of them is being
\* evaluated, and what remains of it are calls of its body.
DeferredBody ==
  phase = "replace" /\ ~DeferredCalls({"include"}) /\ stack # <<>> =>
    /\ Len(stack) = 1 /\ top.kind = "fun"
    /\ \E i \in Tags : ToSet(top.items) \subseteq ToSet(Body[deferred_functions[i]])

\* The functions given to atexit are called in order, and all of them before
\* the end of its phase.
AtexitOK ==
  /\ asked = ran \o fs \o functions
  /\ phase \notin {"files", "atexit"} =>
       /\ fs = <<>>
       /\ ~DeferredCalls({"atexit", "include"}) => functions = <<>>

\* Once it is written, the dependency file lists what has been read, what is
\* saved and what will be.
DepOK ==
  phase \in {"replace", "save", "done"} =>
    /\ dep \in DepRecord
    /\ ~DeferredCalls({"include", "read", "file"}) =>
         /\ known_input_files \subseteq dep.ins
         /\ Names(files) \subseteq dep.outs /\ DOMAIN saved \subseteq dep.outs

Plain == {tok \in Token : tok.kind # "tag"}

\* A tag is left in the output when its function returns nothing.
Left ==
  {tok \in Token : tok.kind = "tag" => Returns[deferred_functions[tok.id]] = "nothing"}

\* The tags of the output are those of the deferred functions, and unless a
\* deferred function makes one the results have no tag.
TagsOK ==
  /\ \A i \in DOMAIN output_contents :
       output_contents[i].kind = "tag" => output_contents[i].id \in Tags
  /\ phase \in {"files", "atexit", "dep"} => visited = <<>>
  /\ phase \in {"replace", "save", "done"} => ntags <= Len(deferred_functions)
  /\ phase = "replace" /\ Len(deferred_functions) = ntags =>
       \A id \in ToSet(visited) : results[id] \in Seq(Plain)
  /\ phase \in {"save", "done"} /\ Len(deferred_functions) = ntags =>
       main \in MainRecord /\ main.content \in Seq(Left)

IInv ==
  TypeOK /\ SavedOK /\ Balanced /\ DeferredBody /\ AtexitOK /\ DepOK /\ TagsOK

-----------------------------------------------------------------------------
(* Nothing is saved before the end. *)

LEMMA SavedEvaluate == ASSUME TypeOK, SavedOK, Evaluate PROVE SavedOK'
<1>1. stack # <<>> /\ UNCHANGED <<phase, dep, main, saved>>
  BY EvaluateEffects DEF Effects
<1>2. phase \notin {"save", "done"}
  BY <1>1 DEF TypeOK
<1>. QED
  BY <1>1, <1>2 DEF SavedOK, Concatenable

LEMMA SavedMain == ASSUME TypeOK, SavedOK, Main PROVE SavedOK'
<1>1. CASE Fail
  <2>1. UNCHANGED <<phase, files, dep, main, saved>>
    BY <1>1 DEF Fail, DiskState
  <2>2. phase \in {"save", "done"} =>
          phase = "save" /\ files # <<>> /\ ~Concatenable(Head(files).content)
    <3>1. CASE SaveFile
      BY <1>1, <3>1 DEF SaveFile, Idle, Fail
    <3>2. CASE ~SaveFile
      BY <1>1, <3>2 DEF Main, ProcessFile, EndOfFiles, AtexitRound, AtexitCall, EndOfAtexit,
                        WriteDepFile, CallDeferred, WriteMain, Finish, Idle, Enter, Fail
    <3>. QED
      BY <3>1, <3>2
  <2>. QED
    BY <2>1, <2>2 DEF SavedOK, Concatenable
<1>2. CASE ~Fail /\ (ProcessFile \/ AtexitRound \/ AtexitCall \/ \E id \in Tags : CallDeferred(id))
  <2>1. /\ UNCHANGED <<phase, failed, dep, main, saved>> /\ ~failed
    BY <1>2 DEF ProcessFile, AtexitRound, AtexitCall, CallDeferred, Idle, DiskState
  <2>. QED
    BY <2>1 DEF SavedOK, Concatenable
<1>3. CASE EndOfFiles \/ EndOfAtexit \/ WriteDepFile
  <2>1. /\ phase \in {"files", "atexit", "dep"} /\ ~failed /\ failed' = failed
        /\ main' = main /\ saved' = saved
        /\ (phase' \in {"atexit", "dep"} /\ dep' = dep) \/ phase' = "replace"
    BY <1>3 DEF EndOfFiles, EndOfAtexit, WriteDepFile, Enter, Idle, DiskState
  <2>. QED
    BY <2>1 DEF SavedOK, Concatenable
<1>4. CASE ~Fail /\ (WriteMain \/ Finish)
  <2>1. /\ phase \in {"replace", "save"} /\ phase' \in {"save", "done"} /\ ~failed
        /\ failed' = failed /\ saved' = saved
    BY <1>4 DEF WriteMain, Finish, Enter, Idle, DiskState
  <2>. QED
    BY <2>1 DEF SavedOK, Concatenable
<1>5. CASE ~Fail /\ SaveFile
  <2>. DEFINE f == Head(files)
  <2>1. /\ phase = "save" /\ phase' = "save" /\ ~failed /\ failed' = failed
        /\ Concatenable(f.content)
        /\ saved' = [n \in DOMAIN saved \cup {f.name} |->
                       IF n = f.name THEN f.content ELSE saved[n]]
    BY <1>5 DEF SaveFile, Idle
  <2>. HIDE DEF f
  <2>2. \A n \in DOMAIN saved' : Concatenable(saved'[n])
    BY <2>1 DEF SavedOK
  <2>. QED
    BY <2>1, <2>2 DEF SavedOK, Concatenable
<1>. QED
  BY <1>1, <1>2, <1>3, <1>4, <1>5 DEF Main

-----------------------------------------------------------------------------
(* Configurations are restored. *)

LEMMA FramesFinite ==
  ASSUME NEW s \in Seq(FrameRecord)
  PROVE  IsFiniteSet(FileFrames(s)) /\ Cardinality(FileFrames(s)) \in Nat
<1>1. FileFrames(s) \subseteq 1 .. Len(s) /\ Len(s) \in Nat
  BY DEF FileFrames
<1>2. IsFiniteSet(1 .. Len(s))
  BY <1>1, FS_Interval
<1>. QED
  BY <1>1, <1>2, FS_Subset, FS_CardinalityType

LEMMA CountSame ==
  ASSUME NEW s \in Seq(FrameRecord), NEW t \in Seq(FrameRecord), Len(t) = Len(s),
         \A i \in 1 .. Len(s) : t[i].kind = s[i].kind
  PROVE  FileFrames(t) = FileFrames(s)
<1>1. DOMAIN s = 1 .. Len(s) /\ DOMAIN t = 1 .. Len(s)
  OBVIOUS
<1>. QED
  BY <1>1 DEF FileFrames

LEMMA CountPush ==
  ASSUME NEW s \in Seq(FrameRecord), NEW frame \in FrameRecord
  PROVE  /\ frame.kind # "file" => FileFrames(Append(s, frame)) = FileFrames(s)
         /\ frame.kind = "file" =>
              /\ FileFrames(Append(s, frame)) = FileFrames(s) \cup {Len(s) + 1}
              /\ Cardinality(FileFrames(Append(s, frame))) = Cardinality(FileFrames(s)) + 1
<1>. DEFINE t == Append(s, frame)
            n == Len(s)
<1>1. /\ t \in Seq(FrameRecord) /\ Len(t) = n + 1 /\ t[n+1] = frame
      /\ \A i \in 1 .. n : t[i] = s[i]
  OBVIOUS
<1>2. n \in Nat /\ DOMAIN s = 1 .. n
  OBVIOUS
<1>3. DOMAIN t = 1 .. n + 1
  BY <1>1
<1>. HIDE DEF n, t
<1>4. frame.kind # "file" => FileFrames(t) = FileFrames(s)
  BY <1>1, <1>2, <1>3 DEF FileFrames
<1>5. frame.kind = "file" => FileFrames(t) = FileFrames(s) \cup {n+1}
  BY <1>1, <1>2, <1>3 DEF FileFrames
<1>6. n + 1 \notin FileFrames(s)
  BY <1>2 DEF FileFrames
<1>7. Cardinality(FileFrames(s) \cup {n+1}) = Cardinality(FileFrames(s)) + 1
  BY <1>6, FramesFinite, FS_AddElement
<1>. QED
  BY <1>4, <1>5, <1>7 DEF n, t

LEMMA CountPop ==
  ASSUME NEW s \in Seq(FrameRecord), s # <<>>
  PROVE  /\ FileFrames(Front(s)) = FileFrames(s) \ {Len(s)}
         /\ Last(s).kind # "file" => FileFrames(Front(s)) = FileFrames(s)
         /\ Last(s).kind = "file" =>
              Cardinality(FileFrames(Front(s))) = Cardinality(FileFrames(s)) - 1
<1>. DEFINE t == Front(s)
            n == Len(s)
<1>1. /\ t \in Seq(FrameRecord) /\ Len(t) = n - 1 /\ Last(s) = s[n] /\ n \in Nat \ {0}
      /\ \A i \in 1 .. n - 1 : t[i] = s[i]
  BY FrontFacts
<1>2. DOMAIN s = 1 .. n
  OBVIOUS
<1>3. DOMAIN t = 1 .. n - 1
  BY <1>1
<1>. HIDE DEF n, t
<1>4. FileFrames(t) = FileFrames(s) \ {n}
  BY <1>1, <1>2, <1>3 DEF FileFrames
<1>5. Last(s).kind = "file" <=> n \in FileFrames(s)
  BY <1>1, <1>2 DEF FileFrames
<1>6. n \in FileFrames(s) => Cardinality(FileFrames(s) \ {n}) = Cardinality(FileFrames(s)) - 1
  BY FramesFinite, FS_RemoveElement
<1>. QED
  BY <1>4, <1>5, <1>6 DEF n, t

LEMMA TextsSame ==
  ASSUME NEW s \in Seq(FrameRecord), NEW t \in Seq(FrameRecord), Len(t) = Len(s),
         \A i \in 1 .. Len(s) : t[i].kind = s[i].kind, TextsInFiles(s)
  PROVE  TextsInFiles(t)
<1>1. DOMAIN s = 1 .. Len(s) /\ DOMAIN t = 1 .. Len(s)
  OBVIOUS
<1>2. FileFrames(t) = FileFrames(s)
  BY CountSame
<1>. QED
  BY <1>1, <1>2 DEF TextsInFiles

LEMMA TextsPush ==
  ASSUME NEW s \in Seq(FrameRecord), NEW frame \in FrameRecord, TextsInFiles(s),
         frame.kind = "text" => FileFrames(s) # {}
  PROVE  TextsInFiles(Append(s, frame))
<1>. DEFINE t == Append(s, frame)
            n == Len(s)
<1>1. /\ t \in Seq(FrameRecord) /\ Len(t) = n + 1 /\ t[n+1] = frame
      /\ \A i \in 1 .. n : t[i] = s[i]
  OBVIOUS
<1>2. n \in Nat /\ DOMAIN s = 1 .. n
  OBVIOUS
<1>3. DOMAIN t = 1 .. n + 1
  BY <1>1
<1>. HIDE DEF n, t
<1>4. FileFrames(s) \subseteq FileFrames(t) /\ FileFrames(s) \subseteq 1 .. n
  BY <1>1, <1>2, <1>3 DEF FileFrames
<1>5. ASSUME NEW i \in DOMAIN t, t[i].kind = "text" PROVE \E j \in FileFrames(t) : j < i
  <2>1. CASE i \in 1 .. n
    <3>1. s[i].kind = "text" /\ i \in DOMAIN s
      BY <1>1, <1>2, <1>5, <2>1
    <3>. QED
      BY <1>4, <3>1 DEF TextsInFiles
  <2>2. CASE i = n + 1
    <3>1. PICK j \in FileFrames(s) : TRUE
      BY <1>1, <1>5, <2>2
    <3>2. j \in FileFrames(t) /\ j < n + 1
      BY <1>2, <1>4
    <3>. QED
      BY <2>2, <3>2
  <2>. QED
    BY <1>2, <1>3, <2>1, <2>2
<1>. QED
  BY <1>5 DEF TextsInFiles, t

LEMMA TextsPop ==
  ASSUME NEW s \in Seq(FrameRecord), s # <<>>, TextsInFiles(s)
  PROVE  TextsInFiles(Front(s))
<1>. DEFINE t == Front(s)
            n == Len(s)
<1>1. /\ t \in Seq(FrameRecord) /\ Len(t) = n - 1 /\ n \in Nat \ {0}
      /\ \A i \in 1 .. n - 1 : t[i] = s[i]
  BY FrontFacts
<1>2. DOMAIN s = 1 .. n
  OBVIOUS
<1>3. DOMAIN t = 1 .. n - 1
  BY <1>1
<1>4. FileFrames(t) = FileFrames(s) \ {n} /\ FileFrames(s) \subseteq 1 .. n
  BY <1>2, CountPop DEF FileFrames
<1>. HIDE DEF n, t
<1>5. ASSUME NEW i \in DOMAIN t, t[i].kind = "text" PROVE \E j \in FileFrames(t) : j < i
  <2>1. s[i].kind = "text" /\ i \in DOMAIN s /\ i \in 1 .. n - 1
    BY <1>1, <1>2, <1>3, <1>5
  <2>2. PICK j \in FileFrames(s) : j < i
    BY <2>1 DEF TextsInFiles
  <2>3. j # n
    BY <1>1, <1>4, <2>1, <2>2
  <2>. QED
    BY <1>4, <2>2, <2>3
<1>. QED
  BY <1>5 DEF TextsInFiles, t

\* Sequences whose last element comes and goes.
LEMMA AppendLength ==
  ASSUME NEW S, NEW s \in Seq(S), NEW x \in S
  PROVE  Len(Append(s, x)) = Len(s) + 1
OBVIOUS

LEMMA BalancedEvaluate == ASSUME TypeOK, Balanced, Evaluate PROVE Balanced'
<1>1. /\ stack # <<>> /\ Moves /\ EvalType
  BY EvaluateEffects DEF Effects, TypeOK
<1>2. /\ stack \in Seq(FrameRecord) /\ lconf \in Seq(Char) /\ input_files \in Seq(File)
      /\ top = Last(stack)
  BY <1>1 DEF EvalType, top
<1>3. CASE UNCHANGED <<stack, lconf, input_files>>
  BY <1>3 DEF Balanced
<1>4. CASE /\ stack' = Front(stack)
           /\ IF top.kind = "file"
              THEN lconf' = Front(lconf) /\ input_files' = Front(input_files)
              ELSE UNCHANGED <<lconf, input_files>>
  <2>1. TextsInFiles(stack')
    BY <1>1, <1>2, <1>4, TextsPop DEF Balanced
  <2>2. CASE top.kind = "file"
    <3>1. Cardinality(FileFrames(stack')) = Cardinality(FileFrames(stack)) - 1
      BY <1>1, <1>2, <1>4, <2>2, CountPop
    <3>2. Len(stack) \in FileFrames(stack)
      BY <1>1, <2>2, TopFacts DEF FileFrames, EvalType
    <3>3. Cardinality(FileFrames(stack)) # 0
      BY <1>2, <3>2, FramesFinite, FS_EmptySet
    <3>4. lconf # <<>> /\ input_files # <<>>
      BY <3>3 DEF Balanced
    <3>5. Len(Front(lconf)) = Len(lconf) - 1 /\ Len(Front(input_files)) = Len(input_files) - 1
      BY <1>2, <3>4, FrontFacts
    <3>. QED
      BY <1>4, <2>1, <2>2, <3>1, <3>5 DEF Balanced
  <2>3. CASE top.kind # "file"
    <3>1. FileFrames(stack') = FileFrames(stack)
      BY <1>1, <1>2, <1>4, <2>3, CountPop
    <3>. QED
      BY <1>4, <2>1, <2>3, <3>1 DEF Balanced
  <2>. QED
    BY <2>2, <2>3
<1>5. ASSUME top.items # <<>>
      PROVE  /\ Advanced \in Seq(FrameRecord) /\ TextsInFiles(Advanced)
             /\ FileFrames(Advanced) = FileFrames(stack)
  <2>1. /\ Advanced \in Seq(FrameRecord) /\ Len(Advanced) = Len(stack)
        /\ \A i \in 1 .. Len(stack) : Advanced[i].kind = stack[i].kind
    BY <1>1, <1>5, AdvancedFacts
  <2>. QED
    BY <1>2, <2>1, CountSame, TextsSame DEF Balanced
<1>6. CASE /\ top.items # <<>> /\ stack' = Advanced
           /\ Len(lconf') = Len(lconf) /\ UNCHANGED input_files
  BY <1>5, <1>6 DEF Balanced
<1>7. ASSUME top.items # <<>>, NEW frame \in FrameRecord, frame.kind = "file",
             stack' = Append(Advanced, frame), NEW c \in Char, lconf' = Append(lconf, c),
             NEW f \in File, input_files' = Append(input_files, f)
      PROVE  Balanced'
  <2>1. Cardinality(FileFrames(stack')) = Cardinality(FileFrames(stack)) + 1
    BY <1>5, <1>7, CountPush
  <2>2. TextsInFiles(stack')
    BY <1>5, <1>7, TextsPush
  <2>3. Len(lconf') = Len(lconf) + 1 /\ Len(input_files') = Len(input_files) + 1
    BY <1>2, <1>7, AppendLength
  <2>. QED
    BY <2>1, <2>2, <2>3 DEF Balanced
<1>8. ASSUME top.items # <<>>, lconf # <<>>, UNCHANGED <<lconf, input_files>>,
             NEW frame \in FrameRecord, frame.kind = "text", stack' = Append(Advanced, frame)
      PROVE  Balanced'
  <2>1. FileFrames(stack) # {}
    <3>1. Len(lconf) # 0
      BY <1>2, <1>8
    <3>. QED
      BY <3>1, FS_EmptySet DEF Balanced
  <2>2. FileFrames(stack') = FileFrames(stack) /\ TextsInFiles(stack')
    BY <1>5, <1>8, <2>1, CountPush, TextsPush
  <2>. QED
    BY <1>8, <2>2 DEF Balanced
<1>. QED
  BY <1>1, <1>3, <1>4, <1>6, <1>7, <1>8 DEF Moves, Consumes

LEMMA NoFrames ==
  FileFrames(<<>>) = {} /\ Cardinality(FileFrames(<<>>)) = 0 /\ TextsInFiles(<<>>)
<1>1. FileFrames(<<>>) = {}
  BY DEF FileFrames
<1>. QED
  BY <1>1, FS_EmptySet DEF TextsInFiles

LEMMA OneFrame ==
  ASSUME NEW frame \in FrameRecord, frame.kind # "text"
  PROVE  /\ Cardinality(FileFrames(<<frame>>)) = IF frame.kind = "file" THEN 1 ELSE 0
         /\ TextsInFiles(<<frame>>)
<1>. DEFINE none == <<>>
<1>1. none \in Seq(FrameRecord) /\ Append(none, frame) = <<frame>>
  OBVIOUS
<1>2. Cardinality(FileFrames(none)) = 0 /\ TextsInFiles(none)
  BY NoFrames
<1>. DEFINE one == <<frame>>
<1>. HIDE DEF none
<1>3. one = Append(none, frame)
  BY <1>1
<1>. HIDE DEF one
<1>4. TextsInFiles(one)
  BY <1>1, <1>2, <1>3, TextsPush
<1>5. CASE frame.kind = "file"
  <2>1. Cardinality(FileFrames(one)) = Cardinality(FileFrames(none)) + 1
    BY <1>1, <1>3, <1>5, CountPush
  <2>. QED
    BY <1>2, <1>4, <1>5, <2>1 DEF one
<1>6. CASE frame.kind # "file"
  <2>1. FileFrames(one) = FileFrames(none)
    BY <1>1, <1>3, <1>6, CountPush
  <2>. QED
    BY <1>2, <1>4, <1>6, <2>1 DEF one
<1>. QED
  BY <1>5, <1>6

\* The steps of the main program that evaluate something.
LEMMA MainMoves ==
  ASSUME TypeOK, Main, UNCHANGED content
  PROVE  \/ UNCHANGED <<stack, lconf, input_files>>
         \/ \E frame \in FrameRecord :
              /\ stack = <<>> /\ frame.kind = "file" /\ stack' = <<frame>> /\ phase = "files"
              /\ lconf' = Append(lconf, MainChar)
              /\ \E f \in File : input_files' = Append(input_files, f)
         \/ \E frame \in FrameRecord :
              /\ stack = <<>> /\ frame.kind = "fun" /\ stack' = <<frame>>
              /\ UNCHANGED <<lconf, input_files>>
<1>1. CASE ProcessFile
  <2>1. CASE Fail
    BY <2>1 DEF Fail, EvalState
  <2>2. CASE ~Fail
    <3>. DEFINE f == Input[index + 1]
                frame == Frame("file", content[f])
    <3>1. /\ f \in File /\ stack = <<>> /\ phase = "files" /\ stack' = <<frame>>
          /\ lconf' = Append(lconf, MainChar) /\ input_files' = Append(input_files, f)
      BY <1>1, <2>2 DEF ProcessFile, Idle
    <3>2. frame \in FrameRecord /\ frame.kind = "file"
      BY <3>1, Documents DEF Frame
    <3>. HIDE DEF f, frame
    <3>. QED
      BY <3>1, <3>2
  <2>. QED
    BY <2>1, <2>2
<1>2. CASE AtexitCall
  <2>. DEFINE frame == Frame("fun", Body[Head(fs)])
  <2>1. stack = <<>> /\ stack' = <<frame>> /\ UNCHANGED <<lconf, input_files>> /\ fs # <<>>
    BY <1>2 DEF AtexitCall, Idle
  <2>2. Head(fs) \in Fn
    BY <2>1 DEF TypeOK, AtexitType
  <2>3. frame \in FrameRecord /\ frame.kind = "fun"
    BY <2>2, Bodies DEF Frame
  <2>. HIDE DEF frame
  <2>. QED
    BY <2>1, <2>3
<1>3. ASSUME NEW id \in Tags, CallDeferred(id)
      PROVE  \E frame \in FrameRecord :
               /\ stack = <<>> /\ frame.kind = "fun" /\ stack' = <<frame>>
               /\ UNCHANGED <<lconf, input_files>>
  <2>. DEFINE frame == Frame("fun", Body[deferred_functions[id]])
  <2>1. stack = <<>> /\ stack' = <<frame>> /\ UNCHANGED <<lconf, input_files>>
    BY <1>3 DEF CallDeferred, Idle
  <2>2. deferred_functions[id] \in Fn
    BY DEF TypeOK, DeferType, Tags
  <2>3. frame \in FrameRecord /\ frame.kind = "fun"
    BY <2>2, Bodies DEF Frame
  <2>. HIDE DEF frame
  <2>. QED
    BY <2>1, <2>3
<1>4. CASE \/ EndOfFiles \/ AtexitRound \/ EndOfAtexit \/ WriteDepFile \/ WriteMain
           \/ SaveFile \/ Finish
  <2>1. UNCHANGED EvalState
    BY <1>4 DEF EndOfFiles, AtexitRound, EndOfAtexit, WriteDepFile, WriteMain, SaveFile, Finish,
                Fail
  <2>. QED
    BY <2>1 DEF EvalState
<1>. QED
  BY <1>1, <1>2, <1>3, <1>4 DEF Main

LEMMA BalancedMain == ASSUME TypeOK, Balanced, Main, UNCHANGED content PROVE Balanced'
<1>1. CASE UNCHANGED <<stack, lconf, input_files>>
  BY <1>1 DEF Balanced
<1>2. lconf \in Seq(Char) /\ input_files \in Seq(File) /\ MainChar \in Char
  BY ItemAssumption DEF TypeOK, EvalType
<1>3. ASSUME stack = <<>> PROVE Len(lconf) = 0 /\ Len(input_files) = 0
  BY <1>3, NoFrames DEF Balanced
<1>4. ASSUME NEW frame \in FrameRecord, stack = <<>>, frame.kind = "file", stack' = <<frame>>,
             lconf' = Append(lconf, MainChar),
             NEW f \in File, input_files' = Append(input_files, f)
      PROVE  Balanced'
  <2>1. Len(lconf') = 1 /\ Len(input_files') = 1
    BY <1>2, <1>3, <1>4, AppendLength
  <2>. QED
    BY <1>4, <2>1, OneFrame DEF Balanced
<1>5. ASSUME NEW frame \in FrameRecord, stack = <<>>, frame.kind = "fun", stack' = <<frame>>,
             UNCHANGED <<lconf, input_files>>
      PROVE  Balanced'
  BY <1>3, <1>5, OneFrame DEF Balanced
<1>. QED
  BY <1>1, <1>4, <1>5, MainMoves

-----------------------------------------------------------------------------
(* What deferred functions may do. *)

\* Tags are never forgotten.
LEMMA DeferredStay ==
  ASSUME DeferType, NEW ops,
         UNCHANGED deferred_functions \/ \E fn \in Fn : MakeTag(fn)
  PROVE  /\ DeferredCalls(ops) => DeferredCalls(ops)'
         /\ Len(deferred_functions) \in Nat /\ Len(deferred_functions') \in Nat
         /\ Len(deferred_functions) <= Len(deferred_functions')
         /\ deferred_functions' # deferred_functions =>
              Len(deferred_functions') = Len(deferred_functions) + 1
         /\ \A i \in Tags : i \in Tags' /\ deferred_functions'[i] = deferred_functions[i]
<1>0. deferred_functions \in Seq(Fn) /\ DOMAIN deferred_functions = Tags
      /\ Len(deferred_functions) \in Nat
  BY DEF DeferType, Tags
<1>1. CASE UNCHANGED deferred_functions
  BY <1>0, <1>1 DEF DeferredCalls, Tags
<1>2. ASSUME NEW fn \in Fn, MakeTag(fn)
      PROVE  /\ Len(deferred_functions') = Len(deferred_functions) + 1
             /\ deferred_functions' \in Seq(Fn)
             /\ \A i \in 1 .. Len(deferred_functions) :
                  deferred_functions'[i] = deferred_functions[i]
  <2>1. deferred_functions' = Append(deferred_functions, fn)
    BY <1>2 DEF MakeTag
  <2>. QED
    BY <1>0, <2>1
<1>3. ASSUME NEW fn \in Fn, MakeTag(fn)
      PROVE  /\ Len(deferred_functions') = Len(deferred_functions) + 1
             /\ \A i \in Tags : i \in Tags' /\ deferred_functions'[i] = deferred_functions[i]
             /\ DOMAIN deferred_functions' = Tags'
  BY <1>0, <1>2, <1>3 DEF Tags
<1>4. ASSUME NEW fn \in Fn, MakeTag(fn), DeferredCalls(ops) PROVE DeferredCalls(ops)'
  BY <1>0, <1>3, <1>4 DEF DeferredCalls
<1>. QED
  BY <1>0, <1>1, <1>3, <1>4

\* Unless they include files, deferred functions only make calls of their own.
LEMMA BodyConsumes ==
  ASSUME TypeOK, DeferredBody, phase = "replace", stack # <<>>, ~DeferredCalls({"include"}),
         NEW ops, Consumes(ops)
  PROVE  DeferredCalls(ops)
<1>1. EvalType /\ DOMAIN deferred_functions = Tags
  BY DEF TypeOK, DeferType, Tags
<1>2. PICK i \in Tags : ToSet(top.items) \subseteq ToSet(Body[deferred_functions[i]])
  BY DEF DeferredBody
<1>3. next_item \in ToSet(top.items)
  BY <1>1, TopFacts DEF Consumes, ToSet
<1>. QED
  BY <1>1, <1>2, <1>3 DEF DeferredCalls, Consumes

LEMMA BodyNoConfiguration ==
  ASSUME TypeOK, Balanced, DeferredBody, phase = "replace", stack # <<>>,
         ~DeferredCalls({"include"})
  PROVE  lconf = <<>>
<1>1. EvalType /\ Len(stack) = 1 /\ top.kind = "fun"
  BY DEF DeferredBody, TypeOK
<1>2. DOMAIN stack = {1} /\ stack[1].kind = "fun"
  BY <1>1, TopFacts DEF EvalType
<1>3. FileFrames(stack) = {}
  BY <1>2 DEF FileFrames
<1>4. Len(lconf) = 0 /\ lconf \in Seq(Char)
  BY <1>1, <1>3, FS_EmptySet DEF Balanced, EvalType
<1>. QED
  BY <1>4

LEMMA BodyEvaluate == ASSUME TypeOK, Balanced, DeferredBody, Evaluate PROVE DeferredBody'
<1>1. /\ stack # <<>> /\ Moves /\ EvalType /\ DeferType /\ UNCHANGED phase
      /\ UNCHANGED deferred_functions \/ \E fn \in Fn : MakeTag(fn)
  BY EvaluateEffects DEF Effects, TypeOK
<1>. SUFFICES ASSUME phase' = "replace", ~DeferredCalls({"include"})', stack' # <<>>
              PROVE  /\ Len(stack') = 1 /\ top'.kind = "fun"
                     /\ \E i \in Tags' :
                          ToSet(top'.items) \subseteq ToSet(Body[deferred_functions'[i]])
  BY DEF DeferredBody
<1>2. ~DeferredCalls({"include"}) /\ phase = "replace"
  BY <1>1, DeferredStay
<1>3. Len(stack) = 1 /\ top.kind = "fun"
  BY <1>1, <1>2 DEF DeferredBody
<1>4. PICK i \in Tags : ToSet(top.items) \subseteq ToSet(Body[deferred_functions[i]])
  BY <1>1, <1>2 DEF DeferredBody
<1>5. i \in Tags' /\ deferred_functions'[i] = deferred_functions[i]
  BY <1>1, <1>4, DeferredStay
<1>6. ~Consumes({"include"}) /\ lconf = <<>>
  BY <1>1, <1>2, BodyConsumes, BodyNoConfiguration
<1>7. CASE stack' = stack
  BY <1>3, <1>4, <1>5, <1>7 DEF top
<1>8. CASE stack' = Front(stack)
  <2>1. Front(stack) \in Seq(FrameRecord) /\ Len(Front(stack)) = 0
    BY <1>1, <1>3, FrontFacts DEF EvalType
  <2>. QED
    BY <1>8, <2>1
<1>9. CASE top.items # <<>> /\ stack' = Advanced
  <2>1. /\ Len(Advanced) = 1 /\ Advanced[1] = [top EXCEPT !.items = Tail(top.items)]
        /\ top \in FrameRecord
    BY <1>1, <1>3, <1>9, AdvancedFacts, TopFacts
  <2>2. top' = [top EXCEPT !.items = Tail(top.items)]
    BY <1>9, <2>1 DEF top, Last
  <2>3. top'.kind = "fun" /\ top'.items = Tail(top.items)
    BY <1>3, <2>1, <2>2 DEF FrameRecord
  <2>4. ToSet(Tail(top.items)) \subseteq ToSet(top.items)
    BY <1>1, <1>9, TopFacts DEF ToSet
  <2>. QED
    BY <1>4, <1>5, <1>9, <2>1, <2>3, <2>4
<1>. QED
  BY <1>1, <1>6, <1>7, <1>8, <1>9 DEF Moves

LEMMA BodyMain == ASSUME TypeOK, DeferredBody, Main PROVE DeferredBody'
<1>1. CASE ProcessFile \/ AtexitCall \/ EndOfFiles \/ AtexitRound \/ EndOfAtexit
  <2>1. phase' # "replace"
    BY <1>1 DEF ProcessFile, AtexitCall, EndOfFiles, AtexitRound, EndOfAtexit, Fail, Idle, Enter
  <2>. QED
    BY <2>1 DEF DeferredBody
<1>2. CASE WriteDepFile \/ WriteMain \/ SaveFile \/ Finish
  <2>1. stack' = <<>>
    BY <1>2 DEF WriteDepFile, WriteMain, SaveFile, Finish, Fail, Idle, EvalState
  <2>. QED
    BY <2>1 DEF DeferredBody
<1>3. ASSUME NEW id \in Tags, CallDeferred(id) PROVE DeferredBody'
  <2>. DEFINE items == Body[deferred_functions[id]]
  <2>1. stack' = <<Frame("fun", items)>> /\ deferred_functions' = deferred_functions
    BY <1>3 DEF CallDeferred
  <2>. HIDE DEF items
  <2>2. Len(stack') = 1 /\ top' = Frame("fun", items)
    BY <2>1 DEF top, Last
  <2>3. top'.kind = "fun" /\ top'.items = items
    BY <2>2 DEF Frame
  <2>4. id \in Tags' /\ items = Body[deferred_functions'[id]]
    BY <2>1 DEF Tags, items
  <2>. QED
    BY <2>2, <2>3, <2>4 DEF DeferredBody
<1>. QED
  BY <1>1, <1>2, <1>3 DEF Main

LEMMA FewerCalls ==
  ASSUME NEW a, NEW b, a \subseteq b, DeferredCalls(a)
  PROVE  DeferredCalls(b)
BY DEF DeferredCalls

-----------------------------------------------------------------------------
(* The order of atexit. *)

Lengthens(a, b, c, x) == Append(a \o b \o c, x) = a \o b \o Append(c, x)

LEMMA AppendLast ==
  ASSUME NEW S, NEW a \in Seq(S), NEW b \in Seq(S), NEW c \in Seq(S), NEW x \in S
  PROVE  Lengthens(a, b, c, x)
<1>. DEFINE u == <<x>>
            ab == a \o b
<1>1. u \in Seq(S) /\ ab \in Seq(S)
  BY ConcatProperties
<1>2. ab \o c \in Seq(S)
  BY <1>1, ConcatProperties
<1>3. Append(ab \o c, x) = (ab \o c) \o u /\ Append(c, x) = c \o u
  BY <1>2, AppendIsConcat
<1>. HIDE DEF u, ab
<1>4. (ab \o c) \o u = ab \o (c \o u)
  <2>1. ab \in Seq(S) /\ c \in Seq(S) /\ u \in Seq(S)
    BY <1>1
  <2>. QED
    BY ONLY <2>1, ConcatAssociative
<1>. QED
  BY <1>3, <1>4 DEF ab, Lengthens

LEMMA MoveHead ==
  ASSUME NEW S, NEW a \in Seq(S), NEW b \in Seq(S), b # <<>>
  PROVE  Append(a, Head(b)) \o Tail(b) = a \o b
<1>. DEFINE u == <<Head(b)>>
            t == Tail(b)
<1>1. Head(b) \in S /\ t \in Seq(S) /\ u \in Seq(S)
  BY HeadTailProperties
<1>2. Append(a, Head(b)) = a \o u
  BY <1>1, AppendIsConcat
<1>3. b = u \o t
  <2>1. /\ Len(u) = 1 /\ u[1] = b[1] /\ Len(b) \in Nat \ {0} /\ Len(t) = Len(b) - 1
        /\ \A i \in 1 .. Len(b) - 1 : t[i] = b[i+1]
    OBVIOUS
  <2>. DEFINE c == u \o t
              n == Len(b)
  <2>2. /\ c \in Seq(S) /\ Len(c) = Len(u) + Len(t)
        /\ \A i \in 1 .. Len(u) + Len(t) :
             c[i] = IF i <= Len(u) THEN u[i] ELSE t[i - Len(u)]
    BY <1>1, ConcatProperties
  <2>. HIDE DEF u, t, c, n
  <2>3. Len(c) = n /\ n \in Nat \ {0}
    BY <2>1, <2>2 DEF n
  <2>4. ASSUME NEW i \in 1 .. n PROVE c[i] = b[i]
    <3>. DEFINE k == i - 1
    <3>1. i \in 1 .. Len(u) + Len(t) /\ (i = 1 \/ k \in 1 .. n - 1) /\ i - Len(u) = k
          /\ k + 1 = i /\ (i = 1 <=> i <= Len(u))
      BY <2>1 DEF n
    <3>. HIDE DEF k
    <3>. QED
      BY <2>1, <2>2, <3>1 DEF n
  <2>5. b = c
    BY <2>2, <2>3, <2>4, SeqEqual DEF n
  <2>. QED
    BY <2>5 DEF c
<1>. HIDE DEF u, t
<1>4. (a \o u) \o t = a \o (u \o t)
  BY <1>1, ConcatAssociative
<1>. QED
  BY <1>2, <1>3, <1>4 DEF t

LEMMA AtexitEvaluate ==
  ASSUME TypeOK, DeferredBody, AtexitOK, Evaluate
  PROVE  AtexitOK'
<1>1. /\ stack # <<>> /\ UNCHANGED <<phase, fs, ran>> /\ Asks /\ AtexitType /\ DeferType
      /\ UNCHANGED deferred_functions \/ \E fn \in Fn : MakeTag(fn)
  BY EvaluateEffects DEF Effects, TypeOK
<1>2. asked' = ran' \o fs' \o functions'
  <2>1. CASE UNCHANGED <<functions, asked>>
    BY <1>1, <2>1 DEF AtexitOK
  <2>2. ASSUME NEW fn \in Fn, functions' = Append(functions, fn), asked' = Append(asked, fn)
        PROVE  asked' = ran \o fs \o functions'
    <3>1. Lengthens(ran, fs, functions, fn)
      BY <1>1, AppendLast DEF AtexitType
    <3>2. Append(asked, fn) = ran \o fs \o Append(functions, fn)
      BY <3>1, Zenon DEF Lengthens, AtexitOK
    <3>. QED
      BY <2>2, <3>2, Zenon
  <2>. QED
    BY <1>1, <2>1, <2>2 DEF Asks
<1>3. ASSUME phase \notin {"files", "atexit"} PROVE fs' = <<>>
  BY <1>1, <1>3 DEF AtexitOK
<1>4. ASSUME phase \notin {"files", "atexit"}, ~DeferredCalls({"atexit", "include"})'
      PROVE  functions' = <<>>
  <2>1. phase = "replace"
    BY <1>1, <1>4 DEF TypeOK
  <2>2. ~DeferredCalls({"atexit", "include"})
    BY <1>1, <1>4, DeferredStay
  <2>3. ~DeferredCalls({"include"}) /\ ~DeferredCalls({"atexit"})
    BY <2>2, FewerCalls
  <2>4. ~Consumes({"atexit"})
    BY <1>1, <2>1, <2>3, BodyConsumes
  <2>. QED
    BY <1>1, <1>4, <2>2, <2>4 DEF Asks, AtexitOK
<1>. QED
  BY <1>1, <1>2, <1>3, <1>4 DEF AtexitOK

LEMMA AtexitMain == ASSUME TypeOK, AtexitOK, Main PROVE AtexitOK'
<1>0. AtexitType
  BY DEF TypeOK
<1>1. CASE ProcessFile \/ EndOfFiles
  <2>1. UNCHANGED AtexitState /\ phase' \in {"files", "atexit"}
    BY <1>1 DEF ProcessFile, EndOfFiles, Fail, Idle, Enter
  <2>. QED
    BY <2>1 DEF AtexitOK, AtexitState
<1>2. CASE AtexitRound
  <2>1. /\ fs = <<>> /\ fs' = functions /\ functions' = <<>> /\ UNCHANGED <<asked, ran>>
        /\ phase' = "atexit"
    BY <1>2 DEF AtexitRound, Idle
  <2>2. ran \o <<>> = ran /\ ran \o functions \in Seq(Fn)
    BY <1>0, ConcatEmptySeq, ConcatProperties DEF AtexitType
  <2>3. (ran \o functions) \o <<>> = ran \o functions
    BY <2>2, ConcatEmptySeq
  <2>. QED
    BY <2>1, <2>2, <2>3 DEF AtexitOK
<1>3. CASE AtexitCall
  <2>1. /\ fs # <<>> /\ fs' = Tail(fs) /\ ran' = Append(ran, Head(fs))
        /\ UNCHANGED <<functions, asked>> /\ phase' = "atexit"
    BY <1>3 DEF AtexitCall, Idle
  <2>2. ran' \o fs' = ran \o fs
    BY <1>0, <2>1, MoveHead DEF AtexitType
  <2>. QED
    BY <2>1, <2>2 DEF AtexitOK
<1>4. CASE EndOfAtexit
  BY <1>4 DEF EndOfAtexit, AtexitState, AtexitOK
<1>5. CASE \/ WriteDepFile \/ WriteMain \/ SaveFile \/ Finish
           \/ \E id \in Tags : CallDeferred(id)
  <2>1. UNCHANGED <<AtexitState, deferred_functions>> /\ phase \notin {"files", "atexit"}
    BY <1>5 DEF WriteDepFile, CallDeferred, WriteMain, SaveFile, Finish, Fail, Idle, DeferState
  <2>2. \A ops : DeferredCalls(ops)' <=> DeferredCalls(ops)
    BY <2>1 DEF DeferredCalls
  <2>. QED
    BY <2>1, <2>2 DEF AtexitOK, AtexitState
<1>. QED
  BY <1>1, <1>2, <1>3, <1>4, <1>5 DEF Main

-----------------------------------------------------------------------------
(* The dependency file. *)

LEMMA DepEvaluate == ASSUME TypeOK, DeferredBody, DepOK, Evaluate PROVE DepOK'
<1>1. /\ stack # <<>> /\ UNCHANGED <<phase, dep, saved>> /\ DeferType
      /\ known_input_files' = known_input_files \/ Consumes({"include", "read"})
      /\ Names(files') = Names(files) \/ Consumes({"file"})
      /\ UNCHANGED deferred_functions \/ \E fn \in Fn : MakeTag(fn)
  BY EvaluateEffects DEF Effects, TypeOK
<1>2. ASSUME phase \in {"replace", "save", "done"}, ~DeferredCalls({"include", "read", "file"})'
      PROVE  /\ known_input_files' \subseteq dep.ins
             /\ Names(files') \subseteq dep.outs /\ DOMAIN saved \subseteq dep.outs
  <2>1. phase = "replace"
    BY <1>1, <1>2 DEF TypeOK
  <2>2. ~DeferredCalls({"include", "read", "file"})
    BY <1>1, <1>2, DeferredStay
  <2>3. ~DeferredCalls({"include"}) /\ ~DeferredCalls({"include", "read"})
        /\ ~DeferredCalls({"file"})
    BY <2>2, FewerCalls
  <2>4. ~Consumes({"include", "read"}) /\ ~Consumes({"file"})
    BY <1>1, <2>1, <2>3, BodyConsumes
  <2>. QED
    BY <1>1, <2>1, <2>2, <2>4 DEF DepOK
<1>. QED
  BY <1>1, <1>2 DEF DepOK

LEMMA DepMain == ASSUME TypeOK, SavedOK, DepOK, Main PROVE DepOK'
<1>1. CASE ProcessFile \/ EndOfFiles \/ AtexitRound \/ AtexitCall \/ EndOfAtexit
  <2>1. phase' \in {"files", "atexit", "dep"}
    BY <1>1 DEF ProcessFile, EndOfFiles, AtexitRound, AtexitCall, EndOfAtexit, Fail, Idle, Enter
  <2>. QED
    BY <2>1 DEF DepOK
<1>2. CASE WriteDepFile
  <2>1. /\ phase = "dep" /\ dep' = [kind |-> "dep", ins |-> known_input_files,
                                    outs |-> Names(files)]
        /\ UNCHANGED <<known_input_files, files, saved>>
    BY <1>2 DEF WriteDepFile, Idle, OutState, Names
  <2>2. DOMAIN saved = {}
    BY <2>1 DEF SavedOK
  <2>3. Names(files) \subseteq Output
    <3>1. \A i \in DOMAIN files : files[i] \in FileRecord
      BY DEF TypeOK, DiskType
    <3>. QED
      BY <3>1 DEF Names, FileRecord
  <2>4. dep' \in DepRecord
    BY <2>1, <2>3 DEF DepRecord, TypeOK, OutType
  <2>. QED
    BY <2>1, <2>2, <2>4 DEF DepOK
<1>3. CASE WriteMain \/ Finish \/ SaveFile \/ \E id \in Tags : CallDeferred(id)
  <2>1. /\ phase \in {"replace", "save", "done"} /\ UNCHANGED <<known_input_files, dep>>
        /\ UNCHANGED deferred_functions
    BY <1>3 DEF WriteMain, Finish, SaveFile, Fail, CallDeferred, Idle, OutState, DiskState,
                DeferState
  <2>2. \A ops : DeferredCalls(ops)' <=> DeferredCalls(ops)
    BY <2>1 DEF DeferredCalls
  <2>3. CASE UNCHANGED <<files, saved>>
    BY <2>1, <2>2, <2>3 DEF DepOK
  <2>4. CASE SaveFile /\ ~Fail
    <3>1. /\ files # <<>> /\ files' = Tail(files) /\ DOMAIN saved' = DOMAIN saved \cup {Head(files).name}
          /\ files \in Seq(FileRecord)
      BY <2>4 DEF SaveFile, TypeOK, DiskType
    <3>2. Names(files') \subseteq Names(files) /\ Head(files).name \in Names(files)
      <4>1. /\ Head(files) = files[1] /\ 1 \in DOMAIN files
            /\ \A i \in DOMAIN Tail(files) : i + 1 \in DOMAIN files /\ Tail(files)[i] = files[i+1]
        BY <3>1
      <4>. QED
        BY <3>1, <4>1 DEF Names
    <3>. QED
      BY <2>1, <2>2, <3>1, <3>2 DEF DepOK
  <2>. QED
    BY <1>3, <2>3, <2>4 DEF WriteMain, Finish, CallDeferred, Fail, DiskState
<1>. QED
  BY <1>1, <1>2, <1>3 DEF Main

-----------------------------------------------------------------------------
(* The tags of the main output. *)

LEMMA OutputTags ==
  ASSUME TypeOK, TagsOK, stack # <<>>, Writes, DeferType,
         UNCHANGED deferred_functions \/ \E fn \in Fn : MakeTag(fn)
  PROVE  \A i \in DOMAIN output_contents' :
           output_contents'[i].kind = "tag" => output_contents'[i].id \in Tags'
<1>1. \A i \in Tags : i \in Tags'
  BY DeferredStay
<1>2. output_contents \in Seq(Token)
  BY DEF TypeOK, OutType
<1>3. CASE UNCHANGED output_contents
  BY <1>1, <1>3 DEF TagsOK
<1>4. ASSUME NEW tok \in Token, Yield(<<tok>>), ~UNCHANGED output_contents,
             tok.kind = "tag" =>
               tok.id = Len(deferred_functions') /\ deferred_functions' # deferred_functions,
             NEW i \in DOMAIN output_contents', output_contents'[i].kind = "tag"
      PROVE  output_contents'[i].id \in Tags'
  <2>1. output_contents' = output_contents \o <<tok>>
    BY <1>4 DEF Yield, TypeOK
  <2>2. i \in 1 .. Len(output_contents) + 1 /\ Len(output_contents) \in Nat
    BY <1>2, <1>4, <2>1
  <2>3. CASE i = Len(output_contents) + 1
    <3>1. output_contents'[i] = tok
      BY <1>2, <2>1, <2>2, <2>3
    <3>2. Len(deferred_functions') \in Nat \ {0}
      BY <1>4, <3>1, DeferredStay
    <3>. QED
      BY <1>4, <3>1, <3>2 DEF Tags
  <2>4. CASE i \in 1 .. Len(output_contents)
    <3>1. output_contents'[i] = output_contents[i] /\ i \in DOMAIN output_contents
      BY <1>2, <2>1, <2>4
    <3>. QED
      BY <1>1, <1>4, <3>1 DEF TagsOK
  <2>. QED
    BY <2>2, <2>3, <2>4
<1>. QED
  BY <1>3, <1>4 DEF Writes

LEMMA ResultTags ==
  ASSUME TypeOK, TagsOK, stack # <<>>, Writes, UNCHANGED <<deferred_functions, visited>>,
         phase = "replace", \A id \in ToSet(visited) : results[id] \in Seq(Plain)
  PROVE  \A id \in ToSet(visited) : results'[id] \in Seq(Plain)
<1>1. CASE UNCHANGED results
  BY <1>1
<1>2. ASSUME NEW tok \in Token, Yield(<<tok>>), tok.kind # "tag"
      PROVE  \A id \in ToSet(visited) : results'[id] \in Seq(Plain)
  <2>. DEFINE last == Last(visited)
              toks == <<tok>>
  <2>1. last \in ToSet(visited) /\ DOMAIN results = ToSet(visited)
    <3>1. Len(visited) \in DOMAIN visited
      BY DEF TypeOK, DeferType
    <3>. QED
      BY <3>1 DEF Last, ToSet, TypeOK, DeferType
  <2>2. results' = [results EXCEPT ![last] = @ \o toks]
    BY <1>2 DEF Yield
  <2>3. toks \in Seq(Plain)
    BY <1>2 DEF Plain
  <2>. HIDE DEF last, toks
  <2>4. results[last] \o toks \in Seq(Plain)
    BY <2>1, <2>3, ConcatProperties
  <2>. QED
    BY <2>1, <2>2, <2>4
<1>. QED
  BY <1>1, <1>2 DEF Writes

LEMMA TagsEvaluate == ASSUME TypeOK, TagsOK, Evaluate PROVE TagsOK'
<1>1. /\ stack # <<>> /\ UNCHANGED <<phase, visited, ntags, main>> /\ Writes /\ DeferType
      /\ UNCHANGED deferred_functions \/ \E fn \in Fn : MakeTag(fn)
  BY EvaluateEffects DEF Effects, TypeOK
<1>2. phase \in {"files", "atexit", "replace"}
  BY <1>1 DEF TypeOK
<1>3. \A i \in DOMAIN output_contents' :
        output_contents'[i].kind = "tag" => output_contents'[i].id \in Tags'
  BY <1>1, OutputTags
<1>4. ASSUME phase = "replace" PROVE ntags <= Len(deferred_functions')
  <2>1. /\ Len(deferred_functions) \in Nat /\ Len(deferred_functions') \in Nat
        /\ Len(deferred_functions) <= Len(deferred_functions')
    BY <1>1, DeferredStay
  <2>2. ntags \in Nat /\ ntags <= Len(deferred_functions)
    BY <1>1, <1>4 DEF TagsOK, DeferType
  <2>. QED
    BY <2>1, <2>2
<1>5. ASSUME phase = "replace", Len(deferred_functions') = ntags
      PROVE  \A id \in ToSet(visited) : results'[id] \in Seq(Plain)
  <2>1. UNCHANGED deferred_functions
    <3>1. /\ Len(deferred_functions) \in Nat /\ Len(deferred_functions') \in Nat
          /\ deferred_functions' # deferred_functions =>
               Len(deferred_functions') = Len(deferred_functions) + 1
      BY <1>1, DeferredStay
    <3>2. ntags \in Nat /\ ntags <= Len(deferred_functions)
      BY <1>1, <1>5 DEF TagsOK, DeferType
    <3>. QED
      BY <1>5, <3>1, <3>2
  <2>2. \A id \in ToSet(visited) : results[id] \in Seq(Plain)
    BY <1>5, <2>1 DEF TagsOK
  <2>. QED
    BY <1>1, <1>5, <2>1, <2>2, ResultTags
<1>. QED
  BY <1>1, <1>2, <1>3, <1>4, <1>5 DEF TagsOK

LEMMA TagsCallDeferred ==
  ASSUME TypeOK, TagsOK, NEW id \in Tags, CallDeferred(id)
  PROVE  TagsOK'
<1>1. /\ phase = "replace" /\ DeferType
      /\ UNCHANGED <<phase, OutState, deferred_functions, ntags>>
  BY DEF CallDeferred, Idle, TypeOK
<1>2. /\ ToSet(visited') = ToSet(visited) \cup {id} /\ DOMAIN results' = DOMAIN results \cup {id}
      /\ \A i \in DOMAIN results' : results'[i] = IF i = id THEN <<>> ELSE results[i]
  BY <1>1, VisitFacts
<1>3. ASSUME Len(deferred_functions) = ntags, NEW i \in ToSet(visited')
      PROVE  results'[i] \in Seq(Plain)
  <2>1. results'[i] = IF i = id THEN <<>> ELSE results[i]
    BY <1>1, <1>2, <1>3 DEF DeferType
  <2>2. i # id => results[i] \in Seq(Plain)
    BY <1>1, <1>2, <1>3 DEF TagsOK
  <2>. QED
    BY <2>1, <2>2
<1>. QED
  BY <1>1, <1>3 DEF TagsOK, Tags, OutState

\* A step that fails leaves the tags alone.
LEMMA TagsFail == ASSUME TagsOK, Fail PROVE TagsOK'
<1>1. UNCHANGED <<phase, output_contents, deferred_functions, visited, results, ntags, main>>
  BY DEF Fail, OutState, DeferState, DiskState
<1>. QED
  BY <1>1 DEF TagsOK, Tags, Left

LEMMA TagsWriteMain == ASSUME TypeOK, TagsOK, WriteMain, ~Fail PROVE TagsOK'
<1>. DEFINE all == FlattenSeq([i \in DOMAIN output_contents |-> Replaced(output_contents[i])])
<1>1. /\ phase = "replace" /\ phase' = "save" /\ DeferType
      /\ Tags \subseteq ToSet(visited) \/ Len(deferred_functions) > ntags
      /\ main' = [kind |-> "main", content |-> all]
      /\ UNCHANGED <<output_contents, deferred_functions, ntags>>
      /\ \A tok \in ToSet(output_contents) : ~Gives(tok, {"other"})
  BY DEF WriteMain, Idle, Enter, OutState, DeferState, TypeOK
<1>2. ASSUME Len(deferred_functions) = ntags PROVE all \in Seq(Left)
  <2>1. Tags \subseteq DOMAIN results /\ \A id \in ToSet(visited) : results[id] \in Seq(Plain)
    BY <1>1, <1>2 DEF TagsOK, DeferType
  <2>2. ASSUME NEW i \in DOMAIN output_contents
        PROVE  Replaced(output_contents[i]) \in Seq(Left)
    <3>. DEFINE tok == output_contents[i]
    <3>1. tok \in Token /\ ~Gives(tok, {"other"}) /\ (tok.kind = "tag" => tok.id \in Tags)
      BY <1>1 DEF TypeOK, OutType, ToSet, TagsOK
    <3>. HIDE DEF tok
    <3>2. CASE Gives(tok, {"text"})
      <4>1. tok.id \in ToSet(visited)
        BY <1>1, <3>2 DEF Gives, DeferType
      <4>2. results[tok.id] \in Seq(Plain)
        BY <2>1, <4>1
      <4>3. Plain \subseteq Left
        BY DEF Plain, Left
      <4>. QED
        BY <3>2, <4>2, <4>3 DEF Replaced, tok
    <3>3. CASE ~Gives(tok, {"text"})
      <4>1. ASSUME tok.kind = "tag" PROVE Returns[deferred_functions[tok.id]] = "nothing"
        <5>1. deferred_functions[tok.id] \in Fn
          BY <1>1, <3>1, <4>1 DEF DeferType, Tags
        <5>2. Returns[deferred_functions[tok.id]] \in {"text", "nothing", "other"}
          BY <5>1, ItemAssumption DEF Returned
        <5>. QED
          BY <2>1, <3>1, <3>3, <4>1, <5>2 DEF Gives
      <4>2. tok \in Left
        BY <3>1, <4>1 DEF Left
      <4>. QED
        BY <3>3, <4>2 DEF Replaced, tok
    <3>. QED
      BY <3>2, <3>3
  <2>. QED
    BY <2>2, MainTokens
<1>3. Seq(Left) \subseteq Seq(Token)
  BY DEF Left
<1>. HIDE DEF all
<1>4. ASSUME Len(deferred_functions) = ntags
      PROVE  main' \in MainRecord /\ main'.content \in Seq(Left)
  BY <1>1, <1>2, <1>3, <1>4 DEF MainRecord
<1>5. Left' = Left
  BY <1>1 DEF Left
<1>. QED
  BY <1>1, <1>4, <1>5 DEF TagsOK, Tags

LEMMA TagsMain == ASSUME TypeOK, TagsOK, Main PROVE TagsOK'
<1>1. CASE ProcessFile \/ EndOfFiles \/ AtexitRound \/ AtexitCall \/ EndOfAtexit
  <2>1. /\ UNCHANGED <<output_contents, deferred_functions, visited>>
        /\ phase \in {"files", "atexit"} /\ phase' \in {"files", "atexit", "dep"}
    BY <1>1 DEF ProcessFile, EndOfFiles, AtexitRound, AtexitCall, EndOfAtexit, Fail, Idle, Enter,
       OutState, DeferState
  <2>. QED
    BY <2>1 DEF TagsOK, Tags
<1>2. CASE WriteDepFile
  <2>1. /\ phase = "dep" /\ phase' = "replace" /\ ntags' = Len(deferred_functions)
        /\ UNCHANGED <<output_contents, deferred_functions, visited, results>>
    BY <1>2 DEF WriteDepFile, Idle, Enter, OutState
  <2>2. ToSet(visited) = {}
    BY <2>1 DEF TagsOK, ToSet
  <2>3. ntags' <= Len(deferred_functions')
    BY <2>1 DEF TypeOK, DeferType
  <2>. QED
    BY <2>1, <2>2, <2>3 DEF TagsOK, Tags
<1>3. CASE ~Fail /\ (SaveFile \/ Finish)
  <2>1. /\ phase \in {"save", "done"} /\ phase' \in {"save", "done"}
        /\ UNCHANGED <<output_contents, DeferState, main>>
    BY <1>3 DEF SaveFile, Finish, Idle, Enter, OutState, DiskState
  <2>. QED
    BY <2>1 DEF TagsOK, Tags, Left, DeferState
<1>. QED
  BY <1>1, <1>2, <1>3, TagsFail, TagsCallDeferred, TagsWriteMain DEF Main

-----------------------------------------------------------------------------
(* Theorems. *)

LEMMA InitIInv == Init => IInv
<1>. SUFFICES ASSUME Init PROVE IInv
  OBVIOUS
<1>1. SavedOK /\ DeferredBody /\ DepOK
  BY DEF Init, SavedOK, Concatenable, DeferredBody, DepOK
<1>2. Balanced
  BY NoFrames DEF Init, Balanced
<1>3. AtexitOK
  BY ConcatEmptySeq DEF Init, AtexitOK
<1>4. TagsOK
  BY DEF Init, TagsOK
<1>. QED
  BY <1>1, <1>2, <1>3, <1>4, TypeInit DEF IInv

LEMMA Invariance == IInv /\ [Next]_vars => IInv'
<1>. SUFFICES ASSUME IInv, [Next]_vars PROVE IInv'
  OBVIOUS
<1>1. TypeOK'
  BY TypeStep DEF IInv
<1>2. CASE Evaluate
  BY <1>1, <1>2, SavedEvaluate, BalancedEvaluate, BodyEvaluate, AtexitEvaluate, DepEvaluate,
     TagsEvaluate DEF IInv
<1>3. CASE Main /\ UNCHANGED content
  BY <1>1, <1>3, SavedMain, BalancedMain, BodyMain, AtexitMain, DepMain, TagsMain DEF IInv
<1>4. CASE UNCHANGED vars
  <2>1. /\ UNCHANGED <<content, phase, failed, index, EvalState, OutState, DeferState>>
        /\ UNCHANGED <<AtexitState, files, DiskState>>
    BY <1>4 DEF vars
  <2>2. UNCHANGED <<stack, lconf, input_files, top, Tags>>
        /\ \A ops : DeferredCalls(ops)' <=> DeferredCalls(ops)
    BY <2>1 DEF EvalState, DeferState, DeferredCalls, top, Tags
  <2>3. SavedOK' /\ Balanced' /\ DeferredBody'
    BY <2>1, <2>2 DEF IInv, SavedOK, Concatenable, Balanced, DeferredBody, DiskState, DeferState
  <2>4. AtexitOK' /\ DepOK' /\ TagsOK'
    BY <2>1, <2>2 DEF IInv, AtexitOK, DepOK, TagsOK, Left, AtexitState, DiskState, OutState,
                      DeferState
  <2>. QED
    BY <1>1, <2>3, <2>4 DEF IInv
<1>. QED
  BY <1>2, <1>3, <1>4 DEF Next, Exited

\* The variables of a run have their types.
THEOREM TypeCorrect == Spec => []TypeOK
<1>1. IInv => TypeOK
  BY DEF IInv
<1>. QED
  BY <1>1, InitIInv, Invariance, PTL DEF Spec

\* A run that fails before the functions of defer are called has written and
\* saved nothing, one that fails in them only the dependency file; afterwards
\* only a file that cannot be saved makes a run fail (ypp.lua, main; file.lua:
\* "Files are only saved once ypp succeed").
THEOREM WhatFailuresLeave == Spec => []FailuresLeave
<1>1. IInv => FailuresLeave
  BY DEF IInv, TypeOK, Phase, SavedOK, FailuresLeave
<1>. QED
  BY <1>1, InitIInv, Invariance, PTL DEF Spec

\* atexit.run calls the functions in the order they were given, and all of
\* them when deferred functions give none.
THEOREM AtexitInOrder == Spec => []AtexitOrder
<1>1. IInv => AtexitOrder
  <2>. SUFFICES ASSUME IInv, phase = "done", ~DeferredCalls({"atexit", "include"})
                PROVE  ran = asked
    BY DEF AtexitOrder, IInv, AtexitOK
  <2>1. asked = ran \o <<>> \o <<>> /\ ran \in Seq(Fn)
    BY DEF IInv, AtexitOK, TypeOK, AtexitType
  <2>. QED
    BY <2>1, ConcatEmptySeq
<1>. QED
  BY <1>1, InitIInv, Invariance, PTL DEF Spec

\* The dependency file lists what was read and what was saved, unless deferred
\* functions read or create files.
THEOREM DependenciesListed == Spec => []DepFileComplete
<1>1. IInv => DepFileComplete
  BY DEF IInv, DepOK, DepFileComplete
<1>. QED
  BY <1>1, InitIInv, Invariance, PTL DEF Spec

\* The only tags left in the main output are those of functions that return nil
\* or false, when the deferred functions make no tag (defer.lua, replace).
THEOREM TagsAreReplaced == Spec => []TagsReplaced
<1>1. IInv => TagsReplaced
  <2>. SUFFICES ASSUME IInv, phase = "done", Len(deferred_functions) = ntags,
                       NEW tok \in ToSet(main.content), tok.kind = "tag"
                PROVE  Returns[deferred_functions[tok.id]] = "nothing"
    BY DEF TagsReplaced
  <2>1. main.content \in Seq(Left)
    BY DEF IInv, TagsOK
  <2>. QED
    BY <2>1 DEF ToSet, Left
<1>. QED
  BY <1>1, InitIInv, Invariance, PTL DEF Spec

\* Every document is evaluated with a configuration, its own or the one of the
\* file it comes from, and when nothing is evaluated none is left.
ConfigurationsMatch ==
  /\ stack = <<>> => lconf = <<>> /\ input_files = <<>>
  /\ stack # <<>> /\ top.kind # "fun" => lconf # <<>> /\ input_files # <<>>

LEMMA ConfigurationsFacts == IInv => ConfigurationsMatch
<1>. SUFFICES ASSUME IInv PROVE ConfigurationsMatch
  OBVIOUS
<1>1. EvalType /\ lconf \in Seq(Char) /\ input_files \in Seq(File)
  BY DEF IInv, TypeOK, EvalType
<1>2. ASSUME stack = <<>> PROVE lconf = <<>> /\ input_files = <<>>
  <2>1. Len(lconf) = 0 /\ Len(input_files) = 0
    BY <1>2, NoFrames DEF IInv, Balanced
  <2>. QED
    BY <1>1, <2>1
<1>3. ASSUME stack # <<>>, top.kind # "fun" PROVE lconf # <<>> /\ input_files # <<>>
  <2>1. /\ Len(stack) \in DOMAIN stack /\ stack[Len(stack)] = top /\ top \in FrameRecord
        /\ stack \in Seq(FrameRecord)
    BY <1>1, <1>3, TopFacts DEF EvalType
  <2>2. top.kind \in {"file", "text"}
    BY <1>3, <2>1 DEF FrameRecord
  <2>3. FileFrames(stack) # {}
    BY <2>1, <2>2 DEF IInv, Balanced, TextsInFiles, FileFrames
  <2>4. Len(lconf) # 0 /\ Len(input_files) # 0
    BY <2>1, <2>3, FramesFinite, FS_EmptySet DEF IInv, Balanced
  <2>. QED
    BY <2>4
<1>. QED
  BY <1>2, <1>3 DEF ConfigurationsMatch

\* process pushes a local configuration and an input file and pops them when the
\* file is expanded (ypp.lua, lconf and input_files), however files include
\* each other, and a string given to ypp never outlives the file that gives it.
THEOREM ConfigurationsRestored == Spec => []ConfigurationsMatch
BY ConfigurationsFacts, InitIInv, Invariance, PTL DEF Spec

-----------------------------------------------------------------------------
(* What documents expand to. *)

LEMMA StageFacts ==
  ASSUME NEW st \in Stage
  PROVE  /\ st.status \in {"on", "failed", "unknown"} /\ st.char \in Char /\ st.n \in Nat
         /\ st.toks \in Seq(Part)
         /\ \A how \in {"failed", "unknown"} :
              Ended(st, how) \in Stage /\ Ended(st, how).status = how
         /\ \A part \in Part : Produce(st, part) \in Stage
         /\ \A c \in Char : [st EXCEPT !.char = c] \in Stage
         /\ [st EXCEPT !.n = @ + 1] \in Stage
<1>1. /\ st.status \in {"on", "failed", "unknown"} /\ st.char \in Char /\ st.n \in Nat
      /\ st.toks \in Seq(Part)
  BY DEF Stage
<1>2. ASSUME NEW how \in {"failed", "unknown"}
      PROVE  Ended(st, how) \in Stage /\ Ended(st, how).status = how
  BY DEF Stage, Ended
<1>3. ASSUME NEW part \in Part PROVE Produce(st, part) \in Stage
  <2>1. Append(st.toks, part) \in Seq(Part)
    BY <1>1
  <2>. QED
    BY <2>1 DEF Stage, Produce
<1>4. \A c \in Char : [st EXCEPT !.char = c] \in Stage
  BY DEF Stage
<1>5. [st EXCEPT !.n = @ + 1] \in Stage
  <2>1. st.n + 1 \in Nat
    BY <1>1
  <2>. QED
    BY <2>1 DEF Stage
<1>. QED
  BY <1>1, <1>2, <1>3, <1>4, <1>5

LEMMA PartsAre ==
  /\ text \in Part /\ \A it \in Item : raw(it) \in Part
  /\ \A n \in Nat : value(n) \in Part
  /\ \A fn \in Fn : later(fn) \in Part
BY TokensAre DEF Part, later

Expansions == [File -> [Stage -> Stage]]

\* What happens to an item whose macro character is the current one.
Evaluated(inside, st, it) ==
  CASE it.op = "count" -> [st EXCEPT !.n = @ + 1]
    [] it.op = "show"  -> Produce(st, value(st.n))
    [] it.op = "macro" -> [st EXCEPT !.char = it.new]
    [] it.op = "defer" /\ Shows(it.fn) -> Produce(st, later(it.fn))
    [] it.op = "ypp"   -> inside[it.file][st]
    [] it.op = "include" /\ it.file \in File ->
         [inside[it.file][[st EXCEPT !.char = MainChar]] EXCEPT !.char = st.char]
    [] it.op = "read" /\ it.file \in File -> Produce(st, text)
    [] it.op \in {"include", "read"} /\ it.file \notin File -> Ended(st, "failed")
    [] it.op = "file"  -> st
    [] it.op = "error" -> Ended(st, "failed")
    [] OTHER           -> Ended(st, "unknown")

LEMMA FollowingCases ==
  ASSUME NEW inside, NEW st, NEW it
  PROVE  /\ st.status # "on" => Following(inside, st, it) = st
         /\ st.status = "on" /\ it.op = "text" => Following(inside, st, it) = Produce(st, text)
         /\ st.status = "on" /\ it.op # "text" /\ it.char # st.char =>
              Following(inside, st, it) = Produce(st, raw(it))
         /\ st.status = "on" /\ it.op # "text" /\ it.char = st.char =>
              Following(inside, st, it) = Evaluated(inside, st, it)
BY DEF Following, Evaluated

LEMMA FollowingIn ==
  ASSUME NEW inside \in Expansions, NEW st \in Stage, NEW it \in Item
  PROVE  Following(inside, st, it) \in Stage
<1>1. /\ st.char \in Char /\ st.n \in Nat
      /\ \A how \in {"failed", "unknown"} : Ended(st, how) \in Stage
      /\ \A part \in Part : Produce(st, part) \in Stage
      /\ \A c \in Char : [st EXCEPT !.char = c] \in Stage
      /\ [st EXCEPT !.n = @ + 1] \in Stage
  BY StageFacts
<1>2. MainChar \in Char
  BY ItemAssumption
<1>3. Evaluated(inside, st, it) \in Stage
  <2>1. CASE it.op = "count"
    <3>1. Evaluated(inside, st, it) = [st EXCEPT !.n = @ + 1]
      BY <2>1 DEF Evaluated
    <3>. QED
      BY <1>1, <3>1
  <2>2. CASE it.op = "show"
    <3>1. Evaluated(inside, st, it) = Produce(st, value(st.n))
      BY <2>2 DEF Evaluated
    <3>. QED
      BY <1>1, <3>1, PartsAre
  <2>3. CASE it.op = "macro"
    <3>1. Evaluated(inside, st, it) = [st EXCEPT !.char = it.new]
      BY <2>3 DEF Evaluated
    <3>. QED
      BY <1>1, <2>3, <3>1, ItemByOp
  <2>4. CASE it.op = "defer" /\ Shows(it.fn)
    <3>1. Evaluated(inside, st, it) = Produce(st, later(it.fn))
      BY <2>4 DEF Evaluated
    <3>. QED
      BY <1>1, <2>4, <3>1, PartsAre, ItemByOp
  <2>5. CASE it.op = "ypp"
    <3>1. Evaluated(inside, st, it) = inside[it.file][st]
      BY <2>5 DEF Evaluated
    <3>2. it.file \in File
      BY <2>5, ItemByOp
    <3>. QED
      BY <3>1, <3>2 DEF Expansions
  <2>6. CASE it.op = "include" /\ it.file \in File
    <3>. DEFINE start == [st EXCEPT !.char = MainChar]
                end   == inside[it.file][start]
    <3>1. start \in Stage
      BY <1>1, <1>2
    <3>2. Evaluated(inside, st, it) = [end EXCEPT !.char = st.char]
      BY <2>6 DEF Evaluated
    <3>. HIDE DEF start
    <3>3. end \in Stage
      BY <2>6, <3>1 DEF Expansions
    <3>. HIDE DEF end
    <3>4. [end EXCEPT !.char = st.char] \in Stage
      BY <1>1, <3>3, StageFacts
    <3>. QED
      BY <3>2, <3>4
  <2>7. CASE (it.op \in {"include", "read"} /\ it.file \notin File) \/ it.op = "error"
    <3>1. Evaluated(inside, st, it) = Ended(st, "failed")
      BY <2>7 DEF Evaluated
    <3>. QED
      BY <1>1, <3>1
  <2>8. CASE it.op = "read" /\ it.file \in File
    <3>1. Evaluated(inside, st, it) = Produce(st, text)
      BY <2>8 DEF Evaluated
    <3>. QED
      BY <1>1, <3>1, PartsAre
  <2>9. CASE it.op = "file"
    BY <2>9 DEF Evaluated
  <2>10. CASE \/ it.op = "defer" /\ ~Shows(it.fn)
              \/ it.op \notin {"count", "show", "macro", "defer", "ypp", "include", "read",
                              "file", "error"}
    <3>1. Evaluated(inside, st, it) = Ended(st, "unknown")
      BY <2>10 DEF Evaluated
    <3>. QED
      BY <1>1, <3>1
  <2>. QED
    BY <2>1, <2>2, <2>3, <2>4, <2>5, <2>6, <2>7, <2>8, <2>9, <2>10
<1>. QED
  <2>1. CASE st.status # "on"
    <3>1. Following(inside, st, it) = st
      BY <2>1, FollowingCases
    <3>. QED
      BY <3>1
  <2>2. CASE st.status = "on" /\ it.op = "text"
    <3>1. Following(inside, st, it) = Produce(st, text)
      BY <2>2, FollowingCases
    <3>. QED
      BY <1>1, <3>1, PartsAre
  <2>3. CASE st.status = "on" /\ it.op # "text" /\ it.char # st.char
    <3>1. Following(inside, st, it) = Produce(st, raw(it))
      BY <2>3, FollowingCases
    <3>. QED
      BY <1>1, <3>1, PartsAre
  <2>4. CASE st.status = "on" /\ it.op # "text" /\ it.char = st.char
    <3>1. Following(inside, st, it) = Evaluated(inside, st, it)
      BY <2>4, FollowingCases
    <3>. QED
      BY <1>3, <3>1
  <2>. QED
    BY <2>1, <2>2, <2>3, <2>4

LEMMA StagesFacts ==
  ASSUME NEW inside \in Expansions, NEW st \in Stage, NEW items \in Seq(Item)
  PROVE  /\ Stages(inside, st, items) \in [0 .. Len(items) -> Stage]
         /\ Stages(inside, st, items)[0] = st
         /\ \A i \in 1 .. Len(items) :
              Stages(inside, st, items)[i] = Following(inside, Stages(inside, st, items)[i-1], items[i])
<1>. DEFINE m == Len(items)
            F == [i \in 0 .. m |-> [x \in Stage |->
                    IF i = 0 THEN x ELSE Following(inside, x, items[i])]]
            body(g, i) == IF i = 0 THEN st ELSE Following(inside, g[i-1], items[i])
            r == CHOOSE g : g = [i \in 0 .. m |-> body(g, i)]
<1>1. m \in Nat /\ \A i \in 1 .. m : items[i] \in Item
  OBVIOUS
<1>2. Stages(inside, st, items) = r
  BY DEF Stages
<1>. HIDE DEF m, r
<1>3. \A i \in 0 .. m, x \in Stage :
        (IF i = 0 THEN x ELSE Following(inside, x, items[i])) \in Stage
  BY <1>1, FollowingIn
<1>4. /\ F \in [0 .. m -> [Stage -> Stage]]
      /\ \A i \in 1 .. m, x \in Stage : F[i][x] = Following(inside, x, items[i])
  BY <1>1, <1>3
<1>. HIDE DEF F
<1>5. PICK g \in [0 .. m -> Stage] : Follows(g, m, st, F)
  BY <1>1, <1>4, Recursion
<1>6. ASSUME NEW i \in 0 .. m PROVE g[i] = body(g, i)
  <2>1. CASE i = 0
    BY <1>5, <2>1 DEF Follows
  <2>2. CASE i # 0
    <3>. DEFINE j == i - 1
    <3>1. i \in 1 .. m /\ j \in 0 .. m
      BY <1>1, <2>2
    <3>2. g[i] = F[i][g[j]] /\ g[j] \in Stage
      BY <1>5, <3>1 DEF Follows
    <3>. HIDE DEF j
    <3>3. g[i] = Following(inside, g[j], items[i])
      BY <1>4, <3>1, <3>2
    <3>. QED
      BY <2>2, <3>3 DEF j
  <2>. QED
    BY <2>1, <2>2
<1>7. r = [i \in 0 .. m |-> body(r, i)]
  <2>. HIDE DEF body
  <2>1. g = [i \in 0 .. m |-> body(g, i)]
    BY <1>6
  <2>. QED
    BY <2>1 DEF r
<1>. DEFINE N == {i \in 0 .. m : r[i] \in Stage}
<1>8. r[0] = st
  BY <1>1, <1>7
<1>9. ASSUME NEW i \in 1 .. m PROVE r[i] = Following(inside, r[i-1], items[i])
  BY <1>1, <1>7
<1>10. ASSUME NEW i \in 0 .. m, i \in N, i < m PROVE i + 1 \in N
  <2>. DEFINE k == i + 1
  <2>1. k \in 1 .. m /\ k \in 0 .. m /\ k - 1 = i
    BY <1>1, <1>10
  <2>2. items[k] \in Item
    BY <1>1, <2>1
  <2>3. r[k] = Following(inside, r[i], items[k])
    BY <1>9, <2>1
  <2>. HIDE DEF k
  <2>4. r[k] \in Stage
    BY <1>10, <2>2, <2>3, FollowingIn
  <2>5. k \in N
    BY <2>1, <2>4
  <2>. QED
    BY <2>5 DEF k
<1>11. 0 \in N
  BY <1>1, <1>8
<1>. HIDE DEF N
<1>12. 0 .. m \subseteq N
  BY <1>1, <1>10, <1>11, Induction
<1>13. r \in [0 .. m -> Stage]
  <2>1. \A i \in 0 .. m : r[i] \in Stage
    BY <1>12 DEF N
  <2>. HIDE DEF body
  <2>2. DOMAIN r = 0 .. m /\ r = [i \in 0 .. m |-> r[i]]
    BY <1>7
  <2>. QED
    BY <2>1, <2>2
<1>. QED
  BY <1>2, <1>8, <1>9, <1>13 DEF m

LEMMA ExpandedIn ==
  ASSUME NEW inside \in Expansions, NEW st \in Stage, NEW items \in Seq(Item)
  PROVE  Expanded(inside, st, items) \in Stage
<1>1. Len(items) \in 0 .. Len(items)
  OBVIOUS
<1>. QED
  BY <1>1, StagesFacts DEF Expanded

LEMMA ExpandedEmpty ==
  ASSUME NEW inside \in Expansions, NEW st \in Stage, NEW items \in Seq(Item), items = <<>>
  PROVE  Expanded(inside, st, items) = st
<1>1. Len(items) = 0
  OBVIOUS
<1>. QED
  BY <1>1, StagesFacts DEF Expanded

\* The items are expanded one after the other.
LEMMA ExpandedHead ==
  ASSUME NEW inside \in Expansions, NEW st \in Stage, NEW items \in Seq(Item), items # <<>>
  PROVE  Expanded(inside, st, items) =
           Expanded(inside, Following(inside, st, Head(items)), Tail(items))
<1>. DEFINE m    == Len(items) - 1
            rest == Tail(items)
            next == Following(inside, st, Head(items))
            a    == Stages(inside, st, items)
            b    == Stages(inside, next, rest)
            N    == {i \in 0 .. m : a[i+1] = b[i]}
<1>1. /\ m \in Nat /\ Len(items) = m + 1 /\ Len(rest) = m /\ rest \in Seq(Item)
      /\ Head(items) \in Item /\ Head(items) = items[1]
      /\ \A i \in 1 .. m : rest[i] = items[i+1]
  OBVIOUS
<1>2. next \in Stage
  BY <1>1, FollowingIn
<1>3. a[0] = st /\ \A i \in 1 .. m + 1 : a[i] = Following(inside, a[i-1], items[i])
  <2>1. /\ Stages(inside, st, items)[0] = st
        /\ \A i \in 1 .. Len(items) :
             Stages(inside, st, items)[i] = Following(inside, Stages(inside, st, items)[i-1], items[i])
    BY StagesFacts
  <2>. QED
    BY <1>1, <2>1
<1>4. b[0] = next /\ \A i \in 1 .. m : b[i] = Following(inside, b[i-1], rest[i])
  <2>. HIDE DEF next, rest
  <2>1. /\ Stages(inside, next, rest)[0] = next
        /\ \A i \in 1 .. Len(rest) :
             Stages(inside, next, rest)[i] = Following(inside, Stages(inside, next, rest)[i-1], rest[i])
    BY <1>1, <1>2, StagesFacts
  <2>. QED
    BY <1>1, <2>1
<1>5. Expanded(inside, st, items) = a[m+1] /\ Expanded(inside, next, rest) = b[m]
  BY <1>1 DEF Expanded
<1>6. next = Following(inside, a[0], items[1])
  BY <1>1, <1>3
<1>. HIDE DEF m, rest, next, a, b
<1>7. 0 \in N
  <2>1. 1 \in 1 .. m + 1 /\ 1 - 1 = 0 /\ 0 + 1 = 1
    BY <1>1
  <2>2. a[1] = next
    BY <1>3, <1>6, <2>1
  <2>. QED
    BY <1>1, <1>4, <2>1, <2>2
<1>8. ASSUME NEW i \in 0 .. m, i \in N, i < m PROVE i + 1 \in N
  <2>. DEFINE k == i + 1
              l == k + 1
  <2>1. k \in 1 .. m /\ k \in 0 .. m /\ k - 1 = i /\ l \in 1 .. m + 1 /\ l - 1 = k
    BY <1>1, <1>8
  <2>2. a[k] = b[i]
    BY <1>8
  <2>. HIDE DEF k, l
  <2>3. a[l] = Following(inside, a[k], items[l]) /\ b[k] = Following(inside, b[i], rest[k])
    BY <1>3, <1>4, <2>1
  <2>4. rest[k] = items[l]
    BY <1>1, <2>1 DEF l
  <2>5. k \in N
    BY <2>1, <2>2, <2>3, <2>4 DEF l
  <2>. QED
    BY <2>5 DEF k
<1>9. m \in N
  <2>. HIDE DEF N
  <2>1. 0 .. m \subseteq N
    BY <1>1, <1>7, <1>8, Induction
  <2>. QED
    BY <1>1, <2>1
<1>. QED
  BY <1>5, <1>9 DEF next, rest

\* Once it has ended, an expansion stays as it is.
LEMMA ExpandedEnded ==
  ASSUME NEW inside \in Expansions, NEW st \in Stage, NEW items \in Seq(Item),
         st.status # "on"
  PROVE  Expanded(inside, st, items) = st
<1>. DEFINE m == Len(items)
            a == Stages(inside, st, items)
            N == {i \in 0 .. m : a[i] = st}
<1>1. m \in Nat /\ Expanded(inside, st, items) = a[m]
  BY DEF Expanded
<1>2. a[0] = st /\ \A i \in 1 .. m : a[i] = Following(inside, a[i-1], items[i])
  BY StagesFacts
<1>. HIDE DEF m, a
<1>3. 0 \in N
  BY <1>1, <1>2
<1>4. ASSUME NEW i \in 0 .. m, i \in N, i < m PROVE i + 1 \in N
  <2>. DEFINE k == i + 1
  <2>1. k \in 1 .. m /\ k \in 0 .. m /\ k - 1 = i
    BY <1>1, <1>4
  <2>. HIDE DEF k
  <2>2. a[k] = Following(inside, st, items[k])
    BY <1>2, <1>4, <2>1
  <2>3. a[k] = st
    BY <2>2, FollowingCases
  <2>4. k \in N
    BY <2>1, <2>3
  <2>. QED
    BY <2>4 DEF k
<1>5. m \in N
  <2>. HIDE DEF N
  <2>1. 0 .. m \subseteq N
    BY <1>1, <1>3, <1>4, Induction
  <2>. QED
    BY <1>1, <2>1
<1>. QED
  BY <1>1, <1>5

\* The documents in documents.
LEMMA InsideFacts ==
  ASSUME NEW library \in [File -> Seq(Item)]
  PROVE  /\ Inside(library) \in [0 .. MaxDepth -> Expansions]
         /\ \A f \in File, st \in Stage : Inside(library)[0][f][st] = Ended(st, "unknown")
         /\ \A d \in 1 .. MaxDepth : \A f \in File, st \in Stage :
              Inside(library)[d][f][st] = Expanded(Inside(library)[d-1], st, library[f])
<1>. DEFINE m == MaxDepth
            E == Expansions
            step(x) == [f \in File |-> [st \in Stage |-> Expanded(x, st, library[f])]]
            none == [f \in File |-> [st \in Stage |-> Ended(st, "unknown")]]
            F == [i \in 0 .. m |-> [x \in E |-> step(x)]]
            body(g, i) == [f \in File |-> [st \in Stage |->
                             IF i = 0 THEN Ended(st, "unknown")
                             ELSE Expanded(g[i-1], st, library[f])]]
            r == CHOOSE g : g = [i \in 0 .. m |-> body(g, i)]
<1>1. m \in Nat
  BY DepthAssumption
<1>2. Inside(library) = r
  BY DEF Inside
<1>. HIDE DEF m, r
<1>3. none \in E
  BY StageFacts DEF Expansions
<1>4. ASSUME NEW x \in E PROVE step(x) \in E
  <2>1. \A f \in File : library[f] \in Seq(Item)
    OBVIOUS
  <2>2. \A f \in File, st \in Stage : Expanded(x, st, library[f]) \in Stage
    BY <2>1, ExpandedIn
  <2>. QED
    BY <2>2 DEF Expansions
<1>5. ASSUME NEW g PROVE body(g, 0) = none
  OBVIOUS
<1>6. ASSUME NEW g, NEW i \in 1 .. m PROVE body(g, i) = step(g[i-1])
  <2>1. i # 0
    BY <1>1
  <2>. QED
    BY <2>1
<1>. HIDE DEF E, step, none, body
<1>7. F \in [0 .. m -> [E -> E]] /\ \A i \in 0 .. m, x \in E : F[i][x] = step(x)
  BY <1>4
<1>. HIDE DEF F
<1>8. PICK g \in [0 .. m -> E] : Follows(g, m, none, F)
  BY <1>1, <1>3, <1>7, Recursion
<1>9. ASSUME NEW i \in 0 .. m PROVE g[i] = body(g, i)
  <2>1. CASE i = 0
    BY <1>5, <1>8, <2>1 DEF Follows
  <2>2. CASE i # 0
    <3>. DEFINE j == i - 1
    <3>1. i \in 1 .. m /\ j \in 0 .. m
      BY <1>1, <2>2
    <3>2. g[i] = F[i][g[j]] /\ g[j] \in E
      BY <1>8, <3>1 DEF Follows
    <3>3. body(g, i) = step(g[j])
      BY <1>6, <3>1
    <3>. HIDE DEF j
    <3>. QED
      BY <1>7, <3>2, <3>3
  <2>. QED
    BY <2>1, <2>2
<1>10. r = [i \in 0 .. m |-> body(r, i)]
  <2>1. g = [i \in 0 .. m |-> body(g, i)]
    BY <1>9
  <2>. QED
    BY <2>1 DEF r
<1>11. r[0] = none
  BY <1>1, <1>5, <1>10
<1>12. ASSUME NEW i \in 1 .. m PROVE r[i] = step(r[i-1])
  <2>. DEFINE e(j) == body(r, j)
  <2>1. r = [j \in 0 .. m |-> e(j)]
    BY <1>10
  <2>. HIDE DEF e
  <2>2. i \in 0 .. m
    BY <1>1
  <2>3. r[i] = e(i)
    BY <2>1, <2>2
  <2>. QED
    BY <1>6, <2>3 DEF e
<1>. DEFINE N == {i \in 0 .. m : r[i] \in E}
<1>13. ASSUME NEW i \in 0 .. m, i \in N, i < m PROVE i + 1 \in N
  <2>. DEFINE k == i + 1
  <2>1. k \in 1 .. m /\ k \in 0 .. m /\ k - 1 = i
    BY <1>1, <1>13
  <2>. HIDE DEF k
  <2>2. r[k] = step(r[i])
    BY <1>12, <2>1
  <2>3. k \in N
    BY <1>4, <1>13, <2>1, <2>2
  <2>. QED
    BY <2>3 DEF k
<1>14. 0 \in N
  BY <1>1, <1>3, <1>11
<1>. HIDE DEF N
<1>15. 0 .. m \subseteq N
  BY <1>1, <1>13, <1>14, Induction
<1>16. r \in [0 .. m -> E]
  <2>1. \A i \in 0 .. m : r[i] \in E
    BY <1>15 DEF N
  <2>2. r = [i \in 0 .. m |-> r[i]]
    BY <1>10
  <2>. QED
    BY <2>1, <2>2
<1>17. ASSUME NEW f \in File, NEW st \in Stage PROVE r[0][f][st] = Ended(st, "unknown")
  BY <1>11 DEF none
<1>18. ASSUME NEW i \in 1 .. m, NEW f \in File, NEW st \in Stage
       PROVE  r[i][f][st] = Expanded(r[i-1], st, library[f])
  <2>. DEFINE x == r[i-1]
  <2>1. r[i] = step(x)
    BY <1>12
  <2>. HIDE DEF x
  <2>2. step(x)[f][st] = Expanded(x, st, library[f])
    BY DEF step
  <2>. QED
    BY <2>1, <2>2 DEF x
<1>. QED
  BY <1>2, <1>16, <1>17, <1>18 DEF m, E
-----------------------------------------------------------------------------
(* The documents being evaluated, and what their ends lead to. *)

CharAt(lc, p) == IF p = 0 THEN MainChar ELSE lc[p]

\* The end of document k, from stage st; c is the macro character around it.
LeftAt(inside, s, k, st, c) ==
  LET end == Expanded(inside[MaxDepth - k], st, s[k].items) IN
  IF s[k].kind = "file" THEN [end EXCEPT !.char = c] ELSE end

Files(frame) == IF frame.kind = "file" THEN 1 ELSE 0

\* r[k]: the expansion when the documents after k have been left; pos[k]: how
\* many of the first k documents have their own configuration.
Nested(inside, s, lc, r, pos, st) ==
  /\ Len(s) <= MaxDepth /\ \A k \in 1 .. Len(s) : s[k].kind # "fun"
  /\ r \in [0 .. Len(s) -> Stage] /\ r[Len(s)] = st
  /\ pos \in [0 .. Len(s) -> 0 .. Len(lc)] /\ pos[0] = 0 /\ pos[Len(s)] = Len(lc)
  /\ \A i, j \in 0 .. Len(s) : i <= j => pos[i] <= pos[j]
  /\ \A k \in 1 .. Len(s) : /\ pos[k] = pos[k-1] + Files(s[k])
                            /\ r[k-1] = LeftAt(inside, s, k, r[k], CharAt(lc, pos[k-1]))

\* When all the documents are left, st has become end.
Leads(inside, s, lc, st, end) ==
  \E r, pos : Nested(inside, s, lc, r, pos, st) /\ r[0] = end

Levels == [0 .. MaxDepth -> Expansions]

LEMMA LeadsIn ==
  ASSUME NEW inside \in Levels, NEW s \in Seq(FrameRecord), NEW lc \in Seq(Char), NEW st, NEW end,
         Leads(inside, s, lc, st, end)
  PROVE  st \in Stage /\ end \in Stage
BY DEF Leads, Nested

\* Another local configuration for the innermost file.
LEMMA LeadsMacro ==
  ASSUME NEW inside, NEW s \in Seq(FrameRecord), NEW lc \in Seq(Char), NEW st, NEW end,
         Leads(inside, s, lc, st, end),
         NEW d \in Seq(Char), Len(d) = Len(lc), \A i \in 1 .. Len(lc) : i # Len(lc) => d[i] = lc[i]
  PROVE  Leads(inside, s, d, st, end)
<1>. DEFINE n == Len(s)
            m == Len(lc)
<1>1. PICK r, pos : Nested(inside, s, lc, r, pos, st) /\ r[0] = end
  BY DEF Leads
<1>2. n \in Nat /\ m \in Nat /\ Len(d) = m
  OBVIOUS
<1>3. /\ pos \in [0 .. n -> 0 .. m] /\ pos[n] = m
      /\ \A i, j \in 0 .. n : i <= j => pos[i] <= pos[j]
      /\ \A k \in 1 .. n : /\ pos[k] = pos[k-1] + Files(s[k])
                           /\ r[k-1] = LeftAt(inside, s, k, r[k], CharAt(lc, pos[k-1]))
  BY <1>1 DEF Nested
<1>. HIDE DEF n, m
<1>4. ASSUME NEW k \in 1 .. n
      PROVE  r[k-1] = LeftAt(inside, s, k, r[k], CharAt(d, pos[k-1]))
  <2>1. CASE s[k].kind # "file"
    <3>1. r[k-1] = Expanded(inside[MaxDepth - k], r[k], s[k].items)
      BY <1>3, <2>1 DEF LeftAt
    <3>. QED
      BY <2>1, <3>1 DEF LeftAt
  <2>2. CASE s[k].kind = "file"
    <3>. DEFINE p == pos[k-1]
    <3>1. k - 1 \in 0 .. n /\ k \in 0 .. n /\ n \in 0 .. n /\ k <= n
      BY <1>2
    <3>2. p \in 0 .. m /\ pos[k] \in 0 .. m /\ pos[k] = p + 1
      BY <1>3, <2>2, <3>1 DEF Files
    <3>. HIDE DEF p
    <3>3. p # m
      BY <1>2, <3>2
    <3>4. CharAt(d, p) = CharAt(lc, p)
      BY <1>2, <3>2, <3>3 DEF CharAt, m
    <3>. QED
      BY <1>3, <3>4 DEF p
  <2>. QED
    BY <2>1, <2>2
<1>5. Nested(inside, s, d, r, pos, st)
  BY <1>1, <1>2, <1>3, <1>4 DEF Nested, n, m
<1>. QED
  BY <1>1, <1>5 DEF Leads

\* An item of the innermost document.
LEMMA LeadsItem ==
  ASSUME NEW inside \in Levels, NEW s \in Seq(FrameRecord), NEW lc \in Seq(Char), NEW st, NEW end,
         Leads(inside, s, lc, st, end), s # <<>>,
         NEW items \in Seq(Item), items # <<>>, s[Len(s)].items = items,
         NEW t \in Seq(FrameRecord), Len(t) = Len(s), t[Len(s)].items = Tail(items),
         \A i \in 1 .. Len(s) : t[i].kind = s[i].kind /\ (i # Len(s) => t[i] = s[i])
  PROVE  Leads(inside, t, lc, Following(inside[MaxDepth - Len(s)], st, Head(items)), end)
<1>. DEFINE n    == Len(s)
            here == inside[MaxDepth - n]
            next == Following(here, st, Head(items))
<1>1. PICK r, pos : Nested(inside, s, lc, r, pos, st) /\ r[0] = end
  BY DEF Leads
<1>2. n \in Nat \ {0} /\ n <= MaxDepth /\ MaxDepth - n \in 0 .. MaxDepth
  BY <1>1, DepthAssumption DEF Nested
<1>3. here \in Expansions /\ st \in Stage /\ Head(items) \in Item /\ Tail(items) \in Seq(Item)
  <2>1. st \in Stage
    BY LeadsIn
  <2>. QED
    BY <1>2, <2>1 DEF Levels
<1>4. next \in Stage
  BY <1>3, FollowingIn
<1>5. Expanded(here, st, items) = Expanded(here, next, Tail(items))
  BY <1>3, ExpandedHead
<1>. DEFINE q == [r EXCEPT ![n] = next]
<1>6. /\ r \in [0 .. n -> Stage] /\ r[n] = st
      /\ \A k \in 1 .. n : r[k-1] = LeftAt(inside, s, k, r[k], CharAt(lc, pos[k-1]))
      /\ \A k \in 1 .. n : s[k].kind # "fun" /\ pos[k] = pos[k-1] + Files(s[k])
  BY <1>1 DEF Nested
<1>. HIDE DEF next
<1>7. q \in [0 .. n -> Stage] /\ q[n] = next /\ \A k \in 0 .. n : k # n => q[k] = r[k]
  BY <1>2, <1>4, <1>6
<1>. HIDE DEF q, n, here
<1>8. ASSUME NEW k \in 1 .. n
      PROVE  q[k-1] = LeftAt(inside, t, k, q[k], CharAt(lc, pos[k-1]))
  <2>. DEFINE c == CharAt(lc, pos[k-1])
              j == k - 1
  <2>1. j \in 0 .. n /\ j # n /\ k \in 0 .. n
    BY <1>2
  <2>2. q[j] = r[j] /\ r[j] = LeftAt(inside, s, k, r[k], c)
    BY <1>6, <1>7, <2>1
  <2>. HIDE DEF c, j
  <2>3. CASE k # n
    <3>1. t[k] = s[k] /\ q[k] = r[k]
      BY <1>7, <2>1, <2>3 DEF n
    <3>. QED
      BY <2>2, <3>1 DEF LeftAt, c, j
  <2>4. CASE k = n
    <3>1. /\ t[k].kind = s[k].kind /\ s[k].items = items /\ t[k].items = Tail(items)
          /\ q[k] = next /\ r[k] = st
      BY <1>6, <1>7, <2>4 DEF n
    <3>2. LeftAt(inside, s, k, st, c) = LeftAt(inside, t, k, next, c)
      BY <1>5, <2>4, <3>1 DEF LeftAt, here
    <3>. QED
      BY <2>2, <3>1, <3>2 DEF c, j
  <2>. QED
    BY <2>3, <2>4
<1>9. Nested(inside, t, lc, q, pos, next)
  <2>1. /\ n <= MaxDepth /\ \A k \in 1 .. n : t[k].kind # "fun" /\ Files(t[k]) = Files(s[k])
    BY <1>2, <1>6 DEF Files, n
  <2>2. /\ pos \in [0 .. n -> 0 .. Len(lc)] /\ pos[0] = 0 /\ pos[n] = Len(lc)
        /\ \A i, j \in 0 .. n : i <= j => pos[i] <= pos[j]
    BY <1>1 DEF Nested, n
  <2>3. \A k \in 1 .. n : pos[k] = pos[k-1] + Files(t[k])
    BY <1>6, <2>1
  <2>4. Len(t) = n
    BY DEF n
  <2>5. \A k \in 1 .. n : /\ pos[k] = pos[k-1] + Files(t[k])
                          /\ q[k-1] = LeftAt(inside, t, k, q[k], CharAt(lc, pos[k-1]))
    BY <1>8, <2>3
  <2>6. q \in [0 .. n -> Stage] /\ q[n] = next
    BY <1>7
  <2>7. n <= MaxDepth /\ \A k \in 1 .. n : t[k].kind # "fun"
    BY <2>1
  <2>. QED
    BY <2>2, <2>4, <2>5, <2>6, <2>7 DEF Nested
<1>10. q[0] = end
  <2>1. 0 \in 0 .. n /\ 0 # n
    BY <1>2
  <2>2. q[0] = r[0]
    BY <1>7, <2>1
  <2>. QED
    BY <1>1, <2>2
<1>. QED
  BY <1>9, <1>10 DEF Leads, next, here, n

\* Another document.
LEMMA LeadsPush ==
  ASSUME NEW inside \in Levels, NEW s \in Seq(FrameRecord), NEW lc \in Seq(Char), NEW st, NEW end,
         NEW mid, Leads(inside, s, lc, mid, end), Len(s) < MaxDepth,
         NEW frame \in FrameRecord, frame.kind # "fun", st \in Stage,
         NEW d \in Seq(Char), Len(d) = Len(lc) + Files(frame),
         \A i \in 1 .. Len(lc) : d[i] = lc[i],
         mid = LeftAt(inside, Append(s, frame), Len(s) + 1, st, CharAt(lc, Len(lc)))
  PROVE  Leads(inside, Append(s, frame), d, st, end)
<1>. DEFINE n == Len(s)
            e == n + 1
            m == Len(lc)
            t == Append(s, frame)
<1>1. PICK r, pos : Nested(inside, s, lc, r, pos, mid) /\ r[0] = end
  BY DEF Leads
<1>2. n \in Nat /\ e \in Nat /\ m \in Nat /\ n < e /\ e - 1 = n /\ Files(frame) \in {0, 1}
  BY DEF Files
<1>3. Len(t) = e /\ t[e] = frame /\ \A i \in 1 .. n : t[i] = s[i]
  BY DEF e, n
<1>. DEFINE q == [k \in 0 .. e |-> IF k = e THEN st ELSE r[k]]
            p == [k \in 0 .. e |-> IF k = e THEN Len(d) ELSE pos[k]]
<1>4. /\ r \in [0 .. n -> Stage] /\ r[n] = mid
      /\ pos \in [0 .. n -> 0 .. m] /\ pos[0] = 0 /\ pos[n] = m
      /\ \A i, j \in 0 .. n : i <= j => pos[i] <= pos[j]
      /\ \A k \in 1 .. n : /\ pos[k] = pos[k-1] + Files(s[k]) /\ s[k].kind # "fun"
                           /\ r[k-1] = LeftAt(inside, s, k, r[k], CharAt(lc, pos[k-1]))
  BY <1>1 DEF Nested
<1>5. e <= MaxDepth
  BY <1>2, DepthAssumption
<1>6. Len(d) = m + Files(frame) /\ Len(d) \in Nat /\ m <= Len(d)
      /\ \A i \in 1 .. m : d[i] = lc[i]
  BY <1>2
<1>7. mid = LeftAt(inside, t, e, st, CharAt(lc, m))
  OBVIOUS
<1>. HIDE DEF m, t, e, n
<1>8. /\ q \in [0 .. e -> Stage] /\ q[e] = st /\ \A k \in 0 .. n : q[k] = r[k] /\ k \in 0 .. e
  BY <1>2, <1>4
<1>9. /\ p \in [0 .. e -> 0 .. Len(d)] /\ p[e] = Len(d) /\ \A k \in 0 .. n : p[k] = pos[k]
  BY <1>2, <1>4, <1>6
<1>. HIDE DEF p, q
<1>10. ASSUME NEW i \in 0 .. e, NEW j \in 0 .. e, i <= j PROVE p[i] <= p[j]
  <2>1. CASE j = e
    <3>1. p[i] \in 0 .. Len(d)
      BY <1>9
    <3>. QED
      BY <1>6, <1>9, <2>1, <3>1
  <2>2. CASE j # e
    <3>1. i \in 0 .. n /\ j \in 0 .. n
      BY <1>2, <1>10, <2>2
    <3>. QED
      BY <1>4, <1>9, <1>10, <3>1
  <2>. QED
    BY <2>1, <2>2
<1>11. \A x \in 0 .. m : CharAt(d, x) = CharAt(lc, x)
  BY <1>2, <1>6 DEF CharAt
<1>12. ASSUME NEW k \in 1 .. e
       PROVE  /\ p[k] = p[k-1] + Files(t[k]) /\ t[k].kind # "fun"
              /\ q[k-1] = LeftAt(inside, t, k, q[k], CharAt(d, p[k-1]))
  <2>1. CASE k = e
    <3>1. k - 1 = n /\ n \in 0 .. n /\ m \in 0 .. m
      BY <1>2, <2>1
    <3>2. p[n] = m /\ q[n] = mid
      BY <1>4, <1>8, <1>9, <3>1
    <3>3. CharAt(d, m) = CharAt(lc, m)
      BY <1>11, <3>1
    <3>. QED
      BY <1>3, <1>6, <1>7, <1>8, <1>9, <2>1, <3>1, <3>2, <3>3
  <2>2. CASE k # e
    <3>. DEFINE j == k - 1
                x == pos[j]
    <3>1. k \in 1 .. n /\ k \in 0 .. n /\ j \in 0 .. n
      BY <1>2, <2>2
    <3>2. /\ pos[k] = x + Files(s[k]) /\ s[k].kind # "fun"
          /\ r[j] = LeftAt(inside, s, k, r[k], CharAt(lc, x)) /\ x \in 0 .. m
      BY <1>4, <3>1
    <3>3. t[k] = s[k] /\ q[k] = r[k] /\ q[j] = r[j] /\ p[k] = pos[k] /\ p[j] = x
      BY <1>3, <1>8, <1>9, <3>1
    <3>. HIDE DEF x, j
    <3>4. LeftAt(inside, t, k, r[k], CharAt(lc, x)) = LeftAt(inside, s, k, r[k], CharAt(lc, x))
      BY <3>3 DEF LeftAt
    <3>5. CharAt(d, x) = CharAt(lc, x)
      BY <1>11, <3>2
    <3>. QED
      BY <3>2, <3>3, <3>4, <3>5 DEF j
  <2>. QED
    BY <2>1, <2>2
<1>13. p[0] = 0 /\ q[0] = end
  <2>1. 0 \in 0 .. n
    BY <1>2
  <2>. QED
    BY <1>1, <1>4, <1>8, <1>9, <2>1
<1>14. Nested(inside, t, d, q, p, st)
  BY <1>3, <1>5, <1>8, <1>9, <1>10, <1>12, <1>13 DEF Nested
<1>. QED
  BY <1>13, <1>14 DEF Leads, t

\* The end of a document.
LEMMA LeadsPop ==
  ASSUME NEW inside \in Levels, NEW s \in Seq(FrameRecord), NEW lc \in Seq(Char), NEW st, NEW end,
         Leads(inside, s, lc, st, end), s # <<>>, Last(s).items = <<>>
  PROVE  /\ Last(s).kind = "file" =>
              lc # <<>> /\ Leads(inside, Front(s), Front(lc),
                                 [st EXCEPT !.char = CharAt(Front(lc), Len(Front(lc)))], end)
         /\ Last(s).kind # "file" => Leads(inside, Front(s), lc, st, end)
<1>. DEFINE n == Len(s)
            e == n - 1
            m == Len(lc)
            t == Front(s)
            c == IF Last(s).kind = "file" THEN Front(lc) ELSE lc
            u == IF Last(s).kind = "file" THEN [st EXCEPT !.char = CharAt(c, Len(c))] ELSE st
<1>1. PICK r, pos : Nested(inside, s, lc, r, pos, st) /\ r[0] = end
  BY DEF Leads
<1>2. /\ n \in Nat \ {0} /\ e \in Nat /\ m \in Nat /\ e < n /\ e \in 0 .. n /\ n \in 0 .. n
      /\ n \in 1 .. n /\ n <= MaxDepth
  BY <1>1 DEF Nested
<1>3. t \in Seq(FrameRecord) /\ Len(t) = e /\ Last(s) = s[n] /\ \A i \in 1 .. e : t[i] = s[i]
  BY FrontFacts
<1>4. /\ r \in [0 .. n -> Stage] /\ r[n] = st
      /\ pos \in [0 .. n -> 0 .. m] /\ pos[0] = 0 /\ pos[n] = m
      /\ \A i, j \in 0 .. n : i <= j => pos[i] <= pos[j]
      /\ \A k \in 1 .. n : /\ pos[k] = pos[k-1] + Files(s[k]) /\ s[k].kind # "fun"
                           /\ r[k-1] = LeftAt(inside, s, k, r[k], CharAt(lc, pos[k-1]))
  BY <1>1 DEF Nested
<1>. HIDE DEF m, t, n
<1>5. /\ pos[e] \in 0 .. m /\ m = pos[e] + Files(s[n])
      /\ r[e] = LeftAt(inside, s, n, st, CharAt(lc, pos[e]))
  BY <1>2, <1>4
<1>6. Last(s).kind = "file" => lc # <<>> /\ m = pos[e] + 1
  BY <1>3, <1>5 DEF Files, m
<1>7. c \in Seq(Char) /\ Len(c) = pos[e] /\ \A i \in 1 .. pos[e] : c[i] = lc[i]
  <2>1. CASE Last(s).kind = "file"
    <3>1. Front(lc) \in Seq(Char) /\ Len(Front(lc)) = m - 1 /\ \A i \in 1 .. m - 1 : Front(lc)[i] = lc[i]
      BY <1>6, <2>1, FrontFacts DEF m
    <3>2. c = Front(lc)
      BY <2>1
    <3>3. m - 1 = pos[e]
      BY <1>5, <1>6, <2>1
    <3>. HIDE DEF c, u, e
    <3>. QED
      BY <3>1, <3>2, <3>3
  <2>2. CASE Last(s).kind # "file"
    BY <1>3, <1>5, <2>2 DEF Files, m
  <2>. QED
    BY <2>1, <2>2
<1>8. \A x \in 0 .. pos[e] : CharAt(c, x) = CharAt(lc, x)
  BY <1>5, <1>7 DEF CharAt
<1>9. r[e] = u
  <2>1. inside[MaxDepth - n] \in Expansions /\ st \in Stage /\ s[n].items \in Seq(Item)
    <3>1. MaxDepth - n \in 0 .. MaxDepth
      BY <1>2, DepthAssumption
    <3>2. st \in Stage
      BY <1>2, <1>4
    <3>3. s[n] \in FrameRecord
      BY <1>2 DEF n
    <3>. QED
      BY <3>1, <3>2, <3>3 DEF Levels, FrameRecord
  <2>2. Expanded(inside[MaxDepth - n], st, s[n].items) = st
    BY <1>3, <2>1, ExpandedEmpty
  <2>3. CharAt(c, Len(c)) = CharAt(lc, pos[e])
    <3>1. pos[e] \in 0 .. pos[e]
      BY <1>5
    <3>. QED
      BY <1>7, <1>8, <3>1
  <2>. HIDE DEF c
  <2>. QED
    BY <1>3, <1>5, <2>2, <2>3 DEF LeftAt
<1>. DEFINE q == [k \in 0 .. e |-> r[k]]
            p == [k \in 0 .. e |-> pos[k]]
<1>. HIDE DEF c, u
<1>10. ASSUME NEW k \in 0 .. e PROVE k \in 0 .. n /\ q[k] = r[k] /\ p[k] = pos[k]
  BY <1>2
<1>11. \A k \in 0 .. e : r[k] \in Stage /\ pos[k] \in 0 .. pos[e]
  <2>. SUFFICES ASSUME NEW k \in 0 .. e PROVE r[k] \in Stage /\ pos[k] \in 0 .. pos[e]
    OBVIOUS
  <2>1. k \in 0 .. n /\ k <= e
    BY <1>2
  <2>2. r[k] \in Stage /\ pos[k] \in 0 .. m /\ pos[k] <= pos[e]
    BY <1>2, <1>4, <2>1
  <2>. QED
    BY <1>2, <1>5, <2>2
<1>12. q \in [0 .. e -> Stage] /\ p \in [0 .. e -> 0 .. Len(c)]
  BY <1>7, <1>11
<1>. HIDE DEF q, p, e
<1>13. ASSUME NEW k \in 1 .. e
       PROVE  /\ p[k] = p[k-1] + Files(t[k]) /\ t[k].kind # "fun"
              /\ q[k-1] = LeftAt(inside, t, k, q[k], CharAt(c, p[k-1]))
  <2>. DEFINE j == k - 1
              x == pos[j]
  <2>1. k \in 1 .. n /\ k \in 0 .. e /\ j \in 0 .. e
    BY <1>2
  <2>2. /\ pos[k] = x + Files(s[k]) /\ s[k].kind # "fun"
        /\ r[j] = LeftAt(inside, s, k, r[k], CharAt(lc, x)) /\ x \in 0 .. pos[e]
    BY <1>4, <1>11, <2>1
  <2>3. t[k] = s[k] /\ q[k] = r[k] /\ q[j] = r[j] /\ p[k] = pos[k] /\ p[j] = x
    BY <1>3, <1>10, <2>1
  <2>. HIDE DEF x, j
  <2>4. LeftAt(inside, t, k, r[k], CharAt(lc, x)) = LeftAt(inside, s, k, r[k], CharAt(lc, x))
    BY <2>3 DEF LeftAt
  <2>5. CharAt(c, x) = CharAt(lc, x)
    BY <1>8, <2>2
  <2>. QED
    BY <2>2, <2>3, <2>4, <2>5 DEF j
<1>14. ASSUME NEW i \in 0 .. e, NEW j \in 0 .. e, i <= j PROVE p[i] <= p[j]
  BY <1>4, <1>10, <1>14
<1>15. p[0] = 0 /\ q[0] = end /\ p[e] = Len(c) /\ q[e] = u
  <2>1. 0 \in 0 .. e /\ e \in 0 .. e
    BY <1>2
  <2>. QED
    BY <1>1, <1>4, <1>7, <1>9, <1>10, <2>1
<1>16. Nested(inside, t, c, q, p, u)
  <2>1. e <= MaxDepth
    BY <1>2, DepthAssumption
  <2>. QED
    BY <1>3, <1>12, <1>13, <1>14, <1>15, <2>1 DEF Nested
<1>17. Leads(inside, t, c, u, end)
  BY <1>15, <1>16 DEF Leads
<1>. QED
  BY <1>6, <1>17 DEF c, u, t

\* An expansion that has ended in a document has ended.
LEMMA LeadsEnded ==
  ASSUME NEW inside \in Levels, NEW s \in Seq(FrameRecord), NEW lc \in Seq(Char), NEW st, NEW end,
         Leads(inside, s, lc, st, end), st.status # "on"
  PROVE  end.status = st.status
<1>. DEFINE n == Len(s)
<1>1. PICK r, pos : Nested(inside, s, lc, r, pos, st) /\ r[0] = end
  BY DEF Leads
<1>2. /\ n \in Nat /\ n <= MaxDepth /\ r \in [0 .. n -> Stage] /\ r[n] = st
      /\ \A k \in 1 .. n : r[k-1] = LeftAt(inside, s, k, r[k], CharAt(lc, pos[k-1]))
      /\ \A k \in 1 .. n : s[k] \in FrameRecord
  BY <1>1 DEF Nested
<1>. DEFINE N == {i \in 0 .. n : r[n-i].status = st.status}
<1>. HIDE DEF n
<1>3. 0 \in N
  BY <1>2
<1>4. ASSUME NEW i \in 0 .. n, i \in N, i < n PROVE i + 1 \in N
  <2>. DEFINE k == n - i
              j == k - 1
  <2>1. k \in 1 .. n /\ k \in 0 .. n /\ n - (i + 1) = j /\ i + 1 \in 0 .. n
    BY <1>2, <1>4
  <2>2. r[k].status = st.status /\ r[k] \in Stage
    BY <1>2, <1>4, <2>1
  <2>3. r[j] = LeftAt(inside, s, k, r[k], CharAt(lc, pos[j]))
    BY <1>2, <2>1
  <2>. HIDE DEF k
  <2>4. inside[MaxDepth - k] \in Expansions /\ s[k].items \in Seq(Item)
    <3>1. MaxDepth - k \in 0 .. MaxDepth
      BY <1>2, <2>1, DepthAssumption
    <3>2. s[k] \in FrameRecord
      BY <1>2, <2>1
    <3>. QED
      BY <3>1, <3>2 DEF Levels, FrameRecord
  <2>5. Expanded(inside[MaxDepth - k], r[k], s[k].items) = r[k]
    BY <2>2, <2>4, ExpandedEnded
  <2>6. r[j].status = st.status
    BY <2>2, <2>3, <2>5 DEF LeftAt, Stage
  <2>. HIDE DEF j
  <2>. QED
    BY <2>1, <2>6
<1>5. n \in N
  <2>. HIDE DEF N
  <2>1. 0 .. n \subseteq N
    BY <1>2, <1>3, <1>4, Induction
  <2>. QED
    BY <1>2, <2>1
<1>6. n - n = 0
  BY <1>2
<1>. QED
  BY <1>1, <1>5, <1>6
-----------------------------------------------------------------------------
(* What a run has produced so far, and what is left of the expansion. *)

PartOf(fns, tok) == IF tok.kind = "tag" THEN later(fns[tok.id]) ELSE tok

\* The state of the run, as a stage of the expansion.
Reached ==
  [status |-> "on",
   toks |-> [i \in DOMAIN output_contents |-> PartOf(deferred_functions, output_contents[i])],
   char |-> CharAt(lconf, Len(lconf)), n |-> count]

\* From stage st, the ends of the documents s and the rest of the input files
\* lead to the expansion.
Progress(s, lc, st) ==
  \E end \in Stage :
    /\ Leads(Inside(content), s, lc, st, end)
    /\ Expansion = Expanded(Inside(content)[MaxDepth], end, Inputs(index))

\* What remains of a function when the next items of the innermost one are items.
ResultOK(id, items) ==
  results[id] \o Said(items, count) = Said(Body[deferred_functions[id]], count)

Says(items) ==
  \A i \in DOMAIN items : /\ items[i].op \in {"text", "show"}
                          /\ items[i].op # "text" => items[i].char = NoChar

\* The functions that have been called have said everything, except the one
\* being called.
ResultsOK ==
  /\ Len(deferred_functions) = ntags
  /\ stack # <<>> => Len(stack) = 1 /\ top.kind = "fun" /\ Says(top.items)
  /\ \A id \in ToSet(visited) :
       IF stack # <<>> /\ id = Last(visited) THEN ResultOK(id, top.items)
       ELSE results[id] = Said(Body[deferred_functions[id]], count)

FinalContent ==
  FlattenSeq([i \in DOMAIN Expansion.toks |-> Final(Expansion.toks[i], count)])

\* As long as the expansion is known, it has failed if the run has, and the run
\* leads to it otherwise.
ExpansionOK ==
  Expansion.status # "unknown" =>
    /\ failed => Expansion.status = "failed"
    /\ ~failed =>
         /\ functions = <<>> /\ fs = <<>>
         /\ \A i \in Tags : Shows(deferred_functions[i])
         /\ phase = "files" => Progress(stack, lconf, Reached)
         /\ phase # "files" => /\ Expansion.status = "on" /\ Expansion.n = count
                               /\ Expansion.toks = Reached.toks
         /\ phase \notin {"files", "replace"} => stack = <<>>
         /\ phase = "replace" => ResultsOK
         /\ phase \in {"save", "done"} => main.content = FinalContent

LEMMA SameExpansion ==
  ASSUME UNCHANGED content
  PROVE  Expansion' = Expansion /\ Inside(content)' = Inside(content)
BY DEF Expansion

LEMMA LevelsAre ==
  ASSUME TypeOK
  PROVE  /\ Inside(content) \in Levels
         /\ \A f \in File, st \in Stage : Inside(content)[0][f][st] = Ended(st, "unknown")
         /\ \A d \in 1 .. MaxDepth : \A f \in File, st \in Stage :
              Inside(content)[d][f][st] = Expanded(Inside(content)[d-1], st, content[f])
         /\ MaxDepth \in 0 .. MaxDepth /\ Inside(content)[MaxDepth] \in Expansions
<1>1. content \in [File -> Seq(Item)]
  BY DEF TypeOK
<1>2. MaxDepth \in 0 .. MaxDepth
  BY DepthAssumption
<1>. QED
  BY <1>1, <1>2, InsideFacts DEF Levels

LEMMA InputsAre ==
  ASSUME NEW i \in 0 .. Len(Input)
  PROVE  /\ Inputs(i) \in Seq(Item)
         /\ i = Len(Input) => Inputs(i) = <<>>
         /\ i < Len(Input) =>
              /\ Inputs(i) # <<>> /\ Tail(Inputs(i)) = Inputs(i + 1)
              /\ Head(Inputs(i)) = [op |-> "include", char |-> MainChar, file |-> Input[i+1]]
<1>. DEFINE N == Len(Input)
            n == N - i
            include(f) == [op |-> "include", char |-> MainChar, file |-> f]
            e(j) == include(Input[i+j])
            g(j) == include(Input[(i+1)+j])
            s == [j \in 1 .. n |-> e(j)]
            t == [j \in 1 .. N - (i + 1) |-> g(j)]
<1>1. /\ N \in Nat /\ n \in Nat /\ \A k \in 1 .. N : Input[k] \in File \cup Missing
      /\ MainChar \in Char
  BY ItemAssumption
<1>2. \A f \in File \cup Missing : include(f) \in Item
  BY <1>1 DEF Item, Mark
<1>3. \A j \in 1 .. n : e(j) \in Item
  BY <1>1, <1>2
<1>4. \A j \in 1 .. N - (i + 1) : g(j) = e(j + 1)
  BY <1>1
<1>5. e(1) = include(Input[i+1])
  OBVIOUS
<1>6. s = Inputs(i) /\ t = Inputs(i + 1)
  BY DEF Inputs
<1>7. N - (i + 1) = n - 1 /\ (i < N <=> n # 0) /\ (i = N <=> n = 0)
  BY <1>1
<1>. HIDE DEF e, g, include, n, N
<1>8. s \in Seq(Item) /\ Len(s) = n /\ \A j \in 1 .. n : s[j] = e(j)
  BY <1>1, <1>3
<1>11. t = [j \in 1 .. n - 1 |-> g(j)]
  BY <1>7
<1>. HIDE DEF s, t
<1>9. n = 0 => s = <<>>
  BY <1>8
<1>10. ASSUME n # 0 PROVE s # <<>> /\ Head(s) = e(1) /\ Tail(s) = t
  <2>1. 1 \in 1 .. n /\ n - 1 \in Nat
    BY <1>1, <1>10
  <2>2. s # <<>> /\ Head(s) = e(1)
    BY <1>8, <2>1
  <2>3. Tail(s) \in Seq(Item) /\ Len(Tail(s)) = n - 1 /\ \A j \in 1 .. n - 1 : Tail(s)[j] = s[j+1]
    BY <1>8, <1>10, <2>2
  <2>4. \A j \in 1 .. n - 1 : j + 1 \in 1 .. n /\ s[j+1] = e(j+1)
    BY <1>1, <1>8, <2>1
  <2>5. ASSUME NEW j \in 1 .. n - 1 PROVE Tail(s)[j] = g(j)
    <3>1. g(j) = e(j+1)
      BY <1>4, <1>7
    <3>. QED
      BY <2>3, <2>4, <3>1
  <2>6. Tail(s) = [j \in 1 .. n - 1 |-> Tail(s)[j]]
    <3>. DEFINE u == Tail(s)
    <3>1. u \in Seq(Item) /\ Len(u) = n - 1
      BY <2>3
    <3>. HIDE DEF u
    <3>2. u = [j \in 1 .. n - 1 |-> u[j]]
      BY <3>1
    <3>. QED
      BY <3>2 DEF u
  <2>. QED
    BY <1>11, <2>2, <2>5, <2>6
<1>. QED
  BY <1>5, <1>6, <1>7, <1>8, <1>9, <1>10 DEF include, N

LEMMA ReachedIn ==
  ASSUME TypeOK, TagsOK
  PROVE  /\ Reached \in Stage /\ Reached.status = "on" /\ Reached.n = count
         /\ Reached.char = CharAt(lconf, Len(lconf))
         /\ lconf = <<>> => Reached.char = MainChar
         /\ lconf # <<>> => Reached.char = Last(lconf)
         /\ Len(Reached.toks) = Len(output_contents)
<1>1. /\ output_contents \in Seq(Token) /\ deferred_functions \in Seq(Fn)
      /\ lconf \in Seq(Char) /\ count \in Nat /\ MainChar \in Char
  BY ItemAssumption DEF TypeOK, OutType, DeferType, EvalType
<1>2. \A i \in DOMAIN output_contents : PartOf(deferred_functions, output_contents[i]) \in Part
  <2>. SUFFICES ASSUME NEW i \in DOMAIN output_contents PROVE PartOf(deferred_functions, output_contents[i]) \in Part
    OBVIOUS
  <2>1. output_contents[i] \in Token
    BY <1>1
  <2>2. CASE output_contents[i].kind = "tag"
    <3>1. deferred_functions[output_contents[i].id] \in Fn
      BY <1>1, <2>2 DEF TagsOK, Tags
    <3>. QED
      BY <2>2, <3>1, PartsAre DEF PartOf
  <2>3. CASE output_contents[i].kind # "tag"
    BY <2>1, <2>3 DEF PartOf, Part
  <2>. QED
    BY <2>2, <2>3
<1>. DEFINE toks == [i \in DOMAIN output_contents |-> PartOf(deferred_functions, output_contents[i])]
            c    == CharAt(lconf, Len(lconf))
<1>3. toks \in Seq(Part) /\ Len(toks) = Len(output_contents)
  <2>1. DOMAIN output_contents = 1 .. Len(output_contents) /\ Len(output_contents) \in Nat
    BY <1>1
  <2>. QED
    BY <1>2, <2>1
<1>4. c \in Char /\ (lconf = <<>> => c = MainChar) /\ (lconf # <<>> => c = Last(lconf))
  <2>1. CASE lconf = <<>>
    BY <1>1, <2>1 DEF CharAt
  <2>2. CASE lconf # <<>>
    BY <1>1, <2>2 DEF CharAt, Last
  <2>. QED
    BY <2>1, <2>2
<1>. HIDE DEF toks, c
<1>5. Reached = [status |-> "on", toks |-> toks, char |-> c, n |-> count]
  BY DEF Reached, toks, c
<1>6. Reached \in Stage
  BY <1>1, <1>3, <1>4, <1>5 DEF Stage
<1>. QED
  BY <1>3, <1>4, <1>5, <1>6 DEF c

LEMMA ProgressEnded ==
  ASSUME TypeOK, NEW s \in Seq(FrameRecord), NEW lc \in Seq(Char), NEW st,
         Progress(s, lc, st), st.status # "on"
  PROVE  Expansion.status = st.status
<1>1. PICK end \in Stage : /\ Leads(Inside(content), s, lc, st, end)
                           /\ Expansion = Expanded(Inside(content)[MaxDepth], end, Inputs(index))
  BY DEF Progress
<1>2. end.status = st.status
  BY <1>1, LeadsEnded, LevelsAre
<1>3. Inputs(index) \in Seq(Item)
  BY InputsAre DEF TypeOK
<1>. QED
  BY <1>1, <1>2, <1>3, ExpandedEnded, LevelsAre

\* The level of the documents in the innermost one, and the expansion after its
\* next item.
Here == Inside(content)[MaxDepth - Len(stack)]

NextStage == Following(Here, Reached, next_item)

LEMMA ProgressItem ==
  ASSUME TypeOK, TagsOK, Progress(stack, lconf, Reached), stack # <<>>, top.items # <<>>
  PROVE  /\ Len(stack) <= MaxDepth /\ top.kind # "fun" /\ Here \in Expansions
         /\ Progress(Advanced, lconf, NextStage) /\ NextStage \in Stage
<1>. DEFINE k == Len(stack)
<1>1. /\ EvalType /\ stack \in Seq(FrameRecord) /\ lconf \in Seq(Char)
      /\ Inside(content) \in Levels
  BY LevelsAre DEF TypeOK, EvalType
<1>2. PICK end \in Stage : /\ Leads(Inside(content), stack, lconf, Reached, end)
                           /\ Expansion = Expanded(Inside(content)[MaxDepth], end, Inputs(index))
  BY DEF Progress
<1>3. k \in Nat \ {0} /\ top = stack[k] /\ top \in FrameRecord /\ top.items \in Seq(Item)
  BY <1>1, TopFacts DEF FrameRecord
<1>4. k <= MaxDepth /\ top.kind # "fun"
  <2>1. k <= MaxDepth /\ \A i \in 1 .. k : stack[i].kind # "fun"
    BY <1>2 DEF Leads, Nested
  <2>. QED
    BY <1>3, <2>1
<1>5. Here \in Expansions
  <2>1. MaxDepth - k \in 0 .. MaxDepth
    BY <1>3, <1>4, DepthAssumption
  <2>. QED
    BY <1>1, <2>1 DEF Here, Levels
<1>6. /\ Advanced \in Seq(FrameRecord) /\ Len(Advanced) = k
      /\ Advanced[k] = [top EXCEPT !.items = Tail(top.items)]
      /\ \A i \in 1 .. k : Advanced[i].kind = stack[i].kind /\ (i # k => Advanced[i] = stack[i])
  BY <1>1, AdvancedFacts
<1>7. Advanced[k].items = Tail(top.items)
  BY <1>3, <1>6 DEF FrameRecord
<1>8. Leads(Inside(content), Advanced, lconf, NextStage, end)
  <2>1. next_item = Head(top.items)
    BY DEF next_item
  <2>2. stack[Len(stack)].items = top.items /\ Advanced[Len(stack)].items = Tail(top.items)
    BY <1>3, <1>7
  <2>3. Leads(Inside(content), Advanced, lconf,
              Following(Inside(content)[MaxDepth - Len(stack)], Reached, Head(top.items)), end)
    BY <1>1, <1>2, <1>3, <1>6, <2>2, LeadsItem
  <2>. QED
    BY <2>1, <2>3 DEF NextStage, Here
<1>9. NextStage \in Stage
  BY <1>1, <1>6, <1>8, LeadsIn
<1>. QED
  BY <1>2, <1>4, <1>5, <1>8, <1>9 DEF Progress

\* The run has gone on in the input files.
LEMMA FilesStep ==
  ASSUME TypeOK, ExpansionOK, ~failed, phase = "files", Expansion.status # "unknown",
         UNCHANGED <<content, phase, failed, index, functions, fs>>,
         UNCHANGED deferred_functions \/ \E fn \in Fn : Shows(fn) /\ MakeTag(fn),
         Progress(stack', lconf', Reached')
  PROVE  ExpansionOK'
<1>1. functions = <<>> /\ fs = <<>> /\ \A i \in Tags : Shows(deferred_functions[i])
  BY DEF ExpansionOK
<1>2. Expansion' = Expansion /\ Inside(content)' = Inside(content)
  BY SameExpansion
<1>3. \A i \in Tags' : Shows(deferred_functions'[i])
  <2>1. CASE UNCHANGED deferred_functions
    BY <1>1, <2>1 DEF Tags
  <2>2. CASE \E fn \in Fn : Shows(fn) /\ MakeTag(fn)
    <3>1. PICK fn \in Fn : Shows(fn) /\ deferred_functions' = Append(deferred_functions, fn)
      BY <2>2 DEF MakeTag
    <3>2. deferred_functions \in Seq(Fn)
      BY DEF TypeOK, DeferType
    <3>. QED
      BY <1>1, <3>1, <3>2 DEF Tags
  <2>. QED
    BY <2>1, <2>2
<1>4. Progress(stack, lconf, Reached)'
  BY <1>2 DEF Progress
<1>. QED
  BY <1>1, <1>2, <1>3, <1>4 DEF ExpansionOK

LEMMA FilesFail ==
  ASSUME Fail, UNCHANGED content, Expansion.status = "failed"
  PROVE  ExpansionOK'
BY SameExpansion DEF ExpansionOK, Fail

\* What a token adds to the stage of the run.
LEMMA ReachedToks ==
  ASSUME TypeOK, TagsOK, UNCHANGED deferred_functions \/ \E fn \in Fn : MakeTag(fn)
  PROVE  /\ UNCHANGED output_contents => Reached'.toks = Reached.toks
         /\ \A tok \in Token : output_contents' = output_contents \o <<tok>> =>
              Reached'.toks = Append(Reached.toks, PartOf(deferred_functions', tok))
<1>. DEFINE old == output_contents
            n   == Len(old)
            fns == deferred_functions'
            part(i) == PartOf(deferred_functions, old[i])
            R == Reached.toks
<1>1. old \in Seq(Token) /\ n \in Nat /\ DOMAIN old = 1 .. n /\ DeferType
  BY DEF TypeOK, OutType
<1>2. ASSUME NEW i \in 1 .. n PROVE PartOf(fns, old[i]) = part(i)
  <2>1. CASE old[i].kind = "tag"
    <3>1. old[i].id \in Tags
      BY <1>1, <2>1 DEF TagsOK
    <3>2. deferred_functions'[old[i].id] = deferred_functions[old[i].id]
      BY <1>1, <3>1, DeferredStay DEF Tags
    <3>. QED
      BY <2>1, <3>2 DEF PartOf
  <2>2. CASE old[i].kind # "tag"
    BY <2>2 DEF PartOf
  <2>. QED
    BY <2>1, <2>2
<1>3. R = [i \in 1 .. n |-> part(i)]
  BY <1>1 DEF Reached
<1>4. Reached'.toks = [i \in DOMAIN output_contents' |-> PartOf(fns, output_contents'[i])]
  BY DEF Reached
<1>5. R \in Seq(Part) /\ Len(R) = n
  BY ReachedIn, StageFacts
<1>. HIDE DEF R, fns, part
<1>6. ASSUME UNCHANGED output_contents PROVE Reached'.toks = R
  <2>1. Reached'.toks = [i \in 1 .. n |-> PartOf(fns, old[i])]
    BY <1>1, <1>4, <1>6
  <2>. HIDE DEF old, n
  <2>. QED
    BY <1>2, <1>3, <2>1
<1>7. ASSUME NEW tok \in Token, output_contents' = output_contents \o <<tok>>
      PROVE  Reached'.toks = Append(R, PartOf(fns, tok))
  <2>. DEFINE new == output_contents'
              p == PartOf(fns, tok)
  <2>1. new = Append(old, tok)
    BY <1>1, <1>7
  <2>2. /\ DOMAIN new = 1 .. n + 1 /\ new[n+1] = tok /\ \A i \in 1 .. n : new[i] = old[i]
    BY <1>1, <2>1
  <2>3. Reached'.toks = [i \in 1 .. n + 1 |-> PartOf(fns, new[i])]
    BY <1>4, <2>2
  <2>. HIDE DEF new, old, n
  <2>4. Append(R, p) = [i \in 1 .. n + 1 |-> IF i = n + 1 THEN p ELSE R[i]]
    <3>. HIDE DEF p
    <3>. DEFINE S == Part \cup {p}
    <3>1. R \in Seq(S) /\ p \in S
      BY <1>5
    <3>. HIDE DEF S
    <3>2. /\ Append(R, p) \in Seq(S) /\ Len(Append(R, p)) = n + 1 /\ Append(R, p)[n+1] = p
          /\ \A i \in 1 .. n : Append(R, p)[i] = R[i]
      BY <1>1, <1>5, <3>1
    <3>3. Append(R, p) = [i \in 1 .. n + 1 |-> Append(R, p)[i]]
      <4>. DEFINE u == Append(R, p)
      <4>1. u \in Seq(S) /\ Len(u) = n + 1
        BY <3>2
      <4>. HIDE DEF u
      <4>2. u = [i \in 1 .. n + 1 |-> u[i]]
        BY <4>1
      <4>. QED
        BY <4>2 DEF u
    <3>. QED
      BY <1>1, <3>2, <3>3
  <2>5. ASSUME NEW i \in 1 .. n + 1
        PROVE  PartOf(fns, new[i]) = IF i = n + 1 THEN p ELSE R[i]
    <3>1. CASE i = n + 1
      BY <2>2, <3>1
    <3>2. CASE i # n + 1
      <4>1. i \in 1 .. n
        BY <1>1, <3>2
      <4>. QED
        BY <1>2, <1>3, <2>2, <3>2, <4>1
    <3>. QED
      BY <3>1, <3>2
  <2>. HIDE DEF p
  <2>6. Reached'.toks = Append(R, p)
    BY <2>3, <2>4, <2>5
  <2>. QED
    BY <2>6 DEF p
<1>. QED
  BY <1>6, <1>7 DEF R, fns

LEMMA ProduceIs ==
  ASSUME NEW toks, NEW c, NEW n, NEW p, NEW st,
         st = [status |-> "on", toks |-> toks, char |-> c, n |-> n]
  PROVE  Produce(st, p) = [status |-> "on", toks |-> Append(toks, p), char |-> c, n |-> n]
BY DEF Produce

\* The stage of the run, written out.
LEMMA ReachedIs ==
  /\ Reached = [status |-> "on", toks |-> Reached.toks, char |-> CharAt(lconf, Len(lconf)),
                n |-> count]
  /\ Reached' = [status |-> "on", toks |-> Reached'.toks, char |-> CharAt(lconf', Len(lconf')),
                 n |-> count']
BY DEF Reached
-----------------------------------------------------------------------------
(* The run follows the expansion in the input files. *)

InFiles ==
  /\ TypeOK /\ TagsOK /\ ConfigurationsMatch /\ ExpansionOK
  /\ ~failed /\ phase = "files" /\ Expansion.status # "unknown"

LEMMA InFilesFacts ==
  ASSUME InFiles
  PROVE  /\ Progress(stack, lconf, Reached) /\ Reached \in Stage /\ Reached.status = "on"
         /\ functions = <<>> /\ fs = <<>>
         /\ EvalType /\ OutType /\ DeferType
BY ReachedIn DEF InFiles, ExpansionOK, TypeOK

LEMMA InFilesItem ==
  ASSUME InFiles, stack # <<>>, top.items # <<>>
  PROVE  /\ Len(stack) \in 1 .. MaxDepth /\ top.kind # "fun" /\ Here \in Expansions
         /\ lconf # <<>> /\ next_item \in Item /\ Advanced \in Seq(FrameRecord)
         /\ Active(next_item) <=> next_item.op # "text" /\ next_item.char = Reached.char
         /\ Progress(Advanced, lconf, NextStage) /\ NextStage \in Stage
         /\ NextStage.status # "on" => Expansion.status = NextStage.status
         /\ Active(next_item) => NextStage = Evaluated(Here, Reached, next_item)
<1>1. EvalType /\ TypeOK /\ TagsOK /\ Progress(stack, lconf, Reached) /\ Reached.status = "on"
  BY InFilesFacts DEF InFiles
<1>2. /\ Len(stack) <= MaxDepth /\ top.kind # "fun" /\ Here \in Expansions
      /\ Progress(Advanced, lconf, NextStage) /\ NextStage \in Stage
  BY <1>1, ProgressItem
<1>3. Len(stack) \in 1 .. MaxDepth /\ next_item \in Item
  BY <1>1, <1>2, TopFacts, DepthAssumption
<1>4. lconf # <<>>
  BY <1>2 DEF InFiles, ConfigurationsMatch
<1>5. Active(next_item) <=> next_item.op # "text" /\ next_item.char = Reached.char
  <2>1. Reached.char = Last(lconf)
    BY <1>1, <1>4, ReachedIn
  <2>. QED
    BY <1>2, <2>1 DEF Active
<1>6. Advanced \in Seq(FrameRecord) /\ lconf \in Seq(Char)
  BY <1>1, AdvancedFacts DEF EvalType
<1>7. NextStage.status # "on" => Expansion.status = NextStage.status
  BY <1>1, <1>2, <1>6, ProgressEnded
<1>8. ASSUME Active(next_item) PROVE NextStage = Evaluated(Here, Reached, next_item)
  BY <1>1, <1>5, <1>8, FollowingCases DEF NextStage
<1>. QED
  BY <1>2, <1>3, <1>4, <1>5, <1>6, <1>7, <1>8

\* An item that produces a token, or nothing.
LEMMA ExpProduce ==
  ASSUME InFiles, stack # <<>>, top.items # <<>>, stack' = Advanced,
         UNCHANGED <<content, phase, failed, index, lconf, functions, fs>>,
         UNCHANGED deferred_functions \/ \E fn \in Fn : Shows(fn) /\ MakeTag(fn),
         \/ /\ UNCHANGED <<output_contents, count>> /\ NextStage = Reached
         \/ /\ UNCHANGED output_contents /\ count' = count + 1
            /\ NextStage = [Reached EXCEPT !.n = @ + 1]
         \/ \E tok \in Token : /\ output_contents' = output_contents \o <<tok>>
                               /\ UNCHANGED count
                               /\ NextStage = Produce(Reached, PartOf(deferred_functions', tok))
  PROVE  ExpansionOK'
<1>. DEFINE R == Reached.toks
            c == CharAt(lconf, Len(lconf))
<1>1. /\ Reached = [status |-> "on", toks |-> R, char |-> c, n |-> count]
      /\ Reached' = [status |-> "on", toks |-> Reached'.toks, char |-> c, n |-> count']
  BY ReachedIs
<1>2. /\ UNCHANGED output_contents => Reached'.toks = R
      /\ \A tok \in Token : output_contents' = output_contents \o <<tok>> =>
           Reached'.toks = Append(R, PartOf(deferred_functions', tok))
  BY ReachedToks DEF InFiles
<1>. HIDE DEF R, c
<1>3. Reached' = NextStage
  <2>1. CASE UNCHANGED <<output_contents, count>> /\ NextStage = Reached
    BY <1>1, <1>2, <2>1
  <2>2. CASE /\ UNCHANGED output_contents /\ count' = count + 1
             /\ NextStage = [Reached EXCEPT !.n = @ + 1]
    <3>1. [Reached EXCEPT !.n = @ + 1] =
            [status |-> "on", toks |-> R, char |-> c, n |-> count + 1]
      BY <1>1
    <3>2. Reached' = [status |-> "on", toks |-> R, char |-> c, n |-> count + 1]
      BY <1>1, <1>2, <2>2
    <3>. QED
      BY <2>2, <3>1, <3>2
  <2>3. CASE \E tok \in Token : /\ output_contents' = output_contents \o <<tok>>
                                /\ UNCHANGED count
                                /\ NextStage = Produce(Reached, PartOf(deferred_functions', tok))
    <3>1. PICK tok \in Token : /\ output_contents' = output_contents \o <<tok>>
                               /\ UNCHANGED count
                               /\ NextStage = Produce(Reached, PartOf(deferred_functions', tok))
      BY <2>3
    <3>. DEFINE p == PartOf(deferred_functions', tok)
    <3>2. Reached' = [status |-> "on", toks |-> Append(R, p), char |-> c, n |-> count]
      <4>1. Reached'.toks = Append(R, p)
        BY <1>2, <3>1
      <4>2. Reached' = [status |-> "on", toks |-> Reached'.toks, char |-> c, n |-> count]
        BY <1>1, <3>1
      <4>. HIDE DEF p
      <4>. QED
        BY <4>1, <4>2
    <3>. HIDE DEF p
    <3>3. Produce(Reached, p) = [status |-> "on", toks |-> Append(R, p), char |-> c, n |-> count]
      BY <1>1, ProduceIs
    <3>. QED
      BY <3>1, <3>2, <3>3 DEF p
  <2>. QED
    BY <2>1, <2>2, <2>3
<1>4. Progress(Advanced, lconf, NextStage)
  BY InFilesItem
<1>5. Progress(stack', lconf', Reached')
  BY <1>3, <1>4
<1>. QED
  BY <1>5, FilesStep DEF InFiles

LEMMA ExpText == ASSUME InFiles, Text, UNCHANGED content PROVE ExpansionOK'
<1>. DEFINE tok == IF next_item.op = "text" THEN text ELSE raw(next_item)
<1>1. /\ stack # <<>> /\ top.items # <<>> /\ stack' = Advanced /\ ~Active(next_item)
      /\ UNCHANGED <<phase, failed, index, lconf, functions, fs, count, deferred_functions>>
      /\ Yield(<<tok>>)
  BY DEF Text, Running, AtexitState
<1>2. /\ next_item \in Item /\ Reached.status = "on"
      /\ Active(next_item) <=> next_item.op # "text" /\ next_item.char = Reached.char
  BY <1>1, InFilesFacts, InFilesItem
<1>3. output_contents' = output_contents \o <<tok>>
  BY <1>1 DEF Yield, InFiles
<1>4. NextStage = Produce(Reached, tok)
  BY <1>1, <1>2, FollowingCases DEF NextStage
<1>5. tok \in Token /\ tok.kind # "tag"
  BY <1>2, TokensAre
<1>. HIDE DEF tok
<1>6. PartOf(deferred_functions', tok) = tok
  BY <1>5 DEF PartOf
<1>. QED
  BY <1>1, <1>3, <1>4, <1>5, <1>6, ExpProduce

LEMMA ExpCount == ASSUME InFiles, Count, UNCHANGED content PROVE ExpansionOK'
<1>1. /\ stack # <<>> /\ top.items # <<>> /\ stack' = Advanced /\ Active(next_item)
      /\ UNCHANGED <<phase, failed, index, lconf, functions, fs, output_contents,
                     deferred_functions>>
      /\ count' = count + 1 /\ next_item.op = "count"
  BY DEF Count, Evaluating, Running, AtexitState, OutState, DeferState
<1>2. NextStage = [Reached EXCEPT !.n = @ + 1]
  <2>1. NextStage = Evaluated(Here, Reached, next_item)
    BY <1>1, InFilesItem
  <2>. QED
    BY <1>1, <2>1 DEF Evaluated
<1>. QED
  BY <1>1, <1>2, ExpProduce

LEMMA ExpShow == ASSUME InFiles, Show, UNCHANGED content PROVE ExpansionOK'
<1>. DEFINE tok == value(count)
<1>1. /\ stack # <<>> /\ top.items # <<>> /\ stack' = Advanced /\ Active(next_item)
      /\ UNCHANGED <<phase, failed, index, lconf, functions, fs, count, deferred_functions>>
      /\ Yield(<<tok>>) /\ next_item.op = "show"
  BY DEF Show, Evaluating, Running, AtexitState
<1>2. NextStage = Produce(Reached, tok)
  <2>1. NextStage = Evaluated(Here, Reached, next_item)
    BY <1>1, InFilesItem
  <2>2. Reached.n = count
    BY ReachedIn DEF InFiles
  <2>. QED
    BY <1>1, <2>1, <2>2 DEF Evaluated
<1>3. output_contents' = output_contents \o <<tok>>
  BY <1>1 DEF Yield, InFiles
<1>4. tok \in Token /\ tok.kind # "tag"
  BY InFilesFacts, TokensAre DEF EvalType
<1>. HIDE DEF tok
<1>5. PartOf(deferred_functions', tok) = tok
  BY <1>4 DEF PartOf
<1>. QED
  BY <1>1, <1>2, <1>3, <1>4, <1>5, ExpProduce

\* A call that the expansion says nothing of, or an error.
LEMMA ExpUnknown ==
  ASSUME InFiles, stack # <<>>, top.items # <<>>, Active(next_item)
  PROVE  /\ next_item.op \in {"count", "show", "macro", "defer", "ypp", "include", "read",
                              "file", "error"}
         /\ next_item.op = "defer" => Shows(next_item.fn)
<1>. SUFFICES ASSUME \/ next_item.op = "defer" /\ ~Shows(next_item.fn)
                     \/ next_item.op \notin {"count", "show", "macro", "defer", "ypp",
                                             "include", "read", "file", "error"}
              PROVE  FALSE
  OBVIOUS
<1>1. NextStage = Ended(Reached, "unknown")
  <2>1. NextStage = Evaluated(Here, Reached, next_item)
    BY InFilesItem
  <2>. QED
    BY <2>1 DEF Evaluated
<1>2. NextStage.status = "unknown"
  BY <1>1, InFilesFacts, StageFacts
<1>. QED
  BY <1>2, InFilesItem DEF InFiles

LEMMA ExpDefer == ASSUME InFiles, Defer, UNCHANGED content PROVE ExpansionOK'
<1>. DEFINE fn  == next_item.fn
            tok == tag(NewTag)
<1>1. /\ stack # <<>> /\ top.items # <<>> /\ stack' = Advanced /\ Active(next_item)
      /\ UNCHANGED <<phase, failed, index, lconf, functions, fs, count>>
      /\ Yield(<<tok>>) /\ next_item.op = "defer" /\ MakeTag(fn)
  BY DEF Defer, Evaluating, Running, AtexitState
<1>2. Shows(fn) /\ fn \in Fn
  BY <1>1, ExpUnknown, InFilesItem, ItemByOp
<1>3. NextStage = Produce(Reached, later(fn))
  <2>1. NextStage = Evaluated(Here, Reached, next_item)
    BY <1>1, InFilesItem
  <2>. QED
    BY <1>1, <1>2, <2>1 DEF Evaluated
<1>4. output_contents' = output_contents \o <<tok>>
  BY <1>1 DEF Yield, InFiles
<1>5. NewTag \in Nat \ {0} /\ deferred_functions'[NewTag] = fn
  <2>1. deferred_functions \in Seq(Fn)
    BY InFilesFacts DEF DeferType
  <2>. QED
    BY <1>1, <1>2, <2>1 DEF MakeTag, NewTag
<1>6. tok \in Token /\ PartOf(deferred_functions', tok) = later(fn)
  BY <1>5, TokensAre DEF PartOf
<1>. HIDE DEF tok, fn
<1>7. \E tk \in Token : /\ output_contents' = output_contents \o <<tk>>
                        /\ UNCHANGED count
                        /\ NextStage = Produce(Reached, PartOf(deferred_functions', tk))
  BY <1>1, <1>3, <1>4, <1>6
<1>. QED
  BY <1>1, <1>2, <1>7, ExpProduce

LEMMA ExpError == ASSUME InFiles, Error, UNCHANGED content PROVE ExpansionOK'
<1>1. stack # <<>> /\ top.items # <<>> /\ Active(next_item) /\ next_item.op = "error" /\ Fail
  BY DEF Error, Evaluating, Running
<1>2. NextStage = Ended(Reached, "failed")
  <2>1. NextStage = Evaluated(Here, Reached, next_item)
    BY <1>1, InFilesItem
  <2>. QED
    BY <1>1, <2>1 DEF Evaluated
<1>3. Expansion.status = "failed"
  <2>1. NextStage.status = "failed"
    BY <1>2, InFilesFacts, StageFacts
  <2>. QED
    BY <1>1, <2>1, InFilesItem
<1>. QED
  BY <1>1, <1>3, FilesFail

LEMMA ExpOthers ==
  ASSUME InFiles, Atexit \/ Put \/ PutBoolean \/ PutDefer
  PROVE  FALSE
<1>1. /\ stack # <<>> /\ top.items # <<>> /\ Active(next_item)
      /\ next_item.op \in {"atexit", "put", "putbool", "putdefer"}
  BY DEF Atexit, Put, PutBoolean, PutDefer, Evaluating, Running
<1>. QED
  BY <1>1, ExpUnknown

LEMMA ExpRead == ASSUME InFiles, Read, UNCHANGED content PROVE ExpansionOK'
<1>1. /\ stack # <<>> /\ top.items # <<>> /\ Active(next_item) /\ next_item.op = "read"
  BY DEF Read, Evaluating, Running
<1>2. NextStage = Evaluated(Here, Reached, next_item) /\ next_item.file \in File \cup Missing
  BY <1>1, InFilesItem, ItemByOp
<1>3. CASE next_item.file \in Missing
  <2>1. next_item.file \notin File /\ Fail
    BY <1>3, ItemAssumption DEF Read
  <2>2. NextStage = Ended(Reached, "failed")
    BY <1>1, <1>2, <2>1 DEF Evaluated
  <2>3. NextStage.status = "failed"
    BY <2>2, InFilesFacts, StageFacts
  <2>4. Expansion.status = "failed"
    BY <1>1, <2>3, InFilesItem
  <2>. QED
    BY <2>1, <2>4, FilesFail
<1>4. CASE next_item.file \in File
  <2>1. /\ stack' = Advanced /\ Yield(<<text>>)
        /\ UNCHANGED <<phase, failed, index, lconf, functions, fs, count, deferred_functions>>
    BY <1>4, ItemAssumption DEF Read, AtexitState
  <2>2. output_contents' = output_contents \o <<text>>
    BY <2>1 DEF Yield, InFiles
  <2>3. NextStage = Produce(Reached, text)
    BY <1>1, <1>2, <1>4 DEF Evaluated
  <2>4. text \in Token /\ PartOf(deferred_functions', text) = text
    BY TokensAre DEF PartOf, text
  <2>. QED
    BY <1>1, <2>1, <2>2, <2>3, <2>4, ExpProduce
<1>. QED
  BY <1>2, <1>3, <1>4

LEMMA ExpOpenFile == ASSUME InFiles, OpenFile, UNCHANGED content PROVE ExpansionOK'
<1>1. /\ stack # <<>> /\ top.items # <<>> /\ stack' = Advanced /\ Active(next_item)
      /\ UNCHANGED <<phase, failed, index, lconf, functions, fs, output_contents, count,
                     deferred_functions>>
      /\ next_item.op = "file"
  BY DEF OpenFile, Evaluating, Running, AtexitState, OutState, DeferState
<1>2. NextStage = Reached
  <2>1. NextStage = Evaluated(Here, Reached, next_item)
    BY <1>1, InFilesItem
  <2>. QED
    BY <1>1, <2>1 DEF Evaluated
<1>. QED
  BY <1>1, <1>2, ExpProduce

\* The innermost file has another macro character.
LEMMA ExpMacro == ASSUME InFiles, Macro, UNCHANGED content PROVE ExpansionOK'
<1>. DEFINE c == next_item.new
<1>1. /\ stack # <<>> /\ top.items # <<>> /\ Active(next_item) /\ next_item.op = "macro"
      /\ lconf # <<>> /\ next_item \in Item
  BY InFilesItem DEF Macro, Evaluating, Running
<1>2. /\ stack' = Advanced /\ lconf' = Front(lconf) \o <<c>>
      /\ UNCHANGED <<phase, failed, index, functions, fs, count, deferred_functions,
                     output_contents>>
  BY <1>1 DEF Macro, OutState, DeferState, AtexitState
<1>3. c \in Char /\ lconf \in Seq(Char) /\ stack \in Seq(FrameRecord)
  BY <1>1, InFilesFacts, ItemByOp DEF EvalType
<1>. HIDE DEF c
<1>4. /\ lconf' \in Seq(Char) /\ Len(lconf') = Len(lconf) /\ lconf'[Len(lconf)] = c
      /\ \A i \in 1 .. Len(lconf) : i # Len(lconf) => lconf'[i] = lconf[i]
      /\ Len(lconf) # 0
  <2>1. Replaces(lconf', lconf, c, Char)
    BY <1>1, <1>2, <1>3, ReplaceLast
  <2>. QED
    BY <1>1, <1>3, <2>1 DEF Replaces
<1>5. NextStage = [Reached EXCEPT !.char = c]
  <2>1. NextStage = Evaluated(Here, Reached, next_item)
    BY <1>1, InFilesItem
  <2>. QED
    BY <1>1, <2>1 DEF Evaluated, c
<1>6. Reached' = NextStage
  <2>1. Reached'.toks = Reached.toks
    BY <1>2, ReachedToks DEF InFiles
  <2>2. CharAt(lconf', Len(lconf')) = c
    BY <1>4 DEF CharAt
  <2>. QED
    BY <1>2, <1>5, <2>1, <2>2, ReachedIs
<1>7. PICK end \in Stage : /\ Leads(Inside(content), Advanced, lconf, NextStage, end)
                           /\ Expansion = Expanded(Inside(content)[MaxDepth], end, Inputs(index))
  BY <1>1, InFilesItem DEF Progress
<1>8. Leads(Inside(content), Advanced, lconf', NextStage, end)
  <2>1. Advanced \in Seq(FrameRecord)
    BY <1>1, InFilesItem
  <2>. QED
    BY <1>3, <1>4, <1>7, <2>1, LeadsMacro
<1>9. Progress(stack', lconf', Reached')
  BY <1>2, <1>6, <1>7, <1>8 DEF Progress
<1>. QED
  BY <1>2, <1>9, FilesStep DEF InFiles

\* A document is entered, which is not too deep.
LEMMA EnterDocument ==
  ASSUME TypeOK, NEW s \in Seq(FrameRecord), NEW lc \in Seq(Char), NEW mid, NEW end,
         Leads(Inside(content), s, lc, mid, end), mid.status # "unknown",
         NEW kind \in {"file", "text"}, NEW f \in File, NEW start \in Stage,
         LET last == Inside(content)[MaxDepth - Len(s)][f][start] IN
           mid = IF kind = "file" THEN [last EXCEPT !.char = CharAt(lc, Len(lc))] ELSE last
  PROVE  Leads(Inside(content), Append(s, Frame(kind, content[f])),
               IF kind = "file" THEN Append(lc, MainChar) ELSE lc, start, end)
<1>. DEFINE inside == Inside(content)
            n      == Len(s)
            d      == MaxDepth - n
            frame  == Frame(kind, content[f])
            last   == inside[d][f][start]
            c      == CharAt(lc, Len(lc))
            new    == IF kind = "file" THEN Append(lc, MainChar) ELSE lc
<1>1. inside \in Levels /\ n \in Nat /\ n <= MaxDepth /\ MaxDepth \in Nat
  <2>1. n <= MaxDepth
    BY DEF Leads, Nested
  <2>. QED
    BY <2>1, LevelsAre, DepthAssumption
<1>2. mid = IF kind = "file" THEN [last EXCEPT !.char = c] ELSE last
  OBVIOUS
<1>3. d \in 1 .. MaxDepth
  <2>1. CASE d = 0
    <3>1. last = Ended(start, "unknown")
      BY <2>1, LevelsAre
    <3>. HIDE DEF last
    <3>2. last \in Stage /\ last.status = "unknown"
      BY <3>1, StageFacts
    <3>3. [last EXCEPT !.char = c].status = "unknown"
      BY <3>2 DEF Stage
    <3>. QED
      BY <1>2, <3>2, <3>3
  <2>. QED
    BY <1>1, <2>1
<1>4. last = Expanded(inside[d-1], start, content[f])
  BY <1>3, LevelsAre
<1>5. frame \in FrameRecord /\ frame.kind = kind /\ frame.items = content[f]
  BY Documents DEF Frame
<1>6. n < MaxDepth /\ d - 1 = MaxDepth - (n + 1)
  BY <1>1, <1>3
<1>7. Append(s, frame)[n+1] = frame
  BY <1>5
<1>. HIDE DEF frame, n, d, last, c, inside
<1>8. mid = LeftAt(inside, Append(s, frame), n + 1, start, c)
  BY <1>2, <1>4, <1>5, <1>6, <1>7 DEF LeftAt
<1>9. /\ new \in Seq(Char) /\ Len(new) = Len(lc) + Files(frame)
      /\ \A i \in 1 .. Len(lc) : new[i] = lc[i]
  BY <1>5, ItemAssumption DEF Files
<1>. HIDE DEF new
<1>10. Leads(inside, s, lc, mid, end) /\ frame.kind # "fun"
  BY <1>5 DEF inside
<1>11. Leads(inside, Append(s, frame), new, start, end)
  BY <1>1, <1>5, <1>6, <1>8, <1>9, <1>10, LeadsPush DEF n, c
<1>. QED
  BY <1>11 DEF inside, frame, new

LEMMA ExpInclude == ASSUME InFiles, Include, UNCHANGED content PROVE ExpansionOK'
<1>. DEFINE f     == next_item.file
            start == [Reached EXCEPT !.char = MainChar]
            last  == Here[f][start]
<1>1. /\ stack # <<>> /\ top.items # <<>> /\ Active(next_item) /\ next_item.op = "include"
  BY DEF Include, Evaluating, Running
<1>2. NextStage = Evaluated(Here, Reached, next_item)
  BY <1>1, InFilesItem
<1>3. CASE f \in Missing
  <2>1. f \notin File /\ Fail
    BY <1>3, ItemAssumption DEF Include
  <2>2. NextStage = Ended(Reached, "failed")
    BY <1>1, <1>2, <2>1 DEF Evaluated
  <2>3. NextStage.status = "failed"
    BY <2>2, InFilesFacts, StageFacts
  <2>4. Expansion.status = "failed"
    BY <1>1, <2>3, InFilesItem
  <2>. QED
    BY <2>1, <2>4, FilesFail
<1>4. CASE f \in File
  <2>1. /\ lconf' = Append(lconf, MainChar) /\ stack' = Append(Advanced, Frame("file", content[f]))
        /\ UNCHANGED <<phase, failed, index, functions, fs, count, deferred_functions,
                       output_contents>>
    BY <1>4, ItemAssumption DEF Include, DeferState, AtexitState
  <2>2. NextStage = [last EXCEPT !.char = Reached.char]
    BY <1>1, <1>2, <1>4 DEF Evaluated
  <2>3. Reached.char = CharAt(lconf, Len(lconf)) /\ Reached \in Stage /\ MainChar \in Char
    BY ReachedIn, ItemAssumption DEF InFiles
  <2>4. start \in Stage
    BY <2>3, StageFacts
  <2>5. Reached' = start
    <3>1. Reached'.toks = Reached.toks
      BY <2>1, ReachedToks DEF InFiles
    <3>2. lconf \in Seq(Char)
      BY InFilesFacts DEF EvalType
    <3>3. CharAt(lconf', Len(lconf')) = MainChar
      BY <2>1, <2>3, <3>2 DEF CharAt
    <3>. QED
      BY <2>1, <3>1, <3>3, ReachedIs
  <2>6. PICK end \in Stage : /\ Leads(Inside(content), Advanced, lconf, NextStage, end)
                             /\ Expansion = Expanded(Inside(content)[MaxDepth], end, Inputs(index))
    BY <1>1, InFilesItem DEF Progress
  <2>7. /\ Len(Advanced) = Len(stack) /\ Advanced \in Seq(FrameRecord) /\ lconf \in Seq(Char)
        /\ NextStage.status # "unknown"
    BY <1>1, AdvancedFacts, InFilesItem, InFilesFacts DEF EvalType, InFiles
  <2>8. last = Inside(content)[MaxDepth - Len(Advanced)][f][start]
    BY <2>7 DEF Here
  <2>. HIDE DEF start, last, f
  <2>9. Leads(Inside(content), Append(Advanced, Frame("file", content[f])),
              Append(lconf, MainChar), start, end)
    BY <1>4, <2>2, <2>3, <2>4, <2>6, <2>7, <2>8, EnterDocument DEF InFiles
  <2>10. Progress(stack', lconf', Reached')
    BY <2>1, <2>5, <2>6, <2>9 DEF Progress
  <2>. QED
    BY <2>1, <2>10, FilesStep DEF InFiles
<1>. QED
  BY <1>3, <1>4 DEF Include

LEMMA ExpPreprocess == ASSUME InFiles, Preprocess, UNCHANGED content PROVE ExpansionOK'
<1>. DEFINE f    == next_item.file
            last == Here[f][Reached]
<1>1. /\ stack # <<>> /\ top.items # <<>> /\ Active(next_item) /\ next_item.op = "ypp"
  BY DEF Preprocess, Evaluating, Running
<1>2. NextStage = Evaluated(Here, Reached, next_item) /\ lconf # <<>> /\ f \in File
  BY <1>1, InFilesItem, ItemByOp
<1>3. /\ stack' = Append(Advanced, Frame("text", content[f]))
      /\ UNCHANGED <<phase, failed, index, lconf, functions, fs, count, deferred_functions,
                     output_contents>>
  BY <1>2 DEF Preprocess, OutState, DeferState, AtexitState
<1>4. NextStage = last
  BY <1>1, <1>2 DEF Evaluated
<1>5. Reached \in Stage
  BY InFilesFacts
<1>6. Reached' = Reached
  <2>1. Reached'.toks = Reached.toks
    BY <1>3, ReachedToks DEF InFiles
  <2>. QED
    BY <1>3, <2>1, ReachedIs
<1>7. PICK end \in Stage : /\ Leads(Inside(content), Advanced, lconf, NextStage, end)
                           /\ Expansion = Expanded(Inside(content)[MaxDepth], end, Inputs(index))
  BY <1>1, InFilesItem DEF Progress
<1>8. /\ Len(Advanced) = Len(stack) /\ Advanced \in Seq(FrameRecord) /\ lconf \in Seq(Char)
      /\ NextStage.status # "unknown"
  BY <1>1, AdvancedFacts, InFilesItem, InFilesFacts DEF EvalType, InFiles
<1>9. last = Inside(content)[MaxDepth - Len(Advanced)][f][Reached]
  BY <1>8 DEF Here
<1>. HIDE DEF last, f
<1>10. Leads(Inside(content), Append(Advanced, Frame("text", content[f])), lconf, Reached, end)
  BY <1>2, <1>4, <1>5, <1>7, <1>8, <1>9, EnterDocument DEF InFiles
<1>11. Progress(stack', lconf', Reached')
  BY <1>3, <1>6, <1>7, <1>10 DEF Progress
<1>. QED
  BY <1>3, <1>11, FilesStep DEF InFiles

\* The end of a document gives the one around it its macro character back.
LEMMA ExpLeave == ASSUME InFiles, Leave, UNCHANGED content PROVE ExpansionOK'
<1>1. /\ stack # <<>> /\ top.items = <<>> /\ stack' = Front(stack)
      /\ IF top.kind = "file" THEN lconf' = Front(lconf) ELSE UNCHANGED lconf
      /\ UNCHANGED <<phase, failed, index, functions, fs, count, deferred_functions,
                     output_contents>>
  BY DEF Leave, Running, OutState, DeferState, AtexitState
<1>2. PICK end \in Stage : /\ Leads(Inside(content), stack, lconf, Reached, end)
                           /\ Expansion = Expanded(Inside(content)[MaxDepth], end, Inputs(index))
  BY InFilesFacts DEF Progress
<1>3. Reached'.toks = Reached.toks
  BY <1>1, ReachedToks DEF InFiles
<1>4. /\ Inside(content) \in Levels /\ stack \in Seq(FrameRecord) /\ lconf \in Seq(Char)
      /\ top = Last(stack)
  BY LevelsAre, InFilesFacts DEF InFiles, EvalType, top
<1>5. Leads(Inside(content), stack', lconf', Reached', end)
  <2>1. CASE top.kind = "file"
    <3>1. Leads(Inside(content), Front(stack), Front(lconf),
                [Reached EXCEPT !.char = CharAt(Front(lconf), Len(Front(lconf)))], end)
      BY <1>1, <1>2, <1>4, <2>1, LeadsPop
    <3>2. Reached' = [Reached EXCEPT !.char = CharAt(Front(lconf), Len(Front(lconf)))]
      BY <1>1, <1>3, <2>1, ReachedIs
    <3>. QED
      BY <1>1, <2>1, <3>1, <3>2
  <2>2. CASE top.kind # "file"
    <3>1. Leads(Inside(content), Front(stack), lconf, Reached, end)
      BY <1>1, <1>2, <1>4, <2>2, LeadsPop
    <3>2. Reached' = Reached
      BY <1>1, <1>3, <2>2, ReachedIs
    <3>. QED
      BY <1>1, <2>2, <3>1, <3>2
  <2>. QED
    BY <2>1, <2>2
<1>6. Progress(stack', lconf', Reached')
  BY <1>2, <1>5 DEF Progress
<1>. QED
  BY <1>1, <1>6, FilesStep DEF InFiles

LEMMA ExpFilesEvaluate == ASSUME InFiles, Evaluate, UNCHANGED content PROVE ExpansionOK'
BY ExpText, ExpCount, ExpShow, ExpInclude, ExpPreprocess, ExpRead, ExpOpenFile, ExpOthers,
   ExpMacro, ExpDefer, ExpError, ExpLeave DEF Evaluate

\* An input file is missing, or its expansion starts.
LEMMA ExpProcessFile == ASSUME InFiles, ProcessFile, UNCHANGED content PROVE ExpansionOK'
<1>. DEFINE inside == Inside(content)[MaxDepth]
            f      == Input[index+1]
            it     == [op |-> "include", char |-> MainChar, file |-> f]
            next   == Following(inside, Reached, it)
            start  == [Reached EXCEPT !.char = MainChar]
            last   == inside[f][start]
<1>1. stack = <<>> /\ lconf = <<>> /\ index \in 0 .. Len(Input) /\ index < Len(Input)
  BY DEF ProcessFile, Idle, InFiles, ConfigurationsMatch, TypeOK
<1>2. PICK end \in Stage : /\ Leads(Inside(content), stack, lconf, Reached, end)
                           /\ Expansion = Expanded(inside, end, Inputs(index))
  BY InFilesFacts DEF Progress
<1>3. end = Reached
  BY <1>1, <1>2 DEF Leads, Nested
<1>4. /\ Reached \in Stage /\ Reached.status = "on" /\ Reached.char = MainChar
      /\ inside \in Expansions /\ start \in Stage
  <2>1. Reached \in Stage /\ Reached.char = MainChar
    BY <1>1, ReachedIn DEF InFiles
  <2>2. start \in Stage
    BY <2>1, StageFacts, ItemAssumption
  <2>. QED
    BY <2>1, <2>2, InFilesFacts, LevelsAre DEF InFiles
<1>5. /\ Inputs(index) \in Seq(Item) /\ Inputs(index) # <<>>
      /\ Tail(Inputs(index)) = Inputs(index + 1) /\ Head(Inputs(index)) = it
      /\ it \in Item /\ index + 1 \in 0 .. Len(Input) /\ Inputs(index + 1) \in Seq(Item)
  <2>1. /\ Inputs(index) \in Seq(Item) /\ Inputs(index) # <<>>
        /\ Tail(Inputs(index)) = Inputs(index + 1) /\ Head(Inputs(index)) = it
    BY <1>1, InputsAre
  <2>2. index + 1 \in 0 .. Len(Input)
    BY <1>1
  <2>3. Inputs(index + 1) \in Seq(Item)
    BY <2>2, InputsAre
  <2>4. Head(Inputs(index)) \in Item
    BY <2>1
  <2>. HIDE DEF it
  <2>. QED
    BY <2>1, <2>2, <2>3, <2>4
<1>6. it.op = "include" /\ it.file = f /\ it.char = MainChar
  OBVIOUS
<1>. HIDE DEF it
<1>7. Expansion = Expanded(inside, next, Inputs(index + 1))
  BY <1>2, <1>3, <1>4, <1>5, ExpandedHead
<1>8. next = Evaluated(inside, Reached, it) /\ next \in Stage
  BY <1>4, <1>5, <1>6, FollowingCases, FollowingIn
<1>9. next.status # "on" => Expansion.status = next.status
  BY <1>4, <1>5, <1>7, <1>8, ExpandedEnded
<1>. HIDE DEF next
<1>10. CASE f \in Missing
  <2>1. f \notin File /\ Fail
    BY <1>10, ItemAssumption DEF ProcessFile
  <2>2. next = Ended(Reached, "failed")
    BY <1>6, <1>8, <2>1 DEF Evaluated
  <2>3. next.status = "failed"
    BY <1>4, <2>2, StageFacts
  <2>. QED
    BY <1>9, <2>1, <2>3, FilesFail
<1>11. CASE f \in File
  <2>1. /\ index' = index + 1 /\ lconf' = Append(lconf, MainChar)
        /\ stack' = <<Frame("file", content[f])>>
        /\ UNCHANGED <<phase, failed, functions, fs, count, deferred_functions,
                       output_contents>>
    BY <1>11, ItemAssumption DEF ProcessFile, DeferState, AtexitState
  <2>2. next = [last EXCEPT !.char = Reached.char] /\ CharAt(lconf, Len(lconf)) = Reached.char
    BY <1>1, <1>4, <1>6, <1>8, <1>11 DEF Evaluated, CharAt
  <2>3. next.status # "unknown"
    BY <1>9 DEF InFiles
  <2>4. last = Inside(content)[MaxDepth - Len(stack)][f][start]
    <3>1. MaxDepth - Len(stack) = MaxDepth
      BY <1>1, DepthAssumption
    <3>. QED
      BY <3>1
  <2>5. Leads(Inside(content), stack, lconf, next, next)
    <3>. DEFINE r == [k \in 0 .. 0 |-> next]
                p == [k \in 0 .. 0 |-> 0]
    <3>1. /\ r \in [0 .. 0 -> Stage] /\ r[0] = next /\ p \in [0 .. 0 -> 0 .. 0] /\ p[0] = 0
          /\ \A i, j \in 0 .. 0 : p[i] <= p[j]
      BY <1>8
    <3>2. Len(stack) = 0 /\ Len(lconf) = 0 /\ 0 <= MaxDepth
      BY <1>1, DepthAssumption
    <3>. HIDE DEF r, p
    <3>3. Nested(Inside(content), stack, lconf, r, p, next)
      BY <3>1, <3>2 DEF Nested
    <3>. QED
      BY <3>1, <3>3 DEF Leads
  <2>6. stack \in Seq(FrameRecord) /\ lconf \in Seq(Char) /\ MainChar \in Char
    BY InFilesFacts, ItemAssumption DEF EvalType
  <2>7. Reached' = start
    <3>1. Reached'.toks = Reached.toks
      BY <2>1, ReachedToks DEF InFiles
    <3>2. CharAt(lconf', Len(lconf')) = MainChar
      BY <2>1, <2>6 DEF CharAt
    <3>. QED
      BY <2>1, <3>1, <3>2, ReachedIs
  <2>. HIDE DEF start, last, f, inside
  <2>8. Leads(Inside(content), Append(stack, Frame("file", content[f])),
              Append(lconf, MainChar), start, next)
    BY <1>4, <1>11, <2>2, <2>3, <2>4, <2>5, <2>6, EnterDocument DEF InFiles
  <2>9. stack' = Append(stack, Frame("file", content[f]))
    BY <1>1, <2>1
  <2>10. Expansion' = Expansion /\ Inside(content)' = Inside(content)
    BY SameExpansion
  <2>11. Progress(stack, lconf, Reached)'
    BY <1>7, <1>8, <2>1, <2>7, <2>8, <2>9, <2>10 DEF Progress, inside
  <2>12. functions = <<>> /\ fs = <<>> /\ \A i \in Tags : Shows(deferred_functions[i])
    BY DEF InFiles, ExpansionOK
  <2>. QED
    BY <2>1, <2>10, <2>11, <2>12 DEF ExpansionOK, InFiles, Tags
<1>12. f \in File \cup Missing
  <2>1. index + 1 \in 1 .. Len(Input)
    BY <1>1
  <2>. QED
    BY <2>1, ItemAssumption
<1>. QED
  BY <1>10, <1>11, <1>12

\* The input files have been expanded.
LEMMA ExpEndOfFiles == ASSUME InFiles, EndOfFiles, UNCHANGED content PROVE ExpansionOK'
<1>1. /\ stack = <<>> /\ index = Len(Input) /\ index \in 0 .. Len(Input)
      /\ phase' = "atexit"
      /\ UNCHANGED <<failed, index, stack, lconf, count, output_contents, deferred_functions,
                     functions, fs>>
  BY DEF EndOfFiles, Idle, Enter, InFiles, TypeOK, EvalState, OutState, DeferState, AtexitState
<1>2. PICK end \in Stage : /\ Leads(Inside(content), stack, lconf, Reached, end)
                           /\ Expansion = Expanded(Inside(content)[MaxDepth], end, Inputs(index))
  BY InFilesFacts DEF Progress
<1>3. end = Reached
  BY <1>1, <1>2 DEF Leads, Nested
<1>4. Expansion = Reached
  <2>1. Inputs(index) \in Seq(Item) /\ Inputs(index) = <<>>
    BY <1>1, InputsAre
  <2>2. Inside(content)[MaxDepth] \in Expansions
    BY LevelsAre DEF InFiles
  <2>. QED
    BY <1>2, <1>3, <2>1, <2>2, ExpandedEmpty
<1>5. Expansion' = Expansion
  BY SameExpansion
<1>6. Reached'.toks = Reached.toks
  BY <1>1, ReachedToks DEF InFiles
<1>7. Reached.status = "on" /\ Reached.n = count
  BY ReachedIn DEF InFiles
<1>8. functions = <<>> /\ fs = <<>> /\ \A i \in Tags : Shows(deferred_functions[i])
  BY DEF InFiles, ExpansionOK
<1>. QED
  BY <1>1, <1>4, <1>5, <1>6, <1>7, <1>8 DEF ExpansionOK, InFiles, Tags
-----------------------------------------------------------------------------
(* The deferred functions say what they have to. *)

LEMMA SaidFacts ==
  ASSUME NEW items \in Seq(Item), NEW n \in Nat
  PROVE  /\ Said(items, n) \in Seq(Token)
         /\ items = <<>> => Said(items, n) = <<>>
         /\ items # <<>> =>
              /\ Said(items, n) # <<>> /\ Tail(Said(items, n)) = Said(Tail(items), n)
              /\ Head(Said(items, n)) = IF Head(items).op = "text" THEN text ELSE value(n)
<1>. DEFINE m == Len(items)
            e(it) == IF it.op = "text" THEN text ELSE value(n)
            s == Said(items, n)
            t == Said(Tail(items), n)
<1>1. m \in Nat /\ DOMAIN items = 1 .. m
  OBVIOUS
<1>2. s = [i \in 1 .. m |-> e(items[i])]
  BY <1>1 DEF Said
<1>3. \A it \in Item : e(it) \in Token
  BY TokensAre
<1>. HIDE DEF e, s
<1>4. s \in Seq(Token) /\ Len(s) = m /\ \A i \in 1 .. m : s[i] = e(items[i])
  BY <1>1, <1>2, <1>3
<1>5. items = <<>> => s = <<>>
  BY <1>4
<1>6. ASSUME items # <<>> PROVE s # <<>> /\ Tail(s) = t /\ Head(s) = e(Head(items))
  <2>1. 1 \in 1 .. m /\ m - 1 \in Nat /\ s # <<>>
    BY <1>1, <1>4, <1>6
  <2>2. Head(s) = e(Head(items))
    BY <1>4, <1>6, <2>1
  <2>3. /\ Tail(items) \in Seq(Item) /\ DOMAIN Tail(items) = 1 .. m - 1
        /\ \A i \in 1 .. m - 1 : Tail(items)[i] = items[i+1]
    BY <1>6, <2>1
  <2>4. t = [i \in 1 .. m - 1 |-> e(Tail(items)[i])]
    BY <2>3 DEF Said, e
  <2>5. /\ Tail(s) \in Seq(Token) /\ Len(Tail(s)) = m - 1
        /\ \A i \in 1 .. m - 1 : Tail(s)[i] = s[i+1]
    BY <1>4, <2>1
  <2>6. ASSUME NEW i \in 1 .. m - 1 PROVE Tail(s)[i] = e(Tail(items)[i])
    <3>1. i + 1 \in 1 .. m
      BY <1>1
    <3>. QED
      BY <1>4, <2>3, <2>5, <3>1
  <2>7. Tail(s) = [i \in 1 .. m - 1 |-> Tail(s)[i]]
    <3>. DEFINE u == Tail(s)
    <3>1. u \in Seq(Token) /\ Len(u) = m - 1
      BY <2>5
    <3>. HIDE DEF u
    <3>2. u = [i \in 1 .. m - 1 |-> u[i]]
      BY <3>1
    <3>. QED
      BY <3>2 DEF u
  <2>8. Tail(s) = t
    BY <2>4, <2>6, <2>7
  <2>. QED
    BY <2>1, <2>2, <2>8
<1>. QED
  BY <1>4, <1>5, <1>6 DEF s, e

InReplace ==
  /\ TypeOK /\ TagsOK /\ ExpansionOK
  /\ ~failed /\ phase = "replace" /\ Expansion.status # "unknown"

LEMMA InReplaceFacts ==
  ASSUME InReplace
  PROVE  /\ ResultsOK /\ functions = <<>> /\ fs = <<>>
         /\ \A i \in Tags : Shows(deferred_functions[i])
         /\ Expansion.status = "on" /\ Expansion.n = count /\ Expansion.toks = Reached.toks
         /\ EvalType /\ OutType /\ DeferType
BY DEF InReplace, ExpansionOK, TypeOK

\* The deferred functions go on.
LEMMA ReplaceStep ==
  ASSUME InReplace, ResultsOK',
         UNCHANGED <<content, phase, failed, count, output_contents, deferred_functions,
                     functions, fs>>
  PROVE  ExpansionOK'
<1>1. Expansion' = Expansion
  BY SameExpansion
<1>2. Reached'.toks = Reached.toks
  BY ReachedToks DEF InReplace
<1>. QED
  BY <1>1, <1>2, InReplaceFacts DEF ExpansionOK, InReplace, Tags

\* A deferred function produces text or the value of count.
LEMMA ReplaceSay ==
  ASSUME InReplace, stack # <<>>, top.items # <<>>, stack' = Advanced,
         NEW tok, tok = IF next_item.op = "text" THEN text ELSE value(count), Yield(<<tok>>),
         UNCHANGED <<phase, count, deferred_functions, visited, ntags>>
  PROVE  ResultsOK' /\ UNCHANGED output_contents
<1>. DEFINE id    == Last(visited)
            items == top.items
<1>1. /\ EvalType /\ DeferType /\ ResultsOK /\ count \in Nat /\ Len(stack) = 1 /\ top.kind = "fun"
      /\ Says(items) /\ visited # <<>>
  BY InReplaceFacts DEF ResultsOK, EvalType, InReplace, TypeOK
<1>2. /\ items \in Seq(Item) /\ items # <<>> /\ top \in FrameRecord /\ next_item = Head(items)
      /\ Tail(items) \in Seq(Item)
  BY <1>1, TopFacts DEF FrameRecord, next_item
<1>3. results' = [results EXCEPT ![id] = @ \o <<tok>>] /\ UNCHANGED output_contents
  BY DEF Yield, InReplace
<1>4. id \in ToSet(visited) /\ id \in DOMAIN results /\ results[id] \in Seq(Token)
  <2>1. Len(visited) \in DOMAIN visited
    BY <1>1 DEF DeferType
  <2>. QED
    BY <1>1, <2>1 DEF DeferType, ToSet, Last
<1>5. stack' # <<>> /\ Len(stack') = 1 /\ top'.kind = "fun" /\ top'.items = Tail(items)
  <2>1. /\ Advanced \in Seq(FrameRecord) /\ Len(Advanced) = 1
        /\ Advanced[1] = [top EXCEPT !.items = Tail(items)]
    BY <1>1, <1>2, AdvancedFacts
  <2>2. top' = [top EXCEPT !.items = Tail(items)]
    BY <2>1 DEF top, Last
  <2>. QED
    BY <1>1, <1>2, <2>1, <2>2 DEF FrameRecord
<1>6. Says(Tail(items))
  <2>1. \A i \in DOMAIN Tail(items) : i + 1 \in DOMAIN items /\ Tail(items)[i] = items[i+1]
    BY <1>2
  <2>. QED
    BY <1>1, <2>1 DEF Says
<1>7. (results[id] \o <<tok>>) \o Said(Tail(items), count) = results[id] \o Said(items, count)
  <2>. DEFINE a == results[id]
              b == Said(items, count)
  <2>1. b \in Seq(Token) /\ b # <<>> /\ Tail(b) = Said(Tail(items), count) /\ Head(b) = tok
    BY <1>1, <1>2, SaidFacts
  <2>2. a \in Seq(Token) /\ tok \in Token
    BY <1>1, <1>4, TokensAre
  <2>. HIDE DEF a, b
  <2>3. Append(a, tok) = a \o <<tok>>
    BY <2>2
  <2>4. Append(a, Head(b)) \o Tail(b) = a \o b
    BY <2>1, <2>2, MoveHead
  <2>. QED
    BY <2>1, <2>3, <2>4 DEF a, b
<1>8. ResultOK(id, items)
  BY <1>1, <1>4 DEF ResultsOK
<1>. HIDE DEF items
<1>9. ASSUME NEW i \in ToSet(visited)
      PROVE  IF i = id THEN results'[i] \o Said(Tail(items), count)
                              = Said(Body[deferred_functions[i]], count)
             ELSE results'[i] = Said(Body[deferred_functions[i]], count)
  <2>1. CASE i = id
    BY <1>3, <1>4, <1>7, <1>8, <2>1 DEF ResultOK
  <2>2. CASE i # id
    <3>1. results'[i] = results[i]
      BY <1>1, <1>3, <2>2 DEF DeferType
    <3>. QED
      BY <1>1, <2>2, <3>1 DEF ResultsOK
  <2>. QED
    BY <2>1, <2>2
<1>. HIDE DEF id
<1>10. id' = id
  BY DEF id
<1>11. \A i \in ToSet(visited)' : IF i = Last(visited') THEN ResultOK(i, top.items)'
                                  ELSE results'[i] = Said(Body[deferred_functions'[i]], count')
  BY <1>5, <1>9 DEF ResultOK, id
<1>. QED
  BY <1>1, <1>3, <1>5, <1>6, <1>11 DEF ResultsOK

\* Nothing else is called by a deferred function.
LEMMA ReplaceItem ==
  ASSUME InReplace, stack # <<>>, top.items # <<>>
  PROVE  /\ next_item.op \in {"text", "show"}
         /\ Active(next_item) <=> next_item.op # "text"
<1>1. ResultsOK /\ EvalType
  BY InReplaceFacts
<1>2. top.kind = "fun" /\ Says(top.items)
  BY <1>1 DEF ResultsOK
<1>3. /\ next_item.op \in {"text", "show"}
      /\ next_item.op # "text" => next_item.char = NoChar
  BY <1>1, <1>2, TopFacts DEF Says
<1>. QED
  BY <1>2, <1>3 DEF Active

LEMMA ReplaceEvaluate == ASSUME InReplace, Evaluate, UNCHANGED content PROVE ExpansionOK'
<1>1. ResultsOK /\ stack # <<>> /\ EvalType /\ DeferType
  BY InReplaceFacts, EvaluateEffects DEF Effects, InReplace
<1>2. /\ top.kind = "fun" /\ Len(stack) = 1 /\ Says(top.items)
  BY <1>1 DEF ResultsOK
<1>3. top.items # <<>> => /\ next_item.op \in {"text", "show"}
                          /\ Active(next_item) <=> next_item.op # "text"
  BY <1>1, ReplaceItem
<1>4. CASE Text
  <2>. DEFINE tok == IF next_item.op = "text" THEN text ELSE raw(next_item)
  <2>1. /\ top.items # <<>> /\ ~Active(next_item) /\ stack' = Advanced /\ Yield(<<tok>>)
        /\ UNCHANGED <<phase, failed, count, deferred_functions, visited, ntags, functions, fs>>
    BY <1>4 DEF Text, AtexitState
  <2>2. tok = IF next_item.op = "text" THEN text ELSE value(count)
    BY <1>3, <2>1
  <2>. HIDE DEF tok
  <2>3. ResultsOK' /\ UNCHANGED output_contents
    BY <1>1, <2>1, <2>2, ReplaceSay
  <2>. QED
    BY <2>1, <2>3, ReplaceStep
<1>5. CASE Show
  <2>. DEFINE tok == value(count)
  <2>1. /\ top.items # <<>> /\ next_item.op = "show" /\ stack' = Advanced /\ Yield(<<tok>>)
        /\ UNCHANGED <<phase, failed, count, deferred_functions, visited, ntags, functions, fs>>
    BY <1>5 DEF Show, Evaluating, AtexitState
  <2>2. tok = IF next_item.op = "text" THEN text ELSE value(count)
    BY <2>1
  <2>. HIDE DEF tok
  <2>3. ResultsOK' /\ UNCHANGED output_contents
    BY <1>1, <2>1, <2>2, ReplaceSay
  <2>. QED
    BY <2>1, <2>3, ReplaceStep
<1>6. CASE Leave
  <2>1. /\ top.items = <<>> /\ stack' = Front(stack)
        /\ UNCHANGED <<phase, failed, count, deferred_functions, visited, ntags, functions, fs,
                       results, output_contents>>
    BY <1>6 DEF Leave, DeferState, AtexitState, OutState
  <2>2. stack' = <<>>
    <3>1. Front(stack) \in Seq(FrameRecord) /\ Len(Front(stack)) = 0
      BY <1>1, <1>2, FrontFacts DEF EvalType
    <3>. QED
      BY <2>1, <3>1
  <2>3. ASSUME NEW id \in ToSet(visited)
        PROVE  results[id] = Said(Body[deferred_functions[id]], count)
    <3>1. CASE id = Last(visited)
      <4>1. ResultOK(id, top.items) /\ results[id] \in Seq(Token)
        BY <1>1, <3>1 DEF ResultsOK, DeferType
      <4>2. Said(top.items, count) = <<>> /\ results[id] \o <<>> = results[id]
        <5>1. Said(top.items, count) = <<>>
          <6>1. top.items \in Seq(Item) /\ count \in Nat
            BY <1>1, TopFacts DEF FrameRecord, EvalType
          <6>. QED
            BY <2>1, <6>1, SaidFacts
        <5>. QED
          BY <4>1, <5>1, ConcatEmptySeq
      <4>. QED
        BY <4>1, <4>2 DEF ResultOK
    <3>2. CASE id # Last(visited)
      BY <1>1, <3>2 DEF ResultsOK
    <3>. QED
      BY <3>1, <3>2
  <2>4. ResultsOK'
    BY <1>1, <2>1, <2>2, <2>3 DEF ResultsOK
  <2>. QED
    BY <2>1, <2>4, ReplaceStep
<1>7. CASE \/ Count \/ Include \/ Preprocess \/ Read \/ Macro \/ Defer \/ Atexit \/ OpenFile
           \/ Put \/ PutBoolean \/ PutDefer \/ Error
  <2>1. /\ top.items # <<>>
        /\ next_item.op \in {"count", "include", "ypp", "read", "macro", "defer", "atexit",
                             "file", "put", "putbool", "putdefer", "error"}
    BY <1>7 DEF Count, Include, Preprocess, Read, Macro, Defer, Atexit, OpenFile, Put,
                PutBoolean, PutDefer, Error, Evaluating
  <2>. QED
    BY <1>3, <2>1
<1>. QED
  BY <1>4, <1>5, <1>6, <1>7 DEF Evaluate

\* A deferred function is called.
LEMMA ReplaceCall ==
  ASSUME InReplace, NEW id \in Tags, CallDeferred(id), UNCHANGED content
  PROVE  ExpansionOK'
<1>. DEFINE fn == deferred_functions[id]
<1>1. /\ stack = <<>> /\ visited' = Append(visited, id)
      /\ results' = [i \in DOMAIN results \cup {id} |-> IF i = id THEN <<>> ELSE results[i]]
      /\ stack' = <<Frame("fun", Body[fn])>>
      /\ UNCHANGED <<phase, failed, count, output_contents, deferred_functions, ntags,
                     functions, fs>>
  BY DEF CallDeferred, Idle, OutState, AtexitState
<1>2. ResultsOK /\ DeferType /\ count \in Nat /\ Shows(fn)
  BY InReplaceFacts DEF EvalType
<1>3. fn \in Fn /\ Body[fn] \in Seq(Item)
  BY <1>2, Bodies DEF DeferType, Tags
<1>4. Says(Body[fn])
  BY <1>2, <1>3, ItemAssumption DEF Shows, Says
<1>5. top'.kind = "fun" /\ top'.items = Body[fn] /\ Len(stack') = 1 /\ stack' # <<>>
  BY <1>1 DEF top, Last, Frame
<1>6. Last(visited') = id /\ ToSet(visited') = ToSet(visited) \cup {id}
  <2>1. visited \in Seq(Nat) /\ id \in Nat
    BY <1>2 DEF DeferType, Tags
  <2>2. Last(visited') = id
    BY <1>1, <2>1 DEF Last
  <2>. QED
    BY <1>2, <2>2, VisitFacts
<1>. HIDE DEF fn
<1>7. ASSUME NEW i \in ToSet(visited')
      PROVE  IF i = id THEN results'[i] \o Said(Body[fn], count)
                              = Said(Body[deferred_functions[i]], count)
             ELSE results'[i] = Said(Body[deferred_functions[i]], count)
  <2>1. CASE i = id
    <3>1. Said(Body[fn], count) \in Seq(Token)
      BY <1>2, <1>3, SaidFacts
    <3>2. <<>> \o Said(Body[fn], count) = Said(Body[fn], count)
      BY <3>1, ConcatEmptySeq
    <3>. QED
      BY <1>1, <2>1, <3>2 DEF fn
  <2>2. CASE i # id
    <3>1. i \in ToSet(visited) /\ results'[i] = results[i]
      BY <1>1, <1>2, <1>6, <2>2 DEF DeferType
    <3>. QED
      BY <1>1, <1>2, <2>2, <3>1 DEF ResultsOK
  <2>. QED
    BY <2>1, <2>2
<1>8. ResultsOK'
  BY <1>1, <1>2, <1>4, <1>5, <1>6, <1>7 DEF ResultsOK, ResultOK
<1>. QED
  BY <1>1, <1>8, ReplaceStep

\* All of them have been called: the output is written.
LEMMA ReplaceWrite == ASSUME InReplace, WriteMain, UNCHANGED content PROVE ExpansionOK'
<1>. DEFINE output == output_contents
            all == [i \in DOMAIN output |-> Replaced(output[i])]
            fin == [i \in DOMAIN Expansion.toks |-> Final(Expansion.toks[i], count)]
<1>0. \A tok \in ToSet(output) :
        tok.kind = "tag" => Returns[deferred_functions[tok.id]] = "text"
  BY InReplaceFacts DEF InReplace, TagsOK, ToSet, Shows
<1>1. /\ stack = <<>> /\ phase' = "save" /\ main'.content = FlattenSeq(all)
      /\ Tags \subseteq ToSet(visited) \/ Len(deferred_functions) > ntags
      /\ UNCHANGED <<failed, stack, count, output_contents, deferred_functions, functions, fs>>
  <2>1. ~ \E tok \in ToSet(output) : Gives(tok, {"other"})
    BY <1>0 DEF Gives
  <2>. QED
    BY <2>1 DEF WriteMain, Idle, Enter, EvalState, OutState, DeferState, AtexitState
<1>2. /\ Len(deferred_functions) = ntags /\ ntags \in Nat /\ DeferType /\ output \in Seq(Token)
      /\ \A id \in ToSet(visited) : results[id] = Said(Body[deferred_functions[id]], count)
  BY <1>1, InReplaceFacts DEF ResultsOK, DeferType, OutType
<1>3. Tags \subseteq ToSet(visited)
  BY <1>1, <1>2
<1>4. Expansion.toks = [i \in DOMAIN output |-> PartOf(deferred_functions, output[i])]
  BY InReplaceFacts DEF Reached
<1>5. ASSUME NEW i \in DOMAIN output
      PROVE  Replaced(output[i]) = Final(PartOf(deferred_functions, output[i]), count)
  <2>1. output[i] \in Token
    BY <1>2
  <2>2. CASE output[i].kind = "tag"
    <3>1. output[i].id \in ToSet(visited)
      BY <1>3, <2>2 DEF InReplace, TagsOK
    <3>2. Gives(output[i], {"text"})
      BY <1>0, <1>2, <2>2, <3>1 DEF Gives, DeferType, ToSet
    <3>3. Replaced(output[i]) = Said(Body[deferred_functions[output[i].id]], count)
      BY <1>2, <3>1, <3>2 DEF Replaced
    <3>. QED
      BY <2>2, <3>3 DEF PartOf, Final, later
  <2>3. CASE output[i].kind # "tag"
    <3>1. output[i].kind # "later"
      BY <2>1 DEF Token
    <3>. QED
      BY <2>3, <3>1 DEF PartOf, Final, Replaced, Gives
  <2>. QED
    BY <2>2, <2>3
<1>6. all = fin
  <2>1. DOMAIN Expansion.toks = DOMAIN output
        /\ \A i \in DOMAIN output : Expansion.toks[i] = PartOf(deferred_functions, output[i])
    BY <1>4
  <2>. QED
    BY <1>5, <2>1
<1>7. main'.content = FinalContent
  BY <1>1, <1>6 DEF FinalContent
<1>8. Expansion' = Expansion
  BY SameExpansion
<1>9. FinalContent' = FinalContent
  BY <1>1, <1>8 DEF FinalContent
<1>10. Reached'.toks = Reached.toks
  BY <1>1, ReachedToks DEF InReplace
<1>. QED
  BY <1>1, <1>7, <1>8, <1>9, <1>10, InReplaceFacts DEF ExpansionOK, InReplace, Tags
-----------------------------------------------------------------------------
(* The other steps. *)

\* A step of the main program after the files leaves what has been produced.
LEMMA LaterStep ==
  ASSUME TypeOK, TagsOK, ExpansionOK, ~failed, Expansion.status # "unknown",
         phase # "files", phase' \notin {"files", "replace"} \/ ResultsOK',
         phase' # "files", stack' = <<>>,
         phase' \in {"save", "done"} => main'.content = FinalContent,
         UNCHANGED <<content, failed, count, output_contents, deferred_functions, functions, fs>>
  PROVE  ExpansionOK'
<1>1. Expansion' = Expansion
  BY SameExpansion
<1>2. Reached'.toks = Reached.toks
  BY ReachedToks
<1>3. FinalContent' = FinalContent
  BY <1>1 DEF FinalContent
<1>. QED
  BY <1>1, <1>2, <1>3 DEF ExpansionOK, Tags

\* As long as the expansion is known, nothing is put in the files created with
\* file, which can be saved.
NothingPut ==
  Expansion.status # "unknown" /\ ~failed => \A f \in ToSet(files) : f.content = <<>>

LEMMA PutStep ==
  ASSUME TypeOK, TagsOK, ConfigurationsMatch, ExpansionOK, NothingPut, Evaluate \/ Main,
         UNCHANGED content
  PROVE  NothingPut'
<1>. SUFFICES ASSUME Expansion.status # "unknown" PROVE \A f \in ToSet(files') : f.content = <<>>
  BY SameExpansion DEF NothingPut
<1>1. ~failed
  BY DEF Evaluate, Text, Count, Show, Include, Preprocess, Read, Macro, Defer, Atexit, OpenFile,
         Put, PutBoolean, PutDefer, Error, Leave, Evaluating, Running, Main, ProcessFile,
         EndOfFiles, AtexitRound, AtexitCall, EndOfAtexit, WriteDepFile, CallDeferred,
         WriteMain, SaveFile, Finish, Idle
<1>2. files \in Seq(FileRecord) /\ \A f \in ToSet(files) : f.content = <<>>
  BY <1>1 DEF NothingPut, TypeOK, DiskType
<1>3. CASE Put \/ PutBoolean \/ PutDefer
  <2>1. /\ stack # <<>> /\ top.items # <<>>
        /\ next_item.op \in {"put", "putbool", "putdefer"}
    BY <1>3 DEF Put, PutBoolean, PutDefer, Evaluating, Running
  <2>2. phase \in {"files", "replace"}
    BY <1>1, <2>1 DEF ExpansionOK
  <2>3. CASE phase = "files"
    BY <1>1, <1>3, <2>3, ExpOthers DEF InFiles
  <2>4. CASE phase = "replace"
    BY <1>1, <2>1, <2>4, ReplaceItem DEF InReplace
  <2>. QED
    BY <2>2, <2>3, <2>4
<1>4. CASE OpenFile
  <2>. DEFINE f == [name |-> next_item.name, content |-> <<>>]
  <2>1. files' = Append(files, f)
    BY <1>4 DEF OpenFile
  <2>2. ToSet(files') = ToSet(files) \cup {f}
    BY <1>2, <2>1 DEF ToSet
  <2>. QED
    BY <1>2, <2>2
<1>5. CASE SaveFile /\ ~Fail
  <2>1. files # <<>> /\ files' = Tail(files)
    BY <1>5 DEF SaveFile
  <2>2. \A i \in DOMAIN Tail(files) : i + 1 \in DOMAIN files /\ Tail(files)[i] = files[i+1]
    BY <1>2, <2>1
  <2>. QED
    BY <1>2, <2>1, <2>2 DEF ToSet
<1>6. CASE UNCHANGED files
  BY <1>2, <1>6
<1>7. CASE \/ Text \/ Count \/ Show \/ Include \/ Preprocess \/ Read \/ Macro \/ Defer
           \/ Atexit \/ Error \/ Leave
  <2>1. UNCHANGED files
    BY <1>7 DEF Text, Count, Show, Include, Preprocess, Read, Macro, Defer, Atexit, Error,
                Leave, Fail
  <2>. QED
    BY <1>6, <2>1
<1>8. CASE \/ ProcessFile \/ EndOfFiles \/ AtexitRound \/ AtexitCall \/ EndOfAtexit
           \/ WriteDepFile \/ (\E id \in Tags : CallDeferred(id)) \/ WriteMain \/ Finish \/ Fail
  <2>1. UNCHANGED files
    BY <1>8 DEF ProcessFile, EndOfFiles, AtexitRound, AtexitCall, EndOfAtexit, WriteDepFile,
                CallDeferred, WriteMain, Finish, Fail
  <2>. QED
    BY <1>6, <2>1
<1>. QED
  BY <1>3, <1>4, <1>5, <1>7, <1>8 DEF Evaluate, Main

LEMMA ExpMain ==
  ASSUME TypeOK, TagsOK, ConfigurationsMatch, ExpansionOK, NothingPut,
         Expansion.status # "unknown", Main, UNCHANGED content
  PROVE  ExpansionOK'
<1>1. CASE ProcessFile \/ EndOfFiles
  <2>1. InFiles
    BY <1>1 DEF InFiles, ProcessFile, EndOfFiles, Idle
  <2>. QED
    BY <1>1, <2>1, ExpProcessFile, ExpEndOfFiles
<1>2. CASE AtexitRound \/ AtexitCall
  BY <1>2 DEF AtexitRound, AtexitCall, Idle, ExpansionOK
<1>3. CASE (\E id \in Tags : CallDeferred(id)) \/ WriteMain
  <2>1. InReplace
    BY <1>3 DEF InReplace, CallDeferred, WriteMain, Idle
  <2>. QED
    BY <1>3, <2>1, ReplaceCall, ReplaceWrite
<1>4. CASE EndOfAtexit
  <2>1. /\ ~failed /\ phase = "atexit" /\ phase' = "dep" /\ stack' = <<>>
        /\ UNCHANGED <<failed, count, output_contents, deferred_functions, functions, fs>>
    BY <1>4 DEF EndOfAtexit, Idle, Enter, EvalState, OutState, DeferState, AtexitState
  <2>. QED
    BY <2>1, LaterStep
<1>5. CASE WriteDepFile
  <2>1. /\ ~failed /\ phase = "dep" /\ phase' = "replace" /\ stack' = <<>>
        /\ ntags' = Len(deferred_functions)
        /\ UNCHANGED <<failed, count, output_contents, deferred_functions, visited, functions, fs>>
    BY <1>5 DEF WriteDepFile, Idle, Enter, EvalState, OutState, AtexitState
  <2>2. visited' = <<>>
    BY <2>1 DEF TagsOK
  <2>3. ResultsOK'
    BY <2>1, <2>2 DEF ResultsOK, ToSet
  <2>. QED
    BY <2>1, <2>3, LaterStep
<1>6. CASE SaveFile \/ Finish
  <2>0. SaveFile => ~Fail
    <3>1. ASSUME SaveFile PROVE Concatenable(Head(files).content)
      <4>1. files # <<>> /\ ~failed /\ files \in Seq(FileRecord)
        BY <3>1 DEF SaveFile, Idle, TypeOK, DiskType
      <4>2. Head(files) \in ToSet(files)
        BY <4>1 DEF ToSet
      <4>. QED
        BY <4>1, <4>2 DEF NothingPut, Concatenable, ToSet
    <3>. QED
      BY <3>1 DEF SaveFile, Fail, Idle
  <2>1. /\ ~failed /\ phase = "save" /\ phase' \in {"save", "done"} /\ stack' = <<>>
        /\ main' = main
        /\ UNCHANGED <<failed, count, output_contents, deferred_functions, functions, fs>>
    BY <1>6, <2>0 DEF SaveFile, Finish, Idle, Enter, EvalState, OutState, DeferState,
                      AtexitState, DiskState
  <2>2. main.content = FinalContent
    BY <2>1 DEF ExpansionOK
  <2>. QED
    BY <2>1, <2>2, LaterStep
<1>. QED
  BY <1>1, <1>2, <1>3, <1>4, <1>5, <1>6 DEF Main

LEMMA ExpEvaluate ==
  ASSUME TypeOK, TagsOK, ConfigurationsMatch, ExpansionOK, Expansion.status # "unknown",
         Evaluate, UNCHANGED content
  PROVE  ExpansionOK'
<1>1. ~failed /\ stack # <<>>
  BY DEF Evaluate, Text, Count, Show, Include, Preprocess, Read, Macro, Defer, Atexit, OpenFile,
         Put, PutBoolean, PutDefer, Error, Leave, Evaluating, Running
<1>2. phase \in {"files", "replace"}
  BY <1>1 DEF ExpansionOK
<1>3. CASE phase = "files"
  BY <1>1, <1>3, ExpFilesEvaluate DEF InFiles
<1>4. CASE phase = "replace"
  BY <1>1, <1>4, ReplaceEvaluate DEF InReplace
<1>. QED
  BY <1>2, <1>3, <1>4

LEMMA ExpInit == ASSUME Init PROVE ExpansionOK
<1>. DEFINE r == [k \in 0 .. 0 |-> Reached]
            p == [k \in 0 .. 0 |-> 0]
<1>1. TypeOK /\ TagsOK
  BY InitIInv DEF IInv
<1>2. /\ phase = "files" /\ failed = FALSE /\ index = 0 /\ stack = <<>> /\ lconf = <<>>
      /\ count = 0 /\ output_contents = <<>> /\ deferred_functions = <<>>
      /\ functions = <<>> /\ fs = <<>>
  BY DEF Init
<1>3. Reached \in Stage
  BY <1>1, ReachedIn
<1>4. Reached = StartStage
  BY <1>2 DEF Reached, StartStage, CharAt
<1>5. /\ r \in [0 .. 0 -> Stage] /\ r[0] = Reached /\ p \in [0 .. 0 -> 0 .. 0] /\ p[0] = 0
      /\ \A i, j \in 0 .. 0 : p[i] <= p[j]
  BY <1>3
<1>6. Len(stack) = 0 /\ Len(lconf) = 0 /\ 0 <= MaxDepth
  BY <1>2, DepthAssumption
<1>. HIDE DEF r, p
<1>7. Nested(Inside(content), stack, lconf, r, p, Reached)
  BY <1>5, <1>6 DEF Nested
<1>8. Progress(stack, lconf, Reached)
  <2>1. Leads(Inside(content), stack, lconf, Reached, Reached)
    BY <1>5, <1>7 DEF Leads
  <2>2. Expansion = Expanded(Inside(content)[MaxDepth], Reached, Inputs(index))
    BY <1>2, <1>4 DEF Expansion
  <2>. QED
    BY <1>3, <2>1, <2>2 DEF Progress
<1>. QED
  BY <1>2, <1>8 DEF ExpansionOK, Tags

LEMMA NothingPutStep == IInv /\ ExpansionOK /\ NothingPut /\ [Next]_vars => NothingPut'
<1>. SUFFICES ASSUME IInv, ExpansionOK, NothingPut, [Next]_vars PROVE NothingPut'
  OBVIOUS
<1>1. CASE (Evaluate \/ Main) /\ UNCHANGED content
  BY <1>1, ConfigurationsFacts, PutStep DEF IInv
<1>2. CASE UNCHANGED vars
  <2>1. UNCHANGED <<content, files, failed>>
    BY <1>2 DEF vars
  <2>. QED
    BY <2>1, SameExpansion DEF NothingPut
<1>. QED
  BY <1>1, <1>2 DEF Next, Exited

LEMMA ExpStep == IInv /\ ExpansionOK /\ NothingPut /\ [Next]_vars => ExpansionOK'
<1>. SUFFICES ASSUME IInv, ExpansionOK, NothingPut, [Next]_vars PROVE ExpansionOK'
  OBVIOUS
<1>1. TypeOK /\ TagsOK /\ ConfigurationsMatch
  BY ConfigurationsFacts DEF IInv
<1>2. UNCHANGED content
  BY DEF Next, Exited, vars
<1>3. CASE Expansion.status = "unknown"
  BY <1>2, <1>3, SameExpansion DEF ExpansionOK
<1>4. CASE Expansion.status # "unknown" /\ Evaluate
  BY <1>1, <1>2, <1>4, ExpEvaluate
<1>5. CASE Expansion.status # "unknown" /\ Main
  BY <1>1, <1>2, <1>5, ExpMain
<1>6. CASE UNCHANGED vars
  <2>1. /\ UNCHANGED <<content, phase, failed, index, EvalState, OutState, DeferState>>
        /\ UNCHANGED <<AtexitState, main>>
    BY <1>6 DEF vars, DiskState
  <2>2. Expansion' = Expansion /\ Inside(content)' = Inside(content)
    BY <1>2, SameExpansion
  <2>3. Reached' = Reached
    BY <2>1 DEF Reached, EvalState, OutState, DeferState
  <2>4. Progress(stack, lconf, Reached)' <=> Progress(stack, lconf, Reached)
    BY <2>1, <2>2, <2>3 DEF Progress, EvalState
  <2>5. ResultsOK' <=> ResultsOK
    BY <2>1 DEF ResultsOK, ResultOK, EvalState, DeferState, top
  <2>6. FinalContent' = FinalContent
    BY <2>1, <2>2 DEF FinalContent, EvalState
  <2>. QED
    BY <2>1, <2>2, <2>3, <2>4, <2>5, <2>6
    DEF ExpansionOK, EvalState, OutState, DeferState, AtexitState, Tags
<1>. QED
  BY <1>3, <1>4, <1>5, <1>6 DEF Next, Exited

\* The main output is the expansion of the input files: the stacks of ypp
\* (ypp.lua, lconf and process) give each file a macro character of its
\* own and each string the one of its caller, every expression is evaluated
\* once in the order of the text, and each tag becomes what its function says
\* at the end of the files (defer.lua, replace).
THEOREM OutputIsTheExpansion == Spec => []OutputIsExpansion
<1>1. IInv /\ ExpansionOK => OutputIsExpansion
  <2>. SUFFICES ASSUME IInv, ExpansionOK, failed \/ phase = "done", Expansion.status # "unknown"
                PROVE  /\ Expansion.status = IF failed THEN "failed" ELSE "on"
                       /\ ~failed => main.content =
                            FlattenSeq([i \in DOMAIN Expansion.toks |->
                                          Final(Expansion.toks[i], Expansion.n)])
    BY DEF OutputIsExpansion
  <2>. QED
    BY DEF ExpansionOK, FinalContent
<1>2. Init => ExpansionOK
  BY ExpInit
<1>3. Init => NothingPut
  BY DEF Init, NothingPut, ToSet
<1>. QED
  BY <1>1, <1>2, <1>3, InitIInv, Invariance, ExpStep, NothingPutStep, PTL DEF Spec

-----------------------------------------------------------------------------
(* The cache of images.                                                      *)
(*                                                                           *)
(* Two arguments, one for each kind of image.  An image with one source may  *)
(* be shared: once it exists it is the image of its source, or some process  *)
(* is rendering it.  An image with several sources belongs to one process:   *)
(* between two renderings it agrees with its meta file.                      *)



ImagesTyped ==
  /\ meta \in [Image -> Source \cup {NoFile, Empty}]
  /\ image \in [Image -> Source \cup {NoFile, Partial}]
  /\ pc \in [Proc -> Location]
  /\ source \in [Proc -> Source]
  /\ old_meta \in [Proc -> Source \cup {Empty}]
  /\ killed \subseteq Image

\* A process renders what its document asks for.
RendersDocument ==
  \A p \in Proc : pc[p] # "idle" => source[p] \in Document[p]

\* No document asks for another source with the image of s.
Alone(s) ==
  \A p \in Proc : \A t \in Document[p] : ImageOf[t] = ImageOf[s] => t = s

Rendering(p, s) == pc[p] = "wait" /\ source[p] = s

\* An image with one source is missing, or what its rendering leaves, or being
\* rendered.
SharedOK(s) ==
  LET shown == image[ImageOf[s]] IN
  /\ shown \in {NoFile, Partial, Shown(s)}
  /\ shown # NoFile /\ shown # Shown(s) => \E p \in Proc : Rendering(p, s)
  /\ \A p \in Proc : pc[p] = "done" /\ source[p] = s => shown # NoFile

\* Only process p has sources with image i, all of which can be rendered.
Private(p, i) ==
  /\ \A q \in Proc \ {p} : \A t \in Document[q] : ImageOf[t] # i
  /\ \A t \in Document[p] : ImageOf[t] = i => t \notin Broken

\* p is at one of these locations with image i.
At(p, i, locations) == pc[p] \in locations /\ out(p) = i

\* An image with several sources agrees with its meta file, unless this one is
\* empty or the image is being rendered.
PrivateOK(p, i) ==
  /\ \/ At(p, i, {"call", "wait"})
     \/ image[i] = NoFile
     \/ meta[i] \in {image[i], Empty}
  /\ At(p, i, {"check"}) =>
       old_meta[p] = IF meta[i] = NoFile THEN Empty ELSE meta[i]
  /\ At(p, i, {"call", "wait"}) => meta[i] = source[p]
  /\ At(p, i, {"done"}) => image[i] = source[p]

ImageIInv ==
  /\ ImagesTyped
  /\ RendersDocument
  /\ \A s \in Source : Alone(s) /\ ImageOf[s] \notin killed => SharedOK(s)
  /\ \A p \in Proc, i \in Image : Private(p, i) /\ i \notin killed => PrivateOK(p, i)

-----------------------------------------------------------------------------

Step(p) == Render(p) \/ Kill(p) \/ \E s \in Document[p] : Start(p, s)

LEMMA ImageTypeStep ==
  ASSUME ImagesTyped, NEW p \in Proc, Step(p)
  PROVE  ImagesTyped'
<1>1. out(p) \in Image /\ source[p] \in Source
  BY ImageAssumption DEF ImagesTyped, out
<1>2. ASSUME Render(p) PROVE ImagesTyped'
  <2>1. CASE ReadMeta(p)
    BY <1>1, <2>1 DEF ReadMeta, ImagesTyped, Goto, Location
  <2>2. CASE Check(p)
    BY <1>1, <2>2 DEF Check, ImagesTyped, Goto, Location
  <2>3. CASE TruncateMeta(p)
    BY <1>1, <2>3 DEF TruncateMeta, ImagesTyped, Goto, Location
  <2>4. CASE WriteMeta(p)
    BY <1>1, <2>4 DEF WriteMeta, ImagesTyped, Goto, Location
  <2>5. CASE OpenImage(p)
    BY <1>1, <2>5 DEF OpenImage, ImagesTyped, Goto, Location
  <2>6. CASE CloseImage(p)
    BY <1>1, <2>6 DEF CloseImage, ImagesTyped, Goto, Location
  <2>7. CASE DiagramError(p)
    BY <1>1, <2>7 DEF DiagramError, ImagesTyped, Goto, Location
  <2>. QED
    BY <1>2, <2>1, <2>2, <2>3, <2>4, <2>5, <2>6, <2>7 DEF Render
<1>3. ASSUME Kill(p) PROVE ImagesTyped'
  BY <1>1, <1>3 DEF Kill, ImagesTyped, Goto, Location
<1>4. ASSUME NEW s \in Document[p], Start(p, s) PROVE ImagesTyped'
  <2>1. s \in Source
    BY ImageAssumption
  <2>. QED
    BY <1>4, <2>1 DEF Start, ImagesTyped, Goto, Location
<1>. QED
  BY <1>2, <1>3, <1>4 DEF Step

\* What a step of p leaves alone.
LEMMA OthersStep ==
  ASSUME ImagesTyped, NEW p \in Proc, Step(p)
  PROVE  /\ \A q \in Proc \ {p} : /\ pc'[q] = pc[q] /\ source'[q] = source[q]
                                  /\ old_meta'[q] = old_meta[q]
         /\ \A i \in Image \ {out(p)} : image'[i] = image[i] /\ meta'[i] = meta[i]
         /\ killed \subseteq killed'
<1>1. CASE Render(p)
  BY <1>1 DEF Render, ReadMeta, Check, TruncateMeta, WriteMeta, OpenImage,
              CloseImage, DiagramError, Goto, ImagesTyped
<1>2. CASE Kill(p)
  BY <1>2 DEF Kill, Goto, ImagesTyped
<1>3. CASE \E s \in Document[p] : Start(p, s)
  BY <1>3 DEF Start, Goto, ImagesTyped
<1>. QED
  BY <1>1, <1>2, <1>3 DEF Step

LEMMA DocumentStep ==
  ASSUME ImagesTyped, RendersDocument, NEW p \in Proc, Step(p)
  PROVE  RendersDocument'
<1>1. ASSUME NEW q \in Proc \ {p}, pc'[q] # "idle" PROVE source'[q] \in Document[q]
  BY <1>1, OthersStep DEF RendersDocument
<1>2. source'[p] \in Document[p]
  <2>1. CASE Render(p)
    BY <2>1 DEF Render, ReadMeta, Check, TruncateMeta, WriteMeta, OpenImage,
                CloseImage, DiagramError, RendersDocument
  <2>2. CASE Kill(p)
    BY <2>2 DEF Kill, RendersDocument
  <2>3. CASE \E s \in Document[p] : Start(p, s)
    BY <2>3 DEF Start, ImagesTyped
  <2>. QED
    BY <2>1, <2>2, <2>3 DEF Step
<1>. QED
  BY <1>1, <1>2 DEF RendersDocument

\* An image with one source.
LEMMA SharedStep ==
  ASSUME ImagesTyped, RendersDocument, NEW p \in Proc, Step(p),
         NEW s \in Source, ImageOf[s] \notin killed', Alone(s), SharedOK(s)
  PROVE  SharedOK(s)'
<1>. DEFINE i == ImageOf[s]
            w == Shown(s)
<1>1. i \in Image /\ out(p) \in Image /\ source[p] \in Source
  BY ImageAssumption DEF ImagesTyped, out
<1>2. pc[p] # "idle" /\ out(p) = i => source[p] = s
  BY DEF RendersDocument, Alone, out
<1>3. /\ \A q \in Proc \ {p} : pc'[q] = pc[q] /\ source'[q] = source[q]
      /\ out(p) # i => image'[i] = image[i]
  BY <1>1, OthersStep
<1>4. /\ image[i] \in {NoFile, Partial, w}
      /\ image[i] # NoFile /\ image[i] # w => \E q \in Proc : pc[q] = "wait" /\ source[q] = s
      /\ \A q \in Proc : pc[q] = "done" /\ source[q] = s => image[i] # NoFile
  BY DEF SharedOK, Rendering
<1>5. ASSUME image'[i] \in {NoFile, Partial, w},
             image'[i] # NoFile /\ image'[i] # w
               => \E q \in Proc : pc'[q] = "wait" /\ source'[q] = s,
             \A q \in Proc : pc'[q] = "done" /\ source'[q] = s => image'[i] # NoFile
      PROVE  SharedOK(s)'
  BY <1>5 DEF SharedOK, Rendering, Shown
<1>6. source[p] = s => out(p) = i
  BY DEF out
<1>7. /\ NoFile # Partial /\ NoFile # w
      /\ s \notin Broken => w = s
      /\ s \in Broken /\ s \in Early => w = Partial
  BY ImageAssumption DEF NoFile, Partial, Shown
<1>8. i \notin killed'
  OBVIOUS
<1>. HIDE DEF i, w
<1>9. CASE Render(p)
  <2>1. CASE ReadMeta(p) \/ TruncateMeta(p) \/ WriteMeta(p)
    <3>1. /\ image' = image /\ source' = source /\ pc[p] # "wait"
          /\ pc'[p] \notin {"done", "wait"}
      BY <2>1 DEF ReadMeta, TruncateMeta, WriteMeta, Goto, ImagesTyped
    <3>. QED
      BY <1>3, <1>4, <1>5, <3>1
  <2>2. CASE Check(p)
    <3>1. /\ image' = image /\ source' = source /\ pc[p] # "wait" /\ pc'[p] # "wait"
          /\ pc'[p] = "done" => image[out(p)] # NoFile
      BY <2>2 DEF Check, Goto, ImagesTyped
    <3>. QED
      BY <1>3, <1>4, <1>5, <1>6, <3>1
  <2>3. CASE OpenImage(p)
    <3>1. /\ image'[out(p)] = Partial /\ source' = source
          /\ pc[p] = "call" /\ pc'[p] = "wait"
      BY <1>1, <2>3 DEF OpenImage, Goto, ImagesTyped
    <3>2. CASE out(p) = i
      <4>1. source[p] = s /\ image'[i] = Partial
        BY <1>2, <3>1, <3>2
      <4>. QED
        BY <1>3, <1>4, <1>5, <1>7, <3>1, <4>1
    <3>3. CASE out(p) # i
      BY <1>3, <1>4, <1>5, <1>6, <3>1, <3>3
    <3>. QED
      BY <3>2, <3>3
  <2>4. CASE CloseImage(p)
    <3>1. /\ image'[out(p)] = source[p] /\ source' = source
          /\ pc[p] = "wait" /\ pc'[p] = "done" /\ source[p] \notin Broken
      BY <1>1, <2>4 DEF CloseImage, Goto, ImagesTyped
    <3>2. CASE out(p) = i
      <4>1. source[p] = s /\ image'[i] = w
        BY <1>2, <1>7, <3>1, <3>2
      <4>. QED
        BY <1>3, <1>4, <1>5, <1>7, <3>1, <4>1
    <3>3. CASE out(p) # i
      BY <1>3, <1>4, <1>5, <1>6, <3>1, <3>3
    <3>. QED
      BY <3>2, <3>3
  <2>5. CASE DiagramError(p)
    <3>1. /\ image' = image /\ source' = source /\ pc'[p] = "exited"
          /\ source[p] \in Broken /\ (pc[p] = "wait" => source[p] \in Early)
      BY <2>5 DEF DiagramError, Goto, ImagesTyped
    <3>2. CASE pc[p] = "wait" /\ source[p] = s
      <4>1. image'[i] \in {NoFile, w}
        BY <1>4, <1>7, <3>1, <3>2
      <4>. QED
        BY <1>3, <1>4, <1>5, <3>1, <4>1
    <3>3. CASE ~(pc[p] = "wait" /\ source[p] = s)
      BY <1>3, <1>4, <1>5, <3>1, <3>3
    <3>. QED
      BY <3>2, <3>3
  <2>. QED
    BY <1>9, <2>1, <2>2, <2>3, <2>4, <2>5 DEF Render
<1>10. CASE Kill(p)
  <2>1. /\ image' = image /\ source' = source /\ pc'[p] = "exited"
        /\ pc[p] = "wait" => out(p) \in killed'
    BY <1>10 DEF Kill, Goto, ImagesTyped
  <2>. QED
    BY <1>3, <1>4, <1>5, <1>6, <1>8, <2>1
<1>11. CASE \E t \in Document[p] : Start(p, t)
  <2>1. /\ image' = image /\ pc[p] # "wait" /\ pc'[p] = "read"
    BY <1>11 DEF Start, Goto, ImagesTyped
  <2>. QED
    BY <1>3, <1>4, <1>5, <2>1
<1>. QED
  BY <1>9, <1>10, <1>11 DEF Step

\* An image of one process.
LEMMA PrivateStep ==
  ASSUME ImagesTyped, RendersDocument, NEW p \in Proc, Step(p),
         NEW q \in Proc, NEW i \in Image, i \notin killed', Private(q, i), PrivateOK(q, i)
  PROVE  PrivateOK(q, i)'
<1>1. out(p) \in Image /\ source[p] \in Source
  BY ImageAssumption DEF ImagesTyped, out
<1>2. /\ \A r \in Proc \ {p} : /\ pc'[r] = pc[r] /\ source'[r] = source[r]
                               /\ old_meta'[r] = old_meta[r]
      /\ out(p) # i => image'[i] = image[i] /\ meta'[i] = meta[i]
  BY OthersStep
<1>3. /\ \/ pc[q] \in {"call", "wait"} /\ out(q) = i
         \/ image[i] = NoFile \/ meta[i] \in {image[i], Empty}
      /\ pc[q] = "check" /\ out(q) = i =>
           old_meta[q] = IF meta[i] = NoFile THEN Empty ELSE meta[i]
      /\ pc[q] \in {"call", "wait"} /\ out(q) = i => meta[i] = source[q]
      /\ pc[q] = "done" /\ out(q) = i => image[i] = source[q]
  BY DEF PrivateOK, At
<1>4. ASSUME \/ pc'[q] \in {"call", "wait"} /\ out(q)' = i
             \/ image'[i] = NoFile \/ meta'[i] \in {image'[i], Empty},
             pc'[q] = "check" /\ out(q)' = i =>
               old_meta'[q] = IF meta'[i] = NoFile THEN Empty ELSE meta'[i],
             pc'[q] \in {"call", "wait"} /\ out(q)' = i => meta'[i] = source'[q],
             pc'[q] = "done" /\ out(q)' = i => image'[i] = source'[q]
      PROVE  PrivateOK(q, i)'
  BY <1>4 DEF PrivateOK, At
<1>5. pc[p] # "idle" /\ p # q => out(p) # i
  BY DEF RendersDocument, Private, out
<1>6. pc[q] # "idle" /\ out(q) = i => source[q] \notin Broken
  BY DEF RendersDocument, Private, out
<1>7. source'[q] = source[q] => out(q)' = out(q)
  BY DEF out
<1>8. source[p] # Empty /\ Empty # NoFile
  BY <1>1, ImageAssumption DEF Empty, NoFile
<1>9. CASE p # q
  <2>1. image'[i] = image[i] /\ meta'[i] = meta[i]
    <3>1. CASE pc[p] = "idle"
      BY <1>9, <3>1 DEF Step, Render, ReadMeta, Check, TruncateMeta, WriteMeta, OpenImage,
                        CloseImage, DiagramError, Kill, Start
    <3>. QED
      BY <1>2, <1>5, <1>9, <3>1
  <2>2. pc'[q] = pc[q] /\ source'[q] = source[q] /\ old_meta'[q] = old_meta[q]
    BY <1>2, <1>9
  <2>. QED
    BY <1>3, <1>4, <1>7, <2>1, <2>2
<1>10. CASE p = q
  <2>1. CASE Render(p)
    <3>0. source' = source
      BY <2>1 DEF Render, ReadMeta, Check, TruncateMeta, WriteMeta, OpenImage,
                  CloseImage, DiagramError
    <3>1. CASE ReadMeta(p)
      <4>1. /\ image' = image /\ meta' = meta /\ pc[p] = "read" /\ pc'[p] = "check"
            /\ old_meta'[p] = IF meta[out(p)] = NoFile THEN Empty ELSE meta[out(p)]
        BY <3>1 DEF ReadMeta, Goto, ImagesTyped
      <4>. QED
        BY <1>3, <1>4, <1>7, <1>10, <3>0, <4>1
    <3>2. CASE Check(p)
      <4>1. /\ image' = image /\ meta' = meta /\ pc[p] = "check"
            /\ pc'[p] = IF image[out(p)] = NoFile \/ old_meta[p] # source[p]
                        THEN "truncate" ELSE "done"
        BY <3>2 DEF Check, Goto, ImagesTyped
      <4>. QED
        BY <1>3, <1>4, <1>7, <1>8, <1>10, <3>0, <4>1
    <3>3. CASE TruncateMeta(p)
      <4>1. /\ image' = image /\ pc[p] = "truncate" /\ pc'[p] = "write"
            /\ meta'[out(p)] = Empty
        BY <1>1, <3>3 DEF TruncateMeta, Goto, ImagesTyped
      <4>. QED
        BY <1>2, <1>3, <1>4, <1>7, <1>10, <3>0, <4>1
    <3>4. CASE WriteMeta(p)
      <4>1. /\ image' = image /\ pc[p] = "write" /\ pc'[p] = "call"
            /\ meta'[out(p)] = source[p]
        BY <1>1, <3>4 DEF WriteMeta, Goto, ImagesTyped
      <4>. QED
        BY <1>2, <1>3, <1>4, <1>7, <1>10, <3>0, <4>1
    <3>5. CASE OpenImage(p)
      <4>1. meta' = meta /\ pc[p] = "call" /\ pc'[p] = "wait"
        BY <3>5 DEF OpenImage, Goto, ImagesTyped
      <4>. QED
        BY <1>2, <1>3, <1>4, <1>7, <1>10, <3>0, <4>1
    <3>6. CASE CloseImage(p)
      <4>1. /\ meta' = meta /\ pc[p] = "wait" /\ pc'[p] = "done"
            /\ image'[out(p)] = source[p]
        BY <1>1, <3>6 DEF CloseImage, Goto, ImagesTyped
      <4>. QED
        BY <1>2, <1>3, <1>4, <1>7, <1>10, <3>0, <4>1
    <3>7. CASE DiagramError(p)
      <4>1. /\ meta' = meta /\ image' = image /\ source[p] \in Broken
            /\ pc[p] # "idle" /\ pc'[p] = "exited"
        BY <3>7 DEF DiagramError, Goto, ImagesTyped
      <4>. QED
        BY <1>3, <1>4, <1>6, <1>7, <1>10, <3>0, <4>1
    <3>. QED
      BY <2>1, <3>1, <3>2, <3>3, <3>4, <3>5, <3>6, <3>7 DEF Render
  <2>2. CASE Kill(p)
    <3>1. /\ image' = image /\ meta' = meta /\ source' = source /\ pc'[p] = "exited"
          /\ pc[p] \in {"call", "wait"} => out(p) \in killed'
      BY <2>2 DEF Kill, Goto, ImagesTyped
    <3>. QED
      BY <1>3, <1>4, <1>7, <1>10, <3>1
  <2>3. CASE \E t \in Document[p] : Start(p, t)
    <3>1. /\ image' = image /\ meta' = meta /\ pc'[p] = "read"
          /\ pc[p] \notin {"call", "wait"}
      BY <2>3 DEF Start, Goto, ImagesTyped
    <3>. QED
      BY <1>3, <1>4, <1>10, <3>1
  <2>. QED
    BY <2>1, <2>2, <2>3 DEF Step
<1>. QED
  BY <1>9, <1>10

-----------------------------------------------------------------------------

LEMMA ImageInitInv == ImageInit => ImageIInv
<1>. SUFFICES ASSUME ImageInit PROVE ImageIInv
  OBVIOUS
<1>1. ImagesTyped /\ RendersDocument
  BY DEF ImageInit, ImagesTyped, RendersDocument, Location
<1>2. ASSUME NEW s \in Source PROVE SharedOK(s)
  <2>1. ImageOf[s] \in Image
    BY ImageAssumption
  <2>. QED
    BY <2>1 DEF ImageInit, SharedOK, Rendering, NoFile, Partial
<1>3. ASSUME NEW p \in Proc, NEW i \in Image PROVE PrivateOK(p, i)
  BY DEF ImageInit, PrivateOK, At
<1>. QED
  BY <1>1, <1>2, <1>3 DEF ImageIInv

LEMMA ImageInvariance == ImageSpec => []ImageIInv
<1>1. ASSUME ImageIInv, [ImageNext]_image_vars PROVE ImageIInv'
  <2>1. CASE UNCHANGED image_vars
    <3>1. ImagesTyped' /\ RendersDocument'
      BY <1>1, <2>1 DEF ImageIInv, image_vars, ImagesTyped, RendersDocument
    <3>2. \A s \in Source : SharedOK(s) => SharedOK(s)'
      BY <2>1 DEF image_vars, SharedOK, Rendering, Shown
    <3>3. \A p \in Proc, i \in Image : PrivateOK(p, i) => PrivateOK(p, i)'
      BY <2>1 DEF image_vars, PrivateOK, At, out
    <3>4. killed' = killed
      BY <2>1 DEF image_vars
    <3>. QED
      BY <1>1, <3>1, <3>2, <3>3, <3>4 DEF ImageIInv, Alone, Private
  <2>2. ASSUME NEW p \in Proc, Step(p) PROVE ImageIInv'
    <3>1. ImagesTyped' /\ RendersDocument' /\ killed \subseteq killed'
      BY <1>1, <2>2, ImageTypeStep, DocumentStep, OthersStep DEF ImageIInv
    <3>2. ASSUME NEW s \in Source, ImageOf[s] \notin killed', Alone(s)
          PROVE  SharedOK(s)'
      BY <1>1, <2>2, <3>1, <3>2, SharedStep DEF ImageIInv
    <3>3. ASSUME NEW q \in Proc, NEW i \in Image, i \notin killed', Private(q, i)
          PROVE  PrivateOK(q, i)'
      BY <1>1, <2>2, <3>1, <3>3, PrivateStep DEF ImageIInv
    <3>. QED
      BY <3>1, <3>2, <3>3 DEF ImageIInv, Alone, Private
  <2>. QED
    BY <1>1, <2>1, <2>2 DEF ImageNext, Step
<1>. QED
  BY <1>1, ImageInitInv, PTL DEF ImageSpec

\* Images named after the hash of their source may be rendered by several
\* processes at once: once all have ended, every one a link was returned to
\* shows what its source gives, unless one was killed while it was rendered.
THEOREM HashImagesComplete == ImageSpec => []SharedImagesComplete
<1>1. ASSUME ImageIInv PROVE SharedImagesComplete
  <2>. SUFFICES ASSUME Quiescent, NEW p \in Proc, pc[p] = "done",
                       source[p] \in Hash, out(p) \notin killed
                PROVE  image[out(p)] = Shown(source[p])
    BY DEF SharedImagesComplete
  <2>1. source[p] \in Source /\ Alone(source[p])
    BY ImageAssumption DEF Hash, Alone
  <2>2. SharedOK(source[p])
    BY <1>1, <2>1 DEF ImageIInv, out
  <2>3. \A q \in Proc : pc[q] # "wait"
    BY DEF Quiescent
  <2>. QED
    BY <2>2, <2>3 DEF SharedOK, Rendering, out
<1>. QED
  BY <1>1, ImageInvariance, PTL

\* A macro that returns leaves the image of its source, whatever was rendered
\* before, when processes share only images named after the hash of their
\* source, and images with a name are only given sources that can be rendered.
THEOREM ImagesAreCurrent ==
  ASSUME OwnImages
  PROVE  ImageSpec => []ReturnedImageIsCurrent
<1>1. ASSUME ImageIInv PROVE ReturnedImageIsCurrent
  <2>. SUFFICES ASSUME NEW p \in Proc, pc[p] = "done", out(p) \notin killed,
                       \A q \in Proc \ {p} : pc[q] \in {"idle", "exited"}
                PROVE  image[out(p)] = Shown(source[p])
    BY DEF ReturnedImageIsCurrent
  <2>. DEFINE s == source[p]
  <2>1. s \in Document[p] /\ s \in Source /\ out(p) = ImageOf[s] /\ out(p) \in Image
    BY <1>1, ImageAssumption DEF ImageIInv, ImagesTyped, RendersDocument, out
  <2>. HIDE DEF s
  <2>2. CASE Alone(s)
    <3>1. SharedOK(s)
      BY <1>1, <2>1, <2>2 DEF ImageIInv
    <3>2. \A q \in Proc : pc[q] # "wait"
      OBVIOUS
    <3>. QED
      BY <2>1, <3>1, <3>2 DEF SharedOK, Rendering, s
  <2>3. CASE ~Alone(s)
    <3>1. PICK q \in Proc : \E t \in Document[q] : ImageOf[t] = ImageOf[s] /\ t # s
      BY <2>3 DEF Alone
    <3>2. PICK t \in Document[q] : ImageOf[t] = ImageOf[s] /\ t # s
      BY <3>1
    <3>3. q = p /\ s \notin Broken
      BY <2>1, <3>2 DEF OwnImages
    <3>4. Private(p, out(p))
      BY <2>1, <3>2, <3>3 DEF OwnImages, Private
    <3>5. PrivateOK(p, out(p))
      BY <1>1, <2>1, <3>4 DEF ImageIInv
    <3>. QED
      BY <3>3, <3>5 DEF PrivateOK, At, Shown, s
  <2>. QED
    BY <2>2, <2>3
<1>. QED
  BY <1>1, ImageInvariance, PTL
=============================================================================
