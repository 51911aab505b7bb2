---------------------------- MODULE YppExpansion -----------------------------
(***************************************************************************)
(* What the input files of ypp expand to: the specification of the         *)
(* expansion, written as a function of the texts and independent of the    *)
(* stacks of Ypp.                                                          *)
(***************************************************************************)
EXTENDS Ypp

CONSTANT MaxDepth   \* bound: documents in each other that are looked into

ASSUME DepthAssumption == MaxDepth \in Nat

\* The value of a deferred function is not known until the end of the files.
later(fn) == [kind |-> "later", fn |-> fn]

Part == {tok \in Token : tok.kind # "tag"} \cup [kind : {"later"}, fn : Fn]

\* An expansion that has come to some item: what it has produced, the macro
\* character and the value of count.  It may have failed; nothing is said of it
\* when documents are too deep in each other, or make other calls.
Stage == [status : {"on", "failed", "unknown"}, toks : Seq(Part), char : Char, n : Nat]

StartStage == [status |-> "on", toks |-> <<>>, char |-> MainChar, n |-> 0]

\* The functions given to defer that only produce text and values of count, and
\* return them.
Shows(fn) ==
  /\ Returns[fn] = "text"
  /\ \A i \in DOMAIN Body[fn] : Body[fn][i].op \in {"text", "show"}

Produce(st, part) == [st EXCEPT !.toks = Append(@, part)]

Ended(st, how) == [st EXCEPT !.status = how]

\* The expansion after an item; inside[f][st]: after the items of file f.
Following(inside, st, it) ==
  CASE st.status # "on" -> st
    [] st.status = "on" /\ it.op = "text" -> Produce(st, text)
    [] st.status = "on" /\ it.op # "text" /\ it.char # st.char -> Produce(st, raw(it))
    [] st.status = "on" /\ it.op # "text" /\ it.char = st.char ->
         CASE it.op = "count" -> [st EXCEPT !.n = @ + 1]
           [] it.op = "show"  -> Produce(st, value(st.n))
           [] it.op = "macro" -> [st EXCEPT !.char = it.new]
           [] it.op = "defer" /\ Shows(it.fn) -> Produce(st, later(it.fn))
           [] it.op = "ypp"   -> inside[it.file][st]
           [] it.op = "include" /\ it.file \in File ->
                [inside[it.file][[st EXCEPT !.char = MainChar]] EXCEPT !.char = st.char]
           [] it.op = "read" /\ it.file \in File -> Produce(st, text)
           [] it.op \in {"include", "read"} /\ it.file \notin File -> Ended(st, "failed")
           [] it.op = "file"  -> st
           [] it.op = "error" -> Ended(st, "failed")
           [] OTHER           -> Ended(st, "unknown")

\* The expansion after each of these items.
Stages(inside, st, items) ==
  LET after[i \in 0 .. Len(items)] ==
        IF i = 0 THEN st ELSE Following(inside, after[i-1], items[i])
  IN after

Expanded(inside, st, items) == Stages(inside, st, items)[Len(items)]

\* Inside(library)[d]: the expansion after a file, with d levels of documents.
Inside(library) ==
  LET inside[d \in 0 .. MaxDepth] ==
        [f \in File |-> [st \in Stage |->
           IF d = 0 THEN Ended(st, "unknown")
           ELSE Expanded(inside[d-1], st, library[f])]]
  IN inside

\* The input files from number i + 1 on, included one after the other.
Inputs(i) ==
  [j \in 1 .. Len(Input) - i |->
     [op |-> "include", char |-> MainChar, file |-> Input[i+j]]]

Expansion == Expanded(Inside(content)[MaxDepth], StartStage, Inputs(0))

\* The result of these calls of a deferred function, when count is n.
Said(items, n) ==
  [i \in DOMAIN items |-> IF items[i].op = "text" THEN text ELSE value(n)]

Final(part, n) == IF part.kind = "later" THEN Said(Body[part.fn], n) ELSE <<part>>

\* The output is the expansion of the input files, and a run fails when the
\* expansion does: an included file has a macro character of its own, a string
\* given to ypp shares the one of its caller, expressions are evaluated in the
\* order of the text, and deferred functions at the end.
OutputIsExpansion ==
  failed \/ phase = "done" =>
    LET whole == Expansion IN
    whole.status # "unknown" =>
      /\ whole.status = IF failed THEN "failed" ELSE "on"
      /\ ~failed => main.content = FlattenSeq([i \in DOMAIN whole.toks |->
                                                 Final(whole.toks[i], whole.n)])
=============================================================================
