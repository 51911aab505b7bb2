------------------------------ MODULE LineEdit ------------------------------
(***************************************************************************)
(* The editing of one line by linenoise, the line editor of the REPL       *)
(* (luax/ext/linenoise/linenoise.c), from linenoiseEditStart to the key    *)
(* that ends the line.                                                     *)
(*                                                                         *)
(* One action per key, or per byte of a paste: the terminal sends a paste  *)
(* between two escape sequences, without telling its length.  LuaX sets    *)
(* the multi-line mode, no completion callback and no mask.                *)
(***************************************************************************)
EXTENDS LineFolds

CONSTANTS
  Space, Return,   \* a space, a carriage return
  Typed,           \* what one key can insert
  Pasted,          \* what a paste is made of
  PasteEnd,        \* the sequence that ends a paste: ESC [ 2 0 1 ~
  InitialBuflen,   \* LINENOISE_INITIAL_BUFLEN
  MaxLine,         \* LINENOISE_MAX_LINE, and PASTE_MAX_BYTES
  InitialPaste,    \* the first size of the buffer of a paste
  SwapMax,         \* the longest cluster ctrl-t swaps
  Recalled,        \* lines of the history
  MaxSent          \* bound: the longest paste a terminal sends

ASSUME LineEditAssumption ==
  /\ InitialBuflen \in Nat /\ MaxLine \in Nat /\ SwapMax \in Nat /\ InitialPaste \in Nat
  /\ 1 < InitialBuflen /\ InitialBuflen <= MaxLine
  /\ 0 < InitialPaste /\ InitialPaste <= MaxLine
  /\ \A text \in Recalled \cup {PasteEnd} : text \in Seq(ToSet(text))
  /\ PasteEnd # <<>> /\ PasteEnd[1] \notin ToSet(Tail(PasteEnd))
  /\ NewLine # Return /\ {NewLine, Return} \cap Typed = {}

VARIABLES
  buf,      \* the line
  pos,      \* the cursor: the number of characters before it
  fold,     \* the folds, in the order of the line
  buflen,   \* the size of the memory of buf
  mode,     \* "edit", "paste", "closed" (no more input) or what ended the line
  paste,    \* the paste being read: its text, the length of the part of
            \* PasteEnd that has just been read, the size of its memory and
            \* whether it is too long
  sent      \* observer: what the terminal has sent since the paste started

vars == <<buf, pos, fold, buflen, mode, paste, sent>>

NoPaste == [text |-> <<>>, match |-> 0, cap |-> 0, overflowed |-> FALSE]

Before == SubSeq(buf, 1, pos)
After  == SubSeq(buf, pos + 1, Len(buf))

\* The size of a buffer that is doubled until it holds needed, and that does
\* not exceed max (nor do size and needed).
Grown(size, needed, max) ==
  LET double[n \in 1 .. max] ==
        IF n >= needed THEN n ELSE IF n > max \div 2 THEN max ELSE double[2 * n]
  IN  double[size]

-----------------------------------------------------------------------------
(* Changes of the line. *)

\* Mutation: the memory of the line is not grown.
linenoiseEditGrow_Never(needed) ==
  /\ needed <= MaxLine
  /\ buflen' = buflen

\* The line can hold needed characters.
linenoiseEditGrow(needed) ==
  /\ needed <= MaxLine
  /\ buflen' = IF needed <= buflen THEN buflen ELSE Grown(buflen, needed, MaxLine)

\* Mutation: the cursor stays before the text.
linenoiseEditInsertNoRefresh_Before(text) ==
  /\ buf' = Before \o text \o After
  /\ pos' = pos

\* Text is inserted at the cursor, in memory that is large enough.
linenoiseEditInsertNoRefresh(text) ==
  /\ buf' = Before \o text \o After
  /\ pos' = pos + Len(text)

\* The text from the position start to end is deleted.
Cut(start, end) ==
  /\ buf' = SubSeq(buf, 1, start) \o SubSeq(buf, end + 1, Len(buf))
  /\ fold' = linenoiseAdjustFoldsAfterDelete(fold, start, end - start)

NextLen(p) == linenoiseEditNextLen(buf, fold, p)
PrevLen(p) == linenoiseEditPrevLen(buf, fold, p)

Editing == mode = "edit" /\ UNCHANGED <<paste, sent>>

-----------------------------------------------------------------------------
(* Keys (linenoiseEditFeed). *)

\* A character, unless the line is full.
linenoiseEditInsert ==
  /\ Editing
  /\ \E c \in Typed :
       \/ /\ linenoiseEditGrow(Len(buf) + 1)
          /\ linenoiseEditInsertNoRefresh(<<c>>)
          /\ fold' = linenoiseAdjustFoldsAfterInsert(fold, pos, 1)
       \/ Len(buf) + 1 > MaxLine /\ UNCHANGED <<buf, pos, fold, buflen>>
  /\ UNCHANGED mode

linenoiseEditMoveLeft ==
  /\ Editing
  /\ pos > 0
  /\ pos' = pos - PrevLen(pos)
  /\ UNCHANGED <<buf, fold, buflen, mode>>

linenoiseEditMoveRight ==
  /\ Editing
  /\ pos # Len(buf)
  /\ pos' = pos + NextLen(pos)
  /\ UNCHANGED <<buf, fold, buflen, mode>>

\* Home, ctrl-a, end and ctrl-e.
MoveHomeEnd ==
  /\ Editing
  /\ pos' \in {0, Len(buf)}
  /\ UNCHANGED <<buf, fold, buflen, mode>>

\* Delete, and ctrl-d in a line that is not empty.
linenoiseEditDelete ==
  /\ Editing
  /\ pos < Len(buf)
  /\ Cut(pos, pos + NextLen(pos))
  /\ UNCHANGED <<pos, buflen, mode>>

linenoiseEditBackspace ==
  /\ Editing
  /\ pos > 0
  /\ Cut(pos - PrevLen(pos), pos)
  /\ pos' = pos - PrevLen(pos)
  /\ UNCHANGED <<buflen, mode>>

\* The position before the spaces, then the word before the cursor: a cluster
\* or a fold at a time.
WordStart ==
  LET spaces[p \in 0 .. Len(buf)] ==
        IF p > 0 /\ buf[p] = Space THEN spaces[p - PrevLen(p)] ELSE p
      word[p \in 0 .. Len(buf)] ==
        IF p > 0 /\ buf[p] # Space THEN word[p - PrevLen(p)] ELSE p
  IN  word[spaces[pos]]

\* ctrl-w.
linenoiseEditDeletePrevWord ==
  /\ Editing
  /\ Cut(WordStart, pos)
  /\ pos' = WordStart
  /\ UNCHANGED <<buflen, mode>>

\* Mutation: folds are swapped like characters.
SwapChars_Folds ==
  LET prevlen == PrevLen(pos)
      currlen == NextLen(pos)
      start   == pos - prevlen
  IN  /\ Editing
      /\ 0 < pos /\ pos < Len(buf)
      /\ prevlen <= SwapMax /\ currlen <= SwapMax
      /\ buf' = SubSeq(buf, 1, start) \o SubSeq(buf, pos + 1, pos + currlen)
                  \o SubSeq(buf, start + 1, pos)
                  \o SubSeq(buf, pos + currlen + 1, Len(buf))
      /\ pos' = pos + currlen
      /\ UNCHANGED <<fold, buflen, mode>>

\* ctrl-t: the clusters around the cursor are swapped, when they are not too
\* long and no part of a fold; the cursor goes after both.
SwapChars ==
  LET prevlen == PrevLen(pos)
      currlen == NextLen(pos)
      start   == pos - prevlen
  IN  /\ Editing
      /\ 0 < pos /\ pos < Len(buf)
      /\ prevlen <= SwapMax /\ currlen <= SwapMax
      /\ ~ linenoiseRangeOverlapsFold(fold, start, prevlen + currlen)
      /\ buf' = SubSeq(buf, 1, start) \o SubSeq(buf, pos + 1, pos + currlen)
                  \o SubSeq(buf, start + 1, pos)
                  \o SubSeq(buf, pos + currlen + 1, Len(buf))
      /\ pos' = pos + currlen
      /\ UNCHANGED <<fold, buflen, mode>>

\* ctrl-u.
DeleteLine ==
  /\ Editing
  /\ buf' = <<>> /\ pos' = 0 /\ fold' = <<>>
  /\ UNCHANGED <<buflen, mode>>

\* ctrl-k.
DeleteToEnd ==
  /\ Editing
  /\ Cut(pos, Len(buf))
  /\ UNCHANGED <<pos, buflen, mode>>

\* Up, down, ctrl-p and ctrl-n: a line of the history replaces the line (which
\* takes its place there: see ReplHistory).  One that is longer than MaxLine is
\* cut at the current size of the memory, that is not grown.
linenoiseEditHistoryNext ==
  /\ Editing
  /\ \E text \in Recalled :
       \/ /\ linenoiseEditGrow(Len(text))
          /\ buf' = text
       \/ /\ Len(text) > MaxLine
          /\ buf' = SubSeq(text, 1, buflen)
          /\ UNCHANGED buflen
  /\ pos' = Len(buf')
  /\ fold' = IF shouldFoldText(buf')
             THEN LET f == linenoiseBuildHistoryFold(buf')
                  IN  linenoiseFoldAdd(<<>>, f.start, f.end)
             ELSE <<>>
  /\ UNCHANGED mode

\* Enter: the line is returned.  The multi-line mode moves the cursor to its end.
Enter ==
  /\ Editing
  /\ mode' = "line" /\ pos' = Len(buf)
  /\ UNCHANGED <<buf, fold, buflen>>

\* ctrl-c, or ctrl-d in an empty line, or the end of the input.
GiveUp ==
  /\ UNCHANGED <<paste, sent, buf, pos, fold, buflen>>
  /\ \/ mode = "edit" /\ mode' = "interrupted"
     \/ mode = "edit" /\ buf = <<>> /\ mode' = "eof"
     \/ mode \in {"edit", "closed"} /\ mode' = "nil"

-----------------------------------------------------------------------------
(* Pastes (linenoiseEditPaste). *)

\* What can be pasted in the line, or nothing when all the folds are used.
MaxPaste == IF Len(fold) = MaxFolds THEN 0 ELSE MaxLine - Len(buf)

\* ESC [ 2 0 0 ~.
StartPaste ==
  /\ mode = "edit" /\ mode' = "paste"
  /\ paste' = NoPaste /\ sent' = <<>>
  /\ UNCHANGED <<buf, pos, fold, buflen>>

\* The paste with text appended to it, or too long.
pasteBufferAppend(p, text) ==
  LET needed == Len(p.text) + Len(text)
  IN  IF p.overflowed THEN p
      ELSE IF needed > MaxPaste THEN [p EXCEPT !.overflowed = TRUE]
      ELSE [p EXCEPT !.text = @ \o text,
                     !.cap = IF @ >= needed THEN @
                             ELSE Grown(IF @ = 0 THEN InitialPaste ELSE @, needed, MaxLine)]

\* Mutation: the start of PasteEnd is lost when it is not all of it.
PasteChar_Lost(c) ==
  IF c = PasteEnd[paste.match + 1] THEN [paste EXCEPT !.match = @ + 1]
  ELSE pasteBufferAppend([paste EXCEPT !.match = 0], <<c>>)

\* One more character c, that does not end the paste.  The start of PasteEnd is
\* kept out of the text until another character follows it.
PasteChar(c) ==
  LET rest == pasteBufferAppend(paste, SubSeq(PasteEnd, 1, paste.match))
  IN  IF c = PasteEnd[paste.match + 1] THEN [paste EXCEPT !.match = @ + 1]
      ELSE IF c = PasteEnd[1] THEN [rest EXCEPT !.match = 1]
      ELSE pasteBufferAppend([rest EXCEPT !.match = 0], <<c>>)

ReadPaste ==
  /\ mode = "paste"
  /\ Len(sent) < MaxSent
  /\ \E c \in Pasted :
       /\ ~ (c = PasteEnd[paste.match + 1] /\ paste.match + 1 = Len(PasteEnd))
       /\ paste' = PasteChar(c)
       /\ sent' = Append(sent, c)
       /\ linenoiseEditGrow(Len(buf) + Len(paste'.text))
  /\ UNCHANGED <<buf, pos, fold, mode>>

\* Carriage returns, and those followed by a line feed, are line feeds.
Normalized(text) ==
  LET first[i \in 0 .. Len(text)] ==
        CASE i = 0 -> <<>>
          [] i > 0 /\ text[i] = NewLine /\ i > 1 /\ text[i-1] = Return -> first[i-1]
          [] i > 0 /\ text[i] = Return -> Append(first[i-1], NewLine)
          [] OTHER -> Append(first[i-1], text[i])
  IN  first[Len(text)]

\* The paste is inserted, and folded when it is long or has several lines.
InsertPaste ==
  \/ /\ paste.overflowed \/ paste.text = <<>>
     /\ UNCHANGED <<buf, pos, fold>>
  \/ /\ ~paste.overflowed /\ paste.text # <<>>
     /\ LET text     == Normalized(paste.text)
            adjusted == linenoiseAdjustFoldsAfterInsert(fold, pos, Len(text)) IN
        /\ linenoiseEditInsertNoRefresh(text)
        /\ fold' = IF shouldFoldText(text)
                   THEN linenoiseFoldAdd(adjusted, pos, pos + Len(text)) ELSE adjusted

\* PasteEnd is complete.
FinishPaste ==
  /\ mode = "paste" /\ mode' = "edit"
  /\ paste.match + 1 = Len(PasteEnd)
  /\ InsertPaste
  /\ paste' = NoPaste /\ sent' = <<>>
  /\ UNCHANGED buflen

\* The input ends in the paste: what has been read is inserted, then the line
\* is given up at the next read.
ClosePaste ==
  /\ mode = "paste" /\ mode' = "closed"
  /\ InsertPaste
  /\ paste' = NoPaste /\ sent' = <<>>
  /\ UNCHANGED buflen

-----------------------------------------------------------------------------

\* linenoiseEditStart, called by linenoiseBlockingEdit.
Init ==
  /\ buf = <<>> /\ pos = 0 /\ fold = <<>>
  /\ buflen = InitialBuflen - 1
  /\ mode = "edit" /\ paste = NoPaste /\ sent = <<>>

Next ==
  \/ linenoiseEditInsert \/ linenoiseEditMoveLeft \/ linenoiseEditMoveRight
  \/ MoveHomeEnd \/ linenoiseEditDelete \/ linenoiseEditBackspace
  \/ linenoiseEditDeletePrevWord \/ SwapChars \/ DeleteLine \/ DeleteToEnd
  \/ linenoiseEditHistoryNext \/ Enter \/ GiveUp
  \/ StartPaste \/ ReadPaste \/ FinishPaste \/ ClosePaste

Spec == Init /\ [][Next]_vars

-----------------------------------------------------------------------------
(* Properties. *)

\* What the arithmetic on pos, len and the folds must never break, since the C
\* code copies memory between these positions: the cursor is in the line, the
\* line (and the paste that is going to be inserted) is in its memory, and the
\* folds are non empty ranges of the line in order, that do not overlap.
PositionsAreSafe ==
  /\ pos \in 0 .. Len(buf)
  /\ Len(buf) + Len(paste.text) <= buflen /\ buflen <= MaxLine
  /\ Len(paste.text) <= paste.cap /\ paste.match < Len(PasteEnd)
  /\ Len(fold) <= MaxFolds /\ WellPlaced(buf, fold)
  /\ sent # <<>> => mode = "paste"

\* The terminal shows the line with one marker for each fold, and the cursor
\* after what stands for the text before it: the single loop over the folds of
\* linenoiseRenderBuffer does the same as looking at each character.
RenderShowsLine ==
  LET Cell(i) == CASE \E f \in ToSet(fold) : f.start = i - 1 -> <<Marker>>
                   [] Hidden(fold, i) /\ (\A f \in ToSet(fold) : f.start # i - 1) -> <<>>
                   [] OTHER -> <<buf[i]>>
      shown[i \in 0 .. Len(buf)] == IF i = 0 THEN <<>> ELSE shown[i-1] \o Cell(i)
      rendered == linenoiseRenderBuffer(buf, fold, pos)
  IN  mode # "paste" => rendered = [text |-> shown[Len(buf)], pos |-> Len(shown[pos])]

\* The cursor stops at the same places when it goes left as when it goes right:
\* clusters are found backwards as they are found forwards, in a text where a
\* joiner follows a character and that has no flag (a pair of regional
\* indicators, that linenoise pairs from the end when it goes left).  A paste
\* does not change the line before its end.
WalksAgree ==
  LET plain == /\ JoinersFollow(buf)
               /\ \A i, j \in DOMAIN buf : {buf[i], buf[j]} \subseteq Regional => i = j
      stops == Boundaries(buf)
  IN  mode # "paste" /\ plain =>
             \A p \in stops \ {0} :
                 LET q == p - utf8PrevCharLen(buf, p)
                 IN  q \in stops /\ q < p /\ \A r \in stops : r <= q \/ p <= r

\* No end of a fold is in the middle of a grapheme cluster.
FoldsBetweenClusters ==
  \A f \in ToSet(fold) : ~Inside(buf, f.start) /\ ~Inside(buf, f.end)

\* The cursor goes over a fold in one move: it is in a fold only when a cluster
\* goes across an end of this fold.
CursorStaysOutOfFolds == FoldsBetweenClusters => ~InFold(fold, pos)

\* A line break in the line would break the display of the prompt: all of them
\* are hidden by folds, or parts of a cluster that a joiner makes.  A key that
\* edits the line keeps it so, when no joiner starts the line or follows another
\* one, and neither the cursor nor an end of a fold is in the middle of a cluster.
NewlinesFolded ==
  \A i \in DOMAIN buf :
    buf[i] = NewLine => Hidden(fold, i) \/ (i > 1 /\ buf[i-1] = Joiner)

NewlinesStayFolded ==
  [][/\ NewlinesFolded /\ FoldsBetweenClusters /\ JoinersFollow(buf)
     /\ ~InFold(fold, pos) /\ ~Inside(buf, pos)
     => NewlinesFolded']_vars

\* A paste is inserted as it was sent, whatever part of PasteEnd it contains,
\* with its line breaks normalized; or not at all when it does not fit in the
\* line or when no fold is left.
PastedLine(text) ==
  buf' = IF Len(text) > MaxPaste THEN buf ELSE Before \o Normalized(text) \o After

PasteIsTheText ==
  [][mode = "paste" /\ mode' = "edit"
       => PastedLine(SubSeq(sent, 1, Len(sent) - (Len(PasteEnd) - 1)))]_vars

\* The editor keeps the promises of TextLine.
Text ==
  INSTANCE TextLine WITH left <- Before, right <- After,
                         open <- mode \in {"edit", "paste", "closed"},
                         Texts <- Recalled
ImplementsTextLine == Text!Spec
=============================================================================
