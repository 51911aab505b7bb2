----------------------------- MODULE LineFolds -----------------------------
(***************************************************************************)
(* The folds of linenoise: ranges of the edited line that are shown as a   *)
(* short text, "[... n pasted lines ...]", instead of their content.  The  *)
(* line keeps the real text; folds have to follow its changes.             *)
(***************************************************************************)
EXTENDS Graphemes, SequencesExt

CONSTANTS
  NewLine,
  FoldThreshold,  \* PASTE_FOLD_THRESHOLD, the length that is folded
  FoldContext,    \* PASTE_FOLD_CONTEXT, the characters left on each side
  MaxFolds,       \* LINENOISE_MAX_FOLDS
  Marker          \* what is shown instead of a folded range

ASSUME FoldsAssumption ==
  /\ FoldThreshold \in Nat \ {0} /\ FoldContext \in Nat \ {0}
  /\ MaxFolds \in Nat \ {0}
  /\ NewLine \notin Extending \cup Regional

\* The range of the positions start .. end.
Range2(start, end) == [start |-> start, end |-> end]

Shift(f, n) == Range2(f.start + n, f.end + n)

\* The folds of fs that are in F.
Kept(fs, F) ==
  LET kept[j \in 0 .. Len(fs)] ==
        CASE j = 0 -> <<>>
          [] j > 0 /\ fs[j] \in F -> Append(kept[j-1], fs[j])
          [] OTHER -> kept[j-1]
  IN  kept[Len(fs)]

-----------------------------------------------------------------------------

shouldFoldText(text) ==
  NewLine \in ToSet(text) \/ Len(text) >= FoldThreshold

\* A new fold, put after the last one that does not start after it.
linenoiseFoldAdd(fs, start, end) ==
  IF start >= end \/ Len(fs) = MaxFolds THEN fs
  ELSE LET at == CHOOSE j \in 0 .. Len(fs) :
                   /\ j = 0 \/ fs[j].start <= start
                   /\ \A k \in j + 1 .. Len(fs) : start < fs[k].start
       IN  SubSeq(fs, 1, at) \o <<Range2(start, end)>> \o SubSeq(fs, at + 1, Len(fs))

\* Some fold has a character in the range of length n that starts at pos.
linenoiseRangeOverlapsFold(fs, pos, n) ==
  \E f \in ToSet(fs) : pos + n > f.start /\ pos < f.end

\* n characters have been inserted at pos: a fold they split is forgotten.
linenoiseAdjustFoldsAfterInsert(fs, pos, n) ==
  LET kept == Kept(fs, {f \in ToSet(fs) : ~ (f.start < pos /\ pos < f.end)})
  IN  [j \in DOMAIN kept |-> IF pos <= kept[j].start THEN Shift(kept[j], n) ELSE kept[j]]

\* n characters are deleted at pos: a fold that loses some is forgotten.
linenoiseAdjustFoldsAfterDelete(fs, pos, n) ==
  LET kept == Kept(fs, {f \in ToSet(fs) : pos + n <= f.start \/ pos >= f.end})
  IN  [j \in DOMAIN kept |->
         IF pos + n <= kept[j].start
         THEN Range2(kept[j].start - n, kept[j].end - n) ELSE kept[j]]

\* The fold of a line recalled from the history: all of it, or all but some
\* characters on a side where they hide no line break.
linenoiseBuildHistoryFold(text) ==
  LET len == Len(text)
      right[k \in 0 .. FoldContext] ==
        IF k = 0 THEN 0 ELSE right[k-1] + utf8NextCharLen(text, right[k-1])
      left[k \in 0 .. FoldContext] ==
        IF k = 0 THEN len ELSE left[k-1] - utf8PrevCharLen(text, left[k-1])
      breaksLeft  == \E k \in 0 .. FoldContext - 1 :
                       right[k] < len /\ text[right[k] + 1] = NewLine
      breaksRight == \E k \in 1 .. FoldContext :
                       left[k-1] > 0 /\ text[left[k] + 1] = NewLine
      start == IF breaksLeft THEN 0 ELSE right[FoldContext]
      end   == IF breaksRight THEN len ELSE left[FoldContext]
  IN  IF len > 2 * FoldContext /\ start < end
      THEN Range2(start, end) ELSE Range2(0, len)

\* The folds that are used for rendering and moving.
linenoiseGetRenderFolds(text, fs) ==
  Kept(fs, {f \in ToSet(fs) : f.start < f.end /\ f.end <= Len(text)})

\* The cursor crosses a fold in one move.
linenoiseEditNextLen(text, fs, pos) ==
  LET here == Kept(linenoiseGetRenderFolds(text, fs), {f \in ToSet(fs) : f.start = pos})
  IN  IF here # <<>> THEN Head(here).end - pos ELSE utf8NextCharLen(text, pos)

\* Mutation: the fold is looked for at its start.
linenoiseEditPrevLen_Start(text, fs, pos) ==
  LET here == Kept(linenoiseGetRenderFolds(text, fs), {f \in ToSet(fs) : f.start = pos - 1})
  IN  IF here # <<>> THEN pos - Head(here).start ELSE utf8PrevCharLen(text, pos)

linenoiseEditPrevLen(text, fs, pos) ==
  LET here == Kept(linenoiseGetRenderFolds(text, fs), {f \in ToSet(fs) : f.end = pos})
  IN  IF here # <<>> THEN pos - Head(here).start ELSE utf8PrevCharLen(text, pos)

-----------------------------------------------------------------------------
(* Rendering. *)

\* Mutation: a cursor in a fold, or at its end, is shown before its marker.
RenderFold_Before(text, pos, r, f) ==
  LET gap  == r.out \o SubSeq(text, r.src + 1, f.start)
      at   == CASE r.found -> r.pos
                [] ~r.found /\ pos <= f.start -> Len(r.out) + (pos - r.src)
                [] ~r.found /\ f.start < pos /\ pos <= f.end -> Len(gap)
                [] OTHER -> 0
  IN  [out |-> Append(gap, Marker), src |-> f.end, pos |-> at,
       found |-> r.found \/ pos <= f.end]

\* One turn of the loop: the text before the fold f, then its marker.  The
\* cursor is found in one of them, or after.
RenderFold(text, pos, r, f) ==
  LET dst == Append(r.out \o SubSeq(text, r.src + 1, f.start), Marker)
      at  == CASE r.found -> r.pos
               [] ~r.found /\ pos <= f.start -> Len(r.out) + (pos - r.src)
               [] ~r.found /\ f.start < pos /\ pos <= f.end -> Len(dst)
               [] OTHER -> 0
  IN  [out |-> dst, src |-> f.end, pos |-> at, found |-> r.found \/ pos <= f.end]

\* The line on the terminal and the place of the cursor in it: one loop over
\* the folds.
linenoiseRenderBuffer(text, fs, pos) ==
  LET folds == linenoiseGetRenderFolds(text, fs)
      done[k \in 0 .. Len(folds)] ==
        IF k = 0 THEN [out |-> <<>>, src |-> 0, pos |-> 0, found |-> FALSE]
        ELSE RenderFold(text, pos, done[k-1], folds[k])
      r == done[Len(folds)]
  IN  [text |-> r.out \o SubSeq(text, r.src + 1, Len(text)),
       pos  |-> IF r.found THEN r.pos ELSE Len(r.out) + (pos - r.src)]

\* Folds are ranges of text, none is empty, and they follow one another.
WellPlaced(text, fs) ==
  /\ \A f \in ToSet(fs) : 0 <= f.start /\ f.start < f.end /\ f.end <= Len(text)
  /\ \A j \in 1 .. Len(fs) - 1 : fs[j].end <= fs[j+1].start

\* Position pos is strictly inside of a fold.
InFold(fs, pos) == \E f \in ToSet(fs) : f.start < pos /\ pos < f.end

\* Character i of the line is hidden.
Hidden(fs, i) == \E f \in ToSet(fs) : f.start < i /\ i <= f.end
=============================================================================
