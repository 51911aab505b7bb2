------------------------------ MODULE TextLine ------------------------------
(***************************************************************************)
(* What a line editor promises: a text with a cursor, the keys that move   *)
(* the cursor do not change the text, those that delete take a part of it  *)
(* next to the cursor, those that insert put text at the cursor.           *)
(***************************************************************************)
EXTENDS SequencesExt

CONSTANT Texts  \* what can replace the line, when it is recalled from a history

VARIABLES
  left,    \* the text before the cursor
  right,   \* the text after the cursor
  open     \* the line is being edited

vars == <<left, right, open>>

Init == left = <<>> /\ right = <<>> /\ open = TRUE

\* The cursor moves: the text stays the same.
Move == left' \o right' = left \o right /\ UNCHANGED open

\* Text is inserted before the cursor.
Insert == IsPrefix(left, left') /\ UNCHANGED <<right, open>>

\* Text next to the cursor is deleted, on one side only.
Delete ==
  /\ \/ IsPrefix(left', left) /\ UNCHANGED right
     \/ IsSuffix(right', right) /\ UNCHANGED left
  /\ UNCHANGED open

\* The text on both sides of the cursor is swapped, the cursor is after it.
Swap ==
  /\ \E i \in 0 .. Len(left) - 1, j \in 1 .. Len(right) :
       /\ left' = SubSeq(left, 1, i) \o SubSeq(right, 1, j)
                    \o SubSeq(left, i + 1, Len(left))
       /\ right' = SubSeq(right, j + 1, Len(right))
  /\ UNCHANGED open

\* The line is erased or replaced by a line of the history, or the start of it.
Replace ==
  /\ right' = <<>>
  /\ left' = <<>> \/ \E text \in Texts : IsPrefix(left', text)
  /\ UNCHANGED open

\* The line is given to the caller with all its text, or given up.
Close ==
  /\ open /\ ~open'
  /\ left' \o right' = left \o right

Next == open /\ (Move \/ Insert \/ Delete \/ Swap \/ Replace \/ Close)

Spec == Init /\ [][Next]_vars
=============================================================================
