----------------------------- MODULE Graphemes -----------------------------
(***************************************************************************)
(* Grapheme clusters, as linenoise (luax/ext/linenoise/linenoise.c) finds  *)
(* them when the cursor moves or when a character is deleted.              *)
(*                                                                         *)
(* A text is a sequence of code points and a position is the number of     *)
(* code points before it: linenoise assumes valid UTF-8, and counts bytes. *)
(***************************************************************************)
EXTENDS Naturals, Sequences

CONSTANTS
  Extending,  \* isGraphemeExtend: combining marks, selectors, the joiner...
  Joiner,     \* isZWJ
  Regional    \* isRegionalIndicator: a flag is a pair of them

ASSUME GraphemesAssumption == Joiner \in Extending /\ Extending \cap Regional = {}

-----------------------------------------------------------------------------

\* Mutation: a joiner does not take the character before it.
utf8PrevCharLen_Joiner(text, pos) ==
  LET start[i \in 0 .. Len(text)] ==
        CASE i = 0 -> 0
          [] i > 0 /\ text[i+1] \in Extending -> start[i - 1]
          [] OTHER -> i
  IN  IF pos = 0 THEN 0 ELSE pos - start[pos - 1]

\* The start of the cluster whose part from i + 1 on is already known to belong
\* to it, from the starts for the positions before.
Start(text, start, i) ==
  CASE i = 1 /\ text[i] = Joiner -> 0
    [] i > 1 /\ text[i] = Joiner -> start[i - 2]
    [] i > 0 /\ text[i] # Joiner /\ text[i+1] \in Extending -> start[i - 1]
    [] i > 0 /\ {text[i], text[i+1]} \subseteq Regional -> i - 1
    [] OTHER -> i

Starts(text) == LET start[i \in 0 .. Len(text)] == Start(text, start, i) IN start

\* The length of the cluster that ends at pos.
utf8PrevCharLen(text, pos) == IF pos = 0 THEN 0 ELSE pos - Starts(text)[pos - 1]

\* The next position after character i + 1, which extends a cluster: a joiner
\* takes the character after it.
Past(text, i) ==
  IF text[i+1] = Joiner /\ i + 1 < Len(text) THEN i + 2 ELSE i + 1

\* The end of a cluster that goes at least to pos.
ClusterEnd(text, pos) ==
  LET end[i \in 0 .. Len(text)] ==
        IF i < Len(text) /\ text[i+1] \in Extending THEN end[Past(text, i)] ELSE i
  IN  end[pos]

\* The same, in a cluster that starts with a regional indicator: another one
\* makes a flag.
FlagEnd(text, pos) ==
  LET end[i \in 0 .. Len(text)] ==
        CASE i < Len(text) /\ text[i+1] \in Extending -> end[Past(text, i)]
          [] i < Len(text) /\ text[i+1] \in Regional -> ClusterEnd(text, i + 1)
          [] OTHER -> i
  IN  end[pos]

\* The length of the cluster that starts at pos.
utf8NextCharLen(text, pos) ==
  CASE pos >= Len(text) -> 0
    [] pos < Len(text) /\ text[pos+1] \in Regional -> FlagEnd(text, pos + 1) - pos
    [] OTHER -> ClusterEnd(text, pos + 1) - pos

-----------------------------------------------------------------------------

\* The positions the cursor stops at, going right from the start of text.
Boundaries(text) ==
  LET stop[k \in 0 .. Len(text)] ==
        IF k = 0 THEN 0 ELSE stop[k-1] + utf8NextCharLen(text, stop[k-1])
  IN  {stop[k] : k \in 0 .. Len(text)}

\* Each joiner has a character to join with another one.
JoinersFollow(text) ==
  \A i \in DOMAIN text : text[i] = Joiner => i > 1 /\ text[i-1] # Joiner

\* The cluster that ends at pos, or goes over it, starts with one regional
\* indicator: another one at pos is a part of it.
HalfFlag(text, pos) ==
  \E i \in 1 .. pos :
    /\ text[i] \in Regional
    /\ \A j \in i + 1 .. pos : text[j] \in Extending \/ text[j-1] = Joiner

\* Position pos is between two characters that may belong to the same cluster.
Inside(text, pos) ==
  /\ 0 < pos /\ pos < Len(text)
  /\ \/ text[pos + 1] \in Extending
     \/ text[pos] = Joiner
     \/ text[pos + 1] \in Regional /\ HalfFlag(text, pos)
=============================================================================
