---------------------------- MODULE MCLineEdit ----------------------------
(* A small instance of LineEdit for TLC: lines of at most four characters. *)
EXTENDS LineEdit

\* "x" is a letter, "m" a combining mark, "z" the zero width joiner and "r" a
\* regional indicator.  The space is also the last character of PasteEnd: a
\* paste can contain any part of PasteEnd.
MCTyped  == {"x", "m", "r"}
MCPasted == {" ", "cr", "lf", "esc"}
MCPasteEnd == <<"esc", " ">>

\* Short, long and multi-line lines, one that is longer than MaxLine.
MCRecalled ==
  {<<"x", " ">>, <<"r", "r", "z", "x">>, <<"r", "lf">>, <<"lf", "m", "x">>,
   <<"x", "z", "x", "m">>, <<"z", "lf", "x", "x", "x">>}
=============================================================================
