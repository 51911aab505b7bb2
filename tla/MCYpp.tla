------------------------------- MODULE MCYpp --------------------------------
(* Small instances of Ypp for TLC. *)
EXTENDS YppExpansion

txt == [op |-> "text"]
item(o, c)         == [op |-> o, char |-> c]
on_file(o, c, f)   == [op |-> o, char |-> c, file |-> f]
macro(c, new)      == [op |-> "macro", char |-> c, new |-> new]
give(o, c, fn)     == [op |-> o, char |-> c, fn |-> fn]
on_output(o, c, n) == [op |-> o, char |-> c, name |-> n]
putdefer(c, n, fn) == [op |-> "putdefer", char |-> c, name |-> n, fn |-> fn]

\* Sequences of n items.
Items(S, n) == [1 .. n -> S]

\* All the libraries where file "a" has n items of S; the files it includes,
\* "b" then "c", have the given items.
LibraryOf(S, n, b, c) ==
  {[f \in {"a", "b", "c"} |-> CASE f = "a" -> s [] f = "b" -> b [] f = "c" -> c] :
     s \in Items(S, n)}

-----------------------------------------------------------------------------
(* Expansion of documents, local configurations and errors. *)

OneInput == <<"a">>
TwoInputs == <<"a", "b">>

DocItems ==
  {txt, item("count", "@"), item("show", "@"), item("show", "#"),
   macro("@", "#"), macro("#", "@"),
   on_file("include", "@", "b"), on_file("include", "#", "b"),
   on_file("ypp", "@", "c"), on_file("include", "@", "none"),
   give("defer", "@", "show"), give("defer", "#", "show"), item("error", "#")}

DocLibrary ==
  LibraryOf(DocItems, 3,
            <<item("show", "@"), on_file("ypp", "@", "c"), item("count", "#")>>,
            <<item("count", "@"), macro("@", "#")>>)

-----------------------------------------------------------------------------
(* atexit, defer, file and the dependency file. *)

MCBody == [fn \in Fn |->
  CASE fn = "read"  -> <<on_file("read", NoChar, "c"), item("count", NoChar)>>
    [] fn = "again" -> <<give("atexit", NoChar, "read"),
                         give("atexit", NoChar, "count")>>
    [] fn = "count" -> <<item("count", NoChar), on_output("file", NoChar, "x"),
                         on_output("put", NoChar, "x")>>
    [] fn = "show"  -> <<item("show", NoChar)>>
    [] fn = "defer" -> <<give("defer", NoChar, "show"), txt>>
    [] fn = "fail"  -> <<item("error", NoChar)>>
    [] fn = "ypp"   -> <<on_file("ypp", NoChar, "b")>>
    [] fn = "empty" -> <<on_file("ypp", NoChar, "c")>>
    [] fn = "macro" -> <<macro(NoChar, "#")>>
    [] fn \in {"quiet", "table"} -> <<item("count", NoChar)>>]

MCReturns ==
  [fn \in Fn |-> CASE fn = "quiet" -> "nothing"
                   [] fn = "table" -> "other"
                   [] OTHER -> "text"]

\* Functions given to defer only read the state, or fail.
ExitItems ==
  {give("atexit", "@", fn) : fn \in {"read", "again", "count", "defer", "macro"}}
    \cup {give("defer", "@", fn) :
                     fn \in {"show", "fail", "ypp", "empty", "read", "quiet", "table"}}
    \cup {on_file("include", "@", "b"), on_output("file", "@", "y"),
          on_output("put", "@", "y"), on_output("putbool", "@", "y"),
          putdefer("@", "y", "show"),
          item("count", "@"), on_file("read", "@", "none")}

ExitLibrary ==
  LibraryOf(ExitItems, 3, <<give("atexit", "@", "count"), txt>>, <<>>)

MCLibrary == DocLibrary \cup ExitLibrary
=============================================================================
