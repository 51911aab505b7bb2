----------------------------- MODULE MCFsMkdirs -----------------------------
(* Small instances of FsMkdirs for TLC: the paths ".", "a", "a/b", "a/b/c", *)
(* "a/b/d", "e", where there may be a file, and "e/f".                      *)
EXTENDS FsMkdirs

MCPath == {".", "a", "a/b", "a/b/c", "a/b/d", "e", "e/f"}

MCParent == [path \in MCPath |->
  CASE path \in {".", "a", "e"} -> "."
    [] path = "a/b" -> "a"
    [] path = "e/f" -> "e"
    [] OTHER -> "a/b"]

\* The same path, and a path that shares no missing parent with it.
WantSame == [p \in Proc |-> IF p = "r" THEN "e/f" ELSE "a/b/c"]

\* Two paths with the same missing parents.
WantTwo  == [p \in Proc |-> IF p = "p" THEN "a/b/c" ELSE "a/b/d"]
=============================================================================
