------------------------------ MODULE MCFsWalk ------------------------------
(* Small instances of FsWalk for TLC. *)
EXTENDS FsWalk

\* Names in alphabetic order.
MCRank == [n \in Node |-> CHOOSE i \in 1 .. 10 :
             n = <<"a", "b", "e", "f", "g", "l", "m", "o", "r", "top">>[i]]

\* The walked directory r contains a, which may contain b, which may contain
\* o; o may also be outside.  It is on another device or not.  There are two files
\* that come or go, one that is outside and stays, and two links.
MCTrees ==
  {[parent |-> [n \in Node \ {"top"} |->
      CASE n = "b" -> pb [] n = "o" -> po [] n = "f" -> pf [] n = "g" -> pg
        [] n = "l" -> pl [] n = "m" -> "b" [] n = "a" -> "r" [] n \in {"r", "e"} -> "top"],
    target |-> [n \in Link |-> IF n = "l" THEN tl ELSE tm],
    dev |-> [n \in Node |-> IF far /\ n = "o" THEN 2 ELSE 1]] :
   pb \in {"r", "a"}, po \in {"top", "b"}, pf \in {"b", "o"}, pg \in {"a"},
   pl \in {"r", "o"}, tl \in Dir \cup {"e", "f", "nothing"},
   tm \in {"a", "r", "o", "e", "nothing"}, far \in BOOLEAN}

\* One link, out of the walked directory.
LinkOut == {t \in MCTrees :
  /\ t.parent["o"] = "top" /\ t.parent["f"] = "o" /\ t.parent["l"] = "r"
  /\ t.target["l"] = "o" /\ t.target["m"] = "e" /\ \A n \in Node : t.dev[n] = 1}
=============================================================================
