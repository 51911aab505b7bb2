--------------------------- MODULE MCReplHistory ---------------------------
(* Small instances of ReplHistory for TLC. *)
EXTENDS ReplHistory

\* One line is longer than the initial buffer, another than any line.
MCLine == {<<>>, <<"a">>, <<"a", "b">>, <<"a", "b", "lf">>}

\* readline falls back on linenoise; a script can use linenoise anyway.
MCBackends == {[s \in Session |-> IF s \in Script THEN "linenoise" ELSE b] :
                 b \in {"readline", "linenoise"}}
=============================================================================
