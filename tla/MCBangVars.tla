----------------------------- MODULE MCBangVars -----------------------------
(* Small instance of BangVars for TLC. *)
EXTENDS BangVars

x == word("x")

\* Chains of variables, through builddir or not, and recursive definitions.
MCValue == {<<x>>, <<ref("a")>>, <<x, ref("b")>>, <<ref(builddir), ref("b")>>}

MCQuery == {<<ref("a"), x>>, <<ref("b"), ref("a")>>}

MCDefaultBuilddir == <<word(".build")>>

\* "1.13.0", the version bang needs, and others.
MCDefaultVersion == <<1, 13, 0>>
MCVersion == {<<1, 13>>, <<1, 14, 2>>, <<0, 20, 1>>}
=============================================================================
