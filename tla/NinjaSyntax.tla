---------------------------- MODULE NinjaSyntax -----------------------------
(* The statements of a Ninja file and what a sequence of them defines. *)
EXTENDS Names

Section ==
  {"script", "atexit", "install", "clean", "mrproper", "help", "generator",
   "default"}

Statement ==
       [kind : {"var"},  name : Name]
  \cup [kind : {"pool"}, name : Name]
  \cup [kind : {"rule"}, name : Name, sec : Section]
  \cup [kind : {"build"}, outs : Seq(Name), rule : Name, ins : SUBSET Name,
        implicit_in : SUBSET Name, sec : Section]
  \cup [kind : {"default"}, targets : SUBSET Name, sec : Section]

-----------------------------------------------------------------------------
(* What is defined by a sequence of statements. *)

RuleNames(f)  == {s.name : s \in {t \in Elements(f) : t.kind = "rule"}}
PoolNames(f)  == {s.name : s \in {t \in Elements(f) : t.kind = "pool"}}
BuildsOf(f)   == {s \in Elements(f) : s.kind = "build"}
Targets(f)    == UNION {Elements(s.outs) : s \in BuildsOf(f)}

\* Statement s may follow the statements of f.
Legal(f, s) ==
  /\ s.kind = "rule"  => s.name \notin RuleNames(f) \cup {Plain("phony")}
  /\ s.kind = "pool"  => s.name \notin PoolNames(f)
  /\ s.kind = "build" => /\ s.rule \in RuleNames(f) \cup {Plain("phony")}
                         /\ Distinct(s.outs)
                         /\ Elements(s.outs) \cap Targets(f) = {}
=============================================================================
